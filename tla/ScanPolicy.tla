----------------------------- MODULE ScanPolicy -----------------------------
(***************************************************************************)
(* What the port-scan detector promises, without its data structures: who  *)
(* is reported, when, and with which ports.  Nothing here is lazy: a port  *)
(* is forgotten the moment it is a window old, a silence ends the moment   *)
(* it has run out, and nothing is ever swept.                              *)
(***************************************************************************)
EXTENDS Integers, FiniteSets, Packet

CONSTANTS Sources, Threshold, WindowSeconds, CooldownSeconds, Packets, NoAlert

VARIABLES now,           \* the time of the last packet
          recent,        \* per source, the <<time, port>> pairs still in the window
          remaining,     \* per source and scan type, how long it stays silenced
          alert          \* what the last packet raised

vars == <<now, recent, remaining, alert>>

Stealth == [f \in {"", "F", "FPU"} |->
              CASE f = "" -> "NULL" [] f = "F" -> "FIN" [] OTHER -> "XMAS"]

Kinds == Sources \X {"NULL", "FIN", "XMAS", "SYN"}

Init == /\ now \in Nat
        /\ recent = [s \in Sources |-> {}]
        /\ remaining = [k \in Kinds |-> 0]
        /\ alert = NoAlert

Elapsed(d) == [k \in Kinds |-> IF remaining[k] > d THEN remaining[k] - d ELSE 0]

Aged(t) == [s \in Sources |-> {e \in recent[s] : e[1] >= t - WindowSeconds}]

(* An alert silences its source and scan type for CooldownSeconds.         *)
Report(kind, ports, d) ==
  /\ alert' = [src |-> kind[1], scan |-> kind[2], ports |-> ports]
  /\ remaining' = [Elapsed(d) EXCEPT ![kind] = CooldownSeconds]

Silence(d) == alert' = NoAlert /\ remaining' = Elapsed(d)

IsStealth(p) == p.protocol = "TCP" /\ p.flags \in DOMAIN Stealth

(* Every packet of a stealth scan is reported, unless silenced.            *)
StealthPacket(p, d) ==
  /\ IsStealth(p)
  /\ recent' = Aged(now')
  /\ IF p.src # None /\ Elapsed(d)[<<p.src, Stealth[p.flags]>>] = 0
     THEN Report(<<p.src, Stealth[p.flags]>>, {}, d)
     ELSE Silence(d)

(* More than Threshold ports of a source within the window are reported;   *)
(* the ports count again from zero after a report, and only then.          *)
PortPacket(p, d) ==
  /\ ~IsStealth(p) /\ p.src # None /\ p.port # None
  /\ LET pairs == Aged(now')[p.src] \cup {<<now', p.port>>}
         ports == {e[2] : e \in pairs}
         fires == Cardinality(ports) > Threshold /\ Elapsed(d)[<<p.src, "SYN">>] = 0
     IN  /\ recent' = [Aged(now') EXCEPT ![p.src] = IF fires THEN {} ELSE pairs]
         /\ IF fires THEN Report(<<p.src, "SYN">>, ports, d) ELSE Silence(d)

OtherPacket(p, d) ==
  /\ ~IsStealth(p) /\ (p.src = None \/ p.port = None)
  /\ recent' = Aged(now')
  /\ Silence(d)

(* Packets come in order of time, and any time apart.                      *)
Next == \E p \in Packets :
          LET d == now' - now
          IN  /\ now' \in Nat /\ d >= 0
              /\ StealthPacket(p, d) \/ PortPacket(p, d) \/ OtherPacket(p, d)

Spec == Init /\ [][Next]_vars
=============================================================================
