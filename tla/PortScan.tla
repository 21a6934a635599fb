------------------------------ MODULE PortScan ------------------------------
(***************************************************************************)
(* core/detectors/port_scan.py: PortScanDetector._process(), one step per  *)
(* packet taken off the detector's queue, with the whole of what the call  *)
(* changes: the sweep, the source's window, the cooldown, the alert.       *)
(* The detector has one thread, so a call is atomic.  Time is the packet's *)
(* timestamp; whoever delivers the packet sets it.                         *)
(***************************************************************************)
EXTENDS Integers, Sequences, FiniteSets, Packet

CONSTANTS
  Threshold,             \* threshold_ports
  WindowSeconds,         \* window_seconds
  CooldownSeconds,       \* cooldown_seconds
  Packets,               \* bound: the packets that arrive
  Epoch,                 \* the time before the first packet
  MaxStep                \* bound: the longest time between two packets

Sources == {p.src : p \in Packets} \ {None}
Ports == {p.port : p \in Packets} \ {None}

PortScanAssumption ==
  /\ Threshold \in Nat
  /\ WindowSeconds \in Nat \ {0} /\ CooldownSeconds \in Nat \ {0}
  /\ Epoch \in Nat /\ MaxStep \in Nat

NoAlert == [src |-> None, scan |-> None, ports |-> {}]

SW == INSTANCE SlidingWindow
CT == INSTANCE Cooldown WITH Period <- CooldownSeconds

VARIABLES
  now,                   \* the time of the last packet
  windows,               \* _windows: src_ip -> SlidingWindow of ports
  lastSweep,             \* _last_sweep
  cooldown,              \* _cooldown: (src_ip, scan_type) -> last alert time
  alert                  \* what the last packet put on the alert queue

vars == <<now, windows, lastSweep, cooldown, alert>>

Init ==
  /\ now = Epoch
  /\ windows = [s \in {} |-> SW!NewWindow(WindowSeconds)]
  /\ lastSweep = 0
  /\ cooldown = CT!NewTracker
  /\ alert = NoAlert

(* The flags that give a stealth scan away, and its scan_type.             *)
Stealth == [f \in {"", "F", "FPU"} |->
              CASE f = "" -> "NULL" [] f = "F" -> "FIN" [] OTHER -> "XMAS"]

IsStealth(p) == p.protocol = "TCP" /\ p.flags \in DOMAIN Stealth

(* Mutant: sweeps a period late.                                           *)
SweepDueLate(t) == t - lastSweep > 2 * WindowSeconds

SweepDue(t) == t - lastSweep >= WindowSeconds

(* _maybe_sweep(): _windows and _last_sweep after it.                      *)
Swept(t) == IF SweepDue(t) THEN SW!PruneIdle(windows, t) ELSE windows

Sweep(t) == lastSweep' = IF SweepDue(t) THEN t ELSE lastSweep

(* _emit(): is an alert let through?                                       *)
LetThrough(src, scan, t) == src # None /\ ~CT!IsCooling(cooldown, <<src, scan>>, t)

Emit(src, scan, ports, t) ==
  /\ alert' = [src |-> src, scan |-> scan, ports |-> ports]
  /\ cooldown' = CT!Mark(cooldown, <<src, scan>>, t)

Suppressed == alert' = NoAlert /\ UNCHANGED cooldown

StealthPacket(p) ==
  /\ IsStealth(p)
  /\ Sweep(now')
  /\ windows' = Swept(now')
  /\ IF LetThrough(p.src, Stealth[p.flags], now')
     THEN Emit(p.src, Stealth[p.flags], {}, now')
     ELSE Suppressed

OverThreshold(w) == SW!Distinct(w) > Threshold

(* Mutant: the window is emptied whether or not the alert was let through. *)
AfterAlertAlways(w, fired) == IF OverThreshold(w) THEN SW!Cleared(w) ELSE w

(* "Reset only once we actually alerted."                                  *)
AfterAlert(w, fired) == IF fired THEN SW!Cleared(w) ELSE w

(* w is the source's window with the packet's port in it.                  *)
Judge(p, swept, w) ==
  LET fired == OverThreshold(w) /\ LetThrough(p.src, "SYN", now')
  IN  /\ windows' = SW!With(swept, p.src, AfterAlert(w, fired))
      /\ IF fired THEN Emit(p.src, "SYN", DOMAIN w.counts, now') ELSE Suppressed

CountPort(p, swept) == Judge(p, swept, SW!Add(SW!WindowOf(swept, p.src, WindowSeconds), now', p.port))

PortPacket(p) ==
  /\ ~IsStealth(p) /\ p.src # None /\ p.port # None
  /\ Sweep(now')
  /\ CountPort(p, Swept(now'))

OtherPacket(p) ==
  /\ ~IsStealth(p) /\ (p.src = None \/ p.port = None)
  /\ Sweep(now')
  /\ windows' = Swept(now')
  /\ Suppressed

Process(p) == StealthPacket(p) \/ PortPacket(p) \/ OtherPacket(p)

Next == \E p \in Packets, d \in 0 .. MaxStep : now' = now + d /\ Process(p)

Spec == Init /\ [][Next]_vars
-----------------------------------------------------------------------------
ScanTypes == {"NULL", "FIN", "XMAS", "SYN"}

(* The per-source windows and the cooldown hold what they should, and none *)
(* of it is of the future.                                                 *)
TypeOK ==
  /\ now \in Nat /\ lastSweep \in 0 .. now
  /\ DOMAIN windows \subseteq Sources
  /\ \A s \in DOMAIN windows :
       /\ \A i \in 1 .. Len(windows[s].log) :
            windows[s].log[i].ts \in 0 .. now /\ windows[s].log[i].key \in Ports
       /\ windows[s].counts \in [DOMAIN windows[s].counts -> Nat \ {0}]
  /\ DOMAIN cooldown.last \subseteq Sources \X ScanTypes
  /\ \A k \in DOMAIN cooldown.last : cooldown.last[k] \in 0 .. now

(* Bounded memory (port_scan.py, lines 121-123): src_ip is spoofable, so   *)
(* the dictionary must forget.  Whenever a packet has been processed, a    *)
(* source still kept has been heard of within two windows, or its window   *)
(* was emptied by an alert since the last sweep.                           *)
Heard(s) ==
  LET log == windows[s].log IN log # <<>> /\ log[Len(log)].ts > now - 2 * WindowSeconds

SourcesForgotten ==
  \A s \in DOMAIN windows :
    \/ Heard(s)
    \/ /\ windows[s].log = <<>>
       /\ <<s, "SYN">> \in DOMAIN cooldown.last
       /\ cooldown.last[<<s, "SYN">>] >= lastSweep

(* The detector implements the policy: sweeps, lazy expiry, the counter    *)
(* kept beside the deque and the pruned cooldown dictionary change neither *)
(* who is reported nor when nor with which ports.                          *)
Recent(s) ==
  IF s \notin DOMAIN windows THEN {}
  ELSE LET log   == windows[s].log
           fresh == {i \in 1 .. Len(log) : log[i].ts >= now - WindowSeconds}
       IN  {<<log[i].ts, log[i].key>> : i \in fresh}

Remaining(k) ==
  IF CT!IsCooling(cooldown, k, now) THEN cooldown.last[k] + CooldownSeconds - now ELSE 0

Policy == INSTANCE ScanPolicy
            WITH recent <- [s \in Sources |-> Recent(s)],
                 remaining <- [k \in Sources \X ScanTypes |-> Remaining(k)]

FollowsPolicy == Policy!Spec
=============================================================================
