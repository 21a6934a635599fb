------------------------------ MODULE ArpSpoof ------------------------------
(***************************************************************************)
(* core/detectors/arp_spoof.py: ArpSpoofDetector._process(), one step per  *)
(* packet.  A packet may raise two alerts, and no cooldown holds any of    *)
(* them back.  The detector has one thread, so a call is atomic.           *)
(***************************************************************************)
EXTENDS Integers, Sequences, FiniteSets, Packet

CONSTANTS
  Threshold,             \* gratuitous_threshold
  WindowSeconds,         \* gratuitous_window_seconds
  Packets,               \* bound: the packets that arrive
  Epoch,                 \* the time before the first packet
  MaxStep                \* bound: the longest time between two packets

IPs == {p.src : p \in Packets} \ {None}
MACs == {p.mac : p \in Packets} \ {None}

ArpSpoofAssumption ==
  /\ Threshold \in Nat /\ WindowSeconds \in Nat \ {0}
  /\ Epoch \in Nat /\ MaxStep \in Nat

SW == INSTANCE SlidingWindow

VARIABLES
  now,                   \* the time of the last packet
  arpTable,              \* _arp_table: src_ip -> src_mac
  gratuitous,            \* _gratuitous: src_mac -> SlidingWindow
  lastSweep,             \* _last_sweep
  history                \* for the properties: the packets with both addresses so
                         \* far; did each raise a conflict, and a flood of how many?

vars == <<now, arpTable, gratuitous, lastSweep, history>>

Init ==
  /\ now = Epoch
  /\ arpTable = [ip \in {} |-> ip]
  /\ gratuitous = [m \in {} |-> SW!NewWindow(WindowSeconds)]
  /\ lastSweep = 0
  /\ history = <<>>

(* Mutant: sweeps every third window only.                                 *)
SweepDueLate(t) == t - lastSweep > 3 * WindowSeconds

SweepDue(t) == t - lastSweep >= WindowSeconds

(* _maybe_sweep(): _gratuitous and _last_sweep after it.                   *)
Swept(t) == IF SweepDue(t) THEN SW!PruneIdle(gratuitous, t) ELSE gratuitous

Sweep(t) == lastSweep' = IF SweepDue(t) THEN t ELSE lastSweep

(* Mutant: the first address learnt is kept for good.                      *)
LearnedOnce(ip, mac) ==
  [i \in DOMAIN arpTable \cup {ip} |-> IF i \in DOMAIN arpTable THEN arpTable[i] ELSE mac]

(* _check_mac_conflict(): the table after it, and does it raise an alert?  *)
Learned(ip, mac) ==
  [i \in DOMAIN arpTable \cup {ip} |-> IF i = ip THEN mac ELSE arpTable[i]]

Conflict(ip, mac) == ip \in DOMAIN arpTable /\ arpTable[ip] # mac

(* Mutant: the threshold itself is too many.                               *)
TooManyInclusive(count) == count >= Threshold

TooMany(count) == count > Threshold

Ignored(p) ==
  /\ p.protocol # "ARP"
  /\ UNCHANGED <<arpTable, gratuitous, lastSweep, history>>

(* An ARP packet with an address of no length.                             *)
NoAddress(p) ==
  /\ p.src = None \/ p.mac = None
  /\ gratuitous' = Swept(now')
  /\ UNCHANGED <<arpTable, history>>

(* An unsolicited reply: arp_op = 2 and src_ip = dst_ip.                   *)
Announces(p) == p.reply /\ p.src = p.dst

Seen(p, flood) ==
  /\ p.src # None /\ p.mac # None
  /\ arpTable' = Learned(p.src, p.mac)
  /\ history' = Append(history, [ip |-> p.src, mac |-> p.mac, ts |-> now',
                                 announces |-> Announces(p),
                                 conflict |-> Conflict(p.src, p.mac), flood |-> flood])

Plain(p) ==
  /\ ~Announces(p)
  /\ gratuitous' = Swept(now')
  /\ Seen(p, 0)

(* _check_gratuitous_flood(), w being the MAC's window with the reply.     *)
Judge(p, swept, w) ==
  LET count == SW!CountOf(w, None)
  IN  \/ /\ TooMany(count)
         /\ gratuitous' = SW!With(swept, p.mac, SW!Cleared(w))
         /\ Seen(p, count)
      \/ /\ ~TooMany(count)
         /\ gratuitous' = SW!With(swept, p.mac, w)
         /\ Seen(p, 0)

CountReply(p, swept) == Judge(p, swept, SW!Add(SW!WindowOf(swept, p.mac, WindowSeconds), now', None))

Gratuitous(p) == Announces(p) /\ CountReply(p, Swept(now'))

ArpPacket(p) ==
  /\ p.protocol = "ARP"
  /\ Sweep(now')
  /\ NoAddress(p) \/ Plain(p) \/ Gratuitous(p)

Process(p) == Ignored(p) \/ ArpPacket(p)

Next == \E p \in Packets, d \in 0 .. MaxStep : now' = now + d /\ Process(p)

Spec == Init /\ [][Next]_vars
-----------------------------------------------------------------------------
TypeOK ==
  /\ now \in Nat /\ lastSweep \in 0 .. now
  /\ DOMAIN arpTable \subseteq IPs /\ \A ip \in DOMAIN arpTable : arpTable[ip] \in MACs
  /\ DOMAIN gratuitous \subseteq MACs
  /\ \A m \in DOMAIN gratuitous : \A i \in 1 .. Len(gratuitous[m].log) :
       gratuitous[m].log[i].ts \in 0 .. now

(* Every change of an address's MAC is reported, at the packet that brings *)
(* it and only there, however often it changes back and forth              *)
(* (arp_spoof.py, _check_mac_conflict()).                                  *)
ConflictsExact ==
  \A i \in 1 .. Len(history) :
    history[i].conflict <=>
      \E j \in 1 .. i - 1 :
        /\ history[j].ip = history[i].ip /\ history[j].mac # history[i].mac
        /\ \A m \in j + 1 .. i - 1 : history[m].ip # history[i].ip

(* Said without windows and sweeps: an announcement is reported exactly if *)
(* those of its MAC, under any address, within one window and since the    *)
(* last report, are more than the threshold, and with their number         *)
(* (arp_spoof.py, _check_gratuitous_flood()).                              *)
Announced(i) ==
  {j \in 1 .. i : /\ history[j].mac = history[i].mac /\ history[j].announces
                  /\ history[j].ts >= history[i].ts - WindowSeconds
                  /\ \A m \in j .. i - 1 :
                       ~(history[m].mac = history[i].mac /\ history[m].flood > 0)}

FloodsExact ==
  \A i \in 1 .. Len(history) :
    LET n == Cardinality(Announced(i))
    IN  history[i].flood = IF history[i].announces /\ n > Threshold THEN n ELSE 0

(* No burst is lost to the clearing of the window after a report: whenever *)
(* more announcements of a MAC than the threshold fall into one window, it *)
(* was reported within that window.                                        *)
BurstReported ==
  \A i \in 1 .. Len(history) :
    LET start == history[i].ts - WindowSeconds
        burst == {j \in 1 .. i : /\ history[j].mac = history[i].mac /\ history[j].announces
                                 /\ history[j].ts >= start}
    IN  history[i].announces /\ Cardinality(burst) > Threshold =>
          \E j \in 1 .. i : /\ history[j].mac = history[i].mac /\ history[j].flood > 0
                            /\ history[j].ts >= start

(* Bounded memory (arp_spoof.py, _maybe_sweep()): at every packet and      *)
(* after it, a MAC still kept has announced itself within two windows, or  *)
(* was reported within the last one.                                       *)
MacsForgotten ==
  history # <<>> =>
    LET last == history[Len(history)].ts
    IN  \A m \in DOMAIN gratuitous :
          LET log == gratuitous[m].log
          IN  IF log = <<>>
              THEN \E i \in 1 .. Len(history) :
                     /\ history[i].mac = m /\ history[i].flood > 0
                     /\ history[i].ts > last - WindowSeconds
              ELSE log[Len(log)].ts > last - 2 * WindowSeconds
=============================================================================
