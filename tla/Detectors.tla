----------------------------- MODULE Detectors ------------------------------
(***************************************************************************)
(* The five detectors behind one capture.  Each has its own queue and its  *)
(* own thread, and shares no state with the others: what each does with    *)
(* its n-th packet does not depend on when the others get to it, so one    *)
(* step takes one packet through all five.  Time is that of the packets,   *)
(* which arrive in order; every detector forgets, silences and evaluates   *)
(* by it.                                                                  *)
(***************************************************************************)
EXTENDS Integers, Sequences, FiniteSets, Packet

CONSTANTS
  ScanPorts, ScanWindow, ScanCooldown,              \* detectors.port_scan
  Logins, LoginWindows, LoginCooldown,              \* detectors.brute_force
  RatioMedium, RatioHigh, FloodWindow, MinSyn,
  FloodCooldown,                                    \* detectors.syn_flood
  Long, Encoded, Queries, QueryWindow,
  QueryCooldown,                                    \* detectors.dns_anomaly
  Announcements, AnnounceWindow,                    \* detectors.arp_spoof
  Mixes,                 \* bound: the kinds of traffic by name, each with the packets
                         \* that arrive, the gaps between them and their number
  Epoch                  \* the time before the first packet

Kinds == DOMAIN Mixes
Packets == UNION {Mixes[k].packets : k \in Kinds}
Gaps == UNION {Mixes[k].gaps : k \in Kinds}
MaxStep == CHOOSE n \in Gaps : \A g \in Gaps : g <= n

NoAlert == [src |-> None, scan |-> None, ports |-> {}]

VARIABLES
  traffic,               \* the kind of traffic
  left,                  \* the number of packets still to come
  now,                   \* the time of the last packet
  psWindows, psSweep, psCooldown, psAlert,                  \* PortScanDetector
  bfWindows, bfSweep, bfCooldown, bfHistory,                \* BruteForceDetector
  sfWindows, sfCooldown, sfEval, sfHistory, sfReports,      \* SynFloodDetector
  dnWindows, dnSweep, dnCooldown, dnHistory,                \* DnsAnomalyDetector
  arTable, arGratuitous, arSweep, arHistory                 \* ArpSpoofDetector

PS == INSTANCE PortScan
        WITH Threshold <- ScanPorts, WindowSeconds <- ScanWindow,
             CooldownSeconds <- ScanCooldown,
             windows <- psWindows, lastSweep <- psSweep, cooldown <- psCooldown,
             alert <- psAlert
BF == INSTANCE BruteForce
        WITH Threshold <- Logins, WindowSeconds <- LoginWindows,
             CooldownSeconds <- LoginCooldown,
             windows <- bfWindows, lastSweep <- bfSweep, cooldown <- bfCooldown,
             history <- bfHistory
SF == INSTANCE SynFlood
        WITH WindowSeconds <- FloodWindow, CooldownSeconds <- FloodCooldown,
             windows <- sfWindows, cooldown <- sfCooldown, lastEval <- sfEval,
             history <- sfHistory, reports <- sfReports
DN == INSTANCE DnsAnomaly
        WITH Threshold <- Queries, WindowSeconds <- QueryWindow,
             CooldownSeconds <- QueryCooldown,
             windows <- dnWindows, lastSweep <- dnSweep, cooldown <- dnCooldown,
             history <- dnHistory
AR == INSTANCE ArpSpoof
        WITH Threshold <- Announcements, WindowSeconds <- AnnounceWindow,
             arpTable <- arTable, gratuitous <- arGratuitous, lastSweep <- arSweep,
             history <- arHistory

ASSUME DetectorsAssumption ==
  /\ PS!PortScanAssumption /\ BF!BruteForceAssumption /\ SF!SynFloodAssumption
  /\ DN!DnsAnomalyAssumption /\ AR!ArpSpoofAssumption
  /\ \A k \in Kinds : Mixes[k].gaps \subseteq Nat /\ Mixes[k].left \in Nat

Init ==
  /\ traffic \in Kinds
  /\ left = Mixes[traffic].left
  /\ PS!Init /\ BF!Init /\ SF!Init /\ DN!Init /\ AR!Init

Deliver(p, gap) ==
  /\ left > 0
  /\ left' = left - 1
  /\ UNCHANGED traffic
  /\ now' = now + gap
  /\ PS!Process(p) /\ BF!Process(p) /\ SF!Process(p) /\ DN!Process(p) /\ AR!Process(p)

Next == \E p \in Mixes[traffic].packets, gap \in Mixes[traffic].gaps : Deliver(p, gap)

psVars == <<psWindows, psSweep, psCooldown, psAlert>>
bfVars == <<bfWindows, bfSweep, bfCooldown, bfHistory>>
sfVars == <<sfWindows, sfCooldown, sfEval, sfHistory, sfReports>>
dnVars == <<dnWindows, dnSweep, dnCooldown, dnHistory>>
arVars == <<arTable, arGratuitous, arSweep, arHistory>>

vars == <<traffic, left, now, psVars, bfVars, sfVars, dnVars, arVars>>

Spec == Init /\ [][Next]_vars
-----------------------------------------------------------------------------
(* Each detector's own type invariant.                                     *)
TypeOK == PS!TypeOK /\ BF!TypeOK /\ SF!TypeOK /\ DN!TypeOK /\ AR!TypeOK

(* The port-scan detector implements ScanPolicy: sweeps, lazy expiry, the  *)
(* counter kept beside the deque and the pruned cooldown dictionary change *)
(* neither who is reported nor when nor with which ports                   *)
(* (port_scan.py, _process()).                                             *)
ScansFollowPolicy == PS!FollowsPolicy

(* A login attempt is reported exactly if, with it, the threshold of its   *)
(* service is reached by attempts that count, and with their number        *)
(* (brute_force.py, _record()).                                            *)
LoginsExact == BF!AlertsExact

(* An evaluation reports exactly the targets that deserve it and are not   *)
(* in their cooldown, as the severity they deserve (syn_flood.py,          *)
(* _evaluate_all()).                                                       *)
FloodsExact == SF!ReportsExact

(* A packet is weighed unless no TCP packet comes between the moment an    *)
(* evaluation is due and its expiry (syn_flood.py, lines 99-106).          *)
WeighedInTime == SF!WeighedInTime

(* syn_flood.py, lines 99-100, of which it is violated: no MEDIUM alert    *)
(* locks the cooldown before HIGH is reachable.                            *)
HighNotMasked == SF!HighNotMasked

(* A query raises the alert its name or its number deserves, unless its    *)
(* source and name are silenced (dns_anomaly.py, _process()).              *)
QueriesExact == DN!AlertsExact

(* Every change of an address's MAC is reported, once (arp_spoof.py,       *)
(* _check_mac_conflict()).                                                 *)
ConflictsExact == AR!ConflictsExact

(* Floods of unsolicited ARP replies are reported exactly, with their      *)
(* number (arp_spoof.py, _check_gratuitous_flood()).                       *)
AnnouncementsExact == AR!FloodsExact

(* No burst is lost in a cooldown or to the clearing of a window: of login *)
(* attempts (brute_force.py, lines 131-134 and 155-158), of queries for a  *)
(* name (dns_anomaly.py, lines 112-141), of announcements (arp_spoof.py,   *)
(* _check_gratuitous_flood()), of packets an evaluation of the SYN flood   *)
(* detector has before it (syn_flood.py, _evaluate()).                     *)
BurstReported ==
  BF!BurstReported /\ DN!BurstReported /\ AR!BurstReported /\ SF!FloodReported

(* Bounded memory: whatever the packets claim to be, no detector keeps the *)
(* window of an address it has not heard of for two windows (the           *)
(* _maybe_sweep() of port_scan.py, brute_force.py, dns_anomaly.py and      *)
(* arp_spoof.py).                                                          *)
IdleForgotten ==
  /\ PS!SourcesForgotten /\ BF!KeysForgotten /\ DN!SourcesForgotten /\ AR!MacsForgotten
=============================================================================
