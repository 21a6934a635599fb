----------------------------- MODULE BruteForce -----------------------------
(***************************************************************************)
(* core/detectors/brute_force.py: BruteForceDetector._process(), one step  *)
(* per packet.  The detector has one thread, so a call is atomic.  Time is *)
(* the packet's timestamp; whoever delivers the packet sets it.            *)
(***************************************************************************)
EXTENDS Integers, Sequences, FiniteSets, Packet

CONSTANTS
  Threshold,             \* ssh_, http_ and https_threshold
  WindowSeconds,         \* ssh_, http_ and https_window_seconds
  CooldownSeconds,       \* cooldown_seconds
  Packets,               \* bound: the packets that arrive
  Epoch,                 \* the time before the first packet
  MaxStep                \* bound: the longest time between two packets

Services == {SSH, HTTP, HTTPS}

BruteForceAssumption ==
  /\ Threshold \in [Services -> Nat \ {0}]
  /\ WindowSeconds \in [Services -> Nat \ {0}]
  /\ CooldownSeconds \in Nat \ {0}
  /\ Epoch \in Nat /\ MaxStep \in Nat

Key(p) == <<p.src, p.dst, p.port>>

Keys == {Key(p) : p \in Packets}

SW == INSTANCE SlidingWindow
CT == INSTANCE Cooldown WITH Period <- CooldownSeconds

VARIABLES
  now,                   \* the time of the last packet
  windows,               \* _windows: (src_ip, dst_ip, dst_port) -> SlidingWindow
  lastSweep,             \* _last_sweep
  cooldown,              \* _cooldown: (src_ip, dst_ip, dst_port) -> last alert time
  history                \* for the properties: every login attempt so far and the
                         \* attempt_count of the alert it raised, 0 if none

vars == <<now, windows, lastSweep, cooldown, history>>

Init ==
  /\ now = Epoch
  /\ windows = [k \in {} |-> <<>>]
  /\ lastSweep = 0
  /\ cooldown = CT!NewTracker
  /\ history = <<>>

(* A SYN to the ports of SSH and HTTPS, a posted login form to that of     *)
(* HTTP.                                                                   *)
IsAttempt(p) ==
  /\ p.src # None /\ p.dst # None
  /\ \/ p.port \in {SSH, HTTPS} /\ p.flags = "S"
     \/ p.port = HTTP /\ p.login

(* "cadence = shortest service window"                                     *)
SweepInterval ==
  CHOOSE n \in {WindowSeconds[s] : s \in Services} : \A s \in Services : n <= WindowSeconds[s]

(* Mutant: sweeps every third interval only.                               *)
SweepDueLate(t) == t - lastSweep > 3 * SweepInterval

SweepDue(t) == t - lastSweep >= SweepInterval

(* _maybe_sweep(): _windows and _last_sweep after it.                      *)
Swept(t) == IF SweepDue(t) THEN SW!PruneIdle(windows, t) ELSE windows

Sweep(t) == lastSweep' = IF SweepDue(t) THEN t ELSE lastSweep

(* Mutant: one attempt more is allowed.                                    *)
TooManyAbove(count, service) == count > Threshold[service]

TooMany(count, service) == count >= Threshold[service]

(* Not TCP: nothing happens, not even a sweep.                             *)
Ignored(p) ==
  /\ p.protocol # "TCP"
  /\ UNCHANGED <<windows, lastSweep, cooldown, history>>

OtherPacket(p) ==
  /\ p.protocol = "TCP" /\ ~IsAttempt(p)
  /\ Sweep(now')
  /\ windows' = Swept(now')
  /\ UNCHANGED <<cooldown, history>>

(* _record(), while the key is silenced: the attempt is not even counted.  *)
SilencedAttempt(p) ==
  LET key == Key(p)
  IN  /\ p.protocol = "TCP" /\ IsAttempt(p) /\ CT!IsCooling(cooldown, key, now')
      /\ Sweep(now')
      /\ windows' = Swept(now')
      /\ history' = Append(history, [key |-> key, ts |-> now', alerted |-> 0])
      /\ UNCHANGED cooldown

(* _record(), otherwise: w is the key's window with the attempt in it.     *)
Judge(key, swept, w) ==
  LET count == SW!CountOf(w, "none")
      fired == TooMany(count, key[3])
  IN  /\ windows' = SW!With(swept, key, IF fired THEN SW!Cleared(w) ELSE w)
      /\ cooldown' = IF fired THEN CT!Mark(cooldown, key, now') ELSE cooldown
      /\ history' = Append(history, [key |-> key, ts |-> now',
                                     alerted |-> IF fired THEN count ELSE 0])

(* Mutant: every window has the length of the shortest.                    *)
SecondsShortest(key) == SweepInterval

Seconds(key) == WindowSeconds[key[3]]

CountAttempt(key, swept) ==
  Judge(key, swept, SW!Add(SW!WindowOf(swept, key, Seconds(key)), now', "none"))

CountedAttempt(p) ==
  /\ p.protocol = "TCP" /\ IsAttempt(p) /\ ~CT!IsCooling(cooldown, Key(p), now')
  /\ Sweep(now')
  /\ CountAttempt(Key(p), Swept(now'))

Process(p) == Ignored(p) \/ OtherPacket(p) \/ SilencedAttempt(p) \/ CountedAttempt(p)

Next == \E p \in Packets, d \in 0 .. MaxStep : now' = now + d /\ Process(p)

Spec == Init /\ [][Next]_vars
-----------------------------------------------------------------------------
TypeOK ==
  /\ now \in Nat /\ lastSweep \in 0 .. now
  /\ DOMAIN windows \subseteq Keys /\ DOMAIN cooldown.last \subseteq Keys
  /\ \A k \in DOMAIN windows : \A i \in 1 .. Len(windows[k].log) :
       windows[k].log[i].ts \in 0 .. now
  /\ \A k \in DOMAIN cooldown.last : cooldown.last[k] \in 0 .. now

(* What the detector promises, said without windows, sweeps or counters:   *)
(* of the attempts on a key those made while it is silenced never count;   *)
(* an attempt raises an alert exactly if, with it, the threshold is        *)
(* reached by attempts within one window and after the last alert; and the *)
(* alert states their number (brute_force.py, _record()).                  *)
SameKey(i, j) == history[i].key = history[j].key

Silenced(i) ==
  \E j \in 1 .. i - 1 : /\ SameKey(i, j) /\ history[j].alerted > 0
                        /\ history[i].ts - history[j].ts < CooldownSeconds

CountsFor(i) ==
  {j \in 1 .. i : /\ SameKey(i, j) /\ ~Silenced(j)
                  /\ history[j].ts >= history[i].ts - WindowSeconds[history[i].key[3]]
                  /\ \A m \in j .. i - 1 : ~(SameKey(i, m) /\ history[m].alerted > 0)}

AlertsExact ==
  \A i \in 1 .. Len(history) :
    LET n == Cardinality(CountsFor(i))
    IN  history[i].alerted =
          IF ~Silenced(i) /\ n >= Threshold[history[i].key[3]] THEN n ELSE 0

(* No burst is lost in a cooldown: whenever as many attempts as the        *)
(* threshold fall into one window, whether or not they were counted, the   *)
(* key was reported no longer ago than a window and a cooldown.            *)
BurstReported ==
  \A i \in 1 .. Len(history) :
    LET length == WindowSeconds[history[i].key[3]]
        burst  == {j \in 1 .. i : SameKey(i, j) /\ history[j].ts >= history[i].ts - length}
    IN  Cardinality(burst) >= Threshold[history[i].key[3]] =>
          \E j \in 1 .. i : /\ SameKey(i, j) /\ history[j].alerted > 0
                            /\ history[j].ts > history[i].ts - length - CooldownSeconds

(* Bounded memory (brute_force.py, _maybe_sweep()): at every login attempt *)
(* and after it, a key still kept has an attempt no older than its window  *)
(* and a sweep interval, or was reported within the last interval.         *)
KeysForgotten ==
  history # <<>> =>
    LET last == history[Len(history)].ts
    IN  \A k \in DOMAIN windows :
          LET log == windows[k].log
          IN  IF log = <<>>
              THEN \E i \in 1 .. Len(history) :
                     /\ history[i].key = k /\ history[i].alerted > 0
                     /\ history[i].ts > last - SweepInterval
              ELSE log[Len(log)].ts > last - SweepInterval - WindowSeconds[k[3]]
=============================================================================
