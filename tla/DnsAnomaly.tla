----------------------------- MODULE DnsAnomaly -----------------------------
(***************************************************************************)
(* core/detectors/dns_anomaly.py: DnsAnomalyDetector._process(), one step  *)
(* per packet.  The length and the entropy of the leftmost label are facts *)
(* about the name.  The detector has one thread, so a call is atomic.      *)
(***************************************************************************)
EXTENDS Integers, Sequences, FiniteSets, Packet

CONSTANTS
  Long,                  \* names with len(subdomain) > subdomain_max_length
  Encoded,               \* names with entropy > entropy_threshold
  Threshold,             \* query_threshold
  WindowSeconds,         \* query_window_seconds
  CooldownSeconds,       \* cooldown_seconds
  Packets,               \* bound: the packets that arrive
  Epoch,                 \* the time before the first packet
  MaxStep                \* bound: the longest time between two packets

Sources == {p.src : p \in Packets} \ {None}
Names == {p.qname : p \in Packets} \ {None}

DnsAnomalyAssumption ==
  /\ Threshold \in Nat \ {0}
  /\ WindowSeconds \in Nat \ {0} /\ CooldownSeconds \in Nat \ {0}
  /\ Epoch \in Nat /\ MaxStep \in Nat
  /\ \A p \in Packets : p.protocol = "UDP" => p.src # None

SW == INSTANCE SlidingWindow
CT == INSTANCE Cooldown WITH Period <- CooldownSeconds

VARIABLES
  now,                   \* the time of the last packet
  windows,               \* _windows: src_ip -> SlidingWindow of names
  lastSweep,             \* _last_sweep
  cooldown,              \* _cooldown: (src_ip, qname) -> last alert time
  history                \* for the properties: the queries so far, each with the
                         \* reason and value of the alert it raised

vars == <<now, windows, lastSweep, cooldown, history>>

Init ==
  /\ now = Epoch
  /\ windows = [s \in {} |-> SW!NewWindow(WindowSeconds)]
  /\ lastSweep = 0
  /\ cooldown = CT!NewTracker
  /\ history = <<>>

(* Mutant: sweeps every third window only.                                 *)
SweepDueLate(t) == t - lastSweep > 3 * WindowSeconds

SweepDue(t) == t - lastSweep >= WindowSeconds

(* _maybe_sweep(): _windows and _last_sweep after it.                      *)
Swept(t) == IF SweepDue(t) THEN SW!PruneIdle(windows, t) ELSE windows

Sweep(t) == lastSweep' = IF SweepDue(t) THEN t ELSE lastSweep

Silent(src, name, t) == CT!IsCooling(cooldown, <<src, name>>, t)

(* _emit() and the mark that follows it.                                   *)
Alert(src, name, reason, value) ==
  /\ cooldown' = CT!Mark(cooldown, <<src, name>>, now')
  /\ history' = Append(history, [src |-> src, name |-> name, ts |-> now',
                                 reason |-> reason, value |-> value])

NoAlert(src, name) ==
  /\ UNCHANGED cooldown
  /\ history' = Append(history, [src |-> src, name |-> name, ts |-> now',
                                 reason |-> "none", value |-> 0])

(* Only UDP queries to the DNS port are looked at, or even cause a sweep.  *)
IsQuery(p) == p.protocol = "UDP" /\ p.port = DNS /\ p.qname # None

Ignored(p) == ~IsQuery(p) /\ UNCHANGED <<windows, lastSweep, cooldown, history>>

SilentQuery(src, name) ==
  /\ Silent(src, name, now')
  /\ windows' = Swept(now')
  /\ NoAlert(src, name)

(* Signals 1 and 2, in that order: such a query is not counted.            *)
SuspectName(src, name) ==
  /\ ~Silent(src, name, now') /\ name \in Long \cup Encoded
  /\ windows' = Swept(now')
  /\ Alert(src, name, IF name \in Long THEN "LONG_SUBDOMAIN" ELSE "HIGH_ENTROPY", 0)

(* Mutant: the threshold itself is allowed.                                *)
TooManyAbove(count) == count > Threshold

TooMany(count) == count >= Threshold

(* Signal 3, w being the source's window with the name in it.  The window  *)
(* is not cleared by an alert.                                             *)
Judge(src, name, swept, w) ==
  /\ windows' = SW!With(swept, src, w)
  /\ IF TooMany(SW!CountOf(w, name))
     THEN Alert(src, name, "QUERY_FLOOD", SW!CountOf(w, name))
     ELSE NoAlert(src, name)

CountName(src, name, swept) ==
  Judge(src, name, swept, SW!Add(SW!WindowOf(swept, src, WindowSeconds), now', name))

PlainName(src, name) ==
  /\ ~Silent(src, name, now') /\ name \notin Long \cup Encoded
  /\ CountName(src, name, Swept(now'))

(* The code's check for a missing source never bites: parse() takes the    *)
(* protocol and the source from the same layer.                            *)
Query(p) ==
  /\ IsQuery(p)
  /\ Sweep(now')
  /\ \/ SilentQuery(p.src, p.qname)
     \/ SuspectName(p.src, p.qname)
     \/ PlainName(p.src, p.qname)

Process(p) == Ignored(p) \/ Query(p)

Next == \E p \in Packets, d \in 0 .. MaxStep : now' = now + d /\ Process(p)

Spec == Init /\ [][Next]_vars
-----------------------------------------------------------------------------
TypeOK ==
  /\ now \in Nat /\ lastSweep \in 0 .. now
  /\ DOMAIN windows \subseteq Sources /\ DOMAIN cooldown.last \subseteq Sources \X Names
  /\ \A s \in DOMAIN windows :
       /\ windows[s].log # <<>>
       /\ \A i \in 1 .. Len(windows[s].log) :
            windows[s].log[i].key \in Names \ (Long \cup Encoded)
  /\ \A k \in DOMAIN cooldown.last : cooldown.last[k] \in 0 .. now

SamePair(i, j) == history[i].src = history[j].src /\ history[i].name = history[j].name

(* "Each (src_ip, qname) pair is silenced for cooldown_seconds after an    *)
(* alert" (dns_anomaly.py, line 41).                                       *)
Silenced(i) ==
  \E j \in 1 .. i - 1 : /\ SamePair(i, j) /\ history[j].reason # "none"
                        /\ history[i].ts - history[j].ts < CooldownSeconds

Asked(i) ==
  Cardinality({j \in 1 .. i : /\ SamePair(i, j) /\ ~Silenced(j)
                              /\ history[j].ts >= history[i].ts - WindowSeconds})

(* What the detector promises, said without windows, sweeps or counters: a *)
(* query that is not silenced raises the alert its name deserves, or, when *)
(* its source has asked for the name often enough within one window and    *)
(* outside the silence, that of a flood, with their number; any other      *)
(* query raises none (dns_anomaly.py, lines 112-141).                      *)
AlertsExact ==
  \A i \in 1 .. Len(history) :
    LET q == history[i]
        flood == q.name \notin Long \cup Encoded /\ Asked(i) >= Threshold
    IN  /\ q.reason = "LONG_SUBDOMAIN" <=> ~Silenced(i) /\ q.name \in Long
        /\ q.reason = "HIGH_ENTROPY" <=> ~Silenced(i) /\ q.name \in Encoded \ Long
        /\ q.reason = "QUERY_FLOOD" <=> ~Silenced(i) /\ flood
        /\ q.reason = "QUERY_FLOOD" => q.value = Asked(i)

(* No burst is lost in a silence: whenever as many queries of a source for *)
(* a name as the threshold fall into one window, counted or not, the pair  *)
(* was reported no longer ago than a window and a cooldown.                *)
BurstReported ==
  \A i \in 1 .. Len(history) :
    LET start == history[i].ts - WindowSeconds
        burst == {j \in 1 .. i : SamePair(i, j) /\ history[j].ts >= start}
    IN  Cardinality(burst) >= Threshold =>
          \E j \in 1 .. i : /\ SamePair(i, j) /\ history[j].reason # "none"
                            /\ history[j].ts > start - CooldownSeconds

(* Bounded memory (dns_anomaly.py, _maybe_sweep()): at every query and     *)
(* after it, a source still kept has been counted within two windows.      *)
SourcesForgotten ==
  history # <<>> =>
    \A s \in DOMAIN windows :
      LET log == windows[s].log
      IN  log[Len(log)].ts > history[Len(history)].ts - 2 * WindowSeconds
=============================================================================
