------------------------------ MODULE SynFlood ------------------------------
(***************************************************************************)
(* core/detectors/syn_flood.py: SynFloodDetector._process(), one step per  *)
(* packet.  The packets of a target are weighed once per window, when a    *)
(* TCP packet comes in, so that one packet may report several targets.     *)
(* The detector has one thread, so a call is atomic.  Time is the packet's *)
(* timestamp; whoever delivers the packet sets it.                         *)
(***************************************************************************)
EXTENDS Integers, Sequences, FiniteSets, FiniteSetsExt, Packet

CONSTANTS
  RatioMedium, RatioHigh, WindowSeconds, MinSyn, CooldownSeconds,
  Packets,               \* bound: the packets that arrive
  Epoch,                 \* the time before the first packet
  MaxStep                \* bound: the longest time between two packets

Tracked == {"S", "A"}    \* pure SYN, pure ACK; all other flags are noise

Targets == {p.dst : p \in Packets} \ {None}

SynFloodAssumption ==
  /\ RatioMedium \in Nat /\ RatioHigh \in Nat /\ RatioMedium <= RatioHigh
  /\ WindowSeconds \in Nat \ {0} /\ CooldownSeconds \in Nat \ {0} /\ MinSyn \in Nat
  /\ Epoch \in Nat /\ MaxStep \in Nat

SW == INSTANCE SlidingWindow
CT == INSTANCE Cooldown WITH Period <- CooldownSeconds

Never == -1              \* _last_eval is None

VARIABLES
  now,                   \* the time of the last packet
  windows,               \* _windows: dst_ip -> SlidingWindow of flags
  cooldown,              \* _cooldown: dst_ip -> last alert time
  lastEval,              \* _last_eval
  history,               \* for the properties: the TCP packets so far
  reports                \* for the properties: per evaluation, its time, how many
                         \* packets it follows and the severities it reported

vars == <<now, windows, cooldown, lastEval, history, reports>>

Init ==
  /\ now = Epoch
  /\ windows = [d \in {} |-> SW!NewWindow(WindowSeconds)]
  /\ cooldown = CT!NewTracker
  /\ lastEval = Never
  /\ history = <<>>
  /\ reports = <<>>

(* Mutant: all flags are counted.                                          *)
AddedAnyFlag(target, flag, t) ==
  SW!With(windows, target, SW!Add(SW!WindowOf(windows, target, WindowSeconds), t, flag))

(* _windows with the packet counted.                                       *)
Added(target, flag, t) ==
  IF flag \in Tracked
  THEN SW!With(windows, target, SW!Add(SW!WindowOf(windows, target, WindowSeconds), t, flag))
  ELSE windows

Enough(syn) == syn >= MinSyn

(* ratio > bound, where ratio = syn / max(ack, 1).                         *)
Exceeds(syn, ack, bound) == syn > bound * (IF ack > 1 THEN ack ELSE 1)

(* The severity of a window, if it is a flood.                             *)
Severity(syn, ack) ==
  IF ~Enough(syn) THEN "none"
  ELSE IF Exceeds(syn, ack, RatioHigh) THEN "HIGH"
  ELSE IF Exceeds(syn, ack, RatioMedium) THEN "MEDIUM"
  ELSE "none"

(* Mutant: a window later.                                                 *)
EvalDueLate(t) == t - lastEval > WindowSeconds

EvalDue(t) == t - lastEval >= WindowSeconds

(* Mutant: windows are weighed as they are, not pruned.                    *)
LiveAsIs(ws, t) == ws

(* The windows after the pruning of _evaluate_all().                       *)
Live(ws, t) == SW!PruneIdle(ws, t)

(* _evaluate() of each window: whom it reports as what.                    *)
Judged(d, w, t) ==
  IF CT!IsCooling(cooldown, d, t) THEN "none"
  ELSE Severity(SW!CountOf(w, "S"), SW!CountOf(w, "A"))

Reported(live, t) ==
  LET As == [d \in DOMAIN live |-> Judged(d, live[d], t)]
  IN  [d \in {e \in DOMAIN live : As[e] # "none"} |-> As[d]]

(* Each alert marks its target.                                            *)
Marked(targets, t) ==
  FoldSet(LAMBDA d, tracker : CT!Mark(tracker, d, t), cooldown, targets)

Arrives(p) ==
  history' = Append(history, [target |-> p.dst, flag |-> p.flags, ts |-> now'])

Ignored(p) ==
  /\ p.protocol # "TCP" \/ p.dst = None \/ p.flags = None
  /\ UNCHANGED <<windows, cooldown, lastEval, history, reports>>

FirstPacket(p) ==
  /\ lastEval = Never
  /\ windows' = Added(p.dst, p.flags, now')
  /\ lastEval' = now'
  /\ UNCHANGED <<cooldown, reports>>

CountPacket(p) ==
  /\ lastEval # Never /\ ~EvalDue(now')
  /\ windows' = Added(p.dst, p.flags, now')
  /\ UNCHANGED <<cooldown, lastEval, reports>>

(* _evaluate_all(): live is what the pruning leaves.                       *)
Evaluate(live, told) ==
  /\ windows' = live
  /\ cooldown' = Marked(DOMAIN told, now')
  /\ reports' = Append(reports, [ts |-> now', after |-> Len(history'), told |-> told])

EvaluateAll(live) == Evaluate(live, Reported(live, now'))

(* The packet is counted first.                                            *)
EvaluatingPacket(p) ==
  /\ lastEval # Never /\ EvalDue(now')
  /\ EvaluateAll(Live(Added(p.dst, p.flags, now'), now'))
  /\ lastEval' = now'

TcpPacket(p) ==
  /\ p.protocol = "TCP" /\ p.dst # None /\ p.flags # None
  /\ Arrives(p)
  /\ FirstPacket(p) \/ CountPacket(p) \/ EvaluatingPacket(p)

Process(p) == Ignored(p) \/ TcpPacket(p)

Next == \E p \in Packets, d \in 0 .. MaxStep : now' = now + d /\ Process(p)

Spec == Init /\ [][Next]_vars
-----------------------------------------------------------------------------
TypeOK ==
  /\ now \in Nat /\ lastEval \in {Never} \cup 0 .. now
  /\ DOMAIN windows \subseteq Targets /\ DOMAIN cooldown.last \subseteq Targets
  /\ \A d \in DOMAIN windows :
       /\ DOMAIN windows[d].counts \subseteq Tracked
       /\ windows[d].log # <<>>
  /\ \A d \in DOMAIN cooldown.last : cooldown.last[d] \in 0 .. now

(* The packets of one kind that evaluation n has to weigh.                 *)
Weighed(n, target, flag) ==
  Cardinality({i \in 1 .. reports[n].after :
                 /\ history[i].target = target /\ history[i].flag = flag
                 /\ history[i].ts >= reports[n].ts - WindowSeconds})

Told(n, target) ==
  IF target \in DOMAIN reports[n].told THEN reports[n].told[target] ELSE "none"

(* Was the target reported less than a cooldown before evaluation n?       *)
Quiet(n, target) ==
  \E m \in 1 .. n - 1 : /\ Told(m, target) # "none"
                        /\ reports[n].ts - reports[m].ts < CooldownSeconds

(* An evaluation reports exactly the targets whose packets of the last     *)
(* window are a flood and that are not in their cooldown, each as the      *)
(* severity its ratio deserves (syn_flood.py, lines 24-31).                *)
Deserved(n, target) ==
  LET syn == Weighed(n, target, "S")
      ack == Weighed(n, target, "A")
      one == IF ack = 0 THEN 1 ELSE ack
  IN  CASE syn < MinSyn \/ syn <= one * RatioMedium -> "none"
        [] syn >= MinSyn /\ syn > one * RatioHigh   -> "HIGH"
        [] OTHER                                    -> "MEDIUM"

ReportsExact ==
  \A n \in 1 .. Len(reports), target \in Targets :
    Told(n, target) = IF Quiet(n, target) THEN "none" ELSE Deserved(n, target)

(* A target whose packets deserve any alert is reported, or has been       *)
(* within the cooldown: no severity hides that there is a flood.           *)
FloodReported ==
  \A n \in 1 .. Len(reports), target \in Targets :
    Deserved(n, target) # "none" =>
      \E m \in 1 .. n : /\ Told(m, target) # "none"
                        /\ reports[n].ts - reports[m].ts < CooldownSeconds

(* Evaluations wait for packets, so that a pause can make one miss what    *)
(* came before it.  It takes a pause from the moment an evaluation is due, *)
(* a window after the first packet and after each evaluation packet i came *)
(* too late for, until packet i expires: if any TCP packet comes in that   *)
(* time, i has been weighed (syn_flood.py, lines 99-106).                  *)
TooLateFor(i) ==
  {history[1].ts}
    \cup {reports[n].ts : n \in {m \in 1 .. Len(reports) : reports[m].after < i}}

DueBeforeExpiry(i, k) ==
  /\ \A t \in TooLateFor(i) : history[k].ts - t >= WindowSeconds
  /\ history[k].ts - history[i].ts <= WindowSeconds

WeighedInTime ==
  \A i, k \in 1 .. Len(history) :
    DueBeforeExpiry(i, k) =>
      \E n \in 1 .. Len(reports) :
        reports[n].after >= i /\ reports[n].ts - history[i].ts <= WindowSeconds

(* syn_flood.py, lines 99-100: targets are evaluated once per window so    *)
(* that a premature MEDIUM does not "lock the cooldown before HIGH is      *)
(* reachable".  A target whose packets deserve HIGH is reported as HIGH,   *)
(* or has been within the cooldown.                                        *)
HighNotMasked ==
  \A n \in 1 .. Len(reports), target \in Targets :
    Deserved(n, target) = "HIGH" =>
      \E m \in 1 .. n : /\ Told(m, target) = "HIGH"
                        /\ reports[n].ts - reports[m].ts < CooldownSeconds
=============================================================================
