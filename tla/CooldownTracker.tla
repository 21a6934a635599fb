-------------------------- MODULE CooldownTracker ---------------------------
(***************************************************************************)
(* The life of one CooldownTracker in a detector: the clock advances, keys *)
(* are marked.  is_cooling() changes nothing; what it answers is the       *)
(* subject of the refinement below.                                        *)
(***************************************************************************)
EXTENDS Cooldown

CONSTANTS Keys,          \* the keys alerts are suppressed by
          Epoch,         \* the time of the first packet: _last_prune starts at 0.0
          MaxStep,       \* bound: the longest time between two calls
          MaxTime        \* bound: the end of the modelled time

ASSUME TimeAssumption ==
  Epoch \in Nat /\ MaxStep \in Nat /\ MaxTime \in Nat /\ Epoch <= MaxTime

VARIABLES tracker,       \* the CooldownTracker object
          now            \* the time of the packet in hand

vars == <<tracker, now>>

Init == tracker = NewTracker /\ now = Epoch

Advance(d) ==
  /\ now + d <= MaxTime
  /\ now' = now + d
  /\ UNCHANGED tracker

MarkKey(k) ==
  /\ tracker' = Mark(tracker, k, now)
  /\ UNCHANGED now

Next == \/ \E d \in 1 .. MaxStep : Advance(d)
        \/ \E k \in Keys : MarkKey(k)

Spec == Init /\ [][Next]_vars
-----------------------------------------------------------------------------
(* The dictionary holds times of keys, none of them in the future.         *)
TypeOK ==
  /\ now \in Nat
  /\ tracker = [last |-> tracker.last, lastPrune |-> tracker.lastPrune]
  /\ tracker.lastPrune \in 0 .. now
  /\ tracker.last \in [DOMAIN tracker.last -> Nat]
  /\ DOMAIN tracker.last \subseteq Keys
  /\ \A k \in DOMAIN tracker.last : tracker.last[k] <= now

(* Bounded memory (cooldown.py, lines 11-14): pruning happens only inside  *)
(* mark() and at most once a period, yet no entry survives that is more    *)
(* than two periods older than another one.                                *)
SpreadBounded ==
  \A j, k \in DOMAIN tracker.last : tracker.last[j] - tracker.last[k] <= 2 * Period

(* Why: everything stored lies within a period of the last pruning.        *)
NearLastPrune ==
  \A k \in DOMAIN tracker.last :
    /\ tracker.last[k] >= tracker.lastPrune - Period
    /\ tracker.last[k] <= tracker.lastPrune + Period

(* How much longer is_cooling() will answer True for k.                    *)
Remaining(k) ==
  IF IsCooling(tracker, k, now) THEN tracker.last[k] + Period - now ELSE 0

Promise == INSTANCE Suppression WITH remaining <- [k \in Keys |-> Remaining(k)]

(* The refinement: seen through is_cooling(), the pruned dictionary is a   *)
(* timer per key.  In particular pruning never cuts a suppression short    *)
(* and never prolongs one.                                                 *)
SuppressesExactly == Promise!Spec
=============================================================================
