------------------------------ MODULE Cooldown ------------------------------
(***************************************************************************)
(* core/utils/cooldown.py: the dictionary of last alert times that every   *)
(* detector but the ARP one consults before it raises an alert.  A tracker *)
(* is a record with the two fields of the class: `last`, a partial         *)
(* function from keys to times, and `lastPrune`.                           *)
(*                                                                         *)
(* The operators are the methods, as functions of the tracker and of the   *)
(* time the caller passes in.                                              *)
(***************************************************************************)
EXTENDS Integers

CONSTANT Period          \* cooldown_seconds

ASSUME PeriodAssumption == Period \in Nat \ {0}

NewTracker == [last |-> [k \in {} |-> 0], lastPrune |-> 0]

IsCooling(tracker, key, now) ==
  key \in DOMAIN tracker.last /\ now - tracker.last[key] < Period

(* Mutant: the time a suppression ends is stored, not the time it starts.  *)
StampedWithEnd(last, key, now) ==
  [k \in DOMAIN last \cup {key} |-> IF k = key THEN now + Period ELSE last[k]]

(* self._last[key] = now                                                   *)
Stamped(last, key, now) ==
  [k \in DOMAIN last \cup {key} |-> IF k = key THEN now ELSE last[k]]

(* Mutant: pruning every third period only.                                *)
PruneSeldom(tracker, now) == now - tracker.lastPrune > 3 * Period

PruneDue(tracker, now) == now - tracker.lastPrune > Period

(* Mutant: everything not marked at this very moment has expired.          *)
CutoffAtNow(now) == now

Cutoff(now) == now - Period

Prune(last, now) ==
  [k \in {j \in DOMAIN last : last[j] >= Cutoff(now)} |-> last[k]]

(* The time is stored first: the pruning that may follow cannot drop the   *)
(* key just marked.                                                        *)
Mark(tracker, key, now) ==
  LET marked == Stamped(tracker.last, key, now)
  IN  IF PruneDue(tracker, now)
      THEN [last |-> Prune(marked, now), lastPrune |-> now]
      ELSE [last |-> marked, lastPrune |-> tracker.lastPrune]
=============================================================================
