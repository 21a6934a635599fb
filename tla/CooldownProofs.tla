--------------------------- MODULE CooldownProofs ---------------------------
(***************************************************************************)
(* Theorems about CooldownTracker, for every set of keys, every cooldown   *)
(* and every clock that does not step back.                                *)
(***************************************************************************)
EXTENDS CooldownTracker, TLAPS

(* mark() puts key at `now` and keeps, of the others, all it had, or those *)
(* of the last period when a pruning was due.                              *)
LEMMA MarkContents ==
  ASSUME NEW t, NEW k, NEW n \in Nat, t.lastPrune \in Nat,
         t.last \in [DOMAIN t.last -> Nat]
  PROVE  LET m == Mark(t, k, n) IN
           /\ m = [last |-> m.last, lastPrune |-> m.lastPrune]
           /\ m.last \in [DOMAIN m.last -> Nat]
           /\ DOMAIN m.last \subseteq DOMAIN t.last \cup {k}
           /\ k \in DOMAIN m.last /\ m.last[k] = n
           /\ \A j \in DOMAIN m.last \ {k} : m.last[j] = t.last[j]
           /\ \A j \in DOMAIN t.last \ DOMAIN m.last : t.last[j] < n - Period
           /\ \/ m.lastPrune = n /\ \A j \in DOMAIN m.last : m.last[j] >= n - Period
              \/ m.lastPrune = t.lastPrune /\ n - t.lastPrune <= Period
<1> DEFINE s == Stamped(t.last, k, n)
<1>0. Period \in Nat \ {0}
  BY PeriodAssumption
<1>1. /\ s \in [DOMAIN t.last \cup {k} -> Nat]
      /\ DOMAIN s = DOMAIN t.last \cup {k}
      /\ s[k] = n
      /\ \A j \in DOMAIN t.last \ {k} : s[j] = t.last[j]
  BY DEF Stamped
<1>2. CASE PruneDue(t, n)
  <2>1. Mark(t, k, n) = [last |-> Prune(s, n), lastPrune |-> n]
    BY <1>2 DEF Mark
  <2>2. /\ DOMAIN Prune(s, n) = {j \in DOMAIN s : s[j] >= n - Period}
        /\ \A j \in DOMAIN Prune(s, n) : Prune(s, n)[j] = s[j]
        /\ Prune(s, n) \in [DOMAIN Prune(s, n) -> Nat]
    BY <1>1 DEF Prune, Cutoff
  <2> HIDE DEF s
  <2> QED
    BY <1>0, <1>1, <2>1, <2>2
<1>3. CASE ~PruneDue(t, n)
  <2>1. Mark(t, k, n) = [last |-> s, lastPrune |-> t.lastPrune]
    BY <1>3 DEF Mark
  <2>2. n - t.lastPrune <= Period
    BY <1>0, <1>3 DEF PruneDue
  <2> HIDE DEF s
  <2> QED
    BY <1>1, <2>1, <2>2
<1> QED
  BY <1>2, <1>3

(* Type correctness of the tracker (CooldownTracker, cooldown.py 17-38).   *)
THEOREM Typing == Spec => []TypeOK
<1>1. Init => TypeOK
  BY TimeAssumption DEF Init, TypeOK, NewTracker
<1>2. TypeOK /\ [Next]_vars => TypeOK'
  <2> SUFFICES ASSUME TypeOK, [Next]_vars PROVE TypeOK'
    OBVIOUS
  <2>1. ASSUME NEW d \in 1 .. MaxStep, Advance(d) PROVE TypeOK'
    BY <2>1, TimeAssumption DEF TypeOK, Advance
  <2>2. ASSUME NEW k \in Keys, MarkKey(k) PROVE TypeOK'
    BY <2>2, MarkContents DEF TypeOK, MarkKey
  <2>3. CASE UNCHANGED vars
    BY <2>3 DEF TypeOK, vars
  <2> QED
    BY <2>1, <2>2, <2>3 DEF Next
<1> QED
  BY <1>1, <1>2, PTL DEF Spec

(* Pruning is lazy, but what it leaves stays within a period of the last   *)
(* pruning, on either side: the inductive form of SpreadBounded.           *)
THEOREM StaysNearLastPrune == Spec => []NearLastPrune
<1>1. Init => NearLastPrune
  BY DEF Init, NearLastPrune, NewTracker
<1>2. TypeOK /\ NearLastPrune /\ [Next]_vars => NearLastPrune'
  <2> SUFFICES ASSUME TypeOK, NearLastPrune, [Next]_vars PROVE NearLastPrune'
    OBVIOUS
  <2>0. Period \in Nat
    BY PeriodAssumption
  <2>1. ASSUME NEW d \in 1 .. MaxStep, Advance(d) PROVE NearLastPrune'
    BY <2>1 DEF NearLastPrune, Advance
  <2>2. ASSUME NEW k \in Keys, MarkKey(k) PROVE NearLastPrune'
    BY <2>0, <2>2, MarkContents DEF TypeOK, NearLastPrune, MarkKey
  <2>3. CASE UNCHANGED vars
    BY <2>3 DEF NearLastPrune, vars
  <2> QED
    BY <2>1, <2>2, <2>3 DEF Next
<1> QED
  BY <1>1, <1>2, Typing, PTL DEF Spec

(* Bounded memory: no two stored times are more than two periods apart.    *)
THEOREM MemoryBounded == Spec => []SpreadBounded
<1>1. TypeOK /\ NearLastPrune => SpreadBounded
  <2> SUFFICES ASSUME TypeOK, NearLastPrune,
                      NEW j \in DOMAIN tracker.last, NEW k \in DOMAIN tracker.last
               PROVE  tracker.last[j] - tracker.last[k] <= 2 * Period
    BY DEF SpreadBounded
  <2> QED
    BY PeriodAssumption DEF TypeOK, NearLastPrune
<1> QED
  BY <1>1, Typing, StaysNearLastPrune, PTL

-----------------------------------------------------------------------------
Timers == [k \in Keys |-> Remaining(k)]

(* Marking a key winds its timer and leaves every other timer alone,       *)
(* whether or not the dictionary is pruned on the way.                     *)
LEMMA MarkSuppresses ==
  ASSUME TypeOK, NEW k \in Keys, MarkKey(k) PROVE Promise!Suppress(k)
<1>0. Period \in Nat \ {0} /\ now \in Nat /\ now' = now
  BY PeriodAssumption DEF TypeOK, MarkKey
<1>1. \A j \in Keys : Remaining(j)' = IF j = k THEN Period ELSE Remaining(j)
  <2> SUFFICES ASSUME NEW j \in Keys
               PROVE  Remaining(j)' = IF j = k THEN Period ELSE Remaining(j)
    OBVIOUS
  <2> DEFINE m == Mark(tracker, k, now)
  <2>1. /\ m.last \in [DOMAIN m.last -> Nat]
        /\ DOMAIN m.last \subseteq DOMAIN tracker.last \cup {k}
        /\ k \in DOMAIN m.last /\ m.last[k] = now
        /\ \A i \in DOMAIN m.last \ {k} : m.last[i] = tracker.last[i]
        /\ \A i \in DOMAIN tracker.last \ DOMAIN m.last : tracker.last[i] < now - Period
    BY <1>0, MarkContents DEF TypeOK
  <2>2. tracker' = m /\ tracker.last \in [DOMAIN tracker.last -> Nat]
    BY DEF MarkKey, TypeOK
  <2> HIDE DEF m
  <2> QED
    BY <1>0, <2>1, <2>2 DEF Remaining, IsCooling
<1> QED
  BY <1>1 DEF Promise!Suppress

LEMMA AdvanceElapses ==
  ASSUME TypeOK, NEW d \in 1 .. MaxStep, Advance(d) PROVE Promise!Elapse(d)
<1>1. \A j \in Keys :
        Remaining(j)' = IF Remaining(j) > d THEN Remaining(j) - d ELSE 0
  BY PeriodAssumption, TimeAssumption DEF TypeOK, Advance, Remaining, IsCooling
<1> QED
  BY <1>1 DEF Promise!Elapse

(* Through is_cooling() the tracker is a timer per key: the implementation *)
(* of Suppression, initial states and steps.                               *)
THEOREM Refinement == Spec => SuppressesExactly
<1>1. Init => Promise!Init
  BY DEF Init, Promise!Init, NewTracker, Remaining, IsCooling
<1>2. TypeOK /\ [Next]_vars => [Promise!Next]_Timers
  <2> SUFFICES ASSUME TypeOK, [Next]_vars PROVE [Promise!Next]_Timers
    OBVIOUS
  <2>1. ASSUME NEW d \in 1 .. MaxStep, Advance(d) PROVE Promise!Next
    BY <2>1, AdvanceElapses DEF Promise!Next
  <2>2. ASSUME NEW k \in Keys, MarkKey(k) PROVE Promise!Next
    BY <2>2, MarkSuppresses DEF Promise!Next
  <2>3. CASE UNCHANGED vars
    BY <2>3 DEF vars, Timers, Remaining, IsCooling
  <2> QED
    BY <2>1, <2>2, <2>3 DEF Next
<1> QED
  BY <1>1, <1>2, Typing, PTL DEF Spec, SuppressesExactly, Promise!Spec, Timers
=============================================================================
