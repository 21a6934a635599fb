------------------------- MODULE EventWindowProofs --------------------------
(***************************************************************************)
(* Theorems about SlidingWindow for every window length, every set of keys *)
(* and every clock, those that step back included: Steps is any set of     *)
(* integers.                                                               *)
(***************************************************************************)
EXTENDS EventWindow, FiniteSetTheorems, SequenceTheorems, TLAPS

Positions(log, key) == {i \in 1 .. Len(log) : log[i].key = key}

LEMMA OccurrencesIsPositions ==
  \A log, key : Occurrences(log, key) = Cardinality(Positions(log, key))
BY DEF Occurrences, Positions

LEMMA PositionsFinite ==
  ASSUME NEW log \in Seq(Events), NEW key
  PROVE  IsFiniteSet(Positions(log, key)) /\ Cardinality(Positions(log, key)) \in Nat
<1>1. Len(log) \in Nat
  BY LenProperties
<1>2. IsFiniteSet(1 .. Len(log))
  BY <1>1, FS_Interval
<1>3. Positions(log, key) \in SUBSET (1 .. Len(log))
  BY DEF Positions
<1>4. IsFiniteSet(Positions(log, key))
  BY <1>2, <1>3, FS_Subset
<1> QED
  BY <1>4, FS_CardinalityType

(* The loop pops some of the events, never more than there are.            *)
LEMMA StaleInRange ==
  ASSUME NEW log \in Seq(Events), NEW n
  PROVE  Stale(log, n) \in 0 .. Len(log)
<1> DEFINE S == {m \in 1 .. Len(log) : \A i \in 1 .. m : Expired(log[i], n)}
<1>1. Len(log) \in Nat
  BY LenProperties
<1>2. IsFiniteSet(1 .. Len(log)) /\ Cardinality(1 .. Len(log)) = Len(log)
  BY <1>1, FS_Interval
<1>3. S \in SUBSET (1 .. Len(log))
  OBVIOUS
<1>4. IsFiniteSet(S) /\ Cardinality(S) <= Len(log)
  BY <1>2, <1>3, FS_Subset
<1>5. Cardinality(S) \in Nat
  BY <1>4, FS_CardinalityType
<1> QED
  BY <1>1, <1>4, <1>5 DEF Stale

(* Cutting a log in two loses no occurrence and counts none twice.         *)
LEMMA OccurrencesSplit ==
  ASSUME NEW log \in Seq(Events), NEW n \in 0 .. Len(log), NEW key
  PROVE  LET front == SubSeq(log, 1, n)
             back  == SubSeq(log, n + 1, Len(log))
         IN  /\ front \in Seq(Events) /\ back \in Seq(Events)
             /\ Occurrences(front, key) \in Nat /\ Occurrences(back, key) \in Nat
             /\ Occurrences(log, key) = Occurrences(front, key) + Occurrences(back, key)
<1> DEFINE front == SubSeq(log, 1, n)
           back  == SubSeq(log, n + 1, Len(log))
           F == Positions(front, key)
           B == Positions(back, key)
           L == Positions(log, key)
           Shifted == {i \in L : i > n}
           shift == [i \in B |-> i + n]
<1>1. Len(log) \in Nat /\ \A i \in 1 .. Len(log) : log[i] \in Events
  BY LenProperties, ElementOfSeq
<1>2. /\ front \in Seq(Events) /\ Len(front) = n
      /\ \A i \in 1 .. n : front[i] = log[i]
  BY <1>1, SubSeqProperties
<1>3. /\ back \in Seq(Events) /\ Len(back) = Len(log) - n
      /\ \A i \in 1 .. Len(log) - n : back[i] = log[i + n]
  <2>1. \A i \in n + 1 .. Len(log) : log[i] \in Events
    BY <1>1
  <2>2. /\ back \in Seq(Events)
        /\ Len(back) = IF n + 1 <= Len(log) THEN Len(log) - (n + 1) + 1 ELSE 0
        /\ \A i \in 1 .. Len(log) - (n + 1) + 1 : back[i] = log[(n + 1) + i - 1]
    BY <1>1, <2>1, SubSeqProperties
  <2> QED
    BY <1>1, <2>2
<1> HIDE DEF front, back
<1>4. IsFiniteSet(F) /\ IsFiniteSet(B) /\ IsFiniteSet(L)
      /\ Cardinality(F) \in Nat /\ Cardinality(B) \in Nat
  BY <1>2, <1>3, PositionsFinite
<1>5. L = F \cup Shifted /\ F \cap Shifted = {}
  BY <1>1, <1>2 DEF Positions
<1>6. shift \in Bijection(B, Shifted)
  <2>1. \A i \in B : i + n \in Shifted
    BY <1>1, <1>3 DEF Positions
  <2>2. \A j \in Shifted : j - n \in B /\ (j - n) + n = j
    BY <1>1, <1>3 DEF Positions
  <2>3. B \subseteq Nat
    BY <1>1, <1>3 DEF Positions
  <2>4. shift \in [B -> Shifted]
    BY <2>1
  <2>5. \A i, j \in B : shift[i] = shift[j] => i = j
    BY <2>3
  <2>6. \A j \in Shifted : \E i \in B : shift[i] = j
    BY <2>2
  <2> QED
    BY <2>4, <2>5, <2>6 DEF Bijection, Injection, Surjection, IsInjective
<1>7. IsFiniteSet(Shifted) /\ Cardinality(Shifted) = Cardinality(B)
  BY <1>4, <1>6, FS_Bijection DEF ExistsBijection
<1>8. Cardinality(F \cup Shifted)
        = Cardinality(F) + Cardinality(Shifted) - Cardinality(F \cap Shifted)
  BY <1>4, <1>7, FS_Union
<1>9. Cardinality(F \cap Shifted) = 0
  BY <1>5, FS_EmptySet
<1>10. Cardinality(L) = Cardinality(F) + Cardinality(B)
  <2> HIDE DEF L, F, B, Shifted
  <2> QED
    BY <1>4, <1>5, <1>7, <1>8, <1>9
<1> QED
  BY <1>2, <1>3, <1>4, <1>10, OccurrencesIsPositions DEF front, back

(* One more event is one more occurrence of its key, and of no other.      *)
LEMMA OccurrencesAppend ==
  ASSUME NEW log \in Seq(Events), NEW e \in Events, NEW key
  PROVE  Occurrences(Append(log, e), key)
           = Occurrences(log, key) + (IF e.key = key THEN 1 ELSE 0)
<1> DEFINE L == Positions(log, key)
           A == Positions(Append(log, e), key)
<1>1. /\ Len(log) \in Nat
      /\ Len(Append(log, e)) = Len(log) + 1
      /\ \A i \in 1 .. Len(log) : Append(log, e)[i] = log[i]
      /\ Append(log, e)[Len(log) + 1] = e
  BY LenProperties, AppendProperties
<1>2. IsFiniteSet(L) /\ Cardinality(L) \in Nat
  BY PositionsFinite
<1>3. CASE e.key = key
  <2>1. A = L \cup {Len(log) + 1} /\ Len(log) + 1 \notin L
    BY <1>1, <1>3 DEF Positions
  <2>2. Cardinality(A) = Cardinality(L) + 1
    BY <1>2, <2>1, FS_AddElement
  <2> QED
    BY <1>3, <2>2, OccurrencesIsPositions
<1>4. CASE e.key # key
  <2>1. A = L
    BY <1>1, <1>4 DEF Positions
  <2> QED
    BY <1>2, <1>4, <2>1, OccurrencesIsPositions
<1> QED
  BY <1>3, <1>4
-----------------------------------------------------------------------------
(* Well-formed windows: the fields' types, and the two structures agreeing.*)
Typed(w) ==
  /\ w = [seconds |-> Window, log |-> w.log, counts |-> w.counts]
  /\ w.log \in Seq(Events)
  /\ w.counts \in [DOMAIN w.counts -> Nat \ {0}]
  /\ DOMAIN w.counts \subseteq Keys

Agrees(w) == \A k \in Keys : CountOf(w, k) = Occurrences(w.log, k)

LEMMA NewWindowWellFormed == Typed(NewWindow(Window)) /\ Agrees(NewWindow(Window))
<1>1. \A k : Positions(<<>>, k) = {}
  BY DEF Positions
<1>2. \A k : Occurrences(<<>>, k) = 0
  BY <1>1, FS_EmptySet, OccurrencesIsPositions
<1> QED
  BY <1>2 DEF NewWindow, Typed, Agrees, CountOf

(* Pruning keeps the two structures in step.                               *)
LEMMA PruneWellFormed ==
  ASSUME NEW w, NEW n \in Int, Typed(w), Agrees(w)
  PROVE  Typed(Prune(w, n)) /\ Agrees(Prune(w, n))
<1> DEFINE m     == Stale(w.log, n - w.seconds)
           front == SubSeq(w.log, 1, m)
           back  == SubSeq(w.log, m + 1, Len(w.log))
           Left  == [k \in DOMAIN w.counts |-> w.counts[k] - Occurrences(front, k)]
           kept  == [k \in {j \in DOMAIN Left : StillCounted(Left[j])} |-> Left[k]]
<1>0. w.seconds = Window
  BY DEF Typed
<1>1. Prune(w, n) = [seconds |-> Window, log |-> back, counts |-> kept]
  BY <1>0 DEF Prune, Popped
<1>2. w.log \in Seq(Events) /\ m \in 0 .. Len(w.log)
  BY StaleInRange DEF Typed
<1> HIDE DEF m
<1>3. /\ back \in Seq(Events)
      /\ \A k : /\ Occurrences(front, k) \in Nat
               /\ Occurrences(back, k) \in Nat
               /\ Occurrences(w.log, k) = Occurrences(front, k) + Occurrences(back, k)
  BY <1>2, OccurrencesSplit
<1> HIDE DEF front, back
<1>4. \A k \in DOMAIN w.counts :
        /\ k \in Keys
        /\ w.counts[k] \in Nat \ {0}
        /\ w.counts[k] = Occurrences(w.log, k)
        /\ Left[k] = Occurrences(back, k)
  BY <1>3 DEF Typed, Agrees, CountOf
<1>5. \A k \in Keys \ DOMAIN w.counts : Occurrences(back, k) = 0
  <2>1. \A k \in Keys \ DOMAIN w.counts : Occurrences(w.log, k) = 0
    BY DEF Agrees, CountOf
  <2> QED
    BY <1>3, <2>1
<1>6. /\ DOMAIN kept = {k \in DOMAIN w.counts : Occurrences(back, k) > 0}
      /\ \A k \in DOMAIN kept : kept[k] = Occurrences(back, k)
      /\ kept \in [DOMAIN kept -> Nat \ {0}]
  <2> DEFINE D == {k \in DOMAIN w.counts : Occurrences(back, k) > 0}
  <2>1. kept = [k \in D |-> Left[k]]
    BY <1>4 DEF StillCounted
  <2>2. DOMAIN kept = D
    BY <2>1
  <2>3. \A k \in D : kept[k] = Occurrences(back, k)
    BY <1>4, <2>1
  <2> HIDE DEF kept
  <2>4. \A k \in D : kept[k] \in Nat \ {0}
    BY <1>3, <2>3
  <2>5. kept \in [D -> Nat \ {0}]
    <3> HIDE DEF D
    <3> QED
      BY <2>1, <2>4
  <2> QED
    BY <2>2, <2>3, <2>5
<1> HIDE DEF kept
<1>7. Typed(Prune(w, n))
  BY <1>1, <1>3, <1>4, <1>6 DEF Typed
<1>8. Agrees(Prune(w, n))
  <2> SUFFICES ASSUME NEW k \in Keys
               PROVE  CountOf(Prune(w, n), k) = Occurrences(back, k)
    BY <1>1 DEF Agrees
  <2>1. CASE k \in DOMAIN kept
    BY <1>1, <1>6, <2>1 DEF CountOf
  <2>2. CASE k \notin DOMAIN kept
    <3>1. Occurrences(back, k) = 0
      BY <1>3, <1>5, <1>6, <2>2
    <3> QED
      BY <1>1, <2>2, <3>1 DEF CountOf
  <2> QED
    BY <2>1, <2>2
<1> QED
  BY <1>7, <1>8

LEMMA AddWellFormed ==
  ASSUME NEW w, NEW n \in Int, NEW key \in Keys, Typed(w), Agrees(w)
  PROVE  Typed(Add(w, n, key)) /\ Agrees(Add(w, n, key))
<1> DEFINE p == Prune(w, n)
           e == [ts |-> n, key |-> key]
<1>1. Typed(p) /\ Agrees(p)
  BY PruneWellFormed
<1>2. Add(w, n, key)
        = [seconds |-> Window, log |-> Append(p.log, e), counts |-> Counted(p, key)]
  <2>1. Add(w, n, key) = Pushed(p, n, key)
    BY DEF Add
  <2> HIDE DEF p
  <2>2. p.seconds = Window
    BY <1>1 DEF Typed
  <2> QED
    BY <2>1, <2>2 DEF Pushed
<1> HIDE DEF p
<1>3. e \in Events /\ e.key = key /\ p.log \in Seq(Events)
  BY <1>1 DEF Events, Typed
<1>4. /\ Append(p.log, e) \in Seq(Events)
      /\ \A k : Occurrences(Append(p.log, e), k)
                 = Occurrences(p.log, k) + (IF key = k THEN 1 ELSE 0)
  <2> HIDE DEF e
  <2> QED
    BY <1>3, OccurrencesAppend, AppendProperties
<1>5. \A k : Occurrences(p.log, k) \in Nat
  BY <1>3, PositionsFinite, OccurrencesIsPositions
<1>6. \A k \in Keys : CountOf(p, k) = Occurrences(p.log, k)
  BY <1>1 DEF Agrees
<1>7. /\ DOMAIN Counted(p, key) = DOMAIN p.counts \cup {key}
      /\ Counted(p, key)[key] = Occurrences(p.log, key) + 1
      /\ \A k \in DOMAIN p.counts \ {key} : Counted(p, key)[k] = p.counts[k]
      /\ Counted(p, key) \in [DOMAIN Counted(p, key) -> Nat \ {0}]
  BY <1>1, <1>5, <1>6 DEF Counted, Typed
<1> HIDE DEF e
<1>8. Typed(Add(w, n, key))
  BY <1>1, <1>2, <1>4, <1>7 DEF Typed
<1>9. Agrees(Add(w, n, key))
  <2> SUFFICES ASSUME NEW k \in Keys
               PROVE  CountOf(Add(w, n, key), k) = Occurrences(Add(w, n, key).log, k)
    BY DEF Agrees
  <2>0. Add(w, n, key).log = Append(p.log, e)
    BY <1>2
  <2>1. CASE k = key
    BY <1>2, <1>4, <1>7, <2>0, <2>1 DEF CountOf
  <2>2. CASE k # key
    <3>1. CountOf(Add(w, n, key), k) = CountOf(p, k)
      BY <1>2, <1>7, <2>2 DEF CountOf
    <3> QED
      BY <1>4, <1>5, <1>6, <2>0, <2>2, <3>1
  <2> QED
    BY <2>1, <2>2
<1> QED
  BY <1>8, <1>9

-----------------------------------------------------------------------------
IInv == TypeOK /\ CountsMatchLog

LEMMA IInvIsWellFormed == IInv <=> now \in Int /\ monotone \in BOOLEAN /\ Typed(window) /\ Agrees(window)
BY DEF IInv, TypeOK, CountsMatchLog, Typed, Agrees

(* The invariant is inductive: every method leaves the window well formed, *)
(* whatever the clock does between the calls.                              *)
THEOREM Inductive == Spec => []IInv
<1>1. Init => IInv
  BY NewWindowWellFormed, IInvIsWellFormed DEF Init
<1>2. IInv /\ [Next]_vars => IInv'
  <2> SUFFICES ASSUME IInv, [Next]_vars PROVE IInv'
    OBVIOUS
  <2>0. /\ now \in Int /\ monotone \in BOOLEAN /\ Typed(window) /\ Agrees(window)
        /\ /\ now' \in Int /\ monotone' \in BOOLEAN
           /\ Typed(window)' /\ Agrees(window)'
           => IInv'
    BY IInvIsWellFormed DEF IInv, TypeOK, CountsMatchLog, Typed, Agrees
  <2>1. ASSUME NEW d \in Steps, NEW key \in Keys, AddEvent(d, key) PROVE IInv'
    <3>1. now' \in Int /\ monotone' \in BOOLEAN
      BY <2>1, EventAssumption DEF AddEvent, Times
    <3>2. Typed(Add(window, now', key)) /\ Agrees(Add(window, now', key))
      BY <2>0, <3>1, AddWellFormed
    <3> QED
      BY <2>0, <2>1, <3>1, <3>2 DEF AddEvent, Typed, Agrees
  <2>2. ASSUME NEW d \in Steps, PruneTo(d) PROVE IInv'
    <3>1. now' \in Int /\ monotone' \in BOOLEAN
      BY <2>2, EventAssumption DEF PruneTo, Times
    <3>2. Typed(Prune(window, now')) /\ Agrees(Prune(window, now'))
      BY <2>0, <3>1, PruneWellFormed
    <3> QED
      BY <2>0, <2>2, <3>1, <3>2 DEF PruneTo, Typed, Agrees
  <2>3. CASE Clear
    BY <2>0, <2>3, NewWindowWellFormed DEF Clear, Cleared, Typed, Agrees
  <2>4. CASE UNCHANGED vars
    BY <2>0, <2>4 DEF vars, Typed, Agrees
  <2> QED
    BY <2>1, <2>2, <2>3, <2>4 DEF Next
<1> QED
  BY <1>1, <1>2, PTL DEF Spec

(* Type correctness of the window (sliding_window.py 17-61).               *)
THEOREM Typing == Spec => []TypeOK
BY Inductive, PTL DEF IInv

(* The deque and the Counter agree after any sequence of calls.            *)
THEOREM StructuresAgree == Spec => []CountsMatchLog
BY Inductive, PTL DEF IInv
-----------------------------------------------------------------------------
(* CountsExact: the deque holds exactly the events of the last Window      *)
(* seconds while the clock does not step back.                             *)

(* On a log in order of time the loop pops the expired events, all of them *)
(* and no others.                                                          *)
LEMMA StaleExact ==
  ASSUME NEW log \in Seq(Events), NEW n \in Int,
         \A i, j \in 1 .. Len(log) : i <= j => log[i].ts <= log[j].ts
  PROVE  \A i \in 1 .. Len(log) : log[i].ts < n <=> i <= Stale(log, n)
<1> DEFINE S == {m \in 1 .. Len(log) : \A i \in 1 .. m : Expired(log[i], n)}
<1>1. Len(log) \in Nat /\ Stale(log, n) = Cardinality(S)
  BY LenProperties DEF Stale
<1>2. IsFiniteSet(1 .. Len(log)) /\ S \in SUBSET (1 .. Len(log))
  BY <1>1, FS_Interval
<1>3. IsFiniteSet(S) /\ Cardinality(S) \in Nat
  BY <1>2, FS_Subset, FS_CardinalityType
<1>4. \A i \in 1 .. Len(log) : log[i].ts \in Int
  <2>1. \A i \in 1 .. Len(log) : log[i] \in Events
    BY <1>1, ElementOfSeq
  <2> QED
    BY <2>1 DEF Events
<1>5. \A i \in 1 .. Len(log) : log[i].ts < n <=> i \in S
  <2>1. ASSUME NEW i \in 1 .. Len(log), log[i].ts < n, NEW j \in 1 .. i
        PROVE  log[j].ts < n
    <3>1. j \in 1 .. Len(log) /\ j <= i
      BY <1>1
    <3>2. log[j].ts <= log[i].ts
      BY <3>1
    <3> QED
      BY <1>4, <2>1, <3>1, <3>2
  <2>2. \A i \in 1 .. Len(log) : i \in 1 .. i
    BY <1>1
  <2> QED
    BY <2>1, <2>2 DEF Expired
<1>6. \A m \in S : \A i \in 1 .. m : i \in S
  <2> SUFFICES ASSUME NEW m \in S, NEW i \in 1 .. m PROVE i \in S
    OBVIOUS
  <2>1. i \in 1 .. Len(log) /\ \A j \in 1 .. i : j \in 1 .. m
    BY <1>1
  <2> QED
    BY <2>1
<1> HIDE DEF S
<1>7. \A m \in S : m \in 1 .. Cardinality(S)
  <2> SUFFICES ASSUME NEW m \in S PROVE m \in 1 .. Cardinality(S)
    OBVIOUS
  <2>1. m \in Nat \ {0} /\ 1 .. m \in SUBSET S
    BY <1>1, <1>2, <1>6
  <2>2. Cardinality(1 .. m) = m
    BY <2>1, FS_Interval
  <2>3. m <= Cardinality(S)
    BY <1>3, <2>1, <2>2, FS_Subset
  <2> QED
    BY <1>3, <2>1, <2>3
<1>8. S = 1 .. Cardinality(S)
  <2> DEFINE T == 1 .. Cardinality(S)
  <2>1. IsFiniteSet(T) /\ Cardinality(T) = Cardinality(S)
    BY <1>3, FS_Interval
  <2>2. S \in SUBSET T
    BY <1>7
  <2> HIDE DEF T
  <2>3. T = S
    BY <2>1, <2>2, FS_Subset
  <2> QED
    BY <2>3 DEF T
<1>9. \A i \in 1 .. Len(log) : i \in S <=> i <= Cardinality(S)
  BY <1>1, <1>3, <1>8
<1> QED
  BY <1>1, <1>5, <1>9

LEMMA ShiftedCardinality ==
  ASSUME NEW S \in SUBSET Int, IsFiniteSet(S), NEW n \in Int
  PROVE  Cardinality({i + n : i \in S}) = Cardinality(S)
<1> DEFINE T == {i + n : i \in S}
           shift == [i \in S |-> i + n]
<1>1. shift \in Bijection(S, T)
  <2>1. shift \in [S -> T]
    OBVIOUS
  <2>2. \A i, j \in S : shift[i] = shift[j] => i = j
    OBVIOUS
  <2>3. \A j \in T : \E i \in S : shift[i] = j
    OBVIOUS
  <2> QED
    BY <2>1, <2>2, <2>3 DEF Bijection, Injection, Surjection, IsInjective
<1> QED
  BY <1>1, FS_Bijection DEF ExistsBijection

LEMMA EmptyEndOf ==
  ASSUME NEW time \in Int
  PROVE  EndOf(<<>>, <<>>, time)
<1>1. Len(<<>>) = 0 /\ <<>> \in Seq(Events)
  BY EmptySeq
<1> QED
  BY <1>1 DEF EndOf

LEMMA PruneEndOf ==
  ASSUME NEW events, NEW log \in Seq(Events), NEW time \in Int, NEW n \in Int, time <= n,
         EndOf(events, log, time)
  PROVE  EndOf(events, SubSeq(log, Stale(log, n - Window) + 1, Len(log)), n)
<1> DEFINE m    == Stale(log, n - Window)
           back == SubSeq(log, m + 1, Len(log))
           gone == Len(events) - Len(log)
<1>1. /\ events \in Seq(Events) /\ Len(events) \in Nat /\ Len(log) \in Nat /\ gone \in Nat
      /\ m \in 0 .. Len(log) /\ Window \in Int
  BY LenProperties, StaleInRange, EventAssumption DEF EndOf
<1>2. /\ \A i, j \in 1 .. Len(events) : i <= j => events[i].ts <= events[j].ts
      /\ \A i \in 1 .. Len(events) : events[i].ts <= time
      /\ \A i \in 1 .. Len(log) : log[i] = events[gone + i]
      /\ \A i \in 1 .. Len(events) : events[i].ts >= time - Window <=> i > gone
  BY DEF EndOf
<1>3. \A i \in 1 .. Len(events) : events[i].ts \in Int
  <2>1. \A i \in 1 .. Len(events) : events[i] \in Events
    BY <1>1, ElementOfSeq
  <2> QED
    BY <2>1 DEF Events
<1>4. \A i, j \in 1 .. Len(log) : i <= j => log[i].ts <= log[j].ts
  <2> SUFFICES ASSUME NEW i \in 1 .. Len(log), NEW j \in 1 .. Len(log), i <= j
               PROVE  log[i].ts <= log[j].ts
    OBVIOUS
  <2>1. /\ gone + i \in 1 .. Len(events) /\ gone + j \in 1 .. Len(events)
        /\ gone + i <= gone + j
    BY <1>1
  <2> HIDE DEF gone
  <2>2. log[i] = events[gone + i] /\ log[j] = events[gone + j]
    BY <1>2
  <2>3. events[gone + i].ts <= events[gone + j].ts
    BY <1>2, <2>1
  <2> QED
    BY <2>2, <2>3
<1>5. \A i \in 1 .. Len(log) : log[i].ts < n - Window <=> i <= m
  BY <1>1, <1>4, StaleExact
<1>6. /\ back \in Seq(Events) /\ Len(back) = Len(log) - m
      /\ \A i \in 1 .. Len(log) - m : back[i] = log[m + i]
  <2>1. \A i \in m + 1 .. Len(log) : log[i] \in Events
    BY <1>1, ElementOfSeq
  <2> HIDE DEF m
  <2>2. /\ back \in Seq(Events)
        /\ Len(back) = IF m + 1 <= Len(log) THEN Len(log) - (m + 1) + 1 ELSE 0
        /\ \A i \in 1 .. Len(log) - (m + 1) + 1 : back[i] = log[(m + 1) + i - 1]
    BY <1>1, <2>1, SubSeqProperties
  <2> QED
    BY <1>1, <2>2
<1> HIDE DEF m, back, gone
<1>7. Len(events) - Len(back) = gone + m
  BY <1>1, <1>6 DEF gone
<1>8. \A i \in 1 .. Len(back) : back[i] = events[gone + m + i]
  <2> SUFFICES ASSUME NEW i \in 1 .. Len(back) PROVE back[i] = events[gone + m + i]
    OBVIOUS
  <2>1. m + i \in 1 .. Len(log) /\ gone + (m + i) = gone + m + i
    BY <1>1, <1>6
  <2>2. back[i] = log[m + i] /\ log[m + i] = events[gone + (m + i)]
    BY <1>2, <1>6, <2>1
  <2> QED
    BY <2>1, <2>2
<1>9. \A i \in 1 .. Len(events) : events[i].ts >= n - Window <=> i > gone + m
  <2> SUFFICES ASSUME NEW i \in 1 .. Len(events)
               PROVE  events[i].ts >= n - Window <=> i > gone + m
    OBVIOUS
  <2>1. CASE i <= gone
    <3>1. ~(events[i].ts >= time - Window)
      BY <1>1, <1>2, <2>1
    <3> QED
      BY <1>1, <1>3, <2>1, <3>1
  <2>2. CASE i > gone
    <3>1. i - gone \in 1 .. Len(log) /\ gone + (i - gone) = i
      BY <1>1, <2>2 DEF gone
    <3>2. log[i - gone] = events[i]
      BY <1>2, <3>1
    <3>3. events[i].ts < n - Window <=> i - gone <= m
      BY <1>5, <3>1, <3>2
    <3> QED
      BY <1>1, <1>3, <3>3
  <2> QED
    BY <1>1, <2>1, <2>2
<1>10. \A i \in 1 .. Len(events) : events[i].ts <= n
  BY <1>2, <1>3
<1>11. Len(events) - Len(back) >= 0
  BY <1>1, <1>7
<1> QED
  BY <1>1, <1>2, <1>7, <1>8, <1>9, <1>10, <1>11 DEF EndOf, back, m

LEMMA AppendEndOf ==
  ASSUME NEW events, NEW log \in Seq(Events), NEW time \in Int, NEW key \in Keys,
         EndOf(events, log, time)
  PROVE  EndOf(Append(events, [ts |-> time, key |-> key]),
               Append(log, [ts |-> time, key |-> key]), time)
<1> DEFINE e == [ts |-> time, key |-> key]
           later == Append(events, e)
           longer == Append(log, e)
           gone == Len(events) - Len(log)
<1>1. e \in Events /\ e.ts = time /\ events \in Seq(Events)
  BY DEF Events, EndOf
<1>2. /\ Len(events) \in Nat /\ Len(log) \in Nat /\ gone \in Nat
      /\ Window \in Nat \ {0}
  BY <1>1, LenProperties, EventAssumption DEF EndOf
<1>3. /\ \A i, j \in 1 .. Len(events) : i <= j => events[i].ts <= events[j].ts
      /\ \A i \in 1 .. Len(events) : events[i].ts <= time
      /\ \A i \in 1 .. Len(log) : log[i] = events[gone + i]
      /\ \A i \in 1 .. Len(events) : events[i].ts >= time - Window <=> i > gone
  BY DEF EndOf
<1> HIDE DEF e
<1>4. /\ later \in Seq(Events) /\ Len(later) = Len(events) + 1
      /\ \A i \in 1 .. Len(events) : later[i] = events[i]
      /\ later[Len(events) + 1] = e
  BY <1>1, AppendProperties
<1>5. /\ longer \in Seq(Events) /\ Len(longer) = Len(log) + 1
      /\ \A i \in 1 .. Len(log) : longer[i] = log[i]
      /\ longer[Len(log) + 1] = e
  BY <1>1, AppendProperties
<1> HIDE DEF later, longer
<1>6. Len(later) - Len(longer) = gone
  BY <1>2, <1>4, <1>5
<1>7. \A i \in 1 .. Len(later) : i \in 1 .. Len(events) \/ i = Len(events) + 1
  BY <1>2, <1>4
<1>8. \A i \in 1 .. Len(longer) : longer[i] = later[gone + i]
  <2> SUFFICES ASSUME NEW i \in 1 .. Len(longer) PROVE longer[i] = later[gone + i]
    OBVIOUS
  <2>1. CASE i = Len(log) + 1
    <3>1. gone + i = Len(events) + 1
      BY <1>2, <2>1
    <3> QED
      BY <1>4, <1>5, <2>1, <3>1
  <2>2. CASE i # Len(log) + 1
    <3>1. i \in 1 .. Len(log) /\ gone + i \in 1 .. Len(events)
      BY <1>2, <1>5, <2>2
    <3> QED
      BY <1>3, <1>4, <1>5, <3>1
  <2> QED
    BY <2>1, <2>2
<1> HIDE DEF gone
<1>9. \A i \in 1 .. Len(later) : later[i].ts <= time
  BY <1>1, <1>3, <1>4, <1>7
<1>10. \A i, j \in 1 .. Len(later) : i <= j => later[i].ts <= later[j].ts
  <2> SUFFICES ASSUME NEW i \in 1 .. Len(later), NEW j \in 1 .. Len(later), i <= j
               PROVE  later[i].ts <= later[j].ts
    OBVIOUS
  <2>1. CASE j = Len(events) + 1
    BY <1>1, <1>4, <1>9, <2>1
  <2>2. CASE j # Len(events) + 1
    <3>1. i \in 1 .. Len(events) /\ j \in 1 .. Len(events)
      BY <1>2, <1>4, <2>2
    <3> QED
      BY <1>3, <1>4, <3>1
  <2> QED
    BY <2>1, <2>2
<1>11. \A i \in 1 .. Len(later) : later[i].ts >= time - Window <=> i > gone
  <2>1. time >= time - Window /\ Len(events) + 1 > gone
    BY <1>2 DEF gone
  <2> QED
    BY <1>1, <1>3, <1>4, <1>7, <2>1
<1>12. Len(later) - Len(longer) >= 0
  BY <1>2, <1>6
<1>13. EndOf(later, longer, time)
  BY <1>4, <1>6, <1>8, <1>9, <1>10, <1>11, <1>12 DEF EndOf
<1> QED
  BY <1>13 DEF later, longer, e

(* What the deque is, in the terms of CountsExact.                         *)
LEMMA EndOfIsRecent ==
  ASSUME TypeOK, EndOf(history, window.log, now)
  PROVE  /\ \A k : Cardinality(Recent(k)) = Occurrences(window.log, k)
         /\ Cardinality(UNION {Recent(k) : k \in Keys}) = Len(window.log)
<1> DEFINE log == window.log
           gone == Len(history) - Len(log)
<1>1. log \in Seq(Events) /\ history \in Seq(Events) /\ EndOf(history, log, now)
  BY DEF TypeOK, EndOf
<1> HIDE DEF log
<1>2. Len(history) \in Nat /\ Len(log) \in Nat /\ gone \in Nat
  BY <1>1, LenProperties DEF EndOf
<1>3. /\ \A i \in 1 .. Len(log) : log[i] = history[gone + i]
      /\ \A i \in 1 .. Len(history) : history[i].ts >= now - Window <=> i > gone
  BY <1>1 DEF EndOf
<1>4. \A i \in 1 .. Len(history) : i > gone => i - gone \in 1 .. Len(log) /\ gone + (i - gone) = i
  BY <1>2
<1>5. \A i \in 1 .. Len(log) : gone + i \in 1 .. Len(history) /\ gone + i > gone
  BY <1>2
<1>6. \A k : Cardinality(Recent(k)) = Occurrences(log, k)
  <2> SUFFICES ASSUME NEW k PROVE Cardinality(Recent(k)) = Occurrences(log, k)
    OBVIOUS
  <2> DEFINE P == Positions(log, k)
  <2>1. IsFiniteSet(P) /\ P \in SUBSET Int
    <3>1. IsFiniteSet(P)
      BY <1>1, PositionsFinite
    <3>2. 1 .. Len(log) \subseteq Int
      BY <1>2
    <3> QED
      BY <3>1, <3>2 DEF Positions
  <2>2. Recent(k) = {i + gone : i \in P}
    <3>1. ASSUME NEW i \in Recent(k) PROVE i - gone \in P /\ (i - gone) + gone = i
      <4>1. i \in 1 .. Len(history) /\ history[i].key = k /\ i > gone
        BY <1>3 DEF Recent
      <4>2. i - gone \in 1 .. Len(log) /\ log[i - gone] = history[i]
        BY <1>3, <1>4, <4>1
      <4> QED
        BY <1>2, <4>1, <4>2 DEF Positions
    <3>2. ASSUME NEW i \in P PROVE i + gone \in Recent(k)
      <4>1. i \in 1 .. Len(log) /\ log[i].key = k /\ i + gone = gone + i
        BY <1>2 DEF Positions
      <4> QED
        BY <1>3, <1>5, <4>1 DEF Recent
    <3> HIDE DEF P, gone
    <3> QED
      BY <3>1, <3>2
  <2>3. Cardinality(Recent(k)) = Cardinality(P)
    <3>1. gone \in Int
      BY <1>2
    <3> HIDE DEF P, gone
    <3> QED
      BY <2>1, <2>2, <3>1, ShiftedCardinality
  <2> QED
    BY <2>3, OccurrencesIsPositions
<1>7. UNION {Recent(k) : k \in Keys} = gone + 1 .. Len(history)
  <2>1. \A i \in 1 .. Len(history) : history[i].key \in Keys
    <3>1. \A i \in 1 .. Len(history) : history[i] \in Events
      BY <1>1, ElementOfSeq
    <3> QED
      BY <3>1 DEF Events
  <2>2. ASSUME NEW k \in Keys, NEW i \in Recent(k) PROVE i \in gone + 1 .. Len(history)
    <3>1. i \in 1 .. Len(history) /\ i > gone
      BY <1>3 DEF Recent
    <3> QED
      BY <1>2, <3>1
  <2>3. ASSUME NEW i \in gone + 1 .. Len(history)
        PROVE  history[i].key \in Keys /\ i \in Recent(history[i].key)
    <3>1. i \in 1 .. Len(history) /\ i > gone
      BY <1>2
    <3> QED
      BY <1>3, <2>1, <3>1 DEF Recent
  <2> HIDE DEF gone
  <2> QED
    BY <2>2, <2>3
<1>8. Cardinality(gone + 1 .. Len(history)) = Len(log)
  <2> DEFINE c == Cardinality(gone + 1 .. Len(history))
  <2>1. c = IF gone + 1 > Len(history) THEN 0 ELSE Len(history) - (gone + 1) + 1
    <3>1. gone + 1 \in Int /\ Len(history) \in Int
      BY <1>2
    <3> HIDE DEF gone
    <3> QED
      BY <3>1, FS_Interval
  <2> HIDE DEF c
  <2>2. c = Len(log)
    BY <1>2, <2>1
  <2> QED
    BY <2>2 DEF c
<1> QED
  BY <1>6, <1>7, <1>8 DEF log

LEMMA RecentCounts == IInv /\ LogIsRecent => CountsExact
<1> SUFFICES ASSUME IInv, LogIsRecent, monotone
             PROVE  /\ \A k \in Keys : CountOf(window, k) = Cardinality(Recent(k))
                    /\ Distinct(window) = Cardinality({k \in Keys : Recent(k) # {}})
                    /\ Total(window) = Cardinality(UNION {Recent(k) : k \in Keys})
  BY DEF CountsExact
<1>1. /\ \A k : Cardinality(Recent(k)) = Occurrences(window.log, k)
      /\ Cardinality(UNION {Recent(k) : k \in Keys}) = Len(window.log)
  BY EndOfIsRecent DEF IInv, LogIsRecent
<1>2. \A k \in Keys : CountOf(window, k) = Cardinality(Recent(k))
  BY <1>1 DEF IInv, CountsMatchLog
<1>3. DOMAIN window.counts = {k \in Keys : Recent(k) # {}}
  <2>1. \A k : IsFiniteSet(Recent(k))
    <3>1. Len(history) \in Nat
      BY LenProperties DEF LogIsRecent, EndOf
    <3>2. IsFiniteSet(1 .. Len(history))
      BY <3>1, FS_Interval
    <3> QED
      BY <3>2, FS_Subset DEF Recent
  <2>2. \A k : Cardinality(Recent(k)) = 0 <=> Recent(k) = {}
    BY <2>1, FS_EmptySet
  <2>3. \A k \in Keys : k \in DOMAIN window.counts <=> CountOf(window, k) # 0
    BY DEF CountOf, IInv, TypeOK
  <2>4. DOMAIN window.counts \subseteq Keys
    BY DEF IInv, TypeOK
  <2> QED
    BY <1>2, <2>2, <2>3, <2>4
<1> QED
  BY <1>1, <1>2, <1>3 DEF Distinct, Total

(* count(), distinct() and total() are what somebody answers who remembers *)
(* every event (sliding_window.py, 17-61), for every window length and any *)
(* number of events, as long as the clock does not step back.              *)
THEOREM WindowExact == Spec => []CountsExact
<1>1. Init => LogIsRecent
  <2> SUFFICES ASSUME Init PROVE EndOf(history, window.log, now)
    BY DEF LogIsRecent
  <2>1. history = <<>> /\ window.log = <<>> /\ now = 0
    BY DEF Init, NewWindow
  <2> QED
    BY <2>1, EmptyEndOf
<1>2. IInv /\ LogIsRecent /\ [Next]_vars => LogIsRecent'
  <2> SUFFICES ASSUME IInv, LogIsRecent, [Next]_vars, monotone'
               PROVE  EndOf(history', window'.log, now')
    BY DEF LogIsRecent
  <2>0. window.log \in Seq(Events) /\ now \in Int /\ window.seconds = Window
    BY DEF IInv, TypeOK
  <2>1. ASSUME NEW d \in Steps, Times(d)
        PROVE  EndOf(history, Prune(window, now').log, now')
               /\ Prune(window, now').log \in Seq(Events) /\ now' \in Int
    <3>1. monotone /\ now' \in Int /\ now <= now'
      <4>1. now' = now + d /\ d \in Int
        BY <2>1, EventAssumption DEF Times
      <4>2. monotone /\ d >= 0
        BY ONLY <2>1, monotone' DEF Times
      <4> QED
        BY <2>0, <4>1, <4>2
    <3>2. EndOf(history, window.log, now)
      BY <3>1 DEF LogIsRecent
    <3>3. Prune(window, now').log
            = SubSeq(window.log, Stale(window.log, now' - Window) + 1, Len(window.log))
      BY <2>0 DEF Prune, Popped
    <3>4. Typed(Prune(window, now'))
      BY <3>1, IInvIsWellFormed, PruneWellFormed
    <3> QED
      BY <2>0, <3>1, <3>2, <3>3, <3>4, PruneEndOf DEF Typed
  <2>2. ASSUME NEW d \in Steps, NEW key \in Keys, AddEvent(d, key)
        PROVE  EndOf(history', window'.log, now')
    <3> DEFINE e == [ts |-> now', key |-> key]
    <3>1. /\ EndOf(history, Prune(window, now').log, now')
          /\ Prune(window, now').log \in Seq(Events) /\ now' \in Int
      BY <2>1, <2>2 DEF AddEvent
    <3>2. history' = Append(history, e) /\ window'.log = Append(Prune(window, now').log, e)
      BY <2>2 DEF AddEvent, Add, Pushed
    <3> QED
      BY <3>1, <3>2, AppendEndOf
  <2>3. ASSUME NEW d \in Steps, PruneTo(d)
        PROVE  EndOf(history', window'.log, now')
    BY <2>1, <2>3 DEF PruneTo
  <2>4. CASE Clear
    <3>1. history' = <<>> /\ window'.log = <<>> /\ now' = now
      BY <2>4 DEF Clear, Cleared, NewWindow
    <3> QED
      BY <2>0, <3>1, EmptyEndOf
  <2>5. CASE UNCHANGED vars
    BY <2>5 DEF vars, LogIsRecent
  <2> QED
    BY <2>2, <2>3, <2>4, <2>5 DEF Next
<1>3. IInv /\ LogIsRecent => CountsExact
  BY RecentCounts
<1> QED
  BY <1>1, <1>2, <1>3, Inductive, PTL DEF Spec
=============================================================================
