-------------------------- MODULE DashboardProofs ---------------------------
(***************************************************************************)
(* Theorems about Dashboard, for any pages, sockets and timestamps, any    *)
(* table, and any number of lost connections and crashes.                  *)
(***************************************************************************)
EXTENDS Dashboard, FiniteSetTheorems, SequenceTheorems, TLAPS

Orders(R, S) ==
  /\ \A x \in S : <<x, x>> \notin R
  /\ \A x, y, z \in S : <<x, y>> \in R /\ <<y, z>> \in R => <<x, z>> \in R
  /\ \A x, y \in S : x = y \/ <<x, y>> \in R \/ <<y, x>> \in R

Ascends(s, n, R) == \A i, j \in 1 .. n : i < j => <<s[i], s[j]>> \in R

(* What is ordered can be enumerated in order: the n-th has n - 1 below it.*)
LEMMA Enumeration ==
  ASSUME NEW S, IsFiniteSet(S), NEW R, Orders(R, S)
  PROVE  \E s \in [1 .. Cardinality(S) -> S] : Ascends(s, Cardinality(S), R)
<1> DEFINE n == Cardinality(S)
           Upto(x) == {y \in S : <<y, x>> \in R \/ y = x}
           rank == [x \in S |-> Cardinality(Upto(x))]
           s == [i \in 1 .. n |-> CHOOSE x \in S : rank[x] = i]
<1>1. n \in Nat /\ IsFiniteSet(1 .. n) /\ Cardinality(1 .. n) = n
  BY FS_CardinalityType, FS_Interval
<1> HIDE DEF n
<1>2. ASSUME NEW x \in S
      PROVE  IsFiniteSet(Upto(x)) /\ Cardinality(Upto(x)) \in 1 .. n
  <2>1. Upto(x) \in SUBSET S /\ x \in Upto(x)
    OBVIOUS
  <2> HIDE DEF Upto
  <2>2. IsFiniteSet(Upto(x)) /\ Cardinality(Upto(x)) <= n
    BY <2>1, FS_Subset DEF n
  <2>3. Cardinality(Upto(x)) \in Nat /\ Cardinality(Upto(x)) # 0
    BY <2>1, <2>2, FS_CardinalityType, FS_EmptySet
  <2> QED
    BY <1>1, <2>2, <2>3
<1>3. ASSUME NEW x \in S, NEW y \in S, <<x, y>> \in R
      PROVE  Cardinality(Upto(x)) < Cardinality(Upto(y))
  <2>1. Upto(x) \in SUBSET Upto(y) /\ y \in Upto(y) /\ y \notin Upto(x)
    BY <1>3 DEF Orders
  <2> HIDE DEF Upto
  <2>2. /\ Cardinality(Upto(x)) <= Cardinality(Upto(y))
        /\ Cardinality(Upto(x)) # Cardinality(Upto(y))
    BY <2>1, <1>2, FS_Subset
  <2>3. Cardinality(Upto(x)) \in Int /\ Cardinality(Upto(y)) \in Int
    BY <1>2
  <2> QED
    BY <2>2, <2>3
<1>4. /\ \A x \in S : rank[x] \in 1 .. n
      /\ \A x, y \in S : <<x, y>> \in R => rank[x] < rank[y]
  BY <1>2, <1>3
<1>5. rank \in [S -> 1 .. n]
  <2>1. rank = [x \in S |-> rank[x]]
    OBVIOUS
  <2> HIDE DEF rank
  <2> QED
    BY <1>4, <2>1
<1> HIDE DEF rank
<1>6. rank \in Surjection(S, 1 .. n)
  <2>1. ASSUME NEW x \in S, NEW y \in S, rank[x] = rank[y] PROVE x = y
    <3>1. ~(rank[x] < rank[y]) /\ ~(rank[y] < rank[x])
      BY <1>4, <2>1
    <3> QED
      BY <1>4, <3>1 DEF Orders
  <2>2. rank \in Injection(S, 1 .. n)
    BY <1>5, <2>1 DEF Injection, IsInjective
  <2>3. Cardinality(S) = Cardinality(1 .. n)
    BY <1>1 DEF n
  <2> QED
    BY <1>1, <2>2, <2>3, FS_Injection
<1>7. \A i \in 1 .. n : s[i] \in S /\ rank[s[i]] = i
  <2> SUFFICES ASSUME NEW i \in 1 .. n PROVE s[i] \in S /\ rank[s[i]] = i
    OBVIOUS
  <2>1. \E x \in S : rank[x] = i
    BY <1>6 DEF Surjection
  <2> QED
    BY <2>1
<1>8. s \in [1 .. n -> S]
  <2>1. s = [i \in 1 .. n |-> s[i]]
    OBVIOUS
  <2> HIDE DEF s
  <2> QED
    BY <1>7, <2>1
<1> HIDE DEF s
<1>9. Ascends(s, n, R)
  <2> SUFFICES ASSUME NEW i \in 1 .. n, NEW j \in 1 .. n, i < j
               PROVE  <<s[i], s[j]>> \in R
    BY DEF Ascends
  <2>1. s[i] # s[j] /\ ~(rank[s[j]] < rank[s[i]])
    BY <1>7
  <2> QED
    BY <1>4, <1>7, <2>1 DEF Orders
<1> QED
  BY <1>8, <1>9 DEF n

LEMMA EnumerationOnto ==
  ASSUME NEW S, IsFiniteSet(S), NEW R, Orders(R, S),
         NEW s \in [1 .. Cardinality(S) -> S], Ascends(s, Cardinality(S), R)
  PROVE  \A x \in S : \E i \in 1 .. Cardinality(S) : s[i] = x
<1> DEFINE n == Cardinality(S)
<1>1. n \in Nat /\ IsFiniteSet(1 .. n) /\ Cardinality(1 .. n) = n
  BY FS_CardinalityType, FS_Interval
<1>2. \A i \in 1 .. n : s[i] \in S
  OBVIOUS
<1>3. \A i, j \in 1 .. n : i < j => s[i] # s[j]
  BY <1>2 DEF Ascends, Orders
<1>4. \A i, j \in 1 .. n : s[i] = s[j] => i = j
  BY <1>1, <1>3
<1>5. s \in Injection(1 .. n, S)
  BY <1>4 DEF Injection, IsInjective
<1>6. s \in Surjection(1 .. n, S)
  BY <1>1, <1>5, FS_Injection
<1> QED
  BY <1>6 DEF Surjection

(* The last of them is the greatest.                                       *)
LEMMA GreatestExists ==
  ASSUME NEW S, IsFiniteSet(S), S \subseteq Int
  PROVE  Greatest(S) \in S \cup {0} /\ \A i \in S : i <= Greatest(S)
<1>1. CASE S = {}
  BY <1>1 DEF Greatest
<1>2. CASE S # {}
  <2> DEFINE R == {p \in S \X S : p[1] < p[2]}
             n == Cardinality(S)
  <2>1. Orders(R, S)
    BY DEF Orders
  <2> HIDE DEF R
  <2>2. PICK s \in [1 .. n -> S] : Ascends(s, n, R)
    BY <2>1, Enumeration
  <2>3. \A x \in S : \E i \in 1 .. n : s[i] = x
    BY <2>1, <2>2, EnumerationOnto
  <2>4. n \in Nat /\ n # 0
    BY <1>2, FS_CardinalityType, FS_EmptySet
  <2> HIDE DEF n
  <2>5. n \in 1 .. n /\ s[n] \in S
    BY <2>4
  <2>6. ASSUME NEW i \in 1 .. n PROVE s[i] <= s[n]
    <3>1. i = n \/ i < n
      BY <2>4
    <3>2. i < n => <<s[i], s[n]>> \in R
      BY <2>2, <2>5 DEF Ascends
    <3>3. <<s[i], s[n]>> \in R => s[i] < s[n]
      BY DEF R
    <3>4. s[i] \in Int /\ s[n] \in Int
      BY <2>5
    <3> QED
      BY <3>1, <3>2, <3>3, <3>4
  <2>7. \E i \in S : \A j \in S : j <= i
    BY <2>3, <2>5, <2>6
  <2> QED
    BY <1>2, <2>7 DEF Greatest
<1> QED
  BY <1>1, <1>2
-----------------------------------------------------------------------------
LEMMA RowsFacts ==
  ASSUME rows \in Seq(Stamps)
  PROVE  /\ Len(rows) \in Nat /\ Ids = 1 .. Len(rows) /\ Ids \subseteq Nat \ {0}
         /\ \A i \in Ids : rows[i] \in Int
         /\ Recent \subseteq Ids /\ IsFiniteSet(Recent)
<1>1. Len(rows) \in Nat /\ \A i \in 1 .. Len(rows) : rows[i] \in Stamps
  BY LenProperties, ElementOfSeq
<1>2. Recent \in SUBSET (1 .. Len(rows)) /\ IsFiniteSet(1 .. Len(rows))
  BY <1>1, FS_Interval DEF Recent
<1>3. IsFiniteSet(Recent)
  BY <1>2, FS_Subset
<1>4. 1 .. Len(rows) \subseteq Nat \ {0}
  BY <1>1
<1>5. \A i \in 1 .. Len(rows) : rows[i] \in Int
  BY <1>1, DashboardAssumption
<1> QED
  BY <1>1, <1>2, <1>3, <1>4, <1>5 DEF Ids

(* reversed(alerts_since()): every recent row, once, in order.             *)
LEMMA OldestFirstFacts ==
  ASSUME rows \in Seq(Stamps)
  PROVE  /\ OldestFirst \in Seq(Ids)
         /\ \A id \in Recent : \E i \in 1 .. Len(OldestFirst) : OldestFirst[i] = id
         /\ \A i, j \in 1 .. Len(OldestFirst) :
              i < j => Before(OldestFirst[i], OldestFirst[j])
<1> DEFINE R == {p \in Recent \X Recent : Before(p[1], p[2])}
           n == Cardinality(Recent)
<1>1. n \in Nat
  BY RowsFacts, FS_CardinalityType
<1>2. Orders(R, Recent)
  <2>1. \A i \in Recent : i \in Int /\ rows[i] \in Int
    BY RowsFacts
  <2>2. \A x \in Recent : ~Before(x, x)
    BY <2>1 DEF Before
  <2>3. \A x, y, z \in Recent : Before(x, y) /\ Before(y, z) => Before(x, z)
    BY <2>1 DEF Before
  <2>4. \A x, y \in Recent : x = y \/ Before(x, y) \/ Before(y, x)
    BY <2>1 DEF Before
  <2>5. \A x, y \in Recent : <<x, y>> \in R <=> Before(x, y)
    OBVIOUS
  <2> HIDE DEF R
  <2> QED
    BY <2>2, <2>3, <2>4, <2>5 DEF Orders
<1>3. \E ids \in [1 .. n -> Recent] : \A i, j \in DOMAIN ids : i < j => Before(ids[i], ids[j])
  <2>1. PICK s \in [1 .. n -> Recent] : Ascends(s, n, R)
    <3> HIDE DEF R
    <3> QED
      BY <1>2, RowsFacts, Enumeration
  <2>2. DOMAIN s = 1 .. n
    OBVIOUS
  <2>3. \A i, j \in 1 .. n : i < j => Before(s[i], s[j])
    BY <2>1 DEF Ascends
  <2> QED
    BY <2>2, <2>3
<1>4. /\ OldestFirst \in [1 .. n -> Recent]
      /\ \A i, j \in DOMAIN OldestFirst : i < j => Before(OldestFirst[i], OldestFirst[j])
  BY <1>3 DEF OldestFirst
<1> DEFINE s == OldestFirst
<1> HIDE DEF s
<1>5. s \in [1 .. n -> Recent] /\ DOMAIN s = 1 .. n
      /\ \A i, j \in 1 .. n : i < j => Before(s[i], s[j])
  BY <1>4 DEF s
<1>6. s \in Seq(Ids) /\ Len(s) = n
  <2>1. s \in [1 .. n -> Ids]
    BY <1>5, RowsFacts
  <2> HIDE DEF n
  <2> QED
    BY <1>1, <1>5, <2>1
<1>7. \A id \in Recent : \E i \in 1 .. n : s[i] = id
  <2>1. \A i \in 1 .. n : s[i] \in Recent
    BY <1>5
  <2>2. Ascends(s, n, R)
    BY <1>5, <2>1 DEF Ascends
  <2>3. IsFiniteSet(Recent)
    BY RowsFacts
  <2>4. s \in [1 .. n -> Recent]
    BY <1>5
  <2> HIDE DEF R, s
  <2> QED
    BY <1>2, <2>2, <2>3, <2>4, EnumerationOnto, Zenon
<1> QED
  BY <1>5, <1>6, <1>7 DEF s
LEMMA SeedFacts ==
  ASSUME rows \in Seq(Stamps)
  PROVE  Greatest(Recent) \in 0 .. Len(rows) /\ Len(rows) \in 0 .. Len(rows)
<1>1. Recent \subseteq 1 .. Len(rows) /\ Len(rows) \in Nat /\ IsFiniteSet(Recent)
  BY RowsFacts
<1>2. Recent \subseteq Int
  BY <1>1
<1>3. Greatest(Recent) \in Recent \cup {0}
  BY <1>1, <1>2, GreatestExists
<1>4. 1 .. Len(rows) \subseteq 0 .. Len(rows) /\ 0 \in 0 .. Len(rows) /\ Len(rows) \in 0 .. Len(rows)
  BY <1>1
<1> QED
  BY <1>1, <1>3, <1>4
-----------------------------------------------------------------------------
(* What the steps leave alone.                                             *)
LEMMA SameRows ==
  ASSUME rows' = rows
  PROVE  Ids' = Ids
BY DEF Ids

LEMMA SamePushed ==
  ASSUME PushedUpToReached, PushedInOrder, UNCHANGED broadcaster
  PROVE  PushedUpToReached' /\ PushedInOrder'
BY DEF PushedUpToReached, PushedInOrder, Reached, broadcaster

LEMMA SameOpen ==
  ASSUME OpenIsServed, UNCHANGED <<socket, handler>>
  PROVE  OpenIsServed'
BY DEF OpenIsServed

LEMMA SaveStep ==
  ASSUME IInv, NEW stamp \in Stamps, Save(stamp)
  PROVE  IInv'
<1> USE DEF IInv
<1>1. /\ rows' = Append(rows, stamp) /\ rows \in Seq(Stamps)
      /\ UNCHANGED <<boot, lastId, task, batch, record, audience, pushed, connections,
                     handler, replay, socket, list, faults>>
  BY DEF Save, TypeOK, server, broadcaster, handlers, browser
<1>2. /\ rows' \in Seq(Stamps) /\ Len(rows') = Len(rows) + 1 /\ Len(rows) \in Nat
      /\ Ids \subseteq Ids'
  <2>1. /\ rows' \in Seq(Stamps) /\ Len(rows') = Len(rows) + 1 /\ Len(rows) \in Nat
    BY <1>1, AppendProperties, LenProperties
  <2>2. 1 .. Len(rows) \subseteq 1 .. Len(rows')
    BY <2>1
  <2> QED
    BY <2>1, <2>2 DEF Ids
<1>3. batch \in Seq(Ids') /\ pushed \in Seq(Ids')
  BY <1>2, SeqMonotonic DEF TypeOK
<1>4. replay \in [Sockets -> Seq(Ids')] /\ list \in [Pages -> SUBSET Ids']
  <2>1. \A t \in Sockets : replay[t] \in Seq(Ids')
    BY <1>2, SeqMonotonic DEF TypeOK
  <2> QED
    BY <1>2, <2>1 DEF TypeOK
<1>5. boot \in 0 .. Len(rows') /\ lastId \in 0 .. Len(rows') /\ record \in 0 .. Len(rows')
  BY <1>2 DEF TypeOK
<1>6. TypeOK'
  BY <1>1, <1>2, <1>3, <1>4, <1>5 DEF TypeOK
<1>7. PushedUpToReached' /\ PushedInOrder'
  BY <1>1, SamePushed DEF broadcaster
<1>8. OpenIsServed'
  BY <1>1, SameOpen
<1> QED
  BY <1>6, <1>7, <1>8

LEMMA PollStep ==
  ASSUME IInv, Poll \/ PollRaises
  PROVE  IInv'
<1> USE DEF IInv
<1>1. /\ task = "running" /\ batch = <<>> /\ record = 0 /\ task' \in {"running", "dead"}
      /\ batch' \in {batch, OldestFirst}
      /\ UNCHANGED <<rows, boot, lastId, record, audience, pushed, connections,
                     handler, replay, socket, list, faults>>
  BY DEF Poll, PollRaises, Asleep, handlers, browser
<1>2. Ids' = Ids /\ batch' \in Seq(Ids)
  BY <1>1, SameRows, OldestFirstFacts DEF TypeOK
<1>3. TypeOK'
  BY <1>1, <1>2 DEF TypeOK
<1>4. PushedUpToReached' /\ PushedInOrder'
  BY <1>1 DEF PushedUpToReached, PushedInOrder, Reached
<1>5. OpenIsServed'
  BY <1>1, SameOpen
<1> QED
  BY <1>3, <1>4, <1>5

(* Examine, its three cases apart.                                         *)
LEMMA ExamineFacts ==
  ASSUME IInv, Examine
  PROVE  \E id \in Ids :
           /\ id = batch[1] /\ batch # <<>> /\ record = 0 /\ audience = {} /\ task # "down"
           /\ batch' = Tail(batch) /\ batch' \in Seq(Ids)
           /\ UNCHANGED <<rows, boot, task, connections, handler, replay, socket, list, faults>>
           /\ \/ id <= lastId /\ UNCHANGED <<lastId, record, audience, pushed>>
              \/ /\ id > lastId /\ pushed' = Append(pushed, id)
                 /\ \/ lastId' = id /\ record' = 0 /\ audience' = {}
                    \/ lastId' = lastId /\ record' = id /\ audience' = connections /\ audience' # {}
<1>1. batch \in Seq(Ids) /\ batch # <<>> /\ record = 0
  BY DEF IInv, TypeOK, Examine
<1>2. PICK id \in Ids : id = Head(batch)
  BY <1>1, HeadTailProperties
<1>3. id = batch[1]
  BY <1>2
<1>4. batch' = Tail(batch) /\ batch' \in Seq(Ids)
  BY <1>1, HeadTailProperties DEF Examine
<1>5. audience = {} /\ task # "down"
  BY <1>1 DEF IInv, TypeOK, PushedUpToReached
<1>6. UNCHANGED <<rows, boot, task, connections, handler, replay, socket, list, faults>>
  BY DEF Examine, handlers, browser
<1>7. id \in Int /\ lastId \in Int
  BY RowsFacts DEF IInv, TypeOK
<1>8. CASE IsNew(id)
  <2>1. id > lastId
    BY <1>8 DEF IsNew
  <2>2. /\ pushed' = Append(pushed, id) /\ audience' = connections
        /\ \/ connections = {} /\ lastId' = id /\ record' = 0
           \/ connections # {} /\ lastId' = lastId /\ record' = id
    BY <1>1, <1>2, <1>8 DEF Examine, Audience
  <2> QED
    BY <1>1, <1>3, <1>4, <1>5, <1>6, <2>1, <2>2
<1>9. CASE ~IsNew(id)
  <2>1. id <= lastId
    BY <1>7, <1>9 DEF IsNew
  <2>2. UNCHANGED <<lastId, record, audience, pushed>>
    BY <1>2, <1>9 DEF Examine
  <2> QED
    BY <1>1, <1>3, <1>4, <1>5, <1>6, <2>1, <2>2
<1> QED
  BY <1>8, <1>9

LEMMA PushedAppend ==
  ASSUME NEW S \in SUBSET Int, NEW s \in Seq(S), NEW x \in S, NEW y \in Int, y < x,
         \A i, j \in 1 .. Len(s) : i < j => s[i] < s[j],
         \A i \in 1 .. Len(s) : s[i] <= y
  PROVE  LET t == Append(s, x)
         IN  /\ t \in Seq(S)
             /\ \A i, j \in 1 .. Len(t) : i < j => t[i] < t[j]
             /\ \A i \in 1 .. Len(t) : t[i] <= x
             /\ Len(s) \in Nat /\ Len(t) = Len(s) + 1 /\ t[Len(t)] = x
             /\ \A i \in 1 .. Len(s) : t[i] = s[i]
<1> DEFINE t == Append(s, x)
           n == Len(s)
<1>1. /\ t \in Seq(S) /\ Len(t) = n + 1 /\ n \in Nat /\ t[n + 1] = x
      /\ \A i \in 1 .. n : t[i] = s[i] /\ s[i] \in Int
  <2>1. \A i \in 1 .. n : s[i] \in S
    BY ElementOfSeq
  <2>2. \A i \in 1 .. n : s[i] \in Int
    BY <2>1
  <2> QED
    BY <2>2, AppendProperties, LenProperties
<1>2. \A i \in 1 .. n : t[i] < x
  BY <1>1
<1>3. /\ \A i, j \in 1 .. n : i < j => s[i] < s[j]
  OBVIOUS
<1> HIDE DEF t, n
<1>4. \A i \in 1 .. n + 1 : i \in 1 .. n \/ i = n + 1
  BY <1>1
<1>5. \A i \in 1 .. n + 1 : t[i] <= x
  BY <1>1, <1>2, <1>4
<1>6. \A i, j \in 1 .. n + 1 : i < j => t[i] < t[j]
  <2> SUFFICES ASSUME NEW i \in 1 .. n + 1, NEW j \in 1 .. n + 1, i < j PROVE t[i] < t[j]
    OBVIOUS
  <2>1. i \in 1 .. n
    BY <1>1
  <2>2. j \in 1 .. n \/ j = n + 1
    BY <1>4
  <2> QED
    BY <1>1, <1>2, <1>3, <2>1, <2>2
<1> QED
  BY <1>1, <1>5, <1>6 DEF t, n

LEMMA ExamineStep ==
  ASSUME IInv, Examine
  PROVE  IInv'
<1> USE DEF IInv
<1>1. PICK id \in Ids :
           /\ id = batch[1] /\ batch # <<>> /\ record = 0 /\ audience = {} /\ task # "down"
           /\ batch' = Tail(batch) /\ batch' \in Seq(Ids)
           /\ UNCHANGED <<rows, boot, task, connections, handler, replay, socket, list, faults>>
           /\ \/ id <= lastId /\ UNCHANGED <<lastId, record, audience, pushed>>
              \/ /\ id > lastId /\ pushed' = Append(pushed, id)
                 /\ \/ lastId' = id /\ record' = 0 /\ audience' = {}
                    \/ lastId' = lastId /\ record' = id /\ audience' = connections /\ audience' # {}
  BY ExamineFacts
<1>2. /\ Ids' = Ids /\ Ids = 1 .. Len(rows) /\ Len(rows) \in Nat
      /\ id \in 1 .. Len(rows) /\ id # 0 /\ lastId \in Int
  BY <1>1, SameRows, RowsFacts DEF TypeOK
<1>3. OpenIsServed'
  BY <1>1, SameOpen
<1>4. CASE UNCHANGED <<lastId, record, audience, pushed>>
  <2>1. TypeOK'
    BY <1>1, <1>2, <1>4 DEF TypeOK
  <2>2. PushedUpToReached' /\ PushedInOrder'
    BY <1>1, <1>4 DEF PushedUpToReached, PushedInOrder, Reached
  <2> QED
    BY <1>3, <2>1, <2>2
<1>5. CASE /\ id > lastId /\ pushed' = Append(pushed, id)
           /\ \/ lastId' = id /\ record' = 0 /\ audience' = {}
              \/ lastId' = lastId /\ record' = id /\ audience' = connections /\ audience' # {}
  <2>1. \A i \in 1 .. Len(pushed) : pushed[i] <= lastId
    BY <1>1 DEF PushedUpToReached, Reached
  <2>2. \A i, j \in 1 .. Len(pushed) : i < j => pushed[i] < pushed[j]
    BY DEF PushedInOrder
  <2>3. pushed \in Seq(Ids) /\ Ids \in SUBSET Int
    BY RowsFacts DEF TypeOK
  <2>4. /\ pushed' \in Seq(Ids)
        /\ \A i, j \in 1 .. Len(pushed') : i < j => pushed'[i] < pushed'[j]
        /\ \A i \in 1 .. Len(pushed') : pushed'[i] <= id
    BY <1>2, <1>5, <2>1, <2>2, <2>3, PushedAppend
  <2>5. Reached' = id /\ lastId' <= id
    BY <1>1, <1>2, <1>5 DEF Reached
  <2>6. TypeOK'
    <3>1. lastId' \in 0 .. Len(rows) /\ record' \in 0 .. Len(rows)
      BY <1>2, <1>5 DEF TypeOK
    <3>2. (audience' # {} <=> record' # 0) /\ audience' \subseteq Sockets
      BY <1>2, <1>5 DEF TypeOK
    <3> QED
      BY <1>1, <1>2, <2>4, <3>1, <3>2 DEF TypeOK
  <2>7. PushedUpToReached' /\ PushedInOrder'
    BY <1>1, <2>4, <2>5 DEF PushedUpToReached, PushedInOrder
  <2> QED
    BY <1>3, <2>6, <2>7
<1> QED
  BY <1>1, <1>4, <1>5

LEMMA PushStep ==
  ASSUME IInv, NEW t \in Sockets, Push(t)
  PROVE  IInv'
<1> USE DEF IInv
<1>1. /\ t \in audience /\ audience' = audience \ {t}
      /\ \/ audience = {t} /\ lastId' = record /\ record' = 0
         \/ audience # {t} /\ lastId' = lastId /\ record' = record
      /\ UNCHANGED <<boot, task, batch, pushed, handler, replay, rows, socket, faults>>
  BY DEF Push, handlers
<1>2. /\ record # 0 /\ record \in Ids /\ Ids' = Ids
  <2>1. record # 0 /\ record \in 0 .. Len(rows) /\ Len(rows) \in Nat
    BY <1>1, RowsFacts DEF TypeOK
  <2>2. record \in 1 .. Len(rows)
    BY <2>1
  <2> QED
    BY <1>1, <2>1, <2>2, SameRows DEF Ids
<1>3. list' \in [Pages -> SUBSET Ids]
  <2>1. list \in [Pages -> SUBSET Ids]
    BY DEF TypeOK
  <2> QED
    BY <1>2, <2>1 DEF Push, Deliver
<1>4. connections' \subseteq Sockets
  BY DEF Push, TypeOK
<1>5. TypeOK'
  <2>1. (audience' # {} <=> record' # 0) /\ audience' \subseteq Sockets
    BY <1>1, <1>2 DEF TypeOK
  <2>2. lastId' \in 0 .. Len(rows) /\ record' \in 0 .. Len(rows)
    <3>1. 0 \in 0 .. Len(rows)
      BY RowsFacts DEF TypeOK
    <3> QED
      BY <1>1, <3>1 DEF TypeOK
  <2> QED
    BY <1>1, <1>2, <1>3, <1>4, <2>1, <2>2 DEF TypeOK
<1>6. Reached' = Reached /\ lastId' <= Reached'
  <2>1. record \in Int
    BY DEF TypeOK
  <2> QED
    BY <1>1, <1>2, <2>1 DEF Reached, PushedUpToReached
<1>7. PushedUpToReached' /\ PushedInOrder'
  BY <1>1, <1>2, <1>6 DEF PushedUpToReached, PushedInOrder
<1>8. OpenIsServed'
  BY <1>1, SameOpen
<1> QED
  BY <1>5, <1>7, <1>8

(* No page has a socket that is given to another: its handler still runs.  *)
LEMMA ConnectStep ==
  ASSUME IInv, NEW p \in Pages, Connect(p)
  PROVE  IInv'
<1> USE DEF IInv
<1>1. PICK t \in Unused :
        /\ socket' = [socket EXCEPT ![p] = t]
        /\ connections' = connections \cup {t}
        /\ handler' = [handler EXCEPT ![t] = "querying"]
  BY DEF Connect
<1>2. UNCHANGED <<boot, broadcaster, replay, rows, list, faults>>
  BY DEF Connect
<1>3. t \in Sockets /\ handler[t] \in {"none", "ended"}
  BY DEF Unused
<1>4. \A q \in Pages : socket[q] # t
  BY <1>3 DEF OpenIsServed
<1>5. /\ socket' \in [Pages -> Sockets \cup {"unloaded", "offline", "gone"}]
      /\ socket'[p] = t /\ \A q \in Pages \ {p} : socket'[q] = socket[q]
  BY <1>1, <1>3 DEF TypeOK
<1>6. \A q, r \in Pages : socket'[q] = socket'[r] /\ socket'[q] \in Sockets => q = r
  <2> SUFFICES ASSUME NEW q \in Pages, NEW r \in Pages,
                      socket'[q] = socket'[r], socket'[q] \in Sockets
               PROVE  q = r
    OBVIOUS
  <2>1. CASE q = p \/ r = p
    BY <1>4, <1>5, <2>1
  <2>2. CASE q # p /\ r # p
    BY <1>5, <2>2 DEF TypeOK
  <2> QED
    BY <2>1, <2>2
<1>7. /\ handler' \in [Sockets -> {"none", "querying", "replaying", "parked", "ended"}]
      /\ handler'[t] = "querying" /\ \A u \in Sockets \ {t} : handler'[u] = handler[u]
  BY <1>1, <1>3 DEF TypeOK
<1>8. \A u \in Sockets : handler'[u] = "replaying" <=> replay[u] # <<>>
  <2>1. replay[t] = <<>>
    BY <1>3 DEF TypeOK
  <2> QED
    BY <1>3, <1>7, <2>1 DEF TypeOK
<1>9. connections' \subseteq Sockets
  BY <1>1, <1>3 DEF TypeOK
<1>10. TypeOK'
  BY <1>2, <1>5, <1>6, <1>7, <1>8, <1>9, SameRows DEF TypeOK, broadcaster
<1>11. OpenIsServed'
  BY <1>3, <1>4, <1>5, <1>7 DEF OpenIsServed
<1>12. PushedUpToReached' /\ PushedInOrder'
  BY <1>2, SamePushed
<1> QED
  BY <1>10, <1>11, <1>12

(* A handler goes on, or ends because its page has let go of the socket.   *)
LEMMA HandlerStep ==
  ASSUME IInv, NEW t \in Sockets, Handler(t)
  PROVE  IInv'
<1> USE DEF IInv
<1> DEFINE Stops == {"none", "querying", "replaying", "parked", "ended"}
<1>1. UNCHANGED <<boot, broadcaster, rows, socket, faults>>
  BY DEF Handler, Query, Replay, ReplayRaises, Disconnect, browser
<1>2. Ids' = Ids /\ OldestFirst \in Seq(Ids)
  BY <1>1, SameRows, OldestFirstFacts DEF TypeOK
<1>3. connections' \subseteq Sockets
  BY DEF Handler, Query, Replay, ReplayRaises, Disconnect, TypeOK
<1>4. PICK h \in Stops, r \in Seq(Ids) :
        /\ handler' = [handler EXCEPT ![t] = h] /\ replay' = [replay EXCEPT ![t] = r]
        /\ h = "replaying" <=> r # <<>>
        /\ h \in {"replaying", "parked"} \/ ~Open(t)
  <2>1. CASE Query(t)
    <3>1. /\ AfterSending(OldestFirst) \in {"replaying", "parked"}
          /\ AfterSending(OldestFirst) = "replaying" <=> OldestFirst # <<>>
      BY DEF AfterSending
    <3> QED
      BY <1>2, <2>1, <3>1 DEF Query
  <2>2. CASE Replay(t)
    <3>1. replay[t] \in Seq(Ids) /\ replay[t] # <<>>
      BY <2>2 DEF Replay, TypeOK
    <3>2. Tail(replay[t]) \in Seq(Ids)
      BY <3>1, HeadTailProperties
    <3>3. /\ AfterSending(Tail(replay[t])) \in {"replaying", "parked"}
          /\ AfterSending(Tail(replay[t])) = "replaying" <=> Tail(replay[t]) # <<>>
      BY DEF AfterSending
    <3>4. /\ handler' = [handler EXCEPT ![t] = AfterSending(Tail(replay[t]))]
          /\ replay' = [replay EXCEPT ![t] = Tail(replay[t])]
      BY <2>2 DEF Replay
    <3> QED
      BY <3>2, <3>3, <3>4
  <2>3. CASE ReplayRaises(t)
    <3>1. <<>> \in Seq(Ids)
      BY EmptySeq
    <3> QED
      BY <2>3, <3>1 DEF ReplayRaises
  <2>4. CASE Disconnect(t)
    <3>1. replay[t] \in Seq(Ids) /\ replay[t] = <<>> /\ replay' = [replay EXCEPT ![t] = replay[t]]
      BY <2>4 DEF Disconnect, TypeOK
    <3> QED
      BY <2>4, <3>1 DEF Disconnect
  <2> QED
    BY <2>1, <2>2, <2>3, <2>4 DEF Handler
<1>5. list' \in [Pages -> SUBSET Ids]
  <2>1. CASE Replay(t)
    <3>1. replay[t] \in Seq(Ids) /\ replay[t] # <<>>
      BY <2>1 DEF Replay, TypeOK
    <3>2. Head(replay[t]) \in Ids
      BY <3>1, HeadTailProperties
    <3> QED
      BY <2>1, <3>2 DEF Replay, Deliver, TypeOK
  <2>2. CASE ~Replay(t)
    BY <2>2 DEF Handler, Query, ReplayRaises, Disconnect, browser, TypeOK
  <2> QED
    BY <2>1, <2>2
<1>6. /\ handler' \in [Sockets -> Stops] /\ replay' \in [Sockets -> Seq(Ids)]
      /\ handler'[t] = h /\ replay'[t] = r
      /\ \A u \in Sockets \ {t} : handler'[u] = handler[u] /\ replay'[u] = replay[u]
  BY <1>4 DEF TypeOK
<1>7. \A u \in Sockets : handler'[u] = "replaying" <=> replay'[u] # <<>>
  BY <1>4, <1>6 DEF TypeOK
<1>8. TypeOK'
  BY <1>1, <1>2, <1>3, <1>5, <1>6, <1>7 DEF TypeOK, broadcaster
<1>9. OpenIsServed'
  <2> SUFFICES ASSUME NEW p \in Pages, socket[p] \in Sockets
               PROVE  handler'[socket[p]] \in {"querying", "replaying", "parked"}
    BY <1>1 DEF OpenIsServed
  <2>1. CASE socket[p] = t
    BY <1>4, <1>6, <2>1 DEF Open
  <2>2. CASE socket[p] # t
    BY <1>6, <2>2 DEF OpenIsServed
  <2> QED
    BY <2>1, <2>2
<1>10. PushedUpToReached' /\ PushedInOrder'
  BY <1>1, SamePushed
<1> QED
  BY <1>8, <1>9, <1>10

(* Or its query raises, and whatever page had the socket loses it.         *)
LEMMA QueryRaisesStep ==
  ASSUME IInv, NEW t \in Sockets, QueryRaises(t)
  PROVE  IInv'
<1> USE DEF IInv
<1>1. /\ handler[t] = "querying" /\ handler' = [handler EXCEPT ![t] = "ended"]
      /\ socket' = [p \in Pages |-> IF socket[p] = t THEN "offline" ELSE socket[p]]
      /\ UNCHANGED <<rows, boot, broadcaster, connections, replay, list>>
  BY DEF QueryRaises
<1>2. faults' \in 0 .. MaxFaults
  BY DashboardAssumption DEF QueryRaises, TypeOK
<1>3. /\ socket' \in [Pages -> Sockets \cup {"unloaded", "offline", "gone"}]
      /\ \A p \in Pages : socket'[p] \in Sockets => socket'[p] = socket[p] /\ socket[p] # t
  BY <1>1, DashboardAssumption DEF TypeOK
<1>4. /\ handler' \in [Sockets -> {"none", "querying", "replaying", "parked", "ended"}]
      /\ handler'[t] = "ended" /\ \A u \in Sockets \ {t} : handler'[u] = handler[u]
  BY <1>1 DEF TypeOK
<1>5. \A u \in Sockets : handler'[u] = "replaying" <=> replay'[u] # <<>>
  BY <1>1, <1>4 DEF TypeOK
<1>6. \A p, q \in Pages : socket'[p] = socket'[q] /\ socket'[p] \in Sockets => p = q
  BY <1>3 DEF TypeOK
<1>7. TypeOK'
  BY <1>1, <1>2, <1>3, <1>4, <1>5, <1>6, SameRows DEF TypeOK, broadcaster
<1>8. OpenIsServed'
  BY <1>3, <1>4 DEF OpenIsServed
<1>9. PushedUpToReached' /\ PushedInOrder'
  BY <1>1, SamePushed
<1> QED
  BY <1>7, <1>8, <1>9

LEMMA LetGoStep ==
  ASSUME IInv, NEW p \in Pages, Close(p) \/ Lose(p)
  PROVE  IInv'
<1> USE DEF IInv
<1>1. PICK end \in {"offline", "gone"} : socket' = [socket EXCEPT ![p] = end]
  BY DEF Close, Lose
<1>2. /\ UNCHANGED <<rows, boot, broadcaster, connections, handler, replay, list>>
      /\ faults' \in 0 .. MaxFaults
  <2>1. UNCHANGED <<rows, boot, broadcaster, connections, handler, replay, list>>
    BY DEF Close, Lose, server, handlers
  <2>2. faults' \in 0 .. MaxFaults
    BY DashboardAssumption DEF Close, Lose, TypeOK
  <2> QED
    BY <2>1, <2>2
<1>3. /\ socket' \in [Pages -> Sockets \cup {"unloaded", "offline", "gone"}]
      /\ socket'[p] \notin Sockets /\ \A q \in Pages \ {p} : socket'[q] = socket[q]
  BY <1>1, DashboardAssumption DEF TypeOK
<1>4. \A q, r \in Pages : socket'[q] = socket'[r] /\ socket'[q] \in Sockets => q = r
  BY <1>3 DEF TypeOK
<1>5. TypeOK'
  BY <1>2, <1>3, <1>4, SameRows DEF TypeOK, broadcaster
<1>6. OpenIsServed'
  BY <1>2, <1>3 DEF OpenIsServed
<1>7. PushedUpToReached' /\ PushedInOrder'
  BY <1>2, SamePushed
<1> QED
  BY <1>5, <1>6, <1>7

LEMMA CrashStep ==
  ASSUME IInv, Crash
  PROVE  IInv'
<1> USE DEF IInv
<1>1. /\ task' = "down" /\ batch' = <<>> /\ record' = 0 /\ audience' = {}
      /\ connections' = {}
      /\ handler' = [t \in Sockets |-> "none"] /\ replay' = [t \in Sockets |-> <<>>]
      /\ socket' = [p \in Pages |-> IF socket[p] \in Sockets THEN "offline" ELSE socket[p]]
      /\ UNCHANGED <<rows, boot, lastId, list, pushed>>
  BY DEF Crash
<1>2. \A p \in Pages : socket'[p] \in {"unloaded", "offline", "gone"} /\ socket'[p] \notin Sockets
  BY <1>1, DashboardAssumption DEF TypeOK
<1>3. socket' \in [Pages -> Sockets \cup {"unloaded", "offline", "gone"}]
  BY <1>1 DEF TypeOK
<1>4. <<>> \in Seq(Ids) /\ 0 \in 0 .. Len(rows) /\ Ids' = Ids
  BY <1>1, SameRows, RowsFacts, EmptySeq DEF TypeOK
<1>5. faults' \in 0 .. MaxFaults
  BY DashboardAssumption DEF Crash, TypeOK
<1>6. TypeOK'
  BY <1>1, <1>2, <1>3, <1>4, <1>5 DEF TypeOK
<1>7. OpenIsServed'
  BY <1>2 DEF OpenIsServed
<1>8. PushedUpToReached' /\ PushedInOrder'
  <2>1. lastId' <= Reached'
    BY <1>1 DEF Reached, TypeOK
  <2> QED
    BY <1>1, <2>1 DEF PushedUpToReached, PushedInOrder
<1> QED
  BY <1>6, <1>7, <1>8

LEMMA RestartStep ==
  ASSUME IInv, Restart
  PROVE  IInv'
<1> USE DEF IInv
<1>1. /\ task = "down" /\ task' = "running" /\ boot' = Len(rows) /\ pushed' = <<>>
      /\ lastId' = Greatest(Recent)
      /\ UNCHANGED <<batch, record, audience, connections, handler, replay, rows,
                     socket, list, faults>>
  BY DEF Restart, handlers, browser
<1>2. Greatest(Recent) \in 0 .. Len(rows) /\ Len(rows) \in 0 .. Len(rows)
  BY SeedFacts DEF TypeOK
<1>3. <<>> \in Seq(Ids) /\ Len(<<>>) = 0 /\ Ids' = Ids
  BY <1>1, SameRows, EmptySeq
<1>4. TypeOK'
  BY <1>1, <1>2, <1>3 DEF TypeOK
<1>5. OpenIsServed'
  BY <1>1, SameOpen
<1>6. PushedInOrder'
  BY <1>1, <1>3 DEF PushedInOrder
<1>7. PushedUpToReached'
  <2>1. record' = 0 /\ lastId' \in Int
    BY <1>1, <1>2 DEF PushedUpToReached
  <2> QED
    BY <1>1, <1>3, <2>1 DEF PushedUpToReached, Reached
<1> QED
  BY <1>4, <1>5, <1>6, <1>7
-----------------------------------------------------------------------------
THEOREM Inductive == Spec => []IInv
<1>1. Init => IInv
  <2> SUFFICES ASSUME Init PROVE IInv
    OBVIOUS
  <2>1. rows \in Seq(Stamps)
    BY DashboardAssumption DEF Init
  <2>2. Greatest(Recent) \in 0 .. Len(rows) /\ Len(rows) \in 0 .. Len(rows)
    BY <2>1, SeedFacts
  <2>3. <<>> \in Seq(Ids) /\ Len(<<>>) = 0
    BY EmptySeq
  <2>4. \A p \in Pages : socket[p] \notin Sockets
    BY DashboardAssumption DEF Init
  <2>5. TypeOK
    BY <2>1, <2>2, <2>3, <2>4, DashboardAssumption DEF Init, TypeOK
  <2>6. OpenIsServed
    BY <2>4 DEF OpenIsServed
  <2>7. PushedUpToReached /\ PushedInOrder
    BY <2>2, <2>3 DEF Init, PushedUpToReached, PushedInOrder, Reached
  <2> QED
    BY <2>5, <2>6, <2>7 DEF IInv
<1>2. IInv /\ [Next]_vars => IInv'
  <2> SUFFICES ASSUME IInv, [Next]_vars PROVE IInv'
    OBVIOUS
  <2>1. ASSUME NEW stamp \in Stamps, Save(stamp) PROVE IInv'
    BY <2>1, SaveStep
  <2>2. CASE Broadcaster
    BY <2>2, PollStep, ExamineStep, PushStep DEF Broadcaster
  <2>3. CASE PollRaises
    BY <2>3, PollStep
  <2>4. ASSUME NEW t \in Sockets, Handler(t) \/ QueryRaises(t) PROVE IInv'
    BY <2>4, HandlerStep, QueryRaisesStep
  <2>5. ASSUME NEW p \in Pages, Load(p) \/ Reconnect(p) PROVE IInv'
    BY <2>5, ConnectStep DEF Load, Reconnect
  <2>6. ASSUME NEW p \in Pages, Close(p) \/ Lose(p) PROVE IInv'
    BY <2>6, LetGoStep
  <2>7. CASE Crash \/ Restart
    BY <2>7, CrashStep, RestartStep
  <2>8. CASE UNCHANGED vars
    BY <2>8, SameRows, SameOpen, SamePushed
      DEF vars, server, broadcaster, handlers, browser, IInv, TypeOK
  <2> QED
    BY <2>1, <2>2, <2>3, <2>4, <2>5, <2>6, <2>7, <2>8 DEF Next, WebStep
<1> QED
  BY <1>1, <1>2, PTL DEF Spec

(* Type correctness, and no two pages on one socket (server.py 34-58).     *)
THEOREM Typing == Spec => []TypeOK
BY Inductive, PTL DEF IInv

(* What is broadcast is broadcast once and in order of id (server.py       *)
(* 92-103), in whatever order the rows come out of the query.              *)
THEOREM BroadcastInOrder == Spec => []PushedInOrder
BY Inductive, PTL DEF IInv
-----------------------------------------------------------------------------
(* NothingSkipped, where ids and timestamps agree: a batch has no gap.     *)
LEMMA WholeFromNoGap == IInv /\ NoGap => NothingSkipped
<1> SUFFICES ASSUME IInv, NoGap, NEW id \in boot + 1 .. lastId
             PROVE  id \in Recent => \E i \in 1 .. Len(pushed) : pushed[i] = id
  BY DEF NothingSkipped, IInv
<1>1. boot \in Int /\ lastId \in Int /\ record \in Int /\ lastId <= Reached
  BY RowsFacts DEF IInv, TypeOK, PushedUpToReached
<1>2. id \in boot + 1 .. Reached
  BY <1>1 DEF Reached
<1> QED
  BY <1>2 DEF NoGap

LEMMA SameNoGap ==
  ASSUME NoGap, UNCHANGED <<rows, boot, batch, pushed>>, Reached' = Reached
  PROVE  NoGap'
BY DEF NoGap, Ids, Recent

LEMMA SaveNoGap ==
  ASSUME IInv, NoGap, InOrder, NEW stamp \in Stamps, Save(stamp)
  PROVE  NoGap'
<1>1. /\ rows' = Append(rows, stamp) /\ \A i \in 1 .. Len(rows) : rows[i] <= stamp
      /\ rows \in Seq(Stamps)
      /\ UNCHANGED <<boot, lastId, batch, record, pushed>>
  BY DEF Save, IInv, TypeOK, server, broadcaster
<1>2. /\ Len(rows) \in Nat /\ Len(rows') = Len(rows) + 1 /\ rows'[Len(rows) + 1] = stamp
      /\ \A i \in 1 .. Len(rows) : rows'[i] = rows[i]
  BY <1>1, AppendProperties, LenProperties
<1>3. \A i, j \in 1 .. Len(rows') : i < j => rows'[i] <= rows'[j]
  <2> SUFFICES ASSUME NEW i \in 1 .. Len(rows'), NEW j \in 1 .. Len(rows'), i < j
               PROVE  rows'[i] <= rows'[j]
    OBVIOUS
  <2>1. i \in 1 .. Len(rows) /\ (j \in 1 .. Len(rows) \/ j = Len(rows) + 1)
    BY <1>2
  <2> QED
    BY <1>1, <1>2, <2>1 DEF NoGap, Ids
<1>4. \A id \in 1 .. Len(rows) : id \in Recent' => id \in Recent
  BY <1>2 DEF Recent
<1>5. \A i \in 1 .. Len(batch) : batch[i] \in 1 .. Len(rows)
  BY ElementOfSeq DEF IInv, TypeOK, Ids
<1>6. boot \in Nat /\ Reached \in 0 .. Len(rows)
  BY <1>2 DEF IInv, TypeOK, Reached
<1>7. \A n \in 0 .. Len(rows) : boot + 1 .. n \subseteq 1 .. Len(rows)
  BY <1>2, <1>6
<1>8. \A i \in 1 .. Len(batch) : \A id \in (boot + 1 .. batch[i]) \cap Recent' :
        id <= Reached \/ \E j \in 1 .. i : batch[j] = id
  <2> SUFFICES ASSUME NEW i \in 1 .. Len(batch), NEW id \in boot + 1 .. batch[i], id \in Recent'
               PROVE  id <= Reached \/ \E j \in 1 .. i : batch[j] = id
    OBVIOUS
  <2>1. batch[i] \in 0 .. Len(rows)
    BY <1>5
  <2>2. id \in Recent
    BY <1>4, <1>7, <2>1
  <2> QED
    BY <2>2 DEF NoGap
<1>9. \A id \in (boot + 1 .. Reached) \cap Recent' : \E i \in 1 .. Len(pushed) : pushed[i] = id
  BY <1>4, <1>6, <1>7 DEF NoGap
<1> QED
  BY <1>1, <1>3, <1>8, <1>9 DEF NoGap, Ids, Reached

(* The batch is what alerts_since() gives: no recent row after the boot is *)
(* missing, and ids and timestamps rise together.                          *)
LEMMA PollNoGap ==
  ASSUME IInv, NoGap, Poll
  PROVE  NoGap'
<1>1. /\ batch' = OldestFirst /\ rows \in Seq(Stamps)
      /\ UNCHANGED <<rows, boot, lastId, record, pushed>>
  BY DEF Poll, IInv, TypeOK
<1> DEFINE s == OldestFirst
           n == Len(OldestFirst)
<1>2. /\ s \in Seq(Ids)
      /\ \A id \in Recent : \E i \in 1 .. n : s[i] = id
      /\ \A i, j \in 1 .. n : i < j => Before(s[i], s[j])
  BY <1>1, OldestFirstFacts
<1>3. n \in Nat /\ \A i \in 1 .. n : s[i] \in Ids
  BY <1>2, LenProperties, ElementOfSeq
<1> HIDE DEF s, n
<1>4. Ids = 1 .. Len(rows) /\ Len(rows) \in Nat /\ \A i \in Ids : i \in Int /\ rows[i] \in Int
  BY <1>1, RowsFacts
<1>5. \A i, j \in 1 .. n : i < j => s[i] < s[j]
  <2> SUFFICES ASSUME NEW i \in 1 .. n, NEW j \in 1 .. n, i < j PROVE s[i] < s[j]
    OBVIOUS
  <2>1. PICK x \in Ids, y \in Ids : x = s[i] /\ y = s[j] /\ Before(x, y)
    BY <1>2, <1>3
  <2>2. y < x => rows[y] <= rows[x]
    BY DEF NoGap
  <2>3. x < y
    BY <1>4, <2>1, <2>2 DEF Before
  <2> QED
    BY <2>1, <2>3
<1>6. \A i \in 1 .. n : \A id \in (boot + 1 .. s[i]) \cap Recent : \E j \in 1 .. i : s[j] = id
  <2> SUFFICES ASSUME NEW i \in 1 .. n, NEW id \in boot + 1 .. s[i], id \in Recent
               PROVE  \E j \in 1 .. i : s[j] = id
    OBVIOUS
  <2>1. PICK x \in 1 .. Len(rows) : x = s[i]
    BY <1>3, <1>4
  <2>2. boot \in Nat
    BY <1>4 DEF IInv, TypeOK
  <2>3. id \in 1 .. Len(rows) /\ id <= x
    BY <1>4, <2>1, <2>2
  <2>4. PICK j \in 1 .. n : s[j] = id
    BY <1>2
  <2>5. ~(i < j)
    BY <1>4, <1>5, <2>1, <2>3, <2>4
  <2>6. j \in 1 .. i
    BY <1>3, <2>5
  <2> QED
    BY <2>4, <2>6
<1>7. batch' = s /\ Len(batch') = n
  BY <1>1 DEF s, n
<1>8. Recent' = Recent
  BY <1>1 DEF Recent
<1> QED
  BY <1>1, <1>5, <1>6, <1>7, <1>8 DEF NoGap, Ids, Reached

LEMMA ExamineNoGap ==
  ASSUME IInv, NoGap, Examine
  PROVE  NoGap'
<1>1. PICK id \in Ids :
           /\ id = batch[1] /\ batch # <<>> /\ record = 0 /\ audience = {} /\ task # "down"
           /\ batch' = Tail(batch) /\ batch' \in Seq(Ids)
           /\ UNCHANGED <<rows, boot, task, connections, handler, replay, socket, list, faults>>
           /\ \/ id <= lastId /\ UNCHANGED <<lastId, record, audience, pushed>>
              \/ /\ id > lastId /\ pushed' = Append(pushed, id)
                 /\ \/ lastId' = id /\ record' = 0 /\ audience' = {}
                    \/ lastId' = lastId /\ record' = id /\ audience' = connections /\ audience' # {}
  BY ExamineFacts
<1>2. batch \in Seq(Ids) /\ pushed \in Seq(Ids) /\ rows \in Seq(Stamps) /\ Recent' = Recent
  BY <1>1 DEF IInv, TypeOK, Recent
<1>3. /\ id \in Nat \ {0} /\ lastId \in Int /\ boot \in Int /\ Reached = lastId
  BY <1>1, <1>2, RowsFacts DEF IInv, TypeOK, Reached
<1> DEFINE n == Len(batch')
<1>4. /\ n \in Nat /\ Len(batch) = n + 1 /\ \A i \in 1 .. n : batch'[i] = batch[i + 1]
  BY <1>1, <1>2, HeadTailProperties, LenProperties
<1>5. /\ \A i, j \in 1 .. n + 1 : i < j => batch[i] < batch[j]
      /\ \A i \in 1 .. n + 1 : \A x \in (boot + 1 .. batch[i]) \cap Recent :
           x <= lastId \/ \E j \in 1 .. i : batch[j] = x
  BY <1>3, <1>4 DEF NoGap
<1> HIDE DEF n
<1>6. \A i \in 1 .. n : i + 1 \in 1 .. n + 1
  BY <1>4
<1>7. \A i, j \in 1 .. n : i < j => batch'[i] < batch'[j]
  <2>1. \A i, j \in 1 .. n : i < j => i + 1 < j + 1
    BY <1>4
  <2> QED
    BY <1>4, <1>5, <1>6, <2>1
<1>8. \A i \in 1 .. n : \A x \in (boot + 1 .. batch'[i]) \cap Recent :
        x <= lastId \/ x = id \/ \E j \in 1 .. i : batch'[j] = x
  <2> SUFFICES ASSUME NEW i \in 1 .. n, NEW x \in boot + 1 .. batch'[i], x \in Recent,
                      ~(x <= lastId), x # id
               PROVE  \E j \in 1 .. i : batch'[j] = x
    OBVIOUS
  <2>1. PICK j \in 1 .. i + 1 : batch[j] = x
    BY <1>4, <1>5, <1>6
  <2>2. j # 1
    BY <1>1, <2>1
  <2>3. j - 1 \in 1 .. i /\ j - 1 \in 1 .. n /\ (j - 1) + 1 = j
    BY <1>4, <2>2
  <2> QED
    BY <1>4, <2>1, <2>3
<1>9. \A i, j \in 1 .. Len(batch') : i < j => batch'[i] < batch'[j]
  BY <1>7 DEF n
<1>10. CASE id <= lastId /\ UNCHANGED <<lastId, record, audience, pushed>>
  <2>1. Reached' = lastId
    BY <1>3, <1>10 DEF Reached
  <2>2. \A i \in 1 .. n : \A x \in (boot + 1 .. batch'[i]) \cap Recent :
          x <= lastId \/ \E j \in 1 .. i : batch'[j] = x
    BY <1>8, <1>10
  <2>3. UNCHANGED <<rows, boot, pushed>> /\ Reached' = Reached
    BY <1>1, <1>3, <1>10, <2>1
  <2>4. \A i \in 1 .. Len(batch') : \A x \in (boot' + 1 .. batch'[i]) \cap Recent' :
          x <= Reached' \/ \E j \in 1 .. i : batch'[j] = x
    BY <1>2, <2>1, <2>2, <2>3 DEF n
  <2> QED
    BY <1>9, <2>3, <2>4 DEF NoGap, Ids, Recent
<1>11. CASE /\ id > lastId /\ pushed' = Append(pushed, id)
            /\ \/ lastId' = id /\ record' = 0
               \/ lastId' = lastId /\ record' = id
  <2>1. Reached' = id
    BY <1>3, <1>11 DEF Reached
  <2>2. \A i \in 1 .. n : \A x \in (boot + 1 .. batch'[i]) \cap Recent :
          x <= id \/ \E j \in 1 .. i : batch'[j] = x
    <3> SUFFICES ASSUME NEW i \in 1 .. n, NEW x \in boot + 1 .. batch'[i], x \in Recent
                 PROVE  x <= id \/ \E j \in 1 .. i : batch'[j] = x
      OBVIOUS
    <3>1. x \in Int /\ (x <= lastId \/ x = id => x <= id)
      BY <1>3, <1>11
    <3> QED
      BY <1>8, <3>1
  <2>3. /\ Len(pushed) \in Nat /\ Len(pushed') = Len(pushed) + 1
        /\ pushed'[Len(pushed) + 1] = id
        /\ \A i \in 1 .. Len(pushed) : pushed'[i] = pushed[i]
    BY <1>2, <1>11, AppendProperties, LenProperties
  <2>4. \A x \in (boot + 1 .. id) \cap Recent : \E i \in 1 .. Len(pushed') : pushed'[i] = x
    <3> SUFFICES ASSUME NEW x \in boot + 1 .. id, x \in Recent
                 PROVE  \E i \in 1 .. Len(pushed') : pushed'[i] = x
      OBVIOUS
    <3>1. 1 \in 1 .. n + 1 /\ \A j \in 1 .. 1 : j = 1
      BY <1>4
    <3>2. x <= lastId \/ x = id
      BY <1>1, <1>5, <3>1
    <3>3. CASE x = id
      <4>1. Len(pushed) + 1 \in 1 .. Len(pushed')
        BY <2>3
      <4> QED
        BY <2>3, <3>3, <4>1
    <3>4. CASE x <= lastId
      <4>1. x \in boot + 1 .. Reached
        BY <1>3, <3>4
      <4>2. PICK i \in 1 .. Len(pushed) : pushed[i] = x
        BY <4>1 DEF NoGap
      <4>3. i \in 1 .. Len(pushed')
        BY <2>3
      <4> QED
        BY <2>3, <4>2, <4>3
    <3> QED
      BY <3>2, <3>3, <3>4
  <2>5. rows' = rows /\ boot' = boot /\ \A i, j \in 1 .. Len(rows) : i < j => rows[i] <= rows[j]
    BY <1>1 DEF NoGap, Ids
  <2>6. \A i \in 1 .. Len(batch') : \A x \in (boot' + 1 .. batch'[i]) \cap Recent' :
          x <= Reached' \/ \E j \in 1 .. i : batch'[j] = x
    BY <1>2, <2>1, <2>2, <2>5 DEF n
  <2>7. \A x \in (boot' + 1 .. Reached') \cap Recent' : \E i \in 1 .. Len(pushed') : pushed'[i] = x
    BY <1>2, <2>1, <2>4, <2>5
  <2>8. \A i, j \in Ids' : i < j => rows'[i] <= rows'[j]
    BY <2>5 DEF Ids
  <2> QED
    BY <1>9, <2>6, <2>7, <2>8 DEF NoGap
<1> QED
  BY <1>1, <1>10, <1>11

(* Between alerts that are saved in the order of their timestamps the      *)
(* broadcaster skips none that the query can return (server.py 92-103): up *)
(* to last_id, every such row saved since the server started was broadcast.*)
THEOREM NoAlertSkipped ==
  ASSUME InOrder
  PROVE  Spec => []NothingSkipped
<1>1. Init => NoGap
  <2> SUFFICES ASSUME Init PROVE NoGap
    OBVIOUS
  <2>1. /\ rows \in Seq(Stamps) /\ boot = Len(rows) /\ lastId = Greatest(Recent)
        /\ batch = <<>> /\ record = 0 /\ Len(<<>>) = 0
        /\ \A i, j \in 1 .. Len(rows) : i < j => rows[i] <= rows[j]
    BY EmptySeq DEF Init
  <2>2. Reached \in 0 .. Len(rows) /\ Len(rows) \in Nat
    BY <2>1, SeedFacts, RowsFacts DEF Reached
  <2>3. boot + 1 .. Reached = {} /\ 1 .. Len(batch) = {}
    BY <2>1, <2>2
  <2> QED
    BY <2>1, <2>3 DEF NoGap, Ids
<1>2. IInv /\ NoGap /\ [Next]_vars => NoGap'
  <2> SUFFICES ASSUME IInv, NoGap, [Next]_vars PROVE NoGap'
    OBVIOUS
  <2>1. ASSUME NEW stamp \in Stamps, Save(stamp) PROVE NoGap'
    BY <2>1, SaveNoGap
  <2>2. CASE Poll
    BY <2>2, PollNoGap
  <2>3. CASE Examine
    BY <2>3, ExamineNoGap
  <2>4. ASSUME NEW t \in Sockets, Push(t) PROVE NoGap'
    <3>1. /\ record # 0
          /\ \/ lastId' = record /\ record' = 0
             \/ lastId' = lastId /\ record' = record
          /\ UNCHANGED <<rows, boot, batch, pushed>>
      BY <2>4 DEF Push, IInv, TypeOK
    <3> QED
      BY <3>1, SameNoGap DEF Reached
  <2>5. CASE PollRaises
    BY <2>5, SameNoGap DEF PollRaises, Reached
  <2>6. ASSUME NEW t \in Sockets, Handler(t) \/ QueryRaises(t) PROVE NoGap'
    BY <2>6, SameNoGap
      DEF Handler, QueryRaises, Query, Replay, ReplayRaises, Disconnect, broadcaster, Reached, browser
  <2>7. ASSUME NEW p \in Pages, Load(p) \/ Reconnect(p) PROVE NoGap'
    BY <2>7, SameNoGap DEF Load, Reconnect, Connect, broadcaster, Reached
  <2>8. ASSUME NEW p \in Pages, Close(p) \/ Lose(p) PROVE NoGap'
    BY <2>8, SameNoGap DEF Close, Lose, server, broadcaster, Reached
  <2>9. CASE Crash
    <3>1. /\ batch' = <<>> /\ Reached' = lastId /\ Len(<<>>) = 0
          /\ UNCHANGED <<rows, boot, pushed>>
      BY <2>9, EmptySeq DEF Crash, Reached
    <3>2. lastId \in Int /\ boot \in Int /\ Reached \in Int /\ lastId <= Reached
      BY RowsFacts DEF IInv, TypeOK, PushedUpToReached, Reached
    <3>3. boot + 1 .. lastId \subseteq boot + 1 .. Reached
      BY <3>2
    <3> QED
      BY <3>1, <3>3 DEF NoGap, Ids, Recent
  <2>10. CASE Restart
    <3>1. /\ batch' = <<>> /\ record' = 0 /\ boot' = Len(rows) /\ lastId' = Greatest(Recent)
          /\ Len(<<>>) = 0 /\ rows' = rows
      BY <2>10, EmptySeq DEF Restart, IInv, PushedUpToReached
    <3>2. Reached' \in 0 .. Len(rows) /\ Len(rows) \in Nat
      BY <3>1, SeedFacts, RowsFacts DEF Reached, IInv, TypeOK
    <3>3. \A i \in 1 .. Len(batch') : FALSE
      BY <3>1
    <3>4. boot' + 1 .. Reached' = {}
      BY <3>1, <3>2
    <3> QED
      BY <3>1, <3>3, <3>4 DEF NoGap, Ids
  <2>11. CASE UNCHANGED vars
    BY <2>11, SameNoGap DEF vars, server, broadcaster, Reached
  <2> QED
    BY <2>1, <2>2, <2>3, <2>4, <2>5, <2>6, <2>7, <2>8, <2>9, <2>10, <2>11
      DEF Next, WebStep, Broadcaster
<1>3. IInv /\ NoGap => NothingSkipped
  BY WholeFromNoGap
<1> QED
  BY <1>1, <1>2, <1>3, Inductive, PTL DEF Spec
=============================================================================
