-------------------------- MODULE DetectorsProofs ---------------------------
(***************************************************************************)
(* Theorems about the detectors, for any traffic.                          *)
(***************************************************************************)
EXTENDS Detectors, SlidingWindow, SequenceTheorems, FiniteSetTheorems,
        WellFoundedInduction, TLAPS

(* Is i the last place before n that speaks of the address?                *)
LastOf(h, ip, i, n) ==
  h[i].ip = ip /\ \A m \in i + 1 .. n : h[m].ip # ip

ToldRight(h, i) ==
  h[i].conflict <=> \E j \in 1 .. i - 1 : /\ LastOf(h, h[i].ip, j, i - 1)
                                          /\ h[j].mac # h[i].mac

LEMMA ConflictsByLast == ConflictsExact <=> \A i \in 1 .. Len(arHistory) : ToldRight(arHistory, i)
BY DEF ConflictsExact, AR!ConflictsExact, ToldRight, LastOf

(* _arp_table says of an address what the last packet of it said.          *)
ArpTableIsLast ==
  /\ \A i \in 1 .. Len(arHistory) : arHistory[i].ip \in DOMAIN arTable
  /\ \A ip \in DOMAIN arTable : \E i \in 1 .. Len(arHistory) :
       LastOf(arHistory, ip, i, Len(arHistory)) /\ arHistory[i].mac = arTable[ip]

ArpInv ==
  /\ \E S : arHistory \in Seq(S)
  /\ ArpTableIsLast
  /\ \A i \in 1 .. Len(arHistory) : ToldRight(arHistory, i)

LEMMA SeenStep ==
  ASSUME ArpInv, NEW p, NEW flood, AR!Seen(p, flood)
  PROVE  ArpInv'
<1> DEFINE e == [ip |-> p.src, mac |-> p.mac, ts |-> now',
                 announces |-> AR!Announces(p),
                 conflict |-> AR!Conflict(p.src, p.mac), flood |-> flood]
           h == arHistory
           g == arHistory'
           n == Len(arHistory)
<1>1. arHistory' = Append(arHistory, e) /\ arTable' = AR!Learned(p.src, p.mac)
  BY DEF AR!Seen
<1>2. PICK S : h \in Seq(S)
  BY DEF ArpInv
<1>3. /\ e.ip = p.src /\ e.mac = p.mac
      /\ e.conflict <=> p.src \in DOMAIN arTable /\ arTable[p.src] # p.mac
  BY DEF AR!Conflict
<1>4. /\ DOMAIN arTable' = DOMAIN arTable \cup {p.src} /\ arTable'[p.src] = p.mac
      /\ \A ip \in DOMAIN arTable \ {p.src} : arTable'[ip] = arTable[ip]
  BY <1>1 DEF AR!Learned
<1> HIDE DEF e
<1>5. /\ n \in Nat /\ g \in Seq(S \cup {e}) /\ Len(g) = n + 1 /\ g[n + 1] = e
      /\ \A i \in 1 .. n : g[i] = h[i]
  <2>1. h \in Seq(S \cup {e}) /\ e \in S \cup {e}
    BY <1>2, SeqMonotonic
  <2> QED
    BY <1>1, <2>1, AppendProperties, LenProperties
<1>6. /\ \A i \in 1 .. n : h[i].ip \in DOMAIN arTable
      /\ \A ip \in DOMAIN arTable : \E i \in 1 .. n :
           LastOf(h, ip, i, n) /\ h[i].mac = arTable[ip]
      /\ \A i \in 1 .. n : ToldRight(h, i)
  BY DEF ArpInv, ArpTableIsLast
<1> HIDE DEF h, g, n
<1>7. \A i, k : i \in 1 .. n /\ k \in 0 .. n => \A ip : LastOf(g, ip, i, k) <=> LastOf(h, ip, i, k)
  <2> SUFFICES ASSUME NEW i \in 1 .. n, NEW k \in 0 .. n, NEW ip
               PROVE  LastOf(g, ip, i, k) <=> LastOf(h, ip, i, k)
    OBVIOUS
  <2>1. i + 1 .. k \subseteq 1 .. n
    BY <1>5
  <2> QED
    BY <1>5, <2>1 DEF LastOf
<1>8. \A i \in 1 .. n : ToldRight(g, i)
  <2> SUFFICES ASSUME NEW i \in 1 .. n PROVE ToldRight(g, i)
    OBVIOUS
  <2>1. i - 1 \in 0 .. n /\ 1 .. i - 1 \subseteq 1 .. n
    BY <1>5
  <2>2. g[i] = h[i] /\ \A j \in 1 .. i - 1 : g[j] = h[j]
    BY <1>5, <2>1
  <2>3. \A j \in 1 .. i - 1 : LastOf(g, h[i].ip, j, i - 1) <=> LastOf(h, h[i].ip, j, i - 1)
    BY <1>7, <2>1
  <2> QED
    BY <1>6, <2>2, <2>3 DEF ToldRight
<1>9. ToldRight(g, n + 1)
  <2>1. (n + 1) - 1 = n /\ n \in 0 .. n /\ g[n + 1] = e
    BY <1>5
  <2>2. \A i \in 1 .. n : LastOf(g, p.src, i, n) <=> LastOf(h, p.src, i, n)
    BY <1>7, <2>1
  <2>3. ASSUME e.conflict
        PROVE  \E j \in 1 .. n : LastOf(h, p.src, j, n) /\ h[j].mac # p.mac
    BY <1>3, <1>6, <2>3
  <2>4. ASSUME NEW j \in 1 .. n, LastOf(h, p.src, j, n), h[j].mac # p.mac
        PROVE  e.conflict
    <3>1. p.src \in DOMAIN arTable
      BY <1>6, <2>4 DEF LastOf
    <3>2. PICK i \in 1 .. n : LastOf(h, p.src, i, n) /\ h[i].mac = arTable[p.src]
      BY <1>6, <3>1
    <3>3. i = j
      <4>1. ~(i < j) /\ ~(j < i)
        <5>1. i < j => j \in i + 1 .. n
          BY <1>5
        <5>2. j < i => i \in j + 1 .. n
          BY <1>5
        <5> QED
          BY <2>4, <3>2, <5>1, <5>2 DEF LastOf
      <4> QED
        BY <1>5, <4>1
    <3> QED
      BY <1>3, <2>4, <3>1, <3>2, <3>3
  <2>5. \A j \in 1 .. n : g[j].mac = h[j].mac
    BY <1>5
  <2> QED
    BY <1>3, <2>1, <2>2, <2>3, <2>4, <2>5 DEF ToldRight
<1>10. \A i \in 1 .. n + 1 : i \in 1 .. n \/ i = n + 1
  BY <1>5
<1>11. \A i \in 1 .. n + 1 : g[i].ip \in DOMAIN arTable'
  BY <1>3, <1>4, <1>5, <1>6, <1>10
<1>12. ASSUME NEW ip \in DOMAIN arTable'
       PROVE  \E i \in 1 .. n + 1 : LastOf(g, ip, i, n + 1) /\ g[i].mac = arTable'[ip]
  <2>1. CASE ip = p.src
    <3>1. n + 1 \in 1 .. n + 1 /\ (n + 1) + 1 .. n + 1 = {}
      BY <1>5
    <3> QED
      BY <1>3, <1>4, <1>5, <2>1, <3>1 DEF LastOf
  <2>2. CASE ip # p.src
    <3>1. PICK i \in 1 .. n : LastOf(h, ip, i, n) /\ h[i].mac = arTable[ip]
      BY <1>4, <1>6, <2>2
    <3>2. i \in 1 .. n + 1 /\ \A m \in i + 1 .. n + 1 : m \in i + 1 .. n \/ m = n + 1
      BY <1>5
    <3>3. LastOf(g, ip, i, n)
      <4>1. n \in 0 .. n
        BY <1>5
      <4> QED
        BY <1>7, <3>1, <4>1
    <3>4. LastOf(g, ip, i, n + 1)
      BY <1>3, <1>5, <2>2, <3>2, <3>3 DEF LastOf
    <3> QED
      BY <1>4, <1>5, <2>2, <3>1, <3>2, <3>4
  <2> QED
    BY <2>1, <2>2
<1>13. \A i \in 1 .. n + 1 : ToldRight(g, i)
  BY <1>8, <1>9, <1>10
<1> QED
  BY <1>5, <1>11, <1>12, <1>13 DEF ArpInv, ArpTableIsLast, g

(* Every change of an address's MAC is reported, once (arp_spoof.py,       *)
(* _check_mac_conflict()).                                                 *)
THEOREM EveryConflictReported == Spec => []ConflictsExact
<1>1. Init => ArpInv
  <2> SUFFICES ASSUME Init PROVE ArpInv
    OBVIOUS
  <2>1. arHistory = <<>> /\ arTable = [ip \in {} |-> ip]
    BY DEF Init, AR!Init
  <2>2. Len(<<>>) = 0 /\ <<>> \in Seq({}) /\ 1 .. 0 = {} /\ DOMAIN arTable = {}
    BY <2>1, EmptySeq
  <2> QED
    BY <2>1, <2>2 DEF ArpInv, ArpTableIsLast
<1>2. ArpInv /\ [Next]_vars => ArpInv'
  <2> SUFFICES ASSUME ArpInv, [Next]_vars PROVE ArpInv'
    OBVIOUS
  <2>1. CASE UNCHANGED <<arTable, arHistory>>
    BY <2>1 DEF ArpInv, ArpTableIsLast
  <2>2. ASSUME NEW p, NEW gap, Deliver(p, gap) PROVE ArpInv'
    <3>1. AR!Process(p)
      BY <2>2 DEF Deliver
    <3>2. CASE AR!Ignored(p) \/ AR!NoAddress(p)
      BY <2>1, <3>2 DEF AR!Ignored, AR!NoAddress
    <3>3. CASE AR!Plain(p)
      BY <3>3, SeenStep DEF AR!Plain
    <3>4. CASE AR!Gratuitous(p)
      BY <3>4, SeenStep DEF AR!Gratuitous, AR!CountReply, AR!Judge
    <3> QED
      BY <3>1, <3>2, <3>3, <3>4 DEF AR!Process, AR!ArpPacket
  <2> QED
    BY <2>1, <2>2 DEF Next, vars, arVars
<1>3. ArpInv => ConflictsExact
  BY ConflictsByLast DEF ArpInv
<1> QED
  BY <1>1, <1>2, <1>3, PTL DEF Spec
-----------------------------------------------------------------------------
(* Sliding windows, whatever they count: K is the set of keys.             *)
Ev(K) == [ts : Int, key : K]

Hits(log, P) == Cardinality({i \in 1 .. Len(log) : log[i] \in P})

Keyed(K, k) == {e \in Ev(K) : e.key = k}

Since(K, k, t) == {e \in Ev(K) : e.key = k /\ e.ts >= t}

LEMMA HitsFinite ==
  ASSUME NEW S, NEW log \in Seq(S), NEW P
  PROVE  /\ IsFiniteSet({i \in 1 .. Len(log) : log[i] \in P})
         /\ Hits(log, P) \in Nat
<1>1. IsFiniteSet(1 .. Len(log))
  BY LenProperties, FS_Interval
<1>2. {i \in 1 .. Len(log) : log[i] \in P} \in SUBSET (1 .. Len(log))
  OBVIOUS
<1>3. IsFiniteSet({i \in 1 .. Len(log) : log[i] \in P})
  BY <1>1, <1>2, FS_Subset
<1> QED
  BY <1>3, FS_CardinalityType DEF Hits

LEMMA HitsNone ==
  ASSUME NEW log, NEW P, \A i \in 1 .. Len(log) : log[i] \notin P
  PROVE  Hits(log, P) = 0
<1>1. {i \in 1 .. Len(log) : log[i] \in P} = {}
  OBVIOUS
<1> QED
  BY <1>1, FS_EmptySet DEF Hits

(* Cutting a log in two loses no event and counts none twice.              *)
LEMMA HitsSplit ==
  ASSUME NEW S, NEW log \in Seq(S), NEW n \in 0 .. Len(log), NEW P
  PROVE  LET front == SubSeq(log, 1, n)
             back  == SubSeq(log, n + 1, Len(log))
         IN  /\ front \in Seq(S) /\ back \in Seq(S)
             /\ Len(front) = n /\ \A i \in 1 .. n : front[i] = log[i]
             /\ Len(back) = Len(log) - n
             /\ \A i \in 1 .. Len(log) - n : back[i] = log[i + n]
             /\ Hits(log, P) = Hits(front, P) + Hits(back, P)
<1> DEFINE front == SubSeq(log, 1, n)
           back  == SubSeq(log, n + 1, Len(log))
           F == {i \in 1 .. Len(front) : front[i] \in P}
           B == {i \in 1 .. Len(back) : back[i] \in P}
           L == {i \in 1 .. Len(log) : log[i] \in P}
           Shifted == {i \in L : i > n}
           shift == [i \in B |-> i + n]
<1>1. Len(log) \in Nat /\ \A i \in 1 .. Len(log) : log[i] \in S
  BY LenProperties, ElementOfSeq
<1>2. /\ front \in Seq(S) /\ Len(front) = n
      /\ \A i \in 1 .. n : front[i] = log[i]
  BY <1>1, SubSeqProperties
<1>3. /\ back \in Seq(S) /\ Len(back) = Len(log) - n
      /\ \A i \in 1 .. Len(log) - n : back[i] = log[i + n]
  <2>1. \A i \in n + 1 .. Len(log) : log[i] \in S
    BY <1>1
  <2>2. /\ back \in Seq(S)
        /\ Len(back) = IF n + 1 <= Len(log) THEN Len(log) - (n + 1) + 1 ELSE 0
        /\ \A i \in 1 .. Len(log) - (n + 1) + 1 : back[i] = log[(n + 1) + i - 1]
    BY <1>1, <2>1, SubSeqProperties
  <2> QED
    BY <1>1, <2>2
<1> HIDE DEF front, back
<1>4. /\ IsFiniteSet(F) /\ IsFiniteSet(B) /\ IsFiniteSet(L)
      /\ Cardinality(F) \in Nat /\ Cardinality(B) \in Nat
  BY <1>2, <1>3, HitsFinite DEF Hits
<1>5. L = F \cup Shifted /\ F \cap Shifted = {}
  BY <1>1, <1>2
<1>6. shift \in Bijection(B, Shifted)
  <2>1. \A i \in B : i + n \in Shifted
    BY <1>1, <1>3
  <2>2. \A j \in Shifted : j - n \in B /\ (j - n) + n = j
    BY <1>1, <1>3
  <2>3. B \subseteq Nat
    BY <1>1, <1>3
  <2>4. shift \in [B -> Shifted]
    BY <2>1
  <2>5. \A i, j \in B : shift[i] = shift[j] => i = j
    BY <2>3
  <2>6. \A j \in Shifted : \E i \in B : shift[i] = j
    BY <2>2
  <2> QED
    BY <2>4, <2>5, <2>6 DEF Bijection, Injection, Surjection, IsInjective
<1>7. IsFiniteSet(Shifted) /\ Cardinality(Shifted) = Cardinality(B)
  BY <1>4, <1>6, FS_Bijection DEF ExistsBijection
<1>8. Cardinality(F \cup Shifted)
        = Cardinality(F) + Cardinality(Shifted) - Cardinality(F \cap Shifted)
  BY <1>4, <1>7, FS_Union
<1>9. Cardinality(F \cap Shifted) = 0
  BY <1>5, FS_EmptySet
<1>10. Cardinality(L) = Cardinality(F) + Cardinality(B)
  <2> HIDE DEF L, F, B, Shifted
  <2> QED
    BY <1>4, <1>5, <1>7, <1>8, <1>9
<1>11. Hits(log, P) = Cardinality(L) /\ Hits(front, P) = Cardinality(F) /\ Hits(back, P) = Cardinality(B)
  BY DEF Hits
<1> HIDE DEF L, F, B
<1>12. Hits(log, P) = Hits(front, P) + Hits(back, P)
  BY <1>10, <1>11
<1> QED
  BY <1>2, <1>3, <1>12 DEF front, back

(* One more event is one more hit, if it is one.                           *)
LEMMA HitsAppend ==
  ASSUME NEW S, NEW log \in Seq(S), NEW e \in S, NEW P
  PROVE  Hits(Append(log, e), P) = Hits(log, P) + (IF e \in P THEN 1 ELSE 0)
<1> DEFINE L == {i \in 1 .. Len(log) : log[i] \in P}
           longer == Append(log, e)
           A == {i \in 1 .. Len(longer) : longer[i] \in P}
<1>1. /\ Len(log) \in Nat
      /\ Len(longer) = Len(log) + 1
      /\ \A i \in 1 .. Len(log) : longer[i] = log[i]
      /\ longer[Len(log) + 1] = e
  BY LenProperties, AppendProperties
<1>2. IsFiniteSet(L) /\ Cardinality(L) \in Nat
  BY HitsFinite DEF Hits
<1> HIDE DEF longer
<1>3. CASE e \in P
  <2>1. A = L \cup {Len(log) + 1} /\ Len(log) + 1 \notin L
    BY <1>1, <1>3
  <2>2. Cardinality(A) = Cardinality(L) + 1
    BY <1>2, <2>1, FS_AddElement
  <2> HIDE DEF A
  <2>3. Hits(longer, P) = Hits(log, P) + 1
    BY <2>2 DEF Hits, A
  <2> QED
    BY <1>3, <2>3 DEF longer
<1>4. CASE e \notin P
  <2>1. A = L
    BY <1>1, <1>4
  <2>2. Hits(longer, P) = Hits(log, P) /\ Hits(log, P) \in Nat
    BY <1>2, <2>1 DEF Hits
  <2> QED
    BY <1>4, <2>2 DEF longer
<1> QED
  BY <1>3, <1>4

(* Windows as add() and prune() keep them while the clock does not step    *)
(* back: both structures typed, in step, and the log in order of time.     *)
Good(w, s, K, n) ==
  /\ w = [seconds |-> s, log |-> w.log, counts |-> w.counts]
  /\ w.log \in Seq(Ev(K))
  /\ \A i, j \in 1 .. Len(w.log) : i <= j => w.log[i].ts <= w.log[j].ts
  /\ \A i \in 1 .. Len(w.log) : w.log[i].ts <= n
  /\ w.counts \in [DOMAIN w.counts -> Nat \ {0}] /\ DOMAIN w.counts \subseteq K
  /\ \A k \in K : CountOf(w, k) = Hits(w.log, Keyed(K, k))

LEMMA GoodLater ==
  ASSUME NEW w, NEW s, NEW K, NEW m \in Int, NEW n \in Int, m <= n, Good(w, s, K, m)
  PROVE  Good(w, s, K, n)
<1>1. \A i \in 1 .. Len(w.log) : w.log[i].ts \in Int
  <2>1. \A i \in 1 .. Len(w.log) : w.log[i] \in Ev(K)
    BY ElementOfSeq DEF Good
  <2> QED
    BY <2>1 DEF Ev
<1>2. \A i \in 1 .. Len(w.log) : w.log[i].ts <= n
  BY <1>1 DEF Good
<1> QED
  BY <1>2 DEF Good

LEMMA NewWindowGood ==
  ASSUME NEW s, NEW K, NEW n
  PROVE  /\ Good(NewWindow(s), s, K, n)
         /\ \A P : Hits(NewWindow(s).log, P) = 0
<1>1. Len(<<>>) = 0 /\ <<>> \in Seq(Ev(K)) /\ \A i \in 1 .. 0 : FALSE
  BY EmptySeq
<1>2. \A P : Hits(<<>>, P) = 0
  BY <1>1, HitsNone
<1> QED
  BY <1>1, <1>2 DEF NewWindow, Good, CountOf

(* On a log in order of time the loop pops the expired events, all of them *)
(* and no others.                                                          *)
LEMMA StaleExact ==
  ASSUME NEW K, NEW log \in Seq(Ev(K)), NEW n \in Int,
         \A i, j \in 1 .. Len(log) : i <= j => log[i].ts <= log[j].ts
  PROVE  /\ Stale(log, n) \in 0 .. Len(log)
         /\ \A i \in 1 .. Len(log) : log[i].ts < n <=> i <= Stale(log, n)
<1> DEFINE S == {m \in 1 .. Len(log) : \A i \in 1 .. m : Expired(log[i], n)}
<1>1. Len(log) \in Nat
  BY LenProperties
<1>2. S \in SUBSET (1 .. Len(log))
  OBVIOUS
<1>0. IsFiniteSet(1 .. Len(log)) /\ Cardinality(1 .. Len(log)) = Len(log)
  <2> DEFINE l == Len(log)
  <2>1. l \in Nat
    BY <1>1
  <2> HIDE DEF l
  <2>2. IsFiniteSet(1 .. l) /\ Cardinality(1 .. l) = l
    BY ONLY <2>1, FS_Interval
  <2> QED
    BY <2>2 DEF l
<1>3. IsFiniteSet(S) /\ Cardinality(S) \in Nat /\ Cardinality(S) <= Len(log)
  BY <1>0, <1>2, FS_Subset, FS_CardinalityType
<1>4. \A i \in 1 .. Len(log) : log[i].ts \in Int
  <2>1. \A i \in 1 .. Len(log) : log[i] \in Ev(K)
    BY <1>1, ElementOfSeq
  <2> QED
    BY <2>1 DEF Ev
<1>5. \A i \in 1 .. Len(log) : log[i].ts < n <=> i \in S
  <2>1. ASSUME NEW i \in 1 .. Len(log), log[i].ts < n, NEW j \in 1 .. i
        PROVE  log[j].ts < n
    <3>1. j \in 1 .. Len(log) /\ j <= i
      BY <1>1
    <3>2. log[j].ts <= log[i].ts
      BY <3>1
    <3> QED
      BY <1>4, <2>1, <3>1, <3>2
  <2>2. \A i \in 1 .. Len(log) : i \in 1 .. i
    BY <1>1
  <2> QED
    BY <2>1, <2>2 DEF Expired
<1>6. \A m \in S : \A i \in 1 .. m : i \in S
  <2> SUFFICES ASSUME NEW m \in S, NEW i \in 1 .. m PROVE i \in S
    OBVIOUS
  <2>1. i \in 1 .. Len(log) /\ \A j \in 1 .. i : j \in 1 .. m
    BY <1>1
  <2> QED
    BY <2>1
<1> HIDE DEF S
<1>7. \A m \in S : m \in 1 .. Cardinality(S)
  <2> SUFFICES ASSUME NEW m \in S PROVE m \in 1 .. Cardinality(S)
    OBVIOUS
  <2>1. m \in Nat \ {0} /\ 1 .. m \in SUBSET S
    BY <1>1, <1>2, <1>6
  <2>2. Cardinality(1 .. m) = m
    BY <2>1, FS_Interval
  <2>3. m <= Cardinality(S)
    BY <1>3, <2>1, <2>2, FS_Subset
  <2> QED
    BY <1>3, <2>1, <2>3
<1>8. S = 1 .. Cardinality(S)
  <2> DEFINE T == 1 .. Cardinality(S)
  <2>1. IsFiniteSet(T) /\ Cardinality(T) = Cardinality(S)
    BY <1>3, FS_Interval
  <2>2. S \in SUBSET T
    BY <1>7
  <2> HIDE DEF T
  <2>3. T = S
    BY <2>1, <2>2, FS_Subset
  <2> QED
    BY <2>3 DEF T
<1>9. \A i \in 1 .. Len(log) : i \in S <=> i <= Cardinality(S)
  BY <1>1, <1>3, <1>8
<1>10. Stale(log, n) = Cardinality(S)
  BY DEF Stale, S
<1> QED
  BY <1>1, <1>3, <1>5, <1>9, <1>10

(* The counts of the window are those of its last s seconds.               *)
Exact(w, s, K, n) == \A k \in K : CountOf(w, k) = Hits(w.log, Since(K, k, n - s))

(* No event is older than the window.                                      *)
Fresh(w, s, n) == \A i \in 1 .. Len(w.log) : w.log[i].ts >= n - s

(* At time n the window v is w without events that have expired.           *)
Kept(w, v, s, K, n) ==
  /\ Good(v, s, K, n)
  /\ \A k \in K, t \in Int : t >= n - s =>
       Hits(v.log, Since(K, k, t)) = Hits(w.log, Since(K, k, t))

(* And it is that with one more event.                                     *)
Grown(w, v, s, K, n, key) ==
  /\ Good(v, s, K, n) /\ Exact(v, s, K, n)
  /\ \A k \in K, t \in Int : t >= n - s =>
       Hits(v.log, Since(K, k, t))
         = Hits(w.log, Since(K, k, t)) + (IF k = key /\ t <= n THEN 1 ELSE 0)

LEMMA PruneGood ==
  ASSUME NEW w, NEW s \in Int, NEW K, NEW n \in Int, Good(w, s, K, n)
  PROVE  Kept(w, Prune(w, n), s, K, n) /\ Fresh(Prune(w, n), s, n)
<1> DEFINE log   == w.log
           r     == Stale(log, n - s)
           front == SubSeq(log, 1, r)
           back  == SubSeq(log, r + 1, Len(log))
           Left  == [k \in DOMAIN w.counts |-> w.counts[k] - Occurrences(front, k)]
           kept  == [k \in {j \in DOMAIN Left : StillCounted(Left[j])} |-> Left[k]]
<1>1. /\ w = [seconds |-> s, log |-> log, counts |-> w.counts] /\ w.seconds = s
      /\ log \in Seq(Ev(K))
      /\ \A i, j \in 1 .. Len(log) : i <= j => log[i].ts <= log[j].ts
      /\ \A i \in 1 .. Len(log) : log[i].ts <= n
      /\ w.counts \in [DOMAIN w.counts -> Nat \ {0}] /\ DOMAIN w.counts \subseteq K
      /\ \A k \in K : CountOf(w, k) = Hits(log, Keyed(K, k))
  BY DEF Good
<1>2. Prune(w, n) = [seconds |-> s, log |-> back, counts |-> kept]
  BY <1>1 DEF Prune, Popped
<1> HIDE DEF log
<1>3. Len(log) \in Nat /\ \A i \in 1 .. Len(log) : log[i] \in Ev(K) /\ log[i].ts \in Int
  <2>1. Len(log) \in Nat /\ \A i \in 1 .. Len(log) : log[i] \in Ev(K)
    BY <1>1, LenProperties, ElementOfSeq
  <2> QED
    BY <2>1 DEF Ev
<1>4. n - s \in Int
  OBVIOUS
<1>5. r \in 0 .. Len(log) /\ \A i \in 1 .. Len(log) : log[i].ts < n - s <=> i <= r
  BY <1>1, <1>4, StaleExact
<1> HIDE DEF r
<1>6. /\ front \in Seq(Ev(K)) /\ back \in Seq(Ev(K))
      /\ Len(front) = r /\ \A i \in 1 .. r : front[i] = log[i]
      /\ Len(back) = Len(log) - r
      /\ \A i \in 1 .. Len(log) - r : back[i] = log[i + r]
      /\ \A P : Hits(log, P) = Hits(front, P) + Hits(back, P)
  <2>1. ASSUME NEW P
        PROVE  /\ front \in Seq(Ev(K)) /\ back \in Seq(Ev(K))
               /\ Len(front) = r /\ \A i \in 1 .. r : front[i] = log[i]
               /\ Len(back) = Len(log) - r
               /\ \A i \in 1 .. Len(log) - r : back[i] = log[i + r]
               /\ Hits(log, P) = Hits(front, P) + Hits(back, P)
    <3> HIDE DEF front, back
    <3> QED
      BY <1>1, <1>5, HitsSplit DEF front, back
  <2> HIDE DEF front, back
  <2> QED
    BY <2>1
<1> HIDE DEF front, back
<1>7. \A i \in 1 .. Len(back) : /\ i + r \in 1 .. Len(log) /\ i + r > r
                                /\ back[i] = log[i + r]
  <2>1. \A i \in 1 .. Len(back) : i \in 1 .. Len(log) - r
    BY <1>6
  <2>2. \A i \in 1 .. Len(log) - r : i + r \in 1 .. Len(log) /\ i + r > r
    BY <1>3, <1>5
  <2> QED
    BY <1>6, <2>1, <2>2
<1>8. \A i \in 1 .. Len(back) : back[i] \in Ev(K) /\ back[i].ts >= n - s /\ back[i].ts <= n
  <2> SUFFICES ASSUME NEW i \in 1 .. Len(back)
               PROVE  back[i] \in Ev(K) /\ back[i].ts >= n - s /\ back[i].ts <= n
    OBVIOUS
  <2>1. ~(i + r <= r)
    BY <1>5, <1>7
  <2>2. back[i] \in Ev(K) /\ back[i].ts \in Int /\ ~(back[i].ts < n - s) /\ back[i].ts <= n
    BY <1>1, <1>3, <1>5, <1>7, <2>1
  <2> QED
    BY <1>4, <2>2
<1>9. \A i, j \in 1 .. Len(back) : i <= j => back[i].ts <= back[j].ts
  <2> SUFFICES ASSUME NEW i \in 1 .. Len(back), NEW j \in 1 .. Len(back), i <= j
               PROVE  back[i].ts <= back[j].ts
    OBVIOUS
  <2>1. i + r <= j + r
    BY <1>5
  <2> QED
    BY <1>1, <1>7, <2>1
<1>10. \A k \in K, t \in Int : t >= n - s => Hits(front, Since(K, k, t)) = 0
  <2> SUFFICES ASSUME NEW k \in K, NEW t \in Int, t >= n - s
               PROVE  \A i \in 1 .. Len(front) : front[i] \notin Since(K, k, t)
    BY HitsNone
  <2> SUFFICES ASSUME NEW i \in 1 .. Len(front) PROVE front[i] \notin Since(K, k, t)
    OBVIOUS
  <2>1. i \in 1 .. Len(log) /\ i <= r /\ front[i] = log[i]
    BY <1>3, <1>5, <1>6
  <2>2. front[i].ts \in Int /\ front[i].ts < n - s
    BY <1>3, <1>5, <2>1
  <2>3. ~(front[i].ts >= t)
    BY <1>4, <2>2
  <2> QED
    BY <2>3 DEF Since
<1>11. \A P : Hits(back, P) \in Nat /\ Hits(front, P) \in Nat
  BY <1>6, HitsFinite
<1>12. \A k \in K, t \in Int : t >= n - s => Hits(back, Since(K, k, t)) = Hits(log, Since(K, k, t))
  <2> SUFFICES ASSUME NEW k \in K, NEW t \in Int, t >= n - s
               PROVE  Hits(back, Since(K, k, t)) = Hits(log, Since(K, k, t))
    OBVIOUS
  <2>1. Hits(front, Since(K, k, t)) = 0
    BY <1>10
  <2>2. Hits(log, Since(K, k, t)) = Hits(front, Since(K, k, t)) + Hits(back, Since(K, k, t))
    BY <1>6
  <2> QED
    BY <1>11, <2>1, <2>2
<1>13. Fresh(Prune(w, n), s, n)
  <2>1. Prune(w, n).log = back
    BY <1>2
  <2> QED
    BY <1>8, <2>1 DEF Fresh
<1>14. \A k \in K : Occurrences(front, k) = Hits(front, Keyed(K, k))
  <2>1. \A i \in 1 .. Len(front) : front[i] \in Ev(K)
    BY <1>6, ElementOfSeq, LenProperties
  <2>2. \A k \in K : \A i \in 1 .. Len(front) : front[i] \in Keyed(K, k) <=> front[i].key = k
    BY <2>1 DEF Keyed
  <2> QED
    BY <2>2 DEF Hits, Occurrences
<1>15. \A k \in DOMAIN w.counts : k \in K /\ Left[k] = Hits(back, Keyed(K, k))
  <2> SUFFICES ASSUME NEW k \in DOMAIN w.counts
               PROVE  k \in K /\ Left[k] = Hits(back, Keyed(K, k))
    OBVIOUS
  <2>1. k \in K /\ w.counts[k] = Hits(log, Keyed(K, k))
    BY <1>1 DEF CountOf
  <2>2. Hits(log, Keyed(K, k)) = Hits(front, Keyed(K, k)) + Hits(back, Keyed(K, k))
    BY <1>6
  <2>3. Left[k] = w.counts[k] - Hits(front, Keyed(K, k))
    BY <1>14, <2>1
  <2> QED
    BY <1>11, <2>1, <2>2, <2>3
<1>16. \A k \in K \ DOMAIN w.counts : Hits(back, Keyed(K, k)) = 0
  <2> SUFFICES ASSUME NEW k \in K \ DOMAIN w.counts PROVE Hits(back, Keyed(K, k)) = 0
    OBVIOUS
  <2>1. Hits(log, Keyed(K, k)) = 0
    BY <1>1 DEF CountOf
  <2>2. Hits(log, Keyed(K, k)) = Hits(front, Keyed(K, k)) + Hits(back, Keyed(K, k))
    BY <1>6
  <2> QED
    BY <1>11, <2>1, <2>2
<1> DEFINE D == {k \in DOMAIN w.counts : Hits(back, Keyed(K, k)) > 0}
<1>17. kept = [k \in D |-> Hits(back, Keyed(K, k))]
  <2>1. kept = [k \in D |-> Left[k]]
    BY <1>15 DEF StillCounted
  <2> QED
    BY <1>15, <2>1
<1> HIDE DEF kept
<1>18. /\ DOMAIN kept = D /\ D \subseteq K
       /\ \A k \in D : kept[k] = Hits(back, Keyed(K, k)) /\ kept[k] \in Nat \ {0}
  <2>1. \A k \in D : kept[k] = Hits(back, Keyed(K, k)) /\ Hits(back, Keyed(K, k)) > 0
    BY <1>17
  <2> QED
    BY <1>1, <1>11, <1>17, <2>1
<1>19. kept \in [D -> Nat \ {0}]
  <2> HIDE DEF D
  <2> QED
    BY <1>17, <1>18
<1>20. \A k \in K : CountOf(Prune(w, n), k) = Hits(back, Keyed(K, k))
  <2> SUFFICES ASSUME NEW k \in K PROVE CountOf(Prune(w, n), k) = Hits(back, Keyed(K, k))
    OBVIOUS
  <2>1. CASE k \in D
    BY <1>2, <1>18, <2>1 DEF CountOf
  <2>2. CASE k \notin D
    <3>1. Hits(back, Keyed(K, k)) = 0
      BY <1>11, <1>16, <2>2
    <3> QED
      BY <1>2, <1>18, <2>2, <3>1 DEF CountOf
  <2> QED
    BY <2>1, <2>2
<1> HIDE DEF D
<1>21. Good(Prune(w, n), s, K, n)
  <2>1. Prune(w, n).log = back /\ Prune(w, n).counts = kept
    BY <1>2
  <2>2. \A i \in 1 .. Len(back) : back[i].ts <= n
    BY <1>8
  <2> QED
    BY <1>2, <1>6, <1>9, <1>18, <1>19, <1>20, <2>1, <2>2 DEF Good
<1>22. Prune(w, n).log = back
  BY <1>2
<1> QED
  BY <1>12, <1>13, <1>21, <1>22 DEF log, Kept

LEMMA FreshExact ==
  ASSUME NEW w, NEW s \in Int, NEW K, NEW n \in Int, Good(w, s, K, n), Fresh(w, s, n)
  PROVE  Exact(w, s, K, n)
<1>1. \A i \in 1 .. Len(w.log) : w.log[i] \in Ev(K)
  BY ElementOfSeq, LenProperties DEF Good
<1>2. \A k \in K : \A i \in 1 .. Len(w.log) :
        w.log[i] \in Keyed(K, k) <=> w.log[i] \in Since(K, k, n - s)
  BY <1>1 DEF Keyed, Since, Fresh
<1>3. \A k \in K : Hits(w.log, Keyed(K, k)) = Hits(w.log, Since(K, k, n - s))
  BY <1>2 DEF Hits
<1> QED
  BY <1>3 DEF Exact, Good

LEMMA AddGood ==
  ASSUME NEW w, NEW s \in Nat, NEW K, NEW n \in Int, Good(w, s, K, n), NEW key \in K
  PROVE  Grown(w, Add(w, n, key), s, K, n, key)
<1> DEFINE p == Prune(w, n)
           e == [ts |-> n, key |-> key]
           a == Add(w, n, key)
           one(k) == IF k = key THEN 1 ELSE 0
<1>1. Good(p, s, K, n) /\ Kept(w, p, s, K, n) /\ Fresh(p, s, n)
  <2>1. Kept(w, p, s, K, n) /\ Fresh(p, s, n)
    BY PruneGood
  <2> QED
    BY <2>1 DEF Kept
<1>2. a = [seconds |-> p.seconds, log |-> Append(p.log, e), counts |-> Counted(p, key)]
  BY DEF Add, Pushed
<1> HIDE DEF p, a
<1>3. /\ p.seconds = s /\ p.log \in Seq(Ev(K)) /\ Len(p.log) \in Nat
      /\ \A i, j \in 1 .. Len(p.log) : i <= j => p.log[i].ts <= p.log[j].ts
      /\ \A i \in 1 .. Len(p.log) : p.log[i].ts <= n
      /\ p.counts \in [DOMAIN p.counts -> Nat \ {0}] /\ DOMAIN p.counts \subseteq K
      /\ \A k \in K : CountOf(p, k) = Hits(p.log, Keyed(K, k))
  BY <1>1, LenProperties DEF Good
<1>4. e \in Ev(K) /\ e.ts = n /\ e.key = key
  BY DEF Ev
<1> HIDE DEF e
<1> DEFINE longer == Append(p.log, e)
<1>5. /\ longer \in Seq(Ev(K)) /\ Len(longer) = Len(p.log) + 1
      /\ \A i \in 1 .. Len(p.log) : longer[i] = p.log[i]
      /\ longer[Len(p.log) + 1] = e
      /\ \A P : Hits(longer, P) = Hits(p.log, P) + (IF e \in P THEN 1 ELSE 0)
  BY <1>3, <1>4, AppendProperties, HitsAppend
<1> HIDE DEF longer
<1>6. \A i \in 1 .. Len(longer) : i \in 1 .. Len(p.log) \/ i = Len(p.log) + 1
  BY <1>3, <1>5
<1>7. \A i \in 1 .. Len(longer) : longer[i].ts <= n
  BY <1>3, <1>4, <1>5, <1>6
<1>8. \A i, j \in 1 .. Len(longer) : i <= j => longer[i].ts <= longer[j].ts
  <2> SUFFICES ASSUME NEW i \in 1 .. Len(longer), NEW j \in 1 .. Len(longer), i <= j
               PROVE  longer[i].ts <= longer[j].ts
    OBVIOUS
  <2>1. CASE j = Len(p.log) + 1
    BY <1>4, <1>5, <1>7, <2>1
  <2>2. CASE j # Len(p.log) + 1
    <3>1. i \in 1 .. Len(p.log) /\ j \in 1 .. Len(p.log)
      BY <1>3, <1>5, <2>2
    <3> QED
      BY <1>3, <1>5, <3>1
  <2> QED
    BY <2>1, <2>2
<1>9. \A P : Hits(p.log, P) \in Nat
  BY <1>3, HitsFinite
<1>10. \A k \in K : Hits(longer, Keyed(K, k)) = Hits(p.log, Keyed(K, k)) + one(k)
  <2>1. \A k \in K : e \in Keyed(K, k) <=> k = key
    BY <1>4 DEF Keyed
  <2> QED
    BY <1>5, <2>1
<1>11. \A k \in K, t \in Int : Hits(longer, Since(K, k, t))
                              = Hits(p.log, Since(K, k, t)) + (IF t <= n THEN one(k) ELSE 0)
  <2> SUFFICES ASSUME NEW k \in K, NEW t \in Int
               PROVE  Hits(longer, Since(K, k, t))
                        = Hits(p.log, Since(K, k, t)) + (IF t <= n THEN one(k) ELSE 0)
    OBVIOUS
  <2>1. e \in Since(K, k, t) <=> k = key /\ t <= n
    BY <1>4 DEF Since
  <2>2. Hits(longer, Since(K, k, t))
          = Hits(p.log, Since(K, k, t)) + (IF e \in Since(K, k, t) THEN 1 ELSE 0)
    BY <1>5
  <2> QED
    BY <1>9, <2>1, <2>2
<1>12. \A k \in K : CountOf(a, k) = CountOf(p, k) + one(k)
  <2> SUFFICES ASSUME NEW k \in K PROVE CountOf(a, k) = CountOf(p, k) + one(k)
    OBVIOUS
  <2>1. a.counts = Counted(p, key)
    BY <1>2
  <2>2. CASE k = key
    BY <2>1, <2>2 DEF CountOf, Counted
  <2>3. CASE k # key
    <3>1. CountOf(a, k) = CountOf(p, k)
      BY <2>1, <2>3 DEF CountOf, Counted
    <3>2. CountOf(p, k) \in Nat
      BY <1>3, <1>9
    <3> QED
      BY <2>3, <3>1, <3>2
  <2> QED
    BY <2>2, <2>3
<1>13. /\ DOMAIN Counted(p, key) = DOMAIN p.counts \cup {key}
       /\ Counted(p, key) \in [DOMAIN Counted(p, key) -> Nat \ {0}]
  <2>1. CountOf(p, key) \in Nat
    BY <1>3, <1>9
  <2> QED
    BY <1>3, <2>1 DEF Counted
<1>14. Good(a, s, K, n)
  <2>1. a.log = longer /\ a.counts = Counted(p, key)
    BY <1>2 DEF longer
  <2>2. a = [seconds |-> s, log |-> a.log, counts |-> a.counts]
    BY <1>2, <1>3
  <2>3. \A k \in K : CountOf(a, k) = Hits(longer, Keyed(K, k))
    BY <1>3, <1>10, <1>12
  <2> QED
    BY <1>3, <1>5, <1>7, <1>8, <1>13, <2>1, <2>2, <2>3 DEF Good
<1>15. a.log = longer
  BY <1>2 DEF longer
<1>16. \A k \in K, t \in Int : t >= n - s =>
         Hits(a.log, Since(K, k, t))
           = Hits(w.log, Since(K, k, t)) + (IF k = key /\ t <= n THEN 1 ELSE 0)
  <2>1. \A k \in K, t \in Int : t >= n - s =>
          Hits(p.log, Since(K, k, t)) = Hits(w.log, Since(K, k, t))
    BY <1>1 DEF Kept
  <2> SUFFICES ASSUME NEW k \in K, NEW t \in Int, t >= n - s
               PROVE  Hits(a.log, Since(K, k, t))
                        = Hits(w.log, Since(K, k, t)) + (IF k = key /\ t <= n THEN 1 ELSE 0)
    OBVIOUS
  <2>2. Hits(a.log, Since(K, k, t))
          = Hits(w.log, Since(K, k, t)) + (IF t <= n THEN one(k) ELSE 0)
    BY <1>11, <1>15, <2>1
  <2>3. (IF t <= n THEN one(k) ELSE 0) = (IF k = key /\ t <= n THEN 1 ELSE 0)
    OBVIOUS
  <2> QED
    BY <2>2, <2>3
<1>17. Exact(a, s, K, n)
  <2>1. \A i \in 1 .. Len(p.log) : p.log[i].ts >= n - s
    BY <1>1 DEF Fresh
  <2>2. n >= n - s
    OBVIOUS
  <2>3. \A i \in 1 .. Len(longer) : longer[i].ts >= n - s
    BY <1>4, <1>5, <1>6, <2>1, <2>2
  <2>4. Fresh(a, s, n)
    BY <1>15, <2>3 DEF Fresh
  <2>5. s \in Int
    OBVIOUS
  <2> QED
    BY <1>14, <2>4, <2>5, FreshExact
<1> QED
  BY <1>14, <1>16, <1>17 DEF a, Grown

(* prune_idle_windows() prunes: the window of a key it drops is empty.     *)
LEMMA SweepGood ==
  ASSUME NEW ws, NEW key, NEW s \in Int, NEW K, NEW n \in Int,
         Good(WindowOf(ws, key, s), s, K, n)
  PROVE  Kept(WindowOf(ws, key, s), WindowOf(PruneIdle(ws, n), key, s), s, K, n)
<1> DEFINE w == WindowOf(PruneIdle(ws, n), key, s)
           v == WindowOf(ws, key, s)
           p == Prune(v, n)
<1>1. CASE key \notin DOMAIN ws
  <2>1. key \notin DOMAIN PruneIdle(ws, n)
    BY <1>1 DEF PruneIdle, NonEmpty
  <2>2. w = v
    BY <1>1, <2>1 DEF WindowOf
  <2> QED
    BY <2>2 DEF Kept
<1>2. CASE key \in DOMAIN ws
  <2>1. v = ws[key]
    BY <1>2 DEF WindowOf
  <2>2. Kept(v, p, s, K, n)
    BY PruneGood
  <2>3. CASE IsEmpty(p)
    <3>1. key \notin DOMAIN PruneIdle(ws, n)
      BY <1>2, <2>1, <2>3 DEF PruneIdle, NonEmpty
    <3>2. w = NewWindow(s)
      BY <3>1 DEF WindowOf
    <3>3. Good(w, s, K, n) /\ w.log = p.log
      BY <2>3, <3>2, NewWindowGood DEF IsEmpty, NewWindow
    <3> QED
      BY <2>2, <3>3 DEF Kept
  <2>4. CASE ~IsEmpty(p)
    <3>1. key \in DOMAIN PruneIdle(ws, n) /\ PruneIdle(ws, n)[key] = p
      BY <1>2, <2>1, <2>4 DEF PruneIdle, NonEmpty
    <3>2. w = p
      BY <3>1 DEF WindowOf
    <3> QED
      BY <2>2, <3>2
  <2> QED
    BY <2>3, <2>4
<1> QED
  BY <1>1, <1>2

LEMMA WithWindow ==
  ASSUME NEW ws, NEW key, NEW w, NEW k, NEW s
  PROVE  WindowOf(With(ws, key, w), k, s) = IF k = key THEN w ELSE WindowOf(ws, k, s)
BY DEF WindowOf, With
-----------------------------------------------------------------------------
(* The positions of J whose entries in the history h are no older than t.  *)
Counting(h, J, t) == Cardinality({j \in J : h[j].ts >= t})

(* For the key k, what the window w counts at time n, and at any later     *)
(* time, are the positions of J.                                           *)
Tracks(w, s, K, k, h, J, n) ==
  \A t \in Int : t >= n - s => Hits(w.log, Since(K, k, t)) = Counting(h, J, t)

(* A history in order of time, up to n.                                    *)
Chronicle(h, n) ==
  /\ \E S : h \in Seq(S)
  /\ \A i \in 1 .. Len(h) : h[i].ts \in Int /\ h[i].ts <= n
  /\ \A i, j \in 1 .. Len(h) : i <= j => h[i].ts <= h[j].ts

LEMMA ChronicleFacts ==
  ASSUME NEW h, NEW n, Chronicle(h, n)
  PROVE  Len(h) \in Nat
BY LenProperties DEF Chronicle

LEMMA ChronicleLater ==
  ASSUME NEW h, NEW n \in Int, NEW m \in Int, n <= m, Chronicle(h, n)
  PROVE  Chronicle(h, m)
<1>1. \A i \in 1 .. Len(h) : h[i].ts <= m
  BY DEF Chronicle
<1> QED
  BY <1>1 DEF Chronicle

LEMMA ChronicleGrows ==
  ASSUME NEW h, NEW n \in Int, NEW m \in Int, n <= m, Chronicle(h, n), NEW e, e.ts = m
  PROVE  /\ Chronicle(Append(h, e), m)
         /\ Len(Append(h, e)) = Len(h) + 1 /\ Append(h, e)[Len(h) + 1] = e
         /\ \A i \in 1 .. Len(h) : Append(h, e)[i] = h[i]
<1>1. PICK S : h \in Seq(S)
  BY DEF Chronicle
<1>2. Len(h) \in Nat /\ \A i \in 1 .. Len(h) : h[i].ts \in Int /\ h[i].ts <= m
  BY <1>1, LenProperties DEF Chronicle
<1> DEFINE g == Append(h, e)
<1>3. /\ g \in Seq(S \cup {e}) /\ Len(g) = Len(h) + 1 /\ g[Len(h) + 1] = e
      /\ \A i \in 1 .. Len(h) : g[i] = h[i]
  <2>1. h \in Seq(S \cup {e}) /\ e \in S \cup {e}
    BY <1>1, SeqMonotonic
  <2> QED
    BY <2>1, AppendProperties
<1> HIDE DEF g
<1>4. \A i \in 1 .. Len(g) : i \in 1 .. Len(h) \/ i = Len(h) + 1
  BY <1>2, <1>3
<1>5. \A i \in 1 .. Len(g) : g[i].ts \in Int /\ g[i].ts <= m
  BY <1>2, <1>3, <1>4
<1>6. \A i, j \in 1 .. Len(g) : i <= j => g[i].ts <= g[j].ts
  <2> SUFFICES ASSUME NEW i \in 1 .. Len(g), NEW j \in 1 .. Len(g), i <= j
               PROVE  g[i].ts <= g[j].ts
    OBVIOUS
  <2>1. CASE j = Len(h) + 1
    BY <1>3, <1>5, <2>1
  <2>2. CASE j # Len(h) + 1
    <3>1. i \in 1 .. Len(h) /\ j \in 1 .. Len(h)
      BY <1>2, <1>3, <2>2
    <3> QED
      BY <1>3, <3>1 DEF Chronicle
  <2> QED
    BY <2>1, <2>2
<1>7. Chronicle(g, m)
  BY <1>3, <1>5, <1>6 DEF Chronicle
<1> QED
  BY <1>3, <1>7 DEF g

LEMMA CountingSame ==
  ASSUME NEW h, NEW g, NEW J, \A j \in J : g[j] = h[j], NEW t
  PROVE  Counting(g, J, t) = Counting(h, J, t)
<1>1. {j \in J : g[j].ts >= t} = {j \in J : h[j].ts >= t}
  OBVIOUS
<1> QED
  BY <1>1 DEF Counting

LEMMA CountingType ==
  ASSUME NEW h, NEW n, Chronicle(h, n), NEW J \in SUBSET (1 .. Len(h)), NEW t
  PROVE  IsFiniteSet({j \in J : h[j].ts >= t}) /\ Counting(h, J, t) \in Nat
<1>1. IsFiniteSet(1 .. Len(h))
  BY ChronicleFacts, FS_Interval
<1>2. {j \in J : h[j].ts >= t} \in SUBSET (1 .. Len(h))
  OBVIOUS
<1>3. IsFiniteSet({j \in J : h[j].ts >= t})
  BY <1>1, <1>2, FS_Subset
<1> QED
  BY <1>3, FS_CardinalityType DEF Counting

OneMore(h, g, J, i, t) ==
  /\ Counting(g, J \cup {i}, t) \in Nat /\ Counting(h, J, t) \in Nat
  /\ g[i].ts >= t => Counting(g, J \cup {i}, t) = Counting(h, J, t) + 1
  /\ ~(g[i].ts >= t) => Counting(g, J \cup {i}, t) = Counting(h, J, t)

LEMMA CountingOneMore ==
  ASSUME NEW h, NEW n \in Int, Chronicle(h, n), NEW J \in SUBSET (1 .. Len(h)),
         NEW g, NEW i, i \notin J, \A j \in J : g[j] = h[j], NEW t
  PROVE  OneMore(h, g, J, i, t)
<1> DEFINE L == {j \in J : h[j].ts >= t}
           M == {j \in J \cup {i} : g[j].ts >= t}
<1>1. IsFiniteSet(L) /\ Cardinality(L) \in Nat
  BY CountingType DEF Counting
<1>2. CASE g[i].ts >= t
  <2>1. M = L \cup {i} /\ i \notin L
    BY <1>2
  <2>2. Cardinality(M) = Cardinality(L) + 1
    BY <1>1, <2>1, FS_AddElement
  <2> QED
    BY <1>1, <1>2, <2>2 DEF Counting, OneMore
<1>3. CASE ~(g[i].ts >= t)
  <2>1. M = L
    BY <1>3
  <2> HIDE DEF L, M
  <2>2. Cardinality(M) = Cardinality(L)
    BY <2>1
  <2> USE DEF L, M
  <2> QED
    BY <1>1, <1>3, <2>2 DEF Counting, OneMore
<1> QED
  BY <1>2, <1>3

LEMMA TracksNew ==
  ASSUME NEW s, NEW K, NEW k, NEW h, NEW n
  PROVE  Tracks(NewWindow(s), s, K, k, h, {}, n)
<1>1. \A t : Counting(h, {}, t) = 0
  <2>1. \A t : {j \in {} : h[j].ts >= t} = {}
    OBVIOUS
  <2> QED
    BY <2>1, FS_EmptySet DEF Counting
<1> QED
  BY <1>1, NewWindowGood DEF Tracks

LEMMA TracksKept ==
  ASSUME NEW w, NEW v, NEW s \in Int, NEW K, NEW k \in K, NEW h, NEW J,
         NEW m \in Int, NEW n \in Int, m <= n,
         Tracks(w, s, K, k, h, J, m), Kept(w, v, s, K, n)
  PROVE  Tracks(v, s, K, k, h, J, n)
<1> SUFFICES ASSUME NEW t \in Int, t >= n - s
             PROVE  Hits(v.log, Since(K, k, t)) = Counting(h, J, t)
  BY DEF Tracks
<1>1. t >= m - s
  OBVIOUS
<1>2. Hits(w.log, Since(K, k, t)) = Counting(h, J, t)
  BY <1>1 DEF Tracks
<1>3. Hits(v.log, Since(K, k, t)) = Hits(w.log, Since(K, k, t))
  BY DEF Kept
<1> QED
  BY <1>2, <1>3

LEMMA TracksSame ==
  ASSUME NEW w, NEW s, NEW K, NEW k, NEW h, NEW g, NEW J, NEW n, \A j \in J : g[j] = h[j],
         Tracks(w, s, K, k, h, J, n)
  PROVE  Tracks(w, s, K, k, g, J, n)
<1>1. \A t : Counting(g, J, t) = Counting(h, J, t)
  BY CountingSame
<1> QED
  BY <1>1 DEF Tracks

(* And the window's own count is that of the last s seconds.               *)
TracksExactly(w, s, K, k, h, J, n) ==
  Tracks(w, s, K, k, h, J, n) /\ CountOf(w, k) = Counting(h, J, n - s)

(* The event that add() appends is the last entry of the history g.        *)
LEMMA TracksGrown ==
  ASSUME NEW w, NEW v, NEW s \in Nat, NEW K, NEW k \in K, NEW h, NEW g, NEW n \in Int,
         Chronicle(h, n), NEW J \in SUBSET (1 .. Len(h)),
         Len(g) = Len(h) + 1, \A j \in 1 .. Len(h) : g[j] = h[j], g[Len(g)].ts = n,
         Tracks(w, s, K, k, h, J, n), Grown(w, v, s, K, n, k)
  PROVE  TracksExactly(v, s, K, k, g, J \cup {Len(g)}, n)
<1>1. Len(h) \in Nat /\ Len(g) \notin J
  <2>1. Len(h) \in Nat
    BY ChronicleFacts
  <2> QED
    BY <2>1
<1>2. \A j \in J : g[j] = h[j]
  OBVIOUS
<1>3. ASSUME NEW t \in Int, t >= n - s
      PROVE  Hits(v.log, Since(K, k, t)) = Counting(g, J \cup {Len(g)}, t)
  <2>1. Hits(v.log, Since(K, k, t)) = Hits(w.log, Since(K, k, t)) + (IF k = k /\ t <= n THEN 1 ELSE 0)
    BY <1>3 DEF Grown
  <2>2. Hits(w.log, Since(K, k, t)) = Counting(h, J, t)
    BY <1>3 DEF Tracks
  <2>3. Counting(g, J \cup {Len(g)}, t)
          = Counting(h, J, t) + (IF g[Len(g)].ts >= t THEN 1 ELSE 0)
    <3> DEFINE i == Len(g)
    <3>1. i \notin J
      BY <1>1
    <3> HIDE DEF i
    <3>2. OneMore(h, g, J, i, t)
      BY <1>2, <3>1, CountingOneMore
    <3>3. Counting(g, J \cup {i}, t) = Counting(h, J, t) + (IF g[i].ts >= t THEN 1 ELSE 0)
      BY <3>2 DEF OneMore
    <3> QED
      BY <3>3 DEF i
  <2>4. (IF g[Len(g)].ts >= t THEN 1 ELSE 0) = (IF k = k /\ t <= n THEN 1 ELSE 0)
    OBVIOUS
  <2> QED
    BY <2>1, <2>2, <2>3, <2>4
<1>4. n - s \in Int /\ n - s >= n - s
  OBVIOUS
<1>5. CountOf(v, k) = Hits(v.log, Since(K, k, n - s))
  BY DEF Grown, Exact
<1> QED
  BY <1>3, <1>4, <1>5 DEF Tracks, TracksExactly

(* add() of one key leaves what is counted for the others.                 *)
LEMMA TracksOther ==
  ASSUME NEW w, NEW v, NEW s \in Nat, NEW K, NEW k \in K, NEW key, k # key, NEW h, NEW J,
         NEW n \in Int, Chronicle(h, n), J \in SUBSET (1 .. Len(h)),
         Tracks(w, s, K, k, h, J, n), Grown(w, v, s, K, n, key)
  PROVE  Tracks(v, s, K, k, h, J, n)
<1> SUFFICES ASSUME NEW t \in Int, t >= n - s
             PROVE  Hits(v.log, Since(K, k, t)) = Counting(h, J, t)
  BY DEF Tracks
<1>1. Hits(v.log, Since(K, k, t)) = Hits(w.log, Since(K, k, t)) + 0
  BY DEF Grown
<1>2. Hits(w.log, Since(K, k, t)) = Counting(h, J, t)
  BY DEF Tracks
<1>3. Counting(h, J, t) \in Nat
  BY CountingType
<1> QED
  BY <1>1, <1>2, <1>3
-----------------------------------------------------------------------------
(* ArpSpoofDetector uses the same windows.                                 *)
LEMMA ArpWindows ==
  /\ \A s : AR!SW!NewWindow(s) = NewWindow(s)
  /\ \A w, k : AR!SW!CountOf(w, k) = CountOf(w, k)
  /\ \A w, n, k : AR!SW!Add(w, n, k) = Add(w, n, k)
  /\ \A ws, k, s : AR!SW!WindowOf(ws, k, s) = WindowOf(ws, k, s)
  /\ \A ws, k, w : AR!SW!With(ws, k, w) = With(ws, k, w)
  /\ \A ws, n : AR!SW!PruneIdle(ws, n) = PruneIdle(ws, n)
  /\ \A w : AR!SW!Cleared(w) = NewWindow(w.seconds)
<1>1. \A s : AR!SW!NewWindow(s) = NewWindow(s)
  BY Zenon DEF AR!SW!NewWindow, NewWindow
<1>2. \A w, k : AR!SW!CountOf(w, k) = CountOf(w, k)
  BY DEF AR!SW!CountOf, CountOf
<1>3. \A log, n : AR!SW!Stale(log, n) = Stale(log, n)
  BY Zenon DEF AR!SW!Stale, Stale, AR!SW!Expired, Expired, AR!SW!Cardinality, Cardinality
<1>4. \A log, k : AR!SW!Occurrences(log, k) = Occurrences(log, k)
  BY Zenon DEF AR!SW!Occurrences, Occurrences, AR!SW!Cardinality, Cardinality
<1>5. \A w, n : AR!SW!Popped(w, n) = Popped(w, n)
  <2> SUFFICES ASSUME NEW w, NEW n PROVE AR!SW!Popped(w, n) = Popped(w, n)
    OBVIOUS
  <2> DEFINE front == SubSeq(w.log, 1, n)
             L1 == [k \in DOMAIN w.counts |-> w.counts[k] - AR!SW!Occurrences(front, k)]
             L2 == [k \in DOMAIN w.counts |-> w.counts[k] - Occurrences(front, k)]
  <2>1. L1 = L2
    BY <1>4
  <2>2. AR!SW!Popped(w, n)
          = [seconds |-> w.seconds, log |-> SubSeq(w.log, n + 1, Len(w.log)),
             counts |-> [k \in {j \in DOMAIN L1 : L1[j] > 0} |-> L1[k]]]
    BY Zenon DEF AR!SW!Popped, AR!SW!StillCounted
  <2>3. Popped(w, n)
          = [seconds |-> w.seconds, log |-> SubSeq(w.log, n + 1, Len(w.log)),
             counts |-> [k \in {j \in DOMAIN L2 : L2[j] > 0} |-> L2[k]]]
    BY Zenon DEF Popped, StillCounted
  <2> HIDE DEF L1, L2
  <2> QED
    BY <2>1, <2>2, <2>3
<1>6. \A w, n : AR!SW!Prune(w, n) = Prune(w, n)
  BY <1>3, <1>5 DEF AR!SW!Prune, Prune
<1>7. \A w, n, k : AR!SW!Add(w, n, k) = Add(w, n, k)
  <2>1. \A w, k : AR!SW!Counted(w, k) = Counted(w, k)
    BY <1>2 DEF AR!SW!Counted, Counted
  <2>2. \A w, n, k : AR!SW!Pushed(w, n, k) = Pushed(w, n, k)
    BY <2>1 DEF AR!SW!Pushed, Pushed
  <2> QED
    BY <1>6, <2>2 DEF AR!SW!Add, Add
<1>8. \A ws, k, s : AR!SW!WindowOf(ws, k, s) = WindowOf(ws, k, s)
  BY <1>1 DEF AR!SW!WindowOf, WindowOf
<1>9. \A ws, k, w : AR!SW!With(ws, k, w) = With(ws, k, w)
  BY Zenon DEF AR!SW!With, With
<1>10. \A ws, n : AR!SW!PruneIdle(ws, n) = PruneIdle(ws, n)
  BY <1>6 DEF AR!SW!PruneIdle, PruneIdle, AR!SW!NonEmpty, NonEmpty, AR!SW!IsEmpty, IsEmpty
<1>11. \A w : AR!SW!Cleared(w) = NewWindow(w.seconds)
  BY <1>1 DEF AR!SW!Cleared
<1> QED
  BY <1>1, <1>2, <1>7, <1>8, <1>9, <1>10, <1>11

LEMMA KeptSelf ==
  ASSUME NEW w, NEW s, NEW K, NEW n, Good(w, s, K, n)
  PROVE  Kept(w, w, s, K, n)
BY DEF Kept

(* Packets come in order: no gap between two of them is negative.          *)
Clocked == now \in Int /\ traffic \in Kinds

LEMMA ClockSteps ==
  ASSUME Clocked, NEW p, NEW gap \in Mixes[traffic].gaps, Deliver(p, gap)
  PROVE  Clocked' /\ now <= now'
BY DetectorsAssumption DEF Clocked, Deliver

(* The announcements of a MAC since its last report.                       *)
Open(h, m) ==
  {j \in 1 .. Len(h) : /\ h[j].mac = m /\ h[j].announces
                       /\ \A q \in j .. Len(h) : ~(h[q].mac = m /\ h[q].flood > 0)}

Due(h, i) ==
  Cardinality({j \in 1 .. i : /\ h[j].mac = h[i].mac /\ h[j].announces
                              /\ h[j].ts >= h[i].ts - AnnounceWindow
                              /\ \A m \in j .. i - 1 : ~(h[m].mac = h[i].mac /\ h[m].flood > 0)})

FloodRight(h, i) ==
  h[i].flood = IF h[i].announces /\ Due(h, i) > Announcements THEN Due(h, i) ELSE 0

LEMMA FloodsByDue ==
  AnnouncementsExact <=> \A i \in 1 .. Len(arHistory) : FloodRight(arHistory, i)
<1>1. \A S : AR!Cardinality(S) = Cardinality(S)
  BY Zenon DEF AR!Cardinality, Cardinality
<1>2. \A i : Cardinality(AR!Announced(i)) = Due(arHistory, i)
  BY DEF AR!Announced, Due
<1> QED
  BY <1>1, <1>2 DEF AnnouncementsExact, AR!FloodsExact, FloodRight

OnTrack(w, h, m, n) ==
  /\ Good(w, AnnounceWindow, {None}, n)
  /\ Tracks(w, AnnounceWindow, {None}, None, h, Open(h, m), n)

(* The window of a MAC holds its announcements since its last report, but  *)
(* for some that have expired.                                             *)
AnnounceInv ==
  /\ Clocked
  /\ Chronicle(arHistory, now)
  /\ \A m : OnTrack(WindowOf(arGratuitous, m, AnnounceWindow), arHistory, m, now)
  /\ \A i \in 1 .. Len(arHistory) : FloodRight(arHistory, i)

LEMMA AnnounceParams == AnnounceWindow \in Nat \ {0} /\ AnnounceWindow \in Int /\ Announcements \in Nat
BY DetectorsAssumption DEF AR!ArpSpoofAssumption

LEMMA OpenIsSome == \A h, m : Open(h, m) \in SUBSET (1 .. Len(h))
BY DEF Open

LEMMA OnTrackKept ==
  ASSUME NEW w, NEW v, NEW h, NEW m, NEW n \in Int, NEW l \in Int, n <= l,
         OnTrack(w, h, m, n), Good(w, AnnounceWindow, {None}, l) => Kept(w, v, AnnounceWindow, {None}, l)
  PROVE  OnTrack(v, h, m, l)
<1>1. AnnounceWindow \in Int /\ None \in {None}
  BY AnnounceParams
<1>2. Good(w, AnnounceWindow, {None}, l)
  BY GoodLater DEF OnTrack
<1>3. Kept(w, v, AnnounceWindow, {None}, l)
  BY <1>2
<1>4. Tracks(v, AnnounceWindow, {None}, None, h, Open(h, m), l)
  BY <1>1, <1>3, TracksKept DEF OnTrack
<1> QED
  BY <1>3, <1>4 DEF OnTrack, Kept

LEMMA SweptOnTrack ==
  ASSUME AnnounceInv, now' \in Int, now <= now', NEW m
  PROVE  /\ OnTrack(WindowOf(arGratuitous, m, AnnounceWindow), arHistory, m, now')
         /\ OnTrack(WindowOf(AR!Swept(now'), m, AnnounceWindow), arHistory, m, now')
<1> DEFINE w == WindowOf(arGratuitous, m, AnnounceWindow)
<1>1. OnTrack(w, arHistory, m, now) /\ now \in Int
  BY DEF AnnounceInv, Clocked
<1>2. OnTrack(w, arHistory, m, now')
  <2> HIDE DEF w
  <2> QED
    BY <1>1, KeptSelf, OnTrackKept
<1>3. OnTrack(WindowOf(PruneIdle(arGratuitous, now'), m, AnnounceWindow), arHistory, m, now')
  <2> DEFINE v == WindowOf(PruneIdle(arGratuitous, now'), m, AnnounceWindow)
  <2>1. Good(w, AnnounceWindow, {None}, now') => Kept(w, v, AnnounceWindow, {None}, now')
    BY AnnounceParams, SweepGood
  <2> HIDE DEF w, v
  <2>2. OnTrack(v, arHistory, m, now')
    BY <1>1, <2>1, OnTrackKept
  <2> QED
    BY <2>2 DEF v
<1>4. AR!Swept(now') = PruneIdle(arGratuitous, now') \/ AR!Swept(now') = arGratuitous
  BY ArpWindows DEF AR!Swept
<1> QED
  BY <1>2, <1>3, <1>4

(* What was right stays right.                                             *)
LEMMA FloodRightStays ==
  ASSUME NEW h, NEW g, Len(h) \in Nat, \A j \in 1 .. Len(h) : g[j] = h[j],
         NEW i \in 1 .. Len(h), FloodRight(h, i)
  PROVE  FloodRight(g, i)
<1>1. 1 .. i \subseteq 1 .. Len(h) /\ \A j \in 1 .. i : j .. i - 1 \subseteq 1 .. Len(h)
  OBVIOUS
<1>2. g[i] = h[i] /\ \A j \in 1 .. i : g[j] = h[j]
  BY <1>1
<1>3. \A j \in 1 .. i : (\A m \in j .. i - 1 : ~(g[m].mac = g[i].mac /\ g[m].flood > 0))
                   <=> (\A m \in j .. i - 1 : ~(h[m].mac = h[i].mac /\ h[m].flood > 0))
  BY <1>1, <1>2
<1>4. Due(g, i) = Due(h, i)
  BY <1>2, <1>3 DEF Due
<1> QED
  BY <1>2, <1>4 DEF FloodRight

(* How an entry of the history changes what is open.                       *)
Opened(h, g, m) ==
  LET e == g[Len(g)]
  IN  /\ e.mac = m /\ e.flood > 0 => Open(g, m) = {}
      /\ ~(e.mac = m /\ e.flood > 0) /\ ~(e.mac = m /\ e.announces) => Open(g, m) = Open(h, m)
      /\ e.mac = m /\ ~(e.flood > 0) /\ e.announces => Open(g, m) = Open(h, m) \cup {Len(g)}

LEMMA OpenGrows ==
  ASSUME NEW h, NEW g, Len(h) \in Nat, Len(g) = Len(h) + 1,
         \A j \in 1 .. Len(h) : g[j] = h[j], NEW m
  PROVE  Opened(h, g, m)
<1> DEFINE n == Len(h)
           e == g[Len(g)]
<1>1. n \in Nat /\ \A j \in 1 .. n + 1 : j .. n + 1 = (j .. n) \cup {n + 1} /\ j .. n \subseteq 1 .. n
  OBVIOUS
<1>2. \A j \in 1 .. n + 1 : j \in 1 .. n \/ j = n + 1
  OBVIOUS
<1>3. n + 1 .. n = {} /\ n + 1 \in 1 .. n + 1 /\ 1 .. n \subseteq 1 .. n + 1
  OBVIOUS
<1>4. \A j \in 1 .. n + 1 : (\A q \in j .. n + 1 : ~(g[q].mac = m /\ g[q].flood > 0))
                       <=> /\ \A q \in j .. n : ~(h[q].mac = m /\ h[q].flood > 0)
                           /\ ~(e.mac = m /\ e.flood > 0)
  BY <1>1
<1> HIDE DEF n, e
<1>5. Len(g) = n + 1 /\ Len(h) = n /\ g[n + 1] = e /\ \A j \in 1 .. n : g[j] = h[j]
  BY DEF n, e
<1>6. CASE e.mac = m /\ e.flood > 0
  BY <1>4, <1>5, <1>6 DEF Open, Opened, e
<1>7. CASE ~(e.mac = m /\ e.flood > 0)
  <2>0. \A j \in Open(h, m) : j \in 1 .. n
    BY <1>5 DEF Open
  <2>1. \A j \in 1 .. n : j \in Open(g, m) <=> j \in Open(h, m)
    BY <1>3, <1>4, <1>5, <1>7 DEF Open
  <2>2. n + 1 \in Open(g, m) <=> e.mac = m /\ e.announces
    <3>1. \A q \in n + 1 .. n + 1 : ~(g[q].mac = m /\ g[q].flood > 0)
      BY <1>3, <1>4, <1>7
    <3>2. n + 1 \in 1 .. Len(g) /\ g[n + 1] = e
      BY <1>3, <1>5
    <3>3. n + 1 \in Open(g, m) => e.mac = m /\ e.announces
      BY <3>2, Zenon DEF Open
    <3>4. e.mac = m /\ e.announces => n + 1 \in Open(g, m)
      <4>1. \A q \in n + 1 .. Len(g) : ~(g[q].mac = m /\ g[q].flood > 0)
        BY <1>5, <3>1
      <4> QED
        BY <3>2, <4>1, Zenon DEF Open
    <3> QED
      BY <3>3, <3>4
  <2>3. \A j \in Open(g, m) : j \in 1 .. n \/ j = n + 1
    BY <1>2, <1>5 DEF Open
  <2>4. n + 1 \notin Open(h, m)
    BY <1>3, <1>5, <2>0
  <2> QED
    BY <1>5, <1>7, <2>0, <2>1, <2>2, <2>3, <2>4 DEF Opened, e
<1> QED
  BY <1>6, <1>7

LEMMA DueIsCount ==
  ASSUME NEW h, NEW g, Len(h) \in Nat, Len(g) = Len(h) + 1,
         \A j \in 1 .. Len(h) : g[j] = h[j], g[Len(g)].announces, g[Len(g)].ts \in Int
  PROVE  Due(g, Len(g)) = Counting(g, Open(h, g[Len(g)].mac) \cup {Len(g)},
                                   g[Len(g)].ts - AnnounceWindow)
<1> DEFINE e == g[Len(g)]
           n == Len(h)
           D == {j \in 1 .. n + 1 : /\ g[j].mac = e.mac /\ g[j].announces
                                    /\ g[j].ts >= e.ts - AnnounceWindow
                                    /\ \A m \in j .. n : ~(g[m].mac = e.mac /\ g[m].flood > 0)}
           C == {j \in Open(h, e.mac) \cup {n + 1} : g[j].ts >= e.ts - AnnounceWindow}
<1>1. n \in Nat /\ Len(g) = n + 1 /\ (n + 1) - 1 = n /\ g[n + 1] = e
  OBVIOUS
<1>2. /\ \A j \in 1 .. n + 1 : (j \in 1 .. n \/ j = n + 1) /\ j .. n \subseteq 1 .. n
      /\ n + 1 \in 1 .. n + 1 /\ n + 1 .. n = {} /\ \A j \in 1 .. n : j \in 1 .. n + 1
  OBVIOUS
<1>3. \A j \in 1 .. n : g[j] = h[j]
  OBVIOUS
<1>4. \A j \in 1 .. n + 1 : (\A m \in j .. n : ~(g[m].mac = e.mac /\ g[m].flood > 0))
                       <=> (\A m \in j .. n : ~(h[m].mac = e.mac /\ h[m].flood > 0))
  BY <1>2, <1>3
<1>5. D = C
  <2>1. \A j \in 1 .. n : j \in D <=> j \in C
    BY <1>2, <1>3, <1>4 DEF Open
  <2>2. e.ts >= e.ts - AnnounceWindow
    BY AnnounceParams
  <2>3. n + 1 \in D /\ n + 1 \in C
    BY <1>1, <1>2, <2>2
  <2>4. \A j \in D : j \in 1 .. n \/ j = n + 1
    BY <1>2
  <2>5. \A j \in C : j \in 1 .. n \/ j = n + 1
    BY DEF Open
  <2> HIDE DEF D, C
  <2>6. \A j : j \in D <=> j \in C
    BY <2>1, <2>3, <2>4, <2>5
  <2> QED
    BY <2>6
<1>6. Due(g, Len(g)) = Cardinality(D)
  <2> HIDE DEF n
  <2> QED
    BY <1>1 DEF Due
<1> QED
  BY <1>1, <1>5, <1>6 DEF Counting

(* A packet with both addresses, after which the windows are ws.           *)
LEMMA AnnounceStep ==
  ASSUME AnnounceInv, Clocked', now <= now', NEW p, NEW flood, AR!Seen(p, flood),
         \A m : m # p.mac => OnTrack(WindowOf(arGratuitous', m, AnnounceWindow), arHistory, m, now'),
         OnTrack(WindowOf(arGratuitous', p.mac, AnnounceWindow), arHistory', p.mac, now'),
         FloodRight(arHistory', Len(arHistory'))
  PROVE  AnnounceInv'
<1> DEFINE e == [ip |-> p.src, mac |-> p.mac, ts |-> now',
                 announces |-> AR!Announces(p),
                 conflict |-> AR!Conflict(p.src, p.mac), flood |-> flood]
           h == arHistory
           g == arHistory'
           n == Len(h)
<1>1. arHistory' = Append(h, e) /\ e.ts = now' /\ e.mac = p.mac
  BY DEF AR!Seen
<1> HIDE DEF e
<1>2. /\ Chronicle(g, now') /\ n \in Nat /\ Len(g) = n + 1 /\ g[n + 1] = e
      /\ \A i \in 1 .. n : g[i] = h[i]
  <2>1. now \in Int /\ now' \in Int /\ Chronicle(h, now)
    BY DEF AnnounceInv, Clocked
  <2> QED
    BY <1>1, <2>1, ChronicleGrows, ChronicleFacts
<1>3. \A i \in 1 .. n : FloodRight(h, i)
  BY DEF AnnounceInv
<1>4. \A i \in 1 .. Len(g) : FloodRight(g, i)
  <2>1. \A i \in 1 .. Len(g) : i \in 1 .. n \/ i = Len(g)
    BY <1>2
  <2>2. \A i \in 1 .. n : FloodRight(g, i)
    <3> HIDE DEF g, h, n
    <3> QED
      BY <1>2, <1>3, FloodRightStays DEF n
  <2> QED
    BY <2>1, <2>2
<1>5. ASSUME NEW m PROVE OnTrack(WindowOf(arGratuitous', m, AnnounceWindow), g, m, now')
  <2>1. CASE m = p.mac
    BY <2>1
  <2>2. CASE m # p.mac
    <3> DEFINE w == WindowOf(arGratuitous', m, AnnounceWindow)
    <3>1. OnTrack(w, h, m, now')
      BY <2>2
    <3> HIDE DEF w, g, h, n
    <3>2. Open(g, m) = Open(h, m)
      BY <1>1, <1>2, <2>2, OpenGrows DEF n, Opened
    <3>3. \A j \in Open(h, m) : g[j] = h[j]
      BY <1>2, OpenIsSome DEF n
    <3>4. Tracks(w, AnnounceWindow, {None}, None, g, Open(h, m), now')
      BY <3>1, <3>3, TracksSame DEF OnTrack
    <3>5. OnTrack(w, g, m, now')
      BY <3>1, <3>2, <3>4 DEF OnTrack
    <3> QED
      BY <3>5 DEF w
  <2> QED
    BY <2>1, <2>2
<1> QED
  BY <1>2, <1>4, <1>5 DEF AnnounceInv

LEMMA AnnouncePlain ==
  ASSUME AnnounceInv, Clocked', now <= now', NEW p, AR!Plain(p)
  PROVE  AnnounceInv'
<1> DEFINE e == [ip |-> p.src, mac |-> p.mac, ts |-> now',
                 announces |-> AR!Announces(p),
                 conflict |-> AR!Conflict(p.src, p.mac), flood |-> 0]
           h == arHistory
           g == arHistory'
           n == Len(h)
           w == WindowOf(arGratuitous', p.mac, AnnounceWindow)
<1>1. /\ arHistory' = Append(h, e) /\ e.ts = now' /\ e.mac = p.mac /\ ~e.announces /\ e.flood = 0
      /\ AR!Seen(p, 0) /\ arGratuitous' = AR!Swept(now')
  BY DEF AR!Seen, AR!Plain
<1> HIDE DEF e
<1>2. /\ n \in Nat /\ Len(g) = n + 1 /\ g[n + 1] = e
      /\ \A i \in 1 .. n : g[i] = h[i]
  <2>1. now \in Int /\ now' \in Int /\ Chronicle(h, now)
    BY DEF AnnounceInv, Clocked
  <2> QED
    BY <1>1, <2>1, ChronicleGrows, ChronicleFacts
<1>3. \A m : OnTrack(WindowOf(arGratuitous', m, AnnounceWindow), h, m, now')
  BY <1>1, SweptOnTrack DEF Clocked
<1>4. FloodRight(g, Len(g))
  BY <1>1, <1>2 DEF FloodRight
<1>5. OnTrack(w, g, p.mac, now')
  <2>1. OnTrack(w, h, p.mac, now')
    BY <1>3
  <2> HIDE DEF w, g, h, n
  <2>2. Open(g, p.mac) = Open(h, p.mac)
    BY <1>1, <1>2, OpenGrows DEF n, Opened
  <2>3. \A j \in Open(h, p.mac) : g[j] = h[j]
    BY <1>2, OpenIsSome DEF n
  <2>4. Tracks(w, AnnounceWindow, {None}, None, g, Open(h, p.mac), now')
    BY <2>1, <2>3, TracksSame DEF OnTrack
  <2> QED
    BY <2>1, <2>2, <2>4 DEF OnTrack
<1> QED
  BY <1>1, <1>3, <1>4, <1>5, AnnounceStep

(* What a gratuitous reply does, w being its MAC's window with the reply.  *)
CountedReply(p, swept, w) ==
  LET count == CountOf(w, None)
  IN  /\ AR!Seen(p, IF count > Announcements THEN count ELSE 0)
      /\ arGratuitous' = With(swept, p.mac, IF count > Announcements THEN NewWindow(w.seconds) ELSE w)

LEMMA GratuitousIs ==
  ASSUME NEW p, AR!Gratuitous(p), NEW swept, swept = AR!Swept(now')
  PROVE  CountedReply(p, swept, Add(WindowOf(swept, p.mac, AnnounceWindow), now', None))
<1> DEFINE u == WindowOf(swept, p.mac, AnnounceWindow)
           w == Add(u, now', None)
           count == CountOf(w, None)
           flood == IF count > Announcements THEN count ELSE 0
<1>1. /\ AR!SW!WindowOf(swept, p.mac, AnnounceWindow) = u /\ AR!SW!Add(u, now', None) = w
      /\ AR!SW!CountOf(w, None) = count /\ AR!SW!Cleared(w) = NewWindow(w.seconds)
      /\ \A v : AR!SW!With(swept, p.mac, v) = With(swept, p.mac, v)
  <2>1. AR!SW!WindowOf(swept, p.mac, AnnounceWindow) = u
    BY ArpWindows
  <2> HIDE DEF u
  <2>2. AR!SW!Add(u, now', None) = w
    BY ArpWindows
  <2> HIDE DEF w
  <2> QED
    BY <2>1, <2>2, ArpWindows
<1>2. AR!CountReply(p, swept)
  BY Zenon DEF AR!Gratuitous
<1>3. AR!Judge(p, swept, AR!SW!Add(AR!SW!WindowOf(swept, p.mac, AnnounceWindow), now', None))
  BY <1>2, Zenon DEF AR!CountReply, AR!None, None
<1> HIDE DEF u, w
<1>4. AR!Judge(p, swept, w)
  BY <1>1, <1>3
<1>5. \/ /\ AR!TooMany(count)
         /\ arGratuitous' = With(swept, p.mac, NewWindow(w.seconds))
         /\ AR!Seen(p, count)
      \/ /\ ~AR!TooMany(count)
         /\ arGratuitous' = With(swept, p.mac, w)
         /\ AR!Seen(p, 0)
  <2>1. \/ /\ AR!TooMany(AR!SW!CountOf(w, None))
           /\ arGratuitous' = AR!SW!With(swept, p.mac, AR!SW!Cleared(w))
           /\ AR!Seen(p, AR!SW!CountOf(w, None))
        \/ /\ ~AR!TooMany(AR!SW!CountOf(w, None))
           /\ arGratuitous' = AR!SW!With(swept, p.mac, w)
           /\ AR!Seen(p, 0)
    BY <1>4, Zenon DEF AR!Judge, AR!None, None
  <2> HIDE DEF count
  <2> QED
    BY <1>1, <2>1
<1> HIDE DEF count
<1>6. AR!TooMany(count) <=> count > Announcements
  BY DEF AR!TooMany
<1>7. /\ AR!Seen(p, flood)
      /\ arGratuitous' = With(swept, p.mac, IF count > Announcements THEN NewWindow(w.seconds) ELSE w)
  <2>1. CASE count > Announcements
    BY <1>5, <1>6, <2>1
  <2>2. CASE ~(count > Announcements)
    BY <1>5, <1>6, <2>2
  <2> QED
    BY <2>1, <2>2
<1> QED
  BY <1>7 DEF CountedReply, count, w, u

LEMMA AnnounceCounted ==
  ASSUME AnnounceInv, Clocked', now <= now', NEW p, AR!Gratuitous(p)
  PROVE  AnnounceInv'
<1> DEFINE swept == AR!Swept(now')
           u == WindowOf(swept, p.mac, AnnounceWindow)
           w == Add(u, now', None)
           count == CountOf(w, None)
           flood == IF count > Announcements THEN count ELSE 0
           h == arHistory
           g == arHistory'
           J == Open(h, p.mac)
<1>1. /\ AR!Seen(p, flood)
      /\ arGratuitous' = With(swept, p.mac, IF count > Announcements THEN NewWindow(w.seconds) ELSE w)
  BY GratuitousIs DEF CountedReply
<1>2. /\ g[Len(g)].ts = now' /\ g[Len(g)].mac = p.mac
      /\ g[Len(g)].announces /\ g[Len(g)].flood = flood
      /\ Chronicle(h, now') /\ Chronicle(g, now') /\ Len(h) \in Nat /\ Len(g) = Len(h) + 1
      /\ \A i \in 1 .. Len(h) : g[i] = h[i]
  <2> DEFINE e == [ip |-> p.src, mac |-> p.mac, ts |-> now',
                   announces |-> AR!Announces(p),
                   conflict |-> AR!Conflict(p.src, p.mac), flood |-> flood]
  <2>1. /\ g = Append(h, e) /\ e.ts = now' /\ e.mac = p.mac /\ e.announces /\ e.flood = flood
    <3> HIDE DEF flood, h
    <3> QED
      BY <1>1 DEF AR!Seen, AR!Gratuitous, h
  <2> HIDE DEF e, flood
  <2>2. now \in Int /\ now' \in Int /\ Chronicle(h, now)
    BY DEF AnnounceInv, Clocked
  <2>3. /\ Chronicle(h, now') /\ Chronicle(g, now') /\ Len(h) \in Nat /\ Len(g) = Len(h) + 1
        /\ g[Len(h) + 1] = e /\ \A i \in 1 .. Len(h) : g[i] = h[i]
    <3>1. Chronicle(h, now') /\ Len(h) \in Nat
      BY <2>2, ChronicleLater, ChronicleFacts
    <3> QED
      BY <2>1, <2>2, <3>1, ChronicleGrows
  <2> HIDE DEF h, g
  <2> QED
    BY <2>1, <2>3
<1>3. now' \in Int /\ AnnounceWindow \in Nat /\ Announcements \in Nat
  BY AnnounceParams DEF Clocked
<1>4. \A m : OnTrack(WindowOf(swept, m, AnnounceWindow), h, m, now')
  BY <1>3, SweptOnTrack
<1> HIDE DEF swept
<1>5. OnTrack(u, h, p.mac, now')
  BY <1>4
<1> HIDE DEF u
<1>6. Grown(u, w, AnnounceWindow, {None}, now', None)
  BY <1>3, <1>5, AddGood DEF OnTrack
<1> HIDE DEF w
<1>7. TracksExactly(w, AnnounceWindow, {None}, None, g, J \cup {Len(g)}, now')
  <2>1. J \in SUBSET (1 .. Len(h)) /\ None \in {None}
    BY OpenIsSome
  <2>2. Tracks(u, AnnounceWindow, {None}, None, h, J, now')
    BY <1>5 DEF OnTrack
  <2> HIDE DEF J, h, g
  <2> QED
    BY <1>2, <1>3, <1>6, <2>1, <2>2, TracksGrown
<1>8. Due(g, Len(g)) = count
  <2> HIDE DEF h, g, flood
  <2>1. g[Len(h) + 1] = g[Len(g)] /\ g[Len(g)].ts \in Int
    BY <1>2, <1>3
  <2>2. Due(g, Len(g)) = Counting(g, Open(h, g[Len(g)].mac) \cup {Len(g)}, g[Len(g)].ts - AnnounceWindow)
    BY <1>2, <2>1, DueIsCount
  <2> QED
    BY <1>2, <1>7, <2>2 DEF TracksExactly
<1>9. count \in Nat
  <2>1. J \cup {Len(g)} \in SUBSET (1 .. Len(g))
    <3>1. J \subseteq 1 .. Len(h)
      BY OpenIsSome
    <3> HIDE DEF J, h, g
    <3>2. 1 .. Len(h) \subseteq 1 .. Len(g) /\ Len(g) \in 1 .. Len(g)
      BY <1>2
    <3> QED
      BY <3>1, <3>2
  <2> HIDE DEF J, h, g
  <2> QED
    BY <1>2, <1>7, <2>1, CountingType DEF TracksExactly
<1> HIDE DEF count
<1>10. FloodRight(g, Len(g))
  <2> HIDE DEF g, h
  <2> QED
    BY <1>2, <1>8 DEF FloodRight
<1>11. \A m : m # p.mac => OnTrack(WindowOf(arGratuitous', m, AnnounceWindow), h, m, now')
  BY <1>1, <1>4, WithWindow
<1>12. OnTrack(WindowOf(arGratuitous', p.mac, AnnounceWindow), g, p.mac, now')
  <2>1. CASE count > Announcements
    <3>1. Good(w, AnnounceWindow, {None}, now')
      BY <1>6 DEF Grown
    <3>2. w.seconds = AnnounceWindow
      BY <3>1 DEF Good
    <3>3. WindowOf(arGratuitous', p.mac, AnnounceWindow) = NewWindow(AnnounceWindow)
      BY <1>1, <2>1, <3>2, WithWindow
    <3>4. Open(g, p.mac) = {}
      <4>1. g[Len(g)].mac = p.mac /\ g[Len(g)].flood > 0
        BY <1>2, <1>3, <1>9, <2>1
      <4> HIDE DEF g, h
      <4> QED
        BY <1>2, <4>1, OpenGrows DEF Opened
    <3> QED
      BY <3>3, <3>4, NewWindowGood, TracksNew DEF OnTrack
  <2>2. CASE ~(count > Announcements)
    <3>1. WindowOf(arGratuitous', p.mac, AnnounceWindow) = w
      BY <1>1, <2>2, WithWindow
    <3>2. Open(g, p.mac) = J \cup {Len(g)}
      <4>1. g[Len(g)].mac = p.mac /\ ~(g[Len(g)].flood > 0) /\ g[Len(g)].announces
        BY <1>2, <2>2
      <4> HIDE DEF g, h
      <4> QED
        BY <1>2, <4>1, OpenGrows DEF Opened
    <3> QED
      BY <1>6, <1>7, <3>1, <3>2 DEF OnTrack, Grown, TracksExactly
  <2> QED
    BY <2>1, <2>2
<1> HIDE DEF flood
<1> QED
  BY <1>1, <1>10, <1>11, <1>12, AnnounceStep

LEMMA AnnounceInit == Init => AnnounceInv
<1> SUFFICES ASSUME Init PROVE AnnounceInv
  OBVIOUS
<1>1. arHistory = <<>> /\ arGratuitous = [m \in {} |-> AR!SW!NewWindow(AnnounceWindow)]
      /\ now = Epoch /\ traffic \in Kinds
  BY DEF Init, AR!Init
<1>2. Len(<<>>) = 0 /\ <<>> \in Seq({}) /\ 1 .. 0 = {}
  BY EmptySeq
<1>3. Clocked
  BY <1>1, DetectorsAssumption DEF Clocked, AR!ArpSpoofAssumption
<1>4. Chronicle(arHistory, now)
  BY <1>1, <1>2 DEF Chronicle
<1>5. \A m : WindowOf(arGratuitous, m, AnnounceWindow) = NewWindow(AnnounceWindow)
  BY <1>1 DEF WindowOf
<1>6. \A m : Open(arHistory, m) = {}
  BY <1>1, <1>2 DEF Open
<1>7. \A m : OnTrack(WindowOf(arGratuitous, m, AnnounceWindow), arHistory, m, now)
  BY <1>5, <1>6, NewWindowGood, TracksNew DEF OnTrack
<1> QED
  BY <1>1, <1>2, <1>3, <1>4, <1>7 DEF AnnounceInv

LEMMA AnnounceNext == AnnounceInv /\ [Next]_vars => AnnounceInv'
<1> SUFFICES ASSUME AnnounceInv, [Next]_vars PROVE AnnounceInv'
  OBVIOUS
<1>1. CASE UNCHANGED vars
  BY <1>1 DEF vars, arVars, AnnounceInv, Clocked
<1>2. ASSUME NEW p, NEW gap \in Mixes[traffic].gaps, Deliver(p, gap) PROVE AnnounceInv'
  <2>1. Clocked' /\ now <= now' /\ AR!Process(p) /\ now' \in Int /\ now \in Int
    BY <1>2, ClockSteps DEF Deliver, AnnounceInv, Clocked
  <2>2. CASE AR!Ignored(p) \/ AR!NoAddress(p)
    <3>1. \A m : OnTrack(WindowOf(arGratuitous', m, AnnounceWindow), arHistory, m, now')
      BY <2>1, <2>2, SweptOnTrack DEF AR!Ignored, AR!NoAddress
    <3>2. arHistory' = arHistory
      BY <2>2 DEF AR!Ignored, AR!NoAddress
    <3>3. Chronicle(arHistory, now')
      BY <2>1, ChronicleLater DEF AnnounceInv
    <3> QED
      BY <2>1, <3>1, <3>2, <3>3 DEF AnnounceInv
  <2>3. CASE AR!Plain(p)
    BY <2>1, <2>3, AnnouncePlain
  <2>4. CASE AR!Gratuitous(p)
    BY <2>1, <2>4, AnnounceCounted
  <2> QED
    BY <2>1, <2>2, <2>3, <2>4 DEF AR!Process, AR!ArpPacket
<1> QED
  BY <1>1, <1>2 DEF Next

(* Floods of unsolicited ARP replies are reported exactly, with their      *)
(* number (arp_spoof.py, _check_gratuitous_flood()).                       *)
THEOREM EveryAnnouncementFloodReported == Spec => []AnnouncementsExact
<1>1. AnnounceInv => AnnouncementsExact
  BY FloodsByDue DEF AnnounceInv
<1> QED
  BY AnnounceInit, AnnounceNext, <1>1, PTL DEF Spec
-----------------------------------------------------------------------------
(* Cooldowns, whatever they silence: P is the period.                      *)
Cooling(c, k, t, P) == k \in DOMAIN c.last /\ t - c.last[k] < P

Timely(c, n) == \A k \in DOMAIN c.last : c.last[k] \in Int /\ c.last[k] <= n

Noted(last, key, n) == [k \in DOMAIN last \cup {key} |-> IF k = key THEN n ELSE last[k]]

NotBefore(last, t) == [k \in {j \in DOMAIN last : last[j] >= t} |-> last[k]]

(* Of the keys in d, those of x may have been marked at n, the others not. *)
MarkedOnly(c, d, x, n) ==
  \A k \in DOMAIN d.last : \/ k \in x /\ d.last[k] = n
                           \/ k \in DOMAIN c.last /\ d.last[k] = c.last[k]

(* d is c with key marked at n: one key more is silenced from then on, and *)
(* none less.                                                              *)
MarkedIn(c, d, key, n, P) ==
  /\ Timely(d, n) /\ MarkedOnly(c, d, {key}, n)
  /\ \A k : \A t \in Int : t >= n =>
       (Cooling(d, k, t, P) <=> (k = key /\ t - n < P) \/ Cooling(c, k, t, P))

LEMMA TimelyLater ==
  ASSUME NEW c, NEW n \in Int, NEW m \in Int, n <= m, Timely(c, n)
  PROVE  Timely(c, m)
BY DEF Timely

(* The pruning that may come with a mark drops no key still silenced.      *)
LEMMA MarkSilences ==
  ASSUME NEW P \in Int, NEW c, NEW n \in Int, NEW key, Timely(c, n),
         NEW d, \/ d.last = Noted(c.last, key, n)
                \/ d.last = NotBefore(Noted(c.last, key, n), n - P)
  PROVE  MarkedIn(c, d, key, n, P)
<1> DEFINE marked == Noted(c.last, key, n)
           pruned == NotBefore(marked, n - P)
<1>1. /\ DOMAIN marked = DOMAIN c.last \cup {key} /\ marked[key] = n
      /\ \A k \in DOMAIN c.last : k # key => marked[k] = c.last[k]
  BY DEF Noted
<1>2. /\ DOMAIN pruned = {k \in DOMAIN marked : marked[k] >= n - P}
      /\ \A k \in DOMAIN pruned : pruned[k] = marked[k]
  <2> HIDE DEF marked
  <2> QED
    BY DEF NotBefore
<1>0. d.last = marked \/ d.last = pruned
  OBVIOUS
<1> HIDE DEF marked, pruned
<1>3. \A k \in DOMAIN marked : marked[k] \in Int /\ marked[k] <= n
  BY <1>1 DEF Timely
<1>4. Timely(d, n)
  BY <1>0, <1>2, <1>3 DEF Timely
<1>5. ASSUME NEW k, NEW t \in Int, t >= n
      PROVE  Cooling(d, k, t, P) <=> (k = key /\ t - n < P) \/ Cooling(c, k, t, P)
  <2>1. Cooling(d, k, t, P) <=> k \in DOMAIN marked /\ t - marked[k] < P
    <3>1. \A x \in Int : t - x < P => x >= n - P
      BY <1>5
    <3> QED
      BY <1>0, <1>2, <1>3, <3>1 DEF Cooling
  <2>2. k \in DOMAIN marked /\ t - marked[k] < P
          <=> (k = key /\ t - n < P) \/ (k \in DOMAIN c.last /\ t - c.last[k] < P)
    <3>1. k \in DOMAIN c.last /\ t - c.last[k] < P => t - n < P
      BY <1>5 DEF Timely
    <3> QED
      BY <1>1, <3>1
  <2> QED
    BY <2>1, <2>2 DEF Cooling
<1>6. MarkedOnly(c, d, {key}, n)
  BY <1>0, <1>1, <1>2 DEF MarkedOnly
<1> QED
  BY <1>4, <1>5, <1>6 DEF MarkedIn
-----------------------------------------------------------------------------
(* BruteForceDetector: windows of attempts that all have the same key, and *)
(* a cooldown.                                                             *)
LEMMA BruteWindows ==
  /\ \A s : BF!SW!NewWindow(s) = NewWindow(s)
  /\ \A w, k : BF!SW!CountOf(w, k) = CountOf(w, k)
  /\ \A w, n, k : BF!SW!Add(w, n, k) = Add(w, n, k)
  /\ \A ws, k, s : BF!SW!WindowOf(ws, k, s) = WindowOf(ws, k, s)
  /\ \A ws, k, w : BF!SW!With(ws, k, w) = With(ws, k, w)
  /\ \A ws, n : BF!SW!PruneIdle(ws, n) = PruneIdle(ws, n)
  /\ \A w : BF!SW!Cleared(w) = NewWindow(w.seconds)
<1>1. \A s : BF!SW!NewWindow(s) = NewWindow(s)
  BY Zenon DEF BF!SW!NewWindow, NewWindow
<1>2. \A w, k : BF!SW!CountOf(w, k) = CountOf(w, k)
  BY DEF BF!SW!CountOf, CountOf
<1>3. \A log, n : BF!SW!Stale(log, n) = Stale(log, n)
  BY Zenon DEF BF!SW!Stale, Stale, BF!SW!Expired, Expired, BF!SW!Cardinality, Cardinality
<1>4. \A log, k : BF!SW!Occurrences(log, k) = Occurrences(log, k)
  BY Zenon DEF BF!SW!Occurrences, Occurrences, BF!SW!Cardinality, Cardinality
<1>5. \A w, n : BF!SW!Popped(w, n) = Popped(w, n)
  <2> SUFFICES ASSUME NEW w, NEW n PROVE BF!SW!Popped(w, n) = Popped(w, n)
    OBVIOUS
  <2> DEFINE front == SubSeq(w.log, 1, n)
             L1 == [k \in DOMAIN w.counts |-> w.counts[k] - BF!SW!Occurrences(front, k)]
             L2 == [k \in DOMAIN w.counts |-> w.counts[k] - Occurrences(front, k)]
  <2>1. L1 = L2
    BY <1>4
  <2>2. BF!SW!Popped(w, n)
          = [seconds |-> w.seconds, log |-> SubSeq(w.log, n + 1, Len(w.log)),
             counts |-> [k \in {j \in DOMAIN L1 : L1[j] > 0} |-> L1[k]]]
    BY Zenon DEF BF!SW!Popped, BF!SW!StillCounted
  <2>3. Popped(w, n)
          = [seconds |-> w.seconds, log |-> SubSeq(w.log, n + 1, Len(w.log)),
             counts |-> [k \in {j \in DOMAIN L2 : L2[j] > 0} |-> L2[k]]]
    BY Zenon DEF Popped, StillCounted
  <2> HIDE DEF L1, L2
  <2> QED
    BY <2>1, <2>2, <2>3
<1>6. \A w, n : BF!SW!Prune(w, n) = Prune(w, n)
  BY <1>3, <1>5 DEF BF!SW!Prune, Prune
<1>7. \A w, n, k : BF!SW!Add(w, n, k) = Add(w, n, k)
  <2>1. \A w, k : BF!SW!Counted(w, k) = Counted(w, k)
    BY <1>2 DEF BF!SW!Counted, Counted
  <2>2. \A w, n, k : BF!SW!Pushed(w, n, k) = Pushed(w, n, k)
    BY <2>1 DEF BF!SW!Pushed, Pushed
  <2> QED
    BY <1>6, <2>2 DEF BF!SW!Add, Add
<1>8. \A ws, k, s : BF!SW!WindowOf(ws, k, s) = WindowOf(ws, k, s)
  BY <1>1 DEF BF!SW!WindowOf, WindowOf
<1>9. \A ws, k, w : BF!SW!With(ws, k, w) = With(ws, k, w)
  BY Zenon DEF BF!SW!With, With
<1>10. \A ws, n : BF!SW!PruneIdle(ws, n) = PruneIdle(ws, n)
  BY <1>6 DEF BF!SW!PruneIdle, PruneIdle, BF!SW!NonEmpty, NonEmpty, BF!SW!IsEmpty, IsEmpty
<1>11. \A w : BF!SW!Cleared(w) = NewWindow(w.seconds)
  BY <1>1 DEF BF!SW!Cleared
<1> QED
  BY <1>1, <1>2, <1>7, <1>8, <1>9, <1>10, <1>11

Service(key) == key[3] \in BF!Services

Length(key) == LoginWindows[key[3]]

Reported(h, key, j) == h[j].key = key /\ h[j].alerted > 0

(* The attempts that are not counted.                                      *)
Muted(h, i) ==
  \E j \in 1 .. i - 1 : Reported(h, h[i].key, j) /\ h[i].ts - h[j].ts < LoginCooldown

(* The attempts on a key that count since its last report.                 *)
Attempted(h, key) ==
  {j \in 1 .. Len(h) : /\ h[j].key = key /\ ~Muted(h, j)
                       /\ \A q \in j .. Len(h) : ~Reported(h, key, q)}

Tried(h, i) ==
  Cardinality({j \in 1 .. i : /\ h[j].key = h[i].key /\ ~Muted(h, j)
                              /\ h[j].ts >= h[i].ts - Length(h[i].key)
                              /\ \A m \in j .. i - 1 : ~Reported(h, h[i].key, m)})

LoginRight(h, i) ==
  h[i].alerted = IF ~Muted(h, i) /\ Tried(h, i) >= Logins[h[i].key[3]] THEN Tried(h, i) ELSE 0

LEMMA LoginsByTried ==
  LoginsExact <=> \A i \in 1 .. Len(bfHistory) : LoginRight(bfHistory, i)
<1>1. \A S : BF!Cardinality(S) = Cardinality(S)
  BY Zenon DEF BF!Cardinality, Cardinality
<1>2. \A i, j : BF!SameKey(i, j) <=> bfHistory[j].key = bfHistory[i].key
  BY DEF BF!SameKey
<1>3. \A i : BF!Silenced(i) <=> Muted(bfHistory, i)
  BY <1>2 DEF BF!Silenced, Muted, Reported
<1>4. \A i : Cardinality(BF!CountsFor(i)) = Tried(bfHistory, i)
  BY <1>2, <1>3 DEF BF!CountsFor, Tried, Reported, Length
<1> QED
  BY <1>1, <1>3, <1>4 DEF LoginsExact, BF!AlertsExact, LoginRight

LEMMA BruteParams ==
  /\ LoginCooldown \in Nat \ {0} /\ LoginCooldown \in Int
  /\ \A key : Service(key) => /\ Length(key) \in Nat /\ Length(key) \in Int
                              /\ Logins[key[3]] \in Nat \ {0}
BY DetectorsAssumption DEF BF!BruteForceAssumption, Service, Length

LEMMA BruteCooldown ==
  /\ \A c, k, t : BF!CT!IsCooling(c, k, t) <=> Cooling(c, k, t, LoginCooldown)
  /\ \A c, key, n : n \in Int /\ Timely(c, n) =>
       MarkedIn(c, BF!CT!Mark(c, key, n), key, n, LoginCooldown)
<1>1. \A c, k, t : BF!CT!IsCooling(c, k, t) <=> Cooling(c, k, t, LoginCooldown)
  BY DEF BF!CT!IsCooling, Cooling
<1>2. ASSUME NEW c, NEW key, NEW n \in Int, Timely(c, n)
      PROVE  MarkedIn(c, BF!CT!Mark(c, key, n), key, n, LoginCooldown)
  <2> DEFINE marked == BF!CT!Stamped(c.last, key, n)
             pruned == BF!CT!Prune(marked, n)
             d == BF!CT!Mark(c, key, n)
  <2>1. marked = Noted(c.last, key, n)
    BY DEF BF!CT!Stamped, Noted
  <2>2. pruned = NotBefore(marked, n - LoginCooldown)
    <3> HIDE DEF marked
    <3> QED
      BY DEF BF!CT!Prune, BF!CT!Cutoff, NotBefore
  <2>3. d.last = marked \/ d.last = pruned
    <3> HIDE DEF marked, pruned
    <3>1. d = [last |-> pruned, lastPrune |-> n] \/ d = [last |-> marked, lastPrune |-> c.lastPrune]
      BY DEF BF!CT!Mark, marked, pruned
    <3> HIDE DEF d
    <3> QED
      BY <3>1
  <2> HIDE DEF marked, pruned, d
  <2>4. MarkedIn(c, d, key, n, LoginCooldown)
    BY <1>2, <2>1, <2>2, <2>3, BruteParams, MarkSilences
  <2> QED
    BY <2>4 DEF d
<1> QED
  BY <1>1, <1>2

Silencing(h, key, t) ==
  \E j \in 1 .. Len(h) : Reported(h, key, j) /\ t - h[j].ts < LoginCooldown

(* _cooldown silences the keys reported less than a cooldown ago.          *)
Silences(c, h, n) ==
  /\ Timely(c, n)
  /\ \A key : \A t \in Int : t >= n => (Cooling(c, key, t, LoginCooldown) <=> Silencing(h, key, t))

LEMMA SilencesLater ==
  ASSUME NEW c, NEW h, NEW n \in Int, NEW m \in Int, n <= m, Silences(c, h, n)
  PROVE  Silences(c, h, m)
<1>1. Timely(c, m)
  BY TimelyLater DEF Silences
<1>2. \A t \in Int : t >= m => t >= n
  OBVIOUS
<1> QED
  BY <1>1, <1>2 DEF Silences

(* The history g is h with one entry more.                                 *)
Extends(h, g) ==
  /\ Len(h) \in Nat /\ Len(g) = Len(h) + 1
  /\ \A j \in 1 .. Len(h) : g[j] = h[j]

LEMMA SilencingGrows ==
  ASSUME NEW h, NEW g, Extends(h, g), NEW key, NEW t
  PROVE  Silencing(g, key, t) <=>
           \/ Silencing(h, key, t)
           \/ Reported(g, key, Len(g)) /\ t - g[Len(g)].ts < LoginCooldown
<1>1. \A j : j \in 1 .. Len(g) <=> j \in 1 .. Len(h) \/ j = Len(g)
  BY DEF Extends
<1>2. \A j \in 1 .. Len(h) : g[j] = h[j]
  BY DEF Extends
<1> QED
  BY <1>1, <1>2 DEF Silencing, Reported

LEMMA MutedStays ==
  ASSUME NEW h, NEW g, Extends(h, g)
  PROVE  /\ \A i \in 1 .. Len(h) : Muted(g, i) <=> Muted(h, i)
         /\ Muted(g, Len(g)) <=> Silencing(h, g[Len(g)].key, g[Len(g)].ts)
<1>1. ASSUME NEW i \in 1 .. Len(h) PROVE Muted(g, i) <=> Muted(h, i)
  <2>1. \A j \in 1 .. i - 1 : g[j] = h[j]
    BY DEF Extends
  <2>2. g[i] = h[i]
    BY DEF Extends
  <2> QED
    BY <2>1, <2>2 DEF Muted, Reported
<1>2. Len(g) - 1 = Len(h) /\ \A j \in 1 .. Len(h) : g[j] = h[j]
  BY DEF Extends
<1>3. Muted(g, Len(g)) <=> Silencing(h, g[Len(g)].key, g[Len(g)].ts)
  BY <1>2 DEF Muted, Silencing, Reported
<1> QED
  BY <1>1, <1>3

(* What was right stays right.                                             *)
LEMMA LoginRightStays ==
  ASSUME NEW h, NEW g, Extends(h, g), NEW i \in 1 .. Len(h), LoginRight(h, i)
  PROVE  LoginRight(g, i)
<1>1. 1 .. i \subseteq 1 .. Len(h) /\ \A j \in 1 .. i : j .. i - 1 \subseteq 1 .. Len(h)
  BY DEF Extends
<1>2. g[i] = h[i] /\ \A j \in 1 .. Len(h) : g[j] = h[j]
  BY DEF Extends
<1>3. \A j \in 1 .. i : Muted(g, j) <=> Muted(h, j)
  BY <1>1, MutedStays
<1>4. \A key : \A j \in 1 .. i : (\A m \in j .. i - 1 : ~Reported(g, key, m))
                             <=> (\A m \in j .. i - 1 : ~Reported(h, key, m))
  BY <1>1, <1>2 DEF Reported
<1>5. Tried(g, i) = Tried(h, i)
  <2>1. \A j \in 1 .. i : g[j] = h[j] /\ (Muted(g, j) <=> Muted(h, j))
    BY <1>1, <1>2, <1>3
  <2> QED
    BY <1>2, <1>4, <2>1 DEF Tried
<1>6. Muted(g, i) <=> Muted(h, i)
  BY MutedStays
<1> QED
  BY <1>2, <1>5, <1>6 DEF LoginRight

(* How an entry of the history changes what counts.                        *)
AttemptedNow(h, g, key) ==
  LET mine == g[Len(g)].key = key
      reported == Reported(g, key, Len(g))
      muted == Muted(g, Len(g))
  IN  /\ reported => Attempted(g, key) = {}
      /\ ~reported /\ ~(mine /\ ~muted) => Attempted(g, key) = Attempted(h, key)
      /\ ~reported /\ mine /\ ~muted => Attempted(g, key) = Attempted(h, key) \cup {Len(g)}

LEMMA AttemptedGrows ==
  ASSUME NEW h, NEW g, Extends(h, g), NEW key
  PROVE  AttemptedNow(h, g, key)
<1> DEFINE n == Len(h)
           reported == Reported(g, key, Len(g))
           muted == Muted(g, Len(g))
<1>0. n \in Nat /\ Len(g) = n + 1 /\ \A j \in 1 .. n : g[j] = h[j]
  BY DEF Extends
<1>1. \A j \in 1 .. n + 1 : j .. n + 1 = (j .. n) \cup {n + 1} /\ j .. n \subseteq 1 .. n
  BY <1>0
<1>2. \A j \in 1 .. n + 1 : j \in 1 .. n \/ j = n + 1
  BY <1>0
<1>3. n + 1 .. n = {} /\ n + 1 \in 1 .. n + 1 /\ 1 .. n \subseteq 1 .. n + 1 /\ n + 1 \notin 1 .. n
  BY <1>0
<1>4. \A j \in 1 .. n + 1 : (\A q \in j .. n + 1 : ~Reported(g, key, q))
                       <=> (\A q \in j .. n : ~Reported(h, key, q)) /\ ~reported
  BY <1>0, <1>1 DEF Reported
<1>5. \A j \in 1 .. n : Muted(g, j) <=> Muted(h, j)
  BY MutedStays
<1> HIDE DEF n, reported, muted
<1>6. Len(g) = n + 1 /\ Len(h) = n
  BY <1>0 DEF n
<1>7. CASE reported
  <2>1. Attempted(g, key) = {}
    BY <1>4, <1>6, <1>7 DEF Attempted
  <2> QED
    BY <1>7, <2>1 DEF AttemptedNow, reported
<1>8. CASE ~reported
  <2>0. \A j \in Attempted(h, key) : j \in 1 .. n
    BY <1>6 DEF Attempted
  <2>1. \A j \in 1 .. n : j \in Attempted(g, key) <=> j \in Attempted(h, key)
    BY <1>0, <1>3, <1>4, <1>5, <1>6, <1>8 DEF Attempted
  <2>2. n + 1 \in Attempted(g, key) <=> g[n + 1].key = key /\ ~muted
    <3>1. \A q \in n + 1 .. Len(g) : ~Reported(g, key, q)
      BY <1>3, <1>4, <1>6, <1>8
    <3>2. n + 1 \in 1 .. Len(g) /\ (muted <=> Muted(g, n + 1))
      BY <1>3, <1>6 DEF muted
    <3> QED
      BY <3>1, <3>2, Zenon DEF Attempted
  <2>3. \A j \in Attempted(g, key) : j \in 1 .. n \/ j = n + 1
    BY <1>2, <1>6 DEF Attempted
  <2>4. n + 1 \notin Attempted(h, key)
    BY <1>3, <2>0
  <2>5. ~(g[n + 1].key = key /\ ~muted) => Attempted(g, key) = Attempted(h, key)
    BY <2>0, <2>1, <2>2, <2>3, <2>4
  <2>6. g[n + 1].key = key /\ ~muted => Attempted(g, key) = Attempted(h, key) \cup {n + 1}
    BY <2>0, <2>1, <2>2, <2>3, <2>4
  <2> QED
    BY <1>6, <1>8, <2>5, <2>6 DEF AttemptedNow, reported, muted
<1> QED
  BY <1>7, <1>8

LEMMA TriedIsCount ==
  ASSUME NEW h, NEW g, Extends(h, g), NEW key, g[Len(g)].key = key, Service(key),
         ~Muted(g, Len(g)), g[Len(g)].ts \in Int
  PROVE  Tried(g, Len(g)) = Counting(g, Attempted(h, key) \cup {Len(g)},
                                     g[Len(g)].ts - Length(key))
<1> DEFINE n == Len(h)
           D == {j \in 1 .. n + 1 : /\ g[j].key = key /\ ~Muted(g, j)
                                    /\ g[j].ts >= g[n + 1].ts - Length(key)
                                    /\ \A m \in j .. n : ~Reported(g, key, m)}
           C == {j \in Attempted(h, key) \cup {n + 1} : g[j].ts >= g[n + 1].ts - Length(key)}
<1>1. n \in Nat /\ Len(g) = n + 1 /\ (n + 1) - 1 = n /\ \A j \in 1 .. n : g[j] = h[j]
  BY DEF Extends
<1>2. /\ \A j \in 1 .. n + 1 : (j \in 1 .. n \/ j = n + 1) /\ j .. n \subseteq 1 .. n
      /\ n + 1 \in 1 .. n + 1 /\ n + 1 .. n = {} /\ \A j \in 1 .. n : j \in 1 .. n + 1
  BY <1>1
<1>3. \A j \in 1 .. n : Muted(g, j) <=> Muted(h, j)
  BY MutedStays
<1>4. \A j \in 1 .. n + 1 : (\A m \in j .. n : ~Reported(g, key, m))
                       <=> (\A m \in j .. n : ~Reported(h, key, m))
  BY <1>1, <1>2 DEF Reported
<1>5. D = C
  <2>1. \A j \in 1 .. n : j \in D <=> j \in C
    BY <1>1, <1>2, <1>3, <1>4 DEF Attempted
  <2>2. g[n + 1].ts >= g[n + 1].ts - Length(key)
    BY <1>1, BruteParams
  <2>3. n + 1 \in D /\ n + 1 \in C
    <3>1. g[n + 1].key = key /\ ~Muted(g, n + 1)
      BY <1>1
    <3> QED
      BY <1>1, <1>2, <2>2, <3>1
  <2>4. \A j \in D : j \in 1 .. n \/ j = n + 1
    BY <1>2
  <2>5. \A j \in C : j \in 1 .. n \/ j = n + 1
    BY DEF Attempted
  <2> HIDE DEF D, C
  <2>6. \A j : j \in D <=> j \in C
    BY <2>1, <2>3, <2>4, <2>5
  <2> QED
    BY <2>6
<1>6. Tried(g, Len(g)) = Cardinality(D)
  <2> HIDE DEF n
  <2> QED
    BY <1>1 DEF Tried
<1> QED
  BY <1>1, <1>5, <1>6 DEF Counting

(* The window of a key at time n holds the attempts that count since the   *)
(* last report, but for some that have expired.                            *)
Following(w, h, key, n) ==
  /\ Good(w, Length(key), {"none"}, n)
  /\ Tracks(w, Length(key), {"none"}, "none", h, Attempted(h, key), n)

BruteWindow(ws, key) == WindowOf(ws, key, Length(key))

BruteInv ==
  /\ Clocked
  /\ Chronicle(bfHistory, now)
  /\ Silences(bfCooldown, bfHistory, now)
  /\ \A key : Service(key) => Following(BruteWindow(bfWindows, key), bfHistory, key, now)
  /\ \A i \in 1 .. Len(bfHistory) : Service(bfHistory[i].key) /\ LoginRight(bfHistory, i)

LEMMA AttemptedIsSome == \A h, key : Attempted(h, key) \in SUBSET (1 .. Len(h))
BY DEF Attempted

LEMMA FollowingKept ==
  ASSUME NEW key, Service(key), NEW w, NEW v, NEW h, NEW n \in Int, NEW l \in Int, n <= l,
         Following(w, h, key, n),
         Good(w, Length(key), {"none"}, l) => Kept(w, v, Length(key), {"none"}, l)
  PROVE  Following(v, h, key, l)
<1>1. Length(key) \in Int /\ "none" \in {"none"}
  BY BruteParams
<1>2. Good(w, Length(key), {"none"}, l)
  BY GoodLater DEF Following
<1>3. Kept(w, v, Length(key), {"none"}, l)
  BY <1>2
<1>4. Tracks(v, Length(key), {"none"}, "none", h, Attempted(h, key), l)
  BY <1>1, <1>3, TracksKept DEF Following
<1> QED
  BY <1>3, <1>4 DEF Following, Kept

LEMMA SweptFollowing ==
  ASSUME BruteInv, now' \in Int, now <= now', NEW key, Service(key)
  PROVE  /\ Following(BruteWindow(bfWindows, key), bfHistory, key, now')
         /\ Following(BruteWindow(BF!Swept(now'), key), bfHistory, key, now')
<1> DEFINE w == BruteWindow(bfWindows, key)
           v == BruteWindow(PruneIdle(bfWindows, now'), key)
<1>1. Following(w, bfHistory, key, now) /\ now \in Int
  BY DEF BruteInv, Clocked
<1>2. Following(w, bfHistory, key, now')
  <2> HIDE DEF w
  <2> QED
    BY <1>1, KeptSelf, FollowingKept
<1>3. Following(v, bfHistory, key, now')
  <2>1. Good(w, Length(key), {"none"}, now') => Kept(w, v, Length(key), {"none"}, now')
    BY BruteParams, SweepGood DEF BruteWindow
  <2> HIDE DEF w, v
  <2> QED
    BY <1>1, <2>1, FollowingKept
<1>4. BF!Swept(now') = PruneIdle(bfWindows, now') \/ BF!Swept(now') = bfWindows
  BY BruteWindows DEF BF!Swept
<1> QED
  BY <1>2, <1>3, <1>4

LEMMA FollowingSame ==
  ASSUME NEW h, NEW g, Extends(h, g), NEW key, NEW w, NEW n, Following(w, h, key, n),
         Attempted(g, key) = Attempted(h, key)
  PROVE  Following(w, g, key, n)
<1>1. \A j \in Attempted(h, key) : g[j] = h[j]
  BY AttemptedIsSome DEF Extends
<1>2. Tracks(w, Length(key), {"none"}, "none", g, Attempted(h, key), n)
  BY <1>1, TracksSame DEF Following
<1> QED
  BY <1>2 DEF Following

LEMMA ChronicleExtends ==
  ASSUME NEW h, NEW n \in Int, NEW m \in Int, n <= m, Chronicle(h, n), NEW e, e.ts = m
  PROVE  /\ Chronicle(Append(h, e), m) /\ Extends(h, Append(h, e))
         /\ Append(h, e)[Len(Append(h, e))] = e
BY ChronicleGrows, ChronicleFacts DEF Extends

(* An attempt, whatever becomes of it.                                     *)
LEMMA AttemptStep ==
  ASSUME BruteInv, Clocked', now <= now', NEW e, e.ts = now', Service(e.key),
         bfHistory' = Append(bfHistory, e),
         Silences(bfCooldown', bfHistory', now'),
         \A key : Service(key) /\ key # e.key =>
           Following(BruteWindow(bfWindows', key), bfHistory, key, now'),
         Following(BruteWindow(bfWindows', e.key), bfHistory', e.key, now'),
         LoginRight(bfHistory', Len(bfHistory'))
  PROVE  BruteInv'
<1> DEFINE h == bfHistory
           g == bfHistory'
<1>1. Chronicle(g, now') /\ Extends(h, g) /\ g[Len(g)] = e
  <2>1. now \in Int /\ now' \in Int /\ Chronicle(h, now)
    BY DEF BruteInv, Clocked
  <2> QED
    BY <2>1, ChronicleExtends
<1>2. \A i \in 1 .. Len(h) : Service(h[i].key) /\ LoginRight(h, i)
  BY DEF BruteInv
<1>3. \A i \in 1 .. Len(g) : Service(g[i].key) /\ LoginRight(g, i)
  <2>1. \A i \in 1 .. Len(g) : i \in 1 .. Len(h) \/ i = Len(g)
    BY <1>1 DEF Extends
  <2>2. \A i \in 1 .. Len(h) : Service(g[i].key) /\ LoginRight(g, i)
    <3> HIDE DEF g, h
    <3> QED
      BY <1>1, <1>2, LoginRightStays DEF Extends
  <2> QED
    BY <1>1, <2>1, <2>2
<1>4. ASSUME NEW key, Service(key) PROVE Following(BruteWindow(bfWindows', key), g, key, now')
  <2>1. CASE key = e.key
    BY <2>1
  <2>2. CASE key # e.key
    <3> DEFINE w == BruteWindow(bfWindows', key)
    <3>1. Following(w, h, key, now')
      BY <1>4, <2>2
    <3> HIDE DEF w, g, h
    <3>2. Attempted(g, key) = Attempted(h, key)
      BY <1>1, <2>2, AttemptedGrows DEF AttemptedNow, Reported
    <3>3. Following(w, g, key, now')
      BY <1>1, <3>1, <3>2, FollowingSame
    <3> QED
      BY <3>3 DEF w
  <2> QED
    BY <2>1, <2>2
<1> QED
  BY <1>1, <1>3, <1>4 DEF BruteInv

LEMMA KeyOfAttempt ==
  ASSUME NEW p, BF!IsAttempt(p)
  PROVE  Service(BF!Key(p))
<1>1. p.port \in BF!Services
  BY DEF BF!IsAttempt, BF!Services
<1>2. BF!Key(p)[3] = p.port
  BY DEF BF!Key
<1> QED
  BY <1>1, <1>2 DEF Service

LEMMA SilencedStep ==
  ASSUME BruteInv, Clocked', now <= now', NEW p, BF!SilencedAttempt(p)
  PROVE  BruteInv'
<1> DEFINE key == BF!Key(p)
           e == [key |-> key, ts |-> now', alerted |-> 0]
           h == bfHistory
           g == bfHistory'
<1>1. /\ BF!IsAttempt(p) /\ BF!CT!IsCooling(bfCooldown, key, now')
      /\ bfWindows' = BF!Swept(now') /\ g = Append(h, e) /\ bfCooldown' = bfCooldown
  BY DEF BF!SilencedAttempt
<1>2. e.ts = now' /\ e.key = key /\ e.alerted = 0
  OBVIOUS
<1> HIDE DEF e
<1>3. Service(key)
  BY <1>1, KeyOfAttempt
<1> HIDE DEF key
<1>4. now \in Int /\ now' \in Int
  BY DEF BruteInv, Clocked
<1>5. Extends(h, g) /\ g[Len(g)] = e
  BY <1>1, <1>2, <1>4, ChronicleExtends DEF BruteInv
<1>6. Silences(bfCooldown, h, now')
  BY <1>4, SilencesLater DEF BruteInv
<1>7. \A k : ~Reported(g, k, Len(g))
  BY <1>2, <1>5 DEF Reported
<1>8. Silences(bfCooldown', g, now')
  <2> HIDE DEF g, h
  <2>1. \A k, t : Silencing(g, k, t) <=> Silencing(h, k, t)
    BY <1>5, <1>7, SilencingGrows
  <2> QED
    BY <1>1, <1>6, <2>1 DEF Silences
<1>9. Muted(g, Len(g))
  <2>1. Silencing(h, key, now')
    BY <1>1, <1>4, <1>6, BruteCooldown DEF Silences
  <2> HIDE DEF g, h
  <2> QED
    BY <1>2, <1>5, <2>1, MutedStays
<1>10. LoginRight(g, Len(g))
  BY <1>2, <1>5, <1>9 DEF LoginRight
<1>11. \A k : Service(k) => Following(BruteWindow(bfWindows', k), h, k, now')
  BY <1>1, <1>4, SweptFollowing
<1>12. Following(BruteWindow(bfWindows', key), g, key, now')
  <2> DEFINE w == BruteWindow(bfWindows', key)
  <2>1. Following(w, h, key, now')
    BY <1>3, <1>11
  <2> HIDE DEF w, g, h
  <2>2. Attempted(g, key) = Attempted(h, key)
    BY <1>5, <1>7, <1>9, AttemptedGrows DEF AttemptedNow
  <2>3. Following(w, g, key, now')
    BY <1>5, <2>1, <2>2, FollowingSame
  <2> QED
    BY <2>3 DEF w
<1> QED
  BY <1>1, <1>2, <1>3, <1>8, <1>10, <1>11, <1>12, AttemptStep

(* What CountAttempt does, the window being w.                             *)
LEMMA CountedIs ==
  ASSUME NEW key, NEW swept, BF!CountAttempt(key, swept)
  PROVE  LET w == Add(BruteWindow(swept, key), now', "none")
             count == CountOf(w, "none")
         IN  \/ /\ count >= Logins[key[3]]
                /\ bfWindows' = With(swept, key, NewWindow(w.seconds))
                /\ bfCooldown' = BF!CT!Mark(bfCooldown, key, now')
                /\ bfHistory' = Append(bfHistory, [key |-> key, ts |-> now', alerted |-> count])
             \/ /\ ~(count >= Logins[key[3]])
                /\ bfWindows' = With(swept, key, w)
                /\ bfCooldown' = bfCooldown
                /\ bfHistory' = Append(bfHistory, [key |-> key, ts |-> now', alerted |-> 0])
<1> DEFINE u == BruteWindow(swept, key)
           w == Add(u, now', "none")
           count == CountOf(w, "none")
<1>1. BF!SW!Add(BF!SW!WindowOf(swept, key, BF!Seconds(key)), now', "none") = w
  <2>1. BF!SW!WindowOf(swept, key, BF!Seconds(key)) = u
    BY BruteWindows DEF BruteWindow, Length, BF!Seconds
  <2> HIDE DEF u
  <2> QED
    BY <2>1, BruteWindows
<1>2. BF!Judge(key, swept, BF!SW!Add(BF!SW!WindowOf(swept, key, BF!Seconds(key)), now', "none"))
  BY Zenon DEF BF!CountAttempt
<1> HIDE DEF w
<1>3. BF!Judge(key, swept, w)
  BY <1>1, <1>2
<1>4. BF!SW!CountOf(w, "none") = count
  BY BruteWindows
<1>5. BF!SW!Cleared(w) = NewWindow(w.seconds) /\ \A v : BF!SW!With(swept, key, v) = With(swept, key, v)
  BY BruteWindows
<1>6. BF!TooMany(count, key[3]) <=> count >= Logins[key[3]]
  BY DEF BF!TooMany
<1>7. LET c == BF!SW!CountOf(w, "none")
          fired == BF!TooMany(c, key[3])
      IN  /\ bfWindows' = BF!SW!With(swept, key, IF fired THEN BF!SW!Cleared(w) ELSE w)
          /\ bfCooldown' = IF fired THEN BF!CT!Mark(bfCooldown, key, now') ELSE bfCooldown
          /\ bfHistory' = Append(bfHistory, [key |-> key, ts |-> now',
                                             alerted |-> IF fired THEN c ELSE 0])
  BY <1>3, Zenon DEF BF!Judge
<1> HIDE DEF count
<1>8. CASE BF!TooMany(count, key[3])
  BY <1>4, <1>5, <1>6, <1>7, <1>8 DEF w, u, count
<1>9. CASE ~BF!TooMany(count, key[3])
  BY <1>4, <1>5, <1>6, <1>7, <1>9 DEF w, u, count
<1> QED
  BY <1>8, <1>9

LEMMA CountedStep ==
  ASSUME BruteInv, Clocked', now <= now', NEW p, BF!CountedAttempt(p)
  PROVE  BruteInv'
<1> DEFINE key == BF!Key(p)
           swept == BF!Swept(now')
           u == BruteWindow(swept, key)
           w == Add(u, now', "none")
           count == CountOf(w, "none")
           fired == count >= Logins[key[3]]
           e == [key |-> key, ts |-> now', alerted |-> IF fired THEN count ELSE 0]
           h == bfHistory
           g == bfHistory'
           J == Attempted(h, key)
<1>1. /\ BF!IsAttempt(p) /\ ~BF!CT!IsCooling(bfCooldown, key, now')
      /\ BF!CountAttempt(key, swept)
  BY Zenon DEF BF!CountedAttempt
<1>2. /\ g = Append(h, e)
      /\ bfWindows' = With(swept, key, IF fired THEN NewWindow(w.seconds) ELSE w)
      /\ bfCooldown' = IF fired THEN BF!CT!Mark(bfCooldown, key, now') ELSE bfCooldown
  <2> HIDE DEF key, swept
  <2>1. \/ /\ fired
           /\ bfWindows' = With(swept, key, NewWindow(w.seconds))
           /\ bfCooldown' = BF!CT!Mark(bfCooldown, key, now')
           /\ g = Append(h, [key |-> key, ts |-> now', alerted |-> count])
        \/ /\ ~fired
           /\ bfWindows' = With(swept, key, w)
           /\ bfCooldown' = bfCooldown
           /\ g = Append(h, [key |-> key, ts |-> now', alerted |-> 0])
    BY <1>1, CountedIs
  <2> HIDE DEF fired, w, count
  <2> QED
    BY <2>1
<1>3. e.ts = now' /\ e.key = key /\ e.alerted = IF fired THEN count ELSE 0
  <2> HIDE DEF fired, count, key
  <2> QED
    OBVIOUS
<1> HIDE DEF e
<1>4. Service(key)
  BY <1>1, KeyOfAttempt
<1>5. /\ now \in Int /\ now' \in Int /\ Length(key) \in Nat /\ Length(key) \in Int
      /\ Logins[key[3]] \in Nat \ {0} /\ LoginCooldown \in Nat \ {0}
  BY <1>4, BruteParams DEF BruteInv, Clocked
<1>6. Extends(h, g) /\ g[Len(g)] = e /\ Chronicle(h, now')
  BY <1>2, <1>3, <1>5, ChronicleExtends, ChronicleLater DEF BruteInv
<1>7. \A k : Service(k) => Following(BruteWindow(swept, k), h, k, now')
  BY <1>5, SweptFollowing
<1>8. Silences(bfCooldown, h, now')
  BY <1>5, SilencesLater DEF BruteInv
<1> HIDE DEF key, swept
<1>9. Following(u, h, key, now')
  BY <1>4, <1>7
<1> HIDE DEF u
<1>10. Grown(u, w, Length(key), {"none"}, now', "none")
  BY <1>5, <1>9, AddGood DEF Following
<1> HIDE DEF w
<1>11. TracksExactly(w, Length(key), {"none"}, "none", g, J \cup {Len(g)}, now')
  <2>1. J \in SUBSET (1 .. Len(h)) /\ "none" \in {"none"}
    BY AttemptedIsSome
  <2>2. Tracks(u, Length(key), {"none"}, "none", h, J, now')
    BY <1>9 DEF Following
  <2>3. /\ Len(g) = Len(h) + 1 /\ \A j \in 1 .. Len(h) : g[j] = h[j]
        /\ g[Len(g)].ts = now'
    BY <1>3, <1>6 DEF Extends
  <2> HIDE DEF J, h, g
  <2> QED
    BY <1>5, <1>6, <1>10, <2>1, <2>2, <2>3, TracksGrown
<1>12. ~Muted(g, Len(g))
  <2>1. ~Silencing(h, key, now')
    BY <1>1, <1>5, <1>8, BruteCooldown DEF Silences
  <2> HIDE DEF g, h
  <2> QED
    BY <1>3, <1>6, <2>1, MutedStays
<1>13. Tried(g, Len(g)) = count /\ count \in Nat
  <2>1. Tried(g, Len(g)) = Counting(g, J \cup {Len(g)}, now' - Length(key))
    <3>1. g[Len(g)].key = key /\ g[Len(g)].ts = now'
      BY <1>3, <1>6
    <3> HIDE DEF g, h
    <3> QED
      BY <1>4, <1>5, <1>6, <1>12, <3>1, TriedIsCount
  <2>2. Chronicle(g, now')
    BY <1>2, <1>3, <1>5, ChronicleExtends DEF BruteInv
  <2>3. J \cup {Len(g)} \in SUBSET (1 .. Len(g))
    <3>1. J \subseteq 1 .. Len(h)
      BY AttemptedIsSome
    <3> HIDE DEF J, h, g
    <3>2. 1 .. Len(h) \subseteq 1 .. Len(g) /\ Len(g) \in 1 .. Len(g)
      BY <1>6 DEF Extends
    <3> QED
      BY <3>1, <3>2
  <2>4. count = Counting(g, J \cup {Len(g)}, now' - Length(key))
    BY <1>11 DEF TracksExactly
  <2> HIDE DEF J, h, g, count
  <2> QED
    BY <2>1, <2>2, <2>3, <2>4, CountingType
<1> HIDE DEF count
<1>14. LoginRight(g, Len(g))
  <2>1. g[Len(g)].alerted = IF fired THEN count ELSE 0
    BY <1>3, <1>6
  <2>2. g[Len(g)].key = key
    BY <1>3, <1>6
  <2> HIDE DEF g, h
  <2> QED
    BY <1>12, <1>13, <2>1, <2>2 DEF LoginRight
<1>15. Reported(g, key, Len(g)) <=> fired
  BY <1>3, <1>5, <1>6, <1>13 DEF Reported
<1>16. \A k : k # key => ~Reported(g, k, Len(g))
  BY <1>3, <1>6 DEF Reported
<1> HIDE DEF fired
<1>17. Silences(bfCooldown', g, now')
  <2>0. \A k : \A t : Silencing(g, k, t) <=>
                 \/ Silencing(h, k, t)
                 \/ k = key /\ fired /\ t - now' < LoginCooldown
    <3>1. g[Len(g)].ts = now'
      BY <1>3, <1>6
    <3> HIDE DEF g, h
    <3> QED
      BY <1>6, <1>15, <1>16, <3>1, SilencingGrows
  <2> HIDE DEF g, h
  <2>1. CASE fired
    <3>1. Timely(bfCooldown, now')
      BY <1>8 DEF Silences
    <3>2. bfCooldown' = BF!CT!Mark(bfCooldown, key, now')
      BY <1>2, <2>1
    <3>3. MarkedIn(bfCooldown, bfCooldown', key, now', LoginCooldown)
      BY <1>5, <3>1, <3>2, BruteCooldown
    <3> QED
      BY <1>8, <2>0, <2>1, <3>3 DEF Silences, MarkedIn
  <2>2. CASE ~fired
    BY <1>2, <1>8, <2>0, <2>2 DEF Silences
  <2> QED
    BY <2>1, <2>2
<1>18. \A k : k # key => BruteWindow(bfWindows', k) = BruteWindow(swept, k)
  BY <1>2, WithWindow DEF BruteWindow
<1>19. BruteWindow(bfWindows', key) = IF fired THEN NewWindow(Length(key)) ELSE w
  <2>1. w.seconds = Length(key)
    BY <1>10 DEF Grown, Good
  <2> QED
    BY <1>2, <2>1, WithWindow DEF BruteWindow
<1>20. Following(BruteWindow(bfWindows', key), g, key, now')
  <2>1. CASE fired
    <3>1. Attempted(g, key) = {}
      <4> HIDE DEF g, h
      <4> QED
        BY <1>6, <1>15, <2>1, AttemptedGrows DEF AttemptedNow
    <3> HIDE DEF g, h
    <3> QED
      BY <1>19, <2>1, <3>1, NewWindowGood, TracksNew DEF Following
  <2>2. CASE ~fired
    <3>1. Attempted(g, key) = J \cup {Len(g)}
      <4>1. g[Len(g)].key = key
        BY <1>3, <1>6
      <4> HIDE DEF g, h
      <4> QED
        BY <1>6, <1>12, <1>15, <2>2, <4>1, AttemptedGrows DEF AttemptedNow
    <3> HIDE DEF g, h, J
    <3> QED
      BY <1>10, <1>11, <1>19, <2>2, <3>1 DEF Following, Grown, TracksExactly
  <2> QED
    BY <2>1, <2>2
<1>21. /\ \A k : Service(k) /\ k # e.key => Following(BruteWindow(bfWindows', k), h, k, now')
       /\ Following(BruteWindow(bfWindows', e.key), g, e.key, now')
  BY <1>3, <1>7, <1>18, <1>20
<1> QED
  BY <1>2, <1>3, <1>4, <1>14, <1>17, <1>21, AttemptStep

LEMMA BruteInit == Init => BruteInv
<1> SUFFICES ASSUME Init PROVE BruteInv
  OBVIOUS
<1>1. /\ bfHistory = <<>> /\ bfWindows = [k \in {} |-> <<>>] /\ now = Epoch /\ traffic \in Kinds
      /\ bfCooldown = [last |-> [k \in {} |-> 0], lastPrune |-> 0]
  BY DEF Init, BF!Init, BF!CT!NewTracker
<1>2. Len(<<>>) = 0 /\ <<>> \in Seq({}) /\ 1 .. 0 = {}
  BY EmptySeq
<1>3. Clocked
  BY <1>1, DetectorsAssumption DEF Clocked, AR!ArpSpoofAssumption
<1>4. Chronicle(bfHistory, now)
  BY <1>1, <1>2 DEF Chronicle
<1>5. Silences(bfCooldown, bfHistory, now)
  <2>1. DOMAIN bfCooldown.last = {}
    BY <1>1
  <2>2. \A k, t : ~Silencing(bfHistory, k, t)
    BY <1>1, <1>2 DEF Silencing
  <2> QED
    BY <2>1, <2>2 DEF Silences, Cooling, Timely
<1>6. \A key : BruteWindow(bfWindows, key) = NewWindow(Length(key))
  BY <1>1 DEF BruteWindow, WindowOf
<1>7. \A key : Attempted(bfHistory, key) = {}
  BY <1>1, <1>2 DEF Attempted
<1>8. \A key : Following(BruteWindow(bfWindows, key), bfHistory, key, now)
  BY <1>6, <1>7, NewWindowGood, TracksNew DEF Following
<1> QED
  BY <1>1, <1>2, <1>3, <1>4, <1>5, <1>8 DEF BruteInv

LEMMA BruteNext == BruteInv /\ [Next]_vars => BruteInv'
<1> SUFFICES ASSUME BruteInv, [Next]_vars PROVE BruteInv'
  OBVIOUS
<1>1. CASE UNCHANGED vars
  BY <1>1 DEF vars, bfVars, BruteInv, Clocked
<1>2. ASSUME NEW p, NEW gap \in Mixes[traffic].gaps, Deliver(p, gap) PROVE BruteInv'
  <2>1. Clocked' /\ now <= now' /\ BF!Process(p) /\ now' \in Int /\ now \in Int
    BY <1>2, ClockSteps DEF Deliver, BruteInv, Clocked
  <2>2. CASE BF!Ignored(p) \/ BF!OtherPacket(p)
    <3>1. \A key : Service(key) => Following(BruteWindow(bfWindows', key), bfHistory, key, now')
      BY <2>1, <2>2, SweptFollowing DEF BF!Ignored, BF!OtherPacket
    <3>2. bfHistory' = bfHistory /\ bfCooldown' = bfCooldown
      BY <2>2 DEF BF!Ignored, BF!OtherPacket
    <3>3. Chronicle(bfHistory, now') /\ Silences(bfCooldown, bfHistory, now')
      BY <2>1, ChronicleLater, SilencesLater DEF BruteInv
    <3> QED
      BY <2>1, <3>1, <3>2, <3>3 DEF BruteInv
  <2>3. CASE BF!SilencedAttempt(p)
    BY <2>1, <2>3, SilencedStep
  <2>4. CASE BF!CountedAttempt(p)
    BY <2>1, <2>4, CountedStep
  <2> QED
    BY <2>1, <2>2, <2>3, <2>4 DEF BF!Process
<1> QED
  BY <1>1, <1>2 DEF Next

(* A login attempt is reported exactly if, with it, the threshold of its   *)
(* service is reached by attempts that count, and with their number        *)
(* (brute_force.py, _record()).                                            *)
THEOREM EveryBruteForceReported == Spec => []LoginsExact
<1>1. BruteInv => LoginsExact
  BY LoginsByTried DEF BruteInv
<1> QED
  BY <1>1, BruteInit, BruteNext, PTL DEF Spec

(* A burst none of whose attempts the key was reported for, or silenced    *)
(* at, has been counted in full, and is reported now.                      *)
LEMMA BurstByRight ==
  ASSUME NEW h, NEW n, Chronicle(h, n), \A j \in 1 .. Len(h) : LoginRight(h, j),
         NEW i \in 1 .. Len(h), Service(h[i].key),
         NEW B, B = {j \in 1 .. i : h[j].key = h[i].key /\ h[j].ts >= h[i].ts - Length(h[i].key)},
         Cardinality(B) >= Logins[h[i].key[3]]
  PROVE  \E j \in 1 .. i : Reported(h, h[i].key, j)
                           /\ h[j].ts > h[i].ts - Length(h[i].key) - LoginCooldown
<1> DEFINE key == h[i].key
           start == h[i].ts - Length(key)
<1> SUFFICES ASSUME \A j \in 1 .. i : Reported(h, key, j) => ~(h[j].ts > start - LoginCooldown)
             PROVE  FALSE
  OBVIOUS
<1>1. /\ Len(h) \in Nat /\ \A j \in 1 .. Len(h) : h[j].ts \in Int
      /\ \A j, k \in 1 .. Len(h) : j <= k => h[j].ts <= h[k].ts
  BY ChronicleFacts DEF Chronicle
<1>2. /\ LoginCooldown \in Nat \ {0} /\ Length(key) \in Nat /\ Logins[key[3]] \in Nat \ {0}
  BY BruteParams
<1>3. i \in 1 .. i /\ \A j \in 1 .. i : j \in 1 .. Len(h) /\ 1 .. j - 1 \subseteq 1 .. i
                                        /\ j .. i - 1 \subseteq 1 .. i
  BY <1>1
<1>4. ASSUME NEW j \in B PROVE ~Muted(h, j)
  <2>1. j \in 1 .. i /\ h[j].key = key /\ h[j].ts >= start
    OBVIOUS
  <2>2. ASSUME NEW k \in 1 .. j - 1, Reported(h, key, k) PROVE ~(h[j].ts - h[k].ts < LoginCooldown)
    <3>1. k \in 1 .. i /\ h[k].ts \in Int /\ h[j].ts \in Int /\ start \in Int
      BY <1>1, <1>2, <1>3, <2>1, <2>2
    <3>2. ~(h[k].ts > start - LoginCooldown)
      BY <2>2, <3>1
    <3> HIDE DEF start
    <3> QED
      BY <1>2, <2>1, <3>1, <3>2
  <2> QED
    BY <2>1, <2>2 DEF Muted
<1>5. ASSUME NEW j \in B, NEW m \in j .. i - 1 PROVE ~Reported(h, key, m)
  <2>1. j \in 1 .. i /\ h[j].ts >= start
    OBVIOUS
  <2>2. m \in 1 .. i /\ j <= m
    BY <1>3, <2>1
  <2>3. h[m].ts \in Int /\ h[j].ts \in Int /\ start \in Int /\ h[j].ts <= h[m].ts
    BY <1>1, <1>2, <1>3, <2>1, <2>2
  <2>4. h[m].ts > start - LoginCooldown
    <3> HIDE DEF start
    <3> QED
      BY <1>2, <2>1, <2>3
  <2> QED
    BY <2>2, <2>4
<1>6. Tried(h, i) = Cardinality(B)
  <2>1. \A j \in 1 .. i : (h[j].key = key /\ h[j].ts >= start)
          => /\ ~Muted(h, j) /\ \A m \in j .. i - 1 : ~Reported(h, key, m)
    BY <1>4, <1>5
  <2>2. B = {j \in 1 .. i : /\ h[j].key = key /\ ~Muted(h, j) /\ h[j].ts >= start
                            /\ \A m \in j .. i - 1 : ~Reported(h, key, m)}
    BY <2>1
  <2> QED
    BY <2>2 DEF Tried
<1>7. i \in B
  <2>1. h[i].ts >= start
    BY <1>1, <1>2
  <2> QED
    BY <1>3, <2>1
<1>8. h[i].alerted > 0
  <2>1. h[i].alerted = Cardinality(B)
    BY <1>4, <1>6, <1>7 DEF LoginRight
  <2>2. IsFiniteSet(B)
    <3>1. B \in SUBSET (1 .. i) /\ i \in Int
      BY <1>1
    <3> QED
      BY <3>1, FS_Interval, FS_Subset
  <2>3. Cardinality(B) \in Nat
    BY <2>2, FS_CardinalityType
  <2> QED
    BY <1>2, <2>1, <2>3
<1>9. Reported(h, key, i) /\ h[i].ts > start - LoginCooldown
  <2>1. h[i].ts > start - LoginCooldown
    BY <1>1, <1>2
  <2> QED
    BY <1>8, <2>1 DEF Reported
<1> QED
  BY <1>3, <1>9

LEMMA LoginBursts == BruteInv => BF!BurstReported
<1> SUFFICES ASSUME BruteInv PROVE BF!BurstReported
  OBVIOUS
<1> DEFINE h == bfHistory
           Burst(i) == {j \in 1 .. i : h[j].key = h[i].key /\ h[j].ts >= h[i].ts - Length(h[i].key)}
<1>1. \A S : BF!Cardinality(S) = Cardinality(S)
  BY Zenon DEF BF!Cardinality, Cardinality
<1>2. ASSUME NEW i \in 1 .. Len(h), Cardinality(Burst(i)) >= Logins[h[i].key[3]]
      PROVE  \E j \in 1 .. i : Reported(h, h[i].key, j)
                              /\ h[j].ts > h[i].ts - Length(h[i].key) - LoginCooldown
  <2> DEFINE B == Burst(i)
  <2>1. B = {j \in 1 .. i : h[j].key = h[i].key /\ h[j].ts >= h[i].ts - Length(h[i].key)}
    OBVIOUS
  <2>2. /\ Chronicle(h, now) /\ \A j \in 1 .. Len(h) : LoginRight(h, j)
        /\ Service(h[i].key)
    BY DEF BruteInv
  <2>3. Cardinality(B) >= Logins[h[i].key[3]]
    BY <1>2
  <2> HIDE DEF h, B
  <2> QED
    BY <2>1, <2>2, <2>3, BurstByRight
<1>3. \A i, j : BF!SameKey(i, j) <=> h[j].key = h[i].key
  BY DEF BF!SameKey
<1>4. ASSUME NEW i \in 1 .. Len(h)
      PROVE  LET length == LoginWindows[h[i].key[3]]
                 burst  == {j \in 1 .. i : BF!SameKey(i, j) /\ h[j].ts >= h[i].ts - length}
             IN  BF!Cardinality(burst) >= Logins[h[i].key[3]] =>
                   \E j \in 1 .. i : /\ BF!SameKey(i, j) /\ h[j].alerted > 0
                                     /\ h[j].ts > h[i].ts - length - LoginCooldown
  <2>1. Burst(i) = {j \in 1 .. i : BF!SameKey(i, j) /\ h[j].ts >= h[i].ts - LoginWindows[h[i].key[3]]}
    BY <1>3 DEF Length
  <2> HIDE DEF Burst, h
  <2> QED
    BY <1>1, <1>2, <1>3, <2>1 DEF Length, Reported
<1> HIDE DEF Burst
<1> QED
  BY <1>4 DEF BF!BurstReported
-----------------------------------------------------------------------------
(* DnsAnomalyDetector: one window per source, of the names it asked for,   *)
(* and a cooldown per source and name.                                     *)
LEMMA QueryWindows ==
  /\ \A s : DN!SW!NewWindow(s) = NewWindow(s)
  /\ \A w, k : DN!SW!CountOf(w, k) = CountOf(w, k)
  /\ \A w, n, k : DN!SW!Add(w, n, k) = Add(w, n, k)
  /\ \A ws, k, s : DN!SW!WindowOf(ws, k, s) = WindowOf(ws, k, s)
  /\ \A ws, k, w : DN!SW!With(ws, k, w) = With(ws, k, w)
  /\ \A ws, n : DN!SW!PruneIdle(ws, n) = PruneIdle(ws, n)
  /\ \A w : DN!SW!Cleared(w) = NewWindow(w.seconds)
<1>1. \A s : DN!SW!NewWindow(s) = NewWindow(s)
  BY Zenon DEF DN!SW!NewWindow, NewWindow
<1>2. \A w, k : DN!SW!CountOf(w, k) = CountOf(w, k)
  BY DEF DN!SW!CountOf, CountOf
<1>3. \A log, n : DN!SW!Stale(log, n) = Stale(log, n)
  BY Zenon DEF DN!SW!Stale, Stale, DN!SW!Expired, Expired, DN!SW!Cardinality, Cardinality
<1>4. \A log, k : DN!SW!Occurrences(log, k) = Occurrences(log, k)
  BY Zenon DEF DN!SW!Occurrences, Occurrences, DN!SW!Cardinality, Cardinality
<1>5. \A w, n : DN!SW!Popped(w, n) = Popped(w, n)
  <2> SUFFICES ASSUME NEW w, NEW n PROVE DN!SW!Popped(w, n) = Popped(w, n)
    OBVIOUS
  <2> DEFINE front == SubSeq(w.log, 1, n)
             L1 == [k \in DOMAIN w.counts |-> w.counts[k] - DN!SW!Occurrences(front, k)]
             L2 == [k \in DOMAIN w.counts |-> w.counts[k] - Occurrences(front, k)]
  <2>1. L1 = L2
    BY <1>4
  <2>2. DN!SW!Popped(w, n)
          = [seconds |-> w.seconds, log |-> SubSeq(w.log, n + 1, Len(w.log)),
             counts |-> [k \in {j \in DOMAIN L1 : L1[j] > 0} |-> L1[k]]]
    BY Zenon DEF DN!SW!Popped, DN!SW!StillCounted
  <2>3. Popped(w, n)
          = [seconds |-> w.seconds, log |-> SubSeq(w.log, n + 1, Len(w.log)),
             counts |-> [k \in {j \in DOMAIN L2 : L2[j] > 0} |-> L2[k]]]
    BY Zenon DEF Popped, StillCounted
  <2> HIDE DEF L1, L2
  <2> QED
    BY <2>1, <2>2, <2>3
<1>6. \A w, n : DN!SW!Prune(w, n) = Prune(w, n)
  BY <1>3, <1>5 DEF DN!SW!Prune, Prune
<1>7. \A w, n, k : DN!SW!Add(w, n, k) = Add(w, n, k)
  <2>1. \A w, k : DN!SW!Counted(w, k) = Counted(w, k)
    BY <1>2 DEF DN!SW!Counted, Counted
  <2>2. \A w, n, k : DN!SW!Pushed(w, n, k) = Pushed(w, n, k)
    BY <2>1 DEF DN!SW!Pushed, Pushed
  <2> QED
    BY <1>6, <2>2 DEF DN!SW!Add, Add
<1>8. \A ws, k, s : DN!SW!WindowOf(ws, k, s) = WindowOf(ws, k, s)
  BY <1>1 DEF DN!SW!WindowOf, WindowOf
<1>9. \A ws, k, w : DN!SW!With(ws, k, w) = With(ws, k, w)
  BY Zenon DEF DN!SW!With, With
<1>10. \A ws, n : DN!SW!PruneIdle(ws, n) = PruneIdle(ws, n)
  BY <1>6 DEF DN!SW!PruneIdle, PruneIdle, DN!SW!NonEmpty, NonEmpty, DN!SW!IsEmpty, IsEmpty
<1>11. \A w : DN!SW!Cleared(w) = NewWindow(w.seconds)
  BY <1>1 DEF DN!SW!Cleared
<1> QED
  BY <1>1, <1>2, <1>7, <1>8, <1>9, <1>10, <1>11

LEMMA DnsParams ==
  /\ QueryCooldown \in Nat \ {0} /\ QueryCooldown \in Int
  /\ QueryWindow \in Nat /\ QueryWindow \in Int /\ Queries \in Nat \ {0}
BY DetectorsAssumption DEF DN!DnsAnomalyAssumption

LEMMA DnsCooldown ==
  /\ \A c, k, t : DN!CT!IsCooling(c, k, t) <=> Cooling(c, k, t, QueryCooldown)
  /\ \A c, key, n : n \in Int /\ Timely(c, n) =>
       MarkedIn(c, DN!CT!Mark(c, key, n), key, n, QueryCooldown)
<1>1. \A c, k, t : DN!CT!IsCooling(c, k, t) <=> Cooling(c, k, t, QueryCooldown)
  BY DEF DN!CT!IsCooling, Cooling
<1>2. ASSUME NEW c, NEW key, NEW n \in Int, Timely(c, n)
      PROVE  MarkedIn(c, DN!CT!Mark(c, key, n), key, n, QueryCooldown)
  <2> DEFINE marked == DN!CT!Stamped(c.last, key, n)
             pruned == DN!CT!Prune(marked, n)
             d == DN!CT!Mark(c, key, n)
  <2>1. marked = Noted(c.last, key, n)
    BY DEF DN!CT!Stamped, Noted
  <2>2. pruned = NotBefore(marked, n - QueryCooldown)
    <3> HIDE DEF marked
    <3> QED
      BY DEF DN!CT!Prune, DN!CT!Cutoff, NotBefore
  <2>3. d.last = marked \/ d.last = pruned
    <3> HIDE DEF marked, pruned
    <3>1. d = [last |-> pruned, lastPrune |-> n] \/ d = [last |-> marked, lastPrune |-> c.lastPrune]
      BY DEF DN!CT!Mark, marked, pruned
    <3> HIDE DEF d
    <3> QED
      BY <3>1
  <2> HIDE DEF marked, pruned, d
  <2>4. MarkedIn(c, d, key, n, QueryCooldown)
    BY <1>2, <2>1, <2>2, <2>3, DnsParams, MarkSilences
  <2> QED
    BY <2>4 DEF d
<1> QED
  BY <1>1, <1>2

(* The names that are counted.                                             *)
PlainNames == DN!Names \ (Long \cup Encoded)

Pair(e) == <<e.src, e.name>>

Warned(h, pair, j) == Pair(h[j]) = pair /\ h[j].reason # "none"

Hushing(h, pair, t) ==
  \E j \in 1 .. Len(h) : Warned(h, pair, j) /\ t - h[j].ts < QueryCooldown

(* The queries made while their source and name are silenced.              *)
Hushed(h, i) ==
  \E j \in 1 .. i - 1 : Warned(h, Pair(h[i]), j) /\ h[i].ts - h[j].ts < QueryCooldown

(* _cooldown silences the pairs reported less than a cooldown ago.         *)
Hushes(c, h, n) ==
  /\ Timely(c, n)
  /\ \A pair : \A t \in Int : t >= n => (Cooling(c, pair, t, QueryCooldown) <=> Hushing(h, pair, t))

(* The queries of a pair that count.                                       *)
Queried(h, pair) == {j \in 1 .. Len(h) : Pair(h[j]) = pair /\ ~Hushed(h, j)}

TimesAsked(h, i) ==
  Cardinality({j \in 1 .. i : /\ Pair(h[j]) = Pair(h[i]) /\ ~Hushed(h, j)
                              /\ h[j].ts >= h[i].ts - QueryWindow})

QueryRight(h, i) ==
  LET q == h[i]
      flood == q.name \notin Long \cup Encoded /\ TimesAsked(h, i) >= Queries
  IN  /\ q.reason = "LONG_SUBDOMAIN" <=> ~Hushed(h, i) /\ q.name \in Long
      /\ q.reason = "HIGH_ENTROPY" <=> ~Hushed(h, i) /\ q.name \in Encoded \ Long
      /\ q.reason = "QUERY_FLOOD" <=> ~Hushed(h, i) /\ flood
      /\ q.reason = "QUERY_FLOOD" => q.value = TimesAsked(h, i)

LEMMA QueriesByTimesAsked ==
  QueriesExact <=> \A i \in 1 .. Len(dnHistory) : QueryRight(dnHistory, i)
<1>1. \A S : DN!Cardinality(S) = Cardinality(S)
  BY Zenon DEF DN!Cardinality, Cardinality
<1>2. \A i, j : DN!SamePair(i, j) <=> Pair(dnHistory[j]) = Pair(dnHistory[i])
  BY DEF DN!SamePair, Pair
<1>3. \A i : DN!Silenced(i) <=> Hushed(dnHistory, i)
  BY <1>2 DEF DN!Silenced, Hushed, Warned
<1>4. \A i : DN!Asked(i) = TimesAsked(dnHistory, i)
  <2>1. \A i : Cardinality({j \in 1 .. i : /\ DN!SamePair(i, j) /\ ~DN!Silenced(j)
                                           /\ dnHistory[j].ts >= dnHistory[i].ts - QueryWindow})
                 = TimesAsked(dnHistory, i)
    BY <1>2, <1>3 DEF TimesAsked
  <2> QED
    BY <1>1, <2>1 DEF DN!Asked
<1>5. ASSUME NEW i
      PROVE  (LET q == dnHistory[i]
                  flood == q.name \notin Long \cup Encoded /\ DN!Asked(i) >= Queries
              IN  /\ q.reason = "LONG_SUBDOMAIN" <=> ~DN!Silenced(i) /\ q.name \in Long
                  /\ q.reason = "HIGH_ENTROPY" <=> ~DN!Silenced(i) /\ q.name \in Encoded \ Long
                  /\ q.reason = "QUERY_FLOOD" <=> ~DN!Silenced(i) /\ flood
                  /\ q.reason = "QUERY_FLOOD" => q.value = DN!Asked(i))
             <=> QueryRight(dnHistory, i)
  BY <1>3, <1>4 DEF QueryRight
<1> QED
  BY <1>5, Zenon DEF QueriesExact, DN!AlertsExact

LEMMA HushesLater ==
  ASSUME NEW c, NEW h, NEW n \in Int, NEW m \in Int, n <= m, Hushes(c, h, n)
  PROVE  Hushes(c, h, m)
<1>1. Timely(c, m)
  BY TimelyLater DEF Hushes
<1>2. \A t \in Int : t >= m => t >= n
  OBVIOUS
<1> QED
  BY <1>1, <1>2 DEF Hushes

LEMMA HushingGrows ==
  ASSUME NEW h, NEW g, Extends(h, g), NEW pair, NEW t
  PROVE  Hushing(g, pair, t) <=>
           \/ Hushing(h, pair, t)
           \/ Warned(g, pair, Len(g)) /\ t - g[Len(g)].ts < QueryCooldown
<1>1. \A j : j \in 1 .. Len(g) <=> j \in 1 .. Len(h) \/ j = Len(g)
  BY DEF Extends
<1>2. \A j \in 1 .. Len(h) : g[j] = h[j]
  BY DEF Extends
<1> QED
  BY <1>1, <1>2 DEF Hushing, Warned

LEMMA HushedStays ==
  ASSUME NEW h, NEW g, Extends(h, g)
  PROVE  /\ \A i \in 1 .. Len(h) : Hushed(g, i) <=> Hushed(h, i)
         /\ Hushed(g, Len(g)) <=> Hushing(h, Pair(g[Len(g)]), g[Len(g)].ts)
<1>1. ASSUME NEW i \in 1 .. Len(h) PROVE Hushed(g, i) <=> Hushed(h, i)
  <2>1. \A j \in 1 .. i - 1 : g[j] = h[j]
    BY DEF Extends
  <2>2. g[i] = h[i]
    BY DEF Extends
  <2> QED
    BY <2>1, <2>2 DEF Hushed, Warned
<1>2. Len(g) - 1 = Len(h) /\ \A j \in 1 .. Len(h) : g[j] = h[j]
  BY DEF Extends
<1>3. Hushed(g, Len(g)) <=> Hushing(h, Pair(g[Len(g)]), g[Len(g)].ts)
  BY <1>2 DEF Hushed, Hushing, Warned
<1> QED
  BY <1>1, <1>3

(* What was right stays right.                                             *)
LEMMA QueryRightStays ==
  ASSUME NEW h, NEW g, Extends(h, g), NEW i \in 1 .. Len(h), QueryRight(h, i)
  PROVE  QueryRight(g, i)
<1>1. 1 .. i \subseteq 1 .. Len(h)
  BY DEF Extends
<1>2. g[i] = h[i] /\ \A j \in 1 .. Len(h) : g[j] = h[j]
  BY DEF Extends
<1>3. \A j \in 1 .. i : g[j] = h[j] /\ (Hushed(g, j) <=> Hushed(h, j))
  BY <1>1, <1>2, HushedStays
<1>4. TimesAsked(g, i) = TimesAsked(h, i)
  BY <1>2, <1>3 DEF TimesAsked
<1>5. Hushed(g, i) <=> Hushed(h, i)
  BY HushedStays
<1> QED
  BY <1>2, <1>4, <1>5 DEF QueryRight

(* A query that counts adds itself to its pair; any other changes nothing. *)
QueriedNow(h, g, pair) ==
  IF Pair(g[Len(g)]) = pair /\ ~Hushed(g, Len(g))
  THEN Queried(g, pair) = Queried(h, pair) \cup {Len(g)}
  ELSE Queried(g, pair) = Queried(h, pair)

LEMMA QueriedGrows ==
  ASSUME NEW h, NEW g, Extends(h, g), NEW pair
  PROVE  QueriedNow(h, g, pair)
<1>1. /\ \A j : j \in 1 .. Len(g) <=> j \in 1 .. Len(h) \/ j = Len(g)
      /\ \A j \in 1 .. Len(h) : g[j] = h[j]
  BY DEF Extends
<1>2. \A j \in 1 .. Len(h) : Hushed(g, j) <=> Hushed(h, j)
  BY HushedStays
<1>3. \A j : j \in Queried(g, pair) <=>
               j \in Queried(h, pair) \/ (j = Len(g) /\ Pair(g[Len(g)]) = pair /\ ~Hushed(g, Len(g)))
  BY <1>1, <1>2 DEF Queried
<1>4. CASE Pair(g[Len(g)]) = pair /\ ~Hushed(g, Len(g))
  <2>1. Queried(g, pair) = Queried(h, pair) \cup {Len(g)}
    BY <1>3, <1>4
  <2> QED
    BY <1>4, <2>1 DEF QueriedNow
<1>5. CASE ~(Pair(g[Len(g)]) = pair /\ ~Hushed(g, Len(g)))
  <2>1. Queried(g, pair) = Queried(h, pair)
    BY <1>3, <1>5
  <2> QED
    BY <1>5, <2>1 DEF QueriedNow
<1> QED
  BY <1>4, <1>5

LEMMA TimesAskedIsCount ==
  ASSUME NEW h, NEW g, Extends(h, g), NEW pair, Pair(g[Len(g)]) = pair,
         ~Hushed(g, Len(g))
  PROVE  TimesAsked(g, Len(g)) = Counting(g, Queried(h, pair) \cup {Len(g)},
                                          g[Len(g)].ts - QueryWindow)
<1>1. Queried(g, pair) = Queried(h, pair) \cup {Len(g)}
  BY QueriedGrows DEF QueriedNow
<1>2. {j \in 1 .. Len(g) : /\ Pair(g[j]) = pair /\ ~Hushed(g, j)
                           /\ g[j].ts >= g[Len(g)].ts - QueryWindow}
        = {j \in Queried(g, pair) : g[j].ts >= g[Len(g)].ts - QueryWindow}
  BY DEF Queried
<1> QED
  BY <1>1, <1>2 DEF TimesAsked, Counting

(* The window of a source at time n holds, of every plain name, the        *)
(* queries that count, but for some that have expired.                     *)
Watching(w, h, src, n) ==
  /\ Good(w, QueryWindow, PlainNames, n)
  /\ \A name \in PlainNames :
       Tracks(w, QueryWindow, PlainNames, name, h, Queried(h, <<src, name>>), n)

QueryInv ==
  /\ Clocked
  /\ Chronicle(dnHistory, now)
  /\ Hushes(dnCooldown, dnHistory, now)
  /\ \A src : Watching(WindowOf(dnWindows, src, QueryWindow), dnHistory, src, now)
  /\ \A i \in 1 .. Len(dnHistory) : QueryRight(dnHistory, i)

LEMMA QueriedIsSome == \A h, pair : Queried(h, pair) \in SUBSET (1 .. Len(h))
BY DEF Queried

LEMMA WatchingKept ==
  ASSUME NEW src, NEW w, NEW v, NEW h, NEW n \in Int, NEW l \in Int, n <= l,
         Watching(w, h, src, n),
         Good(w, QueryWindow, PlainNames, l) => Kept(w, v, QueryWindow, PlainNames, l)
  PROVE  Watching(v, h, src, l)
<1>1. QueryWindow \in Int
  BY DnsParams
<1>2. Good(w, QueryWindow, PlainNames, l)
  BY GoodLater DEF Watching
<1>3. Kept(w, v, QueryWindow, PlainNames, l)
  BY <1>2
<1>4. ASSUME NEW name \in PlainNames
      PROVE  Tracks(v, QueryWindow, PlainNames, name, h, Queried(h, <<src, name>>), l)
  <2> DEFINE J == Queried(h, <<src, name>>)
  <2>1. Tracks(w, QueryWindow, PlainNames, name, h, J, n)
    BY DEF Watching
  <2> HIDE DEF J
  <2>2. Tracks(v, QueryWindow, PlainNames, name, h, J, l)
    BY <1>1, <1>3, <2>1, TracksKept
  <2> QED
    BY <2>2 DEF J
<1> QED
  BY <1>3, <1>4 DEF Watching, Kept

LEMMA SweptWatching ==
  ASSUME QueryInv, now' \in Int, now <= now', NEW src
  PROVE  /\ Watching(WindowOf(dnWindows, src, QueryWindow), dnHistory, src, now')
         /\ Watching(WindowOf(DN!Swept(now'), src, QueryWindow), dnHistory, src, now')
<1> DEFINE w == WindowOf(dnWindows, src, QueryWindow)
           v == WindowOf(PruneIdle(dnWindows, now'), src, QueryWindow)
<1>1. Watching(w, dnHistory, src, now) /\ now \in Int
  BY DEF QueryInv, Clocked
<1>2. Watching(w, dnHistory, src, now')
  <2> HIDE DEF w
  <2> QED
    BY <1>1, KeptSelf, WatchingKept
<1>3. Watching(v, dnHistory, src, now')
  <2>1. Good(w, QueryWindow, PlainNames, now') => Kept(w, v, QueryWindow, PlainNames, now')
    BY DnsParams, SweepGood
  <2> HIDE DEF w, v
  <2> QED
    BY <1>1, <2>1, WatchingKept
<1>4. DN!Swept(now') = PruneIdle(dnWindows, now') \/ DN!Swept(now') = dnWindows
  BY QueryWindows DEF DN!Swept
<1> QED
  BY <1>2, <1>3, <1>4

LEMMA WatchingSame ==
  ASSUME NEW h, NEW g, Extends(h, g), NEW src, NEW w, NEW n, Watching(w, h, src, n),
         \A name \in PlainNames : ~(Pair(g[Len(g)]) = <<src, name>> /\ ~Hushed(g, Len(g)))
  PROVE  Watching(w, g, src, n)
<1>1. ASSUME NEW name \in PlainNames
      PROVE  Tracks(w, QueryWindow, PlainNames, name, g, Queried(g, <<src, name>>), n)
  <2> DEFINE pair == <<src, name>>
             J == Queried(h, pair)
  <2>1. ~(Pair(g[Len(g)]) = pair /\ ~Hushed(g, Len(g)))
    OBVIOUS
  <2>2. Tracks(w, QueryWindow, PlainNames, name, h, J, n)
    BY DEF Watching
  <2> HIDE DEF pair
  <2>3. Queried(g, pair) = J
    BY <2>1, QueriedGrows DEF QueriedNow
  <2>4. \A j \in J : g[j] = h[j]
    BY QueriedIsSome DEF Extends
  <2> HIDE DEF J
  <2>5. Tracks(w, QueryWindow, PlainNames, name, g, J, n)
    BY <2>2, <2>4, TracksSame
  <2> QED
    BY <2>3, <2>5 DEF pair
<1> QED
  BY <1>1 DEF Watching

(* A query, whatever becomes of it.                                        *)
LEMMA QueryStep ==
  ASSUME QueryInv, Clocked', now <= now', NEW e, e.ts = now',
         dnHistory' = Append(dnHistory, e),
         Hushes(dnCooldown', dnHistory', now'),
         \A src : src # e.src => Watching(WindowOf(dnWindows', src, QueryWindow), dnHistory, src, now'),
         Watching(WindowOf(dnWindows', e.src, QueryWindow), dnHistory', e.src, now'),
         QueryRight(dnHistory', Len(dnHistory'))
  PROVE  QueryInv'
<1> DEFINE h == dnHistory
           g == dnHistory'
<1>1. Chronicle(g, now') /\ Extends(h, g) /\ g[Len(g)] = e
  <2>1. now \in Int /\ now' \in Int /\ Chronicle(h, now)
    BY DEF QueryInv, Clocked
  <2> QED
    BY <2>1, ChronicleExtends
<1>2. \A i \in 1 .. Len(h) : QueryRight(h, i)
  BY DEF QueryInv
<1>3. \A i \in 1 .. Len(g) : QueryRight(g, i)
  <2>1. \A i \in 1 .. Len(g) : i \in 1 .. Len(h) \/ i = Len(g)
    BY <1>1 DEF Extends
  <2>2. \A i \in 1 .. Len(h) : QueryRight(g, i)
    <3> HIDE DEF g, h
    <3> QED
      BY <1>1, <1>2, QueryRightStays
  <2> QED
    BY <2>1, <2>2
<1>4. ASSUME NEW src PROVE Watching(WindowOf(dnWindows', src, QueryWindow), g, src, now')
  <2>1. CASE src = e.src
    BY <2>1
  <2>2. CASE src # e.src
    <3> DEFINE w == WindowOf(dnWindows', src, QueryWindow)
    <3>1. Watching(w, h, src, now')
      BY <2>2
    <3> HIDE DEF w, g, h
    <3>2. \A name \in PlainNames : Pair(g[Len(g)]) # <<src, name>>
      BY <1>1, <2>2 DEF Pair
    <3>3. Watching(w, g, src, now')
      BY <1>1, <3>1, <3>2, WatchingSame
    <3> QED
      BY <3>3 DEF w
  <2> QED
    BY <2>1, <2>2
<1> QED
  BY <1>1, <1>3, <1>4 DEF QueryInv

(* A query that is silenced, or whose name alone is suspect, leaves the    *)
(* windows alone.                                                          *)
LEMMA UncountedStep ==
  ASSUME QueryInv, Clocked', now <= now', NEW e, e.ts = now',
         dnHistory' = Append(dnHistory, e),
         Hushes(dnCooldown', dnHistory', now'),
         dnWindows' = DN!Swept(now'),
         Hushed(dnHistory', Len(dnHistory')) \/ e.name \notin PlainNames,
         QueryRight(dnHistory', Len(dnHistory'))
  PROVE  QueryInv'
<1> DEFINE h == dnHistory
           g == dnHistory'
<1>1. Extends(h, g) /\ g[Len(g)] = e /\ now' \in Int
  <2>1. now \in Int /\ now' \in Int /\ Chronicle(h, now)
    BY DEF QueryInv, Clocked
  <2> QED
    BY <2>1, ChronicleExtends
<1>2. \A src : Watching(WindowOf(dnWindows', src, QueryWindow), h, src, now')
  BY <1>1, SweptWatching
<1>3. Watching(WindowOf(dnWindows', e.src, QueryWindow), g, e.src, now')
  <2> DEFINE w == WindowOf(dnWindows', e.src, QueryWindow)
             src == e.src
  <2>1. Watching(w, h, src, now')
    BY <1>2
  <2>2. \A name \in PlainNames : ~(Pair(g[Len(g)]) = <<src, name>> /\ ~Hushed(g, Len(g)))
    <3> HIDE DEF g
    <3> QED
      BY <1>1 DEF Pair, g
  <2> HIDE DEF w, src, g, h
  <2>3. Watching(w, g, src, now')
    BY <1>1, <2>1, <2>2, WatchingSame
  <2> QED
    BY <2>3 DEF w, src
<1> QED
  BY <1>2, <1>3, QueryStep

LEMMA SilentStep ==
  ASSUME QueryInv, Clocked', now <= now', NEW src, NEW name, DN!SilentQuery(src, name)
  PROVE  QueryInv'
<1> DEFINE e == [src |-> src, name |-> name, ts |-> now', reason |-> "none", value |-> 0]
           h == dnHistory
           g == dnHistory'
<1>1. /\ DN!CT!IsCooling(dnCooldown, <<src, name>>, now')
      /\ dnWindows' = DN!Swept(now') /\ g = Append(h, e) /\ dnCooldown' = dnCooldown
  BY DEF DN!SilentQuery, DN!Silent, DN!NoAlert
<1>2. e.ts = now' /\ e.reason = "none" /\ Pair(e) = <<src, name>>
  BY DEF Pair
<1> HIDE DEF e
<1>3. now \in Int /\ now' \in Int
  BY DEF QueryInv, Clocked
<1>4. Extends(h, g) /\ g[Len(g)] = e
  BY <1>1, <1>2, <1>3, ChronicleExtends DEF QueryInv
<1>5. Hushes(dnCooldown, h, now')
  BY <1>3, HushesLater DEF QueryInv
<1>6. \A pair : ~Warned(g, pair, Len(g))
  BY <1>2, <1>4 DEF Warned
<1>7. Hushes(dnCooldown', g, now')
  <2> HIDE DEF g, h
  <2>1. \A pair, t : Hushing(g, pair, t) <=> Hushing(h, pair, t)
    BY <1>4, <1>6, HushingGrows
  <2> QED
    BY <1>1, <1>5, <2>1 DEF Hushes
<1>8. Hushed(g, Len(g))
  <2>1. Hushing(h, <<src, name>>, now')
    BY <1>1, <1>3, <1>5, DnsCooldown DEF Hushes
  <2> HIDE DEF g, h
  <2> QED
    BY <1>2, <1>4, <2>1, HushedStays
<1>9. QueryRight(g, Len(g))
  <2>1. g[Len(g)].reason = "none"
    BY <1>2, <1>4
  <2> HIDE DEF g
  <2> QED
    BY <1>8, <2>1 DEF QueryRight
<1> QED
  BY <1>1, <1>2, <1>7, <1>8, <1>9, UncountedStep

(* What the mark of an alert does to the silences.                         *)
LEMMA AlertHushes ==
  ASSUME NEW c, NEW h, NEW g, Extends(h, g), NEW n \in Int, NEW pair,
         Warned(g, pair, Len(g)), g[Len(g)].ts = n, Hushes(c, h, n)
  PROVE  Hushes(DN!CT!Mark(c, pair, n), g, n)
<1> DEFINE d == DN!CT!Mark(c, pair, n)
<1>1. MarkedIn(c, d, pair, n, QueryCooldown)
  BY DnsCooldown DEF Hushes
<1> HIDE DEF d
<1>2. \A k : Warned(g, k, Len(g)) <=> k = pair
  BY DEF Warned
<1>3. \A k : \A t : Hushing(g, k, t) <=> Hushing(h, k, t) \/ (k = pair /\ t - n < QueryCooldown)
  BY <1>2, HushingGrows
<1>4. Hushes(d, g, n)
  BY <1>1, <1>3 DEF Hushes, MarkedIn
<1> QED
  BY <1>4 DEF d

LEMMA SuspectStep ==
  ASSUME QueryInv, Clocked', now <= now', NEW src, NEW name, DN!SuspectName(src, name)
  PROVE  QueryInv'
<1> DEFINE reason == IF name \in Long THEN "LONG_SUBDOMAIN" ELSE "HIGH_ENTROPY"
           e == [src |-> src, name |-> name, ts |-> now', reason |-> reason, value |-> 0]
           h == dnHistory
           g == dnHistory'
           pair == <<src, name>>
<1>1. /\ ~DN!CT!IsCooling(dnCooldown, pair, now') /\ name \in Long \cup Encoded
      /\ dnWindows' = DN!Swept(now') /\ g = Append(h, e)
      /\ dnCooldown' = DN!CT!Mark(dnCooldown, pair, now')
  BY DEF DN!SuspectName, DN!Silent, DN!Alert
<1>2. e.ts = now' /\ e.name = name /\ e.reason = reason /\ Pair(e) = pair
  BY DEF Pair
<1> HIDE DEF e
<1>3. now \in Int /\ now' \in Int
  BY DEF QueryInv, Clocked
<1>4. Extends(h, g) /\ g[Len(g)] = e
  BY <1>1, <1>2, <1>3, ChronicleExtends DEF QueryInv
<1>5. Hushes(dnCooldown, h, now')
  BY <1>3, HushesLater DEF QueryInv
<1>6. Warned(g, pair, Len(g)) /\ g[Len(g)].ts = now'
  BY <1>2, <1>4 DEF Warned
<1>7. Hushes(dnCooldown', g, now')
  <2> HIDE DEF g, h, pair
  <2> QED
    BY <1>1, <1>3, <1>4, <1>5, <1>6, AlertHushes
<1>8. ~Hushed(g, Len(g))
  <2> HIDE DEF g, h, pair
  <2>1. ~Hushing(h, pair, now')
    BY <1>1, <1>3, <1>5, DnsCooldown DEF Hushes
  <2> QED
    BY <1>2, <1>4, <2>1, HushedStays
<1>9. QueryRight(g, Len(g))
  <2>1. g[Len(g)].reason = reason /\ g[Len(g)].name = name
    BY <1>2, <1>4
  <2> HIDE DEF g
  <2> QED
    BY <1>1, <1>8, <2>1 DEF QueryRight
<1>10. e.name \notin PlainNames
  BY <1>1, <1>2 DEF PlainNames
<1> QED
  BY <1>1, <1>2, <1>7, <1>9, <1>10, UncountedStep

(* What CountName does, the window being w.                                *)
LEMMA NameCountedIs ==
  ASSUME NEW src, NEW name, NEW swept, DN!CountName(src, name, swept)
  PROVE  LET w == Add(WindowOf(swept, src, QueryWindow), now', name)
             count == CountOf(w, name)
         IN  /\ dnWindows' = With(swept, src, w)
             /\ \/ count >= Queries /\ DN!Alert(src, name, "QUERY_FLOOD", count)
                \/ ~(count >= Queries) /\ DN!NoAlert(src, name)
<1> DEFINE u == WindowOf(swept, src, QueryWindow)
           w == Add(u, now', name)
           count == CountOf(w, name)
<1>1. DN!SW!Add(DN!SW!WindowOf(swept, src, QueryWindow), now', name) = w
  <2>1. DN!SW!WindowOf(swept, src, QueryWindow) = u
    BY QueryWindows
  <2> HIDE DEF u
  <2> QED
    BY <2>1, QueryWindows
<1>2. DN!Judge(src, name, swept, DN!SW!Add(DN!SW!WindowOf(swept, src, QueryWindow), now', name))
  BY Zenon DEF DN!CountName
<1> HIDE DEF w
<1>3. DN!Judge(src, name, swept, w)
  BY <1>1, <1>2
<1>4. DN!SW!CountOf(w, name) = count /\ DN!SW!With(swept, src, w) = With(swept, src, w)
  BY QueryWindows
<1>5. DN!TooMany(count) <=> count >= Queries
  BY DEF DN!TooMany
<1>6. /\ dnWindows' = DN!SW!With(swept, src, w)
      /\ IF DN!TooMany(DN!SW!CountOf(w, name))
         THEN DN!Alert(src, name, "QUERY_FLOOD", DN!SW!CountOf(w, name))
         ELSE DN!NoAlert(src, name)
  BY <1>3, Zenon DEF DN!Judge
<1> HIDE DEF count
<1>7. /\ dnWindows' = With(swept, src, w)
      /\ \/ count >= Queries /\ DN!Alert(src, name, "QUERY_FLOOD", count)
         \/ ~(count >= Queries) /\ DN!NoAlert(src, name)
  BY <1>4, <1>5, <1>6
<1> QED
  BY <1>7 DEF w, u, count

(* A query that counts: of its source's window, only its name's number     *)
(* changes.                                                                *)
LEMMA WatchingGrown ==
  ASSUME NEW n \in Int, NEW h, NEW g, Extends(h, g), Chronicle(h, n), NEW src,
         NEW name \in PlainNames, Pair(g[Len(g)]) = <<src, name>>, g[Len(g)].ts = n,
         ~Hushed(g, Len(g)),
         NEW u, Watching(u, h, src, n)
  PROVE  /\ Watching(Add(u, n, name), g, src, n)
         /\ CountOf(Add(u, n, name), name) = TimesAsked(g, Len(g))
<1> DEFINE w == Add(u, n, name)
           pair == <<src, name>>
           J == Queried(h, pair)
<1>1. QueryWindow \in Nat /\ QueryWindow \in Int
  BY DnsParams
<1>2. Grown(u, w, QueryWindow, PlainNames, n, name)
  BY <1>1, AddGood DEF Watching
<1> HIDE DEF w
<1>3. TracksExactly(w, QueryWindow, PlainNames, name, g, J \cup {Len(g)}, n)
  <2>1. J \in SUBSET (1 .. Len(h)) /\ Tracks(u, QueryWindow, PlainNames, name, h, J, n)
    BY QueriedIsSome DEF Watching
  <2>2. Len(g) = Len(h) + 1 /\ \A j \in 1 .. Len(h) : g[j] = h[j]
    BY DEF Extends
  <2> HIDE DEF J
  <2> QED
    BY <1>1, <1>2, <2>1, <2>2, TracksGrown
<1>4. TimesAsked(g, Len(g)) = Counting(g, J \cup {Len(g)}, n - QueryWindow)
  <2>1. Pair(g[Len(g)]) = pair
    OBVIOUS
  <2> HIDE DEF pair
  <2> QED
    BY <2>1, TimesAskedIsCount
<1>5. CountOf(w, name) = TimesAsked(g, Len(g))
  BY <1>3, <1>4 DEF TracksExactly
<1>6. Queried(g, pair) = J \cup {Len(g)}
  <2>1. Pair(g[Len(g)]) = pair
    OBVIOUS
  <2> HIDE DEF pair
  <2> QED
    BY <2>1, QueriedGrows DEF QueriedNow
<1>7. ASSUME NEW k \in PlainNames
      PROVE  Tracks(w, QueryWindow, PlainNames, k, g, Queried(g, <<src, k>>), n)
  <2>1. CASE k = name
    <3> HIDE DEF J
    <3>1. Tracks(w, QueryWindow, PlainNames, name, g, J \cup {Len(g)}, n)
      BY <1>3 DEF TracksExactly
    <3> QED
      BY <1>6, <2>1, <3>1
  <2>2. CASE k # name
    <3> DEFINE other == <<src, k>>
               I == Queried(h, other)
    <3>1. Pair(g[Len(g)]) # other
      BY <2>2
    <3>2. Tracks(u, QueryWindow, PlainNames, k, h, I, n)
      BY DEF Watching
    <3> HIDE DEF other
    <3>3. Queried(g, other) = I
      BY <3>1, QueriedGrows DEF QueriedNow
    <3>4. I \in SUBSET (1 .. Len(h))
      BY QueriedIsSome
    <3> HIDE DEF I
    <3>5. Tracks(w, QueryWindow, PlainNames, k, h, I, n)
      BY <1>1, <1>2, <2>2, <3>2, <3>4, TracksOther
    <3>6. \A j \in I : g[j] = h[j]
      BY <3>4 DEF Extends
    <3>7. Tracks(w, QueryWindow, PlainNames, k, g, I, n)
      BY <3>5, <3>6, TracksSame
    <3> QED
      BY <3>3, <3>7 DEF other
  <2> QED
    BY <2>1, <2>2
<1>8. Watching(w, g, src, n)
  BY <1>2, <1>7 DEF Watching, Grown
<1> QED
  BY <1>5, <1>8 DEF w

LEMMA PlainStep ==
  ASSUME QueryInv, Clocked', now <= now', NEW src, NEW name \in PlainNames,
         DN!PlainName(src, name)
  PROVE  QueryInv'
<1> DEFINE swept == DN!Swept(now')
           u == WindowOf(swept, src, QueryWindow)
           w == Add(u, now', name)
           count == CountOf(w, name)
           flood == count >= Queries
           e == [src |-> src, name |-> name, ts |-> now',
                 reason |-> IF flood THEN "QUERY_FLOOD" ELSE "none",
                 value |-> IF flood THEN count ELSE 0]
           h == dnHistory
           g == dnHistory'
           pair == <<src, name>>
<1>1. ~DN!CT!IsCooling(dnCooldown, pair, now') /\ DN!CountName(src, name, swept)
  BY Zenon DEF DN!PlainName, DN!Silent
<1>2. /\ dnWindows' = With(swept, src, w) /\ g = Append(h, e)
      /\ dnCooldown' = IF flood THEN DN!CT!Mark(dnCooldown, pair, now') ELSE dnCooldown
  <2>1. /\ dnWindows' = With(swept, src, w)
        /\ \/ count >= Queries /\ DN!Alert(src, name, "QUERY_FLOOD", count)
           \/ ~(count >= Queries) /\ DN!NoAlert(src, name)
    <3> HIDE DEF swept
    <3> QED
      BY <1>1, NameCountedIs
  <2> HIDE DEF count, w, swept
  <2>2. CASE flood
    BY <2>1, <2>2 DEF DN!Alert
  <2>3. CASE ~flood
    BY <2>1, <2>3 DEF DN!NoAlert
  <2> QED
    BY <2>2, <2>3
<1> HIDE DEF swept, u, w, count
<1>3. /\ e.ts = now' /\ e.src = src /\ e.name = name /\ Pair(e) = pair
      /\ e.reason = (IF flood THEN "QUERY_FLOOD" ELSE "none")
      /\ e.value = (IF flood THEN count ELSE 0)
  BY DEF Pair
<1> HIDE DEF e
<1>4. now \in Int /\ now' \in Int
  BY DEF QueryInv, Clocked
<1>5. Extends(h, g) /\ g[Len(g)] = e /\ Chronicle(h, now')
  BY <1>2, <1>3, <1>4, ChronicleExtends, ChronicleLater DEF QueryInv
<1>6. Hushes(dnCooldown, h, now')
  BY <1>4, HushesLater DEF QueryInv
<1>7. ~Hushed(g, Len(g))
  <2> HIDE DEF g, h, pair
  <2>1. ~Hushing(h, pair, now')
    BY <1>1, <1>4, <1>6, DnsCooldown DEF Hushes
  <2> QED
    BY <1>3, <1>5, <2>1, HushedStays
<1>8. Hushes(dnCooldown', g, now')
  <2>1. CASE flood
    <3>1. Warned(g, pair, Len(g)) /\ g[Len(g)].ts = now'
      BY <1>3, <1>5, <2>1 DEF Warned
    <3> HIDE DEF g, h, pair, flood
    <3> QED
      BY <1>2, <1>4, <1>5, <1>6, <2>1, <3>1, AlertHushes
  <2>2. CASE ~flood
    <3>1. \A k : ~Warned(g, k, Len(g))
      BY <1>3, <1>5, <2>2 DEF Warned
    <3> HIDE DEF g, h, pair, flood
    <3>2. \A k, t : Hushing(g, k, t) <=> Hushing(h, k, t)
      BY <1>5, <3>1, HushingGrows
    <3> QED
      BY <1>2, <1>6, <2>2, <3>2 DEF Hushes
  <2> QED
    BY <2>1, <2>2
<1>9. /\ Watching(w, g, src, now') /\ count = TimesAsked(g, Len(g))
  <2>1. Watching(u, h, src, now')
    BY <1>4, SweptWatching DEF u, swept
  <2>2. Pair(g[Len(g)]) = <<src, name>> /\ g[Len(g)].ts = now'
    BY <1>3, <1>5
  <2> HIDE DEF g, h
  <2> QED
    BY <1>4, <1>5, <1>7, <2>1, <2>2, WatchingGrown DEF w, count
<1>10. QueryRight(g, Len(g))
  <2>1. /\ g[Len(g)].reason = (IF flood THEN "QUERY_FLOOD" ELSE "none")
        /\ g[Len(g)].value = (IF flood THEN count ELSE 0) /\ g[Len(g)].name = name
    BY <1>3, <1>5
  <2>2. name \notin Long \cup Encoded
    BY DEF PlainNames
  <2> HIDE DEF g, h
  <2> QED
    BY <1>7, <1>9, <2>1, <2>2 DEF QueryRight
<1>11. ASSUME NEW s, s # src
       PROVE  Watching(WindowOf(dnWindows', s, QueryWindow), h, s, now')
  <2>1. WindowOf(dnWindows', s, QueryWindow) = WindowOf(swept, s, QueryWindow)
    BY <1>2, <1>11, WithWindow
  <2>2. Watching(WindowOf(swept, s, QueryWindow), h, s, now')
    BY <1>4, SweptWatching DEF swept
  <2> QED
    BY <2>1, <2>2
<1>12. WindowOf(dnWindows', src, QueryWindow) = w
  BY <1>2, WithWindow
<1> HIDE DEF flood
<1>13. /\ \A s : s # e.src => Watching(WindowOf(dnWindows', s, QueryWindow), h, s, now')
       /\ Watching(WindowOf(dnWindows', e.src, QueryWindow), g, e.src, now')
  BY <1>3, <1>9, <1>11, <1>12
<1> QED
  BY <1>2, <1>3, <1>8, <1>10, <1>13, QueryStep

LEMMA QueryInit == Init => QueryInv
<1> SUFFICES ASSUME Init PROVE QueryInv
  OBVIOUS
<1>1. /\ dnHistory = <<>> /\ dnWindows = [s \in {} |-> DN!SW!NewWindow(QueryWindow)]
      /\ now = Epoch /\ traffic \in Kinds
      /\ dnCooldown = [last |-> [k \in {} |-> 0], lastPrune |-> 0]
  BY DEF Init, DN!Init, DN!CT!NewTracker
<1>2. Len(<<>>) = 0 /\ <<>> \in Seq({}) /\ 1 .. 0 = {}
  BY EmptySeq
<1>3. Clocked
  BY <1>1, DetectorsAssumption DEF Clocked, AR!ArpSpoofAssumption
<1>4. Chronicle(dnHistory, now)
  BY <1>1, <1>2 DEF Chronicle
<1>5. Hushes(dnCooldown, dnHistory, now)
  <2>1. DOMAIN dnCooldown.last = {}
    BY <1>1
  <2>2. \A k, t : ~Hushing(dnHistory, k, t)
    BY <1>1, <1>2 DEF Hushing
  <2> QED
    BY <2>1, <2>2 DEF Hushes, Cooling, Timely
<1>6. \A src : WindowOf(dnWindows, src, QueryWindow) = NewWindow(QueryWindow)
  BY <1>1 DEF WindowOf
<1>7. \A pair : Queried(dnHistory, pair) = {}
  BY <1>1, <1>2 DEF Queried
<1>8. \A src : Watching(WindowOf(dnWindows, src, QueryWindow), dnHistory, src, now)
  BY <1>6, <1>7, NewWindowGood, TracksNew DEF Watching
<1> QED
  BY <1>1, <1>2, <1>3, <1>4, <1>5, <1>8 DEF QueryInv

LEMMA QueryNext == QueryInv /\ [Next]_vars => QueryInv'
<1> SUFFICES ASSUME QueryInv, [Next]_vars PROVE QueryInv'
  OBVIOUS
<1>1. CASE UNCHANGED vars
  BY <1>1 DEF vars, dnVars, QueryInv, Clocked
<1>2. ASSUME NEW p \in Mixes[traffic].packets, NEW gap \in Mixes[traffic].gaps, Deliver(p, gap)
      PROVE  QueryInv'
  <2>1. Clocked' /\ now <= now' /\ DN!Process(p) /\ now' \in Int /\ now \in Int
    BY <1>2, ClockSteps DEF Deliver, QueryInv, Clocked
  <2>2. CASE DN!Ignored(p)
    <3>1. dnHistory' = dnHistory /\ dnCooldown' = dnCooldown /\ dnWindows' = dnWindows
      BY <2>2 DEF DN!Ignored
    <3>2. Chronicle(dnHistory, now') /\ Hushes(dnCooldown, dnHistory, now')
      BY <2>1, ChronicleLater, HushesLater DEF QueryInv
    <3>3. \A src : Watching(WindowOf(dnWindows, src, QueryWindow), dnHistory, src, now')
      BY <2>1, SweptWatching
    <3> QED
      BY <2>1, <3>1, <3>2, <3>3 DEF QueryInv
  <2>3. CASE DN!Query(p)
    <3>1. \/ DN!SilentQuery(p.src, p.qname)
          \/ DN!SuspectName(p.src, p.qname)
          \/ DN!PlainName(p.src, p.qname) /\ p.qname \in PlainNames
      <4>1. p.qname # None
        BY <2>3 DEF DN!Query, DN!IsQuery, DN!None, None
      <4>2. p \in Packets
        BY <2>1 DEF Packets, QueryInv, Clocked
      <4>3. p.qname \in DN!Names
        BY <4>1, <4>2 DEF DN!Names, DN!None, None
      <4>4. \/ DN!SilentQuery(p.src, p.qname)
            \/ DN!SuspectName(p.src, p.qname)
            \/ DN!PlainName(p.src, p.qname)
        BY <2>3, Zenon DEF DN!Query
      <4>5. DN!PlainName(p.src, p.qname) => p.qname \notin Long \cup Encoded
        BY Zenon DEF DN!PlainName
      <4> QED
        BY <4>3, <4>4, <4>5 DEF PlainNames
    <3> QED
      BY <2>1, <3>1, SilentStep, SuspectStep, PlainStep
  <2> QED
    BY <2>1, <2>2, <2>3 DEF DN!Process
<1> QED
  BY <1>1, <1>2 DEF Next

(* A query raises the alert its name or its number deserves, unless its    *)
(* source and name are silenced (dns_anomaly.py, _process()).              *)
THEOREM EveryTunnelReported == Spec => []QueriesExact
<1>1. QueryInv => QueriesExact
  BY QueriesByTimesAsked DEF QueryInv
<1> QED
  BY QueryInit, QueryNext, <1>1, PTL DEF Spec
-----------------------------------------------------------------------------
(* SynFloodDetector: evaluations, one window of time apart.                *)

(* Evaluation n has weighed packet i.                                      *)
Evaluated(h, rs, i) ==
  \E n \in 1 .. Len(rs) : rs[n].after >= i /\ rs[n].ts - h[i].ts <= FloodWindow

(* The times from which a window must pass before packet i is weighed.     *)
Starts(h, rs, i) ==
  {h[1].ts} \cup {rs[n].ts : n \in {m \in 1 .. Len(rs) : rs[m].after < i}}

(* No packet came between the moment an evaluation was due and the expiry  *)
(* of packet i.                                                            *)
Paused(h, rs, i) ==
  \A k \in 1 .. Len(h) : \/ \E t \in Starts(h, rs, i) : ~(h[k].ts - t >= FloodWindow)
                         \/ h[k].ts - h[i].ts > FloodWindow

(* What became of packet i: it was weighed, or waits for the evaluation    *)
(* that follows the one at time e, or has expired in a pause.              *)
Settled(h, rs, e, i) ==
  \/ Evaluated(h, rs, i)
  \/ e \in Starts(h, rs, i)
  \/ Paused(h, rs, i) /\ e - h[i].ts > FloodWindow

(* Less than a window has passed since the last evaluation, or since the   *)
(* first packet, which is what the packets to come wait for.               *)
EvaluationInv ==
  /\ Clocked
  /\ Chronicle(sfHistory, now) /\ \E S : sfReports \in Seq(S)
  /\ \A m \in 1 .. Len(sfReports) : sfReports[m].after \in Int
  /\ now \in Nat /\ sfEval \in Int /\ sfEval <= now
  /\ sfHistory = <<>> => sfEval = SF!Never
  /\ sfHistory # <<>> =>
       /\ sfEval # SF!Never /\ sfEval \in Starts(sfHistory, sfReports, Len(sfHistory) + 1)
       /\ sfHistory[Len(sfHistory)].ts - sfEval < FloodWindow
  /\ \A i \in 1 .. Len(sfHistory) : Settled(sfHistory, sfReports, sfEval, i)

LEMMA FloodParams ==
  /\ FloodWindow \in Nat \ {0} /\ FloodWindow \in Nat /\ FloodWindow \in Int
  /\ FloodCooldown \in Nat \ {0} /\ FloodCooldown \in Int
  /\ RatioMedium \in Nat /\ RatioHigh \in Nat /\ RatioMedium <= RatioHigh /\ MinSyn \in Nat
BY DetectorsAssumption DEF SF!SynFloodAssumption

LEMMA WeighedByEvaluated ==
  WeighedInTime <=>
    \A i, k \in 1 .. Len(sfHistory) :
      /\ \A t \in Starts(sfHistory, sfReports, i) : sfHistory[k].ts - t >= FloodWindow
      /\ sfHistory[k].ts - sfHistory[i].ts <= FloodWindow
      => Evaluated(sfHistory, sfReports, i)
BY DEF WeighedInTime, SF!WeighedInTime, SF!DueBeforeExpiry, SF!TooLateFor, Starts, Evaluated

(* One more packet is no earlier start of any that came before it.         *)
LEMMA StartsStay ==
  ASSUME NEW h, NEW g, Extends(h, g), NEW rs, NEW i, Len(h) # 0
  PROVE  Starts(g, rs, i) = Starts(h, rs, i)
<1>1. 1 \in 1 .. Len(h)
  BY DEF Extends
<1>2. g[1] = h[1]
  BY <1>1 DEF Extends
<1> QED
  BY <1>2 DEF Starts

(* A TCP packet, whether or not it causes an evaluation.                   *)
LEMMA TrafficStep ==
  ASSUME EvaluationInv, Clocked', now <= now', NEW p, SF!TcpPacket(p)
  PROVE  EvaluationInv'
<1> DEFINE h == sfHistory
           g == sfHistory'
           e == [target |-> p.dst, flag |-> p.flags, ts |-> now']
           n == Len(h)
           w == FloodWindow
<1>1. g = Append(h, e) /\ e.ts = now'
  BY DEF SF!TcpPacket, SF!Arrives
<1> HIDE DEF e
<1>2. /\ now \in Nat /\ now' \in Nat /\ Chronicle(h, now) /\ w \in Nat \ {0}
      /\ now \in Int /\ now' \in Int /\ w \in Int
  BY FloodParams DEF EvaluationInv, Clocked
<1>3. Chronicle(g, now') /\ Extends(h, g) /\ g[Len(g)] = e
  BY <1>1, <1>2, ChronicleExtends
<1>4. /\ n \in Nat /\ Len(g) = n + 1 /\ g[n + 1] = e
      /\ \A i \in 1 .. n : g[i] = h[i] /\ h[i].ts \in Int /\ h[i].ts <= now
  BY <1>2, <1>3 DEF Extends, Chronicle
<1>5. \A i \in 1 .. n : h[i].ts <= h[n].ts /\ h[n].ts \in Int
  BY <1>2, <1>4 DEF Chronicle
<1>6. PICK S : sfReports \in Seq(S)
  BY DEF EvaluationInv
<1>7. Len(sfReports) \in Nat
  BY <1>6, LenProperties
<1>8. h # <<>> <=> n # 0
  <2>1. PICK T : h \in Seq(T)
    BY <1>2 DEF Chronicle
  <2> QED
    BY <2>1, EmptySeq
<1>9. g # <<>> /\ g[Len(g)].ts = now' /\ \A i \in 1 .. Len(g) : g[i].ts \in Int /\ g[i].ts <= now'
  <2>1. Len(<<>>) = 0
    OBVIOUS
  <2> QED
    BY <1>1, <1>3, <1>4, <2>1 DEF Chronicle
<1>10. \A i \in 1 .. Len(g) : i \in 1 .. n \/ i = n + 1
  BY <1>4
<1>11. /\ sfEval \in Int /\ sfEval <= now
       /\ n = 0 => sfEval = SF!Never
       /\ n # 0 => /\ sfEval # SF!Never /\ sfEval \in Starts(h, sfReports, n + 1)
                   /\ h[n].ts - sfEval < w
       /\ \A i \in 1 .. n : Settled(h, sfReports, sfEval, i)
  BY <1>8 DEF EvaluationInv
<1> HIDE DEF g, h, n, w
<1>12. \A i \in 1 .. n : h[i].ts - sfEval < w
  <2>1. \A a, b, c \in Int : a <= b /\ b - c < w => a - c < w
    BY <1>2
  <2>2. ASSUME NEW i \in 1 .. n PROVE h[i].ts - sfEval < w
    <3>1. n # 0 /\ h[i].ts \in Int /\ h[n].ts \in Int /\ h[i].ts <= h[n].ts
      BY <1>4, <1>5
    <3> QED
      BY <1>11, <2>1, <3>1
  <2> QED
    BY <2>2
<1>13. now' # SF!Never /\ now' <= now' /\ now' - now' < w /\ now' - now' <= w
  <2>1. now' # SF!Never
    BY <1>2 DEF SF!Never
  <2>2. \A x \in Nat : x - x < w /\ x <= x /\ x - x <= w
    BY <1>2
  <2> QED
    BY <1>2, <2>1, <2>2
<1>14. \A m \in 1 .. Len(sfReports) : sfReports[m].after \in Int
  BY DEF EvaluationInv
<1>15. CASE SF!FirstPacket(p)
  <2>1. sfEval' = now' /\ sfReports' = sfReports /\ n = 0
    BY <1>11, <1>15 DEF SF!FirstPacket
  <2>2. \A i : sfEval' \in Starts(g, sfReports, i)
    BY <1>1, <1>4, <2>1 DEF Starts
  <2>3. \A i : Settled(g, sfReports, sfEval', i)
    BY <2>2 DEF Settled
  <2> QED
    BY <1>2, <1>3, <1>6, <1>9, <1>13, <1>14, <2>1, <2>2, <2>3 DEF EvaluationInv, g, w
<1>16. CASE SF!CountPacket(p)
  <2>1. sfEval' = sfEval /\ sfReports' = sfReports /\ sfEval # SF!Never
    BY <1>16 DEF SF!CountPacket
  <2>2. now' - sfEval < w
    <3>1. ~(now' - sfEval >= w)
      BY <1>16 DEF SF!CountPacket, SF!EvalDue, w
    <3>2. \A a, b, c \in Int : ~(a - b >= c) => a - b < c
      OBVIOUS
    <3> QED
      BY <1>2, <1>11, <3>1, <3>2
  <2>3. ASSUME NEW i \in 1 .. n PROVE Settled(g, sfReports, sfEval, i)
    <3>1. n # 0 /\ g[i] = h[i] /\ h[i].ts \in Int /\ h[i].ts <= now
      BY <1>4
    <3>2. Starts(g, sfReports, i) = Starts(h, sfReports, i)
      BY <1>3, <3>1, StartsStay DEF n
    <3>3. ASSUME Evaluated(h, sfReports, i) PROVE Evaluated(g, sfReports, i)
      BY <3>1, <3>3 DEF Evaluated
    <3>4. ASSUME Paused(h, sfReports, i), sfEval - h[i].ts > w
          PROVE  Paused(g, sfReports, i) /\ sfEval - g[i].ts > w
      <4>1. now' - h[i].ts > w
        <5>1. \A a, b, c \in Int : a <= b /\ a - c > w => b - c > w
          BY <1>2
        <5>2. sfEval <= now'
          BY <1>2, <1>11
        <5> QED
          BY <1>2, <1>11, <3>1, <3>4, <5>1, <5>2
      <4>2. ASSUME NEW k \in 1 .. Len(g)
            PROVE  \/ \E t \in Starts(g, sfReports, i) : ~(g[k].ts - t >= w)
                   \/ g[k].ts - g[i].ts > w
        <5>1. CASE k \in 1 .. n
          BY <1>4, <3>1, <3>2, <3>4, <5>1 DEF Paused, n, w
        <5>2. CASE k = n + 1
          BY <1>1, <1>4, <3>1, <4>1, <5>2
        <5> QED
          BY <1>10, <5>1, <5>2
      <4> QED
        BY <3>1, <3>4, <4>2 DEF Paused, w
    <3> QED
      BY <1>11, <3>1, <3>2, <3>3, <3>4 DEF Settled, w
  <2>4. n # 0 => Starts(g, sfReports, n + 1) = Starts(h, sfReports, n + 1)
    BY <1>3, StartsStay DEF n
  <2>5. n # 0
    BY <1>11, <2>1
  <2>6. sfEval \in Starts(g, sfReports, n + 1) /\ sfEval \in Starts(g, sfReports, Len(g) + 1)
    <3>1. \A m \in 1 .. Len(sfReports) : sfReports[m].after < n + 1 => sfReports[m].after < Len(g) + 1
      BY <1>4, <1>14
    <3>2. sfEval \in Starts(g, sfReports, n + 1)
      BY <1>11, <2>4, <2>5
    <3> QED
      BY <3>1, <3>2 DEF Starts
  <2>7. \A i \in 1 .. Len(g) : Settled(g, sfReports, sfEval, i)
    BY <1>10, <2>3, <2>6 DEF Settled
  <2>8. sfEval <= now'
    BY <1>2, <1>11
  <2> QED
    BY <1>2, <1>3, <1>6, <1>9, <1>11, <1>14, <2>1, <2>2, <2>6, <2>7, <2>8 DEF EvaluationInv, g, w
<1>17. CASE SF!EvaluatingPacket(p)
  <2> DEFINE r == [ts |-> now', after |-> Len(g), told |-> SF!Reported(SF!Live(SF!Added(p.dst, p.flags, now'), now'), now')]
             rs == sfReports
             qs == sfReports'
  <2>1. sfEval' = now' /\ qs = Append(rs, r) /\ sfEval # SF!Never
    BY <1>17 DEF SF!EvaluatingPacket, SF!EvaluateAll, SF!Evaluate, g
  <2>2. r.ts = now' /\ r.after = n + 1 /\ n # 0
    BY <1>4, <1>11, <2>1
  <2> HIDE DEF r
  <2>3. /\ qs \in Seq(S \cup {r}) /\ Len(qs) = Len(rs) + 1 /\ qs[Len(rs) + 1] = r
        /\ \A k \in 1 .. Len(rs) : qs[k] = rs[k]
    <3>1. rs \in Seq(S \cup {r}) /\ r \in S \cup {r}
      BY <1>6, SeqMonotonic
    <3> QED
      BY <2>1, <3>1, AppendProperties, LenProperties
  <2> HIDE DEF rs, qs
  <2>4. /\ \A k : k \in 1 .. Len(qs) <=> k \in 1 .. Len(rs) \/ k = Len(rs) + 1
        /\ Len(rs) + 1 \in 1 .. Len(qs)
    BY <1>7, <2>3 DEF rs
  <2>5. ASSUME NEW i \in 1 .. Len(g), now' - g[i].ts <= w PROVE Evaluated(g, qs, i)
    <3>1. n + 1 >= i
      BY <1>4
    <3> QED
      BY <2>2, <2>3, <2>4, <2>5, <3>1 DEF Evaluated, w
  <2>6. ASSUME NEW i \in 1 .. n PROVE Settled(g, qs, now', i)
    <3>1. n # 0 /\ g[i] = h[i] /\ h[i].ts \in Int /\ h[i].ts <= now /\ i \in 1 .. Len(g)
      BY <1>4
    <3>2. Starts(g, qs, i) = Starts(h, rs, i)
      <4>1. ~(r.after < i)
        BY <1>4, <2>2
      <4>2. Starts(g, qs, i) = Starts(g, rs, i)
        BY <2>3, <2>4, <4>1 DEF Starts
      <4> QED
        BY <1>3, <3>1, <4>2, StartsStay DEF n
    <3>3. ASSUME Evaluated(h, rs, i) PROVE Evaluated(g, qs, i)
      BY <2>3, <2>4, <3>1, <3>3 DEF Evaluated
    <3>4. ASSUME now' - h[i].ts > w,
                 \A k \in 1 .. n : \/ \E t \in Starts(h, rs, i) : ~(h[k].ts - t >= w)
                                   \/ h[k].ts - h[i].ts > w
          PROVE  Paused(g, qs, i) /\ now' - g[i].ts > w
      <4>1. ASSUME NEW k \in 1 .. Len(g)
            PROVE  \/ \E t \in Starts(g, qs, i) : ~(g[k].ts - t >= w)
                   \/ g[k].ts - g[i].ts > w
        <5>1. CASE k \in 1 .. n
          BY <1>4, <3>1, <3>2, <3>4, <5>1
        <5>2. CASE k = n + 1
          BY <1>1, <1>4, <3>1, <3>4, <5>2
        <5> QED
          BY <1>10, <5>1, <5>2
      <4> QED
        BY <3>1, <3>4, <4>1 DEF Paused, w
    <3>5. ASSUME sfEval \in Starts(h, rs, i) PROVE Settled(g, qs, now', i)
      <4>1. CASE now' - g[i].ts <= w
        BY <2>5, <3>1, <4>1 DEF Settled
      <4>2. CASE ~(now' - g[i].ts <= w)
        <5>1. now' - h[i].ts > w
          BY <1>2, <3>1, <4>2
        <5>2. \A j \in 1 .. n : ~(h[j].ts - sfEval >= w)
          BY <1>2, <1>4, <1>11, <1>12
        <5>3. Paused(g, qs, i) /\ now' - g[i].ts > w
          BY <3>4, <3>5, <5>1, <5>2
        <5> QED
          BY <5>3 DEF Settled, w
      <4> QED
        BY <4>1, <4>2
    <3>6. ASSUME Paused(h, rs, i), sfEval - h[i].ts > w PROVE Settled(g, qs, now', i)
      <4>1. now' - h[i].ts > w
        <5>1. \A a, b, c \in Int : a <= b /\ a - c > w => b - c > w
          BY <1>2
        <5>2. sfEval <= now'
          BY <1>2, <1>11
        <5> QED
          BY <1>2, <1>11, <3>1, <3>6, <5>1, <5>2
      <4>2. Paused(g, qs, i) /\ now' - g[i].ts > w
        BY <3>4, <3>6, <4>1 DEF Paused, n, w
      <4> QED
        BY <4>2 DEF Settled, w
    <3>7. Settled(h, rs, sfEval, i)
      BY <1>11 DEF rs
    <3> QED
      BY <3>3, <3>5, <3>6, <3>7 DEF Settled, w
  <2>7. Settled(g, qs, now', n + 1)
    <3>1. now' - g[n + 1].ts <= w /\ n + 1 \in 1 .. Len(g)
      BY <1>1, <1>4, <1>13
    <3> QED
      BY <2>5, <3>1 DEF Settled
  <2>8. \A i \in 1 .. Len(g) : Settled(g, qs, now', i)
    BY <1>10, <2>6, <2>7
  <2>9. now' \in Starts(g, qs, Len(g) + 1)
    <3>1. r.after < Len(g) + 1
      BY <1>4, <2>2
    <3> QED
      BY <2>2, <2>3, <2>4, <3>1 DEF Starts
  <2>10. \A m \in 1 .. Len(qs) : qs[m].after \in Int
    BY <1>4, <1>14, <2>2, <2>3, <2>4 DEF rs
  <2> QED
    BY <1>2, <1>3, <1>9, <1>13, <2>1, <2>3, <2>8, <2>9, <2>10 DEF EvaluationInv, g, qs, w
<1> QED
  BY <1>15, <1>16, <1>17 DEF SF!TcpPacket

(* A packet is weighed unless no TCP packet comes between the moment an    *)
(* evaluation is due and its expiry (syn_flood.py, lines 99-106).          *)
THEOREM NoneMissedInTime == Spec => []WeighedInTime
<1>1. Init => EvaluationInv
  <2> SUFFICES ASSUME Init PROVE EvaluationInv
    OBVIOUS
  <2>1. /\ sfHistory = <<>> /\ sfReports = <<>> /\ sfEval = SF!Never /\ now = Epoch /\ traffic \in Kinds
    BY DEF Init, SF!Init, AR!Init
  <2>2. Len(<<>>) = 0 /\ <<>> \in Seq({}) /\ 1 .. 0 = {}
    BY EmptySeq
  <2>3. Epoch \in Nat
    BY DetectorsAssumption DEF AR!ArpSpoofAssumption
  <2>4. Clocked /\ now \in Nat /\ sfEval \in Int /\ sfEval <= now
    BY <2>1, <2>3 DEF Clocked, SF!Never
  <2>5. Chronicle(sfHistory, now)
    BY <2>1, <2>2 DEF Chronicle
  <2> QED
    BY <2>1, <2>2, <2>4, <2>5 DEF EvaluationInv
<1>2. EvaluationInv /\ [Next]_vars => EvaluationInv'
  <2> SUFFICES ASSUME EvaluationInv, [Next]_vars PROVE EvaluationInv'
    OBVIOUS
  <2>1. CASE UNCHANGED vars
    BY <2>1 DEF vars, sfVars, EvaluationInv, Clocked
  <2>2. ASSUME NEW p, NEW gap \in Mixes[traffic].gaps, Deliver(p, gap) PROVE EvaluationInv'
    <3>1. Clocked' /\ now <= now' /\ SF!Process(p) /\ now' \in Int /\ now \in Int
      BY <2>2, ClockSteps DEF Deliver, EvaluationInv, Clocked
    <3>2. CASE SF!Ignored(p)
      <4>1. /\ sfHistory' = sfHistory /\ sfReports' = sfReports /\ sfEval' = sfEval
        BY <3>2 DEF SF!Ignored
      <4>2. Chronicle(sfHistory, now') /\ now' \in Nat /\ sfEval <= now'
        BY <3>1, ChronicleLater DEF EvaluationInv
      <4> QED
        BY <3>1, <4>1, <4>2 DEF EvaluationInv
    <3>3. CASE SF!TcpPacket(p)
      BY <3>1, <3>3, TrafficStep
    <3> QED
      BY <3>1, <3>2, <3>3 DEF SF!Process
  <2> QED
    BY <2>1, <2>2 DEF Next
<1>3. EvaluationInv => WeighedInTime
  <2> DEFINE h == sfHistory
             rs == sfReports
  <2> SUFFICES ASSUME EvaluationInv, NEW i \in 1 .. Len(h), NEW k \in 1 .. Len(h),
                      \A t \in Starts(h, rs, i) : h[k].ts - t >= FloodWindow,
                      h[k].ts - h[i].ts <= FloodWindow
               PROVE  Evaluated(h, rs, i)
    BY WeighedByEvaluated
  <2>1. /\ Len(h) \in Nat /\ \A j \in 1 .. Len(h) : h[j].ts \in Int /\ h[j].ts <= h[Len(h)].ts
        /\ sfEval \in Int /\ FloodWindow \in Int
    BY ChronicleFacts, FloodParams DEF EvaluationInv, Chronicle
  <2>2. h # <<>> /\ Len(h) \in 1 .. Len(h)
    <3>1. Len(<<>>) = 0
      OBVIOUS
    <3> QED
      BY <2>1, <3>1
  <2>3. h[k].ts - sfEval < FloodWindow
    <3>1. h[Len(h)].ts - sfEval < FloodWindow
      BY <2>2 DEF EvaluationInv
    <3>2. \A a, b, c, d \in Int : a <= b /\ b - c < d => a - c < d
      OBVIOUS
    <3>3. h[k].ts \in Int /\ h[Len(h)].ts \in Int /\ h[k].ts <= h[Len(h)].ts
      BY <2>1, <2>2
    <3> QED
      BY <2>1, <3>1, <3>2, <3>3
  <2>4. sfEval \notin Starts(h, rs, i)
    BY <2>1, <2>3
  <2>5. ~Paused(h, rs, i)
    <3>1. ~(h[k].ts - h[i].ts > FloodWindow)
      BY <2>1
    <3> QED
      BY <3>1 DEF Paused
  <2> QED
    BY <2>4, <2>5 DEF EvaluationInv, Settled
<1> QED
  BY <1>1, <1>2, <1>3, PTL DEF Spec

LEMMA LeastOf ==
  ASSUME NEW T \in SUBSET Nat, T # {}
  PROVE  \E m \in T : \A k \in T : m <= k
<1>1. \E m \in T : \A k \in T : <<k, m>> \notin OpToRel(<, Nat)
  BY WFMin, NatLessThanWellFounded, Zenon
<1>2. PICK m \in T : \A k \in T : <<k, m>> \notin OpToRel(<, Nat)
  BY <1>1
<1>3. \A k \in T : ~(k < m)
  BY <1>2, Zenon DEF OpToRel
<1>4. \A k \in T : m <= k
  BY <1>3
<1> QED
  BY <1>4

(* The marks of one evaluation, one alert after the other.                 *)
FoldBody(f, x, c, t) ==
  IF x = {} THEN c
  ELSE LET y == CHOOSE d \in x : TRUE IN SF!CT!Mark(f[x \ {y}], y, t)

IsFold(f, S, c, t) == f = [x \in SUBSET S |-> FoldBody(f, x, c, t)]

LEMMA MarkedIsFold ==
  ASSUME NEW S, NEW t, NEW f, IsFold(f, S, sfCooldown, t)
  PROVE  \E g : IsFold(g, S, sfCooldown, t) /\ SF!Marked(S, t) = g[S]
<1> DEFINE iter[x \in SUBSET S] == FoldBody(iter, x, sfCooldown, t)
<1>1. SF!Marked(S, t) = iter[S]
  BY DEF SF!Marked, SF!FoldSet, SF!MapThenFoldSet, FoldBody
<1>2. iter = CHOOSE g : g = [x \in SUBSET S |-> FoldBody(g, x, sfCooldown, t)]
  BY Zenon
<1>3. IsFold(iter, S, sfCooldown, t)
  BY <1>2, Zenon DEF IsFold
<1> QED
  BY <1>1, <1>3

Upto(S, m) == {x \in SUBSET S : Cardinality(x) <= m}

Partial(f, S, c, t, m) == f = [x \in Upto(S, m) |-> FoldBody(f, x, c, t)]

LEMMA FewerIsLess ==
  ASSUME NEW S, IsFiniteSet(S), NEW x \in SUBSET S, x # {}
  PROVE  LET y == CHOOSE d \in x : TRUE
         IN  /\ y \in x /\ x \ {y} \in SUBSET S /\ Cardinality(x) \in Nat
             /\ Cardinality(x \ {y}) = Cardinality(x) - 1
<1> DEFINE y == CHOOSE d \in x : TRUE
<1>1. IsFiniteSet(x) /\ y \in x
  BY FS_Subset
<1> HIDE DEF y
<1>2. Cardinality(x) \in Nat /\ Cardinality(x \ {y}) = Cardinality(x) - 1
  BY <1>1, FS_CardinalityType, FS_RemoveElement
<1> QED
  BY <1>1, <1>2 DEF y

LEMMA FoldExists ==
  ASSUME NEW S, IsFiniteSet(S), NEW c, NEW t
  PROVE  \E f : IsFold(f, S, c, t)
<1> DEFINE T == {m \in Nat : ~\E f : Partial(f, S, c, t, m)}
<1>1. T = {}
  <2> SUFFICES ASSUME T # {} PROVE FALSE
    OBVIOUS
  <2>1. PICK m \in T : \A k \in T : m <= k
    BY LeastOf
  <2>2. m \in Nat /\ \A f : ~Partial(f, S, c, t, m)
    BY <2>1
  <2>3. CASE m = 0
    <3> DEFINE f == [x \in Upto(S, 0) |-> c]
    <3>1. \A x \in Upto(S, 0) : x = {}
      <4> SUFFICES ASSUME NEW x \in SUBSET S, Cardinality(x) <= 0, x # {} PROVE FALSE
        BY DEF Upto
      <4>1. IsFiniteSet(x) /\ Cardinality(x) \in Nat
        BY FS_Subset, FS_CardinalityType
      <4>2. Cardinality(x) = 0
        BY <4>1
      <4> QED
        BY <4>1, <4>2, FS_EmptySet
    <3>2. Partial(f, S, c, t, 0)
      BY <3>1 DEF Partial, FoldBody
    <3> QED
      BY <2>2, <2>3, <3>2
  <2>4. CASE m # 0
    <3>1. m - 1 \in Nat /\ ~(m <= m - 1)
      BY <2>2, <2>4
    <3>2. PICK f : Partial(f, S, c, t, m - 1)
      BY <2>1, <3>1
    <3> DEFINE g == [x \in Upto(S, m) |-> FoldBody(f, x, c, t)]
    <3>3. ASSUME NEW x \in Upto(S, m), x # {}
          PROVE  LET y == CHOOSE d \in x : TRUE
                 IN  x \ {y} \in Upto(S, m) /\ x \ {y} \in Upto(S, m - 1)
      <4> DEFINE y == CHOOSE d \in x : TRUE
      <4>1. x \in SUBSET S /\ Cardinality(x) <= m
        BY DEF Upto
      <4>2. /\ x \ {y} \in SUBSET S /\ Cardinality(x) \in Nat
            /\ Cardinality(x \ {y}) = Cardinality(x) - 1
        BY <3>3, <4>1, FewerIsLess
      <4> HIDE DEF y
      <4>3. Cardinality(x \ {y}) <= m /\ Cardinality(x \ {y}) <= m - 1
        BY <2>2, <4>1, <4>2
      <4> QED
        BY <4>2, <4>3 DEF Upto, y
    <3>4. \A x \in Upto(S, m - 1) : f[x] = FoldBody(f, x, c, t)
      BY <3>2 DEF Partial
    <3>5. \A x \in Upto(S, m - 1) : x \in Upto(S, m)
      <4> SUFFICES ASSUME NEW x \in SUBSET S, Cardinality(x) <= m - 1 PROVE Cardinality(x) <= m
        BY DEF Upto
      <4>1. Cardinality(x) \in Nat
        BY FS_Subset, FS_CardinalityType
      <4> QED
        BY <2>2, <4>1
    <3>6. \A x \in Upto(S, m - 1) : g[x] = f[x]
      BY <3>4, <3>5
    <3>7. \A x \in Upto(S, m) : FoldBody(f, x, c, t) = FoldBody(g, x, c, t)
      <4> SUFFICES ASSUME NEW x \in Upto(S, m) PROVE FoldBody(f, x, c, t) = FoldBody(g, x, c, t)
        OBVIOUS
      <4> HIDE DEF g
      <4>1. CASE x = {}
        BY <4>1 DEF FoldBody
      <4>2. CASE x # {}
        <5> DEFINE y == CHOOSE d \in x : TRUE
        <5>1. g[x \ {y}] = f[x \ {y}]
          BY <3>3, <3>6, <4>2
        <5> QED
          BY <4>2, <5>1 DEF FoldBody
      <4> QED
        BY <4>1, <4>2
    <3>8. g = [x \in Upto(S, m) |-> FoldBody(g, x, c, t)]
      BY <3>7
    <3> HIDE DEF g
    <3>9. Partial(g, S, c, t, m)
      BY <3>8 DEF Partial
    <3> QED
      BY <2>2, <3>9
  <2> QED
    BY <2>3, <2>4
<1>2. Cardinality(S) \in Nat
  BY FS_CardinalityType
<1>3. PICK f : Partial(f, S, c, t, Cardinality(S))
  BY <1>1, <1>2
<1>4. Upto(S, Cardinality(S)) = SUBSET S
  <2>1. \A x \in SUBSET S : Cardinality(x) <= Cardinality(S)
    BY FS_Subset
  <2> QED
    BY <2>1 DEF Upto
<1> QED
  BY <1>3, <1>4 DEF Partial, IsFold
-----------------------------------------------------------------------------
(* SynFloodDetector: what is weighed, and what an evaluation reports.      *)
LEMMA FloodWindows ==
  /\ \A s : SF!SW!NewWindow(s) = NewWindow(s)
  /\ \A w, k : SF!SW!CountOf(w, k) = CountOf(w, k)
  /\ \A w, n, k : SF!SW!Add(w, n, k) = Add(w, n, k)
  /\ \A ws, k, s : SF!SW!WindowOf(ws, k, s) = WindowOf(ws, k, s)
  /\ \A ws, k, w : SF!SW!With(ws, k, w) = With(ws, k, w)
  /\ \A ws, n : SF!SW!PruneIdle(ws, n) = PruneIdle(ws, n)
  /\ \A w : SF!SW!Cleared(w) = NewWindow(w.seconds)
<1>1. \A s : SF!SW!NewWindow(s) = NewWindow(s)
  BY Zenon DEF SF!SW!NewWindow, NewWindow
<1>2. \A w, k : SF!SW!CountOf(w, k) = CountOf(w, k)
  BY DEF SF!SW!CountOf, CountOf
<1>3. \A log, n : SF!SW!Stale(log, n) = Stale(log, n)
  BY Zenon DEF SF!SW!Stale, Stale, SF!SW!Expired, Expired, SF!SW!Cardinality, Cardinality
<1>4. \A log, k : SF!SW!Occurrences(log, k) = Occurrences(log, k)
  BY Zenon DEF SF!SW!Occurrences, Occurrences, SF!SW!Cardinality, Cardinality
<1>5. \A w, n : SF!SW!Popped(w, n) = Popped(w, n)
  <2> SUFFICES ASSUME NEW w, NEW n PROVE SF!SW!Popped(w, n) = Popped(w, n)
    OBVIOUS
  <2> DEFINE front == SubSeq(w.log, 1, n)
             L1 == [k \in DOMAIN w.counts |-> w.counts[k] - SF!SW!Occurrences(front, k)]
             L2 == [k \in DOMAIN w.counts |-> w.counts[k] - Occurrences(front, k)]
  <2>1. L1 = L2
    BY <1>4
  <2>2. SF!SW!Popped(w, n)
          = [seconds |-> w.seconds, log |-> SubSeq(w.log, n + 1, Len(w.log)),
             counts |-> [k \in {j \in DOMAIN L1 : L1[j] > 0} |-> L1[k]]]
    BY Zenon DEF SF!SW!Popped, SF!SW!StillCounted
  <2>3. Popped(w, n)
          = [seconds |-> w.seconds, log |-> SubSeq(w.log, n + 1, Len(w.log)),
             counts |-> [k \in {j \in DOMAIN L2 : L2[j] > 0} |-> L2[k]]]
    BY Zenon DEF Popped, StillCounted
  <2> HIDE DEF L1, L2
  <2> QED
    BY <2>1, <2>2, <2>3
<1>6. \A w, n : SF!SW!Prune(w, n) = Prune(w, n)
  BY <1>3, <1>5 DEF SF!SW!Prune, Prune
<1>7. \A w, n, k : SF!SW!Add(w, n, k) = Add(w, n, k)
  <2>1. \A w, k : SF!SW!Counted(w, k) = Counted(w, k)
    BY <1>2 DEF SF!SW!Counted, Counted
  <2>2. \A w, n, k : SF!SW!Pushed(w, n, k) = Pushed(w, n, k)
    BY <2>1 DEF SF!SW!Pushed, Pushed
  <2> QED
    BY <1>6, <2>2 DEF SF!SW!Add, Add
<1>8. \A ws, k, s : SF!SW!WindowOf(ws, k, s) = WindowOf(ws, k, s)
  BY <1>1 DEF SF!SW!WindowOf, WindowOf
<1>9. \A ws, k, w : SF!SW!With(ws, k, w) = With(ws, k, w)
  BY Zenon DEF SF!SW!With, With
<1>10. \A ws, n : SF!SW!PruneIdle(ws, n) = PruneIdle(ws, n)
  BY <1>6 DEF SF!SW!PruneIdle, PruneIdle, SF!SW!NonEmpty, NonEmpty, SF!SW!IsEmpty, IsEmpty
<1>11. \A w : SF!SW!Cleared(w) = NewWindow(w.seconds)
  BY <1>1 DEF SF!SW!Cleared
<1> QED
  BY <1>1, <1>2, <1>7, <1>8, <1>9, <1>10, <1>11

LEMMA FloodSilence ==
  /\ \A c, k, t : SF!CT!IsCooling(c, k, t) <=> Cooling(c, k, t, FloodCooldown)
  /\ \A c, key, n : n \in Int /\ Timely(c, n) =>
       MarkedIn(c, SF!CT!Mark(c, key, n), key, n, FloodCooldown)
<1>1. \A c, k, t : SF!CT!IsCooling(c, k, t) <=> Cooling(c, k, t, FloodCooldown)
  BY DEF SF!CT!IsCooling, Cooling
<1>2. ASSUME NEW c, NEW key, NEW n \in Int, Timely(c, n)
      PROVE  MarkedIn(c, SF!CT!Mark(c, key, n), key, n, FloodCooldown)
  <2> DEFINE marked == SF!CT!Stamped(c.last, key, n)
             pruned == SF!CT!Prune(marked, n)
             d == SF!CT!Mark(c, key, n)
  <2>1. marked = Noted(c.last, key, n)
    BY DEF SF!CT!Stamped, Noted
  <2>2. pruned = NotBefore(marked, n - FloodCooldown)
    <3> HIDE DEF marked
    <3> QED
      BY DEF SF!CT!Prune, SF!CT!Cutoff, NotBefore
  <2>3. d.last = marked \/ d.last = pruned
    <3> HIDE DEF marked, pruned
    <3>1. d = [last |-> pruned, lastPrune |-> n] \/ d = [last |-> marked, lastPrune |-> c.lastPrune]
      BY DEF SF!CT!Mark, marked, pruned
    <3> HIDE DEF d
    <3> QED
      BY <3>1
  <2> HIDE DEF marked, pruned, d
  <2>4. MarkedIn(c, d, key, n, FloodCooldown)
    BY <1>2, <2>1, <2>2, <2>3, FloodParams, MarkSilences
  <2> QED
    BY <2>4 DEF d
<1> QED
  BY <1>1, <1>2

(* d is c with all of x marked at n.                                       *)
MarkedAll(c, d, x, n, P) ==
  /\ Timely(d, n) /\ MarkedOnly(c, d, x, n)
  /\ \A k : \A t \in Int : t >= n =>
       (Cooling(d, k, t, P) <=> (k \in x /\ t - n < P) \/ Cooling(c, k, t, P))

LEMMA MarkOneMore ==
  ASSUME NEW c, NEW d, NEW x, NEW y \in x, NEW n \in Int,
         MarkedAll(c, d, x \ {y}, n, FloodCooldown)
  PROVE  MarkedAll(c, SF!CT!Mark(d, y, n), x, n, FloodCooldown)
<1> DEFINE e == SF!CT!Mark(d, y, n)
<1>1. MarkedIn(d, e, y, n, FloodCooldown)
  BY FloodSilence DEF MarkedAll
<1> HIDE DEF e
<1>2. \A k : k \in x <=> k = y \/ k \in x \ {y}
  OBVIOUS
<1>3. MarkedAll(c, e, x, n, FloodCooldown)
  BY <1>1, <1>2 DEF MarkedAll, MarkedIn, MarkedOnly
<1> QED
  BY <1>3 DEF e

LEMMA MarkedSilences ==
  ASSUME NEW S, IsFiniteSet(S), NEW n \in Int, Timely(sfCooldown, n)
  PROVE  MarkedAll(sfCooldown, SF!Marked(S, n), S, n, FloodCooldown)
<1>1. PICK f : IsFold(f, S, sfCooldown, n)
  BY FoldExists
<1>2. PICK g : IsFold(g, S, sfCooldown, n) /\ SF!Marked(S, n) = g[S]
  BY <1>1, MarkedIsFold
<1> DEFINE Bad(x) == ~MarkedAll(sfCooldown, g[x], x, n, FloodCooldown)
           T == {m \in Nat : \E x \in SUBSET S : Cardinality(x) = m /\ Bad(x)}
<1>3. T = {}
  <2> SUFFICES ASSUME T # {} PROVE FALSE
    OBVIOUS
  <2>1. PICK m \in T : \A k \in T : m <= k
    BY LeastOf
  <2>2. PICK x \in SUBSET S : Cardinality(x) = m /\ Bad(x)
    BY <2>1
  <2>3. g[x] = FoldBody(g, x, sfCooldown, n)
    BY <1>2 DEF IsFold
  <2>4. CASE x = {}
    <3>1. g[x] = sfCooldown
      BY <2>3, <2>4 DEF FoldBody
    <3>2. MarkedAll(sfCooldown, sfCooldown, x, n, FloodCooldown)
      BY <2>4 DEF MarkedAll, MarkedOnly
    <3> QED
      BY <2>2, <3>1, <3>2
  <2>5. CASE x # {}
    <3> DEFINE y == CHOOSE d \in x : TRUE
               z == x \ {y}
    <3>1. /\ y \in x /\ z \in SUBSET S /\ Cardinality(x) \in Nat
          /\ Cardinality(z) = Cardinality(x) - 1
      BY <2>5, FewerIsLess
    <3>2. g[x] = SF!CT!Mark(g[z], y, n)
      BY <2>3, <2>5 DEF FoldBody
    <3> HIDE DEF y
    <3>3. m \in Nat /\ m - 1 \in Nat /\ ~(m <= m - 1) /\ Cardinality(z) = m - 1
      <4>1. IsFiniteSet(z)
        BY <3>1, FS_Subset
      <4>2. Cardinality(z) \in Nat
        BY <4>1, FS_CardinalityType
      <4> QED
        BY <2>2, <3>1, <4>2
    <3>4. m - 1 \notin T
      BY <2>1, <3>3
    <3>5. ~Bad(z)
      BY <3>1, <3>3, <3>4
    <3> HIDE DEF z
    <3>6. z = x \ {y}
      BY DEF z
    <3>7. MarkedAll(sfCooldown, g[x], x, n, FloodCooldown)
      BY <3>1, <3>2, <3>5, <3>6, MarkOneMore
    <3> QED
      BY <2>2, <3>7
  <2> QED
    BY <2>4, <2>5
<1>4. Cardinality(S) \in Nat /\ S \in SUBSET S
  BY FS_CardinalityType
<1>5. ~Bad(S)
  BY <1>3, <1>4
<1> QED
  BY <1>2, <1>5

FloodFlags == {"S", "A"}

Sent(h, target, flag) == {j \in 1 .. Len(h) : h[j].target = target /\ h[j].flag = flag}

ToldIn(r, target) == IF target \in DOMAIN r.told THEN r.told[target] ELSE "none"

Locking(rs, target, t) ==
  \E m \in 1 .. Len(rs) : ToldIn(rs[m], target) # "none" /\ t - rs[m].ts < FloodCooldown

Locked(rs, n, target) ==
  \E m \in 1 .. n - 1 : ToldIn(rs[m], target) # "none" /\ rs[n].ts - rs[m].ts < FloodCooldown

WeighedBy(h, r, target, flag) ==
  Cardinality({i \in 1 .. r.after : /\ h[i].target = target /\ h[i].flag = flag
                                    /\ h[i].ts >= r.ts - FloodWindow})

Verdict(syn, ack) ==
  LET one == IF ack = 0 THEN 1 ELSE ack
  IN  CASE syn < MinSyn \/ syn <= one * RatioMedium -> "none"
        [] syn >= MinSyn /\ syn > one * RatioHigh   -> "HIGH"
        [] OTHER                                    -> "MEDIUM"

ReportRight(h, rs, n) ==
  \A target :
    ToldIn(rs[n], target) =
      IF Locked(rs, n, target) THEN "none"
      ELSE Verdict(WeighedBy(h, rs[n], target, "S"), WeighedBy(h, rs[n], target, "A"))

LEMMA FloodsByReport ==
  ASSUME \A n \in 1 .. Len(sfReports) : ReportRight(sfHistory, sfReports, n)
  PROVE  FloodsExact
<1>1. \A n, target : SF!Told(n, target) = ToldIn(sfReports[n], target)
  BY DEF SF!Told, ToldIn
<1>2. \A n, target : SF!Quiet(n, target) <=> Locked(sfReports, n, target)
  BY <1>1 DEF SF!Quiet, Locked
<1>3. \A n, target, flag : SF!Weighed(n, target, flag) = WeighedBy(sfHistory, sfReports[n], target, flag)
  <2>1. \A S : SF!Cardinality(S) = Cardinality(S)
    BY Zenon DEF SF!Cardinality, Cardinality
  <2> QED
    BY <2>1 DEF SF!Weighed, WeighedBy
<1>4. ASSUME NEW n, NEW target
      PROVE  SF!Deserved(n, target) = Verdict(WeighedBy(sfHistory, sfReports[n], target, "S"),
                                              WeighedBy(sfHistory, sfReports[n], target, "A"))
  BY <1>3 DEF SF!Deserved, Verdict
<1>5. ASSUME NEW n \in 1 .. Len(sfReports), NEW target
      PROVE  SF!Told(n, target) = IF SF!Quiet(n, target) THEN "none" ELSE SF!Deserved(n, target)
  BY <1>1, <1>2, <1>4 DEF ReportRight
<1> QED
  BY <1>5 DEF FloodsExact, SF!ReportsExact

(* The two ways to say what a ratio deserves agree.                        *)
LEMMA VerdictIsSeverity ==
  ASSUME NEW syn \in Nat, NEW ack \in Nat
  PROVE  /\ SF!Severity(syn, ack) = Verdict(syn, ack)
         /\ Verdict(0, 0) = "none"
<1> DEFINE one == IF ack = 0 THEN 1 ELSE ack
           mid == one * RatioMedium
           top == one * RatioHigh
<1>1. /\ RatioMedium \in Nat /\ RatioHigh \in Nat /\ RatioMedium <= RatioHigh /\ MinSyn \in Nat
  BY FloodParams
<1>2. one \in Nat /\ (IF ack > 1 THEN ack ELSE 1) = one
  OBVIOUS
<1> HIDE DEF one
<1>3. RatioHigh * one = top /\ RatioMedium * one = mid
  BY <1>1, <1>2
<1>4. mid \in Nat /\ top \in Nat /\ mid <= top
  BY <1>1, <1>2
<1> HIDE DEF mid, top
<1>5. /\ SF!Exceeds(syn, ack, RatioHigh) <=> syn > top
      /\ SF!Exceeds(syn, ack, RatioMedium) <=> syn > mid
  BY <1>2, <1>3 DEF SF!Exceeds
<1>6. Verdict(syn, ack) = CASE syn < MinSyn \/ syn <= mid -> "none"
                            [] syn >= MinSyn /\ syn > top -> "HIGH"
                            [] OTHER                      -> "MEDIUM"
  BY DEF Verdict, one, mid, top
<1>7. SF!Severity(syn, ack) = Verdict(syn, ack)
  BY <1>1, <1>4, <1>5, <1>6 DEF SF!Severity, SF!Enough
<1>8. Verdict(0, 0) = "none"
  BY <1>1 DEF Verdict
<1> QED
  BY <1>7, <1>8

(* The window of a target at time n holds its SYNs and ACKs, but for some  *)
(* that have expired.                                                      *)
Weighing(w, h, target, n) ==
  /\ Good(w, FloodWindow, FloodFlags, n)
  /\ \A flag \in FloodFlags : Tracks(w, FloodWindow, FloodFlags, flag, h, Sent(h, target, flag), n)

(* _cooldown silences the targets reported less than a cooldown ago.       *)
Locks(c, rs, n) ==
  /\ Timely(c, n)
  /\ \A k : \A t \in Int : t >= n => (Cooling(c, k, t, FloodCooldown) <=> Locking(rs, k, t))

FloodInv ==
  /\ Clocked
  /\ Chronicle(sfHistory, now) /\ Chronicle(sfReports, now)
  /\ IsFiniteSet(DOMAIN sfWindows)
  /\ Locks(sfCooldown, sfReports, now)
  /\ \A target : Weighing(WindowOf(sfWindows, target, FloodWindow), sfHistory, target, now)
  /\ \A n \in 1 .. Len(sfReports) :
       /\ sfReports[n].after \in 0 .. Len(sfHistory)
       /\ ReportRight(sfHistory, sfReports, n)

LEMMA SentIsSome == \A h, target, flag : Sent(h, target, flag) \in SUBSET (1 .. Len(h))
BY DEF Sent

LEMMA SentGrows ==
  ASSUME NEW h, NEW g, Extends(h, g), NEW target, NEW flag
  PROVE  Sent(g, target, flag) =
           IF g[Len(g)].target = target /\ g[Len(g)].flag = flag
           THEN Sent(h, target, flag) \cup {Len(g)} ELSE Sent(h, target, flag)
<1>1. /\ \A j : j \in 1 .. Len(g) <=> j \in 1 .. Len(h) \/ j = Len(g)
      /\ \A j \in 1 .. Len(h) : g[j] = h[j]
  BY DEF Extends
<1>2. \A j : j \in Sent(g, target, flag) <=>
               j \in Sent(h, target, flag) \/ (j = Len(g) /\ g[Len(g)].target = target /\ g[Len(g)].flag = flag)
  BY <1>1 DEF Sent
<1>3. CASE g[Len(g)].target = target /\ g[Len(g)].flag = flag
  BY <1>2, <1>3
<1>4. CASE ~(g[Len(g)].target = target /\ g[Len(g)].flag = flag)
  BY <1>2, <1>4
<1> QED
  BY <1>3, <1>4

LEMMA WeighingKept ==
  ASSUME NEW target, NEW w, NEW v, NEW h, NEW n \in Int, NEW l \in Int, n <= l,
         Weighing(w, h, target, n),
         Good(w, FloodWindow, FloodFlags, l) => Kept(w, v, FloodWindow, FloodFlags, l)
  PROVE  Weighing(v, h, target, l)
<1>1. FloodWindow \in Int
  BY FloodParams
<1>2. Good(w, FloodWindow, FloodFlags, l)
  BY GoodLater DEF Weighing
<1>3. Kept(w, v, FloodWindow, FloodFlags, l)
  BY <1>2
<1>4. ASSUME NEW flag \in FloodFlags
      PROVE  Tracks(v, FloodWindow, FloodFlags, flag, h, Sent(h, target, flag), l)
  <2> DEFINE J == Sent(h, target, flag)
  <2>1. Tracks(w, FloodWindow, FloodFlags, flag, h, J, n)
    BY DEF Weighing
  <2> HIDE DEF J
  <2>2. Tracks(v, FloodWindow, FloodFlags, flag, h, J, l)
    BY <1>1, <1>3, <2>1, TracksKept
  <2> QED
    BY <2>2 DEF J
<1> QED
  BY <1>3, <1>4 DEF Weighing, Kept

(* A packet that does not count for a window's target, or at all.          *)
LEMMA WeighingSame ==
  ASSUME NEW h, NEW g, Extends(h, g), NEW target, NEW w, NEW n, Weighing(w, h, target, n),
         \A flag \in FloodFlags : ~(g[Len(g)].target = target /\ g[Len(g)].flag = flag)
  PROVE  Weighing(w, g, target, n)
<1>1. ASSUME NEW flag \in FloodFlags
      PROVE  Tracks(w, FloodWindow, FloodFlags, flag, g, Sent(g, target, flag), n)
  <2> DEFINE J == Sent(h, target, flag)
  <2>1. Sent(g, target, flag) = J
    BY SentGrows
  <2>2. Tracks(w, FloodWindow, FloodFlags, flag, h, J, n)
    BY DEF Weighing
  <2>3. \A j \in J : g[j] = h[j]
    BY SentIsSome DEF Extends
  <2> HIDE DEF J
  <2> QED
    BY <2>1, <2>2, <2>3, TracksSame
<1> QED
  BY <1>1 DEF Weighing

(* One that counts.                                                        *)
LEMMA WeighingGrown ==
  ASSUME NEW n \in Int, NEW h, NEW g, Extends(h, g), Chronicle(h, n), NEW target,
         NEW flag \in FloodFlags, g[Len(g)].target = target, g[Len(g)].flag = flag,
         g[Len(g)].ts = n, NEW u, Weighing(u, h, target, n)
  PROVE  Weighing(Add(u, n, flag), g, target, n)
<1> DEFINE w == Add(u, n, flag)
           J == Sent(h, target, flag)
<1>1. FloodWindow \in Nat /\ FloodWindow \in Int
  BY FloodParams
<1>2. Grown(u, w, FloodWindow, FloodFlags, n, flag)
  BY <1>1, AddGood DEF Weighing
<1> HIDE DEF w
<1>3. TracksExactly(w, FloodWindow, FloodFlags, flag, g, J \cup {Len(g)}, n)
  <2>1. J \in SUBSET (1 .. Len(h)) /\ Tracks(u, FloodWindow, FloodFlags, flag, h, J, n)
    BY SentIsSome DEF Weighing
  <2>2. Len(g) = Len(h) + 1 /\ \A j \in 1 .. Len(h) : g[j] = h[j]
    BY DEF Extends
  <2> HIDE DEF J
  <2> QED
    BY <1>1, <1>2, <2>1, <2>2, TracksGrown
<1>4. Sent(g, target, flag) = J \cup {Len(g)}
  BY SentGrows
<1>5. ASSUME NEW k \in FloodFlags
      PROVE  Tracks(w, FloodWindow, FloodFlags, k, g, Sent(g, target, k), n)
  <2>1. CASE k = flag
    <3> HIDE DEF J
    <3>1. Tracks(w, FloodWindow, FloodFlags, flag, g, J \cup {Len(g)}, n)
      BY <1>3 DEF TracksExactly
    <3> QED
      BY <1>4, <2>1, <3>1
  <2>2. CASE k # flag
    <3> DEFINE I == Sent(h, target, k)
    <3>1. Sent(g, target, k) = I
      BY <2>2, SentGrows
    <3>2. Tracks(u, FloodWindow, FloodFlags, k, h, I, n)
      BY DEF Weighing
    <3>3. I \in SUBSET (1 .. Len(h))
      BY SentIsSome
    <3> HIDE DEF I
    <3>4. Tracks(w, FloodWindow, FloodFlags, k, h, I, n)
      BY <1>1, <1>2, <2>2, <3>2, <3>3, TracksOther
    <3>5. \A j \in I : g[j] = h[j]
      BY <3>3 DEF Extends
    <3>6. Tracks(w, FloodWindow, FloodFlags, k, g, I, n)
      BY <3>4, <3>5, TracksSame
    <3> QED
      BY <3>1, <3>6
  <2> QED
    BY <2>1, <2>2
<1>6. Weighing(w, g, target, n)
  BY <1>2, <1>5 DEF Weighing, Grown
<1> QED
  BY <1>6 DEF w

(* The packet is counted.                                                  *)
LEMMA AddedWeighing ==
  ASSUME FloodInv, Clocked', now <= now', NEW target, NEW flag,
         NEW g, Extends(sfHistory, g), g[Len(g)].target = target, g[Len(g)].flag = flag,
         g[Len(g)].ts = now'
  PROVE  LET ws == SF!Added(target, flag, now')
         IN  /\ IsFiniteSet(DOMAIN ws)
             /\ \A t : Weighing(WindowOf(ws, t, FloodWindow), g, t, now')
<1> DEFINE h == sfHistory
           ws == SF!Added(target, flag, now')
           u == WindowOf(sfWindows, target, FloodWindow)
           w == Add(u, now', flag)
<1>1. now \in Int /\ now' \in Int /\ Chronicle(h, now')
  BY ChronicleLater DEF FloodInv, Clocked
<1>2. \A t : Weighing(WindowOf(sfWindows, t, FloodWindow), h, t, now')
  <2> SUFFICES ASSUME NEW t PROVE Weighing(WindowOf(sfWindows, t, FloodWindow), h, t, now')
    OBVIOUS
  <2> DEFINE v == WindowOf(sfWindows, t, FloodWindow)
  <2>1. Weighing(v, h, t, now)
    BY DEF FloodInv
  <2> HIDE DEF v
  <2>2. Weighing(v, h, t, now')
    BY <1>1, <2>1, KeptSelf, WeighingKept
  <2> QED
    BY <2>2 DEF v
<1>3. CASE flag \in FloodFlags
  <2>1. ws = With(sfWindows, target, w)
    <3>1. SF!SW!WindowOf(sfWindows, target, FloodWindow) = u
      BY FloodWindows
    <3> HIDE DEF u
    <3>2. SF!SW!Add(u, now', flag) = w
      BY FloodWindows
    <3> HIDE DEF w
    <3>3. SF!SW!With(sfWindows, target, w) = With(sfWindows, target, w)
      BY FloodWindows
    <3> QED
      BY <1>3, <3>1, <3>2, <3>3 DEF SF!Added, SF!Tracked, FloodFlags
  <2>2. Weighing(w, g, target, now')
    <3>1. Weighing(u, h, target, now')
      BY <1>2
    <3> HIDE DEF h, u
    <3> QED
      BY <1>1, <1>3, <3>1, WeighingGrown DEF h
  <2> HIDE DEF w, ws
  <2>3. \A t : WindowOf(ws, t, FloodWindow) = IF t = target THEN w ELSE WindowOf(sfWindows, t, FloodWindow)
    BY <2>1, WithWindow
  <2>4. ASSUME NEW t PROVE Weighing(WindowOf(ws, t, FloodWindow), g, t, now')
    <3>1. CASE t = target
      BY <2>2, <2>3, <3>1
    <3>2. CASE t # target
      <4> DEFINE v == WindowOf(sfWindows, t, FloodWindow)
      <4>1. Weighing(v, h, t, now') /\ WindowOf(ws, t, FloodWindow) = v
        BY <1>2, <2>3, <3>2
      <4> HIDE DEF v
      <4>2. Weighing(v, g, t, now')
        BY <3>2, <4>1, WeighingSame
      <4> QED
        BY <4>1, <4>2
    <3> QED
      BY <3>1, <3>2
  <2>5. IsFiniteSet(DOMAIN ws)
    <3>1. DOMAIN ws = DOMAIN sfWindows \cup {target}
      BY <2>1 DEF With
    <3>2. IsFiniteSet(DOMAIN sfWindows)
      BY DEF FloodInv
    <3> QED
      BY <3>1, <3>2, FS_AddElement
  <2> QED
    BY <2>4, <2>5 DEF ws
<1>4. CASE flag \notin FloodFlags
  <2>1. ws = sfWindows
    BY <1>4 DEF SF!Added, SF!Tracked, FloodFlags
  <2>2. ASSUME NEW t PROVE Weighing(WindowOf(sfWindows, t, FloodWindow), g, t, now')
    <3> DEFINE v == WindowOf(sfWindows, t, FloodWindow)
    <3>1. Weighing(v, h, t, now')
      BY <1>2
    <3> HIDE DEF v
    <3>2. Weighing(v, g, t, now')
      BY <1>4, <3>1, WeighingSame
    <3> QED
      BY <3>2 DEF v
  <2> QED
    BY <2>1, <2>2 DEF FloodInv
<1> QED
  BY <1>3, <1>4

(* An evaluation prunes: what is left is what it has to weigh.             *)
LEMMA LiveWeighing ==
  ASSUME NEW n \in Int, NEW h, NEW ws, IsFiniteSet(DOMAIN ws),
         \A t : Weighing(WindowOf(ws, t, FloodWindow), h, t, n)
  PROVE  LET live == SF!Live(ws, n)
         IN  /\ IsFiniteSet(DOMAIN live)
             /\ \A t : Weighing(WindowOf(live, t, FloodWindow), h, t, n)
             /\ \A t : \A flag \in FloodFlags :
                  CountOf(WindowOf(live, t, FloodWindow), flag)
                    = Counting(h, Sent(h, t, flag), n - FloodWindow)
<1> DEFINE live == PruneIdle(ws, n)
<1>1. SF!Live(ws, n) = live
  BY FloodWindows DEF SF!Live
<1>2. DOMAIN live \subseteq DOMAIN ws /\ \A t \in DOMAIN live : live[t] = Prune(ws[t], n)
  BY DEF PruneIdle, NonEmpty
<1>3. IsFiniteSet(DOMAIN live)
  BY <1>2, FS_Subset
<1>4. FloodWindow \in Int
  BY FloodParams
<1>5. ASSUME NEW t
      PROVE  /\ Weighing(WindowOf(live, t, FloodWindow), h, t, n)
             /\ \A flag \in FloodFlags : CountOf(WindowOf(live, t, FloodWindow), flag)
                                           = Counting(h, Sent(h, t, flag), n - FloodWindow)
  <2> DEFINE w == WindowOf(ws, t, FloodWindow)
             v == WindowOf(live, t, FloodWindow)
  <2>1. Weighing(w, h, t, n)
    OBVIOUS
  <2>2. Kept(w, v, FloodWindow, FloodFlags, n)
    BY <1>4, <2>1, SweepGood DEF Weighing
  <2>3. Fresh(v, FloodWindow, n)
    <3>1. CASE t \in DOMAIN live
      <4>1. v = Prune(ws[t], n) /\ w = ws[t]
        BY <1>2, <3>1 DEF WindowOf
      <4>2. Good(ws[t], FloodWindow, FloodFlags, n)
        BY <2>1, <4>1 DEF Weighing
      <4> QED
        BY <1>4, <4>1, <4>2, PruneGood
    <3>2. CASE t \notin DOMAIN live
      <4>1. v.log = <<>>
        BY <3>2 DEF WindowOf, NewWindow
      <4>2. Len(<<>>) = 0 /\ 1 .. 0 = {}
        BY EmptySeq
      <4> HIDE DEF v
      <4> QED
        BY <4>1, <4>2 DEF Fresh
    <3> QED
      BY <3>1, <3>2
  <2> HIDE DEF v, w, live
  <2>4. Weighing(v, h, t, n)
    BY <2>1, <2>2, WeighingKept
  <2>5. Exact(v, FloodWindow, FloodFlags, n)
    BY <1>4, <2>2, <2>3, FreshExact DEF Kept
  <2>6. ASSUME NEW flag \in FloodFlags
        PROVE  CountOf(v, flag) = Counting(h, Sent(h, t, flag), n - FloodWindow)
    <3>1. CountOf(v, flag) = Hits(v.log, Since(FloodFlags, flag, n - FloodWindow))
      BY <2>5 DEF Exact
    <3>2. n - FloodWindow \in Int /\ n - FloodWindow >= n - FloodWindow
      BY <1>4
    <3> QED
      BY <2>4, <3>1, <3>2 DEF Weighing, Tracks
  <2> QED
    BY <2>4, <2>6 DEF v
<1> HIDE DEF live
<1> QED
  BY <1>1, <1>3, <1>5

(* Whom the evaluation reports.                                            *)
LEMMA ReportedIs ==
  ASSUME NEW n \in Int, NEW h, Chronicle(h, n), NEW live,
         \A t : \A flag \in FloodFlags :
           CountOf(WindowOf(live, t, FloodWindow), flag)
             = Counting(h, Sent(h, t, flag), n - FloodWindow),
         NEW r, r.told = SF!Reported(live, n), NEW target
  PROVE  ToldIn(r, target) =
           IF Cooling(sfCooldown, target, n, FloodCooldown) THEN "none"
           ELSE Verdict(Counting(h, Sent(h, target, "S"), n - FloodWindow),
                        Counting(h, Sent(h, target, "A"), n - FloodWindow))
<1> DEFINE syn == Counting(h, Sent(h, target, "S"), n - FloodWindow)
           ack == Counting(h, Sent(h, target, "A"), n - FloodWindow)
<1>1. syn \in Nat /\ ack \in Nat
  BY SentIsSome, CountingType
<1>2. /\ CountOf(WindowOf(live, target, FloodWindow), "S") = syn
      /\ CountOf(WindowOf(live, target, FloodWindow), "A") = ack
  BY DEF FloodFlags
<1> HIDE DEF syn, ack
<1>3. SF!Severity(syn, ack) = Verdict(syn, ack) /\ Verdict(0, 0) = "none"
  BY <1>1, VerdictIsSeverity
<1>4. ToldIn(r, target) = IF target \in DOMAIN live THEN SF!Judged(target, live[target], n) ELSE "none"
  <2> DEFINE As == [d \in DOMAIN live |-> SF!Judged(d, live[d], n)]
  <2>1. r.told = [d \in {e \in DOMAIN live : As[e] # "none"} |-> As[d]]
    BY Zenon DEF SF!Reported
  <2>2. \A d \in DOMAIN live : As[d] = SF!Judged(d, live[d], n)
    OBVIOUS
  <2> HIDE DEF As
  <2> QED
    BY <2>1, <2>2 DEF ToldIn
<1>5. CASE target \in DOMAIN live
  <2>1. WindowOf(live, target, FloodWindow) = live[target]
    BY <1>5 DEF WindowOf
  <2>2. SF!SW!CountOf(live[target], "S") = syn /\ SF!SW!CountOf(live[target], "A") = ack
    BY <1>2, <2>1, FloodWindows
  <2>3. SF!Judged(target, live[target], n)
          = IF Cooling(sfCooldown, target, n, FloodCooldown) THEN "none" ELSE SF!Severity(syn, ack)
    BY <2>2, FloodSilence DEF SF!Judged
  <2> QED
    BY <1>3, <1>4, <1>5, <2>3 DEF syn, ack
<1>6. CASE target \notin DOMAIN live
  <2>1. syn = 0 /\ ack = 0
    BY <1>2, <1>6 DEF WindowOf, NewWindow, CountOf
  <2> QED
    BY <1>3, <1>4, <1>6, <2>1 DEF syn, ack
<1> QED
  BY <1>5, <1>6

(* What was right stays right.                                             *)
LEMMA ReportRightStays ==
  ASSUME NEW h, NEW g, Len(h) \in Nat, \A j \in 1 .. Len(h) : g[j] = h[j],
         NEW rs, NEW qs, Len(rs) \in Nat, \A m \in 1 .. Len(rs) : qs[m] = rs[m],
         NEW n \in 1 .. Len(rs), rs[n].after \in 0 .. Len(h), ReportRight(h, rs, n)
  PROVE  ReportRight(g, qs, n)
<1>1. qs[n] = rs[n] /\ \A m \in 1 .. n - 1 : qs[m] = rs[m]
  OBVIOUS
<1>2. \A target : Locked(qs, n, target) <=> Locked(rs, n, target)
  BY <1>1 DEF Locked
<1>3. \A j \in 1 .. rs[n].after : g[j] = h[j]
  OBVIOUS
<1>4. \A target, flag : WeighedBy(g, qs[n], target, flag) = WeighedBy(h, rs[n], target, flag)
  BY <1>1, <1>3 DEF WeighedBy
<1> QED
  BY <1>1, <1>2, <1>4 DEF ReportRight

LEMMA LocksLater ==
  ASSUME NEW c, NEW rs, NEW n \in Int, NEW m \in Int, n <= m, Locks(c, rs, n)
  PROVE  Locks(c, rs, m)
<1>1. Timely(c, m)
  BY TimelyLater DEF Locks
<1>2. \A t \in Int : t >= m => t >= n
  OBVIOUS
<1> QED
  BY <1>1, <1>2 DEF Locks

LEMMA LockingGrows ==
  ASSUME NEW rs, NEW qs, Extends(rs, qs), NEW target, NEW t
  PROVE  /\ Locking(qs, target, t) <=>
              \/ Locking(rs, target, t)
              \/ ToldIn(qs[Len(qs)], target) # "none" /\ t - qs[Len(qs)].ts < FloodCooldown
         /\ Locked(qs, Len(qs), target) <=> Locking(rs, target, qs[Len(qs)].ts)
<1>1. /\ \A j : j \in 1 .. Len(qs) <=> j \in 1 .. Len(rs) \/ j = Len(qs)
      /\ \A j \in 1 .. Len(rs) : qs[j] = rs[j]
      /\ Len(qs) - 1 = Len(rs)
  BY DEF Extends
<1>2. Locking(qs, target, t) <=>
        \/ Locking(rs, target, t)
        \/ ToldIn(qs[Len(qs)], target) # "none" /\ t - qs[Len(qs)].ts < FloodCooldown
  BY <1>1 DEF Locking
<1>3. Locked(qs, Len(qs), target) <=> Locking(rs, target, qs[Len(qs)].ts)
  BY <1>1 DEF Locked, Locking
<1> QED
  BY <1>2, <1>3

(* A TCP packet that causes no evaluation.                                 *)
LEMMA CountedTraffic ==
  ASSUME FloodInv, Clocked', now <= now', NEW target, NEW flag,
         Extends(sfHistory, sfHistory'), Chronicle(sfHistory', now'),
         sfHistory'[Len(sfHistory')].target = target, sfHistory'[Len(sfHistory')].flag = flag,
         sfHistory'[Len(sfHistory')].ts = now',
         sfWindows' = SF!Added(target, flag, now'), sfCooldown' = sfCooldown,
         sfReports' = sfReports
  PROVE  FloodInv'
<1> DEFINE h == sfHistory
           g == sfHistory'
<1>1. now \in Int /\ now' \in Int
  BY DEF FloodInv, Clocked
<1>2. /\ IsFiniteSet(DOMAIN sfWindows')
      /\ \A t : Weighing(WindowOf(sfWindows', t, FloodWindow), g, t, now')
  BY AddedWeighing
<1>3. Chronicle(sfReports, now') /\ Locks(sfCooldown, sfReports, now')
  BY <1>1, ChronicleLater, LocksLater DEF FloodInv
<1>4. Len(h) \in Nat /\ Len(g) = Len(h) + 1 /\ \A j \in 1 .. Len(h) : g[j] = h[j]
  BY DEF Extends
<1>5. Len(sfReports) \in Nat
  BY <1>3, ChronicleFacts
<1>6. ASSUME NEW n \in 1 .. Len(sfReports)
      PROVE  sfReports[n].after \in 0 .. Len(g) /\ ReportRight(g, sfReports, n)
  <2>1. sfReports[n].after \in 0 .. Len(h) /\ ReportRight(h, sfReports, n)
    BY DEF FloodInv
  <2>2. sfReports[n].after \in 0 .. Len(g)
    BY <1>4, <2>1
  <2> HIDE DEF g, h
  <2>3. ReportRight(g, sfReports, n)
    BY <1>4, <1>5, <2>1, ReportRightStays
  <2> QED
    BY <2>2, <2>3
<1> QED
  BY <1>2, <1>3, <1>6 DEF FloodInv

(* One that causes an evaluation.                                          *)
LEMMA EvaluatedTraffic ==
  ASSUME FloodInv, Clocked', now <= now', NEW target, NEW flag,
         Extends(sfHistory, sfHistory'), Chronicle(sfHistory', now'),
         sfHistory'[Len(sfHistory')].target = target, sfHistory'[Len(sfHistory')].flag = flag,
         sfHistory'[Len(sfHistory')].ts = now',
         SF!EvaluateAll(SF!Live(SF!Added(target, flag, now'), now'))
  PROVE  FloodInv'
<1> DEFINE h == sfHistory
           g == sfHistory'
           ws == SF!Added(target, flag, now')
           live == SF!Live(ws, now')
           told == SF!Reported(live, now')
           r == [ts |-> now', after |-> Len(g), told |-> told]
           rs == sfReports
           qs == sfReports'
           Syn(t) == Counting(g, Sent(g, t, "S"), now' - FloodWindow)
           Ack(t) == Counting(g, Sent(g, t, "A"), now' - FloodWindow)
<1>1. now \in Int /\ now' \in Int
  BY DEF FloodInv, Clocked
<1>2. sfWindows' = live /\ sfCooldown' = SF!Marked(DOMAIN told, now') /\ qs = Append(rs, r)
  BY Zenon DEF SF!EvaluateAll, SF!Evaluate
<1>3. /\ IsFiniteSet(DOMAIN ws)
      /\ \A t : Weighing(WindowOf(ws, t, FloodWindow), g, t, now')
  BY AddedWeighing
<1> HIDE DEF ws
<1>4. /\ IsFiniteSet(DOMAIN live)
      /\ \A t : Weighing(WindowOf(live, t, FloodWindow), g, t, now')
      /\ \A t : \A f \in FloodFlags :
           CountOf(WindowOf(live, t, FloodWindow), f) = Counting(g, Sent(g, t, f), now' - FloodWindow)
  BY <1>1, <1>3, LiveWeighing
<1> HIDE DEF live
<1>5. DOMAIN told \subseteq DOMAIN live /\ \A t \in DOMAIN told : told[t] # "none"
  <2> DEFINE As == [d \in DOMAIN live |-> SF!Judged(d, live[d], now')]
  <2>1. told = [d \in {e \in DOMAIN live : As[e] # "none"} |-> As[d]]
    BY Zenon DEF SF!Reported
  <2> HIDE DEF As, told
  <2> QED
    BY <2>1
<1>6. IsFiniteSet(DOMAIN told)
  <2> HIDE DEF told
  <2> QED
    BY <1>4, <1>5, FS_Subset
<1>7. r.ts = now' /\ r.after = Len(g) /\ r.told = told
  OBVIOUS
<1>8. \A t : ToldIn(r, t) # "none" <=> t \in DOMAIN told
  <2> HIDE DEF told, r
  <2> QED
    BY <1>5, <1>7 DEF ToldIn
<1>9. \A t : ToldIn(r, t) = IF Cooling(sfCooldown, t, now', FloodCooldown) THEN "none"
                            ELSE Verdict(Syn(t), Ack(t))
  <2> HIDE DEF r, g
  <2> QED
    BY <1>1, <1>4, <1>7, ReportedIs DEF g
<1> HIDE DEF told, r
<1>10. Chronicle(qs, now') /\ Extends(rs, qs) /\ qs[Len(qs)] = r
  BY <1>1, <1>2, <1>7, ChronicleExtends DEF FloodInv
<1>11. Locks(sfCooldown, rs, now')
  BY <1>1, LocksLater DEF FloodInv
<1>12. MarkedAll(sfCooldown, sfCooldown', DOMAIN told, now', FloodCooldown)
  <2>1. Timely(sfCooldown, now')
    BY <1>11 DEF Locks
  <2> QED
    BY <1>1, <1>2, <1>6, <2>1, MarkedSilences
<1> HIDE DEF g, h, rs, qs
<1>13. Locks(sfCooldown', qs, now')
  <2>1. \A k : \A t : Locking(qs, k, t) <=>
                        Locking(rs, k, t) \/ (k \in DOMAIN told /\ t - now' < FloodCooldown)
    BY <1>7, <1>8, <1>10, LockingGrows
  <2> QED
    BY <1>11, <1>12, <2>1 DEF Locks, MarkedAll
<1>14. Len(h) \in Nat /\ Len(g) = Len(h) + 1 /\ \A j \in 1 .. Len(h) : g[j] = h[j]
  BY DEF Extends, g, h
<1>15. \A t, f : WeighedBy(g, r, t, f) = Counting(g, Sent(g, t, f), now' - FloodWindow)
  <2> SUFFICES ASSUME NEW t, NEW f
               PROVE  WeighedBy(g, r, t, f) = Counting(g, Sent(g, t, f), now' - FloodWindow)
    OBVIOUS
  <2>1. {i \in 1 .. r.after : g[i].target = t /\ g[i].flag = f /\ g[i].ts >= r.ts - FloodWindow}
          = {j \in Sent(g, t, f) : g[j].ts >= now' - FloodWindow}
    BY <1>7 DEF Sent
  <2> QED
    BY <2>1 DEF WeighedBy, Counting
<1>16. ReportRight(g, qs, Len(qs))
  <2> SUFFICES ASSUME NEW t
               PROVE  ToldIn(r, t) = IF Locked(qs, Len(qs), t) THEN "none"
                        ELSE Verdict(WeighedBy(g, r, t, "S"), WeighedBy(g, r, t, "A"))
    BY <1>10 DEF ReportRight
  <2>1. Locked(qs, Len(qs), t) <=> Cooling(sfCooldown, t, now', FloodCooldown)
    <3>1. Locked(qs, Len(qs), t) <=> Locking(rs, t, now')
      BY <1>7, <1>10, LockingGrows
    <3>2. now' >= now'
      BY <1>1
    <3> QED
      BY <1>1, <1>11, <3>1, <3>2 DEF Locks
  <2>2. WeighedBy(g, r, t, "S") = Syn(t) /\ WeighedBy(g, r, t, "A") = Ack(t)
    BY <1>15
  <2> QED
    BY <1>9, <2>1, <2>2
<1>17. ASSUME NEW n \in 1 .. Len(qs)
       PROVE  qs[n].after \in 0 .. Len(g) /\ ReportRight(g, qs, n)
  <2>1. Len(rs) \in Nat /\ Len(qs) = Len(rs) + 1 /\ \A m \in 1 .. Len(rs) : qs[m] = rs[m]
    BY <1>10 DEF Extends
  <2>2. CASE n = Len(qs)
    <3>1. qs[n].after = Len(g)
      BY <1>7, <1>10, <2>2
    <3> QED
      BY <1>14, <1>16, <2>2, <3>1
  <2>3. CASE n \in 1 .. Len(rs)
    <3>1. rs[n].after \in 0 .. Len(h) /\ ReportRight(h, rs, n)
      BY <2>3 DEF FloodInv, h, rs
    <3>2. qs[n] = rs[n]
      BY <2>1, <2>3
    <3>3. ReportRight(g, qs, n)
      BY <1>14, <2>1, <2>3, <3>1, ReportRightStays
    <3> QED
      BY <1>14, <3>1, <3>2, <3>3
  <2> QED
    BY <2>1, <2>2, <2>3
<1> QED
  BY <1>2, <1>4, <1>10, <1>13, <1>17 DEF FloodInv, g, qs

LEMMA FloodInit == Init => FloodInv
<1> SUFFICES ASSUME Init PROVE FloodInv
  OBVIOUS
<1>1. /\ sfHistory = <<>> /\ sfReports = <<>> /\ sfWindows = [d \in {} |-> SF!SW!NewWindow(FloodWindow)]
      /\ now = Epoch /\ traffic \in Kinds
      /\ sfCooldown = [last |-> [k \in {} |-> 0], lastPrune |-> 0]
  BY DEF Init, SF!Init, AR!Init, SF!CT!NewTracker
<1>2. Len(<<>>) = 0 /\ <<>> \in Seq({}) /\ 1 .. 0 = {}
  BY EmptySeq
<1>3. Clocked
  BY <1>1, DetectorsAssumption DEF Clocked, AR!ArpSpoofAssumption
<1>4. Chronicle(sfHistory, now) /\ Chronicle(sfReports, now)
  BY <1>1, <1>2 DEF Chronicle
<1>5. Locks(sfCooldown, sfReports, now)
  <2>1. DOMAIN sfCooldown.last = {}
    BY <1>1
  <2>2. \A k, t : ~Locking(sfReports, k, t)
    BY <1>1, <1>2 DEF Locking
  <2> QED
    BY <2>1, <2>2 DEF Locks, Cooling, Timely
<1>6. \A t : WindowOf(sfWindows, t, FloodWindow) = NewWindow(FloodWindow)
  BY <1>1 DEF WindowOf
<1>7. \A t, f : Sent(sfHistory, t, f) = {}
  BY <1>1, <1>2 DEF Sent
<1>8. \A t : Weighing(WindowOf(sfWindows, t, FloodWindow), sfHistory, t, now)
  BY <1>6, <1>7, NewWindowGood, TracksNew DEF Weighing
<1>9. IsFiniteSet(DOMAIN sfWindows)
  BY <1>1, FS_EmptySet
<1> QED
  BY <1>1, <1>2, <1>3, <1>4, <1>5, <1>8, <1>9 DEF FloodInv

LEMMA FloodNext == FloodInv /\ [Next]_vars => FloodInv'
<1> SUFFICES ASSUME FloodInv, [Next]_vars PROVE FloodInv'
  OBVIOUS
<1>1. CASE UNCHANGED vars
  BY <1>1 DEF vars, sfVars, FloodInv, Clocked
<1>2. ASSUME NEW p, NEW gap \in Mixes[traffic].gaps, Deliver(p, gap) PROVE FloodInv'
  <2>1. Clocked' /\ now <= now' /\ SF!Process(p) /\ now' \in Int /\ now \in Int
    BY <1>2, ClockSteps DEF Deliver, FloodInv, Clocked
  <2>2. CASE SF!Ignored(p)
    <3>1. /\ sfHistory' = sfHistory /\ sfReports' = sfReports /\ sfCooldown' = sfCooldown
          /\ sfWindows' = sfWindows
      BY <2>2 DEF SF!Ignored
    <3>2. /\ Chronicle(sfHistory, now') /\ Chronicle(sfReports, now')
          /\ Locks(sfCooldown, sfReports, now')
      BY <2>1, ChronicleLater, LocksLater DEF FloodInv
    <3>3. ASSUME NEW t PROVE Weighing(WindowOf(sfWindows, t, FloodWindow), sfHistory, t, now')
      <4> DEFINE v == WindowOf(sfWindows, t, FloodWindow)
      <4>1. Weighing(v, sfHistory, t, now)
        BY DEF FloodInv
      <4> HIDE DEF v
      <4>2. Weighing(v, sfHistory, t, now')
        BY <2>1, <4>1, KeptSelf, WeighingKept
      <4> QED
        BY <4>2 DEF v
    <3> QED
      BY <2>1, <3>1, <3>2, <3>3 DEF FloodInv
  <2>3. CASE SF!TcpPacket(p)
    <3> DEFINE e == [target |-> p.dst, flag |-> p.flags, ts |-> now']
               g == sfHistory'
    <3>1. g = Append(sfHistory, e) /\ e.target = p.dst /\ e.flag = p.flags /\ e.ts = now'
      BY <2>3 DEF SF!TcpPacket, SF!Arrives
    <3> HIDE DEF e
    <3>2. Chronicle(g, now') /\ Extends(sfHistory, g) /\ g[Len(g)] = e
      BY <2>1, <3>1, ChronicleExtends DEF FloodInv
    <3>3. g[Len(g)].target = p.dst /\ g[Len(g)].flag = p.flags /\ g[Len(g)].ts = now'
      BY <3>1, <3>2
    <3>4. CASE SF!FirstPacket(p) \/ SF!CountPacket(p)
      <4>1. /\ sfWindows' = SF!Added(p.dst, p.flags, now') /\ sfCooldown' = sfCooldown
            /\ sfReports' = sfReports
        BY <3>4 DEF SF!FirstPacket, SF!CountPacket
      <4> QED
        BY <2>1, <3>2, <3>3, <4>1, CountedTraffic
    <3>5. CASE SF!EvaluatingPacket(p)
      <4>1. SF!EvaluateAll(SF!Live(SF!Added(p.dst, p.flags, now'), now'))
        BY <3>5, Zenon DEF SF!EvaluatingPacket
      <4> QED
        BY <2>1, <3>2, <3>3, <4>1, EvaluatedTraffic
    <3> QED
      BY <2>3, <3>4, <3>5 DEF SF!TcpPacket
  <2> QED
    BY <2>1, <2>2, <2>3 DEF SF!Process
<1> QED
  BY <1>1, <1>2 DEF Next

(* An evaluation reports exactly the targets that deserve it and are not   *)
(* in their cooldown, as the severity they deserve (syn_flood.py,          *)
(* _evaluate_all()).                                                       *)
THEOREM EveryFloodReported == Spec => []FloodsExact
<1>1. FloodInv => FloodsExact
  BY FloodsByReport DEF FloodInv
<1> QED
  BY FloodInit, FloodNext, <1>1, PTL DEF Spec

(* A burst of announcements none of which the MAC was reported for is      *)
(* still in its window in full, and is reported now.                       *)
LEMMA AnnounceBursts == AnnounceInv => AR!BurstReported
<1> SUFFICES ASSUME AnnounceInv PROVE AR!BurstReported
  OBVIOUS
<1> DEFINE h == arHistory
           Burst(i) == {j \in 1 .. i : /\ h[j].mac = h[i].mac /\ h[j].announces
                                       /\ h[j].ts >= h[i].ts - AnnounceWindow}
<1>1. /\ Len(h) \in Nat /\ \A j \in 1 .. Len(h) : h[j].ts \in Int
      /\ \A j, k \in 1 .. Len(h) : j <= k => h[j].ts <= h[k].ts
  BY ChronicleFacts DEF AnnounceInv, Chronicle
<1>2. \A j \in 1 .. Len(h) : FloodRight(h, j)
  BY DEF AnnounceInv
<1>3. AnnounceWindow \in Nat /\ Announcements \in Nat
  BY AnnounceParams
<1> HIDE DEF h
<1>4. ASSUME NEW i \in 1 .. Len(h), h[i].announces, Cardinality(Burst(i)) > Announcements
      PROVE  \E j \in 1 .. i : h[j].mac = h[i].mac /\ h[j].flood > 0
                               /\ h[j].ts >= h[i].ts - AnnounceWindow
  <2> SUFFICES ASSUME \A j \in 1 .. i : (h[j].mac = h[i].mac /\ h[j].flood > 0)
                                          => ~(h[j].ts >= h[i].ts - AnnounceWindow)
               PROVE  FALSE
    OBVIOUS
  <2>1. i \in 1 .. i /\ h[i].ts \in Int
    BY <1>1
  <2>2. ASSUME NEW j \in Burst(i), NEW m \in j .. i - 1
        PROVE  ~(h[m].mac = h[i].mac /\ h[m].flood > 0)
    <3>1. j \in 1 .. i /\ m \in 1 .. i /\ j \in 1 .. Len(h) /\ m \in 1 .. Len(h) /\ j <= m
      BY <1>1, <2>2
    <3>2. h[j].ts \in Int /\ h[m].ts \in Int /\ h[j].ts <= h[m].ts
      BY <1>1, <3>1
    <3>3. h[j].ts >= h[i].ts - AnnounceWindow
      OBVIOUS
    <3>4. h[m].ts >= h[i].ts - AnnounceWindow
      BY <1>3, <2>1, <3>2, <3>3
    <3> QED
      BY <3>1, <3>4
  <2>3. Due(h, i) = Cardinality(Burst(i))
    <3>1. Burst(i) = {j \in 1 .. i : /\ h[j].mac = h[i].mac /\ h[j].announces
                                     /\ h[j].ts >= h[i].ts - AnnounceWindow
                                     /\ \A m \in j .. i - 1 : ~(h[m].mac = h[i].mac /\ h[m].flood > 0)}
      BY <2>2
    <3> QED
      BY <3>1, Zenon DEF Due
  <2>4. h[i].flood = Cardinality(Burst(i))
    BY <1>2, <1>4, <2>3 DEF FloodRight
  <2>5. Cardinality(Burst(i)) \in Nat
    <3>1. Burst(i) \in SUBSET (1 .. i)
      OBVIOUS
    <3>2. i \in Int /\ 1 \in Int
      BY <1>1
    <3> HIDE DEF Burst
    <3>3. IsFiniteSet(1 .. i)
      BY <3>2, FS_Interval
    <3> QED
      BY <3>1, <3>3, FS_Subset, FS_CardinalityType
  <2>6. h[i].flood > 0
    <3> HIDE DEF Burst
    <3> QED
      BY <1>3, <1>4, <2>4, <2>5
  <2>7. h[i].ts >= h[i].ts - AnnounceWindow
    BY <1>3, <2>1
  <2> QED
    BY <2>1, <2>6, <2>7
<1>5. \A S : AR!Cardinality(S) = Cardinality(S)
  BY Zenon DEF AR!Cardinality, Cardinality
<1>6. ASSUME NEW i \in 1 .. Len(h)
      PROVE  LET start == h[i].ts - AnnounceWindow
                 burst == {j \in 1 .. i : /\ h[j].mac = h[i].mac /\ h[j].announces
                                          /\ h[j].ts >= start}
             IN  h[i].announces /\ AR!Cardinality(burst) > Announcements =>
                   \E j \in 1 .. i : /\ h[j].mac = h[i].mac /\ h[j].flood > 0
                                     /\ h[j].ts >= start
  BY <1>4, <1>5
<1> HIDE DEF Burst
<1> QED
  BY <1>6 DEF AR!BurstReported, h

(* A burst of queries none of which was silenced has been counted in full, *)
(* and is reported now, unless its name alone is.                          *)
LEMMA QueryBursts == QueryInv => DN!BurstReported
<1> SUFFICES ASSUME QueryInv PROVE DN!BurstReported
  OBVIOUS
<1> DEFINE h == dnHistory
           Burst(i) == {j \in 1 .. i : Pair(h[j]) = Pair(h[i]) /\ h[j].ts >= h[i].ts - QueryWindow}
<1>1. /\ Len(h) \in Nat /\ \A j \in 1 .. Len(h) : h[j].ts \in Int
      /\ \A j, k \in 1 .. Len(h) : j <= k => h[j].ts <= h[k].ts
  BY ChronicleFacts DEF QueryInv, Chronicle
<1>2. \A j \in 1 .. Len(h) : QueryRight(h, j)
  BY DEF QueryInv
<1>3. QueryWindow \in Nat /\ QueryCooldown \in Nat \ {0} /\ Queries \in Nat \ {0}
  BY DnsParams
<1> HIDE DEF h
<1>4. ASSUME NEW i \in 1 .. Len(h), Cardinality(Burst(i)) >= Queries
      PROVE  \E j \in 1 .. i : Warned(h, Pair(h[i]), j)
                               /\ h[j].ts > h[i].ts - QueryWindow - QueryCooldown
  <2> DEFINE start == h[i].ts - QueryWindow
  <2> SUFFICES ASSUME \A j \in 1 .. i : Warned(h, Pair(h[i]), j) => ~(h[j].ts > start - QueryCooldown)
               PROVE  FALSE
    OBVIOUS
  <2>1. i \in 1 .. i /\ h[i].ts \in Int /\ start \in Int /\ h[i].ts >= start
    BY <1>1, <1>3
  <2>2. ASSUME NEW j \in 1 .. i, Pair(h[j]) = Pair(h[i]), h[j].ts >= start
        PROVE  ~Hushed(h, j)
    <3> SUFFICES ASSUME NEW k \in 1 .. j - 1, Warned(h, Pair(h[i]), k)
                 PROVE  ~(h[j].ts - h[k].ts < QueryCooldown)
      BY <2>2 DEF Hushed
    <3>1. k \in 1 .. i /\ j \in 1 .. Len(h) /\ k \in 1 .. Len(h)
      BY <1>1
    <3>2. h[k].ts \in Int /\ h[j].ts \in Int /\ ~(h[k].ts > start - QueryCooldown)
      BY <1>1, <3>1
    <3> HIDE DEF start
    <3> QED
      BY <1>3, <2>1, <2>2, <3>2
  <2>3. TimesAsked(h, i) = Cardinality(Burst(i))
    <3>1. Burst(i) = {j \in 1 .. i : /\ Pair(h[j]) = Pair(h[i]) /\ ~Hushed(h, j)
                                     /\ h[j].ts >= h[i].ts - QueryWindow}
      BY <2>2
    <3> QED
      BY <3>1, Zenon DEF TimesAsked
  <2>4. ~Hushed(h, i)
    BY <2>1, <2>2
  <2>5. h[i].reason # "none"
    <3> HIDE DEF Burst
    <3>1. TimesAsked(h, i) >= Queries
      BY <1>4, <2>3
    <3> QED
      BY <1>2, <2>4, <3>1 DEF QueryRight
  <2>6. Warned(h, Pair(h[i]), i) /\ h[i].ts > start - QueryCooldown
    <3>1. h[i].ts > start - QueryCooldown
      BY <1>3, <2>1
    <3> QED
      BY <2>5, <3>1 DEF Warned
  <2> QED
    BY <2>1, <2>6
<1>5. /\ \A S : DN!Cardinality(S) = Cardinality(S)
      /\ \A i, j : DN!SamePair(i, j) <=> Pair(h[j]) = Pair(h[i])
  <2>1. \A S : DN!Cardinality(S) = Cardinality(S)
    BY Zenon DEF DN!Cardinality, Cardinality
  <2> QED
    BY <2>1 DEF DN!SamePair, Pair, h
<1>6. ASSUME NEW i \in 1 .. Len(h)
      PROVE  LET start == h[i].ts - QueryWindow
                 burst == {j \in 1 .. i : DN!SamePair(i, j) /\ h[j].ts >= start}
             IN  DN!Cardinality(burst) >= Queries =>
                   \E j \in 1 .. i : /\ DN!SamePair(i, j) /\ h[j].reason # "none"
                                     /\ h[j].ts > start - QueryCooldown
  <2>1. Burst(i) = {j \in 1 .. i : DN!SamePair(i, j) /\ h[j].ts >= h[i].ts - QueryWindow}
    BY <1>5
  <2> HIDE DEF Burst
  <2> QED
    BY <1>4, <1>5, <2>1 DEF Warned
<1> HIDE DEF Burst
<1> QED
  BY <1>6 DEF DN!BurstReported, h

(* A target that deserves an alert and gets none is in its cooldown.       *)
LEMMA FloodBursts == FloodInv => SF!FloodReported
<1> SUFFICES ASSUME FloodInv, NEW n \in 1 .. Len(sfReports), NEW target \in SF!Targets,
                    SF!Deserved(n, target) # "none"
             PROVE  \E m \in 1 .. n : /\ SF!Told(m, target) # "none"
                                      /\ sfReports[n].ts - sfReports[m].ts < FloodCooldown
  BY DEF SF!FloodReported
<1>1. SF!Told(n, target) = IF SF!Quiet(n, target) THEN "none" ELSE SF!Deserved(n, target)
  BY FloodsByReport DEF FloodInv, FloodsExact, SF!ReportsExact
<1>2. Len(sfReports) \in Nat /\ sfReports[n].ts \in Int /\ FloodCooldown \in Nat \ {0}
  BY ChronicleFacts, FloodParams DEF FloodInv, Chronicle
<1>3. CASE SF!Quiet(n, target)
  <2>1. PICK m \in 1 .. n - 1 : /\ SF!Told(m, target) # "none"
                                /\ sfReports[n].ts - sfReports[m].ts < FloodCooldown
    BY <1>3 DEF SF!Quiet
  <2>2. m \in 1 .. n
    BY <1>2
  <2> QED
    BY <2>1, <2>2
<1>4. CASE ~SF!Quiet(n, target)
  <2>1. n \in 1 .. n /\ sfReports[n].ts - sfReports[n].ts < FloodCooldown
    BY <1>2
  <2> QED
    BY <1>1, <1>4, <2>1
<1> QED
  BY <1>3, <1>4

(* No burst is lost in a cooldown or to the clearing of a window: of login *)
(* attempts (brute_force.py, lines 131-134 and 155-158), of queries        *)
(* (dns_anomaly.py, lines 112-141), of announcements (arp_spoof.py,        *)
(* _check_gratuitous_flood()), of packets an evaluation has before it      *)
(* (syn_flood.py, _evaluate()).                                            *)
THEOREM NoBurstUnreported == Spec => []BurstReported
<1> DEFINE I == BruteInv /\ QueryInv /\ AnnounceInv /\ FloodInv
<1>1. Init => I
  BY BruteInit, QueryInit, AnnounceInit, FloodInit
<1>2. I /\ [Next]_vars => I'
  BY BruteNext, QueryNext, AnnounceNext, FloodNext
<1>3. I => BurstReported
  BY LoginBursts, QueryBursts, AnnounceBursts, FloodBursts DEF BurstReported
<1> HIDE DEF I
<1> QED
  BY <1>1, <1>2, <1>3, PTL DEF Spec
-----------------------------------------------------------------------------
(* What the windows of a dictionary hold, and for how long: K is the set   *)
(* of keys, n the time, and no window not empty has been idle for longer   *)
(* than its length before the time f of the last sweep.                    *)
Latest(w) == w.log[Len(w.log)]

Busy(w, K, n, f) ==
  /\ w.seconds \in Nat /\ Good(w, w.seconds, K, n)
  /\ \A i \in 1 .. Len(w.log) : w.log[i].ts \in 0 .. n /\ w.log[i].key \in K
  /\ w.log # <<>> => Latest(w).ts >= f - w.seconds

Stocked(ws, K, n, f) == \A k \in DOMAIN ws : Busy(ws[k], K, n, f)

LEMMA BusyLater ==
  ASSUME NEW w, NEW K, NEW m \in Int, NEW n \in Int, m <= n, NEW f \in Int, Busy(w, K, m, f)
  PROVE  Busy(w, K, n, f)
<1>1. Good(w, w.seconds, K, n)
  BY GoodLater DEF Busy
<1>2. \A t \in 0 .. m : t \in 0 .. n
  OBVIOUS
<1> QED
  BY <1>1, <1>2 DEF Busy

LEMMA NewWindowBusy ==
  ASSUME NEW s \in Nat, NEW K, NEW n \in Int, NEW f
  PROVE  Busy(NewWindow(s), K, n, f) /\ NewWindow(s).log = <<>> /\ NewWindow(s).seconds = s
<1> DEFINE w == NewWindow(s)
<1>1. Good(w, s, K, n)
  BY NewWindowGood
<1>2. w.seconds = s /\ w.log = <<>>
  BY DEF NewWindow
<1> HIDE DEF w
<1>3. Len(<<>>) = 0 /\ 1 .. 0 = {}
  OBVIOUS
<1>4. Busy(w, K, n, f)
  BY <1>1, <1>2, <1>3 DEF Busy
<1> QED
  BY <1>2, <1>4 DEF w

(* prune() takes from the front only.                                      *)
Trimmed(w, v) ==
  /\ v.seconds = w.seconds /\ Len(v.log) \in Nat /\ Len(w.log) \in Nat
  /\ \A i \in 1 .. Len(v.log) : \E j \in 1 .. Len(w.log) : v.log[i] = w.log[j]
  /\ v.log # <<>> => w.log # <<>> /\ Len(v.log) \in 1 .. Len(v.log) /\ Latest(v) = Latest(w)

LEMMA PruneTrims ==
  ASSUME NEW w, NEW s \in Int, NEW K, NEW n \in Int, Good(w, s, K, n)
  PROVE  Trimmed(w, Prune(w, n))
<1> DEFINE log  == w.log
           v    == Prune(w, n)
           r    == Stale(log, n - s)
           back == SubSeq(log, r + 1, Len(log))
<1>1. /\ w.seconds = s /\ log \in Seq(Ev(K))
      /\ \A i, j \in 1 .. Len(log) : i <= j => log[i].ts <= log[j].ts
  BY DEF Good
<1>2. v.log = back /\ v.seconds = s
  BY <1>1 DEF Prune, Popped
<1>3. n - s \in Int
  OBVIOUS
<1> HIDE DEF v, log
<1>4. r \in 0 .. Len(log) /\ Len(log) \in Nat
  BY <1>1, <1>3, StaleExact, LenProperties
<1> HIDE DEF r
<1>5. /\ back \in Seq(Ev(K)) /\ Len(back) = Len(log) - r
      /\ \A i \in 1 .. Len(log) - r : back[i] = log[i + r]
  <2> DEFINE P == {}
  <2>1. /\ back \in Seq(Ev(K)) /\ Len(back) = Len(log) - r
        /\ \A i \in 1 .. Len(log) - r : back[i] = log[i + r]
        /\ Hits(log, P) = Hits(SubSeq(log, 1, r), P) + Hits(back, P)
    <3> HIDE DEF back, P
    <3> QED
      BY <1>1, <1>4, HitsSplit DEF back
  <2> QED
    BY <2>1
<1> HIDE DEF back
<1>6. \A i \in 1 .. Len(back) : i + r \in 1 .. Len(log) /\ back[i] = log[i + r]
  BY <1>4, <1>5
<1>7. ASSUME back # <<>>
      PROVE  log # <<>> /\ Len(back) \in 1 .. Len(back) /\ back[Len(back)] = log[Len(log)]
  <2>1. Len(back) # 0
    BY <1>5, <1>7, EmptySeq
  <2>2. Len(back) \in 1 .. Len(back) /\ Len(back) + r = Len(log) /\ Len(log) # 0
    BY <1>4, <1>5, <2>1
  <2>3. log # <<>>
    <3>1. Len(<<>>) = 0
      OBVIOUS
    <3> QED
      BY <2>2, <3>1
  <2> QED
    BY <1>6, <2>2, <2>3
<1>8. Len(back) \in Nat
  BY <1>4, <1>5
<1> QED
  BY <1>1, <1>2, <1>4, <1>6, <1>7, <1>8 DEF Trimmed, Latest, v, log

LEMMA PruneBusy ==
  ASSUME NEW w, NEW K, NEW n \in Int, NEW f, Busy(w, K, n, f)
  PROVE  Busy(Prune(w, n), K, n, n) /\ Prune(w, n).seconds = w.seconds
<1> DEFINE v == Prune(w, n)
           s == w.seconds
<1>1. s \in Nat /\ s \in Int /\ Good(w, s, K, n)
  BY DEF Busy
<1> HIDE DEF s
<1>2. Kept(w, v, s, K, n) /\ Fresh(v, s, n) /\ Trimmed(w, v)
  BY <1>1, PruneGood, PruneTrims
<1> HIDE DEF v
<1>3. v.seconds = s /\ Good(v, s, K, n)
  BY <1>2 DEF Trimmed, Kept, s
<1>4. \A i \in 1 .. Len(v.log) : v.log[i].ts \in 0 .. n /\ v.log[i].key \in K
  BY <1>2 DEF Trimmed, Busy
<1>5. v.log # <<>> => Latest(v).ts >= n - s
  BY <1>2 DEF Trimmed, Fresh, Latest
<1>6. Busy(v, K, n, n)
  BY <1>1, <1>3, <1>4, <1>5 DEF Busy
<1> QED
  BY <1>3, <1>6 DEF v, s

LEMMA AddBusy ==
  ASSUME NEW w, NEW K, NEW n \in Nat, NEW f \in Int, f <= n, Busy(w, K, n, f), NEW key \in K
  PROVE  LET a == Add(w, n, key)
         IN  Busy(a, K, n, f) /\ a.seconds = w.seconds /\ a.log # <<>>
<1> DEFINE p == Prune(w, n)
           a == Add(w, n, key)
           e == [ts |-> n, key |-> key]
           s == w.seconds
<1>1. Busy(p, K, n, n) /\ p.seconds = s
  BY PruneBusy
<1>2. s \in Nat /\ s \in Int /\ Good(w, s, K, n)
  BY DEF Busy
<1>3. Good(a, s, K, n)
  <2> HIDE DEF a, s
  <2>1. Grown(w, a, s, K, n, key)
    BY <1>2, AddGood DEF a
  <2> QED
    BY <2>1 DEF Grown
<1>4. a.log = Append(p.log, e) /\ a.seconds = p.seconds
  BY DEF Add, Pushed
<1> HIDE DEF a, p, s
<1>5. p.log \in Seq(Ev(K)) /\ e \in Ev(K)
  BY <1>1 DEF Busy, Good, Ev
<1>6. /\ Len(a.log) = Len(p.log) + 1 /\ Len(p.log) \in Nat
      /\ \A i \in 1 .. Len(p.log) : a.log[i] = p.log[i]
      /\ a.log[Len(p.log) + 1] = e
  BY <1>4, <1>5, AppendProperties, LenProperties
<1>7. a.log # <<>>
  BY <1>4, <1>5, AppendProperties
<1>8. \A i \in 1 .. Len(a.log) : i \in 1 .. Len(p.log) \/ i = Len(p.log) + 1
  BY <1>6
<1>9. e.ts \in 0 .. n /\ e.key \in K /\ e.ts = n
  OBVIOUS
<1>10. \A i \in 1 .. Len(a.log) : a.log[i].ts \in 0 .. n /\ a.log[i].key \in K
  BY <1>1, <1>6, <1>8, <1>9 DEF Busy
<1>11. n >= f - s
  BY <1>2
<1>12. Latest(a).ts = n
  BY <1>6, <1>9 DEF Latest
<1>13. Busy(a, K, n, f)
  BY <1>1, <1>2, <1>3, <1>4, <1>10, <1>11, <1>12 DEF Busy
<1> QED
  BY <1>1, <1>4, <1>7, <1>13 DEF a, s

(* The sweep: what it leaves is not empty, and has been busy of late.      *)
Tidied(ws, vs, K, n) ==
  /\ Stocked(vs, K, n, n)
  /\ DOMAIN vs \subseteq DOMAIN ws
  /\ \A k \in DOMAIN vs : vs[k].seconds = ws[k].seconds /\ vs[k].log # <<>>

LEMMA SweptStocked ==
  ASSUME NEW ws, NEW K, NEW m \in Int, NEW n \in Int, m <= n, NEW f \in Int, Stocked(ws, K, m, f)
  PROVE  Tidied(ws, PruneIdle(ws, n), K, n)
<1> DEFINE vs == PruneIdle(ws, n)
<1>1. /\ DOMAIN vs \subseteq DOMAIN ws
      /\ \A k \in DOMAIN vs : vs[k] = Prune(ws[k], n) /\ vs[k].log # <<>>
  BY DEF PruneIdle, NonEmpty, IsEmpty
<1> HIDE DEF vs
<1>2. ASSUME NEW k \in DOMAIN vs
      PROVE  Busy(vs[k], K, n, n) /\ vs[k].seconds = ws[k].seconds
  <2> DEFINE w == ws[k]
  <2>1. Busy(w, K, m, f)
    BY <1>1 DEF Stocked
  <2> HIDE DEF w
  <2>2. Busy(w, K, n, f)
    BY <2>1, BusyLater
  <2>3. Busy(Prune(w, n), K, n, n) /\ Prune(w, n).seconds = w.seconds
    BY <2>2, PruneBusy
  <2> QED
    BY <1>1, <2>3 DEF w
<1> QED
  BY <1>1, <1>2 DEF vs, Stocked, Tidied

LEMMA StockedLater ==
  ASSUME NEW ws, NEW K, NEW m \in Int, NEW n \in Int, m <= n, NEW f \in Int, Stocked(ws, K, m, f)
  PROVE  Stocked(ws, K, n, f)
BY BusyLater DEF Stocked

Changed(ws, vs, K, n, f, key, w) ==
  /\ Stocked(vs, K, n, f)
  /\ DOMAIN vs = DOMAIN ws \cup {key} /\ vs[key] = w
  /\ \A k \in DOMAIN ws : k # key => vs[k] = ws[k]

LEMMA StockedWith ==
  ASSUME NEW ws, NEW K, NEW n, NEW f, Stocked(ws, K, n, f), NEW key, NEW w, Busy(w, K, n, f)
  PROVE  Changed(ws, With(ws, key, w), K, n, f, key, w)
BY DEF Stocked, With, Changed

(* The window a new event goes to.                                         *)
Fed(a, K, n, f, s) == Busy(a, K, n, f) /\ a.seconds = s /\ a.log # <<>>

LEMMA StockedAdd ==
  ASSUME NEW ws, NEW K, NEW n \in Nat, NEW f \in Int, f <= n, Stocked(ws, K, n, f),
         NEW d, NEW s \in Nat, d \in DOMAIN ws => ws[d].seconds = s, NEW key \in K
  PROVE  Fed(Add(WindowOf(ws, d, s), n, key), K, n, f, s)
<1> DEFINE w == WindowOf(ws, d, s)
<1>1. Busy(w, K, n, f) /\ w.seconds = s
  <2>1. CASE d \in DOMAIN ws
    BY <2>1 DEF WindowOf, Stocked
  <2>2. CASE d \notin DOMAIN ws
    BY <2>2, NewWindowBusy DEF WindowOf
  <2> QED
    BY <2>1, <2>2
<1> DEFINE a == Add(w, n, key)
<1>2. Busy(a, K, n, f) /\ a.seconds = s /\ a.log # <<>>
  <2> HIDE DEF w
  <2>1. Busy(a, K, n, f) /\ a.seconds = w.seconds /\ a.log # <<>>
    BY <1>1, AddBusy
  <2> HIDE DEF a
  <2> QED
    BY <1>1, <2>1
<1> QED
  BY <1>2 DEF Fed

(* What a cooldown holds: times gone by, of keys in X.                     *)
Marks(c, X, n) ==
  DOMAIN c.last \subseteq X /\ \A k \in DOMAIN c.last : c.last[k] \in 0 .. n

LEMMA MarksLater ==
  ASSUME NEW c, NEW X, NEW m \in Int, NEW n \in Int, m <= n, Marks(c, X, m)
  PROVE  Marks(c, X, n)
<1>1. \A t \in 0 .. m : t \in 0 .. n
  OBVIOUS
<1> QED
  BY <1>1 DEF Marks

LEMMA MarkedMarks ==
  ASSUME NEW n \in Nat, NEW X, NEW x \in SUBSET X, NEW c, NEW d, Marks(c, X, n),
         MarkedOnly(c, d, x, n)
  PROVE  Marks(d, X, n)
<1>1. n \in 0 .. n
  OBVIOUS
<1> QED
  BY <1>1 DEF Marks, MarkedOnly

LEMMA MarkMarks ==
  ASSUME NEW P \in Nat, NEW c, NEW X, NEW n \in Nat, NEW key \in X, Marks(c, X, n),
         NEW d, \/ d.last = Noted(c.last, key, n)
                \/ d.last = NotBefore(Noted(c.last, key, n), n - P)
  PROVE  /\ Marks(d, X, n)
         /\ key \in DOMAIN d.last /\ d.last[key] = n
         /\ \A k \in DOMAIN c.last : c.last[k] >= n - P =>
              k \in DOMAIN d.last /\ d.last[k] >= c.last[k]
<1> DEFINE noted == Noted(c.last, key, n)
<1>1. /\ DOMAIN noted = DOMAIN c.last \cup {key}
      /\ noted[key] = n /\ \A k \in DOMAIN c.last : k # key => noted[k] = c.last[k]
  BY DEF Noted
<1> HIDE DEF noted
<1>2. n \in 0 .. n /\ n >= n - P
  OBVIOUS
<1>3. \A k \in DOMAIN noted : noted[k] \in 0 .. n /\ k \in X
  BY <1>1, <1>2 DEF Marks
<1>4. \A k \in DOMAIN c.last : k \in DOMAIN noted /\ noted[k] >= c.last[k]
  BY <1>1, <1>2 DEF Marks
<1>5. CASE d.last = noted
  BY <1>1, <1>3, <1>4, <1>5 DEF Marks
<1>6. CASE d.last = NotBefore(noted, n - P)
  <2>1. /\ DOMAIN d.last = {k \in DOMAIN noted : noted[k] >= n - P}
        /\ \A k \in DOMAIN d.last : d.last[k] = noted[k]
    BY <1>6 DEF NotBefore
  <2>2. \A k \in DOMAIN c.last : c.last[k] >= n - P => noted[k] >= n - P
    <3> SUFFICES ASSUME NEW k \in DOMAIN c.last, c.last[k] >= n - P PROVE noted[k] >= n - P
      OBVIOUS
    <3>1. c.last[k] \in Int /\ noted[k] \in Int /\ noted[k] >= c.last[k]
      BY <1>3, <1>4 DEF Marks
    <3> QED
      BY <3>1
  <2> QED
    BY <1>1, <1>2, <1>3, <1>4, <2>1, <2>2 DEF Marks
<1> QED
  BY <1>5, <1>6 DEF noted

(* A sweep that is due every I seconds, whether or not it is due: before   *)
(* it the windows are ws and the time of the last sweep is f.              *)
SweptTo(ws, vs, K, n, f, g, I) ==
  /\ Stocked(vs, K, n, g)
  /\ DOMAIN vs \subseteq DOMAIN ws
  /\ \A k \in DOMAIN vs : /\ vs[k].seconds = ws[k].seconds
                          /\ vs[k].log = <<>> => ws[k].log = <<>> /\ g = f
  /\ g \in 0 .. n /\ g \in Int /\ n \in Nat /\ f <= g /\ g <= n /\ n - g < I

LEMMA SweepStep ==
  ASSUME NEW ws, NEW K, NEW m \in Nat, NEW n \in Int, m <= n, NEW f \in 0 .. m,
         Stocked(ws, K, m, f), NEW I \in Nat \ {0}, NEW vs, NEW g,
         IF n - f >= I THEN vs = PruneIdle(ws, n) /\ g = n ELSE vs = ws /\ g = f
  PROVE  SweptTo(ws, vs, K, n, f, g, I)
<1>1. m \in Int /\ f \in Int /\ n \in Nat /\ n \in 0 .. n /\ f \in 0 .. n /\ n - n < I
  OBVIOUS
<1>2. CASE n - f >= I
  <2> DEFINE us == PruneIdle(ws, n)
  <2>1. Tidied(ws, us, K, n)
    BY <1>1, SweptStocked
  <2> HIDE DEF us
  <2>2. vs = us /\ g = n
    BY <1>2 DEF us
  <2>3. f <= n /\ n <= n
    BY <1>1
  <2> QED
    BY <1>1, <2>1, <2>2, <2>3 DEF SweptTo, Tidied
<1>3. CASE ~(n - f >= I)
  <2>1. Stocked(ws, K, n, f)
    BY <1>1, StockedLater
  <2>2. vs = ws /\ g = f
    BY <1>3
  <2>3. n - f < I /\ f <= f /\ f <= n
    BY <1>1, <1>3
  <2> QED
    BY <1>1, <2>1, <2>2, <2>3 DEF SweptTo
<1> QED
  BY <1>2, <1>3

(* In order of time: packets with a clock that no packet turns back.       *)
Timed == now \in Nat /\ traffic \in Kinds

LEMMA TimeSteps ==
  ASSUME Timed, NEW p \in Mixes[traffic].packets, NEW gap \in Mixes[traffic].gaps, Deliver(p, gap)
  PROVE  Timed' /\ now <= now' /\ p \in Packets
<1>1. gap \in Nat
  BY DetectorsAssumption DEF Timed
<1>2. p \in Packets
  BY DEF Packets, Timed
<1>3. now' = now + gap /\ traffic' = traffic
  BY DEF Deliver
<1> QED
  BY <1>1, <1>2, <1>3 DEF Timed
-----------------------------------------------------------------------------
(* PortScanDetector: what it keeps.                                        *)
LEMMA ScanWindows ==
  /\ \A s : PS!SW!NewWindow(s) = NewWindow(s)
  /\ \A w, k : PS!SW!CountOf(w, k) = CountOf(w, k)
  /\ \A w, n, k : PS!SW!Add(w, n, k) = Add(w, n, k)
  /\ \A ws, k, s : PS!SW!WindowOf(ws, k, s) = WindowOf(ws, k, s)
  /\ \A ws, k, w : PS!SW!With(ws, k, w) = With(ws, k, w)
  /\ \A ws, n : PS!SW!PruneIdle(ws, n) = PruneIdle(ws, n)
  /\ \A w : PS!SW!Cleared(w) = NewWindow(w.seconds)
<1>1. \A s : PS!SW!NewWindow(s) = NewWindow(s)
  BY Zenon DEF PS!SW!NewWindow, NewWindow
<1>2. \A w, k : PS!SW!CountOf(w, k) = CountOf(w, k)
  BY DEF PS!SW!CountOf, CountOf
<1>3. \A log, n : PS!SW!Stale(log, n) = Stale(log, n)
  BY Zenon DEF PS!SW!Stale, Stale, PS!SW!Expired, Expired, PS!SW!Cardinality, Cardinality
<1>4. \A log, k : PS!SW!Occurrences(log, k) = Occurrences(log, k)
  BY Zenon DEF PS!SW!Occurrences, Occurrences, PS!SW!Cardinality, Cardinality
<1>5. \A w, n : PS!SW!Popped(w, n) = Popped(w, n)
  <2> SUFFICES ASSUME NEW w, NEW n PROVE PS!SW!Popped(w, n) = Popped(w, n)
    OBVIOUS
  <2> DEFINE front == SubSeq(w.log, 1, n)
             L1 == [k \in DOMAIN w.counts |-> w.counts[k] - PS!SW!Occurrences(front, k)]
             L2 == [k \in DOMAIN w.counts |-> w.counts[k] - Occurrences(front, k)]
  <2>1. L1 = L2
    BY <1>4
  <2>2. PS!SW!Popped(w, n)
          = [seconds |-> w.seconds, log |-> SubSeq(w.log, n + 1, Len(w.log)),
             counts |-> [k \in {j \in DOMAIN L1 : L1[j] > 0} |-> L1[k]]]
    BY Zenon DEF PS!SW!Popped, PS!SW!StillCounted
  <2>3. Popped(w, n)
          = [seconds |-> w.seconds, log |-> SubSeq(w.log, n + 1, Len(w.log)),
             counts |-> [k \in {j \in DOMAIN L2 : L2[j] > 0} |-> L2[k]]]
    BY Zenon DEF Popped, StillCounted
  <2> HIDE DEF L1, L2
  <2> QED
    BY <2>1, <2>2, <2>3
<1>6. \A w, n : PS!SW!Prune(w, n) = Prune(w, n)
  BY <1>3, <1>5 DEF PS!SW!Prune, Prune
<1>7. \A w, n, k : PS!SW!Add(w, n, k) = Add(w, n, k)
  <2>1. \A w, k : PS!SW!Counted(w, k) = Counted(w, k)
    BY <1>2 DEF PS!SW!Counted, Counted
  <2>2. \A w, n, k : PS!SW!Pushed(w, n, k) = Pushed(w, n, k)
    BY <2>1 DEF PS!SW!Pushed, Pushed
  <2> QED
    BY <1>6, <2>2 DEF PS!SW!Add, Add
<1>8. \A ws, k, s : PS!SW!WindowOf(ws, k, s) = WindowOf(ws, k, s)
  BY <1>1 DEF PS!SW!WindowOf, WindowOf
<1>9. \A ws, k, w : PS!SW!With(ws, k, w) = With(ws, k, w)
  BY Zenon DEF PS!SW!With, With
<1>10. \A ws, n : PS!SW!PruneIdle(ws, n) = PruneIdle(ws, n)
  BY <1>6 DEF PS!SW!PruneIdle, PruneIdle, PS!SW!NonEmpty, NonEmpty, PS!SW!IsEmpty, IsEmpty
<1>11. \A w : PS!SW!Cleared(w) = NewWindow(w.seconds)
  BY <1>1 DEF PS!SW!Cleared
<1> QED
  BY <1>1, <1>2, <1>7, <1>8, <1>9, <1>10, <1>11

LEMMA ScanParams ==
  /\ ScanWindow \in Nat \ {0} /\ ScanWindow \in Nat /\ ScanCooldown \in Nat /\ ScanPorts \in Nat
  /\ ScanCooldown \in Int
BY DetectorsAssumption DEF PS!PortScanAssumption

LEMMA ScanMark ==
  ASSUME NEW c, NEW key, NEW n
  PROVE  LET d == PS!CT!Mark(c, key, n)
         IN  \/ d.last = Noted(c.last, key, n)
             \/ d.last = NotBefore(Noted(c.last, key, n), n - ScanCooldown)
<1> DEFINE marked == PS!CT!Stamped(c.last, key, n)
           pruned == PS!CT!Prune(marked, n)
           d == PS!CT!Mark(c, key, n)
<1>1. marked = Noted(c.last, key, n)
  BY DEF PS!CT!Stamped, Noted
<1>2. pruned = NotBefore(marked, n - ScanCooldown)
  <2> HIDE DEF marked
  <2> QED
    BY DEF PS!CT!Prune, PS!CT!Cutoff, NotBefore
<1> HIDE DEF marked, pruned
<1>3. d = [last |-> pruned, lastPrune |-> n] \/ d = [last |-> marked, lastPrune |-> c.lastPrune]
  BY DEF PS!CT!Mark, marked, pruned
<1> HIDE DEF d
<1>4. d.last = pruned \/ d.last = marked
  BY <1>3
<1> QED
  BY <1>1, <1>2, <1>4 DEF d

ScanKeys == PS!Sources \X PS!ScanTypes

(* A window emptied by an alert, since the last sweep.                     *)
Emptied(s) == <<s, "SYN">> \in DOMAIN psCooldown.last /\ psCooldown.last[<<s, "SYN">>] >= psSweep

ScanKept ==
  /\ Timed
  /\ psSweep \in 0 .. now
  /\ DOMAIN psWindows \subseteq PS!Sources
  /\ Stocked(psWindows, PS!Ports, now, psSweep)
  /\ \A s \in DOMAIN psWindows : psWindows[s].seconds = ScanWindow
  /\ Marks(psCooldown, ScanKeys, now)
  /\ ScanWindow <= ScanCooldown =>
       \A s \in DOMAIN psWindows :
         now - psSweep < ScanWindow /\ (psWindows[s].log = <<>> => Emptied(s))

(* What the sweep of a packet leaves.                                      *)
LEMMA ScanSwept ==
  ASSUME ScanKept, Timed', now <= now', PS!Sweep(now')
  PROVE  /\ SweptTo(psWindows, PS!Swept(now'), PS!Ports, now', psSweep, psSweep', ScanWindow)
         /\ Marks(psCooldown, ScanKeys, now')
         /\ DOMAIN PS!Swept(now') \subseteq PS!Sources
         /\ \A s \in DOMAIN PS!Swept(now') : PS!Swept(now')[s].seconds = ScanWindow
<1> DEFINE vs == PS!Swept(now')
<1>1. /\ now \in Nat /\ now' \in Nat /\ now \in Int /\ now' \in Int /\ psSweep \in 0 .. now
      /\ Stocked(psWindows, PS!Ports, now, psSweep)
  BY DEF ScanKept, Timed
<1>2. IF now' - psSweep >= ScanWindow THEN vs = PruneIdle(psWindows, now') /\ psSweep' = now'
      ELSE vs = psWindows /\ psSweep' = psSweep
  BY ScanWindows DEF PS!Swept, PS!SweepDue, PS!Sweep
<1> HIDE DEF vs
<1>3. SweptTo(psWindows, vs, PS!Ports, now', psSweep, psSweep', ScanWindow)
  BY <1>1, <1>2, ScanParams, SweepStep
<1>4. Marks(psCooldown, ScanKeys, now')
  BY <1>1, MarksLater DEF ScanKept
<1>5. DOMAIN vs \subseteq PS!Sources /\ \A s \in DOMAIN vs : vs[s].seconds = ScanWindow
  BY <1>3 DEF SweptTo, ScanKept
<1> QED
  BY <1>3, <1>4, <1>5 DEF vs

(* Marking a silence keeps those that matter for the windows swept.        *)
LEMMA ScanMarked ==
  ASSUME NEW n \in Nat, NEW key \in ScanKeys, Marks(psCooldown, ScanKeys, n)
  PROVE  LET d == PS!CT!Mark(psCooldown, key, n)
         IN  /\ Marks(d, ScanKeys, n)
             /\ key \in DOMAIN d.last /\ d.last[key] = n
             /\ \A k \in DOMAIN psCooldown.last : psCooldown.last[k] >= n - ScanCooldown =>
                  k \in DOMAIN d.last /\ d.last[k] >= psCooldown.last[k]
<1> DEFINE d == PS!CT!Mark(psCooldown, key, n)
<1>1. \/ d.last = Noted(psCooldown.last, key, n)
      \/ d.last = NotBefore(Noted(psCooldown.last, key, n), n - ScanCooldown)
  BY ScanMark
<1> HIDE DEF d
<1>2. /\ Marks(d, ScanKeys, n)
      /\ key \in DOMAIN d.last /\ d.last[key] = n
      /\ \A k \in DOMAIN psCooldown.last : psCooldown.last[k] >= n - ScanCooldown =>
           k \in DOMAIN d.last /\ d.last[k] >= psCooldown.last[k]
  BY <1>1, ScanParams, MarkMarks
<1> QED
  BY <1>2 DEF d

ScanMarkedOrNot == psCooldown' = psCooldown \/ \E key \in ScanKeys : psCooldown' = PS!CT!Mark(psCooldown, key, now')

LEMMA ScanSilences ==
  ASSUME ScanKept, Timed', now <= now', PS!Sweep(now'), ScanMarkedOrNot
  PROVE  /\ Marks(psCooldown', ScanKeys, now')
         /\ ScanWindow <= ScanCooldown /\ psSweep' = psSweep => \A s : Emptied(s) => Emptied(s)'
<1>1. Marks(psCooldown, ScanKeys, now') /\ now' \in Nat /\ now' - psSweep' < ScanWindow /\ psSweep' \in Int
  BY ScanSwept DEF SweptTo, Timed
<1>2. CASE psCooldown' = psCooldown
  BY <1>1, <1>2 DEF Emptied
<1>3. ASSUME NEW key \in ScanKeys, psCooldown' = PS!CT!Mark(psCooldown, key, now')
      PROVE  /\ Marks(psCooldown', ScanKeys, now')
             /\ ScanWindow <= ScanCooldown /\ psSweep' = psSweep => \A s : Emptied(s) => Emptied(s)'
  <2>1. /\ Marks(psCooldown', ScanKeys, now')
        /\ \A k \in DOMAIN psCooldown.last : psCooldown.last[k] >= now' - ScanCooldown =>
             k \in DOMAIN psCooldown'.last /\ psCooldown'.last[k] >= psCooldown.last[k]
    BY <1>1, <1>3, ScanMarked
  <2>2. ASSUME ScanWindow <= ScanCooldown, psSweep' = psSweep, NEW s, Emptied(s)
        PROVE  Emptied(s)'
    <3> DEFINE k == <<s, "SYN">>
    <3>1. k \in DOMAIN psCooldown.last /\ psCooldown.last[k] >= psSweep
      BY <2>2 DEF Emptied
    <3> HIDE DEF k
    <3>2. psCooldown.last[k] \in Int
      BY <1>1, <3>1 DEF Marks
    <3>3. psCooldown.last[k] >= now' - ScanCooldown
      BY <1>1, <2>2, <3>1, <3>2, ScanParams
    <3>4. k \in DOMAIN psCooldown'.last /\ psCooldown'.last[k] >= psCooldown.last[k]
      BY <2>1, <3>1, <3>3
    <3>5. psCooldown'.last[k] \in Int
      BY <2>1, <3>4 DEF Marks
    <3>6. psCooldown'.last[k] >= psSweep'
      BY <1>1, <2>2, <3>1, <3>2, <3>4, <3>5
    <3> QED
      BY <3>4, <3>6 DEF Emptied, k
  <2> QED
    BY <2>1, <2>2
<1> QED
  BY <1>2, <1>3 DEF ScanMarkedOrNot

(* A packet that leaves the windows as the sweep left them.                *)
LEMMA ScanUncounted ==
  ASSUME ScanKept, Timed', now <= now', PS!Sweep(now'), psWindows' = PS!Swept(now'), ScanMarkedOrNot
  PROVE  ScanKept'
<1>1. /\ SweptTo(psWindows, psWindows', PS!Ports, now', psSweep, psSweep', ScanWindow)
      /\ DOMAIN psWindows' \subseteq PS!Sources
      /\ \A s \in DOMAIN psWindows' : psWindows'[s].seconds = ScanWindow
  BY ScanSwept
<1>2. /\ Marks(psCooldown', ScanKeys, now')
      /\ ScanWindow <= ScanCooldown /\ psSweep' = psSweep => \A s : Emptied(s) => Emptied(s)'
  BY ScanSilences
<1>3. ASSUME ScanWindow <= ScanCooldown, NEW s \in DOMAIN psWindows'
      PROVE  /\ now' - psSweep' < ScanWindow
             /\ psWindows'[s].log = <<>> => Emptied(s)'
  <2>1. now' - psSweep' < ScanWindow
    BY <1>1 DEF SweptTo
  <2>2. ASSUME psWindows'[s].log = <<>> PROVE Emptied(s)'
    <3>1. psWindows[s].log = <<>> /\ psSweep' = psSweep /\ s \in DOMAIN psWindows
      BY <1>1, <2>2 DEF SweptTo
    <3>2. Emptied(s)
      BY <1>3, <3>1 DEF ScanKept
    <3> QED
      BY <1>2, <1>3, <3>1, <3>2
  <2> QED
    BY <2>1, <2>2
<1> QED
  BY <1>1, <1>2, <1>3 DEF ScanKept, SweptTo

(* The window of the source with the packet's port in it.                  *)
LEMMA PortIsCounted ==
  ASSUME NEW p, NEW swept, PS!CountPort(p, swept)
  PROVE  LET w     == Add(WindowOf(swept, p.src, ScanWindow), now', p.port)
             fired == /\ Cardinality(DOMAIN w.counts) > ScanPorts
                      /\ PS!LetThrough(p.src, "SYN", now')
         IN  \/ /\ fired
                /\ psWindows' = With(swept, p.src, NewWindow(w.seconds))
                /\ PS!Emit(p.src, "SYN", DOMAIN w.counts, now')
             \/ /\ ~fired
                /\ psWindows' = With(swept, p.src, w)
                /\ PS!Suppressed
<1> DEFINE u == WindowOf(swept, p.src, ScanWindow)
           w == Add(u, now', p.port)
           fired == PS!OverThreshold(w) /\ PS!LetThrough(p.src, "SYN", now')
<1>1. PS!SW!Add(PS!SW!WindowOf(swept, p.src, ScanWindow), now', p.port) = w
  <2>1. PS!SW!WindowOf(swept, p.src, ScanWindow) = u
    BY ScanWindows
  <2> HIDE DEF u
  <2> QED
    BY <2>1, ScanWindows
<1>2. PS!Judge(p, swept, PS!SW!Add(PS!SW!WindowOf(swept, p.src, ScanWindow), now', p.port))
  BY Zenon DEF PS!CountPort
<1> HIDE DEF w
<1>3. PS!Judge(p, swept, w)
  BY <1>1, <1>2
<1>4. /\ psWindows' = PS!SW!With(swept, p.src, PS!AfterAlert(w, fired))
      /\ IF fired THEN PS!Emit(p.src, "SYN", DOMAIN w.counts, now') ELSE PS!Suppressed
  BY <1>3, Zenon DEF PS!Judge
<1>5. PS!OverThreshold(w) <=> Cardinality(DOMAIN w.counts) > ScanPorts
  <2>1. \A S : PS!SW!Cardinality(S) = Cardinality(S)
    BY Zenon DEF PS!SW!Cardinality, Cardinality
  <2> QED
    BY <2>1 DEF PS!OverThreshold, PS!SW!Distinct
<1>6. fired <=> Cardinality(DOMAIN w.counts) > ScanPorts /\ PS!LetThrough(p.src, "SYN", now')
  BY <1>5
<1> HIDE DEF fired
<1>7. CASE fired
  <2>1. PS!AfterAlert(w, fired) = NewWindow(w.seconds)
    BY <1>7, ScanWindows DEF PS!AfterAlert
  <2>2. psWindows' = With(swept, p.src, NewWindow(w.seconds))
    BY <1>4, <2>1, ScanWindows
  <2> QED
    BY <1>4, <1>6, <1>7, <2>2 DEF w
<1>8. CASE ~fired
  <2>1. PS!AfterAlert(w, fired) = w
    BY <1>8 DEF PS!AfterAlert
  <2>2. psWindows' = With(swept, p.src, w)
    BY <1>4, <2>1, ScanWindows
  <2> QED
    BY <1>4, <1>6, <1>8, <2>2 DEF w
<1> QED
  BY <1>7, <1>8

LEMMA ScanCounted ==
  ASSUME ScanKept, Timed', now <= now', NEW p \in Packets, PS!PortPacket(p)
  PROVE  ScanKept'
<1> DEFINE vs == PS!Swept(now')
           src == p.src
           a == Add(WindowOf(vs, src, ScanWindow), now', p.port)
<1>0. PS!Sweep(now') /\ PS!CountPort(p, vs) /\ p.src # None /\ p.port # None
  BY Zenon DEF PS!PortPacket, PS!None, None
<1>1. /\ SweptTo(psWindows, vs, PS!Ports, now', psSweep, psSweep', ScanWindow)
      /\ DOMAIN vs \subseteq PS!Sources
      /\ \A s \in DOMAIN vs : vs[s].seconds = ScanWindow
  BY <1>0, ScanSwept
<1>2. src \in PS!Sources /\ p.port \in PS!Ports /\ <<src, "SYN">> \in ScanKeys
  BY <1>0 DEF PS!Sources, PS!Ports, PS!None, None, ScanKeys, PS!ScanTypes
<1>3. \/ /\ psWindows' = With(vs, src, NewWindow(a.seconds))
         /\ psCooldown' = PS!CT!Mark(psCooldown, <<src, "SYN">>, now')
      \/ /\ psWindows' = With(vs, src, a)
         /\ psCooldown' = psCooldown
  <2> HIDE DEF vs
  <2>1. \/ /\ psWindows' = With(vs, src, NewWindow(a.seconds))
           /\ PS!Emit(src, "SYN", DOMAIN a.counts, now')
        \/ psWindows' = With(vs, src, a) /\ PS!Suppressed
    BY <1>0, PortIsCounted
  <2> HIDE DEF a
  <2> QED
    BY <2>1 DEF PS!Emit, PS!Suppressed
<1> HIDE DEF vs
<1>4. /\ now' \in Nat /\ psSweep' \in Int /\ psSweep' <= now' /\ now' \in Int
      /\ Stocked(vs, PS!Ports, now', psSweep')
  BY <1>1 DEF SweptTo
<1>5. Busy(a, PS!Ports, now', psSweep') /\ a.seconds = ScanWindow /\ a.log # <<>>
  <2>1. src \in DOMAIN vs => vs[src].seconds = ScanWindow
    BY <1>1
  <2>2. Fed(a, PS!Ports, now', psSweep', ScanWindow)
    BY <1>2, <1>4, <2>1, ScanParams, StockedAdd
  <2> HIDE DEF a
  <2> QED
    BY <2>2 DEF Fed
<1>6. ScanMarkedOrNot
  BY <1>2, <1>3 DEF ScanMarkedOrNot
<1>7. /\ Marks(psCooldown', ScanKeys, now')
      /\ ScanWindow <= ScanCooldown /\ psSweep' = psSweep => \A s : Emptied(s) => Emptied(s)'
  BY <1>0, <1>6, ScanSilences
<1> HIDE DEF a
<1> DEFINE b == NewWindow(ScanWindow)
<1>8. Busy(b, PS!Ports, now', psSweep') /\ b.seconds = ScanWindow /\ b.log = <<>>
  BY <1>4, ScanParams, NewWindowBusy
<1> HIDE DEF b
<1>9. CASE psWindows' = With(vs, src, a)
  <2>1. /\ Stocked(psWindows', PS!Ports, now', psSweep')
        /\ DOMAIN psWindows' = DOMAIN vs \cup {src} /\ psWindows'[src] = a
        /\ \A k \in DOMAIN vs : k # src => psWindows'[k] = vs[k]
    <3>1. Changed(vs, psWindows', PS!Ports, now', psSweep', src, a)
      BY <1>4, <1>5, <1>9, StockedWith
    <3> QED
      BY <3>1 DEF Changed
  <2>2. ASSUME NEW s \in DOMAIN psWindows'
        PROVE  /\ s \in PS!Sources /\ psWindows'[s].seconds = ScanWindow
               /\ psWindows'[s].log = <<>> => s # src /\ s \in DOMAIN vs /\ vs[s].log = <<>>
    BY <1>1, <1>2, <1>5, <2>1
  <2>3. ASSUME ScanWindow <= ScanCooldown, NEW s \in DOMAIN psWindows'
        PROVE  /\ now' - psSweep' < ScanWindow
               /\ psWindows'[s].log = <<>> => Emptied(s)'
    <3>1. now' - psSweep' < ScanWindow
      BY <1>1 DEF SweptTo
    <3>2. ASSUME psWindows'[s].log = <<>> PROVE Emptied(s)'
      <4>1. s \in DOMAIN vs /\ vs[s].log = <<>>
        BY <2>2, <2>3, <3>2
      <4>2. psWindows[s].log = <<>> /\ psSweep' = psSweep /\ s \in DOMAIN psWindows
        BY <1>1, <4>1 DEF SweptTo
      <4>3. Emptied(s)
        BY <2>3, <4>2 DEF ScanKept
      <4> QED
        BY <1>7, <2>3, <4>2, <4>3
    <3> QED
      BY <3>1, <3>2
  <2> QED
    BY <1>1, <1>7, <2>1, <2>2, <2>3 DEF ScanKept, SweptTo
<1>10. CASE /\ psWindows' = With(vs, src, b)
            /\ psCooldown' = PS!CT!Mark(psCooldown, <<src, "SYN">>, now')
  <2>1. /\ Stocked(psWindows', PS!Ports, now', psSweep')
        /\ DOMAIN psWindows' = DOMAIN vs \cup {src} /\ psWindows'[src] = b
        /\ \A k \in DOMAIN vs : k # src => psWindows'[k] = vs[k]
    <3>1. Changed(vs, psWindows', PS!Ports, now', psSweep', src, b)
      BY <1>4, <1>8, <1>10, StockedWith
    <3> QED
      BY <3>1 DEF Changed
  <2>2. \A s \in DOMAIN psWindows' : s \in PS!Sources /\ psWindows'[s].seconds = ScanWindow
    BY <1>1, <1>2, <1>8, <2>1
  <2>3. ASSUME ScanWindow <= ScanCooldown, NEW s \in DOMAIN psWindows'
        PROVE  /\ now' - psSweep' < ScanWindow
               /\ psWindows'[s].log = <<>> => Emptied(s)'
    <3>1. now' - psSweep' < ScanWindow
      BY <1>1 DEF SweptTo
    <3>2. ASSUME s # src, psWindows'[s].log = <<>> PROVE Emptied(s)'
      <4>1. s \in DOMAIN vs /\ vs[s].log = <<>>
        BY <2>1, <2>3, <3>2
      <4>2. psWindows[s].log = <<>> /\ psSweep' = psSweep /\ s \in DOMAIN psWindows
        BY <1>1, <4>1 DEF SweptTo
      <4>3. Emptied(s)
        BY <2>3, <4>2 DEF ScanKept
      <4> QED
        BY <1>7, <2>3, <4>2, <4>3
    <3>3. Emptied(src)'
      <4> DEFINE key == <<src, "SYN">>
      <4>1. Marks(psCooldown, ScanKeys, now') /\ key \in ScanKeys
        BY <1>0, <1>2, ScanSwept
      <4> HIDE DEF key
      <4>2. key = <<src, "SYN">>
        BY DEF key
      <4>3. key \in DOMAIN psCooldown'.last /\ psCooldown'.last[key] = now'
        BY <1>4, <1>10, <4>1, <4>2, ScanMarked
      <4>4. now' >= psSweep'
        BY <1>4
      <4> QED
        BY <4>2, <4>3, <4>4 DEF Emptied
    <3> QED
      BY <3>1, <3>2, <3>3
  <2> QED
    BY <1>1, <1>7, <2>1, <2>2, <2>3 DEF ScanKept, SweptTo
<1> QED
  BY <1>3, <1>5, <1>9, <1>10 DEF b

LEMMA ScanKeptInit == Init => ScanKept
<1> SUFFICES ASSUME Init PROVE ScanKept
  OBVIOUS
<1>1. /\ psWindows = [s \in {} |-> PS!SW!NewWindow(ScanWindow)] /\ psSweep = 0
      /\ psCooldown = [last |-> [k \in {} |-> 0], lastPrune |-> 0]
      /\ now = Epoch /\ traffic \in Kinds
  BY DEF Init, PS!Init, PS!CT!NewTracker
<1>2. Epoch \in Nat
  BY DetectorsAssumption DEF PS!PortScanAssumption
<1>3. DOMAIN psWindows = {} /\ DOMAIN psCooldown.last = {}
  BY <1>1
<1>4. 0 \in 0 .. now
  BY <1>1, <1>2
<1> QED
  BY <1>1, <1>2, <1>3, <1>4 DEF ScanKept, Timed, Stocked, Marks

LEMMA ScanKeptNext == ScanKept /\ [Next]_vars => ScanKept'
<1> SUFFICES ASSUME ScanKept, [Next]_vars PROVE ScanKept'
  OBVIOUS
<1>1. CASE UNCHANGED vars
  BY <1>1 DEF vars, psVars, ScanKept, Timed, Emptied
<1>2. ASSUME NEW p \in Mixes[traffic].packets, NEW gap \in Mixes[traffic].gaps, Deliver(p, gap)
      PROVE  ScanKept'
  <2>1. Timed' /\ now <= now' /\ PS!Process(p) /\ p \in Packets
    BY <1>2, TimeSteps DEF Deliver, ScanKept
  <2>2. CASE PS!StealthPacket(p)
    <3>1. PS!Sweep(now') /\ psWindows' = PS!Swept(now') /\ PS!IsStealth(p)
      BY <2>2 DEF PS!StealthPacket
    <3>2. ScanMarkedOrNot
      <4> DEFINE kind == PS!Stealth[p.flags]
      <4>1. \/ p.src # None /\ psCooldown' = PS!CT!Mark(psCooldown, <<p.src, kind>>, now')
            \/ psCooldown' = psCooldown
        BY <2>2 DEF PS!StealthPacket, PS!LetThrough, PS!Emit, PS!Suppressed, PS!None, None
      <4>2. kind \in PS!ScanTypes
        BY <3>1 DEF PS!IsStealth, PS!Stealth, PS!ScanTypes
      <4>3. p.src # None => <<p.src, kind>> \in ScanKeys
        BY <2>1, <4>2 DEF ScanKeys, PS!Sources, PS!None, None
      <4> QED
        BY <4>1, <4>3 DEF ScanMarkedOrNot
    <3> QED
      BY <2>1, <3>1, <3>2, ScanUncounted
  <2>3. CASE PS!PortPacket(p)
    BY <2>1, <2>3, ScanCounted
  <2>4. CASE PS!OtherPacket(p)
    <3>1. PS!Sweep(now') /\ psWindows' = PS!Swept(now') /\ ScanMarkedOrNot
      BY <2>4 DEF PS!OtherPacket, PS!Suppressed, ScanMarkedOrNot
    <3> QED
      BY <2>1, <3>1, ScanUncounted
  <2> QED
    BY <2>1, <2>2, <2>3, <2>4 DEF PS!Process
<1> QED
  BY <1>1, <1>2 DEF Next

LEMMA ScanKeptTyped == ScanKept => PS!TypeOK
<1> SUFFICES ASSUME ScanKept PROVE PS!TypeOK
  OBVIOUS
<1>1. ASSUME NEW s \in DOMAIN psWindows
      PROVE  /\ \A i \in 1 .. Len(psWindows[s].log) :
                  psWindows[s].log[i].ts \in 0 .. now /\ psWindows[s].log[i].key \in PS!Ports
             /\ psWindows[s].counts \in [DOMAIN psWindows[s].counts -> Nat \ {0}]
  BY DEF ScanKept, Stocked, Busy, Good
<1> QED
  BY <1>1 DEF ScanKept, Timed, Marks, PS!TypeOK, ScanKeys

LEMMA ScanKeptForgets == ScanKept /\ ScanWindow <= ScanCooldown => PS!SourcesForgotten
<1> SUFFICES ASSUME ScanKept, ScanWindow <= ScanCooldown, NEW s \in DOMAIN psWindows
             PROVE  \/ PS!Heard(s)
                    \/ psWindows[s].log = <<>> /\ Emptied(s)
  BY DEF PS!SourcesForgotten, Emptied
<1> DEFINE w == psWindows[s]
<1>1. Busy(w, PS!Ports, now, psSweep) /\ w.seconds = ScanWindow /\ now - psSweep < ScanWindow
      /\ (w.log = <<>> => Emptied(s)) /\ now \in Int /\ psSweep \in Int /\ ScanWindow \in Int
  BY ScanParams DEF ScanKept, Stocked, Timed
<1> HIDE DEF w
<1>2. CASE w.log = <<>>
  BY <1>1, <1>2 DEF w
<1>3. CASE w.log # <<>>
  <2>1. w.log \in Seq(Ev(PS!Ports))
    BY <1>1 DEF Busy, Good
  <2>2. Len(w.log) \in 1 .. Len(w.log)
    <3>1. Len(w.log) \in Nat /\ Len(w.log) # 0
      BY <1>3, <2>1, EmptySeq, LenProperties
    <3> QED
      BY <3>1
  <2>3. Latest(w).ts \in Int
    BY <1>1, <2>2 DEF Busy, Latest
  <2>4. Latest(w).ts >= psSweep - ScanWindow
    BY <1>1, <1>3 DEF Busy
  <2>5. Latest(w).ts > now - 2 * ScanWindow
    BY <1>1, <2>3, <2>4
  <2> QED
    BY <1>3, <2>5 DEF PS!Heard, Latest, w
<1> QED
  BY <1>2, <1>3
-----------------------------------------------------------------------------
(* BruteForceDetector: what it keeps.                                      *)
LEMMA BruteInterval == BF!SweepInterval \in Nat \ {0}
<1> DEFINE T == {LoginWindows[s] : s \in BF!Services}
<1>1. T \in SUBSET (Nat \ {0}) /\ T \in SUBSET Nat
  BY DetectorsAssumption DEF BF!BruteForceAssumption
<1>2. T # {}
  BY DEF BF!Services
<1> HIDE DEF T
<1>3. \E m \in T : \A k \in T : m <= k
  BY <1>1, <1>2, LeastOf
<1>4. \E m \in T : \A s \in BF!Services : m <= LoginWindows[s]
  BY <1>3 DEF T
<1>5. (CHOOSE n \in T : \A s \in BF!Services : n <= LoginWindows[s]) \in T
  BY <1>4
<1>6. BF!SweepInterval = CHOOSE n \in T : \A s \in BF!Services : n <= LoginWindows[s]
  BY DEF T, BF!SweepInterval
<1> QED
  BY <1>1, <1>5, <1>6

LEMMA BruteMarked ==
  ASSUME NEW n \in Nat, NEW key \in BF!Keys, Marks(bfCooldown, BF!Keys, n)
  PROVE  Marks(BF!CT!Mark(bfCooldown, key, n), BF!Keys, n)
<1>1. MarkedIn(bfCooldown, BF!CT!Mark(bfCooldown, key, n), key, n, LoginCooldown)
  BY BruteCooldown DEF Marks, Timely
<1> QED
  BY <1>1, MarkedMarks DEF MarkedIn

(* A key reported since the last sweep.                                    *)
ReportedSince(h, k, f) == \E i \in 1 .. Len(h) : Reported(h, k, i) /\ h[i].ts >= f

BruteKept ==
  /\ Timed
  /\ bfSweep \in 0 .. now
  /\ DOMAIN bfWindows \subseteq BF!Keys
  /\ Stocked(bfWindows, {"none"}, now, bfSweep)
  /\ \A k \in DOMAIN bfWindows : Service(k) /\ bfWindows[k].seconds = Length(k)
  /\ Marks(bfCooldown, BF!Keys, now)
  /\ Chronicle(bfHistory, now)
  /\ bfHistory # <<>> => bfHistory[Len(bfHistory)].ts - bfSweep < BF!SweepInterval
  /\ \A k \in DOMAIN bfWindows : bfWindows[k].log = <<>> => ReportedSince(bfHistory, k, bfSweep)

BruteSweptTo(vs) ==
  /\ SweptTo(bfWindows, vs, {"none"}, now', bfSweep, bfSweep', BF!SweepInterval)
  /\ Marks(bfCooldown, BF!Keys, now')
  /\ DOMAIN vs \subseteq BF!Keys
  /\ \A k \in DOMAIN vs : Service(k) /\ vs[k].seconds = Length(k)
  /\ \A k \in DOMAIN vs : vs[k].log = <<>> => ReportedSince(bfHistory, k, bfSweep')
  /\ Chronicle(bfHistory, now')

LEMMA BruteSwept ==
  ASSUME BruteKept, Timed', now <= now', BF!Sweep(now')
  PROVE  BruteSweptTo(BF!Swept(now'))
<1> DEFINE vs == BF!Swept(now')
<1>1. /\ now \in Nat /\ now' \in Nat /\ now \in Int /\ now' \in Int /\ bfSweep \in 0 .. now
      /\ Stocked(bfWindows, {"none"}, now, bfSweep)
  BY DEF BruteKept, Timed
<1>2. IF now' - bfSweep >= BF!SweepInterval THEN vs = PruneIdle(bfWindows, now') /\ bfSweep' = now'
      ELSE vs = bfWindows /\ bfSweep' = bfSweep
  BY BruteWindows DEF BF!Swept, BF!SweepDue, BF!Sweep
<1> HIDE DEF vs
<1>3. SweptTo(bfWindows, vs, {"none"}, now', bfSweep, bfSweep', BF!SweepInterval)
  BY <1>1, <1>2, BruteInterval, SweepStep
<1>4. Marks(bfCooldown, BF!Keys, now') /\ Chronicle(bfHistory, now')
  BY <1>1, MarksLater, ChronicleLater DEF BruteKept
<1>5. /\ DOMAIN vs \subseteq BF!Keys
      /\ \A k \in DOMAIN vs : Service(k) /\ vs[k].seconds = Length(k)
      /\ \A k \in DOMAIN vs : vs[k].log = <<>> => ReportedSince(bfHistory, k, bfSweep')
  BY <1>3 DEF SweptTo, BruteKept
<1> QED
  BY <1>3, <1>4, <1>5 DEF vs, BruteSweptTo

LEMMA ReportedSinceStays ==
  ASSUME NEW h, NEW g, Extends(h, g), NEW k, NEW f, ReportedSince(h, k, f)
  PROVE  ReportedSince(g, k, f)
<1>1. \A i \in 1 .. Len(h) : i \in 1 .. Len(g) /\ g[i] = h[i]
  BY DEF Extends
<1> QED
  BY <1>1 DEF ReportedSince, Reported

(* An attempt, the windows being those swept but for that of its key.      *)
LEMMA BruteAttempted ==
  ASSUME BruteKept, Timed', now <= now', NEW key \in BF!Keys, Service(key), NEW vs,
         BruteSweptTo(vs), NEW e, e.ts = now', e.key = key, bfHistory' = Append(bfHistory, e),
         Marks(bfCooldown', BF!Keys, now'),
         \/ bfWindows' = vs
         \/ \E w : /\ bfWindows' = With(vs, key, w)
                   /\ Busy(w, {"none"}, now', bfSweep') /\ w.seconds = Length(key)
                   /\ w.log = <<>> => e.alerted > 0
  PROVE  BruteKept'
<1> DEFINE h == bfHistory
           g == bfHistory'
<1>1. now \in Int /\ now' \in Int /\ now' \in Nat /\ bfSweep' \in Int /\ bfSweep' <= now'
  BY DEF BruteKept, Timed, BruteSweptTo, SweptTo
<1>2. Chronicle(g, now') /\ Extends(h, g) /\ g[Len(g)] = e
  BY <1>1, ChronicleExtends DEF BruteKept
<1>3. Len(g) \in 1 .. Len(g)
  BY <1>2 DEF Extends
<1> HIDE DEF g, h
<1>4. g[Len(g)].ts - bfSweep' < BF!SweepInterval
  BY <1>2 DEF BruteSweptTo, SweptTo
<1>5. bfSweep' \in 0 .. now'
  BY DEF BruteSweptTo, SweptTo
<1>6. \A k \in DOMAIN vs : vs[k].log = <<>> => ReportedSince(g, k, bfSweep')
  BY <1>2, ReportedSinceStays DEF BruteSweptTo, h
<1>7. CASE bfWindows' = vs
  BY <1>2, <1>4, <1>5, <1>6, <1>7 DEF BruteKept, BruteSweptTo, SweptTo, g
<1>8. ASSUME NEW w, bfWindows' = With(vs, key, w), Busy(w, {"none"}, now', bfSweep'),
             w.seconds = Length(key), w.log = <<>> => e.alerted > 0
      PROVE  BruteKept'
  <2> DEFINE us == bfWindows'
  <2>1. Changed(vs, us, {"none"}, now', bfSweep', key, w)
    BY <1>8, StockedWith DEF BruteSweptTo, SweptTo
  <2> HIDE DEF us
  <2>2. /\ Stocked(us, {"none"}, now', bfSweep') /\ DOMAIN us = DOMAIN vs \cup {key} /\ us[key] = w
        /\ \A k \in DOMAIN vs : k # key => us[k] = vs[k]
    BY <2>1 DEF Changed
  <2>3. \A k \in DOMAIN us : k \in BF!Keys /\ Service(k) /\ us[k].seconds = Length(k)
    BY <1>8, <2>2 DEF BruteSweptTo
  <2>4. ASSUME NEW k \in DOMAIN us, us[k].log = <<>> PROVE ReportedSince(g, k, bfSweep')
    <3>1. CASE k # key
      BY <1>6, <2>2, <2>4, <3>1
    <3>2. CASE k = key
      <4>1. e.alerted > 0
        BY <1>8, <2>2, <2>4, <3>2
      <4>2. Reported(g, key, Len(g)) /\ g[Len(g)].ts = now' /\ now' >= bfSweep'
        BY <1>1, <1>2, <4>1 DEF Reported
      <4> QED
        BY <1>3, <3>2, <4>2 DEF ReportedSince
    <3> QED
      BY <3>1, <3>2
  <2> QED
    BY <1>2, <1>4, <1>5, <2>2, <2>3, <2>4 DEF BruteKept, us, g
<1> QED
  BY <1>7, <1>8

LEMMA BruteCountedKept ==
  ASSUME BruteKept, Timed', now <= now', NEW p \in Packets, BF!CountedAttempt(p)
  PROVE  BruteKept'
<1> DEFINE key == BF!Key(p)
           vs == BF!Swept(now')
           w == Add(BruteWindow(vs, key), now', "none")
           count == CountOf(w, "none")
<1>1. BF!Sweep(now') /\ BF!CountAttempt(key, vs) /\ BF!IsAttempt(p)
  BY Zenon DEF BF!CountedAttempt
<1>2. Service(key) /\ key \in BF!Keys
  BY <1>1, KeyOfAttempt DEF BF!Keys
<1>3. \/ /\ count >= Logins[key[3]]
         /\ bfWindows' = With(vs, key, NewWindow(w.seconds))
         /\ bfCooldown' = BF!CT!Mark(bfCooldown, key, now')
         /\ bfHistory' = Append(bfHistory, [key |-> key, ts |-> now', alerted |-> count])
      \/ /\ ~(count >= Logins[key[3]])
         /\ bfWindows' = With(vs, key, w)
         /\ bfCooldown' = bfCooldown
         /\ bfHistory' = Append(bfHistory, [key |-> key, ts |-> now', alerted |-> 0])
  <2> HIDE DEF vs, key
  <2> QED
    BY <1>1, CountedIs
<1>4. BruteSweptTo(vs)
  BY <1>1, BruteSwept
<1> HIDE DEF vs, key
<1>5. /\ now' \in Nat /\ now' \in Int /\ bfSweep' \in Int /\ bfSweep' <= now' /\ Length(key) \in Nat
      /\ Logins[key[3]] \in Nat \ {0}
      /\ Stocked(vs, {"none"}, now', bfSweep')
      /\ key \in DOMAIN vs => vs[key].seconds = Length(key)
  BY <1>2, <1>4, BruteParams DEF BruteSweptTo, SweptTo
<1>6. Busy(w, {"none"}, now', bfSweep') /\ w.seconds = Length(key) /\ w.log # <<>>
  <2>1. "none" \in {"none"}
    OBVIOUS
  <2>2. Fed(w, {"none"}, now', bfSweep', Length(key))
    BY <1>5, <2>1, StockedAdd DEF BruteWindow
  <2> HIDE DEF w
  <2> QED
    BY <2>2 DEF Fed
<1> HIDE DEF w
<1>7. count \in Nat
  <2>1. w.log \in Seq(Ev({"none"})) /\ count = Hits(w.log, Keyed({"none"}, "none"))
    BY <1>6 DEF Busy, Good
  <2> QED
    BY <2>1, HitsFinite
<1> HIDE DEF count
<1>8. CASE /\ count >= Logins[key[3]]
           /\ bfWindows' = With(vs, key, NewWindow(w.seconds))
           /\ bfCooldown' = BF!CT!Mark(bfCooldown, key, now')
           /\ bfHistory' = Append(bfHistory, [key |-> key, ts |-> now', alerted |-> count])
  <2> DEFINE e == [key |-> key, ts |-> now', alerted |-> count]
             b == NewWindow(w.seconds)
  <2>1. e.key = key /\ e.ts = now' /\ e.alerted > 0
    BY <1>5, <1>7, <1>8
  <2>2. Busy(b, {"none"}, now', bfSweep') /\ b.seconds = Length(key)
    BY <1>5, <1>6, NewWindowBusy
  <2>3. Marks(bfCooldown', BF!Keys, now')
    BY <1>2, <1>4, <1>5, <1>8, BruteMarked DEF BruteSweptTo
  <2>4. bfWindows' = With(vs, key, b) /\ bfHistory' = Append(bfHistory, e)
    BY <1>8
  <2> HIDE DEF e, b
  <2> QED
    BY <1>2, <1>4, <2>1, <2>2, <2>3, <2>4, BruteAttempted
<1>9. CASE /\ ~(count >= Logins[key[3]])
           /\ bfWindows' = With(vs, key, w)
           /\ bfCooldown' = bfCooldown
           /\ bfHistory' = Append(bfHistory, [key |-> key, ts |-> now', alerted |-> 0])
  <2> DEFINE e == [key |-> key, ts |-> now', alerted |-> 0]
  <2>1. e.key = key /\ e.ts = now' /\ bfHistory' = Append(bfHistory, e)
    BY <1>9
  <2>2. Marks(bfCooldown', BF!Keys, now')
    BY <1>4, <1>9 DEF BruteSweptTo
  <2> HIDE DEF e
  <2> QED
    BY <1>2, <1>4, <1>6, <1>9, <2>1, <2>2, BruteAttempted
<1> QED
  BY <1>3, <1>8, <1>9

LEMMA BruteKeptInit == Init => BruteKept
<1> SUFFICES ASSUME Init PROVE BruteKept
  OBVIOUS
<1>1. /\ bfWindows = [k \in {} |-> <<>>] /\ bfSweep = 0 /\ bfHistory = <<>>
      /\ bfCooldown = [last |-> [k \in {} |-> 0], lastPrune |-> 0]
      /\ now = Epoch /\ traffic \in Kinds
  BY DEF Init, BF!Init, BF!CT!NewTracker
<1>2. Epoch \in Nat
  BY DetectorsAssumption DEF BF!BruteForceAssumption
<1>3. DOMAIN bfWindows = {} /\ DOMAIN bfCooldown.last = {}
  BY <1>1
<1>4. 0 \in 0 .. now
  BY <1>1, <1>2
<1>5. Chronicle(bfHistory, now)
  <2>1. Len(<<>>) = 0 /\ <<>> \in Seq({}) /\ 1 .. 0 = {}
    BY EmptySeq
  <2> QED
    BY <1>1, <2>1 DEF Chronicle
<1> QED
  BY <1>1, <1>2, <1>3, <1>4, <1>5 DEF BruteKept, Timed, Stocked, Marks

LEMMA BruteKeptNext == BruteKept /\ [Next]_vars => BruteKept'
<1> SUFFICES ASSUME BruteKept, [Next]_vars PROVE BruteKept'
  OBVIOUS
<1>1. CASE UNCHANGED vars
  BY <1>1 DEF vars, bfVars, BruteKept, Timed
<1>2. ASSUME NEW p \in Mixes[traffic].packets, NEW gap \in Mixes[traffic].gaps, Deliver(p, gap)
      PROVE  BruteKept'
  <2>1. Timed' /\ now <= now' /\ BF!Process(p) /\ p \in Packets
    BY <1>2, TimeSteps DEF Deliver, BruteKept
  <2>2. now \in Int /\ now' \in Int /\ now \in Nat /\ now' \in Nat /\ bfSweep \in Int
    BY <2>1 DEF BruteKept, Timed
  <2>3. CASE BF!Ignored(p)
    <3>1. /\ bfWindows' = bfWindows /\ bfSweep' = bfSweep /\ bfCooldown' = bfCooldown
          /\ bfHistory' = bfHistory
      BY <2>3 DEF BF!Ignored
    <3>2. /\ Stocked(bfWindows, {"none"}, now', bfSweep) /\ Marks(bfCooldown, BF!Keys, now')
          /\ Chronicle(bfHistory, now')
      BY <2>1, <2>2, StockedLater, MarksLater, ChronicleLater DEF BruteKept
    <3>3. bfSweep \in 0 .. now'
      BY <2>1, <2>2 DEF BruteKept
    <3> QED
      BY <2>1, <3>1, <3>2, <3>3 DEF BruteKept
  <2>4. CASE BF!OtherPacket(p)
    <3>1. /\ BF!Sweep(now') /\ bfWindows' = BF!Swept(now') /\ bfCooldown' = bfCooldown
          /\ bfHistory' = bfHistory
      BY <2>4 DEF BF!OtherPacket
    <3>2. BruteSweptTo(bfWindows')
      BY <2>1, <3>1, BruteSwept
    <3>3. bfHistory # <<>> => bfHistory[Len(bfHistory)].ts - bfSweep' < BF!SweepInterval
      <4> SUFFICES ASSUME bfHistory # <<>>
                   PROVE  bfHistory[Len(bfHistory)].ts - bfSweep' < BF!SweepInterval
        OBVIOUS
      <4>1. PICK S : bfHistory \in Seq(S)
        BY DEF BruteKept, Chronicle
      <4>2. Len(bfHistory) \in 1 .. Len(bfHistory)
        <5>1. Len(bfHistory) \in Nat /\ Len(bfHistory) # 0
          BY <4>1, EmptySeq, LenProperties
        <5> QED
          BY <5>1
      <4>3. bfHistory[Len(bfHistory)].ts \in Int
        BY <4>2 DEF BruteKept, Chronicle
      <4>4. bfHistory[Len(bfHistory)].ts - bfSweep < BF!SweepInterval
        BY DEF BruteKept
      <4>5. bfSweep <= bfSweep' /\ bfSweep' \in Int /\ BF!SweepInterval \in Int
        BY <3>2, BruteInterval DEF BruteSweptTo, SweptTo
      <4> QED
        BY <2>2, <4>3, <4>4, <4>5
    <3> QED
      BY <2>1, <3>1, <3>2, <3>3 DEF BruteKept, BruteSweptTo, SweptTo
  <2>5. CASE BF!SilencedAttempt(p)
    <3> DEFINE key == BF!Key(p)
               e == [key |-> key, ts |-> now', alerted |-> 0]
    <3>1. /\ BF!Sweep(now') /\ bfWindows' = BF!Swept(now') /\ bfCooldown' = bfCooldown
          /\ bfHistory' = Append(bfHistory, e) /\ BF!IsAttempt(p)
      BY <2>5 DEF BF!SilencedAttempt
    <3>2. e.key = key /\ e.ts = now'
      OBVIOUS
    <3> HIDE DEF e
    <3>3. BruteSweptTo(bfWindows')
      BY <2>1, <3>1, BruteSwept
    <3>4. Service(key) /\ key \in BF!Keys
      BY <2>1, <3>1, KeyOfAttempt DEF BF!Keys
    <3>5. Marks(bfCooldown', BF!Keys, now')
      BY <3>1, <3>3 DEF BruteSweptTo
    <3> HIDE DEF key
    <3> QED
      BY <2>1, <3>1, <3>2, <3>3, <3>4, <3>5, BruteAttempted
  <2>6. CASE BF!CountedAttempt(p)
    BY <2>1, <2>6, BruteCountedKept
  <2> QED
    BY <2>1, <2>3, <2>4, <2>5, <2>6 DEF BF!Process
<1> QED
  BY <1>1, <1>2 DEF Next

LEMMA BruteKeptTyped == BruteKept => BF!TypeOK
<1> SUFFICES ASSUME BruteKept PROVE BF!TypeOK
  OBVIOUS
<1>1. \A k \in DOMAIN bfWindows : \A i \in 1 .. Len(bfWindows[k].log) :
        bfWindows[k].log[i].ts \in 0 .. now
  BY DEF BruteKept, Stocked, Busy
<1> QED
  BY <1>1 DEF BruteKept, Timed, Marks, BF!TypeOK

(* A window with events has had one since shortly before the last sweep.   *)
LEMMA BusyLatest ==
  ASSUME NEW w, NEW K, NEW n \in Int, NEW f, Busy(w, K, n, f), w.log # <<>>
  PROVE  Latest(w).ts \in Int /\ Latest(w).ts >= f - w.seconds /\ w.seconds \in Int
<1>1. w.log \in Seq(Ev(K))
  BY DEF Busy, Good
<1>2. Len(w.log) \in Nat /\ Len(w.log) # 0
  BY <1>1, EmptySeq, LenProperties
<1>3. Len(w.log) \in 1 .. Len(w.log)
  BY <1>2
<1> QED
  BY <1>3 DEF Busy, Latest

LEMMA BruteKeptForgets == BruteKept => BF!KeysForgotten
<1> DEFINE last == bfHistory[Len(bfHistory)].ts
           I == BF!SweepInterval
<1> SUFFICES ASSUME BruteKept, bfHistory # <<>>, NEW k \in DOMAIN bfWindows
             PROVE  IF bfWindows[k].log = <<>>
                    THEN \E i \in 1 .. Len(bfHistory) :
                           /\ bfHistory[i].key = k /\ bfHistory[i].alerted > 0
                           /\ bfHistory[i].ts > last - I
                    ELSE Latest(bfWindows[k]).ts > last - I - Length(k)
  BY DEF BF!KeysForgotten, Latest, Length
<1>1. /\ last - bfSweep < I /\ bfSweep \in Int /\ I \in Int /\ now \in Int
      /\ \A i \in 1 .. Len(bfHistory) : bfHistory[i].ts \in Int
      /\ Busy(bfWindows[k], {"none"}, now, bfSweep) /\ bfWindows[k].seconds = Length(k)
  BY BruteInterval DEF BruteKept, Chronicle, Stocked, Timed
<1>2. last \in Int
  <2>1. PICK S : bfHistory \in Seq(S)
    BY DEF BruteKept, Chronicle
  <2>2. Len(bfHistory) \in Nat /\ Len(bfHistory) # 0
    BY <2>1, EmptySeq, LenProperties
  <2>3. Len(bfHistory) \in 1 .. Len(bfHistory)
    BY <2>2
  <2> QED
    BY <1>1, <2>3
<1> HIDE DEF last, I
<1>3. CASE bfWindows[k].log = <<>>
  <2>1. PICK i \in 1 .. Len(bfHistory) : Reported(bfHistory, k, i) /\ bfHistory[i].ts >= bfSweep
    BY <1>3 DEF BruteKept, ReportedSince
  <2>2. bfHistory[i].ts > last - I
    BY <1>1, <1>2, <2>1
  <2> QED
    BY <1>3, <2>1, <2>2 DEF Reported
<1>4. CASE bfWindows[k].log # <<>>
  <2> DEFINE w == bfWindows[k]
  <2>1. Latest(w).ts \in Int /\ Latest(w).ts >= bfSweep - Length(k) /\ Length(k) \in Int
    BY <1>1, <1>4, BusyLatest
  <2> HIDE DEF w
  <2>2. Latest(w).ts > last - I - Length(k)
    BY <1>1, <1>2, <2>1
  <2> QED
    BY <1>4, <2>2 DEF w
<1> QED
  BY <1>3, <1>4
-----------------------------------------------------------------------------
(* DnsAnomalyDetector: what it keeps.                                      *)
QueryPairs == DN!Sources \X DN!Names

LEMMA QueryMarked ==
  ASSUME NEW n \in Nat, NEW key \in QueryPairs, Marks(dnCooldown, QueryPairs, n)
  PROVE  Marks(DN!CT!Mark(dnCooldown, key, n), QueryPairs, n)
<1>1. MarkedIn(dnCooldown, DN!CT!Mark(dnCooldown, key, n), key, n, QueryCooldown)
  BY DnsCooldown DEF Marks, Timely
<1> QED
  BY <1>1, MarkedMarks DEF MarkedIn

QueryKept ==
  /\ Timed
  /\ dnSweep \in 0 .. now
  /\ DOMAIN dnWindows \subseteq DN!Sources
  /\ Stocked(dnWindows, PlainNames, now, dnSweep)
  /\ \A s \in DOMAIN dnWindows : dnWindows[s].seconds = QueryWindow /\ dnWindows[s].log # <<>>
  /\ Marks(dnCooldown, QueryPairs, now)
  /\ Chronicle(dnHistory, now)
  /\ dnHistory # <<>> => dnHistory[Len(dnHistory)].ts - dnSweep < QueryWindow

QuerySweptTo(vs) ==
  /\ SweptTo(dnWindows, vs, PlainNames, now', dnSweep, dnSweep', QueryWindow)
  /\ Marks(dnCooldown, QueryPairs, now')
  /\ DOMAIN vs \subseteq DN!Sources
  /\ \A s \in DOMAIN vs : vs[s].seconds = QueryWindow /\ vs[s].log # <<>>
  /\ Chronicle(dnHistory, now')

LEMMA QuerySwept ==
  ASSUME QueryKept, Timed', now <= now', DN!Sweep(now')
  PROVE  QuerySweptTo(DN!Swept(now'))
<1> DEFINE vs == DN!Swept(now')
<1>1. /\ now \in Nat /\ now' \in Nat /\ now \in Int /\ now' \in Int /\ dnSweep \in 0 .. now
      /\ Stocked(dnWindows, PlainNames, now, dnSweep)
  BY DEF QueryKept, Timed
<1>2. IF now' - dnSweep >= QueryWindow THEN vs = PruneIdle(dnWindows, now') /\ dnSweep' = now'
      ELSE vs = dnWindows /\ dnSweep' = dnSweep
  BY QueryWindows DEF DN!Swept, DN!SweepDue, DN!Sweep
<1> HIDE DEF vs
<1>3. QueryWindow \in Nat \ {0}
  BY DetectorsAssumption DEF DN!DnsAnomalyAssumption
<1>4. SweptTo(dnWindows, vs, PlainNames, now', dnSweep, dnSweep', QueryWindow)
  BY <1>1, <1>2, <1>3, SweepStep
<1>5. Marks(dnCooldown, QueryPairs, now') /\ Chronicle(dnHistory, now')
  BY <1>1, MarksLater, ChronicleLater DEF QueryKept
<1>6. /\ DOMAIN vs \subseteq DN!Sources
      /\ \A s \in DOMAIN vs : vs[s].seconds = QueryWindow /\ vs[s].log # <<>>
  BY <1>4 DEF SweptTo, QueryKept
<1> QED
  BY <1>4, <1>5, <1>6 DEF vs, QuerySweptTo

(* A query, the windows being those swept but for that of its source.      *)
LEMMA QueryAsked ==
  ASSUME QueryKept, Timed', now <= now', NEW src \in DN!Sources, NEW vs,
         QuerySweptTo(vs), NEW e, e.ts = now', dnHistory' = Append(dnHistory, e),
         Marks(dnCooldown', QueryPairs, now'),
         \/ dnWindows' = vs
         \/ \E w : dnWindows' = With(vs, src, w) /\ Fed(w, PlainNames, now', dnSweep', QueryWindow)
  PROVE  QueryKept'
<1> DEFINE h == dnHistory
           g == dnHistory'
<1>1. now \in Int /\ now' \in Int /\ now' \in Nat /\ dnSweep' \in Int /\ dnSweep' <= now'
  BY DEF QueryKept, Timed, QuerySweptTo, SweptTo
<1>2. Chronicle(g, now') /\ Extends(h, g) /\ g[Len(g)] = e
  BY <1>1, ChronicleExtends DEF QueryKept
<1> HIDE DEF g, h
<1>3. g[Len(g)].ts - dnSweep' < QueryWindow
  BY <1>2 DEF QuerySweptTo, SweptTo
<1>4. dnSweep' \in 0 .. now'
  BY DEF QuerySweptTo, SweptTo
<1>5. CASE dnWindows' = vs
  BY <1>2, <1>3, <1>4, <1>5 DEF QueryKept, QuerySweptTo, SweptTo, g
<1>6. ASSUME NEW w, dnWindows' = With(vs, src, w), Fed(w, PlainNames, now', dnSweep', QueryWindow)
      PROVE  QueryKept'
  <2> DEFINE us == dnWindows'
  <2>1. Changed(vs, us, PlainNames, now', dnSweep', src, w)
    BY <1>6, StockedWith DEF QuerySweptTo, SweptTo, Fed
  <2> HIDE DEF us
  <2>2. /\ Stocked(us, PlainNames, now', dnSweep') /\ DOMAIN us = DOMAIN vs \cup {src} /\ us[src] = w
        /\ \A k \in DOMAIN vs : k # src => us[k] = vs[k]
    BY <2>1 DEF Changed
  <2>3. \A k \in DOMAIN us : k \in DN!Sources /\ us[k].seconds = QueryWindow /\ us[k].log # <<>>
    BY <1>6, <2>2 DEF QuerySweptTo, Fed
  <2> QED
    BY <1>2, <1>3, <1>4, <2>2, <2>3 DEF QueryKept, us, g
<1> QED
  BY <1>5, <1>6

LEMMA PlainQueryKept ==
  ASSUME QueryKept, Timed', now <= now', NEW src \in DN!Sources, NEW name \in DN!Names,
         DN!Sweep(now'), DN!PlainName(src, name)
  PROVE  QueryKept'
<1> DEFINE vs == DN!Swept(now')
           w == Add(WindowOf(vs, src, QueryWindow), now', name)
           count == CountOf(w, name)
<1>1. DN!CountName(src, name, vs) /\ name \notin Long \cup Encoded
  BY Zenon DEF DN!PlainName
<1>2. /\ dnWindows' = With(vs, src, w)
      /\ \/ count >= Queries /\ DN!Alert(src, name, "QUERY_FLOOD", count)
         \/ ~(count >= Queries) /\ DN!NoAlert(src, name)
  <2> HIDE DEF vs
  <2> QED
    BY <1>1, NameCountedIs
<1>3. QuerySweptTo(vs)
  BY QuerySwept
<1> HIDE DEF vs
<1>4. /\ now' \in Nat /\ dnSweep' \in Int /\ dnSweep' <= now' /\ QueryWindow \in Nat
      /\ Stocked(vs, PlainNames, now', dnSweep') /\ name \in PlainNames
      /\ src \in DOMAIN vs => vs[src].seconds = QueryWindow
      /\ Marks(dnCooldown, QueryPairs, now') /\ <<src, name>> \in QueryPairs
  BY <1>1, <1>3, DnsParams DEF QuerySweptTo, SweptTo, PlainNames, QueryPairs
<1>5. Fed(w, PlainNames, now', dnSweep', QueryWindow)
  BY <1>4, StockedAdd
<1> HIDE DEF w, count
<1>6. ASSUME NEW reason, NEW value, DN!Alert(src, name, reason, value)
      PROVE  Marks(dnCooldown', QueryPairs, now')
  BY <1>4, <1>6, QueryMarked DEF DN!Alert
<1>7. ASSUME DN!NoAlert(src, name) PROVE Marks(dnCooldown', QueryPairs, now')
  BY <1>4, <1>7 DEF DN!NoAlert
<1>8. Marks(dnCooldown', QueryPairs, now')
  BY <1>2, <1>6, <1>7
<1>9. \E e : e.ts = now' /\ dnHistory' = Append(dnHistory, e)
  <2>1. ASSUME DN!Alert(src, name, "QUERY_FLOOD", count)
        PROVE  \E e : e.ts = now' /\ dnHistory' = Append(dnHistory, e)
    <3> DEFINE e == [src |-> src, name |-> name, ts |-> now', reason |-> "QUERY_FLOOD", value |-> count]
    <3>1. e.ts = now' /\ dnHistory' = Append(dnHistory, e)
      BY <2>1 DEF DN!Alert
    <3> QED
      BY <3>1
  <2>2. ASSUME DN!NoAlert(src, name)
        PROVE  \E e : e.ts = now' /\ dnHistory' = Append(dnHistory, e)
    <3> DEFINE e == [src |-> src, name |-> name, ts |-> now', reason |-> "none", value |-> 0]
    <3>1. e.ts = now' /\ dnHistory' = Append(dnHistory, e)
      BY <2>2 DEF DN!NoAlert
    <3> QED
      BY <3>1
  <2> QED
    BY <1>2, <2>1, <2>2
<1> QED
  BY <1>2, <1>3, <1>5, <1>8, <1>9, QueryAsked

LEMMA QueryKeptNext == QueryKept /\ [Next]_vars => QueryKept'
<1> SUFFICES ASSUME QueryKept, [Next]_vars PROVE QueryKept'
  OBVIOUS
<1>1. CASE UNCHANGED vars
  BY <1>1 DEF vars, dnVars, QueryKept, Timed
<1>2. ASSUME NEW p \in Mixes[traffic].packets, NEW gap \in Mixes[traffic].gaps, Deliver(p, gap)
      PROVE  QueryKept'
  <2>1. Timed' /\ now <= now' /\ DN!Process(p) /\ p \in Packets
    BY <1>2, TimeSteps DEF Deliver, QueryKept
  <2>2. now \in Int /\ now' \in Int /\ now \in Nat /\ now' \in Nat /\ dnSweep \in Int
    BY <2>1 DEF QueryKept, Timed
  <2>3. CASE DN!Ignored(p)
    <3>1. /\ dnWindows' = dnWindows /\ dnSweep' = dnSweep /\ dnCooldown' = dnCooldown
          /\ dnHistory' = dnHistory
      BY <2>3 DEF DN!Ignored
    <3>2. /\ Stocked(dnWindows, PlainNames, now', dnSweep) /\ Marks(dnCooldown, QueryPairs, now')
          /\ Chronicle(dnHistory, now')
      BY <2>1, <2>2, StockedLater, MarksLater, ChronicleLater DEF QueryKept
    <3>3. dnSweep \in 0 .. now'
      BY <2>1, <2>2 DEF QueryKept
    <3> QED
      BY <2>1, <3>1, <3>2, <3>3 DEF QueryKept
  <2>4. CASE DN!Query(p)
    <3>1. /\ DN!Sweep(now') /\ DN!IsQuery(p)
          /\ \/ DN!SilentQuery(p.src, p.qname)
             \/ DN!SuspectName(p.src, p.qname)
             \/ DN!PlainName(p.src, p.qname)
      BY <2>4, Zenon DEF DN!Query
    <3>2. p.src \in DN!Sources /\ p.qname \in DN!Names
      <4>1. p.src # None /\ p.qname # None
        BY <2>1, <3>1, DetectorsAssumption DEF DN!IsQuery, DN!DnsAnomalyAssumption, DN!None, None
      <4> QED
        BY <2>1, <4>1 DEF DN!Sources, DN!Names, DN!None, None
    <3>3. QuerySweptTo(DN!Swept(now'))
      BY <2>1, <3>1, QuerySwept
    <3>4. Marks(dnCooldown, QueryPairs, now') /\ <<p.src, p.qname>> \in QueryPairs
      BY <3>2, <3>3 DEF QuerySweptTo, QueryPairs
    <3>5. CASE DN!SilentQuery(p.src, p.qname)
      <4> DEFINE e == [src |-> p.src, name |-> p.qname, ts |-> now', reason |-> "none", value |-> 0]
      <4>1. /\ dnWindows' = DN!Swept(now') /\ dnCooldown' = dnCooldown
            /\ dnHistory' = Append(dnHistory, e) /\ e.ts = now'
        BY <3>5 DEF DN!SilentQuery, DN!NoAlert
      <4> HIDE DEF e
      <4> QED
        BY <2>1, <3>2, <3>3, <3>4, <4>1, QueryAsked
    <3>6. CASE DN!SuspectName(p.src, p.qname)
      <4> DEFINE reason == IF p.qname \in Long THEN "LONG_SUBDOMAIN" ELSE "HIGH_ENTROPY"
                 e == [src |-> p.src, name |-> p.qname, ts |-> now', reason |-> reason, value |-> 0]
      <4>1. /\ dnWindows' = DN!Swept(now')
            /\ dnCooldown' = DN!CT!Mark(dnCooldown, <<p.src, p.qname>>, now')
            /\ dnHistory' = Append(dnHistory, e) /\ e.ts = now'
        BY <3>6 DEF DN!SuspectName, DN!Alert
      <4> HIDE DEF e
      <4>2. Marks(dnCooldown', QueryPairs, now')
        BY <2>2, <3>4, <4>1, QueryMarked
      <4> QED
        BY <2>1, <3>2, <3>3, <4>1, <4>2, QueryAsked
    <3>7. CASE DN!PlainName(p.src, p.qname)
      BY <2>1, <3>1, <3>2, <3>7, PlainQueryKept
    <3> QED
      BY <3>1, <3>5, <3>6, <3>7
  <2> QED
    BY <2>1, <2>3, <2>4, Zenon DEF DN!Process
<1> QED
  BY <1>1, <1>2 DEF Next

LEMMA QueryKeptInit == Init => QueryKept
<1> SUFFICES ASSUME Init PROVE QueryKept
  OBVIOUS
<1>1. /\ dnWindows = [s \in {} |-> DN!SW!NewWindow(QueryWindow)] /\ dnSweep = 0 /\ dnHistory = <<>>
      /\ dnCooldown = [last |-> [k \in {} |-> 0], lastPrune |-> 0]
      /\ now = Epoch /\ traffic \in Kinds
  BY DEF Init, DN!Init, DN!CT!NewTracker
<1>2. Epoch \in Nat
  BY DetectorsAssumption DEF DN!DnsAnomalyAssumption
<1>3. DOMAIN dnWindows = {} /\ DOMAIN dnCooldown.last = {}
  BY <1>1
<1>4. 0 \in 0 .. now
  BY <1>1, <1>2
<1>5. Chronicle(dnHistory, now)
  <2>1. Len(<<>>) = 0 /\ <<>> \in Seq({}) /\ 1 .. 0 = {}
    BY EmptySeq
  <2> QED
    BY <1>1, <2>1 DEF Chronicle
<1> QED
  BY <1>1, <1>2, <1>3, <1>4, <1>5 DEF QueryKept, Timed, Stocked, Marks

LEMMA QueryKeptTyped == QueryKept => DN!TypeOK
<1> SUFFICES ASSUME QueryKept PROVE DN!TypeOK
  OBVIOUS
<1>1. \A s \in DOMAIN dnWindows : \A i \in 1 .. Len(dnWindows[s].log) :
        dnWindows[s].log[i].key \in PlainNames
  BY DEF QueryKept, Stocked, Busy
<1> QED
  BY <1>1 DEF QueryKept, Timed, Marks, QueryPairs, PlainNames, DN!TypeOK

LEMMA QueryKeptForgets == QueryKept => DN!SourcesForgotten
<1> DEFINE last == dnHistory[Len(dnHistory)].ts
<1> SUFFICES ASSUME QueryKept, dnHistory # <<>>, NEW s \in DOMAIN dnWindows
             PROVE  Latest(dnWindows[s]).ts > last - 2 * QueryWindow
  BY DEF DN!SourcesForgotten, Latest
<1>1. /\ last - dnSweep < QueryWindow /\ dnSweep \in Int /\ QueryWindow \in Int /\ now \in Int
      /\ \A i \in 1 .. Len(dnHistory) : dnHistory[i].ts \in Int
      /\ Busy(dnWindows[s], PlainNames, now, dnSweep)
      /\ dnWindows[s].seconds = QueryWindow /\ dnWindows[s].log # <<>>
  BY DnsParams DEF QueryKept, Chronicle, Stocked, Timed
<1>2. last \in Int
  <2>1. PICK S : dnHistory \in Seq(S)
    BY DEF QueryKept, Chronicle
  <2>2. Len(dnHistory) \in Nat /\ Len(dnHistory) # 0
    BY <2>1, EmptySeq, LenProperties
  <2>3. Len(dnHistory) \in 1 .. Len(dnHistory)
    BY <2>2
  <2> QED
    BY <1>1, <2>3
<1> HIDE DEF last
<1> DEFINE w == dnWindows[s]
<1>3. Latest(w).ts \in Int /\ Latest(w).ts >= dnSweep - QueryWindow
  BY <1>1, BusyLatest
<1> HIDE DEF w
<1>4. Latest(w).ts > last - 2 * QueryWindow
  BY <1>1, <1>2, <1>3
<1> QED
  BY <1>4 DEF w
-----------------------------------------------------------------------------
(* ArpSpoofDetector: what it keeps.                                        *)
ToldSince(h, m, f) == \E i \in 1 .. Len(h) : h[i].mac = m /\ h[i].flood > 0 /\ h[i].ts >= f

TableTyped == DOMAIN arTable \subseteq AR!IPs /\ \A ip \in DOMAIN arTable : arTable[ip] \in AR!MACs

ReplyKept ==
  /\ Timed
  /\ arSweep \in 0 .. now
  /\ TableTyped
  /\ DOMAIN arGratuitous \subseteq AR!MACs
  /\ Stocked(arGratuitous, {None}, now, arSweep)
  /\ \A m \in DOMAIN arGratuitous : arGratuitous[m].seconds = AnnounceWindow
  /\ Chronicle(arHistory, now)
  /\ arHistory # <<>> => arHistory[Len(arHistory)].ts - arSweep < AnnounceWindow
  /\ \A m \in DOMAIN arGratuitous :
       arGratuitous[m].log = <<>> => ToldSince(arHistory, m, arSweep)

ReplySweptTo(vs) ==
  /\ SweptTo(arGratuitous, vs, {None}, now', arSweep, arSweep', AnnounceWindow)
  /\ DOMAIN vs \subseteq AR!MACs
  /\ \A m \in DOMAIN vs : vs[m].seconds = AnnounceWindow
  /\ \A m \in DOMAIN vs : vs[m].log = <<>> => ToldSince(arHistory, m, arSweep')
  /\ Chronicle(arHistory, now')

LEMMA ReplySwept ==
  ASSUME ReplyKept, Timed', now <= now', AR!Sweep(now')
  PROVE  ReplySweptTo(AR!Swept(now'))
<1> DEFINE vs == AR!Swept(now')
<1>1. /\ now \in Nat /\ now' \in Nat /\ now \in Int /\ now' \in Int /\ arSweep \in 0 .. now
      /\ Stocked(arGratuitous, {None}, now, arSweep)
  BY DEF ReplyKept, Timed
<1>2. IF now' - arSweep >= AnnounceWindow THEN vs = PruneIdle(arGratuitous, now') /\ arSweep' = now'
      ELSE vs = arGratuitous /\ arSweep' = arSweep
  BY ArpWindows DEF AR!Swept, AR!SweepDue, AR!Sweep
<1> HIDE DEF vs
<1>3. SweptTo(arGratuitous, vs, {None}, now', arSweep, arSweep', AnnounceWindow)
  BY <1>1, <1>2, AnnounceParams, SweepStep
<1>4. Chronicle(arHistory, now')
  BY <1>1, ChronicleLater DEF ReplyKept
<1>5. /\ DOMAIN vs \subseteq AR!MACs
      /\ \A m \in DOMAIN vs : vs[m].seconds = AnnounceWindow
      /\ \A m \in DOMAIN vs : vs[m].log = <<>> => ToldSince(arHistory, m, arSweep')
  BY <1>3 DEF SweptTo, ReplyKept
<1> QED
  BY <1>3, <1>4, <1>5 DEF vs, ReplySweptTo

LEMMA ToldSinceStays ==
  ASSUME NEW h, NEW g, Extends(h, g), NEW m, NEW f, ToldSince(h, m, f)
  PROVE  ToldSince(g, m, f)
<1>1. \A i \in 1 .. Len(h) : i \in 1 .. Len(g) /\ g[i] = h[i]
  BY DEF Extends
<1> QED
  BY <1>1 DEF ToldSince

(* _arp_table keeps the addresses of packets.                              *)
LEMMA SeenTyped ==
  ASSUME TableTyped, NEW p \in Packets, NEW flood, AR!Seen(p, flood)
  PROVE  TableTyped' /\ p.src \in AR!IPs /\ p.mac \in AR!MACs
<1>1. p.src \in AR!IPs /\ p.mac \in AR!MACs
  BY DEF AR!Seen, AR!IPs, AR!MACs
<1>2. arTable' = [i \in DOMAIN arTable \cup {p.src} |-> IF i = p.src THEN p.mac ELSE arTable[i]]
  BY DEF AR!Seen, AR!Learned
<1> QED
  BY <1>1, <1>2 DEF TableTyped

(* A packet with both addresses, the windows being those swept but for     *)
(* that of its MAC.                                                        *)
LEMMA ReplySeen ==
  ASSUME ReplyKept, Timed', now <= now', TableTyped', NEW mac \in AR!MACs, NEW vs,
         ReplySweptTo(vs), NEW e, e.ts = now', e.mac = mac, arHistory' = Append(arHistory, e),
         \/ arGratuitous' = vs
         \/ \E w : /\ arGratuitous' = With(vs, mac, w)
                   /\ Busy(w, {None}, now', arSweep') /\ w.seconds = AnnounceWindow
                   /\ w.log = <<>> => e.flood > 0
  PROVE  ReplyKept'
<1> DEFINE h == arHistory
           g == arHistory'
<1>1. now \in Int /\ now' \in Int /\ now' \in Nat /\ arSweep' \in Int /\ arSweep' <= now'
  BY DEF ReplyKept, Timed, ReplySweptTo, SweptTo
<1>2. Chronicle(g, now') /\ Extends(h, g) /\ g[Len(g)] = e
  BY <1>1, ChronicleExtends DEF ReplyKept
<1>3. Len(g) \in 1 .. Len(g)
  BY <1>2 DEF Extends
<1> HIDE DEF g, h
<1>4. g[Len(g)].ts - arSweep' < AnnounceWindow
  BY <1>2 DEF ReplySweptTo, SweptTo
<1>5. arSweep' \in 0 .. now'
  BY DEF ReplySweptTo, SweptTo
<1>6. \A m \in DOMAIN vs : vs[m].log = <<>> => ToldSince(g, m, arSweep')
  BY <1>2, ToldSinceStays DEF ReplySweptTo, h
<1>7. CASE arGratuitous' = vs
  BY <1>2, <1>4, <1>5, <1>6, <1>7 DEF ReplyKept, ReplySweptTo, SweptTo, g
<1>8. ASSUME NEW w, arGratuitous' = With(vs, mac, w), Busy(w, {None}, now', arSweep'),
             w.seconds = AnnounceWindow, w.log = <<>> => e.flood > 0
      PROVE  ReplyKept'
  <2> DEFINE us == arGratuitous'
  <2>1. Changed(vs, us, {None}, now', arSweep', mac, w)
    BY <1>8, StockedWith DEF ReplySweptTo, SweptTo
  <2> HIDE DEF us
  <2>2. /\ Stocked(us, {None}, now', arSweep') /\ DOMAIN us = DOMAIN vs \cup {mac} /\ us[mac] = w
        /\ \A m \in DOMAIN vs : m # mac => us[m] = vs[m]
    BY <2>1 DEF Changed
  <2>3. \A m \in DOMAIN us : m \in AR!MACs /\ us[m].seconds = AnnounceWindow
    BY <1>8, <2>2 DEF ReplySweptTo
  <2>4. ASSUME NEW m \in DOMAIN us, us[m].log = <<>> PROVE ToldSince(g, m, arSweep')
    <3>1. CASE m # mac
      BY <1>6, <2>2, <2>4, <3>1
    <3>2. CASE m = mac
      <4>1. e.flood > 0
        BY <1>8, <2>2, <2>4, <3>2
      <4>2. g[Len(g)].mac = mac /\ g[Len(g)].flood > 0 /\ g[Len(g)].ts >= arSweep'
        BY <1>1, <1>2, <4>1
      <4> QED
        BY <1>3, <3>2, <4>2 DEF ToldSince
    <3> QED
      BY <3>1, <3>2
  <2> QED
    BY <1>2, <1>4, <1>5, <2>2, <2>3, <2>4 DEF ReplyKept, us, g
<1> QED
  BY <1>7, <1>8

LEMMA GratuitousKept ==
  ASSUME ReplyKept, Timed', now <= now', NEW p \in Packets, AR!Sweep(now'), AR!Gratuitous(p)
  PROVE  ReplyKept'
<1> DEFINE vs == AR!Swept(now')
           w == Add(WindowOf(vs, p.mac, AnnounceWindow), now', None)
           b == NewWindow(w.seconds)
           count == CountOf(w, None)
           flood == IF count > Announcements THEN count ELSE 0
<1>1. CountedReply(p, vs, w)
  <2> HIDE DEF vs
  <2> QED
    BY GratuitousIs DEF vs
<1>2. ReplySweptTo(vs)
  BY ReplySwept
<1> HIDE DEF vs
<1>3. AR!Seen(p, flood) /\ arGratuitous' = With(vs, p.mac, IF count > Announcements THEN b ELSE w)
  <2> HIDE DEF w
  <2> QED
    BY <1>1 DEF CountedReply
<1>4. TableTyped' /\ p.mac \in AR!MACs
  <2>1. TableTyped
    BY DEF ReplyKept
  <2> HIDE DEF flood, w, b
  <2> QED
    BY <1>3, <2>1, SeenTyped
<1>5. /\ now' \in Nat /\ now' \in Int /\ arSweep' \in Int /\ arSweep' <= now'
      /\ AnnounceWindow \in Nat /\ Announcements \in Nat /\ None \in {None}
      /\ Stocked(vs, {None}, now', arSweep')
      /\ p.mac \in DOMAIN vs => vs[p.mac].seconds = AnnounceWindow
  BY <1>2, AnnounceParams DEF ReplySweptTo, SweptTo
<1>6. Fed(w, {None}, now', arSweep', AnnounceWindow)
  BY <1>5, StockedAdd
<1> HIDE DEF w
<1>7. Busy(w, {None}, now', arSweep') /\ w.seconds = AnnounceWindow /\ w.log # <<>>
  BY <1>6 DEF Fed
<1>8. Busy(b, {None}, now', arSweep') /\ b.seconds = AnnounceWindow
  BY <1>5, <1>7, NewWindowBusy
<1> HIDE DEF b
<1>9. count \in Nat
  <2>1. w.log \in Seq(Ev({None})) /\ count = Hits(w.log, Keyed({None}, None))
    BY <1>7 DEF Busy, Good
  <2> QED
    BY <2>1, HitsFinite
<1> HIDE DEF count
<1> DEFINE e == [ip |-> p.src, mac |-> p.mac, ts |-> now',
                 announces |-> AR!Announces(p),
                 conflict |-> AR!Conflict(p.src, p.mac), flood |-> flood]
<1>10. arHistory' = Append(arHistory, e) /\ e.ts = now' /\ e.mac = p.mac /\ e.flood = flood
  <2> HIDE DEF flood
  <2> QED
    BY <1>3 DEF AR!Seen
<1> HIDE DEF e
<1>11. CASE count > Announcements
  <2>1. e.flood > 0 /\ arGratuitous' = With(vs, p.mac, b)
    BY <1>3, <1>5, <1>9, <1>10, <1>11
  <2> HIDE DEF flood
  <2> QED
    BY <1>2, <1>4, <1>8, <1>10, <2>1, ReplySeen
<1>12. CASE ~(count > Announcements)
  <2>1. arGratuitous' = With(vs, p.mac, w)
    BY <1>3, <1>12
  <2> HIDE DEF flood
  <2> QED
    BY <1>2, <1>4, <1>7, <1>10, <2>1, ReplySeen
<1> QED
  BY <1>11, <1>12

LEMMA ReplyKeptNext == ReplyKept /\ [Next]_vars => ReplyKept'
<1> SUFFICES ASSUME ReplyKept, [Next]_vars PROVE ReplyKept'
  OBVIOUS
<1>1. CASE UNCHANGED vars
  BY <1>1 DEF vars, arVars, ReplyKept, Timed, TableTyped
<1>2. ASSUME NEW p \in Mixes[traffic].packets, NEW gap \in Mixes[traffic].gaps, Deliver(p, gap)
      PROVE  ReplyKept'
  <2>1. Timed' /\ now <= now' /\ AR!Process(p) /\ p \in Packets
    BY <1>2, TimeSteps DEF Deliver, ReplyKept
  <2>2. now \in Int /\ now' \in Int /\ now \in Nat /\ now' \in Nat /\ arSweep \in Int /\ TableTyped
    BY <2>1 DEF ReplyKept, Timed
  <2>3. CASE AR!Ignored(p)
    <3>1. /\ arGratuitous' = arGratuitous /\ arSweep' = arSweep /\ arTable' = arTable
          /\ arHistory' = arHistory
      BY <2>3 DEF AR!Ignored
    <3>2. Stocked(arGratuitous, {None}, now', arSweep) /\ Chronicle(arHistory, now')
      BY <2>1, <2>2, StockedLater, ChronicleLater DEF ReplyKept
    <3>3. arSweep \in 0 .. now'
      BY <2>1, <2>2 DEF ReplyKept
    <3> QED
      BY <2>1, <3>1, <3>2, <3>3 DEF ReplyKept, TableTyped
  <2>4. CASE AR!Sweep(now') /\ AR!NoAddress(p)
    <3>1. /\ arGratuitous' = AR!Swept(now') /\ arTable' = arTable /\ arHistory' = arHistory
      BY <2>4 DEF AR!NoAddress
    <3>2. ReplySweptTo(arGratuitous')
      BY <2>1, <2>4, <3>1, ReplySwept
    <3>3. arHistory # <<>> => arHistory[Len(arHistory)].ts - arSweep' < AnnounceWindow
      <4> SUFFICES ASSUME arHistory # <<>>
                   PROVE  arHistory[Len(arHistory)].ts - arSweep' < AnnounceWindow
        OBVIOUS
      <4>1. PICK S : arHistory \in Seq(S)
        BY DEF ReplyKept, Chronicle
      <4>2. Len(arHistory) \in 1 .. Len(arHistory)
        <5>1. Len(arHistory) \in Nat /\ Len(arHistory) # 0
          BY <4>1, EmptySeq, LenProperties
        <5> QED
          BY <5>1
      <4>3. arHistory[Len(arHistory)].ts \in Int
        BY <4>2 DEF ReplyKept, Chronicle
      <4>4. arHistory[Len(arHistory)].ts - arSweep < AnnounceWindow
        BY DEF ReplyKept
      <4>5. arSweep <= arSweep' /\ arSweep' \in Int /\ AnnounceWindow \in Int
        BY <3>2, AnnounceParams DEF ReplySweptTo, SweptTo
      <4> QED
        BY <2>2, <4>3, <4>4, <4>5
    <3>4. TableTyped'
      BY <2>2, <3>1 DEF TableTyped
    <3> QED
      BY <2>1, <3>1, <3>2, <3>3, <3>4 DEF ReplyKept, ReplySweptTo, SweptTo
  <2>5. CASE AR!Sweep(now') /\ AR!Plain(p)
    <3> DEFINE e == [ip |-> p.src, mac |-> p.mac, ts |-> now',
                     announces |-> AR!Announces(p),
                     conflict |-> AR!Conflict(p.src, p.mac), flood |-> 0]
    <3>1. /\ arGratuitous' = AR!Swept(now') /\ AR!Seen(p, 0)
          /\ arHistory' = Append(arHistory, e) /\ e.ts = now' /\ e.mac = p.mac
      BY <2>5 DEF AR!Plain, AR!Seen
    <3> HIDE DEF e
    <3>2. ReplySweptTo(AR!Swept(now'))
      BY <2>1, <2>5, ReplySwept
    <3>3. TableTyped' /\ p.mac \in AR!MACs
      BY <2>1, <2>2, <3>1, SeenTyped
    <3> QED
      BY <2>1, <3>1, <3>2, <3>3, ReplySeen
  <2>6. CASE AR!Sweep(now') /\ AR!Gratuitous(p)
    BY <2>1, <2>6, GratuitousKept
  <2> QED
    BY <2>1, <2>3, <2>4, <2>5, <2>6, Zenon DEF AR!Process, AR!ArpPacket
<1> QED
  BY <1>1, <1>2 DEF Next

LEMMA ReplyKeptInit == Init => ReplyKept
<1> SUFFICES ASSUME Init PROVE ReplyKept
  OBVIOUS
<1>1. /\ arGratuitous = [m \in {} |-> AR!SW!NewWindow(AnnounceWindow)] /\ arSweep = 0
      /\ arHistory = <<>> /\ arTable = [ip \in {} |-> ip] /\ now = Epoch /\ traffic \in Kinds
  BY DEF Init, AR!Init
<1>2. Epoch \in Nat
  BY DetectorsAssumption DEF AR!ArpSpoofAssumption
<1>3. DOMAIN arGratuitous = {} /\ DOMAIN arTable = {}
  BY <1>1
<1>4. 0 \in 0 .. now
  BY <1>1, <1>2
<1>5. Chronicle(arHistory, now)
  <2>1. Len(<<>>) = 0 /\ <<>> \in Seq({}) /\ 1 .. 0 = {}
    BY EmptySeq
  <2> QED
    BY <1>1, <2>1 DEF Chronicle
<1> QED
  BY <1>1, <1>2, <1>3, <1>4, <1>5 DEF ReplyKept, Timed, Stocked, TableTyped

LEMMA ReplyKeptTyped == ReplyKept => AR!TypeOK
<1> SUFFICES ASSUME ReplyKept PROVE AR!TypeOK
  OBVIOUS
<1>1. \A m \in DOMAIN arGratuitous : \A i \in 1 .. Len(arGratuitous[m].log) :
        arGratuitous[m].log[i].ts \in 0 .. now
  BY DEF ReplyKept, Stocked, Busy
<1> QED
  BY <1>1 DEF ReplyKept, Timed, TableTyped, AR!TypeOK

LEMMA ReplyKeptForgets == ReplyKept => AR!MacsForgotten
<1> DEFINE last == arHistory[Len(arHistory)].ts
<1> SUFFICES ASSUME ReplyKept, arHistory # <<>>, NEW m \in DOMAIN arGratuitous
             PROVE  IF arGratuitous[m].log = <<>>
                    THEN \E i \in 1 .. Len(arHistory) :
                           /\ arHistory[i].mac = m /\ arHistory[i].flood > 0
                           /\ arHistory[i].ts > last - AnnounceWindow
                    ELSE Latest(arGratuitous[m]).ts > last - 2 * AnnounceWindow
  BY DEF AR!MacsForgotten, Latest
<1>1. /\ last - arSweep < AnnounceWindow /\ arSweep \in Int /\ AnnounceWindow \in Int /\ now \in Int
      /\ \A i \in 1 .. Len(arHistory) : arHistory[i].ts \in Int
      /\ Busy(arGratuitous[m], {None}, now, arSweep) /\ arGratuitous[m].seconds = AnnounceWindow
  <2>1. last - arSweep < AnnounceWindow /\ arSweep \in Int /\ now \in Int
    BY DEF ReplyKept, Timed
  <2>2. \A i \in 1 .. Len(arHistory) : arHistory[i].ts \in Int
    BY DEF ReplyKept, Chronicle
  <2>3. Busy(arGratuitous[m], {None}, now, arSweep) /\ arGratuitous[m].seconds = AnnounceWindow
    BY DEF ReplyKept, Stocked
  <2> QED
    BY <2>1, <2>2, <2>3, AnnounceParams
<1>2. last \in Int
  <2>1. PICK S : arHistory \in Seq(S)
    BY DEF ReplyKept, Chronicle
  <2>2. Len(arHistory) \in Nat /\ Len(arHistory) # 0
    BY <2>1, EmptySeq, LenProperties
  <2>3. Len(arHistory) \in 1 .. Len(arHistory)
    BY <2>2
  <2> QED
    BY <1>1, <2>3
<1> HIDE DEF last
<1>3. CASE arGratuitous[m].log = <<>>
  <2>1. PICK i \in 1 .. Len(arHistory) :
          arHistory[i].mac = m /\ arHistory[i].flood > 0 /\ arHistory[i].ts >= arSweep
    BY <1>3 DEF ReplyKept, ToldSince
  <2>2. arHistory[i].ts > last - AnnounceWindow
    BY <1>1, <1>2, <2>1
  <2> QED
    BY <1>3, <2>1, <2>2
<1>4. CASE arGratuitous[m].log # <<>>
  <2> DEFINE w == arGratuitous[m]
  <2>1. Latest(w).ts \in Int /\ Latest(w).ts >= arSweep - AnnounceWindow
    BY <1>1, <1>4, BusyLatest
  <2> HIDE DEF w
  <2>2. Latest(w).ts > last - 2 * AnnounceWindow
    BY <1>1, <1>2, <2>1
  <2> QED
    BY <1>4, <2>2 DEF w
<1> QED
  BY <1>3, <1>4
-----------------------------------------------------------------------------
(* SynFloodDetector: what it keeps, beside what FloodInv says of it.       *)
TrafficKept ==
  /\ Timed
  /\ sfEval \in {-1} \cup 0 .. now
  /\ DOMAIN sfWindows \subseteq SF!Targets
  /\ \A d \in DOMAIN sfWindows : sfWindows[d].log # <<>>
  /\ Marks(sfCooldown, SF!Targets, now)

LEMMA AddLogs ==
  ASSUME NEW w, NEW s \in Int, NEW K, NEW n \in Int, Good(w, s, K, n), NEW key \in K
  PROVE  Add(w, n, key).log # <<>>
<1> DEFINE p == Prune(w, n)
           e == [ts |-> n, key |-> key]
<1>1. Kept(w, p, s, K, n)
  BY PruneGood
<1>2. Add(w, n, key).log = Append(p.log, e)
  BY DEF Add, Pushed
<1> HIDE DEF p
<1>3. p.log \in Seq(Ev(K)) /\ e \in Ev(K)
  BY <1>1 DEF Kept, Good, Ev
<1> HIDE DEF e
<1> QED
  BY <1>2, <1>3, AppendProperties

(* Windows of destinations, none of them empty.                            *)
Filled(ws) == DOMAIN ws \subseteq SF!Targets /\ \A d \in DOMAIN ws : ws[d].log # <<>>

LEMMA AddedFilled ==
  ASSUME FloodInv, TrafficKept, Timed', now <= now', NEW target \in SF!Targets, NEW flag
  PROVE  Filled(SF!Added(target, flag, now'))
<1> DEFINE u == WindowOf(sfWindows, target, FloodWindow)
           w == Add(u, now', flag)
<1>1. CASE flag \notin FloodFlags
  BY <1>1 DEF SF!Added, SF!Tracked, FloodFlags, TrafficKept, Filled
<1>2. CASE flag \in FloodFlags
  <2>1. SF!Added(target, flag, now') = With(sfWindows, target, w)
    <3>1. SF!SW!WindowOf(sfWindows, target, FloodWindow) = u
      BY FloodWindows
    <3> HIDE DEF u
    <3>2. SF!SW!Add(u, now', flag) = w
      BY FloodWindows
    <3> HIDE DEF w
    <3> QED
      BY <1>2, <3>1, <3>2, FloodWindows DEF SF!Added, SF!Tracked, FloodFlags
  <2>2. now \in Int /\ now' \in Int /\ FloodWindow \in Int
    BY FloodParams DEF TrafficKept, Timed
  <2>3. Good(u, FloodWindow, FloodFlags, now)
    BY DEF FloodInv, Weighing
  <2> HIDE DEF u
  <2>4. Good(u, FloodWindow, FloodFlags, now')
    BY <2>2, <2>3, GoodLater
  <2>5. w.log # <<>>
    BY <1>2, <2>2, <2>4, AddLogs
  <2> HIDE DEF w
  <2> QED
    BY <2>1, <2>5 DEF TrafficKept, Filled, With
<1> QED
  BY <1>1, <1>2

LEMMA LiveFilled ==
  ASSUME NEW ws, Filled(ws), NEW t
  PROVE  Filled(SF!Live(ws, t))
<1>1. SF!Live(ws, t) = PruneIdle(ws, t)
  BY FloodWindows DEF SF!Live
<1> QED
  BY <1>1 DEF Filled, PruneIdle, NonEmpty, IsEmpty

LEMMA TrafficKeptNext == FloodInv /\ FloodInv' /\ TrafficKept /\ [Next]_vars => TrafficKept'
<1> SUFFICES ASSUME FloodInv, FloodInv', TrafficKept, [Next]_vars PROVE TrafficKept'
  OBVIOUS
<1>1. CASE UNCHANGED vars
  BY <1>1 DEF vars, sfVars, TrafficKept, Timed
<1>2. ASSUME NEW p \in Mixes[traffic].packets, NEW gap \in Mixes[traffic].gaps, Deliver(p, gap)
      PROVE  TrafficKept'
  <2>1. Timed' /\ now <= now' /\ SF!Process(p) /\ p \in Packets
    BY <1>2, TimeSteps DEF Deliver, TrafficKept
  <2>2. now \in Int /\ now' \in Int /\ now' \in Nat /\ now \in Nat
    BY <2>1 DEF TrafficKept, Timed
  <2>3. Marks(sfCooldown, SF!Targets, now')
    BY <2>1, <2>2, MarksLater DEF TrafficKept
  <2>4. sfEval \in {-1} \cup 0 .. now'
    BY <2>1, <2>2 DEF TrafficKept
  <2>5. CASE SF!Ignored(p)
    BY <2>1, <2>3, <2>4, <2>5 DEF SF!Ignored, TrafficKept
  <2>6. CASE SF!TcpPacket(p)
    <3> DEFINE ws == SF!Added(p.dst, p.flags, now')
    <3>1. /\ p.dst # None
          /\ SF!FirstPacket(p) \/ SF!CountPacket(p) \/ SF!EvaluatingPacket(p)
      BY <2>6, Zenon DEF SF!TcpPacket, SF!None, None
    <3>2. p.dst \in SF!Targets
      BY <2>1, <3>1 DEF SF!Targets, SF!None, None
    <3>3. Filled(ws)
      BY <2>1, <3>2, AddedFilled
    <3> HIDE DEF ws
    <3>4. now' \in 0 .. now'
      BY <2>2
    <3>5. CASE SF!FirstPacket(p)
      <4>1. sfWindows' = ws /\ sfEval' = now' /\ sfCooldown' = sfCooldown
        BY <3>5 DEF SF!FirstPacket, ws
      <4> QED
        BY <2>1, <2>3, <3>3, <3>4, <4>1 DEF TrafficKept, Filled
    <3>6. CASE SF!CountPacket(p)
      <4>1. sfWindows' = ws /\ sfEval' = sfEval /\ sfCooldown' = sfCooldown
        BY <3>6 DEF SF!CountPacket, ws
      <4> QED
        BY <2>1, <2>3, <2>4, <3>3, <4>1 DEF TrafficKept, Filled
    <3>7. CASE SF!EvaluatingPacket(p)
      <4> DEFINE live == SF!Live(ws, now')
                 told == SF!Reported(live, now')
      <4>1. SF!EvaluateAll(live) /\ sfEval' = now'
        BY <3>7, Zenon DEF SF!EvaluatingPacket, ws
      <4>2. Filled(live)
        BY <3>3, LiveFilled
      <4> HIDE DEF live
      <4>3. sfWindows' = live /\ sfCooldown' = SF!Marked(DOMAIN told, now')
        BY <4>1, Zenon DEF SF!EvaluateAll, SF!Evaluate
      <4>4. DOMAIN told \subseteq DOMAIN live
        <5> DEFINE As == [d \in DOMAIN live |-> SF!Judged(d, live[d], now')]
        <5>1. told = [d \in {e \in DOMAIN live : As[e] # "none"} |-> As[d]]
          BY Zenon DEF SF!Reported
        <5> HIDE DEF As, told
        <5> QED
          BY <5>1
      <4> HIDE DEF told
      <4>5. IsFiniteSet(DOMAIN told)
        <5>1. IsFiniteSet(DOMAIN live)
          BY <4>3 DEF FloodInv
        <5> QED
          BY <4>4, <5>1, FS_Subset
      <4>6. Timely(sfCooldown, now') /\ DOMAIN told \in SUBSET SF!Targets
        BY <2>2, <2>3, <4>2, <4>4 DEF Marks, Timely, Filled
      <4>7. MarkedOnly(sfCooldown, sfCooldown', DOMAIN told, now')
        <5>1. MarkedAll(sfCooldown, SF!Marked(DOMAIN told, now'), DOMAIN told, now', FloodCooldown)
          BY <2>2, <4>5, <4>6, MarkedSilences
        <5> QED
          BY <4>3, <5>1 DEF MarkedAll
      <4>8. Marks(sfCooldown', SF!Targets, now')
        BY <2>2, <2>3, <4>6, <4>7, MarkedMarks
      <4> QED
        BY <2>1, <3>4, <4>1, <4>2, <4>3, <4>8 DEF TrafficKept, Filled
    <3> QED
      BY <3>1, <3>5, <3>6, <3>7
  <2> QED
    BY <2>1, <2>5, <2>6, Zenon DEF SF!Process
<1> QED
  BY <1>1, <1>2 DEF Next

LEMMA TrafficKeptInit == Init => TrafficKept
<1> SUFFICES ASSUME Init PROVE TrafficKept
  OBVIOUS
<1>1. /\ sfWindows = [d \in {} |-> SF!SW!NewWindow(FloodWindow)] /\ sfEval = -1
      /\ sfCooldown = [last |-> [k \in {} |-> 0], lastPrune |-> 0]
      /\ now = Epoch /\ traffic \in Kinds
  BY DEF Init, SF!Init, SF!CT!NewTracker, SF!Never
<1>2. Epoch \in Nat
  BY DetectorsAssumption DEF SF!SynFloodAssumption
<1>3. DOMAIN sfWindows = {} /\ DOMAIN sfCooldown.last = {}
  BY <1>1
<1> QED
  BY <1>1, <1>2, <1>3 DEF TrafficKept, Timed, Marks

LEMMA TrafficKeptTyped == FloodInv /\ TrafficKept => SF!TypeOK
<1> SUFFICES ASSUME FloodInv, TrafficKept PROVE SF!TypeOK
  OBVIOUS
<1>1. ASSUME NEW d \in DOMAIN sfWindows PROVE DOMAIN sfWindows[d].counts \subseteq FloodFlags
  <2>1. WindowOf(sfWindows, d, FloodWindow) = sfWindows[d]
    BY DEF WindowOf
  <2>2. Good(WindowOf(sfWindows, d, FloodWindow), FloodWindow, FloodFlags, now)
    BY DEF FloodInv, Weighing
  <2> QED
    BY <2>1, <2>2 DEF Good
<1> QED
  BY <1>1 DEF TrafficKept, Timed, Marks, SF!TypeOK, SF!Tracked, SF!Never, FloodFlags
-----------------------------------------------------------------------------
(* Each detector's own type invariant.                                     *)
THEOREM Typing == Spec => []TypeOK
<1> DEFINE I == ScanKept /\ BruteKept /\ FloodInv /\ TrafficKept /\ QueryKept /\ ReplyKept
<1>1. Init => I
  BY ScanKeptInit, BruteKeptInit, FloodInit, TrafficKeptInit, QueryKeptInit, ReplyKeptInit
<1>2. I /\ [Next]_vars => I'
  BY ScanKeptNext, BruteKeptNext, FloodNext, TrafficKeptNext, QueryKeptNext, ReplyKeptNext
<1>3. I => TypeOK
  BY ScanKeptTyped, BruteKeptTyped, TrafficKeptTyped, QueryKeptTyped, ReplyKeptTyped DEF TypeOK
<1> QED
  BY <1>1, <1>2, <1>3, PTL DEF Spec

(* Bounded memory: whatever the packets claim to be, no detector keeps the *)
(* window of an address it has not heard of for two windows (the           *)
(* _maybe_sweep() of port_scan.py, brute_force.py, dns_anomaly.py and      *)
(* arp_spoof.py).  It takes a cooldown no shorter than the window of the   *)
(* port-scan detector, as in config.yaml: with a shorter one the mark of a *)
(* window emptied by an alert may be pruned before the window is swept.    *)
THEOREM NoIdleWindow ==
  ASSUME ScanWindow <= ScanCooldown
  PROVE  Spec => []IdleForgotten
<1> DEFINE I == ScanKept /\ BruteKept /\ QueryKept /\ ReplyKept
<1>1. Init => I
  BY ScanKeptInit, BruteKeptInit, QueryKeptInit, ReplyKeptInit
<1>2. I /\ [Next]_vars => I'
  BY ScanKeptNext, BruteKeptNext, QueryKeptNext, ReplyKeptNext
<1>3. I => IdleForgotten
  BY ScanKeptForgets, BruteKeptForgets, QueryKeptForgets, ReplyKeptForgets DEF IdleForgotten
<1> QED
  BY <1>1, <1>2, <1>3, PTL DEF Spec
-----------------------------------------------------------------------------

(* The events of a window that are no older than t, as the policy of the   *)
(* port-scan detector has them: pairs of a time and a key.                 *)
Pairs(w, t) ==
  {<<w.log[i].ts, w.log[i].key>> : i \in {j \in 1 .. Len(w.log) : w.log[j].ts >= t}}

Happened(w, t, k) == \E i \in 1 .. Len(w.log) : w.log[i].ts = t /\ w.log[i].key = k

LEMMA InPairs ==
  ASSUME NEW w, NEW t, NEW e
  PROVE  e \in Pairs(w, t) <=> \E u, k : e = <<u, k>> /\ u >= t /\ Happened(w, u, k)
BY DEF Pairs, Happened

LEMMA SomeHits ==
  ASSUME NEW log, Len(log) \in Nat, NEW P
  PROVE  /\ Hits(log, P) \in Nat
         /\ Hits(log, P) # 0 <=> \E i \in 1 .. Len(log) : log[i] \in P
<1> DEFINE A == {i \in 1 .. Len(log) : log[i] \in P}
<1>1. IsFiniteSet(1 .. Len(log)) /\ A \in SUBSET (1 .. Len(log))
  <2>1. Len(log) \in Int /\ 1 \in Int
    OBVIOUS
  <2> HIDE DEF A
  <2>2. IsFiniteSet(1 .. Len(log))
    BY <2>1, FS_Interval
  <2> QED
    BY <2>2 DEF A
<1>2. Hits(log, P) = Cardinality(A)
  BY DEF Hits
<1>3. A # {} <=> \E i \in 1 .. Len(log) : log[i] \in P
  OBVIOUS
<1> HIDE DEF A
<1>4. IsFiniteSet(A) /\ Cardinality(A) \in Nat
  BY <1>1, FS_Subset, FS_CardinalityType
<1>5. Cardinality(A) = 0 <=> A = {}
  BY <1>4, FS_EmptySet
<1> QED
  BY <1>2, <1>3, <1>4, <1>5

(* An event at t is what is lost between t and t + 1.                      *)
LEMMA HappenedByHits ==
  ASSUME NEW w, NEW K, w.log \in Seq(Ev(K)), NEW t \in Int, NEW k \in K
  PROVE  /\ Hits(w.log, Since(K, k, t)) \in Nat /\ Hits(w.log, Since(K, k, t + 1)) \in Nat
         /\ Hits(w.log, Since(K, k, t)) >= Hits(w.log, Since(K, k, t + 1))
         /\ Happened(w, t, k) <=> Hits(w.log, Since(K, k, t)) # Hits(w.log, Since(K, k, t + 1))
<1> DEFINE n == Len(w.log)
           A == {i \in 1 .. n : w.log[i] \in Since(K, k, t)}
           B == {i \in 1 .. n : w.log[i] \in Since(K, k, t + 1)}
<1>1. n \in Nat /\ IsFiniteSet(1 .. n) /\ \A i \in 1 .. n : w.log[i] \in Ev(K)
  <2>1. n \in Nat /\ \A i \in 1 .. n : w.log[i] \in Ev(K)
    BY LenProperties, ElementOfSeq
  <2> HIDE DEF n
  <2>2. n \in Int /\ 1 \in Int
    BY <2>1
  <2>3. IsFiniteSet(1 .. n)
    BY <2>2, FS_Interval
  <2> QED
    BY <2>1, <2>3
<1>2. \A i \in 1 .. n : w.log[i].ts \in Int
  BY <1>1 DEF Ev
<1>3. \A i \in 1 .. n : /\ i \in A <=> w.log[i].key = k /\ w.log[i].ts >= t
                        /\ i \in B <=> w.log[i].key = k /\ w.log[i].ts >= t + 1
  BY <1>1 DEF Since
<1>4. B \in SUBSET A /\ A \in SUBSET (1 .. n) /\ Hits(w.log, Since(K, k, t)) = Cardinality(A)
      /\ Hits(w.log, Since(K, k, t + 1)) = Cardinality(B)
  <2>1. B \in SUBSET A
    <3> SUFFICES ASSUME NEW i \in 1 .. n, i \in B PROVE i \in A
      BY Zenon
    <3> HIDE DEF A, B, n
    <3> QED
      BY <1>2, <1>3
  <2> QED
    BY <2>1 DEF Hits
<1>5. Happened(w, t, k) <=> A # B
  <2>1. Happened(w, t, k) <=> \E i \in 1 .. n : w.log[i].ts = t /\ w.log[i].key = k
    BY DEF Happened
  <2> HIDE DEF A, B, n
  <2>2. ASSUME NEW i \in 1 .. n, w.log[i].ts = t, w.log[i].key = k PROVE i \in A /\ i \notin B
    BY <1>2, <1>3, <2>2
  <2>3. ASSUME NEW i \in 1 .. n, i \in A, i \notin B PROVE w.log[i].ts = t /\ w.log[i].key = k
    <3>1. w.log[i].ts \in Int /\ w.log[i].key = k /\ w.log[i].ts >= t /\ ~(w.log[i].ts >= t + 1)
      BY <1>2, <1>3, <2>3
    <3> QED
      BY <3>1
  <2> QED
    BY <1>4, <2>1, <2>2, <2>3
<1> HIDE DEF A, B, n
<1>6. IsFiniteSet(A) /\ IsFiniteSet(B)
  BY <1>1, <1>4, FS_Subset
<1>7. Cardinality(A) \in Nat /\ Cardinality(B) \in Nat /\ Cardinality(B) <= Cardinality(A)
      /\ (Cardinality(A) = Cardinality(B) <=> A = B)
  <2>1. Cardinality(B) <= Cardinality(A) /\ (Cardinality(B) = Cardinality(A) => B = A)
    BY <1>4, <1>6, FS_Subset
  <2> QED
    BY <1>6, <2>1, FS_CardinalityType
<1> QED
  BY <1>4, <1>5, <1>7

(* The pairs of a window are of its keys.                                  *)
LEMMA HappenedTyped ==
  ASSUME NEW w, NEW s, NEW K, NEW n, Good(w, s, K, n), NEW t, NEW k, Happened(w, t, k)
  PROVE  t \in Int /\ k \in K /\ t <= n
<1>1. PICK i \in 1 .. Len(w.log) : w.log[i].ts = t /\ w.log[i].key = k
  BY DEF Happened
<1>2. w.log[i] \in Ev(K) /\ w.log[i].ts <= n
  BY <1>1, ElementOfSeq DEF Good
<1> QED
  BY <1>1, <1>2 DEF Ev

LEMMA KeptPairs ==
  ASSUME NEW w, NEW v, NEW s \in Int, NEW K, NEW n \in Int, NEW m, Good(w, s, K, m), Kept(w, v, s, K, n)
  PROVE  Pairs(v, n - s) = Pairs(w, n - s)
<1>1. ASSUME NEW t, NEW k, t >= n - s, t \in Int, k \in K PROVE Happened(v, t, k) <=> Happened(w, t, k)
  <2>1. t >= n - s /\ t + 1 >= n - s /\ t + 1 \in Int
    BY <1>1
  <2>2. /\ Hits(v.log, Since(K, k, t)) = Hits(w.log, Since(K, k, t))
        /\ Hits(v.log, Since(K, k, t + 1)) = Hits(w.log, Since(K, k, t + 1))
    BY <1>1, <2>1 DEF Kept
  <2>3. w.log \in Seq(Ev(K)) /\ v.log \in Seq(Ev(K))
    BY DEF Good, Kept
  <2> QED
    BY <1>1, <2>2, <2>3, HappenedByHits
<1>2. ASSUME NEW e PROVE e \in Pairs(v, n - s) <=> e \in Pairs(w, n - s)
  <2>1. ASSUME NEW t, NEW k, t >= n - s PROVE Happened(v, t, k) <=> Happened(w, t, k)
    BY <1>1, <2>1, HappenedTyped DEF Kept
  <2> QED
    BY <2>1, InPairs
<1> QED
  BY <1>2

LEMMA GrownPairs ==
  ASSUME NEW w, NEW v, NEW s \in Nat, NEW K, NEW n \in Int, NEW key \in K,
         Good(w, s, K, n), Grown(w, v, s, K, n, key)
  PROVE  Pairs(v, n - s) = Pairs(w, n - s) \cup {<<n, key>>}
<1>1. ASSUME NEW t, NEW k, t >= n - s, t \in Int, k \in K
      PROVE  Happened(v, t, k) <=> Happened(w, t, k) \/ (t = n /\ k = key)
  <2>1. t >= n - s /\ t + 1 >= n - s /\ t + 1 \in Int
    BY <1>1
  <2> DEFINE h1 == Hits(w.log, Since(K, k, t))
             h2 == Hits(w.log, Since(K, k, t + 1))
  <2>2. /\ Hits(v.log, Since(K, k, t)) = h1 + (IF k = key /\ t <= n THEN 1 ELSE 0)
        /\ Hits(v.log, Since(K, k, t + 1)) = h2 + (IF k = key /\ t + 1 <= n THEN 1 ELSE 0)
    BY <1>1, <2>1 DEF Grown
  <2>3. w.log \in Seq(Ev(K)) /\ v.log \in Seq(Ev(K))
    BY DEF Good, Grown
  <2>4. /\ h1 \in Nat /\ h2 \in Nat /\ h1 >= h2 /\ (Happened(w, t, k) <=> h1 # h2)
        /\ Happened(v, t, k) <=> Hits(v.log, Since(K, k, t)) # Hits(v.log, Since(K, k, t + 1))
    BY <1>1, <2>3, HappenedByHits
  <2> HIDE DEF h1, h2
  <2>5. CASE k # key
    BY <2>2, <2>4, <2>5
  <2>6. CASE k = key /\ t = n
    <3>1. t <= n /\ ~(t + 1 <= n)
      BY <2>6
    <3> QED
      BY <2>2, <2>4, <2>6, <3>1
  <2>7. CASE k = key /\ t # n
    <3>1. t <= n <=> t + 1 <= n
      BY <1>1, <2>7
    <3> QED
      BY <2>2, <2>4, <2>7, <3>1
  <2> QED
    BY <2>5, <2>6, <2>7
<1>2. n >= n - s
  OBVIOUS
<1>3. Happened(v, n, key)
  BY <1>1, <1>2
<1>4. ASSUME NEW e PROVE e \in Pairs(v, n - s) <=> e \in Pairs(w, n - s) \cup {<<n, key>>}
  <2>1. ASSUME NEW t, NEW k, t >= n - s
        PROVE  Happened(v, t, k) <=> Happened(w, t, k) \/ (t = n /\ k = key)
    BY <1>1, <1>3, <2>1, HappenedTyped DEF Grown
  <2> QED
    BY <1>2, <1>3, <2>1, InPairs
<1> QED
  BY <1>4

(* What the Counter counts are the keys of the pairs.                      *)
LEMMA CountedPairs ==
  ASSUME NEW w, NEW s \in Int, NEW K, NEW n \in Int, Good(w, s, K, n), Exact(w, s, K, n)
  PROVE  DOMAIN w.counts = {e[2] : e \in Pairs(w, n - s)}
<1>1. w.log \in Seq(Ev(K)) /\ Len(w.log) \in Nat /\ n - s \in Int
  BY LenProperties DEF Good
<1>2. ASSUME NEW k \in K PROVE k \in DOMAIN w.counts <=> \E t : t >= n - s /\ Happened(w, t, k)
  <2>1. k \in DOMAIN w.counts <=> CountOf(w, k) # 0
    BY DEF Good, CountOf
  <2>2. CountOf(w, k) = Hits(w.log, Since(K, k, n - s))
    BY DEF Exact
  <2>3. CountOf(w, k) # 0 <=> \E i \in 1 .. Len(w.log) : w.log[i] \in Since(K, k, n - s)
    BY <1>1, <2>2, SomeHits
  <2>4. \A i \in 1 .. Len(w.log) :
          w.log[i] \in Since(K, k, n - s) <=> w.log[i].key = k /\ w.log[i].ts >= n - s
    BY <1>1, ElementOfSeq DEF Since
  <2> QED
    BY <2>1, <2>3, <2>4 DEF Happened
<1>3. DOMAIN w.counts \subseteq K
  BY DEF Good
<1>4. ASSUME NEW k PROVE k \in DOMAIN w.counts <=> \E e \in Pairs(w, n - s) : e[2] = k
  <2>1. (\E e \in Pairs(w, n - s) : e[2] = k) <=> \E t : t >= n - s /\ Happened(w, t, k)
    <3>1. ASSUME NEW t, t >= n - s, Happened(w, t, k)
          PROVE  \E e \in Pairs(w, n - s) : e[2] = k
      <4>1. <<t, k>> \in Pairs(w, n - s) /\ <<t, k>>[2] = k
        BY <3>1, InPairs
      <4> QED
        BY <4>1
    <3>2. ASSUME NEW e \in Pairs(w, n - s), e[2] = k PROVE \E t : t >= n - s /\ Happened(w, t, k)
      BY <3>2, InPairs
    <3> QED
      BY <3>1, <3>2
  <2>2. \A t : Happened(w, t, k) => k \in K
    BY HappenedTyped
  <2> QED
    BY <1>2, <1>3, <2>1, <2>2
<1> QED
  BY <1>4

(* What is forgotten with time.                                            *)
LEMMA PairsLater ==
  ASSUME NEW w, NEW s, NEW K, NEW n, Good(w, s, K, n), NEW t \in Int, NEW u \in Int, t <= u
  PROVE  Pairs(w, u) = {e \in Pairs(w, t) : e[1] >= u}
<1>1. ASSUME NEW e PROVE e \in Pairs(w, u) <=> e \in Pairs(w, t) /\ e[1] >= u
  <2>1. ASSUME NEW a, NEW k, Happened(w, a, k), a >= u PROVE a >= t
    BY <2>1, HappenedTyped
  <2> QED
    BY <2>1, InPairs
<1> QED
  BY <1>1

LEMMA NewWindowPairs ==
  ASSUME NEW s, NEW t
  PROVE  Pairs(NewWindow(s), t) = {}
<1>1. \A i \in 1 .. Len(<<>>) : FALSE
  BY EmptySeq
<1> QED
  BY <1>1 DEF Pairs, NewWindow
-----------------------------------------------------------------------------
(* The port-scan detector implements ScanPolicy.                           *)
ScanSource(s) == WindowOf(psWindows, s, ScanWindow)

(* How long the key k stays silenced at t.                                 *)
Silenced(c, k, t) == IF Cooling(c, k, t, ScanCooldown) THEN c.last[k] + ScanCooldown - t ELSE 0

(* What the policy sees of the detector, before and after a packet.        *)
SeenPairs == [s \in PS!Sources |-> Pairs(ScanSource(s), now - ScanWindow)]
SeenSilence == [k \in ScanKeys |-> Silenced(psCooldown, k, now)]

LEMMA PolicyVariables ==
  /\ [s \in PS!Sources |-> PS!Recent(s)] = SeenPairs
  /\ [k \in PS!Sources \X PS!ScanTypes |-> PS!Remaining(k)] = SeenSilence
<1>1. ASSUME NEW s PROVE PS!Recent(s) = Pairs(ScanSource(s), now - ScanWindow)
  <2>1. CASE s \in DOMAIN psWindows
    BY <2>1 DEF PS!Recent, Pairs, ScanSource, WindowOf
  <2>2. CASE s \notin DOMAIN psWindows
    BY <2>2, NewWindowPairs DEF PS!Recent, ScanSource, WindowOf
  <2> QED
    BY <2>1, <2>2
<1>2. ASSUME NEW k PROVE PS!Remaining(k) = Silenced(psCooldown, k, now)
  BY DEF PS!Remaining, Silenced, PS!CT!IsCooling, Cooling
<1> QED
  BY <1>1, <1>2 DEF SeenPairs, SeenSilence, ScanKeys

LEMMA PolicyVariablesNext ==
  /\ [s \in PS!Sources |-> PS!Recent(s)]' = SeenPairs'
  /\ [k \in PS!Sources \X PS!ScanTypes |-> PS!Remaining(k)]' = SeenSilence'
<1>1. (/\ [s \in PS!Sources |-> PS!Recent(s)] = SeenPairs
       /\ [k \in PS!Sources \X PS!ScanTypes |-> PS!Remaining(k)] = SeenSilence)'
  BY PolicyVariables, PTL
<1> QED
  BY <1>1

(* The pairs of a source that have not expired when the packet comes, and  *)
(* what is left of the silences.                                           *)
AgedPairs == [s \in PS!Sources |-> {e \in SeenPairs[s] : e[1] >= now' - ScanWindow}]
LeftSilence == [k \in ScanKeys |-> Silenced(psCooldown, k, now')]

LEMMA SourceGood ==
  ASSUME ScanKept, NEW s
  PROVE  Good(ScanSource(s), ScanWindow, PS!Ports, now)
<1>1. CASE s \in DOMAIN psWindows
  BY <1>1 DEF ScanKept, Stocked, Busy, ScanSource, WindowOf
<1>2. CASE s \notin DOMAIN psWindows
  BY <1>2, ScanParams, NewWindowGood DEF ScanSource, WindowOf, ScanKept, Timed
<1> QED
  BY <1>1, <1>2

(* The sweep makes no difference.                                          *)
LEMMA SweptPairs ==
  ASSUME ScanKept, Timed', now <= now', NEW s \in PS!Sources
  PROVE  LET v == WindowOf(PS!Swept(now'), s, ScanWindow)
         IN  /\ Good(v, ScanWindow, PS!Ports, now')
             /\ Pairs(v, now' - ScanWindow) = AgedPairs[s]
<1> DEFINE w == ScanSource(s)
           u == WindowOf(PruneIdle(psWindows, now'), s, ScanWindow)
           v == WindowOf(PS!Swept(now'), s, ScanWindow)
           t == now' - ScanWindow
<1>1. /\ now \in Int /\ now' \in Int /\ ScanWindow \in Int /\ now - ScanWindow \in Int /\ t \in Int
      /\ now - ScanWindow <= t
  <2>1. now \in Int /\ now' \in Int /\ ScanWindow \in Int
    BY ScanParams DEF ScanKept, Timed
  <2>2. now - ScanWindow \in Int /\ t \in Int
    BY <2>1
  <2>3. now - ScanWindow <= now' - ScanWindow
    <3>1. now <= now'
      OBVIOUS
    <3>2. \A a, b, c \in Int : a <= b => a - c <= b - c
      OBVIOUS
    <3> QED
      BY <2>1, <3>1, <3>2
  <2> QED
    BY <2>1, <2>2, <2>3
<1>2. Good(w, ScanWindow, PS!Ports, now)
  BY SourceGood
<1>3. Good(w, ScanWindow, PS!Ports, now')
  <2> HIDE DEF w
  <2> QED
    BY <1>1, <1>2, GoodLater
<1>4. Kept(w, u, ScanWindow, PS!Ports, now')
  BY <1>1, <1>3, SweepGood DEF ScanSource
<1>5. v = u \/ v = w
  BY ScanWindows DEF PS!Swept, ScanSource
<1>6. AgedPairs[s] = {e \in Pairs(w, now - ScanWindow) : e[1] >= t}
  BY DEF AgedPairs, SeenPairs
<1> HIDE DEF w, u, v, t
<1>7. Pairs(w, t) = {e \in Pairs(w, now - ScanWindow) : e[1] >= t}
  BY <1>1, <1>2, PairsLater
<1>8. Good(u, ScanWindow, PS!Ports, now') /\ Pairs(u, t) = Pairs(w, t)
  <2>1. Good(u, ScanWindow, PS!Ports, now')
    BY <1>4 DEF Kept
  <2>2. Pairs(u, now' - ScanWindow) = Pairs(w, now' - ScanWindow)
    BY <1>1, <1>3, <1>4, KeptPairs
  <2> QED
    BY <2>1, <2>2 DEF t
<1> QED
  BY <1>3, <1>5, <1>6, <1>7, <1>8 DEF v, t

(* Silences run down with time, and an alert winds its own.                *)
LEMMA ElapsedSilence ==
  ASSUME ScanKept, Timed', now <= now', NEW k \in ScanKeys
  PROVE  /\ LeftSilence[k] = IF SeenSilence[k] > now' - now THEN SeenSilence[k] - (now' - now) ELSE 0
         /\ LeftSilence[k] = 0 <=> ~Cooling(psCooldown, k, now', ScanCooldown)
<1>1. now \in Int /\ now' \in Int /\ ScanCooldown \in Int
  BY ScanParams DEF ScanKept, Timed
<1>2. /\ SeenSilence[k] = Silenced(psCooldown, k, now)
      /\ LeftSilence[k] = Silenced(psCooldown, k, now')
  BY DEF SeenSilence, LeftSilence
<1>3. CASE k \in DOMAIN psCooldown.last
  <2>1. psCooldown.last[k] \in Int
    BY <1>3 DEF ScanKept, Marks
  <2> QED
    BY <1>1, <1>2, <1>3, <2>1 DEF Silenced, Cooling
<1>4. CASE k \notin DOMAIN psCooldown.last
  BY <1>1, <1>2, <1>4 DEF Silenced, Cooling
<1> QED
  BY <1>3, <1>4

LEMMA MarkedSilence ==
  ASSUME ScanKept, Timed', now <= now', NEW key \in ScanKeys,
         psCooldown' = PS!CT!Mark(psCooldown, key, now')
  PROVE  SeenSilence' = [LeftSilence EXCEPT ![key] = ScanCooldown]
<1> DEFINE c == psCooldown
           d == PS!CT!Mark(psCooldown, key, now')
           n == now'
<1>1. n \in Int /\ n \in Nat /\ now \in Int /\ ScanCooldown \in Nat \ {0} /\ ScanCooldown \in Int
  BY DetectorsAssumption DEF ScanKept, Timed, PS!PortScanAssumption
<1>2. Marks(c, ScanKeys, n) /\ Timely(c, n)
  <2>1. Marks(c, ScanKeys, n)
    BY <1>1, MarksLater DEF ScanKept
  <2> QED
    BY <1>1, <2>1 DEF Marks, Timely
<1>3. /\ Marks(d, ScanKeys, n) /\ key \in DOMAIN d.last /\ d.last[key] = n
  BY <1>1, <1>2, ScanMarked
<1>4. MarkedIn(c, d, key, n, ScanCooldown)
  <2>1. d.last = Noted(c.last, key, n) \/ d.last = NotBefore(Noted(c.last, key, n), n - ScanCooldown)
    BY ScanMark
  <2> HIDE DEF c, d
  <2> QED
    BY <1>1, <1>2, <2>1, MarkSilences
<1>5. SeenSilence' = [k \in ScanKeys |-> Silenced(d, k, n)]
  BY DEF SeenSilence, ScanKeys, PS!Sources, PS!ScanTypes
<1>6. LeftSilence = [k \in ScanKeys |-> Silenced(c, k, n)]
  BY DEF LeftSilence
<1> HIDE DEF c, d, n
<1>7. Silenced(d, key, n) = ScanCooldown
  BY <1>1, <1>3 DEF Silenced, Cooling
<1>8. ASSUME NEW k, k # key PROVE Silenced(d, k, n) = Silenced(c, k, n)
  <2>1. Cooling(d, k, n, ScanCooldown) <=> Cooling(c, k, n, ScanCooldown)
    <3>1. n >= n
      BY <1>1
    <3> QED
      BY <1>1, <1>4, <1>8, <3>1 DEF MarkedIn
  <2>2. Cooling(d, k, n, ScanCooldown) => d.last[k] = c.last[k]
    BY <1>4, <1>8 DEF MarkedIn, MarkedOnly, Cooling
  <2> QED
    BY <2>1, <2>2 DEF Silenced
<1> QED
  BY <1>5, <1>6, <1>7, <1>8

LEMMA UnmarkedSilence ==
  ASSUME psCooldown' = psCooldown
  PROVE  SeenSilence' = LeftSilence
BY DEF SeenSilence, LeftSilence, ScanKeys, PS!Sources, PS!ScanTypes

LEMMA PolicyAged ==
  ASSUME ScanKept, Timed', now <= now'
  PROVE  /\ PS!Policy!Aged(now') = AgedPairs
         /\ PS!Policy!Elapsed(now' - now) = LeftSilence
<1>1. PS!Policy!Aged(now') = AgedPairs
  BY PolicyVariables DEF PS!Policy!Aged, AgedPairs
<1>2. PS!Policy!Kinds = ScanKeys
  BY DEF PS!Policy!Kinds, ScanKeys, PS!ScanTypes
<1>3. PS!Policy!Elapsed(now' - now)
        = [k \in ScanKeys |-> IF SeenSilence[k] > now' - now THEN SeenSilence[k] - (now' - now) ELSE 0]
  BY <1>2, PolicyVariables DEF PS!Policy!Elapsed
<1>4. LeftSilence = [k \in ScanKeys |-> LeftSilence[k]]
  BY DEF LeftSilence
<1> QED
  BY <1>1, <1>3, <1>4, ElapsedSilence

(* No alert, or one that silences its source and scan type.                *)
LEMMA PolicySilence ==
  ASSUME ScanKept, Timed', now <= now', PS!Suppressed
  PROVE  PS!Policy!Silence(now' - now)
<1>1. psAlert' = PS!NoAlert /\ psCooldown' = psCooldown
  BY DEF PS!Suppressed
<1>2. SeenSilence' = LeftSilence
  BY <1>1, UnmarkedSilence
<1> QED
  BY <1>1, <1>2, PolicyAged, PolicyVariablesNext DEF PS!Policy!Silence

LEMMA PolicyReport ==
  ASSUME ScanKept, Timed', now <= now', NEW src, NEW scan, <<src, scan>> \in ScanKeys, NEW ports,
         PS!Emit(src, scan, ports, now')
  PROVE  PS!Policy!Report(<<src, scan>>, ports, now' - now)
<1> DEFINE key == <<src, scan>>
<1>1. /\ psAlert' = [src |-> key[1], scan |-> key[2], ports |-> ports]
      /\ psCooldown' = PS!CT!Mark(psCooldown, key, now')
  BY DEF PS!Emit
<1> HIDE DEF key
<1>2. key \in ScanKeys
  BY DEF key
<1>3. SeenSilence' = [LeftSilence EXCEPT ![key] = ScanCooldown]
  BY <1>1, <1>2, MarkedSilence
<1>4. PS!Policy!Report(key, ports, now' - now)
  BY <1>1, <1>3, PolicyAged, PolicyVariablesNext DEF PS!Policy!Report
<1> QED
  BY <1>4 DEF key

LEMMA PolicyLetThrough ==
  ASSUME ScanKept, Timed', now <= now', NEW src, NEW scan, src # None => <<src, scan>> \in ScanKeys
  PROVE  PS!LetThrough(src, scan, now')
           <=> src # None /\ PS!Policy!Elapsed(now' - now)[<<src, scan>>] = 0
<1> DEFINE key == <<src, scan>>
<1>1. PS!LetThrough(src, scan, now') <=> src # None /\ ~Cooling(psCooldown, key, now', ScanCooldown)
  BY DEF PS!LetThrough, PS!CT!IsCooling, Cooling, PS!None, None
<1> HIDE DEF key
<1>2. src # None => (LeftSilence[key] = 0 <=> ~Cooling(psCooldown, key, now', ScanCooldown))
  BY ElapsedSilence DEF key
<1> QED
  BY <1>1, <1>2, PolicyAged DEF key

(* A packet that leaves the windows as the sweep left them.                *)
LEMMA PairsUncounted ==
  ASSUME ScanKept, Timed', now <= now', psWindows' = PS!Swept(now')
  PROVE  SeenPairs' = PS!Policy!Aged(now')
<1>1. SeenPairs' = [s \in PS!Sources |-> Pairs(WindowOf(PS!Swept(now'), s, ScanWindow), now' - ScanWindow)]
  BY DEF SeenPairs, ScanSource, PS!Sources
<1>2. AgedPairs = [s \in PS!Sources |-> AgedPairs[s]]
  BY DEF AgedPairs
<1>3. \A s \in PS!Sources : Pairs(WindowOf(PS!Swept(now'), s, ScanWindow), now' - ScanWindow) = AgedPairs[s]
  BY SweptPairs
<1> QED
  BY <1>1, <1>2, <1>3, PolicyAged

LEMMA PolicyStealth ==
  ASSUME ScanKept, Timed', now <= now', NEW p \in Packets, PS!StealthPacket(p)
  PROVE  PS!Policy!StealthPacket(p, now' - now)
<1> DEFINE kind == PS!Stealth[p.flags]
<1>1. /\ PS!IsStealth(p) /\ psWindows' = PS!Swept(now')
      /\ IF PS!LetThrough(p.src, kind, now') THEN PS!Emit(p.src, kind, {}, now') ELSE PS!Suppressed
  BY DEF PS!StealthPacket
<1>2. PS!Policy!IsStealth(p) /\ PS!Policy!Stealth[p.flags] = kind
  BY <1>1, Zenon DEF PS!IsStealth, PS!Policy!IsStealth, PS!Stealth, PS!Policy!Stealth
<1>3. kind \in PS!ScanTypes
  BY <1>1 DEF PS!IsStealth, PS!Stealth, PS!ScanTypes
<1> HIDE DEF kind
<1>4. p.src # None => <<p.src, kind>> \in ScanKeys
  BY <1>3 DEF ScanKeys, PS!Sources, PS!None, None
<1>5. PS!LetThrough(p.src, kind, now')
        <=> p.src # None /\ PS!Policy!Elapsed(now' - now)[<<p.src, kind>>] = 0
  BY <1>4, PolicyLetThrough
<1>6. [s \in PS!Sources |-> PS!Recent(s)]' = PS!Policy!Aged(now')
  BY <1>1, PairsUncounted, PolicyVariablesNext
<1>7. CASE PS!LetThrough(p.src, kind, now')
  <2>1. PS!Policy!Report(<<p.src, kind>>, {}, now' - now)
    BY <1>1, <1>4, <1>5, <1>7, PolicyReport
  <2> QED
    BY <1>2, <1>5, <1>6, <1>7, <2>1 DEF PS!Policy!StealthPacket, PS!Policy!None, None
<1>8. CASE ~PS!LetThrough(p.src, kind, now')
  <2>1. PS!Policy!Silence(now' - now)
    BY <1>1, <1>8, PolicySilence
  <2> QED
    BY <1>2, <1>5, <1>6, <1>8, <2>1 DEF PS!Policy!StealthPacket, PS!Policy!None, None
<1> QED
  BY <1>7, <1>8

LEMMA PolicyOther ==
  ASSUME ScanKept, Timed', now <= now', NEW p \in Packets, PS!OtherPacket(p)
  PROVE  PS!Policy!OtherPacket(p, now' - now)
<1>1. /\ ~PS!IsStealth(p) /\ (p.src = None \/ p.port = None)
      /\ psWindows' = PS!Swept(now') /\ PS!Suppressed
  BY DEF PS!OtherPacket, PS!None, None
<1>2. PS!Policy!IsStealth(p) <=> PS!IsStealth(p)
  BY Zenon DEF PS!IsStealth, PS!Policy!IsStealth, PS!Stealth, PS!Policy!Stealth
<1>3. PS!Policy!Silence(now' - now)
  BY <1>1, PolicySilence
<1>4. [s \in PS!Sources |-> PS!Recent(s)]' = PS!Policy!Aged(now')
  BY <1>1, PairsUncounted, PolicyVariablesNext
<1> QED
  BY <1>1, <1>2, <1>3, <1>4 DEF PS!Policy!OtherPacket, PS!Policy!None, None

(* A packet with a port: the window of its source grows by a pair, or is   *)
(* emptied by an alert; those of the others stay as they are.              *)
LEMMA PairsCounted ==
  ASSUME ScanKept, Timed', now <= now', NEW src \in PS!Sources, NEW w,
         psWindows' = With(PS!Swept(now'), src, w)
  PROVE  SeenPairs' = [PS!Policy!Aged(now') EXCEPT ![src] = Pairs(w, now' - ScanWindow)]
<1> DEFINE vs == PS!Swept(now')
           t == now' - ScanWindow
<1>1. SeenPairs' = [s \in PS!Sources |-> Pairs(WindowOf(psWindows', s, ScanWindow), t)]
  BY DEF SeenPairs, ScanSource, PS!Sources
<1>2. \A s \in PS!Sources : Pairs(WindowOf(vs, s, ScanWindow), t) = AgedPairs[s]
  BY SweptPairs
<1> HIDE DEF vs, t
<1>3. \A s : WindowOf(psWindows', s, ScanWindow) = IF s = src THEN w ELSE WindowOf(vs, s, ScanWindow)
  BY WithWindow DEF vs
<1>4. AgedPairs = [s \in PS!Sources |-> AgedPairs[s]]
  BY DEF AgedPairs
<1>5. SeenPairs' = [AgedPairs EXCEPT ![src] = Pairs(w, t)]
  BY <1>1, <1>2, <1>3, <1>4
<1> QED
  BY <1>5, PolicyAged DEF t

LEMMA PolicyPort ==
  ASSUME ScanKept, Timed', now <= now', NEW p \in Packets, PS!PortPacket(p)
  PROVE  PS!Policy!PortPacket(p, now' - now)
<1> DEFINE src == p.src
           vs == PS!Swept(now')
           v == WindowOf(vs, src, ScanWindow)
           w == Add(v, now', p.port)
           t == now' - ScanWindow
           pairs == PS!Policy!Aged(now')[src] \cup {<<now', p.port>>}
           ports == {e[2] : e \in pairs}
           fired == Cardinality(ports) > ScanPorts /\ PS!Policy!Elapsed(now' - now)[<<src, "SYN">>] = 0
<1>1. /\ ~PS!IsStealth(p) /\ src # None /\ p.port # None /\ PS!CountPort(p, vs)
  BY Zenon DEF PS!PortPacket, PS!None, None
<1>2. src \in PS!Sources /\ p.port \in PS!Ports /\ <<src, "SYN">> \in ScanKeys
  BY <1>1 DEF PS!Sources, PS!Ports, PS!None, None, ScanKeys, PS!ScanTypes
<1>3. Good(v, ScanWindow, PS!Ports, now') /\ Pairs(v, t) = AgedPairs[src]
  BY <1>2, SweptPairs
<1>4. now' \in Int /\ ScanWindow \in Nat /\ ScanWindow \in Int
  BY ScanParams DEF Timed
<1>5. Pairs(w, t) = pairs /\ DOMAIN w.counts = ports /\ w.seconds = ScanWindow
  <2> HIDE DEF v
  <2>1. Grown(v, w, ScanWindow, PS!Ports, now', p.port)
    BY <1>2, <1>3, <1>4, AddGood
  <2> HIDE DEF w
  <2>2. Pairs(w, t) = Pairs(v, t) \cup {<<now', p.port>>}
    BY <1>2, <1>3, <1>4, <2>1, GrownPairs
  <2>3. Good(w, ScanWindow, PS!Ports, now') /\ Exact(w, ScanWindow, PS!Ports, now')
    BY <2>1 DEF Grown
  <2>4. DOMAIN w.counts = {e[2] : e \in Pairs(w, t)}
    BY <1>4, <2>3, CountedPairs
  <2>5. w.seconds = ScanWindow
    BY <2>3 DEF Good
  <2>6. Pairs(w, t) = pairs
    BY <1>3, <2>2, PolicyAged
  <2> QED
    BY <2>4, <2>5, <2>6
<1>6. PS!LetThrough(src, "SYN", now') <=> PS!Policy!Elapsed(now' - now)[<<src, "SYN">>] = 0
  BY <1>1, <1>2, PolicyLetThrough
<1>7. \/ /\ fired
         /\ psWindows' = With(vs, src, NewWindow(ScanWindow))
         /\ PS!Emit(src, "SYN", ports, now')
      \/ /\ ~fired
         /\ psWindows' = With(vs, src, w)
         /\ PS!Suppressed
  <2> DEFINE over == Cardinality(DOMAIN w.counts) > ScanPorts /\ PS!LetThrough(src, "SYN", now')
  <2> HIDE DEF vs
  <2>1. \/ /\ over
           /\ psWindows' = With(vs, src, NewWindow(w.seconds))
           /\ PS!Emit(src, "SYN", DOMAIN w.counts, now')
        \/ /\ ~over
           /\ psWindows' = With(vs, src, w)
           /\ PS!Suppressed
    BY <1>1, PortIsCounted
  <2> HIDE DEF w, ports
  <2>2. over <=> fired
    BY <1>5, <1>6
  <2> HIDE DEF over, fired
  <2> QED
    BY <1>5, <2>1, <2>2
<1>8. ~PS!Policy!IsStealth(p) /\ p.src # PS!Policy!None /\ p.port # PS!Policy!None
  <2>1. PS!Policy!IsStealth(p) <=> PS!IsStealth(p)
    BY Zenon DEF PS!IsStealth, PS!Policy!IsStealth, PS!Stealth, PS!Policy!Stealth
  <2> QED
    BY <1>1, <2>1 DEF PS!Policy!None, None
<1>9. \A S : PS!Policy!Cardinality(S) = Cardinality(S)
  BY Zenon DEF PS!Policy!Cardinality, Cardinality
<1> HIDE DEF w, vs, v
<1>10. CASE fired
  <2>1. PS!Policy!Report(<<src, "SYN">>, ports, now' - now)
    BY <1>2, <1>7, <1>10, PolicyReport
  <2>2. SeenPairs' = [PS!Policy!Aged(now') EXCEPT ![src] = {}]
    BY <1>2, <1>7, <1>10, PairsCounted, NewWindowPairs DEF vs
  <2> QED
    BY <1>8, <1>9, <1>10, <2>1, <2>2, PolicyVariablesNext DEF PS!Policy!PortPacket
<1>11. CASE ~fired
  <2>1. PS!Policy!Silence(now' - now)
    BY <1>7, <1>11, PolicySilence
  <2>2. SeenPairs' = [PS!Policy!Aged(now') EXCEPT ![src] = pairs]
    BY <1>2, <1>5, <1>7, <1>11, PairsCounted DEF vs
  <2> QED
    BY <1>8, <1>9, <1>11, <2>1, <2>2, PolicyVariablesNext DEF PS!Policy!PortPacket
<1> QED
  BY <1>10, <1>11

LEMMA PolicyInit == Init => PS!Policy!Init
<1> SUFFICES ASSUME Init PROVE PS!Policy!Init
  OBVIOUS
<1>1. /\ psWindows = [s \in {} |-> PS!SW!NewWindow(ScanWindow)]
      /\ psCooldown = [last |-> [k \in {} |-> 0], lastPrune |-> 0]
      /\ psAlert = PS!NoAlert /\ now \in Nat
  BY DetectorsAssumption DEF Init, PS!Init, PS!CT!NewTracker, PS!PortScanAssumption
<1>2. DOMAIN psWindows = {} /\ DOMAIN psCooldown.last = {}
  BY <1>1
<1>3. \A s : PS!Recent(s) = {}
  BY <1>2 DEF PS!Recent
<1>4. \A k : PS!Remaining(k) = 0
  BY <1>2 DEF PS!Remaining, PS!CT!IsCooling
<1>5. PS!Policy!Kinds = PS!Sources \X PS!ScanTypes
  BY DEF PS!Policy!Kinds, PS!ScanTypes
<1> QED
  BY <1>1, <1>3, <1>4, <1>5 DEF PS!Policy!Init

LEMMA PolicyNext == ScanKept /\ [Next]_vars => [PS!Policy!Next]_(PS!Policy!vars)
<1> SUFFICES ASSUME ScanKept, [Next]_vars PROVE [PS!Policy!Next]_(PS!Policy!vars)
  OBVIOUS
<1>1. CASE UNCHANGED vars
  <2>1. now' = now /\ psWindows' = psWindows /\ psCooldown' = psCooldown /\ psAlert' = psAlert
    BY <1>1 DEF vars, psVars
  <2>2. SeenPairs' = SeenPairs /\ SeenSilence' = SeenSilence
    BY <2>1 DEF SeenPairs, SeenSilence, ScanSource, PS!Sources, ScanKeys, PS!ScanTypes
  <2> QED
    BY <2>1, <2>2, PolicyVariables, PolicyVariablesNext DEF PS!Policy!vars
<1>2. ASSUME NEW p \in Mixes[traffic].packets, NEW gap \in Mixes[traffic].gaps, Deliver(p, gap)
      PROVE  PS!Policy!Next
  <2>1. Timed' /\ now <= now' /\ PS!Process(p) /\ p \in Packets
    BY <1>2, TimeSteps DEF Deliver, ScanKept
  <2>2. now' \in Nat /\ now' - now >= 0
    <3>1. \A a, b \in Nat : a <= b => b - a >= 0
      OBVIOUS
    <3>2. now \in Nat /\ now' \in Nat /\ now <= now'
      BY <2>1 DEF ScanKept, Timed
    <3> QED
      BY <3>1, <3>2
  <2>3. \/ PS!Policy!StealthPacket(p, now' - now)
        \/ PS!Policy!PortPacket(p, now' - now)
        \/ PS!Policy!OtherPacket(p, now' - now)
    BY <2>1, PolicyStealth, PolicyPort, PolicyOther DEF PS!Process
  <2> QED
    BY <2>1, <2>2, <2>3, Zenon DEF PS!Policy!Next
<1> QED
  BY <1>1, <1>2 DEF Next

(* The port-scan detector implements ScanPolicy: sweeps, lazy expiry, the  *)
(* counter kept beside the deque and the pruned cooldown dictionary change *)
(* neither who is reported nor when nor with which ports                   *)
(* (port_scan.py, _process()).                                             *)
THEOREM ScansAsPromised == Spec => ScansFollowPolicy
<1>1. Init => PS!Policy!Init /\ ScanKept
  BY PolicyInit, ScanKeptInit
<1> QED
  BY <1>1, ScanKeptNext, PolicyNext, PTL DEF Spec, ScansFollowPolicy, PS!FollowsPolicy, PS!Policy!Spec
=============================================================================
