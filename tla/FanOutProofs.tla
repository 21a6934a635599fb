---------------------------- MODULE FanOutProofs ----------------------------
(***************************************************************************)
(* Theorems about FanOut, for any consumers, whoever of them is alive, any *)
(* size of the queues and any number of packets.                           *)
(***************************************************************************)
EXTENDS FanOut, SequenceTheorems, TLAPS

(* What get() and put_nowait() do to a consumer's stream: taking a packet  *)
(* only moves it within the stream, offering one appends it.               *)
LEMMA TakingKeepsStream ==
  ASSUME NEW S, NEW g \in Seq(S), NEW q \in Seq(S), q # <<>>
  PROVE  /\ Append(g, Head(q)) \in Seq(S) /\ Tail(q) \in Seq(S)
         /\ Len(Tail(q)) = Len(q) - 1
         /\ Append(g, Head(q)) \o Tail(q) = g \o q
<1>1. /\ Head(q) \in S /\ Tail(q) \in Seq(S) /\ Len(Tail(q)) = Len(q) - 1
      /\ Head(q) = q[1] /\ \A i \in 1 .. Len(Tail(q)) : Tail(q)[i] = q[i + 1]
      /\ Len(q) \in Nat \ {0} /\ Len(g) \in Nat
  BY HeadTailProperties, EmptySeq, LenProperties
<1> DEFINE h == Append(g, Head(q))
           t == Tail(q)
<1>2. /\ h \in Seq(S) /\ Len(h) = Len(g) + 1 /\ h[Len(g) + 1] = q[1]
      /\ \A i \in 1 .. Len(g) : h[i] = g[i]
  BY <1>1, AppendProperties
<1> HIDE DEF h, t
<1>3. t \in Seq(S) /\ Len(t) = Len(q) - 1 /\ \A i \in 1 .. Len(t) : t[i] = q[i + 1]
  BY <1>1 DEF t
<1>4. /\ h \o t \in Seq(S) /\ Len(h \o t) = Len(g) + Len(q)
      /\ \A i \in 1 .. Len(g) + Len(q) :
           (h \o t)[i] = IF i <= Len(g) + 1 THEN h[i] ELSE t[i - (Len(g) + 1)]
  <2>1. /\ h \o t \in Seq(S) /\ Len(h \o t) = Len(h) + Len(t)
        /\ \A i \in 1 .. Len(h) + Len(t) :
             (h \o t)[i] = IF i <= Len(h) THEN h[i] ELSE t[i - Len(h)]
    BY <1>2, <1>3, ConcatProperties
  <2> QED
    BY <2>1, <1>1, <1>2, <1>3
<1>5. /\ g \o q \in Seq(S) /\ Len(g \o q) = Len(g) + Len(q)
      /\ \A i \in 1 .. Len(g) + Len(q) :
           (g \o q)[i] = IF i <= Len(g) THEN g[i] ELSE q[i - Len(g)]
  BY ConcatProperties
<1>6. ASSUME NEW i \in 1 .. Len(g) + Len(q)
      PROVE  (h \o t)[i] = (g \o q)[i]
  <2>1. CASE i <= Len(g)
    BY <2>1, <1>1, <1>2, <1>4, <1>5
  <2>2. CASE i = Len(g) + 1
    BY <2>2, <1>1, <1>2, <1>4, <1>5
  <2>3. CASE i > Len(g) + 1
    <3> DEFINE k == i - (Len(g) + 1)
    <3>1. k \in 1 .. Len(t) /\ k + 1 = i - Len(g)
      BY <2>3, <1>1, <1>3
    <3>2. (h \o t)[i] = t[k]
      BY <2>3, <1>1, <1>4
    <3>3. (g \o q)[i] = q[i - Len(g)]
      BY <2>3, <1>1, <1>5
    <3> HIDE DEF k
    <3>4. t[k] = q[k + 1]
      BY <3>1, <1>3
    <3> QED
      BY <3>1, <3>2, <3>3, <3>4
  <2>4. i <= Len(g) \/ i = Len(g) + 1 \/ i > Len(g) + 1
    <3>1. Len(g) \in Nat /\ Len(q) \in Nat
      BY LenProperties
    <3> QED
      BY <3>1
  <2> QED
    BY <2>1, <2>2, <2>3, <2>4
<1>7. h \o t = g \o q
  BY <1>4, <1>5, <1>6, SeqEqual
<1> QED
  BY <1>1, <1>2, <1>3, <1>7 DEF h, t

LEMMA OfferingAppends ==
  ASSUME NEW S, NEW g \in Seq(S), NEW q \in Seq(S), NEW p \in S
  PROVE  /\ Append(q, p) \in Seq(S) /\ Len(Append(q, p)) = Len(q) + 1
         /\ g \o q \in Seq(S) /\ Len(g \o q) = Len(g) + Len(q)
         /\ g \o Append(q, p) = Append(g \o q, p)
<1>1. Append(q, p) = q \o <<p>> /\ <<p>> \in Seq(S) /\ Append(q, p) \in Seq(S)
      /\ Len(Append(q, p)) = Len(q) + 1
  BY AppendIsConcat, AppendProperties
<1>2. g \o q \in Seq(S) /\ Len(g \o q) = Len(g) + Len(q)
  BY ConcatProperties
<1>3. Append(g \o q, p) = (g \o q) \o <<p>>
  BY <1>2, AppendIsConcat
<1>4. (g \o q) \o <<p>> = g \o (q \o <<p>>)
  BY <1>1, ConcatAssociative
<1> QED
  BY <1>1, <1>2, <1>3, <1>4

LEMMA SumAtLeast ==
  ASSUME NEW a \in Nat, NEW b \in Nat, NEW n, n = a + b, NEW m \in Nat, b >= m
  PROVE  n >= m
OBVIOUS

-----------------------------------------------------------------------------
(* Accounted and LossIsOwnBacklog, said of any sequence in the place of a  *)
(* stream, set of losses and set of numbers due.                           *)
Taken(s) == {s[i] : i \in 1 .. Len(s)}

Exact(s, gone, due) ==
  /\ \A i, j \in 1 .. Len(s) : i < j => s[i] < s[j]
  /\ Taken(s) \cap gone = {}
  /\ Taken(s) \cup gone = due

Behind(s, gone) == \A p \in gone : \E i \in 1 .. Len(s) : i >= MaxSize /\ s[i] < p

Awaiting == {pending[i] : i \in 1 .. Len(pending)}

Due(c) ==
  IF c \in Subscribed
  THEN (since[c] + 1 .. produced) \ (IF c \in Awaiting THEN {produced} ELSE {})
  ELSE {}

LEMMA SaidOfStreams ==
  /\ Accounted <=> \A c \in Consumers : Exact(Stream(c), lost[c], Due(c))
  /\ LossIsOwnBacklog <=> \A c \in Consumers : Behind(Stream(c), lost[c])
<1>1. \A c : (\E i \in 1 .. Len(pending) : pending[i] = c) <=> c \in Awaiting
  BY DEF Awaiting
<1> QED
  BY <1>1 DEF Accounted, LossIsOwnBacklog, Exact, Behind, Taken, Due

LEMMA SaidOfNextStreams ==
  /\ Accounted' <=> \A c \in Consumers : Exact(Stream(c)', lost'[c], Due(c)')
  /\ LossIsOwnBacklog' <=> \A c \in Consumers : Behind(Stream(c)', lost'[c])
<1>1. \A c : (\E i \in 1 .. Len(pending') : pending'[i] = c) <=> c \in Awaiting'
  BY DEF Awaiting
<1> QED
  BY <1>1 DEF Accounted, LossIsOwnBacklog, Exact, Behind, Taken, Due

(* One packet more, later than all due so far, is taken ...                *)
LEMMA ExactTaking ==
  ASSUME NEW s \in Seq(Numbers), NEW gone, NEW due \in SUBSET Numbers, NEW p \in Numbers,
         Exact(s, gone, due), \A n \in due : n < p
  PROVE  Exact(Append(s, p), gone, due \cup {p})
<1> DEFINE t == Append(s, p)
<1>1. /\ t \in Seq(Numbers) /\ Len(t) = Len(s) + 1 /\ Len(s) \in Nat
      /\ \A i \in 1 .. Len(s) : t[i] = s[i]
      /\ t[Len(s) + 1] = p
  BY AppendProperties, LenProperties
<1> HIDE DEF t
<1>2. Taken(t) = Taken(s) \cup {p}
  <2>1. ASSUME NEW x \in Taken(t)
        PROVE  x \in Taken(s) \cup {p}
    <3>1. PICK i \in 1 .. Len(s) + 1 : x = t[i]
      BY <1>1 DEF Taken
    <3>2. CASE i = Len(s) + 1
      BY <3>1, <3>2, <1>1
    <3>3. CASE i # Len(s) + 1
      <4>1. i \in 1 .. Len(s)
        BY <3>1, <3>3, <1>1
      <4> QED
        BY <4>1, <3>1, <1>1 DEF Taken
    <3> QED
      BY <3>2, <3>3
  <2>2. ASSUME NEW i \in 1 .. Len(s)
        PROVE  s[i] \in Taken(t)
    <3>1. i \in 1 .. Len(t) /\ s[i] = t[i]
      BY <1>1
    <3> QED
      BY <3>1 DEF Taken
  <2>3. p \in Taken(t)
    <3>1. Len(s) + 1 \in 1 .. Len(t) /\ t[Len(s) + 1] = p
      BY <1>1
    <3> QED
      BY <3>1 DEF Taken
  <2> QED
    BY <2>1, <2>2, <2>3 DEF Taken
<1>3. \A i \in 1 .. Len(s) : s[i] < p
  BY DEF Exact, Taken
<1>4. p \notin gone
  BY DEF Exact, Numbers
<1>5. ASSUME NEW i \in 1 .. Len(t), NEW j \in 1 .. Len(t), i < j
      PROVE  t[i] < t[j]
  <2>1. i \in 1 .. Len(s)
    BY <1>1, <1>5
  <2>2. CASE j = Len(s) + 1
    BY <2>1, <2>2, <1>1, <1>3
  <2>3. CASE j # Len(s) + 1
    BY <2>1, <2>3, <1>1, <1>5 DEF Exact
  <2> QED
    BY <2>2, <2>3
<1>6. Exact(t, gone, due \cup {p})
  BY <1>2, <1>4, <1>5 DEF Exact
<1> QED
  BY <1>6 DEF t

(* ... or lost.                                                            *)
LEMMA ExactLosing ==
  ASSUME NEW s, NEW gone, NEW due \in SUBSET Numbers, NEW p \in Numbers,
         Exact(s, gone, due), \A n \in due : n < p
  PROVE  Exact(s, gone \cup {p}, due \cup {p})
BY DEF Exact, Numbers

LEMMA BehindTaking ==
  ASSUME NEW s \in Seq(Numbers), NEW gone, NEW p \in Numbers, Behind(s, gone)
  PROVE  Behind(Append(s, p), gone)
<1>1. Len(Append(s, p)) = Len(s) + 1 /\ Len(s) \in Nat /\ \A i \in 1 .. Len(s) : Append(s, p)[i] = s[i]
  BY AppendProperties, LenProperties
<1> QED
  BY <1>1 DEF Behind

(* A packet is lost by a consumer that has at least MaxSize before it.     *)
LEMMA BehindLosing ==
  ASSUME NEW s \in Seq(Numbers), NEW gone, NEW p \in Numbers, Behind(s, gone),
         Len(s) >= MaxSize, \A i \in 1 .. Len(s) : s[i] < p
  PROVE  Behind(s, gone \cup {p})
<1>1. Len(s) \in 1 .. Len(s)
  BY FanOutAssumption, LenProperties
<1> QED
  BY <1>1 DEF Behind

-----------------------------------------------------------------------------
LEMMA Initially == Init => IInv
<1> SUFFICES ASSUME Init
             PROVE  IInv
  OBVIOUS
<1>1. Subscribed = {} /\ Awaiting = {} /\ Len(subscribers) = 0 /\ Len(pending) = 0
  BY DEF Init, Subscribed, Awaiting
<1>2. ASSUME NEW c \in Consumers
      PROVE  Stream(c) = <<>> /\ Len(Stream(c)) = 0 /\ lost[c] = {} /\ Due(c) = {}
  <2>1. <<>> \o <<>> = <<>>
    BY EmptySeq, ConcatEmptySeq
  <2>2. got[c] = <<>> /\ queue[c] = <<>> /\ lost[c] = {}
    BY DEF Init
  <2> QED
    BY <1>1, <2>1, <2>2 DEF Stream, Due
<1>3. TypeOK
  BY FanOutAssumption DEF Init, TypeOK
<1>4. ASSUME NEW c \in Consumers
      PROVE  Exact(Stream(c), lost[c], Due(c)) /\ Behind(Stream(c), lost[c])
  <2> DEFINE s == Stream(c)
  <2>1. Len(s) = 0 /\ lost[c] = {} /\ Due(c) = {}
    BY <1>2
  <2> HIDE DEF s
  <2>2. Taken(s) = {}
    BY <2>1 DEF Taken
  <2>3. Exact(s, {}, {}) /\ Behind(s, {})
    BY <2>1, <2>2 DEF Exact, Behind
  <2> QED
    BY <2>1, <2>3 DEF s
<1> QED
  BY <1>1, <1>3, <1>4, SaidOfStreams DEF Init, IInv, SubscribedOnce, PendingOnce

(* The parts of IInv in terms of the lemmas above.                         *)
LEMMA Facts ==
  ASSUME IInv
  PROVE  /\ produced \in 0 .. MaxPackets /\ produced \in Nat /\ MaxSize \in Nat \ {0}
         /\ subscribers \in Seq(Consumers) /\ pending \in Seq(Consumers)
         /\ Len(subscribers) \in Nat /\ Len(pending) \in Nat
         /\ Subscribed \subseteq Consumers
         /\ \A c \in Awaiting : c \in Subscribed /\ since[c] < produced
         /\ \A c \in Consumers :
              /\ queue[c] \in Seq(Numbers) /\ got[c] \in Seq(Numbers)
              /\ Stream(c) \in Seq(Numbers) /\ Len(Stream(c)) = Len(got[c]) + Len(queue[c])
              /\ Len(got[c]) \in Nat /\ Len(queue[c]) \in Nat
              /\ lost[c] \subseteq Numbers
              /\ since[c] \in Nat /\ since[c] <= produced
              /\ Exact(Stream(c), lost[c], Due(c)) /\ Behind(Stream(c), lost[c])
              /\ Due(c) \subseteq Numbers
<1>1. /\ produced \in 0 .. MaxPackets /\ produced \in Nat /\ MaxSize \in Nat \ {0}
      /\ subscribers \in Seq(Consumers) /\ pending \in Seq(Consumers)
  BY FanOutAssumption DEF IInv, TypeOK
<1>2. Len(subscribers) \in Nat /\ Len(pending) \in Nat /\ Subscribed \subseteq Consumers
  BY <1>1, LenProperties, ElementOfSeq DEF Subscribed
<1>3. \A c \in Awaiting : c \in Subscribed /\ since[c] < produced
  BY DEF IInv, PendingOnce, Awaiting
<1>4. ASSUME NEW c \in Consumers
      PROVE  /\ queue[c] \in Seq(Numbers) /\ got[c] \in Seq(Numbers)
             /\ Stream(c) \in Seq(Numbers) /\ Len(Stream(c)) = Len(got[c]) + Len(queue[c])
             /\ Len(got[c]) \in Nat /\ Len(queue[c]) \in Nat
             /\ lost[c] \subseteq Numbers
             /\ since[c] \in Nat /\ since[c] <= produced
             /\ Exact(Stream(c), lost[c], Due(c)) /\ Behind(Stream(c), lost[c])
             /\ Due(c) \subseteq Numbers
  <2>1. /\ queue[c] \in Seq(Numbers) /\ got[c] \in Seq(Numbers) /\ lost[c] \subseteq Numbers
        /\ since[c] \in Nat /\ since[c] <= produced
    BY FanOutAssumption DEF IInv, TypeOK, PendingOnce
  <2>2. Stream(c) \in Seq(Numbers) /\ Len(Stream(c)) = Len(got[c]) + Len(queue[c])
    BY <2>1, ConcatProperties DEF Stream
  <2>3. Exact(Stream(c), lost[c], Due(c)) /\ Behind(Stream(c), lost[c])
    BY SaidOfStreams DEF IInv
  <2>4. Due(c) \subseteq Numbers
    <3>1. since[c] + 1 .. produced \subseteq Numbers
      BY <2>1, <1>1, FanOutAssumption DEF Numbers
    <3> QED
      BY <3>1 DEF Due
  <2> QED
    BY <2>1, <2>2, <2>3, <2>4, LenProperties
<1> QED
  BY <1>1, <1>2, <1>3, <1>4

-----------------------------------------------------------------------------
(* A step that leaves the streams, the losses and what is due alone.       *)
LEMMA SameStreams ==
  ASSUME IInv, NEW c \in Consumers,
         Stream(c)' = Stream(c), lost'[c] = lost[c], Due(c)' = Due(c)
  PROVE  Exact(Stream(c)', lost'[c], Due(c)') /\ Behind(Stream(c)', lost'[c])
BY Facts

LEMMA SubscribeStep ==
  ASSUME IInv, NEW c \in Consumers, Subscribe(c)
  PROVE  IInv'
<1>1. /\ c \notin Subscribed /\ subscribers' = Append(subscribers, c)
      /\ since' = [since EXCEPT ![c] = produced]
      /\ UNCHANGED <<queue, produced, pending, got, lost>>
  BY DEF Subscribe
<1>2. /\ subscribers' \in Seq(Consumers) /\ Len(subscribers') = Len(subscribers) + 1
      /\ \A i \in 1 .. Len(subscribers) : subscribers'[i] = subscribers[i]
      /\ subscribers'[Len(subscribers) + 1] = c
  BY <1>1, Facts, AppendProperties
<1>3. Subscribed' = Subscribed \cup {c}
  <2>1. ASSUME NEW i \in 1 .. Len(subscribers) + 1
        PROVE  subscribers'[i] \in Subscribed \cup {c}
    <3>1. i \in 1 .. Len(subscribers) \/ i = Len(subscribers) + 1
      BY Facts
    <3> QED
      BY <3>1, <1>2 DEF Subscribed
  <2>2. ASSUME NEW i \in 1 .. Len(subscribers)
        PROVE  subscribers[i] \in Subscribed'
    <3>1. i \in 1 .. Len(subscribers') /\ subscribers[i] = subscribers'[i]
      BY <1>2, Facts
    <3> QED
      BY <3>1 DEF Subscribed
  <2>3. c \in Subscribed'
    <3>1. Len(subscribers) + 1 \in 1 .. Len(subscribers')
      BY <1>2, Facts
    <3> QED
      BY <3>1, <1>2 DEF Subscribed
  <2> QED
    BY <1>2, <2>1, <2>2, <2>3 DEF Subscribed
<1>4. c \notin Awaiting
  BY <1>1, Facts
<1>5. SubscribedOnce'
  <2> SUFFICES ASSUME NEW i \in 1 .. Len(subscribers'), NEW j \in 1 .. Len(subscribers'),
                      subscribers'[i] = subscribers'[j]
               PROVE  i = j
    BY DEF SubscribedOnce
  <2> DEFINE n == Len(subscribers)
  <2>1. n \in Nat /\ Len(subscribers') = n + 1
    BY <1>2, Facts
  <2>2. \A k \in 1 .. n : subscribers'[k] = subscribers[k] /\ subscribers'[k] # c
    BY <1>1, <1>2 DEF Subscribed
  <2>3. subscribers'[n + 1] = c
    BY <1>2
  <2>4. \A k, l \in 1 .. n : subscribers[k] = subscribers[l] => k = l
    BY DEF IInv, SubscribedOnce
  <2> HIDE DEF n
  <2>5. i \in 1 .. n \/ i = n + 1
    BY <2>1
  <2>6. j \in 1 .. n \/ j = n + 1
    BY <2>1
  <2> QED
    BY <2>2, <2>3, <2>4, <2>5, <2>6
<1>6. /\ \A d \in Consumers \ {c} : since'[d] = since[d]
      /\ since'[c] = produced /\ since' \in [Consumers -> 0 .. MaxPackets]
  BY <1>1, Facts DEF IInv, TypeOK
<1>7. PendingOnce'
  <2>1. \A i \in 1 .. Len(pending) : pending[i] \in Awaiting
    BY DEF Awaiting
  <2>2. \A i \in 1 .. Len(pending) : pending[i] \in Subscribed' /\ since'[pending[i]] < produced
    BY <2>1, <1>3, <1>4, <1>6, Facts
  <2>3. ASSUME NEW d \in Consumers
        PROVE  since'[d] <= produced
    <3>1. produced \in Nat /\ since[d] <= produced
      BY Facts
    <3> QED
      BY <3>1, <1>6
  <2> QED
    BY <1>1, <2>2, <2>3 DEF PendingOnce, IInv
<1>8. TypeOK'
  BY <1>1, <1>2, <1>6 DEF IInv, TypeOK
<1>9. ASSUME NEW d \in Consumers
      PROVE  Exact(Stream(d)', lost'[d], Due(d)') /\ Behind(Stream(d)', lost'[d])
  <2>1. Stream(d)' = Stream(d) /\ lost'[d] = lost[d] /\ Awaiting' = Awaiting
    BY <1>1 DEF Stream, Awaiting
  <2>2. Due(d)' = Due(d)
    <3>1. CASE d = c
      <4>1. Due(c) = {} /\ Due(c)' = (produced + 1 .. produced) \ {}
        BY <1>1, <1>3, <1>4, <1>6, <2>1 DEF Due
      <4>2. produced + 1 .. produced = {}
        BY Facts
      <4> QED
        BY <3>1, <4>1, <4>2
    <3>2. CASE d # c
      BY <3>2, <1>1, <1>3, <1>6, <2>1 DEF Due
    <3> QED
      BY <3>1, <3>2
  <2> QED
    BY <2>1, <2>2, SameStreams
<1>10. Accounted' /\ LossIsOwnBacklog'
  BY <1>9, SaidOfNextStreams
<1> QED
  BY <1>5, <1>7, <1>8, <1>10 DEF IInv

LEMMA PutBeginStep ==
  ASSUME IInv, PutBegin
  PROVE  IInv'
<1>1. /\ pending = <<>> /\ pending' = subscribers
      /\ produced < MaxPackets /\ produced' = produced + 1
      /\ UNCHANGED <<subscribers, queue, got, lost, since>>
  BY DEF PutBegin
<1>2. Awaiting = {} /\ Awaiting' = Subscribed /\ Subscribed' = Subscribed
  <2>1. Len(pending) = 0
    BY <1>1
  <2> QED
    BY <1>1, <2>1 DEF Awaiting, Subscribed
<1>3. produced' \in 0 .. MaxPackets
  BY <1>1, Facts, FanOutAssumption
<1>4. TypeOK'
  BY <1>1, <1>3 DEF IInv, TypeOK
<1>5. SubscribedOnce'
  BY <1>1 DEF IInv, SubscribedOnce
<1>6. PendingOnce'
  <2>1. \A i \in 1 .. Len(subscribers) : subscribers[i] \in Subscribed
    BY DEF Subscribed
  <2>2. ASSUME NEW d \in Consumers
        PROVE  since[d] < produced' /\ since[d] <= produced'
    <3>1. since[d] \in Nat /\ produced \in Nat /\ since[d] <= produced
      BY Facts
    <3> QED
      BY <3>1, <1>1
  <2>3. \A i, j \in 1 .. Len(subscribers) : subscribers[i] = subscribers[j] => i = j
    BY DEF IInv, SubscribedOnce
  <2> QED
    BY <1>1, <1>2, <2>1, <2>2, <2>3, Facts DEF PendingOnce
<1>7. ASSUME NEW d \in Consumers
      PROVE  Exact(Stream(d)', lost'[d], Due(d)') /\ Behind(Stream(d)', lost'[d])
  <2>1. Stream(d)' = Stream(d) /\ lost'[d] = lost[d]
    BY <1>1 DEF Stream
  <2>2. Due(d)' = Due(d)
    <3>1. CASE d \in Subscribed
      <4>1. /\ Due(d) = since[d] + 1 .. produced
            /\ Due(d)' = (since[d] + 1 .. produced + 1) \ {produced + 1}
        BY <3>1, <1>1, <1>2 DEF Due
      <4>2. since[d] \in Nat /\ produced \in Nat
        BY Facts
      <4>3. (since[d] + 1 .. produced + 1) \ {produced + 1} = since[d] + 1 .. produced
        BY <4>2
      <4> QED
        BY <4>1, <4>3
    <3>2. CASE d \notin Subscribed
      BY <3>2, <1>2 DEF Due
    <3> QED
      BY <3>1, <3>2
  <2> QED
    BY <2>1, <2>2, SameStreams
<1>8. Accounted' /\ LossIsOwnBacklog'
  BY <1>7, SaidOfNextStreams
<1> QED
  BY <1>4, <1>5, <1>6, <1>8 DEF IInv

LEMMA GetStep ==
  ASSUME IInv, NEW c \in Consumers, Get(c)
  PROVE  IInv'
<1>1. /\ queue[c] # <<>>
      /\ got' = [got EXCEPT ![c] = Append(got[c], Head(queue[c]))]
      /\ queue' = [queue EXCEPT ![c] = Tail(queue[c])]
      /\ UNCHANGED <<subscribers, produced, pending, lost, since>>
  BY DEF Get
<1>2. /\ Append(got[c], Head(queue[c])) \in Seq(Numbers) /\ Tail(queue[c]) \in Seq(Numbers)
      /\ Len(Tail(queue[c])) = Len(queue[c]) - 1
      /\ Append(got[c], Head(queue[c])) \o Tail(queue[c]) = got[c] \o queue[c]
  BY <1>1, Facts, TakingKeepsStream
<1>3. /\ got' \in [Consumers -> Seq(Numbers)] /\ queue' \in [Consumers -> Seq(Numbers)]
      /\ got'[c] = Append(got[c], Head(queue[c])) /\ queue'[c] = Tail(queue[c])
      /\ \A d \in Consumers \ {c} : got'[d] = got[d] /\ queue'[d] = queue[d]
  BY <1>1, <1>2 DEF IInv, TypeOK
<1>4. \A d \in Consumers : Len(queue'[d]) <= MaxSize
  <2>1. \A d \in Consumers : Len(queue[d]) <= MaxSize
    BY DEF IInv, TypeOK
  <2>2. Len(queue'[c]) = Len(queue[c]) - 1
    BY <1>2, <1>3
  <2>3. Len(queue[c]) \in Nat /\ MaxSize \in Nat
    BY Facts
  <2>4. Len(queue'[c]) <= MaxSize
    BY <2>1, <2>2, <2>3
  <2> QED
    BY <1>3, <2>1, <2>4
<1>5. TypeOK'
  BY <1>1, <1>3, <1>4 DEF IInv, TypeOK
<1>6. Subscribed' = Subscribed /\ Awaiting' = Awaiting
  BY <1>1 DEF Subscribed, Awaiting
<1>7. SubscribedOnce' /\ PendingOnce'
  BY <1>1, <1>6 DEF IInv, SubscribedOnce, PendingOnce
<1>8. ASSUME NEW d \in Consumers
      PROVE  Exact(Stream(d)', lost'[d], Due(d)') /\ Behind(Stream(d)', lost'[d])
  <2>1. Stream(d)' = Stream(d)
    BY <1>2, <1>3 DEF Stream
  <2>2. lost'[d] = lost[d] /\ Due(d)' = Due(d)
    BY <1>1, <1>6 DEF Due
  <2> QED
    BY <2>1, <2>2, SameStreams
<1>9. Accounted' /\ LossIsOwnBacklog'
  BY <1>8, SaidOfNextStreams
<1> QED
  BY <1>5, <1>7, <1>9 DEF IInv

(* The packet is offered to the first who still waits for it: it is the    *)
(* latest of its stream and of its losses.                                 *)
LEMMA PutNextStep ==
  ASSUME IInv, PutNext
  PROVE  IInv'
<1>0. PICK c \in Consumers : c = Head(pending)
  BY Facts, HeadTailProperties DEF PutNext
<1>1. /\ pending # <<>> /\ pending' = Tail(pending)
      /\ queue' = [queue EXCEPT ![c] = Offered(queue[c], produced)]
      /\ lost' = [lost EXCEPT ![c] = IF HasRoom(queue[c]) THEN lost[c] ELSE lost[c] \cup {produced}]
      /\ UNCHANGED <<subscribers, produced, got, since>>
  BY <1>0 DEF PutNext
<1>2. /\ c = pending[1] /\ c \in Consumers /\ pending' \in Seq(Consumers)
      /\ Len(pending') = Len(pending) - 1 /\ Len(pending) \in Nat \ {0}
      /\ \A i \in 1 .. Len(pending') : pending'[i] = pending[i + 1]
  BY <1>0, <1>1, Facts, HeadTailProperties, EmptySeq
<1>3. c \in Awaiting /\ c \in Subscribed /\ since[c] < produced
  <2>1. 1 \in 1 .. Len(pending)
    BY <1>2
  <2> QED
    BY <1>2, <2>1, Facts DEF Awaiting
<1>4. produced \in Numbers /\ produced \in Nat /\ since[c] \in Nat
  <2>1. produced \in 0 .. MaxPackets /\ since[c] \in Nat
    BY Facts
  <2> QED
    BY <2>1, <1>3, FanOutAssumption DEF Numbers
<1>5. Awaiting' = Awaiting \ {c} /\ Subscribed' = Subscribed
  <2> DEFINE n == Len(pending)
  <2>1. n \in Nat \ {0} /\ Len(pending') = n - 1
    BY <1>2
  <2>2. \A i, j \in 1 .. n : pending[i] = pending[j] => i = j
    BY DEF IInv, PendingOnce
  <2>3. \A i \in 1 .. n - 1 : pending'[i] = pending[i + 1]
    BY <1>2
  <2>4. Awaiting = {pending[i] : i \in 1 .. n} /\ Awaiting' = {pending'[i] : i \in 1 .. n - 1}
    BY <2>1 DEF Awaiting
  <2> HIDE DEF n
  <2>5. ASSUME NEW i \in 1 .. n - 1
        PROVE  pending'[i] \in Awaiting \ {c}
    <3>1. i + 1 \in 1 .. n /\ 1 \in 1 .. n /\ i + 1 # 1
      BY <2>1
    <3> QED
      BY <3>1, <1>2, <2>2, <2>3, <2>4
  <2>6. ASSUME NEW i \in 1 .. n, pending[i] # c
        PROVE  pending[i] \in Awaiting'
    <3>1. i - 1 \in 1 .. n - 1 /\ (i - 1) + 1 = i
      BY <1>2, <2>1, <2>6
    <3> QED
      BY <3>1, <2>3, <2>4
  <2> QED
    BY <1>1, <2>4, <2>5, <2>6 DEF Subscribed
<1>6. PendingOnce'
  <2>1. ASSUME NEW i \in 1 .. Len(pending'), NEW j \in 1 .. Len(pending'), pending'[i] = pending'[j]
        PROVE  i = j
    <3>1. i + 1 \in 1 .. Len(pending) /\ j + 1 \in 1 .. Len(pending) /\ i \in Int /\ j \in Int
      BY <1>2
    <3>2. pending[i + 1] = pending[j + 1]
      BY <1>2, <2>1
    <3>3. i + 1 = j + 1
      BY <3>1, <3>2 DEF IInv, PendingOnce
    <3> QED
      BY <3>1, <3>3
  <2>2. ASSUME NEW i \in 1 .. Len(pending')
        PROVE  pending'[i] \in Subscribed' /\ since'[pending'[i]] < produced'
    <3>1. pending'[i] \in Awaiting
      BY <1>5 DEF Awaiting
    <3> QED
      BY <3>1, <1>1, <1>5, Facts
  <2> QED
    BY <1>1, <2>1, <2>2 DEF IInv, PendingOnce
<1>7. SubscribedOnce'
  BY <1>1 DEF IInv, SubscribedOnce
<1>8. Due(c) = since[c] + 1 .. produced - 1 /\ Due(c)' = Due(c) \cup {produced}
  <2>1. /\ Due(c) = (since[c] + 1 .. produced) \ {produced}
        /\ Due(c)' = (since[c] + 1 .. produced) \ {}
    BY <1>1, <1>3, <1>5 DEF Due
  <2>2. (since[c] + 1 .. produced) \ {produced} = since[c] + 1 .. produced - 1
    BY <1>3, <1>4
  <2>3. since[c] + 1 .. produced = (since[c] + 1 .. produced - 1) \cup {produced}
    BY <1>3, <1>4
  <2> QED
    BY <2>1, <2>2, <2>3
<1>9. \A n \in Due(c) : n < produced
  BY <1>4, <1>8
<1>10. /\ queue[c] \in Seq(Numbers) /\ got[c] \in Seq(Numbers) /\ Stream(c) \in Seq(Numbers)
       /\ Len(queue[c]) \in Nat /\ Len(got[c]) \in Nat /\ Len(queue[c]) <= MaxSize
       /\ Len(Stream(c)) = Len(got[c]) + Len(queue[c]) /\ lost[c] \subseteq Numbers
       /\ Exact(Stream(c), lost[c], Due(c)) /\ Behind(Stream(c), lost[c]) /\ Due(c) \in SUBSET Numbers
  BY <1>2, Facts DEF IInv, TypeOK
<1>11. /\ \A d \in Consumers \ {c} : queue'[d] = queue[d] /\ lost'[d] = lost[d]
       /\ queue'[c] = Offered(queue[c], produced)
       /\ lost'[c] = IF HasRoom(queue[c]) THEN lost[c] ELSE lost[c] \cup {produced}
  BY <1>1, <1>2 DEF IInv, TypeOK
<1>12. /\ queue'[c] \in Seq(Numbers) /\ Len(queue'[c]) <= MaxSize /\ lost'[c] \subseteq Numbers
       /\ Exact(Stream(c)', lost'[c], Due(c)') /\ Behind(Stream(c)', lost'[c])
  <2>1. CASE HasRoom(queue[c])
    <3>1. queue'[c] = Append(queue[c], produced) /\ lost'[c] = lost[c]
      BY <2>1, <1>11 DEF Offered
    <3>2. /\ queue'[c] \in Seq(Numbers) /\ Len(queue'[c]) = Len(queue[c]) + 1
          /\ Stream(c)' = Append(Stream(c), produced)
      <4>1. /\ Append(queue[c], produced) \in Seq(Numbers)
            /\ Len(Append(queue[c], produced)) = Len(queue[c]) + 1
            /\ got[c] \o Append(queue[c], produced) = Append(got[c] \o queue[c], produced)
        <5>1. queue[c] \in Seq(Numbers) /\ got[c] \in Seq(Numbers) /\ produced \in Numbers
          BY <1>4, <1>10
        <5> QED
          <6>1. \A g, q \in Seq(Numbers), p \in Numbers :
                  /\ Append(q, p) \in Seq(Numbers) /\ Len(Append(q, p)) = Len(q) + 1
                  /\ g \o Append(q, p) = Append(g \o q, p)
            BY OfferingAppends
          <6> QED
            BY <5>1, <6>1, Zenon
      <4>2. got'[c] = got[c]
        BY <1>1
      <4> QED
        BY <3>1, <4>1, <4>2 DEF Stream
    <3>3. Len(queue'[c]) <= MaxSize
      BY <2>1, <3>2, <1>10, FanOutAssumption DEF HasRoom
    <3>4. Exact(Stream(c)', lost'[c], Due(c)')
      <4>1. Exact(Append(Stream(c), produced), lost[c], Due(c) \cup {produced})
        BY <1>4, <1>9, <1>10, ExactTaking
      <4> QED
        BY <3>1, <3>2, <1>8, <4>1
    <3>5. Behind(Stream(c)', lost'[c])
      BY <3>1, <3>2, <1>4, <1>10, BehindTaking
    <3> QED
      BY <3>1, <3>2, <3>3, <3>4, <3>5, <1>10
  <2>2. CASE ~HasRoom(queue[c])
    <3>1. queue'[c] = queue[c] /\ lost'[c] = lost[c] \cup {produced} /\ Stream(c)' = Stream(c)
      BY <2>2, <1>1, <1>11 DEF Offered, Stream
    <3>2. Len(Stream(c)) >= MaxSize
      <4>1. Len(queue[c]) >= MaxSize
        BY <2>2, <1>10, FanOutAssumption DEF HasRoom
      <4> QED
        <5>1. /\ Len(Stream(c)) = Len(got[c]) + Len(queue[c])
              /\ Len(got[c]) \in Nat /\ Len(queue[c]) \in Nat /\ MaxSize \in Nat
          BY <1>10, FanOutAssumption
        <5> QED
          BY <5>1, <4>1, SumAtLeast
    <3>3. \A i \in 1 .. Len(Stream(c)) : Stream(c)[i] < produced
      BY <1>9, <1>10 DEF Exact, Taken
    <3>4. Exact(Stream(c)', lost'[c], Due(c)')
      <4>1. Exact(Stream(c), lost[c] \cup {produced}, Due(c) \cup {produced})
        BY <1>4, <1>9, <1>10, ExactLosing
      <4> QED
        BY <3>1, <1>8, <4>1
    <3>5. Behind(Stream(c)', lost'[c])
      <4>1. Behind(Stream(c), lost[c] \cup {produced})
        BY <3>2, <3>3, <1>4, <1>10, BehindLosing
      <4> QED
        BY <3>1, <4>1
    <3> QED
      BY <3>1, <3>4, <3>5, <1>4, <1>10
  <2> QED
    BY <2>1, <2>2
<1>13. TypeOK'
  <2>1. queue' \in [Consumers -> Seq(Numbers)] /\ lost' \in [Consumers -> SUBSET Numbers]
    BY <1>1, <1>2, <1>11, <1>12 DEF IInv, TypeOK
  <2>2. \A d \in Consumers : Len(queue'[d]) <= MaxSize
    BY <1>11, <1>12 DEF IInv, TypeOK
  <2> QED
    BY <1>1, <1>2, <2>1, <2>2 DEF IInv, TypeOK
<1>14. ASSUME NEW d \in Consumers, d # c
       PROVE  Exact(Stream(d)', lost'[d], Due(d)') /\ Behind(Stream(d)', lost'[d])
  <2>1. Stream(d)' = Stream(d) /\ lost'[d] = lost[d] /\ Due(d)' = Due(d)
    BY <1>1, <1>5, <1>11, <1>14 DEF Stream, Due
  <2> QED
    BY <2>1, SameStreams
<1>15. Accounted' /\ LossIsOwnBacklog'
  BY <1>12, <1>14, SaidOfNextStreams
<1> QED
  BY <1>6, <1>7, <1>13, <1>15 DEF IInv

LEMMA Inductive == IInv /\ [Next]_vars => IInv'
<1> SUFFICES ASSUME IInv, [Next]_vars
             PROVE  IInv'
  OBVIOUS
<1>1. CASE UNCHANGED vars
  <2>1. /\ TypeOK' /\ SubscribedOnce' /\ PendingOnce'
        /\ Subscribed' = Subscribed /\ Awaiting' = Awaiting
    BY <1>1 DEF vars, IInv, TypeOK, SubscribedOnce, PendingOnce, Subscribed, Awaiting
  <2>2. ASSUME NEW c \in Consumers
        PROVE  Exact(Stream(c)', lost'[c], Due(c)') /\ Behind(Stream(c)', lost'[c])
    <3>1. Stream(c)' = Stream(c) /\ lost'[c] = lost[c] /\ Due(c)' = Due(c)
      BY <1>1, <2>1 DEF vars, Stream, Due
    <3> QED
      BY <3>1, SameStreams
  <2> QED
    BY <2>1, <2>2, SaidOfNextStreams DEF IInv
<1>2. CASE Next
  BY <1>2, PutBeginStep, PutNextStep, SubscribeStep, GetStep DEF Next, Put
<1> QED
  BY <1>1, <1>2

LEMMA Invariance == Spec => []IInv
BY Initially, Inductive, PTL DEF Spec

(* PacketQueue and the queues it serves keep their types; no queue has     *)
(* ever more than maxsize packets (queue.py, subscribe() and put()).       *)
THEOREM Typing == Spec => []TypeOK
<1>1. IInv => TypeOK
  BY DEF IInv
<1> QED
  BY <1>1, Invariance, PTL

(* Every packet put since a consumer subscribed is taken or will be, once  *)
(* and in order, or it was dropped for that consumer, or it is about to be *)
(* offered, whatever the other consumers do and however many they are      *)
(* (queue.py, put()).                                                      *)
THEOREM EveryPacketAccounted == Spec => []Accounted
<1>1. IInv => Accounted
  BY DEF IInv
<1> QED
  BY <1>1, Invariance, PTL

(* README.md, "it drops packets from its own queue": whatever is dropped   *)
(* for a consumer, it was given maxsize packets before.                    *)
THEOREM LossOnlyWhenBehind == Spec => []LossIsOwnBacklog
<1>1. IInv => LossIsOwnBacklog
  BY DEF IInv
<1> QED
  BY <1>1, Invariance, PTL
=============================================================================
