-------------------------- MODULE LifeCycleProofs ---------------------------
(***************************************************************************)
(* Theorems about LifeCycle, for every list of detectors, any number of    *)
(* starts, and SIGINTs at any moments.                                     *)
(***************************************************************************)
EXTENDS LifeCycle, SequenceTheorems, TLAPS

LEMMA WorkerFacts ==
  /\ Len(Order) \in Nat
  /\ \A i \in 1 .. Len(Order) : Order[i] \in Workers
  /\ Capture \in Workers
<1> DEFINE D == {Detectors[i] : i \in 1 .. Len(Detectors)}
           S == {Capture} \cup D
<1>1. Detectors \in Seq(D)
  BY LifeCycleAssumption
<1> HIDE DEF D
<1>2. Detectors \in Seq(S) /\ <<Capture>> \in Seq(S) /\ Len(Detectors) \in Nat
  BY <1>1, SeqMonotonic
<1>3. Len(Order) = 1 + Len(Detectors) /\ Order[1] = Capture
  BY <1>2, ConcatProperties DEF Order
<1>4. 1 \in 1 .. Len(Order)
  BY <1>2, <1>3
<1>5. Capture \in Workers
  BY <1>3, <1>4 DEF Workers
<1>6. \A i \in 1 .. Len(Order) : Order[i] \in Workers
  BY DEF Workers
<1> QED
  BY <1>2, <1>3, <1>5, <1>6

(* What becomes of a stack: pushed, returned from, its top replaced.       *)
LEMMA PushCall ==
  ASSUME NEW s \in Seq(Calls), NEW c \in Calls
  PROVE  /\ <<c>> \o s \in Seq(Calls) /\ Len(<<c>> \o s) = Len(s) + 1
         /\ (<<c>> \o s)[1] = c
         /\ \A k \in 1 .. Len(s) : (<<c>> \o s)[k + 1] = s[k]
OBVIOUS

LEMMA PopCall ==
  ASSUME NEW s \in Seq(Calls), s # <<>>
  PROVE  /\ Tail(s) \in Seq(Calls) /\ Len(Tail(s)) = Len(s) - 1 /\ Len(s) >= 1
         /\ \A k \in 1 .. Len(s) - 1 : Tail(s)[k] = s[k + 1]
         /\ Head(s) = s[1] /\ s[1] \in Calls
OBVIOUS

LEMMA ReplaceCall ==
  ASSUME NEW s \in Seq(Calls), s # <<>>, NEW c \in Calls
  PROVE  /\ <<c>> \o Tail(s) \in Seq(Calls) /\ Len(<<c>> \o Tail(s)) = Len(s)
         /\ (<<c>> \o Tail(s))[1] = c
         /\ \A k \in 2 .. Len(s) : (<<c>> \o Tail(s))[k] = s[k]
OBVIOUS

(* A start() on top is the only call.                                      *)
LEMMA StartOnTop ==
  ASSUME TypeOK, Outermost, stack # <<>>, Top.call = "start"
  PROVE  /\ Len(stack) = 1 /\ stack[1] = Top /\ Top.worker \in Workers
         /\ Top = Call("start", Top.worker, Top.at)
         /\ StartAt(Top.worker, Top.at)
         /\ \A w, at : StartAt(w, at) => w = Top.worker /\ at = Top.at
         /\ Tail(stack) = <<>>
<1>1. Top = stack[1] /\ Top \in Calls /\ Len(stack) \in Nat \ {0} /\ stack \in Seq(Calls)
  BY PopCall DEF TypeOK, Top
<1>2. Len(stack) = 1
  <2> DEFINE n == Len(stack)
  <2>1. n \in Nat \ {0}
    BY <1>1
  <2>2. \A k \in 1 .. n - 1 : stack[k].call = "shutdown"
    BY DEF Outermost
  <2>3. stack[1].call = "start"
    BY <1>1
  <2> HIDE DEF n
  <2>4. ~(1 \in 1 .. n - 1)
    BY <2>2, <2>3
  <2>5. n = 1
    BY <2>1, <2>4
  <2> QED
    BY <2>5 DEF n
<1>3. Top.worker \in Workers /\ Top = Call("start", Top.worker, Top.at)
  BY <1>1 DEF Calls, Call
<1>4. \A w, at : StartAt(w, at) => w = Top.worker /\ at = Top.at
  BY <1>1, <1>2 DEF StartAt, Call
<1>5. Tail(stack) = <<>>
  BY <1>1, <1>2
<1> QED
  BY <1>1, <1>2, <1>3, <1>4, <1>5 DEF StartAt

(* The steps of a _shutdown() neither begin nor end a start().             *)
LEMMA ShutdownCall ==
  ASSUME IInv, Signal \/ Shutdown
  PROVE  \/ died' = TRUE /\ stack' = <<>>
         \/ /\ stack' \in Seq(Calls) /\ Outermost' /\ died' = died
            /\ \A w, at : StartAt(w, at)' <=> StartAt(w, at)
<1> USE DEF IInv
<1>0. stack \in Seq(Calls) /\ Len(stack) \in Nat
  BY DEF TypeOK
<1>1. CASE Signal
  <2> DEFINE c == Call("shutdown", Capture, "entered")
  <2>1. c \in Calls /\ c.call = "shutdown"
    BY WorkerFacts DEF Calls, Call
  <2> HIDE DEF c
  <2>2. stack' = <<c>> \o stack /\ died' = died
    BY <1>1 DEF Signal, c
  <2>3. /\ stack' \in Seq(Calls) /\ Len(stack') = Len(stack) + 1 /\ stack'[1] = c
        /\ \A k \in 1 .. Len(stack) : stack'[k + 1] = stack[k]
    BY <2>1, <2>2, <1>0, PushCall
  <2>4. Outermost'
    <3> SUFFICES ASSUME NEW k \in 1 .. Len(stack') - 1
                 PROVE  stack'[k].call = "shutdown"
      BY DEF Outermost
    <3>1. CASE k = 1
      BY <3>1, <2>1, <2>3
    <3>2. CASE k # 1
      <4>1. k - 1 \in 1 .. Len(stack) - 1 /\ stack'[(k - 1) + 1] = stack[k - 1]
        BY <3>2, <2>3, <1>0
      <4> QED
        BY <4>1, <1>0 DEF Outermost
    <3> QED
      BY <3>1, <3>2
  <2>5. ASSUME NEW w, NEW at
        PROVE  StartAt(w, at)' <=> StartAt(w, at)
    <3>1. CASE stack = <<>>
      BY <3>1, <2>1, <2>3 DEF StartAt, Call
    <3>2. CASE stack # <<>>
      <4>1. Len(stack) >= 1 /\ stack'[Len(stack')] = stack[Len(stack)] /\ stack' # <<>>
        BY <3>2, <2>3, <1>0
      <4> QED
        BY <4>1, <3>2 DEF StartAt
    <3> QED
      BY <3>1, <3>2
  <2> QED
    BY <2>2, <2>3, <2>4, <2>5
<1>2. ASSUME stack # <<>>, Top.call = "shutdown", Return
      PROVE  stack' \in Seq(Calls) /\ Outermost' /\ \A w, at : StartAt(w, at)' <=> StartAt(w, at)
  <2>1. /\ stack' \in Seq(Calls) /\ Len(stack') = Len(stack) - 1 /\ Len(stack) >= 1
        /\ \A k \in 1 .. Len(stack) - 1 : stack'[k] = stack[k + 1]
        /\ Top = stack[1]
    BY <1>0, <1>2, PopCall DEF Return, Top
  <2>2. Outermost'
    <3> SUFFICES ASSUME NEW k \in 1 .. Len(stack') - 1
                 PROVE  stack'[k].call = "shutdown"
      BY DEF Outermost
    <3>1. k \in 1 .. Len(stack) - 1 /\ k + 1 \in 1 .. Len(stack) - 1
      BY <2>1, <1>0
    <3>2. stack'[k] = stack[k + 1] /\ stack[k + 1].call = "shutdown"
      BY <3>1, <2>1 DEF Outermost
    <3> QED
      BY <3>2
  <2>3. ASSUME NEW w, NEW at
        PROVE  StartAt(w, at)' <=> StartAt(w, at)
    <3>1. CASE Len(stack) = 1
      BY <3>1, <1>2, <2>1 DEF StartAt, Call
    <3>2. CASE Len(stack) # 1
      <4>1. stack'[Len(stack')] = stack[Len(stack)] /\ stack' # <<>>
        BY <3>2, <2>1, <1>0
      <4> QED
        BY <4>1, <1>2 DEF StartAt
    <3> QED
      BY <3>1, <3>2
  <2> QED
    BY <2>1, <2>2, <2>3
<1>3. ASSUME stack # <<>>, Top.call = "shutdown", NEW c \in Calls, c.call = "shutdown",
             stack' = <<c>> \o Tail(stack)
      PROVE  stack' \in Seq(Calls) /\ Outermost' /\ \A w, at : StartAt(w, at)' <=> StartAt(w, at)
  <2>1. /\ stack' \in Seq(Calls) /\ Len(stack') = Len(stack) /\ stack'[1] = c
        /\ \A k \in 2 .. Len(stack) : stack'[k] = stack[k]
    BY <1>0, <1>3, ReplaceCall
  <2>2. Top = stack[1] /\ Len(stack) >= 1
    BY <1>0, <1>3, PopCall DEF Top
  <2>3. Outermost'
    <3> SUFFICES ASSUME NEW k \in 1 .. Len(stack') - 1
                 PROVE  stack'[k].call = "shutdown"
      BY DEF Outermost
    <3>1. CASE k = 1
      BY <3>1, <1>3, <2>1
    <3>2. CASE k # 1
      <4>1. k \in 2 .. Len(stack) /\ k \in 1 .. Len(stack) - 1
        BY <3>2, <2>1, <1>0
      <4> QED
        BY <4>1, <2>1 DEF Outermost
    <3> QED
      BY <3>1, <3>2
  <2>4. ASSUME NEW w, NEW at
        PROVE  StartAt(w, at)' <=> StartAt(w, at)
    <3>1. CASE Len(stack) = 1
      <4>1. Call("start", w, at).call = "start"
        BY DEF Call
      <4>2. stack'[Len(stack')] # Call("start", w, at) /\ stack[Len(stack)] # Call("start", w, at)
        BY <4>1, <3>1, <1>3, <2>1, <2>2
      <4> QED
        BY <4>2 DEF StartAt
    <3>2. CASE Len(stack) # 1
      <4>1. stack'[Len(stack')] = stack[Len(stack)] /\ stack' # <<>>
        BY <3>2, <2>1, <2>2, <1>0
      <4> QED
        BY <4>1, <1>3 DEF StartAt
    <3> QED
      BY <3>1, <3>2
  <2> QED
    BY <2>1, <2>3, <2>4
<1>4. ASSUME stack # <<>>, Top.call = "shutdown", StopNext
      PROVE  stack' \in Seq(Calls) /\ Outermost' /\ \A w, at : StartAt(w, at)' <=> StartAt(w, at)
  <2> DEFINE i == CHOOSE i \in 1 .. Len(Order) : Order[i] = Top.worker
  <2>1. Top \in Calls /\ Top.worker \in Workers
    BY <1>0, <1>4, PopCall DEF Top, Calls
  <2>2. i \in 1 .. Len(Order)
    BY <2>1 DEF Workers
  <2>3. IF i = Len(Order) THEN Return
        ELSE stack' = <<Call("shutdown", Order[i + 1], "entered")>> \o Tail(stack)
    BY <1>4 DEF StopNext
  <2> HIDE DEF i
  <2>4. CASE i = Len(Order)
    BY <1>2, <1>4, <2>3, <2>4
  <2>5. CASE i # Len(Order)
    <3>1. Order[i + 1] \in Workers
      BY <2>2, <2>5, WorkerFacts
    <3>2. /\ Call("shutdown", Order[i + 1], "entered") \in Calls
          /\ Call("shutdown", Order[i + 1], "entered").call = "shutdown"
      BY <3>1 DEF Call, Calls
    <3> QED
      BY <1>3, <1>4, <2>3, <2>5, <3>2
  <2> QED
    BY <2>4, <2>5
<1>5. CASE SetEvent
  <2>1. stack # <<>> /\ Top.call = "shutdown"
    BY <1>5 DEF SetEvent, Is
  <2>2. CASE State(Top.worker) = "none"
    BY <1>4, <1>5, <2>1, <2>2 DEF SetEvent
  <2>3. CASE State(Top.worker) = "created"
    BY <1>5, <2>3 DEF SetEvent
  <2>4. CASE State(Top.worker) \notin {"none", "created"}
    <3> DEFINE c == [Top EXCEPT !.at = "joining"]
    <3>1. Top \in Calls
      BY <1>0, <2>1, PopCall DEF Top
    <3>2. c \in Calls /\ c.call = "shutdown"
      BY <2>1, <3>1 DEF Calls
    <3>3. stack' = <<c>> \o Tail(stack) /\ died' = died
      BY <1>5, <2>4 DEF SetEvent, Goto
    <3> QED
      BY <1>3, <2>1, <3>2, <3>3
  <2> QED
    BY <2>2, <2>3, <2>4
<1>6. CASE Joined
  BY <1>4, <1>6 DEF Joined, Is
<1> QED
  BY <1>1, <1>5, <1>6 DEF Shutdown

-----------------------------------------------------------------------------
States == Live \cup {"created", "ended"}

LEMMA ThreadFacts ==
  ASSUME TypeOK, NEW w \in Workers
  PROVE  /\ threads[w] \in Seq(States) /\ Len(threads[w]) \in Nat
         /\ \A i \in Ids(w) : threads[w][i] \in States
         /\ threads[w] = <<>> => State(w) = "none" /\ Ids(w) = {}
         /\ threads[w] # <<>> => State(w) = threads[w][Len(threads[w])] /\ Len(threads[w]) \in Ids(w)
<1>1. threads[w] \in Seq(States)
  BY DEF TypeOK, States
<1>2. Len(threads[w]) \in Nat /\ \A i \in Ids(w) : threads[w][i] \in States
  BY <1>1, ElementOfSeq, LenProperties DEF Ids
<1>3. threads[w] = <<>> => State(w) = "none" /\ Ids(w) = {}
  BY <1>1 DEF State, Ids
<1>4. threads[w] # <<>> => Len(threads[w]) \in Ids(w)
  BY <1>1, <1>2, EmptySeq DEF Ids
<1> QED
  BY <1>1, <1>2, <1>3, <1>4 DEF State

(* A step of a live thread: it is its worker's last, and no start() has    *)
(* cleared the event for a next one.                                       *)
LEMMA ThreadStep ==
  ASSUME IInv, NEW w \in Workers, NEW i \in Ids(w), NEW new \in States \ {"created"},
         threads[w][i] \in Live, Becomes(w, i, new),
         late' \in [Workers -> Nat], \A v \in Workers \ {w} : late'[v] = late[v],
         late'[w] # 0 => late'[w] = 1 /\ stopEvent[w] /\ new \in {"busy", "ended"}
  PROVE  IInv'
<1> USE DEF IInv
<1>1. i = Len(threads[w]) /\ threads[w] \in Seq(States) /\ State(w) = threads[w][i]
  BY ThreadFacts DEF OnlyTheLast, Ids
<1>2. /\ UNCHANGED <<stack, stopEvent, starts, signals, died>>
      /\ threads' = [threads EXCEPT ![w][i] = new]
  BY DEF Becomes, bounds
<1>3. /\ threads'[w] \in Seq(States) /\ Len(threads'[w]) = Len(threads[w])
      /\ \A j \in Ids(w) : threads'[w][j] = IF j = i THEN new ELSE threads[w][j]
      /\ \A v \in Workers \ {w} : threads'[v] = threads[v]
      /\ threads' \in [Workers -> Seq(States)]
  <2> DEFINE t == [threads[w] EXCEPT ![i] = new]
  <2>1. threads' = [threads EXCEPT ![w] = t]
    BY <1>2
  <2>2. /\ t \in Seq(States) /\ Len(t) = Len(threads[w])
        /\ \A j \in 1 .. Len(threads[w]) : t[j] = IF j = i THEN new ELSE threads[w][j]
    BY <1>1, ExceptSeq DEF Ids
  <2>3. threads \in [Workers -> Seq(States)]
    BY DEF TypeOK, States
  <2> HIDE DEF t
  <2> QED
    BY <2>1, <2>2, <2>3 DEF Ids
<1>4. TypeOK'
  BY <1>2, <1>3 DEF TypeOK, States
<1>5. Outermost' /\ \A v, at : StartAt(v, at)' <=> StartAt(v, at)
  BY <1>2 DEF Outermost, StartAt
<1>6. ~StartAt(w, "cleared") /\ ~StartAt(w, "created") /\ ~(StartAt(w, "entered") /\ w # Capture)
  <2>1. threads[w][i] # "ended" /\ threads[w][i] # "created" /\ threads[w] # <<>>
    BY ThreadFacts DEF Live
  <2> QED
    BY <1>1, <2>1 DEF StartAlone
<1>7. \A v \in Workers \ {w} : Ids(v)' = Ids(v) /\ State(v)' = State(v)
  BY <1>3 DEF Ids, State
<1>8. Ids(w)' = Ids(w) /\ State(w)' = new
  <2>1. threads'[w] # <<>> /\ threads'[w][Len(threads'[w])] = new
    BY <1>1, <1>3, EmptySeq DEF Ids
  <2> QED
    BY <1>3, <2>1 DEF Ids, State
<1>9. OnlyTheLast'
  <2> SUFFICES ASSUME NEW v \in Workers, NEW j \in Ids(v)'
               PROVE  /\ threads'[v][j] \in Live => j = Len(threads'[v])
                      /\ threads'[v][j] = "created" =>
                           j = Len(threads'[v]) /\ (died' \/ StartAt(v, "created")')
    BY DEF OnlyTheLast
  <2>1. CASE v # w
    BY <2>1, <1>2, <1>3, <1>5, <1>7 DEF OnlyTheLast
  <2>2. CASE v = w
    BY <2>2, <1>1, <1>2, <1>3, <1>5, <1>8 DEF OnlyTheLast
  <2> QED
    BY <2>1, <2>2
<1>10. StartAlone'
  <2> SUFFICES ASSUME NEW v \in Workers
               PROVE  /\ StartAt(v, "entered")' /\ v # Capture => threads'[v] = <<>>
                      /\ StartAt(v, "cleared")' =>
                           late'[v] = 0 /\ \A j \in Ids(v)' : threads'[v][j] = "ended"
                      /\ StartAt(v, "created")' => late'[v] = 0 /\ State(v)' = "created"
    BY DEF StartAlone
  <2>1. CASE v = w
    BY <2>1, <1>5, <1>6
  <2>2. CASE v # w
    <3>1. /\ threads'[v] = threads[v] /\ late'[v] = late[v]
          /\ Ids(v)' = Ids(v) /\ State(v)' = State(v)
      BY <2>2, <1>3, <1>7
    <3>2. \A at : StartAt(v, at)' <=> StartAt(v, at)
      BY <1>5
    <3>3. /\ StartAt(v, "entered") /\ v # Capture => threads[v] = <<>>
          /\ StartAt(v, "cleared") => late[v] = 0 /\ \A j \in Ids(v) : threads[v][j] = "ended"
          /\ StartAt(v, "created") => late[v] = 0 /\ State(v) = "created"
      BY DEF StartAlone
    <3> QED
      BY <3>1, <3>2, <3>3
  <2> QED
    BY <2>1, <2>2
<1>11. LateIsLast'
  BY <1>2, <1>7, <1>8 DEF LateIsLast
<1> QED
  BY <1>4, <1>5, <1>9, <1>10, <1>11

LEMMA ThreadSteps ==
  ASSUME IInv, NEW w \in Workers, NEW i \in Ids(w), Run(w, i) \/ Take(w, i) \/ Raise(w, i)
  PROVE  IInv'
<1> USE DEF IInv
<1>1. /\ threads[w][i] \in Live => State(w) = threads[w][i]
      /\ late \in [Workers -> Nat] /\ stopEvent[w] \in BOOLEAN
  BY ThreadFacts DEF OnlyTheLast, Ids, TypeOK
<1>2. late[w] # 0 => late[w] = 1 /\ stopEvent[w] /\ State(w) \in {"busy", "ended"}
  BY DEF LateIsLast
<1>3. CASE Enter(w, i)
  <2>1. PICK new \in {"idle", "ended"} : Becomes(w, i, new)
    BY <1>3 DEF Enter
  <2>2. threads[w][i] = "new" /\ late' = late
    BY <1>3 DEF Enter
  <2>3. late[w] = 0
    BY <2>2, <1>1, <1>2 DEF Live
  <2> QED
    BY <2>1, <2>2, <2>3, <1>1, ThreadStep DEF Live, States
<1>4. CASE Take(w, i)
  <2>1. /\ threads[w][i] = "idle" /\ Becomes(w, i, "busy")
        /\ late' = [late EXCEPT ![w] = IF stopEvent[w] THEN @ + 1 ELSE @]
    BY <1>4 DEF Take
  <2>2. late[w] = 0
    BY <2>1, <1>1, <1>2 DEF Live
  <2>3. /\ late' \in [Workers -> Nat] /\ \A v \in Workers \ {w} : late'[v] = late[v]
        /\ late'[w] # 0 => late'[w] = 1 /\ stopEvent[w]
    BY <2>1, <2>2, <1>1
  <2> QED
    BY <2>1, <2>3, ThreadStep DEF Live, States
<1>5. CASE Done(w, i)
  <2>1. /\ threads[w][i] = "busy" /\ late' = late
        /\ Becomes(w, i, IF stopEvent[w] THEN "ended" ELSE "idle")
    BY <1>5 DEF Done, AfterPacket
  <2>2. PICK new \in {"idle", "ended"} :
          Becomes(w, i, new) /\ (stopEvent[w] => new = "ended")
    BY <2>1
  <2> QED
    BY <2>1, <2>2, <1>1, <1>2, ThreadStep DEF Live, States
<1>6. CASE Raise(w, i)
  <2>1. threads[w][i] = "busy" /\ late' = late /\ Becomes(w, i, "ended")
    BY <1>6 DEF Raise
  <2> QED
    BY <2>1, <1>1, <1>2, ThreadStep DEF Live, States
<1>7. CASE TimeOut(w, i)
  <2>1. threads[w][i] = "idle" /\ late' = late /\ Becomes(w, i, "ended")
    BY <1>7 DEF TimeOut
  <2> QED
    BY <2>1, <1>1, <1>2, ThreadStep DEF Live, States
<1> QED
  BY <1>3, <1>4, <1>5, <1>6, <1>7 DEF Run

(* SIGINT and _shutdown(): no thread is created or ends.                   *)
LEMMA ShutdownSteps ==
  ASSUME IInv, Signal \/ Shutdown
  PROVE  IInv'
<1> USE DEF IInv
<1>1. /\ UNCHANGED <<threads, starts, late>> /\ signals' \in 0 .. MaxSignals
      /\ stopEvent' \in [Workers -> BOOLEAN] /\ died' \in BOOLEAN
      /\ \A w \in Workers : stopEvent[w] => stopEvent'[w]
  <2>1. CASE Signal
    BY <2>1, LifeCycleAssumption DEF Signal, TypeOK
  <2>2. CASE SetEvent
    <3>1. /\ UNCHANGED <<threads, starts, signals, late>>
          /\ stopEvent' = [stopEvent EXCEPT ![Top.worker] = TRUE]
      BY <2>2 DEF SetEvent, bounds
    <3>2. died' \in BOOLEAN
      <4>1. CASE State(Top.worker) = "none"
        BY <2>2, <4>1 DEF SetEvent, TypeOK
      <4>2. CASE State(Top.worker) = "created"
        BY <2>2, <4>2 DEF SetEvent
      <4>3. CASE State(Top.worker) \notin {"none", "created"}
        BY <2>2, <4>3 DEF SetEvent, TypeOK
      <4> QED
        BY <4>1, <4>2, <4>3
    <3> QED
      BY <3>1, <3>2 DEF TypeOK
  <2>3. CASE Joined
    BY <2>3 DEF Joined, bounds, TypeOK
  <2> QED
    BY <2>1, <2>2, <2>3 DEF Shutdown
<1>2. \A w : Ids(w)' = Ids(w) /\ State(w)' = State(w)
  BY <1>1 DEF Ids, State
<1>3. /\ stack' \in Seq(Calls) /\ Outermost'
      /\ \A w, at : StartAt(w, at)' => StartAt(w, at)
      /\ \A w, at : StartAt(w, at) => died' \/ StartAt(w, at)'
      /\ died => died'
  <2>1. CASE died' = TRUE /\ stack' = <<>>
    <3>1. stack' \in Seq(Calls) /\ Len(stack') = 0
      BY <2>1
    <3> QED
      BY <2>1, <3>1 DEF Outermost, StartAt
  <2>2. CASE /\ stack' \in Seq(Calls) /\ Outermost' /\ died' = died
             /\ \A w, at : StartAt(w, at)' <=> StartAt(w, at)
    BY <2>2
  <2> QED
    BY <2>1, <2>2, ShutdownCall
<1>4. TypeOK'
  BY <1>1, <1>3 DEF TypeOK
<1>5. OnlyTheLast'
  BY <1>1, <1>2, <1>3 DEF OnlyTheLast
<1>6. StartAlone'
  BY <1>1, <1>2, <1>3 DEF StartAlone
<1>7. LateIsLast'
  BY <1>1, <1>2 DEF LateIsLast
<1> QED
  BY <1>3, <1>4, <1>5, <1>6, <1>7

-----------------------------------------------------------------------------
LEMMA OnlyOne ==
  ASSUME NEW c \in Calls
  PROVE  <<c>> \o <<>> = <<c>>
<1>1. <<c>> \in Seq(Calls)
  OBVIOUS
<1> QED
  BY <1>1, ConcatEmptySeq

(* The stack of a main thread that has made one call.                      *)
LEMMA OneCall ==
  ASSUME NEW w \in Workers, NEW at \in {"entered", "cleared", "created"},
         stack' = <<Call("start", w, at)>>
  PROVE  /\ stack' \in Seq(Calls) /\ Outermost'
         /\ \A v, a : StartAt(v, a)' <=> v = w /\ a = at
<1>1. Call("start", w, at) \in Calls
  BY DEF Call, Calls
<1>2. stack' \in Seq(Calls) /\ Len(stack') = 1 /\ stack'[1] = Call("start", w, at) /\ stack' # <<>>
  BY <1>1
<1>3. \A v, a : Call("start", v, a) = Call("start", w, at) <=> v = w /\ a = at
  BY DEF Call
<1> QED
  BY <1>2, <1>3 DEF Outermost, StartAt

LEMMA NoCall ==
  ASSUME stack' = <<>>
  PROVE  stack' \in Seq(Calls) /\ Outermost' /\ \A v, a : ~StartAt(v, a)'
<1>1. stack' \in Seq(Calls) /\ Len(stack') = 0
  OBVIOUS
<1> QED
  BY <1>1 DEF Outermost, StartAt

LEMMA CallStartStep ==
  ASSUME IInv, ~died, NEW w \in Workers, CallStart(w)
  PROVE  IInv'
<1> USE DEF IInv
<1>1. /\ UNCHANGED <<stopEvent, threads, signals, late, died>> /\ stack = <<>>
      /\ stack' = <<Call("start", w, "entered")>>
      /\ w # Capture => threads[w] = <<>>
  BY DEF CallStart
<1>2. starts' \in 0 .. MaxStarts
  BY LifeCycleAssumption DEF CallStart, TypeOK
<1>3. /\ stack' \in Seq(Calls) /\ Outermost'
      /\ \A v, a : StartAt(v, a)' <=> v = w /\ a = "entered"
  BY <1>1, OneCall
<1>4. \A v, a : ~StartAt(v, a)
  BY <1>1 DEF StartAt
<1>5. \A v : Ids(v)' = Ids(v) /\ State(v)' = State(v)
  BY <1>1 DEF Ids, State
<1>6. TypeOK'
  BY <1>1, <1>2, <1>3 DEF TypeOK
<1>7. OnlyTheLast'
  BY <1>1, <1>4, <1>5 DEF OnlyTheLast
<1>8. StartAlone'
  BY <1>1, <1>3 DEF StartAlone
<1>9. LateIsLast'
  BY <1>1, <1>5 DEF LateIsLast
<1> QED
  BY <1>3, <1>6, <1>7, <1>8, <1>9

(* What holds of the worker whose start() is under way.                    *)
LEMMA StartFacts ==
  ASSUME IInv, NEW at, Is("start", at)
  PROVE  /\ Top.worker \in Workers /\ Top = Call("start", Top.worker, at)
         /\ StartAt(Top.worker, at) /\ Tail(stack) = <<>>
         /\ \A v, a : StartAt(v, a) => v = Top.worker /\ a = at
BY StartOnTop DEF IInv, Is

LEMMA StartReturnsStep ==
  ASSUME IInv, ~died, StartReturns
  PROVE  IInv'
<1> USE DEF IInv
<1>1. Is("start", "entered") /\ stack' = Tail(stack) /\ stopEvent' = stopEvent
      /\ UNCHANGED <<threads, starts, signals, late, died>>
  BY DEF StartReturns, Return, EventOnReturn, bounds
<1>2. stack' = <<>> /\ ~StartAt(Top.worker, "created") /\ \A v : ~StartAt(v, "created")
  BY <1>1, StartFacts
<1>3. stack' \in Seq(Calls) /\ Outermost' /\ \A v, a : ~StartAt(v, a)'
  BY <1>2, NoCall
<1>4. \A v : Ids(v)' = Ids(v) /\ State(v)' = State(v)
  BY <1>1 DEF Ids, State
<1>5. TypeOK'
  BY <1>1, <1>3 DEF TypeOK
<1>6. OnlyTheLast'
  BY <1>1, <1>2, <1>4 DEF OnlyTheLast
<1>7. StartAlone'
  BY <1>3 DEF StartAlone
<1>8. LateIsLast'
  BY <1>1, <1>4 DEF LateIsLast
<1> QED
  BY <1>3, <1>5, <1>6, <1>7, <1>8

LEMMA ClearEventStep ==
  ASSUME IInv, ~died, ClearEvent
  PROVE  IInv'
<1> USE DEF IInv
<1> DEFINE w == Top.worker
<1>1. /\ Is("start", "entered") /\ ~AlreadyRunning(w)
      /\ stopEvent' = [stopEvent EXCEPT ![w] = FALSE] /\ late' = [late EXCEPT ![w] = 0]
      /\ stack' = <<[Top EXCEPT !.at = "cleared"]>> \o Tail(stack)
      /\ UNCHANGED <<threads, starts, signals, died>>
  BY DEF ClearEvent, Goto, bounds
<1>2. /\ w \in Workers /\ Top = Call("start", w, "entered") /\ StartAt(w, "entered")
      /\ Tail(stack) = <<>> /\ \A v, a : StartAt(v, a) => v = w /\ a = "entered"
  BY <1>1, StartFacts
<1> HIDE DEF w
<1>3. stack' = <<Call("start", w, "cleared")>>
  <2>1. [Top EXCEPT !.at = "cleared"] = Call("start", w, "cleared")
    BY <1>2 DEF Call
  <2>2. Call("start", w, "cleared") \in Calls
    BY <1>2 DEF Call, Calls
  <2> QED
    BY <1>1, <1>2, <2>1, <2>2, OnlyOne
<1>4. /\ stack' \in Seq(Calls) /\ Outermost'
      /\ \A v, a : StartAt(v, a)' <=> v = w /\ a = "cleared"
  BY <1>2, <1>3, OneCall
<1>5. \A v : Ids(v)' = Ids(v) /\ State(v)' = State(v)
  BY <1>1 DEF Ids, State
<1>6. ASSUME NEW i \in Ids(w)
      PROVE  threads[w][i] = "ended"
  <2>1. threads[w][i] # "created"
    BY <1>2 DEF OnlyTheLast
  <2>2. threads[w][i] \notin Live
    <3>1. CASE w = Capture
      <4>1. State(w) \notin Live
        BY <3>1, <1>1 DEF AlreadyRunning
      <4> QED
        BY <4>1, <1>2, ThreadFacts DEF OnlyTheLast
    <3>2. CASE w # Capture
      <4>1. threads[w] = <<>>
        BY <3>2, <1>2 DEF StartAlone
      <4> QED
        BY <4>1, <1>2, ThreadFacts
    <3> QED
      BY <3>1, <3>2
  <2> QED
    BY <2>1, <2>2, <1>2, ThreadFacts DEF States
<1>7. TypeOK'
  BY <1>1, <1>4 DEF TypeOK
<1>8. OnlyTheLast'
  <2>1. \A v : ~StartAt(v, "created")
    BY <1>2
  <2> QED
    BY <1>1, <1>5, <2>1 DEF OnlyTheLast
<1>9. StartAlone'
  <2>1. late'[w] = 0
    BY <1>1, <1>2 DEF TypeOK
  <2> QED
    BY <1>1, <1>4, <1>5, <1>6, <2>1 DEF StartAlone
<1>10. LateIsLast'
  BY <1>1, <1>2, <1>5 DEF LateIsLast, TypeOK
<1> QED
  BY <1>4, <1>7, <1>8, <1>9, <1>10

LEMMA CreateThreadStep ==
  ASSUME IInv, ~died, CreateThread
  PROVE  IInv'
<1> USE DEF IInv
<1> SUFFICES ASSUME NEW w \in Workers, w = Top.worker
             PROVE  IInv'
  BY StartFacts DEF CreateThread
<1> DEFINE t == Append(threads[w], "created")
           n == Len(threads[w])
<1>1. /\ Is("start", "cleared") /\ threads' = [threads EXCEPT ![w] = t]
      /\ stack' = <<[Top EXCEPT !.at = "created"]>> \o Tail(stack)
      /\ UNCHANGED <<stopEvent, starts, signals, late, died>>
  BY DEF CreateThread, Goto, bounds
<1>2. /\ w \in Workers /\ Top = Call("start", w, "cleared") /\ StartAt(w, "cleared")
      /\ Tail(stack) = <<>> /\ \A v, a : StartAt(v, a) => v = w /\ a = "cleared"
  BY <1>1, StartFacts
<1>3. /\ threads[w] \in Seq(States) /\ n \in Nat /\ "created" \in States
      /\ threads \in [Workers -> Seq(States)]
  BY <1>2, ThreadFacts DEF States, TypeOK
<1>4. /\ t \in Seq(States) /\ Len(t) = n + 1 /\ t[n + 1] = "created"
      /\ \A i \in 1 .. n : t[i] = threads[w][i]
  BY <1>3, AppendProperties
<1>5. late[w] = 0 /\ \A i \in 1 .. n : threads[w][i] = "ended"
  BY <1>2 DEF StartAlone, Ids
<1> HIDE DEF t
<1>6. /\ threads' \in [Workers -> Seq(States)] /\ threads'[w] = t
      /\ \A v \in Workers \ {w} : threads'[v] = threads[v]
  BY <1>1, <1>2, <1>3, <1>4
<1>7. stack' = <<Call("start", w, "created")>>
  <2>1. [Top EXCEPT !.at = "created"] = Call("start", w, "created")
    BY <1>2 DEF Call
  <2>2. Call("start", w, "created") \in Calls
    BY <1>2 DEF Call, Calls
  <2> QED
    BY <1>1, <1>2, <2>1, <2>2, OnlyOne
<1>8. /\ stack' \in Seq(Calls) /\ Outermost'
      /\ \A v, a : StartAt(v, a)' <=> v = w /\ a = "created"
  BY <1>2, <1>7, OneCall
<1>9. \A v \in Workers \ {w} : Ids(v)' = Ids(v) /\ State(v)' = State(v)
  BY <1>6 DEF Ids, State
<1>10. Ids(w)' = 1 .. n + 1 /\ State(w)' = "created"
  <2>1. t # <<>>
    BY <1>3, <1>4, EmptySeq
  <2> QED
    BY <1>4, <1>6, <2>1 DEF Ids, State
<1>11. TypeOK'
  BY <1>1, <1>6, <1>8 DEF TypeOK, States
<1>12. OnlyTheLast'
  <2> SUFFICES ASSUME NEW v \in Workers, NEW j \in Ids(v)'
               PROVE  /\ threads'[v][j] \in Live => j = Len(threads'[v])
                      /\ threads'[v][j] = "created" =>
                           j = Len(threads'[v]) /\ (died' \/ StartAt(v, "created")')
    BY DEF OnlyTheLast
  <2>1. CASE v # w
    <3>1. \A a : StartAt(v, "created") = FALSE
      BY <1>2, <2>1
    <3> QED
      BY <2>1, <3>1, <1>1, <1>6, <1>9 DEF OnlyTheLast
  <2>2. CASE v = w
    <3>1. CASE j = n + 1
      BY <2>2, <3>1, <1>4, <1>6, <1>8
    <3>2. CASE j # n + 1
      <4>1. j \in 1 .. n
        BY <2>2, <3>2, <1>3, <1>10
      <4>2. threads'[v][j] = "ended"
        BY <2>2, <4>1, <1>4, <1>5, <1>6
      <4> QED
        BY <4>2 DEF Live
    <3> QED
      BY <3>1, <3>2
  <2> QED
    BY <2>1, <2>2
<1>13. StartAlone'
  BY <1>1, <1>5, <1>8, <1>10 DEF StartAlone
<1>14. LateIsLast'
  <2> SUFFICES ASSUME NEW v \in Workers, late'[v] # 0
               PROVE  late'[v] = 1 /\ stopEvent'[v] /\ State(v)' \in {"busy", "ended"}
    BY DEF LateIsLast
  <2>1. v # w
    BY <1>1, <1>5
  <2> QED
    BY <2>1, <1>1, <1>9 DEF LateIsLast
<1> QED
  BY <1>8, <1>11, <1>12, <1>13, <1>14

LEMMA StartThreadStep ==
  ASSUME IInv, ~died, StartThread
  PROVE  IInv'
<1> USE DEF IInv
<1> SUFFICES ASSUME NEW w \in Workers, w = Top.worker
             PROVE  IInv'
  BY StartFacts DEF StartThread
<1> DEFINE n == Len(threads[w])
           t == [threads[w] EXCEPT ![n] = "new"]
<1>1. /\ Is("start", "created") /\ threads' = [threads EXCEPT ![w] = t]
      /\ stack' = Tail(stack)
      /\ UNCHANGED <<stopEvent, starts, signals, late, died>>
  BY DEF StartThread, Return, bounds
<1>2. /\ w \in Workers /\ StartAt(w, "created")
      /\ Tail(stack) = <<>> /\ \A v, a : StartAt(v, a) => v = w /\ a = "created"
  BY <1>1, StartFacts
<1>3. /\ threads[w] \in Seq(States) /\ n \in Nat /\ "new" \in States
      /\ threads \in [Workers -> Seq(States)]
  BY <1>2, ThreadFacts DEF States, Live, TypeOK
<1>4. late[w] = 0 /\ State(w) = "created"
  BY <1>2 DEF StartAlone
<1>5. n \in 1 .. n
  <2>1. threads[w] # <<>>
    BY <1>4 DEF State
  <2> QED
    BY <1>3, <2>1, EmptySeq
<1>6. /\ t \in Seq(States) /\ Len(t) = n
      /\ \A j \in 1 .. n : t[j] = IF j = n THEN "new" ELSE threads[w][j]
  BY <1>3, <1>5, ExceptSeq
<1>7. \A j \in 1 .. n : threads[w][j] \in Live \cup {"created"} => j = n
  BY <1>2 DEF OnlyTheLast, Ids
<1> HIDE DEF t
<1>8. /\ threads' \in [Workers -> Seq(States)] /\ threads'[w] = t
      /\ \A v \in Workers \ {w} : threads'[v] = threads[v]
  BY <1>1, <1>2, <1>3, <1>6
<1>9. stack' \in Seq(Calls) /\ Outermost' /\ \A v, a : ~StartAt(v, a)'
  BY <1>1, <1>2, NoCall
<1>10. \A v \in Workers \ {w} : Ids(v)' = Ids(v) /\ State(v)' = State(v)
  BY <1>8 DEF Ids, State
<1>11. Ids(w)' = 1 .. n
  BY <1>6, <1>8 DEF Ids
<1>12. TypeOK'
  BY <1>1, <1>8, <1>9 DEF TypeOK, States
<1>13. OnlyTheLast'
  <2> SUFFICES ASSUME NEW v \in Workers, NEW j \in Ids(v)'
               PROVE  /\ threads'[v][j] \in Live => j = Len(threads'[v])
                      /\ threads'[v][j] = "created" =>
                           j = Len(threads'[v]) /\ (died' \/ StartAt(v, "created")')
    BY DEF OnlyTheLast
  <2>1. CASE v # w
    <3>1. ~StartAt(v, "created")
      BY <1>2, <2>1
    <3> QED
      BY <2>1, <3>1, <1>1, <1>8, <1>10 DEF OnlyTheLast
  <2>2. CASE v = w
    <3>1. j \in 1 .. n
      BY <2>2, <1>11
    <3>2. CASE j = n
      BY <2>2, <3>1, <3>2, <1>6, <1>8
    <3>3. CASE j # n
      BY <2>2, <3>1, <3>3, <1>6, <1>7, <1>8
    <3> QED
      BY <3>2, <3>3
  <2> QED
    BY <2>1, <2>2
<1>14. StartAlone'
  BY <1>9 DEF StartAlone
<1>15. LateIsLast'
  <2> SUFFICES ASSUME NEW v \in Workers, late'[v] # 0
               PROVE  late'[v] = 1 /\ stopEvent'[v] /\ State(v)' \in {"busy", "ended"}
    BY DEF LateIsLast
  <2>1. v # w
    BY <1>1, <1>4
  <2> QED
    BY <2>1, <1>1, <1>10 DEF LateIsLast
<1> QED
  BY <1>9, <1>12, <1>13, <1>14, <1>15

-----------------------------------------------------------------------------
LEMMA Initially == Init => IInv
<1> SUFFICES ASSUME Init
             PROVE  IInv
  OBVIOUS
<1>1. /\ stack = <<>> /\ Len(stack) = 0 /\ stack \in Seq(Calls)
      /\ \A w, at : ~StartAt(w, at)
  BY DEF Init, StartAt
<1>2. \A w \in Workers : threads[w] = <<>> /\ Ids(w) = {} /\ late[w] = 0
  BY DEF Init, Ids
<1>3. TypeOK
  <2>1. threads \in [Workers -> Seq(Live \cup {"created", "ended"})]
    <3>1. <<>> \in Seq(Live \cup {"created", "ended"})
      OBVIOUS
    <3> QED
      BY <3>1 DEF Init
  <2>2. /\ stopEvent \in [Workers -> BOOLEAN] /\ late \in [Workers -> Nat]
    BY DEF Init
  <2>3. starts \in 0 .. MaxStarts /\ signals \in 0 .. MaxSignals
    BY LifeCycleAssumption DEF Init
  <2>4. died \in BOOLEAN
    BY DEF Init
  <2> QED
    BY <1>1, <2>1, <2>2, <2>3, <2>4 DEF TypeOK
<1> QED
  BY <1>1, <1>2, <1>3 DEF IInv, Outermost, OnlyTheLast, StartAlone, LateIsLast

LEMMA Inductive == IInv /\ [Next]_vars => IInv'
<1> SUFFICES ASSUME IInv, [Next]_vars
             PROVE  IInv'
  OBVIOUS
<1>1. CASE UNCHANGED vars
  BY <1>1 DEF vars, bounds, IInv, TypeOK, Outermost, OnlyTheLast, StartAlone, LateIsLast,
              StartAt, Ids, State
<1>2. CASE Next
  <2>1. ~died
    BY <1>2 DEF Next
  <2>2. ASSUME NEW w \in Workers, CallStart(w)
        PROVE  IInv'
    BY <2>1, <2>2, CallStartStep
  <2>3. CASE Start
    BY <2>1, <2>3, StartReturnsStep, ClearEventStep, CreateThreadStep, StartThreadStep DEF Start
  <2>4. CASE Signal \/ Shutdown
    BY <2>4, ShutdownSteps
  <2>5. ASSUME NEW w \in Workers, NEW i \in Ids(w), Run(w, i) \/ Take(w, i) \/ Raise(w, i)
        PROVE  IInv'
    BY <2>5, ThreadSteps
  <2> QED
    BY <1>2, <2>2, <2>3, <2>4, <2>5 DEF Next
<1> QED
  BY <1>1, <1>2

LEMMA Invariance == Spec => []IInv
<1>1. Init => IInv
  BY Initially
<1>2. IInv /\ [Next]_vars => IInv'
  BY Inductive
<1> QED
  BY <1>1, <1>2, PTL DEF Spec

(* The stack of calls, the events and the threads keep their types.        *)
THEOREM Typing == Spec => []TypeOK
<1>1. IInv => TypeOK
  BY DEF IInv
<1> QED
  BY <1>1, Invariance, PTL

(* engine.py, line 24: "if not already running".  Whenever the capture is  *)
(* started and stopped, by any SIGINTs in the midst of any start(), no     *)
(* worker ever has two threads.                                            *)
THEOREM OneThreadAtATime == Spec => []OneThread
<1>1. IInv => OneThread
  BY DEF IInv, OnlyTheLast, OneThread
<1> QED
  BY <1>1, Invariance, PTL

(* The loops look at the event after every packet (stop_filter; while not  *)
(* self._stop_event.is_set()): once told to stop, a worker takes up at     *)
(* most one more.                                                          *)
THEOREM AtMostOneLatePacket == Spec => []OneLatePacket
<1>1. IInv => OneLatePacket
  <2> SUFFICES ASSUME IInv, NEW w \in Workers
               PROVE  late[w] <= 1
    BY DEF OneLatePacket
  <2>1. late[w] \in Nat /\ (late[w] # 0 => late[w] = 1)
    BY DEF IInv, TypeOK, LateIsLast
  <2> QED
    BY <2>1
<1> QED
  BY <1>1, Invariance, PTL
=============================================================================
