----------------------------- MODULE LifeCycle ------------------------------
(***************************************************************************)
(* The background threads: PacketCapture.start(), stop() and its sniffing  *)
(* thread, start(), stop() and _run() of the detectors, and _shutdown() of *)
(* main.py, which SIGINT runs on the main thread between any two steps,    *)
(* also of a start() or of another _shutdown().                            *)
(*                                                                         *)
(* The main thread is a stack of calls.  main() starts every worker once;  *)
(* here the capture may be started again, which its start() provides for.  *)
(***************************************************************************)
EXTENDS Integers, Sequences

CONSTANTS
  Capture,               \* the PacketCapture
  Detectors,             \* the detectors, in the order they are stopped
  MaxStarts,             \* bound: calls of PacketCapture.start()
  MaxSignals             \* bound: SIGINTs

ASSUME LifeCycleAssumption ==
  /\ MaxStarts \in Nat /\ MaxSignals \in Nat
  /\ Detectors \in Seq({Detectors[i] : i \in 1 .. Len(Detectors)})
  /\ \A i, j \in 1 .. Len(Detectors) : Detectors[i] # Capture /\ (Detectors[i] = Detectors[j] => i = j)

Order == <<Capture>> \o Detectors

Workers == {Order[i] : i \in 1 .. Len(Order)}

VARIABLES
  stack,                 \* the calls of the main thread, the innermost first
  stopEvent,             \* per worker: is _stop_event set?
  threads,               \* per worker: what became of its threads; the last is _thread
  starts,                \* the calls of PacketCapture.start()
  signals,               \* the SIGINTs
  late,                  \* per worker: packets it took up after it was told to stop
  died                   \* did an exception end the main thread?

bounds == <<starts, signals>>
vars == <<stack, stopEvent, threads, bounds, late, died>>

Init ==
  /\ stack = <<>>
  /\ stopEvent = [w \in Workers |-> FALSE]
  /\ threads = [w \in Workers |-> <<>>]
  /\ starts = 0 /\ signals = 0
  /\ late = [w \in Workers |-> 0]
  /\ died = FALSE

(* A call: start() of a worker, or _shutdown() at that worker's turn.      *)
Calls == [call : {"start"}, worker : Workers, at : {"entered", "cleared", "created"}]
           \cup [call : {"shutdown"}, worker : Workers, at : {"entered", "joining"}]

Call(name, w, at) == [call |-> name, worker |-> w, at |-> at]

Top == Head(stack)

Is(name, at) == stack # <<>> /\ Top.call = name /\ Top.at = at

Goto(at) == stack' = <<[Top EXCEPT !.at = at]>> \o Tail(stack)

Return == stack' = Tail(stack)

State(w) == IF threads[w] = <<>> THEN "none" ELSE threads[w][Len(threads[w])]

Live == {"new", "idle", "busy"}
-----------------------------------------------------------------------------
(* main() calls start(): of a detector once.                               *)
CallStart(w) ==
  /\ stack = <<>>
  /\ IF w = Capture
     THEN starts < MaxStarts /\ starts' = starts + 1
     ELSE threads[w] = <<>> /\ UNCHANGED starts
  /\ stack' = <<Call("start", w, "entered")>>
  /\ UNCHANGED <<stopEvent, threads, signals, late, died>>

(* Mutant: it is not looked whether a thread runs.                         *)
AlreadyRunningUnasked(w) == FALSE

(* if self._thread and self._thread.is_alive(): the detectors do not ask.  *)
AlreadyRunning(w) == w = Capture /\ State(w) \in Live

(* Mutant: the event is cleared before that.                               *)
EventOnReturnCleared(w) == [stopEvent EXCEPT ![w] = FALSE]

EventOnReturn(w) == stopEvent

StartReturns ==
  /\ Is("start", "entered") /\ AlreadyRunning(Top.worker)
  /\ stopEvent' = EventOnReturn(Top.worker)
  /\ Return
  /\ UNCHANGED <<threads, bounds, late, died>>

ClearEvent ==
  /\ Is("start", "entered") /\ ~AlreadyRunning(Top.worker)
  /\ stopEvent' = [stopEvent EXCEPT ![Top.worker] = FALSE]
  /\ late' = [late EXCEPT ![Top.worker] = 0]
  /\ Goto("cleared")
  /\ UNCHANGED <<threads, bounds, died>>

(* self._thread = threading.Thread(...)                                    *)
CreateThread ==
  /\ Is("start", "cleared")
  /\ threads' = [threads EXCEPT ![Top.worker] = Append(@, "created")]
  /\ Goto("created")
  /\ UNCHANGED <<stopEvent, bounds, late, died>>

StartThread ==
  /\ Is("start", "created")
  /\ threads' = [threads EXCEPT ![Top.worker][Len(threads[Top.worker])] = "new"]
  /\ Return
  /\ UNCHANGED <<stopEvent, bounds, late, died>>

Start == StartReturns \/ ClearEvent \/ CreateThread \/ StartThread
-----------------------------------------------------------------------------
(* SIGINT: _shutdown() begins on top of whatever the main thread does.     *)
Signal ==
  /\ signals < MaxSignals
  /\ signals' = signals + 1
  /\ stack' = <<Call("shutdown", Capture, "entered")>> \o stack
  /\ UNCHANGED <<stopEvent, threads, starts, late, died>>

(* The next worker's stop(), or app.exit() and return after the last.      *)
StopNext ==
  LET i == CHOOSE i \in 1 .. Len(Order) : Order[i] = Top.worker
  IN  IF i = Len(Order)
      THEN Return
      ELSE stack' = <<Call("shutdown", Order[i + 1], "entered")>> \o Tail(stack)

(* stop(): the event is set; there is a thread to wait for, or there is    *)
(* none yet; to join one that is created but not started raises.           *)
SetEvent ==
  /\ Is("shutdown", "entered")
  /\ stopEvent' = [stopEvent EXCEPT ![Top.worker] = TRUE]
  /\ CASE State(Top.worker) = "none"    -> StopNext /\ UNCHANGED died
       [] State(Top.worker) = "created" -> died' = TRUE /\ stack' = <<>>
       [] OTHER                         -> Goto("joining") /\ UNCHANGED died
  /\ UNCHANGED <<threads, bounds, late>>

(* Mutant: join() without a timeout.                                       *)
JoinEndsUntimed(w) == State(w) = "ended"

(* join(timeout=3) comes back when the thread has ended, or anyway.        *)
JoinEnds(w) == TRUE

Joined ==
  /\ Is("shutdown", "joining") /\ JoinEnds(Top.worker)
  /\ StopNext
  /\ UNCHANGED <<stopEvent, threads, bounds, late, died>>

Shutdown == SetEvent \/ Joined
-----------------------------------------------------------------------------
(* One step of the i-th thread of a worker.                                *)
Becomes(w, i, state) ==
  /\ threads' = [threads EXCEPT ![w][i] = state]
  /\ UNCHANGED <<stack, stopEvent, bounds, died>>

(* A detector looks at its event before it waits for a packet, sniff()     *)
(* does not; it may fail to open the interface.                            *)
Enter(w, i) ==
  /\ threads[w][i] = "new"
  /\ IF w = Capture
     THEN \E state \in {"idle", "ended"} : Becomes(w, i, state)
     ELSE Becomes(w, i, IF stopEvent[w] THEN "ended" ELSE "idle")
  /\ UNCHANGED late

(* A packet for the sniffing thread or, out of its queue, for a detector.  *)
Take(w, i) ==
  /\ threads[w][i] = "idle"
  /\ Becomes(w, i, "busy")
  /\ late' = [late EXCEPT ![w] = IF stopEvent[w] THEN @ + 1 ELSE @]

(* Mutant: nobody looks at the event again.                                *)
AfterPacketNever(w) == "idle"

(* stop_filter, and the condition of the detectors' loops.                 *)
AfterPacket(w) == IF stopEvent[w] THEN "ended" ELSE "idle"

(* _handle_packet() or _process() is done ...                              *)
Done(w, i) ==
  /\ threads[w][i] = "busy"
  /\ Becomes(w, i, AfterPacket(w))
  /\ UNCHANGED late

(* ... or raises: that is the end of the thread, which nobody notices.     *)
Raise(w, i) ==
  /\ threads[w][i] = "busy"
  /\ Becomes(w, i, "ended")
  /\ UNCHANGED late

(* get(timeout=1) of a detector; sniff() has no timeout.                   *)
TimeOut(w, i) ==
  /\ w # Capture /\ stopEvent[w]
  /\ threads[w][i] = "idle"
  /\ Becomes(w, i, "ended")
  /\ UNCHANGED late

Run(w, i) == Enter(w, i) \/ Done(w, i) \/ TimeOut(w, i)

Ids(w) == 1 .. Len(threads[w])

Next ==
  /\ ~died
  /\ \/ \E w \in Workers : CallStart(w)
     \/ Start \/ Signal \/ Shutdown
     \/ \E w \in Workers : \E i \in Ids(w) : Run(w, i) \/ Take(w, i) \/ Raise(w, i)

Spec == Init /\ [][Next]_vars

RunOnce(w, i) == ~died /\ i \in Ids(w) /\ Run(w, i)

(* Every thread runs.  Nobody need send a packet or a signal.              *)
FairSpec ==
  /\ Spec
  /\ WF_vars(~died /\ (Start \/ Shutdown))
  /\ \A w \in Workers, i \in 1 .. MaxStarts : WF_vars(RunOnce(w, i))
-----------------------------------------------------------------------------
TypeOK ==
  /\ stopEvent \in [Workers -> BOOLEAN] /\ late \in [Workers -> Nat]
  /\ threads \in [Workers -> Seq(Live \cup {"created", "ended"})]
  /\ starts \in 0 .. MaxStarts /\ signals \in 0 .. MaxSignals
  /\ stack \in Seq(Calls)
  /\ died \in BOOLEAN

(* Inductive, for OneThread and OneLatePacket.  Only the outermost call can *)
(* be a start(), ...                                                       *)
Outermost == \A k \in 1 .. Len(stack) - 1 : stack[k].call = "shutdown"

StartAt(w, at) == stack # <<>> /\ stack[Len(stack)] = Call("start", w, at)

(* ... only the last thread of a worker can be alive, or created and not   *)
(* started, ...                                                            *)
OnlyTheLast ==
  \A w \in Workers : \A i \in Ids(w) :
    /\ threads[w][i] \in Live => i = Len(threads[w])
    /\ threads[w][i] = "created" => i = Len(threads[w]) /\ (died \/ StartAt(w, "created"))

(* ... none is when start() has got as far as to clear the event, ...      *)
StartAlone ==
  \A w \in Workers :
    /\ StartAt(w, "entered") /\ w # Capture => threads[w] = <<>>
    /\ StartAt(w, "cleared") => late[w] = 0 /\ \A i \in Ids(w) : threads[w][i] = "ended"
    /\ StartAt(w, "created") => late[w] = 0 /\ State(w) = "created"

(* ... and a thread that took a packet after the stop takes no other one.  *)
LateIsLast ==
  \A w \in Workers :
    late[w] # 0 => late[w] = 1 /\ stopEvent[w] /\ State(w) \in {"busy", "ended"}

IInv == TypeOK /\ Outermost /\ OnlyTheLast /\ StartAlone /\ LateIsLast

(* engine.py, line 24: "if not already running".  Whenever start() and     *)
(* _shutdown() come, the capture has one thread at a time, and so has      *)
(* every detector.                                                         *)
OneThread ==
  \A w \in Workers : \A i, j \in Ids(w) :
    threads[w][i] \in Live /\ threads[w][j] \in Live => i = j

(* Once told to stop, a worker takes up at most one more packet.           *)
OneLatePacket == \A w \in Workers : late[w] <= 1

(* engine.py, line 37: stop() "waits for clean shutdown", but not forever: *)
(* whatever a _shutdown() interrupts, and though no packet may ever come,  *)
(* the main thread gets out of every call.                                 *)
CallsReturn == stack # <<>> ~> stack = <<>>

(* engine.py, line 37: stop() "signals the capture loop to terminate".     *)
(* A thread told to stop ends, whatever start() is called meanwhile; the   *)
(* capture provided that packets come.                                     *)
Alive(w, i) == i \in Ids(w) /\ threads[w][i] \in Live

Ended(w, i) == i \in Ids(w) /\ threads[w][i] = "ended"

Waiting(w, i) == i \in Ids(w) /\ threads[w][i] = "idle"

StopIsFinal ==
  \A w \in Workers, i \in 1 .. MaxStarts :
    (w = Capture => []<>~Waiting(w, i))
      => ((Alive(w, i) /\ stopEvent[w])
            ~> (died \/ Ended(w, i)))
=============================================================================
