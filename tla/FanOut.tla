------------------------------- MODULE FanOut -------------------------------
(***************************************************************************)
(* core/capture/queue.py: PacketQueue copies every packet of the capture   *)
(* thread to the queue of each consumer (the terminal UI and the five      *)
(* detectors).  put() takes a snapshot of the subscribers under the lock   *)
(* and then serves them one by one without it, while the consumers take    *)
(* packets and further consumers subscribe.  Packets are numbered in the   *)
(* order in which they are put.                                            *)
(***************************************************************************)
EXTENDS Integers, Sequences

CONSTANTS
  Consumers,             \* who may subscribe
  Alive,                 \* the consumers whose thread keeps taking packets
  MaxSize,               \* maxsize of a consumer's queue
  MaxPackets             \* bound: packets put

ASSUME FanOutAssumption ==
  /\ Alive \subseteq Consumers
  /\ MaxSize \in Nat \ {0} /\ MaxPackets \in Nat

VARIABLES
  subscribers,           \* _subscribers, in order of subscription
  queue,                 \* the consumers' queues
  produced,              \* the number of the packet last put
  pending,               \* put(): who of the snapshot is still to be served
  got,                   \* what each consumer has taken, in order
  lost,                  \* the packets dropped per consumer
  since                  \* the last packet before the consumer subscribed

vars == <<subscribers, queue, produced, pending, got, lost, since>>

Subscribed == {subscribers[i] : i \in 1 .. Len(subscribers)}

Init ==
  /\ subscribers = <<>>
  /\ queue = [c \in Consumers |-> <<>>]
  /\ produced = 0
  /\ pending = <<>>
  /\ got = [c \in Consumers |-> <<>>]
  /\ lost = [c \in Consumers |-> {}]
  /\ since = [c \in Consumers |-> 0]

(* subscribe(): possible at any time, also while a put() is under way,     *)
(* which then does not know of the new consumer.                           *)
Subscribe(c) ==
  /\ c \notin Subscribed
  /\ subscribers' = Append(subscribers, c)
  /\ since' = [since EXCEPT ![c] = produced]
  /\ UNCHANGED <<queue, produced, pending, got, lost>>

(* put(), the part under the lock.                                         *)
PutBegin ==
  /\ pending = <<>>
  /\ produced < MaxPackets
  /\ produced' = produced + 1
  /\ pending' = subscribers
  /\ UNCHANGED <<subscribers, queue, got, lost, since>>

(* Mutant: the queue takes one packet too many.                            *)
HasRoomPlusOne(q) == Len(q) <= MaxSize

(* Mutant: the last place of the queue is never used.                      *)
HasRoomMinusOne(q) == Len(q) < MaxSize - 1

HasRoom(q) == Len(q) < MaxSize

(* Mutant: put() instead of put_nowait().                                  *)
WaitForRoom(q) == Len(q) < MaxSize

NoWait(q) == TRUE

(* Mutant: a full queue makes room by forgetting its oldest packet.        *)
OfferedEvicting(q, p) == IF HasRoom(q) THEN Append(q, p) ELSE Append(Tail(q), p)

(* put_nowait(); on queue.Full the packet is dropped for this consumer.    *)
Offered(q, p) == IF HasRoom(q) THEN Append(q, p) ELSE q

PutNext ==
  /\ pending # <<>>
  /\ LET c == Head(pending)
     IN  /\ NoWait(queue[c])
         /\ queue' = [queue EXCEPT ![c] = Offered(@, produced)]
         /\ lost' = [lost EXCEPT ![c] = IF HasRoom(queue[c]) THEN @ ELSE @ \cup {produced}]
  /\ pending' = Tail(pending)
  /\ UNCHANGED <<subscribers, produced, got, since>>

(* get() or get_nowait() in the consumer's thread.                         *)
Get(c) ==
  /\ queue[c] # <<>>
  /\ got' = [got EXCEPT ![c] = Append(@, Head(queue[c]))]
  /\ queue' = [queue EXCEPT ![c] = Tail(@)]
  /\ UNCHANGED <<subscribers, produced, pending, lost, since>>

Put == PutBegin \/ PutNext

Next == Put \/ \E c \in Consumers : Subscribe(c) \/ Get(c)

Spec == Init /\ [][Next]_vars

(* The capture thread goes on, and so do the consumers in Alive; the other *)
(* consumers may be stuck for good, and so may whoever would subscribe.    *)
FairSpec == Spec /\ WF_vars(Put) /\ \A c \in Alive : WF_vars(Get(c))
-----------------------------------------------------------------------------
Numbers == 1 .. MaxPackets

(* No queue outgrows its maximum.                                          *)
TypeOK ==
  /\ subscribers \in Seq(Consumers) /\ pending \in Seq(Consumers)
  /\ produced \in 0 .. MaxPackets
  /\ queue \in [Consumers -> Seq(Numbers)] /\ got \in [Consumers -> Seq(Numbers)]
  /\ lost \in [Consumers -> SUBSET Numbers]
  /\ since \in [Consumers -> 0 .. MaxPackets]
  /\ \A c \in Consumers : Len(queue[c]) <= MaxSize

(* What a consumer took and will take, in order.                           *)
Stream(c) == got[c] \o queue[c]

(* Since its subscription a consumer has every packet exactly once, in     *)
(* order, or it was dropped for that consumer, or it is about to be        *)
(* offered; whatever the other consumers, slow or new, do meanwhile.       *)
Accounted ==
  \A c \in Consumers :
    LET s     == Stream(c)
        taken == {s[i] : i \in 1 .. Len(s)}
        still == IF \E i \in 1 .. Len(pending) : pending[i] = c THEN {produced} ELSE {}
    IN  /\ \A i, j \in 1 .. Len(s) : i < j => s[i] < s[j]
        /\ taken \cap lost[c] = {}
        /\ taken \cup lost[c] =
             IF c \in Subscribed THEN (since[c] + 1 .. produced) \ still ELSE {}

(* A consumer that is not behind loses nothing: before the first packet    *)
(* dropped for it, its own queue was given at least MaxSize packets.       *)
LossIsOwnBacklog ==
  \A c \in Consumers : \A p \in lost[c] :
    \E i \in 1 .. Len(Stream(c)) : i >= MaxSize /\ Stream(c)[i] < p

(* Inductive, for these three: nobody subscribes twice, and put() still    *)
(* owes its packet to subscribers of before it, to each once.              *)
SubscribedOnce ==
  \A i, j \in 1 .. Len(subscribers) : subscribers[i] = subscribers[j] => i = j

PendingOnce ==
  /\ \A i, j \in 1 .. Len(pending) : pending[i] = pending[j] => i = j
  /\ \A i \in 1 .. Len(pending) : pending[i] \in Subscribed /\ since[pending[i]] < produced
  /\ \A c \in Consumers : since[c] <= produced

IInv == TypeOK /\ SubscribedOnce /\ PendingOnce /\ Accounted /\ LossIsOwnBacklog

(* README.md, "If a detector is slow, it drops packets from its own queue  *)
(* - the other detectors are unaffected": every packet put reaches every   *)
(* living consumer that had subscribed, or was dropped at its own queue,   *)
(* even when every other consumer is stuck.                                *)
OthersUnaffected ==
  \A c \in Alive, p \in Numbers :
    (c \in Subscribed /\ since[c] < p /\ produced >= p)
      ~> (p \in lost[c] \/ \E i \in 1 .. Len(got[c]) : got[c][i] = p)
=============================================================================
