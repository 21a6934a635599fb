----------------------------- MODULE Dashboard ------------------------------
(***************************************************************************)
(* ui/web/server.py and static/dashboard.js: one task polls the alerts     *)
(* table and broadcasts what is new, one handler per WebSocket replays the *)
(* history and then waits for the socket to close.  All of them share one  *)
(* event loop and interleave at every await: each await is a step.  The    *)
(* alerts themselves are written by another process (main.py).             *)
(*                                                                         *)
(* A page keeps its list while it loses its socket, or the server dies and *)
(* comes back, and connects again with a new socket.                       *)
(*                                                                         *)
(* The row with id i is rows[i]; all that matters of it is its timestamp.  *)
(***************************************************************************)
EXTENDS Integers, Sequences, FiniteSets

CONSTANTS
  Pages,                 \* the browser tabs
  Sockets,               \* WebSockets; one that both ends are done with is used again
  Stamps,                \* the timestamps alerts can have
  Cutoff,                \* alerts_since(): now - seconds
  InOrder,               \* are alerts saved in the order of their timestamps?
  PollFails,             \* may a query of the broadcaster raise?
  MaxRows,               \* bound: rows of the alerts table
  MaxFaults              \* bound: connections lost, crashes of the server, and
                         \* history queries that raise

ASSUME DashboardAssumption ==
  /\ Stamps \subseteq Int /\ Cutoff \in Int
  /\ Sockets \cap {"unloaded", "offline", "gone"} = {}
  /\ InOrder \in BOOLEAN /\ PollFails \in BOOLEAN
  /\ MaxRows \in Nat /\ MaxFaults \in Nat

VARIABLES
  rows,                  \* the alerts table: timestamps in order of id
  boot,                  \* the last row that was there when the server started
  lastId,                \* last_id
  task,                  \* the broadcaster: running or dead; down: no server
  batch,                 \* ... the records it has still to look at
  record,                \* ... the record in hand, 0 if none
  audience,              \* ... the connections the record in hand still goes to
  connections,           \* ConnectionManager._connections
  handler,               \* per socket: where alert_stream() stands
  replay,                \* ... the history it has still to send
  socket,                \* per page: its socket, or unloaded, offline or gone
  list,                  \* ... the alerts it has rendered
  pushed,                \* the ids broadcast since the start, in order
  faults                 \* the faults of these kinds so far

broadcaster == <<lastId, task, batch, record, audience, pushed>>
handlers == <<handler, replay>>
server == <<boot, broadcaster, connections, handlers>>
browser == <<socket, list>>
vars == <<rows, server, browser, faults>>

(* The rows after the cutoff, as reversed(alerts_since()) has them: by     *)
(* timestamp, and by id where the index has two entries of one timestamp.  *)
Before(i, j) == rows[i] < rows[j] \/ (rows[i] = rows[j] /\ i < j)

Recent == {i \in 1 .. Len(rows) : rows[i] >= Cutoff}

OldestFirst ==
  CHOOSE ids \in [1 .. Cardinality(Recent) -> Recent] :
    \A i, j \in DOMAIN ids : i < j => Before(ids[i], ids[j])

(* Mutant: the default of an empty table is not below every id.            *)
GreatestOrOne(S) == IF S = {} THEN 1 ELSE CHOOSE i \in S : \A j \in S : j <= i

(* max((record.id for record in seed), default=0)                          *)
Greatest(S) == IF S = {} THEN 0 ELSE CHOOSE i \in S : \A j \in S : j <= i

(* The server starts on a table of any length.                             *)
Init ==
  /\ rows \in UNION {[1 .. n -> Stamps] : n \in 0 .. MaxRows}
  /\ InOrder => \A i, j \in 1 .. Len(rows) : i < j => rows[i] <= rows[j]
  /\ boot = Len(rows)
  /\ lastId = Greatest(Recent)
  /\ task = "running" /\ batch = <<>> /\ record = 0 /\ audience = {}
  /\ connections = {}
  /\ handler = [t \in Sockets |-> "none"]
  /\ replay = [t \in Sockets |-> <<>>]
  /\ socket = [p \in Pages |-> "unloaded"]
  /\ list = [p \in Pages |-> {}]
  /\ pushed = <<>>
  /\ faults = 0

(* save_alert() in the other process.                                      *)
Save(stamp) ==
  /\ Len(rows) < MaxRows
  /\ InOrder => \A i \in 1 .. Len(rows) : rows[i] <= stamp
  /\ rows' = Append(rows, stamp)
  /\ UNCHANGED <<server, browser, faults>>
-----------------------------------------------------------------------------
(* The broadcaster sleeps while it has nothing in hand; it wakes up and    *)
(* queries ...                                                             *)
Asleep == task = "running" /\ batch = <<>> /\ record = 0

Poll ==
  /\ Asleep
  /\ batch' = OldestFirst
  /\ UNCHANGED <<boot, lastId, task, record, audience, pushed, connections, handlers>>
  /\ UNCHANGED <<rows, browser, faults>>

(* ... or the query raises (the table is locked): nothing catches it.      *)
PollRaises ==
  /\ PollFails /\ Asleep
  /\ task' = "dead"
  /\ UNCHANGED <<boot, lastId, batch, record, audience, pushed, connections, handlers>>
  /\ UNCHANGED <<rows, browser, faults>>

(* Mutant: a row is new if it is not the last one pushed.                  *)
IsNewUnequal(id) == id # lastId

(* if record.id > last_id                                                  *)
IsNew(id) == id > lastId

(* Mutant: sockets still being served their history are left out.          *)
AudienceParked == {t \in connections : handler[t] = "parked"}

(* for websocket in list(self._connections)                                *)
Audience == connections

(* The next record of the loop: one that is not new is skipped, a new one  *)
(* is taken in hand with a copy of the connections, or is done with at     *)
(* once if there are none.                                                 *)
Examine ==
  /\ batch # <<>> /\ record = 0
  /\ batch' = Tail(batch)
  /\ LET id == Head(batch)
     IN  IF IsNew(id)
         THEN /\ pushed' = Append(pushed, id)
              /\ audience' = Audience
              /\ IF Audience = {}
                 THEN lastId' = id /\ UNCHANGED record
                 ELSE record' = id /\ UNCHANGED lastId
         ELSE UNCHANGED <<lastId, record, audience, pushed>>
  /\ UNCHANGED <<boot, task, connections, handlers, rows, browser, faults>>

(* onmessage and renderAlert(): what arrives on an open socket is rendered *)
(* by its page; neither order nor repetitions are followed here.           *)
Deliver(t, id) ==
  list' = [p \in Pages |-> IF socket[p] = t THEN list[p] \cup {id} ELSE list[p]]

(* Is the browser's end open?                                              *)
Open(t) == \E p \in Pages : socket[p] = t

(* One send of broadcast(); if the browser's end is gone it raises, or the *)
(* loss is not known yet and the message goes nowhere.  After the last     *)
(* one, last_id moves on.                                                  *)
Push(t) ==
  /\ t \in audience
  /\ audience' = audience \ {t}
  /\ IF Open(t)
     THEN Deliver(t, record) /\ UNCHANGED connections
     ELSE connections' \in {connections, connections \ {t}} /\ UNCHANGED list
  /\ IF audience = {t}
     THEN lastId' = record /\ record' = 0
     ELSE UNCHANGED <<lastId, record>>
  /\ UNCHANGED <<boot, task, batch, pushed, handlers, rows, socket, faults>>
-----------------------------------------------------------------------------
(* Both ends and the broadcaster are done with it.  Which one of these a   *)
(* page gets is of no account.                                             *)
Unused == {t \in Sockets : handler[t] \in {"none", "ended"}} \ (connections \cup audience)

(* connect() of the page and manager.connect(): the handshake, then into   *)
(* the set of connections.                                                 *)
Connect(p) ==
  /\ task # "down" /\ Unused # {}
  /\ LET t == CHOOSE t \in Unused : TRUE
     IN  /\ socket' = [socket EXCEPT ![p] = t]
         /\ connections' = connections \cup {t}
         /\ handler' = [handler EXCEPT ![t] = "querying"]
  /\ UNCHANGED <<boot, broadcaster, replay, rows, list, faults>>

(* The page is opened ...                                                  *)
Load(p) == socket[p] = "unloaded" /\ Connect(p)

(* Mutant: the page stays offline until it is loaded again.                *)
ReconnectNever(p) == socket[p] = "unloaded" /\ Connect(p)

(* ... and setTimeout(connect, 2000) until the server is back.             *)
Reconnect(p) == socket[p] = "offline" /\ Connect(p)

(* What the handler does next: it parks on receive_text() once the history *)
(* is sent.                                                                *)
AfterSending(history) == IF history = <<>> THEN "parked" ELSE "replaying"

(* The history query of the handler.                                       *)
Query(t) ==
  /\ handler[t] = "querying"
  /\ replay' = [replay EXCEPT ![t] = OldestFirst]
  /\ handler' = [handler EXCEPT ![t] = AfterSending(OldestFirst)]
  /\ UNCHANGED <<boot, broadcaster, connections, rows, browser, faults>>

(* ... or it raises, before the try: the handler ends, the connection      *)
(* stays in the manager's set, and the ASGI server closes the socket.      *)
QueryRaises(t) ==
  /\ handler[t] = "querying" /\ faults < MaxFaults
  /\ faults' = faults + 1
  /\ handler' = [handler EXCEPT ![t] = "ended"]
  /\ socket' = [p \in Pages |-> IF socket[p] = t THEN "offline" ELSE socket[p]]
  /\ UNCHANGED <<boot, broadcaster, connections, replay, rows, list>>

(* One send of the history; it may go nowhere, as in a broadcast.          *)
Replay(t) ==
  /\ handler[t] = "replaying"
  /\ Deliver(t, Head(replay[t]))
  /\ replay' = [replay EXCEPT ![t] = Tail(@)]
  /\ handler' = [handler EXCEPT ![t] = AfterSending(Tail(replay[t]))]
  /\ UNCHANGED <<boot, broadcaster, connections, rows, socket, faults>>

(* It is outside the try: if it raises, the handler ends and the           *)
(* connection stays in the manager's set.                                  *)
ReplayRaises(t) ==
  /\ handler[t] = "replaying" /\ ~Open(t)
  /\ handler' = [handler EXCEPT ![t] = "ended"]
  /\ replay' = [replay EXCEPT ![t] = <<>>]
  /\ UNCHANGED list
  /\ UNCHANGED <<boot, broadcaster, connections, rows, socket, faults>>

(* receive_text() raises WebSocketDisconnect once the browser's end is     *)
(* closed.                                                                 *)
Disconnect(t) ==
  /\ handler[t] = "parked" /\ ~Open(t)
  /\ connections' = connections \ {t}
  /\ handler' = [handler EXCEPT ![t] = "ended"]
  /\ UNCHANGED <<boot, broadcaster, replay, rows, browser, faults>>
-----------------------------------------------------------------------------
(* The end of a page's socket: the page is closed for good ...             *)
Close(p) ==
  /\ socket[p] \in Sockets
  /\ socket' = [socket EXCEPT ![p] = "gone"]
  /\ UNCHANGED <<rows, server, list, faults>>

(* ... or the connection is lost: onclose.                                 *)
Lose(p) ==
  /\ socket[p] \in Sockets /\ faults < MaxFaults
  /\ faults' = faults + 1
  /\ socket' = [socket EXCEPT ![p] = "offline"]
  /\ UNCHANGED <<rows, server, list>>

(* The server process dies: every page goes offline and keeps its list.    *)
Crash ==
  /\ task # "down" /\ faults < MaxFaults
  /\ faults' = faults + 1
  /\ task' = "down" /\ batch' = <<>> /\ record' = 0 /\ audience' = {}
  /\ connections' = {}
  /\ handler' = [t \in Sockets |-> "none"]
  /\ replay' = [t \in Sockets |-> <<>>]
  /\ socket' = [p \in Pages |-> IF socket[p] \in Sockets THEN "offline" ELSE socket[p]]
  /\ UNCHANGED <<rows, boot, lastId, list, pushed>>

(* It is started again: last_id is seeded from the table of then.          *)
Restart ==
  /\ task = "down"
  /\ task' = "running"
  /\ boot' = Len(rows)
  /\ lastId' = Greatest(Recent)
  /\ pushed' = <<>>
  /\ UNCHANGED <<batch, record, audience, connections, handlers, rows, browser, faults>>

Broadcaster == Poll \/ Examine \/ \E t \in Sockets : Push(t)

Handler(t) == Query(t) \/ Replay(t) \/ ReplayRaises(t) \/ Disconnect(t)

(* Everything but Save.                                                    *)
WebStep ==
  \/ Broadcaster
  \/ PollRaises
  \/ \E t \in Sockets : Handler(t) \/ QueryRaises(t)
  \/ \E p \in Pages : Load(p) \/ Reconnect(p) \/ Close(p) \/ Lose(p)
  \/ Crash \/ Restart

Next == WebStep \/ \E stamp \in Stamps : Save(stamp)

Spec == Init /\ [][Next]_vars

(* The event loop runs every task that can go on, and a page goes on       *)
(* trying to connect.  Nothing is assumed of whoever starts the server.    *)
FairSpec ==
  /\ Spec
  /\ WF_vars(Broadcaster)
  /\ \A t \in Sockets : WF_vars(Handler(t))
  /\ \A p \in Pages : WF_vars(Reconnect(p))
-----------------------------------------------------------------------------
Ids == 1 .. Len(rows)

(* No two pages share a socket.                                            *)
TypeOK ==
  /\ rows \in Seq(Stamps) /\ boot \in 0 .. Len(rows) /\ lastId \in 0 .. Len(rows)
  /\ task \in {"running", "dead", "down"}
  /\ batch \in Seq(Ids) /\ pushed \in Seq(Ids)
  /\ record \in 0 .. Len(rows) /\ (audience # {} <=> record # 0)
  /\ audience \subseteq Sockets /\ connections \subseteq Sockets
  /\ handler \in [Sockets -> {"none", "querying", "replaying", "parked", "ended"}]
  /\ replay \in [Sockets -> Seq(Ids)]
  /\ \A t \in Sockets : handler[t] = "replaying" <=> replay[t] # <<>>
  /\ list \in [Pages -> SUBSET Ids]
  /\ socket \in [Pages -> Sockets \cup {"unloaded", "offline", "gone"}]
  /\ \A p, q \in Pages : socket[p] = socket[q] /\ socket[p] \in Sockets => p = q
  /\ faults \in 0 .. MaxFaults

(* server.py, line 93: "pushes any new alerts".  Up to last_id every alert *)
(* saved since the server started has been broadcast, once and in order,   *)
(* but for those already too old for the query when they were saved.       *)
PushedInOrder == \A i, j \in 1 .. Len(pushed) : i < j => pushed[i] < pushed[j]

NothingSkipped ==
  /\ \A id \in (boot + 1 .. lastId) \cap Recent :
       \E i \in 1 .. Len(pushed) : pushed[i] = id
  /\ PushedInOrder

(* Inductive, for the three above: no socket is given to a page while it   *)
(* is another's, since its handler ends only once the page has let go; ... *)
OpenIsServed ==
  \A p \in Pages :
    socket[p] \in Sockets => handler[socket[p]] \in {"querying", "replaying", "parked"}

(* ... what has been broadcast ends with the record in hand; ...           *)
Reached == IF record = 0 THEN lastId ELSE record

PushedUpToReached ==
  /\ lastId <= Reached
  /\ IF task = "down" THEN batch = <<>> /\ record = 0
     ELSE \A i \in 1 .. Len(pushed) : pushed[i] <= Reached

IInv == TypeOK /\ OpenIsServed /\ PushedUpToReached /\ PushedInOrder

(* ... and while alerts are saved in the order of their timestamps, the    *)
(* batch in hand goes on from there without a gap.                         *)
NoGap ==
  /\ \A i, j \in Ids : i < j => rows[i] <= rows[j]
  /\ \A i, j \in 1 .. Len(batch) : i < j => batch[i] < batch[j]
  /\ \A i \in 1 .. Len(batch) : \A id \in (boot + 1 .. batch[i]) \cap Recent :
       id <= Reached \/ \E j \in 1 .. i : batch[j] = id
  /\ \A id \in (boot + 1 .. Reached) \cap Recent :
       \E i \in 1 .. Len(pushed) : pushed[i] = id

(* History and broadcasts overlap enough (server.py, lines 92-103 and      *)
(* 119-138), and a page comes back (dashboard.js, lines 91-97): while the  *)
(* broadcaster lives, a page that stays open renders every alert that is   *)
(* not too old for the query: those saved before it connected, while it    *)
(* was being served its history, after, and while it was offline or the    *)
(* server was down.                                                        *)
Sees(p, id) == id \in list[p]

EveryPageSees ==
  \A p \in Pages, id \in 1 .. MaxRows :
    (socket[p] \notin {"unloaded", "gone"} /\ task \notin {"dead", "down"} /\ id \in Recent)
      ~> (Sees(p, id) \/ socket[p] = "gone" \/ task \in {"dead", "down"})
=============================================================================
