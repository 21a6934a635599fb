# SENTINEL IDS: specifications, model checking, proofs

SENTINEL (`src/`) is a small intrusion-detection system: it captures packets,
runs five detectors over them, stores the alerts, shows them in a terminal UI
and a web dashboard, and lets the operator block and unblock an address in the
Windows firewall. This directory holds TLA+ models of its parts, TLC
configurations that check them on small instances, and TLAPS proofs of some of
their properties for all instances. `PROJECT.json` links every definition to
the lines it models, and every property to a change of the code that breaks it.

## The system

```
 scapy.sniff ──> parser ──> PacketQueue.put() ──┬──> detector thread x 5 ──> alert queue
 (capture thread)           (fan-out copy)      └──> terminal UI                  │
                                                                                  v
 browser tabs <── web server (own process) <── alerts table <── alert loop thread ─┤
                                                                                  v
 firewall  <── ResponseEngine <── keys b / u <── terminal UI (event loop) <── push_alert
 blocked_ips table <──┘
```

| Part | State it keeps | Operations | What makes it correct |
| --- | --- | --- | --- |
| `core/capture/queue.py` | the list of subscribers and a bounded queue each | `subscribe`, `put` | a slow consumer loses packets of its own queue and holds up nobody |
| `core/utils/cooldown.py` | last alert time per key | `is_cooling`, `mark` | a key is silenced for exactly one period; memory stays bounded |
| `core/utils/sliding_window.py` | a deque and a Counter of the same events | `add`, `count`, `distinct`, `clear`, `prune`, `prune_idle_windows` | the two agree; the counts are those of the last window |
| `core/detectors/*.py` | a window per source, target or key, a cooldown, the time of the last sweep | `_process` per packet | an alert exactly when due, once per cooldown; idle state is forgotten |
| `core/response/*.py`, `db/queries.py`, keys of `ui/tui/app.py` | firewall rules and `blocked_ips`, two stores that cannot change together | `block`, `unblock`, `record_block`, `record_unblock` | whatever fails, the table is a log, whitelisted addresses stay free, and rows follow the firewall |
| `ui/web/server.py`, `dashboard.js` | `last_id`, the set of connections, one handler per tab | poll and broadcast, replay, connect, disconnect | every page that stays open shows every alert, also one that loses its connection; a dead tab harms no other |
| `main.py` | the alert queue | `_alert_loop`, start-up, shutdown | one bad alert does not silence the rest; what is shown is in the table; whatever SIGINT interrupts, every `start()`, `stop()` and `_shutdown()` returns and threads told to stop end |
| `core/capture/engine.py` | the capture thread and its stop event | `start`, `stop`, `replay_pcap` | at most one capture thread; a stop is final and does not wait forever |
| `core/capture/parser.py` | none | `parse` | a field is `None` unless a layer of the packet fills it |
| `scripts/sim_*.py` | none | a fixed sequence of packets each | the alerts the docstring announces, and no others |

The hard behaviours are these. The alert loop waits for a UI thread that may be
inside a key handler, not yet running or gone, and reports its failures over the
same way. SIGINT runs `_shutdown()` between any two steps of the main thread, and
`sniff()` notices a stop only when a packet comes. The handlers of the keys make several `netsh`
calls, each of which may be refused, may be given up after five seconds having
taken effect or not, or may outlive the process. The tasks of the web server
interleave at every `await` and read a table another process writes. The
fan-out serves a snapshot of its subscribers while others subscribe. The
detectors are sequential, but everything in them is lazy: events expire when
somebody looks, windows are swept at most once a period, cooldowns are pruned
inside `mark()`, so that a long sequence of legal calls is needed to go wrong.
`PROJECT.json` lists each such place as a hazard, at its line.

## Modules

| Module | Models | |
| --- | --- | --- |
| `Cooldown` | the methods of `CooldownTracker` as operators | used by all detectors but ARP |
| `Suppression` | abstract: a timer per key, no dictionary | |
| `CooldownTracker` | a tracker over time, refines `Suppression` | proofs: `CooldownProofs` |
| `SlidingWindow` | the methods of `SlidingWindow` as operators | used by all detectors |
| `EventWindow` | one window over time, with any clock | proofs: `EventWindowProofs` |
| `Packet` | the dictionary `parse()` returns, layer by layer | |
| `ScanPolicy` | abstract: the port-scan policy with nothing lazy | |
| `PortScan` | `PortScanDetector._process`, refines `ScanPolicy` | |
| `BruteForce`, `SynFlood`, `DnsAnomaly`, `ArpSpoof` | `_process` of the other four detectors | |
| `Detectors` | the five detectors behind one capture | composes the five modules; proofs: `DetectorsProofs` |
| `FanOut` | `PacketQueue` and its consumers | proofs: `FanOutProofs` |
| `Response` | keys, `ResponseEngine`, `FirewallManager`, `blocked_ips` | proofs: `ResponseProofs` |
| `Dashboard` | web server, WebSockets, what each page has rendered | proofs: `DashboardProofs` |
| `AlertPipeline` | detectors, alert queue, `_alert_loop`, UI thread | proofs: `AlertPipelineProofs` |
| `Feed` | the alert pipeline writes the table the web server polls | composes `AlertPipeline` and `Dashboard`; proofs: `AlertPipelineProofs` |
| `LifeCycle` | `start`, `stop`, `_run` of capture and detectors, `_shutdown` under SIGINT | proofs: `LifeCycleProofs` |
| `Simulators` | the five attack scripts against the detectors | extends `Detectors` |

`MC*` modules only define values for constants that a configuration file
cannot write, and symmetry sets.

How the models correspond to the code:

* **Packets** are built by the operators of `Packet`, one per layer, as
  `parse()` fills its dictionary. The detectors therefore get only packets it
  can produce: a fragment has addresses and a protocol but no ports, an IPv6
  packet ports and flags but no addresses and no protocol, a stealth packet empty
  flags rather than none. Fields no detector reads are left out; login forms,
  label length and entropy are facts about a packet or a name.
* **Detectors.** One step of a detector is one packet taken off its queue, with
  everything `_process()` does to it: sweep, window, cooldown, alert. This is
  atomic in the code too: a detector is one thread and shares its state with
  nobody. Time is the packet's timestamp, as in the code. The code has floats, the
  models have ticks: only differences of times and their order occur, in the code
  as in the models, so that a tick may be of any length, as long as the windows,
  cooldowns and gaps are multiples of it. Every behaviour of the code has such a
  tick, since it is finite and its times are binary fractions (sums of floats are
  taken as exact); the theorems hold for all numbers of ticks, and no property
  speaks of the length of one. Time
  starts at an epoch later than 0 because `_last_sweep` and `_last_prune` start
  at 0.0. Packets on which `_process()` returns before it changes anything are an
  explicit action that changes nothing. The wall-clock time written into alerts
  is left out of these modules.
* **The composition** `Detectors` hands every packet to all five in one step.
  Since no detector reads the state of another and each takes its packets in
  order, the state of one after its n-th packet does not depend on how far the
  others are, so that interleaving them would add nothing. Queues that overflow
  are the subject of `FanOut`.
* **Windows and cooldowns** are records with the fields of the classes, the
  window with its own length. The detectors use the operators through
  `INSTANCE`, so that each is checked with the real data structures and not with
  an idealisation.
* **Response.** One action per `netsh` call and per table write. An outcome is
  `ok`, `rejected`, `hung_before` or `hung_after` (killed by the timeout before
  or after it took effect). `Die` ends the process inside a handler, and a call
  under way may still take effect; `Restart` finds the two stores as they were.
  Alerts are reduced to their source address. `push_alert()` runs on the same
  event loop as the handlers, hence only between them.
* **Dashboard.** One action per `await`. A row is its timestamp, its id is its
  place in the table. The cutoff of `alerts_since()` is fixed: rows do not age
  out of the hour during a behaviour. What `reversed(alerts_since())` returns is
  the sequence that has every recent row once in the order of the index
  (`OldestFirst`). A page keeps the set of alerts it has
  rendered over several WebSockets: `Lose` breaks one, `Crash` all of them, and
  `Reconnect` is the timer of `onclose`. The query of the history may raise
  (`QueryRaises`), which ends the handler, leaves the connection in the set and
  closes the socket. The first send to a socket whose other
  end is gone may raise or may go nowhere. The cap on the list, its order and
  repetitions are not followed (see the findings). The table is written by
  `Save`, the other process.
* **AlertPipeline.** One action per step of `_alert_loop()`. `call_from_thread()`
  is two: the callback is posted (`Show`, `Report`), and the event loop runs it
  (`PushAlert`, `PushRaises`, `Notify`) while the alert loop waits. The main
  thread is `starting` until the event loop runs, `mounting` until there is a
  panel, `busy` inside a key handler, `closed` after `exit()`, `dead` when the
  process has ended; `Restart` finds the table only. Taking the time of an alert
  and putting it on the queue are two steps of a detector.
* **Feed.** The variables of both modules; `rows` of the web server is `saved` of
  the pipeline, whose alerts are numbered in the order of their timestamps.
* **LifeCycle.** The main thread is a stack of calls, since Python runs a signal
  handler on top of whatever the main thread does. A worker keeps the list of
  all threads it ever created, with what became of each. A capture thread looks
  at the event after a packet only; a detector also when its queue was empty for
  a second. A join ends when the thread has ended or at its timeout: the model
  lets it end at any moment, so that nothing depends on how long a packet takes.
* **Simulators.** A script is the sequence of its packets with the sleep after
  each, in ticks of 1/20 second; what a send takes is added. The thresholds are
  those of `config/config.yaml`.
* **FanOut.** `put()` takes its snapshot in one action (it holds the lock) and
  serves one subscriber per further action. `queue.Queue` operations are atomic.

## Runs

`expect: pass` runs, with what they show and why the bounds are enough:

| Run | Checks | Bounds |
| --- | --- | --- |
| `cooldown` | `TypeOK`, `SpreadBounded`, `NearLastPrune`, refinement `SuppressesExactly` | 3 keys, period 2, 11 ticks: several prunings, each with entries before, at and after the cutoff |
| `window` | `TypeOK`, `CountsMatchLog`, `CountsExact` | window 2, 4 events of 2 keys between two clears; steps of the clock to both sides of the cutoff, and back |
| `detectors` | `TypeOK` and what each detector promises, see below; refinement `ScansFollowPolicy` | ten kinds of traffic of 3 to 6 packets |
| `fanout` | `TypeOK`, `Accounted`, `LossIsOwnBacklog`, liveness `OthersUnaffected` | 3 consumers, queues of 2, 4 packets: queues overflow while consumers subscribe and take |
| `response` | `TypeOK`, `OneActiveRow`, `WhitelistUntouched`, `HandlerKnows`, `RowsFollowFirewall`, liveness `HandlerReturns` | 2 addresses and a whitelisted one, both directions, all outcomes, crashes, 4 rows |
| `dashboard` | `TypeOK`, `NothingSkipped`, liveness `EveryPageSees` | a page and 3 sockets, 2 faults (lost connections, crashes, failing history queries), 2 rows saved before or after the start, failing polls and sends; two timestamps, one older than the query's cutoff and one not |
| `alerts` | `TypeOK`, `ShownIsSaved`, `EachOnceInOrder`, liveness `EveryAlertHandled`, `FailureReported` | 2 detectors, 3 alerts: one fails, one is waiting, one comes after it; any number of crashes |
| `lifecycle` | `OneThread`, `OneLatePacket`, liveness `CallsReturn`, `StopIsFinal` | the capture and 2 detectors, 2 starts of the capture, 2 SIGINTs: one inside a start, one inside the other's `_shutdown()` |
| `simulators` | `AsAnnounced` | any two scripts in any order, three pauses before each (1, 3.5 and 70 seconds: inside a window of the SYN flood detector, across its end, past every cooldown), sends that take no time or 1/20 second |

In `dashboard`, one page is enough because `EveryPageSees` speaks of one page and
pages meet only in the connection set, whose other members can only be dead
sockets of its own; with three sockets two of those stay in the set beside the
live one.

The run `detectors` chooses one kind of traffic and then lets its packets come
in any order and with any of its gaps (`MCDetectors`, `Mixes`). Each kind is
what one detector looks for, alone and mixed with packets that come close; the
other four see it too, as none of their business. All windows and cooldowns are
2 to 4 ticks long and all thresholds 1 to 3, so that an alert, its cooldown, a
sweep and a second alert fit into a few packets:

| Traffic | What it brings out | Properties that rest on it |
| --- | --- | --- |
| `scans` | two hosts scan, both below and above the threshold; cooldown, sweep, second alert | `ScansFollowPolicy`, `IdleForgotten` |
| `odd` | NULL, FIN and XMAS packets; fragments, IPv6, ICMP | `ScansFollowPolicy` |
| `attempts`, `sessions` | logins on services of different windows, from both hosts, with SYNs to the HTTP port, answers and posts to other ports | `LoginsExact`, `BurstReported`, `IdleForgotten` |
| `flood` | two targets, SYN and ACK, gaps of several windows | `FloodsExact`, `BurstReported` |
| `busy` | one target under steady traffic and after pauses longer than the window | `FloodsExact`, `WeighedInTime` |
| `names`, `lookups` | a plain name, a long one that is encoded too, and an encoded one; one name over and over, through flood, silence and flood again | `QueriesExact`, `BurstReported`, `IdleForgotten` |
| `claims`, `announces` | addresses claimed by two cards; a card without an address; requests and unsolicited replies | `ConflictsExact`, `AnnouncementsExact`, `BurstReported`, `IdleForgotten` |

The properties that compare with a `history` variable say what the detector
promises without windows, sweeps, counters or cooldown dictionaries: which
earlier packets count for this one, and what it must therefore raise.
`WeighedInTime` says what the SYN-flood detector misses because its evaluations
wait for packets. With a window of 2, an evaluation at 10.0, a SYN at 10.05 and
the next packets at 11.9 and 12.8, the SYN is never weighed: it expires at 12.05,
the evaluation is due from 12.0, and no packet came between. This is the only
way: if any TCP packet comes between the moment the evaluation is due and the
expiry of an earlier packet, that packet has been weighed. Nothing in the code
says that pauses are harmless.

`BurstReported` is a consequence of the policies that the code does not
state: logins and queries during a cooldown are not counted, and a report of
logins or announcements empties the window, so that it is not obvious that a
burst across the end of a cooldown or across a report never goes unnoticed. It
says so of the four detectors that count; of the SYN flood detector, of the
packets an evaluation has before it.

`CountsExact` holds while the clock does not step back (`monotone`);
`CountsMatchLog` and `TypeOK` hold for every clock.

`EveryAlertHandled` allows an alert to be lost in one way only: it failed
itself. `FailureReported` is about failures while the event loop is up; before
that, the report fails like the alert (a finding). `StopIsFinal` assumes for the
capture, and only for it, that packets keep coming. `AsAnnounced` says little of
`sim_syn_flood.py`, on purpose: when the evaluations fall decides what it raises
(a finding). It also shows what the scripts do not say: a port scan may be
reported as a SYN flood of its target, too, but never as HIGH.

The bounds are named in each module's CONSTANTS (`MaxTime`, `MaxEvents`,
`Mixes`, `MaxRows`, `MaxFaults`, `MaxSignals`, ...) and appear only in guards.
The runs `detectors` and `simulators` end when their packets run out, the
fan-out, dashboard and alert runs when every packet, row or alert has been dealt
with, and that of the life cycle when all threads have ended; hence
`CHECK_DEADLOCK FALSE` there.

`expect: violation` runs show where the code and its own words part. Each
checks one statement of the repository, quoted in `PROJECT.json` under
`findings`:

| Run | The statement | What happens |
| --- | --- | --- |
| `response_orphan` | the DB cannot mark an IP free while its rule still blocks | direction "both", second rule refused: the first stays, no row knows of it |
| `flood_masked` | one evaluation per window keeps a premature MEDIUM from hiding HIGH | an evaluation early in a flood still does |
| `dashboard_skip` | the broadcaster pushes any new alert | two detectors stamp their alerts in one order and put them on the queue in the other (`Feed`); ordered by time, filtered by id, one is skipped |

Further divergences are plain from the code and listed without a run: a netsh
delete that takes effect but exceeds its timeout leaves a row without a rule;
the keys act on the last alert only, so that an earlier block is out of their
reach; UDP packets and answers count towards a "SYN" scan; the DNS flood alert
comes at the threshold and not above it; the DNS silence is per name, and a
tunnel never repeats a name; a broadcast can overtake the replay, so that the
newest alert is not on top; a page that reconnects shows and counts everything
twice; a send that fails in the replay leaves a dead socket in the set; one
failing query ends the broadcaster; a failure before the UI runs is not
reported; a capture started after a stop that timed out is not started; two of
the attack scripts do not always raise what they announce.

## Fairness

* `Response!HandlerSpec`: weak fairness of the handler in progress. It runs on
  one thread that nothing preempts, and each `netsh` call ends within its
  timeout. That it does is assumed here (`timeout=` of `firewall.py`, line 63),
  not shown.
* `FanOut!FairSpec`: weak fairness of `put()` (it never waits) and of the
  consumers in `Alive`. The others may be stuck forever: that is the case the
  property is about.
* `Dashboard!FairSpec`: weak fairness of the broadcaster and of each handler;
  asyncio runs every task whose await is over. Weak fairness of `Reconnect`: the
  timer of `onclose` sets itself again until it succeeds. Nothing is assumed of
  whoever opens and closes pages or restarts the server, nor of the process that
  saves alerts. `PollRaises` is never forced.
* `AlertPipeline!FairSpec`: weak fairness of the alert loop's own steps, of the
  start of the UI and of the end of a key handler (each `netsh` call has a
  timeout); strong fairness of the callbacks, because the event loop serves what
  is posted in order and keys pressed again and again cannot put a callback off
  for ever. Nothing is assumed of the future of a callback posted to a UI that
  closes: it may be cancelled or never resolved.
* `LifeCycle!FairSpec`: weak fairness of the main thread inside a call and of
  every thread once it is started, but not of packets: `Take` is never forced.
  Signals are not either.

## Proofs

Checked by TLAPS for all values of the constants, under the named assumptions
next to the constants (periods and windows are positive integers; the
directions are a non-empty sequence; and so on). A theorem with a further
hypothesis says so below. Where an invariant is not inductive, the module of the
component (in `DetectorsProofs`, the proof module) defines the `IInv` that is,
with a comment on each conjunct.

* **`CooldownProofs`.** `Typing` and `StaysNearLastPrune` are two inductive
  invariants: every stored time lies within a period of the last pruning,
  because an entry is either younger than the cutoff of that pruning or was
  marked after it without causing another one. `MemoryBounded` follows: no two
  entries are more than two periods apart. `Refinement` shows that the tracker
  implements `Suppression`: seen through `is_cooling()`, `mark` winds exactly one
  timer (pruning drops only entries whose timer is zero) and the passing of time
  runs down all of them.
* **`EventWindowProofs`.** `CountsMatchLog`: the counts are positive and equal the
  occurrences in the deque. It needs lemmas on how occurrences change when an
  event is appended and when a prefix is removed, and holds whatever the clock
  does. `CountsExact` compares with all events since the last `clear()`, hence
  says nothing about the deque and is not inductive; `LogIsRecent` adds that,
  while the clock has not stepped back, the deque is the end of those events and
  what is missing has expired. That the number of recent events of a key is then
  what the Counter says is a bijection between positions.
* **`FanOutProofs`.** `Accounted` and `LossIsOwnBacklog` for any consumers, alive
  or not, any queue size and any number of packets. The invariant adds that a
  consumer is in the list once and in the snapshot once, and that whoever is in
  the snapshot subscribed before the packet was put (`SubscribedOnce`,
  `PendingOnce`): without that, a step of `put()` could offer a packet twice, or
  to a consumer that must not have it.
* **`AlertPipelineProofs`.** `ShownIsSaved` and `EachOnceInOrder` through failures,
  exits, crashes and restarts. Why no alert is saved twice rests on where alerts
  can be: with a detector, on the queue, in hand, or in the table, in one place
  at a time (`OnePlace`), and numbered before they get anywhere (`Stamped`). Why
  the panel follows the table in order rests on `InHand`: between commit and
  `push_alert()` the alert in hand is the last of the table and not yet on the
  panel.

  The module also proves how the two halves of `Feed` fit. `PipelineUndisturbed`:
  projected to its own variables, the composition is a behaviour of
  `AlertPipeline`, so that everything proved of that holds with a web server
  reading along. `WebServed`: it is a behaviour of `Dashboard`, with rows saved
  in any order of their timestamps, so that what `Dashboard` assumes of the
  other process is what the alert loop does.
* **`DashboardProofs`.** That ids are broadcast in increasing order
  (`PushedInOrder`) holds whatever the timestamps: `PushedUpToReached` says that
  nothing beyond the record in hand has been broadcast, and `last_id` filters
  the rest. `NothingSkipped` speaks of the rows young enough for the query, which
  returns no others, and has a hypothesis: alerts are saved in the order of their
  timestamps (`InOrder`). Without it it is false, which is the finding
  `dashboard_skip`. `NoGap` is the further invariant: the batch in hand goes on from the record in hand,
  leaving out nothing. `TypeOK` needs `OpenIsServed`, that an open page's
  socket always has a handler. That a finite table can be put into order at all,
  which `OldestFirst` takes for granted, is a lemma of its own.
* **`ResponseProofs`.** `OneActiveRow` is not inductive: that a second row is not
  active depends on what the handler checked several `netsh` calls earlier.
  `HandlerKnows` says what each stop of a handler still knows (the address is not
  whitelisted, has no active row, which rules are in place), and
  `IInv == TypeOK /\ OneActiveRow /\ WhitelistUntouched /\ HandlerKnows` is
  inductive. The action property `RowsFollowFirewall` follows from it.
  `ClaimsEnforced` and `NoOrphanOneDirection` are about the two stores
  themselves, see below.
* **`LifeCycleProofs`.** Neither `OneThread` nor `OneLatePacket` is inductive:
  that `start()` finds no live thread to run beside was decided two steps before
  it creates one, and `_shutdown()` may come between. `IInv` adds that only the
  outermost call can be a `start()` (a signal only pushes a `_shutdown()`,
  `Outermost`); that only a worker's last thread can be alive, or created and not
  started (`OnlyTheLast`); that all of them have ended once `start()` has cleared
  the event (`StartAlone`); and that after a late packet the event is set and the
  thread is in that packet or has ended (`LateIsLast`). The list of detectors and
  the numbers of starts and signals are arbitrary.

* **`DetectorsProofs`.** For all thresholds, window lengths, cooldowns and sets of
  packets, and behaviours of any length, that each detector reports what its
  policy says and nothing else: `ConflictsExact`, `AnnouncementsExact`,
  `LoginsExact`, `QueriesExact`, `FloodsExact`, `WeighedInTime`,
  `BurstReported`; that the port-scan detector implements `ScanPolicy`
  (`ScansFollowPolicy`); and `TypeOK` and `IdleForgotten`. The policies speak of the
  history only, the code of windows, counters, sweeps and dictionaries; three
  bodies of lemmas lead from one to the other and are shared by the detectors:
  * *Windows.* `Good` says that deque and Counter agree and the deque is in
    order of time. Lemmas say what `add()`, `prune()` and the sweep do to it, in
    terms that do not mention when anything is pruned: `Kept`, nothing that can
    still count is lost; `Grown`, and one event is added. `Tracks` ties a window
    to a set of positions of the history: at this and at any later time it
    counts those of them that are no older. Being about every later time, it
    survives the packets the window does not see.
  * *Cooldowns.* `MarkedIn`: after `mark(key)` exactly one more key is cooling, at
    that time and at all later ones, whatever the mark pruned. `MarkedAll` says
    the same of all the marks of one evaluation of the SYN-flood detector, in any
    order: the loop is a fold over a set, and since induction over data is out of
    reach the proof takes a smallest subset for which it fails.
  * *Memory.* `Stocked`: the newest event of a window is no older than the last
    sweep less a window, so that what the next sweep leaves was heard of
    recently; `Marks`: what the cooldown dictionary may hold.

  With them each detector has an inductive invariant of its own (`ArpInv`,
  `AnnounceInv`, `BruteInv`, `QueryInv`, `EvaluationInv`, `FloodInv` for the
  reports; `ScanKept`, `BruteKept`, `QueryKept`, `ReplyKept`, `TrafficKept` for
  types and memory): the windows track the part of the history that counts since
  the last report, the dictionary silences the keys reported less than a cooldown
  ago, and the entries of the history are right.
  `WeighedInTime` (theorem `NoneMissedInTime`) rests on `EvaluationInv`: every
  packet was weighed, or waits for the evaluation that follows the last one, or
  expired in a pause; and no packet came a window or more after the last
  evaluation, or it would have made one.
  `BurstReported` mentions no state of the detectors and follows from what is
  proved of their reports without looking at the code again. Were a burst of
  logins or queries unreported, either its last packet would have reached the
  threshold, or a cooldown swallowed a part of it, and that cooldown began with
  a report; announcements are never silenced, but counted from the last report
  only, which then falls into the window.

  `ScansFollowPolicy` maps a window to the set of its <<time, port>> pairs that
  have not expired, and the cooldown dictionary to the time each key stays
  silenced. A pair is in that set exactly if the number of events of its port
  since its time differs from that since one tick later; hence what `Kept` and
  `Grown` say of counts carries over to pairs, the sweep is no step of the
  policy, and the ports of the Counter are those of the pairs. Of the silences,
  `mark()` winds one and time runs down all.

  `IdleForgotten` is proved for `ScanWindow <= ScanCooldown`, as in `config.yaml`
  (5 and 60 seconds). This is not a convenience: with a window longer than the
  cooldown it does not hold. The alert empties the window of its source; its
  mark can then be pruned before the window is swept, and for that long an
  empty window stays although nothing speaks of its source any more. It goes
  with the next sweep, so that memory is bounded all the same.

Only model-checked: `AsAnnounced` (about five fixed scripts, with nothing to
generalise), and all liveness properties: `HandlerReturns`, `EveryPageSees`,
`EveryAlertHandled`, `FailureReported`, `OthersUnaffected`, `CallsReturn`,
`StopIsFinal` (fairness and ENABLED are out of the prover's reach).

### Where the statements that fail do hold

What the violation runs check is false as it stands. The proofs say under which
conditions it is true, and TLC finds a counterexample when any one of them is
dropped:

* `NoOrphanRule` (`response_orphan`) holds with one direction, as in the
  `config.yaml` of the repository, as long as the process is not killed inside a
  handler and no `netsh` call that was given up takes effect all the same
  (`NoOrphanOneDirection`). The converse, that every active row has all of its
  rules unless an unblock has deleted them and is about to lift the row
  (`RowsEnforced`), holds with any directions under the last two conditions
  (`ClaimsEnforced`).
* `NothingSkipped` (`dashboard_skip`) holds in `Feed` for one detector
  (`OneDetectorSkipsNothing`), and for several as long as only one at a time has
  taken the time of an alert and not yet put it on the queue, `OneDraft`
  (`NothingSkippedInLine`). Then the queue, the alert in hand and the table are in
  the order of the timestamps from one end to the other (`InLine`), and
  `DashboardProofs` applies. In the model, then, the time between taking the
  timestamp and `put()` is all that makes the broadcaster skip an alert. The
  model takes times that increase: a clock set back, or a replayed capture, from
  which the DNS detector takes the time of its alerts (a hazard of its own), are
  outside both theorems.
* `HighNotMasked` (`flood_masked`) fails about the severity only: a target that
  deserves an alert is reported, or has been within the cooldown (`FloodReported`,
  the fourth part of `BurstReported`).

## Not modelled

* The alert record, the widgets, CSS and HTML, the configuration
  file and the assembly in `main()`: no state of their own, or display only.
* SQLAlchemy and SQLite: a query or a commit is one step, which may raise where
  a property is about that.
* `replay_pcap()`: calls the handler of the capture thread in a loop; what a
  capture with old timestamps does to the dashboard is `dashboard_skip`'s case.
* The order, repetition and cap of the rows on a page, and pausing, filtering and
  the packet log of the terminal UI: display only.
* The operating system's side: how long a packet waits in the interface, when a
  lost connection is noticed. Every delay is possible in the models.

* SIGINT inside `Event.set()` or `Event.clear()`: `LifeCycle` takes each as one
  step. Their lock is not re-entrant, and a handler that calls `set()` on the
  thread that holds it waits for ever (a hazard of its own). Nor is it modelled
  what `app.exit()` does before `app.run()`: `LifeCycle` shows that the calls
  return, not that the program ends.

## Plan

Done: cooldown, window, the five detectors and their composition, response,
fan-out, dashboard with reconnecting pages, alert pipeline, the composition of
the two, life cycle of the threads, attack scripts; proofs of every safety
property of the passing runs but `AsAnnounced`, and of what remains true of the
statements that fail.

Possible extensions:

1. One abstract policy for the detectors with a threshold per key, refined by
   `BruteForce` and by the gratuitous part of `ArpSpoof`, as `PortScan` refines
   `ScanPolicy`.
2. Fan-out with a detector: what a dropped packet does to its policy.
