--------------------------- MODULE AlertPipeline ----------------------------
(***************************************************************************)
(* The way of an alert from a detector to the operator: the detector       *)
(* threads stamp it and put it on the shared alert queue, _alert_loop()    *)
(* (main.py) saves it and hands it to the event loop of the terminal UI    *)
(* with call_from_thread(), which waits until the UI has shown it.  The UI *)
(* may not run yet, be busy in a key handler, or be gone; the table may be *)
(* locked; the alert may not render; the process may die at any point.     *)
(*                                                                         *)
(* Alerts are numbered in the order of their timestamps.                   *)
(***************************************************************************)
EXTENDS Integers, Sequences

CONSTANTS
  Detectors,             \* the threads that raise alerts
  MaxAlerts              \* bound: alerts raised

ASSUME PipelineAssumption == MaxAlerts \in Nat

VARIABLES
  issued,                \* the alerts stamped so far
  draft,                 \* per detector: the alert stamped and not yet put, or 0
  alertQueue,            \* the queue all detectors share
  saved,                 \* the alerts table, in order of id; survives the process
  loop,                  \* where _alert_loop() stands
  alert,                 \* ... its alert, 0 if none
  ui,                    \* where the main thread with the event loop stands
  lastAlert,             \* SentinelApp._last_alert, 0 if None
  alertCount,            \* SentinelApp._alert_count
  panel,                 \* the rows of the AlertPanel
  notices,               \* the alerts whose failure was reported to the operator
  failed                 \* which alerts failed, and where the UI stood then

pipeline == <<issued, draft, alertQueue>>
screen == <<lastAlert, alertCount, panel, notices>>
vars == <<pipeline, saved, loop, alert, ui, screen, failed>>

(* A process that has just begun: the UI is not running yet.               *)
Init ==
  /\ issued = 0 /\ saved = <<>> /\ ui = "starting"
  /\ draft = [d \in Detectors |-> 0]
  /\ alertQueue = <<>>
  /\ loop = "waiting" /\ alert = 0
  /\ lastAlert = 0 /\ alertCount = 0 /\ panel = <<>> /\ notices = {}
  /\ failed = {}
-----------------------------------------------------------------------------
(* A detector takes the time of an alert ...                               *)
Stamp(d) ==
  /\ ui # "dead" /\ draft[d] = 0 /\ issued < MaxAlerts
  /\ issued' = issued + 1
  /\ draft' = [draft EXCEPT ![d] = issued + 1]
  /\ UNCHANGED <<alertQueue, saved, loop, alert, ui, screen, failed>>

(* ... and puts it on the queue.  Another detector may be in between.      *)
Put(d) ==
  /\ draft[d] # 0
  /\ alertQueue' = Append(alertQueue, draft[d])
  /\ draft' = [draft EXCEPT ![d] = 0]
  /\ UNCHANGED <<issued, saved, loop, alert, ui, screen, failed>>
-----------------------------------------------------------------------------
(* The event loop accepts calls; before and after, call_from_thread raises.*)
Up == {"mounting", "running", "busy"}

Get ==
  /\ loop = "waiting" /\ alertQueue # <<>> /\ ui # "dead"
  /\ alert' = Head(alertQueue)
  /\ alertQueue' = Tail(alertQueue)
  /\ loop' = "saving"
  /\ UNCHANGED <<issued, draft, saved, ui, screen, failed>>

Save ==
  /\ loop = "saving"
  /\ saved' = Append(saved, alert)
  /\ loop' = "showing"
  /\ UNCHANGED <<pipeline, alert, ui, screen, failed>>

(* call_from_thread(push_alert): the callback is posted, the loop waits.   *)
Show ==
  /\ loop = "showing" /\ ui \in Up
  /\ loop' = "pushing"
  /\ UNCHANGED <<pipeline, saved, alert, ui, screen, failed>>

(* Mutant: saving has a try of its own, whose failure is only reported.    *)
CaughtApart == IF loop = "saving" THEN "showing" ELSE "reporting"

(* Mutant: failures are skipped and not reported.                          *)
CaughtQuietly == "waiting"

Caught == "reporting"

(* Mutant: an alert that failed is put back, to be tried again.            *)
QueueRetrying == Append(alertQueue, alert)

QueueAfterFailure == alertQueue

(* except Exception: of whatever kind, it concerns this alert only.        *)
Catch ==
  /\ failed' = failed \cup {<<alert, ui>>}
  /\ loop' = Caught
  /\ alertQueue' = QueueAfterFailure
  /\ UNCHANGED <<issued, draft, alert>>

(* The table is locked.                                                    *)
SaveRaises ==
  /\ loop = "saving"
  /\ Catch
  /\ UNCHANGED <<saved, ui, screen>>

(* The UI is not yet, or no longer, running.                               *)
ShowRaises ==
  /\ loop = "showing" /\ ui \notin Up
  /\ Catch
  /\ UNCHANGED <<saved, ui, screen>>

(* The UI closes with the callback posted: the future may be cancelled.    *)
PushCancelled ==
  /\ loop = "pushing" /\ ui = "closed"
  /\ Catch
  /\ UNCHANGED <<saved, ui, screen>>

(* call_from_thread(notify), inside the handler of the exception ...       *)
Report ==
  /\ loop = "reporting" /\ ui \in Up
  /\ loop' = "notifying"
  /\ UNCHANGED <<pipeline, saved, alert, ui, screen, failed>>

(* Mutant: without the inner try, an exception of notify ends the loop.    *)
AfterReportFailed == "ended"

AfterReport == "waiting"

(* ... whose own failure is passed over.                                   *)
ReportRaises ==
  /\ \/ loop = "reporting" /\ ui \notin Up
     \/ loop = "notifying" /\ ui = "closed"
  /\ loop' = AfterReport
  /\ alert' = 0
  /\ UNCHANGED <<pipeline, saved, ui, screen, failed>>

AlertLoop ==
  \/ Get \/ Save \/ Show \/ SaveRaises \/ ShowRaises
  \/ Report \/ ReportRaises
-----------------------------------------------------------------------------
(* app.run() starts the event loop, then the widgets are mounted.          *)
Run ==
  /\ \/ ui = "starting" /\ ui' = "mounting"
     \/ ui = "mounting" /\ ui' = "running"
  /\ UNCHANGED <<pipeline, saved, loop, alert, screen, failed>>

(* push_alert() as far as it always gets: the address for the key b.       *)
Remember ==
  /\ loop = "pushing"
  /\ alertCount' = alertCount + 1
  /\ lastAlert' = alert
  /\ UNCHANGED <<saved, ui, notices>>

(* push_alert() in the event loop.                                         *)
PushAlert ==
  /\ ui = "running"
  /\ Remember
  /\ panel' = Append(panel, alert)
  /\ loop' = "waiting"
  /\ alert' = 0
  /\ UNCHANGED <<pipeline, failed>>

(* push_alert() raises after that: there is no panel yet, or the line does *)
(* not render.                                                             *)
PushRaises ==
  /\ ui \in {"mounting", "running"}
  /\ Remember
  /\ Catch
  /\ UNCHANGED panel

Notify ==
  /\ loop = "notifying" /\ ui \in {"mounting", "running"}
  /\ notices' = notices \cup {alert}
  /\ loop' = "waiting"
  /\ alert' = 0
  /\ UNCHANGED <<pipeline, saved, ui, lastAlert, alertCount, panel, failed>>

(* A key handler holds the event loop for several netsh calls.             *)
KeyPressed ==
  /\ ui = "running"
  /\ ui' = "busy"
  /\ UNCHANGED <<pipeline, saved, loop, alert, screen, failed>>

KeyHandled ==
  /\ ui = "busy"
  /\ ui' = "running"
  /\ UNCHANGED <<pipeline, saved, loop, alert, screen, failed>>

(* exit(): by the key q, or by _shutdown().                                *)
Exit ==
  /\ ui \in {"mounting", "running"}
  /\ ui' = "closed"
  /\ UNCHANGED <<pipeline, saved, loop, alert, screen, failed>>

(* The process ends, after app.run() or by a crash: every thread is a      *)
(* daemon, and all but the table is gone.                                  *)
Die ==
  /\ ui # "dead"
  /\ ui' = "dead"
  /\ draft' = [d \in Detectors |-> 0]
  /\ alertQueue' = <<>>
  /\ loop' = "waiting" /\ alert' = 0
  /\ lastAlert' = 0 /\ alertCount' = 0 /\ panel' = <<>> /\ notices' = {}
  /\ failed' = {}
  /\ UNCHANGED <<issued, saved>>

Restart ==
  /\ ui = "dead"
  /\ ui' = "starting"
  /\ UNCHANGED <<pipeline, saved, loop, alert, screen, failed>>

Callback == PushAlert \/ PushRaises \/ Notify

Next ==
  \/ \E d \in Detectors : Stamp(d) \/ Put(d)
  \/ AlertLoop
  \/ PushCancelled
  \/ Run \/ Callback \/ KeyPressed \/ KeyHandled
  \/ Exit \/ Die \/ Restart

Spec == Init /\ [][Next]_vars

(* The threads run; a key handler comes to its end; the event loop serves  *)
(* what is posted in order, so that keys cannot put off a callback for     *)
(* ever.  Nobody need press a key, and a cancelled future may also just    *)
(* never be resolved.                                                      *)
FairSpec ==
  /\ Spec
  /\ WF_vars(AlertLoop) /\ WF_vars(Run) /\ WF_vars(KeyHandled)
  /\ SF_vars(Callback)
-----------------------------------------------------------------------------
Alerts == 1 .. MaxAlerts

Elements(s) == {s[i] : i \in 1 .. Len(s)}

(* No more alerts are counted than were raised.                            *)
TypeOK ==
  /\ issued \in 0 .. MaxAlerts
  /\ draft \in [Detectors -> {0} \cup Alerts]
  /\ alertQueue \in Seq(Alerts) /\ saved \in Seq(Alerts) /\ panel \in Seq(Alerts)
  /\ loop \in {"waiting", "saving", "showing", "pushing", "reporting", "notifying"}
  /\ alert \in {0} \cup Alerts /\ (alert = 0 <=> loop = "waiting")
  /\ ui \in {"starting", "dead", "closed"} \cup Up
  /\ lastAlert \in {0} \cup Alerts /\ alertCount \in 0 .. MaxAlerts
  /\ notices \subseteq Alerts /\ failed \subseteq Alerts \X (Up \cup {"starting", "closed"})

(* main.py, line 29: "Persists alerts to DB and pushes them".  What the    *)
(* operator sees, and what the keys b and u act on, is in the table.       *)
ShownIsSaved ==
  /\ Elements(panel) \subseteq Elements(saved)
  /\ lastAlert # 0 => lastAlert \in Elements(saved)

(* Whatever fails, an alert is saved at most once, over all runs of the    *)
(* process, and the panel shows alerts at most once and in the order in    *)
(* which they were saved.                                                  *)
EachOnceInOrder ==
  /\ \A i, j \in 1 .. Len(saved) : saved[i] = saved[j] => i = j
  /\ \A i, j \in 1 .. Len(panel) : \A k, l \in 1 .. Len(saved) :
       (i < j /\ panel[i] = saved[k] /\ panel[j] = saved[l]) => k < l

(* Inductive, for these three: an alert is nowhere before it is stamped,   *)
(* and then in one place, ...                                              *)
Stamped ==
  /\ \A d \in Detectors : draft[d] <= issued
  /\ \A a \in Elements(alertQueue) \cup Elements(saved) : a <= issued
  /\ alert <= issued

OnePlace ==
  /\ \A i, j \in 1 .. Len(alertQueue) : alertQueue[i] = alertQueue[j] => i = j
  /\ \A d, e \in Detectors : draft[d] = draft[e] /\ draft[d] # 0 => d = e
  /\ \A d \in Detectors : draft[d] \notin Elements(alertQueue) \cup Elements(saved)
  /\ Elements(alertQueue) \cap Elements(saved) = {}
  /\ alert # 0 => alert \notin Elements(alertQueue) /\ \A d \in Detectors : draft[d] # alert
  /\ loop = "saving" => alert \notin Elements(saved)

(* ... and the one being shown is the last that was saved, and has not     *)
(* been counted.                                                           *)
Showing == loop \in {"showing", "pushing"}

InHand ==
  /\ ui = "dead" => loop = "waiting"
  /\ Showing => saved # <<>> /\ alert = saved[Len(saved)] /\ alert \notin Elements(panel)
  /\ alertCount + (IF Showing THEN 1 ELSE 0) <= Len(saved)

IInv == TypeOK /\ ShownIsSaved /\ EachOnceInOrder /\ Stamped /\ OnePlace /\ InHand

(* main.py, line 33: a failure is "never allowed to kill the loop".  As    *)
(* long as the process and its UI go on, every alert put on the queue is   *)
(* shown, or it is one that failed itself, whatever failed before it.      *)
Queued(a) == a \in Elements(alertQueue) \/ alert = a

EveryAlertHandled ==
  \A a \in Alerts :
    Queued(a) ~> \/ a \in Elements(panel) \/ \E u \in Up \cup {"starting"} : <<a, u>> \in failed
                 \/ ui \in {"closed", "dead"}

(* main.py, line 32: a failure "is reported", where it happens while the   *)
(* UI is up.                                                               *)
FailureReported ==
  \A a \in Alerts, u \in Up :
    <<a, u>> \in failed ~> (a \in notices \/ ui \in {"closed", "dead"})
=============================================================================
