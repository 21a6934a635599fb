-------------------------------- MODULE Feed --------------------------------
(***************************************************************************)
(* The two processes together: the alert pipeline of main.py writes the    *)
(* alerts table, which the web server polls.  Alerts are numbered in the   *)
(* order of their timestamps, so that a row's number is its timestamp.     *)
(***************************************************************************)
EXTENDS AlertPipeline

CONSTANTS Pages, Sockets, MaxFaults

VARIABLES boot, lastId, task, batch, record, audience, connections, handler,
          replay, socket, list, pushed, faults

Web == INSTANCE Dashboard WITH
  rows <- saved, Stamps <- Alerts, Cutoff <- 1, MaxRows <- MaxAlerts,
  InOrder <- FALSE, PollFails <- FALSE

web == <<boot, lastId, task, batch, record, audience, connections, handler,
         replay, socket, list, pushed, faults>>

FeedInit == Init /\ Web!Init

FeedNext ==
  \/ Next /\ UNCHANGED web
  \/ Web!WebStep /\ UNCHANGED vars

FeedSpec == FeedInit /\ [][FeedNext]_<<vars, web>>

(* server.py, line 93: the broadcaster "pushes any new alerts".  Whatever  *)
(* the detectors raise, up to last_id every alert saved since the server   *)
(* started has been broadcast, once and in order.                          *)
NothingSkipped == Web!NothingSkipped
=============================================================================
