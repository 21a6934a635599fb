------------------------------ MODULE Response ------------------------------
(***************************************************************************)
(* Blocking and unblocking an address from the terminal UI: the key        *)
(* handlers of ui/tui/app.py, the policy of core/response/engine.py, the   *)
(* netsh calls of core/response/firewall.py and the blocked_ips table of   *)
(* db/queries.py.                                                          *)
(*                                                                         *)
(* A handler runs on the UI's event loop, one at a time, but it is not     *)
(* atomic: it changes two stores it cannot change together, the firewall   *)
(* and the database, and every netsh call may be rejected, may hang past   *)
(* its timeout (having taken effect or not), or may outlive the process.   *)
(* Hence one action per netsh call and per table write.  The refusals      *)
(* ("whitelisted", "already blocked", ...) only notify and change nothing. *)
(***************************************************************************)
EXTENDS Integers, Sequences

CONSTANTS
  Ips,                   \* addresses alerts can carry
  Whitelist,             \* response.whitelist
  NoIp, NoAlert,         \* an alert without src_ip; no alert yet
  Dirs,                  \* the rules FirewallManager.block() adds, in order
  Outcomes,              \* what a netsh call may come to, see Results
  Crashes,               \* may the process die inside a handler?
  MaxRows                \* bound: rows of blocked_ips

(* A netsh call succeeds, exits with an error, or is given up after five   *)
(* seconds: killed before or after it has taken effect.                    *)
Results == {"ok", "rejected", "hung_before", "hung_after"}

ASSUME ResponseAssumption ==
  /\ NoIp \notin Ips /\ NoAlert \notin Ips
  /\ Whitelist \subseteq Ips
  /\ Dirs \in Seq({"in", "out"}) /\ Dirs # <<>>
  /\ Outcomes \subseteq Results
  /\ Crashes \in BOOLEAN
  /\ MaxRows \in Nat

VARIABLES
  running,               \* is the process up?
  lastAlert,             \* SentinelApp._last_alert, its src_ip
  pc,                    \* where the handler in hand stands
  target,                \* the address the handler works on
  next,                  \* FirewallManager.block(): the next direction
  accepted,              \* ... and `ok`, the netsh calls so far succeeded
  rules,                 \* the firewall: the directions blocked per address
  blockedIps             \* the blocked_ips table, in order of insertion

vars == <<running, lastAlert, pc, target, next, accepted, rules, blockedIps>>

AllDirs == {Dirs[i] : i \in 1 .. Len(Dirs)}

Row == [ip : Ips, lifted : BOOLEAN]

ActiveRows(ip) ==
  {i \in 1 .. Len(blockedIps) : blockedIps[i].ip = ip /\ ~blockedIps[i].lifted}

IsBlocked(ip) == ActiveRows(ip) # {}

Init ==
  /\ running = TRUE
  /\ lastAlert = NoAlert
  /\ pc = "idle"
  /\ target = NoIp
  /\ next = 1
  /\ accepted = TRUE
  /\ rules = [ip \in Ips |-> {}]
  /\ blockedIps = <<>>

Idle == running /\ pc = "idle"

(* push_alert(): call_from_thread() queues it behind the handler in hand.  *)
PushAlert(ip) ==
  /\ Idle
  /\ lastAlert' = ip
  /\ UNCHANGED <<running, pc, target, next, accepted, rules, blockedIps>>

(* Mutant: an alert without a source passes the checks.                    *)
MayBlockNoSource(ip) == ip \notin Whitelist /\ ~IsBlocked(ip)

(* Mutant: the whitelist is not consulted.                                 *)
MayBlockAnyone(ip) == ip \in Ips /\ ~IsBlocked(ip)

(* Mutant: the table is not consulted.                                     *)
MayBlockAgain(ip) == ip \in Ips /\ ip \notin Whitelist

(* The checks of ResponseEngine.block().                                   *)
MayBlock(ip) == ip \in Ips /\ ip \notin Whitelist /\ ~IsBlocked(ip)

(* Key 'b', up to the first netsh call.                                    *)
BlockLast ==
  /\ Idle
  /\ MayBlock(lastAlert)
  /\ Len(blockedIps) < MaxRows
  /\ pc' = "adding"
  /\ target' = lastAlert
  /\ next' = 1
  /\ accepted' = TRUE
  /\ UNCHANGED <<running, lastAlert, rules, blockedIps>>

TakesEffect(outcome) == outcome \in {"ok", "hung_after"}

(* Mutant: only the last netsh call decides.                               *)
OkSoFarLast(outcome) == outcome = "ok"

(* ok = self._run(...) and ok                                              *)
OkSoFar(outcome) == outcome = "ok" /\ accepted

(* Mutant: a netsh call that hangs makes the loop start over.              *)
StartOver(i, outcome) == IF outcome \in {"hung_before", "hung_after"} THEN 1 ELSE i + 1

(* The loop goes on to the next direction, also after a failure.           *)
Following(i, outcome) == i + 1

(* One netsh "add rule"; after the last one, on to the table or refused.   *)
AddRule(outcome) ==
  /\ running /\ pc = "adding"
  /\ rules' = [rules EXCEPT ![target] =
                 IF TakesEffect(outcome) THEN @ \cup {Dirs[next]} ELSE @]
  /\ accepted' = OkSoFar(outcome)
  /\ next' = Following(next, outcome)
  /\ pc' = IF next' <= Len(Dirs) THEN "adding"
           ELSE IF accepted' THEN "recording" ELSE "idle"
  /\ UNCHANGED <<running, lastAlert, target, blockedIps>>

(* record_block()                                                          *)
RecordBlock ==
  /\ running /\ pc = "recording"
  /\ blockedIps' = Append(blockedIps, [ip |-> target, lifted |-> FALSE])
  /\ pc' = "idle"
  /\ UNCHANGED <<running, lastAlert, target, next, accepted, rules>>

(* Key 'u', up to the netsh call.                                          *)
UnblockLast ==
  /\ Idle
  /\ lastAlert \in Ips
  /\ IsBlocked(lastAlert)
  /\ pc' = "deleting"
  /\ target' = lastAlert
  /\ UNCHANGED <<running, lastAlert, next, accepted, rules, blockedIps>>

Confirmed(outcome) == outcome = "ok"

(* netsh fails when no rule has the name.                                  *)
DeleteOutcomes ==
  IF rules[target] = {} THEN (Outcomes \ {"ok"}) \cup {"rejected"} ELSE Outcomes

(* netsh "delete rule name=...": it takes every rule of that name.         *)
DeleteRules(outcome) ==
  /\ running /\ pc = "deleting"
  /\ outcome \in DeleteOutcomes
  /\ rules' = [rules EXCEPT ![target] = IF TakesEffect(outcome) THEN {} ELSE @]
  /\ pc' = IF Confirmed(outcome) THEN "lifting" ELSE "idle"
  /\ UNCHANGED <<running, lastAlert, target, next, accepted, blockedIps>>

FirstActive(ip) ==
  CHOOSE i \in ActiveRows(ip) : \A j \in ActiveRows(ip) : i <= j

(* record_unblock(): stamps the row that is still active.                  *)
RecordUnblock ==
  /\ running /\ pc = "lifting"
  /\ blockedIps' = [blockedIps EXCEPT ![FirstActive(target)].lifted = TRUE]
  /\ pc' = "idle"
  /\ UNCHANGED <<running, lastAlert, target, next, accepted, rules>>

Handler ==
  \/ \E outcome \in Outcomes : AddRule(outcome)
  \/ \E outcome \in Results : DeleteRules(outcome)
  \/ RecordBlock
  \/ RecordUnblock

(* The app forgets the last alert; the firewall and the table stay.        *)
Stop ==
  /\ running' = FALSE
  /\ pc' = "idle"
  /\ lastAlert' = NoAlert
  /\ UNCHANGED <<target, next, accepted, blockedIps>>

(* Key 'q'.                                                                *)
Quit == Idle /\ Stop /\ UNCHANGED rules

(* The process is killed inside a handler, or a database error in the      *)
(* handler ends the app.  A netsh call under way may still take effect.    *)
Die ==
  /\ Crashes /\ running /\ pc # "idle"
  /\ Stop
  /\ \/ UNCHANGED rules
     \/ pc = "adding" /\ rules' = [rules EXCEPT ![target] = @ \cup {Dirs[next]}]
     \/ pc = "deleting" /\ rules' = [rules EXCEPT ![target] = {}]

Restart ==
  /\ ~running
  /\ running' = TRUE
  /\ UNCHANGED <<lastAlert, pc, target, next, accepted, rules, blockedIps>>

Next ==
  \/ \E ip \in Ips \cup {NoIp} : PushAlert(ip)
  \/ BlockLast
  \/ UnblockLast
  \/ Handler
  \/ Quit
  \/ Die
  \/ Restart

Spec == Init /\ [][Next]_vars

(* A handler that has begun goes on: nothing on the event loop preempts    *)
(* it, and every netsh call returns after five seconds at the latest.      *)
HandlerSpec == Spec /\ WF_vars(Handler)
-----------------------------------------------------------------------------
(* In particular a handler works on an address, never on the source an     *)
(* alert does not have.                                                    *)
TypeOK ==
  /\ running \in BOOLEAN
  /\ lastAlert \in Ips \cup {NoIp, NoAlert}
  /\ pc \in {"idle", "adding", "recording", "deleting", "lifting"}
  /\ target \in Ips \cup {NoIp}
  /\ next \in 1 .. Len(Dirs) + 1
  /\ accepted \in BOOLEAN
  /\ rules \in [Ips -> SUBSET AllDirs]
  /\ blockedIps \in Seq(Row)
  /\ pc # "idle" => running /\ target \in Ips

(* The table is a log (db/models.py, BlockedIp): at any time an address    *)
(* has at most one active row, and it is the last one of that address,     *)
(* whatever fails or crashes on the way.                                   *)
OneActiveRow ==
  \A i, j \in 1 .. Len(blockedIps) :
    i < j /\ blockedIps[i].ip = blockedIps[j].ip => blockedIps[i].lifted

(* The order of the two stores (engine.py, lines 43-44 and 57-58): at the  *)
(* moment a row becomes active every rule of the address is in place, and  *)
(* at the moment a row is lifted none is left.                             *)
RowsFollowFirewall ==
  [][/\ Len(blockedIps') > Len(blockedIps) =>
          rules'[blockedIps'[Len(blockedIps')].ip] = AllDirs
     /\ \A i \in 1 .. Len(blockedIps) :
          blockedIps'[i].lifted /\ ~blockedIps[i].lifted =>
            rules'[blockedIps[i].ip] = {}]_vars

(* "IPs that can never be blocked": no rule, no row, not even after a      *)
(* failure.                                                                *)
WhitelistUntouched ==
  \A ip \in Whitelist : rules[ip] = {} /\ \A i \in 1 .. Len(blockedIps) : blockedIps[i].ip # ip

(* No handler holds the event loop forever (firewall.py, lines 15-17).     *)
HandlerReturns == pc # "idle" ~> pc = "idle"

(* Inductive: what each stop of a handler knows of the two stores.         *)
HandlerKnows ==
  /\ pc = "adding" =>
       /\ target \notin Whitelist /\ ~IsBlocked(target) /\ next <= Len(Dirs)
       /\ accepted => \A i \in 1 .. next - 1 : Dirs[i] \in rules[target]
  /\ pc = "recording" =>
       target \notin Whitelist /\ ~IsBlocked(target) /\ rules[target] = AllDirs
  /\ pc = "deleting" => IsBlocked(target)
  /\ pc = "lifting" => IsBlocked(target) /\ rules[target] = {}

IInv == TypeOK /\ OneActiveRow /\ WhitelistUntouched /\ HandlerKnows

(* engine.py, lines 57-58: "the DB can't mark an IP free while its rule    *)
(* still blocks traffic".                                                  *)
NoOrphanRule == pc = "idle" => \A ip \in Ips : rules[ip] # {} => IsBlocked(ip)
=============================================================================
