--------------------------- MODULE ResponseProofs ---------------------------
(***************************************************************************)
(* Theorems about Response, for every set of addresses, every whitelist,   *)
(* every list of directions, and every way netsh calls and the process can *)
(* fail.                                                                   *)
(***************************************************************************)
EXTENDS Response, SequenceTheorems, TLAPS

LEMMA DirsFacts ==
  /\ Len(Dirs) \in Nat \ {0}
  /\ \A i \in 1 .. Len(Dirs) : Dirs[i] \in AllDirs
<1>1. Len(Dirs) \in Nat \ {0}
  BY ResponseAssumption, EmptySeq, LenProperties
<1> QED
  BY <1>1 DEF AllDirs

(* The actions that leave the table alone leave alone what it says.        *)
LEMMA SameTable ==
  ASSUME blockedIps' = blockedIps, OneActiveRow
  PROVE  OneActiveRow' /\ \A ip : IsBlocked(ip)' = IsBlocked(ip)
BY DEF OneActiveRow, IsBlocked, ActiveRows

(* An address with an active row has exactly one, and FirstActive is it.   *)
LEMMA TheActiveRow ==
  ASSUME TypeOK, OneActiveRow, NEW ip \in Ips, IsBlocked(ip)
  PROVE  /\ FirstActive(ip) \in 1 .. Len(blockedIps)
         /\ blockedIps[FirstActive(ip)].ip = ip
         /\ ActiveRows(ip) = {FirstActive(ip)}
<1>1. PICK i \in ActiveRows(ip) : TRUE
  BY DEF IsBlocked
<1>2. Len(blockedIps) \in Nat
  BY LenProperties DEF TypeOK
<1>3. \A j \in ActiveRows(ip) : j = i
  BY <1>2 DEF OneActiveRow, ActiveRows
<1>4. ActiveRows(ip) = {i} /\ i \in 1 .. Len(blockedIps) /\ blockedIps[i].ip = ip
  BY <1>1, <1>3 DEF ActiveRows
<1>5. FirstActive(ip) = i
  BY <1>2, <1>4 DEF FirstActive
<1> QED
  BY <1>4, <1>5

(* record_block() appends an active row: to an address that had none.      *)
LEMMA RecordBlockRows ==
  ASSUME IInv, RecordBlock
  PROVE  /\ blockedIps' \in Seq(Row) /\ OneActiveRow'
         /\ Len(blockedIps') = Len(blockedIps) + 1
         /\ blockedIps'[Len(blockedIps')] = [ip |-> target, lifted |-> FALSE]
         /\ \A i \in 1 .. Len(blockedIps) : blockedIps'[i] = blockedIps[i]
<1> DEFINE row == [ip |-> target, lifted |-> FALSE]
<1>1. row \in Row /\ blockedIps \in Seq(Row) /\ target \in Ips
  BY DEF IInv, TypeOK, RecordBlock, Row
<1>2. /\ blockedIps' \in Seq(Row)
      /\ Len(blockedIps') = Len(blockedIps) + 1
      /\ blockedIps'[Len(blockedIps) + 1] = row
      /\ \A i \in 1 .. Len(blockedIps) : blockedIps'[i] = blockedIps[i]
  BY <1>1, AppendProperties DEF RecordBlock
<1>3. Len(blockedIps) \in Nat
  BY <1>1, LenProperties
<1>4. \A i \in 1 .. Len(blockedIps) : blockedIps[i].ip = target => blockedIps[i].lifted
  BY DEF IInv, HandlerKnows, RecordBlock, IsBlocked, ActiveRows
<1>5. OneActiveRow'
  <2> SUFFICES ASSUME NEW i \in 1 .. Len(blockedIps'), NEW j \in 1 .. Len(blockedIps'),
                      i < j, blockedIps'[i].ip = blockedIps'[j].ip
               PROVE  blockedIps'[i].lifted
    BY DEF OneActiveRow
  <2>1. i \in 1 .. Len(blockedIps) /\ blockedIps'[i] = blockedIps[i]
    BY <1>2, <1>3
  <2>2. CASE j = Len(blockedIps) + 1
    BY <1>2, <1>4, <2>1, <2>2
  <2>3. CASE j \in 1 .. Len(blockedIps)
    BY <1>2, <2>1, <2>3 DEF IInv, OneActiveRow
  <2> QED
    BY <1>2, <1>3, <2>2, <2>3
<1> QED
  BY <1>2, <1>5

(* record_unblock() stamps the one active row of the target.               *)
LEMMA RecordUnblockRows ==
  ASSUME IInv, RecordUnblock
  PROVE  /\ blockedIps' \in Seq(Row) /\ OneActiveRow'
         /\ Len(blockedIps') = Len(blockedIps)
         /\ \A i \in 1 .. Len(blockedIps) :
              /\ blockedIps'[i].ip = blockedIps[i].ip
              /\ blockedIps'[i].lifted # blockedIps[i].lifted => blockedIps[i].ip = target
<1> DEFINE f == FirstActive(target)
           r == [blockedIps[f] EXCEPT !.lifted = TRUE]
<1>1. target \in Ips /\ IsBlocked(target) /\ blockedIps \in Seq(Row)
  BY DEF IInv, TypeOK, HandlerKnows, RecordUnblock
<1>2. f \in 1 .. Len(blockedIps) /\ blockedIps[f].ip = target
  BY <1>1, TheActiveRow DEF IInv
<1> HIDE DEF f
<1>3. blockedIps[f] \in Row /\ r \in Row /\ r.ip = target /\ r.lifted = TRUE
  <2>1. blockedIps[f] \in Row
    BY <1>1, <1>2, ElementOfSeq
  <2> QED
    BY <1>2, <2>1 DEF Row
<1>4. blockedIps' = [blockedIps EXCEPT ![f] = r]
  BY DEF RecordUnblock, f
<1> HIDE DEF r
<1>5. /\ blockedIps' \in Seq(Row)
      /\ Len(blockedIps') = Len(blockedIps)
      /\ \A i \in 1 .. Len(blockedIps) :
           blockedIps'[i] = IF i = f THEN r ELSE blockedIps[i]
  BY <1>1, <1>2, <1>3, <1>4, ExceptSeq
<1>6. OneActiveRow'
  BY <1>2, <1>3, <1>5 DEF IInv, OneActiveRow
<1> QED
  BY <1>2, <1>3, <1>5, <1>6

-----------------------------------------------------------------------------
(* IInv is inductive.                                                      *)
THEOREM Inductive == Spec => []IInv
<1>1. Init => IInv
  <2> SUFFICES ASSUME Init PROVE IInv
    OBVIOUS
  <2>1. TypeOK
    BY DirsFacts, EmptySeq DEF Init, TypeOK
  <2>2. Len(blockedIps) = 0
    BY EmptySeq DEF Init
  <2>3. OneActiveRow /\ WhitelistUntouched
    BY <2>2, ResponseAssumption DEF Init, OneActiveRow, WhitelistUntouched
  <2>4. HandlerKnows
    BY DEF Init, HandlerKnows
  <2> QED
    BY <2>1, <2>3, <2>4 DEF IInv
<1>2. IInv /\ [Next]_vars => IInv'
  <2> SUFFICES ASSUME IInv, [Next]_vars PROVE IInv'
    OBVIOUS
  <2> USE DEF IInv
  <2>1. ASSUME NEW ip \in Ips \cup {NoIp}, PushAlert(ip) PROVE IInv'
    BY <2>1, SameTable
    DEF PushAlert, Idle, TypeOK, WhitelistUntouched, HandlerKnows
  <2>2. CASE BlockLast
    BY <2>2, SameTable, DirsFacts
    DEF BlockLast, Idle, MayBlock, TypeOK, WhitelistUntouched, HandlerKnows
  <2>3. CASE UnblockLast
    BY <2>3, SameTable
    DEF UnblockLast, Idle, TypeOK, WhitelistUntouched, HandlerKnows
  <2>4. ASSUME NEW outcome \in Outcomes, AddRule(outcome) PROVE IInv'
    <3> USE <2>4 DEF AddRule
    <3>1. /\ target \in Ips /\ target \notin Whitelist /\ ~IsBlocked(target)
          /\ next \in 1 .. Len(Dirs) /\ next' = next + 1
          /\ accepted' \in BOOLEAN
          /\ Dirs[next] \in AllDirs
          /\ rules \in [Ips -> SUBSET AllDirs]
          /\ accepted => \A i \in 1 .. next - 1 : Dirs[i] \in rules[target]
      BY DirsFacts DEF TypeOK, HandlerKnows, Following, OkSoFar
    <3>2. OneActiveRow' /\ \A ip : IsBlocked(ip)' = IsBlocked(ip)
      BY SameTable
    <3>3. /\ rules' \in [Ips -> SUBSET AllDirs]
          /\ \A ip \in Ips \ {target} : rules'[ip] = rules[ip]
          /\ rules[target] \subseteq rules'[target]
          /\ TakesEffect(outcome) => Dirs[next] \in rules'[target]
      BY <3>1
    <3>4. TypeOK'
      BY <3>1, <3>3, DirsFacts DEF TypeOK
    <3>5. WhitelistUntouched'
      BY <3>1, <3>3, ResponseAssumption DEF WhitelistUntouched
    <3>6. accepted' => \A i \in 1 .. next' - 1 : Dirs[i] \in rules'[target]
      <4> SUFFICES ASSUME accepted', NEW i \in 1 .. next PROVE Dirs[i] \in rules'[target]
        BY <3>1
      <4>1. outcome = "ok" /\ accepted
        BY Zenon DEF OkSoFar
      <4>2. Dirs[next] \in rules'[target]
        BY <3>3, <4>1 DEF TakesEffect
      <4>3. i # next => Dirs[i] \in rules[target]
        BY <3>1, <4>1
      <4> QED
        BY <3>3, <4>2, <4>3
    <3>7. accepted' /\ next' > Len(Dirs) => rules'[target] = AllDirs
      <4> SUFFICES ASSUME accepted', next' > Len(Dirs) PROVE AllDirs \subseteq rules'[target]
        BY <3>1, <3>3
      <4> QED
        BY <3>1, <3>6, DirsFacts DEF AllDirs
    <3>8. HandlerKnows'
      BY <3>1, <3>2, <3>6, <3>7, DirsFacts DEF HandlerKnows
    <3> QED
      BY <3>2, <3>4, <3>5, <3>8
  <2>5. ASSUME NEW outcome \in Results, DeleteRules(outcome) PROVE IInv'
    <3> USE <2>5 DEF DeleteRules
    <3>1. target \in Ips /\ IsBlocked(target)
      BY DEF TypeOK, HandlerKnows
    <3>2. OneActiveRow' /\ \A ip : IsBlocked(ip)' = IsBlocked(ip)
      BY SameTable
    <3>3. /\ rules' \in [Ips -> SUBSET AllDirs]
          /\ \A ip \in Ips : rules[ip] = {} => rules'[ip] = {}
          /\ Confirmed(outcome) => rules'[target] = {}
      BY <3>1 DEF TypeOK, Confirmed, TakesEffect
    <3>4. TypeOK'
      BY <3>1, <3>3 DEF TypeOK
    <3>5. WhitelistUntouched'
      BY <3>3, ResponseAssumption DEF WhitelistUntouched
    <3>6. HandlerKnows'
      BY <3>1, <3>2, <3>3 DEF HandlerKnows
    <3> QED
      BY <3>2, <3>4, <3>5, <3>6
  <2>6. CASE RecordBlock
    <3>1. TypeOK'
      BY <2>6, RecordBlockRows DEF RecordBlock, TypeOK
    <3>2. WhitelistUntouched'
      <4>1. target \notin Whitelist /\ Len(blockedIps) \in Nat
        BY <2>6, LenProperties DEF RecordBlock, HandlerKnows, TypeOK
      <4> QED
        BY <2>6, <4>1, RecordBlockRows DEF RecordBlock, WhitelistUntouched
    <3>3. HandlerKnows'
      BY <2>6 DEF RecordBlock, HandlerKnows
    <3> QED
      BY <2>6, <3>1, <3>2, <3>3, RecordBlockRows
  <2>7. CASE RecordUnblock
    <3>1. TypeOK'
      BY <2>7, RecordUnblockRows DEF RecordUnblock, TypeOK
    <3>2. WhitelistUntouched'
      BY <2>7, RecordUnblockRows DEF RecordUnblock, WhitelistUntouched
    <3>3. HandlerKnows'
      BY <2>7 DEF RecordUnblock, HandlerKnows
    <3> QED
      BY <2>7, <3>1, <3>2, <3>3, RecordUnblockRows
  <2>8. CASE Quit
    BY <2>8, SameTable
    DEF Quit, Stop, Idle, TypeOK, WhitelistUntouched, HandlerKnows
  <2>9. CASE Die
    <3> USE <2>9 DEF Die, Stop
    <3>1. target \in Ips
      BY DEF TypeOK
    <3>2. /\ rules' \in [Ips -> SUBSET AllDirs]
          /\ \A ip \in Whitelist : rules'[ip] = {}
      BY <3>1, DirsFacts, ResponseAssumption DEF TypeOK, WhitelistUntouched, HandlerKnows
    <3>3. TypeOK' /\ WhitelistUntouched' /\ HandlerKnows'
      BY <3>1, <3>2 DEF TypeOK, WhitelistUntouched, HandlerKnows
    <3> QED
      BY <3>3, SameTable
  <2>10. CASE Restart
    BY <2>10, SameTable
    DEF Restart, TypeOK, WhitelistUntouched, HandlerKnows
  <2>11. CASE UNCHANGED vars
    BY <2>11, SameTable
    DEF vars, TypeOK, WhitelistUntouched, HandlerKnows
  <2> QED
    BY <2>1, <2>2, <2>3, <2>4, <2>5, <2>6, <2>7, <2>8, <2>9, <2>10, <2>11
    DEF Next, Handler
<1> QED
  BY <1>1, <1>2, PTL DEF Spec

(* Type correctness of the handlers' state and of the two stores.          *)
THEOREM Typing == Spec => []TypeOK
BY Inductive, PTL DEF IInv

(* blocked_ips stays a log: at most one active row per address, its last.  *)
THEOREM TableIsALog == Spec => []OneActiveRow
BY Inductive, PTL DEF IInv

(* What block_ip() and unblock_ip() found when they began holds wherever    *)
(* they stop: between the check and the row no netsh call, failed rollback *)
(* or restart makes the address blocked or takes a rule away.              *)
THEOREM HandlersKnow == Spec => []HandlerKnows
BY Inductive, PTL DEF IInv

(* A whitelisted address gets neither a rule nor a row.                    *)
THEOREM WhitelistSafe == Spec => []WhitelistUntouched
BY Inductive, PTL DEF IInv

(* A row becomes active with every rule in place, and is lifted with none  *)
(* left, whatever netsh and the process do.                                *)
THEOREM FirewallFirst == Spec => RowsFollowFirewall
<1> DEFINE A == /\ Len(blockedIps') > Len(blockedIps) =>
                     rules'[blockedIps'[Len(blockedIps')].ip] = AllDirs
                /\ \A i \in 1 .. Len(blockedIps) :
                     blockedIps'[i].lifted /\ ~blockedIps[i].lifted =>
                       rules'[blockedIps[i].ip] = {}
<1>1. IInv /\ [Next]_vars => [A]_vars
  <2> SUFFICES ASSUME IInv, Next PROVE A
    OBVIOUS
  <2>1. CASE blockedIps' = blockedIps
    <3>1. Len(blockedIps) \in Nat
      BY LenProperties DEF IInv, TypeOK
    <3> QED
      BY <2>1, <3>1
  <2>2. CASE RecordBlock
    <3>1. rules[target] = AllDirs /\ rules' = rules
      BY <2>2 DEF RecordBlock, IInv, HandlerKnows
    <3> QED
      BY <2>2, <3>1, RecordBlockRows
  <2>3. CASE RecordUnblock
    <3>1. rules[target] = {} /\ rules' = rules /\ Len(blockedIps) \in Nat
      BY <2>3, LenProperties DEF RecordUnblock, IInv, HandlerKnows, TypeOK
    <3> QED
      BY <2>3, <3>1, RecordUnblockRows
  <2> QED
    BY <2>1, <2>2, <2>3
    DEF Next, Handler, PushAlert, BlockLast, UnblockLast, AddRule, DeleteRules,
        Quit, Die, Stop, Restart
<1> QED
  BY <1>1, Inductive, PTL DEF Spec, RowsFollowFirewall
-----------------------------------------------------------------------------
(* Who is blocked after a row has been written: the target too, or all but *)
(* the target.                                                             *)
LEMMA BlockedAfterRecord ==
  ASSUME IInv, RecordBlock, NEW ip \in Ips
  PROVE  IsBlocked(ip)' = (IsBlocked(ip) \/ ip = target)
<1>1. /\ Len(blockedIps') = Len(blockedIps) + 1
      /\ blockedIps'[Len(blockedIps) + 1] = [ip |-> target, lifted |-> FALSE]
      /\ \A i \in 1 .. Len(blockedIps) : blockedIps'[i] = blockedIps[i]
      /\ Len(blockedIps) \in Nat
  BY RecordBlockRows, LenProperties DEF IInv, TypeOK
<1>2. ActiveRows(ip)' = ActiveRows(ip) \cup (IF ip = target THEN {Len(blockedIps) + 1} ELSE {})
  BY <1>1 DEF ActiveRows
<1> QED
  BY <1>2 DEF IsBlocked

LEMMA BlockedAfterUnblock ==
  ASSUME IInv, RecordUnblock, NEW ip \in Ips
  PROVE  IsBlocked(ip)' = (IsBlocked(ip) /\ ip # target)
<1> DEFINE f == FirstActive(target)
<1>1. target \in Ips /\ IsBlocked(target) /\ blockedIps \in Seq(Row)
  BY DEF IInv, TypeOK, HandlerKnows, RecordUnblock
<1>2. f \in 1 .. Len(blockedIps) /\ blockedIps[f].ip = target /\ ActiveRows(target) = {f}
  BY <1>1, TheActiveRow DEF IInv
<1>3. /\ blockedIps' = [blockedIps EXCEPT ![f].lifted = TRUE]
      /\ blockedIps[f] \in Row
  BY <1>1, <1>2, ElementOfSeq DEF RecordUnblock
<1> HIDE DEF f
<1>4. blockedIps'[f].lifted
  BY <1>1, <1>2, <1>3, LenProperties DEF Row
<1>5. /\ Len(blockedIps') = Len(blockedIps)
      /\ \A i \in 1 .. Len(blockedIps) :
           /\ blockedIps'[i].ip = blockedIps[i].ip
           /\ blockedIps'[i].lifted # blockedIps[i].lifted => blockedIps[i].ip = target
  BY RecordUnblockRows
<1>6. CASE ip = target
  <2>1. \A i \in 1 .. Len(blockedIps) : blockedIps[i].ip = target /\ i # f => blockedIps[i].lifted
    BY <1>2 DEF ActiveRows
  <2>2. \A i \in 1 .. Len(blockedIps) : i # f => blockedIps'[i] = blockedIps[i]
    BY <1>1, <1>2, <1>3, LenProperties
  <2>3. ActiveRows(ip)' = {}
    BY <1>4, <1>5, <1>6, <2>1, <2>2 DEF ActiveRows
  <2> QED
    BY <1>6, <2>3 DEF IsBlocked
<1>7. CASE ip # target
  <2>1. ActiveRows(ip)' = ActiveRows(ip)
    <3>1. \A i \in 1 .. Len(blockedIps) : blockedIps[i].ip = ip =>
            (blockedIps'[i].lifted = blockedIps[i].lifted)
      BY <1>5, <1>7
    <3> QED
      BY <1>5, <3>1 DEF ActiveRows
  <2> QED
    BY <1>7, <2>1 DEF IsBlocked
<1> QED
  BY <1>6, <1>7

(* No netsh call that is given up after its timeout has taken effect.      *)
NetshHonest == "hung_after" \notin Outcomes

(* engine.py, lines 43-44: "so the DB never claims an IP is blocked when   *)
(* it isn't".  Between the two stores an unblock is on its way.  It takes  *)
(* that no netsh call is given up and takes effect all the same, and that  *)
(* the process does not die in a handler.                                  *)
RowsEnforced ==
  \A ip \in Ips :
    IsBlocked(ip) /\ ~(pc = "lifting" /\ target = ip) => rules[ip] = AllDirs

THEOREM ClaimsEnforced ==
  ASSUME NetshHonest, ~Crashes
  PROVE  Spec => []RowsEnforced
<1>1. Init => RowsEnforced
  <2> SUFFICES ASSUME Init PROVE RowsEnforced
    OBVIOUS
  <2>1. 1 .. Len(blockedIps) = {}
    BY EmptySeq DEF Init
  <2> QED
    BY <2>1 DEF RowsEnforced, IsBlocked, ActiveRows
<1>2. IInv /\ RowsEnforced /\ [Next]_vars => RowsEnforced'
  <2> SUFFICES ASSUME IInv, RowsEnforced, [Next]_vars PROVE RowsEnforced'
    OBVIOUS
  <2> USE DEF IInv
  <2>1. ASSUME NEW outcome \in Outcomes, AddRule(outcome) PROVE RowsEnforced'
    <3>1. /\ ~IsBlocked(target) /\ pc # "lifting" /\ rules \in [Ips -> SUBSET AllDirs]
          /\ blockedIps' = blockedIps /\ target' = target
          /\ \A ip \in Ips \ {target} : rules'[ip] = rules[ip]
      BY <2>1 DEF AddRule, HandlerKnows, TypeOK
    <3> QED
      BY <3>1, SameTable DEF RowsEnforced
  <2>2. ASSUME NEW outcome \in Results, DeleteRules(outcome) PROVE RowsEnforced'
    <3>1. /\ pc = "deleting" /\ outcome # "hung_after" /\ target' = target
          /\ blockedIps' = blockedIps /\ rules \in [Ips -> SUBSET AllDirs]
          /\ \A ip \in Ips \ {target} : rules'[ip] = rules[ip]
          /\ \/ rules' = rules
             \/ pc' = "lifting"
      BY <2>2 DEF DeleteRules, DeleteOutcomes, TakesEffect, Confirmed, TypeOK, NetshHonest
    <3> QED
      BY <3>1, SameTable DEF RowsEnforced
  <2>3. CASE RecordBlock
    <3>1. rules[target] = AllDirs /\ rules' = rules /\ pc = "recording"
      BY <2>3 DEF RecordBlock, HandlerKnows
    <3> QED
      BY <2>3, <3>1, BlockedAfterRecord DEF RowsEnforced
  <2>4. CASE RecordUnblock
    BY <2>4, BlockedAfterUnblock DEF RecordUnblock, RowsEnforced
  <2>5. CASE UNCHANGED <<blockedIps, rules>> /\ pc # "lifting" /\ pc' # "lifting"
    BY <2>5, SameTable DEF RowsEnforced
  <2>6. CASE UNCHANGED <<blockedIps, rules, pc, target>>
    BY <2>6, SameTable DEF RowsEnforced
  <2> QED
    BY <2>1, <2>2, <2>3, <2>4, <2>5, <2>6
    DEF Next, Handler, PushAlert, BlockLast, UnblockLast, Quit, Idle, Stop, Die, Restart, vars
<1> QED
  BY <1>1, <1>2, Inductive, PTL DEF Spec

(* With one direction, as in config.yaml (line 47), a block that fails     *)
(* leaves no rule behind.                                                  *)
NoStrayRule ==
  /\ \A ip \in Ips : rules[ip] # {} => IsBlocked(ip) \/ (pc = "recording" /\ target = ip)
  /\ pc = "adding" => accepted /\ rules[target] = {}

(* engine.py, lines 57-58, where it is true.  None of the three hypotheses *)
(* can be left out; that on the directions is what response_orphan shows.  *)
THEOREM NoOrphanOneDirection ==
  ASSUME NetshHonest, ~Crashes, Len(Dirs) = 1
  PROVE  Spec => []NoOrphanRule
<1>1. Init => NoStrayRule
  BY DEF Init, NoStrayRule
<1>2. IInv /\ NoStrayRule /\ [Next]_vars => NoStrayRule'
  <2> SUFFICES ASSUME IInv, NoStrayRule, [Next]_vars PROVE NoStrayRule'
    OBVIOUS
  <2> USE DEF IInv
  <2>1. ASSUME NEW outcome \in Outcomes, AddRule(outcome) PROVE NoStrayRule'
    <3>1. /\ next = 1 /\ accepted /\ rules[target] = {} /\ pc = "adding" /\ target' = target
          /\ blockedIps' = blockedIps /\ rules \in [Ips -> SUBSET AllDirs] /\ target \in Ips
          /\ \A ip \in Ips \ {target} : rules'[ip] = rules[ip]
          /\ outcome # "ok" => rules'[target] = {}
      BY <2>1 DEF AddRule, HandlerKnows, TypeOK, NoStrayRule, NetshHonest, TakesEffect
    <3>2. pc' # "adding" /\ (outcome = "ok" => pc' = "recording")
      <4>1. next' = 2 /\ ~(2 <= Len(Dirs))
        BY <2>1, <3>1 DEF AddRule, Following
      <4>2. pc' = IF accepted' THEN "recording" ELSE "idle"
        BY <2>1, <4>1, Zenon DEF AddRule
      <4>3. outcome = "ok" => accepted'
        BY <2>1, <3>1, Zenon DEF AddRule, OkSoFar
      <4> QED
        BY <4>2, <4>3
    <3> QED
      BY <3>1, <3>2, SameTable DEF NoStrayRule
  <2>2. ASSUME NEW outcome \in Results, DeleteRules(outcome) PROVE NoStrayRule'
    <3>1. /\ pc = "deleting" /\ pc' # "adding" /\ blockedIps' = blockedIps
          /\ \A ip \in Ips : rules'[ip] = rules[ip] \/ rules'[ip] = {}
      BY <2>2 DEF DeleteRules, TypeOK
    <3> QED
      BY <3>1, SameTable DEF NoStrayRule
  <2>3. CASE RecordBlock
    BY <2>3, BlockedAfterRecord DEF RecordBlock, NoStrayRule
  <2>4. CASE RecordUnblock
    <3>1. rules[target] = {}
      BY <2>4 DEF RecordUnblock, HandlerKnows
    <3> QED
      BY <2>4, <3>1, BlockedAfterUnblock DEF RecordUnblock, NoStrayRule
  <2>5. CASE BlockLast
    <3>1. ~IsBlocked(lastAlert) /\ lastAlert \in Ips /\ pc = "idle"
      BY <2>5 DEF BlockLast, MayBlock, Idle
    <3> QED
      BY <2>5, <3>1, SameTable DEF BlockLast, NoStrayRule
  <2>6. CASE UNCHANGED <<blockedIps, rules>> /\ pc = "idle" /\ pc' # "adding"
    BY <2>6, SameTable DEF NoStrayRule
  <2>7. CASE UNCHANGED <<blockedIps, rules, pc, target, accepted>>
    BY <2>7, SameTable DEF NoStrayRule
  <2> QED
    BY <2>1, <2>2, <2>3, <2>4, <2>5, <2>6, <2>7
    DEF Next, Handler, PushAlert, UnblockLast, Quit, Idle, Stop, Die, Restart, vars
<1>3. NoStrayRule => NoOrphanRule
  BY DEF NoStrayRule, NoOrphanRule
<1> QED
  BY <1>1, <1>2, <1>3, Inductive, PTL DEF Spec
=============================================================================
