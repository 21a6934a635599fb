---------------------------- MODULE Suppression -----------------------------
(***************************************************************************)
(* What a cooldown promises, with no dictionary and no pruning: a timer    *)
(* per key.  Suppressing a key winds its timer to Period; time runs every  *)
(* timer down to zero; a key is suppressed while its timer is not zero.    *)
(***************************************************************************)
EXTENDS Integers

CONSTANTS Keys,          \* what an alert is suppressed by, e.g. (src_ip, type)
          Period,        \* how long an alert silences its key
          MaxStep        \* bound: the longest time between two calls

VARIABLE remaining       \* remaining[k]: how much longer k stays suppressed

TypeOK == remaining \in [Keys -> 0 .. Period]

Init == remaining = [k \in Keys |-> 0]

Suppress(k) == remaining' = [remaining EXCEPT ![k] = Period]

Elapse(d) == remaining' = [k \in Keys |-> IF remaining[k] > d THEN remaining[k] - d ELSE 0]

Next == \/ \E k \in Keys : Suppress(k)
        \/ \E d \in 1 .. MaxStep : Elapse(d)

Spec == Init /\ [][Next]_remaining
=============================================================================
