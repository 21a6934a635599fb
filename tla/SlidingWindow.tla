--------------------------- MODULE SlidingWindow ----------------------------
(***************************************************************************)
(* core/utils/sliding_window.py: the event counter the detectors share.    *)
(* A window has a length in seconds, and keeps the same events twice, as   *)
(* the class does: `log`, the deque of (timestamp, key) pairs, oldest      *)
(* arrival first, and `counts`, the Counter, here a partial function from  *)
(* keys to numbers.                                                        *)
(***************************************************************************)
EXTENDS Integers, Sequences, FiniteSets

NewWindow(seconds) == [seconds |-> seconds, log |-> <<>>, counts |-> [k \in {} |-> 0]]

CountOf(w, key) == IF key \in DOMAIN w.counts THEN w.counts[key] ELSE 0

Total(w) == Len(w.log)

Distinct(w) == Cardinality(DOMAIN w.counts)

IsEmpty(w) == w.log = <<>>

(* Mutant: an event exactly one window old has expired.                    *)
ExpiredInclusive(event, cutoff) == event.ts <= cutoff

(* self._log[0][0] < cutoff                                                *)
Expired(event, cutoff) == event.ts < cutoff

(* How many events the loop pops: it stops at the first one that is not    *)
(* expired, whatever comes after it.                                       *)
Stale(log, cutoff) ==
  Cardinality({n \in 1 .. Len(log) : \A i \in 1 .. n : Expired(log[i], cutoff)})

Occurrences(log, key) == Cardinality({i \in 1 .. Len(log) : log[i].key = key})

(* Mutant: the Counter keeps a key whose count has reached zero.           *)
KeepZero(count) == count >= 0

StillCounted(count) == count > 0

(* Pops n events, takes them off the counts, and deletes the keys that     *)
(* reach zero.                                                             *)
Popped(w, n) ==
  LET Left == [k \in DOMAIN w.counts |->
                 w.counts[k] - Occurrences(SubSeq(w.log, 1, n), k)]
  IN  [seconds |-> w.seconds,
       log |-> SubSeq(w.log, n + 1, Len(w.log)),
       counts |-> [k \in {j \in DOMAIN Left : StillCounted(Left[j])} |-> Left[k]]]

Prune(w, now) == Popped(w, Stale(w.log, now - w.seconds))

(* Mutant: a key seen again is not counted again.                          *)
CountedOnce(w, key) ==
  [k \in DOMAIN w.counts \cup {key} |-> IF k = key THEN 1 ELSE w.counts[k]]

(* self._counts[key] += 1                                                  *)
Counted(w, key) ==
  [k \in DOMAIN w.counts \cup {key} |->
     IF k = key THEN CountOf(w, key) + 1 ELSE w.counts[k]]

Pushed(w, now, key) ==
  [seconds |-> w.seconds,
   log |-> Append(w.log, [ts |-> now, key |-> key]),
   counts |-> Counted(w, key)]

Add(w, now, key) == Pushed(Prune(w, now), now, key)

(* clear()                                                                 *)
Cleared(w) == NewWindow(w.seconds)

(* A detector's dictionary of windows: the one of a key, new if there is   *)
(* none, and the dictionary with that of a key set.                        *)
WindowOf(ws, key, seconds) == IF key \in DOMAIN ws THEN ws[key] ELSE NewWindow(seconds)

With(ws, key, w) == [k \in DOMAIN ws \cup {key} |-> IF k = key THEN w ELSE ws[k]]

(* prune_idle_windows(): prunes every window of the dictionary and drops   *)
(* those left empty.                                                       *)
NonEmpty(ws) == [k \in {j \in DOMAIN ws : ~IsEmpty(ws[j])} |-> ws[k]]

PruneIdle(ws, now) == NonEmpty([k \in DOMAIN ws |-> Prune(ws[k], now)])
=============================================================================
