---------------------------- MODULE EventWindow -----------------------------
(***************************************************************************)
(* One SlidingWindow in the hands of a detector, and what it is for: the   *)
(* answer of count(), distinct() and total() right after add() or prune()  *)
(* is the answer of somebody who remembers every event.                    *)
(*                                                                         *)
(* The clock is the packets' timestamps, so the module lets it step back   *)
(* too (an NTP correction, a pcap whose packets are out of order).         *)
(***************************************************************************)
EXTENDS SlidingWindow

CONSTANTS Window,        \* window_seconds
          Keys,          \* what events are counted by
          Steps,         \* bound: by how much the time of the next event differs
          MaxTime,       \* bound: the end of the modelled time
          MaxEvents      \* bound: how many events are added between two clear()s

ASSUME EventAssumption ==
  Window \in Nat \ {0} /\ Steps \subseteq Int /\ MaxTime \in Nat /\ MaxEvents \in Nat

VARIABLES window,        \* the SlidingWindow object
          now,           \* the time of the last call
          history,       \* for the properties: every event since the last clear(),
          monotone       \* and has the clock not stepped back since then?

vars == <<window, now, history, monotone>>

Init == window = NewWindow(Window) /\ now = 0 /\ history = <<>> /\ monotone = TRUE

Times(d) ==
  /\ now + d \in 0 .. MaxTime /\ now' = now + d
  /\ monotone' = (monotone /\ d >= 0)

AddEvent(d, key) ==
  /\ Len(history) < MaxEvents
  /\ Times(d)
  /\ window' = Add(window, now', key)
  /\ history' = Append(history, [ts |-> now', key |-> key])

PruneTo(d) ==
  /\ Times(d)
  /\ window' = Prune(window, now')
  /\ UNCHANGED history

Clear ==
  /\ window' = Cleared(window)
  /\ history' = <<>> /\ monotone' = TRUE
  /\ UNCHANGED now

Next == \/ \E d \in Steps, key \in Keys : AddEvent(d, key)
        \/ \E d \in Steps : PruneTo(d)
        \/ Clear

Spec == Init /\ [][Next]_vars
-----------------------------------------------------------------------------
Events == [ts : Int, key : Keys]

(* The deque holds events and the Counter positive numbers: a key whose    *)
(* events have all expired is deleted, or distinct() would count it.       *)
TypeOK ==
  /\ now \in Int /\ monotone \in BOOLEAN
  /\ window = [seconds |-> Window, log |-> window.log, counts |-> window.counts]
  /\ window.log \in Seq(Events)
  /\ window.counts \in [DOMAIN window.counts -> Nat \ {0}]
  /\ DOMAIN window.counts \subseteq Keys

(* The two structures agree (sliding_window.py, lines 9-15): the Counter   *)
(* holds how often each key is in the deque.  This must survive any clock. *)
CountsMatchLog ==
  \A k \in Keys : CountOf(window, k) = Occurrences(window.log, k)

(* While the clock does not step back, and again after every clear(), the  *)
(* window holds exactly the events of the last Window seconds, both ends   *)
(* included.                                                               *)
Recent(key) == {i \in 1 .. Len(history) :
                  history[i].key = key /\ history[i].ts >= now - Window}

CountsExact ==
  monotone =>
    /\ \A k \in Keys : CountOf(window, k) = Cardinality(Recent(k))
    /\ Distinct(window) = Cardinality({k \in Keys : Recent(k) # {}})
    /\ Total(window) = Cardinality(UNION {Recent(k) : k \in Keys})

(* Inductive, for CountsExact: while the clock does not step back, the     *)
(* events are in order of time, the deque is the end of them, and what is  *)
(* missing from it is what has expired.                                    *)
EndOf(events, log, time) ==
  LET missing == Len(events) - Len(log)
  IN  /\ events \in Seq(Events) /\ missing >= 0
      /\ \A i, j \in 1 .. Len(events) : i <= j => events[i].ts <= events[j].ts
      /\ \A i \in 1 .. Len(events) : events[i].ts <= time
      /\ \A i \in 1 .. Len(log) : log[i] = events[missing + i]
      /\ \A i \in 1 .. Len(events) : events[i].ts >= time - Window <=> i > missing

LogIsRecent == monotone => EndOf(history, window.log, now)
=============================================================================
