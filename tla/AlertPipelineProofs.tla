------------------------ MODULE AlertPipelineProofs -------------------------
(***************************************************************************)
(* Theorems about AlertPipeline, for any detectors and any number of       *)
(* alerts, through any failures, crashes and restarts; then about its      *)
(* composition with the web server, Feed.                                  *)
(***************************************************************************)
EXTENDS Feed, SequenceTheorems, FiniteSetTheorems, TLAPS

(* The elements of a sequence of which something is put on or taken off.   *)
LEMMA ElementsOfAppend ==
  ASSUME NEW S, NEW s \in Seq(S), NEW x \in S
  PROVE  /\ Append(s, x) \in Seq(S) /\ Len(s) \in Nat /\ Len(Append(s, x)) = Len(s) + 1
         /\ \A i \in 1 .. Len(s) : Append(s, x)[i] = s[i]
         /\ Append(s, x)[Len(s) + 1] = x /\ Append(s, x) # <<>>
         /\ Elements(Append(s, x)) = Elements(s) \cup {x}
<1> DEFINE t == Append(s, x)
           n == Len(s)
<1>1. /\ t \in Seq(S) /\ n \in Nat /\ Len(t) = n + 1 /\ t # <<>>
      /\ \A i \in 1 .. n : t[i] = s[i]
      /\ t[n + 1] = x
  BY AppendProperties, LenProperties
<1>2. Elements(s) = {s[i] : i \in 1 .. n} /\ Elements(t) = {t[i] : i \in 1 .. n + 1}
  BY <1>1 DEF Elements
<1> HIDE DEF t, n
<1>3. ASSUME NEW i \in 1 .. n + 1
      PROVE  t[i] \in Elements(s) \cup {x}
  <2>1. i \in 1 .. n \/ i = n + 1
    BY <1>1
  <2> QED
    BY <2>1, <1>1, <1>2
<1>4. ASSUME NEW i \in 1 .. n
      PROVE  s[i] \in Elements(t)
  <2>1. i \in 1 .. n + 1 /\ s[i] = t[i]
    BY <1>1
  <2> QED
    BY <2>1, <1>2
<1>5. x \in Elements(t)
  <2>1. n + 1 \in 1 .. n + 1
    BY <1>1
  <2> QED
    BY <2>1, <1>1, <1>2
<1>6. Elements(t) = Elements(s) \cup {x}
  BY <1>2, <1>3, <1>4, <1>5
<1> QED
  BY <1>1, <1>6 DEF t, n

Distinct(s) == \A i, j \in 1 .. Len(s) : s[i] = s[j] => i = j

LEMMA DistinctAppend ==
  ASSUME NEW S, NEW s \in Seq(S), NEW x \in S, Distinct(s), x \notin Elements(s)
  PROVE  Distinct(Append(s, x))
<1> DEFINE t == Append(s, x)
           n == Len(s)
<1>1. /\ n \in Nat /\ Len(t) = n + 1 /\ t[n + 1] = x
      /\ \A i \in 1 .. n : t[i] = s[i]
  BY ElementsOfAppend
<1>2. \A i \in 1 .. n : t[i] # x
  BY <1>1 DEF Elements
<1>3. \A i, j \in 1 .. n : s[i] = s[j] => i = j
  BY DEF Distinct
<1> HIDE DEF t, n
<1>4. ASSUME NEW i \in 1 .. n + 1, NEW j \in 1 .. n + 1, t[i] = t[j]
      PROVE  i = j
  <2>1. (i \in 1 .. n \/ i = n + 1) /\ (j \in 1 .. n \/ j = n + 1)
    BY <1>1
  <2> QED
    BY <2>1, <1>1, <1>2, <1>3, <1>4
<1>5. Distinct(t)
  BY <1>1, <1>4 DEF Distinct
<1> QED
  BY <1>5 DEF t

LEMMA DistinctTail ==
  ASSUME NEW S, NEW s \in Seq(S), s # <<>>, Distinct(s)
  PROVE  /\ Head(s) \in S /\ Tail(s) \in Seq(S) /\ Distinct(Tail(s))
         /\ Head(s) \in Elements(s) /\ Elements(Tail(s)) \subseteq Elements(s) \ {Head(s)}
<1> DEFINE t == Tail(s)
           n == Len(s)
<1>1. /\ t \in Seq(S) /\ n \in Nat \ {0} /\ Len(t) = n - 1
      /\ Head(s) = s[1] /\ Head(s) \in S
      /\ \A i \in 1 .. n - 1 : t[i] = s[i + 1]
  BY HeadTailProperties, EmptySeq
<1>2. \A i, j \in 1 .. n : s[i] = s[j] => i = j
  BY DEF Distinct
<1>3. Elements(s) = {s[i] : i \in 1 .. n} /\ Elements(t) = {t[i] : i \in 1 .. n - 1}
  BY <1>1 DEF Elements
<1> HIDE DEF t, n
<1>4. ASSUME NEW i \in 1 .. n - 1
      PROVE  i + 1 \in 1 .. n /\ i + 1 # 1 /\ 1 \in 1 .. n
  BY <1>1
<1>5. ASSUME NEW i \in 1 .. n - 1, NEW j \in 1 .. n - 1, t[i] = t[j]
      PROVE  i = j
  <2>1. s[i + 1] = s[j + 1]
    BY <1>1, <1>5
  <2>2. i + 1 = j + 1
    BY <2>1, <1>2, <1>4
  <2> QED
    BY <2>2, <1>1
<1>6. Distinct(t)
  BY <1>1, <1>5 DEF Distinct
<1>7. ASSUME NEW i \in 1 .. n - 1
      PROVE  t[i] \in Elements(s) \ {s[1]}
  BY <1>1, <1>2, <1>3, <1>4
<1>8. s[1] \in Elements(s)
  <2>1. 1 \in 1 .. n
    BY <1>1
  <2> QED
    BY <2>1, <1>3
<1> QED
  BY <1>1, <1>3, <1>6, <1>7, <1>8 DEF t

(* Different numbers up to n: there are at most n.                         *)
LEMMA DistinctBounded ==
  ASSUME NEW n \in Nat, NEW s \in Seq(1 .. n), Distinct(s)
  PROVE  Len(s) <= n
<1>1. Len(s) \in Nat /\ s \in [1 .. Len(s) -> 1 .. n]
  BY LenProperties
<1>2. s \in Injection(1 .. Len(s), 1 .. n)
  BY <1>1 DEF Distinct, Injection, IsInjective
<1>3. IsFiniteSet(1 .. n) /\ Cardinality(1 .. n) = n
  BY FS_Interval
<1>4. Cardinality(1 .. Len(s)) <= Cardinality(1 .. n)
  BY <1>2, <1>3, FS_Injection
<1>5. Cardinality(1 .. Len(s)) = Len(s)
  <2>1. \A m \in Nat : Cardinality(1 .. m) = m
    BY FS_Interval
  <2> QED
    BY <1>1, <2>1
<1> QED
  BY <1>3, <1>4, <1>5

-----------------------------------------------------------------------------
Loops == {"waiting", "saving", "showing", "pushing", "reporting", "notifying"}

(* What the steps need of IInv.                                            *)
LEMMA Facts ==
  ASSUME IInv
  PROVE  /\ issued \in Nat /\ issued <= MaxAlerts /\ MaxAlerts \in Nat
         /\ alertQueue \in Seq(Alerts) /\ saved \in Seq(Alerts) /\ panel \in Seq(Alerts)
         /\ Len(alertQueue) \in Nat /\ Len(saved) \in Nat /\ Len(panel) \in Nat
         /\ Distinct(alertQueue) /\ Distinct(saved)
         /\ \A d \in Detectors : draft[d] \in {0} \cup Alerts
         /\ Elements(alertQueue) \subseteq Alerts /\ Elements(saved) \subseteq Alerts
         /\ Len(saved) <= issued
         /\ alertCount \in Nat /\ alertCount <= Len(saved)
         /\ loop # "waiting" => alert \in Alerts /\ ui \in Up \cup {"starting", "closed"}
<1>1. /\ issued \in Nat /\ issued <= MaxAlerts /\ MaxAlerts \in Nat
      /\ alertQueue \in Seq(Alerts) /\ saved \in Seq(Alerts) /\ panel \in Seq(Alerts)
      /\ \A d \in Detectors : draft[d] \in {0} \cup Alerts
  BY PipelineAssumption DEF IInv, TypeOK
<1>2. Len(alertQueue) \in Nat /\ Len(saved) \in Nat /\ Len(panel) \in Nat
  BY <1>1, LenProperties
<1>3. Elements(alertQueue) \subseteq Alerts /\ Elements(saved) \subseteq Alerts
  BY <1>1, ElementOfSeq DEF Elements
<1>4. Distinct(alertQueue) /\ Distinct(saved)
  BY DEF IInv, OnePlace, EachOnceInOrder, Distinct
<1>5. Len(saved) <= issued
  <2>1. \A i \in 1 .. Len(saved) : saved[i] \in 1 .. issued
    <3>1. \A i \in 1 .. Len(saved) : saved[i] \in Elements(saved)
      BY DEF Elements
    <3>2. \A a \in Elements(saved) : a \in 1 .. issued
      BY <1>1, <1>3 DEF IInv, Stamped, Alerts
    <3> QED
      BY <3>1, <3>2
  <2>2. saved \in [1 .. Len(saved) -> 1 .. issued]
    BY <1>1, <2>1, LenProperties
  <2>3. saved \in Seq(1 .. issued)
    BY <1>2, <2>2, SeqDef
  <2> QED
    BY <1>1, <1>4, <2>3, DistinctBounded
<1>6. alertCount \in Nat /\ alertCount <= Len(saved)
  BY <1>1, <1>2 DEF IInv, TypeOK, InHand
<1>7. loop # "waiting" => alert \in Alerts /\ ui \in Up \cup {"starting", "closed"}
  BY DEF IInv, TypeOK, InHand
<1> QED
  BY <1>1, <1>2, <1>3, <1>4, <1>5, <1>6, <1>7

LEMMA Initially == Init => IInv
<1> SUFFICES ASSUME Init
             PROVE  IInv
  OBVIOUS
<1>1. /\ Len(saved) = 0 /\ Len(panel) = 0 /\ Len(alertQueue) = 0
      /\ Elements(alertQueue) = {} /\ Elements(saved) = {} /\ Elements(panel) = {}
  BY DEF Init, Elements
<1>2. TypeOK
  BY PipelineAssumption DEF Init, TypeOK, Alerts
<1>3. ShownIsSaved /\ EachOnceInOrder
  BY <1>1 DEF Init, ShownIsSaved, EachOnceInOrder
<1>4. Stamped /\ OnePlace
  BY <1>1 DEF Init, Stamped, OnePlace
<1>5. InHand
  BY <1>1 DEF Init, InHand, Showing
<1> QED
  BY <1>2, <1>3, <1>4, <1>5 DEF IInv

-----------------------------------------------------------------------------
(* Steps of the main thread that touch no alert.                           *)
LEMMA UiStep ==
  ASSUME IInv, UNCHANGED <<pipeline, saved, loop, alert, screen, failed>>,
         ui' \in {"starting", "closed"} \cup Up
  PROVE  IInv'
<1> USE DEF IInv, pipeline, screen
<1>1. TypeOK'
  BY DEF TypeOK
<1>2. ShownIsSaved' /\ EachOnceInOrder'
  BY DEF ShownIsSaved, EachOnceInOrder
<1>3. Stamped' /\ OnePlace'
  BY DEF Stamped, OnePlace
<1>4. InHand'
  BY DEF InHand, Showing, Up
<1> QED
  BY <1>1, <1>2, <1>3, <1>4

LEMMA StampStep ==
  ASSUME IInv, NEW d \in Detectors, Stamp(d)
  PROVE  IInv'
<1> USE DEF IInv
<1>1. /\ issued < MaxAlerts /\ issued' = issued + 1
      /\ draft' = [draft EXCEPT ![d] = issued + 1]
      /\ UNCHANGED <<alertQueue, saved, loop, alert, ui, screen, failed>>
  BY DEF Stamp
<1>2. /\ issued + 1 \in Alerts /\ issued' \in 0 .. MaxAlerts
      /\ \A a \in {0} \cup Alerts : a <= issued => a # issued + 1 /\ a <= issued'
  BY <1>1, Facts DEF Alerts
<1>3. /\ draft'[d] = issued + 1 /\ \A e \in Detectors \ {d} : draft'[e] = draft[e]
      /\ draft' \in [Detectors -> {0} \cup Alerts]
  BY <1>1, <1>2 DEF TypeOK
<1>4. TypeOK'
  BY <1>1, <1>2, <1>3 DEF TypeOK, screen
<1>5. ShownIsSaved' /\ EachOnceInOrder'
  BY <1>1 DEF ShownIsSaved, EachOnceInOrder, screen
<1>6. Stamped'
  <2>1. \A a \in Elements(alertQueue) \cup Elements(saved) : a <= issued'
    BY <1>2, Facts DEF Stamped
  <2>2. \A e \in Detectors : draft'[e] <= issued'
    <3>1. draft'[d] <= issued'
      BY <1>1, <1>3, Facts
    <3> QED
      BY <1>2, <1>3, <3>1, Facts DEF Stamped
  <2>3. alert <= issued'
    BY <1>2 DEF Stamped, TypeOK
  <2> QED
    BY <1>1, <2>1, <2>2, <2>3 DEF Stamped
<1>7. OnePlace'
  <2>1. \A e \in Detectors : draft[e] # issued + 1
    BY <1>2, Facts DEF Stamped
  <2>2. issued + 1 \notin Elements(alertQueue) \cup Elements(saved)
    BY <1>2, Facts DEF Stamped
  <2>3. alert # issued + 1
    BY <1>2 DEF Stamped, TypeOK
  <2> QED
    BY <1>1, <1>3, <2>1, <2>2, <2>3 DEF OnePlace
<1>8. InHand'
  BY <1>1 DEF InHand, Showing, screen
<1> QED
  BY <1>4, <1>5, <1>6, <1>7, <1>8

LEMMA PutStep ==
  ASSUME IInv, NEW d \in Detectors, Put(d)
  PROVE  IInv'
<1> USE DEF IInv
<1>1. /\ draft[d] # 0
      /\ alertQueue' = Append(alertQueue, draft[d])
      /\ draft' = [draft EXCEPT ![d] = 0]
      /\ UNCHANGED <<issued, saved, loop, alert, ui, screen, failed>>
  BY DEF Put
<1>2. draft[d] \in Alerts
  BY <1>1, Facts
<1>3. /\ alertQueue' \in Seq(Alerts) /\ Elements(alertQueue)' = Elements(alertQueue) \cup {draft[d]}
  BY <1>1, <1>2, Facts, ElementsOfAppend
<1>4. Distinct(alertQueue')
  <2>1. draft[d] \notin Elements(alertQueue)
    BY DEF OnePlace
  <2> QED
    BY <1>1, <1>2, <2>1, Facts, DistinctAppend
<1>5. /\ draft'[d] = 0 /\ \A e \in Detectors \ {d} : draft'[e] = draft[e]
      /\ draft' \in [Detectors -> {0} \cup Alerts]
  BY <1>1 DEF TypeOK
<1>6. TypeOK'
  BY <1>1, <1>3, <1>5 DEF TypeOK, screen
<1>7. ShownIsSaved' /\ EachOnceInOrder'
  BY <1>1 DEF ShownIsSaved, EachOnceInOrder, screen
<1>8. Stamped'
  <2>1. 0 <= issued
    BY Facts
  <2> QED
    BY <1>1, <1>3, <1>5, <2>1 DEF Stamped
<1>9. OnePlace'
  <2>1. 0 \notin Elements(alertQueue)' \cup Elements(saved)
    BY <1>2, <1>3, Facts DEF Alerts
  <2> QED
    BY <1>1, <1>3, <1>4, <1>5, <2>1 DEF OnePlace, Distinct
<1>10. InHand'
  BY <1>1 DEF InHand, Showing, screen
<1> QED
  BY <1>6, <1>7, <1>8, <1>9, <1>10

LEMMA GetStep ==
  ASSUME IInv, Get
  PROVE  IInv'
<1> USE DEF IInv
<1>1. /\ loop = "waiting" /\ alertQueue # <<>> /\ ui # "dead"
      /\ alert' = Head(alertQueue) /\ alertQueue' = Tail(alertQueue) /\ loop' = "saving"
      /\ UNCHANGED <<issued, draft, saved, ui, screen, failed>>
  BY DEF Get
<1>2. /\ alert' \in Alerts /\ alertQueue' \in Seq(Alerts) /\ Distinct(alertQueue')
      /\ alert' \in Elements(alertQueue)
      /\ Elements(alertQueue)' \subseteq Elements(alertQueue) \ {alert'}
  BY <1>1, Facts, DistinctTail
<1>3. TypeOK'
  BY <1>1, <1>2 DEF TypeOK, screen, Alerts
<1>4. ShownIsSaved' /\ EachOnceInOrder'
  BY <1>1 DEF ShownIsSaved, EachOnceInOrder, screen
<1>5. Stamped'
  BY <1>1, <1>2 DEF Stamped
<1>6. OnePlace'
  BY <1>1, <1>2 DEF OnePlace, Distinct
<1>7. InHand'
  BY <1>1 DEF InHand, Showing, screen
<1> QED
  BY <1>3, <1>4, <1>5, <1>6, <1>7

LEMMA SaveStep ==
  ASSUME IInv, Save
  PROVE  IInv'
<1> USE DEF IInv
<1>1. /\ loop = "saving" /\ saved' = Append(saved, alert) /\ loop' = "showing"
      /\ UNCHANGED <<issued, draft, alertQueue, alert, ui, screen, failed>>
  BY DEF Save, pipeline
<1>2. alert \in Alerts /\ alert # 0 /\ alert \notin Elements(saved)
  BY <1>1, Facts DEF OnePlace, Alerts
<1>3. /\ saved' \in Seq(Alerts) /\ saved' # <<>> /\ Len(saved') = Len(saved) + 1
      /\ \A i \in 1 .. Len(saved) : saved'[i] = saved[i]
      /\ saved'[Len(saved) + 1] = alert
      /\ Elements(saved)' = Elements(saved) \cup {alert}
  BY <1>1, <1>2, Facts, ElementsOfAppend
<1>4. Distinct(saved')
  BY <1>1, <1>2, Facts, DistinctAppend
<1>5. TypeOK'
  BY <1>1, <1>2, <1>3 DEF TypeOK, screen
<1>6. ShownIsSaved'
  BY <1>1, <1>3 DEF ShownIsSaved, screen, Elements
<1>7. EachOnceInOrder'
  <2>1. \A i \in 1 .. Len(panel) : panel[i] \in Elements(saved)
    BY DEF ShownIsSaved, Elements
  <2>2. ASSUME NEW i \in 1 .. Len(panel), NEW k \in 1 .. Len(saved'), panel[i] = saved'[k]
        PROVE  k \in 1 .. Len(saved) /\ panel[i] = saved[k]
    <3>1. k # Len(saved) + 1
      BY <1>2, <1>3, <2>1, <2>2
    <3>2. k \in 1 .. Len(saved)
      BY <3>1, <1>3, Facts
    <3> QED
      BY <3>2, <2>2, <1>3
  <2>3. panel' = panel
    BY <1>1 DEF screen
  <2> QED
    BY <1>4, <2>2, <2>3 DEF EachOnceInOrder, Distinct
<1>8. Stamped'
  BY <1>1, <1>3 DEF Stamped
<1>9. OnePlace'
  BY <1>1, <1>2, <1>3 DEF OnePlace
<1>10. InHand'
  <2>1. alert \notin Elements(panel)
    BY <1>2 DEF ShownIsSaved
  <2>2. Elements(panel)' = Elements(panel) /\ alertCount' = alertCount
    BY <1>1 DEF screen, Elements
  <2>3. alertCount + 1 <= Len(saved')
    BY <1>3, Facts
  <2>4. saved'[Len(saved')] = alert /\ ui # "dead"
    BY <1>1, <1>3 DEF InHand
  <2> QED
    BY <1>1, <1>3, <2>1, <2>2, <2>3, <2>4 DEF InHand, Showing
<1> QED
  BY <1>5, <1>6, <1>7, <1>8, <1>9, <1>10

(* Steps of _alert_loop() that touch nothing but itself and failed.        *)
LEMMA LoopStep ==
  ASSUME IInv, UNCHANGED <<pipeline, saved, ui, screen>>,
         loop # "waiting", loop' \in Loops \ {"saving"}, Showing' => Showing,
         \/ loop' # "waiting" /\ alert' = alert
         \/ loop' = "waiting" /\ alert' = 0,
         failed' \subseteq failed \cup {<<alert, ui>>}
  PROVE  IInv'
<1> USE DEF IInv, pipeline, screen
<1>1. alert \in Alerts /\ ui \in Up \cup {"starting", "closed"}
  BY Facts
<1>2. alert' \in {0} \cup Alerts /\ (alert' = 0 <=> loop' = "waiting")
  BY <1>1 DEF Alerts
<1>3. failed' \subseteq Alerts \X (Up \cup {"starting", "closed"})
  BY <1>1 DEF TypeOK
<1>4. TypeOK'
  BY <1>2, <1>3 DEF TypeOK, Loops
<1>5. ShownIsSaved' /\ EachOnceInOrder'
  BY DEF ShownIsSaved, EachOnceInOrder
<1>6. Stamped'
  <2>1. 0 <= issued
    BY Facts
  <2> QED
    BY <2>1 DEF Stamped
<1>7. OnePlace'
  BY DEF OnePlace
<1>8. ui # "dead"
  BY DEF InHand
<1>9. alertCount \in Nat /\ Len(saved) \in Nat
  BY Facts
<1>10. alertCount + (IF Showing' THEN 1 ELSE 0) <= Len(saved)
  BY <1>9 DEF InHand
<1>11. Showing' => saved # <<>> /\ alert' = saved[Len(saved)] /\ alert' \notin Elements(panel)
  BY DEF InHand, Showing
<1>12. InHand'
  BY <1>8, <1>10, <1>11 DEF InHand
<1> QED
  BY <1>4, <1>5, <1>6, <1>7, <1>12

(* The callback as far as it always gets: the alert is remembered.         *)
LEMMA RememberFacts ==
  ASSUME IInv, Remember
  PROVE  /\ loop = "pushing" /\ ui # "dead"
         /\ alert \in Alerts /\ alert \in Elements(saved) /\ alert \notin Elements(panel)
         /\ saved # <<>> /\ alert = saved[Len(saved)] /\ Len(saved) \in 1 .. Len(saved)
         /\ alertCount' = alertCount + 1 /\ lastAlert' = alert
         /\ alertCount + 1 <= Len(saved) /\ alertCount + 1 \in 0 .. MaxAlerts
         /\ UNCHANGED <<saved, ui, notices>>
<1>1. /\ loop = "pushing" /\ alertCount' = alertCount + 1 /\ lastAlert' = alert
      /\ UNCHANGED <<saved, ui, notices>>
  BY DEF Remember
<1>2. /\ saved # <<>> /\ alert = saved[Len(saved)] /\ alert \notin Elements(panel)
      /\ alertCount + 1 <= Len(saved) /\ ui # "dead"
  BY <1>1 DEF IInv, InHand, Showing
<1>3. Len(saved) \in 1 .. Len(saved)
  BY <1>2, Facts, EmptySeq
<1>4. alert \in Elements(saved)
  BY <1>2, <1>3 DEF Elements
<1>5. alertCount + 1 \in 0 .. MaxAlerts
  BY <1>2, Facts
<1> QED
  BY <1>1, <1>2, <1>3, <1>4, <1>5, Facts

LEMMA PushAlertStep ==
  ASSUME IInv, PushAlert
  PROVE  IInv'
<1> USE DEF IInv
<1>1. /\ Remember /\ panel' = Append(panel, alert) /\ loop' = "waiting" /\ alert' = 0
      /\ UNCHANGED <<issued, draft, alertQueue, failed>>
  BY DEF PushAlert, pipeline
<1>2. /\ alert \in Alerts /\ alert \in Elements(saved) /\ alert \notin Elements(panel)
      /\ alert = saved[Len(saved)] /\ Len(saved) \in 1 .. Len(saved)
      /\ alertCount' = alertCount + 1 /\ lastAlert' = alert
      /\ alertCount + 1 <= Len(saved) /\ alertCount + 1 \in 0 .. MaxAlerts
      /\ UNCHANGED <<saved, ui, notices>>
  BY <1>1, RememberFacts
<1>3. /\ panel' \in Seq(Alerts) /\ Len(panel') = Len(panel) + 1
      /\ \A i \in 1 .. Len(panel) : panel'[i] = panel[i]
      /\ panel'[Len(panel) + 1] = alert
      /\ Elements(panel)' = Elements(panel) \cup {alert}
  BY <1>1, <1>2, Facts, ElementsOfAppend
<1>4. TypeOK'
  BY <1>1, <1>2, <1>3 DEF TypeOK
<1>5. ShownIsSaved'
  <2>1. Elements(saved)' = Elements(saved) /\ Elements(panel) \subseteq Elements(saved)
    BY <1>2 DEF Elements, ShownIsSaved
  <2> QED
    BY <1>2, <1>3, <2>1 DEF ShownIsSaved
<1>6. EachOnceInOrder'
  <2> SUFFICES ASSUME NEW i \in 1 .. Len(panel'), NEW j \in 1 .. Len(panel'),
                      NEW k \in 1 .. Len(saved), NEW l \in 1 .. Len(saved),
                      i < j, panel'[i] = saved[k], panel'[j] = saved[l]
               PROVE  k < l
    BY <1>2 DEF EachOnceInOrder
  <2>1. i \in 1 .. Len(panel) /\ (j \in 1 .. Len(panel) \/ j = Len(panel) + 1)
    <3>1. Len(panel) \in Nat
      BY Facts
    <3>2. i \in 1 .. Len(panel) + 1 /\ j \in 1 .. Len(panel) + 1
      BY <1>3
    <3>3. i \in Int /\ j \in Int /\ i <= Len(panel) /\ j <= Len(panel) + 1
      BY <3>1, <3>2
    <3> QED
      BY <3>1, <3>2, <3>3
  <2>2. CASE j \in 1 .. Len(panel)
    BY <2>1, <2>2, <1>3 DEF EachOnceInOrder
  <2>3. CASE j = Len(panel) + 1
    <3>1. saved[l] = alert /\ saved[k] # alert
      BY <2>1, <2>3, <1>2, <1>3 DEF Elements
    <3>2. l = Len(saved) /\ k # Len(saved)
      BY <3>1, <1>2, Facts DEF Distinct
    <3> QED
      BY <3>2, Facts
  <2> QED
    BY <2>1, <2>2, <2>3
<1>7. Stamped'
  <2>1. 0 <= issued
    BY Facts
  <2> QED
    BY <2>1, <1>1, <1>2 DEF Stamped
<1>8. OnePlace'
  BY <1>1, <1>2 DEF OnePlace
<1>9. InHand'
  <2>1. alertCount + 1 + 0 <= Len(saved)
    BY <1>2, Facts
  <2> QED
    BY <1>1, <1>2, <2>1, Facts DEF InHand, Showing
<1> QED
  BY <1>4, <1>5, <1>6, <1>7, <1>8, <1>9

LEMMA PushRaisesStep ==
  ASSUME IInv, PushRaises
  PROVE  IInv'
<1> USE DEF IInv
<1>1. /\ Remember /\ loop' = "reporting" /\ failed' = failed \cup {<<alert, ui>>}
      /\ UNCHANGED <<issued, draft, alert, alertQueue, panel>>
  BY DEF PushRaises, Catch, Caught, QueueAfterFailure
<1>2. /\ loop = "pushing" /\ alert \in Alerts /\ alert \in Elements(saved) /\ ui # "dead"
      /\ alertCount' = alertCount + 1 /\ lastAlert' = alert
      /\ alertCount + 1 <= Len(saved) /\ alertCount + 1 \in 0 .. MaxAlerts
      /\ UNCHANGED <<saved, ui, notices>>
  BY <1>1, RememberFacts
<1>3. failed' \subseteq Alerts \X (Up \cup {"starting", "closed"})
  <2>1. ui \in Up \cup {"starting", "closed"}
    BY <1>2, Facts
  <2> QED
    BY <2>1, <1>1, <1>2 DEF TypeOK
<1>4. TypeOK'
  <2>1. alert # 0
    BY <1>2 DEF Alerts
  <2> QED
    BY <2>1, <1>1, <1>2, <1>3 DEF TypeOK
<1>5. ShownIsSaved' /\ EachOnceInOrder'
  <2>1. Elements(saved)' = Elements(saved) /\ Elements(panel)' = Elements(panel)
    BY <1>1, <1>2 DEF Elements
  <2>2. ShownIsSaved'
    BY <2>1, <1>2 DEF ShownIsSaved
  <2>3. EachOnceInOrder'
    BY <1>1, <1>2 DEF EachOnceInOrder
  <2> QED
    BY <2>2, <2>3
<1>6. Stamped' /\ OnePlace'
  BY <1>1, <1>2 DEF Stamped, OnePlace
<1>7. InHand'
  <2>1. alertCount + 1 + 0 <= Len(saved)
    BY <1>2, Facts
  <2> QED
    BY <1>1, <1>2, <2>1 DEF InHand, Showing
<1> QED
  BY <1>4, <1>5, <1>6, <1>7

LEMMA NotifyStep ==
  ASSUME IInv, Notify
  PROVE  IInv'
<1> USE DEF IInv
<1>1. /\ loop = "notifying" /\ notices' = notices \cup {alert} /\ loop' = "waiting" /\ alert' = 0
      /\ UNCHANGED <<issued, draft, alertQueue, saved, ui, lastAlert, alertCount, panel, failed>>
  BY DEF Notify, pipeline
<1>2. TypeOK'
  BY <1>1, Facts DEF TypeOK
<1>3. ShownIsSaved' /\ EachOnceInOrder'
  BY <1>1 DEF ShownIsSaved, EachOnceInOrder
<1>4. Stamped'
  <2>1. 0 <= issued
    BY Facts
  <2> QED
    BY <2>1, <1>1 DEF Stamped
<1>5. OnePlace'
  BY <1>1 DEF OnePlace
<1>6. InHand'
  BY <1>1 DEF InHand, Showing
<1> QED
  BY <1>2, <1>3, <1>4, <1>5, <1>6

LEMMA DieStep ==
  ASSUME IInv, Die
  PROVE  IInv'
<1> USE DEF IInv
<1>1. /\ ui' = "dead" /\ draft' = [d \in Detectors |-> 0]
      /\ alertQueue' = <<>> /\ loop' = "waiting" /\ alert' = 0
      /\ lastAlert' = 0 /\ alertCount' = 0 /\ panel' = <<>> /\ notices' = {} /\ failed' = {}
      /\ UNCHANGED <<issued, saved>>
  BY DEF Die
<1>2. Elements(panel)' = {} /\ Elements(alertQueue)' = {} /\ Elements(saved)' = Elements(saved)
      /\ Len(panel') = 0 /\ Len(alertQueue') = 0
  BY <1>1 DEF Elements
<1>3. TypeOK'
  BY <1>1, PipelineAssumption DEF TypeOK
<1>4. ShownIsSaved' /\ EachOnceInOrder'
  BY <1>1, <1>2 DEF ShownIsSaved, EachOnceInOrder
<1>5. Stamped'
  BY <1>1, <1>2, Facts DEF Stamped
<1>6. OnePlace'
  <2>1. 0 \notin Elements(saved)
    BY Facts DEF Alerts
  <2> QED
    BY <1>1, <1>2, <2>1 DEF OnePlace
<1>7. InHand'
  BY <1>1, Facts DEF InHand, Showing
<1> QED
  BY <1>3, <1>4, <1>5, <1>6, <1>7

-----------------------------------------------------------------------------
LEMMA Inductive == IInv /\ [Next]_vars => IInv'
<1> SUFFICES ASSUME IInv, [Next]_vars
             PROVE  IInv'
  OBVIOUS
<1>1. CASE UNCHANGED vars
  BY <1>1 DEF vars, pipeline, screen, IInv, TypeOK, ShownIsSaved, EachOnceInOrder, Stamped,
              OnePlace, InHand, Showing
<1>2. ASSUME NEW d \in Detectors, Stamp(d) \/ Put(d)
      PROVE  IInv'
  BY <1>2, StampStep, PutStep
<1>3. CASE Get \/ Save
  BY <1>3, GetStep, SaveStep
<1>4. CASE Show \/ Report
  BY <1>4, LoopStep DEF Show, Report, Showing, Loops
<1>5. CASE SaveRaises \/ ShowRaises \/ PushCancelled
  <2>1. /\ loop \in {"saving", "showing", "pushing"} /\ loop' = "reporting" /\ alert' = alert
        /\ failed' = failed \cup {<<alert, ui>>}
        /\ UNCHANGED <<pipeline, saved, ui, screen>>
    BY <1>5 DEF SaveRaises, ShowRaises, PushCancelled, Catch, Caught, QueueAfterFailure, pipeline
  <2> QED
    BY <2>1, LoopStep DEF Showing, Loops
<1>6. CASE ReportRaises
  <2>1. /\ loop \in {"reporting", "notifying"} /\ loop' = "waiting" /\ alert' = 0
        /\ UNCHANGED <<pipeline, saved, ui, screen, failed>>
    BY <1>6 DEF ReportRaises, AfterReport
  <2> QED
    BY <2>1, LoopStep DEF Showing, Loops
<1>7. CASE Run \/ KeyPressed \/ KeyHandled \/ Exit \/ Restart
  BY <1>7, UiStep DEF Run, KeyPressed, KeyHandled, Exit, Restart, Up
<1>8. CASE Callback
  BY <1>8, PushAlertStep, PushRaisesStep, NotifyStep DEF Callback
<1>9. CASE Die
  BY <1>9, DieStep
<1> QED
  BY <1>1, <1>2, <1>3, <1>4, <1>5, <1>6, <1>7, <1>8, <1>9 DEF Next, AlertLoop

LEMMA Invariance == Spec => []IInv
BY Initially, Inductive, PTL DEF Spec

(* The pipeline keeps its types; the UI never counts more alerts than were *)
(* raised (app.py, push_alert(): _alert_count).                            *)
THEOREM Typing == Spec => []TypeOK
<1>1. IInv => TypeOK
  BY DEF IInv
<1> QED
  BY <1>1, Invariance, PTL

(* main.py, line 29: "Persists alerts to DB and pushes them", in this      *)
(* order: what the operator sees, and what the keys b and u act on, is in  *)
(* the table, through any failure, exit, crash and restart.                *)
THEOREM NothingShownUnsaved == Spec => []ShownIsSaved
<1>1. IInv => ShownIsSaved
  BY DEF IInv
<1> QED
  BY <1>1, Invariance, PTL

(* No alert is saved twice, over all runs of the process, or shown twice   *)
(* or in another order than that of the table, however many detectors      *)
(* raise alerts between one another (main.py, _alert_loop()).              *)
THEOREM SavedOnceShownInOrder == Spec => []EachOnceInOrder
<1>1. IInv => EachOnceInOrder
  BY DEF IInv
<1> QED
  BY <1>1, Invariance, PTL
-----------------------------------------------------------------------------
(* Feed: the pipeline and the web server together.  What the server does   *)
(* leaves the pipeline alone.                                              *)
LEMMA FeedStep == [FeedNext]_<<vars, web>> => [Next]_vars
BY DEF FeedNext

(* The pipeline does as part of the whole what it does alone, so that all  *)
(* of the above holds of main.py with the server beside it.                *)
THEOREM PipelineUndisturbed == FeedSpec => Spec
<1>1. FeedInit => Init
  BY DEF FeedInit
<1> QED
  BY <1>1, FeedStep, PTL DEF FeedSpec, Spec

(* Of the whole, saved grows by Save, by one alert at a time and to no     *)
(* more rows than there are alerts.                                        *)
LEMMA SavedByPipeline ==
  ASSUME IInv, Next, saved' # saved
  PROVE  /\ Save /\ saved' = Append(saved, alert) /\ alert \in Alerts
         /\ Len(saved) < MaxAlerts
<1>1. Save
  BY DEF Next, AlertLoop, Callback, Stamp, Put, Get, Show, SaveRaises, ShowRaises, Report,
         ReportRaises, PushCancelled, Run, PushAlert, PushRaises, Remember, Notify, KeyPressed,
         KeyHandled, Exit, Die, Restart
<1>2. saved' = Append(saved, alert) /\ alert \in Alerts
  BY <1>1 DEF Save, IInv, TypeOK
<1>3. IInv'
  BY Inductive
<1>4. Len(saved') <= MaxAlerts
  BY <1>3, DistinctBounded, PipelineAssumption DEF IInv, TypeOK, EachOnceInOrder, Alerts, Distinct
<1>5. Len(saved') = Len(saved) + 1 /\ Len(saved) \in Nat
  BY <1>2, AppendProperties, LenProperties DEF IInv, TypeOK
<1> QED
  BY <1>1, <1>2, <1>4, <1>5, PipelineAssumption

(* The web server finds the table as Dashboard has it: rows are appended,  *)
(* in whatever order of their timestamps, and otherwise left alone.        *)
THEOREM WebServed == FeedSpec => Web!Spec
<1>1. FeedInit => Web!Init
  BY DEF FeedInit
<1>2. IInv /\ [FeedNext]_<<vars, web>> => [Web!Next]_Web!vars
  <2> SUFFICES ASSUME IInv, [FeedNext]_<<vars, web>>
               PROVE  [Web!Next]_Web!vars
    OBVIOUS
  <2>1. CASE saved' = saved /\ UNCHANGED web
    BY <2>1 DEF web, Web!vars, Web!server, Web!broadcaster, Web!handlers, Web!browser
  <2>2. CASE Next /\ UNCHANGED web /\ saved' # saved
    <3>1. Web!Save(alert)
      BY <2>2, SavedByPipeline
        DEF web, Web!Save, Web!server, Web!broadcaster, Web!handlers, Web!browser
    <3> QED
      BY <2>2, <3>1, SavedByPipeline DEF Web!Next
  <2>3. CASE Web!WebStep
    BY <2>3 DEF Web!Next
  <2> QED
    BY <2>1, <2>2, <2>3 DEF FeedNext, vars
<1> QED
  BY <1>1, <1>2, Invariance, PipelineUndisturbed, PTL DEF FeedSpec, Web!Spec
-----------------------------------------------------------------------------
(* The condition under which NothingSkipped does hold: no two detectors    *)
(* have an alert stamped and not yet on the queue at the same time.        *)
OneDraft == \A d, e \in Detectors : draft[d] # 0 /\ draft[e] # 0 => d = e

Ascending(s) == \A i, j \in 1 .. Len(s) : i < j => s[i] < s[j]

(* Then the alerts are in the order of their timestamps all the way: those *)
(* in the table before the one in hand, that one before those on the       *)
(* queue, and the one a detector holds after all of them.                  *)
InLine ==
  /\ Ascending(saved) /\ Ascending(alertQueue)
  /\ \A a \in Elements(saved), b \in Elements(alertQueue) : a < b
  /\ alert # 0 => \A b \in Elements(alertQueue) : alert < b
  /\ loop = "saving" => \A a \in Elements(saved) : a < alert
  /\ \A d \in Detectors : draft[d] # 0 =>
       alert < draft[d] /\ \A a \in Elements(saved) \cup Elements(alertQueue) : a < draft[d]

LEMMA AscendingAppend ==
  ASSUME NEW s \in Seq(Alerts), NEW x \in Alerts, Ascending(s),
         \A a \in Elements(s) : a < x
  PROVE  Ascending(Append(s, x))
<1> DEFINE t == Append(s, x)
<1>1. /\ Len(t) = Len(s) + 1 /\ Len(s) \in Nat /\ t[Len(s) + 1] = x
      /\ \A i \in 1 .. Len(s) : t[i] = s[i] /\ s[i] \in Elements(s)
  BY ElementsOfAppend DEF Elements
<1> SUFFICES ASSUME NEW i \in 1 .. Len(t), NEW j \in 1 .. Len(t), i < j
             PROVE  t[i] < t[j]
  BY DEF Ascending
<1> HIDE DEF t
<1>2. i \in 1 .. Len(s) /\ (j \in 1 .. Len(s) \/ j = Len(s) + 1)
  <2>1. i \in 1 .. Len(s) + 1 /\ j \in 1 .. Len(s) + 1
    BY <1>1
  <2> QED
    BY <1>1, <2>1
<1>3. CASE j \in 1 .. Len(s)
  BY <1>1, <1>2, <1>3 DEF Ascending
<1>4. CASE j = Len(s) + 1
  BY <1>1, <1>2, <1>4
<1> QED
  BY <1>2, <1>3, <1>4

LEMMA AscendingTail ==
  ASSUME NEW s \in Seq(Alerts), s # <<>>, Ascending(s)
  PROVE  /\ Ascending(Tail(s)) /\ Elements(Tail(s)) \subseteq Elements(s)
         /\ Head(s) \in Elements(s) /\ \A a \in Elements(Tail(s)) : Head(s) < a
<1> DEFINE t == Tail(s)
<1>1. /\ Len(s) \in Nat \ {0} /\ Head(s) = s[1] /\ Len(t) = Len(s) - 1
      /\ \A i \in 1 .. Len(t) : t[i] = s[i + 1]
  BY HeadTailProperties, LenProperties, EmptySeq
<1> HIDE DEF t
<1>2. \A i \in 1 .. Len(t) : i + 1 \in 1 .. Len(s) /\ 1 < i + 1
  BY <1>1
<1>3. 1 \in 1 .. Len(s)
  BY <1>1
<1>4. Ascending(t)
  <2> SUFFICES ASSUME NEW i \in 1 .. Len(t), NEW j \in 1 .. Len(t), i < j
               PROVE  t[i] < t[j]
    BY DEF Ascending
  <2>1. i + 1 < j + 1 /\ i + 1 \in 1 .. Len(s) /\ j + 1 \in 1 .. Len(s)
    BY <1>2
  <2>2. s[i + 1] < s[j + 1]
    BY <2>1 DEF Ascending
  <2> QED
    BY <2>2, <1>1
<1>5. ASSUME NEW a \in Elements(t)
      PROVE  a \in Elements(s) /\ Head(s) < a
  <2>1. PICK i \in 1 .. Len(t) : a = t[i]
    BY <1>5 DEF Elements
  <2>2. a = s[i + 1] /\ i + 1 \in 1 .. Len(s) /\ 1 < i + 1
    BY <2>1, <1>1, <1>2
  <2>3. s[1] < s[i + 1]
    BY <2>2, <1>3 DEF Ascending
  <2> QED
    BY <2>2, <2>3, <1>1 DEF Elements
<1> QED
  BY <1>1, <1>3, <1>4, <1>5 DEF t, Elements

LEMMA InLineInit == Init => InLine
<1> SUFFICES ASSUME Init PROVE InLine
  OBVIOUS
<1>1. Len(<<>>) = 0 /\ 1 .. 0 = {} /\ saved = <<>> /\ alertQueue = <<>>
  BY EmptySeq DEF Init
<1>2. Elements(saved) = {} /\ Elements(alertQueue) = {}
  BY <1>1 DEF Elements
<1> QED
  BY <1>1, <1>2 DEF Init, InLine, Ascending

(* Whatever of the line changes hands or is dropped, it stays in line.     *)
LEMMA InLineNext ==
  ASSUME IInv, InLine, OneDraft, [Next]_vars
  PROVE  InLine'
<1> USE DEF IInv
<1>a. \A a \in Elements(saved) \cup Elements(alertQueue) : a \in Alerts
  BY DEF TypeOK, Elements
<1>b. \A d \in Detectors : draft[d] \in {0} \cup Alerts
  BY DEF TypeOK
<1>c. Alerts \subseteq Int /\ 0 \in Int
  BY DEF Alerts
<1>d. alert \in {0} \cup Alerts /\ (alert = 0 <=> loop = "waiting")
  BY DEF TypeOK
<1>e. saved \in Seq(Alerts) /\ alertQueue \in Seq(Alerts) /\ issued \in Int
  BY DEF TypeOK
<1>0. /\ alert \in Int /\ \A d \in Detectors : draft[d] \in Int
      /\ \A a \in Elements(saved) \cup Elements(alertQueue) : a \in Int
  BY <1>a, <1>b, <1>c, <1>d
<1>1. ASSUME NEW d \in Detectors, Stamp(d) PROVE InLine'
  <2>1. /\ draft' = [draft EXCEPT ![d] = issued + 1] /\ draft \in [Detectors -> {0} \cup Alerts]
        /\ UNCHANGED <<alertQueue, saved, loop, alert>>
    BY <1>1 DEF Stamp, TypeOK
  <2>2. alert < issued + 1 /\ \A a \in Elements(saved) \cup Elements(alertQueue) : a < issued + 1
    <3>1. alert <= issued /\ \A a \in Elements(saved) \cup Elements(alertQueue) : a <= issued
      BY DEF Stamped
    <3>2. \A m, n \in Int : m <= n => m < n + 1
      OBVIOUS
    <3> QED
      BY <3>1, <3>2, <1>0, <1>e
  <2>3. \A e \in Detectors : draft'[e] = IF e = d THEN issued + 1 ELSE draft[e]
    BY <2>1
  <2> QED
    BY <2>1, <2>2, <2>3 DEF InLine, Ascending, Elements
<1>2. ASSUME NEW d \in Detectors, Put(d) PROVE InLine'
  <2>1. /\ draft[d] # 0 /\ draft[d] \in Alerts /\ alertQueue' = Append(alertQueue, draft[d])
        /\ \A e \in Detectors : draft'[e] = IF e = d THEN 0 ELSE draft[e]
        /\ UNCHANGED <<saved, loop, alert>>
    BY <1>2 DEF Put, TypeOK
  <2>2. /\ alert < draft[d]
        /\ \A a \in Elements(saved) \cup Elements(alertQueue) : a < draft[d]
    BY <2>1 DEF InLine
  <2>3. Ascending(alertQueue') /\ Elements(alertQueue)' = Elements(alertQueue) \cup {draft[d]}
    BY <1>e, <2>1, <2>2, AscendingAppend, ElementsOfAppend DEF InLine
  <2>4. \A e \in Detectors : e # d => draft[e] = 0
    BY <2>1 DEF OneDraft
  <2> QED
    BY <2>1, <2>2, <2>3, <2>4 DEF InLine, Ascending, Elements
<1>3. CASE Get
  <2>1. /\ alertQueue # <<>> /\ alert' = Head(alertQueue) /\ alertQueue' = Tail(alertQueue)
        /\ UNCHANGED <<draft, saved>>
    BY <1>3 DEF Get
  <2>2. /\ Ascending(alertQueue') /\ Elements(alertQueue)' \subseteq Elements(alertQueue)
        /\ alert' \in Elements(alertQueue) /\ \A a \in Elements(alertQueue)' : alert' < a
    BY <1>e, <2>1, AscendingTail DEF InLine, Elements
  <2> QED
    BY <2>1, <2>2 DEF InLine, Ascending, Elements
<1>4. CASE Save
  <2>1. /\ loop = "saving" /\ loop' = "showing" /\ saved' = Append(saved, alert) /\ alert \in Alerts
        /\ UNCHANGED <<draft, alertQueue, alert>>
    BY <1>4, <1>d DEF Save, pipeline
  <2>2. Ascending(saved') /\ Elements(saved)' = Elements(saved) \cup {alert}
    BY <1>e, <2>1, AscendingAppend, ElementsOfAppend DEF InLine
  <2>3. alert # 0
    BY <2>1, <1>d
  <2> QED
    BY <2>1, <2>2, <2>3 DEF InLine, Ascending, Elements
<1>5. CASE Die
  <2>1. /\ draft' = [d \in Detectors |-> 0] /\ alertQueue' = <<>> /\ loop' = "waiting"
        /\ alert' = 0 /\ saved' = saved
    BY <1>5 DEF Die
  <2>2. Len(<<>>) = 0 /\ 1 .. 0 = {}
    BY EmptySeq
  <2>3. Ascending(alertQueue') /\ Elements(alertQueue)' = {}
    BY <2>1, <2>2 DEF Ascending, Elements
  <2> QED
    BY <2>1, <2>3 DEF InLine, Ascending, Elements
<1>6. CASE /\ UNCHANGED <<draft, alertQueue, saved>>
           /\ loop' # "saving" /\ alert' \in {0, alert}
  <2>1. \A n \in Alerts : 0 < n
    BY DEF Alerts
  <2>2. \A d \in Detectors : draft[d] # 0 => 0 < draft[d]
    BY <2>1, <1>b
  <2> QED
    BY <1>6, <2>2 DEF InLine, Ascending, Elements
<1>7. CASE UNCHANGED <<draft, alertQueue, saved, loop, alert>>
  BY <1>7 DEF InLine, Ascending, Elements
<1> QED
  BY <1>1, <1>2, <1>3, <1>4, <1>5, <1>6, <1>7
    DEF Next, AlertLoop, Callback, Show, SaveRaises, ShowRaises, Catch, Caught, QueueAfterFailure,
        Report, ReportRaises, AfterReport, PushCancelled, Run, PushAlert, PushRaises, Remember,
        Notify, KeyPressed, KeyHandled, Exit, Restart, vars, pipeline
-----------------------------------------------------------------------------
(* Dashboard where alerts are saved in the order of their timestamps: what *)
(* is proved of it there is cited here.  But for the rows that may be      *)
(* saved, it takes the same steps as the server of Feed.                   *)
Ordered == INSTANCE DashboardProofs WITH
  rows <- saved, Stamps <- Alerts, Cutoff <- 1, MaxRows <- MaxAlerts,
  InOrder <- TRUE, PollFails <- FALSE

LEMMA SameRecent ==
  /\ Web!Recent = Ordered!Recent /\ Web!OldestFirst = Ordered!OldestFirst
  /\ Web!Greatest(Web!Recent) = Ordered!Greatest(Ordered!Recent)
<1>1. \A S : Web!Cardinality(S) = Ordered!Cardinality(S)
  BY Zenon DEF Web!Cardinality, Ordered!Cardinality
<1>2. Web!Recent = Ordered!Recent
  BY Zenon DEF Web!Recent, Ordered!Recent
<1>3. Web!OldestFirst = Ordered!OldestFirst
  BY <1>1, <1>2, Zenon DEF Web!OldestFirst, Ordered!OldestFirst, Web!Before, Ordered!Before
<1>4. Web!Greatest(Web!Recent) = Ordered!Greatest(Ordered!Recent)
  <2>1. \A S : Web!Greatest(S) = Ordered!Greatest(S)
    BY Zenon DEF Web!Greatest, Ordered!Greatest
  <2> QED
    BY <1>2, <2>1
<1> QED
  BY <1>2, <1>3, <1>4

LEMMA SameStep == Web!WebStep => Ordered!WebStep
<1> USE DEF Web!broadcaster, Ordered!broadcaster, Web!handlers, Ordered!handlers,
            Web!server, Ordered!server, Web!browser, Ordered!browser
<1>1. Web!Poll => Ordered!Poll
  BY SameRecent, Zenon DEF Web!Poll, Ordered!Poll, Web!Asleep, Ordered!Asleep
<1>2. Web!Examine => Ordered!Examine
  BY Zenon DEF Web!Examine, Ordered!Examine, Web!IsNew, Ordered!IsNew, Web!Audience, Ordered!Audience
<1>3. ASSUME NEW t \in Sockets, Web!Push(t) PROVE Ordered!Push(t)
  BY <1>3, Zenon DEF Web!Push, Ordered!Push, Web!Open, Ordered!Open, Web!Deliver, Ordered!Deliver
<1>4. Web!PollRaises => Ordered!PollRaises
  BY Zenon DEF Web!PollRaises, Ordered!PollRaises, Web!Asleep, Ordered!Asleep
<1>5. ASSUME NEW p \in Pages, Web!Connect(p) PROVE Ordered!Connect(p)
  BY <1>5, Zenon DEF Web!Connect, Ordered!Connect, Web!Unused, Ordered!Unused
<1>6. ASSUME NEW p \in Pages, Web!Load(p) \/ Web!Reconnect(p) \/ Web!Close(p) \/ Web!Lose(p)
      PROVE  Ordered!Load(p) \/ Ordered!Reconnect(p) \/ Ordered!Close(p) \/ Ordered!Lose(p)
  BY <1>5, <1>6, Zenon DEF Web!Load, Ordered!Load, Web!Reconnect, Ordered!Reconnect,
    Web!Close, Ordered!Close, Web!Lose, Ordered!Lose
<1>7. ASSUME NEW t \in Sockets, Web!Query(t) PROVE Ordered!Query(t)
  BY <1>7, SameRecent, Zenon DEF Web!Query, Ordered!Query, Web!AfterSending, Ordered!AfterSending
<1>8. ASSUME NEW t \in Sockets, Web!Replay(t) \/ Web!ReplayRaises(t) \/ Web!Disconnect(t)
      PROVE  Ordered!Replay(t) \/ Ordered!ReplayRaises(t) \/ Ordered!Disconnect(t)
  BY <1>8, Zenon DEF Web!Replay, Ordered!Replay, Web!ReplayRaises, Ordered!ReplayRaises,
    Web!Disconnect, Ordered!Disconnect, Web!AfterSending, Ordered!AfterSending,
    Web!Deliver, Ordered!Deliver, Web!Open, Ordered!Open
<1>9. Web!Crash \/ Web!Restart => Ordered!Crash \/ Ordered!Restart
  BY SameRecent, Zenon DEF Web!Crash, Ordered!Crash, Web!Restart, Ordered!Restart
<1>10. ASSUME NEW t \in Sockets, Web!QueryRaises(t) PROVE Ordered!QueryRaises(t)
  BY <1>10, Zenon DEF Web!QueryRaises, Ordered!QueryRaises
<1> QED
  BY <1>1, <1>2, <1>3, <1>4, <1>6, <1>7, <1>8, <1>9, <1>10, Zenon
    DEF Web!WebStep, Ordered!WebStep, Web!Broadcaster, Ordered!Broadcaster, Web!Handler, Ordered!Handler

(* Kept in line, the rows a server finds are those of a table in order.    *)
LEMMA OrderedServed == FeedSpec /\ []OneDraft => Ordered!Spec
<1>1. FeedInit => Ordered!Init
  <2> SUFFICES ASSUME Init, Web!Init PROVE Ordered!Init
    BY DEF FeedInit
  <2>1. Len(<<>>) = 0 /\ saved = <<>> /\ 1 .. 0 = {}
    BY EmptySeq DEF Init
  <2>2. \A i, j \in 1 .. Len(saved) : i < j => saved[i] <= saved[j]
    BY <2>1
  <2> QED
    BY <2>2, SameRecent, Zenon DEF Web!Init, Ordered!Init
<1>2. IInv /\ InLine /\ [FeedNext]_<<vars, web>> => [Ordered!Next]_Ordered!vars
  <2> SUFFICES ASSUME IInv, InLine, [FeedNext]_<<vars, web>>
               PROVE  [Ordered!Next]_Ordered!vars
    OBVIOUS
  <2>1. CASE saved' = saved /\ UNCHANGED web
    BY <2>1 DEF web, Ordered!vars, Ordered!server, Ordered!broadcaster, Ordered!handlers,
                Ordered!browser
  <2>2. CASE Next /\ UNCHANGED web /\ saved' # saved
    <3>1. Save /\ saved' = Append(saved, alert) /\ alert \in Alerts /\ Len(saved) < MaxAlerts
      BY <2>2, SavedByPipeline
    <3>2. \A i \in 1 .. Len(saved) : saved[i] <= alert
      <4>1. \A i \in 1 .. Len(saved) : saved[i] \in Elements(saved) /\ saved[i] \in Alerts
        BY DEF Elements, IInv, TypeOK
      <4>2. \A i \in 1 .. Len(saved) : saved[i] < alert
        BY <3>1, <4>1 DEF Save, InLine
      <4>3. \A m, n \in Alerts : m < n => m <= n
        BY DEF Alerts
      <4> QED
        BY <4>1, <4>2, <4>3, <3>1
    <3>3. Ordered!Save(alert)
      BY <2>2, <3>1, <3>2
        DEF web, Ordered!Save, Ordered!server, Ordered!broadcaster, Ordered!handlers, Ordered!browser
    <3> QED
      BY <3>1, <3>3 DEF Ordered!Next
  <2>3. CASE Web!WebStep
    BY <2>3, SameStep DEF Ordered!Next
  <2> QED
    BY <2>1, <2>2, <2>3 DEF FeedNext, vars
<1>3. FeedInit => InLine
  BY InLineInit DEF FeedInit
<1>4. IInv /\ InLine /\ OneDraft /\ [FeedNext]_<<vars, web>> => InLine'
  BY InLineNext, FeedStep
<1> QED
  BY <1>1, <1>2, <1>3, <1>4, Invariance, PipelineUndisturbed, PTL DEF FeedSpec, Ordered!Spec

(* server.py, line 93, where it is true: while no two detectors hold an    *)
(* alert between its timestamp and the queue, and times only increase,     *)
(* every alert saved is broadcast, once and in order.                      *)
THEOREM NothingSkippedInLine ==
  ASSUME Web!DashboardAssumption
  PROVE  FeedSpec /\ []OneDraft => []NothingSkipped
<1>1. Ordered!DashboardAssumption
  BY PipelineAssumption DEF Web!DashboardAssumption, Ordered!DashboardAssumption
<1>2. Ordered!Spec => []Ordered!NothingSkipped
  BY <1>1, Ordered!NoAlertSkipped DEF Ordered!NoAlertSkipped
<1>3. Ordered!NothingSkipped => NothingSkipped
  BY SameRecent DEF NothingSkipped, Web!NothingSkipped, Ordered!NothingSkipped,
         Web!PushedInOrder, Ordered!PushedInOrder
<1> QED
  BY <1>2, <1>3, OrderedServed, PTL

(* In particular one detector alone, whose timestamps increase, never      *)
(* makes the server skip an alert, whatever fails or crashes on either     *)
(* side.                                                                   *)
THEOREM OneDetectorSkipsNothing ==
  ASSUME Web!DashboardAssumption, \A d, e \in Detectors : d = e
  PROVE  FeedSpec => []NothingSkipped
<1>1. OneDraft
  BY DEF OneDraft
<1>2. FeedSpec /\ []OneDraft => []NothingSkipped
  BY NothingSkippedInLine
<1> QED
  BY <1>1, <1>2, PTL
=============================================================================
