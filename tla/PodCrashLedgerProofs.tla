------------------------ MODULE PodCrashLedgerProofs ------------------------
(***************************************************************************)
(* More theorems about the PodCrash controller: it comes to rest only with *)
(* every crash annotated, it implements CrashLedger, and it counts a crash *)
(* in an Event about a crash like it.                                      *)
(***************************************************************************)
EXTENDS PodCrashProofs, FiniteSetTheorems

-----------------------------------------------------------------------------
(* The last reconcile *)

(* A pod that follows none has not crashed yet. *)
Beginning == {v \in PodObjects \X PodObjects :
                Exists(v[1]) \/ ~Exists(v[2]) \/ NewestTermination(v[2]) = Never}

Chained == \A p \in Pods : /\ Newest(podCache[p], podWatch[p]) = pods[p]
                           /\ Linked(Beginning, podCache[p], podWatch[p])

(* No crash is left to report, and none will be (Generate). *)
Quiet(p) == \/ NewestTermination(pods[p]) = Never
            \/ pods[p].reported = NewestTermination(pods[p]).time
            \/ pods[p].state = "terminated" /\ "Killing" \in podEvents[p]

(* The worker is about to read the stored version of the pod, or goes on with it. *)
Seen(p) == /\ locals.key = p
           /\ pc = "getPod" \/ (pc \in PastGetPod /\ locals.pod = pods[p])

Awaited(p) == podWatch[p] # <<>> \/ p \in queued

LastReportCurrent ==
    faults = 0 /\ restarts = 0 =>
      \A p \in Apps : Exists(pods[p]) /\ owner[p] = "lrp" => Awaited(p) \/ Quiet(p) \/ Seen(p)

(* Nothing is cached, and nothing on its way.                                 *)
LEMMA ChainedInit == Init => Chained
<1> SUFFICES ASSUME Init, NEW p \in Pods
             PROVE  /\ Newest(podCache[p], podWatch[p]) = pods[p]
                    /\ Linked(Beginning, podCache[p], podWatch[p])
  BY DEF Chained
<1>1. pods[p] = NoPod /\ podCache[p] = NoPod /\ podWatch[p] = <<>>
  BY DEF Init
<1>2. Len(podWatch[p]) = 0
  BY <1>1
<1> QED BY <1>1, <1>2 DEF Newest, Linked

(* Every step keeps the versions linked and the newest one the stored one.    *)
LEMMA ChainedInductive ==
    ASSUME TypeOK, TypeOK', Held, Chained, [Next]_vars
    PROVE  Chained'
<1> SUFFICES ASSUME NEW p \in Pods
             PROVE  /\ Newest(podCache'[p], podWatch'[p]) = pods'[p]
                    /\ Linked(Beginning, podCache'[p], podWatch'[p])
  BY DEF Chained
<1>1. /\ pods[p] \in PodObjects /\ podCache[p] \in PodObjects /\ podWatch[p] \in Seq(PodObjects)
      /\ pods'[p] \in PodObjects
  BY DEF TypeOK
<1>2. /\ Newest(podCache[p], podWatch[p]) = pods[p]
      /\ Linked(Beginning, podCache[p], podWatch[p])
  BY DEF Chained
<1>3. CASE Rests(p)
  BY <1>2, <1>3 DEF Rests
<1>4. CASE Writes(p)
  <2>1. Moves(p)
    BY PodSteps
  <2>2. <<pods[p], pods'[p]>> \in Beginning
    <3>1. LastCrash(pods'[p]) = 0 => NewestTermination(pods'[p]) = Never
      BY <1>1, PodTypes, TerminationTypes DEF LastCrash
    <3>2. pods'[p].uid = pods[p].uid \/ pods'[p].uid = 0 \/ LastCrash(pods'[p]) = 0
      BY <2>1 DEF Moves, Unmoved, Fresh, Gone, Crashed, Marked
    <3> QED BY <1>1, <3>1, <3>2 DEF Beginning, Exists
  <2>3. Newest(podCache[p], Published(podWatch[p], pods[p], pods'[p])) = pods'[p]
    BY <1>1, <1>2, NewestPublished
  <2>4. Linked(Beginning, podCache[p], Published(podWatch[p], pods[p], pods'[p]))
    BY <1>1, <1>2, <2>2, LinkedPublished
  <2> QED BY <1>4, <2>3, <2>4 DEF Writes
<1>5. CASE Delivers(p)
  <2>1. podWatch[p] # <<>>
    BY <1>5 DEF Delivers
  <2>2. Newest(Head(podWatch[p]), Tail(podWatch[p])) = pods[p]
    BY <1>1, <1>2, <2>1, NewestDelivered
  <2>3. Linked(Beginning, Head(podWatch[p]), Tail(podWatch[p]))
    BY <1>1, <1>2, <2>1, LinkedDelivered
  <2> QED BY <1>5, <2>2, <2>3 DEF Delivers
<1>6. CASE Lists(p)
  <2>1. Len(<<>>) = 0
    OBVIOUS
  <2> QED BY <1>6, <2>1 DEF Lists, Newest, Linked
<1> QED BY <1>3, <1>4, <1>5, <1>6, PodSteps

(* Neither an error nor a restart is ever forgotten. *)
LEMMA TroublesStay ==
    ASSUME TypeOK, [Next]_vars, faults' = 0, restarts' = 0
    PROVE  faults = 0 /\ restarts = 0 /\ ~Restart
<1>1. faults \in Nat /\ restarts \in Nat
  BY FieldTypes
<1>2. UNCHANGED faults \/ \E outcome : Charge(outcome)
  BY DEF Next, Controller, vars, budgetVars, Dequeue, ReadFails, GetPod, ListPodEvents, GetSts,
     GetByInstanceAndReason, UpdateEvent, CreateEvent, Annotate, DeliverPod, DeliverEvents,
     PodCreated, PodRemoved, ContainerTerminates, ContainerLeavesTerminated, PodEventSeen,
     OwnerGoes, EventExpires, Restart
<1>3. UNCHANGED restarts \/ restarts' = restarts + 1
  BY DEF Next, Controller, vars, budgetVars, Dequeue, ReadFails, GetPod, ListPodEvents, GetSts,
     GetByInstanceAndReason, UpdateEvent, CreateEvent, Annotate, DeliverPod, DeliverEvents,
     PodCreated, PodRemoved, ContainerTerminates, ContainerLeavesTerminated, PodEventSeen,
     OwnerGoes, EventExpires, Restart
<1>4. ~Restart
  BY <1>1 DEF Restart
<1> QED BY <1>1, <1>2, <1>3, <1>4 DEF Charge

(* Report ends a reconcile only if there is nothing to report. *)
LEMMA ReportSeen ==
    ASSUME TypeOK, NEW p \in Pods, locals.key = p, Report(pods[p], NewestTermination(pods[p])),
           UNCHANGED <<pods, podEvents>>
    PROVE  Quiet(p)' \/ Seen(p)'
<1> DEFINE new == [locals EXCEPT !.pod = pods[p], !.crash = NewestTermination(pods[p])]
<1>1. new.key = p /\ new.pod = pods[p]
  BY LocalsChanges
<1> HIDE DEF new
<1>2. CASE NewestTermination(pods[p]) = Never \/ AlreadyEmitted(pods[p], NewestTermination(pods[p]))
  BY <1>2 DEF Quiet, AlreadyEmitted, NewestTermination
<1>3. CASE Call("getSts", new)
  BY <1>1, <1>3 DEF Call, Seen, PastGetPod, Reporting
<1> QED BY <1>2, <1>3 DEF Report, new

(* Every step leaves a pod whose crash is not reported an event to come, or a worker at it. *)
LEMMA LastReportInductive ==
    ASSUME TypeOK, TypeOK', Held, Chained, LastReportCurrent, [Next]_vars
    PROVE  LastReportCurrent'
<1> USE DEF podVars, eventVars, cacheVars, workVars, budgetVars
<1> SUFFICES ASSUME faults' = 0, restarts' = 0,
                    NEW p \in Apps, Exists(pods'[p]), owner'[p] = "lrp", ~Awaited(p)'
             PROVE  Quiet(p)' \/ Seen(p)'
  BY DEF LastReportCurrent, Exists
<1>a. faults = 0 /\ restarts = 0 /\ ~Restart
  BY TroublesStay
<1>b. /\ p \in Pods /\ pods[p] \in PodObjects /\ podCache[p] \in PodObjects
      /\ podWatch[p] \in Seq(PodObjects) /\ pods'[p] \in PodObjects
      /\ owner \in [Pods -> {"lrp", "orphaned", "deleted"}]
      /\ podEvents \in [Pods -> SUBSET {"Killing", "other"}]
  BY AppsAssumption DEF TypeOK
<1>c. owner[p] = "lrp" /\ podEvents[p] \subseteq podEvents'[p]
  <2>1. CASE \E q \in Pods : OwnerGoes(q)
    BY <1>b, <2>1 DEF OwnerGoes
  <2>2. CASE \E q \in Pods : PodEventSeen(q)
    BY <1>b, <2>2 DEF PodEventSeen
  <2> QED
    BY <2>1, <2>2, <1>a DEF Next, Controller, vars, Dequeue, ReadFails, GetPod, ListPodEvents, GetSts,
       GetByInstanceAndReason, UpdateEvent, CreateEvent, Annotate, DeliverPod, DeliverEvents,
       PodCreated, PodRemoved, ContainerTerminates, ContainerLeavesTerminated, EventExpires
<1>d. Quiet(p) /\ pods'[p] = pods[p] => Quiet(p)'
  BY <1>c DEF Quiet, NewestTermination
<1>e. p \notin queued' /\ podWatch'[p] = <<>>
  BY DEF Awaited
<1>f. ASSUME pods'[p] = pods[p], podWatch'[p] = podWatch[p], p \notin queued
      PROVE  Quiet(p)' \/ (Seen(p) /\ podCache[p] = pods[p])
  <2>1. Exists(pods[p]) /\ ~Awaited(p)
    BY <1>e, <1>f DEF Awaited, Exists
  <2>2. Quiet(p) \/ Seen(p)
    BY <1>a, <1>c, <2>1 DEF LastReportCurrent
  <2>3. podCache[p] = pods[p]
    BY <1>b, <2>1 DEF Chained, Newest, Awaited
  <2> QED BY <1>d, <1>f, <2>2, <2>3
<1>g. ASSUME Rests(p) \/ Writes(p), p \notin queued
      PROVE  pods'[p] = pods[p] /\ (Quiet(p)' \/ (Seen(p) /\ podCache[p] = pods[p]))
  <2>1. pods'[p] = pods[p] /\ podWatch'[p] = podWatch[p]
    <3>1. CASE Rests(p)
      BY <3>1 DEF Rests
    <3>2. CASE Writes(p)
      <4>1. Published(podWatch[p], pods[p], pods'[p]) = <<>>
        BY <1>e, <3>2 DEF Writes
      <4>2. pods'[p] = pods[p]
        BY <1>b, <4>1, PublishedType
      <4> QED BY <3>2, <4>2 DEF Writes, Published
    <3> QED BY <1>g, <3>1, <3>2
  <2> QED BY <1>f, <1>g, <2>1
<1>h. Waits /\ pods'[p] = pods[p] /\ Seen(p) => Seen(p)'
  BY DEF Seen, Waits
<1>1. CASE Dequeue
  <2>1. PICK q \in queued : queued' = queued \ {q} /\ pc' = "getPod" /\ locals' = [NoLocals EXCEPT !.key = q]
    BY <1>1 DEF Dequeue
  <2>2. /\ pc = "idle" /\ pods' = pods /\ podWatch' = podWatch
    BY <1>1 DEF Dequeue
  <2>3. CASE q = p
    BY <2>1, <2>3, LocalsChanges DEF Seen
  <2>4. CASE q # p
    BY <1>e, <1>f, <2>1, <2>2, <2>4 DEF Seen, PastGetPod, Reporting
  <2> QED BY <2>3, <2>4
<1>2. CASE ReadFails
  BY <1>2, <1>a DEF ReadFails, Charge
<1>3. CASE GetPod
  <2>1. /\ pc = "getPod" /\ UNCHANGED <<pods, podEvents>> /\ podWatch' = podWatch
    BY <1>3 DEF GetPod
  <2>2. p \notin queued
    BY <1>3, <1>e DEF GetPod, Done, Report, Call
  <2>3. SUFFICES ASSUME Seen(p), podCache[p] = pods[p] PROVE Quiet(p)' \/ Seen(p)'
    BY <1>f, <2>1, <2>2
  <2>4. locals.key = p /\ Exists(pods[p])
    BY <2>1, <2>3 DEF Seen, Exists
  <2>5. CASE pods[p].state = "terminated"
    <3>1. Call("listPodEvents", [locals EXCEPT !.pod = pods[p]])
      BY <1>3, <2>3, <2>4, <2>5 DEF GetPod
    <3>2. pc' = "listPodEvents" /\ locals'.key = p /\ locals'.pod = pods[p]
      BY <2>4, <3>1, LocalsChanges DEF Call
    <3> QED BY <2>1, <3>2 DEF Seen, PastGetPod
  <2>6. CASE pods[p].state # "terminated"
    <3>1. Report(pods[p], pods[p].last) /\ pods[p].last = NewestTermination(pods[p])
      BY <1>3, <2>3, <2>4, <2>6 DEF GetPod, NewestTermination
    <3> QED BY <1>b, <2>1, <2>4, <3>1, ReportSeen
  <2> QED BY <2>5, <2>6
<1>4. CASE ListPodEvents
  <2>1. /\ pc = "listPodEvents" /\ UNCHANGED <<pods, podEvents>> /\ podWatch' = podWatch
    BY <1>4 DEF ListPodEvents
  <2>2. p \notin queued
    BY <1>4, <1>e DEF ListPodEvents, Done, Report, Call
  <2>3. SUFFICES ASSUME Seen(p) PROVE Quiet(p)' \/ Seen(p)'
    BY <1>f, <2>1, <2>2
  <2>4. locals.key = p /\ locals.pod = pods[p] /\ pods[p].state = "terminated"
    BY <2>1, <2>3 DEF Seen, Held
  <2>5. PICK stopped \in StoppedAnswers(podEvents[p]) :
           IF stopped THEN Done ELSE Report(pods[p], pods[p].term)
    BY <1>4, <2>4 DEF ListPodEvents
  <2>6. CASE stopped
    <3>1. "Killing" \in podEvents[p]
      BY <2>5, <2>6 DEF StoppedAnswers
    <3> QED BY <1>d, <2>1, <2>4, <3>1 DEF Quiet
  <2>7. CASE ~stopped
    <3>1. Report(pods[p], NewestTermination(pods[p]))
      BY <2>4, <2>5, <2>7 DEF NewestTermination
    <3> QED BY <1>b, <2>1, <2>4, <3>1, ReportSeen
  <2> QED BY <2>6, <2>7
<1>5. CASE GetSts
  <2>1. /\ pc = "getSts" /\ UNCHANGED <<pods, podEvents>> /\ podWatch' = podWatch
    BY <1>5 DEF GetSts
  <2>2. p \notin queued
    BY <1>5, <1>e DEF GetSts, Done, Retry, Call
  <2>3. SUFFICES ASSUME Seen(p) PROVE Quiet(p)' \/ Seen(p)'
    BY <1>f, <2>1, <2>2
  <2>4. Call("listEvents", locals)
    BY <1>5, <1>c, <2>3 DEF GetSts, Owned, Seen
  <2> QED BY <2>1, <2>3, <2>4 DEF Call, Seen, PastGetPod, Reporting
<1>6. CASE GetByInstanceAndReason
  <2>1. /\ pc = "listEvents" /\ UNCHANGED <<pods, podEvents>> /\ podWatch' = podWatch
    BY <1>6 DEF GetByInstanceAndReason
  <2>2. p \notin queued
    BY <1>6, <1>e DEF GetByInstanceAndReason, Call
  <2>3. SUFFICES ASSUME Seen(p) PROVE Quiet(p)' \/ Seen(p)'
    BY <1>f, <2>1, <2>2
  <2>4. pc' \in {"updateEvent", "createEvent"} /\ locals'.key = locals.key /\ locals'.pod = locals.pod
    <3>1. CASE Call("createEvent", locals)
      BY <3>1 DEF Call
    <3>2. ASSUME NEW e, Call("updateEvent", [locals EXCEPT !.event = e])
          PROVE  /\ pc' \in {"updateEvent", "createEvent"}
                 /\ locals'.key = locals.key /\ locals'.pod = locals.pod
      BY <3>2, LocalsChanges DEF Call
    <3> QED BY <1>6, <3>1, <3>2 DEF GetByInstanceAndReason
  <2> QED BY <2>1, <2>3, <2>4 DEF Seen, PastGetPod, Reporting
<1>7. CASE UpdateEvent \/ CreateEvent
  <2>1. /\ pc \in {"updateEvent", "createEvent"} /\ UNCHANGED <<pods, podEvents>> /\ podWatch' = podWatch
    BY <1>7 DEF UpdateEvent, CreateEvent
  <2>2. p \notin queued
    BY <1>7, <1>e DEF UpdateEvent, CreateEvent, Retry, Call
  <2>3. SUFFICES ASSUME Seen(p) PROVE Quiet(p)' \/ Seen(p)'
    BY <1>f, <2>1, <2>2
  <2>4. Call("annotate", locals) \/ Retry
    BY <1>7 DEF UpdateEvent, CreateEvent
  <2>5. ~Retry
    BY <1>e, <2>1, <2>3 DEF Retry, Seen
  <2> QED BY <2>1, <2>3, <2>4, <2>5 DEF Call, Seen, PastGetPod, Reporting
<1>8. CASE Annotate
  <2> DEFINE k == locals.key
             marked == [pods[k] EXCEPT !.reported = locals.crash.time]
  <2>1. pc = "annotate" /\ Done /\ podEvents' = podEvents /\ podCache' = podCache
    BY <1>8 DEF Annotate
  <2>2. WritePod(k, IF Exists(pods[k]) THEN marked ELSE pods[k])
    <3>1. \E outcome \in Outcomes :
             /\ Charge(outcome)
             /\ WritePod(k, IF Reaches(outcome) /\ Exists(pods[k]) THEN marked ELSE pods[k])
      BY <1>8 DEF Annotate
    <3>2. \A outcome : Charge(outcome) => outcome = "ok"
      BY <1>a DEF Charge
    <3> QED BY <3>1, <3>2 DEF Reaches
  <2>3. k \in Pods /\ pods[k] \in PodObjects /\ locals.crash.time \in Nat
    BY <2>1, FieldTypes, TerminationTypes DEF Held
  <2>4. marked \in PodObjects
    BY <2>3, PodChanges
  <2> HIDE DEF marked
  <2>5. Rests(p) \/ Writes(p)
    BY <1>b, <2>1, <2>2, <2>3, <2>4, WriteSteps
  <2>6. p \notin queued
    BY <1>e, <2>1 DEF Done
  <2>7. SUFFICES ASSUME Seen(p), pods'[p] = pods[p] PROVE Quiet(p)'
    BY <1>g, <2>5, <2>6
  <2>8. k = p /\ locals.pod = pods[p] /\ locals.crash = NewestTermination(pods[p])
    BY <2>1, <2>7 DEF Seen, Held, Reporting
  <2>9. pods'[p] = marked
    <3>1. Exists(pods[k])
      BY <2>7, <2>8 DEF Exists
    <3>2. WritePod(k, marked)
      BY <2>2, <3>1
    <3> QED BY <2>1, <2>3, <2>4, <2>8, <3>2, WriteSteps
  <2>10. marked.reported = locals.crash.time
    BY <2>3 DEF marked, PodObjects
  <2> QED BY <2>7, <2>8, <2>9, <2>10 DEF Quiet, NewestTermination
<1>9. ASSUME NEW q \in Pods, DeliverPod(q)
      PROVE  Quiet(p)' \/ Seen(p)'
  <2>1. pods' = pods /\ podEvents' = podEvents /\ Waits
    BY <1>9 DEF DeliverPod, Waits
  <2>2. CASE q # p
    <3>1. podWatch'[p] = podWatch[p] /\ p \notin queued
      BY <1>9, <1>b, <1>e, <2>2 DEF DeliverPod
    <3> QED BY <1>f, <1>h, <2>1, <3>1
  <2>3. CASE q = p
    <3>1. /\ podWatch[p] # <<>> /\ Tail(podWatch[p]) = <<>>
          /\ ~Queued(p, podCache[p], Head(podWatch[p]))
      BY <1>9, <1>b, <1>e, <2>3 DEF DeliverPod, TypeOK
    <3>2. /\ Newest(podCache[p], podWatch[p]) = pods[p]
          /\ Linked(Beginning, podCache[p], podWatch[p])
      BY <1>b DEF Chained
    <3>3. Head(podWatch[p]) = pods[p]
      BY <1>b, <3>1, <3>2, NewestDelivered DEF Newest
    <3>4. <<podCache[p], pods[p]>> \in Beginning
      BY <1>b, <3>1, <3>2, <3>3, LinkedDelivered
    <3>5. ~Exists(podCache[p])
      BY <2>1, <3>1, <3>3 DEF Queued, Exists
    <3>6. NewestTermination(pods[p]) = Never
      BY <2>1, <3>4, <3>5 DEF Beginning, Exists
    <3> QED BY <1>d, <2>1, <3>6 DEF Quiet
  <2> QED BY <2>2, <2>3
<1>10. ASSUME NEW q \in Pods, \/ PodCreated(q) \/ PodRemoved(q) \/ ContainerTerminates(q)
                              \/ ContainerLeavesTerminated(q) \/ PodEventSeen(q) \/ OwnerGoes(q)
       PROVE  Quiet(p)' \/ Seen(p)'
  <2>1. Waits /\ queued' = queued /\ podCache' = podCache
    BY <1>10 DEF Waits, PodCreated, PodRemoved, ContainerTerminates, ContainerLeavesTerminated,
       PodEventSeen, OwnerGoes
  <2>2. Rests(p) \/ Writes(p)
    <3>1. CASE PodEventSeen(q) \/ OwnerGoes(q)
      BY <3>1 DEF PodEventSeen, OwnerGoes, Rests
    <3>2. CASE \E new : WritePod(q, new)
      <4>1. PICK new : WritePod(q, new)
        BY <3>2
      <4>2. DOMAIN pods = Pods /\ DOMAIN podWatch = Pods
        BY DEF TypeOK
      <4>3. CASE q = p
        <5>1. pods'[p] = new
          BY <1>b, <4>1, <4>2, <4>3 DEF WritePod
        <5>2. podWatch'[p] = Published(podWatch[p], pods[p], new)
          BY <1>b, <4>1, <4>2, <4>3 DEF WritePod
        <5> QED BY <2>1, <5>1, <5>2 DEF Writes
      <4>4. CASE q # p
        <5>1. pods'[p] = pods[p] /\ podWatch'[p] = podWatch[p]
          BY <1>b, <4>1, <4>2, <4>4 DEF WritePod
        <5> QED BY <2>1, <5>1 DEF Rests
      <4> QED BY <4>3, <4>4
    <3> QED BY <1>10, <3>1, <3>2 DEF PodCreated, PodRemoved, ContainerTerminates, ContainerLeavesTerminated
  <2> QED BY <1>e, <1>g, <1>h, <2>1, <2>2
<1>11. CASE DeliverEvents \/ EventExpires \/ UNCHANGED vars
  <2>1. Waits /\ UNCHANGED <<pods, podWatch, queued>>
    BY <1>11 DEF DeliverEvents, EventExpires, vars, Waits
  <2> QED BY <1>e, <1>f, <1>h, <2>1
<1> QED
  BY <1>a, <1>1, <1>2, <1>3, <1>4, <1>5, <1>6, <1>7, <1>8, <1>9, <1>10, <1>11 DEF Next, Controller

(* Unless a call failed or the process was replaced, the controller does not   *)
(* come to rest before the annotation of an app's pod is the time of its newest *)
(* termination, or the pod was stopped: however old the copies it read, the     *)
(* last event of a pod is followed by a reconcile that reads its last version   *)
(* (Reconcile, Generate, setCrashTimestampOnPod).                               *)
THEOREM RestsAnnotated == Spec => []AnnotatedAtRest
<1> DEFINE Inv == TypeOK /\ Held /\ Chained /\ LastReportCurrent
<1>1. Init => Inv
  <2> SUFFICES ASSUME Init PROVE Inv
    OBVIOUS
  <2>1. \A p \in Apps : ~Exists(pods[p])
    BY AppsAssumption, NoObjects DEF Init, Exists
  <2> QED BY <2>1, InitTypes, ChainedInit DEF LastReportCurrent
<1>2. Inv /\ [Next]_vars => Inv'
  BY TypeInductive, WorkerSteps, ChainedInductive, LastReportInductive
<1>3. Inv => AnnotatedAtRest
  BY AppsAssumption DEF AnnotatedAtRest, LastReportCurrent, Settled, Awaited, Quiet, Seen, PastGetPod, Reporting
<1> QED BY <1>1, <1>2, <1>3, PTL DEF Spec
-----------------------------------------------------------------------------
(* Marks *)

(* The marks of a set of Events *)
MarksOf(K, k) == UNION {{<<e.id, n>> : n \in 1 .. e.count}
                          : e \in {x \in K : x.index = k.index /\ x.reason = k.reason}}

About(e, k) == e.index = k.index /\ e.reason = k.reason

Apart(K) == \A e, f \in K : e.id = f.id => e = f

(* What a mark is.                                                            *)
LEMMA MarkFacts ==
    ASSUME NEW K, NEW k
    PROVE  \A m : m \in MarksOf(K, k) <=> \E e \in K : About(e, k) /\ \E n \in 1 .. e.count : m = <<e.id, n>>
BY DEF MarksOf, About

(* An Event that is counted up has one mark more. *)
LEMMA MarksCountedUp ==
    ASSUME NEW K \in SUBSET EventObjects, Apart(K), NEW e \in K, NEW k
    PROVE  LET new == [e EXCEPT !.count = @ + 1]
               mark == <<e.id, e.count + 1>>
           IN  /\ mark \notin MarksOf(K, k)
               /\ MarksOf((K \ {e}) \cup {new}, k)
                    = IF About(e, k) THEN MarksOf(K, k) \cup {mark} ELSE MarksOf(K, k)
<1> DEFINE new == [e EXCEPT !.count = @ + 1]
           mark == <<e.id, e.count + 1>>
           L == (K \ {e}) \cup {new}
<1>1. e \in EventObjects /\ e.count \in Nat
  BY DEF EventObjects
<1>2. /\ new.id = e.id /\ new.index = e.index /\ new.reason = e.reason /\ new.count = e.count + 1
  BY <1>1 DEF EventObjects
<1>3. 1 .. (e.count + 1) = (1 .. e.count) \cup {e.count + 1} /\ e.count + 1 \notin 1 .. e.count
  BY <1>1
<1> HIDE DEF new
<1>4. About(new, k) <=> About(e, k)
  BY <1>2 DEF About
<1>5. mark \notin MarksOf(K, k)
  <2> SUFFICES ASSUME NEW f \in K, NEW n \in 1 .. f.count, mark = <<f.id, n>>
               PROVE  FALSE
    BY MarkFacts
  <2>1. f.id = e.id /\ n = e.count + 1
    OBVIOUS
  <2>2. f = e
    BY <2>1 DEF Apart
  <2> QED BY <1>3, <2>1, <2>2
<1>6. ASSUME NEW m, m \in MarksOf(L, k)
      PROVE  m \in MarksOf(K, k) \/ (About(e, k) /\ m = mark)
  <2>1. PICK f \in L : About(f, k) /\ \E n \in 1 .. f.count : m = <<f.id, n>>
    BY <1>6, MarkFacts
  <2>2. CASE f \in K
    BY <2>1, <2>2, MarkFacts
  <2>3. CASE f = new
    <3>1. PICK n \in 1 .. (e.count + 1) : m = <<e.id, n>>
      BY <1>2, <2>1, <2>3
    <3>2. CASE n = e.count + 1
      BY <1>4, <2>1, <2>3, <3>1, <3>2
    <3>3. CASE n \in 1 .. e.count
      BY <1>4, <2>1, <2>3, <3>1, <3>3, MarkFacts
    <3> QED BY <1>3, <3>2, <3>3
  <2> QED BY <2>2, <2>3
<1>7. ASSUME NEW m, m \in MarksOf(K, k) \/ (About(e, k) /\ m = mark)
      PROVE  m \in MarksOf(L, k)
  <2>1. CASE About(e, k) /\ m = mark
    <3>1. new \in L /\ About(new, k) /\ new.count \in 1 .. new.count /\ m = <<new.id, new.count>>
      BY <1>1, <1>2, <1>4, <2>1
    <3> QED BY <3>1, MarkFacts
  <2>2. CASE m \in MarksOf(K, k)
    <3>1. PICK f \in K : About(f, k) /\ \E n \in 1 .. f.count : m = <<f.id, n>>
      BY <2>2, MarkFacts
    <3>2. CASE f = e
      <4>1. new \in L /\ About(new, k) /\ \E n \in 1 .. new.count : m = <<new.id, n>>
        BY <1>2, <1>3, <1>4, <3>1, <3>2
      <4> QED BY <4>1, MarkFacts
    <3>3. CASE f # e
      BY <3>1, <3>3, MarkFacts
    <3> QED BY <3>2, <3>3
  <2> QED BY <1>7, <2>1, <2>2
<1>8. MarksOf(L, k) = IF About(e, k) THEN MarksOf(K, k) \cup {mark} ELSE MarksOf(K, k)
  <2>1. CASE About(e, k)
    BY <1>6, <1>7, <2>1
  <2>2. CASE ~About(e, k)
    BY <1>6, <1>7, <2>2
  <2> QED BY <2>1, <2>2
<1> QED BY <1>5, <1>8 DEF new

(* A new Event has a mark of its own. *)
LEMMA MarksCreated ==
    ASSUME NEW K \in SUBSET EventObjects, NEW new, new.count = 1, \A e \in K : e.id # new.id, NEW k
    PROVE  LET mark == <<new.id, 1>>
           IN  /\ mark \notin MarksOf(K, k)
               /\ MarksOf(K \cup {new}, k)
                    = IF About(new, k) THEN MarksOf(K, k) \cup {mark} ELSE MarksOf(K, k)
<1> DEFINE mark == <<new.id, 1>>
<1>1. mark \notin MarksOf(K, k)
  BY MarkFacts
<1>2. \A m : (\E n \in 1 .. new.count : m = <<new.id, n>>) <=> m = mark
  OBVIOUS
<1>3. \A m : m \in MarksOf(K \cup {new}, k) <=> m \in MarksOf(K, k) \/ (About(new, k) /\ m = mark)
  <2>1. ASSUME NEW m, m \in MarksOf(K \cup {new}, k)
        PROVE  m \in MarksOf(K, k) \/ (About(new, k) /\ m = mark)
    BY <1>2, <2>1, MarkFacts
  <2>2. ASSUME NEW m, m \in MarksOf(K, k) \/ (About(new, k) /\ m = mark)
        PROVE  m \in MarksOf(K \cup {new}, k)
    BY <1>2, <2>2, MarkFacts
  <2> QED BY <2>1, <2>2
<1>4. CASE About(new, k)
  BY <1>1, <1>3, <1>4
<1>5. CASE ~About(new, k)
  BY <1>1, <1>3, <1>5
<1> QED BY <1>4, <1>5

-----------------------------------------------------------------------------
(* The ledger *)

(* Every Event there has been *)
Known == events \cup forgotten

(* No two Events are one, nor can the controller take a stored one for one that *)
(* expired; and the Event it counts up is about the crash it has read.          *)
EventsApart ==
    /\ Apart(Known) /\ events \cap forgotten = {}
    /\ \A e \in Known : e.id <= made.events
    /\ \A k \in Keys : IsFiniteSet(MarksOf(Known, k))
    /\ pc = "updateEvent" => About(locals.event, KeyOf(ThisCrash))

(* The bounds of the model, which are those of the ledger's terminations *)
WithinBounds ==
    /\ made.pods <= MaxPods /\ clock <= made.crashes /\ made.crashes <= MaxCrashes
    /\ crashed \subseteq [pod : Apps, uid : 1 .. MaxPods, time : 1 .. MaxCrashes, reason : Reasons]

(* What a step does to the Events there have been: it leaves them alone, counts *)
(* one up or adds one.                                                          *)
LeavesEvents == /\ Known' = Known /\ reported' = reported /\ made'.events = made.events
                /\ events' \cap forgotten' = {}
CountsUp == /\ pc = "updateEvent" /\ locals.event \in events
            /\ Known' = (Known \ {locals.event}) \cup {[locals.event EXCEPT !.count = @ + 1]}
            /\ made' = made
NewEvent == [id |-> made.events + 1, lrp |-> Lrp[locals.key], index |-> Index[locals.key],
             reason |-> locals.crash.reason, count |-> 1]
CountsFirst == /\ pc = "createEvent"
               /\ Known' = Known \cup {NewEvent}
               /\ made'.events = made.events + 1
CountsThis == /\ CountsUp \/ CountsFirst
              /\ crashed' = crashed /\ reported' \in {reported, reported \cup {ThisCrash}}
              /\ events' \cap forgotten' = {} /\ pc' # "updateEvent"

(* Only the creation of an Event takes a new id.                              *)
LEMMA MadeChanges ==
    ASSUME TypeOK
    PROVE  /\ [made EXCEPT !.pods = @ + 1].events = made.events
           /\ [made EXCEPT !.crashes = @ + 1].events = made.events
           /\ [made EXCEPT !.mishaps = @ + 1].events = made.events
           /\ [made EXCEPT !.events = @ + 1].events = made.events + 1
BY DEF TypeOK

(* Every step leaves the Events alone or counts the crash at hand.            *)
LEMMA LedgerSteps ==
    ASSUME TypeOK, Held, EventsApart, [Next]_vars
    PROVE  LeavesEvents \/ CountsThis
<1> USE DEF podVars, eventVars, cacheVars, workVars, budgetVars
<1>a. events \cap forgotten = {} /\ Apart(Known) /\ events \subseteq Known
  BY DEF EventsApart, Known
<1>1. CASE UpdateEvent
  <2>1. /\ pc = "updateEvent" /\ crashed' = crashed /\ forgotten' = forgotten /\ made' = made
        /\ pc' # "updateEvent"
    BY <1>1 DEF UpdateEvent, Call, Retry
  <2>2. \/ events' = events /\ UNCHANGED reported
        \/ /\ UpToDate /\ reported' \in {reported, reported \cup {ThisCrash}}
           /\ events' = {e \in events : e.id # locals.event.id}
                          \cup {[locals.event EXCEPT !.count = @ + 1]}
    BY <1>1 DEF UpdateEvent, WriteEvents
  <2>3. CASE events' = events /\ UNCHANGED reported
    BY <1>a, <2>1, <2>3 DEF LeavesEvents, Known
  <2>4. CASE /\ UpToDate /\ reported' \in {reported, reported \cup {ThisCrash}}
             /\ events' = {e \in events : e.id # locals.event.id}
                            \cup {[locals.event EXCEPT !.count = @ + 1]}
    <3> DEFINE new == [locals.event EXCEPT !.count = @ + 1]
    <3>1. locals.event \in events /\ locals.event \in Known /\ locals.event \notin forgotten
      BY <1>a, <2>4 DEF UpToDate
    <3>2. new.id = locals.event.id
      BY FieldTypes DEF EventObjects
    <3> HIDE DEF new
    <3>3. {e \in events : e.id # locals.event.id} = events \ {locals.event}
      BY <1>a, <3>1 DEF Apart
    <3>4. events' = (events \ {locals.event}) \cup {new}
      BY <2>4, <3>3 DEF new
    <3>5. new \notin forgotten
      BY <1>a, <3>1, <3>2 DEF Apart, Known
    <3>6. Known' = (Known \ {locals.event}) \cup {new} /\ events' \cap forgotten' = {}
      BY <1>a, <2>1, <3>1, <3>4, <3>5 DEF Known
    <3> QED BY <2>1, <2>4, <3>1, <3>6 DEF CountsThis, CountsUp, new
  <2> QED BY <2>2, <2>3, <2>4
<1>2. CASE CreateEvent
  <2>1. /\ pc = "createEvent" /\ crashed' = crashed /\ forgotten' = forgotten /\ pc' # "updateEvent"
    BY <1>2 DEF CreateEvent, Call, Retry
  <2>2. \/ events' = events /\ made' = made /\ UNCHANGED reported
        \/ /\ events' = events \cup {NewEvent} /\ made' = [made EXCEPT !.events = @ + 1]
           /\ reported' \in {reported, reported \cup {ThisCrash}}
    BY <1>2 DEF CreateEvent, WriteEvents, NewEvent, Reaches
  <2>3. CASE events' = events /\ made' = made /\ UNCHANGED reported
    BY <1>a, <2>1, <2>3 DEF LeavesEvents, Known
  <2>4. CASE /\ events' = events \cup {NewEvent} /\ made' = [made EXCEPT !.events = @ + 1]
             /\ reported' \in {reported, reported \cup {ThisCrash}}
    <3>1. made'.events = made.events + 1
      BY <2>4, MadeChanges
    <3>2. NewEvent \notin forgotten
      <4>1. made.events \in Nat /\ NewEvent.id = made.events + 1
        BY FieldTypes DEF NewEvent
      <4>2. \A e \in forgotten : e.id <= made.events
        BY DEF EventsApart, Known
      <4> QED BY <4>1, <4>2
    <3>3. Known' = Known \cup {NewEvent} /\ events' \cap forgotten' = {}
      BY <1>a, <2>1, <2>4, <3>2 DEF Known
    <3> QED BY <2>1, <2>4, <3>1, <3>3 DEF CountsThis, CountsFirst
  <2> QED BY <2>2, <2>3, <2>4
<1>3. CASE EventExpires
  <2>1. PICK e \in events : events' = events \ {e} /\ forgotten' = forgotten \cup {e}
    BY <1>3 DEF EventExpires, WriteEvents
  <2>2. made'.events = made.events /\ reported' = reported
    BY <1>3, MadeChanges DEF EventExpires, Mishap
  <2>3. Known' = Known /\ events' \cap forgotten' = {}
    BY <1>a, <2>1 DEF Known
  <2> QED BY <2>2, <2>3 DEF LeavesEvents
<1>4. ASSUME \/ Dequeue \/ ReadFails \/ GetPod \/ ListPodEvents \/ GetSts \/ GetByInstanceAndReason
             \/ Annotate \/ DeliverEvents \/ Restart \/ UNCHANGED vars
             \/ \E p \in Pods : \/ DeliverPod(p) \/ PodCreated(p) \/ PodRemoved(p)
                                \/ ContainerTerminates(p) \/ ContainerLeavesTerminated(p)
                                \/ PodEventSeen(p) \/ OwnerGoes(p)
      PROVE  LeavesEvents
  <2>1. events' = events /\ forgotten' = forgotten /\ reported' = reported
    BY <1>4 DEF Dequeue, ReadFails, GetPod, ListPodEvents, GetSts, GetByInstanceAndReason, Annotate,
       DeliverEvents, Restart, DeliverPod, PodCreated, PodRemoved, ContainerTerminates,
       ContainerLeavesTerminated, PodEventSeen, OwnerGoes, vars
  <2>2. \/ made' = made \/ made' = [made EXCEPT !.pods = @ + 1]
        \/ made' = [made EXCEPT !.crashes = @ + 1] \/ made' = [made EXCEPT !.mishaps = @ + 1]
    BY <1>4 DEF Dequeue, ReadFails, GetPod, ListPodEvents, GetSts, GetByInstanceAndReason, Annotate,
       DeliverEvents, Restart, DeliverPod, PodCreated, PodRemoved, ContainerTerminates,
       ContainerLeavesTerminated, PodEventSeen, OwnerGoes, vars, Mishap
  <2> QED BY <1>a, <2>1, <2>2, MadeChanges DEF LeavesEvents, Known
<1> QED BY <1>1, <1>2, <1>3, <1>4 DEF Next, Controller

(* No Event is there. *)
LEMMA EventsApartInit == Init => EventsApart
<1> SUFFICES ASSUME Init PROVE EventsApart
  OBVIOUS
<1>1. events = {} /\ forgotten = {} /\ Known = {}
  BY DEF Init, Known
<1>2. \A k : MarksOf(Known, k) = {}
  BY <1>1, MarkFacts
<1>3. IsFiniteSet({})
  BY FS_EmptySet
<1> QED BY <1>1, <1>2, <1>3 DEF EventsApart, Apart, Init

(* Every step keeps the Events apart.                                         *)
LEMMA EventsApartInductive ==
    ASSUME TypeOK, Held, EventsApart, [Next]_vars
    PROVE  EventsApart'
<1>a. made.events \in Nat /\ Known \in SUBSET EventObjects /\ events \subseteq Known
  BY FieldTypes DEF TypeOK, Known
<1>b. /\ Apart(Known) /\ \A e \in Known : e.id <= made.events
      /\ \A k \in Keys : IsFiniteSet(MarksOf(Known, k))
  BY DEF EventsApart
<1>1. pc' = "updateEvent" => About(locals'.event, KeyOf(ThisCrash)')
  <2> SUFFICES ASSUME pc' = "updateEvent" PROVE About(locals'.event, KeyOf(ThisCrash)')
    OBVIOUS
  <2>1. CASE GetByInstanceAndReason
    <3>1. PICK e \in Matching : locals' = [locals EXCEPT !.event = e]
      BY <2>1 DEF GetByInstanceAndReason, Call
    <3>2. e.index = Index[locals.key] /\ e.reason = locals.crash.reason
      BY DEF Matching
    <3>3. /\ locals'.event = e /\ locals'.key = locals.key /\ locals'.crash = locals.crash
          /\ locals'.pod = locals.pod
      BY <3>1 DEF TypeOK
    <3> QED BY <3>2, <3>3 DEF About, KeyOf, ThisCrash
  <2>2. CASE ~GetByInstanceAndReason
    <3>1. pc = "updateEvent" /\ locals' = locals
      BY <2>2 DEF Next, Controller, Dequeue, ReadFails, GetPod, ListPodEvents, GetSts, UpdateEvent,
         CreateEvent, Annotate, DeliverPod, DeliverEvents, PodCreated, PodRemoved,
         ContainerTerminates, ContainerLeavesTerminated, PodEventSeen, OwnerGoes, EventExpires,
         Restart, Call, Done, Retry, Report, vars, workVars
    <3> QED BY <3>1 DEF EventsApart, About, KeyOf, ThisCrash
  <2> QED BY <2>1, <2>2
<1>2. CASE LeavesEvents
  BY <1>1, <1>2 DEF LeavesEvents, EventsApart
<1>3. CASE CountsThis /\ CountsUp
  <2> DEFINE new == [locals.event EXCEPT !.count = @ + 1]
  <2>1. locals.event \in Known /\ Known' = (Known \ {locals.event}) \cup {new} /\ made' = made
    BY <1>3, <1>a DEF CountsUp
  <2>2. new.id = locals.event.id
    BY FieldTypes DEF EventObjects
  <2>3. \A k \in Keys : IsFiniteSet(MarksOf(Known', k))
    <3> TAKE k \in Keys
    <3>1. MarksOf(Known', k) \in {MarksOf(Known, k),
                                  MarksOf(Known, k) \cup {<<locals.event.id, locals.event.count + 1>>}}
      BY <1>a, <1>b, <2>1, MarksCountedUp
    <3> QED BY <1>b, <3>1, FS_AddElement
  <2> HIDE DEF new
  <2>4. Apart(Known') /\ \A e \in Known' : e.id <= made'.events
    BY <1>b, <2>1, <2>2 DEF Apart
  <2> QED BY <1>1, <1>3, <2>3, <2>4 DEF EventsApart, CountsThis
<1>4. CASE CountsThis /\ CountsFirst
  <2>1. /\ Known' = Known \cup {NewEvent} /\ made'.events = made.events + 1
        /\ NewEvent.id = made.events + 1 /\ NewEvent.count = 1
    BY <1>4 DEF CountsFirst, NewEvent
  <2>a. \A e \in Known : e.id \in Nat /\ e.id <= made.events
    BY <1>a, <1>b DEF EventObjects
  <2>2. \A e \in Known : e.id # NewEvent.id /\ e.id \in Nat
    BY <1>a, <2>1, <2>a
  <2>3. \A k \in Keys : IsFiniteSet(MarksOf(Known', k))
    <3> TAKE k \in Keys
    <3>1. MarksOf(Known', k) \in {MarksOf(Known, k), MarksOf(Known, k) \cup {<<NewEvent.id, 1>>}}
      BY <1>a, <2>1, <2>2, MarksCreated
    <3> QED BY <1>b, <3>1, FS_AddElement
  <2>4. Apart(Known') /\ \A e \in Known' : e.id <= made'.events
    BY <1>a, <1>b, <2>1, <2>2 DEF Apart
  <2> QED BY <1>1, <1>4, <2>3, <2>4 DEF EventsApart, CountsThis
<1> QED BY <1>2, <1>3, <1>4, LedgerSteps DEF CountsThis

(* A termination that happens is one of the ledger's. *)
LEMMA TerminationInLedger ==
    ASSUME TypeOK, PodsOrdered, WithinBounds, NEW p \in Pods, ContainerTerminates(p)
    PROVE  /\ made'.crashes = made.crashes + 1 /\ made'.pods = made.pods /\ made'.crashes <= MaxCrashes
           /\ clock' <= clock + 1
           /\ \/ crashed' = crashed
              \/ \E c \in [pod : Apps, uid : 1 .. MaxPods, time : 1 .. MaxCrashes, reason : Reasons] :
                   crashed' = crashed \cup {c}
<1>1. /\ made.crashes \in Nat /\ made.pods \in Nat /\ clock \in Nat /\ pods[p] \in PodObjects
      /\ pods[p].uid \in Nat /\ MaxPods \in Nat /\ MaxCrashes \in Nat
  BY FieldTypes, PodTypes, BoundsAssumption
<1>2. made'.crashes = made.crashes + 1 /\ made'.pods = made.pods /\ made'.crashes <= MaxCrashes
  <2>1. made' = [made EXCEPT !.crashes = @ + 1] /\ made.crashes < MaxCrashes
    BY DEF ContainerTerminates
  <2>2. made'.crashes = made.crashes + 1 /\ made'.pods = made.pods
    BY <2>1 DEF TypeOK
  <2> QED BY <1>1, <2>1, <2>2
<1>3. pods[p].uid \in 1 .. MaxPods
  <2>1. pods[p].uid # 0
    BY DEF ContainerTerminates, Exists
  <2>2. pods[p].uid <= made.pods /\ made.pods <= MaxPods
    BY DEF PodsOrdered, PodCopies, Sane, WithinBounds
  <2> QED BY <1>1, <2>1, <2>2
<1>4. PICK t \in {clock, clock + 1} \ {0}, reason \in Reasons :
        /\ clock' = t
        /\ crashed' = IF p \in Apps
                      THEN crashed \cup {[pod |-> p, uid |-> pods[p].uid, time |-> t, reason |-> reason]}
                      ELSE crashed
  BY DEF ContainerTerminates
<1>5. t \in 1 .. MaxCrashes /\ clock' <= clock + 1
  <2>1. clock <= made.crashes /\ made.crashes < MaxCrashes
    BY DEF WithinBounds, ContainerTerminates
  <2> QED BY <1>1, <1>4, <2>1
<1>6. CASE p \in Apps
  <2>1. [pod |-> p, uid |-> pods[p].uid, time |-> t, reason |-> reason]
           \in [pod : Apps, uid : 1 .. MaxPods, time : 1 .. MaxCrashes, reason : Reasons]
    BY <1>3, <1>5, <1>6
  <2> QED BY <1>2, <1>4, <1>5, <1>6, <2>1
<1> QED BY <1>2, <1>4, <1>5, <1>6

(* Every step keeps the terminations within the bounds.                       *)
LEMMA WithinBoundsInductive ==
    ASSUME TypeOK, TypeOK', PodsOrdered, WithinBounds, [Next]_vars
    PROVE  WithinBounds'
<1>1. /\ made.crashes \in Nat /\ made.pods \in Nat /\ clock \in Nat /\ MaxPods \in Nat
  BY FieldTypes, BoundsAssumption
<1>2. CASE \E p \in Pods : ContainerTerminates(p)
  <2>1. clock' \in Nat
    BY DEF TypeOK
  <2> QED BY <1>1, <1>2, <2>1, TerminationInLedger DEF WithinBounds
<1>3. ASSUME NEW p \in Pods, PodCreated(p)
      PROVE  WithinBounds'
  <2>1. /\ made' = [made EXCEPT !.pods = @ + 1] /\ made.pods < MaxPods
        /\ clock' = clock /\ crashed' = crashed
    BY <1>3 DEF PodCreated, podVars
  <2>2. made'.pods = made.pods + 1 /\ made'.crashes = made.crashes
    BY <2>1 DEF TypeOK
  <2> QED BY <1>1, <2>1, <2>2 DEF WithinBounds
<1>4. ASSUME ~\E p \in Pods : ContainerTerminates(p) \/ PodCreated(p)
      PROVE  WithinBounds'
  <2>1. /\ clock' = clock /\ crashed' = crashed
        /\ \/ made' = made \/ made' = [made EXCEPT !.events = @ + 1]
           \/ made' = [made EXCEPT !.mishaps = @ + 1]
    BY <1>4 DEF Next, Controller, Dequeue, ReadFails, GetPod, ListPodEvents, GetSts,
       GetByInstanceAndReason, UpdateEvent, CreateEvent, Annotate, DeliverPod, DeliverEvents,
       PodRemoved, ContainerLeavesTerminated, PodEventSeen, OwnerGoes, EventExpires, Restart, Mishap,
       vars, podVars, budgetVars
  <2>2. made'.pods = made.pods /\ made'.crashes = made.crashes
    BY <2>1 DEF TypeOK
  <2> QED BY <2>1, <2>2 DEF WithinBounds
<1> QED BY <1>2, <1>3, <1>4

(* Counting the crash at hand adds one to the tally of its index and reason.  *)
LEMMA TallyCounted ==
    ASSUME TypeOK, Held, EventsApart, Happened, CountsThis
    PROVE  [k \in Keys |-> Cardinality(Marks(k)')]
             = [[k \in Keys |-> Cardinality(Marks(k))] EXCEPT ![KeyOf(ThisCrash)] = @ + 1]
<1> DEFINE key == KeyOf(ThisCrash)
<1>1. pc \in {"updateEvent", "createEvent"} /\ locals.key \in Pods /\ locals.crash.reason \in Reasons
  <2>1. pc \in {"updateEvent", "createEvent"}
    BY DEF CountsThis, CountsUp, CountsFirst
  <2>2. ThisCrash \in Crashes /\ locals.key \in Pods
    BY <2>1, ThisCrashType DEF Reporting, Held
  <2>3. ThisCrash.reason = locals.crash.reason
    BY DEF ThisCrash
  <2> QED BY <2>1, <2>2, <2>3 DEF Crashes
<1>2. /\ key = [index |-> Index[locals.key], reason |-> locals.crash.reason]
      /\ key \in Keys /\ key.index = Index[locals.key] /\ key.reason = locals.crash.reason
  BY <1>1 DEF KeyOf, ThisCrash, Keys
<1> HIDE DEF key
<1>3. \A e, k : k \in Keys /\ About(e, key) => (About(e, k) <=> k = key)
  BY <1>2 DEF About, Keys
<1>4. Known \in SUBSET EventObjects /\ Apart(Known) /\ \A k \in Keys : IsFiniteSet(MarksOf(Known, k))
  BY DEF TypeOK, EventsApart, Known
<1>5. \E mark : \A k \in Keys :
         /\ mark \notin MarksOf(Known, k)
         /\ MarksOf(Known', k) = IF k = key THEN MarksOf(Known, k) \cup {mark} ELSE MarksOf(Known, k)
  <2>1. CASE CountsUp
    <3>1. /\ locals.event \in Known /\ About(locals.event, key)
          /\ Known' = (Known \ {locals.event}) \cup {[locals.event EXCEPT !.count = @ + 1]}
      BY <2>1 DEF CountsUp, Known, EventsApart, key
    <3>2. \A k \in Keys :
             LET mark == <<locals.event.id, locals.event.count + 1>>
             IN  /\ mark \notin MarksOf(Known, k)
                 /\ MarksOf(Known', k)
                      = IF About(locals.event, k) THEN MarksOf(Known, k) \cup {mark} ELSE MarksOf(Known, k)
      BY <1>4, <3>1, MarksCountedUp
    <3> QED BY <1>3, <3>1, <3>2
  <2>2. CASE CountsFirst
    <3>1. /\ Known' = Known \cup {NewEvent} /\ NewEvent.id = made.events + 1 /\ NewEvent.count = 1
          /\ About(NewEvent, key)
      BY <1>2, <2>2 DEF CountsFirst, NewEvent, About
    <3>2. made.events \in Nat /\ \A e \in Known : e.id \in Nat /\ e.id <= made.events
      BY <1>4, FieldTypes DEF EventsApart, EventObjects
    <3>3. \A e \in Known : e.id # NewEvent.id
      BY <3>1, <3>2
    <3>4. \A k \in Keys :
             LET mark == <<NewEvent.id, 1>>
             IN  /\ mark \notin MarksOf(Known, k)
                 /\ MarksOf(Known', k)
                      = IF About(NewEvent, k) THEN MarksOf(Known, k) \cup {mark} ELSE MarksOf(Known, k)
      BY <1>4, <3>1, <3>3, MarksCreated
    <3> QED BY <1>3, <3>1, <3>4
  <2> QED BY <2>1, <2>2 DEF CountsThis
<1>6. \A k \in Keys : Cardinality(MarksOf(Known', k))
                       = IF k = key THEN Cardinality(MarksOf(Known, k)) + 1
                         ELSE Cardinality(MarksOf(Known, k))
  BY <1>4, <1>5, FS_AddElement
<1>7. \A k : Marks(k) = MarksOf(Known, k) /\ Marks(k)' = MarksOf(Known', k)
  BY DEF Marks, MarksOf, Known
<1> QED BY <1>2, <1>6, <1>7 DEF key

(* The controller keeps the promise of CrashLedger with any number of pods,     *)
(* crashes, errors and restarts: the counts of an index and a reason go up by   *)
(* one for a crash that happened and never down, because an update from an old  *)
(* copy of the Event is refused, and a crash it takes for reported has been     *)
(* counted (createEvent, updateEvent).                                          *)
THEOREM ImplementsTheLedger == Spec => ImplementsLedger
<1> DEFINE Inv == IInv /\ Happened /\ EventsApart /\ WithinBounds
           C == [pod : Apps, uid : 1 .. MaxPods, time : 1 .. MaxCrashes, reason : Reasons]
<1>1. Init => Ledger!Init /\ EventsApart /\ WithinBounds
  <2> SUFFICES ASSUME Init PROVE Ledger!Init /\ EventsApart /\ WithinBounds
    OBVIOUS
  <2>1. EventsApart
    BY EventsApartInit
  <2>2. \A k : Marks(k) = {}
    BY DEF Marks, Init
  <2>3. Cardinality({}) = 0
    BY FS_EmptySet
  <2>4. WithinBounds
    BY BoundsAssumption DEF WithinBounds, Init
  <2> QED BY <2>1, <2>2, <2>3, <2>4 DEF Init, Ledger!Init
<1>2. Inv /\ IInv' /\ [Next]_vars => (Happened /\ EventsApart /\ WithinBounds)'
  BY HappenedInductive, EventsApartInductive, WithinBoundsInductive DEF IInv
<1>3. Inv /\ [Next]_vars => [Ledger!Next]_(Ledger!vars)
  <2> SUFFICES ASSUME Inv, [Next]_vars PROVE [Ledger!Next]_(Ledger!vars)
    OBVIOUS
  <2>1. CASE LeavesEvents
    <3>1. reported' = reported /\ \A k : Marks(k)' = Marks(k)
      BY <2>1 DEF LeavesEvents, Marks, Known
    <3>2. crashed' = crashed \/ \E c \in C : crashed' = crashed \cup {c}
      <4>1. CASE \E p \in Pods : ContainerTerminates(p)
        BY <4>1, TerminationInLedger DEF IInv
      <4>2. CASE ~\E p \in Pods : ContainerTerminates(p)
        BY <4>2 DEF Next, Controller, Dequeue, ReadFails, GetPod, ListPodEvents, GetSts,
           GetByInstanceAndReason, UpdateEvent, CreateEvent, Annotate, DeliverPod, DeliverEvents,
           PodCreated, PodRemoved, ContainerLeavesTerminated, PodEventSeen, OwnerGoes, EventExpires,
           Restart, vars, podVars
      <4> QED BY <4>1, <4>2
    <3> QED BY <3>1, <3>2 DEF Ledger!Next, Ledger!Crash, Ledger!vars
  <2>2. CASE CountsThis
    <3>1. ThisCrash \in crashed /\ crashed \subseteq C
      <4>1. pc \in PastGetPod /\ pc \in Reporting
        BY <2>2 DEF CountsThis, CountsUp, CountsFirst, PastGetPod, Reporting
      <4> QED BY <4>1 DEF IInv, Happened, Held, Truthful, CrashOf, ThisCrash, WithinBounds
    <3>2. [k \in Keys |-> Cardinality(Marks(k)')]
            = [[k \in Keys |-> Cardinality(Marks(k))] EXCEPT ![KeyOf(ThisCrash)] = @ + 1]
      BY <2>2, TallyCounted DEF IInv
    <3>3. Ledger!Count(ThisCrash)
      BY <2>2, <3>1, <3>2 DEF CountsThis, Ledger!Count
    <3> QED BY <3>1, <3>3 DEF Ledger!Next
  <2> QED BY <2>1, <2>2, LedgerSteps DEF IInv
<1>4. Init => Happened
  BY HappenedInit
<1>5. Spec => []IInv
  BY Invariant
<1> QED BY <1>1, <1>2, <1>3, <1>4, <1>5, PTL DEF Spec, ImplementsLedger, Ledger!Spec

-----------------------------------------------------------------------------
(* Whose crash an Event counts *)

(* An Event is about a crash that happened: of that index, reason and LRP. *)
AboutACrash(e) ==
    \E d \in crashed : Lrp[d.pod] = e.lrp /\ Index[d.pod] = e.index /\ d.reason = e.reason

CountedIn(e, c) == e.index = Index[c.pod] /\ e.reason = c.reason

(* A crash is counted in an Event of its index and reason; the Event may be  *)
(* that of another LRP only when an instance of that LRP crashed alike.      *)
CountedAlike == \A c \in reported : \E e \in Known : CountedIn(e, c) /\ AboutACrash(e)

EventsBegun == \A e \in Known : AboutACrash(e)

(* Every step keeps the Events' crashes, and the reported crashes in Events. *)
LEMMA AlikeInductive ==
    ASSUME TypeOK, Held, Happened, EventsApart, EventsBegun, CountedAlike, [Next]_vars
    PROVE  EventsBegun' /\ CountedAlike'
<1>1. \A e, f : f.lrp = e.lrp /\ f.index = e.index /\ f.reason = e.reason /\ AboutACrash(e)
                  => AboutACrash(f)'
  <2>1. crashed \subseteq crashed'
    BY CrashedGrows
  <2> QED BY <2>1 DEF AboutACrash
<1>2. CASE LeavesEvents
  BY <1>1, <1>2 DEF LeavesEvents, EventsBegun, CountedAlike, CountedIn
<1>3. CASE CountsThis
  <2>1. /\ ThisCrash \in crashed /\ ThisCrash.pod = locals.key
        /\ ThisCrash.reason = locals.crash.reason
    <3>1. pc \in PastGetPod /\ pc \in Reporting
      BY <1>3 DEF CountsThis, CountsUp, CountsFirst, PastGetPod, Reporting
    <3> QED BY <3>1 DEF Happened, Held, Truthful, CrashOf, ThisCrash
  <2>2. /\ \A f \in Known' : AboutACrash(f)'
        /\ \A e \in Known : \E f \in Known' : f.index = e.index /\ f.reason = e.reason
        /\ \E f \in Known' : CountedIn(f, ThisCrash)
    <3>1. CASE CountsUp
      <4> DEFINE new == [locals.event EXCEPT !.count = @ + 1]
      <4>1. locals.event \in Known /\ Known' = (Known \ {locals.event}) \cup {new}
        BY <3>1 DEF CountsUp, Known
      <4>2. /\ new.index = locals.event.index /\ new.lrp = locals.event.lrp
            /\ new.reason = locals.event.reason
        BY FieldTypes DEF EventObjects
      <4>3. CountedIn(locals.event, ThisCrash)
        BY <2>1, <3>1 DEF EventsApart, About, KeyOf, CountsUp, CountedIn
      <4>4. AboutACrash(new)
        BY <4>1, <4>2 DEF EventsBegun, AboutACrash
      <4> HIDE DEF new
      <4> QED BY <1>1, <4>1, <4>2, <4>3, <4>4 DEF EventsBegun, CountedIn
    <3>2. CASE CountsFirst
      <4>1. Known' = Known \cup {NewEvent}
        BY <3>2 DEF CountsFirst
      <4>2. /\ NewEvent.index = Index[locals.key] /\ NewEvent.lrp = Lrp[locals.key]
            /\ NewEvent.reason = locals.crash.reason
        BY DEF NewEvent
      <4>3. AboutACrash(NewEvent)
        BY <2>1, <4>2 DEF AboutACrash
      <4> QED BY <1>1, <2>1, <4>1, <4>2, <4>3 DEF EventsBegun, CountedIn
    <3> QED BY <1>3, <3>1, <3>2 DEF CountsThis
  <2>3. EventsBegun'
    BY <2>2 DEF EventsBegun
  <2>4. CountedAlike'
    <3> SUFFICES ASSUME NEW c \in reported' PROVE \E f \in Known' : CountedIn(f, c)
      BY <2>2 DEF CountedAlike, CountedIn
    <3>1. c \in reported \/ c = ThisCrash
      BY <1>3 DEF CountsThis
    <3>2. CASE c \in reported
      BY <2>2, <3>2 DEF CountedAlike, CountedIn
    <3> QED BY <2>2, <3>1, <3>2
  <2> QED BY <2>3, <2>4
<1> QED BY <1>2, <1>3, LedgerSteps

(* Every crash the controller takes for reported is counted in an Event of its   *)
(* index and reason, through failures, restarts and Events that expire; and that *)
(* Event is about another LRP only if an instance of that LRP with this index    *)
(* crashed for this reason, as in the run crash_wrong_lrp                        *)
(* (getByInstanceAndReason, createEvent).                                        *)
THEOREM CountedAmongItsLike == Spec => []CountedAlike
<1> DEFINE Inv == IInv /\ Happened /\ EventsApart
           New == EventsBegun /\ CountedAlike
<1>1. Init => EventsApart /\ New
  <2> SUFFICES ASSUME Init PROVE EventsApart /\ New
    OBVIOUS
  <2>1. EventsApart
    BY EventsApartInit
  <2>2. Known = {} /\ reported = {}
    BY DEF Init, Known
  <2> QED BY <2>1, <2>2 DEF EventsBegun, CountedAlike
<1>2. Init => Happened
  BY HappenedInit
<1>3. Spec => []IInv
  BY Invariant
<1>4. Inv /\ IInv' /\ [Next]_vars => (Happened /\ EventsApart)'
  BY HappenedInductive, EventsApartInductive DEF IInv
<1>5. Inv /\ New /\ [Next]_vars => New'
  BY AlikeInductive DEF IInv
<1>6. New => CountedAlike
  OBVIOUS
<1> HIDE DEF New
<1> QED BY <1>1, <1>2, <1>3, <1>4, <1>5, <1>6, PTL DEF Spec
=============================================================================
