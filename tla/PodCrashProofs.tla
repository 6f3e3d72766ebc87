--------------------------- MODULE PodCrashProofs ---------------------------
(***************************************************************************)
(* Theorems about the PodCrash controller, for every value of the          *)
(* constants: its type correctness, that a crash is counted twice only     *)
(* through a stale copy of its pod, an error or a restart, and that it has *)
(* happened.                                                               *)
(***************************************************************************)
EXTENDS PodCrash, InformerProofs

-----------------------------------------------------------------------------
(* The invariant *)

PodCopies(p) == Copies(podCache[p], podWatch[p]) \cup {pods[p]}
LastCrash(x) == NewestTermination(x).time

(* y comes after a version of the pod that has crashed at the time t. *)
Since(uid, t, y) ==
    /\ y.uid = 0 \/ uid <= y.uid
    /\ LastCrash(y) = 0 \/ t <= LastCrash(y)
    /\ y.uid = uid => t <= LastCrash(y)

PodOrder == {p \in PodObjects \X PodObjects :
               Exists(p[1]) => Since(p[1].uid, LastCrash(p[1]), p[2])}

Reporting == {"getSts", "listEvents", "updateEvent", "createEvent", "annotate"}
PastGetPod == {"listPodEvents"} \cup Reporting

(* What the worker holds between two calls: a pod it has read, and the newest *)
(* crash that this copy shows and does not show as reported.                  *)
Held ==
    /\ pc # "idle" => locals.key \in Pods
    /\ pc \in PastGetPod => locals.key \in Apps /\ Exists(locals.pod)
    /\ pc = "listPodEvents" => locals.pod.state = "terminated"
    /\ pc \in Reporting => /\ locals.crash = NewestTermination(locals.pod)
                           /\ locals.crash # Never
                           /\ locals.crash.time # locals.pod.reported

(* A copy is of a pod that was made and shows times that are past; what it     *)
(* shows as reported is no later than its newest crash.                        *)
Sane(x) ==
    /\ x.uid <= made.pods /\ x.reported <= clock /\ LastCrash(x) <= clock
    /\ LastCrash(x) = 0 \/ x.reported <= LastCrash(x)

PodsOrdered ==
    /\ \A p \in Pods : InOrder(PodOrder, podCache[p], podWatch[p], pods[p])
    /\ \A p \in Pods : \A x \in PodCopies(p) : Sane(x)
    /\ pc \in PastGetPod =>
         Sane(locals.pod) /\ \A x \in PodCopies(locals.key) : <<locals.pod, x>> \in PodOrder

(* Every copy that the controller still may read of a pod it has reported a    *)
(* crash of shows that crash or a later one.                                   *)
ReportedShown ==
    \A c \in reported :
        /\ c.uid \in 1 .. made.pods /\ c.time <= clock
        /\ \A x \in PodCopies(c.pod) : Since(c.uid, c.time, x)
        /\ pc \in PastGetPod /\ locals.key = c.pod => Since(c.uid, c.time, locals.pod)

(* Unless a call has failed or the process was replaced, what is reported is   *)
(* annotated or about to be.                                                   *)
Annotated ==
    faults = 0 /\ restarts = 0 =>
      \A c \in reported : pods[c.pod].uid = c.uid =>
        \/ c.time <= pods[c.pod].reported
        \/ pc = "annotate" /\ ThisCrash = c

IInv == TypeOK /\ Held /\ PodsOrdered /\ ReportedShown /\ Annotated
-----------------------------------------------------------------------------
(* Type correctness *)

Locals == [key : Pods \cup {""}, pod : PodObjects, crash : Terminations, event : EventObjects]

LEMMA NoObjects ==
    /\ Never \in Terminations /\ NoPod \in PodObjects /\ NoEvent \in EventObjects
    /\ NoLocals \in Locals /\ NoPod.uid = 0 /\ LastCrash(NoPod) = 0 /\ NoPod.reported = 0
<1>1. Never \in Terminations
  BY DEF Terminations
<1>2. NoPod \in PodObjects
  BY <1>1 DEF PodObjects, NoPod
<1>3. NoEvent \in EventObjects
  BY DEF NoEvent, EventObjects
<1>4. NoLocals \in Locals
  BY <1>1, <1>2, <1>3 DEF NoLocals, Locals
<1> QED BY <1>1, <1>2, <1>3, <1>4 DEF NoPod, LastCrash, NewestTermination, Never

LEMMA TerminationTypes ==
    /\ \A e \in Terminations : e.time \in Nat /\ (e # Never => e.time # 0 /\ e.reason \in Reasons)
    /\ \A t \in Nat \ {0}, reason \in Reasons : [time |-> t, reason |-> reason] \in Terminations
<1>1. \A e \in [time : Nat \ {0}, reason : Reasons] : e.time \in Nat \ {0} /\ e.reason \in Reasons
  OBVIOUS
<1>2. \A t \in Nat \ {0}, reason \in Reasons :
        [time |-> t, reason |-> reason] \in [time : Nat \ {0}, reason : Reasons]
  OBVIOUS
<1>3. Never.time = 0
  BY DEF Never
<1> QED BY <1>1, <1>2, <1>3 DEF Terminations

LEMMA PodTypes ==
    ASSUME NEW x \in PodObjects
    PROVE  /\ x.uid \in Nat /\ x.reported \in Nat /\ x.state \in {"up", "terminated"}
           /\ x.term \in Terminations /\ x.last \in Terminations
           /\ NewestTermination(x) \in Terminations /\ LastCrash(x) \in Nat
<1>1. /\ x.uid \in Nat /\ x.reported \in Nat /\ x.state \in {"up", "terminated"}
      /\ x.term \in Terminations /\ x.last \in Terminations
  BY DEF PodObjects
<1> QED BY <1>1, TerminationTypes DEF NewestTermination, LastCrash

(* What the kubelet and the controller make of a pod. *)
LEMMA PodChanges ==
    ASSUME NEW x \in PodObjects
    PROVE  /\ \A uid \in Nat : LET new == [NoPod EXCEPT !.uid = uid]
                               IN  /\ new \in PodObjects /\ new.uid = uid
                                   /\ LastCrash(new) = 0 /\ new.reported = 0
           /\ \A e \in Terminations :
                LET new == [x EXCEPT !.state = "terminated", !.term = e]
                IN  /\ new \in PodObjects /\ new.uid = x.uid
                    /\ LastCrash(new) = e.time /\ new.reported = x.reported
           /\ x.state = "terminated" =>
                LET new == [x EXCEPT !.state = "up", !.last = x.term, !.term = Never]
                IN  /\ new \in PodObjects /\ new.uid = x.uid
                    /\ LastCrash(new) = LastCrash(x) /\ new.reported = x.reported
           /\ \A t \in Nat : LET new == [x EXCEPT !.reported = t]
                             IN  /\ new \in PodObjects /\ new.uid = x.uid
                                 /\ LastCrash(new) = LastCrash(x) /\ new.reported = t
<1> USE PodTypes, NoObjects
<1>1. \A uid \in Nat : LET new == [NoPod EXCEPT !.uid = uid]
                       IN  /\ new \in PodObjects /\ new.uid = uid
                           /\ LastCrash(new) = 0 /\ new.reported = 0
  BY DEF NoPod, PodObjects, LastCrash, NewestTermination, Never
<1>2. \A e \in Terminations :
        LET new == [x EXCEPT !.state = "terminated", !.term = e]
        IN  /\ new \in PodObjects /\ new.uid = x.uid
            /\ LastCrash(new) = e.time /\ new.reported = x.reported
  BY DEF PodObjects, LastCrash, NewestTermination
<1>3. ASSUME x.state = "terminated"
      PROVE  LET new == [x EXCEPT !.state = "up", !.last = x.term, !.term = Never]
             IN  /\ new \in PodObjects /\ new.uid = x.uid
                 /\ LastCrash(new) = LastCrash(x) /\ new.reported = x.reported
  BY <1>3 DEF PodObjects, LastCrash, NewestTermination
<1>4. \A t \in Nat : LET new == [x EXCEPT !.reported = t]
                     IN  /\ new \in PodObjects /\ new.uid = x.uid
                         /\ LastCrash(new) = LastCrash(x) /\ new.reported = t
  BY DEF PodObjects, LastCrash, NewestTermination
<1> QED BY <1>1, <1>2, <1>3, <1>4

(* The types by what changes together. *)
PodStore ==
    /\ pods \in [Pods -> PodObjects] /\ podWatch \in [Pods -> Seq(PodObjects)]
EventStore ==
    /\ events \in SUBSET EventObjects /\ eventWatch \in Seq(SUBSET EventObjects)
Caches == podCache \in [Pods -> PodObjects] /\ eventCache \in SUBSET EventObjects
Work ==
    /\ queued \subseteq Pods
    /\ pc \in {"idle", "getPod"} \cup PastGetPod
    /\ locals \in Locals
Scene ==
    /\ podEvents \in [Pods -> SUBSET {"Killing", "other"}]
    /\ owner \in [Pods -> {"lrp", "orphaned", "deleted"}]
    /\ clock \in Nat /\ crashed \subseteq Crashes
Ledgers == reported \subseteq Crashes /\ forgotten \in SUBSET EventObjects
Budgets ==
    /\ made \in [pods : Nat, crashes : Nat, events : Nat, mishaps : Nat]
    /\ faults \in Nat /\ restarts \in Nat

LEMMA TypeParts ==
    TypeOK <=> PodStore /\ EventStore /\ Caches /\ Work /\ Scene /\ Ledgers /\ Budgets
BY DEF TypeOK, PodStore, EventStore, Caches, Work, Scene, Ledgers, Budgets, Locals, PastGetPod, Reporting

LEMMA TypePartsNext ==
    TypeOK' <=> PodStore' /\ EventStore' /\ Caches' /\ Work' /\ Scene' /\ Ledgers' /\ Budgets'
BY DEF TypeOK, PodStore, EventStore, Caches, Work, Scene, Ledgers, Budgets, Locals, PastGetPod, Reporting
LEMMA FieldTypes ==
    ASSUME TypeOK
    PROVE  /\ locals \in Locals /\ locals.key \in Pods \cup {""} /\ locals.pod \in PodObjects
           /\ locals.crash \in Terminations /\ locals.event \in EventObjects
           /\ made.pods \in Nat /\ made.crashes \in Nat /\ made.events \in Nat /\ made.mishaps \in Nat
           /\ clock \in Nat /\ faults \in Nat /\ restarts \in Nat
           /\ \A p \in Pods : /\ pods[p] \in PodObjects /\ podCache[p] \in PodObjects
                              /\ podWatch[p] \in Seq(PodObjects)
                              /\ Index[p] \in Nat /\ Lrp[p] \in Lrps
<1>1. /\ locals \in Locals /\ locals.key \in Pods \cup {""} /\ locals.pod \in PodObjects
      /\ locals.crash \in Terminations /\ locals.event \in EventObjects
  BY DEF TypeOK, Locals
<1>2. /\ made.pods \in Nat /\ made.crashes \in Nat /\ made.events \in Nat /\ made.mishaps \in Nat
      /\ clock \in Nat /\ faults \in Nat /\ restarts \in Nat
  BY DEF TypeOK
<1>3. \A p \in Pods : /\ pods[p] \in PodObjects /\ podCache[p] \in PodObjects
                      /\ podWatch[p] \in Seq(PodObjects)
  BY DEF TypeOK
<1>4. \A p \in Pods : Index[p] \in Nat /\ Lrp[p] \in Lrps
  BY LrpAssumption, IndexAssumption
<1> QED BY <1>1, <1>2, <1>3, <1>4

(* What a write does to a pod and to what is on its way of it. *)
LEMMA PodWritten ==
    ASSUME TypeOK, NEW p \in Pods, NEW new \in PodObjects, WritePod(p, new)
    PROVE  /\ PodStore'
           /\ pods'[p] = new /\ podWatch'[p] = Published(podWatch[p], pods[p], new)
           /\ \A n \in Pods \ {p} : pods'[n] = pods[n] /\ podWatch'[n] = podWatch[n]
<1>1. /\ pods[p] \in PodObjects /\ podCache[p] \in PodObjects /\ podWatch[p] \in Seq(PodObjects)
  BY FieldTypes
<1>2. Published(podWatch[p], pods[p], new) \in Seq(PodObjects)
  BY <1>1, CopiesWritten
<1> QED BY <1>2 DEF TypeOK, WritePod, PodStore

LEMMA EventsWritten ==
    ASSUME EventStore, NEW new \in SUBSET EventObjects, WriteEvents(new)
    PROVE  EventStore'
BY CopiesWritten DEF EventStore, WriteEvents

(* What the worker goes on with. *)
LEMMA CallTypes ==
    ASSUME Work, NEW next \in PastGetPod, NEW vals \in Locals, Call(next, vals)
    PROVE  Work'
BY DEF Call, Work

LEMMA EndTypes ==
    ASSUME Work, locals.key \in Pods, Done \/ Retry
    PROVE  Work'
BY NoObjects DEF Done, Retry, Work

LEMMA ReportTypes ==
    ASSUME TypeOK, locals.key \in Pods, NEW pod \in PodObjects, NEW termination \in Terminations,
           Report(pod, termination)
    PROVE  Work'
<1>1. [locals EXCEPT !.pod = pod, !.crash = termination] \in Locals
  BY FieldTypes DEF Locals
<1>2. Work
  BY TypeParts
<1> QED BY <1>1, <1>2, CallTypes, EndTypes DEF Report, PastGetPod, Reporting

(* The crash the worker reports. *)
LEMMA ThisCrashType ==
    ASSUME TypeOK, Held, pc \in Reporting
    PROVE  /\ ThisCrash \in Crashes /\ ThisCrash.pod = locals.key
           /\ ThisCrash.uid = locals.pod.uid /\ ThisCrash.time = LastCrash(locals.pod)
           /\ ThisCrash.time # 0 /\ ThisCrash.uid # 0
<1>1. /\ locals.key \in Apps /\ locals.pod.uid # 0 /\ locals.crash # Never
      /\ locals.crash = NewestTermination(locals.pod)
  BY DEF Held, PastGetPod, Exists
<1>2. locals.key \in Pods
  BY <1>1, AppsAssumption
<1>3. /\ locals.pod.uid \in Nat /\ locals.crash.time \in Nat /\ locals.crash.time # 0
      /\ locals.crash.reason \in Reasons
  BY <1>1, FieldTypes, PodTypes, TerminationTypes
<1> QED BY <1>1, <1>2, <1>3 DEF ThisCrash, Crashes, LastCrash

(* The new counts. *)
LEMMA EventTypes ==
    ASSUME TypeOK, Held, pc \in Reporting
    PROVE  /\ [locals.event EXCEPT !.count = @ + 1] \in EventObjects
           /\ [id |-> made.events + 1, lrp |-> Lrp[locals.key], index |-> Index[locals.key],
               reason |-> locals.crash.reason, count |-> 1] \in EventObjects
<1>a. /\ locals.key \in Apps /\ locals.crash # Never
  BY DEF Held, PastGetPod
<1>b. locals.crash \in Terminations
  BY FieldTypes
<1>1. locals.key \in Pods /\ locals.crash.reason \in Reasons
  BY <1>a, <1>b, TerminationTypes, AppsAssumption
<1>c. Lrp[locals.key] \in Lrps /\ Index[locals.key] \in Nat
  BY <1>1, FieldTypes
<1>d. made.events \in Nat
  BY FieldTypes
<1>2. Lrp[locals.key] \in Lrps /\ Index[locals.key] \in Nat /\ made.events + 1 \in Nat
  BY <1>c, <1>d
<1>3. locals.event \in EventObjects
  BY FieldTypes
<1>4. [locals.event EXCEPT !.count = @ + 1] \in EventObjects
  <2>1. \A e \in EventObjects, n \in Nat : [e EXCEPT !.count = n] \in EventObjects
    BY DEF EventObjects
  <2>2. \A e \in EventObjects : e.count \in Nat
    BY DEF EventObjects
  <2>3. locals.event.count \in Nat
    BY <1>3, <2>2
  <2>4. locals.event.count + 1 \in Nat
    BY <2>3
  <2> QED BY <1>3, <2>1, <2>4
<1>5. [id |-> made.events + 1, lrp |-> Lrp[locals.key], index |-> Index[locals.key],
       reason |-> locals.crash.reason, count |-> 1] \in EventObjects
  BY <1>1, <1>2 DEF EventObjects
<1> QED BY <1>4, <1>5
(* The bounds count on. *)
MadeMore == \/ made' = made
            \/ made' = [made EXCEPT !.pods = @ + 1] \/ made' = [made EXCEPT !.crashes = @ + 1]
            \/ made' = [made EXCEPT !.events = @ + 1] \/ made' = [made EXCEPT !.mishaps = @ + 1]

LEMMA BudgetTypes ==
    ASSUME Budgets, MadeMore,
           faults' = faults \/ (\E outcome : Charge(outcome)),
           restarts' = restarts \/ restarts' = restarts + 1
    PROVE  Budgets' /\ made'.pods >= made.pods
<1> DEFINE Counters == [pods : Nat, crashes : Nat, events : Nat, mishaps : Nat]
<1>1. \A m \in Counters : m.pods \in Nat /\ m.crashes \in Nat /\ m.events \in Nat /\ m.mishaps \in Nat
  OBVIOUS
<1>2. \A m \in Counters, n \in Nat :
        /\ [m EXCEPT !.pods = n] \in Counters /\ [m EXCEPT !.pods = n].pods = n
        /\ [m EXCEPT !.crashes = n] \in Counters /\ [m EXCEPT !.crashes = n].pods = m.pods
        /\ [m EXCEPT !.events = n] \in Counters /\ [m EXCEPT !.events = n].pods = m.pods
        /\ [m EXCEPT !.mishaps = n] \in Counters /\ [m EXCEPT !.mishaps = n].pods = m.pods
  OBVIOUS
<1>3. made \in Counters /\ faults \in Nat /\ restarts \in Nat
  BY DEF Budgets
<1>4. /\ made.pods \in Nat /\ made.crashes \in Nat /\ made.events \in Nat /\ made.mishaps \in Nat
  BY <1>1, <1>3
<1>5. /\ made.pods + 1 \in Nat /\ made.crashes + 1 \in Nat
      /\ made.events + 1 \in Nat /\ made.mishaps + 1 \in Nat
  BY <1>4
<1>6. made' \in Counters /\ (made'.pods = made.pods \/ made'.pods = made.pods + 1)
  BY <1>2, <1>3, <1>4, <1>5 DEF MadeMore
<1>7. faults' \in Nat /\ restarts' \in Nat
  BY <1>3 DEF Charge
<1> QED BY <1>4, <1>6, <1>7 DEF Budgets

LEMMA TypeInductive ==
    ASSUME TypeOK, Held, [Next]_vars
    PROVE  TypeOK'
<1> USE DEF podVars, eventVars, cacheVars, workVars, budgetVars
<1>a. PodStore /\ EventStore /\ Caches /\ Work /\ Scene /\ Ledgers /\ Budgets
  BY TypeParts
<1>b. SUFFICES PodStore' /\ EventStore' /\ Caches' /\ Work' /\ Scene' /\ Ledgers' /\ Budgets'
  BY TypePartsNext
<1>c. pc # "idle" => locals.key \in Pods
  BY DEF Held
<1>d. locals \in Locals /\ NoLocals \in Locals
  BY FieldTypes, NoObjects
<1>e. /\ UNCHANGED <<pods, podWatch>> => PodStore'
      /\ UNCHANGED <<events, eventWatch>> => EventStore'
      /\ UNCHANGED <<podCache, eventCache>> => Caches'
      /\ UNCHANGED <<queued, pc, locals>> => Work'
      /\ UNCHANGED <<podEvents, owner, clock, crashed>> => Scene'
      /\ UNCHANGED <<reported, forgotten>> => Ledgers'
  BY <1>a DEF PodStore, EventStore, Caches, Work, Scene, Ledgers
<1>f. ASSUME MadeMore,
             faults' = faults \/ (\E outcome : Charge(outcome)),
             restarts' = restarts \/ restarts' = restarts + 1
      PROVE  Budgets'
  BY <1>a, <1>f, BudgetTypes
<1> USE DEF MadeMore
<1>1. CASE Dequeue
  <2>1. PICK p \in queued : /\ queued' = queued \ {p}
                           /\ pc' = "getPod" /\ locals' = [NoLocals EXCEPT !.key = p]
    BY <1>1 DEF Dequeue
  <2>2. locals' \in Locals
    BY <1>a, <1>d, <2>1 DEF Locals, Work
  <2>3. Work'
    BY <1>1, <1>a, <2>1, <2>2 DEF Dequeue, Work
  <2> QED BY <1>1, <1>e, <1>f, <2>3 DEF Dequeue
<1>2. CASE ReadFails
  <2>1. Work'
    BY <1>2, <1>a, <1>c, EndTypes DEF ReadFails
  <2> QED BY <1>2, <1>e, <1>f, <2>1 DEF ReadFails
<1>3. CASE GetPod
  <2> DEFINE pod == podCache[locals.key]
  <2>1. pc = "getPod" /\ locals.key \in Pods /\ pod \in PodObjects
    BY <1>3, <1>c, FieldTypes DEF GetPod
  <2>2. Done \/ Call("listPodEvents", [locals EXCEPT !.pod = pod]) \/ Report(pod, pod.last)
    BY <1>3 DEF GetPod
  <2>3. [locals EXCEPT !.pod = pod] \in Locals /\ pod.last \in Terminations
    BY <1>d, <2>1, PodTypes DEF Locals
  <2>4. Work'
    BY <1>a, <2>1, <2>2, <2>3, EndTypes, CallTypes, ReportTypes DEF PastGetPod
  <2> QED BY <1>3, <1>e, <1>f, <2>4 DEF GetPod
<1>4. CASE ListPodEvents
  <2>1. locals.key \in Pods /\ locals.pod \in PodObjects /\ locals.pod.term \in Terminations
    BY <1>4, <1>c, FieldTypes, PodTypes DEF ListPodEvents
  <2>2. Done \/ Report(locals.pod, locals.pod.term)
    BY <1>4 DEF ListPodEvents
  <2>3. Work'
    BY <1>a, <2>1, <2>2, EndTypes, ReportTypes
  <2> QED BY <1>4, <1>e, <1>f, <2>3 DEF ListPodEvents
<1>5. CASE GetSts
  <2>1. locals.key \in Pods /\ (Done \/ Retry \/ Call("listEvents", locals))
    BY <1>5, <1>c DEF GetSts
  <2>2. Work'
    BY <1>a, <1>d, <2>1, EndTypes, CallTypes DEF PastGetPod, Reporting
  <2> QED BY <1>5, <1>e, <1>f, <2>2 DEF GetSts
<1>6. CASE GetByInstanceAndReason
  <2>1. \/ \E e \in Matching : Call("updateEvent", [locals EXCEPT !.event = e])
        \/ Call("createEvent", locals)
    BY <1>6 DEF GetByInstanceAndReason
  <2>2. \A e \in Matching : [locals EXCEPT !.event = e] \in Locals
    BY <1>a, <1>d DEF Matching, Caches, Locals
  <2>3. Work'
    BY <1>a, <1>d, <2>1, <2>2, CallTypes DEF PastGetPod, Reporting
  <2> QED BY <1>6, <1>e, <1>f, <2>3 DEF GetByInstanceAndReason
<1>7. CASE UpdateEvent
  <2>1. pc \in Reporting /\ locals.key \in Pods
    BY <1>7, <1>c DEF UpdateEvent, Reporting
  <2>2. PICK applied \in BOOLEAN, outcome \in Outcomes :
          /\ Charge(outcome)
          /\ WriteEvents(IF applied
                         THEN {e \in events : e.id # locals.event.id}
                                \cup {[locals.event EXCEPT !.count = @ + 1]}
                         ELSE events)
          /\ \/ Call("annotate", locals) /\ reported' = reported \cup {ThisCrash}
             \/ Retry /\ UNCHANGED reported
    BY <1>7 DEF UpdateEvent
  <2>3. EventStore'
    BY <1>a, <2>1, <2>2, EventTypes, EventsWritten DEF EventStore
  <2>4. Work'
    BY <1>a, <1>d, <2>1, <2>2, CallTypes, EndTypes DEF PastGetPod, Reporting
  <2>5. Ledgers'
    BY <1>7, <1>a, <2>1, <2>2, ThisCrashType DEF Ledgers, UpdateEvent
  <2> QED BY <1>7, <1>e, <1>f, <2>2, <2>3, <2>4, <2>5 DEF UpdateEvent
<1>8. CASE CreateEvent
  <2> DEFINE new == [id |-> made.events + 1, lrp |-> Lrp[locals.key], index |-> Index[locals.key],
                     reason |-> locals.crash.reason, count |-> 1]
  <2>1. pc \in Reporting /\ locals.key \in Pods
    BY <1>8, <1>c DEF CreateEvent, Reporting
  <2>2. PICK outcome \in Outcomes :
          /\ Charge(outcome)
          /\ WriteEvents(IF Reaches(outcome) THEN events \cup {new} ELSE events)
          /\ made' = IF Reaches(outcome) THEN [made EXCEPT !.events = @ + 1] ELSE made
          /\ IF outcome = "ok"
             THEN Call("annotate", locals) /\ reported' = reported \cup {ThisCrash}
             ELSE Retry /\ UNCHANGED reported
    BY <1>8 DEF CreateEvent
  <2>3. EventStore'
    BY <1>a, <2>1, <2>2, EventTypes, EventsWritten DEF EventStore
  <2>4. Work'
    BY <1>a, <1>d, <2>1, <2>2, CallTypes, EndTypes DEF PastGetPod, Reporting
  <2>5. Ledgers'
    BY <1>8, <1>a, <2>1, <2>2, ThisCrashType DEF Ledgers, CreateEvent
  <2> QED BY <1>8, <1>e, <1>f, <2>2, <2>3, <2>4, <2>5 DEF CreateEvent
<1>9. CASE Annotate
  <2>1. PICK outcome \in Outcomes :
          /\ Charge(outcome)
          /\ WritePod(locals.key, IF Reaches(outcome) /\ Exists(pods[locals.key])
                                  THEN [pods[locals.key] EXCEPT !.reported = locals.crash.time]
                                  ELSE pods[locals.key])
    BY <1>9 DEF Annotate
  <2>2. locals.key \in Pods /\ locals.crash.time \in Nat /\ pods[locals.key] \in PodObjects
    BY <1>9, <1>c, FieldTypes, TerminationTypes DEF Annotate
  <2>3. PodStore'
    BY <2>1, <2>2, PodChanges, PodWritten
  <2>4. Work'
    BY <1>9, <1>a, <2>2, EndTypes DEF Annotate
  <2> QED BY <1>9, <1>e, <1>f, <2>1, <2>3, <2>4 DEF Annotate
<1>10. ASSUME NEW p \in Pods, DeliverPod(p)
       PROVE  PodStore' /\ EventStore' /\ Caches' /\ Work' /\ Scene' /\ Ledgers' /\ Budgets'
  <2>1. /\ podCache[p] \in PodObjects /\ podWatch[p] \in Seq(PodObjects) /\ podWatch[p] # <<>>
    BY <1>10, FieldTypes DEF DeliverPod
  <2>2. Head(podWatch[p]) \in PodObjects /\ Tail(podWatch[p]) \in Seq(PodObjects)
    BY <2>1, Delivered
  <2>3. PodStore' /\ Caches'
    BY <1>10, <1>a, <2>2 DEF DeliverPod, PodStore, Caches
  <2>4. Work'
    BY <1>10, <1>a DEF DeliverPod, Work
  <2> QED BY <1>10, <1>e, <1>f, <2>3, <2>4 DEF DeliverPod
<1>11. CASE DeliverEvents
  <2>1. Head(eventWatch) \in SUBSET EventObjects /\ Tail(eventWatch) \in Seq(SUBSET EventObjects)
    BY <1>11, <1>a, Delivered DEF DeliverEvents, EventStore, Caches
  <2>2. EventStore' /\ Caches'
    BY <1>11, <1>a, <2>1 DEF DeliverEvents, EventStore, Caches
  <2> QED BY <1>11, <1>e, <1>f, <2>2 DEF DeliverEvents
<1>12. ASSUME NEW p \in Pods, PodCreated(p)
       PROVE  PodStore' /\ EventStore' /\ Caches' /\ Work' /\ Scene' /\ Ledgers' /\ Budgets'
  <2>a. made.pods \in Nat /\ pods[p] \in PodObjects
    BY FieldTypes
  <2>1. made.pods + 1 \in Nat /\ pods[p] \in PodObjects
    BY <2>a
  <2>2. PodStore'
    BY <1>12, <2>1, PodChanges, PodWritten DEF PodCreated
  <2> QED BY <1>12, <1>e, <1>f, <2>2 DEF PodCreated
<1>13. ASSUME NEW p \in Pods, PodRemoved(p)
       PROVE  PodStore' /\ EventStore' /\ Caches' /\ Work' /\ Scene' /\ Ledgers' /\ Budgets'
  <2>1. PodStore'
    BY <1>13, NoObjects, PodWritten DEF PodRemoved
  <2> QED BY <1>13, <1>e, <1>f, <2>1 DEF PodRemoved, Mishap
<1>14. ASSUME NEW p \in Pods, ContainerTerminates(p)
       PROVE  PodStore' /\ EventStore' /\ Caches' /\ Work' /\ Scene' /\ Ledgers' /\ Budgets'
  <2>1. PICK t \in {clock, clock + 1} \ {0}, reason \in Reasons :
          /\ clock' = t
          /\ WritePod(p, [pods[p] EXCEPT !.state = "terminated",
                                         !.term = [time |-> t, reason |-> reason]])
          /\ crashed' = IF p \in Apps
                        THEN crashed \cup {[pod |-> p, uid |-> pods[p].uid, time |-> t, reason |-> reason]}
                        ELSE crashed
    BY <1>14 DEF ContainerTerminates
  <2>a. clock \in Nat /\ pods[p] \in PodObjects
    BY FieldTypes
  <2>2. t \in Nat \ {0} /\ pods[p] \in PodObjects /\ pods[p].uid \in Nat
    BY <2>a, PodTypes
  <2>3. [time |-> t, reason |-> reason] \in Terminations
    BY <2>2, TerminationTypes
  <2>4. PodStore'
    BY <2>1, <2>2, <2>3, PodChanges, PodWritten
  <2>5. [pod |-> p, uid |-> pods[p].uid, time |-> t, reason |-> reason] \in Crashes
    BY <2>2 DEF Crashes
  <2>6. Scene'
    BY <1>14, <1>a, <2>1, <2>2, <2>5 DEF Scene, ContainerTerminates
  <2> QED BY <1>14, <1>e, <1>f, <2>4, <2>6 DEF ContainerTerminates
<1>15. ASSUME NEW p \in Pods, ContainerLeavesTerminated(p)
       PROVE  PodStore' /\ EventStore' /\ Caches' /\ Work' /\ Scene' /\ Ledgers' /\ Budgets'
  <2>1. pods[p] \in PodObjects /\ pods[p].state = "terminated"
    BY <1>15, FieldTypes DEF ContainerLeavesTerminated
  <2>2. PodStore'
    BY <1>15, <2>1, PodChanges, PodWritten DEF ContainerLeavesTerminated
  <2> QED BY <1>15, <1>e, <1>f, <2>2 DEF ContainerLeavesTerminated
<1>16. ASSUME NEW p \in Pods, PodEventSeen(p)
       PROVE  PodStore' /\ EventStore' /\ Caches' /\ Work' /\ Scene' /\ Ledgers' /\ Budgets'
  <2>1. Scene'
    BY <1>16, <1>a DEF PodEventSeen, Scene
  <2> QED BY <1>16, <1>e, <1>f, <2>1 DEF PodEventSeen, Mishap
<1>17. ASSUME NEW p \in Pods, OwnerGoes(p)
       PROVE  PodStore' /\ EventStore' /\ Caches' /\ Work' /\ Scene' /\ Ledgers' /\ Budgets'
  <2>1. Scene'
    BY <1>17, <1>a DEF OwnerGoes, Scene
  <2> QED BY <1>17, <1>e, <1>f, <2>1 DEF OwnerGoes, Mishap
<1>18. CASE EventExpires
  <2>1. PICK e \in events : WriteEvents(events \ {e}) /\ forgotten' = forgotten \cup {e}
    BY <1>18 DEF EventExpires
  <2>2. EventStore'
    BY <1>a, <2>1, EventsWritten DEF EventStore
  <2>3. Ledgers'
    BY <1>18, <1>a, <2>1 DEF EventExpires, Ledgers, EventStore
  <2> QED BY <1>18, <1>e, <1>f, <2>2, <2>3 DEF EventExpires, Mishap
<1>19. CASE Restart
  <2>1. PodStore' /\ EventStore' /\ Caches'
    <3>1. CASE UNCHANGED cacheVars
      BY <1>19, <1>e, <3>1 DEF Restart
    <3>2. CASE /\ podCache' = pods /\ podWatch' = [p \in Pods |-> <<>>]
               /\ eventCache' = events /\ eventWatch' = <<>>
      BY <1>19, <1>a, <3>2, EmptySeq DEF Restart, PodStore, EventStore, Caches
    <3> QED BY <1>19, <3>1, <3>2 DEF Restart
  <2>2. Work'
    BY <1>19, <1>d DEF Restart, Work
  <2> QED BY <1>19, <1>e, <1>f, <2>1, <2>2 DEF Restart
<1>20. CASE UNCHANGED vars
  BY <1>20, <1>e, <1>f DEF vars
<1> QED BY <1>1, <1>2, <1>3, <1>4, <1>5, <1>6, <1>7, <1>8, <1>9, <1>10, <1>11, <1>12, <1>13, <1>14,
           <1>15, <1>16, <1>17, <1>18, <1>19, <1>20 DEF Next, Controller
-----------------------------------------------------------------------------
(* What a step does *)

Kept == UNCHANGED <<pods, podCache, podWatch>>

(* The worker waits, stops or starts, reads a pod, goes on with it, or counts. *)
Waits == UNCHANGED <<pc, locals, reported>>
Stops == pc' \in {"idle", "getPod"} /\ UNCHANGED reported
Reads ==
    /\ pc = "getPod" /\ pc' \in PastGetPod \ {"annotate"}
    /\ locals'.key = locals.key /\ locals'.pod = podCache[locals.key]
    /\ UNCHANGED reported /\ Kept
GoesOn ==
    /\ pc \in PastGetPod \ {"annotate"} /\ pc' \in PastGetPod \ {"annotate"}
    /\ locals'.key = locals.key /\ locals'.pod = locals.pod
    /\ UNCHANGED reported /\ Kept
Counts ==
    /\ pc \in Reporting \ {"annotate"} /\ pc' = "annotate" /\ locals' = locals
    /\ reported' = reported \cup {ThisCrash} /\ Kept

LEMMA LocalsChanges ==
    ASSUME TypeOK
    PROVE  /\ \A e : LET new == [locals EXCEPT !.event = e]
                     IN  new.key = locals.key /\ new.pod = locals.pod /\ new.crash = locals.crash
           /\ \A pod : LET new == [locals EXCEPT !.pod = pod]
                       IN  new.key = locals.key /\ new.pod = pod
           /\ \A pod, t : LET new == [locals EXCEPT !.pod = pod, !.crash = t]
                          IN  new.key = locals.key /\ new.pod = pod /\ new.crash = t
           /\ \A p : [NoLocals EXCEPT !.key = p].key = p
BY DEF TypeOK, NoLocals

(* A report goes on with the newest crash that is not reported yet. *)
LEMMA ReportHeld ==
    ASSUME TypeOK, locals.key \in Apps, NEW pod, NEW termination,
           Exists(pod), termination = NewestTermination(pod), Report(pod, termination)
    PROVE  /\ Held'
           /\ \/ pc' = "idle"
              \/ pc' = "getSts" /\ locals'.key = locals.key /\ locals'.pod = pod
<1>1. CASE Done
  BY <1>1 DEF Done, Held, PastGetPod, Reporting
<1>2. CASE ~(termination = Never \/ AlreadyEmitted(pod, termination))
  <2> DEFINE new == [locals EXCEPT !.pod = pod, !.crash = termination]
  <2>1. new.key = locals.key /\ new.pod = pod /\ new.crash = termination
    BY LocalsChanges
  <2>2. pc' = "getSts" /\ locals' = new
    BY <1>2 DEF Report, Call
  <2>3. /\ locals'.key \in Apps /\ locals'.key \in Pods /\ Exists(locals'.pod)
        /\ locals'.crash = NewestTermination(locals'.pod)
        /\ locals'.crash # Never /\ locals'.crash.time # locals'.pod.reported
    BY <1>2, <2>1, <2>2, AppsAssumption DEF AlreadyEmitted
  <2> QED BY <2>1, <2>2, <2>3 DEF Held, PastGetPod, Reporting, Exists, NewestTermination
<1> QED BY <1>1, <1>2 DEF Report

LEMMA WorkerSteps ==
    ASSUME TypeOK, Held, [Next]_vars
    PROVE  Held' /\ (Waits \/ Stops \/ Reads \/ GoesOn \/ Counts)
<1> USE DEF podVars, eventVars, cacheVars, workVars, budgetVars
<1>a. UNCHANGED <<pc, locals>> => Held'
  BY DEF Held, Exists, NewestTermination
<1>b. pc' = "idle" => Held'
  BY DEF Held, PastGetPod, Reporting
<1>c. pc # "idle" => locals.key \in Pods
  BY DEF Held
<1>d. Done \/ Retry => pc' = "idle"
  BY DEF Done, Retry
<1>1. CASE Dequeue
  <2>1. PICK p \in queued : pc' = "getPod" /\ locals' = [NoLocals EXCEPT !.key = p]
    BY <1>1 DEF Dequeue
  <2>a. p \in Pods
    BY DEF TypeOK
  <2>2. locals'.key \in Pods
    BY <2>1, <2>a, LocalsChanges
  <2> QED BY <1>1, <2>1, <2>2 DEF Dequeue, Held, Stops, PastGetPod, Reporting
<1>2. CASE ReadFails
  BY <1>2, <1>b, <1>d DEF ReadFails, Stops
<1>3. CASE GetPod
  <2> DEFINE pod == podCache[locals.key]
  <2>1. pc = "getPod" /\ UNCHANGED reported /\ Kept
    BY <1>3 DEF GetPod, Kept
  <2>2. CASE Done
    BY <1>b, <1>d, <2>1, <2>2 DEF Stops
  <2>3. CASE /\ Exists(pod) /\ locals.key \in Apps /\ pod.state = "terminated"
             /\ Call("listPodEvents", [locals EXCEPT !.pod = pod])
    <3>1. pc' = "listPodEvents" /\ locals'.key = locals.key /\ locals'.pod = pod
      BY <2>3, LocalsChanges DEF Call
    <3>2. Held'
      BY <2>3, <3>1, AppsAssumption DEF Held, PastGetPod, Reporting, Exists
    <3> QED BY <2>1, <3>1, <3>2 DEF Reads, PastGetPod
  <2>4. CASE /\ Exists(pod) /\ locals.key \in Apps /\ pod.state # "terminated"
             /\ Report(pod, pod.last)
    <3>1. pod.last = NewestTermination(pod)
      BY <2>4 DEF NewestTermination
    <3> HIDE DEF pod
    <3>2. Held' /\ (pc' = "idle" \/ (pc' = "getSts" /\ locals'.key = locals.key /\ locals'.pod = pod))
      BY <2>4, <3>1, ReportHeld
    <3> QED BY <2>1, <3>2 DEF Reads, Stops, PastGetPod, Reporting, pod
  <2> QED BY <1>3, <2>2, <2>3, <2>4 DEF GetPod
<1>4. CASE ListPodEvents
  <2>1. /\ pc = "listPodEvents" /\ UNCHANGED reported /\ Kept
        /\ Done \/ Report(locals.pod, locals.pod.term)
    BY <1>4 DEF ListPodEvents, Kept
  <2>2. /\ locals.key \in Apps /\ Exists(locals.pod)
        /\ locals.pod.term = NewestTermination(locals.pod)
    BY <2>1 DEF Held, PastGetPod, NewestTermination
  <2>3. CASE Done
    BY <1>b, <1>d, <2>1, <2>3 DEF Stops
  <2>4. CASE Report(locals.pod, locals.pod.term)
    <3>1. Held' /\ (pc' = "idle" \/ (pc' = "getSts" /\ locals'.key = locals.key /\ locals'.pod = locals.pod))
      BY <2>2, <2>4, ReportHeld
    <3> QED BY <2>1, <3>1 DEF GoesOn, Stops, PastGetPod, Reporting
  <2> QED BY <2>1, <2>3, <2>4
<1>5. CASE GetSts
  <2>1. /\ pc = "getSts" /\ UNCHANGED reported /\ Kept
        /\ Done \/ Retry \/ Call("listEvents", locals)
    BY <1>5 DEF GetSts, Kept
  <2>2. CASE Call("listEvents", locals)
    <3>1. Held'
      BY <2>1, <2>2 DEF Held, Call, PastGetPod, Reporting, Exists, NewestTermination
    <3> QED BY <2>1, <2>2, <3>1 DEF GoesOn, Call, PastGetPod, Reporting
  <2> QED BY <1>b, <1>d, <2>1, <2>2 DEF Stops
<1>6. CASE GetByInstanceAndReason
  <2>1. /\ pc = "listEvents" /\ UNCHANGED reported /\ Kept
        /\ \/ \E e \in Matching : Call("updateEvent", [locals EXCEPT !.event = e])
           \/ Call("createEvent", locals)
    BY <1>6 DEF GetByInstanceAndReason, Kept
  <2>2. /\ pc' \in {"updateEvent", "createEvent"} /\ locals'.key = locals.key
        /\ locals'.pod = locals.pod /\ locals'.crash = locals.crash
    <3>1. CASE Call("createEvent", locals)
      BY <3>1 DEF Call
    <3>2. ASSUME NEW e, Call("updateEvent", [locals EXCEPT !.event = e])
          PROVE  /\ pc' \in {"updateEvent", "createEvent"} /\ locals'.key = locals.key
                 /\ locals'.pod = locals.pod /\ locals'.crash = locals.crash
      BY <3>2, LocalsChanges DEF Call
    <3> QED BY <2>1, <3>1, <3>2
  <2>3. Held'
    BY <2>1, <2>2 DEF Held, PastGetPod, Reporting, Exists, NewestTermination
  <2> QED BY <2>1, <2>2, <2>3 DEF GoesOn, PastGetPod, Reporting
<1>7. ASSUME UpdateEvent \/ CreateEvent
      PROVE  Held' /\ (Waits \/ Stops \/ Reads \/ GoesOn \/ Counts)
  <2>1. /\ pc \in {"updateEvent", "createEvent"} /\ Kept
        /\ \/ Call("annotate", locals) /\ reported' = reported \cup {ThisCrash}
           \/ Retry /\ UNCHANGED reported
    BY <1>7 DEF UpdateEvent, CreateEvent, Kept
  <2>2. CASE Retry /\ UNCHANGED reported
    BY <1>b, <1>d, <2>2 DEF Stops
  <2>3. CASE Call("annotate", locals) /\ reported' = reported \cup {ThisCrash}
    <3>1. Held'
      BY <2>1, <2>3 DEF Held, Call, PastGetPod, Reporting, Exists, NewestTermination
    <3> QED BY <2>1, <2>3, <3>1 DEF Counts, Call, Reporting
  <2> QED BY <2>1, <2>2, <2>3
<1>8. CASE Annotate
  BY <1>8, <1>b, <1>d DEF Annotate, Stops
<1>9. CASE Restart
  BY <1>9, <1>b DEF Restart, Stops
<1>10. ASSUME \/ \E p \in Pods : \/ DeliverPod(p) \/ PodCreated(p) \/ PodRemoved(p)
                                \/ ContainerTerminates(p) \/ ContainerLeavesTerminated(p)
                                \/ PodEventSeen(p) \/ OwnerGoes(p)
              \/ DeliverEvents \/ EventExpires \/ UNCHANGED vars
       PROVE  Held' /\ Waits
  BY <1>10, <1>a DEF Waits, DeliverPod, PodCreated, PodRemoved, ContainerTerminates,
       ContainerLeavesTerminated, PodEventSeen, OwnerGoes, DeliverEvents, EventExpires, vars
<1> QED BY <1>1, <1>2, <1>3, <1>4, <1>5, <1>6, <1>7, <1>8, <1>9, <1>10 DEF Next, Controller
LEMMA InitTypes == Init => TypeOK /\ Held
<1> SUFFICES ASSUME Init PROVE TypeOK /\ Held
  OBVIOUS
<1>1. PodStore /\ Caches /\ EventStore
  BY NoObjects, EmptySeq DEF Init, PodStore, Caches, EventStore
<1>2. Work /\ Scene /\ Ledgers /\ Budgets
  BY NoObjects DEF Init, Work, Scene, Ledgers, Budgets
<1>3. Held
  BY DEF Init, Held, PastGetPod, Reporting
<1> QED BY <1>1, <1>2, <1>3, TypeParts

(* Every variable keeps its type: what the worker holds is what its next call  *)
(* needs, a termination to report is a real one, and a report is of a pod that *)
(* exists (Reconcile, Generate, setEvent).                                     *)
THEOREM TypeCorrect == Spec => []TypeOK
<1>1. Init => TypeOK /\ Held
  BY InitTypes
<1>2. TypeOK /\ Held /\ [Next]_vars => (TypeOK /\ Held)'
  BY TypeInductive, WorkerSteps
<1> QED BY <1>1, <1>2, PTL DEF Spec

-----------------------------------------------------------------------------
(* Pods *)

(* What becomes of a stored pod. *)
Unmoved(p) == /\ pods'[p].uid = pods[p].uid /\ LastCrash(pods'[p]) = LastCrash(pods[p])
              /\ pods'[p].reported = pods[p].reported
Fresh(p) == /\ pods'[p].uid = made'.pods /\ made'.pods = made.pods + 1
            /\ LastCrash(pods'[p]) = 0 /\ pods'[p].reported = 0
Gone(p) == pods'[p].uid = 0 /\ LastCrash(pods'[p]) = 0 /\ pods'[p].reported = 0
Crashed(p) == /\ pods'[p].uid = pods[p].uid /\ LastCrash(pods'[p]) = clock'
              /\ pods'[p].reported = pods[p].reported
Marked(p) == /\ pc = "annotate" /\ p = locals.key
             /\ pods'[p].uid = pods[p].uid /\ LastCrash(pods'[p]) = LastCrash(pods[p])
             /\ pods'[p].reported = locals.crash.time
Moves(p) == Unmoved(p) \/ Fresh(p) \/ Gone(p) \/ Crashed(p) \/ Marked(p)

(* What becomes of the copies of it. *)
Rests(p) == UNCHANGED <<pods[p], podCache[p], podWatch[p]>>
Writes(p) == /\ podCache'[p] = podCache[p]
             /\ podWatch'[p] = Published(podWatch[p], pods[p], pods'[p])
Delivers(p) == /\ podWatch[p] # <<>> /\ pods'[p] = pods[p]
               /\ podCache'[p] = Head(podWatch[p]) /\ podWatch'[p] = Tail(podWatch[p])
Lists(p) == pods'[p] = pods[p] /\ podCache'[p] = pods[p] /\ podWatch'[p] = <<>>

LEMMA WriteSteps ==
    ASSUME TypeOK, NEW q \in Pods, NEW new \in PodObjects, WritePod(q, new), podCache' = podCache
    PROVE  /\ pods'[q] = new /\ Writes(q)
           /\ \A p \in Pods \ {q} : Rests(p)
BY PodWritten DEF Writes, Rests

LEMMA PodSteps ==
    ASSUME TypeOK, Held, [Next]_vars, NEW p \in Pods
    PROVE  /\ clock <= clock' /\ made.pods <= made'.pods
           /\ Rests(p) \/ Writes(p) \/ Delivers(p) \/ Lists(p)
           /\ Moves(p)
<1> USE DEF podVars, eventVars, cacheVars, workVars, budgetVars
<1>a. /\ clock \in Nat /\ made.pods \in Nat
      /\ pods[p] \in PodObjects /\ podCache[p] \in PodObjects /\ podWatch[p] \in Seq(PodObjects)
  BY FieldTypes
<1>b. Rests(p) => Unmoved(p)
  BY DEF Rests, Unmoved
<1>c. pods'[p] = pods[p] => Unmoved(p)
  BY DEF Unmoved
<1>d. ASSUME MadeMore
      PROVE  made.pods <= made'.pods
  <2> DEFINE Counters == [pods : Nat, crashes : Nat, events : Nat, mishaps : Nat]
  <2>1. \A m \in Counters : \A n :
          /\ [m EXCEPT !.pods = n].pods = n /\ [m EXCEPT !.crashes = n].pods = m.pods
          /\ [m EXCEPT !.events = n].pods = m.pods /\ [m EXCEPT !.mishaps = n].pods = m.pods
    OBVIOUS
  <2>2. made \in Counters
    BY DEF TypeOK
  <2>3. made'.pods = made.pods \/ made'.pods = made.pods + 1
    BY <1>d, <2>1, <2>2 DEF MadeMore
  <2> QED BY <1>a, <2>3
<1> USE DEF MadeMore
<1>e. ASSUME Kept
      PROVE  Rests(p)
  BY <1>e DEF Kept, Rests
<1>1. ASSUME \/ Dequeue \/ ReadFails \/ GetPod \/ ListPodEvents \/ GetSts \/ GetByInstanceAndReason
             \/ DeliverEvents \/ EventExpires
             \/ (\E q \in Pods : PodEventSeen(q) \/ OwnerGoes(q)) \/ UNCHANGED vars
      PROVE  clock' = clock /\ MadeMore /\ Kept
  BY <1>1 DEF Dequeue, ReadFails, GetPod, ListPodEvents, GetSts, GetByInstanceAndReason, Kept,
       DeliverEvents, EventExpires, PodEventSeen, OwnerGoes, Mishap, vars
<1>2. ASSUME UpdateEvent \/ CreateEvent
      PROVE  clock' = clock /\ MadeMore /\ Kept
  BY <1>2 DEF UpdateEvent, CreateEvent, Kept
<1>3. CASE Annotate
  <2> DEFINE q == locals.key
             marked == [pods[q] EXCEPT !.reported = locals.crash.time]
  <2>1. /\ pc = "annotate" /\ q \in Pods /\ pods[q] \in PodObjects /\ locals.crash.time \in Nat
    BY <1>3, FieldTypes, TerminationTypes DEF Annotate, Held
  <2>2. /\ marked \in PodObjects /\ marked.uid = pods[q].uid
        /\ LastCrash(marked) = LastCrash(pods[q]) /\ marked.reported = locals.crash.time
    BY <2>1, PodChanges
  <2>3. PICK new \in {marked, pods[q]} : WritePod(q, new)
    BY <1>3 DEF Annotate
  <2>4. clock' = clock /\ made' = made /\ podCache' = podCache
    BY <1>3 DEF Annotate
  <2> HIDE DEF marked
  <2>5. /\ pods'[q] = new /\ Writes(q)
        /\ \A n \in Pods \ {q} : Rests(n)
    BY <2>1, <2>2, <2>3, <2>4, WriteSteps
  <2>6. p = q => Unmoved(p) \/ Marked(p)
    BY <2>1, <2>2, <2>3, <2>5 DEF Unmoved, Marked
  <2> QED BY <1>a, <1>b, <2>4, <2>5, <2>6 DEF Moves
<1>4. ASSUME NEW q \in Pods, DeliverPod(q)
      PROVE  /\ clock <= clock' /\ made.pods <= made'.pods
             /\ Rests(p) \/ Writes(p) \/ Delivers(p) \/ Lists(p)
             /\ Moves(p)
  <2>1. pods' = pods /\ clock' = clock /\ made' = made
    BY <1>4 DEF DeliverPod
  <2>2. IF p = q THEN Delivers(p) ELSE Rests(p)
    BY <1>4 DEF DeliverPod, Delivers, Rests, TypeOK
  <2> QED BY <1>a, <1>c, <2>1, <2>2 DEF Moves
<1>5. ASSUME NEW q \in Pods, PodCreated(q)
      PROVE  /\ clock <= clock' /\ made.pods <= made'.pods
             /\ Rests(p) \/ Writes(p) \/ Delivers(p) \/ Lists(p)
             /\ Moves(p)
  <2> DEFINE new == [NoPod EXCEPT !.uid = made.pods + 1]
  <2>a. made.pods + 1 \in Nat
    BY <1>a
  <2>1. made.pods + 1 \in Nat /\ pods[q] \in PodObjects
    BY <2>a, FieldTypes
  <2>2. new \in PodObjects /\ new.uid = made.pods + 1 /\ LastCrash(new) = 0 /\ new.reported = 0
    BY <2>1, PodChanges
  <2>3. WritePod(q, new) /\ clock' = clock /\ podCache' = podCache /\ made' = [made EXCEPT !.pods = @ + 1]
    BY <1>5 DEF PodCreated
  <2>4. made'.pods = made.pods + 1
    BY <2>3 DEF TypeOK
  <2> HIDE DEF new
  <2>5. /\ pods'[q] = new /\ Writes(q)
        /\ \A n \in Pods \ {q} : Rests(n)
    BY <2>2, <2>3, WriteSteps
  <2>6. p = q => Fresh(p)
    BY <2>2, <2>4, <2>5 DEF Fresh
  <2> QED BY <1>a, <1>b, <2>3, <2>4, <2>5, <2>6 DEF Moves
<1>6. ASSUME NEW q \in Pods, PodRemoved(q)
      PROVE  /\ clock <= clock' /\ made.pods <= made'.pods
             /\ Rests(p) \/ Writes(p) \/ Delivers(p) \/ Lists(p)
             /\ Moves(p)
  <2>1. WritePod(q, NoPod) /\ clock' = clock /\ podCache' = podCache /\ MadeMore
    BY <1>6 DEF PodRemoved, Mishap
  <2>2. /\ pods'[q] = NoPod /\ Writes(q)
        /\ \A n \in Pods \ {q} : Rests(n)
    BY <2>1, NoObjects, WriteSteps
  <2>3. p = q => Gone(p)
    BY <2>2, NoObjects DEF Gone
  <2> QED BY <1>a, <1>b, <1>d, <2>1, <2>2, <2>3 DEF Moves
<1>7. ASSUME NEW q \in Pods, ContainerTerminates(q)
      PROVE  /\ clock <= clock' /\ made.pods <= made'.pods
             /\ Rests(p) \/ Writes(p) \/ Delivers(p) \/ Lists(p)
             /\ Moves(p)
  <2>1. PICK t \in {clock, clock + 1} \ {0}, reason \in Reasons :
          /\ clock' = t
          /\ WritePod(q, [pods[q] EXCEPT !.state = "terminated",
                                         !.term = [time |-> t, reason |-> reason]])
    BY <1>7 DEF ContainerTerminates
  <2> DEFINE e == [time |-> t, reason |-> reason]
             new == [pods[q] EXCEPT !.state = "terminated", !.term = e]
  <2>2. t \in Nat \ {0} /\ clock <= t
    BY <1>a
  <2>3. e \in Terminations /\ e.time = t /\ pods[q] \in PodObjects
    BY <2>2, TerminationTypes, FieldTypes
  <2> HIDE DEF e
  <2>4. /\ new \in PodObjects /\ new.uid = pods[q].uid
        /\ LastCrash(new) = t /\ new.reported = pods[q].reported
    BY <2>3, PodChanges
  <2>5. WritePod(q, new) /\ podCache' = podCache /\ MadeMore
    BY <1>7, <2>1 DEF ContainerTerminates, e
  <2> HIDE DEF new
  <2>6. /\ pods'[q] = new /\ Writes(q)
        /\ \A n \in Pods \ {q} : Rests(n)
    BY <2>4, <2>5, WriteSteps
  <2>7. p = q => Crashed(p)
    BY <2>1, <2>4, <2>6 DEF Crashed
  <2> QED BY <1>b, <1>d, <2>1, <2>2, <2>5, <2>6, <2>7 DEF Moves
<1>8. ASSUME NEW q \in Pods, ContainerLeavesTerminated(q)
      PROVE  /\ clock <= clock' /\ made.pods <= made'.pods
             /\ Rests(p) \/ Writes(p) \/ Delivers(p) \/ Lists(p)
             /\ Moves(p)
  <2> DEFINE new == [pods[q] EXCEPT !.state = "up", !.last = pods[q].term, !.term = Never]
  <2>1. pods[q] \in PodObjects /\ pods[q].state = "terminated"
    BY <1>8, FieldTypes DEF ContainerLeavesTerminated
  <2>2. /\ new \in PodObjects /\ new.uid = pods[q].uid
        /\ LastCrash(new) = LastCrash(pods[q]) /\ new.reported = pods[q].reported
    BY <2>1, PodChanges
  <2>3. WritePod(q, new) /\ clock' = clock /\ podCache' = podCache /\ made' = made
    BY <1>8 DEF ContainerLeavesTerminated
  <2> HIDE DEF new
  <2>4. /\ pods'[q] = new /\ Writes(q)
        /\ \A n \in Pods \ {q} : Rests(n)
    BY <2>2, <2>3, WriteSteps
  <2>5. p = q => Unmoved(p)
    BY <2>2, <2>4 DEF Unmoved
  <2> QED BY <1>a, <1>b, <2>3, <2>4, <2>5 DEF Moves
<1>9. CASE Restart
  <2>1. pods' = pods /\ clock' = clock /\ made' = made
    BY <1>9 DEF Restart
  <2>2. Rests(p) \/ Lists(p)
    BY <1>9 DEF Restart, Rests, Lists
  <2> QED BY <1>a, <1>c, <2>1, <2>2 DEF Moves
<1>10. ASSUME clock' = clock /\ MadeMore /\ Kept
       PROVE  /\ clock <= clock' /\ made.pods <= made'.pods
              /\ Rests(p) \/ Writes(p) \/ Delivers(p) \/ Lists(p)
              /\ Moves(p)
  BY <1>a, <1>b, <1>d, <1>e, <1>10 DEF Moves
<1> QED BY <1>1, <1>2, <1>3, <1>4, <1>5, <1>6, <1>7, <1>8, <1>9, <1>10 DEF Next, Controller
-----------------------------------------------------------------------------
(* The order of the copies *)

LEMMA CopiesTypes ==
    ASSUME TypeOK, NEW p \in Pods
    PROVE  PodCopies(p) \subseteq PodObjects /\ pods[p] \in PodCopies(p)
<1>1. /\ pods[p] \in PodObjects /\ podCache[p] \in PodObjects /\ podWatch[p] \in Seq(PodObjects)
  BY FieldTypes
<1>2. \A i \in 1 .. Len(podWatch[p]) : podWatch[p][i] \in PodObjects
  BY <1>1
<1> QED BY <1>1, <1>2 DEF PodCopies, Copies

LEMMA OrderFacts ==
    /\ \A x, y \in PodObjects : /\ Exists(x) <=> x.uid # 0
                                /\ <<x, y>> \in PodOrder
                                     <=> (Exists(x) => Since(x.uid, LastCrash(x), y))
    /\ \A x \in PodObjects : <<x, x>> \in PodOrder
<1>1. \A x, y \in PodObjects :
        <<x, y>> \in PodOrder <=> (Exists(x) => Since(x.uid, LastCrash(x), y))
  BY DEF PodOrder
<1>2. ASSUME NEW x \in PodObjects
      PROVE  <<x, x>> \in PodOrder
  <2>1. x.uid \in Nat /\ LastCrash(x) \in Nat
    BY PodTypes
  <2>2. Since(x.uid, LastCrash(x), x)
    BY <2>1 DEF Since
  <2> QED BY <1>1, <2>2
<1> QED BY <1>1, <1>2 DEF Exists

(* Nothing is seen again that was not stored now or to be seen before. *)
LEMMA CopiesStep ==
    ASSUME TypeOK, TypeOK', NEW p \in Pods, Rests(p) \/ Writes(p) \/ Delivers(p) \/ Lists(p)
    PROVE  PodCopies(p)' \subseteq PodCopies(p) \cup {pods'[p]}
<1>1. /\ pods[p] \in PodObjects /\ podCache[p] \in PodObjects /\ podWatch[p] \in Seq(PodObjects)
  BY FieldTypes
<1>2. pods'[p] \in PodObjects
  BY DEF TypeOK
<1>3. PodCopies(p)' = Copies(podCache'[p], podWatch'[p]) \cup {pods'[p]}
  BY DEF PodCopies, Copies
<1>4. CASE Rests(p)
  BY <1>3, <1>4 DEF Rests, PodCopies
<1>5. CASE Writes(p)
  BY <1>1, <1>2, <1>3, <1>5, CopiesWritten DEF Writes, PodCopies
<1>6. CASE Delivers(p)
  BY <1>1, <1>3, <1>6, Delivered DEF Delivers, PodCopies
<1>7. CASE Lists(p)
  BY <1>1, <1>3, <1>7, OrderFacts, Listed DEF Lists, PodCopies
<1> QED BY <1>4, <1>5, <1>6, <1>7

LEMMA OrderStep ==
    ASSUME TypeOK, TypeOK', NEW p \in Pods, Rests(p) \/ Writes(p) \/ Delivers(p) \/ Lists(p),
           InOrder(PodOrder, podCache[p], podWatch[p], pods[p]),
           \A x \in PodCopies(p) : <<x, pods'[p]>> \in PodOrder
    PROVE  InOrder(PodOrder, podCache'[p], podWatch'[p], pods'[p])
<1>1. /\ pods[p] \in PodObjects /\ podCache[p] \in PodObjects /\ podWatch[p] \in Seq(PodObjects)
  BY FieldTypes
<1>2. pods'[p] \in PodObjects /\ <<pods'[p], pods'[p]>> \in PodOrder
  BY OrderFacts DEF TypeOK
<1>3. CASE Rests(p)
  BY <1>3 DEF Rests
<1>4. CASE Writes(p)
  <2>1. \A x \in Copies(podCache[p], podWatch[p]) \cup {pods'[p]} : <<x, pods'[p]>> \in PodOrder
    BY <1>2 DEF PodCopies
  <2> QED BY <1>1, <1>2, <1>4, <2>1, Written DEF Writes
<1>5. CASE Delivers(p)
  BY <1>1, <1>5, Delivered DEF Delivers
<1>6. CASE Lists(p)
  BY <1>2, <1>6, Listed DEF Lists
<1> QED BY <1>3, <1>4, <1>5, <1>6

(* What comes after a crash goes on doing so. *)
LEMMA SinceStays ==
    ASSUME TypeOK, TypeOK', NEW p \in Pods, Moves(p), clock <= clock',
           NEW uid \in Nat \ {0}, uid <= made.pods, NEW t \in Nat, t <= clock,
           Since(uid, t, pods[p])
    PROVE  Since(uid, t, pods'[p])
<1>1. pods[p] \in PodObjects /\ pods'[p] \in PodObjects
  BY DEF TypeOK
<1>2. /\ pods[p].uid \in Nat /\ LastCrash(pods[p]) \in Nat
      /\ pods'[p].uid \in Nat /\ LastCrash(pods'[p]) \in Nat
  BY <1>1, PodTypes
<1>3. clock \in Nat /\ clock' \in Nat /\ made.pods \in Nat
  BY DEF TypeOK
<1>4. CASE Unmoved(p) \/ Marked(p)
  BY <1>4 DEF Unmoved, Marked, Since
<1>5. CASE Fresh(p)
  BY <1>2, <1>3, <1>5 DEF Fresh, Since
<1>6. CASE Gone(p)
  BY <1>6 DEF Gone, Since
<1>7. CASE Crashed(p)
  BY <1>2, <1>3, <1>7 DEF Crashed, Since
<1> QED BY <1>4, <1>5, <1>6, <1>7 DEF Moves

LEMMA FollowsStays ==
    ASSUME TypeOK, TypeOK', NEW p \in Pods, Moves(p), clock <= clock',
           NEW x \in PodObjects, Sane(x), <<x, pods[p]>> \in PodOrder
    PROVE  <<x, pods'[p]>> \in PodOrder
<1>1. pods[p] \in PodObjects /\ pods'[p] \in PodObjects
  BY DEF TypeOK
<1>2. SUFFICES ASSUME Exists(x) PROVE Since(x.uid, LastCrash(x), pods'[p])
  BY <1>1, OrderFacts
<1>3. x.uid \in Nat \ {0} /\ LastCrash(x) \in Nat /\ x.uid <= made.pods /\ LastCrash(x) <= clock
  BY <1>2, PodTypes DEF Exists, Sane
<1>4. Since(x.uid, LastCrash(x), pods[p])
  BY <1>1, <1>2, OrderFacts
<1> QED BY <1>3, <1>4, SinceStays

LEMMA SaneStays ==
    ASSUME TypeOK, TypeOK', clock <= clock', made.pods <= made'.pods, NEW x \in PodObjects, Sane(x)
    PROVE  Sane(x)'
<1>1. /\ x.uid \in Nat /\ x.reported \in Nat /\ LastCrash(x) \in Nat
      /\ clock \in Nat /\ clock' \in Nat /\ made.pods \in Nat /\ made'.pods \in Nat
  BY PodTypes DEF TypeOK
<1> QED BY <1>1 DEF Sane, LastCrash, NewestTermination

(* A pod is only marked with a crash that it, or one before it, has had. *)
LEMMA SaneMoves ==
    ASSUME TypeOK, TypeOK', Held, PodsOrdered, NEW p \in Pods, Moves(p),
           clock <= clock', made.pods <= made'.pods
    PROVE  Sane(pods[p])'
<1>1. pods[p] \in PodObjects /\ pods'[p] \in PodObjects
  BY DEF TypeOK
<1>2. /\ pods[p].uid \in Nat /\ LastCrash(pods[p]) \in Nat /\ pods[p].reported \in Nat
      /\ pods'[p].uid \in Nat /\ LastCrash(pods'[p]) \in Nat /\ pods'[p].reported \in Nat
  BY <1>1, PodTypes
<1>3. clock \in Nat /\ clock' \in Nat /\ made.pods \in Nat /\ made'.pods \in Nat
  BY DEF TypeOK
<1>4. Sane(pods[p])
  BY CopiesTypes DEF PodsOrdered
<1>5. SUFFICES /\ pods'[p].uid <= made'.pods /\ pods'[p].reported <= clock'
               /\ LastCrash(pods'[p]) <= clock'
               /\ LastCrash(pods'[p]) = 0 \/ pods'[p].reported <= LastCrash(pods'[p])
  BY DEF Sane, LastCrash, NewestTermination
<1>6. CASE Unmoved(p)
  BY <1>2, <1>3, <1>4, <1>6 DEF Unmoved, Sane
<1>7. CASE Fresh(p)
  BY <1>3, <1>7 DEF Fresh
<1>8. CASE Gone(p)
  BY <1>3, <1>8 DEF Gone
<1>9. CASE Crashed(p)
  BY <1>2, <1>3, <1>4, <1>9 DEF Crashed, Sane
<1>10. CASE Marked(p)
  <2>1. pc \in Reporting /\ pc \in PastGetPod /\ p = locals.key
    BY <1>10 DEF Marked, Reporting, PastGetPod
  <2>2. /\ Exists(locals.pod) /\ locals.crash.time = LastCrash(locals.pod)
        /\ Sane(locals.pod) /\ <<locals.pod, pods[p]>> \in PodOrder
    BY <2>1, CopiesTypes DEF Held, PodsOrdered, LastCrash
  <2>3. locals.pod \in PodObjects /\ LastCrash(locals.pod) \in Nat
    BY FieldTypes, PodTypes
  <2>4. Since(locals.pod.uid, LastCrash(locals.pod), pods[p])
    BY <1>1, <2>2, <2>3, OrderFacts
  <2> QED BY <1>2, <1>3, <1>4, <1>10, <2>2, <2>3, <2>4 DEF Marked, Since, Sane
<1> QED BY <1>6, <1>7, <1>8, <1>9, <1>10 DEF Moves
LEMMA PodsOrderedInductive ==
    ASSUME TypeOK, TypeOK', Held, PodsOrdered, [Next]_vars
    PROVE  PodsOrdered'
<1>1. \A p \in Pods : /\ clock <= clock' /\ made.pods <= made'.pods
                      /\ Rests(p) \/ Writes(p) \/ Delivers(p) \/ Lists(p)
                      /\ Moves(p)
  BY PodSteps
<1>2. \A p \in Pods : /\ PodCopies(p) \subseteq PodObjects
                      /\ PodCopies(p)' \subseteq PodCopies(p) \cup {pods'[p]}
  BY <1>1, CopiesTypes, CopiesStep
<1>3. \A p \in Pods : \A x \in PodCopies(p) : Sane(x) /\ <<x, pods[p]>> \in PodOrder
  BY DEF PodsOrdered, InOrder, PodCopies
<1>4. \A p \in Pods : \A x \in PodCopies(p) : <<x, pods'[p]>> \in PodOrder
  BY <1>1, <1>2, <1>3, FollowsStays
<1>5. ASSUME NEW p \in Pods
      PROVE  InOrder(PodOrder, podCache'[p], podWatch'[p], pods'[p])
  BY <1>1, <1>4, OrderStep DEF PodsOrdered
<1>6. ASSUME NEW p \in Pods, NEW x \in PodCopies(p)'
      PROVE  Sane(x)'
  <2>1. CASE x \in PodCopies(p)
    BY <1>1, <1>2, <1>3, <2>1, SaneStays
  <2>2. CASE x = pods'[p]
    <3>1. Sane(pods[p])'
      BY <1>1, SaneMoves
    <3> QED BY <2>2, <3>1 DEF Sane, LastCrash, NewestTermination
  <2> QED BY <1>2, <2>1, <2>2
<1>7. ASSUME pc' \in PastGetPod
      PROVE  /\ Sane(locals.pod)'
             /\ \A x \in Copies(podCache'[locals'.key], podWatch'[locals'.key]) \cup {pods'[locals'.key]} :
                  <<locals'.pod, x>> \in PodOrder
  <2>1. Waits \/ Reads \/ GoesOn \/ Counts
    BY <1>7, WorkerSteps DEF Stops, PastGetPod, Reporting
  <2>a. locals.key \in Pods /\ locals'.key = locals.key
    BY <1>7, <2>1 DEF Held, Waits, Reads, GoesOn, Counts, PastGetPod, Reporting
  <2>2. PICK k \in Pods : k = locals.key /\ locals'.key = k
    BY <2>a
  <2>3. Kept => PodCopies(k)' = PodCopies(k)
    BY DEF Kept, PodCopies, Copies
  <2>4. PodCopies(k)' = Copies(podCache'[k], podWatch'[k]) \cup {pods'[k]}
    BY <2>2 DEF PodCopies, Copies
  <2>5. ASSUME ~Reads
        PROVE  /\ Sane(locals.pod) /\ locals'.pod = locals.pod /\ locals.pod \in PodObjects
               /\ \A x \in PodCopies(k) : <<locals.pod, x>> \in PodOrder
    <3>1. pc \in PastGetPod /\ locals'.pod = locals.pod
      BY <1>7, <2>1, <2>5 DEF Waits, GoesOn, Counts, PastGetPod, Reporting
    <3> QED BY <2>2, <3>1, FieldTypes DEF PodsOrdered
  <2>6. CASE Reads
    <3>1. /\ podCache[k] \in PodCopies(k) /\ podCache[k] \in PodObjects
          /\ locals'.pod = podCache[k] /\ Kept
      BY <2>2, <2>6, FieldTypes DEF Reads, PodCopies, Copies
    <3>2. PICK y \in PodCopies(k)' : y = podCache[k]
      BY <2>3, <3>1
    <3>3. Sane(y)'
      BY <1>6
    <3>4. \A x \in PodCopies(k) : <<podCache[k], x>> \in PodOrder
      <4>1. InOrder(PodOrder, podCache[k], podWatch[k], pods[k])
        BY <2>2 DEF PodsOrdered
      <4> QED BY <3>1, <4>1, OrderFacts DEF InOrder, PodCopies, Copies
    <3>5. Sane(locals.pod)'
      BY <3>1, <3>2, <3>3 DEF Sane, LastCrash, NewestTermination
    <3> QED BY <2>2, <2>3, <2>4, <3>1, <3>4, <3>5
  <2>7. CASE ~Reads
    <3>1. Sane(locals.pod)'
      <4>1. ASSUME NEW y \in PodObjects, Sane(y)
            PROVE  Sane(y)'
        BY <1>1, <2>2, <4>1, SaneStays
      <4>2. \A y : y = locals'.pod /\ Sane(y)' => Sane(locals.pod)'
        BY DEF Sane, LastCrash, NewestTermination
      <4> QED BY <2>5, <2>7, <4>1, <4>2
    <3>2. <<locals.pod, pods[k]>> \in PodOrder
      BY <2>2, <2>5, <2>7, CopiesTypes
    <3>3. <<locals.pod, pods'[k]>> \in PodOrder
      BY <1>1, <2>2, <2>5, <2>7, <3>2, FollowsStays
    <3> QED BY <1>2, <2>2, <2>4, <2>5, <2>7, <3>1, <3>3
  <2> QED BY <2>6, <2>7
<1> QED BY <1>5, <1>6, <1>7 DEF PodsOrdered, PodCopies

LEMMA CrashTypes ==
    ASSUME TypeOK, ReportedShown, NEW c \in reported
    PROVE  /\ c.pod \in Pods /\ c.uid \in Nat \ {0} /\ c.time \in Nat
           /\ c.uid <= made.pods /\ c.time <= clock
<1>1. c \in Crashes
  BY DEF TypeOK
<1>2. c.pod \in Pods /\ c.uid \in Nat /\ c.time \in Nat
  BY <1>1 DEF Crashes
<1>3. made.pods \in Nat /\ c.uid \in 1 .. made.pods /\ c.time <= clock
  BY FieldTypes DEF ReportedShown
<1> QED BY <1>2, <1>3

LEMMA ReportedShownInductive ==
    ASSUME TypeOK, TypeOK', Held, PodsOrdered, ReportedShown, [Next]_vars
    PROVE  ReportedShown'
<1>1. \A p \in Pods : /\ clock <= clock' /\ made.pods <= made'.pods
                      /\ Rests(p) \/ Writes(p) \/ Delivers(p) \/ Lists(p)
                      /\ Moves(p)
  BY PodSteps
<1>2. \A p \in Pods : /\ PodCopies(p) \subseteq PodObjects /\ pods[p] \in PodCopies(p)
                      /\ PodCopies(p)' \subseteq PodCopies(p) \cup {pods'[p]}
  BY <1>1, CopiesTypes, CopiesStep
<1>3. Waits \/ Stops \/ Reads \/ GoesOn \/ Counts
  BY WorkerSteps
<1>4. /\ clock \in Nat /\ clock' \in Nat /\ made.pods \in Nat /\ made'.pods \in Nat
  BY DEF TypeOK
<1>5. ASSUME NEW c \in reported
      PROVE  /\ c.uid \in 1 .. made'.pods /\ c.time <= clock'
             /\ \A x \in PodCopies(c.pod)' : Since(c.uid, c.time, x)
             /\ pc' \in PastGetPod /\ locals'.key = c.pod => Since(c.uid, c.time, locals'.pod)
  <2>1. /\ c.pod \in Pods /\ c.uid \in Nat \ {0} /\ c.time \in Nat
        /\ c.uid <= made.pods /\ c.time <= clock
    BY CrashTypes
  <2>2. \A x \in PodCopies(c.pod) : Since(c.uid, c.time, x)
    BY DEF ReportedShown
  <2>3. Since(c.uid, c.time, pods'[c.pod])
    BY <1>1, <1>2, <2>1, <2>2, SinceStays
  <2>4. ASSUME pc' \in PastGetPod, locals'.key = c.pod
        PROVE  Since(c.uid, c.time, locals'.pod)
    <3>1. CASE Reads
      BY <2>2, <2>4, <3>1 DEF Reads, PodCopies, Copies
    <3>2. CASE Waits \/ GoesOn \/ Counts
      <4>1. pc \in PastGetPod /\ locals'.pod = locals.pod /\ locals'.key = locals.key
        BY <2>4, <3>2 DEF Waits, GoesOn, Counts, PastGetPod, Reporting
      <4> QED BY <2>4, <4>1 DEF ReportedShown
    <3> QED BY <1>3, <2>4, <3>1, <3>2 DEF Stops, PastGetPod, Reporting
  <2>5. c.uid \in 1 .. made'.pods /\ c.time <= clock'
    BY <1>1, <1>4, <2>1
  <2> QED BY <1>2, <2>1, <2>2, <2>3, <2>4, <2>5
<1>6. ASSUME Counts, NEW c, c = ThisCrash
      PROVE  /\ c.uid \in 1 .. made'.pods /\ c.time <= clock'
             /\ \A x \in PodCopies(c.pod)' : Since(c.uid, c.time, x)
             /\ pc' \in PastGetPod /\ locals'.key = c.pod => Since(c.uid, c.time, locals'.pod)
  <2> DEFINE k == locals.key
  <2>1. pc \in Reporting /\ pc \in PastGetPod /\ Kept /\ locals' = locals
    BY <1>6 DEF Counts, PastGetPod, Reporting
  <2>2. /\ ThisCrash.pod = k /\ ThisCrash.uid = locals.pod.uid
        /\ ThisCrash.time = LastCrash(locals.pod)
    BY <2>1, ThisCrashType
  <2>3. /\ k \in Pods /\ Exists(locals.pod) /\ Sane(locals.pod)
        /\ \A x \in PodCopies(k) : <<locals.pod, x>> \in PodOrder
    BY <2>1, AppsAssumption DEF Held, PodsOrdered
  <2>4. locals.pod \in PodObjects /\ locals.pod.uid \in Nat \ {0} /\ LastCrash(locals.pod) \in Nat
    BY <2>3, FieldTypes, PodTypes DEF Exists
  <2>5. PodCopies(k)' = PodCopies(k)
    BY <2>1 DEF Kept, PodCopies, Copies
  <2>6. \A x \in PodCopies(k) : Since(locals.pod.uid, LastCrash(locals.pod), x)
    BY <1>2, <2>3, <2>4, OrderFacts
  <2>7. Since(locals.pod.uid, LastCrash(locals.pod), locals.pod)
    BY <2>3, <2>4, OrderFacts
  <2>8. locals.pod.uid \in 1 .. made'.pods /\ LastCrash(locals.pod) <= clock'
    BY <1>1, <1>4, <2>3, <2>4 DEF Sane
  <2>9. PodCopies(c.pod)' = PodCopies(c.pod)
    BY <2>1 DEF Kept, PodCopies, Copies
  <2> QED BY <1>6, <2>1, <2>2, <2>6, <2>7, <2>8, <2>9
<1>7. reported' = reported \/ (Counts /\ reported' = reported \cup {ThisCrash})
  BY <1>3 DEF Waits, Stops, Reads, GoesOn, Counts
<1> QED BY <1>5, <1>6, <1>7 DEF ReportedShown
-----------------------------------------------------------------------------
(* Crashes that are counted twice *)

(* Without failures, a worker that leaves the annotation behind has written it. *)
LEMMA AnnotateSteps ==
    ASSUME TypeOK, Held, [Next]_vars, faults' = 0, restarts' = 0
    PROVE  /\ faults = 0 /\ restarts = 0
           /\ pc = "annotate" => \/ Waits
                                 \/ Exists(pods[locals.key]) => Marked(locals.key)
<1> USE DEF podVars, eventVars, cacheVars, workVars, budgetVars
<1>a. faults \in Nat /\ restarts \in Nat
  BY FieldTypes
<1>b. faults + 1 # 0 /\ restarts + 1 # 0
  BY <1>a
<1>c. \A outcome : Charge(outcome) => faults' = faults /\ outcome = "ok"
  BY <1>b DEF Charge
<1>1. CASE Annotate
  <2> DEFINE q == locals.key
             marked == [pods[q] EXCEPT !.reported = locals.crash.time]
  <2>1. PICK outcome \in Outcomes :
          /\ Charge(outcome)
          /\ WritePod(q, IF Reaches(outcome) /\ Exists(pods[q]) THEN marked ELSE pods[q])
    BY <1>1 DEF Annotate
  <2>2. /\ pc = "annotate" /\ q \in Pods /\ pods[q] \in PodObjects /\ locals.crash.time \in Nat
        /\ restarts' = restarts /\ podCache' = podCache
    BY <1>1, FieldTypes, TerminationTypes DEF Annotate, Held
  <2>3. /\ marked \in PodObjects /\ marked.uid = pods[q].uid
        /\ LastCrash(marked) = LastCrash(pods[q]) /\ marked.reported = locals.crash.time
    BY <2>2, PodChanges
  <2> HIDE DEF marked
  <2>4. ASSUME Exists(pods[q])
        PROVE  Marked(q)
    <3>1. WritePod(q, marked)
      BY <1>c, <2>1, <2>4 DEF Reaches
    <3>2. pods'[q] = marked
      BY <2>2, <2>3, <3>1, WriteSteps
    <3> QED BY <2>2, <2>3, <3>2 DEF Marked
  <2> QED BY <1>c, <2>1, <2>2, <2>4
<1>2. CASE Restart
  BY <1>2, <1>b DEF Restart
<1>3. ASSUME \/ Dequeue \/ GetPod \/ ListPodEvents \/ GetSts \/ GetByInstanceAndReason
      PROVE  pc # "annotate" /\ faults' = faults /\ restarts' = restarts
  BY <1>3 DEF Dequeue, GetPod, ListPodEvents, GetSts, GetByInstanceAndReason
<1>4. ASSUME ReadFails \/ UpdateEvent \/ CreateEvent
      PROVE  pc # "annotate" /\ faults' = faults /\ restarts' = restarts
  BY <1>4, <1>c DEF ReadFails, UpdateEvent, CreateEvent
<1>5. ASSUME \/ \E p \in Pods : \/ DeliverPod(p) \/ PodCreated(p) \/ PodRemoved(p)
                               \/ ContainerTerminates(p) \/ ContainerLeavesTerminated(p)
                               \/ PodEventSeen(p) \/ OwnerGoes(p)
             \/ DeliverEvents \/ EventExpires \/ UNCHANGED vars
      PROVE  Waits /\ faults' = faults /\ restarts' = restarts
  BY <1>5 DEF Waits, DeliverPod, PodCreated, PodRemoved, ContainerTerminates,
       ContainerLeavesTerminated, PodEventSeen, OwnerGoes, DeliverEvents, EventExpires, vars
<1> QED BY <1>1, <1>2, <1>3, <1>4, <1>5 DEF Next, Controller

(* The crash the worker is about to annotate is the last that was reported. *)
LEMMA MarkedLast ==
    ASSUME TypeOK, Held, PodsOrdered, ReportedShown, pc = "annotate",
           NEW c \in reported, c.pod = locals.key, c.uid = pods[c.pod].uid
    PROVE  c.time <= locals.crash.time
<1>1. pc \in Reporting /\ pc \in PastGetPod
  BY DEF Reporting, PastGetPod
<1>2. c.pod \in Pods /\ c.uid \in Nat \ {0} /\ c.time \in Nat
  BY CrashTypes
<1>3. /\ Exists(locals.pod) /\ locals.crash.time = LastCrash(locals.pod)
      /\ <<locals.pod, pods[c.pod]>> \in PodOrder
  BY <1>1, <1>2, CopiesTypes DEF Held, PodsOrdered, LastCrash
<1>4. /\ locals.pod \in PodObjects /\ pods[c.pod] \in PodObjects
      /\ locals.pod.uid \in Nat \ {0}
  BY <1>2, <1>3, FieldTypes, PodTypes DEF Exists
<1>5. Since(locals.pod.uid, LastCrash(locals.pod), pods[c.pod])
  BY <1>3, <1>4, OrderFacts
<1>6. Since(c.uid, c.time, locals.pod)
  BY <1>1 DEF ReportedShown
<1>7. locals.pod.uid = c.uid
  BY <1>2, <1>4, <1>5, <1>6 DEF Since
<1> QED BY <1>3, <1>6, <1>7 DEF Since

LEMMA AnnotatedInductive ==
    ASSUME TypeOK, TypeOK', Held, PodsOrdered, ReportedShown, Annotated, [Next]_vars
    PROVE  Annotated'
<1>1. SUFFICES ASSUME faults' = 0, restarts' = 0, NEW c \in reported',
                      pods'[c.pod].uid = c.uid
               PROVE  \/ c.time <= pods'[c.pod].reported
                      \/ pc' = "annotate" /\ ThisCrash' = c
  BY DEF Annotated
<1>2. /\ faults = 0 /\ restarts = 0
      /\ pc = "annotate" => Waits \/ (Exists(pods[locals.key]) => Marked(locals.key))
  BY <1>1, AnnotateSteps
<1>3. Waits \/ Stops \/ Reads \/ GoesOn \/ Counts
  BY WorkerSteps
<1>4. CASE c \notin reported
  <2>1. Counts /\ c = ThisCrash
    BY <1>1, <1>3, <1>4 DEF Waits, Stops, Reads, GoesOn, Counts
  <2>2. pods' = pods /\ locals' = locals
    BY <2>1 DEF Counts, Kept
  <2> QED BY <2>1, <2>2 DEF Counts, ThisCrash
<1>5. CASE c \in reported
  <2>1. c.pod \in Pods /\ c.uid \in Nat \ {0} /\ c.time \in Nat /\ c.uid <= made.pods
    BY <1>5, CrashTypes
  <2>2. made.pods \in Nat /\ Moves(c.pod)
    BY <2>1, FieldTypes, PodSteps
  <2>3. ~Fresh(c.pod) /\ ~Gone(c.pod)
    BY <1>1, <2>1, <2>2 DEF Fresh, Gone
  <2>4. pods[c.pod].uid = c.uid
    BY <1>1, <2>2, <2>3 DEF Moves, Unmoved, Crashed, Marked
  <2>5. CASE Marked(c.pod)
    BY <1>5, <2>4, <2>5, MarkedLast DEF Marked
  <2>6. CASE ~Marked(c.pod)
    <3>1. pods'[c.pod].reported = pods[c.pod].reported
      BY <2>2, <2>3, <2>6 DEF Moves, Unmoved, Crashed
    <3>2. \/ c.time <= pods[c.pod].reported
          \/ pc = "annotate" /\ ThisCrash = c
      BY <1>2, <1>5, <2>4 DEF Annotated
    <3>3. CASE c.time <= pods[c.pod].reported
      BY <3>1, <3>3
    <3>4. CASE pc = "annotate" /\ ThisCrash = c
      <4>1. c.pod = locals.key
        BY <3>4 DEF ThisCrash
      <4>2. Exists(pods[locals.key])
        BY <2>1, <2>4, <4>1 DEF Exists
      <4>3. Waits
        BY <1>2, <2>6, <3>4, <4>1, <4>2
      <4>4. pc' = "annotate" /\ locals' = locals
        BY <3>4, <4>3 DEF Waits
      <4> QED BY <3>4, <4>4 DEF ThisCrash
    <3> QED BY <3>2, <3>3, <3>4
  <2> QED BY <2>5, <2>6
<1> QED BY <1>4, <1>5

LEMMA InvariantInit == Init => IInv
<1> SUFFICES ASSUME Init PROVE IInv
  OBVIOUS
<1>1. TypeOK /\ Held
  BY InitTypes
<1>2. \A p \in Pods : /\ pods[p] = NoPod /\ podCache[p] = NoPod /\ podWatch[p] = <<>>
                      /\ PodCopies(p) = {NoPod}
  BY OrderFacts, NoObjects, Listed DEF Init, PodCopies
<1>3. \A p \in Pods : InOrder(PodOrder, podCache[p], podWatch[p], pods[p])
  BY <1>2, OrderFacts, NoObjects, Listed
<1>a. made.pods \in Nat /\ clock \in Nat
  BY <1>1, FieldTypes
<1>4. Sane(NoPod)
  BY <1>a, NoObjects DEF Sane
<1>5. PodsOrdered /\ ReportedShown /\ Annotated
  BY <1>2, <1>3, <1>4 DEF Init, PodsOrdered, ReportedShown, Annotated, PastGetPod, Reporting
<1> QED BY <1>1, <1>5 DEF IInv

LEMMA Invariant == Spec => []IInv
<1>1. IInv /\ [Next]_vars => IInv'
  <2> SUFFICES ASSUME IInv, [Next]_vars PROVE IInv'
    OBVIOUS
  <2>1. TypeOK' /\ Held'
    BY TypeInductive, WorkerSteps DEF IInv
  <2>2. PodsOrdered' /\ ReportedShown' /\ Annotated'
    BY <2>1, PodsOrderedInductive, ReportedShownInductive, AnnotatedInductive DEF IInv
  <2> QED BY <2>1, <2>2 DEF IInv
<1> QED BY <1>1, InvariantInit, PTL DEF Spec

(* A crash is put into an Event again only when the copy of the pod that the   *)
(* worker has read is not the stored one, neither the pod nor its annotation,  *)
(* or when a call has failed or the process was replaced: eventAlreadyEmitted  *)
(* has no other way to miss it.                                                *)
THEOREM RecountNeedsStaleRead == Spec => RecountOnlyByStaleRead
<1>1. IInv /\ [Next]_vars => [Recounts => StaleCopy \/ faults > 0 \/ restarts > 0]_vars
  <2> SUFFICES ASSUME IInv, [Next]_vars, Recounts, ~StaleCopy, ~(faults > 0), ~(restarts > 0)
               PROVE  FALSE
    OBVIOUS
  <2> DEFINE stored == pods[locals.key]
  <2>a. faults \in Nat /\ restarts \in Nat
    BY FieldTypes DEF IInv
  <2>1. faults = 0 /\ restarts = 0
    BY <2>a
  <2>2. /\ ThisCrash \in reported /\ pc # "annotate" /\ pc \in Reporting /\ pc \in PastGetPod
    BY DEF Recounts, Reporting, PastGetPod
  <2>3. stored.uid = locals.pod.uid /\ stored.reported = locals.pod.reported
    BY DEF StaleCopy
  <2>4. /\ ThisCrash.pod = locals.key /\ ThisCrash.uid = locals.pod.uid
        /\ ThisCrash.time = LastCrash(locals.pod) /\ ThisCrash.time # 0
    BY <2>2, ThisCrashType DEF IInv
  <2>5. LastCrash(locals.pod) <= locals.pod.reported
    BY <2>1, <2>2, <2>3, <2>4 DEF IInv, Annotated
  <2>6. /\ Sane(locals.pod) /\ locals.pod \in PodObjects
        /\ LastCrash(locals.pod) # locals.pod.reported
    BY <2>2, FieldTypes DEF IInv, PodsOrdered, Held, LastCrash
  <2>7. LastCrash(locals.pod) \in Nat /\ locals.pod.reported \in Nat
    BY <2>6, PodTypes
  <2> QED BY <2>4, <2>5, <2>6, <2>7 DEF Sane
<1> QED BY <1>1, Invariant, PTL DEF Spec, RecountOnlyByStaleRead
-----------------------------------------------------------------------------
(* Crashes that are reported *)

CrashOf(p, x) == LET e == NewestTermination(x)
                 IN  [pod |-> p, uid |-> x.uid, time |-> e.time, reason |-> e.reason]

(* What a copy of an app's pod shows as its newest crash has happened. *)
Truthful(p, x) == NewestTermination(x) = Never \/ CrashOf(p, x) \in crashed

Happened ==
    /\ \A p \in Apps : \A x \in PodCopies(p) : Truthful(p, x)
    /\ pc \in PastGetPod => Truthful(locals.key, locals.pod)
    /\ reported \subseteq crashed

LEMMA NewestChanges ==
    ASSUME NEW x \in PodObjects
    PROVE  /\ NewestTermination(NoPod) = Never
           /\ \A uid : NewestTermination([NoPod EXCEPT !.uid = uid]) = Never
           /\ \A e : LET new == [x EXCEPT !.state = "terminated", !.term = e]
                     IN  NewestTermination(new) = e /\ new.uid = x.uid
           /\ x.state = "terminated" =>
                LET new == [x EXCEPT !.state = "up", !.last = x.term, !.term = Never]
                IN  NewestTermination(new) = NewestTermination(x) /\ new.uid = x.uid
           /\ \A t : LET new == [x EXCEPT !.reported = t]
                     IN  NewestTermination(new) = NewestTermination(x) /\ new.uid = x.uid
BY DEF NewestTermination, NoPod, PodObjects

LEMMA TruthfulSteps ==
    ASSUME TypeOK, Held, [Next]_vars, NEW p \in Apps, Truthful(p, pods[p])
    PROVE  crashed \subseteq crashed' /\ Truthful(p, pods[p])'
<1> USE DEF podVars, eventVars, cacheVars, workVars, budgetVars
<1>a. p \in Pods /\ pods[p] \in PodObjects
  BY AppsAssumption, FieldTypes
<1>b. ASSUME crashed \subseteq crashed',
             \/ NewestTermination(pods'[p]) = Never
             \/ /\ NewestTermination(pods'[p]) = NewestTermination(pods[p])
                /\ pods'[p].uid = pods[p].uid
      PROVE  Truthful(p, pods[p])'
  BY <1>b DEF Truthful, CrashOf, NewestTermination
<1>c. ASSUME crashed' = crashed, pods' = pods
      PROVE  crashed \subseteq crashed' /\ Truthful(p, pods[p])'
  BY <1>b, <1>c
<1>d. ASSUME NEW q \in Pods, NEW new \in PodObjects, WritePod(q, new), podCache' = podCache
      PROVE  pods'[p] = IF p = q THEN new ELSE pods[p]
  BY <1>a, <1>d, WriteSteps DEF Rests
<1>1. ASSUME \/ Dequeue \/ ReadFails \/ GetPod \/ ListPodEvents \/ GetSts \/ GetByInstanceAndReason
             \/ UpdateEvent \/ CreateEvent \/ DeliverEvents \/ EventExpires \/ Restart
             \/ (\E q \in Pods : DeliverPod(q) \/ PodEventSeen(q) \/ OwnerGoes(q)) \/ UNCHANGED vars
      PROVE  crashed' = crashed /\ pods' = pods
  BY <1>1 DEF Dequeue, ReadFails, GetPod, ListPodEvents, GetSts, GetByInstanceAndReason, UpdateEvent,
       CreateEvent, DeliverEvents, EventExpires, Restart, DeliverPod, PodEventSeen, OwnerGoes, vars
<1>2. CASE Annotate
  <2> DEFINE q == locals.key
             marked == [pods[q] EXCEPT !.reported = locals.crash.time]
  <2>1. q \in Pods /\ pods[q] \in PodObjects /\ locals.crash.time \in Nat
    BY <1>2, FieldTypes, TerminationTypes DEF Annotate, Held
  <2>2. /\ marked \in PodObjects /\ marked.uid = pods[q].uid
        /\ NewestTermination(marked) = NewestTermination(pods[q])
    BY <2>1, PodChanges, NewestChanges
  <2>3. PICK new \in {marked, pods[q]} : WritePod(q, new)
    BY <1>2 DEF Annotate
  <2>4. crashed' = crashed /\ podCache' = podCache
    BY <1>2 DEF Annotate
  <2> HIDE DEF marked
  <2>5. pods'[p] = IF p = q THEN new ELSE pods[p]
    BY <1>d, <2>1, <2>2, <2>3, <2>4
  <2> QED BY <1>b, <2>2, <2>3, <2>4, <2>5
<1>3. ASSUME NEW q \in Pods, PodCreated(q)
      PROVE  crashed \subseteq crashed' /\ Truthful(p, pods[p])'
  <2> DEFINE new == [NoPod EXCEPT !.uid = made.pods + 1]
  <2>a. made.pods \in Nat
    BY FieldTypes
  <2>b. made.pods + 1 \in Nat
    BY <2>a
  <2>1. new \in PodObjects /\ NewestTermination(new) = Never
    BY <1>a, <2>b, PodChanges, NewestChanges
  <2>2. WritePod(q, new) /\ crashed' = crashed /\ podCache' = podCache
    BY <1>3 DEF PodCreated
  <2> HIDE DEF new
  <2>3. pods'[p] = IF p = q THEN new ELSE pods[p]
    BY <1>d, <2>1, <2>2
  <2> QED BY <1>b, <2>1, <2>2, <2>3
<1>4. ASSUME NEW q \in Pods, PodRemoved(q)
      PROVE  crashed \subseteq crashed' /\ Truthful(p, pods[p])'
  <2>1. WritePod(q, NoPod) /\ crashed' = crashed /\ podCache' = podCache
    BY <1>4 DEF PodRemoved
  <2>2. pods'[p] = IF p = q THEN NoPod ELSE pods[p]
    BY <1>d, <2>1, NoObjects
  <2> QED BY <1>a, <1>b, <2>1, <2>2, NewestChanges
<1>5. ASSUME NEW q \in Pods, ContainerTerminates(q)
      PROVE  crashed \subseteq crashed' /\ Truthful(p, pods[p])'
  <2>1. PICK t \in {clock, clock + 1} \ {0}, reason \in Reasons :
          /\ WritePod(q, [pods[q] EXCEPT !.state = "terminated",
                                         !.term = [time |-> t, reason |-> reason]])
          /\ crashed' = IF q \in Apps
                        THEN crashed \cup {[pod |-> q, uid |-> pods[q].uid, time |-> t, reason |-> reason]}
                        ELSE crashed
    BY <1>5 DEF ContainerTerminates
  <2> DEFINE e == [time |-> t, reason |-> reason]
             new == [pods[q] EXCEPT !.state = "terminated", !.term = e]
  <2>a. clock \in Nat
    BY FieldTypes
  <2>2. t \in Nat \ {0}
    BY <2>a
  <2>3. e \in Terminations /\ e.time = t /\ e.reason = reason /\ pods[q] \in PodObjects
    BY <2>2, TerminationTypes, FieldTypes
  <2>4. WritePod(q, new) /\ podCache' = podCache
    BY <1>5, <2>1 DEF ContainerTerminates
  <2> HIDE DEF e
  <2>5. new \in PodObjects /\ NewestTermination(new) = e /\ new.uid = pods[q].uid
    BY <2>3, PodChanges, NewestChanges
  <2> HIDE DEF new
  <2>6. pods'[p] = IF p = q THEN new ELSE pods[p]
    BY <1>d, <2>4, <2>5
  <2>7. CASE p = q
    <3>1. CrashOf(p, pods[p])' \in crashed'
      BY <2>1, <2>3, <2>5, <2>6, <2>7 DEF CrashOf, NewestTermination
    <3> QED BY <2>1, <3>1 DEF Truthful
  <2> QED BY <1>b, <2>1, <2>6, <2>7
<1>6. ASSUME NEW q \in Pods, ContainerLeavesTerminated(q)
      PROVE  crashed \subseteq crashed' /\ Truthful(p, pods[p])'
  <2> DEFINE new == [pods[q] EXCEPT !.state = "up", !.last = pods[q].term, !.term = Never]
  <2>1. pods[q] \in PodObjects /\ pods[q].state = "terminated"
    BY <1>6, FieldTypes DEF ContainerLeavesTerminated
  <2>2. /\ new \in PodObjects /\ new.uid = pods[q].uid
        /\ NewestTermination(new) = NewestTermination(pods[q])
    BY <2>1, PodChanges, NewestChanges
  <2>3. WritePod(q, new) /\ crashed' = crashed /\ podCache' = podCache
    BY <1>6 DEF ContainerLeavesTerminated
  <2> HIDE DEF new
  <2>4. pods'[p] = IF p = q THEN new ELSE pods[p]
    BY <1>d, <2>2, <2>3
  <2> QED BY <1>b, <2>2, <2>3, <2>4
<1> QED BY <1>1, <1>c, <1>2, <1>3, <1>4, <1>5, <1>6 DEF Next, Controller

LEMMA CrashedGrows == [Next]_vars => crashed \subseteq crashed'
BY DEF Next, Controller, vars, podVars, eventVars, cacheVars, workVars, budgetVars,
     Dequeue, ReadFails, GetPod, ListPodEvents, GetSts, GetByInstanceAndReason, UpdateEvent,
     CreateEvent, Annotate, DeliverPod, DeliverEvents, PodCreated, PodRemoved, ContainerTerminates,
     ContainerLeavesTerminated, PodEventSeen, OwnerGoes, EventExpires, Restart

LEMMA HappenedInductive ==
    ASSUME TypeOK, TypeOK', Held, Happened, [Next]_vars
    PROVE  Happened'
<1>1. \A p \in Apps : /\ p \in Pods
                      /\ PodCopies(p)' \subseteq PodCopies(p) \cup {pods'[p]}
                      /\ pods[p] \in PodCopies(p) /\ podCache[p] \in PodCopies(p)
  <2> TAKE p \in Apps
  <2>1. p \in Pods
    BY AppsAssumption
  <2>2. Rests(p) \/ Writes(p) \/ Delivers(p) \/ Lists(p)
    BY <2>1, PodSteps
  <2> QED BY <2>1, <2>2, CopiesStep DEF PodCopies, Copies
<1>2. \A p \in Apps : crashed \subseteq crashed' /\ Truthful(p, pods[p])'
  BY <1>1, TruthfulSteps DEF Happened
<1>3. \A p, x : crashed \subseteq crashed' /\ Truthful(p, x) => Truthful(p, x)'
  BY DEF Truthful, CrashOf, NewestTermination
<1>4. ASSUME NEW p \in Apps, NEW x \in PodCopies(p)'
      PROVE  Truthful(p, x)'
  <2>1. CASE x \in PodCopies(p)
    BY <1>2, <1>3, <2>1 DEF Happened
  <2>2. CASE x = pods'[p]
    <3>1. Truthful(p, pods[p])'
      BY <1>2
    <3> QED BY <2>2, <3>1 DEF Truthful, CrashOf, NewestTermination
  <2> QED BY <1>1, <2>1, <2>2
<1>5. Held' /\ (Waits \/ Stops \/ Reads \/ GoesOn \/ Counts)
  BY WorkerSteps
<1>6. ASSUME pc' \in PastGetPod
      PROVE  crashed \subseteq crashed' /\ Truthful(locals.key, locals.pod)'
  <2>1. /\ locals'.key = locals.key /\ locals.key \in Apps
        /\ locals'.pod \in {locals.pod, podCache[locals.key]}
        /\ locals'.pod = locals.pod => pc \in PastGetPod \/ Reads
    BY <1>5, <1>6 DEF Held, Waits, Stops, Reads, GoesOn, Counts, PastGetPod, Reporting
  <2>2. Truthful(locals.key, locals'.pod)
    BY <1>1, <1>5, <1>6, <2>1 DEF Happened, Waits, Stops, Reads, GoesOn, Counts, PastGetPod, Reporting
  <2>3. PICK k, x : k = locals.key /\ x = locals'.pod
    OBVIOUS
  <2>4. Truthful(k, x)'
    BY <1>2, <1>3, <2>1, <2>2, <2>3
  <2>5. locals'.key = k /\ locals'.pod = x
    BY <2>1, <2>3
  <2> QED BY <1>2, <2>1, <2>4, <2>5 DEF Truthful, CrashOf, NewestTermination
<1>7. reported' \subseteq crashed'
  <2>1. CASE Counts
    <3>1. pc \in Reporting /\ pc \in PastGetPod /\ pc' \in PastGetPod
      BY <2>1 DEF Counts, PastGetPod, Reporting
    <3>2. ThisCrash \in crashed
      BY <3>1 DEF Happened, Held, Truthful, CrashOf, ThisCrash
    <3> QED BY <1>6, <2>1, <3>1, <3>2 DEF Counts, Happened
  <2>2. CASE ~Counts
    <3>1. reported' = reported
      BY <1>5, <2>2 DEF Waits, Stops, Reads, GoesOn
    <3> QED BY <3>1, CrashedGrows DEF Happened
  <2> QED BY <2>1, <2>2
<1> QED BY <1>4, <1>6, <1>7 DEF Happened

LEMMA HappenedInit == Init => Happened
<1> SUFFICES ASSUME Init PROVE Happened
  OBVIOUS
<1>1. \A p \in Apps : PodCopies(p) = {NoPod}
  BY AppsAssumption, OrderFacts, NoObjects, Listed DEF Init, PodCopies
<1>2. NewestTermination(NoPod) = Never
  BY NoObjects, NewestChanges
<1> QED BY <1>1, <1>2 DEF Init, Happened, Truthful, PastGetPod, Reporting

(* No crash is reported that has not happened: the Event names a pod, a time   *)
(* and a reason of a container that did terminate so, whatever copies of the   *)
(* pods the controller reads and whatever has become of them since (Generate,  *)
(* setEvent).                                                                  *)
THEOREM ReportedHappened == Spec => [](reported \subseteq crashed)
<1>1. Init => TypeOK /\ Held /\ Happened
  BY InitTypes, HappenedInit
<1>2. TypeOK /\ Held /\ Happened /\ [Next]_vars => (TypeOK /\ Held /\ Happened)'
  BY TypeInductive, WorkerSteps, HappenedInductive
<1>3. Happened => reported \subseteq crashed
  BY DEF Happened
<1> QED BY <1>1, <1>2, <1>3, PTL DEF Spec
=============================================================================
