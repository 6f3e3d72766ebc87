------------------------------ MODULE PodCrash ------------------------------
(***************************************************************************)
(* The PodCrash controller: k8s/reconciler/pod_crash.go with its predicate *)
(* and the crash event generator (k8s/event), for the pods of a namespace. *)
(*                                                                         *)
(* One worker reconciles one pod at a time and is cut at its API calls.    *)
(* The kubelet restarts containers and replaces what a pod shows of their  *)
(* terminations; Events are counted up by optimistic updates; an           *)
(* annotation on the pod remembers the last termination that was reported. *)
(***************************************************************************)
EXTENDS Informer, FiniteSets

CONSTANTS
    Pods,              \* names of pods: a StatefulSet uses them again
    Apps,              \* the pods labelled with source type APP
    Lrps, Lrp,         \* the LRP that owns a pod's StatefulSet
    Index,             \* ParseAppIndex of a pod's name
    Reasons,           \* reasons a container terminates for
    LostReplies,       \* a write may be applied and still be answered by an error
    MaxPods,           \* bound: pods made
    MaxCrashes,        \* bound: terminations
    MaxMishaps,        \* bound: pods and owners deleted, pod events seen, Events expired
    MaxTroubles        \* bound: calls answered by an error, replacements of the process

ASSUME AppsAssumption == Apps \subseteq Pods
ASSUME LrpAssumption == Lrp \in [Pods -> Lrps]
ASSUME IndexAssumption == Index \in [Pods -> Nat]
ASSUME FlagAssumption == LostReplies \in BOOLEAN
ASSUME BoundsAssumption == {MaxPods, MaxCrashes, MaxMishaps, MaxTroubles} \subseteq Nat

VARIABLES
    pods, podCache, podWatch,         \* API server and informer, by name
    podEvents,       \* what the cached Events about a pod say: "Killing" or something else
    events, eventCache, eventWatch,   \* Events about LRPs, and their informer
    owner,           \* how a pod's owner references go on: to the LRP or less far
    queued, pc, locals,               \* work queue and worker
    clock,           \* the second of the last termination
    crashed,         \* history: terminations of app containers
    reported,        \* history: terminations the controller has put into an Event
    forgotten,       \* history: Events that have expired
    made, faults, restarts

podVars    == <<pods, podEvents, owner, clock, crashed>>
eventVars  == <<events, reported, forgotten>>
cacheVars  == <<podCache, podWatch, eventCache, eventWatch>>
workVars   == <<queued, pc, locals>>
budgetVars == <<made, faults, restarts>>
vars == <<pods, podCache, podWatch, podEvents, events, eventCache, eventWatch, owner, queued, pc,
          locals, clock, crashed, reported, forgotten, made, faults, restarts>>

-----------------------------------------------------------------------------
Never == [time |-> 0, reason |-> ""]
NoPod == [uid |-> 0, state |-> "up", term |-> Never, last |-> Never, reported |-> 0]
NoEvent == [id |-> 0, lrp |-> "", index |-> 0, reason |-> "", count |-> 0]
NoLocals == [key |-> "", pod |-> NoPod, crash |-> Never, event |-> NoEvent]

Exists(obj) == obj.uid # 0

Terminations == [time : Nat \ {0}, reason : Reasons] \cup {Never}
PodObjects == [uid : Nat, state : {"up", "terminated"},
               term : Terminations, last : Terminations, reported : Nat]
EventObjects == [id : Nat, lrp : Lrps \cup {""}, index : Nat, reason : Reasons \cup {""}, count : Nat]
Crashes == [pod : Pods, uid : Nat, time : Nat, reason : Reasons]

TypeOK ==
    /\ pods \in [Pods -> PodObjects] /\ podCache \in [Pods -> PodObjects]
    /\ podWatch \in [Pods -> Seq(PodObjects)]
    /\ podEvents \in [Pods -> SUBSET {"Killing", "other"}]
    /\ events \in SUBSET EventObjects /\ eventCache \in SUBSET EventObjects
    /\ eventWatch \in Seq(SUBSET EventObjects) /\ forgotten \in SUBSET EventObjects
    /\ owner \in [Pods -> {"lrp", "orphaned", "deleted"}]
    /\ queued \subseteq Pods
    /\ pc \in {"idle", "getPod", "listPodEvents", "getSts", "listEvents", "updateEvent",
               "createEvent", "annotate"}
    /\ locals \in [key : Pods \cup {""}, pod : PodObjects, crash : Terminations, event : EventObjects]
    /\ clock \in Nat /\ crashed \subseteq Crashes /\ reported \subseteq Crashes
    /\ made \in [pods : Nat, crashes : Nat, events : Nat, mishaps : Nat] /\ faults \in Nat /\ restarts \in Nat

Init ==
    /\ pods = [p \in Pods |-> NoPod] /\ podCache = pods /\ podWatch = [p \in Pods |-> <<>>]
    /\ podEvents = [p \in Pods |-> {}] /\ owner = [p \in Pods |-> "lrp"]
    /\ events = {} /\ eventCache = {} /\ eventWatch = <<>>
    /\ queued = {} /\ pc = "idle" /\ locals = NoLocals
    /\ clock = 0 /\ crashed = {} /\ reported = {} /\ forgotten = {}
    /\ made = [pods |-> 0, crashes |-> 0, events |-> 0, mishaps |-> 0] /\ faults = 0 /\ restarts = 0

-----------------------------------------------------------------------------
Outcomes == {"ok"} \cup (IF faults + restarts < MaxTroubles
                         THEN {"refused"} \cup (IF LostReplies THEN {"lost"} ELSE {})
                         ELSE {})
Reaches(outcome) == outcome # "refused"
Charge(outcome) == faults' = IF outcome = "ok" THEN faults ELSE faults + 1

WritePod(p, new) == /\ pods' = [pods EXCEPT ![p] = new]
                    /\ podWatch' = [podWatch EXCEPT ![p] = Published(@, pods[p], new)]
WriteEvents(new) == events' = new /\ eventWatch' = Published(eventWatch, events, new)

Call(next, vals) == pc' = next /\ locals' = vals /\ UNCHANGED queued
Done == pc' = "idle" /\ locals' = NoLocals /\ UNCHANGED queued
RetryOwner == pc' = "idle" /\ locals' = NoLocals /\ queued' = queued \cup {Lrp[locals.key]}  \* mutated form
Retry == pc' = "idle" /\ locals' = NoLocals /\ queued' = queued \cup {locals.key}

-----------------------------------------------------------------------------
(* Reconcile *)

Dequeue ==
    /\ pc = "idle"
    /\ \E p \in queued : /\ queued' = queued \ {p}
                         /\ pc' = "getPod" /\ locals' = [NoLocals EXCEPT !.key = p]
    /\ UNCHANGED <<podVars, eventVars, cacheVars, budgetVars>>

(* Generate swallows the error of its List: that reconcile is over. *)
ReadFails ==
    /\ pc \in {"getPod", "listPodEvents", "getSts", "listEvents"}
    /\ "refused" \in Outcomes /\ Charge("refused")
    /\ IF pc = "listPodEvents" THEN Done ELSE Retry
    /\ UNCHANGED <<podVars, eventVars, cacheVars, made, restarts>>

NeverEmitted(pod, termination) == FALSE                  \* mutated form: the annotation is not read
EmittedOnce(pod, termination) == pod.reported # 0        \* mutated form: any annotation will do

(* eventAlreadyEmitted *)
AlreadyEmitted(pod, termination) == termination.time = pod.reported

Report(pod, termination) ==
    IF termination = Never \/ AlreadyEmitted(pod, termination)
    THEN Done
    ELSE Call("getSts", [locals EXCEPT !.pod = pod, !.crash = termination])

(* Generate: a container that is down now comes before one that was *)
GetPod ==
    /\ pc = "getPod"
    /\ LET pod == podCache[locals.key] IN
         CASE ~Exists(pod) \/ locals.key \notin Apps -> Done
           [] Exists(pod) /\ locals.key \in Apps /\ pod.state = "terminated" ->
                Call("listPodEvents", [locals EXCEPT !.pod = pod])
           [] OTHER -> Report(pod, pod.last)
    /\ UNCHANGED <<podVars, eventVars, cacheVars, budgetVars>>

(* isStopped looks at the last of a list in no particular order *)
StoppedAnswers(about) == CASE about = {} -> {FALSE}
                           [] OTHER -> {reason = "Killing" : reason \in about}

ListPodEvents ==
    /\ pc = "listPodEvents"
    /\ \E stopped \in StoppedAnswers(podEvents[locals.key]) :
         IF stopped THEN Done ELSE Report(locals.pod, locals.pod.term)
    /\ UNCHANGED <<podVars, eventVars, cacheVars, budgetVars>>

(* getOwner, of the pod and of its StatefulSet *)
Owned(p) == owner[p] # "orphaned"

(* A StatefulSet that is gone is an error like any. *)
GetSts ==
    /\ pc = "getSts"
    /\ CASE ~Owned(locals.key) -> Done
         [] owner[locals.key] = "deleted" -> Retry
         [] OTHER -> Call("listEvents", locals)
    /\ UNCHANGED <<podVars, eventVars, cacheVars, budgetVars>>

(* Of several MatchingFields the List keeps the last: the reason. *)
Matching == {e \in eventCache : e.index = Index[locals.key] /\ e.reason = locals.crash.reason}

GetByInstanceAndReason ==
    /\ pc = "listEvents"
    /\ IF Cardinality(Matching) = 1
       THEN \E e \in Matching : Call("updateEvent", [locals EXCEPT !.event = e])
       ELSE Call("createEvent", locals)
    /\ UNCHANGED <<podVars, eventVars, cacheVars, budgetVars>>

ThisCrash == [pod |-> locals.key, uid |-> locals.pod.uid,
              time |-> locals.crash.time, reason |-> locals.crash.reason]

AnyVersion == \E e \in events : e.id = locals.event.id     \* mutated form: no precondition

UpToDate == locals.event \in events       \* the resourceVersion is the stored one

UpdateEvent ==
    /\ pc = "updateEvent"
    /\ \E outcome \in Outcomes :
         LET applied == Reaches(outcome) /\ UpToDate
         IN  /\ Charge(outcome)
             /\ WriteEvents(IF applied
                            THEN {e \in events : e.id # locals.event.id}
                                   \cup {[locals.event EXCEPT !.count = @ + 1]}
                            ELSE events)
             /\ IF applied /\ outcome = "ok"
                THEN Call("annotate", locals) /\ reported' = reported \cup {ThisCrash}
                ELSE Retry /\ UNCHANGED reported
    /\ UNCHANGED <<podVars, podCache, podWatch, eventCache, forgotten, made, restarts>>

CreateEvent ==          \* GenerateName: a name nobody uses
    /\ pc = "createEvent"
    /\ \E outcome \in Outcomes :
         LET new == [id |-> made.events + 1, lrp |-> Lrp[locals.key], index |-> Index[locals.key],
                     reason |-> locals.crash.reason, count |-> 1]
         IN  /\ Charge(outcome)
             /\ WriteEvents(IF Reaches(outcome) THEN events \cup {new} ELSE events)
             /\ made' = IF Reaches(outcome) THEN [made EXCEPT !.events = @ + 1] ELSE made
             /\ IF outcome = "ok"
                THEN Call("annotate", locals) /\ reported' = reported \cup {ThisCrash}
                ELSE Retry /\ UNCHANGED reported
    /\ UNCHANGED <<podVars, podCache, podWatch, eventCache, forgotten, restarts>>

(* setCrashTimestampOnPod: a merge patch by name whose error is only logged *)
Annotate ==
    /\ pc = "annotate"
    /\ \E outcome \in Outcomes :
         LET stored == pods[locals.key]
         IN  /\ Charge(outcome)
             /\ WritePod(locals.key, IF Reaches(outcome) /\ Exists(stored)
                                     THEN [stored EXCEPT !.reported = locals.crash.time]
                                     ELSE stored)
    /\ Done
    /\ UNCHANGED <<podEvents, owner, clock, crashed, eventVars, podCache, eventCache, eventWatch,
                   made, restarts>>

-----------------------------------------------------------------------------
(* The environment *)

(* SourceTypeUpdatePredicate: neither the first nor the last version queues *)
Queued(p, old, new) == Exists(old) /\ Exists(new) /\ p \in Apps

DeliverPod(p) ==
    /\ podWatch[p] # <<>>
    /\ podCache' = [podCache EXCEPT ![p] = Head(podWatch[p])]
    /\ podWatch' = [podWatch EXCEPT ![p] = Tail(@)]
    /\ queued' = IF Queued(p, podCache[p], Head(podWatch[p])) THEN queued \cup {p} ELSE queued
    /\ UNCHANGED <<podVars, eventVars, eventCache, eventWatch, pc, locals, budgetVars>>

DeliverEvents ==
    /\ eventWatch # <<>>
    /\ eventCache' = Head(eventWatch) /\ eventWatch' = Tail(eventWatch)
    /\ UNCHANGED <<podVars, eventVars, podCache, podWatch, workVars, budgetVars>>

PodCreated(p) ==
    /\ ~Exists(pods[p]) /\ made.pods < MaxPods
    /\ made' = [made EXCEPT !.pods = @ + 1]
    /\ WritePod(p, [NoPod EXCEPT !.uid = made.pods + 1])
    /\ UNCHANGED <<podEvents, owner, clock, crashed, eventVars, podCache, eventCache, eventWatch,
                   workVars, faults, restarts>>

Mishap == made.mishaps < MaxMishaps /\ made' = [made EXCEPT !.mishaps = @ + 1]

PodRemoved(p) ==
    /\ Exists(pods[p]) /\ Mishap
    /\ WritePod(p, NoPod)
    /\ UNCHANGED <<podEvents, owner, clock, crashed, eventVars, podCache, eventCache, eventWatch,
                   workVars, faults, restarts>>

(* Timestamps have a resolution of one second. *)
ContainerTerminates(p) ==
    /\ Exists(pods[p]) /\ pods[p].state = "up" /\ made.crashes < MaxCrashes
    /\ made' = [made EXCEPT !.crashes = @ + 1]
    /\ \E t \in {clock, clock + 1} \ {0}, reason \in Reasons :
         /\ clock' = t
         /\ WritePod(p, [pods[p] EXCEPT !.state = "terminated",
                                        !.term = [time |-> t, reason |-> reason]])
         /\ crashed' = IF p \in Apps
                       THEN crashed \cup {[pod |-> p, uid |-> pods[p].uid, time |-> t, reason |-> reason]}
                       ELSE crashed
    /\ UNCHANGED <<podEvents, owner, eventVars, podCache, eventCache, eventWatch, workVars,
                   faults, restarts>>

(* restartPolicy Always: the container goes into back-off or runs again *)
ContainerLeavesTerminated(p) ==
    /\ Exists(pods[p]) /\ pods[p].state = "terminated"
    /\ WritePod(p, [pods[p] EXCEPT !.state = "up", !.last = pods[p].term, !.term = Never])
    /\ UNCHANGED <<podEvents, owner, clock, crashed, eventVars, podCache, eventCache, eventWatch,
                   workVars, budgetVars>>

(* An Event about a pod of that name; it outlives the pod. *)
PodEventSeen(p) ==
    /\ Mishap
    /\ \E kind \in {"Killing", "other"} \ podEvents[p] :
         podEvents' = [podEvents EXCEPT ![p] = @ \cup {kind}]
    /\ UNCHANGED <<pods, owner, clock, crashed, eventVars, cacheVars, workVars, faults, restarts>>

OwnerGoes(p) ==
    /\ owner[p] = "lrp" /\ Mishap
    /\ \E rest \in {"orphaned", "deleted"} : owner' = [owner EXCEPT ![p] = rest]
    /\ UNCHANGED <<pods, podEvents, clock, crashed, eventVars, cacheVars, workVars, faults, restarts>>

EventExpires ==
    /\ Mishap
    /\ \E e \in events : WriteEvents(events \ {e}) /\ forgotten' = forgotten \cup {e}
    /\ UNCHANGED <<podVars, reported, podCache, podWatch, eventCache, workVars, faults, restarts>>

(* What the new process lists are Create events, which queue nothing. *)
Restart ==
    /\ faults + restarts < MaxTroubles /\ restarts' = restarts + 1
    /\ \/ /\ podCache' = pods /\ podWatch' = [p \in Pods |-> <<>>]
          /\ eventCache' = events /\ eventWatch' = <<>>
       \/ UNCHANGED cacheVars
    /\ queued' = {} /\ pc' = "idle" /\ locals' = NoLocals
    /\ UNCHANGED <<podVars, eventVars, made, faults>>

-----------------------------------------------------------------------------
Controller == \/ Dequeue \/ ReadFails \/ GetPod \/ ListPodEvents \/ GetSts
              \/ GetByInstanceAndReason \/ UpdateEvent \/ CreateEvent \/ Annotate

Next ==
    \/ Controller
    \/ \E p \in Pods : \/ DeliverPod(p) \/ PodCreated(p) \/ PodRemoved(p)
                       \/ ContainerTerminates(p) \/ ContainerLeavesTerminated(p)
                       \/ PodEventSeen(p) \/ OwnerGoes(p)
    \/ DeliverEvents \/ EventExpires \/ Restart

Spec == Init /\ [][Next]_vars

(* The worker works, informers deliver, and a container does not stay       *)
(* terminated: the kubelet restarts it or the pod goes.                     *)
Fairness ==
    /\ WF_vars(Controller) /\ WF_vars(DeliverEvents)
    /\ \A p \in Pods : WF_vars(DeliverPod(p)) /\ WF_vars(ContainerLeavesTerminated(p))

FairSpec == Spec /\ Fairness

-----------------------------------------------------------------------------
(* Properties *)

Keys == {[index |-> Index[p], reason |-> reason] : p \in Pods, reason \in Reasons}
KeyOf(c) == [index |-> Index[c.pod], reason |-> c.reason]

(* The counts of all Events of an index and a reason together, those that have *)
(* expired too, as a set of marks: one for each time an Event was counted up.  *)
Marks(k) == UNION {{<<e.id, n>> : n \in 1 .. e.count}
                     : e \in {x \in events \cup forgotten : x.index = k.index /\ x.reason = k.reason}}

Ledger == INSTANCE CrashLedger
          WITH Crashes <- [pod : Apps, uid : 1 .. MaxPods, time : 1 .. MaxCrashes, reason : Reasons],
               tally <- [k \in Keys |-> Cardinality(Marks(k))]

(* Nothing is counted that did not happen and no count is lost: whatever the  *)
(* caches show, an Event is only ever counted up by one from its stored       *)
(* version (updateEvent), and a crash the controller annotates as reported    *)
(* has been counted.                                                          *)
ImplementsLedger == Ledger!Spec

(* A crash is counted twice only through a copy of the pod that does not show *)
(* the annotation yet, or after an error or a restart between the Event and   *)
(* the annotation (eventAlreadyEmitted, setCrashTimestampOnPod).              *)
Recounts == ThisCrash \in reported /\ pc \in {"updateEvent", "createEvent"} /\ events' # events
StaleCopy == LET stored == pods[locals.key]
             IN  stored.uid # locals.pod.uid \/ stored.reported # locals.pod.reported

RecountOnlyByStaleRead == [][Recounts => StaleCopy \/ faults > 0 \/ restarts > 0]_vars

NewestTermination(pod) == IF pod.state = "terminated" THEN pod.term ELSE pod.last

Settled == /\ pc = "idle" /\ queued = {} /\ eventWatch = <<>>
           /\ \A p \in Pods : podWatch[p] = <<>>

(* At rest no crash is left unreported: the annotation of an app's pod is the *)
(* time of its newest termination, unless that is a stop the pod has not come *)
(* back from (Generate, isStopped).                                           *)
AnnotatedAtRest ==
    Settled /\ faults = 0 /\ restarts = 0 =>
      \A p \in Apps : Exists(pods[p]) /\ owner[p] = "lrp" =>
        \/ NewestTermination(pods[p]) = Never \/ pods[p].reported = NewestTermination(pods[p]).time
        \/ pods[p].state = "terminated" /\ "Killing" \in podEvents[p]

(* A crash is put into an Event, although lists that fail are not retried     *)
(* while the container is down (generateReportForTerminatedPod): unless the   *)
(* next crash, the end of the pod or of its owner, or a restart of the        *)
(* controller comes first.                                                    *)
CrashReported ==
    \A p \in Apps, t \in 1 .. MaxCrashes :
        (restarts = 0 /\ NewestTermination(pods[p]).time = t)
          ~> \/ \E c \in reported : c.pod = p /\ c.time = t
             \/ NewestTermination(pods[p]).time # t
             \/ owner[p] # "lrp" \/ restarts > 0

(* "looks up the event with correct list options" (pod_crash_test.go): an     *)
(* LRP's crash is counted in an Event about that LRP.                         *)
CountedForItsLrp ==
    \A c \in reported : \E e \in events \cup forgotten :
        e.lrp = Lrp[c.pod] /\ e.reason = c.reason
=============================================================================
