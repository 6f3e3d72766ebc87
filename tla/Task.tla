-------------------------------- MODULE Task --------------------------------
(***************************************************************************)
(* The Task controller: k8s/reconciler/task.go with the Job Desirer and    *)
(* the StatusGetter (k8s/jobs), for a set of Tasks of one namespace.       *)
(*                                                                         *)
(* One worker reconciles one Task at a time and is cut at its API calls.   *)
(* Tasks and Jobs are read from the informer caches and written at the API *)
(* server.  Time is what the TTL makes of it: a completed Task expires.    *)
(***************************************************************************)
EXTENDS Informer, FiniteSets

CONSTANTS
    Tasks,             \* names of Task objects
    JobNames,
    JobName,           \* GetJobName: the name of a Task's Job
    LostReplies,       \* a write may be applied and still be answered by an error
    PodsVanish,        \* the pod of a Job may be deleted by others
    NamesReused,       \* a Task may have the name of an earlier, deleted one
    MaxTasks,          \* bound: Task creations
    MaxJobs,           \* bound: Jobs made by the time of a garbage collection
    MaxFaults,         \* bound: API calls answered by an error
    MaxRestarts        \* bound: replacements of the controller process

ASSUME JobNameAssumption == JobName \in [Tasks -> JobNames]
ASSUME FlagsAssumption == {LostReplies, PodsVanish, NamesReused} \subseteq BOOLEAN
ASSUME BoundsAssumption == {MaxTasks, MaxJobs, MaxFaults, MaxRestarts} \subseteq Nat

VARIABLES
    tasks, jobs,          \* API server, by name
    pods,                 \* the pod of each Job as the pod informer shows it
    taskCache, taskWatch, jobCache, jobWatch,
    queued,               \* work queue
    timers,               \* RequeueAfter results that are still pending
    pc, locals,
    expired,              \* uids of Tasks that completed longer than the TTL ago
    runs,                 \* history: Jobs created for each Task, by uid
    ended,                \* history: <<uid of the Task, how its Job ended>>
    made, faults, restarts

storeVars  == <<tasks, jobs, pods, expired, runs, ended>>
cacheVars  == <<taskCache, taskWatch, jobCache, jobWatch>>
workVars   == <<queued, timers, pc, locals>>
budgetVars == <<made, faults, restarts>>
vars == <<tasks, jobs, pods, taskCache, taskWatch, jobCache, jobWatch, queued, timers, pc, locals,
          expired, runs, ended, made, faults, restarts>>

-----------------------------------------------------------------------------
Uids == 1 .. MaxTasks
Conditions == {"Initialized", "Started", "Succeeded", "Failed"}
Ends == {"succeeded", "failed"}
Phases == {"created", "running"} \cup Ends

NoTask == [uid |-> 0, conds |-> {}]
NoJob == [uid |-> 0, key |-> "", owner |-> 0, phase |-> "created"]
NoLocals == [key |-> "", task |-> NoTask, job |-> NoJob, desired |-> FALSE]

Exists(obj) == obj.uid # 0

TaskObjects == {NoTask} \cup [uid : Uids, conds : SUBSET Conditions]
JobObjects == {NoJob} \cup [uid : Nat \ {0}, key : Tasks, owner : Uids, phase : Phases]

TypeOK ==
    /\ tasks \in [Tasks -> TaskObjects] /\ taskCache \in [Tasks -> TaskObjects]
    /\ taskWatch \in [Tasks -> Seq(TaskObjects)]
    /\ jobs \in [JobNames -> JobObjects] /\ jobCache \in [JobNames -> JobObjects]
    /\ jobWatch \in [JobNames -> Seq(JobObjects)]
    /\ pods \in [JobNames -> {"unfinished", "terminated", "gone"}]
    /\ queued \subseteq Tasks /\ timers \subseteq Tasks \X Uids
    /\ pc \in {"idle", "getTask", "deleteJob", "getJob", "createJob", "readPods", "patchTask"}
    /\ locals \in [key : Tasks \cup {""}, task : TaskObjects, job : JobObjects, desired : BOOLEAN]
    /\ expired \subseteq Uids /\ runs \in [Uids -> Nat] /\ ended \subseteq Uids \X Ends
    /\ made \in [tasks : Nat, names : SUBSET Tasks, jobs : Nat] /\ faults \in Nat /\ restarts \in Nat

Init ==
    /\ tasks = [t \in Tasks |-> NoTask] /\ taskCache = tasks /\ taskWatch = [t \in Tasks |-> <<>>]
    /\ jobs = [j \in JobNames |-> NoJob] /\ jobCache = jobs /\ jobWatch = [j \in JobNames |-> <<>>]
    /\ pods = [j \in JobNames |-> "gone"]
    /\ queued = {} /\ timers = {} /\ pc = "idle" /\ locals = NoLocals
    /\ expired = {} /\ runs = [u \in Uids |-> 0] /\ ended = {}
    /\ made = [tasks |-> 0, names |-> {}, jobs |-> 0] /\ faults = 0 /\ restarts = 0

-----------------------------------------------------------------------------
Outcomes == {"ok"} \cup (IF faults < MaxFaults
                         THEN {"refused"} \cup (IF LostReplies THEN {"lost"} ELSE {})
                         ELSE {})
Reaches(outcome) == outcome # "refused"
Charge(outcome) == faults' = IF outcome = "ok" THEN faults ELSE faults + 1

WriteTask(t, new) == /\ tasks' = [tasks EXCEPT ![t] = new]
                     /\ taskWatch' = [taskWatch EXCEPT ![t] = Published(@, tasks[t], new)]
WriteJob(j, new) == /\ jobs' = [jobs EXCEPT ![j] = new]
                    /\ jobWatch' = [jobWatch EXCEPT ![j] = Published(@, jobs[j], new)]

Call(next, vals) == pc' = next /\ locals' = vals /\ UNCHANGED <<queued, timers>>
Done == pc' = "idle" /\ locals' = NoLocals /\ UNCHANGED <<queued, timers>>
Retry == pc' = "idle" /\ locals' = NoLocals /\ queued' = queued \cup {locals.key} /\ UNCHANGED timers
ForgetTtl(uid) == Done           \* mutated form: an empty Result
RequeueAfterTtl(uid) == /\ pc' = "idle" /\ locals' = NoLocals /\ UNCHANGED queued
                        /\ timers' = timers \cup {<<locals.key, uid>>}

CompletedOnceStarted(task) ==    \* mutated form: Started counts as completed
    task.conds \cap {"Started", "Succeeded", "Failed"} # {}

Completed(task) == task.conds \cap {"Succeeded", "Failed"} # {}

-----------------------------------------------------------------------------
(* Reconcile *)

Dequeue ==
    /\ pc = "idle"
    /\ \E t \in queued : /\ queued' = queued \ {t}
                         /\ pc' = "getTask" /\ locals' = [NoLocals EXCEPT !.key = t]
    /\ UNCHANGED <<timers, storeVars, cacheVars, budgetVars>>

ReadFails ==
    /\ pc \in {"getTask", "getJob"}
    /\ "refused" \in Outcomes /\ Charge("refused") /\ Retry
    /\ UNCHANGED <<storeVars, cacheVars, made, restarts>>

GetTask ==
    /\ pc = "getTask"
    /\ LET task == taskCache[locals.key] IN
         CASE ~Exists(task) -> Done
           [] Exists(task) /\ Completed(task) /\ task.uid \in expired ->
                Call("deleteJob", [locals EXCEPT !.task = task])
           [] Exists(task) /\ Completed(task) /\ task.uid \notin expired -> Done
           [] OTHER -> Call("getJob", [locals EXCEPT !.task = task])
    /\ UNCHANGED <<storeVars, cacheVars, budgetVars>>

(* handleExpiredTask: whatever Job has the name is deleted *)
DeleteJob ==
    /\ pc = "deleteJob"
    /\ \E outcome \in Outcomes :
         /\ Charge(outcome)
         /\ WriteJob(JobName[locals.key], IF Reaches(outcome) THEN NoJob ELSE jobs[JobName[locals.key]])
         /\ IF outcome = "ok" THEN Done ELSE Retry
    /\ UNCHANGED <<tasks, pods, expired, runs, ended, taskCache, taskWatch, jobCache, made, restarts>>

GetJob ==
    /\ pc = "getJob"
    /\ LET job == jobCache[JobName[locals.key]] IN
         CASE ~Exists(job) -> Call("createJob", locals)
           [] job.phase = "failed" -> Call("readPods", [locals EXCEPT !.job = job])
           [] OTHER -> Call("patchTask", [locals EXCEPT !.job = job])
    /\ UNCHANGED <<storeVars, cacheVars, budgetVars>>

(* Converter.Convert and SetControllerReference *)
Converted == [uid |-> made.jobs + 1, key |-> locals.key, owner |-> locals.task.uid,
              phase |-> "created"]

(* Desire: unlike a StatefulSet, a Job that already exists is an error *)
CreateJob ==
    /\ pc = "createJob"
    /\ \E outcome \in Outcomes :
         LET j == JobName[locals.key]
             created == Reaches(outcome) /\ ~Exists(jobs[j])
         IN  /\ Charge(outcome)
             /\ WriteJob(j, IF created THEN Converted ELSE jobs[j])
             /\ pods' = IF created THEN [pods EXCEPT ![j] = "unfinished"] ELSE pods
             /\ made' = IF created THEN [made EXCEPT !.jobs = @ + 1] ELSE made
             /\ runs' = IF created THEN [runs EXCEPT ![locals.task.uid] = @ + 1] ELSE runs
             /\ IF created /\ outcome = "ok"
                THEN Call("patchTask", [locals EXCEPT !.job = Converted, !.desired = TRUE])
                ELSE Retry
    /\ UNCHANGED <<tasks, expired, ended, taskCache, taskWatch, jobCache, restarts>>

(* getFailedContainerStatus: exactly one pod, with a terminated container *)
ReadPods ==
    /\ pc = "readPods"
    /\ \E outcome \in {"ok", "refused"} \cap Outcomes :
         /\ Charge(outcome)
         /\ IF outcome = "ok" /\ pods[JobName[locals.key]] = "terminated"
            THEN Call("patchTask", locals) ELSE Retry
    /\ UNCHANGED <<storeVars, cacheVars, made, restarts>>

(* GetStatusConditions *)
StatusConditions(phase) ==
    {"Initialized"} \cup (IF phase # "created" THEN {"Started"} ELSE {})
                    \cup (IF phase = "succeeded" THEN {"Succeeded"} ELSE {})
                    \cup (IF phase = "failed" THEN {"Failed"} ELSE {})

(* A merge patch replaces the list of conditions as a whole, or not at all *)
(* when it is the list of the cached Task.                                 *)
Patched(stored) ==
    LET conds == locals.task.conds \cup StatusConditions(locals.job.phase)
    IN  IF conds = locals.task.conds THEN stored ELSE [stored EXCEPT !.conds = conds]

PatchTask ==
    /\ pc = "patchTask"
    /\ \E outcome \in Outcomes :
         LET stored == tasks[locals.key]
             new == IF Reaches(outcome) /\ Exists(stored) THEN Patched(stored) ELSE stored
         IN  /\ Charge(outcome)
             /\ WriteTask(locals.key, new)
             /\ CASE outcome # "ok" \/ ~Exists(stored) -> Retry
                  [] outcome = "ok" /\ Exists(stored) /\ Completed(new) /\ ~locals.desired ->
                       RequeueAfterTtl(new.uid)
                  [] OTHER -> Done
    /\ UNCHANGED <<jobs, pods, expired, runs, ended, taskCache, jobCache, jobWatch, made, restarts>>

-----------------------------------------------------------------------------
(* The environment *)

DeliverTask(t) ==
    /\ taskWatch[t] # <<>>
    /\ taskCache' = [taskCache EXCEPT ![t] = Head(taskWatch[t])]
    /\ taskWatch' = [taskWatch EXCEPT ![t] = Tail(@)]
    /\ queued' = queued \cup {t}
    /\ UNCHANGED <<jobCache, jobWatch, timers, pc, locals, storeVars, budgetVars>>

OwnersOfAny(objs) == {job.key : job \in objs}   \* mutated form: owner or not

Owners(objs) == {job.key : job \in {o \in objs : Exists(o)}}

DeliverJob(j) ==        \* Owns: a Job event enqueues its owner
    /\ jobWatch[j] # <<>>
    /\ jobCache' = [jobCache EXCEPT ![j] = Head(jobWatch[j])]
    /\ jobWatch' = [jobWatch EXCEPT ![j] = Tail(@)]
    /\ queued' = queued \cup Owners({jobCache[j], Head(jobWatch[j])})
    /\ UNCHANGED <<taskCache, taskWatch, timers, pc, locals, storeVars, budgetVars>>

(* LastTransitionTime is the completion time, which precedes the timer's start *)
TimerFires(t) ==
    /\ \E u \in Uids : /\ <<t, u>> \in timers /\ (u \in expired \/ tasks[t].uid # u)
                       /\ timers' = timers \ {<<t, u>>}
    /\ queued' = queued \cup {t}
    /\ UNCHANGED <<pc, locals, storeVars, cacheVars, budgetVars>>

TtlPasses(t) ==
    /\ Completed(tasks[t]) /\ tasks[t].uid \notin expired
    /\ expired' = expired \cup {tasks[t].uid}
    /\ UNCHANGED <<tasks, jobs, pods, runs, ended, cacheVars, workVars, budgetVars>>

UserCreates(t) ==
    /\ ~Exists(tasks[t]) /\ made.tasks < MaxTasks /\ (t \in made.names => NamesReused)
    /\ made' = [made EXCEPT !.tasks = @ + 1, !.names = @ \cup {t}]
    /\ WriteTask(t, [uid |-> made.tasks + 1, conds |-> {}])
    /\ UNCHANGED <<jobs, pods, expired, runs, ended, taskCache, jobCache, jobWatch, workVars,
                   faults, restarts>>

UserDeletes(t) ==
    /\ Exists(tasks[t])
    /\ WriteTask(t, NoTask)
    /\ UNCHANGED <<jobs, pods, expired, runs, ended, taskCache, jobCache, jobWatch, workVars, budgetVars>>

CollectJob(j) ==
    /\ Exists(jobs[j]) /\ \A t \in Tasks : tasks[t].uid # jobs[j].owner
    /\ made.jobs < MaxJobs
    /\ WriteJob(j, NoJob)
    /\ UNCHANGED <<tasks, pods, expired, runs, ended, taskCache, taskWatch, jobCache, workVars, budgetVars>>

JobStarts(j) ==
    /\ Exists(jobs[j]) /\ jobs[j].phase = "created"
    /\ WriteJob(j, [jobs[j] EXCEPT !.phase = "running"])
    /\ UNCHANGED <<tasks, pods, expired, runs, ended, taskCache, taskWatch, jobCache, workVars, budgetVars>>

JobEnds(j) ==
    /\ Exists(jobs[j]) /\ jobs[j].phase = "running"
    /\ \E end \in Ends : /\ WriteJob(j, [jobs[j] EXCEPT !.phase = end])
                         /\ ended' = ended \cup {<<jobs[j].owner, end>>}
    /\ UNCHANGED <<tasks, pods, expired, runs, taskCache, taskWatch, jobCache, workVars, budgetVars>>

PodSeenTerminated(j) ==
    /\ jobs[j].phase = "failed" /\ pods[j] = "unfinished"
    /\ pods' = [pods EXCEPT ![j] = "terminated"]
    /\ UNCHANGED <<tasks, jobs, expired, runs, ended, cacheVars, workVars, budgetVars>>

PodVanishes(j) ==
    /\ PodsVanish /\ pods[j] # "gone"
    /\ pods' = [pods EXCEPT ![j] = "gone"]
    /\ UNCHANGED <<tasks, jobs, expired, runs, ended, cacheVars, workVars, budgetVars>>

(* A crash or the loss of the leader lease: pending timers are gone. *)
Restart ==
    /\ restarts < MaxRestarts /\ restarts' = restarts + 1
    /\ \/ /\ taskCache' = tasks /\ taskWatch' = [t \in Tasks |-> <<>>]
          /\ jobCache' = jobs /\ jobWatch' = [j \in JobNames |-> <<>>]
       \/ UNCHANGED cacheVars
    /\ queued' = {t \in Tasks : Exists(taskCache'[t])} \cup Owners({jobCache'[j] : j \in JobNames})
    /\ timers' = {} /\ pc' = "idle" /\ locals' = NoLocals
    /\ UNCHANGED <<storeVars, made, faults>>

-----------------------------------------------------------------------------
Controller == \/ Dequeue \/ ReadFails \/ GetTask \/ DeleteJob \/ GetJob \/ CreateJob
              \/ ReadPods \/ PatchTask

Next ==
    \/ Controller
    \/ \E t \in Tasks : \/ DeliverTask(t) \/ TimerFires(t) \/ TtlPasses(t)
                        \/ UserCreates(t) \/ UserDeletes(t)
    \/ \E j \in JobNames : \/ DeliverJob(j) \/ CollectJob(j) \/ JobStarts(j) \/ JobEnds(j)
                           \/ PodSeenTerminated(j) \/ PodVanishes(j)
    \/ Restart

Spec == Init /\ [][Next]_vars

(* The worker works, informers deliver, time passes and timers fire. *)
Fairness ==
    /\ WF_vars(Controller)
    /\ \A t \in Tasks : WF_vars(DeliverTask(t)) /\ WF_vars(TimerFires(t)) /\ WF_vars(TtlPasses(t))
    /\ \A j \in JobNames : WF_vars(DeliverJob(j)) /\ WF_vars(PodSeenTerminated(j))

FairSpec == Spec /\ Fairness

-----------------------------------------------------------------------------
(* Properties *)

LiveUids == {tasks[t].uid : t \in Tasks} \ {0}
ConditionsOf(u) == UNION {tasks[t].conds : t \in {n \in Tasks : tasks[n].uid = u}}

Lifecycle == INSTANCE TaskLifecycle
             WITH live <- LiveUids,
                  kept <- {jobs[j].owner : j \in JobNames} \ {0},
                  reported <- [u \in Uids |-> ConditionsOf(u)]

(* The controller keeps the promise of TaskLifecycle through stale caches,    *)
(* failing calls, lost replies and restarts, when every Task has a Job name   *)
(* of its own: one Job per Task, true conditions that are never taken back,   *)
(* no Job removed before its outcome is in the Task.                          *)
ImplementsLifecycle == Lifecycle!Spec

(* A Task is marked Succeeded or Failed only when its own Job ended that way. *)
OutcomeIsItsOwn ==
    \A t \in Tasks :
        /\ "Succeeded" \in tasks[t].conds => <<tasks[t].uid, "succeeded">> \in ended
        /\ "Failed" \in tasks[t].conds => <<tasks[t].uid, "failed">> \in ended

(* A Task learns the outcome of its Job (updateTaskStatus).                   *)
OutcomeReported ==
    \A u \in Uids : (\E end \in Ends : <<u, end>> \in ended)
                        ~> (u \notin LiveUids \/ ConditionsOf(u) \cap {"Succeeded", "Failed"} # {})

(* What would make the controller look at a Task again, short of the periodic *)
(* resync of the informers.                                                   *)
Attended(t) ==
    \/ t \in queued \/ locals.key = t
    \/ taskWatch[t] # <<>> \/ jobWatch[JobName[t]] # <<>>
    \/ \E u \in Uids : <<t, u>> \in timers

(* The TTL is the number of seconds Eirini will wait before deleting the Job  *)
(* of a completed Task (controller-configmap.yml): once it has passed, the    *)
(* Job is gone or the Task is about to be looked at.                          *)
TtlKept ==
    \A t \in Tasks :
        Completed(tasks[t]) /\ tasks[t].uid \in expired /\ jobs[JobName[t]].owner = tasks[t].uid
            => Attended(t)

(* The Job of a completed Task is deleted once the TTL has passed             *)
(* (RequeueAfter, handleExpiredTask).                                         *)
JobRemovedAfterTtl ==
    \A t \in Tasks : (Exists(tasks[t]) /\ Completed(tasks[t]))
                        ~> (~Exists(tasks[t]) \/ ~Exists(jobs[JobName[t]]))
=============================================================================
