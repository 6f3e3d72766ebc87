----------------------------- MODULE TaskProofs -----------------------------
(***************************************************************************)
(* Theorems about the Task controller, for every value of the constants:   *)
(* its type correctness, and that it implements TaskLifecycle.             *)
(***************************************************************************)
EXTENDS Task, InformerProofs

-----------------------------------------------------------------------------
TaskOrder == {p \in TaskObjects \X TaskObjects :
                Exists(p[1]) /\ Exists(p[2]) => p[1].conds \subseteq p[2].conds}
JobOrder == {p \in JobObjects \X JobObjects :
                Exists(p[1]) /\ Exists(p[2]) =>
                    StatusConditions(p[1].phase) \subseteq StatusConditions(p[2].phase)}

TaskCopies(t) == Copies(taskCache[t], taskWatch[t]) \cup {tasks[t]}
JobCopies(t) == Copies(jobCache[JobName[t]], jobWatch[JobName[t]]) \cup {jobs[JobName[t]]}

-----------------------------------------------------------------------------
(* The invariant *)

Working(t, calls) == pc \in calls /\ locals.key = t
PastGetTask == {"deleteJob", "getJob", "createJob", "readPods", "patchTask"}

(* What the worker holds between two calls. *)
Held ==
    /\ pc # "idle" => locals.key \in Tasks
    /\ pc \in PastGetTask => Exists(locals.task)

(* A name stands for one Task, all copies of the Task and of its Job are that *)
(* Task's, and a Task to come has left no trace.                              *)
Identifies(id) ==
    /\ \A t \in Tasks : id[t] <= made.tasks /\ (id[t] # 0 => t \in made.names)
    /\ \A t1, t2 \in Tasks : id[t1] = id[t2] /\ id[t1] # 0 => t1 = t2
    /\ \A t \in Tasks : \A x \in TaskCopies(t) : Exists(x) => x.uid = id[t]
    /\ \A t \in Tasks : \A x \in JobCopies(t) : Exists(x) => x.owner = id[t] /\ id[t] # 0
    /\ \A j \in JobNames : Exists(jobs[j]) => \E t \in Tasks : j = JobName[t]
    /\ pc \in PastGetTask => locals.task.uid = id[locals.key]

Identified ==
    /\ \E id \in [Tasks -> Nat] : Identifies(id)
    /\ \A u \in Uids : u > made.tasks => runs[u] = 0
    /\ \A u \in Uids : runs[u] = 0 => \A end \in Ends : <<u, end>> \notin ended
    /\ \A j \in JobNames : Exists(jobs[j]) => runs[jobs[j].owner] # 0

TasksOrdered ==
    /\ \A t \in Tasks : InOrder(TaskOrder, taskCache[t], taskWatch[t], tasks[t])
    /\ \A t \in Tasks : Working(t, PastGetTask) =>
         \A x \in TaskCopies(t) : <<locals.task, x>> \in TaskOrder

(* What a Task shows, and will show when the worker is done with a copy of its *)
(* Job, is true and is no less than it has shown.                              *)
Backed(t, job) ==
    /\ runs[tasks[t].uid] # 0
    /\ job.phase \in Ends => <<tasks[t].uid, job.phase>> \in ended
    /\ tasks[t].conds \subseteq StatusConditions(job.phase)

(* The Job is gone because everybody knows, or will know, of its outcome. *)
Removed(t) ==
    /\ \A x \in TaskCopies(t) : Exists(x) => Completed(x)
    /\ ~Working(t, {"getJob", "createJob"})

Faithful(t) ==
    LET u == tasks[t].uid
        job == jobs[JobName[t]]
    IN  /\ runs[u] # 0 => Exists(job) \/ Removed(t)
        /\ Exists(job) => \A end \in Ends : <<u, end>> \in ended => job.phase = end
        /\ \A x \in JobCopies(t) : Exists(x) => Backed(t, x)
        /\ InOrder(JobOrder, jobCache[JobName[t]], jobWatch[JobName[t]], job)
        /\ tasks[t].conds \subseteq Lifecycle!True(u)
        /\ Working(t, {"readPods", "patchTask"}) =>
             /\ Exists(locals.job) /\ Backed(t, locals.job)
             /\ \A x \in JobCopies(t) : <<locals.job, x>> \in JobOrder
        /\ Working(t, {"deleteJob"}) =>
             \A x \in TaskCopies(t) \cup {locals.task} : Exists(x) => Completed(x)

AllFaithful == \A t \in Tasks : Exists(tasks[t]) => Faithful(t)

IInv == TypeOK /\ Held /\ Identified /\ TasksOrdered /\ AllFaithful

-----------------------------------------------------------------------------
(* Type correctness *)

LEMMA NoObjects ==
    /\ NoTask \in TaskObjects /\ NoJob \in JobObjects /\ ~Exists(NoTask) /\ ~Exists(NoJob)
    /\ NoTask.conds = {} /\ NoJob.phase = "created"
    /\ NoLocals \in [key : Tasks \cup {""}, task : TaskObjects, job : JobObjects, desired : BOOLEAN]
<1>1. NoTask \in TaskObjects /\ NoJob \in JobObjects
  BY DEF TaskObjects, JobObjects
<1> QED BY <1>1 DEF NoTask, NoJob, NoLocals, Exists

LEMMA ObjectTypes ==
    /\ \A x \in TaskObjects : x.conds \subseteq Conditions /\ (Exists(x) <=> x.uid \in Uids)
    /\ \A x \in JobObjects : x.phase \in Phases /\ (Exists(x) => x.key \in Tasks /\ x.owner \in Uids)
    /\ \A x \in JobObjects, phase \in Phases :
         Exists(x) => LET new == [x EXCEPT !.phase = phase]
                      IN  new \in JobObjects /\ new.phase = phase /\ new.uid = x.uid /\ new.owner = x.owner /\ new.key = x.key
    /\ \A x \in TaskObjects, conds \in SUBSET Conditions :
         Exists(x) => LET new == [x EXCEPT !.conds = conds]
                      IN  new \in TaskObjects /\ new.conds = conds /\ new.uid = x.uid
    /\ \A uid \in Nat \ {0}, key \in Tasks, owner \in Uids, phase \in Phases :
         [uid |-> uid, key |-> key, owner |-> owner, phase |-> phase] \in JobObjects
    /\ \A uid \in Uids : [uid |-> uid, conds |-> {}] \in TaskObjects
<1> DEFINE Real == [uid : Nat \ {0}, key : Tasks, owner : Uids, phase : Phases]
           RealTask == [uid : Uids, conds : SUBSET Conditions]
<1>1. \A x \in JobObjects : x = NoJob \/ x \in Real
  BY DEF JobObjects
<1>2. \A x \in TaskObjects : x = NoTask \/ x \in RealTask
  BY DEF TaskObjects
<1>3. Real \subseteq JobObjects /\ RealTask \subseteq TaskObjects
  BY DEF JobObjects, TaskObjects
<1>4. \A x \in Real : x.phase \in Phases /\ x.key \in Tasks /\ x.owner \in Uids
  OBVIOUS
<1>5. \A x \in RealTask : x.conds \subseteq Conditions /\ x.uid \in Uids
  OBVIOUS
<1>6. \A x \in Real, phase \in Phases :
        LET new == [x EXCEPT !.phase = phase]
        IN  new \in Real /\ new.phase = phase /\ new.uid = x.uid /\ new.owner = x.owner /\ new.key = x.key
  OBVIOUS
<1>7. \A x \in RealTask, conds \in SUBSET Conditions :
        LET new == [x EXCEPT !.conds = conds]
        IN  new \in RealTask /\ new.conds = conds /\ new.uid = x.uid
  OBVIOUS
<1>8. \A uid \in Nat \ {0}, key \in Tasks, owner \in Uids, phase \in Phases :
        [uid |-> uid, key |-> key, owner |-> owner, phase |-> phase] \in Real
  OBVIOUS
<1>9. 0 \notin Uids /\ NoTask.uid = 0 /\ "created" \in Phases
  BY DEF Uids, NoTask, Phases
<1>a. \A uid \in Uids : [uid |-> uid, conds |-> {}] \in RealTask
  OBVIOUS
<1> HIDE DEF Real, RealTask
<1>10. \A x \in TaskObjects : x.conds \subseteq Conditions /\ (Exists(x) <=> x.uid \in Uids)
  BY <1>2, <1>5, <1>9, NoObjects DEF Exists
<1>11. \A x \in JobObjects : x.phase \in Phases /\ (Exists(x) => x.key \in Tasks /\ x.owner \in Uids)
  BY <1>1, <1>4, <1>9, NoObjects
<1>12. \A x \in JobObjects, phase \in Phases :
         Exists(x) => LET new == [x EXCEPT !.phase = phase]
                      IN  new \in JobObjects /\ new.phase = phase /\ new.uid = x.uid /\ new.owner = x.owner /\ new.key = x.key
  <2> TAKE x \in JobObjects, phase \in Phases
  <2>1. Exists(x) => x \in Real
    BY <1>1, NoObjects
  <2> QED BY <2>1, <1>3, <1>6
<1>13. \A x \in TaskObjects, conds \in SUBSET Conditions :
         Exists(x) => LET new == [x EXCEPT !.conds = conds]
                      IN  new \in TaskObjects /\ new.conds = conds /\ new.uid = x.uid
  BY <1>2, <1>3, <1>7, NoObjects
<1> QED BY <1>3, <1>8, <1>a, <1>10, <1>11, <1>12, <1>13

LEMMA Absent ==
    /\ \A x \in TaskObjects : ~Exists(x) => x = NoTask
    /\ \A x \in JobObjects : ~Exists(x) => x = NoJob
<1>1. \A x \in [uid : Uids, conds : SUBSET Conditions] : Exists(x)
  BY DEF Exists, Uids
<1>2. \A x \in [uid : Nat \ {0}, key : Tasks, owner : Uids, phase : Phases] : Exists(x)
  BY DEF Exists
<1> QED BY <1>1, <1>2 DEF TaskObjects, JobObjects

LEMMA FieldTypes ==
    ASSUME TypeOK
    PROVE  /\ locals.task \in TaskObjects /\ locals.job \in JobObjects
           /\ locals.key \in Tasks \cup {""} /\ locals.desired \in BOOLEAN
           /\ made.tasks \in Nat /\ made.jobs \in Nat /\ made.names \subseteq Tasks
           /\ \A x \in TaskObjects : x.conds \subseteq Conditions /\ (Exists(x) <=> x.uid \in Uids)
           /\ \A x \in JobObjects : x.phase \in Phases /\ (Exists(x) => x.key \in Tasks /\ x.owner \in Uids)
           /\ \A t \in Tasks : /\ tasks[t] \in TaskObjects /\ taskCache[t] \in TaskObjects
                              /\ taskWatch[t] \in Seq(TaskObjects) /\ JobName[t] \in JobNames
           /\ \A j \in JobNames : /\ jobs[j] \in JobObjects /\ jobCache[j] \in JobObjects
                                 /\ jobWatch[j] \in Seq(JobObjects)
<1>1. /\ locals.task \in TaskObjects /\ locals.job \in JobObjects
      /\ locals.key \in Tasks \cup {""} /\ locals.desired \in BOOLEAN
      /\ made.tasks \in Nat /\ made.jobs \in Nat /\ made.names \subseteq Tasks
  BY DEF TypeOK
<1>2. \A x \in TaskObjects : x.conds \subseteq Conditions /\ (Exists(x) <=> x.uid \in Uids)
  BY ObjectTypes
<1>3. \A x \in JobObjects : x.phase \in Phases /\ (Exists(x) => x.key \in Tasks /\ x.owner \in Uids)
  BY ObjectTypes
<1>4. \A t \in Tasks : JobName[t] \in JobNames
  BY JobNameAssumption
<1>5. \A t \in Tasks : /\ tasks[t] \in TaskObjects /\ taskCache[t] \in TaskObjects
                       /\ taskWatch[t] \in Seq(TaskObjects)
  BY DEF TypeOK
<1>6. \A j \in JobNames : /\ jobs[j] \in JobObjects /\ jobCache[j] \in JobObjects
                          /\ jobWatch[j] \in Seq(JobObjects)
  BY DEF TypeOK
<1> QED BY <1>1, <1>2, <1>3, <1>4, <1>5, <1>6

(* What a write does to a Task, to a Job, and to the copies of them. *)
LEMMA TaskWritten ==
    ASSUME TypeOK, NEW t \in Tasks, NEW new \in TaskObjects, WriteTask(t, new)
    PROVE  /\ tasks' \in [Tasks -> TaskObjects]
           /\ taskWatch' \in [Tasks -> Seq(TaskObjects)]
           /\ tasks'[t] = new /\ taskWatch'[t] = Published(taskWatch[t], tasks[t], new)
           /\ \A n \in Tasks \ {t} : tasks'[n] = tasks[n] /\ taskWatch'[n] = taskWatch[n]
<1>1. /\ tasks[t] \in TaskObjects /\ taskCache[t] \in TaskObjects
      /\ taskWatch[t] \in Seq(TaskObjects)
  BY FieldTypes
<1>2. Published(taskWatch[t], tasks[t], new) \in Seq(TaskObjects)
  BY <1>1, CopiesWritten
<1> QED BY <1>2 DEF TypeOK, WriteTask

LEMMA JobWritten ==
    ASSUME TypeOK, NEW j \in JobNames, NEW new \in JobObjects, WriteJob(j, new)
    PROVE  /\ jobs' \in [JobNames -> JobObjects]
           /\ jobWatch' \in [JobNames -> Seq(JobObjects)]
           /\ jobs'[j] = new /\ jobWatch'[j] = Published(jobWatch[j], jobs[j], new)
           /\ \A n \in JobNames \ {j} : jobs'[n] = jobs[n] /\ jobWatch'[n] = jobWatch[n]
<1>1. /\ jobs[j] \in JobObjects /\ jobCache[j] \in JobObjects
      /\ jobWatch[j] \in Seq(JobObjects)
  BY FieldTypes
<1>2. Published(jobWatch[j], jobs[j], new) \in Seq(JobObjects)
  BY <1>1, CopiesWritten
<1> QED BY <1>2 DEF TypeOK, WriteJob

LEMMA PatchedType ==
    ASSUME TypeOK, NEW stored \in TaskObjects, Exists(stored)
    PROVE  Patched(stored) \in TaskObjects /\ Patched(stored).uid = stored.uid
<1> DEFINE conds == locals.task.conds \cup StatusConditions(locals.job.phase)
<1>1. conds \subseteq Conditions
  BY FieldTypes DEF StatusConditions, Conditions
<1> HIDE DEF conds
<1> QED BY <1>1, ObjectTypes DEF Patched, conds

(* The types by what changes together. *)
StoreTypes ==
    /\ tasks \in [Tasks -> TaskObjects] /\ taskWatch \in [Tasks -> Seq(TaskObjects)]
    /\ jobs \in [JobNames -> JobObjects] /\ jobWatch \in [JobNames -> Seq(JobObjects)]
CacheTypes == taskCache \in [Tasks -> TaskObjects] /\ jobCache \in [JobNames -> JobObjects]
Locals == [key : Tasks \cup {""}, task : TaskObjects, job : JobObjects, desired : BOOLEAN]
WorkTypes ==
    /\ queued \subseteq Tasks /\ timers \subseteq Tasks \X Uids
    /\ pc \in {"idle", "getTask"} \cup PastGetTask
    /\ locals \in Locals
HistoryTypes ==
    /\ pods \in [JobNames -> {"unfinished", "terminated", "gone"}]
    /\ expired \subseteq Uids /\ runs \in [Uids -> Nat] /\ ended \subseteq Uids \X Ends
    /\ made \in [tasks : Nat, names : SUBSET Tasks, jobs : Nat] /\ faults \in Nat /\ restarts \in Nat

LEMMA TypeParts == TypeOK <=> StoreTypes /\ CacheTypes /\ WorkTypes /\ HistoryTypes
BY DEF TypeOK, StoreTypes, CacheTypes, WorkTypes, HistoryTypes, Locals, PastGetTask

LEMMA TypePartsNext == TypeOK' <=> StoreTypes' /\ CacheTypes' /\ WorkTypes' /\ HistoryTypes'
BY DEF TypeOK, StoreTypes, CacheTypes, WorkTypes, HistoryTypes, Locals, PastGetTask

(* What the worker goes on with. *)
LEMMA CallTypes ==
    ASSUME WorkTypes, NEW next \in PastGetTask, NEW vals \in Locals, Call(next, vals)
    PROVE  WorkTypes'
BY DEF Call, WorkTypes

LEMMA EndTypes ==
    ASSUME WorkTypes, pc # "idle" => locals.key \in Tasks, pc # "idle",
           \/ Done \/ Retry
           \/ \E uid \in Uids : RequeueAfterTtl(uid)
    PROVE  WorkTypes'
<1>1. NoLocals \in Locals
  BY NoObjects DEF Locals
<1> QED BY <1>1 DEF Done, Retry, RequeueAfterTtl, WorkTypes

LEMMA TypeInductive ==
    ASSUME TypeOK, Held, [Next]_vars
    PROVE  TypeOK'
<1> USE DEF storeVars, cacheVars, workVars, budgetVars
<1>a. StoreTypes /\ CacheTypes /\ WorkTypes /\ HistoryTypes
  BY TypeParts
<1>b. SUFFICES StoreTypes' /\ CacheTypes' /\ WorkTypes' /\ HistoryTypes'
  BY TypePartsNext
<1>c. pc # "idle" => locals.key \in Tasks /\ JobName[locals.key] \in JobNames
  BY FieldTypes DEF Held
<1>d. locals \in Locals /\ NoLocals \in Locals
  BY <1>a, NoObjects DEF WorkTypes, Locals
<1>e. UNCHANGED <<tasks, taskWatch, jobs, jobWatch>> => StoreTypes'
  BY <1>a DEF StoreTypes
<1>f. UNCHANGED <<taskCache, jobCache>> => CacheTypes'
  BY <1>a DEF CacheTypes
<1>g. ASSUME UNCHANGED <<pods, expired, runs, ended, made>>,
             UNCHANGED faults \/ (\E outcome : Charge(outcome)), UNCHANGED restarts
      PROVE  HistoryTypes'
  BY <1>a, <1>g DEF HistoryTypes, Charge
<1>1. CASE Dequeue
  <2>1. PICK t \in queued : /\ queued' = queued \ {t}
                           /\ pc' = "getTask" /\ locals' = [NoLocals EXCEPT !.key = t]
    BY <1>1 DEF Dequeue
  <2>2. locals' \in Locals
    BY <1>a, <1>d, <2>1 DEF Locals, WorkTypes
  <2>3. WorkTypes'
    BY <1>1, <1>a, <2>1, <2>2 DEF Dequeue, WorkTypes
  <2> QED BY <1>1, <1>e, <1>f, <1>g, <2>3 DEF Dequeue
<1>2. CASE ReadFails
  <2>1. WorkTypes'
    BY <1>2, <1>a, <1>c, EndTypes DEF ReadFails
  <2> QED BY <1>2, <1>e, <1>f, <1>g, <2>1 DEF ReadFails
<1>3. CASE GetTask
  <2>1. [locals EXCEPT !.task = taskCache[locals.key]] \in Locals
    BY <1>3, <1>c, <1>d, FieldTypes DEF GetTask, Locals
  <2>2. WorkTypes'
    BY <1>3, <1>a, <1>c, <2>1, EndTypes, CallTypes DEF GetTask, PastGetTask
  <2> QED BY <1>3, <1>e, <1>f, <1>g, <2>2 DEF GetTask
<1>4. CASE DeleteJob
  <2>1. PICK outcome \in Outcomes :
          /\ Charge(outcome)
          /\ WriteJob(JobName[locals.key], IF Reaches(outcome) THEN NoJob ELSE jobs[JobName[locals.key]])
          /\ IF outcome = "ok" THEN Done ELSE Retry
    BY <1>4 DEF DeleteJob
  <2>2. pc # "idle"
    BY <1>4 DEF DeleteJob
  <2>3. (IF Reaches(outcome) THEN NoJob ELSE jobs[JobName[locals.key]]) \in JobObjects
    BY <1>c, <2>2, FieldTypes, NoObjects
  <2>4. jobs' \in [JobNames -> JobObjects] /\ jobWatch' \in [JobNames -> Seq(JobObjects)]
    BY <1>c, <2>1, <2>2, <2>3, JobWritten
  <2>5. WorkTypes'
    BY <1>a, <1>c, <2>1, <2>2, EndTypes
  <2> QED BY <1>4, <1>a, <1>f, <1>g, <2>1, <2>4, <2>5 DEF DeleteJob, StoreTypes
<1>5. CASE GetJob
  <2>1. [locals EXCEPT !.job = jobCache[JobName[locals.key]]] \in Locals
    BY <1>5, <1>c, <1>d, FieldTypes DEF GetJob, Locals
  <2>2. WorkTypes'
    BY <1>5, <1>a, <1>d, <2>1, CallTypes DEF GetJob, PastGetTask
  <2> QED BY <1>5, <1>e, <1>f, <1>g, <2>2 DEF GetJob
<1>6. CASE CreateJob
  <2>1. PICK outcome \in Outcomes :
          LET j == JobName[locals.key]
              created == Reaches(outcome) /\ ~Exists(jobs[j])
          IN  /\ Charge(outcome)
              /\ WriteJob(j, IF created THEN Converted ELSE jobs[j])
              /\ pods' = IF created THEN [pods EXCEPT ![j] = "unfinished"] ELSE pods
              /\ made' = IF created THEN [made EXCEPT !.jobs = @ + 1] ELSE made
              /\ runs' = IF created THEN [runs EXCEPT ![locals.task.uid] = @ + 1] ELSE runs
              /\ IF created /\ outcome = "ok"
                 THEN Call("patchTask", [locals EXCEPT !.job = Converted, !.desired = TRUE])
                 ELSE Retry
    BY <1>6 DEF CreateJob
  <2> DEFINE j == JobName[locals.key]
             created == Reaches(outcome) /\ ~Exists(jobs[j])
  <2>2. pc # "idle" /\ locals.key \in Tasks /\ j \in JobNames
    BY <1>6, <1>c DEF CreateJob
  <2>3. Converted \in JobObjects
    <3>1. Exists(locals.task)
      BY <1>6 DEF CreateJob, Held, PastGetTask
    <3>2. locals.task.uid \in Uids
      BY <3>1, FieldTypes
    <3>3. made.jobs \in Nat
      BY FieldTypes
    <3>4. made.jobs + 1 \in Nat \ {0} /\ "created" \in Phases
      BY <3>3 DEF Phases
    <3> QED BY <2>2, <3>2, <3>4, ObjectTypes DEF Converted
  <2>4. jobs' \in [JobNames -> JobObjects] /\ jobWatch' \in [JobNames -> Seq(JobObjects)]
    <3>1. (IF created THEN Converted ELSE jobs[j]) \in JobObjects
      BY <2>2, <2>3, FieldTypes
    <3> QED BY <2>1, <2>2, <3>1, JobWritten
  <2>5. HistoryTypes'
    <3>1. /\ pods' \in [JobNames -> {"unfinished", "terminated", "gone"}]
          /\ runs' \in [Uids -> Nat]
      <4>1. /\ pods' = pods \/ pods' = [pods EXCEPT ![j] = "unfinished"]
            /\ runs' = runs \/ runs' = [runs EXCEPT ![locals.task.uid] = @ + 1]
        BY <2>1
      <4>2. pods' \in [JobNames -> {"unfinished", "terminated", "gone"}]
        BY <1>a, <4>1 DEF HistoryTypes
      <4>3. runs' \in [Uids -> Nat]
        BY <1>a, <4>1 DEF HistoryTypes
      <4> QED BY <4>2, <4>3
    <3>2. made' \in [tasks : Nat, names : SUBSET Tasks, jobs : Nat]
      BY <1>a, <2>1 DEF HistoryTypes
    <3>3. faults' \in Nat
      BY <1>a, <2>1 DEF HistoryTypes, Charge
    <3> QED BY <1>6, <1>a, <3>1, <3>2, <3>3 DEF CreateJob, HistoryTypes
  <2>6. WorkTypes'
    <3> HIDE DEF Converted
    <3>1. [locals EXCEPT !.job = Converted, !.desired = TRUE] \in Locals
      BY <1>d, <2>3 DEF Locals
    <3> QED BY <1>a, <1>c, <2>1, <2>2, <3>1, EndTypes, CallTypes DEF PastGetTask
  <2> QED BY <1>6, <1>a, <1>f, <2>4, <2>5, <2>6 DEF CreateJob, StoreTypes
<1>7. CASE ReadPods
  <2>1. PICK outcome \in {"ok", "refused"} \cap Outcomes :
          /\ Charge(outcome)
          /\ Call("patchTask", locals) \/ Retry
    BY <1>7 DEF ReadPods
  <2>2. pc # "idle"
    BY <1>7 DEF ReadPods
  <2>3. WorkTypes'
    BY <1>a, <1>c, <1>d, <2>1, <2>2, EndTypes, CallTypes DEF PastGetTask
  <2> QED BY <1>7, <1>e, <1>f, <1>g, <2>1, <2>3 DEF ReadPods
<1>8. CASE PatchTask
  <2>1. PICK outcome \in Outcomes :
          LET stored == tasks[locals.key]
              new == IF Reaches(outcome) /\ Exists(stored) THEN Patched(stored) ELSE stored
          IN  /\ Charge(outcome)
              /\ WriteTask(locals.key, new)
              /\ CASE outcome # "ok" \/ ~Exists(stored) -> Retry
                   [] outcome = "ok" /\ Exists(stored) /\ Completed(new) /\ ~locals.desired ->
                        RequeueAfterTtl(new.uid)
                   [] OTHER -> Done
    BY <1>8 DEF PatchTask
  <2> DEFINE stored == tasks[locals.key]
             new == IF Reaches(outcome) /\ Exists(stored) THEN Patched(stored) ELSE stored
  <2>2. pc # "idle" /\ locals.key \in Tasks /\ stored \in TaskObjects
    BY <1>8, <1>c, FieldTypes DEF PatchTask
  <2>3. new \in TaskObjects /\ new.uid = stored.uid
    BY <2>2, PatchedType
  <2>4. tasks' \in [Tasks -> TaskObjects] /\ taskWatch' \in [Tasks -> Seq(TaskObjects)]
    BY <2>1, <2>2, <2>3, TaskWritten
  <2>5. Exists(stored) => new.uid \in Uids
    BY <2>2, <2>3, FieldTypes DEF Exists
  <2>6. \/ Done \/ Retry
        \/ \E uid \in Uids : RequeueAfterTtl(uid)
    BY <2>1, <2>5
  <2>7. WorkTypes'
    BY <1>a, <1>c, <2>2, <2>6, EndTypes
  <2> QED BY <1>8, <1>a, <1>f, <1>g, <2>1, <2>4, <2>7 DEF PatchTask, StoreTypes
<1>9. ASSUME NEW t \in Tasks, DeliverTask(t) PROVE TypeOK'
  <2>1. Head(taskWatch[t]) \in TaskObjects /\ Tail(taskWatch[t]) \in Seq(TaskObjects)
    BY <1>9, FieldTypes, Delivered DEF DeliverTask
  <2>2. StoreTypes' /\ CacheTypes' /\ WorkTypes'
    BY <1>9, <1>a, <2>1 DEF DeliverTask, StoreTypes, CacheTypes, WorkTypes
  <2> QED BY <1>9, <1>g, <2>2, TypePartsNext DEF DeliverTask
<1>10. ASSUME NEW j \in JobNames, DeliverJob(j) PROVE TypeOK'
  <2>1. Head(jobWatch[j]) \in JobObjects /\ Tail(jobWatch[j]) \in Seq(JobObjects)
    BY <1>10, FieldTypes, Delivered DEF DeliverJob
  <2>2. queued' \subseteq Tasks
    BY <1>10, <1>a, <2>1, FieldTypes DEF DeliverJob, Owners, WorkTypes
  <2>3. StoreTypes' /\ CacheTypes' /\ WorkTypes'
    BY <1>10, <1>a, <2>1, <2>2 DEF DeliverJob, StoreTypes, CacheTypes, WorkTypes
  <2> QED BY <1>10, <1>g, <2>3, TypePartsNext DEF DeliverJob
<1>11. ASSUME NEW t \in Tasks, UserCreates(t) \/ UserDeletes(t) PROVE TypeOK'
  <2>1. PICK new \in TaskObjects : WriteTask(t, new)
    <3>1. UserCreates(t) => made.tasks + 1 \in Uids
      <4>1. made.tasks \in Nat /\ MaxTasks \in Nat
        BY BoundsAssumption, FieldTypes
      <4> QED BY <4>1 DEF UserCreates, Uids
    <3> QED BY <1>11, <3>1, ObjectTypes, NoObjects DEF UserCreates, UserDeletes
  <2>2. tasks' \in [Tasks -> TaskObjects] /\ taskWatch' \in [Tasks -> Seq(TaskObjects)]
    BY <2>1, TaskWritten
  <2>3. HistoryTypes'
    <3>1. made' \in [tasks : Nat, names : SUBSET Tasks, jobs : Nat]
      <4>1. \/ made' = made
            \/ made' = [made EXCEPT !.tasks = @ + 1, !.names = @ \cup {t}]
        BY <1>11 DEF UserCreates, UserDeletes
      <4>2. /\ made \in [tasks : Nat, names : SUBSET Tasks, jobs : Nat]
            /\ made.tasks + 1 \in Nat /\ (made.names \cup {t}) \in SUBSET Tasks
        BY <1>a DEF HistoryTypes
      <4> QED BY <4>1, <4>2
    <3> QED BY <1>11, <1>a, <3>1 DEF UserCreates, UserDeletes, HistoryTypes
  <2> QED BY <1>11, <1>a, <1>f, <2>2, <2>3, TypePartsNext
          DEF UserCreates, UserDeletes, StoreTypes, WorkTypes
<1>12. ASSUME NEW j \in JobNames, CollectJob(j) \/ JobStarts(j) \/ JobEnds(j) PROVE TypeOK'
  <2>1. PICK new \in JobObjects : WriteJob(j, new)
    <3>1. Exists(jobs[j]) => \A phase \in Phases : [jobs[j] EXCEPT !.phase = phase] \in JobObjects
      BY FieldTypes, ObjectTypes
    <3> QED BY <1>12, <3>1, NoObjects DEF CollectJob, JobStarts, JobEnds, Phases, Ends
  <2>2. jobs' \in [JobNames -> JobObjects] /\ jobWatch' \in [JobNames -> Seq(JobObjects)]
    BY <2>1, JobWritten
  <2>3. HistoryTypes'
    <3>1. ended' \subseteq Uids \X Ends
      <4>1. Exists(jobs[j]) => jobs[j].owner \in Uids
        BY FieldTypes
      <4>2. \/ ended' = ended
            \/ \E end \in Ends : Exists(jobs[j]) /\ ended' = ended \cup {<<jobs[j].owner, end>>}
        BY <1>12 DEF CollectJob, JobStarts, JobEnds
      <4> QED BY <1>a, <4>1, <4>2 DEF HistoryTypes
    <3> QED BY <1>12, <1>a, <3>1 DEF CollectJob, JobStarts, JobEnds, HistoryTypes
  <2> QED BY <1>12, <1>a, <1>f, <2>2, <2>3, TypePartsNext
          DEF CollectJob, JobStarts, JobEnds, StoreTypes, WorkTypes
<1>13. ASSUME NEW t \in Tasks, TimerFires(t) \/ TtlPasses(t) PROVE TypeOK'
  <2>1. Completed(tasks[t]) => tasks[t].uid \in Uids
    BY FieldTypes, NoObjects DEF Completed, TaskObjects
  <2> QED BY <1>13, <1>a, <1>e, <1>f, <2>1, TypePartsNext DEF TimerFires, TtlPasses, WorkTypes, HistoryTypes
<1>14. ASSUME NEW j \in JobNames, PodSeenTerminated(j) \/ PodVanishes(j) PROVE TypeOK'
  BY <1>14, <1>a, <1>e, <1>f, TypePartsNext DEF PodSeenTerminated, PodVanishes, WorkTypes, HistoryTypes
<1>15. CASE Restart
  <2>1. CacheTypes' /\ StoreTypes'
    <3>1. CASE UNCHANGED cacheVars
      BY <1>15, <1>a, <3>1 DEF Restart, CacheTypes, StoreTypes
    <3>2. CASE /\ taskCache' = tasks /\ taskWatch' = [t \in Tasks |-> <<>>]
               /\ jobCache' = jobs /\ jobWatch' = [j \in JobNames |-> <<>>]
      <4>1. \A S : <<>> \in Seq(S)
        BY EmptySeq
      <4>2. /\ taskWatch' \in [Tasks -> Seq(TaskObjects)] /\ jobWatch' \in [JobNames -> Seq(JobObjects)]
        BY <3>2, <4>1
      <4> QED BY <1>15, <1>a, <3>2, <4>2 DEF Restart, CacheTypes, StoreTypes
    <3> QED BY <1>15, <3>1, <3>2 DEF Restart
  <2>2. \A j \in JobNames : jobCache'[j] \in JobObjects
    BY <2>1 DEF CacheTypes
  <2>3. queued' \subseteq Tasks
    BY <1>15, <2>2, FieldTypes DEF Restart, Owners
  <2>4. WorkTypes'
    BY <1>15, <1>d, <2>3 DEF Restart, WorkTypes
  <2>5. HistoryTypes'
    BY <1>15, <1>a DEF Restart, HistoryTypes
  <2> QED BY <2>1, <2>4, <2>5
<1>16. CASE UNCHANGED vars
  BY <1>16, <1>a, TypePartsNext DEF vars, StoreTypes, CacheTypes, WorkTypes, HistoryTypes
<1> QED BY <1>1, <1>2, <1>3, <1>4, <1>5, <1>6, <1>7, <1>8, <1>9, <1>10, <1>11, <1>12, <1>13, <1>14,
           <1>15, <1>16, TypePartsNext DEF Next, Controller

LEMMA HeldInductive ==
    ASSUME TypeOK, Held, [Next]_vars
    PROVE  Held'
<1> USE DEF Held, PastGetTask, storeVars, cacheVars, workVars, budgetVars
<1>1. CASE Dequeue
  BY <1>1, FieldTypes DEF Dequeue, NoLocals, TypeOK
<1>2. CASE GetTask
  BY <1>2, FieldTypes DEF GetTask, Call, Done, NoLocals, TypeOK
<1>3. CASE GetJob \/ CreateJob \/ ReadPods
  <2>1. \/ pc' = "idle"
        \/ /\ pc' \in PastGetTask /\ pc \in PastGetTask
           /\ locals'.key = locals.key /\ locals'.task = locals.task
    <3> HIDE DEF Converted
    <3> QED BY <1>3, FieldTypes DEF GetJob, CreateJob, ReadPods, Call, Retry, TypeOK
  <2> QED BY <2>1
<1>4. CASE ReadFails \/ DeleteJob \/ PatchTask \/ Restart
  BY <1>4 DEF ReadFails, DeleteJob, PatchTask, Restart, Retry, Done, RequeueAfterTtl
<1>5. CASE UNCHANGED <<pc, locals>>
  BY <1>5
<1>6. ASSUME NEW t \in Tasks, \/ DeliverTask(t) \/ TimerFires(t) \/ TtlPasses(t)
                             \/ UserCreates(t) \/ UserDeletes(t)
      PROVE  UNCHANGED <<pc, locals>>
  BY <1>6 DEF DeliverTask, TimerFires, TtlPasses, UserCreates, UserDeletes
<1>7. ASSUME NEW j \in JobNames, \/ DeliverJob(j) \/ CollectJob(j) \/ JobStarts(j) \/ JobEnds(j)
                                \/ PodSeenTerminated(j) \/ PodVanishes(j)
      PROVE  UNCHANGED <<pc, locals>>
  BY <1>7 DEF DeliverJob, CollectJob, JobStarts, JobEnds, PodSeenTerminated, PodVanishes
<1> QED BY <1>1, <1>2, <1>3, <1>4, <1>5, <1>6, <1>7 DEF Next, Controller, vars

LEMMA TypeInit == Init => TypeOK /\ Held
<1>1. \A S : <<>> \in Seq(S)
  BY EmptySeq
<1>2. ASSUME Init PROVE StoreTypes /\ CacheTypes
  BY <1>1, <1>2, NoObjects DEF Init, StoreTypes, CacheTypes
<1>3. ASSUME Init PROVE WorkTypes /\ Held
  BY <1>3, NoObjects DEF Init, WorkTypes, Locals, Held, PastGetTask
<1>4. ASSUME Init PROVE HistoryTypes
  BY <1>4 DEF Init, HistoryTypes
<1> QED BY <1>2, <1>3, <1>4, TypeParts

(* Every variable of the Task controller keeps its type (Reconcile and what it *)
(* calls, with users, the Job controller and restarts around it).              *)
THEOREM TypeCorrect == Spec => []TypeOK
<1>1. Init => TypeOK /\ Held
  BY TypeInit
<1>2. TypeOK /\ Held /\ [Next]_vars => TypeOK' /\ Held'
  BY TypeInductive, HeldInductive
<1> QED BY <1>1, <1>2, PTL DEF Spec

-----------------------------------------------------------------------------
(* Copies *)

TaskInOrder(R, t) == InOrder(R, taskCache[t], taskWatch[t], tasks[t])
JobInOrder(R, t) == InOrder(R, jobCache[JobName[t]], jobWatch[JobName[t]], jobs[JobName[t]])

(* A step writes at most one Task, or it is one of the informer. *)
LEMMA TaskSteps ==
    ASSUME TypeOK, Held, [Next]_vars
    PROVE  \/ UNCHANGED <<tasks, taskCache, taskWatch>>
           \/ \E t \in Tasks : DeliverTask(t)
           \/ taskCache' = tasks /\ taskWatch' = [t \in Tasks |-> <<>>] /\ UNCHANGED tasks
           \/ \E t \in Tasks : \E new : WriteTask(t, new) /\ UNCHANGED taskCache
<1> USE DEF storeVars, cacheVars, workVars, budgetVars
<1>1. CASE PatchTask
  BY <1>1 DEF PatchTask, Held
<1>2. CASE \/ Dequeue \/ ReadFails \/ GetTask \/ DeleteJob \/ GetJob \/ CreateJob \/ ReadPods
  BY <1>2 DEF Dequeue, ReadFails, GetTask, DeleteJob, GetJob, CreateJob, ReadPods
<1>3. ASSUME NEW t \in Tasks, \/ DeliverTask(t) \/ TimerFires(t) \/ TtlPasses(t)
      PROVE  UNCHANGED <<tasks, taskCache, taskWatch>> \/ DeliverTask(t)
  BY <1>3 DEF TimerFires, TtlPasses
<1>4. ASSUME NEW t \in Tasks, UserCreates(t) \/ UserDeletes(t)
      PROVE  \E new : WriteTask(t, new) /\ UNCHANGED taskCache
  BY <1>4 DEF UserCreates, UserDeletes
<1>5. ASSUME NEW j \in JobNames, \/ DeliverJob(j) \/ CollectJob(j) \/ JobStarts(j) \/ JobEnds(j)
                                \/ PodSeenTerminated(j) \/ PodVanishes(j)
      PROVE  UNCHANGED <<tasks, taskCache, taskWatch>>
  BY <1>5 DEF DeliverJob, CollectJob, JobStarts, JobEnds, PodSeenTerminated, PodVanishes
<1>6. CASE Restart
  BY <1>6 DEF Restart
<1>7. CASE UNCHANGED vars
  BY <1>7 DEF vars
<1> QED BY <1>1, <1>2, <1>3, <1>4, <1>5, <1>6, <1>7 DEF Next, Controller

LEMMA JobSteps ==
    ASSUME TypeOK, Held, [Next]_vars
    PROVE  \/ UNCHANGED <<jobs, jobCache, jobWatch>>
           \/ \E j \in JobNames : DeliverJob(j)
           \/ jobCache' = jobs /\ jobWatch' = [j \in JobNames |-> <<>>] /\ UNCHANGED jobs
           \/ \E j \in JobNames : \E new : WriteJob(j, new) /\ UNCHANGED jobCache
<1> USE DEF storeVars, cacheVars, workVars, budgetVars
<1>1. CASE DeleteJob \/ CreateJob
  <2>1. locals.key \in Tasks
    BY <1>1 DEF DeleteJob, CreateJob, Held
  <2>2. JobName[locals.key] \in JobNames
    BY <2>1, FieldTypes
  <2> QED BY <1>1, <2>2 DEF DeleteJob, CreateJob
<1>2. CASE \/ Dequeue \/ ReadFails \/ GetTask \/ GetJob \/ PatchTask \/ ReadPods
  BY <1>2 DEF Dequeue, ReadFails, GetTask, GetJob, PatchTask, ReadPods
<1>3. ASSUME NEW t \in Tasks, \/ DeliverTask(t) \/ TimerFires(t) \/ TtlPasses(t)
                             \/ UserCreates(t) \/ UserDeletes(t)
      PROVE  UNCHANGED <<jobs, jobCache, jobWatch>>
  BY <1>3 DEF DeliverTask, TimerFires, TtlPasses, UserCreates, UserDeletes
<1>4. ASSUME NEW j \in JobNames, CollectJob(j) \/ JobStarts(j) \/ JobEnds(j)
      PROVE  \E new : WriteJob(j, new) /\ UNCHANGED jobCache
  BY <1>4 DEF CollectJob, JobStarts, JobEnds
<1>5. ASSUME NEW j \in JobNames, \/ DeliverJob(j) \/ PodSeenTerminated(j) \/ PodVanishes(j)
      PROVE  UNCHANGED <<jobs, jobCache, jobWatch>> \/ DeliverJob(j)
  BY <1>5 DEF PodSeenTerminated, PodVanishes
<1>6. CASE Restart
  BY <1>6 DEF Restart
<1>7. CASE UNCHANGED vars
  BY <1>7 DEF vars
<1> QED BY <1>1, <1>2, <1>3, <1>4, <1>5, <1>6, <1>7 DEF Next, Controller

(* Where the stored object stays, copies only go. *)
LEMMA TaskRead ==
    ASSUME TypeOK, Held, [Next]_vars, NEW t \in Tasks, tasks'[t] = tasks[t]
    PROVE  /\ TaskCopies(t)' \subseteq TaskCopies(t)
           /\ \A R : TaskInOrder(R, t) => TaskInOrder(R, t)'
<1> USE DEF storeVars, cacheVars, workVars, budgetVars
<1>1. CASE taskCache'[t] = taskCache[t] /\ taskWatch'[t] = taskWatch[t]
  BY <1>1 DEF TaskCopies, TaskInOrder
<1>2. CASE DeliverTask(t)
  <2>1. taskCache'[t] = Head(taskWatch[t]) /\ taskWatch'[t] = Tail(taskWatch[t])
    BY <1>2 DEF DeliverTask, TypeOK
  <2>2. taskWatch[t] # <<>> /\ taskCache[t] \in TaskObjects /\ taskWatch[t] \in Seq(TaskObjects)
    BY <1>2, FieldTypes DEF DeliverTask
  <2> QED BY <2>1, <2>2, Delivered DEF TaskCopies, TaskInOrder
<1>3. CASE taskCache'[t] = tasks[t] /\ taskWatch'[t] = <<>>
  <2>1. \A R : TaskInOrder(R, t) => <<tasks[t], tasks[t]>> \in R
    BY DEF TaskInOrder, InOrder
  <2>2. Copies(tasks[t], <<>>) = {tasks[t]}
    BY DEF Copies
  <2>3. TaskCopies(t)' = {tasks[t]}
    BY <1>3, <2>2 DEF TaskCopies
  <2>4. tasks[t] \in TaskCopies(t)
    BY DEF TaskCopies
  <2>5. ASSUME NEW R, TaskInOrder(R, t) PROVE TaskInOrder(R, t)'
    BY <1>3, <2>1, <2>5, Listed DEF TaskInOrder
  <2> QED BY <2>3, <2>4, <2>5
<1>4. ASSUME NEW n \in Tasks, NEW new, WriteTask(n, new), UNCHANGED taskCache
      PROVE  taskCache'[t] = taskCache[t] /\ taskWatch'[t] = taskWatch[t]
  BY <1>4 DEF WriteTask, Published, TypeOK
<1>5. ASSUME NEW n \in Tasks, n # t, DeliverTask(n)
      PROVE  taskCache'[t] = taskCache[t] /\ taskWatch'[t] = taskWatch[t]
  BY <1>5 DEF DeliverTask, TypeOK
<1> QED BY <1>1, <1>2, <1>3, <1>4, <1>5, TaskSteps

LEMMA JobRead ==
    ASSUME TypeOK, Held, [Next]_vars, NEW t \in Tasks, jobs'[JobName[t]] = jobs[JobName[t]]
    PROVE  /\ JobCopies(t)' \subseteq JobCopies(t)
           /\ \A R : JobInOrder(R, t) => JobInOrder(R, t)'
<1> DEFINE k == JobName[t]
<1> USE DEF storeVars, cacheVars, workVars, budgetVars
<1>a. k \in JobNames
  BY FieldTypes
<1>b. /\ JobCopies(t) = Copies(jobCache[k], jobWatch[k]) \cup {jobs[k]}
      /\ JobCopies(t)' = Copies(jobCache'[k], jobWatch'[k]) \cup {jobs'[k]}
      /\ \A R : JobInOrder(R, t) = InOrder(R, jobCache[k], jobWatch[k], jobs[k])
      /\ \A R : JobInOrder(R, t)' = InOrder(R, jobCache'[k], jobWatch'[k], jobs'[k])
  BY DEF JobCopies, JobInOrder
<1> HIDE DEF k
<1>1. CASE jobCache'[k] = jobCache[k] /\ jobWatch'[k] = jobWatch[k]
  BY <1>1, <1>b DEF k
<1>2. CASE DeliverJob(k)
  <2>1. jobCache'[k] = Head(jobWatch[k]) /\ jobWatch'[k] = Tail(jobWatch[k])
    BY <1>2, <1>a DEF DeliverJob, TypeOK
  <2>2. jobWatch[k] # <<>> /\ jobCache[k] \in JobObjects /\ jobWatch[k] \in Seq(JobObjects)
    BY <1>2, <1>a, FieldTypes DEF DeliverJob
  <2>3. jobs'[k] = jobs[k]
    BY DEF k
  <2> QED BY <1>b, <2>1, <2>2, <2>3, Delivered
<1>3. CASE jobCache'[k] = jobs[k] /\ jobWatch'[k] = <<>>
  <2>1. \A R : JobInOrder(R, t) => <<jobs[k], jobs[k]>> \in R
    BY <1>b DEF InOrder
  <2>2. Copies(jobs[k], <<>>) = {jobs[k]} /\ jobs'[k] = jobs[k]
    BY DEF Copies, k
  <2>3. ASSUME NEW R, JobInOrder(R, t) PROVE JobInOrder(R, t)'
    BY <1>3, <1>b, <2>1, <2>2, <2>3, Listed
  <2> QED BY <1>3, <1>b, <2>2, <2>3
<1>4. ASSUME NEW n \in JobNames, NEW new, WriteJob(n, new), UNCHANGED jobCache
      PROVE  jobCache'[k] = jobCache[k] /\ jobWatch'[k] = jobWatch[k]
  BY <1>4, <1>a DEF WriteJob, Published, TypeOK, k
<1>5. ASSUME NEW n \in JobNames, n # k, DeliverJob(n)
      PROVE  jobCache'[k] = jobCache[k] /\ jobWatch'[k] = jobWatch[k]
  BY <1>5, <1>a DEF DeliverJob, TypeOK
<1> QED BY <1>a, <1>1, <1>2, <1>3, <1>4, <1>5, JobSteps

(* Where it is written, one copy comes. *)
LEMMA TaskWrite ==
    ASSUME TypeOK, NEW t \in Tasks, NEW new \in TaskObjects, WriteTask(t, new), UNCHANGED taskCache
    PROVE  /\ TaskCopies(t)' \subseteq TaskCopies(t) \cup {new}
           /\ \A R : TaskInOrder(R, t) /\ (\A x \in TaskCopies(t) \cup {new} : <<x, new>> \in R)
                       => TaskInOrder(R, t)'
<1>1. /\ taskCache[t] \in TaskObjects /\ taskWatch[t] \in Seq(TaskObjects) /\ tasks[t] \in TaskObjects
  BY FieldTypes
<1>2. /\ tasks'[t] = new /\ taskWatch'[t] = Published(taskWatch[t], tasks[t], new)
      /\ taskCache'[t] = taskCache[t]
  BY TaskWritten
<1>3. Copies(taskCache[t], Published(taskWatch[t], tasks[t], new))
        \subseteq Copies(taskCache[t], taskWatch[t]) \cup {new}
  BY <1>1, CopiesWritten
<1>4. ASSUME NEW R, TaskInOrder(R, t), \A x \in TaskCopies(t) \cup {new} : <<x, new>> \in R
      PROVE  TaskInOrder(R, t)'
  <2>1. InOrder(R, taskCache[t], Published(taskWatch[t], tasks[t], new), new)
    BY <1>1, <1>4, Written DEF TaskInOrder, TaskCopies
  <2> QED BY <1>2, <2>1 DEF TaskInOrder
<1> QED BY <1>2, <1>3, <1>4 DEF TaskCopies

LEMMA JobWrite ==
    ASSUME TypeOK, NEW t \in Tasks, NEW new \in JobObjects, WriteJob(JobName[t], new), UNCHANGED jobCache
    PROVE  /\ JobCopies(t)' \subseteq JobCopies(t) \cup {new}
           /\ \A R : JobInOrder(R, t) /\ (\A x \in JobCopies(t) \cup {new} : <<x, new>> \in R)
                       => JobInOrder(R, t)'
<1> DEFINE k == JobName[t]
<1>a. k \in JobNames
  BY FieldTypes
<1>1. /\ jobCache[k] \in JobObjects /\ jobWatch[k] \in Seq(JobObjects) /\ jobs[k] \in JobObjects
  BY <1>a, FieldTypes
<1>2. /\ jobs'[k] = new /\ jobWatch'[k] = Published(jobWatch[k], jobs[k], new)
      /\ jobCache'[k] = jobCache[k]
  BY <1>a, JobWritten
<1>3. Copies(jobCache[k], Published(jobWatch[k], jobs[k], new))
        \subseteq Copies(jobCache[k], jobWatch[k]) \cup {new}
  BY <1>1, CopiesWritten
<1>4. ASSUME NEW R, JobInOrder(R, t), \A x \in JobCopies(t) \cup {new} : <<x, new>> \in R
      PROVE  JobInOrder(R, t)'
  <2>1. InOrder(R, jobCache[k], Published(jobWatch[k], jobs[k], new), new)
    BY <1>1, <1>4, Written DEF JobInOrder, JobCopies
  <2> QED BY <1>2, <2>1 DEF JobInOrder
<1> QED BY <1>2, <1>3, <1>4 DEF JobCopies

-----------------------------------------------------------------------------
(* Steps, by what they write *)

Quiet == UNCHANGED <<tasks, jobs, runs, ended, made>>

Patches(t) ==
    /\ Working(t, {"patchTask"}) /\ Exists(tasks[t]) /\ WriteTask(t, Patched(tasks[t]))
    /\ pc' = "idle" /\ UNCHANGED <<taskCache, jobs, runs, ended, made>>

Deletes(t) ==
    /\ Working(t, {"deleteJob"}) /\ WriteJob(JobName[t], NoJob)
    /\ pc' = "idle" /\ UNCHANGED <<jobCache, tasks, runs, ended, made>>

Creates(t) ==
    /\ Working(t, {"createJob"}) /\ ~Exists(jobs[JobName[t]]) /\ WriteJob(JobName[t], Converted)
    /\ runs' = [runs EXCEPT ![locals.task.uid] = @ + 1]
    /\ \/ pc' = "idle"
       \/ pc' = "patchTask" /\ locals' = [locals EXCEPT !.job = Converted, !.desired = TRUE]
    /\ made'.tasks = made.tasks /\ made'.names = made.names
    /\ UNCHANGED <<jobCache, tasks, ended>>

LEMMA Steps ==
    ASSUME TypeOK, Held, [Next]_vars
    PROVE  \/ Quiet
           \/ \E t \in Tasks : \/ Patches(t) \/ Deletes(t) \/ Creates(t)
                             \/ UserCreates(t) \/ UserDeletes(t)
           \/ \E j \in JobNames : CollectJob(j) \/ JobStarts(j) \/ JobEnds(j)
<1> USE DEF storeVars, cacheVars, workVars, budgetVars, Quiet
<1>a. ASSUME NEW t \in Tasks, WriteTask(t, tasks[t]) PROVE UNCHANGED tasks
  BY <1>a DEF WriteTask, TypeOK
<1>b. ASSUME NEW j \in JobNames, WriteJob(j, jobs[j]) PROVE UNCHANGED jobs
  BY <1>b DEF WriteJob, TypeOK
<1>1. CASE PatchTask
  <2> DEFINE stored == tasks[locals.key]
  <2>1. PICK outcome \in Outcomes :
          LET new == IF Reaches(outcome) /\ Exists(stored) THEN Patched(stored) ELSE stored
          IN  /\ WriteTask(locals.key, new)
              /\ CASE outcome # "ok" \/ ~Exists(stored) -> Retry
                   [] outcome = "ok" /\ Exists(stored) /\ Completed(new) /\ ~locals.desired ->
                        RequeueAfterTtl(new.uid)
                   [] OTHER -> Done
    BY <1>1 DEF PatchTask
  <2>2. pc' = "idle"
    BY <2>1 DEF Retry, RequeueAfterTtl, Done
  <2>3. pc = "patchTask" /\ locals.key \in Tasks /\ UNCHANGED <<taskCache, jobs, runs, ended, made>>
    BY <1>1 DEF PatchTask, Held
  <2>4. CASE Reaches(outcome) /\ Exists(stored)
    <3>1. Patches(locals.key)
      BY <2>1, <2>2, <2>3, <2>4 DEF Patches, Working
    <3> QED BY <2>3, <3>1
  <2>5. CASE ~(Reaches(outcome) /\ Exists(stored))
    <3>1. WriteTask(locals.key, stored)
      BY <2>1, <2>5
    <3> QED BY <1>a, <2>3, <3>1
  <2> QED BY <2>4, <2>5
<1>2. CASE DeleteJob
  <2> DEFINE k == JobName[locals.key]
  <2>1. PICK outcome \in Outcomes :
          /\ WriteJob(k, IF Reaches(outcome) THEN NoJob ELSE jobs[k])
          /\ IF outcome = "ok" THEN Done ELSE Retry
    BY <1>2 DEF DeleteJob
  <2>2. pc' = "idle"
    BY <2>1 DEF Retry, Done
  <2>3. /\ pc = "deleteJob" /\ locals.key \in Tasks /\ UNCHANGED <<jobCache, tasks, runs, ended, made>>
    BY <1>2 DEF DeleteJob, Held
  <2>4. k \in JobNames
    BY <2>3, FieldTypes
  <2>5. CASE Reaches(outcome)
    <3>1. Deletes(locals.key)
      BY <2>1, <2>2, <2>3, <2>5 DEF Deletes, Working
    <3> QED BY <2>3, <3>1
  <2>6. CASE ~Reaches(outcome)
    <3>1. WriteJob(k, jobs[k])
      BY <2>1, <2>6
    <3> QED BY <1>b, <2>3, <2>4, <3>1
  <2> QED BY <2>5, <2>6
<1>3. CASE CreateJob
  <2> DEFINE k == JobName[locals.key]
  <2>1. PICK outcome \in Outcomes :
          LET created == Reaches(outcome) /\ ~Exists(jobs[k])
          IN  /\ WriteJob(k, IF created THEN Converted ELSE jobs[k])
              /\ made' = IF created THEN [made EXCEPT !.jobs = @ + 1] ELSE made
              /\ runs' = IF created THEN [runs EXCEPT ![locals.task.uid] = @ + 1] ELSE runs
              /\ IF created /\ outcome = "ok"
                 THEN Call("patchTask", [locals EXCEPT !.job = Converted, !.desired = TRUE])
                 ELSE Retry
    BY <1>3 DEF CreateJob
  <2>2. pc = "createJob" /\ locals.key \in Tasks /\ UNCHANGED <<jobCache, tasks, ended>>
    BY <1>3 DEF CreateJob, Held
  <2>3. k \in JobNames
    BY <2>2, FieldTypes
  <2>4. CASE Reaches(outcome) /\ ~Exists(jobs[k])
    <3>1. made' = [made EXCEPT !.jobs = @ + 1]
      BY <2>1, <2>4
    <3>2. made'.tasks = made.tasks /\ made'.names = made.names
      BY <3>1 DEF TypeOK
    <3>3. \/ pc' = "idle"
          \/ pc' = "patchTask" /\ locals' = [locals EXCEPT !.job = Converted, !.desired = TRUE]
      BY <2>1 DEF Call, Retry
    <3>4. Creates(locals.key)
      BY <2>1, <2>2, <2>4, <3>2, <3>3 DEF Creates, Working
    <3> QED BY <2>2, <3>4
  <2>5. CASE ~(Reaches(outcome) /\ ~Exists(jobs[k]))
    <3>1. WriteJob(k, jobs[k]) /\ UNCHANGED <<made, runs>>
      BY <2>1, <2>5
    <3> QED BY <1>b, <2>2, <2>3, <3>1
  <2> QED BY <2>4, <2>5
<1>4. CASE \/ Dequeue \/ ReadFails \/ GetTask \/ GetJob \/ ReadPods
  BY <1>4 DEF Dequeue, ReadFails, GetTask, GetJob, ReadPods
<1>5. ASSUME NEW t \in Tasks, DeliverTask(t) \/ TimerFires(t) \/ TtlPasses(t)
      PROVE  Quiet
  BY <1>5 DEF DeliverTask, TimerFires, TtlPasses
<1>6. ASSUME NEW j \in JobNames, DeliverJob(j) \/ PodSeenTerminated(j) \/ PodVanishes(j)
      PROVE  Quiet
  BY <1>6 DEF DeliverJob, PodSeenTerminated, PodVanishes
<1>7. CASE Restart
  BY <1>7 DEF Restart
<1>8. CASE UNCHANGED vars
  BY <1>8 DEF vars
<1> HIDE DEF Quiet
<1> QED BY <1>1, <1>2, <1>3, <1>4, <1>5, <1>6, <1>7, <1>8 DEF Next, Controller

(* How the worker gets from one call to the next. *)
LEMMA WorkerSteps ==
    ASSUME TypeOK, Held, [Next]_vars
    PROVE  \/ UNCHANGED <<pc, locals>>
           \/ pc' \in {"idle", "getTask"}
           \/ /\ pc = "getTask" /\ Exists(taskCache[locals.key])
              /\ locals' = [locals EXCEPT !.task = taskCache[locals.key]]
              /\ UNCHANGED <<tasks, taskCache, taskWatch, jobs, jobCache, jobWatch, runs, ended>>
              /\ pc' = IF Completed(taskCache[locals.key]) THEN "deleteJob" ELSE "getJob"
           \/ /\ pc = "getJob" /\ pc' = "createJob" /\ UNCHANGED locals
           \/ /\ pc = "getJob" /\ pc' \in {"readPods", "patchTask"}
              /\ Exists(jobCache[JobName[locals.key]])
              /\ locals' = [locals EXCEPT !.job = jobCache[JobName[locals.key]]]
              /\ UNCHANGED <<tasks, taskCache, taskWatch, jobs, jobCache, jobWatch, runs, ended>>
           \/ /\ pc = "readPods" /\ pc' = "patchTask" /\ UNCHANGED locals
           \/ Creates(locals.key)
<1> USE DEF storeVars, cacheVars, workVars, budgetVars
<1>1. CASE Dequeue \/ ReadFails \/ DeleteJob \/ PatchTask \/ Restart
  BY <1>1 DEF Dequeue, ReadFails, DeleteJob, PatchTask, Restart, Retry, Done, RequeueAfterTtl
<1>2. CASE GetTask
  BY <1>2 DEF GetTask, Call, Done
<1>3. CASE GetJob
  <2> DEFINE job == jobCache[JobName[locals.key]]
  <2>1. /\ pc = "getJob"
        /\ UNCHANGED <<tasks, taskCache, taskWatch, jobs, jobCache, jobWatch, runs, ended>>
    BY <1>3 DEF GetJob
  <2>2. locals.key \in Tasks
    BY <2>1 DEF Held
  <2>3. ~Exists(job) => job = NoJob
    BY <2>2, Absent, FieldTypes
  <2>4. CASE ~Exists(job)
    BY <1>3, <2>1, <2>3, <2>4, NoObjects DEF GetJob, Call
  <2>5. CASE Exists(job) /\ job.phase = "failed"
    BY <1>3, <2>1, <2>5 DEF GetJob, Call
  <2>6. CASE Exists(job) /\ job.phase # "failed"
    BY <1>3, <2>1, <2>6 DEF GetJob, Call
  <2> QED BY <2>4, <2>5, <2>6
<1>4. CASE CreateJob
  <2>1. pc = "createJob" /\ UNCHANGED tasks
    BY <1>4 DEF CreateJob
  <2>2. pc' = "idle" \/ Creates(locals.key)
    <3>1. CASE pc' = "idle"
      BY <3>1
    <3>2. CASE pc' # "idle"
      <4> DEFINE k == JobName[locals.key]
      <4>1. PICK outcome \in Outcomes :
              LET created == Reaches(outcome) /\ ~Exists(jobs[k])
              IN  /\ WriteJob(k, IF created THEN Converted ELSE jobs[k])
                  /\ made' = IF created THEN [made EXCEPT !.jobs = @ + 1] ELSE made
                  /\ runs' = IF created THEN [runs EXCEPT ![locals.task.uid] = @ + 1] ELSE runs
                  /\ IF created /\ outcome = "ok"
                     THEN Call("patchTask", [locals EXCEPT !.job = Converted, !.desired = TRUE])
                     ELSE Retry
        BY <1>4 DEF CreateJob
      <4>2. Reaches(outcome) /\ ~Exists(jobs[k])
        BY <3>2, <4>1 DEF Retry
      <4>3. made' = [made EXCEPT !.jobs = @ + 1]
        BY <4>1, <4>2
      <4>4. made'.tasks = made.tasks /\ made'.names = made.names
        BY <4>3 DEF TypeOK
      <4>5. pc' = "patchTask" /\ locals' = [locals EXCEPT !.job = Converted, !.desired = TRUE]
        BY <3>2, <4>1 DEF Call, Retry
      <4> QED BY <1>4, <4>1, <4>2, <4>4, <4>5 DEF Creates, Working, CreateJob
    <3> QED BY <3>1, <3>2
  <2> QED BY <2>2
<1>5. CASE ReadPods
  BY <1>5 DEF ReadPods, Call, Retry
<1>6. ASSUME NEW t \in Tasks, \/ DeliverTask(t) \/ TimerFires(t) \/ TtlPasses(t)
                             \/ UserCreates(t) \/ UserDeletes(t)
      PROVE  UNCHANGED <<pc, locals>>
  BY <1>6 DEF DeliverTask, TimerFires, TtlPasses, UserCreates, UserDeletes
<1>7. ASSUME NEW j \in JobNames, \/ DeliverJob(j) \/ CollectJob(j) \/ JobStarts(j) \/ JobEnds(j)
                                \/ PodSeenTerminated(j) \/ PodVanishes(j)
      PROVE  UNCHANGED <<pc, locals>>
  BY <1>7 DEF DeliverJob, CollectJob, JobStarts, JobEnds, PodSeenTerminated, PodVanishes
<1>8. CASE UNCHANGED vars
  BY <1>8 DEF vars
<1> QED BY <1>1, <1>2, <1>3, <1>4, <1>5, <1>6, <1>7, <1>8 DEF Next, Controller

-----------------------------------------------------------------------------
(* Tasks are told apart *)

JobNamesApart == \A t1, t2 \in Tasks : JobName[t1] = JobName[t2] => t1 = t2

(* The fields of the objects a step writes. *)
LEMMA NewObjects ==
    ASSUME TypeOK, Held
    PROVE  /\ \A t \in Tasks : Exists(tasks[t]) =>
                 /\ Patched(tasks[t]) \in TaskObjects /\ Patched(tasks[t]).uid = tasks[t].uid
           /\ pc = "createJob" => /\ Converted \in JobObjects /\ Exists(Converted)
                                 /\ Converted.owner = locals.task.uid /\ Converted.phase = "created"
                                 /\ locals.task.uid \in Uids
           /\ \A t \in Tasks : UserCreates(t) =>
                 /\ made.tasks + 1 \in Uids
                 /\ [uid |-> made.tasks + 1, conds |-> {}] \in TaskObjects
<1>1. \A t \in Tasks : Exists(tasks[t]) =>
        Patched(tasks[t]) \in TaskObjects /\ Patched(tasks[t]).uid = tasks[t].uid
  BY FieldTypes, PatchedType
<1>2. ASSUME pc = "createJob"
      PROVE  /\ Converted \in JobObjects /\ Exists(Converted)
             /\ Converted.owner = locals.task.uid /\ Converted.phase = "created"
             /\ locals.task.uid \in Uids
  <2>1. locals.key \in Tasks /\ Exists(locals.task)
    BY <1>2 DEF Held, PastGetTask
  <2>2. locals.task.uid \in Uids /\ made.jobs \in Nat
    BY <2>1, FieldTypes
  <2>3. made.jobs + 1 \in Nat \ {0} /\ "created" \in Phases
    BY <2>2 DEF Phases
  <2> QED BY <2>1, <2>2, <2>3, ObjectTypes DEF Converted, Exists
<1>3. ASSUME NEW t \in Tasks, UserCreates(t)
      PROVE  made.tasks + 1 \in Uids /\ [uid |-> made.tasks + 1, conds |-> {}] \in TaskObjects
  <2>1. made.tasks \in Nat /\ MaxTasks \in Nat
    BY BoundsAssumption, FieldTypes
  <2>2. made.tasks + 1 \in Uids
    BY <1>3, <2>1 DEF UserCreates, Uids
  <2> QED BY <2>2, ObjectTypes
<1> QED BY <1>1, <1>2, <1>3

LEMMA IdentifiesCopies ==
    ASSUME TypeOK, Held, JobNamesApart, [Next]_vars, NEW id \in [Tasks -> Nat], Identifies(id),
           \A t \in Tasks : ~UserCreates(t)
    PROVE  /\ \A t \in Tasks : \A x \in TaskCopies(t)' : Exists(x) => x.uid = id[t]
           /\ \A t \in Tasks : \A x \in JobCopies(t)' : Exists(x) => x.owner = id[t] /\ id[t] # 0
           /\ \A j \in JobNames : Exists(jobs'[j]) => \E t \in Tasks : j = JobName[t]
<1>1. ASSUME NEW t \in Tasks PROVE \A x \in TaskCopies(t)' : Exists(x) => x.uid = id[t]
  <2>1. CASE tasks'[t] = tasks[t]
    BY <2>1, TaskRead DEF Identifies
  <2>2. CASE Patches(t)
    <3>1. tasks[t] \in TaskCopies(t)
      BY DEF TaskCopies
    <3>2. Patched(tasks[t]) \in TaskObjects /\ Patched(tasks[t]).uid = id[t]
      BY <2>2, <3>1, NewObjects DEF Patches, Identifies
    <3>3. TaskCopies(t)' \subseteq TaskCopies(t) \cup {Patched(tasks[t])}
      BY <2>2, <3>2, TaskWrite DEF Patches
    <3> QED BY <3>2, <3>3 DEF Identifies
  <2>3. CASE UserDeletes(t)
    <3>1. TaskCopies(t)' \subseteq TaskCopies(t) \cup {NoTask}
      BY <2>3, NoObjects, TaskWrite DEF UserDeletes
    <3> QED BY <3>1, NoObjects DEF Identifies
  <2>4. ASSUME NEW n \in Tasks, n # t, Patches(n) \/ UserDeletes(n)
        PROVE  tasks'[t] = tasks[t]
    BY <2>4 DEF Patches, UserDeletes, WriteTask, TypeOK
  <2>5. ASSUME NEW n \in Tasks, Deletes(n) \/ Creates(n)
        PROVE  tasks'[t] = tasks[t]
    BY <2>5 DEF Deletes, Creates
  <2>6. ASSUME NEW j \in JobNames, CollectJob(j) \/ JobStarts(j) \/ JobEnds(j)
        PROVE  tasks'[t] = tasks[t]
    BY <2>6 DEF CollectJob, JobStarts, JobEnds
  <2>7. Quiet => tasks'[t] = tasks[t]
    BY DEF Quiet
  <2> QED BY <2>1, <2>2, <2>3, <2>4, <2>5, <2>6, <2>7, Steps
<1>2. ASSUME NEW j \in JobNames, jobs'[j] # jobs[j]
      PROVE  \E new \in JobObjects :
                /\ WriteJob(j, new) /\ UNCHANGED jobCache
                /\ Exists(new) => \E t \in Tasks : j = JobName[t] /\ new.owner = id[t] /\ id[t] # 0
  <2>1. ASSUME NEW t \in Tasks, Deletes(t) PROVE WriteJob(j, NoJob) /\ UNCHANGED jobCache
    BY <1>2, <2>1, FieldTypes DEF Deletes, WriteJob, TypeOK
  <2>2. ASSUME NEW t \in Tasks, Creates(t)
        PROVE  j = JobName[t] /\ WriteJob(j, Converted) /\ UNCHANGED jobCache
    BY <1>2, <2>2, FieldTypes DEF Creates, WriteJob, TypeOK
  <2>3. ASSUME NEW t \in Tasks, Creates(t)
        PROVE  Converted \in JobObjects /\ Converted.owner = id[t] /\ id[t] # 0
    <3>1. Converted \in JobObjects /\ Converted.owner = locals.task.uid /\ locals.task.uid \in Uids
      BY <2>3, NewObjects DEF Creates, Working
    <3>2. locals.task.uid = id[t]
      BY <2>3 DEF Creates, Working, Identifies, PastGetTask
    <3> QED BY <3>1, <3>2 DEF Uids
  <2>4. ASSUME NEW n \in JobNames, CollectJob(n) PROVE WriteJob(j, NoJob) /\ UNCHANGED jobCache
    BY <1>2, <2>4 DEF CollectJob, WriteJob, TypeOK
  <2>5. ASSUME NEW n \in JobNames, JobStarts(n) \/ JobEnds(n)
        PROVE  /\ Exists(jobs[j]) /\ UNCHANGED jobCache
               /\ \E phase \in Phases : WriteJob(j, [jobs[j] EXCEPT !.phase = phase])
    BY <1>2, <2>5 DEF JobStarts, JobEnds, WriteJob, TypeOK, Phases, Ends
  <2>6. ASSUME NEW phase \in Phases, Exists(jobs[j])
        PROVE  LET new == [jobs[j] EXCEPT !.phase = phase] IN
               /\ new \in JobObjects
               /\ \E t \in Tasks : j = JobName[t] /\ new.owner = id[t] /\ id[t] # 0
    <3> DEFINE new == [jobs[j] EXCEPT !.phase = phase]
    <3>1. new \in JobObjects /\ new.owner = jobs[j].owner
      BY <2>6, FieldTypes, ObjectTypes
    <3>2. PICK t \in Tasks : j = JobName[t]
      BY <2>6 DEF Identifies
    <3>3. jobs[j] \in JobCopies(t)
      BY <3>2 DEF JobCopies
    <3>4. jobs[j].owner = id[t] /\ id[t] # 0
      BY <2>6, <3>3 DEF Identifies
    <3> QED BY <3>1, <3>2, <3>4
  <2>7. ASSUME NEW t \in Tasks, Patches(t) \/ UserDeletes(t) PROVE jobs' = jobs
    BY <2>7 DEF Patches, UserDeletes
  <2>8. Quiet => jobs' = jobs
    BY DEF Quiet
  <2> QED BY <1>2, <2>1, <2>2, <2>3, <2>4, <2>5, <2>6, <2>7, <2>8, NoObjects, Steps
<1>3. ASSUME NEW t \in Tasks
      PROVE \A x \in JobCopies(t)' : Exists(x) => x.owner = id[t] /\ id[t] # 0
  <2>1. CASE jobs'[JobName[t]] = jobs[JobName[t]]
    BY <2>1, JobRead DEF Identifies
  <2>2. CASE jobs'[JobName[t]] # jobs[JobName[t]]
    <3>1. JobName[t] \in JobNames
      BY FieldTypes
    <3>2. PICK new \in JobObjects :
            /\ WriteJob(JobName[t], new) /\ UNCHANGED jobCache
            /\ Exists(new) => \E n \in Tasks : JobName[t] = JobName[n] /\ new.owner = id[n] /\ id[n] # 0
      BY <1>2, <2>2, <3>1
    <3>3. Exists(new) => new.owner = id[t] /\ id[t] # 0
      BY <3>2 DEF JobNamesApart
    <3>4. JobCopies(t)' \subseteq JobCopies(t) \cup {new}
      BY <3>2, JobWrite
    <3> QED BY <3>3, <3>4 DEF Identifies
  <2> QED BY <2>1, <2>2
<1>4. ASSUME NEW j \in JobNames, Exists(jobs'[j]) PROVE \E t \in Tasks : j = JobName[t]
  <2>1. CASE jobs'[j] = jobs[j]
    BY <1>4, <2>1 DEF Identifies
  <2>2. CASE jobs'[j] # jobs[j]
    <3>1. PICK new \in JobObjects :
            /\ WriteJob(j, new)
            /\ Exists(new) => \E t \in Tasks : j = JobName[t]
      BY <1>2, <2>2
    <3>2. jobs'[j] = new
      BY <3>1 DEF WriteJob, TypeOK
    <3> QED BY <1>4, <3>1, <3>2
  <2> QED BY <2>1, <2>2
<1> QED BY <1>1, <1>3, <1>4
(* What the worker holds, it has had or has just read. *)
LEMMA WorkerTask ==
    ASSUME TypeOK, Held, [Next]_vars, pc' \in PastGetTask
    PROVE  /\ locals'.key = locals.key /\ locals.key \in Tasks
           /\ \/ pc \in PastGetTask /\ locals'.task = locals.task
              \/ /\ pc = "getTask" /\ locals'.task = taskCache[locals.key] /\ Exists(locals'.task)
                 /\ pc' = IF Completed(locals'.task) THEN "deleteJob" ELSE "getJob"
                 /\ UNCHANGED <<tasks, taskCache, taskWatch, jobs, jobCache, jobWatch, runs, ended>>
<1>a. pc' \notin {"idle", "getTask"}
  BY DEF PastGetTask
<1>1. CASE UNCHANGED <<pc, locals>>
  BY <1>1 DEF Held, PastGetTask
<1>2. CASE /\ pc = "getTask" /\ Exists(taskCache[locals.key])
           /\ locals' = [locals EXCEPT !.task = taskCache[locals.key]]
           /\ UNCHANGED <<tasks, taskCache, taskWatch, jobs, jobCache, jobWatch, runs, ended>>
           /\ pc' = IF Completed(taskCache[locals.key]) THEN "deleteJob" ELSE "getJob"
  <2>1. locals'.key = locals.key /\ locals'.task = taskCache[locals.key]
    BY <1>2 DEF TypeOK
  <2> QED BY <1>2, <2>1 DEF Held
<1>3. CASE /\ pc \in PastGetTask
           /\ locals'.key = locals.key /\ locals'.task = locals.task
  BY <1>3 DEF Held, PastGetTask
<1>4. CASE Creates(locals.key)
  <2>1. locals' = [locals EXCEPT !.job = Converted, !.desired = TRUE] /\ pc \in PastGetTask
    BY <1>4, <1>a DEF Creates, Working, PastGetTask
  <2> HIDE DEF Converted
  <2>2. locals'.key = locals.key /\ locals'.task = locals.task
    BY <2>1 DEF TypeOK
  <2> QED BY <1>3, <2>1, <2>2
<1>5. CASE /\ pc = "getJob"
           /\ locals' = [locals EXCEPT !.job = jobCache[JobName[locals.key]]]
  <2>1. locals'.key = locals.key /\ locals'.task = locals.task
    BY <1>5 DEF TypeOK
  <2> QED BY <1>3, <1>5, <2>1 DEF PastGetTask
<1>6. CASE pc \in {"getJob", "readPods"} /\ UNCHANGED locals
  BY <1>3, <1>6 DEF PastGetTask
<1> QED BY <1>a, <1>1, <1>2, <1>4, <1>5, <1>6, WorkerSteps

(* The worker holds a Task under its name. *)
LEMMA IdentifiesWorker ==
    ASSUME TypeOK, Held, [Next]_vars, NEW id \in [Tasks -> Nat], Identifies(id), pc' \in PastGetTask
    PROVE  locals'.task.uid = id[locals'.key]
<1>1. locals.key \in Tasks => taskCache[locals.key] \in TaskCopies(locals.key)
  BY DEF TaskCopies, Copies
<1> QED BY <1>1, WorkerTask DEF Identifies

(* A new Task has a name that has not been used. *)
LEMMA IdentifiesNew ==
    ASSUME TypeOK, Held, JobNamesApart, ~NamesReused, [Next]_vars, NEW id \in [Tasks -> Nat],
           Identifies(id), NEW t \in Tasks, UserCreates(t), NEW u, u = made.tasks + 1
    PROVE  Identifies([id EXCEPT ![t] = u])' /\ u \in Uids
<1> DEFINE id2 == [id EXCEPT ![t] = u]
<1>a. made.tasks \in Nat
  BY FieldTypes
<1>b. u \in Uids
  BY NewObjects
<1>1. made.tasks \in Nat /\ u \in Uids /\ u \in Nat \ {0}
  BY <1>a, <1>b
<1>2. id[t] = 0
  BY DEF UserCreates, Identifies
<1>3. id2[t] = u /\ \A n \in Tasks \ {t} : id2[n] = id[n]
  OBVIOUS
<1>4. made' = [made EXCEPT !.tasks = @ + 1, !.names = @ \cup {t}]
  BY DEF UserCreates
<1>5. made'.tasks = made.tasks + 1 /\ made'.names = made.names \cup {t}
  BY <1>4 DEF TypeOK
<1>6. \A n \in Tasks : id2[n] <= made'.tasks /\ (id2[n] # 0 => n \in made'.names)
  <2> TAKE n \in Tasks
  <2>1. id[n] <= made.tasks /\ id[n] \in Nat /\ (id[n] # 0 => n \in made.names)
    BY DEF Identifies
  <2>2. n = t \/ id2[n] = id[n]
    BY <1>3
  <2> HIDE DEF id2
  <2> QED BY <1>1, <1>3, <1>5, <2>1, <2>2
<1>7. \A t1, t2 \in Tasks : id2[t1] = id2[t2] /\ id2[t1] # 0 => t1 = t2
  <2>1. \A n \in Tasks : id[n] <= made.tasks /\ id[n] \in Nat
    BY DEF Identifies
  <2>2. \A n \in Tasks : id[n] # u
    BY <1>1, <2>1
  <2> HIDE DEF id2
  <2> QED BY <1>3, <2>2 DEF Identifies
<1>8. \A n \in Tasks : \A x \in TaskCopies(n)' : Exists(x) => x.uid = id2[n]
  <2> TAKE n \in Tasks
  <2>1. CASE n = t
    <3>1. WriteTask(t, [uid |-> u, conds |-> {}]) /\ UNCHANGED taskCache
      BY DEF UserCreates
    <3>2. TaskCopies(t)' \subseteq TaskCopies(t) \cup {[uid |-> u, conds |-> {}]}
      BY <3>1, NewObjects, TaskWrite
    <3>3. \A x \in TaskCopies(t) : ~Exists(x)
      BY <1>2 DEF Identifies, Exists
    <3> QED BY <1>3, <2>1, <3>2, <3>3
  <2>2. CASE n # t
    <3>1. tasks'[n] = tasks[n]
      BY <2>2 DEF UserCreates, WriteTask, TypeOK
    <3>2. TaskCopies(n)' \subseteq TaskCopies(n)
      BY <3>1, TaskRead
    <3> QED BY <1>3, <2>2, <3>2 DEF Identifies
  <2> QED BY <2>1, <2>2
<1>9. UNCHANGED <<jobs, jobCache, jobWatch, pc, locals>>
  BY DEF UserCreates, workVars
<1>10. \A n \in Tasks : \A x \in JobCopies(n)' : Exists(x) => x.owner = id2[n] /\ id2[n] # 0
  <2> TAKE n \in Tasks
  <2>1. JobCopies(n)' = JobCopies(n)
    BY <1>9 DEF JobCopies
  <2> QED BY <1>2, <1>3, <2>1 DEF Identifies
<1>11. pc' \in PastGetTask => locals'.task.uid = id2[locals'.key]
  <2> HAVE pc' \in PastGetTask
  <2>1. locals.task.uid = id[locals.key] /\ Exists(locals.task) /\ locals.key \in Tasks
    BY <1>9 DEF Identifies, Held, PastGetTask
  <2>2. locals.key # t
    BY <1>2, <2>1 DEF Exists
  <2> QED BY <1>3, <1>9, <2>1, <2>2
<1>12. \A j \in JobNames : Exists(jobs'[j]) => \E n \in Tasks : j = JobName[n]
  BY <1>9 DEF Identifies
<1> HIDE DEF id2
<1>13. Identifies(id2)'
  BY <1>6, <1>7, <1>8, <1>10, <1>11, <1>12 DEF Identifies
<1> QED BY <1>b, <1>13 DEF id2

(* Runs are counted, never forgotten, and only Tasks that have been made run. *)
LEMMA RunsGrow ==
    ASSUME TypeOK, Held, [Next]_vars
    PROVE  /\ \A u \in Uids : runs[u] # 0 => runs'[u] # 0
           /\ \A u \in Uids : runs'[u] # runs[u] =>
                 \E t \in Tasks : Creates(t) /\ u = locals.task.uid
           /\ made.tasks <= made'.tasks
<1>a. runs \in [Uids -> Nat] /\ made.tasks \in Nat
  BY FieldTypes DEF TypeOK
<1>1. ASSUME NEW t \in Tasks, Creates(t)
      PROVE  /\ runs' = [runs EXCEPT ![locals.task.uid] = @ + 1] /\ locals.task.uid \in Uids
             /\ made'.tasks = made.tasks
  BY <1>1, NewObjects DEF Creates, Working
<1>2. ASSUME NEW t \in Tasks, Creates(t)
      PROVE  /\ \A u \in Uids : runs[u] # 0 => runs'[u] # 0
             /\ \A u \in Uids : runs'[u] # runs[u] => u = locals.task.uid
  BY <1>a, <1>1, <1>2
<1>3. ASSUME NEW t \in Tasks, UserCreates(t) PROVE made'.tasks = made.tasks + 1 /\ runs' = runs
  <2>1. made' = [made EXCEPT !.tasks = @ + 1, !.names = @ \cup {t}] /\ runs' = runs
    BY <1>3 DEF UserCreates
  <2> QED BY <2>1 DEF TypeOK
<1>4. ASSUME NEW t \in Tasks, Patches(t) \/ Deletes(t) \/ UserDeletes(t)
      PROVE  UNCHANGED <<runs, made>>
  BY <1>4 DEF Patches, Deletes, UserDeletes, budgetVars
<1>5. ASSUME NEW j \in JobNames, CollectJob(j) \/ JobStarts(j) \/ JobEnds(j)
      PROVE  UNCHANGED <<runs, made>>
  BY <1>5 DEF CollectJob, JobStarts, JobEnds, budgetVars
<1>6. Quiet => UNCHANGED <<runs, made>>
  BY DEF Quiet
<1>7. UNCHANGED <<runs, made>> \/ (\E t \in Tasks : Creates(t) \/ UserCreates(t))
  BY <1>4, <1>5, <1>6, Steps
<1> QED BY <1>a, <1>1, <1>2, <1>3, <1>7

LEMMA IdentifiedInductive ==
    ASSUME TypeOK, Held, JobNamesApart, ~NamesReused, Identified, [Next]_vars
    PROVE  Identified'
<1>1. PICK id \in [Tasks -> Nat] : Identifies(id)
  BY DEF Identified
<1>2. \E id2 \in [Tasks -> Nat] : Identifies(id2)'
  <2>1. CASE \E t \in Tasks : UserCreates(t)
    <3>1. PICK t \in Tasks : UserCreates(t)
      BY <2>1
    <3>a. made.tasks \in Nat
      BY FieldTypes
    <3>2. PICK u \in Nat : u = made.tasks + 1
      BY <3>a
    <3>3. Identifies([id EXCEPT ![t] = u])'
      BY <1>1, <3>1, <3>2, IdentifiesNew
    <3> QED BY <3>2, <3>3
  <2>2. CASE \A t \in Tasks : ~UserCreates(t)
    <3>1. made'.tasks = made.tasks /\ made'.names = made.names
      <4>1. ASSUME NEW t \in Tasks, Patches(t) \/ Deletes(t) \/ UserDeletes(t) \/ Creates(t)
            PROVE  made'.tasks = made.tasks /\ made'.names = made.names
        BY <4>1 DEF Patches, Deletes, UserDeletes, Creates, budgetVars
      <4>2. ASSUME NEW j \in JobNames, CollectJob(j) \/ JobStarts(j) \/ JobEnds(j)
            PROVE  made' = made
        BY <4>2 DEF CollectJob, JobStarts, JobEnds, budgetVars
      <4> QED BY <2>2, <4>1, <4>2, Steps DEF Quiet
    <3>2. pc' \in PastGetTask => locals'.task.uid = id[locals'.key]
      BY <1>1, IdentifiesWorker
    <3>3. Identifies(id)'
      BY <1>1, <2>2, <3>1, <3>2, IdentifiesCopies DEF Identifies
    <3> QED BY <3>3
  <2> QED BY <2>1, <2>2
<1>3. ASSUME NEW t \in Tasks, Creates(t)
      PROVE  /\ locals.task.uid \in Uids /\ locals.task.uid <= made.tasks
             /\ runs'[locals.task.uid] # 0
             /\ jobs'[JobName[t]].owner = locals.task.uid
             /\ \A j \in JobNames : j # JobName[t] => jobs'[j] = jobs[j]
  <2>1. locals.task.uid \in Uids /\ Converted \in JobObjects /\ Converted.owner = locals.task.uid
    BY <1>3, NewObjects DEF Creates, Working
  <2>2. locals.task.uid <= made.tasks
    BY <1>1, <1>3 DEF Creates, Working, Identifies, PastGetTask
  <2>3. runs' = [runs EXCEPT ![locals.task.uid] = @ + 1]
    BY <1>3 DEF Creates
  <2>4. runs'[locals.task.uid] # 0
    <3>1. runs \in [Uids -> Nat]
      BY DEF TypeOK
    <3> QED BY <2>1, <2>3, <3>1
  <2>5. jobs'[JobName[t]] = Converted /\ \A j \in JobNames : j # JobName[t] => jobs'[j] = jobs[j]
    <3>1. WriteJob(JobName[t], Converted) /\ JobName[t] \in JobNames
      BY <1>3, FieldTypes DEF Creates
    <3> HIDE DEF Converted
    <3> QED BY <2>1, <3>1, JobWritten
  <2> QED BY <2>1, <2>2, <2>4, <2>5
<1>4. \A u \in Uids : u > made'.tasks => runs'[u] = 0
  <2> TAKE u \in Uids
  <2> HAVE u > made'.tasks
  <2>1. made.tasks \in Nat /\ made'.tasks \in Nat /\ u \in Nat
    <3>1. made.tasks \in Nat
      BY FieldTypes
    <3>a. u \in Nat
      BY DEF Uids
    <3>2. TypeOK'
      BY TypeInductive
    <3>3. made'.tasks \in Nat
      BY <3>2 DEF TypeOK
    <3> QED BY <3>1, <3>a, <3>3
  <2>2. u > made.tasks
    BY <2>1, RunsGrow
  <2>3. runs[u] = 0
    BY <2>2 DEF Identified
  <2>4. CASE runs'[u] # runs[u]
    <3>1. PICK t \in Tasks : Creates(t) /\ u = locals.task.uid
      BY <2>4, RunsGrow
    <3> QED BY <1>3, <2>1, <2>2, <3>1
  <2> QED BY <2>3, <2>4
<1>5. \A u \in Uids : runs'[u] = 0 => \A end \in Ends : <<u, end>> \notin ended'
  <2>1. ASSUME NEW u \in Uids, runs'[u] = 0, NEW end \in Ends PROVE <<u, end>> \notin ended'
    <3>1. runs[u] = 0
      BY <2>1, RunsGrow
    <3>2. <<u, end>> \notin ended
      BY <3>1 DEF Identified
    <3>3. ASSUME NEW j \in JobNames, JobEnds(j) PROVE <<u, end>> \notin ended'
      <4>1. Exists(jobs[j]) /\ \E e \in Ends : ended' = ended \cup {<<jobs[j].owner, e>>}
        BY <3>3 DEF JobEnds
      <4>2. jobs[j].owner # u
        BY <3>1, <4>1 DEF Identified
      <4> QED BY <3>2, <4>1, <4>2
    <3>4. ASSUME NEW t \in Tasks, \/ Patches(t) \/ Deletes(t) \/ Creates(t)
                                  \/ UserCreates(t) \/ UserDeletes(t)
          PROVE  ended' = ended
      BY <3>4 DEF Patches, Deletes, Creates, UserCreates, UserDeletes
    <3>5. ASSUME NEW j \in JobNames, CollectJob(j) \/ JobStarts(j) PROVE ended' = ended
      BY <3>5 DEF CollectJob, JobStarts
    <3> QED BY <3>2, <3>3, <3>4, <3>5, Steps DEF Quiet
  <2> QED BY <2>1
<1>6. \A j \in JobNames : Exists(jobs'[j]) => runs'[jobs'[j].owner] # 0
  <2> TAKE j \in JobNames
  <2> HAVE Exists(jobs'[j])
  <2>1. jobs'[j].owner \in Uids
    <3>1. TypeOK'
      BY TypeInductive
    <3>2. jobs'[j] \in JobObjects
      BY <3>1 DEF TypeOK
    <3> QED BY <3>2, ObjectTypes
  <2>2. CASE Exists(jobs[j]) /\ jobs'[j].owner = jobs[j].owner
    BY <2>1, <2>2, RunsGrow DEF Identified
  <2>3. ASSUME NEW n \in JobNames, JobStarts(n) \/ JobEnds(n)
        PROVE  Exists(jobs[j]) /\ jobs'[j].owner = jobs[j].owner
    <3>1. PICK phase \in Phases : Exists(jobs[n]) /\ jobs' = [jobs EXCEPT ![n] = [jobs[n] EXCEPT !.phase = phase]]
      BY <2>3 DEF JobStarts, JobEnds, WriteJob, Phases, Ends
    <3>2. [jobs[n] EXCEPT !.phase = phase].owner = jobs[n].owner
      BY <3>1, FieldTypes, ObjectTypes
    <3>3. jobs'[j] = IF j = n THEN [jobs[n] EXCEPT !.phase = phase] ELSE jobs[j]
      BY <3>1 DEF TypeOK
    <3> QED BY <3>1, <3>2, <3>3
  <2>4. ASSUME jobs'[j] = NoJob \/ jobs'[j] = jobs[j]
        PROVE  Exists(jobs[j]) /\ jobs'[j].owner = jobs[j].owner
    BY <2>4, NoObjects
  <2>5. ASSUME NEW t \in Tasks, Creates(t) PROVE runs'[jobs'[j].owner] # 0
    <3>1. CASE j = JobName[t]
      BY <1>3, <2>5, <3>1
    <3>2. CASE j # JobName[t]
      BY <1>3, <2>2, <2>4, <2>5, <3>2
    <3> QED BY <3>1, <3>2
  <2>6. ASSUME NEW t \in Tasks, \/ Patches(t) \/ Deletes(t) \/ UserCreates(t) \/ UserDeletes(t)
        PROVE  jobs'[j] = NoJob \/ jobs'[j] = jobs[j]
    BY <2>6, FieldTypes DEF Patches, Deletes, UserCreates, UserDeletes, WriteJob, TypeOK
  <2>7. ASSUME NEW n \in JobNames, CollectJob(n)
        PROVE  jobs'[j] = NoJob \/ jobs'[j] = jobs[j]
    BY <2>7 DEF CollectJob, WriteJob, TypeOK
  <2> QED BY <2>2, <2>3, <2>4, <2>5, <2>6, <2>7, Steps DEF Quiet
<1> QED BY <1>2, <1>4, <1>5, <1>6 DEF Identified
-----------------------------------------------------------------------------
(* Conditions only come *)

(* Who changes a Task, and who changes its Job. *)
LEMMA Changes ==
    ASSUME TypeOK, Held, JobNamesApart, [Next]_vars, NEW t \in Tasks
    PROVE  /\ tasks'[t] # tasks[t] => Patches(t) \/ UserCreates(t) \/ UserDeletes(t)
           /\ jobs'[JobName[t]] # jobs[JobName[t]] =>
                \/ Deletes(t) \/ Creates(t)
                \/ CollectJob(JobName[t]) \/ JobStarts(JobName[t]) \/ JobEnds(JobName[t])
<1>a. JobName[t] \in JobNames /\ \A n \in Tasks : JobName[n] = JobName[t] => n = t
  BY FieldTypes DEF JobNamesApart
<1>1. ASSUME NEW n \in Tasks, n # t, \/ Patches(n) \/ UserCreates(n) \/ UserDeletes(n)
      PROVE  tasks'[t] = tasks[t]
  BY <1>1 DEF Patches, UserCreates, UserDeletes, WriteTask, TypeOK
<1>2. ASSUME NEW n \in Tasks, Deletes(n) \/ Creates(n) PROVE tasks'[t] = tasks[t]
  BY <1>2 DEF Deletes, Creates
<1>3. ASSUME NEW j \in JobNames, CollectJob(j) \/ JobStarts(j) \/ JobEnds(j)
      PROVE  tasks'[t] = tasks[t]
  BY <1>3 DEF CollectJob, JobStarts, JobEnds
<1>4. ASSUME NEW n \in Tasks, n # t, Deletes(n) \/ Creates(n)
      PROVE  jobs'[JobName[t]] = jobs[JobName[t]]
  BY <1>a, <1>4 DEF Deletes, Creates, WriteJob, TypeOK
<1>5. ASSUME NEW n \in Tasks, \/ Patches(n) \/ UserCreates(n) \/ UserDeletes(n)
      PROVE  jobs'[JobName[t]] = jobs[JobName[t]]
  BY <1>5 DEF Patches, UserCreates, UserDeletes
<1>6. ASSUME NEW j \in JobNames, j # JobName[t], CollectJob(j) \/ JobStarts(j) \/ JobEnds(j)
      PROVE  jobs'[JobName[t]] = jobs[JobName[t]]
  BY <1>a, <1>6 DEF CollectJob, JobStarts, JobEnds, WriteJob, TypeOK
<1> QED BY <1>1, <1>2, <1>3, <1>4, <1>5, <1>6, Steps DEF Quiet

LEMMA OrderTypes ==
    /\ \A x, y \in TaskObjects : <<x, y>> \in TaskOrder
          <=> (Exists(x) /\ Exists(y) => x.conds \subseteq y.conds)
    /\ \A x, y \in JobObjects : <<x, y>> \in JobOrder
          <=> (Exists(x) /\ Exists(y) => StatusConditions(x.phase) \subseteq StatusConditions(y.phase))
    /\ \A x, y : <<x, y>> \in TaskOrder => x \in TaskObjects /\ y \in TaskObjects
    /\ \A x, y : <<x, y>> \in JobOrder => x \in JobObjects /\ y \in JobObjects
BY DEF TaskOrder, JobOrder

(* A name that has not been used has left no copies. *)
LEMMA NoCopies ==
    ASSUME TypeOK, Identified, ~NamesReused, NEW t \in Tasks, UserCreates(t)
    PROVE  /\ \A x \in TaskCopies(t) : ~Exists(x)
           /\ \A x \in JobCopies(t) : ~Exists(x)
           /\ ~Working(t, PastGetTask) \/ ~Exists(locals.task)
<1>1. PICK id \in [Tasks -> Nat] : Identifies(id)
  BY DEF Identified
<1>2. id[t] = 0
  BY <1>1 DEF UserCreates, Identifies
<1> QED BY <1>1, <1>2 DEF Identifies, Exists, Working

(* A patch takes no condition back. *)
LEMMA PatchGrows ==
    ASSUME TypeOK, AllFaithful, NEW t \in Tasks, Patches(t)
    PROVE  tasks[t].conds \subseteq Patched(tasks[t]).conds
<1> DEFINE conds == locals.task.conds \cup StatusConditions(locals.job.phase)
<1>1. Exists(tasks[t]) /\ tasks[t] \in TaskObjects /\ Working(t, {"readPods", "patchTask"})
  BY FieldTypes DEF Patches, Working
<1>2. tasks[t].conds \subseteq conds
  BY <1>1 DEF AllFaithful, Faithful, Backed
<1>3. conds \subseteq Conditions
  BY FieldTypes DEF StatusConditions, Conditions
<1>4. Patched(tasks[t]) = tasks[t] \/ Patched(tasks[t]) = [tasks[t] EXCEPT !.conds = conds]
  BY DEF Patched
<1> HIDE DEF conds
<1>5. [tasks[t] EXCEPT !.conds = conds].conds = conds
  BY <1>1, <1>3, ObjectTypes
<1> QED BY <1>2, <1>4, <1>5

LEMMA TasksOrderedInductive ==
    ASSUME TypeOK, Held, JobNamesApart, ~NamesReused, Identified, TasksOrdered, AllFaithful,
           [Next]_vars
    PROVE  TasksOrdered'
<1>a. \A t \in Tasks : TaskCopies(t) \subseteq TaskObjects
  <2> TAKE t \in Tasks
  <2>1. /\ tasks[t] \in TaskObjects /\ taskCache[t] \in TaskObjects
        /\ taskWatch[t] \in Seq(TaskObjects)
    BY FieldTypes
  <2>2. \A i \in 1 .. Len(taskWatch[t]) : taskWatch[t][i] \in TaskObjects
    BY <2>1, ElementOfSeq
  <2> QED BY <2>1, <2>2 DEF TaskCopies, Copies
<1>1. ASSUME NEW t \in Tasks PROVE InOrder(TaskOrder, taskCache[t], taskWatch[t], tasks[t])'
  <2>1. TaskInOrder(TaskOrder, t)
    BY DEF TasksOrdered, TaskInOrder
  <2>2. ASSUME NEW new \in TaskObjects, WriteTask(t, new), UNCHANGED taskCache,
               \A x \in TaskCopies(t) : Exists(x) /\ Exists(new) => x.conds \subseteq new.conds
        PROVE  TaskInOrder(TaskOrder, t)'
    <3>1. \A x \in TaskCopies(t) \cup {new} : <<x, new>> \in TaskOrder
      BY <1>a, <2>2, OrderTypes
    <3> QED BY <2>1, <2>2, <3>1, TaskWrite
  <2>3. CASE tasks'[t] = tasks[t]
    <3>1. TaskInOrder(TaskOrder, t)'
      BY <2>1, <2>3, TaskRead
    <3> QED BY <3>1 DEF TaskInOrder
  <2>4. CASE Patches(t)
    <3>1. Patched(tasks[t]) \in TaskObjects /\ tasks[t] \in TaskObjects /\ Exists(tasks[t])
      BY <2>4, NewObjects, FieldTypes DEF Patches
    <3>2. \A x \in TaskCopies(t) : <<x, tasks[t]>> \in TaskOrder
      BY <2>1 DEF TaskInOrder, InOrder, TaskCopies
    <3>3. \A x \in TaskCopies(t) : Exists(x) => x.conds \subseteq tasks[t].conds
      BY <1>a, <3>1, <3>2, OrderTypes
    <3>4. \A x \in TaskCopies(t) : Exists(x) => x.conds \subseteq Patched(tasks[t]).conds
      BY <2>4, <3>3, PatchGrows
    <3>5. WriteTask(t, Patched(tasks[t])) /\ UNCHANGED taskCache
      BY <2>4 DEF Patches
    <3>6. TaskInOrder(TaskOrder, t)'
      BY <2>2, <3>1, <3>4, <3>5
    <3> QED BY <3>6 DEF TaskInOrder
  <2>5. CASE UserDeletes(t)
    <3>1. WriteTask(t, NoTask) /\ UNCHANGED taskCache
      BY <2>5 DEF UserDeletes
    <3>2. TaskInOrder(TaskOrder, t)'
      BY <2>2, <3>1, NoObjects
    <3> QED BY <3>2 DEF TaskInOrder
  <2>6. CASE UserCreates(t)
    <3>1. WriteTask(t, [uid |-> made.tasks + 1, conds |-> {}]) /\ UNCHANGED taskCache
      BY <2>6 DEF UserCreates
    <3>2. [uid |-> made.tasks + 1, conds |-> {}] \in TaskObjects
      BY <2>6, NewObjects
    <3>3. TaskInOrder(TaskOrder, t)'
      BY <2>2, <2>6, <3>1, <3>2, NoCopies
    <3> QED BY <3>3 DEF TaskInOrder
  <2> QED BY <2>3, <2>4, <2>5, <2>6, Changes
<1>2. ASSUME NEW t \in Tasks, Working(t, PastGetTask)'
      PROVE  \A x \in TaskCopies(t)' : <<locals'.task, x>> \in TaskOrder
  <2>1. pc' \in PastGetTask /\ locals'.key = t /\ t = locals.key
    BY <1>2, WorkerTask DEF Working
  <2>2. CASE /\ pc = "getTask" /\ locals'.task = taskCache[t]
             /\ UNCHANGED <<tasks, taskCache, taskWatch>>
    <3>1. TaskCopies(t)' = TaskCopies(t)
      BY <2>2 DEF TaskCopies
    <3>2. <<taskCache[t], taskCache[t]>> \in TaskOrder
      BY <2>1, FieldTypes, OrderTypes
    <3>3. \A x \in TaskCopies(t) : <<taskCache[t], x>> \in TaskOrder
      BY <2>1, <3>2 DEF TasksOrdered, InOrder, TaskCopies, Copies
    <3> QED BY <2>1, <2>2, <3>1, <3>3
  <2>3. CASE pc \in PastGetTask /\ locals'.task = locals.task
    <3>1. \A x \in TaskCopies(t) : <<locals.task, x>> \in TaskOrder
      BY <2>1, <2>3 DEF TasksOrdered, Working
    <3>2. Exists(locals.task) /\ locals.task \in TaskObjects
      BY <2>3, FieldTypes DEF Held
    <3>3. CASE tasks'[t] = tasks[t]
      BY <2>1, <2>3, <3>1, <3>3, TaskRead
    <3>4. CASE Patches(t)
      BY <2>1, <3>4 DEF Patches, PastGetTask
    <3>5. CASE UserDeletes(t)
      <4>1. TaskCopies(t)' \subseteq TaskCopies(t) \cup {NoTask}
        BY <2>1, <3>5, NoObjects, TaskWrite DEF UserDeletes
      <4>2. <<locals.task, NoTask>> \in TaskOrder
        BY <3>2, NoObjects, OrderTypes
      <4> QED BY <2>1, <2>3, <3>1, <4>1, <4>2
    <3>6. CASE UserCreates(t)
      BY <2>1, <2>3, <3>2, <3>6, NoCopies DEF Working
    <3> QED BY <2>1, <3>3, <3>4, <3>5, <3>6, Changes
  <2> QED BY <2>1, <2>2, <2>3, WorkerTask
<1> QED BY <1>1, <1>2 DEF TasksOrdered
-----------------------------------------------------------------------------
(* What a Task shows is true *)

(* A Task that stays keeps its uid, its Job, and its history but for what its *)
(* own worker and its own Job do.                                             *)
LEMMA Lives ==
    ASSUME TypeOK, Held, JobNamesApart, ~NamesReused, Identified, [Next]_vars,
           NEW t \in Tasks, Exists(tasks[t]), Exists(tasks'[t])
    PROVE  /\ tasks'[t].uid = tasks[t].uid /\ tasks[t].uid \in Uids
           /\ tasks'[t] = tasks[t] \/ Patches(t)
           /\ \A x \in JobCopies(t) : Exists(x) => x.owner = tasks[t].uid
           /\ Working(t, PastGetTask) => locals.task.uid = tasks[t].uid
           /\ ~CollectJob(JobName[t])
           /\ runs'[tasks[t].uid] # runs[tasks[t].uid] => Creates(t)
           /\ \A end \in Ends : <<tasks[t].uid, end>> \in ended => <<tasks[t].uid, end>> \in ended'
           /\ \A end \in Ends : <<tasks[t].uid, end>> \in ended' =>
                 <<tasks[t].uid, end>> \in ended \/ JobEnds(JobName[t])
<1> DEFINE u == tasks[t].uid
<1>1. PICK id \in [Tasks -> Nat] : Identifies(id)
  BY DEF Identified
<1>2. id[t] = u /\ u # 0 /\ u \in Uids
  <2>1. tasks[t] \in TaskCopies(t)
    BY DEF TaskCopies
  <2> QED BY <1>1, <2>1, FieldTypes DEF Identifies, Exists
<1>3. tasks'[t] = tasks[t] \/ Patches(t)
  <2>1. UserDeletes(t) => tasks'[t] = NoTask
    BY DEF UserDeletes, WriteTask, TypeOK
  <2>2. ~UserCreates(t)
    BY DEF UserCreates
  <2> QED BY <2>1, <2>2, NoObjects, Changes
<1>4. tasks'[t].uid = u
  <2>1. Patches(t) => tasks'[t] = Patched(tasks[t])
    BY NewObjects, TaskWritten DEF Patches
  <2> QED BY <1>3, <2>1, NewObjects
<1>5. \A n \in Tasks : \A x \in JobCopies(n) : Exists(x) => x.owner = id[n] /\ id[n] # 0
  BY <1>1 DEF Identifies
<1>6. Working(t, PastGetTask) => locals.task.uid = u
  BY <1>1, <1>2 DEF Working, Identifies
<1>7. \A n \in Tasks : jobs[JobName[n]] \in JobCopies(n)
  BY DEF JobCopies
<1>8. ~CollectJob(JobName[t])
  BY <1>2, <1>5, <1>7 DEF CollectJob
<1>9. runs'[u] # runs[u] => Creates(t)
  <2> HAVE runs'[u] # runs[u]
  <2>1. PICK n \in Tasks : Creates(n) /\ u = locals.task.uid
    BY <1>2, RunsGrow
  <2>2. locals.task.uid = id[n]
    BY <1>1, <2>1 DEF Creates, Working, Identifies, PastGetTask
  <2>3. n = t
    BY <1>1, <1>2, <2>1, <2>2 DEF Identifies
  <2> QED BY <2>1, <2>3
<1>10. ASSUME NEW end \in Ends
       PROVE  /\ <<u, end>> \in ended => <<u, end>> \in ended'
              /\ <<u, end>> \in ended' => <<u, end>> \in ended \/ JobEnds(JobName[t])
  <2>1. ASSUME NEW j \in JobNames, JobEnds(j)
        PROVE  /\ <<u, end>> \in ended => <<u, end>> \in ended'
               /\ <<u, end>> \in ended' => <<u, end>> \in ended \/ JobEnds(JobName[t])
    <3>1. Exists(jobs[j]) /\ \E e \in Ends : ended' = ended \cup {<<jobs[j].owner, e>>}
      BY <2>1 DEF JobEnds
    <3>2. PICK n \in Tasks : j = JobName[n]
      BY <1>1, <3>1 DEF Identifies
    <3>3. jobs[j].owner = id[n]
      BY <1>5, <1>7, <3>1, <3>2
    <3>4. id[n] = u => n = t
      BY <1>1, <1>2 DEF Identifies
    <3> QED BY <2>1, <3>1, <3>2, <3>3, <3>4
  <2>2. ASSUME NEW n \in Tasks, \/ Patches(n) \/ Deletes(n) \/ Creates(n)
                                \/ UserCreates(n) \/ UserDeletes(n)
        PROVE  ended' = ended
    BY <2>2 DEF Patches, Deletes, Creates, UserCreates, UserDeletes
  <2>3. ASSUME NEW j \in JobNames, CollectJob(j) \/ JobStarts(j) PROVE ended' = ended
    BY <2>3 DEF CollectJob, JobStarts
  <2> QED BY <2>1, <2>2, <2>3, Steps DEF Quiet
<1> QED BY <1>2, <1>3, <1>4, <1>5, <1>6, <1>8, <1>9, <1>10

LEMMA StatusFacts ==
    /\ \A phase \in Phases : StatusConditions("created") \subseteq StatusConditions(phase)
    /\ \A end \in Ends : StatusConditions("running") \subseteq StatusConditions(end)
    /\ \A u : {"Initialized", "Started"} \subseteq Lifecycle!True(u) <=> runs[u] > 0
    /\ \A u, phase : runs[u] > 0 /\ (phase \in Ends => <<u, phase>> \in ended)
                       => StatusConditions(phase) \subseteq Lifecycle!True(u)
    /\ \A u : ~(runs[u] > 0) /\ (\A end \in Ends : <<u, end>> \notin ended) => Lifecycle!True(u) = {}
BY DEF StatusConditions, Phases, Ends, Lifecycle!True, Lifecycle!Outcome
(* A step of the controller, whose Tasks are told apart by name, on a Task that stays. *)
Step == IInv /\ JobNamesApart /\ ~NamesReused /\ [Next]_vars
Stays(t) == Exists(tasks[t]) /\ Exists(tasks'[t])

(* What is true of a Task stays true. *)
LEMMA TrueGrows ==
    ASSUME Step, NEW t \in Tasks, Stays(t), NEW u, u = tasks[t].uid
    PROVE  /\ Lifecycle!True(u) \subseteq Lifecycle!True(u)'
           /\ runs[u] # 0 => runs'[u] # 0
           /\ \A x : Backed(t, x) /\ tasks'[t] = tasks[t] => Backed(t, x)'
<1>1. /\ u \in Uids /\ (runs[u] # 0 => runs'[u] # 0)
      /\ \A end \in Ends : <<u, end>> \in ended => <<u, end>> \in ended'
  BY Lives, RunsGrow DEF Step, IInv, Stays
<1>2. runs[u] \in Nat /\ runs'[u] \in Nat
  <2>1. TypeOK'
    BY TypeInductive DEF Step, IInv
  <2>2. runs \in [Uids -> Nat] /\ runs' \in [Uids -> Nat]
    BY <2>1 DEF TypeOK, Step, IInv
  <2> QED BY <1>1, <2>2
<1>3. runs[u] > 0 => runs'[u] > 0
  BY <1>1, <1>2
<1>4. Lifecycle!True(u) \subseteq Lifecycle!True(u)'
  BY <1>1, <1>3 DEF Lifecycle!True, Lifecycle!Outcome, Ends
<1>5. ASSUME NEW x, Backed(t, x), tasks'[t] = tasks[t] PROVE Backed(t, x)'
  BY <1>1, <1>5 DEF Backed
<1> QED BY <1>1, <1>4, <1>5

(* A Task runs for the first time as nobody knows of its Job. *)
LEMMA FirstRun ==
    ASSUME Step, NEW t \in Tasks, Exists(tasks[t]), Creates(t), NEW u, u = tasks[t].uid
    PROVE  /\ u \in Uids /\ runs[u] = 0 /\ runs'[u] # 0 /\ locals.task.uid = u
           /\ \A end \in Ends : <<u, end>> \notin ended /\ <<u, end>> \notin ended'
           /\ \A x \in JobCopies(t) : ~Exists(x)
           /\ tasks[t].conds = {} /\ tasks' = tasks
<1>1. Working(t, {"createJob"}) /\ ~Exists(jobs[JobName[t]]) /\ tasks' = tasks /\ ended' = ended
  BY DEF Creates
<1>2. Faithful(t)
  BY DEF Step, IInv, AllFaithful
<1>3. Exists(tasks'[t]) /\ Working(t, PastGetTask)
  BY <1>1 DEF Working, PastGetTask
<1>4. u \in Uids /\ locals.task.uid = u
  BY <1>3, Lives DEF Step, IInv
<1>5. ~Removed(t)
  BY <1>1 DEF Removed, Working
<1>6. runs[u] = 0
  BY <1>1, <1>2, <1>5 DEF Faithful
<1>7. \A end \in Ends : <<u, end>> \notin ended
  BY <1>4, <1>6 DEF Step, IInv, Identified
<1>8. \A x \in JobCopies(t) : ~Exists(x)
  BY <1>2, <1>6 DEF Faithful, Backed
<1>9. Lifecycle!True(u) = {}
  BY <1>6, <1>7, StatusFacts
<1>10. tasks[t].conds = {}
  BY <1>2, <1>9 DEF Faithful
<1>11. runs'[u] # 0
  <2>1. runs' = [runs EXCEPT ![u] = @ + 1]
    BY <1>4 DEF Creates
  <2>2. runs \in [Uids -> Nat]
    BY DEF Step, IInv, TypeOK
  <2> QED BY <1>4, <2>1, <2>2
<1> QED BY <1>1, <1>4, <1>6, <1>7, <1>8, <1>10, <1>11

(* What becomes of the Job of a Task that stays. *)
LEMMA JobMoves ==
    ASSUME Step, NEW t \in Tasks, Stays(t), jobs'[JobName[t]] # jobs[JobName[t]]
    PROVE  LET old == jobs[JobName[t]]
               new == jobs'[JobName[t]]
           IN  /\ WriteJob(JobName[t], new) /\ UNCHANGED <<jobCache, tasks>> /\ new \in JobObjects
               /\ \/ Deletes(t) /\ new = NoJob
                  \/ Creates(t) /\ new = Converted /\ Exists(new) /\ new.phase = "created"
                  \/ /\ Exists(old) /\ old.phase = "created" /\ Exists(new) /\ new.phase = "running"
                     /\ UNCHANGED <<runs, ended, pc, locals>>
                  \/ /\ Exists(old) /\ old.phase = "running" /\ Exists(new) /\ new.phase \in Ends
                     /\ JobEnds(JobName[t]) /\ ended' = ended \cup {<<tasks[t].uid, new.phase>>}
                     /\ UNCHANGED <<runs, pc, locals>>
<1> DEFINE k == JobName[t]
<1>a. k \in JobNames /\ TypeOK /\ Held /\ jobs[k] \in JobObjects
  BY FieldTypes DEF Step, IInv
<1>b. \A new : WriteJob(k, new) => jobs'[k] = new
  BY <1>a DEF WriteJob, TypeOK
<1>c. "created" \in Phases /\ "running" \in Phases /\ Ends \subseteq Phases
  BY DEF Phases, Ends
<1>1. CASE Deletes(t)
  BY <1>1, <1>b, NoObjects DEF Deletes
<1>2. CASE Creates(t)
  <2>1. WriteJob(k, Converted) /\ UNCHANGED <<jobCache, tasks>> /\ pc = "createJob"
    BY <1>2 DEF Creates, Working
  <2>2. Converted \in JobObjects /\ Exists(Converted) /\ Converted.phase = "created"
    BY <1>a, <2>1, NewObjects
  <2> HIDE DEF Converted
  <2> QED BY <1>2, <1>b, <2>1, <2>2
<1>3. CASE JobStarts(k)
  <2> DEFINE new == [jobs[k] EXCEPT !.phase = "running"]
  <2>1. /\ WriteJob(k, new) /\ Exists(jobs[k]) /\ jobs[k].phase = "created"
        /\ UNCHANGED <<jobCache, tasks, runs, ended, pc, locals>>
    BY <1>3 DEF JobStarts, workVars
  <2>2. new \in JobObjects /\ new.phase = "running" /\ Exists(new)
    BY <1>a, <1>c, <2>1, ObjectTypes DEF Exists
  <2> HIDE DEF new
  <2> QED BY <1>b, <2>1, <2>2
<1>4. CASE JobEnds(k)
  <2>1. PICK end \in Ends : /\ WriteJob(k, [jobs[k] EXCEPT !.phase = end])
                            /\ ended' = ended \cup {<<jobs[k].owner, end>>}
    BY <1>4 DEF JobEnds
  <2> DEFINE new == [jobs[k] EXCEPT !.phase = end]
  <2>2. /\ Exists(jobs[k]) /\ jobs[k].phase = "running"
        /\ UNCHANGED <<jobCache, tasks, runs, pc, locals>>
    BY <1>4 DEF JobEnds, workVars
  <2>3. new \in JobObjects /\ new.phase = end /\ Exists(new)
    BY <1>a, <1>c, <2>2, ObjectTypes DEF Exists
  <2>4. jobs[k].owner = tasks[t].uid
    <3>1. jobs[k] \in JobCopies(t)
      BY DEF JobCopies
    <3> QED BY <2>2, <3>1, Lives DEF Step, IInv, Stays
  <2> HIDE DEF new
  <2> QED BY <1>4, <1>b, <2>1, <2>2, <2>3, <2>4 DEF new
<1>5. ~CollectJob(k)
  BY Lives DEF Step, IInv, Stays
<1> QED BY <1>1, <1>2, <1>3, <1>4, <1>5, Changes DEF Step, IInv
(* The copies of the Job, and their order, after a step. *)
LEMMA JobGrows ==
    ASSUME Step, NEW t \in Tasks, Stays(t)
    PROVE  /\ JobInOrder(JobOrder, t)'
           /\ JobCopies(t)' \subseteq JobCopies(t) \cup {jobs'[JobName[t]]}
           /\ JobCopies(t) \subseteq JobObjects
           /\ \A x \in JobCopies(t) : Exists(x) /\ Exists(jobs'[JobName[t]]) =>
                 StatusConditions(x.phase) \subseteq StatusConditions(jobs'[JobName[t]].phase)
<1> DEFINE old == jobs[JobName[t]]
           new == jobs'[JobName[t]]
<1>a. /\ TypeOK /\ Held /\ JobName[t] \in JobNames /\ old \in JobObjects
      /\ jobCache[JobName[t]] \in JobObjects /\ jobWatch[JobName[t]] \in Seq(JobObjects)
  BY FieldTypes DEF Step, IInv
<1>b. JobInOrder(JobOrder, t)
  BY DEF Step, IInv, AllFaithful, Faithful, JobInOrder, Stays
<1>c. \A x \in JobCopies(t) : <<x, old>> \in JobOrder
  BY <1>b DEF JobInOrder, InOrder, JobCopies
<1>1. JobCopies(t) \subseteq JobObjects
  BY <1>c, OrderTypes
<1>2. CASE new = old
  <2>1. JobInOrder(JobOrder, t)' /\ JobCopies(t)' \subseteq JobCopies(t)
    BY <1>b, <1>2, JobRead DEF Step, IInv
  <2> QED BY <1>a, <1>1, <1>2, <1>c, <2>1, OrderTypes
<1>3. CASE new # old
  <2>1. WriteJob(JobName[t], new) /\ UNCHANGED jobCache /\ new \in JobObjects
    BY <1>3, JobMoves
  <2>2. \A x \in JobCopies(t) : Exists(x) /\ Exists(new) =>
           StatusConditions(x.phase) \subseteq StatusConditions(new.phase)
    <3> TAKE x \in JobCopies(t)
    <3> HAVE Exists(x) /\ Exists(new)
    <3>1. CASE Creates(t)
      BY <3>1, FirstRun DEF Stays
    <3>2. CASE Exists(old) /\ StatusConditions(old.phase) \subseteq StatusConditions(new.phase)
      <4>1. StatusConditions(x.phase) \subseteq StatusConditions(old.phase)
        BY <1>a, <1>c, <1>1, <3>2, OrderTypes
      <4> QED BY <3>2, <4>1
    <3>3. new.phase \in Phases
      BY <2>1, ObjectTypes
    <3> QED BY <1>3, <3>1, <3>2, <3>3, JobMoves, NoObjects, StatusFacts
  <2> HIDE DEF new
  <2>3. \A x \in JobCopies(t) \cup {new} : <<x, new>> \in JobOrder
    BY <1>1, <2>1, <2>2, OrderTypes
  <2>4. JobInOrder(JobOrder, t)' /\ JobCopies(t)' \subseteq JobCopies(t) \cup {new}
    BY <1>a, <1>b, <2>1, <2>3, JobWrite
  <2> QED BY <1>1, <2>2, <2>4 DEF new
<1> QED BY <1>2, <1>3

(* A patch shows what is true and what the copies of the Job will show. *)
LEMMA PatchTrue ==
    ASSUME Step, NEW t \in Tasks, Stays(t), Patches(t), NEW u, u = tasks[t].uid
    PROVE  /\ tasks'[t] = Patched(tasks[t]) /\ UNCHANGED <<jobs, runs, ended>>
           /\ tasks[t].conds \subseteq tasks'[t].conds
           /\ tasks'[t].conds \subseteq Lifecycle!True(u)
           /\ \A x \in JobCopies(t) : Exists(x) => tasks'[t].conds \subseteq StatusConditions(x.phase)
<1> DEFINE conds == locals.task.conds \cup StatusConditions(locals.job.phase)
<1>a. /\ TypeOK /\ Working(t, {"readPods", "patchTask"}) /\ Working(t, PastGetTask)
      /\ Exists(tasks[t]) /\ tasks[t] \in TaskObjects /\ Faithful(t) /\ AllFaithful
      /\ Exists(locals.task) /\ locals.task \in TaskObjects
  BY FieldTypes DEF Patches, Working, Step, IInv, Stays, AllFaithful, PastGetTask, Held
<1>1. tasks'[t] = Patched(tasks[t])
  BY <1>a, NewObjects, TaskWritten DEF Patches, Step, IInv
<1>2. tasks'[t].conds = tasks[t].conds \/ tasks'[t].conds = conds
  <2>1. conds \subseteq Conditions
    BY <1>a, FieldTypes DEF StatusConditions, Conditions
  <2>2. Patched(tasks[t]) = tasks[t] \/ Patched(tasks[t]) = [tasks[t] EXCEPT !.conds = conds]
    BY DEF Patched
  <2> HIDE DEF conds
  <2>3. [tasks[t] EXCEPT !.conds = conds].conds = conds
    BY <1>a, <2>1, ObjectTypes
  <2> QED BY <1>1, <2>2, <2>3
<1>3. locals.task.conds \subseteq tasks[t].conds
  <2>1. <<locals.task, tasks[t]>> \in TaskOrder
    BY <1>a DEF Step, IInv, TasksOrdered, TaskCopies
  <2> QED BY <1>a, <2>1, OrderTypes
<1>4. /\ Exists(locals.job) /\ locals.job \in JobObjects /\ Backed(t, locals.job)
      /\ \A x \in JobCopies(t) : <<locals.job, x>> \in JobOrder
  BY <1>a, FieldTypes DEF Faithful
<1>5. StatusConditions(locals.job.phase) \subseteq Lifecycle!True(u)
  <2>1. u \in Uids /\ runs \in [Uids -> Nat]
    BY <1>a, FieldTypes DEF TypeOK
  <2>2. runs[u] > 0
    BY <1>4, <2>1 DEF Backed
  <2> QED BY <1>4, <2>2, StatusFacts DEF Backed
<1>6. tasks[t].conds \subseteq Lifecycle!True(u)
  BY <1>a DEF Faithful
<1>7. ASSUME NEW x \in JobCopies(t), Exists(x)
      PROVE  /\ tasks[t].conds \subseteq StatusConditions(x.phase)
             /\ StatusConditions(locals.job.phase) \subseteq StatusConditions(x.phase)
  <2>1. Backed(t, x)
    BY <1>a, <1>7 DEF Faithful
  <2>2. x \in JobObjects
    BY <1>7, JobGrows
  <2> QED BY <1>4, <1>7, <2>1, <2>2, OrderTypes DEF Backed
<1>8. tasks[t].conds \subseteq tasks'[t].conds
  BY <1>a, <1>1, PatchGrows
<1> QED BY <1>1, <1>2, <1>3, <1>5, <1>6, <1>7, <1>8 DEF Patches

(* When the Job of a Task is gone, all copies of the Task tell. *)
LEMMA RemovedStays ==
    ASSUME Step, NEW t \in Tasks, Stays(t), Removed(t)
    PROVE  Removed(t)'
<1>a. TypeOK /\ Held /\ [Next]_vars /\ AllFaithful
  BY DEF Step, IInv
<1>1. \A x \in TaskCopies(t)' : Exists(x) => Completed(x)
  <2>1. CASE tasks'[t] = tasks[t]
    BY <1>a, <2>1, TaskRead DEF Removed
  <2>2. CASE Patches(t)
    <3>1. Patched(tasks[t]) \in TaskObjects /\ tasks[t] \in TaskCopies(t)
      BY <1>a, NewObjects DEF TaskCopies, Stays
    <3>2. Completed(Patched(tasks[t]))
      BY <1>a, <2>2, <3>1, PatchGrows DEF Removed, Stays, Completed
    <3>3. TaskCopies(t)' \subseteq TaskCopies(t) \cup {Patched(tasks[t])}
      BY <1>a, <2>2, <3>1, TaskWrite DEF Patches
    <3> QED BY <3>2, <3>3 DEF Removed
  <2> QED BY <2>1, <2>2, Lives DEF Step, IInv, Stays
<1>2. ASSUME Working(t, {"getJob", "createJob"})' PROVE FALSE
  <2>1. pc' \in PastGetTask /\ locals'.key = t /\ locals.key = t /\ pc' \in {"getJob", "createJob"}
    BY <1>2, <1>a, WorkerTask DEF Working, PastGetTask
  <2>2. taskCache[t] \in TaskCopies(t)
    BY DEF TaskCopies, Copies
  <2>3. CASE /\ pc = "getTask" /\ locals'.task = taskCache[t] /\ Exists(locals'.task)
             /\ pc' = IF Completed(locals'.task) THEN "deleteJob" ELSE "getJob"
    BY <2>1, <2>2, <2>3 DEF Removed
  <2>4. CASE pc \in PastGetTask
    <3>1. pc \in {"getJob", "createJob"}
      BY <1>a, <2>1, <2>4, WorkerSteps DEF PastGetTask, Creates, Working
    <3> QED BY <2>1, <3>1 DEF Removed, Working
  <2> QED BY <1>a, <2>1, <2>3, <2>4, WorkerTask
<1> QED BY <1>1, <1>2 DEF Removed
(* A Task that stays is told the truth: what a step does to each part. *)
LEMMA FaithfulStays ==
    ASSUME Step, NEW t \in Tasks, Stays(t), NEW u, u = tasks[t].uid
    PROVE  Faithful(t)'
<1> DEFINE old == jobs[JobName[t]]
           new == jobs'[JobName[t]]
<1>a. /\ TypeOK /\ Held /\ [Next]_vars /\ AllFaithful /\ Faithful(t)
      /\ JobName[t] \in JobNames /\ old \in JobObjects
  BY FieldTypes DEF Step, IInv, AllFaithful, Stays
<1>b. /\ tasks'[t].uid = u /\ u \in Uids /\ (tasks'[t] = tasks[t] \/ Patches(t))
      /\ (runs'[u] # runs[u] => Creates(t))
      /\ \A end \in Ends : /\ <<u, end>> \in ended => <<u, end>> \in ended'
                           /\ <<u, end>> \in ended' => <<u, end>> \in ended \/ JobEnds(JobName[t])
  BY Lives DEF Step, IInv, Stays
<1>c. old \in JobCopies(t) /\ new \in JobCopies(t)'
  BY DEF JobCopies
<1>d. "created" \notin Ends /\ "running" \notin Ends
  BY DEF Ends
<1>e. ~Creates(t) => (runs'[u] = runs[u])
  BY <1>b
<1>1. runs'[u] # 0 => Exists(new) \/ Removed(t)'
  <2> HAVE runs'[u] # 0
  <2>1. CASE Creates(t)
    <3>1. new = Converted /\ Exists(Converted)
      <4>1. Converted \in JobObjects /\ Exists(Converted)
        BY <1>a, <2>1, NewObjects DEF Creates, Working
      <4> HIDE DEF Converted
      <4> QED BY <1>a, <2>1, <4>1, JobWritten DEF Creates
    <3> QED BY <3>1
  <2>2. CASE ~Creates(t)
    <3>1. Exists(old) \/ Removed(t)
      BY <1>a, <1>e, <2>2 DEF Faithful
    <3>2. CASE Removed(t)
      BY <3>2, RemovedStays
    <3>3. CASE Exists(old) /\ ~Deletes(t)
      BY <2>2, <3>3, JobMoves
    <3>4. CASE Deletes(t)
      <4>1. Working(t, {"deleteJob"}) /\ tasks' = tasks /\ pc' = "idle"
        BY <3>4 DEF Deletes
      <4>2. \A x \in TaskCopies(t) : Exists(x) => Completed(x)
        BY <1>a, <4>1 DEF Faithful
      <4>3. TaskCopies(t)' \subseteq TaskCopies(t)
        BY <1>a, <4>1, TaskRead
      <4> QED BY <4>1, <4>2, <4>3 DEF Removed, Working
    <3> QED BY <3>1, <3>2, <3>3, <3>4
  <2> QED BY <2>1, <2>2
<1>2. Exists(new) => \A end \in Ends : <<u, end>> \in ended' => new.phase = end
  <2> SUFFICES ASSUME Exists(new), NEW end \in Ends, <<u, end>> \in ended'
               PROVE  new.phase = end
    OBVIOUS
  <2>1. CASE JobEnds(JobName[t])
    <3>1. Exists(old) /\ old.phase = "running"
      BY <2>1 DEF JobEnds
    <3>2. new # old
      <4>1. PICK e \in Ends : WriteJob(JobName[t], [old EXCEPT !.phase = e])
        BY <2>1 DEF JobEnds
      <4>2. [old EXCEPT !.phase = e] \in JobObjects /\ [old EXCEPT !.phase = e].phase = e
        BY <1>a, <3>1, ObjectTypes DEF Phases
      <4>3. new = [old EXCEPT !.phase = e]
        BY <1>a, <4>1, <4>2, JobWritten
      <4> QED BY <1>d, <3>1, <4>2, <4>3
    <3>3. new.phase \in Ends /\ ended' = ended \cup {<<u, new.phase>>}
      BY <1>d, <3>1, <3>2, NoObjects, JobMoves DEF Creates
    <3>4. <<u, end>> \notin ended
      BY <1>a, <1>d, <3>1 DEF Faithful
    <3> QED BY <3>3, <3>4
  <2>2. CASE ~JobEnds(JobName[t])
    <3>1. <<u, end>> \in ended
      BY <1>b, <2>2
    <3>2. ~Creates(t)
      BY <3>1, FirstRun DEF Stays
    <3>3. Exists(old) => old.phase = end
      BY <1>a, <3>1 DEF Faithful
    <3> QED BY <1>d, <2>2, <3>2, <3>3, NoObjects, JobMoves
  <2> QED BY <2>1, <2>2
<1>3. \A x \in JobCopies(t)' : Exists(x) => Backed(t, x)'
  <2> SUFFICES ASSUME NEW x \in JobCopies(t)', Exists(x) PROVE Backed(t, x)'
    OBVIOUS
  <2>1. CASE x \in JobCopies(t) /\ tasks'[t] = tasks[t]
    BY <1>a, <2>1, TrueGrows DEF Faithful
  <2>2. CASE Patches(t)
    <3>1. UNCHANGED <<jobs, runs, ended>>
      BY <2>2, PatchTrue
    <3>2. x \in JobCopies(t)
      BY <1>a, <3>1, JobRead
    <3>3. Backed(t, x) /\ tasks'[t].conds \subseteq StatusConditions(x.phase)
      BY <1>a, <2>2, <3>2, PatchTrue DEF Faithful
    <3> QED BY <1>b, <3>1, <3>3 DEF Backed
  <2>3. CASE x = new /\ new # old /\ tasks'[t] = tasks[t]
    <3>1. CASE Creates(t)
      <4>1. /\ runs'[u] # 0 /\ tasks[t].conds = {} /\ new.phase = "created"
        <5>1. Converted \in JobObjects /\ Converted.phase = "created"
          BY <1>a, <3>1, NewObjects DEF Creates, Working
        <5>2. new = Converted
          <6> HIDE DEF Converted
          <6> QED BY <1>a, <3>1, <5>1, JobWritten DEF Creates
        <5> QED BY <3>1, <5>1, <5>2, FirstRun DEF Stays
      <4> QED BY <1>b, <1>d, <2>3, <4>1 DEF Backed
    <3>2. CASE /\ Exists(old) /\ old.phase = "created" /\ Exists(new) /\ new.phase = "running"
               /\ UNCHANGED <<runs, ended>>
      <4>1. Backed(t, old)
        BY <1>a, <1>c, <3>2 DEF Faithful
      <4>2. StatusConditions(old.phase) \subseteq StatusConditions(new.phase)
        BY <1>c, <3>2, JobGrows
      <4> QED BY <1>b, <1>d, <2>3, <3>2, <4>1, <4>2 DEF Backed
    <3>3. CASE /\ Exists(old) /\ old.phase = "running" /\ Exists(new) /\ new.phase \in Ends
               /\ ended' = ended \cup {<<u, new.phase>>} /\ UNCHANGED runs
      <4>1. Backed(t, old)
        BY <1>a, <1>c, <3>3 DEF Faithful
      <4>2. StatusConditions(old.phase) \subseteq StatusConditions(new.phase)
        BY <1>c, <3>3, JobGrows
      <4> QED BY <1>b, <2>3, <3>3, <4>1, <4>2 DEF Backed
    <3> QED BY <2>3, <3>1, <3>2, <3>3, NoObjects, JobMoves
  <2> QED BY <1>b, <1>c, <2>1, <2>2, <2>3, JobGrows
<1>4. InOrder(JobOrder, jobCache[JobName[t]], jobWatch[JobName[t]], jobs[JobName[t]])'
  BY JobGrows DEF JobInOrder
<1>5. tasks'[t].conds \subseteq Lifecycle!True(u)'
  <2>1. tasks'[t].conds \subseteq Lifecycle!True(u)
    BY <1>a, <1>b, PatchTrue DEF Faithful
  <2> QED BY <2>1, TrueGrows
<1>6. Working(t, {"readPods", "patchTask"})' =>
        /\ Exists(locals'.job) /\ Backed(t, locals.job)'
        /\ \A x \in JobCopies(t)' : <<locals'.job, x>> \in JobOrder
  <2> HAVE Working(t, {"readPods", "patchTask"})'
  <2>1. /\ pc' \in {"readPods", "patchTask"} /\ locals'.key = t
        /\ locals.key = t /\ ~Patches(t) /\ ~Deletes(t)
    BY <1>a, WorkerTask DEF Working, PastGetTask, Patches, Deletes
  <2>2. tasks'[t] = tasks[t]
    BY <1>b, <2>1
  <2>3. CASE Working(t, {"readPods", "patchTask"}) /\ locals' = locals
    <3>1. /\ Exists(locals.job) /\ Backed(t, locals.job) /\ locals.job \in JobObjects
          /\ \A x \in JobCopies(t) : <<locals.job, x>> \in JobOrder
      BY <1>a, <2>3, FieldTypes DEF Faithful
    <3>2. Backed(t, locals.job)'
      BY <2>2, <2>3, <3>1, TrueGrows
    <3>3. <<locals.job, new>> \in JobOrder
      <4>1. ~Creates(t)
        BY <2>3 DEF Creates, Working
      <4>2. CASE new = old
        BY <1>c, <3>1, <4>2
      <4>3. CASE new # old
        <5>1. Exists(old) /\ Exists(new) /\ new \in JobObjects
          BY <2>1, <4>1, <4>3, JobMoves
        <5>2. StatusConditions(old.phase) \subseteq StatusConditions(new.phase)
          BY <1>c, <5>1, JobGrows
        <5>3. StatusConditions(locals.job.phase) \subseteq StatusConditions(old.phase)
          BY <1>a, <1>c, <3>1, <5>1, OrderTypes
        <5> QED BY <3>1, <5>1, <5>2, <5>3, OrderTypes
      <4> QED BY <4>2, <4>3
    <3> QED BY <2>3, <3>1, <3>2, <3>3, JobGrows
  <2>4. CASE /\ pc = "getJob" /\ Exists(jobCache[JobName[t]])
             /\ locals' = [locals EXCEPT !.job = jobCache[JobName[t]]]
             /\ UNCHANGED <<tasks, taskCache, taskWatch, jobs, jobCache, jobWatch, runs, ended>>
    <3>1. locals'.job = jobCache[JobName[t]]
      BY <1>a, <2>4 DEF TypeOK
    <3>2. jobCache[JobName[t]] \in JobCopies(t) /\ jobCache[JobName[t]] \in JobObjects
      BY <1>a, FieldTypes DEF JobCopies, Copies
    <3>3. Backed(t, jobCache[JobName[t]])
      BY <1>a, <2>4, <3>2 DEF Faithful
    <3>4. Backed(t, locals.job)'
      BY <2>4, <3>1, <3>3 DEF Backed
    <3>5. JobCopies(t)' = JobCopies(t)
      BY <2>4 DEF JobCopies
    <3>6. <<jobCache[JobName[t]], jobCache[JobName[t]]>> \in JobOrder
      BY <3>2, OrderTypes
    <3>7. \A x \in JobCopies(t) : <<jobCache[JobName[t]], x>> \in JobOrder
      BY <1>a, <3>6 DEF Faithful, InOrder, JobCopies, Copies
    <3> QED BY <2>4, <3>1, <3>4, <3>5, <3>7
  <2>5. CASE Creates(t)
    <3>1. locals' = [locals EXCEPT !.job = Converted, !.desired = TRUE]
      BY <2>1, <2>5 DEF Creates
    <3>2. Converted \in JobObjects /\ Exists(Converted) /\ Converted.phase = "created"
      BY <1>a, <2>5, NewObjects DEF Creates, Working
    <3>3. new = Converted /\ locals'.job = Converted
      <4> HIDE DEF Converted
      <4>1. new = Converted
        BY <1>a, <2>5, <3>2, JobWritten DEF Creates
      <4>2. locals'.job = Converted
        BY <1>a, <3>1 DEF TypeOK
      <4> QED BY <4>1, <4>2
    <3>4. Backed(t, jobs[JobName[t]])'
      BY <1>3, <1>c, <3>2, <3>3
    <3>5. \A x \in JobCopies(t)' : <<Converted, x>> \in JobOrder
      <4> HIDE DEF Converted
      <4>1. \A x \in JobCopies(t) : ~Exists(x) /\ x \in JobObjects
        BY <2>5, FirstRun, JobGrows DEF Stays
      <4>2. \A x \in JobCopies(t)' : x \in JobCopies(t) \/ x = Converted
        BY <3>3, JobGrows
      <4> QED BY <3>2, <4>1, <4>2, OrderTypes
    <3>6. Backed(t, locals.job)'
      BY <3>3, <3>4 DEF Backed
    <3> QED BY <3>2, <3>3, <3>5, <3>6
  <2>6. pc = "readPods" /\ UNCHANGED locals => Working(t, {"readPods", "patchTask"}) /\ locals' = locals
    BY <2>1 DEF Working
  <2>7. UNCHANGED <<pc, locals>> => Working(t, {"readPods", "patchTask"}) /\ locals' = locals
    BY <2>1 DEF Working
  <2> QED BY <1>a, <2>1, <2>3, <2>4, <2>5, <2>6, <2>7, WorkerSteps
<1>7. Working(t, {"deleteJob"})' =>
        \A x \in TaskCopies(t)' \cup {locals'.task} : Exists(x) => Completed(x)
  <2> HAVE Working(t, {"deleteJob"})'
  <2>1. pc' \in PastGetTask /\ pc' = "deleteJob" /\ locals.key = t /\ locals'.key = t /\ ~Patches(t)
    BY <1>a, WorkerTask DEF Working, PastGetTask, Patches
  <2>2. CASE /\ pc = "getTask" /\ locals'.task = taskCache[t] /\ Exists(locals'.task)
             /\ pc' = IF Completed(locals'.task) THEN "deleteJob" ELSE "getJob"
             /\ UNCHANGED <<tasks, taskCache, taskWatch>>
    <3>1. Completed(taskCache[t])
      BY <2>1, <2>2
    <3>2. TaskCopies(t)' = TaskCopies(t)
      BY <2>2 DEF TaskCopies
    <3>3. \A x \in TaskCopies(t) : x = taskCache[t] \/ <<taskCache[t], x>> \in TaskOrder
      BY DEF Step, IInv, TasksOrdered, InOrder, TaskCopies, Copies
    <3>4. \A x \in TaskCopies(t) : Exists(x) => Completed(x)
      BY <2>2, <3>1, <3>3, OrderTypes DEF Completed
    <3> QED BY <2>2, <3>1, <3>2, <3>4
  <2>3. CASE pc \in PastGetTask /\ locals'.task = locals.task
    <3>1. pc = "deleteJob"
      BY <1>a, <2>1, <2>3, WorkerSteps DEF PastGetTask, Creates
    <3>2. \A x \in TaskCopies(t) \cup {locals.task} : Exists(x) => Completed(x)
      BY <1>a, <2>1, <3>1 DEF Faithful, Working
    <3>3. TaskCopies(t)' \subseteq TaskCopies(t)
      BY <1>a, <1>b, <2>1, TaskRead
    <3> QED BY <2>3, <3>2, <3>3
  <2> QED BY <1>a, <2>1, <2>2, <2>3, WorkerTask
<1> QED BY <1>b, <1>1, <1>2, <1>3, <1>4, <1>5, <1>6, <1>7 DEF Faithful
(* A Task that is new has nothing to tell. *)
LEMMA FaithfulNew ==
    ASSUME Step, NEW t \in Tasks, UserCreates(t)
    PROVE  Faithful(t)'
<1>a. TypeOK /\ Held /\ Identified /\ JobName[t] \in JobNames
  BY FieldTypes DEF Step, IInv
<1> DEFINE u == made.tasks + 1
           new == [uid |-> u, conds |-> {}]
<1>1. WriteTask(t, new) /\ UNCHANGED <<taskCache, jobs, jobCache, jobWatch, runs, ended, pc, locals>>
  BY DEF UserCreates, workVars
<1>2. u \in Uids /\ new \in TaskObjects /\ u > made.tasks
  <2>1. made.tasks \in Nat
    BY <1>a, FieldTypes
  <2>2. u > made.tasks
    BY <2>1
  <2> QED BY <1>a, <2>2, NewObjects
<1>3. tasks'[t].uid = u /\ tasks'[t].conds = {}
  <2>1. tasks'[t] = new
    BY <1>1, <1>2, <1>a, TaskWritten
  <2> QED BY <2>1
<1>4. runs[u] = 0 /\ \A end \in Ends : <<u, end>> \notin ended
  BY <1>a, <1>2 DEF Identified
<1>5. /\ \A x \in JobCopies(t) : ~Exists(x)
      /\ ~Working(t, PastGetTask) \/ ~Exists(locals.task)
  BY <1>a, NoCopies DEF Step
<1>6. ~Working(t, PastGetTask)
  BY <1>a, <1>5 DEF Held, Working
<1>7. ~Working(t, {"readPods", "patchTask"})' /\ ~Working(t, {"deleteJob"})'
  BY <1>1, <1>6 DEF Working, PastGetTask
<1> HIDE DEF new, u
<1>8. JobCopies(t)' = JobCopies(t) /\ jobs'[JobName[t]] \in JobCopies(t)
  BY <1>1 DEF JobCopies
<1>9. JobInOrder(JobOrder, t)'
  <2> DEFINE k == JobName[t]
  <2>1. /\ jobs[k] \in JobObjects /\ jobCache[k] \in JobObjects /\ jobWatch[k] \in Seq(JobObjects)
    BY <1>a, FieldTypes
  <2>2. \A i \in 1 .. Len(jobWatch[k]) : jobWatch[k][i] \in JobObjects
    BY <2>1, ElementOfSeq
  <2>3. JobCopies(t) \subseteq JobObjects
    BY <2>1, <2>2 DEF JobCopies, Copies
  <2>4. \A x, y \in JobCopies(t) : <<x, y>> \in JobOrder
    BY <1>5, <2>3, OrderTypes
  <2>5. JobInOrder(JobOrder, t)
    BY <2>4 DEF JobInOrder, InOrder, JobCopies, Copies
  <2> QED BY <1>1, <2>5 DEF JobInOrder
<1> QED BY <1>1, <1>3, <1>4, <1>5, <1>7, <1>8, <1>9 DEF Faithful, JobInOrder

LEMMA InvariantInductive ==
    ASSUME Step
    PROVE  IInv'
<1>1. TypeOK' /\ Held'
  BY TypeInductive, HeldInductive DEF Step, IInv
<1>2. Identified'
  BY IdentifiedInductive DEF Step, IInv
<1>3. TasksOrdered'
  BY TasksOrderedInductive DEF Step, IInv
<1>4. ASSUME NEW t \in Tasks, Exists(tasks'[t]) PROVE Faithful(t)'
  <2>1. CASE Exists(tasks[t])
    BY <1>4, <2>1, FaithfulStays DEF Stays
  <2>2. CASE UserCreates(t)
    BY <2>2, FaithfulNew
  <2>3. CASE ~Exists(tasks[t]) /\ ~UserCreates(t)
    <3>1. tasks'[t] # tasks[t] => Patches(t) \/ UserDeletes(t)
      BY <2>3, Changes DEF Step, IInv
    <3> QED BY <1>4, <2>3, <3>1 DEF Patches, UserDeletes
  <2> QED BY <2>1, <2>2, <2>3
<1> QED BY <1>1, <1>2, <1>3, <1>4 DEF IInv, AllFaithful

LEMMA InvariantInit ==
    ASSUME Init
    PROVE  IInv
<1>1. TypeOK /\ Held
  <2>1. \A S : <<>> \in Seq(S)
    BY EmptySeq
  <2>2. StoreTypes /\ CacheTypes
    BY <2>1, NoObjects DEF Init, StoreTypes, CacheTypes
  <2>3. WorkTypes /\ Held
    BY NoObjects DEF Init, WorkTypes, Locals, Held, PastGetTask
  <2>4. HistoryTypes
    BY DEF Init, HistoryTypes
  <2> QED BY <2>2, <2>3, <2>4, TypeParts
<1>2. /\ \A t \in Tasks : /\ tasks[t] = NoTask /\ taskCache[t] = NoTask /\ taskWatch[t] = <<>>
                         /\ JobName[t] \in JobNames
      /\ \A j \in JobNames : jobs[j] = NoJob /\ jobCache[j] = NoJob /\ jobWatch[j] = <<>>
      /\ pc = "idle"
  BY <1>1, FieldTypes DEF Init
<1>3. \A t \in Tasks : TaskCopies(t) = {NoTask} /\ JobCopies(t) = {NoJob}
  BY <1>2, Listed DEF TaskCopies, JobCopies, Copies
<1>4. Identified
  <2> DEFINE id == [t \in Tasks |-> 0]
  <2>1. id \in [Tasks -> Nat] /\ \A t \in Tasks : id[t] = 0
    OBVIOUS
  <2>2. made.tasks = 0
    BY DEF Init
  <2> HIDE DEF id
  <2>3. Identifies(id)
    <3>1. \A t \in Tasks : id[t] <= made.tasks /\ (id[t] # 0 => t \in made.names)
      BY <2>1, <2>2
    <3>2. \A t \in Tasks : \A x \in TaskCopies(t) \cup JobCopies(t) : ~Exists(x)
      BY <1>3, NoObjects
    <3>3. \A j \in JobNames : ~Exists(jobs[j])
      BY <1>2, NoObjects
    <3>4. pc \notin PastGetTask
      BY <1>2 DEF PastGetTask
    <3> QED BY <2>1, <3>1, <3>2, <3>3, <3>4 DEF Identifies
  <2>4. \A u \in Uids : runs[u] = 0
    BY DEF Init
  <2>5. \A u, end : <<u, end>> \notin ended
    BY DEF Init
  <2> QED BY <1>2, <2>1, <2>3, <2>4, <2>5, NoObjects DEF Identified
<1>5. TasksOrdered
  <2>1. <<NoTask, NoTask>> \in TaskOrder
    BY NoObjects, OrderTypes
  <2>2. InOrder(TaskOrder, NoTask, <<>>, NoTask)
    BY <2>1, Listed
  <2> QED BY <1>2, <2>2 DEF TasksOrdered, Working, PastGetTask
<1>6. AllFaithful
  BY <1>2, NoObjects DEF AllFaithful
<1> QED BY <1>1, <1>4, <1>5, <1>6 DEF IInv
LEMMA Invariant ==
    ASSUME JobNamesApart, ~NamesReused
    PROVE  Spec => []IInv
<1>1. Init => IInv
  BY InvariantInit
<1>2. IInv /\ [Next]_vars => IInv'
  BY InvariantInductive DEF Step
<1> QED BY <1>1, <1>2, PTL DEF Spec

-----------------------------------------------------------------------------
(* The lifecycle of a Task *)

(* What TaskLifecycle sees of the controller's state. *)
Kept == {jobs[j].owner : j \in JobNames} \ {0}
Reported == [u \in Uids |-> ConditionsOf(u)]

(* One Task has a uid, and so the conditions that are reported under it. *)
LEMMA ConditionsUnion ==
    ASSUME NEW ts \in [Tasks -> TaskObjects],
           \A t1, t2 \in Tasks : Exists(ts[t1]) /\ ts[t1].uid = ts[t2].uid => t1 = t2,
           NEW u \in Uids
    PROVE  LET conds == UNION {ts[t].conds : t \in {n \in Tasks : ts[n].uid = u}}
           IN  /\ \A t \in Tasks : ts[t].uid = u => conds = ts[t].conds
               /\ (\A t \in Tasks : ts[t].uid # u) => conds = {}
<1>1. ASSUME NEW t \in Tasks, ts[t].uid = u
      PROVE  {n \in Tasks : ts[n].uid = u} = {t}
  BY <1>1 DEF Exists, Uids
<1> QED BY <1>1

(* Tasks and Jobs are told apart by their uids, in a state the controller reaches. *)
LEMMA Apart ==
    ASSUME IInv
    PROVE  /\ \A t1, t2 \in Tasks : Exists(tasks[t1]) /\ tasks[t1].uid = tasks[t2].uid => t1 = t2
           /\ \A j1, j2 \in JobNames :
                Exists(jobs[j1]) /\ jobs[j1].owner = jobs[j2].owner => j1 = j2
           /\ \A j \in JobNames : /\ Exists(jobs[j]) => jobs[j].owner \in Uids /\ jobs[j].owner # 0
                                 /\ ~Exists(jobs[j]) => jobs[j].owner = 0
           /\ \A t \in Tasks : tasks[t].uid <= made.tasks \/ ~Exists(tasks[t])
           /\ \A t1, t2 \in Tasks : Exists(jobs[JobName[t1]]) /\ Exists(tasks[t2])
                                     /\ jobs[JobName[t1]].owner = tasks[t2].uid => t1 = t2
<1>1. PICK id \in [Tasks -> Nat] : Identifies(id)
  BY DEF IInv, Identified
<1>2. \A t \in Tasks : Exists(tasks[t]) => tasks[t].uid = id[t] /\ id[t] # 0
  BY <1>1 DEF Identifies, TaskCopies, Exists
<1>3. \A t \in Tasks : Exists(jobs[JobName[t]]) => jobs[JobName[t]].owner = id[t] /\ id[t] # 0
  BY <1>1 DEF Identifies, JobCopies
<1>4. \A j \in JobNames : Exists(jobs[j]) => \E t \in Tasks : j = JobName[t]
  BY <1>1 DEF Identifies
<1>5. \A j \in JobNames : /\ Exists(jobs[j]) => jobs[j].owner \in Uids /\ jobs[j].owner # 0
                          /\ ~Exists(jobs[j]) => jobs[j].owner = 0
  <2>1. NoJob.owner = 0
    BY DEF NoJob
  <2>2. 0 \notin Uids
    BY DEF Uids
  <2>3. \A j \in JobNames : jobs[j] \in JobObjects
    BY FieldTypes DEF IInv
  <2> QED BY <2>1, <2>2, <2>3, Absent, ObjectTypes
<1>6. \A t1, t2 \in Tasks : Exists(tasks[t1]) /\ tasks[t1].uid = tasks[t2].uid => t1 = t2
  <2> TAKE t1, t2 \in Tasks
  <2> HAVE Exists(tasks[t1]) /\ tasks[t1].uid = tasks[t2].uid
  <2>1. Exists(tasks[t2])
    BY DEF Exists
  <2> QED BY <1>1, <1>2, <2>1 DEF Identifies
<1>7. \A j1, j2 \in JobNames :
        Exists(jobs[j1]) /\ jobs[j1].owner = jobs[j2].owner => j1 = j2
  <2> TAKE j1, j2 \in JobNames
  <2> HAVE Exists(jobs[j1]) /\ jobs[j1].owner = jobs[j2].owner
  <2>1. Exists(jobs[j2])
    BY <1>5
  <2>2. PICK t1, t2 \in Tasks : j1 = JobName[t1] /\ j2 = JobName[t2]
    BY <1>4, <2>1
  <2>3. id[t1] = id[t2] /\ id[t1] # 0
    BY <1>3, <2>1, <2>2
  <2> QED BY <1>1, <2>2, <2>3 DEF Identifies
<1>8. \A t1, t2 \in Tasks : Exists(jobs[JobName[t1]]) /\ Exists(tasks[t2])
                              /\ jobs[JobName[t1]].owner = tasks[t2].uid => t1 = t2
  BY <1>1, <1>2, <1>3 DEF Identifies
<1>9. \A t \in Tasks : tasks[t].uid <= made.tasks \/ ~Exists(tasks[t])
  BY <1>1, <1>2 DEF Identifies
<1> QED BY <1>5, <1>6, <1>7, <1>8, <1>9

(* The conditions reported before and after a step. *)
LEMMA ReportedOf ==
    ASSUME Step, IInv'
    PROVE  /\ \A u \in Uids, t \in Tasks : tasks[t].uid = u => ConditionsOf(u) = tasks[t].conds
           /\ \A u \in Uids, t \in Tasks : tasks'[t].uid = u => ConditionsOf(u)' = tasks'[t].conds
           /\ \A u \in Uids : (\A t \in Tasks : tasks[t].uid # u) => ConditionsOf(u) = {}
           /\ \A u \in Uids : (\A t \in Tasks : tasks'[t].uid # u) => ConditionsOf(u)' = {}
<1>1. /\ tasks \in [Tasks -> TaskObjects]
      /\ \A t1, t2 \in Tasks : Exists(tasks[t1]) /\ tasks[t1].uid = tasks[t2].uid => t1 = t2
  BY Apart DEF Step, IInv, TypeOK
<1>2. /\ tasks' \in [Tasks -> TaskObjects]
      /\ \A t1, t2 \in Tasks : Exists(tasks'[t1]) /\ tasks'[t1].uid = tasks'[t2].uid => t1 = t2
  <2>1. tasks' \in [Tasks -> TaskObjects]
    BY DEF IInv, TypeOK
  <2>2. PICK id \in [Tasks -> Nat] : Identifies(id)'
    BY DEF IInv, Identified
  <2>3. \A t \in Tasks : Exists(tasks'[t]) => tasks'[t].uid = id[t] /\ id[t] # 0
    BY <2>2 DEF Identifies, TaskCopies, Exists
  <2>4. ASSUME NEW t1 \in Tasks, NEW t2 \in Tasks, Exists(tasks'[t1]), tasks'[t1].uid = tasks'[t2].uid
        PROVE  t1 = t2
    <3>1. Exists(tasks'[t2])
      BY <2>4 DEF Exists
    <3> QED BY <2>2, <2>3, <2>4, <3>1 DEF Identifies
  <2> QED BY <2>1, <2>4
<1>3. ASSUME NEW u \in Uids
      PROVE  /\ \A t \in Tasks : tasks[t].uid = u => ConditionsOf(u) = tasks[t].conds
             /\ (\A t \in Tasks : tasks[t].uid # u) => ConditionsOf(u) = {}
  BY <1>1, <1>3, ConditionsUnion DEF ConditionsOf
<1>4. ASSUME NEW u \in Uids
      PROVE  /\ \A t \in Tasks : tasks'[t].uid = u => ConditionsOf(u)' = tasks'[t].conds
             /\ (\A t \in Tasks : tasks'[t].uid # u) => ConditionsOf(u)' = {}
  BY <1>2, <1>4, ConditionsUnion DEF ConditionsOf
<1> QED BY <1>3, <1>4
(* The Tasks whose Job exists, after a Job is written. *)
LEMMA KeptWritten ==
    ASSUME IInv, NEW j \in JobNames, NEW new \in JobObjects, WriteJob(j, new)
    PROVE  Kept' = (Kept \ {jobs[j].owner}) \cup ({new.owner} \ {0})
<1>1. jobs'[j] = new /\ \A n \in JobNames \ {j} : jobs'[n] = jobs[n]
  BY JobWritten DEF IInv
<1>2. \A n \in JobNames \ {j} : jobs[n].owner = 0 \/ jobs[n].owner # jobs[j].owner
  BY Apart
<1>3. ASSUME NEW u \in Kept' PROVE u \in (Kept \ {jobs[j].owner}) \cup ({new.owner} \ {0})
  <2>1. PICK n \in JobNames : u = jobs'[n].owner /\ u # 0
    BY <1>3 DEF Kept
  <2> QED BY <1>1, <1>2, <2>1 DEF Kept
<1>4. ASSUME NEW u \in Kept, u # jobs[j].owner PROVE u \in Kept'
  <2>1. PICK n \in JobNames : u = jobs[n].owner /\ u # 0
    BY <1>4 DEF Kept
  <2> QED BY <1>1, <1>4, <2>1 DEF Kept
<1>5. new.owner # 0 => new.owner \in Kept'
  BY <1>1 DEF Kept
<1> QED BY <1>3, <1>4, <1>5

LifecycleStep == Lifecycle!Next \/ UNCHANGED <<LiveUids, runs, Kept, ended, Reported>>

LEMMA ReportedSame ==
    UNCHANGED tasks => UNCHANGED <<LiveUids, Reported>>
BY DEF LiveUids, Reported, ConditionsOf

LEMMA OwnerType ==
    \A x \in JobObjects : Exists(x) => x.owner \in Uids /\ x.owner # 0
<1>1. 0 \notin Uids
  BY DEF Uids
<1> QED BY <1>1, ObjectTypes

LEMMA RefinesPatch ==
    ASSUME Step, IInv', NEW t \in Tasks, Patches(t)
    PROVE  LifecycleStep
<1>a. Exists(tasks[t]) /\ TypeOK /\ Held /\ UNCHANGED <<jobs, runs, ended>>
  BY DEF Patches, Step, IInv
<1>b. PICK u \in Uids : u = tasks[t].uid
  BY <1>a, FieldTypes
<1>1. u \in LiveUids
  BY <1>a, <1>b DEF LiveUids, Exists
<1>2. tasks'[t] = Patched(tasks[t]) /\ tasks'[t].uid = u /\ \A n \in Tasks \ {t} : tasks'[n] = tasks[n]
  <2>1. Patched(tasks[t]) \in TaskObjects /\ Patched(tasks[t]).uid = u
    BY <1>a, <1>b, NewObjects
  <2>2. WriteTask(t, Patched(tasks[t]))
    BY DEF Patches
  <2> QED BY <1>a, <2>1, <2>2, TaskWritten
<1>3. Exists(tasks'[t])
  BY <1>a, <1>b, <1>2 DEF Exists
<1>4. tasks'[t].conds \in SUBSET Lifecycle!True(u) /\ tasks[t].conds \subseteq tasks'[t].conds
  BY <1>a, <1>b, <1>3, PatchTrue DEF Stays
<1>5. \A n \in Tasks : tasks'[n].uid = tasks[n].uid
  BY <1>b, <1>2
<1>6. LiveUids' = LiveUids
  BY <1>5 DEF LiveUids
<1>7. ConditionsOf(u) = tasks[t].conds /\ ConditionsOf(u)' = tasks'[t].conds
  BY <1>b, <1>2, ReportedOf
<1>8. ASSUME NEW v \in Uids, v # u PROVE ConditionsOf(v)' = ConditionsOf(v)
  <2>1. CASE \E n \in Tasks : tasks[n].uid = v
    <3>1. PICK n \in Tasks : tasks[n].uid = v
      BY <2>1
    <3>2. n # t /\ tasks'[n] = tasks[n]
      BY <1>b, <1>2, <1>8, <3>1
    <3> QED BY <1>8, <3>1, <3>2, ReportedOf
  <2>2. CASE \A n \in Tasks : tasks[n].uid # v
    <3>1. \A n \in Tasks : tasks'[n].uid # v
      BY <1>5, <2>2
    <3> QED BY <1>8, <2>2, <3>1, ReportedOf
  <2> QED BY <2>1, <2>2
<1>9. Reported' = [Reported EXCEPT ![u] = tasks'[t].conds] /\ Reported[u] \subseteq tasks'[t].conds
  BY <1>4, <1>7, <1>8 DEF Reported
<1>10. UNCHANGED <<LiveUids, runs, Kept, ended>>
  BY <1>a, <1>6 DEF Kept
<1>11. Lifecycle!Report(u)
  BY <1>1, <1>4, <1>9, <1>10 DEF Lifecycle!Report, Reported, Kept
<1> QED BY <1>1, <1>11 DEF LifecycleStep, Lifecycle!Next

LEMMA RefinesUser ==
    ASSUME Step, IInv', NEW t \in Tasks, UserCreates(t) \/ UserDeletes(t)
    PROVE  LifecycleStep
<1>a. TypeOK /\ Held /\ Identified /\ UNCHANGED <<jobs, runs, ended>>
  BY DEF UserCreates, UserDeletes, Step, IInv
<1>b. UNCHANGED <<runs, Kept, ended>>
  BY <1>a DEF Kept
<1>1. CASE UserDeletes(t)
  <2>a. Exists(tasks[t])
    BY <1>1 DEF UserDeletes
  <2>b. PICK u \in Uids : u = tasks[t].uid
    BY <1>a, <2>a, FieldTypes
  <2>1. u \in LiveUids /\ u # 0 /\ Exists(tasks[t]) /\ u = tasks[t].uid
    BY <2>a, <2>b DEF LiveUids, Exists
  <2>2. tasks'[t] = NoTask /\ NoTask.uid = 0 /\ \A n \in Tasks \ {t} : tasks'[n] = tasks[n]
    BY <1>1, <1>a, NoObjects, TaskWritten DEF UserDeletes, Exists
  <2>3. \A n \in Tasks \ {t} : tasks[n].uid # u
    BY <2>1, Apart DEF Step
  <2>4. LiveUids' = LiveUids \ {u}
    BY <2>1, <2>2, <2>3 DEF LiveUids
  <2>5. \A n \in Tasks : tasks'[n].uid # u
    BY <2>1, <2>2, <2>3
  <2>6. ConditionsOf(u)' = {}
    BY <2>1, <2>5, ReportedOf
  <2>7. ASSUME NEW v \in Uids, v # u PROVE ConditionsOf(v)' = ConditionsOf(v)
    <3>1. v # 0
      BY DEF Uids
    <3>2. CASE \E n \in Tasks : tasks[n].uid = v
      <4>1. PICK n \in Tasks : tasks[n].uid = v
        BY <3>2
      <4>2. tasks'[n] = tasks[n]
        BY <2>1, <2>2, <2>7, <4>1
      <4> QED BY <2>7, <4>1, <4>2, ReportedOf
    <3>3. CASE \A n \in Tasks : tasks[n].uid # v
      <4>1. \A n \in Tasks : tasks'[n].uid # v
        BY <2>2, <3>1, <3>3
      <4> QED BY <2>7, <3>3, <4>1, ReportedOf
    <3> QED BY <3>2, <3>3
  <2>8. Reported' = [Reported EXCEPT ![u] = {}]
    BY <2>6, <2>7 DEF Reported
  <2>9. Lifecycle!Delete(u)
    BY <1>b, <2>1, <2>4, <2>8 DEF Lifecycle!Delete, Reported, Kept
  <2> QED BY <2>1, <2>9 DEF LifecycleStep, Lifecycle!Next
<1>2. CASE UserCreates(t)
  <2> DEFINE u == made.tasks + 1
             new == [uid |-> u, conds |-> {}]
  <2>1. u \in Uids /\ new \in TaskObjects /\ ~Exists(tasks[t])
    BY <1>2, <1>a, NewObjects DEF UserCreates
  <2>2. made.tasks \in Nat
    BY <1>a, FieldTypes
  <2>3. u > made.tasks /\ u # 0
    BY <2>2
  <2>4. tasks'[t] = new /\ \A n \in Tasks \ {t} : tasks'[n] = tasks[n]
    BY <1>2, <1>a, <2>1, TaskWritten DEF UserCreates
  <2>5. tasks'[t].uid = u /\ tasks'[t].conds = {} /\ tasks[t].uid = 0
    BY <2>1, <2>4 DEF Exists
  <2>6. runs[u] = 0
    BY <1>a, <2>1, <2>3 DEF Identified
  <2>7. \A n \in Tasks : tasks[n].uid # u
    <3> TAKE n \in Tasks
    <3>1. tasks[n].uid <= made.tasks \/ tasks[n].uid = 0
      BY Apart DEF Step, Exists
    <3> QED BY <2>2, <2>3, <3>1
  <2> HIDE DEF u, new
  <2>8. LiveUids' = LiveUids \cup {u} /\ u \notin LiveUids
    BY <2>3, <2>4, <2>5, <2>7 DEF LiveUids
  <2>9. ASSUME NEW v \in Uids PROVE ConditionsOf(v)' = ConditionsOf(v)
    <3>1. v # 0
      BY DEF Uids
    <3>2. CASE v = u
      BY <2>1, <2>5, <2>7, <3>2, ReportedOf
    <3>3. CASE v # u /\ \E n \in Tasks : tasks[n].uid = v
      <4>1. PICK n \in Tasks : tasks[n].uid = v
        BY <3>3
      <4>2. tasks'[n] = tasks[n]
        BY <2>4, <2>5, <3>1, <4>1
      <4> QED BY <2>9, <4>1, <4>2, ReportedOf
    <3>4. CASE v # u /\ \A n \in Tasks : tasks[n].uid # v
      <4>1. \A n \in Tasks : tasks'[n].uid # v
        BY <2>4, <2>5, <3>4
      <4> QED BY <2>9, <3>4, <4>1, ReportedOf
    <3> QED BY <3>2, <3>3, <3>4
  <2>10. Reported' = Reported
    BY <2>9 DEF Reported
  <2>11. Lifecycle!Create(u)
    BY <1>b, <2>6, <2>8, <2>10 DEF Lifecycle!Create, Reported, Kept
  <2> QED BY <2>1, <2>11 DEF LifecycleStep, Lifecycle!Next
<1> QED BY <1>1, <1>2
LEMMA RefinesWorker ==
    ASSUME Step, IInv', NEW t \in Tasks, Deletes(t) \/ Creates(t)
    PROVE  LifecycleStep
<1> DEFINE k == JobName[t]
<1>a. /\ TypeOK /\ Held /\ UNCHANGED <<tasks, ended>> /\ k \in JobNames /\ jobs[k] \in JobObjects
  BY FieldTypes DEF Deletes, Creates, Step, IInv
<1>b. UNCHANGED <<LiveUids, Reported, ended>>
  BY <1>a, ReportedSame
<1>c. \A u \in LiveUids : \E n \in Tasks : Exists(tasks[n]) /\ tasks[n].uid = u
  BY DEF LiveUids, Exists
<1>d. \A u \in Uids, n \in Tasks : tasks[n].uid = u => Reported[u] = tasks[n].conds
  BY ReportedOf DEF Reported
<1>1. CASE Deletes(t)
  <2>1. WriteJob(k, NoJob) /\ UNCHANGED runs /\ Working(t, {"deleteJob"})
    BY <1>1 DEF Deletes
  <2>2. NoJob.owner = 0
    BY DEF NoJob
  <2>3. Kept' = Kept \ {jobs[k].owner}
    <3>1. Kept' = (Kept \ {jobs[k].owner}) \cup ({NoJob.owner} \ {0})
      BY <1>a, <2>1, NoObjects, KeptWritten DEF Step
    <3> QED BY <2>2, <3>1
  <2>4. CASE ~Exists(jobs[k])
    <3>1. jobs[k].owner = 0
      BY <1>a, <2>4, Apart DEF Step
    <3>2. Kept' = Kept
      BY <2>3, <3>1 DEF Kept
    <3> QED BY <1>b, <2>1, <3>2 DEF LifecycleStep
  <2>5. CASE Exists(jobs[k])
    <3>a. jobs[k].owner \in Uids /\ jobs[k].owner # 0
      BY <1>a, <2>5, OwnerType
    <3>1. PICK u \in Uids : u = jobs[k].owner /\ u # 0 /\ u \in Kept
      BY <1>a, <3>a DEF Kept
    <3>2. ASSUME u \in LiveUids PROVE Reported[u] \cap {"Succeeded", "Failed"} # {}
      <4>1. PICK n \in Tasks : Exists(tasks[n]) /\ tasks[n].uid = u
        BY <1>c, <3>2
      <4>2. n = t
        BY <2>5, <3>1, <4>1, Apart DEF Step
      <4>3. tasks[t] \in TaskCopies(t) /\ Faithful(t)
        BY <4>1, <4>2 DEF TaskCopies, Step, IInv, AllFaithful
      <4>4. Completed(tasks[t])
        BY <2>1, <4>1, <4>2, <4>3 DEF Faithful
      <4> QED BY <1>d, <4>1, <4>2, <4>4 DEF Completed
    <3>3. Lifecycle!Remove(u)
      BY <1>b, <2>1, <2>3, <3>1, <3>2 DEF Lifecycle!Remove, Reported, Kept
    <3> QED BY <3>3 DEF LifecycleStep, Lifecycle!Next
  <2> QED BY <2>4, <2>5
<1>2. CASE Creates(t)
  <2>1. /\ WriteJob(k, Converted) /\ ~Exists(jobs[k]) /\ Working(t, {"createJob"})
        /\ runs' = [runs EXCEPT ![locals.task.uid] = @ + 1]
    BY <1>2 DEF Creates
  <2>2. Converted \in JobObjects /\ Converted.owner = locals.task.uid /\ locals.task.uid \in Uids
    BY <1>a, <2>1, NewObjects DEF Working
  <2>3. PICK u \in Uids : u = locals.task.uid
    BY <2>2
  <2>4. jobs[k].owner = 0 /\ u # 0
    BY <1>a, <2>1, Apart DEF Step, Uids
  <2>5. Kept' = Kept \cup {u}
    <3> HIDE DEF Converted
    <3>1. Kept' = (Kept \ {jobs[k].owner}) \cup ({Converted.owner} \ {0})
      BY <1>a, <2>1, <2>2, KeptWritten DEF Step
    <3> QED BY <2>2, <2>3, <2>4, <3>1 DEF Kept
  <2>6. PICK id \in [Tasks -> Nat] : Identifies(id)
    BY DEF Step, IInv, Identified
  <2>7. u = id[t]
    BY <2>1, <2>3, <2>6 DEF Identifies, Working, PastGetTask
  <2>8. u \notin Kept
    <3> SUFFICES ASSUME u \in Kept PROVE FALSE
      OBVIOUS
    <3>1. PICK j \in JobNames : jobs[j].owner = u
      BY DEF Kept
    <3>2. Exists(jobs[j])
      BY <2>4, <3>1, Apart DEF Step
    <3>3. PICK n \in Tasks : j = JobName[n]
      BY <2>6, <3>2 DEF Identifies
    <3>4. id[n] = u
      BY <2>6, <3>1, <3>2, <3>3 DEF Identifies, JobCopies
    <3>5. n = t
      BY <2>4, <2>6, <2>7, <3>4 DEF Identifies
    <3> QED BY <2>1, <3>2, <3>3, <3>5
  <2>9. ASSUME u \in LiveUids PROVE runs[u] = 0
    <3>1. PICK n \in Tasks : Exists(tasks[n]) /\ tasks[n].uid = u
      BY <1>c, <2>9
    <3>2. n = t
      BY <2>4, <2>6, <2>7, <3>1 DEF Identifies, TaskCopies
    <3> QED BY <1>2, <3>1, <3>2, FirstRun
  <2>10. Lifecycle!Run(u)
    BY <1>b, <2>1, <2>3, <2>5, <2>8, <2>9 DEF Lifecycle!Run, Reported, Kept
  <2> QED BY <2>10 DEF LifecycleStep, Lifecycle!Next
<1> QED BY <1>1, <1>2

LEMMA RefinesJob ==
    ASSUME Step, IInv', NEW j \in JobNames, CollectJob(j) \/ JobStarts(j) \/ JobEnds(j)
    PROVE  LifecycleStep
<1>a. /\ TypeOK /\ Exists(jobs[j]) /\ jobs[j] \in JobObjects /\ UNCHANGED <<tasks, runs>>
  BY FieldTypes DEF CollectJob, JobStarts, JobEnds, Step, IInv
<1>b. UNCHANGED <<LiveUids, Reported, runs>>
  BY <1>a, ReportedSame
<1>c. PICK u \in Uids : u = jobs[j].owner /\ u # 0 /\ u \in Kept
  <2>1. jobs[j].owner \in Uids /\ jobs[j].owner # 0
    BY <1>a, OwnerType
  <2> QED BY <2>1 DEF Kept
<1>d. \A v \in LiveUids : \E n \in Tasks : Exists(tasks[n]) /\ tasks[n].uid = v
  BY DEF LiveUids, Exists
<1>e. \A phase \in Phases : /\ [jobs[j] EXCEPT !.phase = phase] \in JobObjects
                            /\ [jobs[j] EXCEPT !.phase = phase].owner = u
  BY <1>a, <1>c, ObjectTypes
<1>1. CASE CollectJob(j)
  <2>1. WriteJob(j, NoJob) /\ UNCHANGED ended /\ NoJob.owner = 0
    BY <1>1 DEF CollectJob, NoJob
  <2>2. Kept' = Kept \ {u}
    BY <1>c, <2>1, NoObjects, KeptWritten DEF Step
  <2>3. u \notin LiveUids
    BY <1>1, <1>c, <1>d DEF CollectJob
  <2>4. Lifecycle!Remove(u)
    BY <1>b, <1>c, <2>1, <2>2, <2>3 DEF Lifecycle!Remove, Reported, Kept
  <2> QED BY <2>4 DEF LifecycleStep, Lifecycle!Next
<1>2. CASE JobStarts(j)
  <2>1. WriteJob(j, [jobs[j] EXCEPT !.phase = "running"]) /\ UNCHANGED ended /\ "running" \in Phases
    BY <1>2 DEF JobStarts, Phases
  <2>2. Kept' = Kept
    <3>1. Kept' = (Kept \ {u}) \cup ({u} \ {0})
      BY <1>c, <1>e, <2>1, KeptWritten DEF Step
    <3> QED BY <1>c, <3>1
  <2> QED BY <1>b, <2>1, <2>2 DEF LifecycleStep
<1>3. CASE JobEnds(j)
  <2>1. PICK end \in Ends : /\ WriteJob(j, [jobs[j] EXCEPT !.phase = end])
                            /\ ended' = ended \cup {<<u, end>>}
    BY <1>3, <1>c DEF JobEnds
  <2>2. end \in Phases /\ jobs[j].phase = "running" /\ "running" \notin Ends
    BY <1>3 DEF Phases, JobEnds, Ends
  <2>3. Kept' = Kept
    <3>1. Kept' = (Kept \ {u}) \cup ({u} \ {0})
      BY <1>c, <1>e, <2>1, <2>2, KeptWritten DEF Step
    <3> QED BY <1>c, <3>1
  <2>4. ASSUME u \in LiveUids, NEW e \in Ends PROVE <<u, e>> \notin ended
    <3>1. PICK n \in Tasks : Exists(tasks[n]) /\ tasks[n].uid = u
      BY <1>d, <2>4
    <3>2. PICK t \in Tasks : j = JobName[t]
      BY <1>a DEF Step, IInv, Identified, Identifies
    <3>3. t = n
      BY <1>a, <1>c, <3>1, <3>2, Apart DEF Step
    <3>4. Faithful(t)
      BY <3>1, <3>3 DEF Step, IInv, AllFaithful
    <3> QED BY <1>a, <2>2, <2>4, <3>1, <3>2, <3>3, <3>4 DEF Faithful
  <2>5. Lifecycle!Outcome(u) = {} \/ u \notin LiveUids
    BY <2>4 DEF Lifecycle!Outcome, Ends
  <2>6. Lifecycle!End(u)
    BY <1>b, <1>c, <2>1, <2>3, <2>5 DEF Lifecycle!End, Reported, Kept, Ends
  <2> QED BY <2>6 DEF LifecycleStep, Lifecycle!Next
<1> QED BY <1>1, <1>2, <1>3

(* Every Task of a name of its own, not used before, is run once, told the truth *)
(* about, and loses its Job only when its conditions tell the outcome: the       *)
(* reconciler keeps the promise of TaskLifecycle through stale caches, failing   *)
(* calls, lost replies and restarts.                                             *)
THEOREM Implements ==
    ASSUME JobNamesApart, ~NamesReused
    PROVE  Spec => ImplementsLifecycle
<1>1. Init => Lifecycle!Init
  <2> SUFFICES ASSUME Init PROVE Lifecycle!Init
    OBVIOUS
  <2>1. /\ \A t \in Tasks : tasks[t].uid = 0
        /\ \A j \in JobNames : jobs[j].owner = 0
    BY DEF Init, NoTask, NoJob
  <2>2. LiveUids = {} /\ Kept = {}
    BY <2>1 DEF LiveUids, Kept
  <2>3. \A u \in Uids : ConditionsOf(u) = {}
    BY <2>1 DEF ConditionsOf, Uids
  <2>4. Reported = [u \in Uids |-> {}]
    BY <2>3 DEF Reported
  <2> QED BY <2>2, <2>4 DEF Init, Lifecycle!Init, Reported, Kept
<1>2. IInv /\ IInv' /\ [Next]_vars => [Lifecycle!Next]_(Lifecycle!vars)
  <2> SUFFICES ASSUME IInv, IInv', [Next]_vars PROVE [Lifecycle!Next]_(Lifecycle!vars)
    OBVIOUS
  <2>1. Step /\ TypeOK /\ Held
    BY DEF Step, IInv
  <2>2. LifecycleStep
    <3>1. Quiet => LifecycleStep
      BY ReportedSame DEF Quiet, Kept, LifecycleStep
    <3> QED BY <2>1, <3>1, Steps, RefinesPatch, RefinesUser, RefinesWorker, RefinesJob
  <2> QED BY <2>2 DEF LifecycleStep, Lifecycle!vars, Reported, Kept
<1>3. Spec => []IInv
  BY Invariant
<1> QED BY <1>1, <1>2, <1>3, PTL DEF Spec, ImplementsLifecycle, Lifecycle!Spec
-----------------------------------------------------------------------------
(* The TTL *)

(* What has arrived and what is on its way ends with what is stored.          *)
Follows ==
    /\ \A t \in Tasks : Newest(taskCache[t], taskWatch[t]) = tasks[t]
    /\ \A j \in JobNames : Newest(jobCache[j], jobWatch[j]) = jobs[j]

(* The uid of a Task, wherever it is seen, goes with the name of that Task.   *)
NamesUids(name) ==
    /\ \A t \in Tasks : \A x \in TaskCopies(t) :
         Exists(x) => x.uid <= made.tasks /\ name[x.uid] = t
    /\ \A j \in JobNames :
         Exists(jobs[j]) => jobs[j].owner <= made.tasks /\ name[jobs[j].owner] = jobs[j].key
    /\ pc \in PastGetTask => locals.task.uid <= made.tasks /\ name[locals.task.uid] = locals.key

Keys == Tasks \cup {""}
UidsNamed == \E name \in [Uids -> Keys] : NamesUids(name)

(* A status is patched for a Task that was not completed when it was read, and *)
(* a Job that was just created completes none.                                *)
Unfinished ==
    /\ pc \in {"getJob", "createJob", "readPods", "patchTask"} => ~Completed(locals.task)
    /\ pc # "patchTask" => ~locals.desired
    /\ locals.desired => locals.job.phase = "created"

(* The timer that is set when a Task completes runs out when the TTL has passed; *)
(* from then on the Task is on its way to handleExpiredTask.                     *)
Timed(t) == Completed(tasks[t]) /\ tasks[t].uid \notin expired => <<t, tasks[t].uid>> \in timers

Due(t) == Completed(tasks[t]) /\ tasks[t].uid \in expired /\ jobs[JobName[t]].owner = tasks[t].uid

OnItsWay(t) ==
    \/ t \in queued \/ Working(t, {"getTask", "deleteJob"})
    \/ taskWatch[t] # <<>> \/ jobWatch[JobName[t]] # <<>>
    \/ \E u \in Uids : <<t, u>> \in timers

TtlInv ==
    /\ TypeOK /\ Held /\ Follows /\ UidsNamed /\ Unfinished
    /\ restarts = 0 => \A t \in Tasks : Timed(t) /\ (Due(t) => OnItsWay(t))

LEMMA CopyTypes ==
    ASSUME TypeOK
    PROVE  \A t \in Tasks : TaskCopies(t) \subseteq TaskObjects
<1> SUFFICES ASSUME NEW t \in Tasks PROVE TaskCopies(t) \subseteq TaskObjects
  OBVIOUS
<1>1. /\ tasks[t] \in TaskObjects /\ taskCache[t] \in TaskObjects
      /\ taskWatch[t] \in Seq(TaskObjects)
  BY FieldTypes
<1>2. \A i \in 1 .. Len(taskWatch[t]) : taskWatch[t][i] \in TaskObjects
  BY <1>1, ElementOfSeq
<1> QED BY <1>1, <1>2 DEF TaskCopies, Copies

(* A restart is counted, and nothing else is.                                 *)
LEMMA RestartsCounted ==
    ASSUME TypeOK, [Next]_vars, restarts' = 0
    PROVE  ~Restart /\ restarts = 0
<1> USE DEF storeVars, cacheVars, workVars, budgetVars
<1>1. restarts \in Nat
  BY DEF TypeOK
<1>2. ~Restart
  BY <1>1 DEF Restart
<1>3. Controller \/ UNCHANGED vars => UNCHANGED restarts
  BY DEF Controller, Dequeue, ReadFails, GetTask, DeleteJob, GetJob, CreateJob, ReadPods, PatchTask, vars
<1>4. ASSUME NEW t \in Tasks, \/ DeliverTask(t) \/ TimerFires(t) \/ TtlPasses(t)
                             \/ UserCreates(t) \/ UserDeletes(t)
      PROVE  UNCHANGED restarts
  BY <1>4 DEF DeliverTask, TimerFires, TtlPasses, UserCreates, UserDeletes
<1>5. ASSUME NEW j \in JobNames, \/ DeliverJob(j) \/ CollectJob(j) \/ JobStarts(j) \/ JobEnds(j)
                                \/ PodSeenTerminated(j) \/ PodVanishes(j)
      PROVE  UNCHANGED restarts
  BY <1>5 DEF DeliverJob, CollectJob, JobStarts, JobEnds, PodSeenTerminated, PodVanishes
<1> QED BY <1>2, <1>3, <1>4, <1>5 DEF Next

LEMMA FollowsInductive ==
    ASSUME TypeOK, TypeOK', Held, Follows, [Next]_vars
    PROVE  Follows'
<1>1. ASSUME NEW t \in Tasks PROVE Newest(taskCache'[t], taskWatch'[t]) = tasks'[t]
  <2>a. /\ taskCache[t] \in TaskObjects /\ taskWatch[t] \in Seq(TaskObjects)
        /\ tasks'[t] \in TaskObjects /\ Newest(taskCache[t], taskWatch[t]) = tasks[t]
    BY DEF TypeOK, Follows
  <2>1. CASE UNCHANGED <<tasks, taskCache, taskWatch>>
    BY <2>1, <2>a
  <2>2. ASSUME NEW n \in Tasks, DeliverTask(n)
        PROVE  Newest(taskCache'[t], taskWatch'[t]) = tasks'[t]
    <3>1. tasks' = tasks
      BY <2>2 DEF DeliverTask, storeVars
    <3>2. CASE n = t
      <4>1. /\ taskWatch[t] # <<>> /\ taskCache'[t] = Head(taskWatch[t])
            /\ taskWatch'[t] = Tail(taskWatch[t])
        BY <2>2, <3>2 DEF DeliverTask, TypeOK
      <4> QED BY <2>a, <3>1, <4>1, NewestDelivered
    <3>3. CASE n # t
      BY <2>2, <2>a, <3>1, <3>3 DEF DeliverTask, TypeOK
    <3> QED BY <3>2, <3>3
  <2>3. CASE taskCache' = tasks /\ taskWatch' = [n \in Tasks |-> <<>>] /\ UNCHANGED tasks
    BY <2>3 DEF Newest
  <2>4. ASSUME NEW n \in Tasks, NEW new, WriteTask(n, new), UNCHANGED taskCache
        PROVE  Newest(taskCache'[t], taskWatch'[t]) = tasks'[t]
    <3>1. CASE n = t
      <4>1. tasks'[t] = new /\ taskWatch'[t] = Published(taskWatch[t], tasks[t], new)
        BY <2>4, <3>1 DEF WriteTask, TypeOK
      <4> QED BY <2>4, <2>a, <4>1, NewestPublished
    <3>2. CASE n # t
      BY <2>4, <2>a, <3>2 DEF WriteTask, TypeOK
    <3> QED BY <3>1, <3>2
  <2> QED BY <2>1, <2>2, <2>3, <2>4, TaskSteps
<1>2. ASSUME NEW j \in JobNames PROVE Newest(jobCache'[j], jobWatch'[j]) = jobs'[j]
  <2>a. /\ jobCache[j] \in JobObjects /\ jobWatch[j] \in Seq(JobObjects)
        /\ jobs'[j] \in JobObjects /\ Newest(jobCache[j], jobWatch[j]) = jobs[j]
    BY DEF TypeOK, Follows
  <2>1. CASE UNCHANGED <<jobs, jobCache, jobWatch>>
    BY <2>1, <2>a
  <2>2. ASSUME NEW n \in JobNames, DeliverJob(n)
        PROVE  Newest(jobCache'[j], jobWatch'[j]) = jobs'[j]
    <3>1. jobs' = jobs
      BY <2>2 DEF DeliverJob, storeVars
    <3>2. CASE n = j
      <4>1. /\ jobWatch[j] # <<>> /\ jobCache'[j] = Head(jobWatch[j])
            /\ jobWatch'[j] = Tail(jobWatch[j])
        BY <2>2, <3>2 DEF DeliverJob, TypeOK
      <4> QED BY <2>a, <3>1, <4>1, NewestDelivered
    <3>3. CASE n # j
      BY <2>2, <2>a, <3>1, <3>3 DEF DeliverJob, TypeOK
    <3> QED BY <3>2, <3>3
  <2>3. CASE jobCache' = jobs /\ jobWatch' = [n \in JobNames |-> <<>>] /\ UNCHANGED jobs
    BY <2>3 DEF Newest
  <2>4. ASSUME NEW n \in JobNames, NEW new, WriteJob(n, new), UNCHANGED jobCache
        PROVE  Newest(jobCache'[j], jobWatch'[j]) = jobs'[j]
    <3>1. CASE n = j
      <4>1. jobs'[j] = new /\ jobWatch'[j] = Published(jobWatch[j], jobs[j], new)
        BY <2>4, <3>1 DEF WriteJob, TypeOK
      <4> QED BY <2>4, <2>a, <4>1, NewestPublished
    <3>2. CASE n # j
      BY <2>4, <2>a, <3>2 DEF WriteJob, TypeOK
    <3> QED BY <3>1, <3>2
  <2> QED BY <2>1, <2>2, <2>3, <2>4, JobSteps
<1> QED BY <1>1, <1>2 DEF Follows

(* A user's Task has a uid that no copy of any Task or Job has.               *)
LEMMA NamesNew ==
    ASSUME TypeOK, Held, [Next]_vars, NEW t \in Tasks, UserCreates(t),
           NEW name \in [Uids -> Keys], NamesUids(name)
    PROVE  UidsNamed'
<1>u. PICK u : u = made.tasks + 1
  OBVIOUS
<1> DEFINE name2 == [name EXCEPT ![u] = t]
<1>1. made.tasks \in Nat /\ u \in Uids /\ u = made.tasks + 1 /\ MaxTasks \in Nat
  BY <1>u, FieldTypes, NewObjects, BoundsAssumption
<1>2. /\ made' = [made EXCEPT !.tasks = @ + 1, !.names = @ \cup {t}]
      /\ WriteTask(t, [uid |-> u, conds |-> {}])
      /\ UNCHANGED <<taskCache, jobs, pc, locals>>
  BY <1>u DEF UserCreates, workVars
<1>3. made'.tasks = u
  BY <1>1, <1>2 DEF TypeOK
<1>4. name2 \in [Uids -> Keys] /\ name2[u] = t
  <2>1. t \in Keys
    BY DEF Keys
  <2> QED BY <1>1, <2>1
<1>5. \A x \in Uids : x <= made.tasks => name2[x] = name[x] /\ x <= u
  <2>1. \A x \in Uids : x # u => name2[x] = name[x]
    OBVIOUS
  <2> HIDE DEF name2
  <2>2. Uids \subseteq Nat
    BY <1>1 DEF Uids
  <2>3. u \in Nat
    BY <1>1
  <2>4. \A x \in Uids : x <= made.tasks => x # u /\ x <= u
    BY <1>1, <2>2
  <2> QED BY <2>1, <2>4
<1> HIDE DEF name2
<1>6. ASSUME NEW n \in Tasks, NEW x \in TaskCopies(n)', Exists(x)
      PROVE  x.uid <= u /\ name2[x.uid] = n
  <2>1. CASE x \in TaskCopies(n)
    <3>1. x \in TaskObjects
      BY <2>1, CopyTypes
    <3>2. x.uid \in Uids
      BY <1>6, <3>1, FieldTypes
    <3>3. x.uid <= made.tasks /\ name[x.uid] = n
      BY <1>6, <2>1 DEF NamesUids
    <3> QED BY <1>5, <3>2, <3>3
  <2>2. CASE n = t /\ x = [uid |-> u, conds |-> {}]
    <3>1. x.uid = u /\ u \in Nat
      BY <1>1, <2>2
    <3> QED BY <1>4, <2>2, <3>1
  <2>3. n # t => tasks'[n] = tasks[n]
    BY <1>2 DEF WriteTask, TypeOK
  <2>4. n # t => x \in TaskCopies(n)
    BY <2>3, TaskRead
  <2>5. n = t => TaskCopies(n)' \subseteq TaskCopies(n) \cup {[uid |-> u, conds |-> {}]}
    BY <1>u, <1>2, NewObjects, TaskWrite
  <2> QED BY <2>1, <2>2, <2>4, <2>5
<1>7. ASSUME NEW j \in JobNames, Exists(jobs'[j])
      PROVE  jobs'[j].owner <= u /\ name2[jobs'[j].owner] = jobs'[j].key
  <2>1. jobs'[j] = jobs[j] /\ jobs[j].owner \in Uids
    BY <1>2, <1>7, FieldTypes
  <2> QED BY <1>5, <1>7, <2>1 DEF NamesUids
<1>8. pc' \in PastGetTask => locals'.task.uid <= u /\ name2[locals'.task.uid] = locals'.key
  <2> HAVE pc' \in PastGetTask
  <2>1. locals.task.uid \in Uids
    BY <1>2, FieldTypes DEF Held
  <2> QED BY <1>2, <1>5, <2>1 DEF NamesUids
<1> QED BY <1>3, <1>4, <1>6, <1>7, <1>8 DEF UidsNamed, NamesUids

(* Every other step leaves the uids with the names they have.                 *)
LEMMA NamesStay ==
    ASSUME TypeOK, Held, [Next]_vars, NEW name, NamesUids(name), \A t \in Tasks : ~UserCreates(t)
    PROVE  NamesUids(name)'
<1>1. made'.tasks = made.tasks
  <2>1. ASSUME NEW t \in Tasks, Patches(t) \/ Deletes(t) \/ Creates(t) \/ UserDeletes(t)
        PROVE  made'.tasks = made.tasks
    BY <2>1 DEF Patches, Deletes, Creates, UserDeletes, budgetVars
  <2>2. ASSUME NEW j \in JobNames, CollectJob(j) \/ JobStarts(j) \/ JobEnds(j)
        PROVE  made'.tasks = made.tasks
    BY <2>2 DEF CollectJob, JobStarts, JobEnds, budgetVars
  <2> QED BY <2>1, <2>2, Steps DEF Quiet
<1>2. ASSUME NEW t \in Tasks, NEW x \in TaskCopies(t)', Exists(x)
      PROVE  x.uid <= made.tasks /\ name[x.uid] = t
  <2>1. tasks'[t] = tasks[t] => x \in TaskCopies(t)
    BY TaskRead
  <2>2. CASE Patches(t)
    <3>1. tasks[t] \in TaskCopies(t)
      BY DEF TaskCopies
    <3>2. /\ Patched(tasks[t]) \in TaskObjects /\ Patched(tasks[t]).uid = tasks[t].uid
          /\ Exists(tasks[t])
      BY <2>2, NewObjects DEF Patches
    <3>3. x \in TaskCopies(t) \cup {Patched(tasks[t])}
      BY <2>2, <3>2, TaskWrite DEF Patches
    <3> QED BY <1>2, <3>1, <3>2, <3>3 DEF NamesUids
  <2>3. CASE UserDeletes(t)
    <3>1. x \in TaskCopies(t) \cup {NoTask}
      BY <2>3, NoObjects, TaskWrite DEF UserDeletes
    <3> QED BY <1>2, <3>1, NoObjects DEF NamesUids
  <2>4. ASSUME NEW n \in Tasks, n # t, Patches(n) \/ UserDeletes(n)
        PROVE  tasks'[t] = tasks[t]
    BY <2>4 DEF Patches, UserDeletes, WriteTask, TypeOK
  <2>5. ASSUME NEW n \in Tasks, Deletes(n) \/ Creates(n)
        PROVE  tasks'[t] = tasks[t]
    BY <2>5 DEF Deletes, Creates
  <2>6. ASSUME NEW j \in JobNames, CollectJob(j) \/ JobStarts(j) \/ JobEnds(j)
        PROVE  tasks'[t] = tasks[t]
    BY <2>6 DEF CollectJob, JobStarts, JobEnds
  <2>7. Quiet => tasks'[t] = tasks[t]
    BY DEF Quiet
  <2>8. x \in TaskCopies(t) => x.uid <= made.tasks /\ name[x.uid] = t
    BY <1>2 DEF NamesUids
  <2> QED BY <2>1, <2>2, <2>3, <2>4, <2>5, <2>6, <2>7, <2>8, Steps
<1>3. ASSUME NEW j \in JobNames, Exists(jobs'[j])
      PROVE  jobs'[j].owner <= made.tasks /\ name[jobs'[j].owner] = jobs'[j].key
  <2>a. jobs[j] \in JobObjects /\ ~Exists(NoJob)
    BY FieldTypes, NoObjects
  <2>1. CASE jobs'[j] = jobs[j]
    BY <1>3, <2>1 DEF NamesUids
  <2>2. ASSUME NEW t \in Tasks, Deletes(t) PROVE jobs'[j] \in {jobs[j], NoJob}
    BY <2>2, FieldTypes DEF Deletes, WriteJob, TypeOK
  <2>3. ASSUME NEW t \in Tasks, Creates(t), jobs'[j] # jobs[j]
        PROVE  jobs'[j].owner <= made.tasks /\ name[jobs'[j].owner] = jobs'[j].key
    <3>1. jobs'[j] = Converted
      BY <2>3, FieldTypes DEF Creates, WriteJob, TypeOK
    <3>2. Converted.key = locals.key /\ Converted.owner = locals.task.uid
      BY DEF Converted
    <3>3. locals.task.uid <= made.tasks /\ name[locals.task.uid] = locals.key
      BY <2>3 DEF Creates, Working, NamesUids, PastGetTask
    <3> QED BY <3>1, <3>2, <3>3
  <2>4. ASSUME NEW n \in JobNames, CollectJob(n) PROVE jobs'[j] \in {jobs[j], NoJob}
    BY <2>4 DEF CollectJob, WriteJob, TypeOK
  <2>5. ASSUME NEW n \in JobNames, JobStarts(n) \/ JobEnds(n), jobs'[j] # jobs[j]
        PROVE  jobs'[j].owner <= made.tasks /\ name[jobs'[j].owner] = jobs'[j].key
    <3>1. PICK phase \in Phases : /\ Exists(jobs[n])
                                  /\ WriteJob(n, [jobs[n] EXCEPT !.phase = phase])
      BY <2>5 DEF JobStarts, JobEnds, Phases, Ends
    <3>a. n = j /\ jobs'[j] = [jobs[j] EXCEPT !.phase = phase]
      BY <2>5, <3>1 DEF WriteJob, TypeOK
    <3>2. jobs'[j].owner = jobs[j].owner /\ jobs'[j].key = jobs[j].key
      BY <2>a, <3>1, <3>a, ObjectTypes
    <3> QED BY <3>1, <3>a, <3>2 DEF NamesUids
  <2>6. ASSUME NEW t \in Tasks, Patches(t) \/ UserDeletes(t) PROVE jobs' = jobs
    BY <2>6 DEF Patches, UserDeletes
  <2>7. Quiet => jobs' = jobs
    BY DEF Quiet
  <2> QED BY <1>3, <2>a, <2>1, <2>2, <2>3, <2>4, <2>5, <2>6, <2>7, Steps
<1>4. pc' \in PastGetTask => locals'.task.uid <= made.tasks /\ name[locals'.task.uid] = locals'.key
  <2> HAVE pc' \in PastGetTask
  <2>1. locals.key \in Tasks => taskCache[locals.key] \in TaskCopies(locals.key)
    BY DEF TaskCopies, Copies
  <2> QED BY <2>1, WorkerTask DEF NamesUids
<1> QED BY <1>1, <1>2, <1>3, <1>4 DEF NamesUids

LEMMA NamedInductive ==
    ASSUME TypeOK, Held, [Next]_vars, UidsNamed
    PROVE  UidsNamed'
BY NamesNew, NamesStay DEF UidsNamed

LEMMA UnfinishedInductive ==
    ASSUME TypeOK, Held, [Next]_vars, Unfinished
    PROVE  Unfinished'
<1> USE DEF Unfinished, storeVars, cacheVars, workVars, budgetVars
<1>a. ~NoLocals.desired
  BY DEF NoLocals
<1>1. CASE Dequeue
  <2>1. locals'.desired = FALSE
    BY <1>1 DEF Dequeue, NoLocals
  <2> QED BY <1>1, <2>1 DEF Dequeue
<1>2. CASE GetTask
  BY <1>a, <1>2 DEF GetTask, Call, Done, TypeOK
<1>3. CASE GetJob
  BY <1>3 DEF GetJob, Call, TypeOK
<1>4. CASE CreateJob
  <2> HIDE DEF Converted
  <2>1. Converted.phase = "created"
    BY <1>4, NewObjects DEF CreateJob
  <2>2. \/ pc' = "idle" /\ locals' = NoLocals
        \/ /\ pc' = "patchTask" /\ locals'.task = locals.task
           /\ locals'.job = Converted
    BY <1>a, <1>4 DEF CreateJob, Call, Retry, TypeOK
  <2> QED BY <1>a, <1>4, <2>1, <2>2 DEF CreateJob
<1>5. CASE ReadPods
  BY <1>a, <1>5 DEF ReadPods, Call, Retry
<1>6. CASE ReadFails \/ DeleteJob \/ PatchTask \/ Restart
  BY <1>a, <1>6 DEF ReadFails, DeleteJob, PatchTask, Restart, Retry, Done, RequeueAfterTtl
<1>7. CASE UNCHANGED <<pc, locals>>
  BY <1>7
<1>8. ASSUME NEW t \in Tasks, \/ DeliverTask(t) \/ TimerFires(t) \/ TtlPasses(t)
                             \/ UserCreates(t) \/ UserDeletes(t)
      PROVE  UNCHANGED <<pc, locals>>
  BY <1>8 DEF DeliverTask, TimerFires, TtlPasses, UserCreates, UserDeletes
<1>9. ASSUME NEW j \in JobNames, \/ DeliverJob(j) \/ CollectJob(j) \/ JobStarts(j) \/ JobEnds(j)
                                \/ PodSeenTerminated(j) \/ PodVanishes(j)
      PROVE  UNCHANGED <<pc, locals>>
  BY <1>9 DEF DeliverJob, CollectJob, JobStarts, JobEnds, PodSeenTerminated, PodVanishes
<1> HIDE DEF Unfinished
<1> QED BY <1>1, <1>2, <1>3, <1>4, <1>5, <1>6, <1>7, <1>8, <1>9 DEF Next, Controller, vars

(* Without a restart, a change of an object is sent, what is sent stays on its way *)
(* until it arrives, and a Task that arrives is queued.                            *)
LEMMA WatchesStay ==
    ASSUME TypeOK, TypeOK', Held, [Next]_vars, ~Restart
    PROVE  /\ \A t \in Tasks :
                /\ tasks'[t] # tasks[t] => taskWatch'[t] # <<>>
                /\ taskWatch[t] # <<>> => taskWatch'[t] # <<>> \/ t \in queued'
           /\ \A j \in JobNames :
                /\ jobs'[j] # jobs[j] => jobWatch'[j] # <<>>
                /\ jobWatch[j] # <<>> => jobWatch'[j] # <<>> \/ DeliverJob(j)
<1> USE DEF storeVars, cacheVars, workVars, budgetVars
<1>1. \/ UNCHANGED <<tasks, taskWatch>>
      \/ \E t \in Tasks : DeliverTask(t)
      \/ \E t \in Tasks : \E new : WriteTask(t, new)
  <2>1. CASE PatchTask
    BY <2>1 DEF PatchTask, Held
  <2>2. CASE \/ Dequeue \/ ReadFails \/ GetTask \/ DeleteJob \/ GetJob \/ CreateJob \/ ReadPods
    BY <2>2 DEF Dequeue, ReadFails, GetTask, DeleteJob, GetJob, CreateJob, ReadPods
  <2>3. ASSUME NEW t \in Tasks, TimerFires(t) \/ TtlPasses(t)
        PROVE  UNCHANGED <<tasks, taskWatch>>
    BY <2>3 DEF TimerFires, TtlPasses
  <2>4. ASSUME NEW t \in Tasks, UserCreates(t) \/ UserDeletes(t)
        PROVE  \E new : WriteTask(t, new)
    BY <2>4 DEF UserCreates, UserDeletes
  <2>5. ASSUME NEW j \in JobNames, \/ DeliverJob(j) \/ CollectJob(j) \/ JobStarts(j) \/ JobEnds(j)
                                  \/ PodSeenTerminated(j) \/ PodVanishes(j)
        PROVE  UNCHANGED <<tasks, taskWatch>>
    BY <2>5 DEF DeliverJob, CollectJob, JobStarts, JobEnds, PodSeenTerminated, PodVanishes
  <2>6. CASE UNCHANGED vars
    BY <2>6 DEF vars
  <2> QED BY <2>1, <2>2, <2>3, <2>4, <2>5, <2>6 DEF Next, Controller
<1>2. \/ UNCHANGED <<jobs, jobWatch>>
      \/ \E j \in JobNames : DeliverJob(j)
      \/ \E j \in JobNames : \E new : WriteJob(j, new)
  <2>1. CASE DeleteJob \/ CreateJob
    <3>1. locals.key \in Tasks
      BY <2>1 DEF DeleteJob, CreateJob, Held
    <3>2. JobName[locals.key] \in JobNames
      BY <3>1, FieldTypes
    <3> QED BY <2>1, <3>2 DEF DeleteJob, CreateJob
  <2>2. CASE \/ Dequeue \/ ReadFails \/ GetTask \/ GetJob \/ PatchTask \/ ReadPods
    BY <2>2 DEF Dequeue, ReadFails, GetTask, GetJob, PatchTask, ReadPods
  <2>3. ASSUME NEW t \in Tasks, \/ DeliverTask(t) \/ TimerFires(t) \/ TtlPasses(t)
                               \/ UserCreates(t) \/ UserDeletes(t)
        PROVE  UNCHANGED <<jobs, jobWatch>>
    BY <2>3 DEF DeliverTask, TimerFires, TtlPasses, UserCreates, UserDeletes
  <2>4. ASSUME NEW j \in JobNames, CollectJob(j) \/ JobStarts(j) \/ JobEnds(j)
        PROVE  \E new : WriteJob(j, new)
    BY <2>4 DEF CollectJob, JobStarts, JobEnds
  <2>5. ASSUME NEW j \in JobNames, PodSeenTerminated(j) \/ PodVanishes(j)
        PROVE  UNCHANGED <<jobs, jobWatch>>
    BY <2>5 DEF PodSeenTerminated, PodVanishes
  <2>6. CASE UNCHANGED vars
    BY <2>6 DEF vars
  <2> QED BY <2>1, <2>2, <2>3, <2>4, <2>5, <2>6 DEF Next, Controller
<1>3. ASSUME NEW t \in Tasks
      PROVE  /\ tasks'[t] # tasks[t] => taskWatch'[t] # <<>>
             /\ taskWatch[t] # <<>> => taskWatch'[t] # <<>> \/ t \in queued'
  <2>a. taskWatch[t] \in Seq(TaskObjects) /\ tasks'[t] \in TaskObjects
    BY DEF TypeOK
  <2>1. ASSUME NEW n \in Tasks, DeliverTask(n)
        PROVE  /\ tasks'[t] = tasks[t]
               /\ taskWatch'[t] = taskWatch[t] \/ t \in queued'
    BY <2>1 DEF DeliverTask, TypeOK
  <2>2. ASSUME NEW n \in Tasks, NEW new, WriteTask(n, new)
        PROVE  taskWatch'[t] = Published(taskWatch[t], tasks[t], tasks'[t])
    BY <2>2 DEF WriteTask, Published, TypeOK
  <2> QED BY <1>1, <2>a, <2>1, <2>2, PublishedType
<1>4. ASSUME NEW j \in JobNames
      PROVE  /\ jobs'[j] # jobs[j] => jobWatch'[j] # <<>>
             /\ jobWatch[j] # <<>> => jobWatch'[j] # <<>> \/ DeliverJob(j)
  <2>a. jobWatch[j] \in Seq(JobObjects) /\ jobs'[j] \in JobObjects
    BY DEF TypeOK
  <2>1. ASSUME NEW n \in JobNames, DeliverJob(n)
        PROVE  /\ jobs'[j] = jobs[j]
               /\ jobWatch'[j] = jobWatch[j] \/ n = j
    BY <2>1 DEF DeliverJob, TypeOK
  <2>2. ASSUME NEW n \in JobNames, NEW new, WriteJob(n, new)
        PROVE  jobWatch'[j] = Published(jobWatch[j], jobs[j], jobs'[j])
    BY <2>2 DEF WriteJob, Published, TypeOK
  <2> QED BY <1>2, <2>a, <2>1, <2>2, PublishedType
<1> QED BY <1>3, <1>4

(* Without a restart, a queued Task stays queued until it is taken, and a timer is *)
(* pending until it fires.                                                         *)
LEMMA WorkStays ==
    ASSUME TypeOK, Held, [Next]_vars, ~Restart, NEW t \in Tasks
    PROVE  /\ expired \subseteq expired'
           /\ t \in queued => t \in queued' \/ Working(t, {"getTask"})'
           /\ \A u \in Uids : <<t, u>> \in timers =>
                \/ <<t, u>> \in timers'
                \/ UNCHANGED tasks /\ t \in queued' /\ (u \in expired \/ tasks[t].uid # u)
           /\ UNCHANGED <<pc, locals>> \/ Controller
<1> USE DEF storeVars, cacheVars, workVars, budgetVars
<1>1. CASE Dequeue
  <2>1. PICK n \in queued : /\ queued' = queued \ {n}
                           /\ pc' = "getTask" /\ locals' = [NoLocals EXCEPT !.key = n]
    BY <1>1 DEF Dequeue
  <2>2. locals'.key = n
    BY <2>1 DEF NoLocals
  <2> QED BY <1>1, <2>1, <2>2 DEF Dequeue, Working, Controller
<1>2. CASE ReadFails \/ GetTask \/ DeleteJob \/ GetJob \/ CreateJob \/ ReadPods \/ PatchTask
  <2> HIDE DEF Converted
  <2>1. expired' = expired /\ queued \subseteq queued' /\ timers \subseteq timers'
    BY <1>2 DEF ReadFails, GetTask, DeleteJob, GetJob, CreateJob, ReadPods, PatchTask,
                Call, Done, Retry, RequeueAfterTtl
  <2> QED BY <1>2, <2>1 DEF Controller
<1>3. ASSUME NEW n \in Tasks, TimerFires(n)
      PROVE  /\ UNCHANGED <<pc, locals, tasks, expired>> /\ queued \subseteq queued'
             /\ \A u \in Uids : <<t, u>> \in timers =>
                  <<t, u>> \in timers' \/ (t \in queued' /\ (u \in expired \/ tasks[t].uid # u))
  BY <1>3 DEF TimerFires
<1>4. ASSUME NEW n \in Tasks, DeliverTask(n) \/ TtlPasses(n) \/ UserCreates(n) \/ UserDeletes(n)
      PROVE  UNCHANGED <<pc, locals, timers>> /\ queued \subseteq queued' /\ expired \subseteq expired'
  BY <1>4 DEF DeliverTask, TtlPasses, UserCreates, UserDeletes
<1>5. ASSUME NEW j \in JobNames, \/ DeliverJob(j) \/ CollectJob(j) \/ JobStarts(j) \/ JobEnds(j)
                                \/ PodSeenTerminated(j) \/ PodVanishes(j)
      PROVE  UNCHANGED <<pc, locals, timers, expired>> /\ queued \subseteq queued'
  BY <1>5 DEF DeliverJob, CollectJob, JobStarts, JobEnds, PodSeenTerminated, PodVanishes
<1>6. UNCHANGED vars => UNCHANGED <<pc, locals, timers, expired, queued>>
  BY DEF vars
<1> QED BY <1>1, <1>2, <1>3, <1>4, <1>5, <1>6 DEF Next, Controller

(* Whoever completes a Task sets its timer.                                   *)
LEMMA TimedInductive ==
    ASSUME TypeOK, Held, Unfinished, [Next]_vars, ~Restart, ~LostReplies,
           NEW t \in Tasks, Timed(t)
    PROVE  Timed(t)'
<1> USE DEF storeVars, cacheVars, workVars, budgetVars
<1> SUFFICES ASSUME Completed(tasks'[t]), tasks'[t].uid \notin expired'
             PROVE  <<t, tasks'[t].uid>> \in timers'
  BY DEF Timed, Completed
<1>1. CASE tasks'[t] = tasks[t]
  <2>1. tasks[t].uid \notin expired
    BY <1>1, WorkStays
  <2>2. <<t, tasks[t].uid>> \in timers
    BY <1>1, <2>1 DEF Timed
  <2>3. tasks[t].uid \in Uids
    BY <2>2 DEF TypeOK
  <2> QED BY <1>1, <2>1, <2>2, <2>3, WorkStays
<1>2. CASE PatchTask /\ tasks'[t] # tasks[t]
  <2> DEFINE stored == tasks[locals.key]
  <2>1. PICK outcome \in Outcomes :
          LET new == IF Reaches(outcome) /\ Exists(stored) THEN Patched(stored) ELSE stored
          IN  /\ WriteTask(locals.key, new)
              /\ CASE outcome # "ok" \/ ~Exists(stored) -> Retry
                   [] outcome = "ok" /\ Exists(stored) /\ Completed(new) /\ ~locals.desired ->
                        RequeueAfterTtl(new.uid)
                   [] OTHER -> Done
    BY <1>2 DEF PatchTask
  <2> DEFINE new == IF Reaches(outcome) /\ Exists(stored) THEN Patched(stored) ELSE stored
  <2>2. locals.key = t /\ tasks'[t] = new /\ new # stored
    BY <1>2, <2>1 DEF WriteTask, TypeOK
  <2>3. Reaches(outcome) /\ Exists(stored) /\ new = Patched(stored)
    BY <2>2
  <2>4. outcome = "ok"
    BY <2>1, <2>3 DEF Outcomes, Reaches
  <2>5. ~locals.desired
    <3>1. SUFFICES ASSUME locals.desired PROVE ~Completed(new)
      BY <2>2
    <3>2. ~Completed(locals.task) /\ locals.job.phase = "created"
      BY <1>2, <3>1 DEF PatchTask, Unfinished
    <3> DEFINE conds == locals.task.conds \cup StatusConditions(locals.job.phase)
    <3>3. StatusConditions(locals.job.phase) = {"Initialized"}
      BY <3>2 DEF StatusConditions
    <3>4. conds \cap {"Succeeded", "Failed"} = {}
      BY <3>2, <3>3 DEF Completed
    <3>5. new = [stored EXCEPT !.conds = conds]
      BY <2>2, <2>3 DEF Patched
    <3>6. stored \in TaskObjects /\ conds \subseteq Conditions
      BY <2>2, <3>3, FieldTypes DEF Conditions
    <3> HIDE DEF conds, stored
    <3>7. [stored EXCEPT !.conds = conds].conds = conds
      BY <2>3, <3>6, ObjectTypes
    <3> QED BY <3>4, <3>5, <3>7 DEF Completed
  <2>6. RequeueAfterTtl(new.uid)
    BY <2>1, <2>2, <2>3, <2>4, <2>5
  <2> QED BY <2>2, <2>6 DEF RequeueAfterTtl
<1>3. CASE \/ Dequeue \/ ReadFails \/ GetTask \/ DeleteJob \/ GetJob \/ CreateJob \/ ReadPods
  BY <1>1, <1>3 DEF Dequeue, ReadFails, GetTask, DeleteJob, GetJob, CreateJob, ReadPods
<1>4. ASSUME NEW n \in Tasks, UserCreates(n) \/ UserDeletes(n), tasks'[t] # tasks[t]
      PROVE  FALSE
  <2>1. UserCreates(n) => tasks'[t].conds = {}
    <3>1. UserCreates(n) => tasks'[t] = [uid |-> made.tasks + 1, conds |-> {}]
      BY <1>4 DEF UserCreates, WriteTask, TypeOK
    <3> QED BY <3>1
  <2>2. UserDeletes(n) => tasks'[t] = NoTask
    BY <1>4 DEF UserDeletes, WriteTask, TypeOK
  <2>3. tasks'[t].conds = {}
    BY <1>4, <2>1, <2>2, NoObjects
  <2> QED BY <2>3 DEF Completed
<1>5. ASSUME NEW n \in Tasks, DeliverTask(n) \/ TimerFires(n) \/ TtlPasses(n)
      PROVE  tasks' = tasks
  BY <1>5 DEF DeliverTask, TimerFires, TtlPasses
<1>6. ASSUME NEW j \in JobNames, \/ DeliverJob(j) \/ CollectJob(j) \/ JobStarts(j) \/ JobEnds(j)
                                \/ PodSeenTerminated(j) \/ PodVanishes(j)
      PROVE  tasks' = tasks
  BY <1>6 DEF DeliverJob, CollectJob, JobStarts, JobEnds, PodSeenTerminated, PodVanishes
<1>7. UNCHANGED vars => tasks' = tasks
  BY DEF vars
<1> QED BY <1>1, <1>2, <1>3, <1>4, <1>5, <1>6, <1>7 DEF Next, Controller

(* A Task that is due is not dropped before its Job is deleted.               *)
LEMMA DueInductive ==
    ASSUME TypeOK, TypeOK', Held, Follows, UidsNamed, [Next]_vars, ~Restart,
           NEW t \in Tasks, Timed(t), Due(t) => OnItsWay(t), Due(t)'
    PROVE  OnItsWay(t)'
<1> DEFINE j == JobName[t]
           u == tasks[t].uid
<1>a. /\ j \in JobNames /\ jobCache[j] \in JobObjects /\ jobWatch[j] \in Seq(JobObjects)
      /\ taskCache[t] \in TaskObjects /\ taskWatch[t] \in Seq(TaskObjects)
      /\ tasks[t] \in TaskObjects /\ jobs[j] \in JobObjects
  BY FieldTypes
<1>b. CASE tasks'[t] # tasks[t] \/ jobs'[j] # jobs[j]
  BY <1>a, <1>b, WatchesStay DEF OnItsWay
<1>c. CASE tasks'[t] = tasks[t] /\ jobs'[j] = jobs[j]
  <2>1. Completed(tasks[t]) /\ u \in expired' /\ jobs[j].owner = u
    BY <1>c DEF Due, Completed
  <2>2. Exists(tasks[t]) /\ u \in Uids /\ u # 0
    <3>1. tasks[t] # NoTask
      BY <2>1, NoObjects DEF Completed
    <3>2. Exists(tasks[t])
      BY <1>a, <3>1, Absent
    <3> QED BY <3>2, FieldTypes DEF Exists
  <2>3. Exists(jobs[j])
    <3>1. NoJob.owner = 0
      BY DEF NoJob
    <3>2. jobs[j] # NoJob
      BY <2>1, <2>2, <3>1
    <3> QED BY <1>a, <3>2, Absent
  <2>4. ASSUME NEW n \in Uids, <<t, n>> \in timers PROVE OnItsWay(t)'
    BY <2>4, WorkStays DEF OnItsWay
  <2>5. CASE t \in queued
    BY <2>5, WorkStays DEF OnItsWay, Working
  <2>6. CASE taskWatch[t] # <<>>
    BY <2>6, WatchesStay DEF OnItsWay
  <2>7. CASE jobWatch[j] # <<>>
    <3>1. CASE jobWatch'[j] # <<>>
      BY <3>1 DEF OnItsWay
    <3>2. CASE jobWatch'[j] = <<>> /\ DeliverJob(j)
      <4>1. /\ jobWatch'[j] = Tail(jobWatch[j])
            /\ queued' = queued \cup Owners({jobCache[j], Head(jobWatch[j])})
        BY <1>a, <3>2 DEF DeliverJob, TypeOK
      <4>2. Newest(Head(jobWatch[j]), Tail(jobWatch[j])) = jobs[j]
        BY <1>a, <2>7, NewestDelivered DEF Follows
      <4>3. Head(jobWatch[j]) = jobs[j]
        BY <3>2, <4>1, <4>2 DEF Newest
      <4>4. jobs[j].key = t
        <5>1. PICK name \in [Uids -> Keys] : NamesUids(name)
          BY DEF UidsNamed
        <5>2. name[u] = t
          <6>1. tasks[t] \in TaskCopies(t)
            BY DEF TaskCopies
          <6> QED BY <2>2, <5>1, <6>1 DEF NamesUids
        <5>3. name[u] = jobs[j].key
          BY <1>a, <2>1, <2>3, <5>1 DEF NamesUids
        <5> QED BY <5>2, <5>3
      <4>5. t \in queued'
        BY <2>3, <4>1, <4>3, <4>4 DEF Owners
      <4> QED BY <4>5 DEF OnItsWay
    <3> QED BY <1>a, <2>7, <3>1, <3>2, WatchesStay
  <2>8. CASE Working(t, {"getTask", "deleteJob"}) /\ UNCHANGED <<pc, locals>>
    BY <2>8 DEF OnItsWay, Working
  <2>9. CASE Working(t, {"getTask", "deleteJob"}) /\ Controller /\ taskWatch[t] = <<>>
             /\ u \in expired
    <3>1. CASE ReadFails
      BY <2>9, <3>1 DEF ReadFails, Retry, Working, OnItsWay
    <3>2. CASE GetTask
      <4>1. taskCache[t] = tasks[t]
        BY <2>9 DEF Follows, Newest
      <4>2. Call("deleteJob", [locals EXCEPT !.task = tasks[t]])
        BY <2>1, <2>2, <2>9, <3>2, <4>1 DEF GetTask, Working
      <4>3. pc' = "deleteJob" /\ locals'.key = t
        BY <2>9, <4>2 DEF Call, Working, TypeOK
      <4> QED BY <4>3 DEF OnItsWay, Working
    <3>3. CASE DeleteJob
      <4>1. PICK outcome \in Outcomes :
              /\ WriteJob(j, IF Reaches(outcome) THEN NoJob ELSE jobs[j])
              /\ IF outcome = "ok" THEN Done ELSE Retry
        BY <2>9, <3>3 DEF DeleteJob, Working
      <4>2. outcome # "ok"
        <5>1. SUFFICES ASSUME outcome = "ok" PROVE jobs'[j] = NoJob
          BY <1>c, <2>3, NoObjects
        <5>2. WriteJob(j, NoJob)
          BY <4>1, <5>1 DEF Reaches
        <5> QED BY <1>a, <5>2 DEF WriteJob, TypeOK
      <4>3. t \in queued'
        BY <2>9, <4>1, <4>2 DEF Retry, Working
      <4> QED BY <4>3 DEF OnItsWay
    <3> QED BY <2>9, <3>1, <3>2, <3>3 DEF Controller, Working, Dequeue, GetJob, CreateJob,
                                          ReadPods, PatchTask
  <2>10. CASE u \notin expired
    <3>1. <<t, u>> \in timers
      BY <2>1, <2>10 DEF Timed
    <3> QED BY <2>2, <2>4, <3>1
  <2>11. u \in expired => OnItsWay(t)
    BY <2>1 DEF Due
  <2> QED BY <2>4, <2>5, <2>6, <2>7, <2>8, <2>9, <2>10, <2>11, WorkStays DEF OnItsWay
<1> QED BY <1>b, <1>c

(* Once the TTL of a completed Task has passed, its Job is gone or the controller *)
(* is about to look at the Task again, whatever is stale, fails, shares a Job     *)
(* name or is named again: until the controller is restarted, and unless the      *)
(* answer to the patch that completes the Task is lost (Reconcile, RequeueAfter). *)
THEOREM TtlIsKept ==
    ASSUME ~LostReplies
    PROVE  Spec => [](restarts = 0 => TtlKept)
<1>1. Init => TtlInv
  <2> SUFFICES ASSUME Init PROVE TtlInv
    OBVIOUS
  <2>1. TypeOK /\ Held
    BY TypeInit
  <2>2. Follows
    BY DEF Init, Follows, Newest
  <2>3. \A t \in Tasks : \A x \in TaskCopies(t) : ~Exists(x)
    <3> SUFFICES ASSUME NEW t \in Tasks, NEW x \in TaskCopies(t) PROVE ~Exists(x)
      OBVIOUS
    <3>1. tasks[t] = NoTask /\ taskCache[t] = NoTask /\ taskWatch[t] = <<>>
      BY DEF Init
    <3>2. Len(taskWatch[t]) = 0
      BY <3>1, EmptySeq
    <3>3. x = NoTask
      BY <3>1, <3>2 DEF TaskCopies, Copies
    <3> QED BY <3>3, NoObjects
  <2>4. UidsNamed
    <3>1. \A j \in JobNames : ~Exists(jobs[j])
      BY NoObjects DEF Init
    <3>2. pc \notin PastGetTask
      BY DEF Init, PastGetTask
    <3>3. \A name : NamesUids(name)
      BY <2>3, <3>1, <3>2 DEF NamesUids
    <3>4. [n \in Uids |-> ""] \in [Uids -> Keys]
      BY DEF Keys
    <3> QED BY <3>3, <3>4 DEF UidsNamed
  <2>5. Unfinished
    BY DEF Init, Unfinished, NoLocals
  <2>6. \A t \in Tasks : ~Completed(tasks[t])
    BY NoObjects DEF Init, Completed
  <2> QED BY <2>1, <2>2, <2>4, <2>5, <2>6 DEF TtlInv, Timed, Due
<1>2. TtlInv /\ [Next]_vars => TtlInv'
  <2> SUFFICES ASSUME TtlInv, [Next]_vars PROVE TtlInv'
    OBVIOUS
  <2>1. /\ TypeOK /\ Held /\ Follows /\ UidsNamed /\ Unfinished
        /\ TypeOK' /\ Held'
    BY TypeInductive, HeldInductive DEF TtlInv
  <2>2. Follows' /\ UidsNamed' /\ Unfinished'
    BY <2>1, FollowsInductive, NamedInductive, UnfinishedInductive
  <2>3. ASSUME restarts' = 0, NEW t \in Tasks
        PROVE  Timed(t)' /\ (Due(t)' => OnItsWay(t)')
    <3>1. ~Restart /\ restarts = 0
      BY <2>1, <2>3, RestartsCounted
    <3>2. Timed(t) /\ (Due(t) => OnItsWay(t))
      BY <3>1 DEF TtlInv
    <3> QED BY <2>1, <3>1, <3>2, TimedInductive, DueInductive
  <2> QED BY <2>1, <2>2, <2>3 DEF TtlInv
<1>3. TtlInv => (restarts = 0 => TtlKept)
  BY DEF TtlInv, Due, OnItsWay, Working, TtlKept, Attended
<1> QED BY <1>1, <1>2, <1>3, PTL DEF Spec
=============================================================================
