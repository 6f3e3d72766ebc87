------------------------------ MODULE DeepCopy ------------------------------
(***************************************************************************)
(* The generated copies of the API types (zz_generated.deepcopy.go).  The  *)
(* informers hand out copies of what they hold.  The reconcilers write     *)
(* into them: the conditions of a Task, and the answer of a status patch,  *)
(* which is decoded into the object that was patched, into the slices and  *)
(* maps it has.                                                            *)
(*                                                                         *)
(* A slice is a sequence, a map a function on names, a pointer a sequence  *)
(* of one element.                                                         *)
(***************************************************************************)
EXTENDS Workload, TLC

(* The declarations: the fields of a type that hold memory, directly or in a *)
(* struct, each with the type of its elements or of the struct.  What has    *)
(* no fields here is plain.                                                  *)
Plain == <<>>
LRPSpecFields ==
    [command |-> "string", sidecars |-> "Sidecar", privateRegistry |-> "PrivateRegistry",
     env |-> "string", environment |-> "EnvVar", health |-> "Healthcheck", ports |-> "int32",
     volumeMounts |-> "VolumeMount", userDefinedAnnotations |-> "string"]
TaskSpecFields ==
    [imagePullSecrets |-> "LocalObjectReference", env |-> "string", environment |-> "EnvVar",
     command |-> "string"]

Fields ==
    [LRPList |-> [items |-> "LRP"], TaskList |-> [items |-> "Task"],
     LRP |-> [metadata |-> "ObjectMeta", spec |-> "LRPSpec"], LRPSpec |-> LRPSpecFields,
     Sidecar |-> [command |-> "string", env |-> "string"],
     Task |-> [metadata |-> "ObjectMeta", spec |-> "TaskSpec", status |-> "TaskStatus"],
     TaskSpec |-> TaskSpecFields, TaskStatus |-> [conditions |-> "Condition"],
     ObjectMeta |-> [labels |-> "string"], EnvVar |-> [valueFrom |-> "EnvVarSource"],
     PrivateRegistry |-> Plain, Healthcheck |-> Plain, VolumeMount |-> Plain]
FieldsOf(type) == IF type \in DOMAIN Fields THEN Fields[type] ELSE Plain

Structs == {"metadata", "spec", "status", "health"}
Maps == {"env", "userDefinedAnnotations", "labels"}

-----------------------------------------------------------------------------
(* What DeepCopyInto does with a field: "new" memory with the elements       *)
(* assigned, or a "deep" copy by their own DeepCopyInto.  A field that is    *)
(* not listed is assigned.                                                   *)
LRPCopies == [metadata |-> "deep", spec |-> "deep"]
LRPListCopies == [metadata |-> "deep", items |-> "deep"]
TaskCopies == [metadata |-> "deep", spec |-> "deep", status |-> "deep"]
TaskListCopies == [metadata |-> "deep", items |-> "deep"]

SidecarsAssigned ==     \* mutated form: copy() for a slice of structs with maps
    [command |-> "new", sidecars |-> "new", privateRegistry |-> "new", env |-> "new",
     environment |-> "deep", ports |-> "new", volumeMounts |-> "new", userDefinedAnnotations |-> "new"]

LRPSpecCopies ==
    [command |-> "new", sidecars |-> "deep", privateRegistry |-> "new", env |-> "new",
     environment |-> "deep", ports |-> "new", volumeMounts |-> "new", userDefinedAnnotations |-> "new"]

SidecarCopies == [command |-> "new", env |-> "new"]
TaskSpecCopies == [imagePullSecrets |-> "new", env |-> "new", environment |-> "deep", command |-> "new"]
TaskStatusCopies == [conditions |-> "deep"]
ValuesOnly == <<>>      \* LRPStatus, PrivateRegistry, Route: assigned as a whole
HealthcheckCopies == ValuesOnly
VolumeMountCopies == ValuesOnly
ObjectMetaCopies == [labels |-> "new"]
EnvVarCopies == [valueFrom |-> "deep"]

Copies ==
    [LRPList |-> LRPListCopies, LRP |-> LRPCopies, LRPSpec |-> LRPSpecCopies, Sidecar |-> SidecarCopies,
     TaskList |-> TaskListCopies, Task |-> TaskCopies, TaskSpec |-> TaskSpecCopies,
     TaskStatus |-> TaskStatusCopies, PrivateRegistry |-> ValuesOnly, Healthcheck |-> HealthcheckCopies,
     VolumeMount |-> VolumeMountCopies, ObjectMeta |-> ObjectMetaCopies, EnvVar |-> EnvVarCopies]

(* How a field, or an element of it, of a copy that was made deep or assigned *)
(* was made.                                                                  *)
Made(type, how, field) ==
    IF how = "deep" /\ type \in DOMAIN Copies /\ field \in DOMAIN Copies[type]
    THEN Copies[type][field] ELSE "assigned"
ElementMade(type, how, field) == IF Made(type, how, field) = "deep" THEN "deep" ELSE "assigned"

(* Decoding fills the memory that is there: elements in place, keys added. *)
Filled(field, held, answer) ==
    IF field \in Maps THEN answer @@ held
    ELSE [i \in DOMAIN held |-> IF i \in DOMAIN answer THEN answer[i] ELSE held[i]]

(* What an object shows when an answer has been decoded into a copy of it: *)
(* the answer wherever the copy has the object's memory.                   *)
RECURSIVE Shows(_, _, _, _)
Shows(type, how, obj, answer) ==
    [f \in DOMAIN obj |->
       CASE f \notin DOMAIN FieldsOf(type) -> obj[f]
         [] f \in DOMAIN FieldsOf(type) \cap Structs ->
              Shows(Fields[type][f], Made(type, how, f), obj[f], answer[f])
         [] f \in DOMAIN FieldsOf(type) \ Structs /\ Made(type, how, f) = "assigned" ->
              Filled(f, obj[f], answer[f])
         [] OTHER ->
              [i \in DOMAIN obj[f] |->
                 IF i \in DOMAIN answer[f] /\ FieldsOf(Fields[type][f]) # Plain
                 THEN Shows(Fields[type][f], ElementMade(type, how, f), obj[f][i], answer[f][i])
                 ELSE obj[f][i]] ]

-----------------------------------------------------------------------------
(* The objects: what a user sends, with labels, references and credentials   *)
(* that tell it from another; and the conditions of a Task.                  *)
Referring(envs, to) ==
    [i \in DOMAIN envs |-> [name |-> envs[i].name, value |-> envs[i].value, valueFrom |-> <<to>>]]

LrpObject(spec) ==
    [metadata |-> [labels |-> [version |-> spec.version]],
     spec |-> [spec EXCEPT !.environment = Referring(@, spec.version),
                           !.privateRegistry = IF @ THEN <<[password |-> spec.image]>> ELSE <<>>]]

TaskObject(task, time) ==
    [metadata |-> [labels |-> [name |-> task.name]],
     spec |-> [task EXCEPT !.environment = Referring(@, task.name)],
     status |-> [conditions |-> <<[type |-> "Initialized", time |-> time]>>]]

(* An informer's objects are copied one by one or as a list, which copies each. *)
ListOf(obj) == [items |-> <<obj>>]
Untouched(type, cached, answer) ==
    Shows(type \o "List", "deep", ListOf(cached), ListOf(answer)) = ListOf(cached)

(* A reconciler that writes into the LRP or Task it was handed writes neither  *)
(* into the informer's object nor into the copy it compares with (MergeFrom):  *)
(* those show what they showed, whatever the answer of a status patch holds,   *)
(* that of an edited, labelled or re-created object included (DeepCopyObject,  *)
(* updateLRPStatus, updateTaskStatus).                                         *)
CacheUntouched ==
    /\ \A k \in Keys \ reconciled : Present(k) =>
         \A other \in UNION {Specs[j] : j \in Keys} :
            Untouched("LRP", LrpObject(lrps[k][1]), LrpObject(other))
    /\ \A task, other \in TaskSpecs :
         (\E j \in jobs : j.name = GetJobName(task)) =>
            Untouched("Task", TaskObject(task, 1), TaskObject(other, 2))
=============================================================================
