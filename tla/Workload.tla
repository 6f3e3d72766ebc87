------------------------------ MODULE Workload ------------------------------
(***************************************************************************)
(* What the components make of LRPs and Tasks together: users create and   *)
(* edit LRPs past the validating webhook, the LRP controller converts or   *)
(* updates, the StatefulSet controller starts pods past the injecting      *)
(* webhook, PodDisruptionBudgets select pods, Tasks become Jobs.           *)
(*                                                                         *)
(* A reconcile is one step here, with its reads current and its calls      *)
(* answered; the modules Lrp and Task take it apart.                       *)
(***************************************************************************)
EXTENDS Conversion

CONSTANTS
    Specs,        \* for each LRP, the specs its user may send
    TaskSpecs,    \* the Tasks
    MaxOrdinal    \* bound: ordinals of the pods started

Keys == DOMAIN Specs

ASSUME OrdinalAssumption == MaxOrdinal \in 0 .. MaxIndex
ASSUME SpecsAssumption ==
    \A k \in Keys : \A spec \in Specs[k] :
        {"guid", "version", "appName", "spaceName", "processType", "appGuid", "place", "image",
         "instances", "command", "env", "environment", "health", "ports", "memoryMB", "diskMB",
         "cpuWeight", "sidecars", "volumeMounts", "privateRegistry", "userDefinedAnnotations"}
           \subseteq DOMAIN spec

(* GUIDs are those of Cloud Foundry, and the digits of a hash are hexadecimal. *)
ASSUME NamesAssumption ==
    /\ \A k \in Keys : \A spec \in Specs[k] :
         /\ {spec.guid, spec.version, spec.appName, spec.spaceName} \subseteq Seq(STRING)
         /\ ValidName(spec.guid) /\ Alphanumeric(Hash(ProcessGuid(spec))[1])
    /\ \A task \in TaskSpecs :
         /\ {task.guid, task.name, task.appName, task.spaceName} \subseteq Seq(STRING)
         /\ ValidName(task.guid)

ASSUME HashAssumption ==
    \A k1, k2 \in Keys : \A spec1 \in Specs[k1], spec2 \in Specs[k2] :
        Hash(ProcessGuid(spec1)) = Hash(ProcessGuid(spec2)) => ProcessGuid(spec1) = ProcessGuid(spec2)

EnvVars == [name : STRING, value : STRING]

EnvironmentTyped(spec) ==
    /\ IsFiniteSet(DOMAIN spec.env) /\ DOMAIN spec.env \subseteq STRING
    /\ spec.env \in [DOMAIN spec.env -> STRING]
    /\ spec.environment \in Seq(EnvVars)

ASSUME EnvironmentAssumption ==
    /\ \A k \in Keys : \A spec \in Specs[k] :
         /\ EnvironmentTyped(spec)
         /\ Len(spec.sidecars) \in Nat /\ DOMAIN spec.sidecars = 1 .. Len(spec.sidecars)
    /\ \A task \in TaskSpecs : EnvironmentTyped(task)

VARIABLES
    lrps,          \* spec of each LRP, <<>> while there is none
    reconciled,    \* LRPs reconciled since their last edit
    stss,          \* StatefulSets, each with the LRP that owns it
    pdbs,          \* PodDisruptionBudgets, each with the LRP of its StatefulSet
    jobs,          \* Jobs
    pods           \* pods of StatefulSets and Jobs, as admitted

vars == <<lrps, reconciled, stss, pdbs, jobs, pods>>

Present(k) == lrps[k] # <<>>

Init ==
    /\ lrps = [k \in Keys |-> <<>>] /\ reconciled = {}
    /\ stss = {} /\ pdbs = {} /\ jobs = {} /\ pods = {}

-----------------------------------------------------------------------------
UserCreates(k) ==
    /\ ~Present(k)
    /\ \E spec \in Specs[k] : lrps' = [lrps EXCEPT ![k] = <<spec>>]
    /\ UNCHANGED <<reconciled, stss, pdbs, jobs, pods>>

UserEdits(k) ==
    /\ Present(k)
    /\ \E spec \in Specs[k] : /\ spec # lrps[k][1] /\ ChangeAdmitted(spec, lrps[k][1])
                              /\ lrps' = [lrps EXCEPT ![k] = <<spec>>]
    /\ reconciled' = reconciled \ {k}
    /\ UNCHANGED <<stss, pdbs, jobs, pods>>

(* pdb.Updater.Update *)
BudgetUpdated(sts, k) ==
    pdbs' = CASE lrps[k][1].instances <= 1 -> {p \in pdbs : p.budget.name # sts.name}
              [] \E p \in pdbs : p.budget.name = sts.name -> pdbs
              [] OTHER -> pdbs \cup {[owner |-> k, budget |-> Budget(sts, lrps[k][1])]}

(* Desire; the API server takes no invalid name and no container without image *)
Desire(k) ==
    LET lrp == lrps[k][1]
        name == GetStatefulsetName(lrp)
    IN  /\ Present(k) /\ lrp.image # NoImage /\ ValidName(name)
        /\ ~\E s \in stss : s.sts.name = name
        /\ \E sts \in Convert(name, lrp, RegistrySecretOf(lrp)) :
             /\ stss' = stss \cup {[owner |-> k, sts |-> sts]}
             /\ BudgetUpdated(sts, k)
        /\ reconciled' = reconciled \cup {k}
        /\ UNCHANGED <<lrps, jobs, pods>>

(* Update, and the PodDisruptionBudget behind it if there was something to do *)
Update(k) ==
    /\ Present(k) /\ k \notin reconciled
    /\ \E s \in stss :
         LET updated == UpdatedStatefulSet(s.sts, lrps[k][1])
         IN  /\ s.sts.name = GetStatefulsetName(lrps[k][1])
             /\ stss' = (stss \ {s}) \cup {[s EXCEPT !.sts = updated]}
             /\ IF updated # s.sts THEN BudgetUpdated(s.sts, k) ELSE UNCHANGED pdbs
    /\ reconciled' = reconciled \cup {k}
    /\ UNCHANGED <<lrps, jobs, pods>>

(* The StatefulSet controller; the webhook is called for pods labelled APP. *)
PodStarts(s) ==
    /\ \E ordinal \in 0 .. MaxOrdinal :
         LET pod == [name |-> s.sts.name \o Dash \o Decimal(ordinal), of |-> s.sts.name,
                     ordinal |-> ordinal, labels |-> s.sts.template.labels,
                     containers |-> s.sts.template.containers]
         IN  /\ ordinal < s.sts.replicas
             /\ \A p \in pods : p.name # pod.name
             /\ PodAdmitted(pod)
             /\ pods' = pods \cup {InjectedInstanceIndex(pod)}
    /\ UNCHANGED <<lrps, reconciled, stss, pdbs, jobs>>

PodStops ==
    /\ \E p \in pods : pods' = pods \ {p}
    /\ UNCHANGED <<lrps, reconciled, stss, pdbs, jobs>>

(* jobs.Desirer.Desire, and the pod of the Job *)
TaskRuns(task) ==
    /\ ~\E j \in jobs : j.name = GetJobName(task)
    /\ ValidName(GetJobName(task))
    /\ \E job \in ConvertTask(task) :
         /\ jobs' = jobs \cup {job}
         /\ pods' = pods \cup {[name |-> job.name \o Dash \o <<"x">>, of |-> job.name, ordinal |-> 0,
                                labels |-> job.template.labels, containers |-> job.template.containers]}
    /\ UNCHANGED <<lrps, reconciled, stss, pdbs>>

Next ==
    \/ \E k \in Keys : UserCreates(k) \/ UserEdits(k) \/ Desire(k) \/ Update(k)
    \/ \E s \in stss : PodStarts(s)
    \/ PodStops
    \/ \E task \in TaskSpecs : TaskRuns(task)

Spec == Init /\ [][Next]_vars

-----------------------------------------------------------------------------
(* Properties *)

(* Of several values the kubelet takes the last. *)
ValuesIn(envs, name) == {i \in DOMAIN envs : envs[i].name = name}
ValueIn(envs, name) == envs[CHOOSE i \in ValuesIn(envs, name) : \A j \in ValuesIn(envs, name) : j <= i].value

OfApp(p) == p.labels.sourceType = "APP"

(* An instance knows its number: CF_INSTANCE_INDEX is the ordinal of its pod, *)
(* whatever dashes and digits the name of the app ends in and whatever the    *)
(* user's environment says (injectInstanceIndex, ParseAppIndex).              *)
IndexIsOrdinal ==
    \A p \in pods : OfApp(p) => ValueIn(p.containers[1].env, "CF_INSTANCE_INDEX") = ToString(p.ordinal)

(* A user's environment cannot pose as the platform's in an app (Convert of   *)
(* an LRP); in a Task only the deprecated map cannot: Environment, which is   *)
(* appended last, has the last word (Convert of a Task).                      *)
PlatformVarsWin ==
    \A p \in pods, i \in DOMAIN FieldEnvs :
        \/ ValueIn(p.containers[1].env, FieldEnvs[i].name) = FieldEnvs[i].value
        \/ /\ ~OfApp(p)
           /\ \E task \in TaskSpecs : /\ GetJobName(task) = p.of
                                      /\ ValuesIn(task.environment, FieldEnvs[i].name) # {}

Selects(selector, labels) ==
    \A l \in DOMAIN selector : l \in DOMAIN labels /\ labels[l] = selector[l]

(* The budget of a StatefulSet counts the pods of that StatefulSet and of no  *)
(* other: not those of another version of the app that is rolled out next to  *)
(* it, not those of its Tasks (StatefulSetLabelSelector).                     *)
PdbSelectsOwnPods ==
    \A b \in pdbs, p \in pods : Selects(b.budget.selector, p.labels) <=> OfApp(p) /\ p.of = b.budget.name

(* What the webhook lets change and what the Updater carries over are the     *)
(* same: an edited LRP has the StatefulSet it would get if it were created    *)
(* now.  Not so the images of its sidecars and the registry its credentials   *)
(* are for, which stay those of the first image.                              *)
Comparable(lrp, sts) ==
    [sts EXCEPT
       !.template.containers = [i \in DOMAIN @ |-> IF i = 1 THEN @[i] ELSE [@[i] EXCEPT !.image = NoImage]],
       !.template.pullSecrets = IF lrp.privateRegistry THEN <<RegistrySecretName>> ELSE @]

UpdatedAsIfNew ==
    \A k \in reconciled, s \in stss :
        LET lrp == lrps[k][1] IN
          s.owner = k /\ lrp.image # NoImage =>
            \E fresh \in Convert(GetStatefulsetName(lrp), lrp, RegistrySecretOf(lrp)) :
               Comparable(lrp, s.sts) = Comparable(lrp, fresh)

(* However an LRP is edited, it keeps the one StatefulSet it has, and the one *)
(* it finds by its name is of its own GUID and version: an LRP does not edit  *)
(* or scale another version of the app (GetStatefulsetName).                  *)
OneStatefulSetPerLrp ==
    /\ \A s, t \in stss : s.owner = t.owner => s = t
    /\ \A s \in stss : s.sts.name = GetStatefulsetName(lrps[s.owner][1])
    /\ \A s \in stss, k \in Keys :
         Present(k) /\ s.sts.name = GetStatefulsetName(lrps[k][1])
            => ProcessGuid(lrps[s.owner][1]) = ProcessGuid(lrps[k][1])

(* The API server takes the names of StatefulSets and Jobs: only a name cut   *)
(* behind a dot or, for a Job, behind a dash is refused (sanitizeName).       *)
CutBehind(chars, name, maxLen) == Len(name) = maxLen /\ name[maxLen] \in chars

NamesAccepted ==
    /\ \A k \in Keys : Present(k) =>
         \/ ValidName(GetStatefulsetName(lrps[k][1]))
         \/ CutBehind({"."}, NamePrefix(lrps[k][1]), SanitizedNameMaxLen)
    /\ \A task \in TaskSpecs :
         \/ ValidName(GetJobName(task))
         \/ CutBehind({".", "-"}, GetJobName(task), SanitizedJobNameMaxLen)
=============================================================================
