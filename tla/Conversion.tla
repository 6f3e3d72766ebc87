----------------------------- MODULE Conversion -----------------------------
(***************************************************************************)
(* What an LRP and a Task are turned into: the StatefulSet of              *)
(* k8s/stset/lrp_to_statefulset.go with its probes, security context and   *)
(* registry secret, the PodDisruptionBudget of k8s/pdb, the Job of         *)
(* k8s/jobs/task_to_job.go; the Updater's change of a StatefulSet; and the *)
(* two admission webhooks (k8s/webhook).                                   *)
(*                                                                         *)
(* Objects are records of what tells two of them apart.  One field, place, *)
(* stands for the names and GUIDs of organisation and space.               *)
(***************************************************************************)
EXTENDS Names, Integers, FiniteSets


CONSTANTS
    Config,       \* [serviceAccount, registrySecret, allowAutomountToken]
    Int32Limit    \* 2^31 in the code

ASSUME LimitAssumption == Int32Limit \in Nat \ {0}

Int32(n) == ((n + Int32Limit) % (2 * Int32Limit)) - Int32Limit

Var(name, value) == [name |-> name, value |-> value]

(* Ranging over a map gives its entries in any order. *)
MapToEnvVar(env) == {[i \in DOMAIN order |-> Var(order[i], env[order[i]])] : order \in SetToSeqs(DOMAIN env)}

FieldEnvs == <<Var("POD_NAME", "metadata.name"), Var("CF_INSTANCE_GUID", "metadata.uid"),
               Var("CF_INSTANCE_IP", "status.hostIP"), Var("CF_INSTANCE_INTERNAL_IP", "status.podIP")>>

AddressEnvs == <<Var("CF_INSTANCE_ADDR", ""), Var("CF_INSTANCE_PORT", ""), Var("CF_INSTANCE_PORTS", "[]")>>

PlatformEnvsFirst(lrp) ==     \* mutated form: the user's variables behind the platform's
    {FieldEnvs \o envs \o lrp.environment : envs \in MapToEnvVar(lrp.env)}

LrpEnvs(lrp) == {envs \o lrp.environment \o FieldEnvs : envs \in MapToEnvVar(lrp.env)}

TaskEnvs(task) == {envs \o FieldEnvs \o AddressEnvs \o task.environment : envs \in MapToEnvVar(task.env)}

ContainerSecurityContext == [privilegeEscalation |-> FALSE, runAsNonRoot |-> TRUE,
                             drop |-> {"ALL"}, seccomp |-> "RuntimeDefault"]
NoSecurityContext == [privilegeEscalation |-> TRUE, runAsNonRoot |-> FALSE, drop |-> {}, seccomp |-> ""]

(* The settings both converters are made with. *)
ServiceAccount == Config.serviceAccount
RegistrySecretName == Config.registrySecret
AutomountToken == IF Config.allowAutomountToken THEN "default" ELSE "no"

-----------------------------------------------------------------------------
(* LRP to StatefulSet *)

NoProbe == [action |-> "none", port |-> 0, path |-> "", delay |-> 0, threshold |-> 0]
Probe(health, delay, threshold) ==
    CASE health.type = "http" -> [action |-> "httpGet", port |-> health.port, path |-> health.endpoint,
                                  delay |-> delay, threshold |-> threshold]
      [] health.type = "port" -> [action |-> "tcpSocket", port |-> health.port, path |-> "",
                                  delay |-> delay, threshold |-> threshold]
      [] OTHER -> NoProbe

LivenessProbe(lrp)  == Probe(lrp.health, lrp.health.timeoutMs \div 1000, 4)
ReadinessProbe(lrp) == Probe(lrp.health, 0, 1)

ContainerResources(cpuWeight, memoryMB, diskMB) ==
    [limits   |-> [memory |-> <<memoryMB, "Mi">>, storage |-> <<diskMB, "Mi">>],
     requests |-> [memory |-> <<memoryMB, "Mi">>, cpu |-> <<cpuWeight, "m">>]]

Volumes(lrp) == [i \in DOMAIN lrp.volumeMounts |-> lrp.volumeMounts[i].claimName]

ApplicationContainer(lrp, envs) ==
    [name |-> "opi", image |-> lrp.image, env |-> envs,
     command |-> lrp.command, ports |-> lrp.ports,
     securityContext |-> ContainerSecurityContext,
     resources |-> ContainerResources(lrp.cpuWeight, lrp.memoryMB, lrp.diskMB),
     liveness |-> LivenessProbe(lrp), readiness |-> ReadinessProbe(lrp),
     volumeMounts |-> lrp.volumeMounts]

(* What a sidecar sets; its own env is a map, in an order nothing depends on. *)
SidecarContainer(lrp, s) ==
    [ApplicationContainer(lrp, CHOOSE envs \in MapToEnvVar(s.env) : TRUE) EXCEPT
       !.name = s.name, !.command = s.command, !.ports = <<>>,
       !.securityContext = NoSecurityContext,
       !.resources = ContainerResources(lrp.cpuWeight, s.memoryMB, lrp.diskMB),
       !.liveness = NoProbe, !.readiness = NoProbe, !.volumeMounts = <<>>]

Containers(lrp) ==
    {<<ApplicationContainer(lrp, envs)>> \o [i \in DOMAIN lrp.sidecars |-> SidecarContainer(lrp, lrp.sidecars[i])]
       : envs \in LrpEnvs(lrp)}

SelectorWithoutVersion(lrp) ==     \* mutated form: the versions of an app are not told apart
    [guid |-> lrp.guid, sourceType |-> "APP"]

StatefulSetLabelSelector(lrp) ==
    [guid |-> lrp.guid, version |-> lrp.version, sourceType |-> "APP"]

Labels(lrp) == [guid |-> lrp.guid, version |-> lrp.version, sourceType |-> "APP",
                processType |-> lrp.processType, appGuid |-> lrp.appGuid, place |-> lrp.place]

AntiAffinity(lrp) ==     \* preferred, per host
    {[key |-> l, in |-> StatefulSetLabelSelector(lrp)[l]] : l \in DOMAIN StatefulSetLabelSelector(lrp)}

(* A user's annotation replaces the platform's of that name. *)
Annotations(lrp) ==
    lrp.userDefinedAnnotations @@
    [appId |-> lrp.appGuid, appName |-> lrp.appName, version |-> lrp.version,
     processGuid |-> ProcessGuid(lrp), place |-> lrp.place]

(* A registry secret, whose generated name is abstracted, is the hosts that *)
(* the configuration in it has credentials for.                             *)
NoSecret == {}
NewDockerConfig(host) == {host}
RegistrySecretOf(lrp) ==
    IF lrp.privateRegistry THEN NewDockerConfig(ParseImageRegistryHost(lrp.image)) ELSE NoSecret

ImagePullSecrets(secret) ==
    IF secret = NoSecret THEN <<RegistrySecretName>> ELSE <<RegistrySecretName, secret>>

Convert(name, lrp, secret) ==
    {[name |-> name, labels |-> Labels(lrp), annotations |-> Annotations(lrp),
      replicas |-> Int32(lrp.instances), podManagement |-> "Parallel",
      selector |-> StatefulSetLabelSelector(lrp),
      template |-> [labels |-> Labels(lrp), annotations |-> Annotations(lrp), containers |-> containers,
                    pullSecrets |-> ImagePullSecrets(secret),
                    volumes |-> Volumes(lrp),
                    serviceAccount |-> ServiceAccount, automountToken |-> AutomountToken,
                    antiAffinity |-> AntiAffinity(lrp)]]
     : containers \in Containers(lrp)}

Budget(sts, lrp) == [name |-> sts.name, labels |-> [guid |-> lrp.guid, version |-> lrp.version],
                     minAvailable |-> "50%", selector |-> StatefulSetLabelSelector(lrp)]

(* getUpdatedStatefulSetObj: the replicas, and the image of the application *)
(* container unless the LRP's is empty                                      *)
NoImage == [host |-> "", path |-> <<>>]

UpdatedStatefulSet(sts, lrp) ==
    [sts EXCEPT
       !.replicas = Int32(lrp.instances),
       !.template.containers =
          [i \in DOMAIN @ |->
             IF @[i].name = "opi" /\ lrp.image # NoImage THEN [@[i] EXCEPT !.image = lrp.image] ELSE @[i]]]

-----------------------------------------------------------------------------
(* Task to Job: Job and template share the two maps *)

TaskLabels(task) == [guid |-> task.guid, appGuid |-> task.appGuid, sourceType |-> "TASK", name |-> task.name]

TaskAnnotations(task) == [appId |-> task.appGuid, appName |-> task.appName, place |-> task.place,
                          guid |-> task.guid, container |-> "opi-task"]

TaskResources(task) ==      \* decimal megabytes, unlike an LRP's
    LET memory == <<task.memoryMB, "M">>
        storage == <<task.diskMB, "M">>
    IN  [limits |-> [memory |-> memory, storage |-> storage],
         requests |-> [memory |-> memory, storage |-> storage, cpu |-> <<task.cpuMillis, "m">>]]

ConvertTask(task) ==
    {[name |-> GetJobName(task), labels |-> TaskLabels(task), annotations |-> TaskAnnotations(task),
      parallelism |-> 1, completions |-> 1, backoffLimit |-> 0,
      template |-> [labels |-> TaskLabels(task), annotations |-> TaskAnnotations(task),
                    restartPolicy |-> "Never",
                    containers |-> <<[name |-> "opi-task", image |-> task.image, env |-> envs,
                                      command |-> task.command, resources |-> TaskResources(task),
                                      securityContext |-> ContainerSecurityContext]>>,
                    pullSecrets |-> <<RegistrySecretName>> \o task.imagePullSecrets,
                    serviceAccount |-> ServiceAccount, automountToken |-> AutomountToken]]
     : envs \in TaskEnvs(task)}

-----------------------------------------------------------------------------
(* The webhooks *)

EnvIsMutable == {"image", "instances", "environment"}      \* mutated form
AppNameIsMutable == {"image", "instances", "appName"}      \* mutated form
lrpMutableFields == {"image", "instances"}

CompareLRPSpecs(updatedSpec, originalSpec, ignoredFields) ==
    {f \in DOMAIN originalSpec \ ignoredFields : updatedSpec[f] # originalSpec[f]}

ChangeAdmitted(updatedSpec, originalSpec) ==
    CompareLRPSpecs(updatedSpec, originalSpec, lrpMutableFields) = {}

(* injectInstanceIndex: the first application container, or no pod *)
HasApplicationContainer(pod) == \E i \in DOMAIN pod.containers : pod.containers[i].name = "opi"

PodAdmitted(pod) == ParseAppIndex(pod.name) # NoIndex /\ HasApplicationContainer(pod)

IndexBeforeUserEnv(pod) ==      \* mutated form: the variable comes first
    LET index == Var("CF_INSTANCE_INDEX", ToString(ParseAppIndex(pod.name)))
        c == SelectInSeq(pod.containers, LAMBDA container : container.name = "opi")
    IN  [pod EXCEPT !.containers[c].env = <<index>> \o @]

InjectedInstanceIndex(pod) ==
    LET index == Var("CF_INSTANCE_INDEX", ToString(ParseAppIndex(pod.name)))
        c == SelectInSeq(pod.containers, LAMBDA container : container.name = "opi")
    IN  [pod EXCEPT !.containers[c].env = Append(@, index)]
=============================================================================
