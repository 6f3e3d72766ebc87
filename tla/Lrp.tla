-------------------------------- MODULE Lrp ---------------------------------
(***************************************************************************)
(* The LRP controller: k8s/reconciler/lrp.go with the StatefulSet Desirer  *)
(* and Updater (k8s/stset), the PodDisruptionBudget Updater (k8s/pdb) and  *)
(* the metric decorator (prometheus), for the objects of one LRP key.      *)
(*                                                                         *)
(* A reconcile is cut at its API calls: between two of them users edit the *)
(* LRP, pods become ready, informers deliver, the garbage collector runs   *)
(* and the process may be replaced by the standby replica.  Reads see the  *)
(* informer caches, writes reach the API server.                           *)
(***************************************************************************)
EXTENDS Informer, FiniteSets

CONSTANTS
    Instances,         \* spec.instances values users ask for
    Images,            \* spec.image values users ask for
    NoImage,           \* the empty image
    PrivateRegistry,   \* spec.privateRegistry is set
    LostReplies,       \* a write may be applied and still be answered by an error
    MaxLrps,           \* bound: LRPs created under the key
    MaxRevs,           \* bound: LRP creations and spec edits
    MaxReadies,        \* bound: changes of the number of ready pods
    MaxSts,            \* bound: StatefulSets created before collection stops
    MaxFaults,         \* bound: API calls answered by an error
    MaxRestarts        \* bound: replacements of the controller process

ASSUME InstancesAssumption == Instances \subseteq Nat
ASSUME FlagsAssumption == PrivateRegistry \in BOOLEAN /\ LostReplies \in BOOLEAN
ASSUME BoundsAssumption ==
    /\ MaxLrps \in Nat /\ MaxRevs \in Nat /\ MaxReadies \in Nat
    /\ MaxSts \in Nat /\ MaxFaults \in Nat /\ MaxRestarts \in Nat

VARIABLES
    lrp,         \* API server: the LRP
    sts,         \* API server: its StatefulSet
    pdb,         \* API server: uid of the StatefulSet owning the PDB, 0 without PDB
    secrets,     \* API server: registry secrets, each with its owner's uid (0: none)
    lrpCache, lrpWatch,   \* informer of LRPs
    stsCache, stsWatch,   \* informer of StatefulSets
    queued,      \* the key is in the work queue
    pc,          \* the API call the reconcile is at
    locals,      \* the reconcile's local variables
    creations,   \* the eirini_lrp_creations counter of this process
    applied,     \* history: rev of the LRP last written to the StatefulSet
    made,        \* history: objects and changes so far
    faults, restarts

apiVars    == <<lrp, sts, pdb, secrets, applied>>
cacheVars  == <<lrpCache, lrpWatch, stsCache, stsWatch>>
budgetVars == <<made, faults, restarts>>
vars == <<lrp, sts, pdb, secrets, lrpCache, lrpWatch, stsCache, stsWatch,
          queued, pc, locals, creations, applied, made, faults, restarts>>

-----------------------------------------------------------------------------
(* Objects.  A uid of 0 stands for "does not exist".  rev numbers the       *)
(* versions of the LRP's spec over all the LRPs of the key.                 *)

NoLrp == [uid |-> 0, rev |-> 0, instances |-> 0, image |-> NoImage, replicas |-> 0]
NoSts == [uid |-> 0, owner |-> 0, replicas |-> 0, image |-> NoImage, secret |-> 0, ready |-> 0]
NoLocals == [lrp |-> NoLrp, sts |-> NoSts, secret |-> 0, err |-> FALSE]

Exists(obj) == obj.uid # 0

Lrps == [uid : Nat, rev : Nat, instances : Instances \cup {0},
         image : Images \cup {NoImage}, replicas : Nat]
StatefulSets == [uid : Nat, owner : Nat, replicas : Instances \cup {0},
                 image : Images \cup {NoImage}, secret : Nat, ready : Nat]
Secrets == [id : Nat, owner : Nat]
Locals == [lrp : Lrps, sts : StatefulSets, secret : Nat, err : BOOLEAN]
Counts == [lrps : Nat, sts : Nat, revs : Nat, images : Nat, readies : Nat]

Calls == {"getLrp", "getSts", "createSecret", "createSts", "deleteSecret", "setSecretOwner",
          "desirePdb", "patchStatus", "patchSts", "updatePdb"}

TypeOK ==
    /\ lrp \in Lrps /\ lrpCache \in Lrps /\ lrpWatch \in Seq(Lrps)
    /\ sts \in StatefulSets /\ stsCache \in StatefulSets /\ stsWatch \in Seq(StatefulSets)
    /\ pdb \in Nat
    /\ secrets \in SUBSET Secrets /\ IsFiniteSet(secrets)
    /\ queued \in BOOLEAN
    /\ pc \in Calls \cup {"idle"}
    /\ locals \in Locals
    /\ creations \in Nat /\ applied \in Nat
    /\ made \in Counts
    /\ faults \in Nat /\ restarts \in Nat

Init ==
    /\ lrp = NoLrp /\ sts = NoSts /\ pdb = 0 /\ secrets = {}
    /\ lrpCache = NoLrp /\ lrpWatch = <<>> /\ stsCache = NoSts /\ stsWatch = <<>>
    /\ queued = FALSE /\ pc = "idle" /\ locals = NoLocals
    /\ creations = 0 /\ applied = 0
    /\ made = [lrps |-> 0, sts |-> 0, revs |-> 0, images |-> 0, readies |-> 0]
    /\ faults = 0 /\ restarts = 0

-----------------------------------------------------------------------------
(* API calls.  "refused" left the API server as it was, "lost" changed it;  *)
(* the caller gets an error from both.                                      *)

Outcomes == {"ok"} \cup (IF faults < MaxFaults
                         THEN {"refused"} \cup (IF LostReplies THEN {"lost"} ELSE {})
                         ELSE {})
Reaches(outcome) == outcome # "refused"
Charge(outcome) == faults' = IF outcome = "ok" THEN faults ELSE faults + 1

WriteLrp(new) == lrp' = new /\ lrpWatch' = Published(lrpWatch, lrp, new)
WriteSts(new) == sts' = new /\ stsWatch' = Published(stsWatch, sts, new)

(* Return values of Reconcile: the next call, nil, or an error, which puts  *)
(* the key back into the queue.                                             *)
Call(next, vals) == pc' = next /\ locals' = vals /\ UNCHANGED queued
Done == pc' = "idle" /\ locals' = NoLocals /\ UNCHANGED queued
Retry == pc' = "idle" /\ locals' = NoLocals /\ queued' = TRUE

-----------------------------------------------------------------------------
(* Reconcile and do *)

Dequeue ==
    /\ pc = "idle" /\ queued
    /\ pc' = "getLrp" /\ queued' = FALSE
    /\ UNCHANGED <<locals, creations, apiVars, cacheVars, budgetVars>>

ReadFails ==
    /\ pc \in {"getLrp", "getSts"}
    /\ "refused" \in Outcomes /\ Charge("refused")
    /\ Retry
    /\ UNCHANGED <<creations, made, restarts, apiVars, cacheVars>>

GetLrp ==
    /\ pc = "getLrp"
    /\ IF Exists(lrpCache) THEN Call("getSts", [locals EXCEPT !.lrp = lrpCache]) ELSE Done
    /\ UNCHANGED <<creations, apiVars, cacheVars, budgetVars>>

GetSts ==
    /\ pc = "getSts"
    /\ Call(CASE Exists(stsCache) -> "patchStatus"
              [] ~Exists(stsCache) /\ PrivateRegistry -> "createSecret"
              [] OTHER -> "createSts",
            [locals EXCEPT !.sts = stsCache])
    /\ UNCHANGED <<creations, apiVars, cacheVars, budgetVars>>

-----------------------------------------------------------------------------
(* Desire, decorated by the creations metric *)

CountCreation == creations' = creations + 1

SecretNames == {s.id : s \in secrets} \cup {sts.secret}
FreshSecretName ==      \* GenerateName: a name nobody uses
    CHOOSE n \in 1 .. Cardinality(secrets) + 2 : n \notin SecretNames

CreateSecret ==
    /\ pc = "createSecret"
    /\ \E outcome \in Outcomes :
         /\ Charge(outcome)
         /\ secrets' = IF Reaches(outcome)
                       THEN secrets \cup {[id |-> FreshSecretName, owner |-> 0]} ELSE secrets
         /\ IF outcome = "ok" THEN Call("createSts", [locals EXCEPT !.secret = FreshSecretName])
                              ELSE Retry
    /\ UNCHANGED <<lrp, sts, pdb, applied, creations, made, restarts, cacheVars>>

(* LRPToStatefulSet.Convert and SetControllerReference *)
Converted == [uid |-> made.sts + 1, owner |-> locals.lrp.uid,
              replicas |-> locals.lrp.instances, image |-> locals.lrp.image,
              secret |-> locals.secret, ready |-> 0]

DesireFails == IF locals.secret # 0 THEN Call("deleteSecret", locals) ELSE Retry

CreateSts ==
    /\ pc = "createSts"
    /\ \E outcome \in Outcomes :
         LET created == Reaches(outcome) /\ ~Exists(sts) /\ locals.lrp.image # NoImage
         IN  /\ Charge(outcome)
             /\ WriteSts(IF created THEN Converted ELSE sts)
             /\ applied' = IF created THEN locals.lrp.rev ELSE applied
             /\ made' = IF created THEN [made EXCEPT !.sts = @ + 1] ELSE made
             /\ CASE outcome = "ok" /\ created ->
                       /\ Call(IF locals.secret # 0 THEN "setSecretOwner" ELSE "desirePdb",
                               [locals EXCEPT !.sts = Converted])
                       /\ UNCHANGED creations
                  [] outcome = "ok" /\ Exists(sts) /\ locals.lrp.image # NoImage ->
                       Done /\ CountCreation
                  [] OTHER -> DesireFails /\ UNCHANGED creations
    /\ UNCHANGED <<lrp, pdb, secrets, lrpCache, lrpWatch, stsCache, restarts>>

OwnerFails == Retry     \* the StatefulSet is there and names the secret: keep it

DeleteSecret ==         \* cleanupAndError
    /\ pc = "deleteSecret"
    /\ \E outcome \in Outcomes :
         /\ Charge(outcome)
         /\ secrets' = IF Reaches(outcome) THEN {s \in secrets : s.id # locals.secret} ELSE secrets
    /\ Retry
    /\ UNCHANGED <<lrp, sts, pdb, applied, creations, made, restarts, cacheVars>>

SetSecretOwner ==
    /\ pc = "setSecretOwner"
    /\ \E outcome \in Outcomes :
         /\ Charge(outcome)
         /\ secrets' = IF Reaches(outcome)
                       THEN {IF s.id = locals.secret THEN [s EXCEPT !.owner = locals.sts.uid] ELSE s
                             : s \in secrets}
                       ELSE secrets
         /\ IF outcome = "ok" THEN Call("desirePdb", locals) ELSE OwnerFails
    /\ UNCHANGED <<lrp, sts, pdb, applied, creations, made, restarts, cacheVars>>

(* pdb.Updater.Update: create unless there is one, or delete whatever there is *)
UpdatedPdbOffByOne ==      \* mutated form: >= instead of >
    IF locals.lrp.instances >= 1 THEN (IF pdb = 0 THEN locals.sts.uid ELSE pdb) ELSE 0

UpdatedPdb ==
    IF locals.lrp.instances > 1 THEN (IF pdb = 0 THEN locals.sts.uid ELSE pdb) ELSE 0

DesirePdb ==
    /\ pc = "desirePdb"
    /\ \E outcome \in Outcomes :
         /\ Charge(outcome)
         /\ pdb' = IF Reaches(outcome) THEN UpdatedPdb ELSE pdb
         /\ IF outcome = "ok" THEN Done /\ CountCreation
                              ELSE Retry /\ UNCHANGED creations
    /\ UNCHANGED <<lrp, sts, secrets, applied, made, restarts, cacheVars>>

-----------------------------------------------------------------------------
(* updateLRPStatus, then Update: the errors of both are collected *)

Finish == IF locals.err THEN Retry ELSE Done

StoredIfChanged(patched) ==      \* mutated form: no call, no answer, when nothing differs
    IF patched = lrp THEN locals.lrp ELSE patched

StatusAnswer(patched) == patched

(* The status patch holds the difference to the cached LRP; its answer is   *)
(* the stored LRP, which replaces the cached one for the rest of the call.  *)
PatchStatus ==
    /\ pc = "patchStatus"
    /\ \E outcome \in Outcomes :
         LET patched == [lrp EXCEPT !.replicas = IF locals.lrp.replicas = locals.sts.ready
                                                 THEN @ ELSE locals.sts.ready]
         IN  /\ Charge(outcome)
             /\ WriteLrp(IF Reaches(outcome) /\ Exists(lrp) THEN patched ELSE lrp)
             /\ Call("patchSts", IF outcome = "ok" /\ Exists(lrp)
                                 THEN [locals EXCEPT !.lrp = StatusAnswer(patched)]
                                 ELSE [locals EXCEPT !.err = TRUE])
    /\ UNCHANGED <<sts, pdb, secrets, applied, lrpCache, stsCache, stsWatch, creations, made, restarts>>

(* getUpdatedStatefulSetObj, against the cached StatefulSet *)
NewReplicas == locals.sts.replicas # locals.lrp.instances
NewImage    == locals.lrp.image # NoImage /\ locals.sts.image # locals.lrp.image
UpToDate    == ~NewReplicas /\ ~NewImage

PatchedByDifference ==     \* mutated form: patches the difference in
    [sts EXCEPT !.replicas = IF NewReplicas THEN locals.lrp.instances - locals.sts.replicas ELSE @]

OverwrittenSts ==     \* mutated form: an update writes the cached copy back
    [locals.sts EXCEPT !.replicas = locals.lrp.instances, !.image = IF NewImage THEN locals.lrp.image ELSE @]

PatchedSts == [sts EXCEPT !.replicas = IF NewReplicas THEN locals.lrp.instances ELSE @,
                          !.image = IF NewImage THEN locals.lrp.image ELSE @]

SkipSts ==
    /\ pc = "patchSts" /\ UpToDate
    /\ Finish
    /\ UNCHANGED <<creations, apiVars, cacheVars, budgetVars>>

PatchSts ==
    /\ pc = "patchSts" /\ ~UpToDate
    /\ \E outcome \in Outcomes :
         LET reached == Reaches(outcome) /\ Exists(sts)
         IN  /\ Charge(outcome)
             /\ WriteSts(IF reached THEN PatchedSts ELSE sts)
             /\ applied' = IF reached THEN locals.lrp.rev ELSE applied
             /\ IF reached /\ outcome = "ok" THEN Call("updatePdb", locals) ELSE Retry
    /\ UNCHANGED <<lrp, pdb, secrets, lrpCache, lrpWatch, stsCache, creations, made, restarts>>

UpdatePdb ==
    /\ pc = "updatePdb"
    /\ \E outcome \in Outcomes :
         /\ Charge(outcome)
         /\ pdb' = IF Reaches(outcome) THEN UpdatedPdb ELSE pdb
         /\ IF outcome = "ok" THEN Finish ELSE Retry
    /\ UNCHANGED <<lrp, sts, secrets, applied, creations, made, restarts, cacheVars>>

-----------------------------------------------------------------------------
(* The environment: informers, users, the cluster, the process *)

DeliverLrp ==
    /\ lrpWatch # <<>>
    /\ lrpCache' = Head(lrpWatch) /\ lrpWatch' = Tail(lrpWatch) /\ queued' = TRUE
    /\ UNCHANGED <<stsCache, stsWatch, pc, locals, creations, apiVars, budgetVars>>

DeliverSts ==           \* Owns: a StatefulSet event enqueues its owner
    /\ stsWatch # <<>>
    /\ stsCache' = Head(stsWatch) /\ stsWatch' = Tail(stsWatch) /\ queued' = TRUE
    /\ UNCHANGED <<lrpCache, lrpWatch, pc, locals, creations, apiVars, budgetVars>>

UserCreates ==
    /\ ~Exists(lrp) /\ made.lrps < MaxLrps /\ made.revs < MaxRevs
    /\ made' = [made EXCEPT !.lrps = @ + 1, !.revs = @ + 1]
    /\ \E n \in Instances, image \in Images :
         WriteLrp([uid |-> made.lrps + 1, rev |-> made.revs + 1,
                   instances |-> n, image |-> image, replicas |-> 0])
    /\ UNCHANGED <<sts, pdb, secrets, applied, lrpCache, stsCache, stsWatch,
                   queued, pc, locals, creations, faults, restarts>>

(* The admission webhook lets only the instances and the image change. *)
UserEdits ==
    /\ Exists(lrp) /\ made.revs < MaxRevs
    /\ \E n \in Instances, image \in Images :
         /\ n # lrp.instances \/ image # lrp.image
         /\ made' = [made EXCEPT !.revs = @ + 1, !.images = IF image = lrp.image THEN @ ELSE @ + 1]
         /\ WriteLrp([lrp EXCEPT !.rev = made.revs + 1, !.instances = n, !.image = image])
    /\ UNCHANGED <<sts, pdb, secrets, applied, lrpCache, stsCache, stsWatch,
                   queued, pc, locals, creations, faults, restarts>>

UserDeletes ==
    /\ Exists(lrp)
    /\ WriteLrp(NoLrp)
    /\ UNCHANGED <<sts, pdb, secrets, applied, lrpCache, stsCache, stsWatch,
                   queued, pc, locals, creations, budgetVars>>

CollectSts ==
    /\ Exists(sts) /\ sts.owner # lrp.uid /\ made.sts < MaxSts
    /\ WriteSts(NoSts)
    /\ UNCHANGED <<lrp, pdb, secrets, applied, lrpCache, lrpWatch, stsCache,
                   queued, pc, locals, creations, budgetVars>>

CollectPdb ==
    /\ pdb # 0 /\ pdb # sts.uid
    /\ pdb' = 0
    /\ UNCHANGED <<lrp, sts, secrets, applied, cacheVars, queued, pc, locals, creations, budgetVars>>

CollectSecret ==
    /\ \E s \in secrets : /\ s.owner # 0 /\ s.owner # sts.uid
                          /\ secrets' = secrets \ {s}
    /\ UNCHANGED <<lrp, sts, pdb, applied, cacheVars, queued, pc, locals, creations, budgetVars>>

PodsChange ==
    /\ Exists(sts) /\ made.readies < MaxReadies
    /\ made' = [made EXCEPT !.readies = @ + 1]
    /\ \E n \in 0 .. sts.replicas : n # sts.ready /\ WriteSts([sts EXCEPT !.ready = n])
    /\ UNCHANGED <<lrp, pdb, secrets, applied, lrpCache, lrpWatch, stsCache,
                   queued, pc, locals, creations, faults, restarts>>

(* A crash or the loss of the leader lease between two calls.  The process  *)
(* that takes over has listed everything just now or lags like the last one,*)
(* and it enqueues every object of its caches.                              *)
Restart ==
    /\ restarts < MaxRestarts
    /\ restarts' = restarts + 1
    /\ \/ /\ lrpCache' = lrp /\ lrpWatch' = <<>>
          /\ stsCache' = sts /\ stsWatch' = <<>>
       \/ UNCHANGED cacheVars
    /\ queued' = (Exists(lrpCache') \/ Exists(stsCache'))
    /\ pc' = "idle" /\ locals' = NoLocals /\ creations' = 0
    /\ UNCHANGED <<apiVars, made, faults>>

-----------------------------------------------------------------------------
Controller ==
    \/ Dequeue \/ ReadFails \/ GetLrp \/ GetSts
    \/ CreateSecret \/ CreateSts \/ DeleteSecret \/ SetSecretOwner \/ DesirePdb
    \/ PatchStatus \/ SkipSts \/ PatchSts \/ UpdatePdb

Environment ==
    \/ DeliverLrp \/ DeliverSts
    \/ UserCreates \/ UserEdits \/ UserDeletes
    \/ CollectSts \/ CollectPdb \/ CollectSecret \/ PodsChange \/ Restart

Next == Controller \/ Environment

Spec == Init /\ [][Next]_vars

(* The worker goroutine takes the next key and finishes what it started;    *)
(* informers deliver what they were sent.  Nobody else owes a step.         *)
Fairness == WF_vars(Controller) /\ WF_vars(DeliverLrp) /\ WF_vars(DeliverSts)

FairSpec == Spec /\ Fairness

-----------------------------------------------------------------------------
(* Properties *)

(* The StatefulSet runs what the LRP asks for and the LRP shows its readiness. *)
InSync ==
    /\ Exists(sts)
    /\ sts.replicas = lrp.instances
    /\ lrp.image # NoImage => sts.image = lrp.image
    /\ lrp.replicas = sts.ready

(* Nothing is queued, running or on its way: no step is left to repair anything. *)
Settled == pc = "idle" /\ ~queued /\ lrpWatch = <<>> /\ stsWatch = <<>>

(* What the informers have delivered or still hold ends in what is stored.    *)
CachesFollow == Newest(lrpCache, lrpWatch) = lrp /\ Newest(stsCache, stsWatch) = sts

(* A reconcile that nothing will follow works on current copies: as long as   *)
(* no event is queued or on its way, what Reconcile has read so far is what   *)
(* is stored, and it is past no write that changed anything.                  *)
Calm == ~queued /\ lrpWatch = <<>> /\ stsWatch = <<>>

LastReconcileCurrent ==
    Calm =>
      /\ pc = "getSts" => Exists(lrp) /\ locals.lrp = lrp
      /\ pc \in {"createSecret", "createSts"} => Exists(lrp) /\ locals.lrp = lrp /\ ~Exists(sts)
      /\ pc \notin {"setSecretOwner", "desirePdb", "updatePdb"}
      /\ pc \in {"patchStatus", "patchSts"} => Exists(sts) /\ locals.sts = sts
      /\ pc = "patchStatus" => Exists(lrp) /\ locals.lrp = lrp
      /\ pc = "patchSts" => \/ locals.err
                            \/ Exists(lrp) /\ locals.lrp = lrp /\ lrp.replicas = sts.ready
      /\ pc = "idle" /\ Exists(lrp) => InSync

(* Level-triggered reconciliation works: stale reads, failing calls, lost     *)
(* replies, restarts and edits in the middle of a reconcile may delay it, but *)
(* the controller never comes to rest with a StatefulSet that differs from    *)
(* its LRP.                                                                   *)
Converged == Settled /\ Exists(lrp) => InSync

(* The Updater never takes the StatefulSet back to an older version of the    *)
(* spec, although it reads the LRP from a cache: the status patch before it   *)
(* brings the stored spec in.  Only when that patch fails, and do goes on     *)
(* with the cached LRP, may the StatefulSet move back.                        *)
RollbackOnlyAfterStatusFailure ==
    [][sts'.uid = sts.uid /\ applied' < applied => locals.err]_vars

(* Why: the stored LRP carries the newest rev, nobody holds a newer one, and   *)
(* behind a status patch that went well the worker holds nothing older than    *)
(* what the StatefulSet has.                                                   *)
SeenLrps == {o \in Lrps : o.rev <= made.revs}
RevsOrdered ==
    /\ Exists(lrp) => lrp.rev = made.revs
    /\ lrp \in SeenLrps /\ lrpCache \in SeenLrps /\ locals.lrp \in SeenLrps
    /\ lrpWatch \in Seq(SeenLrps)
    /\ applied <= made.revs
    /\ pc = "patchSts" => locals.err \/ applied <= locals.lrp.rev

(* A StatefulSet of an LRP with a private registry can pull: the secret named *)
(* in its pod template exists (Desire, setSecretOwner, cleanupAndError).      *)
SecretPresent ==
    PrivateRegistry /\ Exists(sts) => sts.secret \in {s.id : s \in secrets}

(* No registry secret is left without an owner, where garbage collection     *)
(* never reaches it, once Desire is over (cleanupAndError deletes it or       *)
(* setSecretOwner ties it to the StatefulSet).                                *)
NoSecretLeak == Settled => \A s \in secrets : s.owner # 0

(* The PodDisruptionBudget is there exactly while the LRP has more than one   *)
(* instance, at rest (the pdb Updater called by Desire and Update).           *)
PdbMatches ==
    Settled /\ Exists(lrp) => IF lrp.instances > 1 THEN pdb = sts.uid ELSE pdb = 0

(* However often the instances change and however old the copies are that    *)
(* the Updater compares, it takes a failed call, a restart, an edit of the    *)
(* image among those of the instances or a second LRP to cost a StatefulSet   *)
(* its budget.                                                                *)
PdbMatchesUndisturbed ==
    faults = 0 /\ restarts = 0 /\ made.images = 0 /\ made.lrps <= 1 => PdbMatches

(* Copies of the LRP and of its StatefulSet, wherever they are *)
LrpCopies == {lrp, lrpCache, locals.lrp} \cup {lrpWatch[i] : i \in DOMAIN lrpWatch}
StsCopies == {sts, stsCache, locals.sts} \cup {stsWatch[i] : i \in DOMAIN stsWatch}

Lifecycle == INSTANCE LrpLifecycle
             WITH wanted <- lrp, app <- sts, rev <- applied, budget <- pdb,
                  versions <- LrpCopies \ {NoLrp}, sightings <- StsCopies \ {NoSts},
                  troubled <- faults > 0,
                  count <- [lrps |-> made.lrps, revs |-> made.revs, apps |-> made.sts]

(* Nothing is made up from caches, answers and what a reconcile still holds:   *)
(* the StatefulSet runs what versions of the LRP asked for, goes back to an    *)
(* older one only after an error or for an LRP that is gone, the status shows  *)
(* a number of pods that were ready, and a budget is created and deleted for a *)
(* version that calls for it (Desire, Update, updateLRPStatus).                *)
ImplementsLifecycle == Lifecycle!Spec

(* With no more edits, faults or restarts the controller stops: it converges  *)
(* and does not keep itself busy with the events of its own writes.  Only an  *)
(* LRP that was never given an image is retried for ever.                     *)
Unstartable == Exists(lrp) /\ lrp.image = NoImage /\ ~Exists(sts)
EventuallySettles == <>[](Unstartable \/ (Settled /\ (Exists(lrp) => InSync)))
=============================================================================
