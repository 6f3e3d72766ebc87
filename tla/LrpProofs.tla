----------------------------- MODULE LrpProofs ------------------------------
(***************************************************************************)
(* Theorems about the LRP controller, for every value of the constants.    *)
(***************************************************************************)
EXTENDS Lrp, InformerProofs, FiniteSetTheorems

-----------------------------------------------------------------------------
(* GenerateName finds a name *)

LEMMA FreshSecretNameExists ==
    ASSUME IsFiniteSet(secrets)
    PROVE  FreshSecretName \in Nat /\ FreshSecretName \notin SecretNames
<1> DEFINE ids == {s.id : s \in secrets}
           names == 1 .. Cardinality(secrets) + 2
<1>1. Cardinality(secrets) \in Nat
  BY FS_CardinalityType
<1>2. IsFiniteSet(ids) /\ Cardinality(ids) <= Cardinality(secrets)
  <2> DEFINE f == [s \in secrets |-> s.id]
  <2>1. f \in Surjection(secrets, ids)
    BY DEF Surjection
  <2> QED BY <2>1, FS_Surjection
<1>3. IsFiniteSet(SecretNames) /\ Cardinality(SecretNames) <= Cardinality(secrets) + 1
  <2>1. SecretNames = ids \cup {sts.secret}
    BY DEF SecretNames
  <2> HIDE DEF ids
  <2>2. /\ IsFiniteSet(ids \cup {sts.secret})
        /\ \/ Cardinality(ids \cup {sts.secret}) = Cardinality(ids)
           \/ Cardinality(ids \cup {sts.secret}) = Cardinality(ids) + 1
    BY <1>2, FS_AddElement
  <2>3. Cardinality(ids) \in Nat
    BY <1>2, FS_CardinalityType
  <2> QED BY <1>1, <1>2, <2>1, <2>2, <2>3
<1>4. IsFiniteSet(names) /\ Cardinality(names) = Cardinality(secrets) + 2
  BY <1>1, FS_Interval
<1>5. ~(names \subseteq SecretNames)
  <2>1. SUFFICES ASSUME names \subseteq SecretNames PROVE FALSE
    OBVIOUS
  <2> HIDE DEF names
  <2>2. Cardinality(names) <= Cardinality(SecretNames)
    BY <1>3, <2>1, FS_Subset
  <2>3. Cardinality(SecretNames) \in Nat
    BY <1>3, FS_CardinalityType
  <2> QED BY <1>1, <1>3, <1>4, <2>2, <2>3
<1>6. PICK n \in names : n \notin SecretNames
  BY <1>5
<1>7. FreshSecretName \in names /\ FreshSecretName \notin SecretNames
  BY <1>6 DEF FreshSecretName
<1> QED BY <1>1, <1>7

-----------------------------------------------------------------------------
(* Type correctness *)

(* The fields the controller reads have their types. *)
LEMMA FieldTypes ==
    ASSUME TypeOK
    PROVE  /\ locals.lrp \in Lrps /\ locals.sts \in StatefulSets
           /\ locals.secret \in Nat /\ locals.err \in BOOLEAN
           /\ \A o \in {lrp, locals.lrp, lrpCache} :
                /\ o.uid \in Nat /\ o.rev \in Nat /\ o.replicas \in Nat
                /\ o.instances \in Instances \cup {0} /\ o.instances \in Nat
                /\ o.image \in Images \cup {NoImage}
           /\ \A o \in {sts, locals.sts, stsCache} :
                /\ o.uid \in Nat /\ o.owner \in Nat /\ o.ready \in Nat /\ o.secret \in Nat
                /\ o.replicas \in Instances \cup {0} /\ o.replicas \in Nat
                /\ o.image \in Images \cup {NoImage}
           /\ made.lrps \in Nat /\ made.sts \in Nat /\ made.revs \in Nat
           /\ made.images \in Nat /\ made.readies \in Nat
<1>1. locals.lrp \in Lrps /\ locals.sts \in StatefulSets
      /\ locals.secret \in Nat /\ locals.err \in BOOLEAN
  BY DEF TypeOK, Locals
<1>2. {lrp, locals.lrp, lrpCache} \subseteq Lrps
  BY <1>1 DEF TypeOK
<1>3. {sts, locals.sts, stsCache} \subseteq StatefulSets
  BY <1>1 DEF TypeOK
<1>4. /\ made.lrps \in Nat /\ made.sts \in Nat /\ made.revs \in Nat
      /\ made.images \in Nat /\ made.readies \in Nat
  BY DEF TypeOK, Counts
<1>5. Instances \cup {0} \subseteq Nat
  BY InstancesAssumption
<1>6. \A o \in Lrps :
        /\ o.uid \in Nat /\ o.rev \in Nat /\ o.replicas \in Nat
        /\ o.instances \in Instances \cup {0}
        /\ o.image \in Images \cup {NoImage}
  BY DEF Lrps
<1>7. \A o \in StatefulSets :
        /\ o.uid \in Nat /\ o.owner \in Nat /\ o.ready \in Nat /\ o.secret \in Nat
        /\ o.replicas \in Instances \cup {0}
        /\ o.image \in Images \cup {NoImage}
  BY DEF StatefulSets
<1> QED BY <1>1, <1>2, <1>3, <1>4, <1>5, <1>6, <1>7

(* What a write to the LRP or to the StatefulSet does to the types. *)
LEMMA WriteTypes ==
    ASSUME TypeOK
    PROVE  /\ \A new \in Lrps : WriteLrp(new) => lrp' \in Lrps /\ lrpWatch' \in Seq(Lrps)
           /\ \A new \in StatefulSets :
                WriteSts(new) => sts' \in StatefulSets /\ stsWatch' \in Seq(StatefulSets)
BY PublishedType DEF WriteLrp, WriteSts, TypeOK

(* The initial values and the locals of an idle worker have their types. *)
LEMMA NothingTypes ==
    /\ NoLrp \in Lrps /\ NoSts \in StatefulSets
    /\ NoLocals \in Locals
BY DEF NoLrp, NoSts, NoLocals, Lrps, StatefulSets, Locals

(* One more of something that is counted is still a count. *)
LEMMA CountTypes ==
    ASSUME TypeOK
    PROVE  /\ faults + 1 \in Nat /\ restarts + 1 \in Nat /\ creations + 1 \in Nat
           /\ \A outcome : Charge(outcome) => faults' \in Nat
           /\ [made EXCEPT !.sts = @ + 1] \in Counts
           /\ \A b \in BOOLEAN :
                [made EXCEPT !.revs = @ + 1, !.images = IF b THEN @ ELSE @ + 1] \in Counts
           /\ [made EXCEPT !.lrps = @ + 1, !.revs = @ + 1] \in Counts
           /\ [made EXCEPT !.readies = @ + 1] \in Counts
<1>1. /\ faults + 1 \in Nat /\ restarts + 1 \in Nat /\ creations + 1 \in Nat
      /\ \A outcome : Charge(outcome) => faults' \in Nat
  BY DEF TypeOK, Charge
<1>2. /\ made.lrps + 1 \in Nat /\ made.sts + 1 \in Nat
      /\ made.revs + 1 \in Nat /\ made.images + 1 \in Nat /\ made.readies + 1 \in Nat
  BY FieldTypes
<1>3. made \in Counts
  BY DEF TypeOK
<1> QED BY <1>1, <1>2, <1>3 DEF Counts

(* Convert builds a StatefulSet. *)
LEMMA ConvertedType == TypeOK => Converted \in StatefulSets
BY FieldTypes DEF Converted, StatefulSets

(* Outside deliveries and restarts, a step leaves the caches alone, and        *)
(* changes a stored object only by a write.                                    *)
LEMMA StepWrites ==
    ASSUME TypeOK, [Next]_vars, ~DeliverLrp, ~DeliverSts, ~Restart
    PROVE  /\ UNCHANGED <<lrpCache, stsCache>>
           /\ \/ UNCHANGED <<lrp, lrpWatch>>
              \/ \E new \in Lrps : WriteLrp(new)
           /\ \/ UNCHANGED <<sts, stsWatch>>
              \/ \E new \in StatefulSets : WriteSts(new)
<1> USE DEF apiVars, cacheVars
<1>1. CASE CreateSts
  <2>1. Converted \in StatefulSets
    BY ConvertedType
  <2>2. \E new \in StatefulSets : WriteSts(new)
    BY <1>1, <2>1 DEF CreateSts, TypeOK
  <2> QED BY <1>1, <2>2 DEF CreateSts
<1>2. CASE PatchStatus
  <2> DEFINE patched == [lrp EXCEPT !.replicas = IF locals.lrp.replicas = locals.sts.ready
                                                 THEN @ ELSE locals.sts.ready]
  <2>1. patched \in Lrps
    BY FieldTypes DEF TypeOK, Lrps
  <2>2. \E new \in Lrps : WriteLrp(new)
    BY <1>2, <2>1 DEF PatchStatus, TypeOK
  <2> QED BY <1>2, <2>2 DEF PatchStatus
<1>3. CASE PatchSts
  <2>1. PatchedSts \in StatefulSets
    <3>1. /\ locals.lrp.instances \in Instances \cup {0}
          /\ locals.lrp.image \in Images \cup {NoImage}
          /\ sts \in StatefulSets
      BY FieldTypes DEF TypeOK
    <3> QED BY <3>1 DEF PatchedSts, StatefulSets
  <2>2. \E new \in StatefulSets : WriteSts(new)
    BY <1>3, <2>1 DEF PatchSts, TypeOK
  <2> QED BY <1>3, <2>2 DEF PatchSts
<1>4. CASE UserCreates
  <2>1. PICK n \in Instances, image \in Images :
          WriteLrp([uid |-> made.lrps + 1, rev |-> made.revs + 1,
                    instances |-> n, image |-> image, replicas |-> 0])
    BY <1>4 DEF UserCreates
  <2>2. [uid |-> made.lrps + 1, rev |-> made.revs + 1,
         instances |-> n, image |-> image, replicas |-> 0] \in Lrps
    BY FieldTypes DEF Lrps
  <2> QED BY <1>4, <2>1, <2>2 DEF UserCreates
<1>5. CASE UserEdits
  <2>1. PICK n \in Instances, image \in Images :
          WriteLrp([lrp EXCEPT !.rev = made.revs + 1, !.instances = n, !.image = image])
    BY <1>5 DEF UserEdits
  <2>2. made.revs + 1 \in Nat
    BY FieldTypes
  <2>3. [lrp EXCEPT !.rev = made.revs + 1, !.instances = n, !.image = image] \in Lrps
    BY <2>2 DEF TypeOK, Lrps
  <2> QED BY <1>5, <2>1, <2>3 DEF UserEdits
<1>6. CASE UserDeletes
  BY <1>6, NothingTypes DEF UserDeletes
<1>7. CASE CollectSts
  BY <1>7, NothingTypes DEF CollectSts
<1>8. CASE PodsChange
  <2>1. PICK n \in 0 .. sts.replicas : WriteSts([sts EXCEPT !.ready = n])
    BY <1>8 DEF PodsChange
  <2>2. n \in Nat
    BY FieldTypes
  <2>3. [sts EXCEPT !.ready = n] \in StatefulSets
    BY <2>2 DEF TypeOK, StatefulSets
  <2> QED BY <1>8, <2>1, <2>3 DEF PodsChange
<1>9. CASE Dequeue \/ ReadFails \/ GetLrp \/ GetSts \/ SkipSts
  BY <1>9 DEF Dequeue, ReadFails, GetLrp, GetSts, SkipSts
<1>10. CASE CreateSecret \/ DeleteSecret \/ SetSecretOwner \/ DesirePdb \/ UpdatePdb
  BY <1>10 DEF CreateSecret, DeleteSecret, SetSecretOwner, DesirePdb, UpdatePdb
<1>11. CASE CollectPdb \/ CollectSecret
  BY <1>11 DEF CollectPdb, CollectSecret
<1>12. CASE UNCHANGED vars
  BY <1>12 DEF vars
<1> QED
  BY <1>1, <1>2, <1>3, <1>4, <1>5, <1>6, <1>7, <1>8, <1>9, <1>10, <1>11, <1>12
  DEF Next, Controller, Environment

(* The stored objects, the caches and what is on its way keep their types. *)
LEMMA ObjectTypes ==
    ASSUME TypeOK, [Next]_vars
    PROVE  /\ lrp' \in Lrps /\ lrpCache' \in Lrps /\ lrpWatch' \in Seq(Lrps)
           /\ sts' \in StatefulSets /\ stsCache' \in StatefulSets /\ stsWatch' \in Seq(StatefulSets)
<1>1. CASE DeliverLrp
  BY <1>1, NewestDelivered DEF DeliverLrp, TypeOK, apiVars
<1>2. CASE DeliverSts
  BY <1>2, NewestDelivered DEF DeliverSts, TypeOK, apiVars
<1>3. CASE Restart
  <2>1. <<>> \in Seq(Lrps) /\ <<>> \in Seq(StatefulSets)
    BY EmptySeq
  <2> QED BY <1>3, <2>1 DEF Restart, TypeOK, apiVars, cacheVars
<1>4. CASE ~DeliverLrp /\ ~DeliverSts /\ ~Restart
  BY <1>4, StepWrites, WriteTypes DEF TypeOK
<1> QED BY <1>1, <1>2, <1>3, <1>4

(* Every step keeps every variable in its type. *)
LEMMA TypeInductive == TypeOK /\ [Next]_vars => TypeOK'
<1> SUFFICES ASSUME TypeOK, [Next]_vars PROVE TypeOK'
  OBVIOUS
<1> USE NothingTypes, ObjectTypes
<1>1. CASE Dequeue
  BY <1>1 DEF Dequeue, TypeOK, Calls, apiVars, cacheVars, budgetVars
<1>2. CASE ReadFails
  <2>1. faults' \in Nat
    BY <1>2, CountTypes DEF ReadFails
  <2> QED BY <1>2, <2>1 DEF ReadFails, Retry, TypeOK, apiVars, cacheVars
<1>3. CASE GetLrp
  <2>1. [locals EXCEPT !.lrp = lrpCache] \in Locals
    BY DEF TypeOK, Locals
  <2> QED BY <1>3, <2>1 DEF GetLrp, Call, Done, TypeOK, Calls, apiVars, cacheVars, budgetVars
<1>4. CASE GetSts
  <2>1. [locals EXCEPT !.sts = stsCache] \in Locals
    BY DEF TypeOK, Locals
  <2> QED BY <1>4, <2>1 DEF GetSts, Call, TypeOK, Calls, apiVars, cacheVars, budgetVars
<1>5. CASE CreateSecret
  <2>1. FreshSecretName \in Nat
    BY FreshSecretNameExists DEF TypeOK
  <2> DEFINE added == secrets \cup {[id |-> FreshSecretName, owner |-> 0]}
  <2>2. [id |-> FreshSecretName, owner |-> 0] \in Secrets
    BY <2>1 DEF Secrets
  <2>3. added \in SUBSET Secrets /\ IsFiniteSet(added)
    BY <2>2, FS_AddElement DEF TypeOK
  <2>4. secrets' \in SUBSET Secrets /\ IsFiniteSet(secrets')
    BY <1>5, <2>3 DEF CreateSecret, TypeOK
  <2>5. [locals EXCEPT !.secret = FreshSecretName] \in Locals
    BY <2>1 DEF TypeOK, Locals
  <2>6. faults' \in Nat
    BY <1>5, CountTypes DEF CreateSecret
  <2> QED
    BY <1>5, <2>4, <2>5, <2>6 DEF CreateSecret, Call, Retry, TypeOK, Calls, cacheVars
<1>6. CASE CreateSts
  <2>1. Converted \in StatefulSets
    BY ConvertedType
  <2>2. faults' \in Nat /\ made' \in Counts /\ creations' \in Nat
    BY <1>6, CountTypes DEF CreateSts, CountCreation, TypeOK
  <2>3. applied' \in Nat
    BY <1>6, FieldTypes DEF CreateSts, TypeOK
  <2>4. [locals EXCEPT !.sts = Converted] \in Locals
    BY <2>1 DEF TypeOK, Locals
  <2>5. pc' \in Calls \cup {"idle"} /\ queued' \in BOOLEAN /\ locals' \in Locals
    BY <1>6, <2>4 DEF CreateSts, Call, Done, DesireFails, Retry, TypeOK, Calls
  <2> QED BY <1>6, <2>2, <2>3, <2>5 DEF CreateSts, TypeOK
<1>7. CASE DeleteSecret
  <2>1. secrets' \in SUBSET Secrets /\ IsFiniteSet(secrets')
    BY <1>7, FS_Subset DEF DeleteSecret, TypeOK
  <2>2. faults' \in Nat
    BY <1>7, CountTypes DEF DeleteSecret
  <2> QED BY <1>7, <2>1, <2>2 DEF DeleteSecret, Retry, TypeOK, cacheVars
<1>8. CASE SetSecretOwner
  <2> DEFINE Owned(s) == IF s.id = locals.secret THEN [s EXCEPT !.owner = locals.sts.uid] ELSE s
             owned == {Owned(s) : s \in secrets}
  <2>1. \A s \in Secrets : Owned(s) \in Secrets
    BY FieldTypes DEF Secrets
  <2>2. owned \in SUBSET Secrets
    BY <2>1 DEF TypeOK
  <2>3. IsFiniteSet(owned)
    <3> DEFINE f == [s \in secrets |-> Owned(s)]
    <3>1. f \in Surjection(secrets, owned)
      BY DEF Surjection
    <3> QED BY <3>1, FS_Surjection DEF TypeOK
  <2>4. secrets' \in SUBSET Secrets /\ IsFiniteSet(secrets')
    BY <1>8, <2>2, <2>3 DEF SetSecretOwner, TypeOK
  <2>5. faults' \in Nat
    BY <1>8, CountTypes DEF SetSecretOwner
  <2> QED
    BY <1>8, <2>4, <2>5 DEF SetSecretOwner, Call, OwnerFails, Retry, TypeOK, Calls, cacheVars
<1>9. CASE DesirePdb
  <2>1. UpdatedPdb \in Nat
    BY FieldTypes DEF UpdatedPdb, TypeOK
  <2>2. faults' \in Nat /\ creations' \in Nat
    BY <1>9, CountTypes DEF DesirePdb, CountCreation, TypeOK
  <2> QED BY <1>9, <2>1, <2>2 DEF DesirePdb, Done, Retry, TypeOK, cacheVars
<1>10. CASE PatchStatus
  <2> DEFINE patched == [lrp EXCEPT !.replicas = IF locals.lrp.replicas = locals.sts.ready
                                                 THEN @ ELSE locals.sts.ready]
  <2>1. patched \in Lrps
    BY FieldTypes DEF TypeOK, Lrps
  <2>2. [locals EXCEPT !.lrp = patched] \in Locals /\ [locals EXCEPT !.err = TRUE] \in Locals
    BY <2>1 DEF TypeOK, Locals
  <2>3. faults' \in Nat
    BY <1>10, CountTypes DEF PatchStatus
  <2> QED BY <1>10, <2>2, <2>3 DEF PatchStatus, StatusAnswer, Call, TypeOK, Calls
<1>11. CASE SkipSts
  BY <1>11 DEF SkipSts, Finish, Done, Retry, TypeOK, apiVars, cacheVars, budgetVars
<1>12. CASE PatchSts
  <2>1. faults' \in Nat /\ applied' \in Nat
    BY <1>12, CountTypes, FieldTypes DEF PatchSts, TypeOK
  <2> QED BY <1>12, <2>1 DEF PatchSts, Call, Retry, TypeOK, Calls
<1>13. CASE UpdatePdb
  <2>1. UpdatedPdb \in Nat
    BY FieldTypes DEF UpdatedPdb, TypeOK
  <2>2. faults' \in Nat
    BY <1>13, CountTypes DEF UpdatePdb
  <2> QED BY <1>13, <2>1, <2>2 DEF UpdatePdb, Finish, Done, Retry, TypeOK, cacheVars
<1>14. CASE DeliverLrp \/ DeliverSts
  BY <1>14 DEF DeliverLrp, DeliverSts, TypeOK, apiVars, budgetVars
<1>15. CASE UserCreates \/ UserEdits \/ PodsChange
  <2>1. made' \in Counts
    BY <1>15, CountTypes DEF UserCreates, UserEdits, PodsChange
  <2> QED BY <1>15, <2>1 DEF UserCreates, UserEdits, PodsChange, TypeOK
<1>16. CASE UserDeletes \/ CollectSts \/ CollectPdb
  BY <1>16 DEF UserDeletes, CollectSts, CollectPdb, TypeOK, cacheVars, budgetVars
<1>17. CASE CollectSecret
  <2>1. secrets' \in SUBSET Secrets /\ IsFiniteSet(secrets')
    BY <1>17, FS_Subset DEF CollectSecret, TypeOK
  <2> QED BY <1>17, <2>1 DEF CollectSecret, TypeOK, cacheVars, budgetVars
<1>18. CASE Restart
  <2>1. queued' \in BOOLEAN
    BY <1>18 DEF Restart
  <2>2. restarts' \in Nat
    BY <1>18, CountTypes DEF Restart
  <2> QED BY <1>18, <2>1, <2>2 DEF Restart, TypeOK, apiVars
<1>19. CASE UNCHANGED vars
  BY <1>19 DEF vars, TypeOK
<1> QED
  BY <1>1, <1>2, <1>3, <1>4, <1>5, <1>6, <1>7, <1>8, <1>9, <1>10, <1>11, <1>12, <1>13, <1>14,
     <1>15, <1>16, <1>17, <1>18, <1>19
  DEF Next, Controller, Environment

(* Every variable of the controller, of its caches and of the objects keeps  *)
(* its type, whatever the calls answer and whenever the process is replaced. *)
THEOREM TypeCorrect == Spec => []TypeOK
<1>1. ASSUME Init PROVE TypeOK
  <2>1. <<>> \in Seq(Lrps) /\ <<>> \in Seq(StatefulSets)
    BY EmptySeq
  <2>2. [lrps |-> 0, sts |-> 0, revs |-> 0, images |-> 0, readies |-> 0] \in Counts
    BY DEF Counts
  <2>3. IsFiniteSet({})
    BY FS_EmptySet
  <2>4. /\ lrp \in Lrps /\ lrpCache \in Lrps /\ lrpWatch \in Seq(Lrps)
        /\ sts \in StatefulSets /\ stsCache \in StatefulSets /\ stsWatch \in Seq(StatefulSets)
        /\ locals \in Locals /\ made \in Counts
    BY <1>1, <2>1, <2>2, NothingTypes DEF Init
  <2>5. /\ secrets \in SUBSET Secrets /\ IsFiniteSet(secrets)
        /\ queued \in BOOLEAN /\ pc \in Calls \cup {"idle"}
    BY <1>1, <2>3 DEF Init
  <2>6. pdb \in Nat /\ creations \in Nat /\ applied \in Nat /\ faults \in Nat /\ restarts \in Nat
    BY <1>1 DEF Init
  <2> QED BY <2>4, <2>5, <2>6 DEF TypeOK
<1> QED BY <1>1, TypeInductive, PTL DEF Spec

-----------------------------------------------------------------------------
(* Convergence *)

(* A write is followed by the caches, and one that changes the object puts    *)
(* something on its way.                                                      *)
LEMMA WriteFollows ==
    ASSUME TypeOK, CachesFollow
    PROVE  /\ \A new \in Lrps : WriteLrp(new) =>
                /\ Newest(lrpCache, lrpWatch') = lrp'
                /\ lrpWatch' = <<>> => lrp' = lrp /\ lrpWatch = <<>>
           /\ \A new \in StatefulSets : WriteSts(new) =>
                /\ Newest(stsCache, stsWatch') = sts'
                /\ stsWatch' = <<>> => sts' = sts /\ stsWatch = <<>>
<1>1. ASSUME NEW new \in Lrps, WriteLrp(new)
      PROVE  /\ Newest(lrpCache, lrpWatch') = lrp'
             /\ lrpWatch' = <<>> => lrp' = lrp /\ lrpWatch = <<>>
  <2>1. lrpCache \in Lrps /\ lrpWatch \in Seq(Lrps) /\ Newest(lrpCache, lrpWatch) = lrp
    BY DEF TypeOK, CachesFollow
  <2>2. lrpWatch' = Published(lrpWatch, lrp, new) /\ lrp' = new
    BY <1>1 DEF WriteLrp
  <2> QED BY <2>1, <2>2, NewestPublished, PublishedType
<1>2. ASSUME NEW new \in StatefulSets, WriteSts(new)
      PROVE  /\ Newest(stsCache, stsWatch') = sts'
             /\ stsWatch' = <<>> => sts' = sts /\ stsWatch = <<>>
  <2>1. stsCache \in StatefulSets /\ stsWatch \in Seq(StatefulSets) /\ Newest(stsCache, stsWatch) = sts
    BY DEF TypeOK, CachesFollow
  <2>2. stsWatch' = Published(stsWatch, sts, new) /\ sts' = new
    BY <1>2 DEF WriteSts
  <2> QED BY <2>1, <2>2, NewestPublished, PublishedType
<1> QED BY <1>1, <1>2

(* The caches end in what is stored, whatever happens. *)
LEMMA CachesInductive == TypeOK /\ CachesFollow /\ [Next]_vars => CachesFollow'
<1> SUFFICES ASSUME TypeOK, CachesFollow, [Next]_vars PROVE CachesFollow'
  OBVIOUS
<1>1. CASE DeliverLrp
  <2>1. Newest(lrpCache', lrpWatch') = Newest(lrpCache, lrpWatch)
    BY <1>1, NewestDelivered DEF DeliverLrp, TypeOK
  <2> QED BY <1>1, <2>1 DEF DeliverLrp, CachesFollow, apiVars
<1>2. CASE DeliverSts
  <2>1. Newest(stsCache', stsWatch') = Newest(stsCache, stsWatch)
    BY <1>2, NewestDelivered DEF DeliverSts, TypeOK
  <2> QED BY <1>2, <2>1 DEF DeliverSts, CachesFollow, apiVars
<1>3. CASE Restart
  BY <1>3 DEF Restart, CachesFollow, Newest, apiVars, cacheVars
<1>4. CASE ~DeliverLrp /\ ~DeliverSts /\ ~Restart
  BY <1>4, StepWrites, WriteFollows DEF CachesFollow
<1> QED BY <1>1, <1>2, <1>3, <1>4

(* A step after which nothing is queued or on its way, deliveries, restarts   *)
(* and the start of a reconcile aside, started from such a state and left the *)
(* stored objects and their caches as they were.                              *)
LEMMA CalmStep ==
    ASSUME TypeOK, CachesFollow, [Next]_vars,
           ~DeliverLrp, ~DeliverSts, ~Restart, ~Dequeue, Calm'
    PROVE  Calm /\ UNCHANGED <<lrp, sts, lrpCache, stsCache>>
<1>1. /\ UNCHANGED <<lrpCache, stsCache>>
      /\ lrp' = lrp /\ lrpWatch = <<>>
      /\ sts' = sts /\ stsWatch = <<>>
  <2>1. lrpWatch' = <<>> /\ stsWatch' = <<>>
    BY DEF Calm
  <2> QED BY <2>1, StepWrites, WriteFollows
<1>2. queued' = FALSE
  BY DEF Calm, TypeOK
<1>3. queued = queued' \/ queued' = TRUE
  BY DEF Next, Controller, Environment, ReadFails, GetLrp, GetSts, CreateSecret, CreateSts,
     DeleteSecret, SetSecretOwner, DesirePdb, PatchStatus, SkipSts, PatchSts, UpdatePdb,
     UserCreates, UserEdits, UserDeletes, CollectSts, CollectPdb, CollectSecret, PodsChange,
     Call, Done, Retry, Finish, OwnerFails, DesireFails, vars
<1> QED BY <1>1, <1>2, <1>3 DEF Calm, TypeOK

(* The reconcile that nothing will follow keeps working on current copies.     *)
LEMMA CurrentInductive ==
    TypeOK /\ CachesFollow /\ LastReconcileCurrent /\ [Next]_vars => LastReconcileCurrent'
<1> SUFFICES ASSUME TypeOK, CachesFollow, LastReconcileCurrent, [Next]_vars, Calm'
             PROVE  LastReconcileCurrent'
  BY DEF LastReconcileCurrent
<1>1. ~DeliverLrp /\ ~DeliverSts
  BY DEF DeliverLrp, DeliverSts, Calm
<1>2. CASE Restart
  <2>1. lrpCache' = lrp'
    BY CachesInductive DEF CachesFollow, Calm, Newest
  <2>2. ~Exists(lrpCache')
    BY <1>2 DEF Restart, Calm
  <2>3. pc' = "idle" /\ ~Exists(lrp')
    BY <1>2, <2>1, <2>2 DEF Restart
  <2> QED BY <2>3 DEF LastReconcileCurrent
<1>3. CASE Dequeue
  BY <1>3 DEF Dequeue, LastReconcileCurrent
<1>4. CASE ~Restart /\ ~Dequeue
  <2>1. /\ Calm /\ ~queued'
        /\ lrp' = lrp /\ sts' = sts /\ lrpCache = lrp /\ stsCache = sts
    BY <1>1, <1>4, CalmStep DEF Calm, CachesFollow, Newest
  <2>2. CASE ReadFails \/ DeleteSecret
    BY <2>1, <2>2 DEF ReadFails, DeleteSecret, Retry
  <2>3. CASE GetLrp
    <3>1. CASE Exists(lrpCache)
      <4>1. pc' = "getSts" /\ locals'.lrp = lrp'
        BY <2>1, <2>3, <3>1 DEF GetLrp, Call, TypeOK, Locals
      <4> QED BY <2>1, <3>1, <4>1 DEF LastReconcileCurrent, Exists
    <3>2. CASE ~Exists(lrpCache)
      <4>1. pc' = "idle" /\ ~Exists(lrp')
        BY <2>1, <2>3, <3>2 DEF GetLrp, Done
      <4> QED BY <4>1 DEF LastReconcileCurrent
    <3> QED BY <3>1, <3>2
  <2>4. CASE GetSts
    <3>1. Exists(lrp) /\ locals.lrp = lrp
      BY <2>1, <2>4 DEF GetSts, LastReconcileCurrent
    <3>2. locals'.lrp = lrp' /\ locals'.sts = sts'
      BY <2>1, <2>4, <3>1 DEF GetSts, Call, TypeOK, Locals
    <3>3. IF Exists(sts) THEN pc' = "patchStatus" ELSE pc' \in {"createSecret", "createSts"}
      BY <2>1, <2>4 DEF GetSts, Call
    <3> QED BY <2>1, <3>1, <3>2, <3>3 DEF LastReconcileCurrent, Exists
  <2>5. CASE CreateSecret
    BY <2>1, <2>5 DEF CreateSecret, Call, Retry, LastReconcileCurrent, TypeOK, Locals
  <2>6. CASE CreateSts
    <3>1. locals.lrp = lrp /\ ~Exists(sts)
      BY <2>1, <2>6 DEF CreateSts, LastReconcileCurrent
    <3>2. Converted # sts
      BY <3>1, FieldTypes DEF Converted, Exists
    <3>3. pc' = "deleteSecret"
      BY <2>1, <2>6, <3>1, <3>2 DEF CreateSts, WriteSts, Call, Done, DesireFails, Retry
    <3> QED BY <3>3 DEF LastReconcileCurrent
  <2>7. CASE SetSecretOwner \/ DesirePdb \/ UpdatePdb
    BY <2>1, <2>7 DEF SetSecretOwner, DesirePdb, UpdatePdb, LastReconcileCurrent
  <2>8. CASE PatchStatus
    <3>1. /\ pc = "patchStatus" /\ locals.lrp = lrp /\ Exists(lrp) /\ Exists(sts) /\ locals.sts = sts
      BY <2>1, <2>8 DEF PatchStatus, LastReconcileCurrent
    <3>2. /\ pc' = "patchSts"
          /\ locals'.sts = sts'
          /\ locals'.err \/ (locals'.lrp = lrp' /\ lrp'.replicas = sts'.ready)
      BY <2>1, <2>8, <3>1
      DEF PatchStatus, StatusAnswer, WriteLrp, Reaches, Outcomes, Call, TypeOK, Locals, Lrps
    <3> QED BY <2>1, <3>1, <3>2 DEF LastReconcileCurrent, Exists
  <2>9. CASE SkipSts
    <3>1. /\ Exists(sts) /\ locals.sts = sts
          /\ locals.err \/ (Exists(lrp) /\ locals.lrp = lrp /\ lrp.replicas = sts.ready)
      BY <2>1, <2>9 DEF SkipSts, LastReconcileCurrent
    <3>2. ~locals.err /\ pc' = "idle"
      BY <2>1, <2>9 DEF SkipSts, Finish, Retry, Done
    <3>3. InSync'
      BY <2>1, <2>9, <3>1, <3>2 DEF SkipSts, UpToDate, NewReplicas, NewImage, InSync, Exists
    <3> QED BY <3>2, <3>3 DEF LastReconcileCurrent
  <2>10. CASE PatchSts
    <3>1. Exists(sts) /\ locals.sts = sts
      BY <2>1, <2>10 DEF PatchSts, LastReconcileCurrent
    <3>2. PatchedSts # sts
      BY <2>10, <3>1 DEF PatchSts, PatchedSts, UpToDate, NewReplicas, NewImage, TypeOK, StatefulSets
    <3> QED BY <2>1, <2>10, <3>1, <3>2 DEF PatchSts, WriteSts, Call, Retry
  <2>11. CASE \/ UserCreates \/ UserEdits \/ UserDeletes
              \/ CollectSts \/ CollectPdb \/ CollectSecret \/ PodsChange \/ UNCHANGED vars
    <3>1. pc' = pc /\ locals' = locals
      BY <2>11 DEF UserCreates, UserEdits, UserDeletes, CollectSts, CollectPdb, CollectSecret,
         PodsChange, vars
    <3> QED BY <2>1, <3>1 DEF LastReconcileCurrent, InSync, Exists
  <2> QED
    BY <1>1, <1>4, <2>2, <2>3, <2>4, <2>5, <2>6, <2>7, <2>8, <2>9, <2>10, <2>11
    DEF Next, Controller, Environment
<1> QED BY <1>2, <1>3, <1>4

(* A reconcile that no event will follow has read what is stored, and it is    *)
(* past no write that changed anything: every such write comes back as an      *)
(* event.                                                                      *)
THEOREM LastReconcile == Spec => []LastReconcileCurrent
<1> DEFINE Inv == TypeOK /\ CachesFollow /\ LastReconcileCurrent
<1>1. Init => CachesFollow /\ LastReconcileCurrent
  BY DEF Init, CachesFollow, Newest, LastReconcileCurrent, Exists, NoLrp
<1>2. Inv /\ [Next]_vars => Inv'
  BY TypeInductive, CachesInductive, CurrentInductive
<1>3. Init /\ TypeOK => Inv
  BY <1>1
<1> QED BY <1>2, <1>3, TypeCorrect, PTL DEF Spec

(* The controller never rests with a StatefulSet that differs from its LRP:    *)
(* whatever it read from caches, whichever calls failed or only seemed to, and *)
(* wherever the process was replaced.                                          *)
THEOREM Convergence == Spec => []Converged
<1>1. LastReconcileCurrent => Converged
  BY DEF Converged, Settled, LastReconcileCurrent, Calm
<1> QED BY <1>1, LastReconcile, PTL

-----------------------------------------------------------------------------
(* No rollback behind a successful status patch *)

(* revs only grow: what has been seen stays seen. *)
LEMMA SeenGrows ==
    ASSUME TypeOK, [Next]_vars
    PROVE  /\ made.revs \in Nat /\ made'.revs \in Nat /\ made.revs <= made'.revs
           /\ SeenLrps \subseteq SeenLrps' /\ Seq(SeenLrps) \subseteq Seq(SeenLrps')
<1>1. made.revs \in Nat /\ made'.revs \in Nat /\ made.revs <= made'.revs
  <2>1. made.revs \in Nat /\ made \in Counts /\ made' \in Counts
    BY TypeInductive, FieldTypes DEF TypeOK
  <2>2. made'.revs = made.revs \/ made'.revs = made.revs + 1
    BY <2>1 DEF Next, Controller, Environment, Dequeue, ReadFails, GetLrp, GetSts, CreateSecret,
       CreateSts, DeleteSecret, SetSecretOwner, DesirePdb, PatchStatus, SkipSts, PatchSts,
       UpdatePdb, DeliverLrp, DeliverSts, UserCreates, UserEdits, UserDeletes, CollectSts,
       CollectPdb, CollectSecret, PodsChange, Restart, budgetVars, vars, Counts
  <2> QED BY <2>1, <2>2 DEF Counts
<1>2. SeenLrps \subseteq SeenLrps'
  <2>1. \A o \in Lrps : o.rev \in Nat
    BY DEF Lrps
  <2> QED BY <1>1, <2>1 DEF SeenLrps, Lrps
<1>3. Seq(SeenLrps) \subseteq Seq(SeenLrps')
  BY <1>2, SeqMonotonic
<1> QED BY <1>1, <1>2, <1>3

(* Writing a version whose rev has been seen leaves only seen revs on the way. *)
LEMMA WriteSeen ==
    ASSUME TypeOK, RevsOrdered, [Next]_vars,
           NEW new \in SeenLrps', WriteLrp(new)
    PROVE  lrp' \in SeenLrps' /\ lrpWatch' \in Seq(SeenLrps')
<1>1. lrpWatch \in Seq(SeenLrps')
  BY SeenGrows DEF RevsOrdered
<1>2. lrp' = new /\ lrpWatch' = Published(lrpWatch, lrp, new)
  BY DEF WriteLrp
<1> QED BY <1>1, <1>2, PublishedType

(* The empty LRP has been seen from the start. *)
LEMMA NoLrpSeen == ASSUME TypeOK PROVE NoLrp \in SeenLrps /\ ~Exists(NoLrp)
<1>1. made.revs \in Nat
  BY FieldTypes
<1> QED BY <1>1, NothingTypes DEF SeenLrps, NoLrp, Exists

(* Every step keeps the revs in order. *)
LEMMA RevsInductive == TypeOK /\ RevsOrdered /\ [Next]_vars => RevsOrdered'
<1> SUFFICES ASSUME TypeOK, RevsOrdered, [Next]_vars PROVE RevsOrdered'
  OBVIOUS
<1>1. (lrp' = lrp /\ made'.revs = made.revs) \/ UserCreates \/ UserEdits \/ UserDeletes \/ PatchStatus
  <2>1. made \in Counts
    BY DEF TypeOK
  <2> QED
    BY <2>1 DEF Next, Controller, Environment, Dequeue, ReadFails, GetLrp, GetSts, CreateSecret,
       CreateSts, DeleteSecret, SetSecretOwner, DesirePdb, SkipSts, PatchSts,
       UpdatePdb, DeliverLrp, DeliverSts, CollectSts,
       CollectPdb, CollectSecret, PodsChange, Restart, budgetVars, apiVars, vars, Counts
<1>2. PatchStatus => \E new \in SeenLrps' : /\ WriteLrp(new) /\ made' = made
                                            /\ Exists(new) => new.rev = made.revs
                                            /\ locals'.err \/ (locals'.lrp = new /\ Exists(new))
                                            /\ locals'.lrp \in SeenLrps
  <2> SUFFICES ASSUME PatchStatus
               PROVE  \E new \in SeenLrps' : /\ WriteLrp(new) /\ made' = made
                                             /\ Exists(new) => new.rev = made.revs
                                             /\ locals'.err \/ (locals'.lrp = new /\ Exists(new))
                                             /\ locals'.lrp \in SeenLrps
    OBVIOUS
  <2> DEFINE patched == [lrp EXCEPT !.replicas = IF locals.lrp.replicas = locals.sts.ready
                                                 THEN @ ELSE locals.sts.ready]
  <2>1. /\ patched \in SeenLrps /\ patched.rev = lrp.rev /\ patched.uid = lrp.uid
    BY FieldTypes DEF RevsOrdered, SeenLrps, Lrps
  <2>2. SeenLrps' = SeenLrps /\ made' = made
    BY DEF PatchStatus, SeenLrps
  <2>3. PICK outcome \in Outcomes :
          /\ WriteLrp(IF Reaches(outcome) /\ Exists(lrp) THEN patched ELSE lrp)
          /\ locals' = IF outcome = "ok" /\ Exists(lrp)
                       THEN [locals EXCEPT !.lrp = patched]
                       ELSE [locals EXCEPT !.err = TRUE]
    BY DEF PatchStatus, Call, StatusAnswer
  <2>4. CASE outcome = "ok" /\ Exists(lrp)
    <3>1. WriteLrp(patched) /\ locals'.lrp = patched
      BY <2>3, <2>4 DEF Reaches, TypeOK, Locals
    <3> QED BY <2>1, <2>2, <2>4, <3>1 DEF RevsOrdered, Exists
  <2>5. CASE ~(outcome = "ok" /\ Exists(lrp))
    <3>1. locals'.err /\ locals'.lrp = locals.lrp
      BY <2>3, <2>5 DEF TypeOK, Locals
    <3>2. PICK new \in {patched, lrp} : WriteLrp(new)
      BY <2>3
    <3>3. new \in SeenLrps /\ (Exists(new) => new.rev = made.revs)
      BY <2>1, <3>2 DEF RevsOrdered, Exists
    <3>4. locals.lrp \in SeenLrps
      BY DEF RevsOrdered
    <3> HIDE DEF patched
    <3> QED BY <2>2, <3>1, <3>2, <3>3, <3>4
  <2> QED BY <2>4, <2>5
<1>3. /\ Exists(lrp') => lrp'.rev = made'.revs
      /\ lrp' \in SeenLrps'
  <2>1. CASE lrp' = lrp /\ made'.revs = made.revs
    BY <2>1, SeenGrows DEF RevsOrdered
  <2>2. CASE UserCreates
    <3>1. PICK n \in Instances, image \in Images :
            lrp' = [uid |-> made.lrps + 1, rev |-> made.revs + 1,
                    instances |-> n, image |-> image, replicas |-> 0]
      BY <2>2 DEF UserCreates, WriteLrp
    <3>2. made'.revs = made.revs + 1
      BY <2>2 DEF UserCreates, TypeOK, Counts
    <3>3. lrp' \in Lrps
      BY ObjectTypes
    <3> QED BY <3>1, <3>2, <3>3, SeenGrows DEF SeenLrps
  <2>3. CASE UserEdits
    <3>1. PICK n \in Instances, image \in Images :
            lrp' = [lrp EXCEPT !.rev = made.revs + 1, !.instances = n, !.image = image]
      BY <2>3 DEF UserEdits, WriteLrp
    <3>2. made'.revs = made.revs + 1
      BY <2>3 DEF UserEdits, TypeOK, Counts
    <3>3. lrp' \in Lrps /\ lrp'.rev = made.revs + 1
      BY <3>1, ObjectTypes DEF TypeOK, Lrps
    <3> QED BY <3>2, <3>3, SeenGrows DEF SeenLrps
  <2>4. CASE UserDeletes
    BY <2>4, NoLrpSeen, SeenGrows DEF UserDeletes, WriteLrp
  <2>5. CASE PatchStatus
    BY <2>5, <1>2 DEF WriteLrp
  <2> QED BY <1>1, <2>1, <2>2, <2>3, <2>4, <2>5
<1>4. lrpCache' \in SeenLrps' /\ lrpWatch' \in Seq(SeenLrps')
  <2>1. CASE DeliverLrp
    BY <2>1, NewestDelivered, SeenGrows DEF DeliverLrp, RevsOrdered
  <2>2. CASE Restart
    BY <2>2, SeenGrows, EmptySeq DEF Restart, RevsOrdered, cacheVars
  <2>3. CASE DeliverSts
    BY <2>3, SeenGrows DEF DeliverSts, RevsOrdered
  <2>4. CASE ~DeliverLrp /\ ~DeliverSts /\ ~Restart
    <3>1. UNCHANGED lrpCache
      BY <2>4, StepWrites
    <3>2. lrpWatch' = lrpWatch \/ lrpWatch' = Published(lrpWatch, lrp, lrp')
      BY <2>4, StepWrites DEF WriteLrp
    <3>3. lrpWatch \in Seq(SeenLrps') /\ lrpCache \in SeenLrps'
      BY SeenGrows DEF RevsOrdered
    <3> QED BY <1>3, <3>1, <3>2, <3>3, PublishedType
  <2> QED BY <2>1, <2>2, <2>3, <2>4
<1>5. locals'.lrp \in SeenLrps'
  <2>1. locals'.lrp \in {locals.lrp, lrpCache, NoLrp} \/ PatchStatus
    <3>1. NoLocals.lrp = NoLrp
      BY DEF NoLocals
    <3> QED
      BY <3>1 DEF Next, Controller, Environment, Dequeue, ReadFails, GetLrp, GetSts, CreateSecret,
         CreateSts, DeleteSecret, SetSecretOwner, DesirePdb, SkipSts, PatchSts, UpdatePdb,
         DeliverLrp, DeliverSts, UserCreates, UserEdits, UserDeletes, CollectSts,
         CollectPdb, CollectSecret, PodsChange, Restart, vars,
         Call, Done, Retry, Finish, OwnerFails, DesireFails, TypeOK, Locals
  <2> QED BY <2>1, <1>2, NoLrpSeen, SeenGrows DEF RevsOrdered
<1>6. applied' <= made'.revs
  <2>1. applied' \in {applied, locals.lrp.rev}
    BY DEF Next, Controller, Environment, Dequeue, ReadFails, GetLrp, GetSts, CreateSecret,
       CreateSts, DeleteSecret, SetSecretOwner, DesirePdb, PatchStatus, SkipSts, PatchSts,
       UpdatePdb, DeliverLrp, DeliverSts, UserCreates, UserEdits, UserDeletes, CollectSts,
       CollectPdb, CollectSecret, PodsChange, Restart, apiVars, vars
  <2>2. applied <= made.revs /\ locals.lrp.rev <= made.revs
    BY DEF RevsOrdered, SeenLrps
  <2>3. applied \in Nat /\ locals.lrp.rev \in Nat
    BY FieldTypes DEF TypeOK
  <2> QED BY <2>1, <2>2, <2>3, SeenGrows
<1>7. pc' = "patchSts" => locals'.err \/ applied' <= locals'.lrp.rev
  <2> SUFFICES ASSUME pc' = "patchSts" PROVE locals'.err \/ applied' <= locals'.lrp.rev
    OBVIOUS
  <2>1. CASE PatchStatus
    <3>1. applied' = applied /\ applied <= made.revs
      BY <2>1 DEF PatchStatus, RevsOrdered
    <3> QED BY <2>1, <1>2, <3>1
  <2>2. CASE ~PatchStatus
    <3>1. pc = "patchSts" /\ locals' = locals /\ applied' = applied
      BY <2>2 DEF Next, Controller, Environment, Dequeue, ReadFails, GetLrp, GetSts, CreateSecret,
         CreateSts, DeleteSecret, SetSecretOwner, DesirePdb, SkipSts, PatchSts, UpdatePdb,
         DeliverLrp, DeliverSts, UserCreates, UserEdits, UserDeletes, CollectSts,
         CollectPdb, CollectSecret, PodsChange, Restart, vars, apiVars,
         Call, Done, Retry, Finish, OwnerFails, DesireFails
    <3> QED BY <3>1 DEF RevsOrdered
  <2> QED BY <2>1, <2>2
<1> QED BY <1>3, <1>4, <1>5, <1>6, <1>7 DEF RevsOrdered

(* The stored LRP is the newest version, no copy of it is newer, and behind a  *)
(* status patch that went well the worker holds no version older than the one  *)
(* the StatefulSet was last brought to.                                        *)
THEOREM VersionsOrdered == Spec => []RevsOrdered
<1>1. Init => RevsOrdered
  <2> SUFFICES ASSUME Init PROVE RevsOrdered
    OBVIOUS
  <2>1. NoLrp \in SeenLrps /\ made.revs = 0
    BY NothingTypes DEF Init, SeenLrps, NoLrp
  <2>2. <<>> \in Seq(SeenLrps)
    BY EmptySeq
  <2> QED BY <2>1, <2>2 DEF Init, RevsOrdered, Exists, NoLrp, NoLocals
<1> QED BY <1>1, TypeCorrect, RevsInductive, PTL DEF Spec

(* The Updater takes a StatefulSet back to an older spec only in a reconcile   *)
(* whose status patch failed.                                                  *)
THEOREM NoSilentRollback == Spec => RollbackOnlyAfterStatusFailure
<1>1. TypeOK /\ RevsOrdered /\ [Next]_vars
        => [sts'.uid = sts.uid /\ applied' < applied => locals.err]_vars
  <2> SUFFICES ASSUME TypeOK, RevsOrdered, Next, sts'.uid = sts.uid, applied' < applied
               PROVE  locals.err
    BY DEF vars
  <2>1. applied \in Nat /\ ~(applied < applied)
    BY DEF TypeOK
  <2>2. applied' # applied
    BY <2>1
  <2>3. CreateSts \/ PatchSts
    BY <2>2 DEF Next, Controller, Environment, Dequeue, ReadFails, GetLrp, GetSts, CreateSecret,
       DeleteSecret, SetSecretOwner, DesirePdb, PatchStatus, SkipSts, UpdatePdb,
       DeliverLrp, DeliverSts, UserCreates, UserEdits, UserDeletes, CollectSts,
       CollectPdb, CollectSecret, PodsChange, Restart, apiVars
  <2>4. ~CreateSts
    <3> SUFFICES ASSUME CreateSts PROVE FALSE
      OBVIOUS
    <3>1. ~Exists(sts) /\ sts' = Converted
      BY <2>2 DEF CreateSts, WriteSts
    <3>2. Converted.uid = made.sts + 1 /\ made.sts \in Nat
      BY FieldTypes DEF Converted
    <3> QED BY <3>1, <3>2 DEF Exists
  <2>5. pc = "patchSts" /\ applied' = locals.lrp.rev
    BY <2>2, <2>3, <2>4 DEF PatchSts
  <2>6. locals.lrp.rev \in Nat
    BY FieldTypes
  <2> QED BY <2>1, <2>5, <2>6 DEF RevsOrdered
<1> QED BY <1>1, VersionsOrdered, TypeCorrect, PTL DEF Spec, RollbackOnlyAfterStatusFailure

-----------------------------------------------------------------------------
(* The budget of an undisturbed LRP *)

Undisturbed == faults = 0 /\ restarts = 0 /\ made.images = 0 /\ made.lrps <= 1

(* The calls that follow a write of the StatefulSet. *)
Writing == {"setSecretOwner", "desirePdb", "updatePdb"}

(* There is one LRP, with one image, and one StatefulSet of it: every copy is *)
(* a copy of these.                                                           *)
CopiesOfLrp == {o \in Lrps : Exists(o) => o.uid = lrp.uid /\ o.image = lrp.image}
CopiesOfSts == {o \in StatefulSets : Exists(o) => /\ Exists(sts) /\ o.uid = sts.uid
                                                  /\ o.owner = lrp.uid /\ o.image = lrp.image}

NothingYet ==
    /\ ~Exists(lrp) /\ ~Exists(lrpCache) /\ lrpWatch = <<>>
    /\ ~Exists(sts) /\ ~Exists(stsCache) /\ stsWatch = <<>>
    /\ pdb = 0 /\ ~queued /\ pc = "idle" /\ locals = NoLocals

AllCopies ==
    /\ lrp \in CopiesOfLrp /\ lrpCache \in CopiesOfLrp /\ locals.lrp \in CopiesOfLrp
    /\ lrpWatch \in Seq(CopiesOfLrp)
    /\ sts \in CopiesOfSts /\ stsCache \in CopiesOfSts /\ locals.sts \in CopiesOfSts
    /\ stsWatch \in Seq(CopiesOfSts)

(* The budget is that of the replicas of the StatefulSet, but for the calls   *)
(* between the write of the one and the write of the other.                   *)
BudgetFollows ==
    /\ pc \notin {"idle", "getLrp"} => Exists(locals.lrp)
    /\ pc \in {"patchStatus", "patchSts"} \cup Writing => Exists(locals.sts)
    /\ pc \in Writing => sts.replicas = locals.lrp.instances /\ pdb \in {0, sts.uid}
    /\ pc \notin Writing => pdb = IF Exists(sts) /\ sts.replicas > 1 THEN sts.uid ELSE 0

BudgetInv ==
    /\ made.lrps = 0 => NothingYet
    /\ Undisturbed /\ Exists(lrp) => AllCopies /\ BudgetFollows

(* Nothing happens before there is an LRP, and then nothing is known of it.   *)
LEMMA FirstLrp ==
    ASSUME TypeOK, NothingYet, made.lrps = 0, [Next]_vars
    PROVE  \/ NothingYet' /\ made'.lrps = 0
           \/ made'.lrps = 1 /\ AllCopies' /\ BudgetFollows'
<1>1. CASE Restart
  BY <1>1 DEF Restart, NothingYet, Exists, apiVars, cacheVars
<1>2. CASE UserCreates
  <2>1. made'.lrps = 1
    BY <1>2 DEF UserCreates, TypeOK, Counts
  <2>2. /\ lrp' \in Lrps /\ lrpWatch' = Published(<<>>, lrp, lrp')
        /\ UNCHANGED <<lrpCache, sts, stsCache, stsWatch, pdb, pc, locals>>
    BY <1>2, ObjectTypes DEF UserCreates, WriteLrp, NothingYet
  <2>3. lrp' \in CopiesOfLrp' /\ lrpCache' \in CopiesOfLrp' /\ NoLrp \in CopiesOfLrp'
    BY <2>2, NothingTypes DEF CopiesOfLrp, NothingYet, TypeOK, Exists, NoLrp
  <2>4. lrpWatch' \in Seq(CopiesOfLrp')
    <3>1. <<>> \in Seq(CopiesOfLrp')
      BY EmptySeq
    <3> QED BY <2>2, <2>3, <3>1, PublishedType
  <2>5. sts' \in CopiesOfSts' /\ stsCache' \in CopiesOfSts' /\ NoSts \in CopiesOfSts'
    BY <2>2, NothingTypes DEF CopiesOfSts, NothingYet, TypeOK, Exists, NoSts
  <2>6. stsWatch' \in Seq(CopiesOfSts')
    BY <2>2, EmptySeq DEF NothingYet
  <2>7. AllCopies'
    BY <2>2, <2>3, <2>4, <2>5, <2>6 DEF AllCopies, NothingYet, NoLocals
  <2>8. BudgetFollows'
    BY <2>2 DEF BudgetFollows, NothingYet, Writing, Exists
  <2> QED BY <2>1, <2>7, <2>8
<1>3. CASE CollectSecret \/ UNCHANGED vars
  BY <1>3 DEF CollectSecret, NothingYet, Exists, cacheVars, budgetVars, vars
<1>4. CASE ~Restart /\ ~UserCreates /\ ~CollectSecret /\ ~UNCHANGED vars
  BY <1>4 DEF NothingYet, Next, Controller, Environment, Dequeue, ReadFails, GetLrp, GetSts,
     CreateSecret, CreateSts, DeleteSecret, SetSecretOwner, DesirePdb, PatchStatus, SkipSts,
     PatchSts, UpdatePdb, DeliverLrp, DeliverSts, UserEdits, UserDeletes, CollectSts, CollectPdb,
     PodsChange
<1> QED BY <1>1, <1>2, <1>3, <1>4

(* A call that is not charged went well. *)
LEMMA Uncharged ==
    ASSUME TypeOK, faults' = 0, NEW outcome, Charge(outcome)
    PROVE  outcome = "ok" /\ faults = 0
BY DEF Charge, TypeOK

(* What disturbs an LRP is counted for good. *)
LEMMA StaysUndisturbed ==
    ASSUME TypeOK, [Next]_vars, Undisturbed', Exists(lrp'), made.lrps # 0
    PROVE  /\ Undisturbed /\ Exists(lrp)
           /\ ~ReadFails /\ ~Restart /\ ~UserCreates /\ ~UserDeletes
           /\ lrp'.uid = lrp.uid /\ lrp'.image = lrp.image
<1>1. /\ made.lrps \in Nat /\ made.images \in Nat /\ made.revs \in Nat /\ made \in Counts
      /\ faults \in Nat /\ restarts \in Nat
  BY FieldTypes DEF TypeOK
<1>2. ~Restart /\ restarts = 0
  <2>1. Restart \/ restarts' = restarts
    BY DEF Next, Controller, Environment, Dequeue, ReadFails, GetLrp, GetSts, CreateSecret,
       CreateSts, DeleteSecret, SetSecretOwner, DesirePdb, PatchStatus, SkipSts, PatchSts,
       UpdatePdb, DeliverLrp, DeliverSts, UserCreates, UserEdits, UserDeletes, CollectSts,
       CollectPdb, CollectSecret, PodsChange, budgetVars, vars
  <2> QED BY <1>1, <2>1 DEF Restart, Undisturbed
<1>3. ~ReadFails /\ faults = 0
  <2>1. faults' = faults \/ \E outcome \in Outcomes : Charge(outcome)
    BY DEF Next, Controller, Environment, Dequeue, ReadFails, GetLrp, GetSts, CreateSecret,
       CreateSts, DeleteSecret, SetSecretOwner, DesirePdb, PatchStatus, SkipSts, PatchSts,
       UpdatePdb, DeliverLrp, DeliverSts, UserCreates, UserEdits, UserDeletes, CollectSts,
       CollectPdb, CollectSecret, PodsChange, Restart, budgetVars, vars
  <2>2. faults' = 0
    BY DEF Undisturbed
  <2> QED BY <2>1, <2>2, Uncharged DEF ReadFails
<1>4. /\ made'.lrps = made.lrps \/ UserCreates
      /\ made'.images = made.images \/ made'.images = made.images + 1
  BY <1>1 DEF Next, Controller, Environment, Dequeue, ReadFails, GetLrp, GetSts, CreateSecret,
     CreateSts, DeleteSecret, SetSecretOwner, DesirePdb, PatchStatus, SkipSts, PatchSts,
     UpdatePdb, DeliverLrp, DeliverSts, UserCreates, UserEdits, UserDeletes, CollectSts,
     CollectPdb, CollectSecret, PodsChange, Restart, budgetVars, vars, Counts
<1>5. ~UserCreates /\ made.lrps <= 1 /\ made.images = 0 /\ made'.images = made.images
  <2>1. UserCreates => made'.lrps = made.lrps + 1
    BY <1>1 DEF UserCreates, Counts
  <2> QED BY <1>1, <1>4, <2>1 DEF Undisturbed
<1>6. ~UserDeletes
  BY DEF UserDeletes, WriteLrp, NoLrp, Exists
<1>7. lrp' = lrp \/ PatchStatus \/ UserEdits
  BY <1>5, <1>6 DEF Next, Controller, Environment, Dequeue, ReadFails, GetLrp, GetSts, CreateSecret,
     CreateSts, DeleteSecret, SetSecretOwner, DesirePdb, SkipSts, PatchSts,
     UpdatePdb, DeliverLrp, DeliverSts, CollectSts,
     CollectPdb, CollectSecret, PodsChange, Restart, apiVars, vars
<1>8. lrp'.uid = lrp.uid /\ lrp'.image = lrp.image
  <2>1. CASE PatchStatus
    <3>1. lrp' = lrp \/ \E n : lrp' = [lrp EXCEPT !.replicas = n]
      BY <2>1 DEF PatchStatus, WriteLrp
    <3> QED BY <3>1 DEF TypeOK, Lrps
  <2>2. CASE UserEdits
    <3>1. PICK n \in Instances, image \in Images :
            /\ made' = [made EXCEPT !.revs = @ + 1, !.images = IF image = lrp.image THEN @ ELSE @ + 1]
            /\ lrp' = [lrp EXCEPT !.rev = made.revs + 1, !.instances = n, !.image = image]
      BY <2>2 DEF UserEdits, WriteLrp
    <3>2. image = lrp.image
      BY <1>1, <1>5, <3>1 DEF Counts
    <3> QED BY <3>1, <3>2 DEF TypeOK, Lrps
  <2> QED BY <1>7, <2>1, <2>2
<1> QED BY <1>2, <1>3, <1>5, <1>6, <1>8 DEF Undisturbed, Exists

(* A reconcile holds what it held, what it reads from a cache, what the answer *)
(* to a write says is stored, or nothing.                                      *)
LEMMA LocalsRead ==
    ASSUME TypeOK, [Next]_vars
    PROVE  /\ locals'.lrp \in {locals.lrp, lrpCache, NoLrp, lrp'}
           /\ locals'.sts \in {locals.sts, stsCache, NoSts, sts'}
<1>1. NoLocals.lrp = NoLrp /\ NoLocals.sts = NoSts
  BY DEF NoLocals
<1>2. CASE PatchStatus
  <2> DEFINE p == [lrp EXCEPT !.replicas = IF locals.lrp.replicas = locals.sts.ready
                                           THEN @ ELSE locals.sts.ready]
  <2>1. p \in Lrps
    BY FieldTypes DEF TypeOK, Lrps
  <2>2. PICK outcome \in Outcomes :
          /\ Exists(lrp) /\ Reaches(outcome) => lrp' = p
          /\ locals' = IF outcome = "ok" /\ Exists(lrp)
                       THEN [locals EXCEPT !.lrp = p]
                       ELSE [locals EXCEPT !.err = TRUE]
    BY <1>2 DEF PatchStatus, WriteLrp, Call, StatusAnswer
  <2> HIDE DEF p
  <2> QED BY <2>1, <2>2 DEF Reaches, TypeOK, Locals
<1>3. CASE CreateSts
  BY <1>1, <1>3 DEF CreateSts, WriteSts, Call, Done, DesireFails, Retry, TypeOK, Locals
<1>4. CASE ~PatchStatus /\ ~CreateSts
  BY <1>1, <1>4 DEF Next, Controller, Environment, Dequeue, ReadFails, GetLrp, GetSts,
     CreateSecret, DeleteSecret, SetSecretOwner, DesirePdb, SkipSts, PatchSts,
     UpdatePdb, DeliverLrp, DeliverSts, UserCreates, UserEdits, UserDeletes, CollectSts,
     CollectPdb, CollectSecret, PodsChange, Restart, vars,
     Call, Done, Retry, Finish, OwnerFails, DesireFails, TypeOK, Locals
<1> QED BY <1>2, <1>3, <1>4

(* What is written to the LRP and to the StatefulSet of an undisturbed LRP are *)
(* copies of the one there is, and all earlier copies stay such.               *)
LEMMA CopiesInductive ==
    ASSUME TypeOK, AllCopies, BudgetFollows, [Next]_vars,
           Undisturbed', Exists(lrp'), made.lrps # 0
    PROVE  /\ AllCopies'
           /\ Exists(sts) => sts'.uid = sts.uid
           /\ ~CollectSts
<1>1. /\ lrp'.uid = lrp.uid /\ lrp'.image = lrp.image /\ Exists(lrp)
      /\ ~ReadFails /\ ~Restart /\ ~UserCreates /\ ~UserDeletes
  BY StaysUndisturbed
<1>2. ~CollectSts
  BY DEF CollectSts, AllCopies, CopiesOfSts
<1>3. lrp' \in CopiesOfLrp' /\ CopiesOfLrp' = CopiesOfLrp
  BY <1>1, ObjectTypes DEF CopiesOfLrp
<1>4. sts' = sts \/ CreateSts \/ PatchSts \/ PodsChange
  BY <1>2 DEF Next, Controller, Environment, Dequeue, ReadFails, GetLrp, GetSts, CreateSecret,
     DeleteSecret, SetSecretOwner, DesirePdb, PatchStatus, SkipSts, UpdatePdb,
     DeliverLrp, DeliverSts, UserCreates, UserEdits, UserDeletes,
     CollectPdb, CollectSecret, Restart, apiVars, vars
<1>5. sts' = sts \/ (CreateSts /\ ~Exists(sts) /\ sts' = Converted)
                 \/ /\ PatchSts \/ PodsChange
                    /\ Exists(sts)
                    /\ sts'.uid = sts.uid /\ sts'.owner = sts.owner /\ sts'.image = sts.image
  <2>1. CASE CreateSts
    BY <2>1 DEF CreateSts, WriteSts
  <2>2. CASE PatchSts
    <3>1. ~NewImage
      <4>1. Exists(locals.lrp) /\ Exists(locals.sts)
        BY <2>2 DEF PatchSts, BudgetFollows
      <4> QED BY <4>1 DEF NewImage, AllCopies, CopiesOfLrp, CopiesOfSts
    <3>2. sts' = sts \/ (Exists(sts) /\ sts' = PatchedSts)
      BY <2>2 DEF PatchSts, WriteSts
    <3>3. /\ PatchedSts.uid = sts.uid /\ PatchedSts.owner = sts.owner
          /\ PatchedSts.image = sts.image
      BY <3>1 DEF PatchedSts, TypeOK, StatefulSets
    <3> QED BY <2>2, <3>2, <3>3
  <2>3. CASE PodsChange
    <3>1. Exists(sts) /\ \E n : sts' = [sts EXCEPT !.ready = n]
      BY <2>3 DEF PodsChange, WriteSts
    <3> QED BY <2>3, <3>1 DEF TypeOK, StatefulSets
  <2> QED BY <1>4, <2>1, <2>2, <2>3
<1>6. sts' \in CopiesOfSts' /\ CopiesOfSts \subseteq CopiesOfSts'
  <2>1. sts' \in StatefulSets
    BY ObjectTypes
  <2>2. CASE CreateSts /\ ~Exists(sts) /\ sts' = Converted
    <3>1. Exists(locals.lrp)
      BY <2>2 DEF CreateSts, BudgetFollows
    <3>2. locals.lrp.uid = lrp.uid /\ locals.lrp.image = lrp.image
      BY <3>1 DEF AllCopies, CopiesOfLrp
    <3>3. sts'.owner = lrp'.uid /\ sts'.image = lrp'.image
      BY <1>1, <2>2, <3>2 DEF Converted
    <3> QED BY <2>1, <2>2, <3>3 DEF CopiesOfSts
  <2>3. CASE sts'.uid = sts.uid /\ sts'.owner = sts.owner /\ sts'.image = sts.image
    BY <1>1, <2>1, <2>3 DEF CopiesOfSts, AllCopies, Exists
  <2> QED BY <1>5, <2>2, <2>3
<1>7. Seq(CopiesOfSts) \subseteq Seq(CopiesOfSts')
  BY <1>6, SeqMonotonic
<1>8. lrpCache' \in CopiesOfLrp' /\ lrpWatch' \in Seq(CopiesOfLrp')
  <2>1. CASE DeliverLrp
    BY <1>3, <2>1, NewestDelivered DEF DeliverLrp, AllCopies
  <2>2. CASE DeliverSts
    BY <1>3, <2>2 DEF DeliverSts, AllCopies
  <2>3. CASE ~DeliverLrp /\ ~DeliverSts
    <3>1. UNCHANGED lrpCache
      BY <1>1, <2>3, StepWrites
    <3>2. lrpWatch' = lrpWatch \/ lrpWatch' = Published(lrpWatch, lrp, lrp')
      BY <1>1, <2>3, StepWrites DEF WriteLrp
    <3> QED BY <1>3, <3>1, <3>2, PublishedType DEF AllCopies
  <2> QED BY <2>1, <2>2, <2>3
<1>9. stsCache' \in CopiesOfSts' /\ stsWatch' \in Seq(CopiesOfSts')
  <2>1. stsCache \in CopiesOfSts' /\ stsWatch \in Seq(CopiesOfSts')
    BY <1>6, <1>7 DEF AllCopies
  <2>2. CASE DeliverSts
    BY <2>1, <2>2, NewestDelivered DEF DeliverSts
  <2>3. CASE DeliverLrp
    BY <2>1, <2>3 DEF DeliverLrp
  <2>4. CASE ~DeliverLrp /\ ~DeliverSts
    <3>1. UNCHANGED stsCache
      BY <1>1, <2>4, StepWrites
    <3>2. stsWatch' = stsWatch \/ stsWatch' = Published(stsWatch, sts, sts')
      BY <1>1, <2>4, StepWrites DEF WriteSts
    <3> QED BY <1>6, <2>1, <3>1, <3>2, PublishedType
  <2> QED BY <2>2, <2>3, <2>4
<1>10. locals'.lrp \in CopiesOfLrp'
  <2>1. NoLrp \in CopiesOfLrp
    BY NothingTypes DEF CopiesOfLrp, NoLrp, Exists
  <2> QED BY <1>3, <2>1, LocalsRead DEF AllCopies
<1>11. locals'.sts \in CopiesOfSts'
  <2>1. NoSts \in CopiesOfSts
    BY NothingTypes DEF CopiesOfSts, NoSts, Exists
  <2> QED BY <1>6, <2>1, LocalsRead DEF AllCopies
<1>12. Exists(sts) => sts'.uid = sts.uid
  BY <1>5
<1> QED BY <1>2, <1>3, <1>6, <1>8, <1>9, <1>10, <1>11, <1>12 DEF AllCopies

(* Every step keeps the budget that of the StatefulSet. *)
LEMMA BudgetInductive == TypeOK /\ BudgetInv /\ [Next]_vars => BudgetInv'
<1> SUFFICES ASSUME TypeOK, BudgetInv, [Next]_vars PROVE BudgetInv'
  OBVIOUS
<1>1. CASE made.lrps = 0
  <2>1. \/ NothingYet' /\ made'.lrps = 0
        \/ made'.lrps = 1 /\ AllCopies' /\ BudgetFollows'
    BY <1>1, FirstLrp DEF BudgetInv
  <2>2. NothingYet' => ~Exists(lrp')
    BY DEF NothingYet
  <2> QED BY <2>1, <2>2 DEF BudgetInv
<1>2. CASE made.lrps # 0
  <2>1. made'.lrps # 0
    <3>1. made'.lrps = made.lrps \/ made'.lrps = made.lrps + 1
      BY DEF Next, Controller, Environment, Dequeue, ReadFails, GetLrp, GetSts, CreateSecret,
         CreateSts, DeleteSecret, SetSecretOwner, DesirePdb, PatchStatus, SkipSts, PatchSts,
         UpdatePdb, DeliverLrp, DeliverSts, UserCreates, UserEdits, UserDeletes, CollectSts,
         CollectPdb, CollectSecret, PodsChange, Restart, budgetVars, vars, TypeOK, Counts
    <3> QED BY <1>2, <3>1, FieldTypes
  <2> SUFFICES ASSUME Undisturbed', Exists(lrp') PROVE AllCopies' /\ BudgetFollows'
    BY <2>1 DEF BudgetInv
  <2>2. /\ Undisturbed /\ Exists(lrp)
        /\ ~ReadFails /\ ~Restart /\ ~UserCreates /\ ~UserDeletes
    BY <1>2, StaysUndisturbed
  <2>3. AllCopies /\ BudgetFollows
    BY <2>2 DEF BudgetInv
  <2>4. AllCopies' /\ (Exists(sts) => sts'.uid = sts.uid) /\ ~CollectSts
    BY <1>2, <2>3, CopiesInductive
  <2>5. \A outcome : Charge(outcome) => outcome = "ok"
    BY Uncharged DEF Undisturbed
  <2>6. Exists(locals.sts) => Exists(sts) /\ locals.sts.uid = sts.uid
    BY <2>3 DEF AllCopies, CopiesOfSts
  <2>7. CASE Dequeue \/ GetLrp \/ GetSts \/ CreateSecret \/ DeleteSecret \/ SkipSts
    <3>1. UNCHANGED <<sts, pdb>> /\ pc \notin Writing /\ pc' \notin Writing
      BY <2>7 DEF Dequeue, GetLrp, GetSts, CreateSecret, DeleteSecret, SkipSts, Writing, apiVars,
         Call, Done, Retry, Finish
    <3>2. pc' \notin {"idle", "getLrp"} => Exists(locals'.lrp)
      BY <2>3, <2>7 DEF Dequeue, GetLrp, GetSts, CreateSecret, DeleteSecret, SkipSts,
         Call, Done, Retry, Finish, BudgetFollows, TypeOK, Locals
    <3>3. pc' \in {"patchStatus", "patchSts"} => Exists(locals'.sts)
      BY <2>7 DEF Dequeue, GetLrp, GetSts, CreateSecret, DeleteSecret, SkipSts,
         Call, Done, Retry, Finish, TypeOK, Locals
    <3> QED BY <2>3, <2>4, <3>1, <3>2, <3>3 DEF BudgetFollows, Exists
  <2>8. CASE CreateSts
    <3>1. pc = "createSts" /\ pc \notin Writing /\ UNCHANGED pdb
      BY <2>8 DEF CreateSts, Writing
    <3>2. Exists(locals.lrp) /\ pdb = IF Exists(sts) /\ sts.replicas > 1 THEN sts.uid ELSE 0
      BY <2>3, <3>1 DEF BudgetFollows, Exists
    <3>3. CASE ~Exists(sts) /\ locals.lrp.image # NoImage
      <4>1. sts' = Converted /\ locals' = [locals EXCEPT !.sts = Converted]
            /\ pc' \in {"setSecretOwner", "desirePdb"}
        BY <2>5, <2>8, <3>3 DEF CreateSts, WriteSts, Reaches, Call
      <4>2. locals'.sts = Converted /\ locals'.lrp = locals.lrp
        BY <4>1 DEF TypeOK, Locals
      <4>3. Exists(Converted) /\ Converted.replicas = locals.lrp.instances
        BY FieldTypes DEF Converted, Exists
      <4> QED BY <2>4, <3>1, <3>2, <3>3, <4>1, <4>2, <4>3 DEF BudgetFollows, Writing, Exists
    <3>4. CASE ~(~Exists(sts) /\ locals.lrp.image # NoImage)
      <4>1. sts' = sts /\ pc' \in {"idle", "deleteSecret"} /\ (pc' = "deleteSecret" => locals' = locals)
        BY <2>5, <2>8, <3>4 DEF CreateSts, WriteSts, Call, Done, DesireFails, Retry
      <4> QED BY <2>4, <3>1, <3>2, <4>1 DEF BudgetFollows, Writing, Exists
    <3> QED BY <3>3, <3>4
  <2>9. CASE SetSecretOwner
    <3>1. /\ pc = "setSecretOwner" /\ pc' = "desirePdb" /\ UNCHANGED <<sts, pdb, locals>>
      BY <2>5, <2>9 DEF SetSecretOwner, Call
    <3> QED BY <2>3, <2>4, <3>1 DEF BudgetFollows, Writing, Exists
  <2>10. CASE DesirePdb \/ UpdatePdb
    <3>1. /\ pc \in {"desirePdb", "updatePdb"} /\ pc' = "idle"
          /\ UNCHANGED sts /\ pdb' = UpdatedPdb
      BY <2>5, <2>10 DEF DesirePdb, UpdatePdb, Reaches, Done, Finish, Retry
    <3>2. /\ Exists(locals.sts) /\ sts.replicas = locals.lrp.instances /\ pdb \in {0, sts.uid}
      BY <2>3, <3>1 DEF BudgetFollows, Writing, Exists
    <3>3. pdb' = IF Exists(sts) /\ sts.replicas > 1 THEN sts.uid ELSE 0
      BY <2>6, <3>1, <3>2 DEF UpdatedPdb
    <3> QED BY <2>4, <3>1, <3>3 DEF BudgetFollows, Writing, Exists
  <2>11. CASE PatchStatus
    <3>1. /\ pc = "patchStatus" /\ pc' = "patchSts" /\ UNCHANGED <<sts, pdb>>
      BY <2>11 DEF PatchStatus, Call
    <3>2. locals'.sts = locals.sts /\ Exists(locals'.lrp)
      <4>1. PICK n : locals' = [locals EXCEPT !.lrp = [lrp EXCEPT !.replicas = n]]
        BY <2>2, <2>5, <2>11 DEF PatchStatus, StatusAnswer, Call
      <4>2. locals'.lrp.uid = lrp.uid /\ locals'.sts = locals.sts
        BY <4>1 DEF TypeOK, Locals, Lrps
      <4> QED BY <2>2, <4>2 DEF Exists
    <3> QED BY <2>3, <2>4, <3>1, <3>2 DEF BudgetFollows, Writing, Exists
  <2>12. CASE PatchSts
    <3>1. pc = "patchSts" /\ UNCHANGED pdb /\ Exists(sts) /\ Exists(locals.lrp) /\ Exists(locals.sts)
      BY <2>3, <2>6, <2>12 DEF PatchSts, BudgetFollows
    <3>2. pc' = "updatePdb" /\ locals' = locals /\ sts' = PatchedSts
      BY <2>5, <2>12, <3>1 DEF PatchSts, WriteSts, Reaches, Call
    <3>3. NewReplicas
      <4>1. ~NewImage
        BY <2>3, <3>1 DEF NewImage, AllCopies, CopiesOfLrp, CopiesOfSts
      <4> QED BY <2>12, <4>1 DEF PatchSts, UpToDate
    <3>4. sts'.replicas = locals.lrp.instances /\ sts'.uid = sts.uid
      BY <3>2, <3>3 DEF PatchedSts, TypeOK, StatefulSets
    <3> QED BY <2>3, <2>4, <3>1, <3>2, <3>4 DEF BudgetFollows, Writing, Exists
  <2>13. CASE PodsChange
    <3>1. UNCHANGED <<pdb, pc, locals>>
      BY <2>13 DEF PodsChange
    <3>2. PICK n : sts' = [sts EXCEPT !.ready = n]
      BY <2>13 DEF PodsChange, WriteSts
    <3>3. sts'.replicas = sts.replicas /\ sts'.uid = sts.uid
      BY <3>2 DEF TypeOK, StatefulSets
    <3> QED BY <2>3, <2>4, <3>1, <3>3 DEF BudgetFollows, Exists
  <2>14. CASE \/ DeliverLrp \/ DeliverSts \/ UserEdits \/ CollectSecret \/ UNCHANGED vars
    <3>1. UNCHANGED <<sts, pdb, pc, locals>>
      BY <2>14 DEF DeliverLrp, DeliverSts, UserEdits, CollectSecret, apiVars, vars
    <3> QED BY <2>3, <2>4, <3>1 DEF BudgetFollows, Exists
  <2>15. ~CollectPdb
    BY <2>3 DEF CollectPdb, BudgetFollows
  <2> QED
    BY <2>2, <2>4, <2>7, <2>8, <2>9, <2>10, <2>11, <2>12, <2>13, <2>14, <2>15
    DEF Next, Controller, Environment
<1> QED BY <1>1, <1>2

(* As long as no call fails, no process is replaced, the image stays and there *)
(* is only ever one LRP, the budget is the one the LRP asks for whenever the   *)
(* controller is at rest: the write of the StatefulSet is always followed by   *)
(* that of its budget, and what the Updater compares with, old as it may be,   *)
(* makes it write the one exactly when it goes on to the other.                *)
THEOREM BudgetOfUndisturbed == Spec => []PdbMatchesUndisturbed
<1>1. Init => BudgetInv
  BY DEF Init, BudgetInv, NothingYet, Exists, NoLrp, NoSts
<1>2. BudgetInv /\ Converged => PdbMatchesUndisturbed
  BY DEF BudgetInv, BudgetFollows, Undisturbed, Writing, Converged, InSync,
     PdbMatchesUndisturbed, PdbMatches, Settled
<1> QED BY <1>1, <1>2, BudgetInductive, TypeCorrect, Convergence, PTL DEF Spec

-----------------------------------------------------------------------------
(* LrpLifecycle *)

(* The LRPs of the key are numbered.  A reconcile past its reads holds an LRP, *)
(* one that writes for an existing StatefulSet holds that, and while no call   *)
(* has failed the status patch goes wrong only for an LRP that is gone for     *)
(* good: one that is created again has a number of its own.                    *)
Numbered == {o \in Lrps : o.uid <= made.lrps}
Underway ==
    /\ lrp \in Numbered /\ lrpCache \in Numbered /\ locals.lrp \in Numbered
    /\ lrpWatch \in Seq(Numbered)
    /\ pc \notin {"idle", "getLrp"} => Exists(locals.lrp)
    /\ pc \in {"patchStatus", "patchSts"} \cup Writing => Exists(locals.sts)
    /\ locals.err => pc \in {"patchSts", "updatePdb"}
    /\ locals.err /\ faults = 0 => locals.lrp.uid # lrp.uid

(* Only the user changes which LRP there is, and new ones get new numbers.     *)
LEMMA LrpsNumbered ==
    ASSUME TypeOK, [Next]_vars
    PROVE  /\ Numbered \subseteq Numbered' /\ Seq(Numbered) \subseteq Seq(Numbered')
           /\ \/ lrp'.uid = lrp.uid /\ made'.lrps = made.lrps
              \/ UserCreates /\ lrp'.uid = made.lrps + 1 /\ made'.lrps = made.lrps + 1
              \/ UserDeletes /\ lrp' = NoLrp /\ made'.lrps = made.lrps
<1>1. made \in Counts /\ made.lrps \in Nat /\ made.revs \in Nat
  BY FieldTypes DEF TypeOK
<1>2. /\ made'.lrps = made.lrps \/ UserCreates
      /\ lrp' = lrp \/ UserCreates \/ UserEdits \/ UserDeletes \/ PatchStatus
  BY <1>1 DEF Next, Controller, Environment, Dequeue, ReadFails, GetLrp, GetSts, CreateSecret,
     CreateSts, DeleteSecret, SetSecretOwner, DesirePdb, PatchStatus, SkipSts, PatchSts,
     UpdatePdb, DeliverLrp, DeliverSts, UserEdits, UserDeletes, CollectSts,
     CollectPdb, CollectSecret, PodsChange, Restart, budgetVars, apiVars, vars, Counts
<1>3. UserCreates => lrp'.uid = made.lrps + 1 /\ made'.lrps = made.lrps + 1
  BY <1>1 DEF UserCreates, WriteLrp, Counts
<1>4. ASSUME ~UserCreates, ~UserDeletes PROVE lrp'.uid = lrp.uid
  <2>1. CASE PatchStatus
    <3>1. lrp' = lrp \/ \E n : lrp' = [lrp EXCEPT !.replicas = n]
      BY <2>1 DEF PatchStatus, WriteLrp
    <3> QED BY <3>1 DEF TypeOK, Lrps
  <2>2. CASE UserEdits
    <3>1. \E r, n, image : lrp' = [lrp EXCEPT !.rev = r, !.instances = n, !.image = image]
      BY <2>2 DEF UserEdits, WriteLrp
    <3> QED BY <3>1 DEF TypeOK, Lrps
  <2> QED BY <1>2, <1>4, <2>1, <2>2
<1>5. UserDeletes => lrp' = NoLrp /\ ~UserCreates
  BY DEF UserDeletes, UserCreates, WriteLrp
<1>6. \/ lrp'.uid = lrp.uid /\ made'.lrps = made.lrps
      \/ UserCreates /\ lrp'.uid = made.lrps + 1 /\ made'.lrps = made.lrps + 1
      \/ UserDeletes /\ lrp' = NoLrp /\ made'.lrps = made.lrps
  BY <1>2, <1>3, <1>4, <1>5
<1>7. Numbered \subseteq Numbered'
  <2>1. made.lrps <= made'.lrps /\ made'.lrps \in Nat
    BY <1>1, <1>6
  <2>2. \A o \in Lrps : o.uid \in Nat
    BY DEF Lrps
  <2> QED BY <1>1, <2>1, <2>2 DEF Numbered, Lrps
<1>8. Seq(Numbered) \subseteq Seq(Numbered')
  BY <1>7, SeqMonotonic
<1> QED BY <1>6, <1>7, <1>8

(* Every step keeps a reconcile in order. *)
LEMMA UnderwayInductive == TypeOK /\ Underway /\ [Next]_vars => Underway'
<1> SUFFICES ASSUME TypeOK, Underway, [Next]_vars PROVE Underway'
  OBVIOUS
<1>1. lrp' \in Numbered'
  <2>1. lrp' \in Lrps /\ made.lrps \in Nat
    BY ObjectTypes, FieldTypes
  <2>2. CASE lrp'.uid = lrp.uid /\ made'.lrps = made.lrps
    BY <2>1, <2>2 DEF Underway, Numbered
  <2>3. CASE lrp'.uid = made.lrps + 1 /\ made'.lrps = made.lrps + 1
    BY <2>1, <2>3 DEF Numbered
  <2>4. CASE lrp' = NoLrp /\ made'.lrps = made.lrps
    BY <2>1, <2>4 DEF Numbered, NoLrp
  <2> QED BY <2>2, <2>3, <2>4, LrpsNumbered
<1>2. lrpCache' \in Numbered' /\ lrpWatch' \in Seq(Numbered')
  <2>1. CASE DeliverLrp
    BY <2>1, NewestDelivered, LrpsNumbered DEF DeliverLrp, Underway
  <2>2. CASE Restart
    BY <2>2, LrpsNumbered, EmptySeq DEF Restart, Underway, cacheVars
  <2>3. CASE DeliverSts
    BY <2>3, LrpsNumbered DEF DeliverSts, Underway
  <2>4. CASE ~DeliverLrp /\ ~DeliverSts /\ ~Restart
    <3>1. UNCHANGED lrpCache
      BY <2>4, StepWrites
    <3>2. lrpWatch' = lrpWatch \/ lrpWatch' = Published(lrpWatch, lrp, lrp')
      BY <2>4, StepWrites DEF WriteLrp
    <3>3. lrpWatch \in Seq(Numbered') /\ lrpCache \in Numbered'
      BY LrpsNumbered DEF Underway
    <3> QED BY <1>1, <3>1, <3>2, <3>3, PublishedType
  <2> QED BY <2>1, <2>2, <2>3, <2>4
<1>3. locals'.lrp \in Numbered'
  <2>1. NoLrp \in Numbered
    BY NothingTypes, FieldTypes DEF Numbered, NoLrp
  <2> QED BY <1>1, <2>1, LocalsRead, LrpsNumbered DEF Underway
<1>4. /\ pc' \notin {"idle", "getLrp"} => Exists(locals'.lrp)
      /\ pc' \in {"patchStatus", "patchSts"} \cup Writing => Exists(locals'.sts)
      /\ locals'.err => pc' \in {"patchSts", "updatePdb"}
      /\ locals'.err /\ faults' = 0 => locals'.lrp.uid # lrp'.uid
  <2>1. CASE Dequeue \/ GetLrp \/ GetSts
    BY <2>1 DEF Dequeue, GetLrp, GetSts, Call, Done, Underway, Exists, Writing, TypeOK, Locals,
       NoLocals
  <2>2. CASE \/ ReadFails \/ DeleteSecret \/ SkipSts \/ DesirePdb \/ UpdatePdb \/ Restart
    BY <2>2 DEF ReadFails, DeleteSecret, SkipSts, DesirePdb, UpdatePdb, Restart, Finish, Done,
       Retry, Writing, NoLocals
  <2>3. CASE CreateSecret
    BY <2>3 DEF CreateSecret, Call, Retry, Underway, Exists, Writing, TypeOK, Locals, NoLocals
  <2>4. CASE SetSecretOwner
    BY <2>4 DEF SetSecretOwner, OwnerFails, Call, Retry, Underway, Exists, Writing, TypeOK, Locals,
       NoLocals
  <2>5. CASE CreateSts
    <3>1. pc = "createSts" /\ Exists(locals.lrp) /\ ~locals.err
      BY <2>5 DEF CreateSts, Underway
    <3>2. Exists(Converted)
      BY FieldTypes DEF Converted, Exists
    <3>3. \/ pc' = "idle" /\ locals' = NoLocals
          \/ pc' = "deleteSecret" /\ locals' = locals
          \/ pc' \in {"setSecretOwner", "desirePdb"} /\ locals' = [locals EXCEPT !.sts = Converted]
      BY <2>5 DEF CreateSts, DesireFails, Call, Done, Retry
    <3>4. CASE pc' \in {"setSecretOwner", "desirePdb"} /\ locals' = [locals EXCEPT !.sts = Converted]
      BY <3>1, <3>2, <3>4 DEF TypeOK, Locals, Writing, Exists
    <3> QED BY <3>1, <3>3, <3>4 DEF NoLocals, Writing, Exists
  <2>6. CASE PatchStatus
    <3>1. pc = "patchStatus" /\ Exists(locals.lrp) /\ Exists(locals.sts) /\ ~locals.err
      BY <2>6 DEF PatchStatus, Underway
    <3> DEFINE n == IF locals.lrp.replicas = locals.sts.ready THEN lrp.replicas ELSE locals.sts.ready
    <3>2. PICK outcome \in Outcomes :
            /\ Charge(outcome) /\ pc' = "patchSts"
            /\ locals' = IF outcome = "ok" /\ Exists(lrp)
                         THEN [locals EXCEPT !.lrp = [lrp EXCEPT !.replicas = n]]
                         ELSE [locals EXCEPT !.err = TRUE]
      BY <2>6 DEF PatchStatus, StatusAnswer, Call
    <3>3. CASE outcome = "ok" /\ Exists(lrp)
      <4>1. locals'.lrp.uid = lrp.uid /\ locals'.sts = locals.sts /\ locals'.err = locals.err
        BY <3>2, <3>3 DEF TypeOK, Locals, Lrps
      <4> QED BY <3>1, <3>2, <3>3, <4>1 DEF Exists, Writing
    <3>4. CASE ~(outcome = "ok" /\ Exists(lrp))
      <4>1. locals'.lrp = locals.lrp /\ locals'.sts = locals.sts
        BY <3>2, <3>4 DEF TypeOK, Locals
      <4>2. faults' = 0 => ~Exists(lrp)
        BY <3>2, <3>4, Uncharged
      <4>3. lrp'.uid = lrp.uid
        BY <2>6, <3>1, <3>2, LrpsNumbered DEF UserCreates, UserDeletes
      <4> QED BY <3>1, <3>2, <4>1, <4>2, <4>3 DEF Exists, Writing
    <3> QED BY <3>3, <3>4
  <2>7. CASE PatchSts
    <3>1. pc = "patchSts" /\ lrp' = lrp /\ (faults' = 0 => faults = 0)
      BY <2>7, Uncharged DEF PatchSts
    <3>2. (pc' = "updatePdb" /\ locals' = locals) \/ (pc' = "idle" /\ locals' = NoLocals)
      BY <2>7 DEF PatchSts, Call, Retry
    <3> QED BY <3>1, <3>2 DEF Underway, Writing, NoLocals, Exists
  <2>8. CASE \/ UserCreates \/ UserEdits \/ UserDeletes
    <3>1. UNCHANGED <<pc, locals, faults>>
      BY <2>8 DEF UserCreates, UserEdits, UserDeletes, budgetVars
    <3>2. locals.err /\ faults = 0 => locals.lrp.uid # lrp'.uid
      <4>1. locals.err => Exists(locals.lrp)
        BY DEF Underway
      <4>2. locals.lrp.uid \in Nat /\ made.lrps \in Nat /\ locals.lrp.uid <= made.lrps
        BY FieldTypes DEF Underway, Numbered
      <4>3. NoLrp.uid = 0
        BY DEF NoLrp
      <4> QED BY <4>1, <4>2, <4>3, LrpsNumbered DEF Underway, Exists
    <3> QED BY <3>1, <3>2 DEF Underway, Exists
  <2>9. CASE \/ DeliverLrp \/ DeliverSts \/ CollectSts \/ CollectPdb \/ CollectSecret \/ PodsChange
             \/ UNCHANGED vars
    <3>1. UNCHANGED <<pc, locals, faults, lrp>>
      BY <2>9 DEF DeliverLrp, DeliverSts, CollectSts, CollectPdb, CollectSecret, PodsChange,
         apiVars, budgetVars, vars
    <3> QED BY <3>1 DEF Underway, Exists
  <2> QED BY <2>1, <2>2, <2>3, <2>4, <2>5, <2>6, <2>7, <2>8, <2>9
          DEF Next, Controller, Environment
<1> QED BY <1>1, <1>2, <1>3, <1>4 DEF Underway, Exists

(* What there is to know of LRPs and of StatefulSets: only what is stored is new. *)
LEMMA CopiesKnown ==
    ASSUME TypeOK, [Next]_vars
    PROVE  /\ LrpCopies' \subseteq LrpCopies \cup {lrp', NoLrp}
           /\ StsCopies' \subseteq StsCopies \cup {sts', NoSts}
<1>1. /\ LrpCopies = Copies(lrpCache, lrpWatch) \cup {lrp, locals.lrp}
      /\ StsCopies = Copies(stsCache, stsWatch) \cup {sts, locals.sts}
  <2>1. DOMAIN lrpWatch = 1 .. Len(lrpWatch) /\ DOMAIN stsWatch = 1 .. Len(stsWatch)
    BY LenProperties DEF TypeOK
  <2> QED BY <2>1 DEF LrpCopies, StsCopies, Copies
<1>2. /\ LrpCopies' = Copies(lrpCache', lrpWatch') \cup {lrp', locals'.lrp}
      /\ StsCopies' = Copies(stsCache', stsWatch') \cup {sts', locals'.sts}
  <2>1. DOMAIN lrpWatch' = 1 .. Len(lrpWatch') /\ DOMAIN stsWatch' = 1 .. Len(stsWatch')
    BY LenProperties, ObjectTypes
  <2> QED BY <2>1 DEF LrpCopies, StsCopies, Copies
<1>3. /\ Copies(lrpCache', lrpWatch') \subseteq Copies(lrpCache, lrpWatch) \cup {lrp'}
      /\ Copies(stsCache', stsWatch') \subseteq Copies(stsCache, stsWatch) \cup {sts'}
  <2> USE DEF apiVars, cacheVars
  <2>1. CASE DeliverLrp
    BY <2>1, Delivered DEF DeliverLrp, TypeOK
  <2>2. CASE DeliverSts
    BY <2>2, Delivered DEF DeliverSts, TypeOK
  <2>3. CASE Restart
    BY <2>3 DEF Restart, Copies
  <2>4. CASE ~DeliverLrp /\ ~DeliverSts /\ ~Restart
    <3>1. /\ lrpCache' = lrpCache /\ lrpWatch' \in {lrpWatch, Published(lrpWatch, lrp, lrp')}
          /\ stsCache' = stsCache /\ stsWatch' \in {stsWatch, Published(stsWatch, sts, sts')}
      BY <2>4, StepWrites DEF WriteLrp, WriteSts
    <3>2. /\ Copies(lrpCache, Published(lrpWatch, lrp, lrp')) \subseteq Copies(lrpCache, lrpWatch) \cup {lrp'}
          /\ Copies(stsCache, Published(stsWatch, sts, sts')) \subseteq Copies(stsCache, stsWatch) \cup {sts'}
      BY CopiesWritten, ObjectTypes DEF TypeOK
    <3> QED BY <3>1, <3>2
  <2> QED BY <2>1, <2>2, <2>3, <2>4
<1>4. lrpCache \in Copies(lrpCache, lrpWatch) /\ stsCache \in Copies(stsCache, stsWatch)
  BY DEF Copies
<1> QED BY <1>1, <1>2, <1>3, <1>4, LocalsRead

LEMMA KnownAfter ==
    ASSUME TypeOK, [Next]_vars
    PROVE  /\ lrp' \in {lrp, NoLrp} /\ sts' \in {sts, NoSts} => Lifecycle!KnowsNoMore
           /\ sts' \in {sts, NoSts} => Lifecycle!Knows({lrp'}, {})
           /\ lrp' \in {lrp, NoLrp} => Lifecycle!Knows({}, {sts'})
<1>1. lrp \in LrpCopies /\ sts \in StsCopies
  BY DEF LrpCopies, StsCopies
<1> QED BY <1>1, CopiesKnown DEF Lifecycle!KnowsNoMore, Lifecycle!Knows

(* Failures are counted for good. *)
LEMMA TroubleStays ==
    ASSUME TypeOK, [Next]_vars
    PROVE  Lifecycle!Tries
<1>1. \A outcome : Charge(outcome) => faults' \in {faults, faults + 1}
  BY DEF Charge
<1>2. faults' = faults \/ \E outcome : Charge(outcome)
  BY DEF Next, Controller, Environment, Dequeue, ReadFails, GetLrp, GetSts, CreateSecret,
     CreateSts, DeleteSecret, SetSecretOwner, DesirePdb, PatchStatus, SkipSts, PatchSts,
     UpdatePdb, DeliverLrp, DeliverSts, UserCreates, UserEdits, UserDeletes, CollectSts,
     CollectPdb, CollectSecret, PodsChange, Restart, budgetVars, vars
<1>3. faults \in Nat
  BY DEF TypeOK
<1>4. faults > 0 => faults' > 0
  BY <1>1, <1>2, <1>3
<1>5. CASE faults' > 0
  <2>1. (faults' > 0) = TRUE
    BY <1>5
  <2> QED BY <2>1 DEF Lifecycle!Tries
<1>6. CASE ~(faults' > 0)
  <2>1. (faults' > 0) = (faults > 0)
    BY <1>4, <1>6
  <2> QED BY <2>1 DEF Lifecycle!Tries
<1> QED BY <1>5, <1>6

(* A step that changes nothing of the objects, or gives up a write. *)
LEMMA NothingSeen ==
    ASSUME TypeOK, [Next]_vars, UNCHANGED <<lrp, sts, pdb, applied>>,
           made'.lrps = made.lrps, made'.revs = made.revs, made'.sts = made.sts
    PROVE  Lifecycle!Think
BY KnownAfter, TroubleStays DEF Lifecycle!Think

(* The LRP and the StatefulSet a write of the worker is made from are copies.  *)
LEMMA HeldCopies ==
    ASSUME Underway
    PROVE  /\ pc \notin {"idle", "getLrp"} => locals.lrp \in LrpCopies \ {NoLrp}
           /\ pc \in {"patchStatus", "patchSts"} \cup Writing => locals.sts \in StsCopies \ {NoSts}
BY DEF Underway, LrpCopies, StsCopies, Exists, NoLrp, NoSts

LEMMA UserInLifecycle ==
    ASSUME TypeOK, [Next]_vars, UserCreates \/ UserEdits \/ UserDeletes
    PROVE  Lifecycle!Next
<1> USE DEF Lifecycle!Exists, Exists
<1>1. made \in Counts
  BY DEF TypeOK
<1>2. CASE UserCreates
  <2>1. /\ made'.lrps = made.lrps + 1 /\ made'.revs = made.revs + 1 /\ made'.sts = made.sts
        /\ UNCHANGED <<sts, applied, pdb, faults>> /\ ~Exists(lrp)
    BY <1>1, <1>2 DEF UserCreates, Counts
  <2>2. PICK n \in Instances, image \in Images :
          lrp' = [uid |-> made.lrps + 1, rev |-> made.revs + 1,
                  instances |-> n, image |-> image, replicas |-> 0]
    BY <1>2 DEF UserCreates, WriteLrp
  <2>3. Lifecycle!Knows({lrp'}, {})
    BY <2>1, KnownAfter
  <2>4. \E m \in Instances, i \in Images :
          lrp' = [uid |-> made'.lrps, rev |-> made'.revs, instances |-> m, image |-> i, replicas |-> 0]
    BY <2>1, <2>2
  <2> DEFINE c == [lrps |-> made.lrps, revs |-> made.revs, apps |-> made.sts]
  <2>5. c'.lrps = made'.lrps /\ c'.revs = made'.revs /\ c' = [c EXCEPT !.lrps = @ + 1, !.revs = @ + 1]
    <3> DEFINE Cs == [lrps : Nat, revs : Nat, apps : Nat]
    <3>1. c'.lrps = made'.lrps /\ c'.revs = made'.revs /\ c'.apps = made'.sts
      OBVIOUS
    <3>2. c.lrps = made.lrps /\ c.revs = made.revs /\ c.apps = made.sts
      OBVIOUS
    <3>3. c \in Cs /\ c' \in Cs
      BY <1>1, <2>1 DEF Counts
    <3> HIDE DEF c
    <3>4. c' = [c EXCEPT !.lrps = @ + 1, !.revs = @ + 1]
      BY <2>1, <3>1, <3>2, <3>3
    <3> QED BY <3>1, <3>4
  <2>6. Lifecycle!Create
    <3>1. \E m \in Instances, i \in Images :
            lrp' = [uid |-> c'.lrps, rev |-> c'.revs, instances |-> m, image |-> i, replicas |-> 0]
      BY <2>4, <2>5
    <3>2. (faults > 0)' = (faults > 0)
      BY <2>1
    <3> QED BY <2>1, <2>3, <2>5, <3>1, <3>2 DEF Lifecycle!Create
  <2> QED BY <2>6 DEF Lifecycle!Next
<1>3. CASE UserEdits
  <2>1. /\ made'.lrps = made.lrps /\ made'.revs = made.revs + 1 /\ made'.sts = made.sts
        /\ UNCHANGED <<sts, applied, pdb, faults>> /\ Exists(lrp)
    BY <1>1, <1>3 DEF UserEdits, Counts
  <2>2. PICK n \in Instances, image \in Images :
          lrp' = [lrp EXCEPT !.rev = made.revs + 1, !.instances = n, !.image = image]
    BY <1>3 DEF UserEdits, WriteLrp
  <2>3. Lifecycle!Knows({lrp'}, {})
    BY <2>1, KnownAfter
  <2>4. \E m \in Instances, i \in Images :
          lrp' = [lrp EXCEPT !.rev = made'.revs, !.instances = m, !.image = i]
    BY <2>1, <2>2
  <2> DEFINE c == [lrps |-> made.lrps, revs |-> made.revs, apps |-> made.sts]
  <2>5. c'.revs = made'.revs /\ c' = [c EXCEPT !.revs = @ + 1]
    BY <2>1
  <2>6. Lifecycle!Edit
    <3>1. \E m \in Instances, i \in Images :
            lrp' = [lrp EXCEPT !.rev = c'.revs, !.instances = m, !.image = i]
      BY <2>4, <2>5
    <3>2. (faults > 0)' = (faults > 0)
      BY <2>1
    <3> QED BY <2>1, <2>3, <2>5, <3>1, <3>2 DEF Lifecycle!Edit
  <2> QED BY <2>6 DEF Lifecycle!Next
<1>4. CASE UserDeletes
  <2>1. /\ lrp' = NoLrp /\ UNCHANGED <<sts, applied, pdb, faults, made>> /\ Exists(lrp)
    BY <1>4 DEF UserDeletes, WriteLrp, budgetVars
  <2>2. Lifecycle!Delete
    BY <2>1, KnownAfter DEF Lifecycle!Delete, NoLrp, Lifecycle!NoVersion
  <2> QED BY <2>2 DEF Lifecycle!Next
<1> QED BY <1>2, <1>3, <1>4

LEMMA ClusterInLifecycle ==
    ASSUME TypeOK, [Next]_vars, PodsChange \/ CollectSts \/ CollectPdb
    PROVE  Lifecycle!Next
<1> USE DEF Lifecycle!Exists, Exists
<1>1. made \in Counts
  BY DEF TypeOK
<1>2. CASE PodsChange
  <2>1. /\ made'.lrps = made.lrps /\ made'.revs = made.revs /\ made'.sts = made.sts
        /\ UNCHANGED <<lrp, applied, pdb, faults>> /\ Exists(sts)
    BY <1>1, <1>2 DEF PodsChange, Counts
  <2>2. PICK n \in 0 .. sts.replicas : sts' = [sts EXCEPT !.ready = n]
    BY <1>2 DEF PodsChange, WriteSts
  <2>3. Lifecycle!PodsChange
    BY <2>1, <2>2, KnownAfter DEF Lifecycle!PodsChange
  <2> QED BY <2>3 DEF Lifecycle!Next
<1>3. CASE CollectSts
  <2>1. /\ sts' = NoSts /\ sts.owner # lrp.uid /\ UNCHANGED <<lrp, applied, pdb, faults, made>>
    BY <1>3 DEF CollectSts, WriteSts, budgetVars
  <2>2. Lifecycle!CollectApp
    BY <2>1, KnownAfter DEF Lifecycle!CollectApp, NoSts, Lifecycle!NoApp
  <2> QED BY <2>2 DEF Lifecycle!Next
<1>4. CASE CollectPdb
  <2>1. /\ pdb # sts.uid /\ pdb' = 0 /\ UNCHANGED <<lrp, sts, applied, faults, made>>
    BY <1>4 DEF CollectPdb, budgetVars
  <2>2. Lifecycle!CollectBudget
    BY <2>1, KnownAfter DEF Lifecycle!CollectBudget
  <2> QED BY <2>2 DEF Lifecycle!Next
<1> QED BY <1>2, <1>3, <1>4

(* Desire creates the StatefulSet an LRP it has read asks for. *)
LEMMA CreateStsInLifecycle ==
    ASSUME TypeOK, Underway, [Next]_vars, CreateSts
    PROVE  Lifecycle!Next
<1>1. made \in Counts /\ made.sts \in Nat
  BY FieldTypes DEF TypeOK
<1>2. UNCHANGED <<lrp, pdb>> /\ pc = "createSts"
  BY DEF CreateSts
<1>3. locals.lrp \in LrpCopies \ {NoLrp}
  BY <1>2, HeldCopies
<1>4. CASE ~Exists(sts) /\ locals.lrp.image # NoImage /\ sts' = Converted
           /\ applied' = locals.lrp.rev /\ made' = [made EXCEPT !.sts = @ + 1]
  <2>1. made'.lrps = made.lrps /\ made'.revs = made.revs /\ made'.sts = made.sts + 1
    BY <1>1, <1>4 DEF Counts
  <2>2. Lifecycle!Start(locals.lrp)
    BY <1>2, <1>4, <2>1, KnownAfter, TroubleStays
    DEF Lifecycle!Start, Lifecycle!Exists, Exists, Converted
  <2> QED BY <1>3, <2>2 DEF Lifecycle!Next
<1>5. CASE UNCHANGED <<sts, applied, made>>
  BY <1>2, <1>5, NothingSeen DEF Lifecycle!Next
<1> QED BY <1>4, <1>5 DEF CreateSts, WriteSts

(* The status of the LRP gets the number of ready pods of a StatefulSet that   *)
(* was read.                                                                   *)
LEMMA PatchStatusInLifecycle ==
    ASSUME TypeOK, Underway, [Next]_vars, PatchStatus
    PROVE  Lifecycle!Next
<1>1. UNCHANGED <<sts, pdb, applied, made>> /\ pc = "patchStatus"
  BY DEF PatchStatus
<1>2. locals.sts \in StsCopies \ {NoSts}
  BY <1>1, HeldCopies
<1>3. CASE Exists(lrp) /\ lrp' = [lrp EXCEPT !.replicas = locals.sts.ready]
  <2>1. Lifecycle!Show(locals.sts)
    BY <1>1, <1>3, KnownAfter, TroubleStays DEF Lifecycle!Show, Lifecycle!Exists, Exists
  <2> QED BY <1>2, <2>1 DEF Lifecycle!Next
<1>4. CASE UNCHANGED lrp
  BY <1>1, <1>4, NothingSeen DEF Lifecycle!Next
<1>5. UNCHANGED lrp \/ (Exists(lrp) /\ lrp' = [lrp EXCEPT !.replicas = locals.sts.ready])
  <2>1. [lrp EXCEPT !.replicas = lrp.replicas] = lrp
    BY DEF TypeOK, Lrps
  <2> QED BY <2>1 DEF PatchStatus, WriteLrp
<1> QED BY <1>3, <1>4, <1>5

(* Update brings the StatefulSet to the LRP the reconcile holds.               *)
LEMMA PatchStsInLifecycle ==
    ASSUME TypeOK, RevsOrdered, Underway, [Next]_vars, PatchSts
    PROVE  Lifecycle!Next
<1>1. UNCHANGED <<lrp, pdb, made>> /\ pc = "patchSts"
  BY DEF PatchSts
<1>2. locals.lrp \in LrpCopies \ {NoLrp}
  BY <1>1, HeldCopies
<1>3. CASE Exists(sts) /\ sts' = PatchedSts /\ applied' = locals.lrp.rev
  <2>1. locals.lrp.rev >= applied \/ locals.lrp.uid # lrp.uid \/ faults > 0
    <3>1. locals.lrp.rev \in Nat /\ applied \in Nat /\ faults \in Nat
      BY FieldTypes DEF TypeOK
    <3> QED BY <1>1, <3>1 DEF RevsOrdered, Underway
  <2> DEFINE n == IF NewReplicas THEN locals.lrp.instances ELSE sts.replicas
             i == IF NewImage THEN locals.lrp.image ELSE sts.image
  <2>2. PatchedSts = [sts EXCEPT !.replicas = n, !.image = i]
    BY DEF PatchedSts
  <2>3. n \in {sts.replicas, locals.lrp.instances} /\ i \in {sts.image, locals.lrp.image}
    OBVIOUS
  <2>4. i = NoImage => sts.image = NoImage
    BY DEF NewImage
  <2> HIDE DEF n, i
  <2>5. Lifecycle!Follow(locals.lrp)
    BY <1>1, <1>3, <2>1, <2>2, <2>3, <2>4, KnownAfter, TroubleStays
    DEF Lifecycle!Follow, Lifecycle!Exists, Exists
  <2> QED BY <1>2, <2>5 DEF Lifecycle!Next
<1>4. CASE UNCHANGED <<sts, applied>>
  BY <1>1, <1>4, NothingSeen DEF Lifecycle!Next
<1> QED BY <1>3, <1>4 DEF PatchSts, WriteSts

(* The pdb Updater creates and deletes the budget as the LRP it was given asks. *)
LEMMA UpdatePdbInLifecycle ==
    ASSUME TypeOK, Underway, [Next]_vars, DesirePdb \/ UpdatePdb
    PROVE  Lifecycle!Next
<1>1. UNCHANGED <<lrp, sts, applied, made>> /\ pc \in {"desirePdb", "updatePdb"}
  BY DEF DesirePdb, UpdatePdb
<1>2. locals.lrp \in LrpCopies \ {NoLrp} /\ locals.sts \in StsCopies \ {NoSts}
  BY <1>1, HeldCopies DEF Writing
<1>3. locals.lrp.instances \in Nat
  BY FieldTypes
<1>4. pdb' \in {pdb, UpdatedPdb}
  BY DEF DesirePdb, UpdatePdb
<1>5. CASE UNCHANGED pdb
  BY <1>1, <1>5, NothingSeen DEF Lifecycle!Next
<1>6. CASE locals.lrp.instances > 1 /\ pdb = 0 /\ pdb' = locals.sts.uid
  <2>1. Lifecycle!Protect(locals.lrp, locals.sts)
    BY <1>1, <1>6, KnownAfter, TroubleStays DEF Lifecycle!Protect
  <2> QED BY <1>2, <2>1 DEF Lifecycle!Next
<1>7. CASE locals.lrp.instances <= 1 /\ pdb' = 0
  <2>1. Lifecycle!Unprotect(locals.lrp)
    BY <1>1, <1>7, KnownAfter, TroubleStays DEF Lifecycle!Unprotect
  <2> QED BY <1>2, <2>1 DEF Lifecycle!Next
<1> QED BY <1>3, <1>4, <1>5, <1>6, <1>7 DEF UpdatedPdb

(* What the controller does, with its caches, its queue, its lost replies and   *)
(* its restarts, is what LrpLifecycle allows: nothing is made up, and the       *)
(* StatefulSet goes back to an older version only after a failed call or for an *)
(* LRP that is gone (Desire, Update, updateLRPStatus).                          *)
THEOREM ImplementsTheLifecycle == Spec => ImplementsLifecycle
<1>1. Init => Lifecycle!Init /\ Underway
  <2> SUFFICES ASSUME Init PROVE Lifecycle!Init /\ Underway
    OBVIOUS
  <2>1. LrpCopies = {NoLrp} /\ StsCopies = {NoSts}
    <3>1. lrpWatch = <<>> /\ stsWatch = <<>> /\ DOMAIN lrpWatch = {} /\ DOMAIN stsWatch = {}
      BY DEF Init
    <3> QED BY <3>1 DEF Init, LrpCopies, StsCopies, NoLocals
  <2>2. Lifecycle!Init
    BY <2>1 DEF Init, Lifecycle!Init, NoLrp, NoSts, Lifecycle!NoVersion, Lifecycle!NoApp
  <2>3. NoLrp \in Numbered
    BY NothingTypes DEF Init, Numbered, NoLrp
  <2>4. <<>> \in Seq(Numbered)
    BY EmptySeq
  <2> QED BY <2>2, <2>3, <2>4 DEF Init, Underway, NoLocals, Writing
<1>2. TypeOK /\ RevsOrdered /\ Underway /\ [Next]_vars => [Lifecycle!Next]_(Lifecycle!vars)
  <2> SUFFICES ASSUME TypeOK, RevsOrdered, Underway, [Next]_vars PROVE Lifecycle!Next
    OBVIOUS
  <2>1. CASE \/ Dequeue \/ ReadFails \/ GetLrp \/ GetSts \/ SkipSts
             \/ CreateSecret \/ DeleteSecret \/ SetSecretOwner
    BY <2>1, NothingSeen DEF Dequeue, ReadFails, GetLrp, GetSts, SkipSts, CreateSecret,
       DeleteSecret, SetSecretOwner, apiVars, budgetVars, Lifecycle!Next
  <2>2. CASE DeliverLrp \/ DeliverSts \/ CollectSecret \/ Restart \/ UNCHANGED vars
    BY <2>2, NothingSeen DEF DeliverLrp, DeliverSts, CollectSecret, Restart, vars, apiVars,
       budgetVars, Lifecycle!Next
  <2> QED BY <2>1, <2>2, UserInLifecycle, ClusterInLifecycle, CreateStsInLifecycle,
             PatchStatusInLifecycle, PatchStsInLifecycle, UpdatePdbInLifecycle
          DEF Next, Controller, Environment
<1> QED BY <1>1, <1>2, TypeCorrect, VersionsOrdered, UnderwayInductive, PTL
        DEF Spec, ImplementsLifecycle, Lifecycle!Spec
=============================================================================
