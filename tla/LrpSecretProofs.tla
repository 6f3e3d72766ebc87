--------------------------- MODULE LrpSecretProofs ---------------------------
(***************************************************************************)
(* The registry secret of an LRP with a private registry, for every value  *)
(* of the constants: as long as no reply is lost, a StatefulSet never      *)
(* names a secret that is gone.                                            *)
(***************************************************************************)
EXTENDS LrpProofs

Holds(id) == \E s \in secrets : s.id = id

(* A secret is in one of two hands: that of the reconcile that made it, which *)
(* nobody else knows of, or that of the StatefulSet that names it, whose own  *)
(* it is or will be.                                                          *)
SecretsTied ==
    PrivateRegistry =>
      /\ Exists(sts) => Holds(sts.secret)
      /\ Exists(sts) => \A s \in secrets : s.id = sts.secret => s.owner \in {0, sts.uid}
      /\ pc = "createSts" => /\ Holds(locals.secret)
                             /\ \A s \in secrets : s.id = locals.secret => s.owner = 0
      /\ pc \in {"createSts", "deleteSecret"} /\ Exists(sts) => locals.secret # sts.secret
      /\ pc = "setSecretOwner" /\ Exists(sts) => locals.sts.uid = sts.uid

(* Without lost replies an error means that nothing was changed. *)
LEMMA ErrorsLeaveNothing ==
    ASSUME ~LostReplies, NEW outcome \in Outcomes
    PROVE  Reaches(outcome) <=> outcome = "ok"
BY DEF Outcomes, Reaches

(* The steps of a reconcile past the secret, and those of everybody else that *)
(* touch neither secrets nor the StatefulSet's name for one.                  *)
LEMMA TiedUntouched ==
    ASSUME TypeOK, SecretsTied,
           secrets' = secrets,
           sts' = sts \/ (sts'.uid = sts.uid /\ sts'.secret = sts.secret) \/ ~Exists(sts'),
           \/ pc' = pc /\ locals' = locals
           \/ pc' \notin {"createSts", "deleteSecret", "setSecretOwner"}
    PROVE  SecretsTied'
BY DEF SecretsTied, Exists, Holds

LEMMA TiedInductive ==
    ASSUME ~LostReplies, TypeOK, SecretsTied, [Next]_vars
    PROVE  SecretsTied'
<1> USE DEF apiVars, cacheVars, budgetVars
<1>1. CASE CreateSecret
  <2>1. PICK outcome \in Outcomes :
          /\ secrets' = IF Reaches(outcome)
                        THEN secrets \cup {[id |-> FreshSecretName, owner |-> 0]} ELSE secrets
          /\ IF outcome = "ok" THEN Call("createSts", [locals EXCEPT !.secret = FreshSecretName])
                               ELSE Retry
    BY <1>1 DEF CreateSecret
  <2>2. sts' = sts
    BY <1>1 DEF CreateSecret
  <2>3. CASE outcome # "ok"
    <3>1. secrets' = secrets /\ pc' = "idle"
      BY <2>1, <2>3, ErrorsLeaveNothing DEF Retry
    <3> QED BY <2>2, <3>1, TiedUntouched
  <2>4. CASE outcome = "ok"
    <3> DEFINE id == FreshSecretName
               new == [id |-> id, owner |-> 0]
    <3>1. id \notin {s.id : s \in secrets} /\ id # sts.secret
      BY FreshSecretNameExists DEF SecretNames, TypeOK
    <3>2. locals'.secret = id
      BY <2>1, <2>4 DEF Call, TypeOK, Locals
    <3>3. secrets' = secrets \cup {new} /\ pc' = "createSts"
      BY <2>1, <2>4, ErrorsLeaveNothing DEF Call
    <3>4. new.id = id /\ new.owner = 0 /\ \A s \in secrets : s.id # id
      BY <3>1
    <3> HIDE DEF id, new
    <3> QED BY <2>2, <3>1, <3>2, <3>3, <3>4 DEF SecretsTied, Holds, Exists
  <2> QED BY <2>3, <2>4
<1>2. CASE CreateSts
  <2>1. PICK outcome \in Outcomes :
          LET created == Reaches(outcome) /\ ~Exists(sts) /\ locals.lrp.image # NoImage
          IN  /\ WriteSts(IF created THEN Converted ELSE sts)
              /\ CASE outcome = "ok" /\ created ->
                        /\ Call(IF locals.secret # 0 THEN "setSecretOwner" ELSE "desirePdb",
                                [locals EXCEPT !.sts = Converted])
                        /\ UNCHANGED creations
                   [] outcome = "ok" /\ Exists(sts) /\ locals.lrp.image # NoImage ->
                        Done /\ CountCreation
                   [] OTHER -> DesireFails /\ UNCHANGED creations
    BY <1>2 DEF CreateSts
  <2>2. secrets' = secrets /\ pc = "createSts"
    BY <1>2 DEF CreateSts
  <2> DEFINE created == Reaches(outcome) /\ ~Exists(sts) /\ locals.lrp.image # NoImage
  <2>3. CASE created
    <3>1. outcome = "ok"
      BY <2>3, ErrorsLeaveNothing
    <3>2. sts' = Converted
      BY <2>1, <2>3 DEF WriteSts
    <3>3. /\ pc' \in {"setSecretOwner", "desirePdb"}
          /\ locals' = [locals EXCEPT !.sts = Converted]
      BY <2>1, <2>3, <3>1 DEF Call
    <3>4. sts'.secret = locals.secret /\ locals'.sts = sts'
      <4>1. sts'.secret = locals.secret
        BY <3>2 DEF Converted
      <4> HIDE DEF Converted
      <4>2. locals'.sts = Converted
        BY <3>3 DEF TypeOK, Locals
      <4> QED BY <3>2, <4>1, <4>2
    <3> QED BY <2>2, <3>3, <3>4 DEF SecretsTied, Holds
  <2>4. CASE ~created
    <3>1. sts' = sts
      BY <2>1, <2>4 DEF WriteSts
    <3>2. \/ pc' = "idle"
          \/ pc' = "deleteSecret" /\ locals' = locals
      BY <2>1, <2>4 DEF Done, DesireFails, Call, Retry
    <3> QED BY <2>2, <3>1, <3>2 DEF SecretsTied, Holds
  <2> QED BY <2>3, <2>4
<1>3. CASE DeleteSecret
  <2>1. /\ sts' = sts /\ pc = "deleteSecret" /\ pc' = "idle"
        /\ \/ secrets' = secrets
           \/ secrets' = {s \in secrets : s.id # locals.secret}
    BY <1>3 DEF DeleteSecret, Retry
  <2> QED BY <2>1 DEF SecretsTied, Holds, Exists
<1>4. CASE SetSecretOwner
  <2> DEFINE owned(s) == IF s.id = locals.secret THEN [s EXCEPT !.owner = locals.sts.uid] ELSE s
  <2>1. /\ sts' = sts /\ pc = "setSecretOwner" /\ pc' \in {"idle", "desirePdb"}
        /\ \/ secrets' = secrets
           \/ secrets' = {owned(s) : s \in secrets}
    BY <1>4 DEF SetSecretOwner, Retry, Call, OwnerFails
  <2>2. \A s \in secrets : /\ owned(s).id = s.id
                           /\ owned(s).owner \in {s.owner, locals.sts.uid}
    BY DEF TypeOK, Secrets
  <2> HIDE DEF owned
  <2> QED BY <2>1, <2>2 DEF SecretsTied, Holds, Exists
<1>5. CASE CollectSecret
  <2>1. /\ sts' = sts /\ pc' = pc /\ locals' = locals
        /\ \E s \in secrets : s.owner # 0 /\ s.owner # sts.uid /\ secrets' = secrets \ {s}
    BY <1>5 DEF CollectSecret
  <2> QED BY <2>1 DEF SecretsTied, Holds, Exists
<1>6. CASE GetSts
  <2>1. UNCHANGED <<secrets, sts>>
    BY <1>6 DEF GetSts
  <2>2. pc' \in {"patchStatus", "createSecret", "createSts"} /\ (PrivateRegistry => pc' # "createSts")
    BY <1>6 DEF GetSts, Call
  <2> QED BY <2>1, <2>2 DEF SecretsTied, Holds
<1>7. CASE \/ Dequeue \/ ReadFails \/ GetLrp \/ DesirePdb \/ PatchStatus \/ SkipSts \/ UpdatePdb
           \/ Restart
  <2>1. UNCHANGED <<secrets, sts>>
    BY <1>7 DEF Dequeue, ReadFails, GetLrp, DesirePdb, PatchStatus, SkipSts, UpdatePdb, Restart
  <2>2. pc' \in {"getLrp", "idle", "getSts", "patchSts"}
    BY <1>7 DEF Dequeue, ReadFails, GetLrp, DesirePdb, PatchStatus, SkipSts, UpdatePdb, Restart,
                Call, Done, Retry, Finish
  <2> QED BY <2>1, <2>2, TiedUntouched
<1>8. CASE PatchSts
  <2>1. secrets' = secrets /\ pc' \in {"updatePdb", "idle"}
    BY <1>8 DEF PatchSts, Call, Retry
  <2>2. sts' \in {sts, PatchedSts}
    BY <1>8 DEF PatchSts, WriteSts
  <2>3. PatchedSts.uid = sts.uid /\ PatchedSts.secret = sts.secret
    BY DEF PatchedSts, TypeOK, StatefulSets
  <2> QED BY <2>1, <2>2, <2>3, TiedUntouched
<1>9. CASE PodsChange
  <2>1. UNCHANGED <<secrets, pc, locals>>
    BY <1>9 DEF PodsChange
  <2>2. PICK n : sts' = [sts EXCEPT !.ready = n]
    BY <1>9 DEF PodsChange, WriteSts
  <2>3. sts'.uid = sts.uid /\ sts'.secret = sts.secret
    BY <2>2 DEF TypeOK, StatefulSets
  <2> QED BY <2>1, <2>3, TiedUntouched
<1>10. CASE CollectSts
  <2>1. UNCHANGED <<secrets, pc, locals>>
    BY <1>10 DEF CollectSts
  <2>2. ~Exists(sts')
    BY <1>10 DEF CollectSts, WriteSts, Exists, NoSts
  <2> QED BY <2>1, <2>2, TiedUntouched
<1>11. CASE \/ DeliverLrp \/ DeliverSts \/ UserCreates \/ UserEdits \/ UserDeletes \/ CollectPdb
            \/ UNCHANGED vars
  <2>1. UNCHANGED <<secrets, sts, pc, locals>>
    BY <1>11 DEF DeliverLrp, DeliverSts, UserCreates, UserEdits, UserDeletes, CollectPdb, vars
  <2> QED BY <2>1, TiedUntouched
<1> QED BY <1>1, <1>2, <1>3, <1>4, <1>5, <1>6, <1>7, <1>8, <1>9, <1>10, <1>11
        DEF Next, Controller, Environment

(* A StatefulSet of an LRP with a private registry names a secret that exists, *)
(* through any number of refused calls, restarts, edits and re-creations, as   *)
(* long as no reply is lost (Desire, setSecretOwner, cleanupAndError).         *)
THEOREM SecretKept == ~LostReplies => (Spec => []SecretPresent)
<1> SUFFICES ASSUME ~LostReplies PROVE Spec => []SecretPresent
  OBVIOUS
<1>1. Init => SecretsTied
  BY DEF Init, SecretsTied, Exists, NoSts
<1>2. TypeOK /\ SecretsTied /\ [Next]_vars => SecretsTied'
  BY TiedInductive
<1>3. SecretsTied => SecretPresent
  BY DEF SecretsTied, SecretPresent, Holds
<1> QED BY <1>1, <1>2, <1>3, TypeCorrect, PTL DEF Spec
=============================================================================
