--------------------------- MODULE WorkloadProofs ---------------------------
(***************************************************************************)
(* Every LRP has one StatefulSet and works on no other, for all specs,     *)
(* names, lengths and edits.  The argument: the name of a StatefulSet is a *)
(* function of fields the validating webhook keeps, so the name its owner  *)
(* asks for never moves away from it; and the API server keeps names apart.*)
(***************************************************************************)
EXTENDS Workload, SequenceTheorems, TLAPS

(* LRPs hold specs their users may send. *)
LrpsStored ==
    /\ DOMAIN lrps = Keys
    /\ \A k \in Keys : lrps[k] = <<>> \/ \E spec \in Specs[k] : lrps[k] = <<spec>>

(* A StatefulSet carries the name its owner's LRP asks for. *)
Named(s) ==
    /\ s = [owner |-> s.owner, sts |-> s.sts]
    /\ s.sts = [f \in DOMAIN s.sts |-> s.sts[f]] /\ "name" \in DOMAIN s.sts
    /\ s.owner \in Keys /\ Present(s.owner)
    /\ s.sts.name = GetStatefulsetName(lrps[s.owner][1])

NamesApart == \A s, t \in stss : s.sts.name = t.sts.name => s = t

Owned == LrpsStored /\ (\A s \in stss : Named(s)) /\ NamesApart

(* What the webhook lets through does not move an LRP to another name. *)
LEMMA AdmittedChangeKeepsName ==
    ASSUME NEW old, NEW new, ChangeAdmitted(new, old),
           {"guid", "version", "appName", "spaceName"} \subseteq DOMAIN old
    PROVE  GetStatefulsetName(new) = GetStatefulsetName(old)
<1>1. \A f \in {"guid", "version", "appName", "spaceName"} : new[f] = old[f]
  BY DEF ChangeAdmitted, CompareLRPSpecs, lrpMutableFields
<1>2. /\ new.guid = old.guid /\ new.version = old.version
      /\ new.appName = old.appName /\ new.spaceName = old.spaceName
  BY <1>1
<1> QED BY <1>2 DEF GetStatefulsetName, NamePrefix, ProcessGuid

(* The Updater leaves the name alone. *)
LEMMA UpdateKeepsName ==
    ASSUME NEW sts, NEW lrp, sts = [f \in DOMAIN sts |-> sts[f]], "name" \in DOMAIN sts
    PROVE  /\ UpdatedStatefulSet(sts, lrp) = [f \in DOMAIN sts |-> UpdatedStatefulSet(sts, lrp)[f]]
           /\ DOMAIN UpdatedStatefulSet(sts, lrp) = DOMAIN sts
           /\ UpdatedStatefulSet(sts, lrp).name = sts.name
BY DEF UpdatedStatefulSet

(* Convert gives a StatefulSet the name it is asked for. *)
LEMMA ConvertNames ==
    ASSUME NEW name, NEW lrp, NEW secret, NEW sts \in Convert(name, lrp, secret)
    PROVE  sts.name = name /\ sts = [f \in DOMAIN sts |-> sts[f]] /\ "name" \in DOMAIN sts
BY DEF Convert

LEMMA OwnedStep ==
    ASSUME Owned, [Next]_vars
    PROVE  Owned'
<1>1. ASSUME NEW k \in Keys, UserCreates(k) PROVE Owned'
  <2>1. PICK spec \in Specs[k] : lrps' = [lrps EXCEPT ![k] = <<spec>>]
    BY <1>1 DEF UserCreates
  <2>2. LrpsStored'
    BY <2>1 DEF Owned, LrpsStored
  <2>3. ASSUME NEW s \in stss PROVE Named(s)'
    <3>1. s.owner # k
      BY <1>1 DEF Owned, Named, UserCreates, Present
    <3> QED BY <2>1, <3>1 DEF Owned, Named, LrpsStored, Present
  <2> QED BY <1>1, <2>2, <2>3 DEF UserCreates, Owned, NamesApart
<1>2. ASSUME NEW k \in Keys, UserEdits(k) PROVE Owned'
  <2>1. PICK spec \in Specs[k] : /\ ChangeAdmitted(spec, lrps[k][1])
                                 /\ lrps' = [lrps EXCEPT ![k] = <<spec>>]
    BY <1>2 DEF UserEdits
  <2>2. LrpsStored'
    BY <2>1 DEF Owned, LrpsStored
  <2>3. lrps[k][1] \in Specs[k]
    BY <1>2 DEF Owned, LrpsStored, UserEdits, Present
  <2>4. GetStatefulsetName(spec) = GetStatefulsetName(lrps[k][1])
    BY <2>1, <2>3, SpecsAssumption, AdmittedChangeKeepsName
  <2>5. ASSUME NEW s \in stss PROVE Named(s)'
    <3>1. lrps'[s.owner] # <<>> /\ GetStatefulsetName(lrps'[s.owner][1]) = s.sts.name
      <4>1. CASE s.owner = k
        BY <2>1, <2>4, <4>1 DEF Owned, Named, LrpsStored
      <4>2. CASE s.owner # k
        BY <2>1, <4>2 DEF Owned, Named, LrpsStored, Present
      <4> QED BY <4>1, <4>2
    <3> QED BY <3>1 DEF Owned, Named, Present
  <2> QED BY <1>2, <2>2, <2>5 DEF UserEdits, Owned, NamesApart
<1>3. ASSUME NEW k \in Keys, Desire(k) PROVE Owned'
  <2> DEFINE name == GetStatefulsetName(lrps[k][1])
  <2>1. PICK sts \in Convert(name, lrps[k][1], RegistrySecretOf(lrps[k][1])) :
          stss' = stss \cup {[owner |-> k, sts |-> sts]}
    BY <1>3 DEF Desire
  <2>2. sts.name = name /\ sts = [f \in DOMAIN sts |-> sts[f]] /\ "name" \in DOMAIN sts
    BY ConvertNames
  <2>3. \A s \in stss : s.sts.name # name
    BY <1>3 DEF Desire
  <2>4. lrps' = lrps /\ Present(k)
    BY <1>3 DEF Desire
  <2>5. Named([owner |-> k, sts |-> sts])'
    BY <2>2, <2>4 DEF Named, Present
  <2>6. \A s \in stss : Named(s)'
    BY <2>4 DEF Owned, Named, Present
  <2>7. NamesApart'
    BY <2>1, <2>2, <2>3 DEF Owned, NamesApart
  <2> QED BY <2>1, <2>4, <2>5, <2>6, <2>7 DEF Owned, LrpsStored
<1>4. ASSUME NEW k \in Keys, Update(k) PROVE Owned'
  <2>1. PICK s \in stss :
          stss' = (stss \ {s}) \cup {[s EXCEPT !.sts = UpdatedStatefulSet(s.sts, lrps[k][1])]}
    BY <1>4 DEF Update
  <2> DEFINE new == [s EXCEPT !.sts = UpdatedStatefulSet(s.sts, lrps[k][1])]
  <2>2. lrps' = lrps
    BY <1>4 DEF Update
  <2>3. Named(s)
    BY DEF Owned
  <2>4. new = [owner |-> s.owner, sts |-> UpdatedStatefulSet(s.sts, lrps[k][1])]
    BY <2>3 DEF Named
  <2>5. new.sts.name = s.sts.name /\ "name" \in DOMAIN new.sts /\ new.sts = [f \in DOMAIN new.sts |-> new.sts[f]]
    BY <2>3, <2>4, UpdateKeepsName DEF Named
  <2>6. new = [owner |-> new.owner, sts |-> new.sts] /\ new.owner = s.owner
    BY <2>4
  <2>7. Named(new)'
    BY <2>2, <2>3, <2>5, <2>6 DEF Named, Present
  <2>8. \A t \in stss : Named(t)'
    BY <2>2 DEF Owned, Named, Present
  <2>9. NamesApart'
    <3>1. \A t \in stss \ {s} : t.sts.name # new.sts.name
      BY <2>5 DEF Owned, NamesApart
    <3>2. stss' = (stss \ {s}) \cup {new}
      BY <2>1
    <3> HIDE DEF new
    <3> QED BY <3>1, <3>2 DEF Owned, NamesApart
  <2> QED BY <2>1, <2>2, <2>7, <2>8, <2>9 DEF Owned, LrpsStored
<1>5. UNCHANGED <<lrps, stss>> => Owned'
  BY DEF Owned, LrpsStored, Named, NamesApart, Present
<1>6. CASE \/ \E s \in stss : PodStarts(s)
           \/ PodStops
           \/ \E task \in TaskSpecs : TaskRuns(task)
           \/ UNCHANGED vars
  BY <1>5, <1>6 DEF PodStarts, PodStops, TaskRuns, vars
<1> QED
  <2>1. CASE \E k \in Keys : UserCreates(k) \/ UserEdits(k) \/ Desire(k) \/ Update(k)
    BY <1>1, <1>2, <1>3, <1>4, <2>1
  <2> QED BY <1>6, <2>1 DEF Next

(* A StatefulSet's name tells the GUID and version of its LRP. *)
LEMMA NameTellsProcess ==
    ASSUME NEW k1 \in Keys, NEW k2 \in Keys, NEW l1 \in Specs[k1], NEW l2 \in Specs[k2],
           GetStatefulsetName(l1) = GetStatefulsetName(l2)
    PROVE  ProcessGuid(l1) = ProcessGuid(l2)
<1>1. ASSUME NEW k \in Keys, NEW lrp \in Specs[k]
      PROVE  GetStatefulsetName(lrp)[Len(GetStatefulsetName(lrp))] = Hash(ProcessGuid(lrp))[1]
  <2> DEFINE prefix == NamePrefix(lrp)
             hash == Hash(ProcessGuid(lrp))
  <2>1. \E S : prefix \in Seq(S)
    <3> DEFINE name == lrp.appName \o Dash \o lrp.spaceName
               S == STRING \cup {"-"}
               T == S \cup {Lowered(c) : c \in S}
    <3>1. lrp.appName \in Seq(S) /\ lrp.spaceName \in Seq(S) /\ lrp.guid \in Seq(T) /\ Dash \in Seq(S)
      BY NamesAssumption, SeqMonotonic DEF Dash
    <3>2. name \in Seq(S)
      BY <3>1
    <3>3. [i \in DOMAIN name |-> Lowered(name[i])] \in Seq(T)
      <4>1. DOMAIN name = 1 .. Len(name) /\ Len(name) \in Nat /\ \A i \in 1 .. Len(name) : name[i] \in S
        <5> HIDE DEF name, S
        <5> QED BY <3>2, LenProperties, ElementOfSeq
      <4>2. \A i \in 1 .. Len(name) : Lowered(name[i]) \in T
        BY <4>1
      <4> HIDE DEF name, T
      <4> QED BY <4>1, <4>2
    <3>4. \A str \in Seq(T) : TruncateString(str, SanitizedNameMaxLen) \in Seq(T)
      BY LengthsAssumption DEF TruncateString
    <3> QED BY <3>1, <3>3, <3>4 DEF NamePrefix, SanitizeName
  <2>2. PICK S : prefix \in Seq(S)
    BY <2>1
  <2>3. PICK hashed : hash = <<hashed>>
    BY DEF Hash
  <2> DEFINE T == S \cup {"-", hashed}
  <2>4. prefix \in Seq(T) /\ Dash \in Seq(T) /\ <<hashed>> \in Seq(T) /\ Len(Dash) = 1
    BY <2>2, SeqMonotonic DEF Dash
  <2> HIDE DEF T, prefix, hash
  <2>5. GetStatefulsetName(lrp) = prefix \o Dash \o <<hashed>>
    BY <2>3 DEF GetStatefulsetName, prefix, hash
  <2>6. prefix \o Dash \in Seq(T) /\ Len(prefix \o Dash) \in Nat
    BY <2>4, ConcatProperties, LenProperties
  <2>7. (prefix \o Dash \o <<hashed>>)[Len(prefix \o Dash \o <<hashed>>)] = hashed
    BY <2>4, <2>6, ConcatProperties
  <2> QED BY <2>3, <2>5, <2>7 DEF hash
<1>2. Hash(ProcessGuid(l1)) = <<Hash(ProcessGuid(l1))[1]>> /\ Hash(ProcessGuid(l2)) = <<Hash(ProcessGuid(l2))[1]>>
  BY DEF Hash
<1>3. Hash(ProcessGuid(l1))[1] = Hash(ProcessGuid(l2))[1]
  BY <1>1
<1>4. Hash(ProcessGuid(l1)) = Hash(ProcessGuid(l2))
  BY <1>2, <1>3
<1> QED BY <1>4, HashAssumption

(* However its LRP is edited, a StatefulSet stays the only one of its LRP and *)
(* keeps the name the controller looks it up by; no LRP of another GUID or    *)
(* version finds it there (GetStatefulsetName, Handle of the validating       *)
(* webhook).                                                                  *)
THEOREM OneStatefulSet == Spec => []OneStatefulSetPerLrp
<1>1. Init => Owned
  BY DEF Init, Owned, LrpsStored, NamesApart
<1>2. Owned /\ [Next]_vars => Owned'
  BY OwnedStep
<1>3. Owned => OneStatefulSetPerLrp
  <2>1. ASSUME Owned, NEW s \in stss PROVE s.sts.name = GetStatefulsetName(lrps[s.owner][1])
    BY <2>1 DEF Owned, Named
  <2>2. ASSUME Owned, NEW s \in stss, NEW t \in stss, s.owner = t.owner PROVE s = t
    <3>1. s.sts.name = t.sts.name
      BY <2>1, <2>2, Zenon
    <3> QED BY <2>2, <3>1 DEF Owned, NamesApart
  <2>3. ASSUME Owned, NEW s \in stss, NEW k \in Keys, Present(k),
               s.sts.name = GetStatefulsetName(lrps[k][1])
        PROVE  ProcessGuid(lrps[s.owner][1]) = ProcessGuid(lrps[k][1])
    <3>1. s.owner \in Keys /\ Present(s.owner)
      BY <2>3 DEF Owned, Named
    <3>2. lrps[s.owner][1] \in Specs[s.owner] /\ lrps[k][1] \in Specs[k]
      BY <2>3, <3>1 DEF Owned, LrpsStored, Present
    <3>3. GetStatefulsetName(lrps[s.owner][1]) = GetStatefulsetName(lrps[k][1])
      BY <2>1, <2>3, Zenon
    <3> QED BY <2>3, <3>1, <3>2, <3>3, NameTellsProcess
  <2> QED BY <2>1, <2>2, <2>3 DEF OneStatefulSetPerLrp
<1> QED BY <1>1, <1>2, <1>3, PTL DEF Spec

-----------------------------------------------------------------------------
(* Budgets *)

(* No two LRPs have the same GUID and version, nor the same StatefulSet name. *)
LrpsApart ==
    \A k1, k2 \in Keys : \A s1 \in Specs[k1], s2 \in Specs[k2] :
        \/ s1.guid = s2.guid /\ s1.version = s2.version
        \/ GetStatefulsetName(s1) = GetStatefulsetName(s2)
        => k1 = k2

(* The labels a selector looks at are those of the LRP. *)
LabelledFor(labels, lrp) ==
    /\ {"guid", "version", "sourceType"} \subseteq DOMAIN labels
    /\ labels.guid = lrp.guid /\ labels.version = lrp.version /\ labels.sourceType = "APP"

(* The pods of a StatefulSet bear its labels, which the Updater keeps; its     *)
(* budget selects by the GUID and version of its owner, which the webhook      *)
(* keeps.                                                                      *)
Labelled(s) ==
    /\ "template" \in DOMAIN s.sts /\ s.sts.template = [f \in DOMAIN s.sts.template |-> s.sts.template[f]]
    /\ "labels" \in DOMAIN s.sts.template
    /\ LabelledFor(s.sts.template.labels, lrps[s.owner][1])
Selecting(b) ==
    \E s \in stss : /\ b.budget.name = s.sts.name
                    /\ b.budget.selector = StatefulSetLabelSelector(lrps[s.owner][1])
Admitted(p) ==
    \/ p.labels.sourceType = "TASK"
    \/ \E s \in stss : p.of = s.sts.name /\ LabelledFor(p.labels, lrps[s.owner][1])

BudgetsFit == /\ \A s \in stss : Labelled(s)
              /\ \A b \in pdbs : Selecting(b)
              /\ \A p \in pods : Admitted(p)

(* What decides which pods a budget selects stays with an LRP. *)
LEMMA AdmittedChangeKeepsLabels ==
    ASSUME NEW old, NEW new, ChangeAdmitted(new, old), {"guid", "version"} \subseteq DOMAIN old
    PROVE  /\ new.guid = old.guid /\ new.version = old.version
           /\ StatefulSetLabelSelector(new) = StatefulSetLabelSelector(old)
           /\ \A labels : LabelledFor(labels, old) => LabelledFor(labels, new)
<1>1. \A f \in {"guid", "version"} : new[f] = old[f]
  BY DEF ChangeAdmitted, CompareLRPSpecs, lrpMutableFields
<1>2. new.guid = old.guid /\ new.version = old.version
  BY <1>1
<1> QED BY <1>2 DEF StatefulSetLabelSelector, LabelledFor

LEMMA ConvertLabels ==
    ASSUME NEW name, NEW lrp, NEW secret, NEW sts \in Convert(name, lrp, secret)
    PROVE  /\ "template" \in DOMAIN sts /\ sts.template = [f \in DOMAIN sts.template |-> sts.template[f]]
           /\ "labels" \in DOMAIN sts.template
           /\ LabelledFor(sts.template.labels, lrp)
<1>1. LabelledFor(Labels(lrp), lrp)
  BY DEF LabelledFor, Labels
<1>2. /\ "template" \in DOMAIN sts /\ sts.template = [f \in DOMAIN sts.template |-> sts.template[f]]
      /\ "labels" \in DOMAIN sts.template /\ sts.template.labels = Labels(lrp)
  BY DEF Convert
<1> QED BY <1>1, <1>2

LEMMA UpdateKeepsLabels ==
    ASSUME NEW sts, NEW lrp, sts = [f \in DOMAIN sts |-> sts[f]], "template" \in DOMAIN sts,
           sts.template = [f \in DOMAIN sts.template |-> sts.template[f]], "labels" \in DOMAIN sts.template
    PROVE  LET new == UpdatedStatefulSet(sts, lrp)
           IN  /\ "template" \in DOMAIN new /\ new.template = [f \in DOMAIN new.template |-> new.template[f]]
               /\ "labels" \in DOMAIN new.template /\ new.template.labels = sts.template.labels
BY DEF UpdatedStatefulSet

(* The webhook leaves all but the containers of a pod alone. *)
LEMMA InjectionKeepsLabels ==
    ASSUME NEW name, NEW of, NEW ordinal, NEW labels, NEW containers
    PROVE  LET pod == [name |-> name, of |-> of, ordinal |-> ordinal, labels |-> labels,
                       containers |-> containers]
           IN  InjectedInstanceIndex(pod).of = of /\ InjectedInstanceIndex(pod).labels = labels
BY DEF InjectedInstanceIndex

LEMMA TaskLabelled ==
    ASSUME NEW task, NEW job \in ConvertTask(task)
    PROVE  job.template.labels.sourceType = "TASK"
BY DEF ConvertTask, TaskLabels

(* A budget that is made is that of the StatefulSet it is made for. *)
LEMMA BudgetMade ==
    ASSUME NEW sts, NEW k, BudgetUpdated(sts, k), NEW b \in pdbs'
    PROVE  \/ b \in pdbs
           \/ /\ b.budget.name = sts.name
              /\ b.budget.selector = StatefulSetLabelSelector(lrps[k][1])
<1>1. b \in pdbs \/ b = [owner |-> k, budget |-> Budget(sts, lrps[k][1])]
  BY DEF BudgetUpdated
<1> QED BY <1>1 DEF Budget

LEMMA BudgetsStep ==
    ASSUME LrpsApart, Owned, Owned', BudgetsFit, [Next]_vars
    PROVE  BudgetsFit'
<1>a. \A k \in Keys : Present(k) => lrps[k][1] \in Specs[k]
  BY DEF Owned, LrpsStored, Present
<1>b. \A s \in stss : Named(s) /\ s.owner \in Keys /\ Present(s.owner)
  BY DEF Owned, Named
<1>c. ASSUME UNCHANGED <<stss, pdbs, pods>>,
             \A s \in stss : /\ \A labels : LabelledFor(labels, lrps[s.owner][1])
                                               => LabelledFor(labels, lrps'[s.owner][1])
                             /\ StatefulSetLabelSelector(lrps'[s.owner][1])
                                  = StatefulSetLabelSelector(lrps[s.owner][1])
      PROVE  BudgetsFit'
  <2>1. \A s \in stss : Labelled(s)'
    BY <1>c DEF BudgetsFit, Labelled
  <2>2. \A b \in pdbs : Selecting(b)'
    BY <1>c DEF BudgetsFit, Selecting
  <2>3. \A p \in pods : Admitted(p)'
    BY <1>c DEF BudgetsFit, Admitted
  <2> QED BY <1>c, <2>1, <2>2, <2>3 DEF BudgetsFit
<1>1. ASSUME NEW k \in Keys, UserCreates(k) PROVE BudgetsFit'
  <2>1. \A s \in stss : lrps'[s.owner] = lrps[s.owner]
    <3>1. PICK spec \in Specs[k] : lrps' = [lrps EXCEPT ![k] = <<spec>>]
      BY <1>1 DEF UserCreates
    <3> QED BY <1>1, <1>b, <3>1 DEF UserCreates, Owned, LrpsStored
  <2> QED BY <1>1, <1>c, <2>1 DEF UserCreates
<1>2. ASSUME NEW k \in Keys, UserEdits(k) PROVE BudgetsFit'
  <2>1. PICK spec \in Specs[k] : /\ ChangeAdmitted(spec, lrps[k][1])
                                 /\ lrps' = [lrps EXCEPT ![k] = <<spec>>]
    BY <1>2 DEF UserEdits
  <2>2. {"guid", "version"} \subseteq DOMAIN lrps[k][1]
    BY <1>2, <1>a, SpecsAssumption DEF UserEdits
  <2>3. /\ StatefulSetLabelSelector(spec) = StatefulSetLabelSelector(lrps[k][1])
        /\ \A labels : LabelledFor(labels, lrps[k][1]) => LabelledFor(labels, spec)
    BY <2>1, <2>2, AdmittedChangeKeepsLabels
  <2>4. lrps'[k][1] = spec /\ \A n \in Keys \ {k} : lrps'[n] = lrps[n]
    BY <2>1 DEF Owned, LrpsStored
  <2>5. UNCHANGED <<stss, pdbs, pods>>
    BY <1>2 DEF UserEdits
  <2>6. \A s \in stss : /\ \A labels : LabelledFor(labels, lrps[s.owner][1])
                                          => LabelledFor(labels, lrps'[s.owner][1])
                        /\ StatefulSetLabelSelector(lrps'[s.owner][1])
                             = StatefulSetLabelSelector(lrps[s.owner][1])
    <3> TAKE s \in stss
    <3>1. CASE s.owner = k
      BY <2>3, <2>4, <3>1
    <3>2. CASE s.owner # k
      <4>1. lrps'[s.owner] = lrps[s.owner]
        BY <1>b, <2>4, <3>2
      <4> QED BY <4>1
    <3> QED BY <3>1, <3>2
  <2> QED BY <1>c, <2>5, <2>6
<1>3. ASSUME NEW k \in Keys, Desire(k) PROVE BudgetsFit'
  <2> DEFINE lrp == lrps[k][1]
             name == GetStatefulsetName(lrp)
  <2>1. PICK sts \in Convert(name, lrp, RegistrySecretOf(lrp)) :
          stss' = stss \cup {[owner |-> k, sts |-> sts]} /\ BudgetUpdated(sts, k)
    BY <1>3 DEF Desire
  <2>2. lrps' = lrps /\ pods' = pods
    BY <1>3 DEF Desire
  <2>3. PICK new : new = [owner |-> k, sts |-> sts]
    OBVIOUS
  <2>4. /\ "template" \in DOMAIN sts /\ sts.template = [f \in DOMAIN sts.template |-> sts.template[f]]
        /\ "labels" \in DOMAIN sts.template
        /\ LabelledFor(sts.template.labels, lrp)
    BY <2>1, ConvertLabels
  <2>5. new.owner = k /\ new.sts = sts /\ stss' = stss \cup {new}
    BY <2>1, <2>3
  <2>6. \A s \in stss' : Labelled(s)'
    BY <2>2, <2>4, <2>5 DEF BudgetsFit, Labelled
  <2>7. \A b \in pdbs' : Selecting(b)'
    <3> TAKE b \in pdbs'
    <3>1. CASE b \in pdbs
      BY <2>2, <2>5, <3>1 DEF BudgetsFit, Selecting
    <3>2. CASE b.budget.name = sts.name /\ b.budget.selector = StatefulSetLabelSelector(lrp)
      BY <2>2, <2>5, <3>2 DEF Selecting
    <3> QED BY <2>1, <3>1, <3>2, BudgetMade
  <2>8. \A p \in pods' : Admitted(p)'
    BY <2>2, <2>5 DEF BudgetsFit, Admitted
  <2> QED BY <2>6, <2>7, <2>8 DEF BudgetsFit
<1>4. ASSUME NEW k \in Keys, Update(k) PROVE BudgetsFit'
  <2> DEFINE lrp == lrps[k][1]
  <2>1. PICK s \in stss :
          /\ s.sts.name = GetStatefulsetName(lrp)
          /\ stss' = (stss \ {s}) \cup {[s EXCEPT !.sts = UpdatedStatefulSet(s.sts, lrp)]}
          /\ pdbs' = pdbs \/ BudgetUpdated(s.sts, k)
    BY <1>4 DEF Update
  <2>2. lrps' = lrps /\ pods' = pods /\ Present(k)
    BY <1>4 DEF Update
  <2>3. Named(s) /\ Labelled(s)
    BY <1>b DEF BudgetsFit
  <2>4. s.owner = k
    <3>1. s.owner \in Keys /\ lrps[s.owner][1] \in Specs[s.owner] /\ lrp \in Specs[k]
      BY <1>a, <1>b, <2>2
    <3>2. GetStatefulsetName(lrps[s.owner][1]) = GetStatefulsetName(lrp)
      BY <2>1, <2>3 DEF Named
    <3> QED BY <3>1, <3>2 DEF LrpsApart
  <2>5. PICK new : new = [owner |-> k, sts |-> UpdatedStatefulSet(s.sts, lrp)]
    OBVIOUS
  <2>6. stss' = (stss \ {s}) \cup {new}
    BY <2>1, <2>3, <2>4, <2>5 DEF Named
  <2>7. /\ new.owner = k /\ new.sts.name = s.sts.name
        /\ "template" \in DOMAIN new.sts
        /\ new.sts.template = [f \in DOMAIN new.sts.template |-> new.sts.template[f]]
        /\ "labels" \in DOMAIN new.sts.template
        /\ new.sts.template.labels = s.sts.template.labels
    BY <2>3, <2>5, UpdateKeepsName, UpdateKeepsLabels DEF Named, Labelled
  <2>8. \A t \in stss : \E u \in stss' : u.owner = t.owner /\ u.sts.name = t.sts.name
    BY <2>4, <2>6, <2>7
  <2>9. \A t \in stss' : Labelled(t)'
    BY <2>2, <2>3, <2>4, <2>6, <2>7 DEF BudgetsFit, Labelled
  <2>10. \A b \in pdbs' : Selecting(b)'
    <3> TAKE b \in pdbs'
    <3>1. CASE b \in pdbs
      <4>1. PICK t \in stss : /\ b.budget.name = t.sts.name
                              /\ b.budget.selector = StatefulSetLabelSelector(lrps[t.owner][1])
        BY <3>1 DEF BudgetsFit, Selecting
      <4>2. PICK u \in stss' : u.owner = t.owner /\ u.sts.name = t.sts.name
        BY <2>8
      <4> QED BY <2>2, <4>1, <4>2 DEF Selecting
    <3>2. CASE b.budget.name = s.sts.name /\ b.budget.selector = StatefulSetLabelSelector(lrp)
      BY <2>2, <2>6, <2>7, <3>2 DEF Selecting
    <3> QED BY <2>1, <3>1, <3>2, BudgetMade
  <2>11. \A p \in pods' : Admitted(p)'
    <3> TAKE p \in pods'
    <3>1. CASE p.labels.sourceType = "TASK"
      BY <3>1 DEF Admitted
    <3>2. ASSUME NEW t \in stss, p.of = t.sts.name, LabelledFor(p.labels, lrps[t.owner][1])
          PROVE  Admitted(p)'
      <4>1. PICK u \in stss' : u.owner = t.owner /\ u.sts.name = t.sts.name
        BY <2>8
      <4> QED BY <2>2, <3>2, <4>1 DEF Admitted
    <3> QED BY <2>2, <3>1, <3>2 DEF BudgetsFit, Admitted
  <2> QED BY <2>9, <2>10, <2>11 DEF BudgetsFit
<1>5. ASSUME NEW s \in stss, PodStarts(s) PROVE BudgetsFit'
  <2>1. UNCHANGED <<lrps, stss, pdbs>>
    BY <1>5 DEF PodStarts
  <2>2. PICK ordinal \in 0 .. MaxOrdinal :
          LET pod == [name |-> s.sts.name \o Dash \o Decimal(ordinal), of |-> s.sts.name,
                      ordinal |-> ordinal, labels |-> s.sts.template.labels,
                      containers |-> s.sts.template.containers]
          IN  pods' = pods \cup {InjectedInstanceIndex(pod)}
    BY <1>5 DEF PodStarts
  <2>3. PICK new : /\ pods' = pods \cup {new}
                   /\ new.of = s.sts.name /\ new.labels = s.sts.template.labels
    BY <2>2, InjectionKeepsLabels
  <2>4. Admitted(new)'
    BY <2>1, <2>3 DEF Admitted, BudgetsFit, Labelled
  <2>5. \A p \in pods : Admitted(p)'
    BY <2>1 DEF Admitted, BudgetsFit
  <2> QED BY <2>1, <2>3, <2>4, <2>5 DEF BudgetsFit, Labelled, Selecting
<1>6. ASSUME NEW task \in TaskSpecs, TaskRuns(task) PROVE BudgetsFit'
  <2>1. UNCHANGED <<lrps, stss, pdbs>>
    BY <1>6 DEF TaskRuns
  <2>2. PICK job \in ConvertTask(task) :
          pods' = pods \cup {[name |-> job.name \o Dash \o <<"x">>, of |-> job.name, ordinal |-> 0,
                              labels |-> job.template.labels, containers |-> job.template.containers]}
    BY <1>6 DEF TaskRuns
  <2>3. PICK new : new = [name |-> job.name \o Dash \o <<"x">>, of |-> job.name, ordinal |-> 0,
                          labels |-> job.template.labels, containers |-> job.template.containers]
    OBVIOUS
  <2>4. new.labels = job.template.labels
    BY <2>3
  <2>5. pods' = pods \cup {new}
    BY <2>2, <2>3, Zenon
  <2>6. Admitted(new)'
    BY <2>4, TaskLabelled DEF Admitted
  <2>7. \A p \in pods : Admitted(p)'
    BY <2>1 DEF Admitted, BudgetsFit
  <2> QED BY <2>1, <2>5, <2>6, <2>7 DEF BudgetsFit, Labelled, Selecting
<1>7. CASE PodStops \/ UNCHANGED vars
  <2>1. UNCHANGED <<lrps, stss, pdbs>> /\ pods' \subseteq pods
    BY <1>7 DEF PodStops, vars
  <2> QED BY <2>1 DEF BudgetsFit, Labelled, Selecting, Admitted
<1> QED
  <2>1. CASE \E k \in Keys : UserCreates(k) \/ UserEdits(k) \/ Desire(k) \/ Update(k)
    BY <1>1, <1>2, <1>3, <1>4, <2>1
  <2> QED BY <1>5, <1>6, <1>7, <2>1 DEF Next

(* The budget of a StatefulSet counts the pods of that StatefulSet and of no   *)
(* other, however LRPs are edited and updated, as long as no two of them have  *)
(* the same GUID and version or the same name: the selector is the GUID and    *)
(* version of the LRP, which the webhook keeps and the pods bear               *)
(* (StatefulSetLabelSelector, lrpMutableFields).                               *)
THEOREM BudgetsSelectTheirPods == LrpsApart => (Spec => []PdbSelectsOwnPods)
<1> SUFFICES ASSUME LrpsApart PROVE Spec => []PdbSelectsOwnPods
  OBVIOUS
<1>1. Init => Owned /\ BudgetsFit
  BY DEF Init, Owned, LrpsStored, NamesApart, BudgetsFit
<1>2. Owned /\ BudgetsFit /\ [Next]_vars => (Owned /\ BudgetsFit)'
  BY OwnedStep, BudgetsStep
<1>3. Owned /\ BudgetsFit => PdbSelectsOwnPods
  <2> SUFFICES ASSUME Owned, BudgetsFit, NEW b \in pdbs, NEW p \in pods
               PROVE  Selects(b.budget.selector, p.labels) <=> OfApp(p) /\ p.of = b.budget.name
    BY DEF PdbSelectsOwnPods
  <2>1. PICK s \in stss : /\ b.budget.name = s.sts.name
                          /\ b.budget.selector = StatefulSetLabelSelector(lrps[s.owner][1])
    BY DEF BudgetsFit, Selecting
  <2> DEFINE lrp == lrps[s.owner][1]
  <2>2. Selects(b.budget.selector, p.labels)
          => p.labels.guid = lrp.guid /\ p.labels.version = lrp.version /\ p.labels.sourceType = "APP"
    BY <2>1 DEF Selects, StatefulSetLabelSelector
  <2>3. LabelledFor(p.labels, lrp) => Selects(b.budget.selector, p.labels) /\ OfApp(p)
    BY <2>1 DEF Selects, StatefulSetLabelSelector, LabelledFor, OfApp
  <2>4. CASE p.labels.sourceType = "TASK"
    BY <2>2, <2>4 DEF OfApp
  <2>5. ASSUME NEW t \in stss, p.of = t.sts.name, LabelledFor(p.labels, lrps[t.owner][1])
        PROVE  Selects(b.budget.selector, p.labels) <=> OfApp(p) /\ p.of = b.budget.name
    <3>1. Named(s) /\ Named(t)
      BY <2>5 DEF Owned
    <3>2. /\ s.owner \in Keys /\ t.owner \in Keys
          /\ lrps[s.owner][1] \in Specs[s.owner] /\ lrps[t.owner][1] \in Specs[t.owner]
      BY <3>1 DEF Named, Owned, LrpsStored, Present
    <3>3. Selects(b.budget.selector, p.labels) => s.owner = t.owner
      BY <2>2, <2>5, <3>2 DEF LabelledFor, LrpsApart
    <3>4. s.owner = t.owner => s.sts.name = t.sts.name
      BY <3>1, Zenon DEF Named
    <3>5. s.sts.name = t.sts.name => s = t
      BY <2>5 DEF Owned, NamesApart
    <3>6. CASE s = t
      <4>1. Selects(b.budget.selector, p.labels) /\ OfApp(p)
        BY <2>3, <2>5, <3>6
      <4> QED BY <2>1, <2>5, <3>6, <4>1
    <3>7. CASE s # t
      <4>1. ~Selects(b.budget.selector, p.labels)
        BY <3>3, <3>4, <3>5, <3>7
      <4>2. p.of # b.budget.name
        BY <2>1, <2>5, <3>5, <3>7
      <4> QED BY <4>1, <4>2
    <3> QED BY <3>6, <3>7
  <2> QED BY <2>4, <2>5 DEF BudgetsFit, Admitted
<1> QED BY <1>1, <1>2, <1>3, PTL DEF Spec

=============================================================================
