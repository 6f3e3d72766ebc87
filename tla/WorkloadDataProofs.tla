-------------------------- MODULE WorkloadDataProofs --------------------------
(***************************************************************************)
(* What is in the objects, for all names, lengths, environments, sidecars, *)
(* ordinals and edits: the names the API server takes, the environment an  *)
(* instance finds, the StatefulSet an edited LRP keeps.  Three arguments:  *)
(* what sanitizeName cuts is valid but for its end; what the converters    *)
(* put into a first container stays last in it; what the webhook keeps is  *)
(* all that is in a StatefulSet but replicas and images.                   *)
(***************************************************************************)
EXTENDS WorkloadProofs, FiniteSetTheorems

(* Characters, and names made of them *)
Characters == STRING \cup {"-", "a", "b", "s"}

(* A name is made of characters.                                              *)
LEMMA NameTypes == \A name \in Seq(STRING) : name \in Seq(Characters)
BY SeqMonotonic DEF Characters

(* What a valid name looks like up to a place where it may be cut. *)
ValidStart(name) ==
    /\ name # <<>> /\ Alphanumeric(name[1])
    /\ \A i \in 1 .. Len(name) : Alphanumeric(name[i]) \/ name[i] \in {"-", "."}
    /\ \A i \in 1 .. Len(name) : name[i] = "." => i > 1 /\ Alphanumeric(name[i - 1])
    /\ \A i \in 1 .. Len(name) : name[i] = "." /\ i < Len(name) => Alphanumeric(name[i + 1])

(* A dash and a dot are no letters.                                           *)
LEMMA SpecialCharacters == ~Alphanumeric("-") /\ ~Alphanumeric(".")
BY DEF Alphanumeric, Special

(* A valid name is a valid start that ends in a letter.                       *)
LEMMA ValidNames ==
    ASSUME NEW S, NEW name \in Seq(S)
    PROVE  ValidName(name) <=> ValidStart(name) /\ Alphanumeric(name[Len(name)])
<1>1. /\ DOMAIN name = 1 .. Len(name) /\ Len(name) \in Nat
      /\ name # <<>> <=> Len(name) # 0
  BY LenProperties, EmptySeq
<1>2. ASSUME ValidName(name)
      PROVE  ValidStart(name) /\ Alphanumeric(name[Len(name)])
  <2>1. name # <<>> /\ 1 \in 1 .. Len(name) /\ Len(name) \in 1 .. Len(name)
    BY <1>1, <1>2 DEF ValidName
  <2>2. /\ Alphanumeric(name[1]) /\ Alphanumeric(name[Len(name)])
        /\ \A i \in 1 .. Len(name) : Alphanumeric(name[i]) \/ name[i] \in {"-", "."}
        /\ \A i \in 1 .. Len(name) : name[i] = "." => Alphanumeric(name[i - 1]) /\ Alphanumeric(name[i + 1])
    BY <1>1, <1>2, <2>1 DEF ValidName
  <2>3. \A i \in 1 .. Len(name) : name[i] = "." => i > 1
    BY <2>2, SpecialCharacters
  <2> QED BY <2>1, <2>2, <2>3 DEF ValidStart
<1>3. ASSUME ValidStart(name), Alphanumeric(name[Len(name)])
      PROVE  ValidName(name)
  <2>1. name # <<>>
    BY <1>3 DEF ValidStart
  <2> SUFFICES ASSUME NEW i \in 1 .. Len(name)
               PROVE  /\ Alphanumeric(name[i]) \/ (name[i] \in {"-", "."} /\ i \notin {1, Len(name)})
                      /\ name[i] = "." => Alphanumeric(name[i - 1]) /\ Alphanumeric(name[i + 1])
    BY <1>1, <2>1 DEF ValidName
  <2>2. name[i] = "." => i < Len(name)
    BY <1>1, <1>3, SpecialCharacters
  <2> QED BY <1>3, <2>2 DEF ValidStart
<1> QED BY <1>2, <1>3

(* What sanitizeName cuts *)
LEMMA Sanitized ==
    ASSUME NEW name \in Seq(Characters), NEW fallback \in Seq(Characters), ValidName(fallback), NEW maxLen
    PROVE  \E base \in Seq(Characters) : /\ ValidName(base)
                                         /\ SanitizeName(name, fallback, maxLen) = TruncateString(base, maxLen)
<1> DEFINE sanitized == [i \in DOMAIN name |-> Lowered(name[i])]
<1>1. CASE ValidName(sanitized)
  <2>1. DOMAIN name = 1 .. Len(name) /\ Len(name) \in Nat
    BY LenProperties
  <2>2. \A i \in 1 .. Len(name) : name[i] \in Characters
    BY ElementOfSeq
  <2>3. \A c \in Characters : Lowered(c) \in Characters
    <3> TAKE c \in Characters
    <3>1. CASE c \in {"A", "B", "S"}
      <4>1. DOMAIN LowerCase = {"A", "B", "S"} /\ LowerCase[c] \in {"a", "b", "s"}
        BY <3>1 DEF LowerCase
      <4> QED BY <3>1, <4>1 DEF Lowered, Characters
    <3>2. CASE c \notin {"A", "B", "S"}
      <4>1. DOMAIN LowerCase = {"A", "B", "S"}
        BY DEF LowerCase
      <4> QED BY <3>2, <4>1 DEF Lowered, Characters
    <3> QED BY <3>1, <3>2
  <2>4. sanitized \in [1 .. Len(name) -> Characters]
    BY <2>1, <2>2, <2>3
  <2>5. sanitized \in Seq(Characters)
    BY <2>1, <2>4
  <2> QED BY <1>1, <2>5 DEF SanitizeName
<1>2. CASE ~ValidName(sanitized)
  BY <1>2 DEF SanitizeName
<1> QED BY <1>1, <1>2

(* Where a name is cut *)
LEMMA Truncated ==
    ASSUME NEW base \in Seq(Characters), ValidName(base), NEW maxLen \in Nat \ {0}
    PROVE  LET name == TruncateString(base, maxLen)
           IN  /\ name \in Seq(Characters) /\ ValidStart(name) /\ Len(name) \in 1 .. maxLen
               /\ Alphanumeric(name[Len(name)]) \/ Len(name) = maxLen
<1> DEFINE name == TruncateString(base, maxLen)
<1>1. /\ ValidStart(base) /\ Alphanumeric(base[Len(base)])
      /\ Len(base) \in Nat \ {0}
  BY ValidNames, EmptySeq DEF ValidStart
<1>2. CASE Len(base) <= maxLen
  BY <1>1, <1>2 DEF TruncateString
<1>3. CASE Len(base) > maxLen
  <2>1. name = SubSeq(base, 1, maxLen)
    BY <1>3 DEF TruncateString
  <2>2. \A i \in 1 .. maxLen : base[i] \in Characters
    BY <1>1, <1>3, ElementOfSeq
  <2>3. /\ name \in Seq(Characters) /\ Len(name) = maxLen
        /\ \A i \in 1 .. maxLen : name[i] = base[i]
    BY <2>1, <2>2, SubSeqProperties
  <2> HIDE DEF name
  <2>4. name # <<>>
    BY <2>3, EmptySeq
  <2>5. \A i \in 1 .. maxLen : i \in 1 .. Len(base) /\ i < Len(base)
    BY <1>1, <1>3
  <2>6. \A i \in 1 .. maxLen : /\ Alphanumeric(name[i]) \/ name[i] \in {"-", "."}
                               /\ name[i] = "." => i > 1 /\ Alphanumeric(base[i - 1]) /\ Alphanumeric(base[i + 1])
    BY <1>1, <2>3, <2>5 DEF ValidStart
  <2>7. \A i \in 1 .. maxLen : name[i] = "." => i > 1 /\ Alphanumeric(name[i - 1])
    BY <2>3, <2>6
  <2>8. \A i \in 1 .. maxLen : name[i] = "." /\ i < maxLen => Alphanumeric(name[i + 1])
    BY <2>3, <2>6
  <2>9. Alphanumeric(name[1])
    BY <1>1, <2>3 DEF ValidStart
  <2>10. ValidStart(name) /\ Len(name) \in 1 .. maxLen
    BY <2>3, <2>4, <2>6, <2>7, <2>8, <2>9 DEF ValidStart
  <2> QED BY <2>3, <2>10 DEF name
<1> QED BY <1>1, <1>2, <1>3

(* What is put behind a valid start that is not cut behind a dot *)
LEMMA HashedName ==
    ASSUME NEW start \in Seq(Characters), ValidStart(start), start[Len(start)] # ".",
           NEW hash, Alphanumeric(hash)
    PROVE  ValidName(start \o Dash \o <<hash>>)
<1> DEFINE S == Characters \cup {hash}
           n == Len(start)
           name == start \o Dash \o <<hash>>
<1>1. n \in Nat \ {0}
  BY EmptySeq DEF ValidStart
<1>a. start \in Seq(S) /\ "-" \in S /\ hash \in S
  BY SeqMonotonic DEF Characters
<1> HIDE DEF S
<1>2. Dash \in Seq(S) /\ Len(Dash) = 1 /\ Dash[1] = "-"
  BY <1>a DEF Dash
<1>3. <<hash>> \in Seq(S) /\ Len(<<hash>>) = 1 /\ <<hash>>[1] = hash
  BY <1>a
<1>4. /\ start \o Dash \in Seq(S) /\ Len(start \o Dash) = n + 1
      /\ \A i \in 1 .. (n + 1) : (start \o Dash)[i] = IF i <= n THEN start[i] ELSE Dash[i - n]
  BY <1>a, <1>2, ConcatProperties
<1>5. /\ name \in Seq(S) /\ Len(name) = n + 2
      /\ \A i \in 1 .. (n + 2) : name[i] = IF i <= n + 1 THEN (start \o Dash)[i] ELSE <<hash>>[i - (n + 1)]
  <2>1. Len(start \o Dash) + Len(<<hash>>) = n + 2
    BY <1>1, <1>3, <1>4
  <2> QED BY <1>3, <1>4, <2>1, ConcatProperties
<1>6. (\A i \in 1 .. n : name[i] = start[i]) /\ name[n + 1] = "-" /\ name[n + 2] = hash
  <2>1. \A i \in 1 .. n : name[i] = start[i]
    BY <1>1, <1>4, <1>5
  <2>2. n + 1 \in 1 .. (n + 1) /\ n + 1 \in 1 .. (n + 2) /\ n + 2 \in 1 .. (n + 2)
        /\ (n + 1) - n = 1 /\ (n + 2) - (n + 1) = 1 /\ ~(n + 1 <= n) /\ ~(n + 2 <= n + 1)
    BY <1>1
  <2>3. name[n + 1] = (start \o Dash)[n + 1] /\ (start \o Dash)[n + 1] = Dash[1]
    BY <1>4, <1>5, <2>2
  <2>4. name[n + 2] = <<hash>>[1]
    BY <1>5, <2>2
  <2> QED BY <1>2, <1>3, <2>1, <2>3, <2>4
<1>7. name # <<>>
  BY <1>1, <1>5, EmptySeq
<1> HIDE DEF n, name
<1>8. \A i \in 1 .. (n + 2) : i \in 1 .. n \/ i = n + 1 \/ i = n + 2
  BY <1>1
<1>9. ValidStart(name)
  <2>1. \A i \in 1 .. n : /\ Alphanumeric(name[i]) \/ name[i] \in {"-", "."}
                          /\ name[i] = "." => i > 1 /\ Alphanumeric(start[i - 1])
                          /\ name[i] = "." => i < n /\ Alphanumeric(start[i + 1])
    BY <1>1, <1>6 DEF ValidStart, n
  <2>2. \A i \in 1 .. n : name[i] = "." => /\ i > 1 /\ Alphanumeric(name[i - 1])
                                         /\ Alphanumeric(name[i + 1])
    <3> TAKE i \in 1 .. n
    <3> HAVE name[i] = "."
    <3>1. i > 1 /\ i < n /\ Alphanumeric(start[i - 1]) /\ Alphanumeric(start[i + 1])
      BY <2>1
    <3>2. i - 1 \in 1 .. n /\ i + 1 \in 1 .. n
      BY <1>1, <3>1
    <3> QED BY <1>6, <3>1, <3>2
  <2>3. name[n + 1] # "." /\ name[n + 2] # "."
    BY <1>6, SpecialCharacters
  <2>4. Alphanumeric(name[1])
    BY <1>1, <1>6 DEF ValidStart
  <2> QED BY <1>5, <1>6, <1>7, <1>8, <2>1, <2>2, <2>3, <2>4 DEF ValidStart
<1>10. ValidName(name)
  BY <1>5, <1>6, <1>9, ValidNames
<1> QED BY <1>10 DEF name

(* The prefix of a name, from what an app and its space are called *)
LEMMA Prefix ==
    ASSUME NEW app, app.appName \in Seq(Characters), app.spaceName \in Seq(Characters),
           app.guid \in Seq(Characters), ValidName(app.guid)
    PROVE  LET name == NamePrefix(app)
           IN  /\ name \in Seq(Characters) /\ ValidStart(name) /\ Len(name) \in 1 .. SanitizedNameMaxLen
               /\ Alphanumeric(name[Len(name)]) \/ Len(name) = SanitizedNameMaxLen
<1>1. Dash \in Seq(Characters)
  <2>1. "-" \in Characters
    BY DEF Characters
  <2> QED BY <2>1 DEF Dash
<1>2. app.appName \o Dash \o app.spaceName \in Seq(Characters)
  BY <1>1, ConcatProperties
<1>3. PICK base \in Seq(Characters) :
        ValidName(base) /\ NamePrefix(app) = TruncateString(base, SanitizedNameMaxLen)
  BY <1>2, Sanitized DEF NamePrefix
<1>4. SanitizedNameMaxLen \in Nat \ {0}
  BY LengthsAssumption
<1> QED BY <1>3, <1>4, Truncated

(* The API server takes the names of StatefulSets and Jobs, whatever apps,     *)
(* spaces and Tasks are called, as long as GUIDs are valid names: but for a    *)
(* name that is cut behind a dot or, for a Job, behind a dash, which           *)
(* sanitizeName lets through (GetStatefulsetName, GetJobName).                 *)
THEOREM NamesAreAccepted == Spec => []NamesAccepted
<1>1. Owned => NamesAccepted
  <2>1. ASSUME Owned, NEW k \in Keys, Present(k)
        PROVE  \/ ValidName(GetStatefulsetName(lrps[k][1]))
               \/ CutBehind({"."}, NamePrefix(lrps[k][1]), SanitizedNameMaxLen)
    <3> DEFINE lrp == lrps[k][1]
               prefix == NamePrefix(lrp)
               hash == ToString(ProcessGuid(lrp))
    <3>1. lrp \in Specs[k]
      BY <2>1 DEF Owned, LrpsStored, Present
    <3>2. /\ lrp.guid \in Seq(Characters) /\ lrp.appName \in Seq(Characters)
          /\ lrp.spaceName \in Seq(Characters) /\ ValidName(lrp.guid)
          /\ Alphanumeric(hash)
      BY <3>1, NamesAssumption, NameTypes DEF Hash
    <3> HIDE DEF lrp
    <3>3. /\ prefix \in Seq(Characters) /\ ValidStart(prefix)
          /\ Alphanumeric(prefix[Len(prefix)]) \/ Len(prefix) = SanitizedNameMaxLen
      BY <3>2, Prefix
    <3>4. GetStatefulsetName(lrp) = prefix \o Dash \o <<hash>>
      BY DEF GetStatefulsetName, Hash
    <3> HIDE DEF prefix, hash
    <3>5. prefix[Len(prefix)] = "." => CutBehind({"."}, prefix, SanitizedNameMaxLen)
      BY <3>3, SpecialCharacters DEF CutBehind
    <3>6. prefix[Len(prefix)] # "." => ValidName(GetStatefulsetName(lrp))
      BY <3>2, <3>3, <3>4, HashedName
    <3> QED BY <3>5, <3>6 DEF prefix, lrp
  <2>2. ASSUME NEW task \in TaskSpecs
        PROVE  \/ ValidName(GetJobName(task))
               \/ CutBehind({".", "-"}, GetJobName(task), SanitizedJobNameMaxLen)
    <3> DEFINE name == GetJobName(task)
    <3>1. /\ task.guid \in Seq(Characters) /\ task.name \in Seq(Characters)
          /\ task.appName \in Seq(Characters) /\ task.spaceName \in Seq(Characters)
          /\ ValidName(task.guid)
      BY NamesAssumption, NameTypes
    <3>2. NamePrefix(task) \in Seq(Characters) /\ Dash \in Seq(Characters)
      <4>1. "-" \in Characters
        BY DEF Characters
      <4> QED BY <3>1, <4>1, Prefix DEF Dash
    <3>3. NamePrefix(task) \o Dash \o task.name \in Seq(Characters)
      BY <3>1, <3>2, ConcatProperties
    <3>4. PICK base \in Seq(Characters) :
            ValidName(base) /\ name = TruncateString(base, SanitizedJobNameMaxLen)
      BY <3>1, <3>2, <3>3, Sanitized DEF GetJobName
    <3>5. SanitizedJobNameMaxLen \in Nat \ {0}
      BY LengthsAssumption
    <3>6. /\ name \in Seq(Characters) /\ ValidStart(name) /\ Len(name) \in 1 .. SanitizedJobNameMaxLen
          /\ Alphanumeric(name[Len(name)]) \/ Len(name) = SanitizedJobNameMaxLen
      BY <3>4, <3>5, Truncated
    <3> HIDE DEF name
    <3>7. CASE Alphanumeric(name[Len(name)])
      BY <3>6, <3>7, ValidNames DEF name
    <3>8. CASE ~Alphanumeric(name[Len(name)])
      <4>1. Len(name) = SanitizedJobNameMaxLen /\ name[Len(name)] \in {"-", "."}
        BY <3>6, <3>8 DEF ValidStart
      <4> QED BY <4>1 DEF CutBehind, name
    <3> QED BY <3>7, <3>8
  <2> QED BY <2>1, <2>2 DEF NamesAccepted
<1>2. Init => Owned
  BY DEF Init, Owned, LrpsStored, NamesApart
<1>3. Owned /\ [Next]_vars => Owned'
  BY OwnedStep
<1> QED BY <1>1, <1>2, <1>3, PTL DEF Spec
-----------------------------------------------------------------------------
(* The environment of an instance *)

(* ParseAppIndex reads what the StatefulSet controller has put behind the last *)
(* dash, whatever is in front of it.                                           *)
LEMMA IndexParsed ==
    ASSUME NEW S, NEW name \in Seq(S), NEW n \in 0 .. MaxIndex
    PROVE  ParseAppIndex(name \o Dash \o Decimal(n)) = n
<1> DEFINE T == S \cup {"-", ToString(n)}
           k == Len(name)
           podName == name \o Dash \o Decimal(n)
           I == {i \in 1 .. Len(podName) : podName[i] = "-"}
<1>1. /\ name \in Seq(T) /\ k \in Nat
      /\ Dash \in Seq(T) /\ Len(Dash) = 1 /\ Dash[1] = "-"
      /\ Decimal(n) \in Seq(T) /\ Len(Decimal(n)) = 1 /\ Decimal(n)[1] = ToString(n)
  <2>1. "-" \in T /\ ToString(n) \in T /\ S \subseteq T
    OBVIOUS
  <2> HIDE DEF T
  <2> QED BY <2>1, SeqMonotonic, LenProperties DEF Dash, Decimal
<1> HIDE DEF T
<1>2. /\ name \o Dash \in Seq(T) /\ Len(name \o Dash) = k + 1
      /\ (name \o Dash)[k + 1] = "-"
  <2>1. /\ name \o Dash \in Seq(T) /\ Len(name \o Dash) = Len(name) + Len(Dash)
        /\ \A i \in 1 .. Len(name) + Len(Dash) :
              (name \o Dash)[i] = IF i <= Len(name) THEN name[i] ELSE Dash[i - Len(name)]
    BY <1>1, ConcatProperties
  <2>2. k + 1 \in 1 .. (k + 1) /\ ~(k + 1 <= k) /\ (k + 1) - k = 1 /\ Len(name) + Len(Dash) = k + 1
    BY <1>1
  <2> QED BY <1>1, <2>1, <2>2
<1>3. /\ podName \in Seq(T) /\ Len(podName) = k + 2
      /\ podName[k + 1] = "-" /\ podName[k + 2] = ToString(n)
  <2>1. /\ podName \in Seq(T) /\ Len(podName) = Len(name \o Dash) + Len(Decimal(n))
        /\ \A i \in 1 .. Len(name \o Dash) + Len(Decimal(n)) :
              podName[i] = IF i <= Len(name \o Dash) THEN (name \o Dash)[i]
                           ELSE Decimal(n)[i - Len(name \o Dash)]
    BY <1>1, <1>2, ConcatProperties
  <2>2. /\ Len(name \o Dash) + Len(Decimal(n)) = k + 2
        /\ k + 1 \in 1 .. (k + 2) /\ k + 2 \in 1 .. (k + 2)
        /\ k + 1 <= k + 1 /\ ~(k + 2 <= k + 1) /\ (k + 2) - (k + 1) = 1
    BY <1>1, <1>2
  <2> QED BY <1>1, <1>2, <2>1, <2>2
<1>4. ToString(n) # "-" /\ \A m \in 0 .. MaxIndex : Decimal(m) = Decimal(n) => m = n
  BY DecimalsAssumption
<1> HIDE DEF podName
<1>5. SelectLastInSeq(podName, LAMBDA c : c = "-") = k + 1
  <2>1. k + 1 \in I /\ \A i \in I : i <= k + 1
    <3>1. \A i \in 1 .. (k + 2) : i <= k + 1 \/ i = k + 2
      BY <1>1
    <3>2. k + 1 \in 1 .. Len(podName)
      BY <1>1, <1>3
    <3> QED BY <1>3, <1>4, <3>1, <3>2
  <2>2. I \subseteq Nat
    BY <1>1, <1>3
  <2> HIDE DEF I
  <2>3. Max(I) = k + 1
    BY <1>1, <2>1, <2>2 DEF Max
  <2> QED BY <2>1, <2>3 DEF SelectLastInSeq, I
<1>6. SubSeq(podName, (k + 1) + 1, Len(podName)) = Decimal(n)
  <2>1. (k + 1) + 1 = k + 2 /\ Len(podName) = k + 2 /\ k + 2 \in Int
    BY <1>1, <1>3
  <2>2. \A i \in (k + 2) .. (k + 2) : podName[i] \in T
    BY <1>1, <1>3, ElementOfSeq
  <2>3. /\ SubSeq(podName, k + 2, k + 2) \in Seq(T)
        /\ Len(SubSeq(podName, k + 2, k + 2)) = 1
        /\ SubSeq(podName, k + 2, k + 2)[1] = ToString(n)
    <3>1. /\ SubSeq(podName, k + 2, k + 2) \in Seq(T)
          /\ Len(SubSeq(podName, k + 2, k + 2))
               = IF k + 2 <= k + 2 THEN (k + 2) - (k + 2) + 1 ELSE 0
          /\ \A i \in 1 .. ((k + 2) - (k + 2) + 1) :
                SubSeq(podName, k + 2, k + 2)[i] = podName[(k + 2) + i - 1]
      BY <2>1, <2>2, SubSeqProperties
    <3> QED BY <1>1, <1>3, <3>1
  <2> HIDE DEF T
  <2>4. SubSeq(podName, k + 2, k + 2) = Decimal(n)
    BY <1>1, <2>3, SeqEqual
  <2> QED BY <2>1, <2>4
<1>7. /\ \E m \in 0 .. MaxIndex : Decimal(n) = Decimal(m)
      /\ (CHOOSE m \in 0 .. MaxIndex : Decimal(n) = Decimal(m)) = n
  BY <1>4
<1>8. k + 1 # 0
  BY <1>1
<1>9. ParseAppIndex(podName) = n
  BY <1>5, <1>6, <1>7, <1>8 DEF ParseAppIndex
<1> QED BY <1>9 DEF podName

(* Of several variables of a name, the last gives the value. *)
LEMMA LastValue ==
    ASSUME NEW env, NEW len \in Nat, DOMAIN env = 1 .. len, NEW n \in 1 .. len,
           \A j \in 1 .. len : j > n => env[j].name # env[n].name
    PROVE  ValueIn(env, env[n].name) = env[n].value
<1> DEFINE I == ValuesIn(env, env[n].name)
<1>1. n \in I /\ I \subseteq Nat /\ \A j \in I : j <= n
  BY DEF ValuesIn
<1> HIDE DEF I
<1>2. (CHOOSE i \in I : \A j \in I : j <= i) = n
  <2>1. PICK m : m = CHOOSE i \in I : \A j \in I : j <= i
    OBVIOUS
  <2>2. m \in I /\ \A j \in I : j <= m
    BY <1>1, <2>1
  <2>3. m = n
    BY <1>1, <2>2
  <2> QED BY <2>1, <2>3
<1> QED BY <1>2 DEF ValueIn, I

(* Variables, those of the platform too *)
AnyVars == EnvVars \cup {FieldEnvs[i] : i \in 1 .. 4} \cup {AddressEnvs[i] : i \in 1 .. 3}

(* The variables of the platform have names of their own.                     *)
LEMMA PlatformVars ==
    /\ FieldEnvs \in Seq(AnyVars) /\ Len(FieldEnvs) = 4 /\ DOMAIN FieldEnvs = 1 .. 4
    /\ AddressEnvs \in Seq(AnyVars) /\ Len(AddressEnvs) = 3
    /\ \A i, j \in 1 .. 4 : FieldEnvs[i].name = FieldEnvs[j].name => i = j
    /\ \A i \in 1 .. 4 : FieldEnvs[i].name # "CF_INSTANCE_INDEX"
    /\ \A i \in 1 .. 4, j \in 1 .. 3 : FieldEnvs[i].name # AddressEnvs[j].name
<1>1. /\ FieldEnvs[1].name = "POD_NAME" /\ FieldEnvs[2].name = "CF_INSTANCE_GUID"
      /\ FieldEnvs[3].name = "CF_INSTANCE_IP" /\ FieldEnvs[4].name = "CF_INSTANCE_INTERNAL_IP"
      /\ AddressEnvs[1].name = "CF_INSTANCE_ADDR" /\ AddressEnvs[2].name = "CF_INSTANCE_PORT"
      /\ AddressEnvs[3].name = "CF_INSTANCE_PORTS"
  BY DEF FieldEnvs, AddressEnvs, Var
<1>2. \A i \in 1 .. 4 : i = 1 \/ i = 2 \/ i = 3 \/ i = 4
  OBVIOUS
<1>3. \A j \in 1 .. 3 : j = 1 \/ j = 2 \/ j = 3
  OBVIOUS
<1>4. /\ FieldEnvs[1] \in AnyVars /\ FieldEnvs[2] \in AnyVars /\ FieldEnvs[3] \in AnyVars
      /\ FieldEnvs[4] \in AnyVars /\ AddressEnvs[1] \in AnyVars /\ AddressEnvs[2] \in AnyVars
      /\ AddressEnvs[3] \in AnyVars
  BY DEF AnyVars
<1>5. FieldEnvs \in Seq(AnyVars) /\ Len(FieldEnvs) = 4 /\ DOMAIN FieldEnvs = 1 .. 4
  <2>1. PICK a \in AnyVars, b \in AnyVars, c \in AnyVars, d \in AnyVars : FieldEnvs = <<a, b, c, d>>
    BY <1>4 DEF FieldEnvs
  <2>2. FieldEnvs \in Seq(AnyVars) /\ Len(FieldEnvs) = 4
    BY <2>1
  <2> QED BY <2>2, LenProperties
<1>6. AddressEnvs \in Seq(AnyVars) /\ Len(AddressEnvs) = 3
  <2>1. AddressEnvs = <<AddressEnvs[1], AddressEnvs[2], AddressEnvs[3]>>
    BY DEF AddressEnvs
  <2> QED BY <1>4, <2>1
<1> QED BY <1>1, <1>2, <1>3, <1>5, <1>6

(* A map and a list of variables, as the converters put them into a container *)
LEMMA VarsListed ==
    ASSUME NEW spec, EnvironmentTyped(spec)
    PROVE  /\ MapToEnvVar(spec.env) \subseteq Seq(AnyVars)
           /\ spec.environment \in Seq(AnyVars)
<1>1. ASSUME NEW order \in SetToSeqs(DOMAIN spec.env)
      PROVE  [i \in DOMAIN order |-> Var(order[i], spec.env[order[i]])] \in Seq(AnyVars)
  <2> DEFINE n == Cardinality(DOMAIN spec.env)
  <2>1. n \in Nat
    <3>1. IsFiniteSet(DOMAIN spec.env)
      BY DEF EnvironmentTyped
    <3> QED BY <3>1, FS_CardinalityType
  <2>2. order \in [1 .. n -> DOMAIN spec.env]
    BY DEF SetToSeqs
  <2>3. \A i \in 1 .. n : Var(order[i], spec.env[order[i]]) \in AnyVars
    BY <2>2 DEF EnvironmentTyped, EnvVars, AnyVars, Var
  <2> HIDE DEF n
  <2>4. [i \in DOMAIN order |-> Var(order[i], spec.env[order[i]])] \in [1 .. n -> AnyVars]
    BY <2>2, <2>3
  <2> QED BY <2>1, <2>4
<1>2. spec.environment \in Seq(AnyVars)
  BY SeqMonotonic DEF EnvironmentTyped, AnyVars
<1> QED BY <1>1, <1>2 DEF MapToEnvVar

(* The last variables of an app's container are the platform's, those of a    *)
(* Task's stand in front of its list.                                         *)
EndsInFields(env) ==
    /\ env \in Seq(AnyVars) /\ Len(env) >= 4
    /\ \A i \in 1 .. 4 : env[Len(env) - 4 + i] = FieldEnvs[i]

FieldsBefore(env, list) ==
    \E n \in Nat :
      /\ DOMAIN env = 1 .. (n + 7 + Len(list))
      /\ \A i \in 1 .. 4 : env[n + i] = FieldEnvs[i]
      /\ \A i \in 1 .. 3 : env[n + 4 + i] = AddressEnvs[i]
      /\ \A i \in 1 .. Len(list) : env[n + 7 + i] = list[i]

(* An app's environment ends in the platform's variables.                     *)
LEMMA EnvsOfLrp ==
    ASSUME NEW lrp, EnvironmentTyped(lrp), NEW env \in LrpEnvs(lrp)
    PROVE  EndsInFields(env)
<1>1. PICK envs \in MapToEnvVar(lrp.env) : env = envs \o lrp.environment \o FieldEnvs
  BY DEF LrpEnvs
<1>2. /\ envs \in Seq(AnyVars) /\ lrp.environment \in Seq(AnyVars)
      /\ FieldEnvs \in Seq(AnyVars) /\ Len(FieldEnvs) = 4
  BY <1>1, VarsListed, PlatformVars
<1>3. envs \o lrp.environment \in Seq(AnyVars)
  BY <1>2, ConcatProperties
<1>4. PICK pre \in Seq(AnyVars) : env = pre \o FieldEnvs
  BY <1>1, <1>3
<1>5. Len(pre) \in Nat
  BY LenProperties
<1>6. /\ env \in Seq(AnyVars) /\ Len(env) = Len(pre) + 4
      /\ \A i \in 1 .. (Len(pre) + 4) :
            env[i] = IF i <= Len(pre) THEN pre[i] ELSE FieldEnvs[i - Len(pre)]
  <2>1. /\ env \in Seq(AnyVars) /\ Len(env) = Len(pre) + Len(FieldEnvs)
        /\ \A i \in 1 .. Len(pre) + Len(FieldEnvs) :
              env[i] = IF i <= Len(pre) THEN pre[i] ELSE FieldEnvs[i - Len(pre)]
    BY <1>2, <1>4, ConcatProperties
  <2> QED BY <1>2, <2>1
<1>7. \A i \in 1 .. 4 : /\ Len(env) - 4 + i \in 1 .. (Len(pre) + 4) /\ ~(Len(env) - 4 + i <= Len(pre))
                        /\ (Len(env) - 4 + i) - Len(pre) = i
  BY <1>5, <1>6
<1>8. Len(env) >= 4
  BY <1>5, <1>6
<1>9. \A i \in 1 .. 4 : env[Len(env) - 4 + i] = FieldEnvs[i]
  BY <1>6, <1>7
<1> QED BY <1>6, <1>8, <1>9 DEF EndsInFields

(* Behind the platform's variables a Task's environment has only the list.    *)
LEMMA EnvsOfTask ==
    ASSUME NEW task, EnvironmentTyped(task), NEW env \in TaskEnvs(task)
    PROVE  FieldsBefore(env, task.environment)
<1> DEFINE list == task.environment
<1>1. PICK envs \in MapToEnvVar(task.env) : env = envs \o FieldEnvs \o AddressEnvs \o list
  BY DEF TaskEnvs
<1>2. /\ envs \in Seq(AnyVars) /\ list \in Seq(AnyVars)
      /\ FieldEnvs \in Seq(AnyVars) /\ Len(FieldEnvs) = 4
      /\ AddressEnvs \in Seq(AnyVars) /\ Len(AddressEnvs) = 3
  BY <1>1, VarsListed, PlatformVars
<1> HIDE DEF list
<1>3. PICK n \in Nat, m \in Nat : n = Len(envs) /\ m = Len(list)
  BY <1>2, LenProperties
<1>4. PICK a : a = envs \o FieldEnvs
  OBVIOUS
<1>5. PICK b : b = a \o AddressEnvs
  OBVIOUS
<1>6. /\ a \in Seq(AnyVars) /\ Len(a) = n + 4
      /\ \A i \in 1 .. (n + 4) : a[i] = IF i <= n THEN envs[i] ELSE FieldEnvs[i - n]
  <2>1. /\ a \in Seq(AnyVars) /\ Len(a) = Len(envs) + Len(FieldEnvs)
        /\ \A i \in 1 .. Len(envs) + Len(FieldEnvs) :
              a[i] = IF i <= Len(envs) THEN envs[i] ELSE FieldEnvs[i - Len(envs)]
    BY <1>2, <1>4, ConcatProperties
  <2> QED BY <1>2, <1>3, <2>1
<1>7. /\ b \in Seq(AnyVars) /\ Len(b) = n + 7
      /\ \A i \in 1 .. (n + 7) : b[i] = IF i <= n + 4 THEN a[i] ELSE AddressEnvs[i - (n + 4)]
  <2>1. /\ b \in Seq(AnyVars) /\ Len(b) = Len(a) + Len(AddressEnvs)
        /\ \A i \in 1 .. Len(a) + Len(AddressEnvs) :
              b[i] = IF i <= Len(a) THEN a[i] ELSE AddressEnvs[i - Len(a)]
    BY <1>2, <1>5, <1>6, ConcatProperties
  <2>2. Len(a) + Len(AddressEnvs) = n + 7
    BY <1>2, <1>6
  <2> QED BY <1>6, <2>1, <2>2
<1>8. /\ env \in Seq(AnyVars) /\ Len(env) = n + 7 + m
      /\ \A i \in 1 .. (n + 7 + m) : env[i] = IF i <= n + 7 THEN b[i] ELSE list[i - (n + 7)]
  <2>1. env = b \o list
    BY <1>1, <1>4, <1>5
  <2>2. /\ env \in Seq(AnyVars) /\ Len(env) = Len(b) + Len(list)
        /\ \A i \in 1 .. Len(b) + Len(list) :
              env[i] = IF i <= Len(b) THEN b[i] ELSE list[i - Len(b)]
    <3>1. b \in Seq(AnyVars) /\ list \in Seq(AnyVars)
      BY <1>2, <1>7
    <3> QED BY <2>1, <3>1, ConcatProperties
  <2>3. Len(b) + Len(list) = n + 7 + m
    BY <1>3, <1>7
  <2> QED BY <1>7, <2>2, <2>3
<1>9. DOMAIN env = 1 .. (n + 7 + m)
  BY <1>8, LenProperties
<1>10. \A i \in 1 .. 4 : env[n + i] = FieldEnvs[i]
  <2>1. \A i \in 1 .. 4 : /\ n + i \in 1 .. (n + 7 + m) /\ n + i <= n + 7 /\ n + i \in 1 .. (n + 7)
                          /\ n + i <= n + 4 /\ n + i \in 1 .. (n + 4) /\ ~(n + i <= n) /\ (n + i) - n = i
    OBVIOUS
  <2> QED BY <1>6, <1>7, <1>8, <2>1
<1>11. \A i \in 1 .. 3 : env[n + 4 + i] = AddressEnvs[i]
  <2>1. \A i \in 1 .. 3 : /\ n + 4 + i \in 1 .. (n + 7 + m) /\ n + 4 + i <= n + 7 /\ n + 4 + i \in 1 .. (n + 7)
                          /\ ~(n + 4 + i <= n + 4) /\ (n + 4 + i) - (n + 4) = i
    OBVIOUS
  <2> QED BY <1>7, <1>8, <2>1
<1>12. \A i \in 1 .. m : env[n + 7 + i] = list[i]
  <2>1. \A i \in 1 .. m : /\ n + 7 + i \in 1 .. (n + 7 + m) /\ ~(n + 7 + i <= n + 7)
                          /\ (n + 7 + i) - (n + 7) = i
    OBVIOUS
  <2> QED BY <1>8, <2>1
<1> QED BY <1>3, <1>9, <1>10, <1>11, <1>12 DEF FieldsBefore, list

(* Containers *)

ContainersWith(lrp, envs) ==
    <<ApplicationContainer(lrp, envs)>>
      \o [i \in DOMAIN lrp.sidecars |-> SidecarContainer(lrp, lrp.sidecars[i])]

SidecarsTyped(lrp) == Len(lrp.sidecars) \in Nat /\ DOMAIN lrp.sidecars = 1 .. Len(lrp.sidecars)

(* The containers of an LRP are that of the app, then the sidecars.           *)
LEMMA ContainersListed ==
    ASSUME NEW lrp, SidecarsTyped(lrp), NEW envs
    PROVE  LET containers == ContainersWith(lrp, envs)
               n == Len(lrp.sidecars)
           IN  /\ \E S : containers \in Seq(S)
               /\ Len(containers) = n + 1 /\ DOMAIN containers = 1 .. (n + 1)
               /\ containers[1] = ApplicationContainer(lrp, envs)
               /\ \A i \in 2 .. (n + 1) : containers[i] = SidecarContainer(lrp, lrp.sidecars[i - 1])
<1> DEFINE containers == ContainersWith(lrp, envs)
           n == Len(lrp.sidecars)
           app == ApplicationContainer(lrp, envs)
           sidecars == [i \in 1 .. n |-> SidecarContainer(lrp, lrp.sidecars[i])]
           S == {app} \cup {SidecarContainer(lrp, lrp.sidecars[i]) : i \in 1 .. n}
<1>1. n \in Nat /\ containers = <<app>> \o sidecars
  BY DEF SidecarsTyped, ContainersWith
<1>2. sidecars \in [1 .. n -> S] /\ \A i \in 1 .. n : sidecars[i] = SidecarContainer(lrp, lrp.sidecars[i])
  OBVIOUS
<1>3. app \in S
  OBVIOUS
<1> HIDE DEF containers, n, app, sidecars, S
<1>4. sidecars \in Seq(S) /\ Len(sidecars) = n
  BY <1>1, <1>2
<1>5. <<app>> \in Seq(S) /\ Len(<<app>>) = 1 /\ <<app>>[1] = app
  BY <1>3
<1>6. /\ containers \in Seq(S) /\ Len(containers) = Len(<<app>>) + Len(sidecars)
      /\ \A i \in 1 .. Len(<<app>>) + Len(sidecars) :
            containers[i] = IF i <= Len(<<app>>) THEN <<app>>[i] ELSE sidecars[i - Len(<<app>>)]
  BY <1>1, <1>4, <1>5, ConcatProperties
<1>7. Len(<<app>>) + Len(sidecars) = n + 1
  BY <1>1, <1>4, <1>5
<1>8. DOMAIN containers = 1 .. (n + 1)
  BY <1>6, <1>7, LenProperties
<1>9. containers[1] = app
  BY <1>1, <1>5, <1>6, <1>7
<1>10. \A i \in 2 .. (n + 1) : containers[i] = SidecarContainer(lrp, lrp.sidecars[i - 1])
  <2> TAKE i \in 2 .. (n + 1)
  <2>1. i \in 1 .. (n + 1) /\ ~(i <= 1) /\ i - 1 \in 1 .. n
    BY <1>1
  <2> QED BY <1>2, <1>5, <1>6, <1>7, <2>1
<1> QED BY <1>6, <1>7, <1>8, <1>9, <1>10 DEF containers, n, app

(* The application container is the first, and its environment ends in the    *)
(* variables of the platform.                                                 *)
AppFirst(containers) ==
    /\ \E S : containers \in Seq(S)
    /\ Len(containers) >= 1
    /\ containers[1].name = "opi"
    /\ containers[1] = [f \in DOMAIN containers[1] |-> containers[1][f]]
    /\ {"name", "env", "image"} \subseteq DOMAIN containers[1]
    /\ EndsInFields(containers[1].env)

(* Convert puts the container of the app first.                               *)
LEMMA ConvertPutsAppFirst ==
    ASSUME NEW name, NEW lrp, NEW secret, EnvironmentTyped(lrp), SidecarsTyped(lrp),
           NEW sts \in Convert(name, lrp, secret)
    PROVE  AppFirst(sts.template.containers)
<1>1. PICK containers \in Containers(lrp) : sts.template.containers = containers
  BY DEF Convert
<1>2. PICK envs \in LrpEnvs(lrp) : containers = ContainersWith(lrp, envs)
  BY DEF Containers, ContainersWith
<1>3. /\ \E S : containers \in Seq(S)
      /\ Len(containers) = Len(lrp.sidecars) + 1
      /\ containers[1] = ApplicationContainer(lrp, envs)
  BY <1>2, ContainersListed
<1>4. Len(containers) >= 1
  BY <1>3 DEF SidecarsTyped
<1>5. EndsInFields(envs)
  BY EnvsOfLrp
<1>6. /\ containers[1].name = "opi" /\ containers[1].env = envs
      /\ containers[1] = [f \in DOMAIN containers[1] |-> containers[1][f]]
      /\ {"name", "env", "image"} \subseteq DOMAIN containers[1]
  BY <1>3 DEF ApplicationContainer
<1> QED BY <1>1, <1>3, <1>4, <1>5, <1>6 DEF AppFirst

(* What the Updater makes of containers *)
Reimaged(containers, image) ==
    [i \in DOMAIN containers |->
       IF containers[i].name = "opi" /\ image # NoImage THEN [containers[i] EXCEPT !.image = image]
       ELSE containers[i]]

(* An update of the image leaves it there.                                    *)
LEMMA ReimagedAppFirst ==
    ASSUME NEW containers, AppFirst(containers), NEW image
    PROVE  AppFirst(Reimaged(containers, image))
<1> DEFINE new == Reimaged(containers, image)
           n == Len(containers)
           S == {new[i] : i \in DOMAIN containers}
<1>1. n \in Nat /\ n >= 1 /\ DOMAIN containers = 1 .. n
  BY LenProperties DEF AppFirst
<1>2. new = [i \in 1 .. n |-> new[i]]
  BY <1>1 DEF Reimaged
<1>3. \A i \in 1 .. n : new[i] \in S
  BY <1>1
<1>4. new[1] = IF image # NoImage THEN [containers[1] EXCEPT !.image = image] ELSE containers[1]
  BY <1>1 DEF Reimaged, AppFirst
<1> HIDE DEF new, S, n
<1>5. new \in Seq(S) /\ Len(new) = n
  <2>1. new \in [1 .. n -> S]
    BY <1>2, <1>3
  <2> QED BY <1>1, <2>1
<1>6. /\ new[1].name = "opi" /\ new[1].env = containers[1].env
      /\ new[1] = [f \in DOMAIN new[1] |-> new[1][f]]
      /\ {"name", "env", "image"} \subseteq DOMAIN new[1]
  BY <1>4 DEF AppFirst
<1>7. AppFirst(new)
  BY <1>1, <1>5, <1>6 DEF AppFirst
<1> QED BY <1>7 DEF new

(* An environment in which the variables of the platform are the last but for *)
(* the index, which is the last of all                                        *)
EndsInIndex(env, index) ==
    \E n \in Nat : /\ DOMAIN env = 1 .. (n + 5)
                   /\ \A i \in 1 .. 4 : env[n + i] = FieldEnvs[i]
                   /\ env[n + 5] = Var("CF_INSTANCE_INDEX", index)

(* The webhook makes the index the last variable of that container.           *)
LEMMA IndexInjected ==
    ASSUME NEW S, NEW name \in Seq(S), NEW n \in 0 .. MaxIndex,
           NEW pod, pod = [f \in {"name", "of", "ordinal", "labels", "containers"} |-> pod[f]],
           pod.name = name \o Dash \o Decimal(n), AppFirst(pod.containers)
    PROVE  LET injected == InjectedInstanceIndex(pod)
           IN  /\ injected.of = pod.of /\ injected.ordinal = pod.ordinal /\ injected.labels = pod.labels
               /\ EndsInIndex(injected.containers[1].env, ToString(n))
<1> DEFINE containers == pod.containers
           index == Var("CF_INSTANCE_INDEX", ToString(n))
           env == containers[1].env
           len == Len(env)
           I == {i \in 1 .. Len(containers) : containers[i].name = "opi"}
<1>1. Var("CF_INSTANCE_INDEX", ToString(ParseAppIndex(pod.name))) = index
  BY IndexParsed
<1>2. 1 \in DOMAIN containers /\ 1 \in 1 .. Len(containers) /\ Len(containers) \in Nat
  BY LenProperties DEF AppFirst
<1>3. SelectInSeq(containers, LAMBDA container : container.name = "opi") = 1
  <2>1. 1 \in I /\ I \subseteq Nat /\ \A i \in I : 1 <= i
    BY <1>2 DEF AppFirst
  <2> HIDE DEF I
  <2>2. Min(I) = 1
    <3>1. PICK m : m = CHOOSE x \in I : \A y \in I : x <= y
      OBVIOUS
    <3>2. m \in I /\ \A y \in I : m <= y
      BY <2>1, <3>1
    <3>3. m = 1
      BY <2>1, <3>2
    <3> QED BY <3>1, <3>3 DEF Min
  <2> QED BY <2>1, <2>2 DEF SelectInSeq, I
<1>4. InjectedInstanceIndex(pod) = [pod EXCEPT !.containers[1].env = Append(@, index)]
  <2> HIDE DEF index
  <2> QED BY <1>1, <1>3 DEF InjectedInstanceIndex
<1>5. /\ env \in Seq(AnyVars) /\ len \in Nat /\ len >= 4 /\ DOMAIN env = 1 .. len
      /\ \A i \in 1 .. 4 : env[len - 4 + i] = FieldEnvs[i]
  BY LenProperties DEF AppFirst, EndsInFields
<1>6. InjectedInstanceIndex(pod).containers[1].env = Append(env, index)
  <2> HIDE DEF index
  <2>1. InjectedInstanceIndex(pod).containers = [containers EXCEPT ![1].env = Append(@, index)]
    BY <1>4
  <2>2. containers[1] = [f \in DOMAIN containers[1] |-> containers[1][f]] /\ "env" \in DOMAIN containers[1]
    BY DEF AppFirst
  <2> QED BY <1>2, <2>1, <2>2
<1>7. /\ InjectedInstanceIndex(pod).of = pod.of /\ InjectedInstanceIndex(pod).ordinal = pod.ordinal
      /\ InjectedInstanceIndex(pod).labels = pod.labels
  BY <1>4
<1>8. EndsInIndex(Append(env, index), ToString(n))
  <2> DEFINE T == AnyVars \cup {index}
  <2>1. env \in Seq(T) /\ index \in T
    BY <1>5, SeqMonotonic
  <2> HIDE DEF T, env, index, len
  <2>2. /\ DOMAIN Append(env, index) = 1 .. (len + 1)
        /\ \A i \in 1 .. len : Append(env, index)[i] = env[i]
        /\ Append(env, index)[len + 1] = index
    BY <2>1, AppendProperties, LenProperties DEF len
  <2>3. PICK m \in Nat : m = len - 4
    BY <1>5
  <2>4. len = m + 4 /\ len + 1 = m + 5 /\ \A i \in 1 .. 4 : m + i \in 1 .. len /\ len - 4 + i = m + i
    BY <1>5, <2>3
  <2>5. \A i \in 1 .. 4 : Append(env, index)[m + i] = FieldEnvs[i]
    BY <1>5, <2>2, <2>4
  <2> QED BY <2>2, <2>3, <2>4, <2>5 DEF EndsInIndex, index
<1> QED BY <1>6, <1>7, <1>8

(* What an instance finds in its environment *)
LEMMA IndexFound ==
    ASSUME NEW env, NEW index, EndsInIndex(env, index)
    PROVE  /\ ValueIn(env, "CF_INSTANCE_INDEX") = index
           /\ \A i \in 1 .. 4 : ValueIn(env, FieldEnvs[i].name) = FieldEnvs[i].value
<1>1. PICK n \in Nat : /\ DOMAIN env = 1 .. (n + 5)
                       /\ \A i \in 1 .. 4 : env[n + i] = FieldEnvs[i]
                       /\ env[n + 5] = Var("CF_INSTANCE_INDEX", index)
  BY DEF EndsInIndex
<1>2. env[n + 5].name = "CF_INSTANCE_INDEX" /\ env[n + 5].value = index
  BY <1>1 DEF Var
<1>3. n + 5 \in Nat /\ n + 5 \in 1 .. (n + 5) /\ \A j \in 1 .. (n + 5) : ~(j > n + 5)
  OBVIOUS
<1>4. ValueIn(env, "CF_INSTANCE_INDEX") = index
  <2>1. ValueIn(env, env[n + 5].name) = env[n + 5].value
    BY <1>1, <1>3, LastValue
  <2> QED BY <1>2, <2>1
<1>5. ASSUME NEW i \in 1 .. 4
      PROVE  ValueIn(env, FieldEnvs[i].name) = FieldEnvs[i].value
  <2>1. n + i \in 1 .. (n + 5) /\ env[n + i] = FieldEnvs[i]
    BY <1>1
  <2>2. \A j \in 1 .. (n + 5) : j > n + i => env[j].name # env[n + i].name
    <3> TAKE j \in 1 .. (n + 5)
    <3> HAVE j > n + i
    <3>1. j = n + 5 \/ j - n \in 1 .. 4
      OBVIOUS
    <3>2. CASE j = n + 5
      BY <1>2, <2>1, <3>2, PlatformVars
    <3>3. CASE j - n \in 1 .. 4
      <4>1. PICK m \in 1 .. 4 : m = j - n
        BY <3>3
      <4>2. j = n + m /\ m # i
        BY <4>1
      <4>3. env[j] = FieldEnvs[m]
        BY <1>1, <4>2
      <4> QED BY <2>1, <4>2, <4>3, PlatformVars
    <3> QED BY <3>1, <3>2, <3>3
  <2>3. ValueIn(env, env[n + i].name) = env[n + i].value
    BY <1>1, <1>3, <2>1, <2>2, LastValue
  <2> QED BY <2>1, <2>3
<1> QED BY <1>4, <1>5

(* A platform's variable has its value unless the list behind it names it.    *)
LEMMA FieldsFound ==
    ASSUME NEW env, NEW list, list \in Seq(EnvVars), FieldsBefore(env, list), NEW i \in 1 .. 4
    PROVE  \/ ValueIn(env, FieldEnvs[i].name) = FieldEnvs[i].value
           \/ ValuesIn(list, FieldEnvs[i].name) # {}
<1>1. PICK n \in Nat : /\ DOMAIN env = 1 .. (n + 7 + Len(list))
                       /\ \A j \in 1 .. 4 : env[n + j] = FieldEnvs[j]
                       /\ \A j \in 1 .. 3 : env[n + 4 + j] = AddressEnvs[j]
                       /\ \A j \in 1 .. Len(list) : env[n + 7 + j] = list[j]
  BY DEF FieldsBefore
<1>2. PICK m \in Nat : m = Len(list) /\ DOMAIN list = 1 .. m
  BY LenProperties
<1> SUFFICES ASSUME ValuesIn(list, FieldEnvs[i].name) = {}
             PROVE  ValueIn(env, FieldEnvs[i].name) = FieldEnvs[i].value
  OBVIOUS
<1>3. \A j \in 1 .. m : list[j].name # FieldEnvs[i].name
  BY <1>2 DEF ValuesIn
<1>4. n + 7 + m \in Nat /\ n + i \in 1 .. (n + 7 + m) /\ env[n + i] = FieldEnvs[i]
  BY <1>1
<1>5. \A j \in 1 .. (n + 7 + m) : j > n + i => env[j].name # env[n + i].name
  <2> TAKE j \in 1 .. (n + 7 + m)
  <2> HAVE j > n + i
  <2>1. \/ \E l \in 1 .. 4 : j = n + l /\ l # i
        \/ \E l \in 1 .. 3 : j = n + 4 + l
        \/ \E l \in 1 .. m : j = n + 7 + l
    <3>1. \/ j - n \in 1 .. 4 /\ j = n + (j - n) /\ j - n # i
          \/ j - n - 4 \in 1 .. 3 /\ j = n + 4 + (j - n - 4)
          \/ j - n - 7 \in 1 .. m /\ j = n + 7 + (j - n - 7)
      OBVIOUS
    <3> QED BY <3>1
  <2>2. ASSUME NEW l \in 1 .. 4, j = n + l, l # i
        PROVE  env[j].name # env[n + i].name
    BY <1>1, <1>4, <2>2, PlatformVars
  <2>3. ASSUME NEW l \in 1 .. 3, j = n + 4 + l
        PROVE  env[j].name # env[n + i].name
    <3>1. env[j] = AddressEnvs[l]
      BY <1>1, <2>3
    <3> QED BY <1>4, <3>1, PlatformVars
  <2>4. ASSUME NEW l \in 1 .. m, j = n + 7 + l
        PROVE  env[j].name # env[n + i].name
    <3>1. env[j] = list[l]
      BY <1>1, <1>2, <2>4
    <3> QED BY <1>3, <1>4, <3>1
  <2> QED BY <2>1, <2>2, <2>3, <2>4
<1>6. ValueIn(env, env[n + i].name) = env[n + i].value
  BY <1>1, <1>2, <1>4, <1>5, LastValue
<1> QED BY <1>4, <1>6

(* What a StatefulSet carries to its pods, and what pods were started with *)
Carrying(s) ==
    /\ "template" \in DOMAIN s.sts /\ s.sts.template = [f \in DOMAIN s.sts.template |-> s.sts.template[f]]
    /\ {"labels", "containers"} \subseteq DOMAIN s.sts.template
    /\ s.sts.template.labels.sourceType = "APP"
    /\ AppFirst(s.sts.template.containers)

Started(p) ==
    \/ OfApp(p) /\ EndsInIndex(p.containers[1].env, ToString(p.ordinal))
    \/ /\ p.labels.sourceType = "TASK"
       /\ \E task \in TaskSpecs : /\ GetJobName(task) = p.of
                                  /\ FieldsBefore(p.containers[1].env, task.environment)

EnvironmentsCarried == (\A s \in stss : Carrying(s)) /\ (\A p \in pods : Started(p))

(* Convert makes pods of an app.                                              *)
LEMMA ConvertCarries ==
    ASSUME NEW name, NEW lrp, NEW secret, NEW sts \in Convert(name, lrp, secret)
    PROVE  /\ "template" \in DOMAIN sts /\ sts.template = [f \in DOMAIN sts.template |-> sts.template[f]]
           /\ {"labels", "containers"} \subseteq DOMAIN sts.template
           /\ sts.template.labels.sourceType = "APP"
<1>1. /\ "template" \in DOMAIN sts /\ sts.template = [f \in DOMAIN sts.template |-> sts.template[f]]
      /\ {"labels", "containers"} \subseteq DOMAIN sts.template /\ sts.template.labels = Labels(lrp)
  BY DEF Convert
<1> QED BY <1>1 DEF Labels

(* An update leaves them pods of that app.                                    *)
LEMMA UpdateCarries ==
    ASSUME NEW sts, NEW lrp, sts = [f \in DOMAIN sts |-> sts[f]], "template" \in DOMAIN sts,
           sts.template = [f \in DOMAIN sts.template |-> sts.template[f]],
           {"labels", "containers"} \subseteq DOMAIN sts.template
    PROVE  LET new == UpdatedStatefulSet(sts, lrp)
           IN  /\ "template" \in DOMAIN new /\ new.template = [f \in DOMAIN new.template |-> new.template[f]]
               /\ {"labels", "containers"} \subseteq DOMAIN new.template
               /\ new.template.labels = sts.template.labels
               /\ new.template.containers = Reimaged(sts.template.containers, lrp.image)
BY DEF UpdatedStatefulSet, Reimaged

(* The name of a StatefulSet is a string of characters. *)
LEMMA NameIsString ==
    ASSUME Owned, NEW s \in stss
    PROVE  \E S : s.sts.name \in Seq(S)
<1> DEFINE lrp == lrps[s.owner][1]
           hash == ToString(ProcessGuid(lrp))
           S == Characters \cup {hash}
<1>1. s.owner \in Keys /\ lrp \in Specs[s.owner] /\ s.sts.name = GetStatefulsetName(lrp)
  <2>1. Named(s)
    BY DEF Owned
  <2>2. s.owner \in Keys /\ lrps[s.owner] # <<>> /\ s.sts.name = GetStatefulsetName(lrp)
    BY <2>1 DEF Named, Present
  <2> QED BY <2>2 DEF Owned, LrpsStored
<1>2. /\ lrp.guid \in Seq(Characters) /\ lrp.appName \in Seq(Characters)
      /\ lrp.spaceName \in Seq(Characters) /\ ValidName(lrp.guid)
  BY <1>1, NamesAssumption, NameTypes
<1> HIDE DEF lrp
<1>3. NamePrefix(lrp) \in Seq(Characters)
  BY <1>2, Prefix
<1> HIDE DEF hash
<1>4. NamePrefix(lrp) \in Seq(S) /\ "-" \in S /\ hash \in S
  BY <1>3, SeqMonotonic DEF Characters
<1> HIDE DEF S
<1>5. Dash \in Seq(S) /\ <<hash>> \in Seq(S)
  BY <1>4 DEF Dash
<1>6. NamePrefix(lrp) \o Dash \o <<hash>> \in Seq(S)
  BY <1>4, <1>5, ConcatProperties
<1>7. GetStatefulsetName(lrp) = NamePrefix(lrp) \o Dash \o <<hash>>
  BY DEF GetStatefulsetName, Hash, hash
<1> QED BY <1>1, <1>6, <1>7

(* Every step keeps environments as converter and webhook made them.          *)
LEMMA EnvironmentsStep ==
    ASSUME Owned, EnvironmentsCarried, [Next]_vars
    PROVE  EnvironmentsCarried'
<1>a. \A k \in Keys : Present(k) => /\ EnvironmentTyped(lrps[k][1]) /\ SidecarsTyped(lrps[k][1])
  <2> TAKE k \in Keys
  <2> HAVE Present(k)
  <2>1. lrps[k][1] \in Specs[k]
    BY DEF Owned, LrpsStored, Present
  <2> QED BY <2>1, EnvironmentAssumption DEF SidecarsTyped
<1>b. ASSUME UNCHANGED stss, pods' \subseteq pods
      PROVE  EnvironmentsCarried'
  BY <1>b DEF EnvironmentsCarried, Carrying, Started, OfApp
<1>1. ASSUME NEW k \in Keys, UserCreates(k) \/ UserEdits(k) PROVE EnvironmentsCarried'
  BY <1>1, <1>b DEF UserCreates, UserEdits
<1>2. ASSUME NEW k \in Keys, Desire(k) PROVE EnvironmentsCarried'
  <2> DEFINE lrp == lrps[k][1]
             name == GetStatefulsetName(lrp)
  <2>1. PICK sts \in Convert(name, lrp, RegistrySecretOf(lrp)) :
          stss' = stss \cup {[owner |-> k, sts |-> sts]}
    BY <1>2 DEF Desire
  <2>2. pods' = pods /\ Present(k)
    BY <1>2 DEF Desire
  <2>3. PICK new : new = [owner |-> k, sts |-> sts]
    OBVIOUS
  <2>4. AppFirst(sts.template.containers)
    BY <1>a, <2>1, <2>2, ConvertPutsAppFirst
  <2>5. new.sts = sts /\ stss' = stss \cup {new}
    BY <2>1, <2>3
  <2>6. Carrying(new)
    BY <2>1, <2>4, <2>5, ConvertCarries DEF Carrying
  <2> QED BY <2>2, <2>5, <2>6 DEF EnvironmentsCarried
<1>3. ASSUME NEW k \in Keys, Update(k) PROVE EnvironmentsCarried'
  <2> DEFINE lrp == lrps[k][1]
  <2>1. PICK s \in stss :
          stss' = (stss \ {s}) \cup {[s EXCEPT !.sts = UpdatedStatefulSet(s.sts, lrp)]}
    BY <1>3 DEF Update
  <2>2. Named(s) /\ Carrying(s)
    BY DEF Owned, EnvironmentsCarried
  <2>3. PICK new : new = [owner |-> s.owner, sts |-> UpdatedStatefulSet(s.sts, lrp)]
    OBVIOUS
  <2>4. new.sts = UpdatedStatefulSet(s.sts, lrp) /\ stss' = (stss \ {s}) \cup {new}
    BY <2>1, <2>2, <2>3 DEF Named
  <2>5. /\ "template" \in DOMAIN new.sts
        /\ new.sts.template = [f \in DOMAIN new.sts.template |-> new.sts.template[f]]
        /\ {"labels", "containers"} \subseteq DOMAIN new.sts.template
        /\ new.sts.template.labels = s.sts.template.labels
        /\ new.sts.template.containers = Reimaged(s.sts.template.containers, lrp.image)
    BY <2>2, <2>4, UpdateCarries DEF Named, Carrying
  <2>6. AppFirst(new.sts.template.containers)
    BY <2>2, <2>5, ReimagedAppFirst DEF Carrying
  <2>7. Carrying(new)
    BY <2>2, <2>5, <2>6 DEF Carrying
  <2>8. pods' = pods
    BY <1>3 DEF Update
  <2> QED BY <2>4, <2>7, <2>8 DEF EnvironmentsCarried
<1>4. ASSUME NEW s \in stss, PodStarts(s) PROVE EnvironmentsCarried'
  <2> DEFINE labels == s.sts.template.labels
             containers == s.sts.template.containers
  <2>1. PICK n \in 0 .. MaxOrdinal :
          LET pod == [name |-> s.sts.name \o Dash \o Decimal(n), of |-> s.sts.name,
                      ordinal |-> n, labels |-> labels, containers |-> containers]
          IN  pods' = pods \cup {InjectedInstanceIndex(pod)}
    BY <1>4 DEF PodStarts
  <2>2. n \in 0 .. MaxIndex
    BY <2>1, OrdinalAssumption, LengthsAssumption
  <2>3. PICK S : s.sts.name \in Seq(S)
    BY NameIsString
  <2>4. AppFirst(containers) /\ labels.sourceType = "APP"
    BY DEF EnvironmentsCarried, Carrying
  <2> HIDE DEF labels, containers
  <2>5. PICK pod : pod = [name |-> s.sts.name \o Dash \o Decimal(n), of |-> s.sts.name,
                          ordinal |-> n, labels |-> labels, containers |-> containers]
    OBVIOUS
  <2>6. PICK new : new = InjectedInstanceIndex(pod)
    OBVIOUS
  <2>7. pods' = pods \cup {new}
    BY <2>1, <2>5, <2>6, Zenon
  <2>8. /\ pod = [f \in {"name", "of", "ordinal", "labels", "containers"} |-> pod[f]]
        /\ pod.name = s.sts.name \o Dash \o Decimal(n)
        /\ pod.ordinal = n /\ pod.labels = labels /\ pod.containers = containers
    BY <2>5
  <2>9. new.ordinal = n /\ new.labels = labels /\ EndsInIndex(new.containers[1].env, ToString(n))
    <3>1. AppFirst(pod.containers)
      BY <2>4, <2>8
    <3>2. PICK name \in Seq(S) : pod.name = name \o Dash \o Decimal(n)
      BY <2>3, <2>8
    <3>3. pod = [f \in {"name", "of", "ordinal", "labels", "containers"} |-> pod[f]]
      BY <2>8
    <3>4. /\ InjectedInstanceIndex(pod).ordinal = pod.ordinal
          /\ InjectedInstanceIndex(pod).labels = pod.labels
          /\ EndsInIndex(InjectedInstanceIndex(pod).containers[1].env, ToString(n))
      BY <2>2, <3>1, <3>2, <3>3, IndexInjected
    <3> QED BY <2>6, <2>8, <3>4
  <2>10. Started(new)
    BY <2>4, <2>9 DEF Started, OfApp
  <2>11. UNCHANGED stss
    BY <1>4 DEF PodStarts
  <2> QED BY <2>7, <2>10, <2>11 DEF EnvironmentsCarried
<1>5. ASSUME NEW task \in TaskSpecs, TaskRuns(task) PROVE EnvironmentsCarried'
  <2>1. PICK job \in ConvertTask(task) :
          pods' = pods \cup {[name |-> job.name \o Dash \o <<"x">>, of |-> job.name, ordinal |-> 0,
                              labels |-> job.template.labels, containers |-> job.template.containers]}
    BY <1>5 DEF TaskRuns
  <2>2. PICK envs \in TaskEnvs(task) : /\ job.name = GetJobName(task)
                                       /\ job.template.labels = TaskLabels(task)
                                       /\ job.template.containers[1].env = envs
    BY DEF ConvertTask
  <2>3. FieldsBefore(envs, task.environment)
    BY EnvironmentAssumption, EnvsOfTask
  <2>4. PICK new : new = [name |-> job.name \o Dash \o <<"x">>, of |-> job.name, ordinal |-> 0,
                          labels |-> job.template.labels, containers |-> job.template.containers]
    OBVIOUS
  <2>5. pods' = pods \cup {new}
    BY <2>1, <2>4, Zenon
  <2>6. /\ new.of = job.name /\ new.labels = job.template.labels
        /\ new.containers = job.template.containers
    BY <2>4
  <2>7. new.labels.sourceType = "TASK"
    BY <2>2, <2>6 DEF TaskLabels
  <2>8. Started(new)
    BY <2>2, <2>3, <2>6, <2>7 DEF Started
  <2>9. UNCHANGED stss
    BY <1>5 DEF TaskRuns
  <2> QED BY <2>5, <2>8, <2>9 DEF EnvironmentsCarried
<1>6. CASE PodStops \/ UNCHANGED vars
  BY <1>6, <1>b DEF PodStops, vars
<1> QED BY <1>1, <1>2, <1>3, <1>4, <1>5, <1>6 DEF Next

(* Environments stay as converter and webhook made them.                      *)
LEMMA EnvironmentsAlwaysCarried == Spec => []EnvironmentsCarried
<1>1. Init => Owned /\ EnvironmentsCarried
  BY DEF Init, Owned, LrpsStored, NamesApart, EnvironmentsCarried
<1>2. Owned /\ EnvironmentsCarried /\ [Next]_vars => (Owned /\ EnvironmentsCarried)'
  BY OwnedStep, EnvironmentsStep
<1> QED BY <1>1, <1>2, PTL DEF Spec

(* An instance knows its number, for all names of apps, all environments and   *)
(* sidecars of users and all edits and updates of its LRP: the variable the    *)
(* webhook appends is the last of the first container named opi, which is the  *)
(* application's, and its value what stands behind the last dash of the pod's  *)
(* name (injectInstanceIndex, ParseAppIndex).                                  *)
THEOREM InstancesKnowTheirIndex == Spec => []IndexIsOrdinal
<1>1. EnvironmentsCarried => IndexIsOrdinal
  <2> SUFFICES ASSUME EnvironmentsCarried, NEW p \in pods, OfApp(p)
               PROVE  ValueIn(p.containers[1].env, "CF_INSTANCE_INDEX") = ToString(p.ordinal)
    BY DEF IndexIsOrdinal
  <2>1. EndsInIndex(p.containers[1].env, ToString(p.ordinal))
    BY DEF EnvironmentsCarried, Started, OfApp
  <2> QED BY <2>1, IndexFound
<1> QED BY <1>1, EnvironmentsAlwaysCarried, PTL

(* No environment of a user hides a variable of the platform from an app, and  *)
(* in a Task only the list can, which the converter puts last: for all         *)
(* environments, and whatever order a map is listed in (Convert of LRP and     *)
(* Task).                                                                      *)
THEOREM PlatformVariablesWin == Spec => []PlatformVarsWin
<1>1. EnvironmentsCarried => PlatformVarsWin
  <2> SUFFICES ASSUME EnvironmentsCarried, NEW p \in pods, NEW i \in 1 .. 4
               PROVE  \/ ValueIn(p.containers[1].env, FieldEnvs[i].name) = FieldEnvs[i].value
                      \/ /\ ~OfApp(p)
                         /\ \E task \in TaskSpecs : /\ GetJobName(task) = p.of
                                                    /\ ValuesIn(task.environment, FieldEnvs[i].name) # {}
    BY PlatformVars DEF PlatformVarsWin
  <2>1. CASE OfApp(p) /\ EndsInIndex(p.containers[1].env, ToString(p.ordinal))
    BY <2>1, IndexFound
  <2>2. ASSUME p.labels.sourceType = "TASK", NEW task \in TaskSpecs, GetJobName(task) = p.of,
               FieldsBefore(p.containers[1].env, task.environment)
        PROVE  \/ ValueIn(p.containers[1].env, FieldEnvs[i].name) = FieldEnvs[i].value
               \/ /\ ~OfApp(p)
                  /\ \E t \in TaskSpecs : /\ GetJobName(t) = p.of
                                          /\ ValuesIn(t.environment, FieldEnvs[i].name) # {}
    <3>1. ~OfApp(p)
      BY <2>2 DEF OfApp
    <3>2. task.environment \in Seq(EnvVars)
      BY EnvironmentAssumption DEF EnvironmentTyped
    <3> QED BY <2>2, <3>1, <3>2, FieldsFound
  <2> QED BY <2>1, <2>2 DEF EnvironmentsCarried, Started
<1> QED BY <1>1, EnvironmentsAlwaysCarried, PTL
-----------------------------------------------------------------------------
(* What an edited LRP keeps *)

StatefulSetOf(lrp, replicas, pullSecrets, containers) ==
    [name |-> GetStatefulsetName(lrp), labels |-> Labels(lrp), annotations |-> Annotations(lrp),
     replicas |-> replicas, podManagement |-> "Parallel", selector |-> StatefulSetLabelSelector(lrp),
     template |-> [labels |-> Labels(lrp), annotations |-> Annotations(lrp), containers |-> containers,
                   pullSecrets |-> pullSecrets, volumes |-> Volumes(lrp),
                   serviceAccount |-> ServiceAccount, automountToken |-> AutomountToken,
                   antiAffinity |-> AntiAffinity(lrp)]]

Unimaged(containers) == [i \in DOMAIN containers |-> [containers[i] EXCEPT !.image = NoImage]]

(* A StatefulSet is what its LRP would get now, but for the number of          *)
(* instances, the images and, of a private registry, the credentials.          *)
AsFresh(lrp, sts) ==
    LET containers == sts.template.containers
    IN  /\ sts = StatefulSetOf(lrp, sts.replicas, sts.template.pullSecrets, containers)
        /\ lrp.privateRegistry \/ sts.template.pullSecrets = <<RegistrySecretName>>
        /\ containers[1] = [f \in DOMAIN containers[1] |-> containers[1][f]]
        /\ \E envs \in LrpEnvs(lrp) : Unimaged(containers) = Unimaged(ContainersWith(lrp, envs))

(* After a reconcile it has the number of instances and the image, too. *)
UpToDate(lrp, sts) ==
    /\ sts.replicas = Int32(lrp.instances)
    /\ lrp.image # NoImage => sts.template.containers[1].image = lrp.image

KeptAsNew ==
    \A s \in stss : LET lrp == lrps[s.owner][1]
                    IN  AsFresh(lrp, s.sts) /\ (s.owner \in reconciled => UpToDate(lrp, s.sts))

(* What Convert makes, as one record.                                         *)
LEMMA ConvertedAs ==
    ASSUME NEW lrp
    PROVE  Convert(GetStatefulsetName(lrp), lrp, RegistrySecretOf(lrp))
             = {StatefulSetOf(lrp, Int32(lrp.instances), ImagePullSecrets(RegistrySecretOf(lrp)),
                              ContainersWith(lrp, envs)) : envs \in LrpEnvs(lrp)}
BY DEF Convert, Containers, ContainersWith, StatefulSetOf

(* Without a private registry there is one pull secret.                       *)
LEMMA PublicPullSecrets ==
    ASSUME NEW lrp, ~lrp.privateRegistry
    PROVE  ImagePullSecrets(RegistrySecretOf(lrp)) = <<RegistrySecretName>>
BY DEF ImagePullSecrets, RegistrySecretOf, NoSecret

(* The first container of an LRP *)
LEMMA FirstContainer ==
    ASSUME NEW lrp, SidecarsTyped(lrp), NEW envs
    PROVE  LET containers == ContainersWith(lrp, envs)
           IN  /\ 1 \in DOMAIN containers
               /\ containers[1] = [f \in DOMAIN containers[1] |-> containers[1][f]]
               /\ "image" \in DOMAIN containers[1]
               /\ containers[1].image = lrp.image /\ containers[1].name = "opi"
<1> DEFINE containers == ContainersWith(lrp, envs)
<1>1. /\ DOMAIN containers = 1 .. (Len(lrp.sidecars) + 1) /\ Len(lrp.sidecars) \in Nat
      /\ containers[1] = ApplicationContainer(lrp, envs)
  BY ContainersListed DEF SidecarsTyped
<1> HIDE DEF containers
<1>2. 1 \in DOMAIN containers
  BY <1>1
<1>3. /\ containers[1] = [f \in DOMAIN containers[1] |-> containers[1][f]]
      /\ "image" \in DOMAIN containers[1]
      /\ containers[1].image = lrp.image /\ containers[1].name = "opi"
  BY <1>1 DEF ApplicationContainer
<1> QED BY <1>2, <1>3 DEF containers

(* Images aside, containers are the same. *)
LEMMA UnimagedSame ==
    ASSUME NEW a, NEW b, Unimaged(a) = Unimaged(b)
    PROVE  /\ DOMAIN a = DOMAIN b
           /\ \A i \in DOMAIN a : [a[i] EXCEPT !.image = NoImage] = [b[i] EXCEPT !.image = NoImage]
<1>1. DOMAIN Unimaged(a) = DOMAIN a /\ DOMAIN Unimaged(b) = DOMAIN b
  BY DEF Unimaged
<1>2. \A i \in DOMAIN a : Unimaged(a)[i] = [a[i] EXCEPT !.image = NoImage]
  BY DEF Unimaged
<1>3. \A i \in DOMAIN b : Unimaged(b)[i] = [b[i] EXCEPT !.image = NoImage]
  BY DEF Unimaged
<1>4. DOMAIN a = DOMAIN b
  BY <1>1
<1> QED BY <1>2, <1>3, <1>4

(* What is equal without its image is equal but for its image.                *)
LEMMA SameButImage ==
    ASSUME NEW c, NEW d, [c EXCEPT !.image = NoImage] = [d EXCEPT !.image = NoImage]
    PROVE  DOMAIN c = DOMAIN d /\ \A f \in DOMAIN c \ {"image"} : c[f] = d[f]
<1> DEFINE x == [c EXCEPT !.image = NoImage]
           y == [d EXCEPT !.image = NoImage]
<1>1. DOMAIN x = DOMAIN c /\ DOMAIN y = DOMAIN d
  OBVIOUS
<1>2. \A f \in DOMAIN c \ {"image"} : x[f] = c[f]
  OBVIOUS
<1>3. \A f \in DOMAIN d \ {"image"} : y[f] = d[f]
  OBVIOUS
<1>4. x = y
  OBVIOUS
<1> HIDE DEF x, y
<1> QED BY <1>1, <1>2, <1>3, <1>4

(* Containers with the same image are the same if the rest is.                *)
LEMMA SameContainer ==
    ASSUME NEW c, NEW d, [c EXCEPT !.image = NoImage] = [d EXCEPT !.image = NoImage],
           c = [f \in DOMAIN c |-> c[f]], d = [f \in DOMAIN d |-> d[f]],
           c.image = d.image
    PROVE  c = d
<1>1. DOMAIN c = DOMAIN d /\ \A f \in DOMAIN c \ {"image"} : c[f] = d[f]
  BY SameButImage
<1>2. \A f \in DOMAIN c : c[f] = d[f]
  BY <1>1
<1> QED BY <1>1, <1>2

(* What UpdatedAsIfNew compares *)
Others(containers) ==
    [i \in DOMAIN containers |-> IF i = 1 THEN containers[i] ELSE [containers[i] EXCEPT !.image = NoImage]]

(* What UpdatedAsIfNew compares, as one record.                               *)
LEMMA Compared ==
    ASSUME NEW lrp, NEW replicas, NEW pullSecrets, NEW containers
    PROVE  Comparable(lrp, StatefulSetOf(lrp, replicas, pullSecrets, containers))
             = StatefulSetOf(lrp, replicas,
                             IF lrp.privateRegistry THEN <<RegistrySecretName>> ELSE pullSecrets,
                             Others(containers))
<1> DEFINE sts == StatefulSetOf(lrp, replicas, pullSecrets, containers)
           secrets == IF lrp.privateRegistry THEN <<RegistrySecretName>> ELSE pullSecrets
           others == Others(containers)
<1>1. sts.template.containers = containers /\ sts.template.pullSecrets = pullSecrets
  BY DEF StatefulSetOf
<1>2. Comparable(lrp, sts) = [sts EXCEPT !.template.containers = others, !.template.pullSecrets = secrets]
  <2> HIDE DEF sts
  <2> QED BY <1>1 DEF Comparable, Others
<1> HIDE DEF others, secrets
<1>3. [sts EXCEPT !.template.containers = others, !.template.pullSecrets = secrets]
        = StatefulSetOf(lrp, replicas, secrets, others)
  <2> DEFINE renamed == [sts.template EXCEPT !.containers = others, !.pullSecrets = secrets]
  <2>1. renamed = StatefulSetOf(lrp, replicas, secrets, others).template
    <3>1. \A t : [t EXCEPT !.containers = others, !.pullSecrets = secrets]
                   = [[t EXCEPT !.containers = others] EXCEPT !.pullSecrets = secrets]
      OBVIOUS
    <3>2. [sts.template EXCEPT !.containers = others]
            = StatefulSetOf(lrp, replicas, pullSecrets, others).template
      BY DEF StatefulSetOf
    <3>3. [StatefulSetOf(lrp, replicas, pullSecrets, others).template EXCEPT !.pullSecrets = secrets]
            = StatefulSetOf(lrp, replicas, secrets, others).template
      BY DEF StatefulSetOf
    <3> HIDE DEF sts
    <3> QED BY <3>1, <3>2, <3>3
  <2>2. [sts EXCEPT !.template.containers = others, !.template.pullSecrets = secrets]
          = [sts EXCEPT !.template = renamed]
    <3>1. "template" \in DOMAIN sts
      BY DEF StatefulSetOf
    <3> HIDE DEF sts
    <3> QED BY <3>1
  <2> HIDE DEF renamed
  <2>3. \A template : [sts EXCEPT !.template = template]
                      = [name |-> sts.name, labels |-> sts.labels, annotations |-> sts.annotations,
                         replicas |-> sts.replicas, podManagement |-> sts.podManagement,
                         selector |-> sts.selector, template |-> template]
    BY DEF StatefulSetOf
  <2> QED BY <2>1, <2>2, <2>3 DEF StatefulSetOf
<1> QED BY <1>2, <1>3 DEF sts, others, secrets

(* A StatefulSet that is as fresh and up to date is as if it were new.        *)
LEMMA FreshIsAsNew ==
    ASSUME NEW lrp, SidecarsTyped(lrp), NEW sts, AsFresh(lrp, sts), UpToDate(lrp, sts), lrp.image # NoImage
    PROVE  \E fresh \in Convert(GetStatefulsetName(lrp), lrp, RegistrySecretOf(lrp)) :
              Comparable(lrp, sts) = Comparable(lrp, fresh)
<1> DEFINE a == sts.template.containers
           secrets == sts.template.pullSecrets
<1>1. /\ sts = StatefulSetOf(lrp, Int32(lrp.instances), secrets, a)
      /\ lrp.privateRegistry \/ secrets = <<RegistrySecretName>>
      /\ a[1] = [f \in DOMAIN a[1] |-> a[1][f]] /\ a[1].image = lrp.image
  BY DEF AsFresh, UpToDate
<1>2. PICK envs \in LrpEnvs(lrp) : Unimaged(a) = Unimaged(ContainersWith(lrp, envs))
  BY DEF AsFresh
<1> DEFINE b == ContainersWith(lrp, envs)
           new == ImagePullSecrets(RegistrySecretOf(lrp))
           fresh == StatefulSetOf(lrp, Int32(lrp.instances), new, b)
<1>3. fresh \in Convert(GetStatefulsetName(lrp), lrp, RegistrySecretOf(lrp))
  BY ConvertedAs
<1>4. 1 \in DOMAIN b /\ b[1] = [f \in DOMAIN b[1] |-> b[1][f]] /\ b[1].image = lrp.image
  BY FirstContainer
<1>5. lrp.privateRegistry \/ new = <<RegistrySecretName>>
  BY PublicPullSecrets
<1> HIDE DEF a, b, secrets, new
<1>6. /\ DOMAIN a = DOMAIN b
      /\ \A i \in DOMAIN a : [a[i] EXCEPT !.image = NoImage] = [b[i] EXCEPT !.image = NoImage]
  BY <1>2, UnimagedSame DEF b
<1>7. a[1] = b[1]
  <2>1. [a[1] EXCEPT !.image = NoImage] = [b[1] EXCEPT !.image = NoImage] /\ a[1].image = b[1].image
    BY <1>1, <1>4, <1>6
  <2> QED BY <1>1, <1>4, <2>1, SameContainer
<1>8. Others(a) = Others(b)
  BY <1>6, <1>7 DEF Others
<1>9. Comparable(lrp, fresh)
        = StatefulSetOf(lrp, Int32(lrp.instances),
                        IF lrp.privateRegistry THEN <<RegistrySecretName>> ELSE new, Others(b))
  BY Compared
<1>10. Comparable(lrp, StatefulSetOf(lrp, Int32(lrp.instances), secrets, a))
         = StatefulSetOf(lrp, Int32(lrp.instances),
                         IF lrp.privateRegistry THEN <<RegistrySecretName>> ELSE secrets, Others(a))
  BY Compared
<1>11. (IF lrp.privateRegistry THEN <<RegistrySecretName>> ELSE new)
         = (IF lrp.privateRegistry THEN <<RegistrySecretName>> ELSE secrets)
  BY <1>1, <1>5
<1>12. Comparable(lrp, sts) = Comparable(lrp, fresh)
  BY <1>1, <1>8, <1>9, <1>10, <1>11
<1> QED BY <1>3, <1>12

(* What the validating webhook lets change *)
SameButMutable(new, old) ==
    /\ new.guid = old.guid /\ new.version = old.version /\ new.appName = old.appName
    /\ new.spaceName = old.spaceName /\ new.processType = old.processType
    /\ new.appGuid = old.appGuid /\ new.place = old.place /\ new.command = old.command
    /\ new.env = old.env /\ new.environment = old.environment /\ new.health = old.health
    /\ new.ports = old.ports /\ new.memoryMB = old.memoryMB /\ new.diskMB = old.diskMB
    /\ new.cpuWeight = old.cpuWeight /\ new.sidecars = old.sidecars
    /\ new.volumeMounts = old.volumeMounts /\ new.privateRegistry = old.privateRegistry
    /\ new.userDefinedAnnotations = old.userDefinedAnnotations

(* The webhook keeps everything but image and instances.                      *)
LEMMA AdmittedChange ==
    ASSUME NEW k \in Keys, NEW old \in Specs[k], NEW new, ChangeAdmitted(new, old)
    PROVE  SameButMutable(new, old)
<1>1. \A f \in DOMAIN old \ {"image", "instances"} : new[f] = old[f]
  BY DEF ChangeAdmitted, CompareLRPSpecs, lrpMutableFields
<1>2. {"guid", "version", "appName", "spaceName", "processType", "appGuid", "place", "command",
       "env", "environment", "health", "ports", "memoryMB", "diskMB", "cpuWeight", "sidecars",
       "volumeMounts", "privateRegistry", "userDefinedAnnotations"}
        \subseteq DOMAIN old \ {"image", "instances"}
  BY SpecsAssumption
<1> QED BY <1>1, <1>2 DEF SameButMutable

(* An admitted edit changes nothing of the StatefulSet but replicas and images. *)
LEMMA EditKeepsStatefulSet ==
    ASSUME NEW old, NEW new, SameButMutable(new, old), NEW replicas, NEW pullSecrets, NEW containers
    PROVE  StatefulSetOf(new, replicas, pullSecrets, containers)
             = StatefulSetOf(old, replicas, pullSecrets, containers)
<1>1. ProcessGuid(new) = ProcessGuid(old) /\ GetStatefulsetName(new) = GetStatefulsetName(old)
  BY DEF SameButMutable, GetStatefulsetName, NamePrefix, ProcessGuid
<1>2. Labels(new) = Labels(old) /\ StatefulSetLabelSelector(new) = StatefulSetLabelSelector(old)
  BY DEF SameButMutable, Labels, StatefulSetLabelSelector
<1>3. Annotations(new) = Annotations(old)
  BY <1>1 DEF SameButMutable, Annotations
<1>4. Volumes(new) = Volumes(old) /\ AntiAffinity(new) = AntiAffinity(old)
  BY <1>2 DEF SameButMutable, Volumes, AntiAffinity
<1> QED BY <1>1, <1>2, <1>3, <1>4 DEF StatefulSetOf

(* An admitted edit changes nothing of the containers but images.             *)
LEMMA EditKeepsContainers ==
    ASSUME NEW old, NEW new, SameButMutable(new, old), SidecarsTyped(old), NEW envs
    PROVE  Unimaged(ContainersWith(new, envs)) = Unimaged(ContainersWith(old, envs))
<1> DEFINE a == ContainersWith(new, envs)
           b == ContainersWith(old, envs)
           n == Len(old.sidecars)
<1>1. ASSUME NEW e
      PROVE  LET c == ApplicationContainer(new, e)
                 d == ApplicationContainer(old, e)
             IN  DOMAIN c = DOMAIN d /\ \A f \in DOMAIN c \ {"image"} : c[f] = d[f]
  <2>1. LivenessProbe(new) = LivenessProbe(old) /\ ReadinessProbe(new) = ReadinessProbe(old)
    BY DEF SameButMutable, LivenessProbe, ReadinessProbe
  <2> QED BY <2>1 DEF SameButMutable, ApplicationContainer
<1>2. ASSUME NEW s
      PROVE  LET c == SidecarContainer(new, s)
                 d == SidecarContainer(old, s)
             IN  DOMAIN c = DOMAIN d /\ \A f \in DOMAIN c \ {"image"} : c[f] = d[f]
  <2> DEFINE e == CHOOSE env \in MapToEnvVar(s.env) : TRUE
             c == ApplicationContainer(new, e)
             d == ApplicationContainer(old, e)
             resources == ContainerResources(old.cpuWeight, s.memoryMB, old.diskMB)
  <2>1. DOMAIN c = DOMAIN d /\ \A f \in DOMAIN c \ {"image"} : c[f] = d[f]
    BY <1>1
  <2>2. PICK x : x = SidecarContainer(new, s)
    OBVIOUS
  <2>3. PICK y : y = SidecarContainer(old, s)
    OBVIOUS
  <2>4. /\ x = [c EXCEPT !.name = s.name, !.command = s.command, !.ports = <<>>,
                         !.securityContext = NoSecurityContext, !.resources = resources,
                         !.liveness = NoProbe, !.readiness = NoProbe, !.volumeMounts = <<>>]
        /\ y = [d EXCEPT !.name = s.name, !.command = s.command, !.ports = <<>>,
                         !.securityContext = NoSecurityContext, !.resources = resources,
                         !.liveness = NoProbe, !.readiness = NoProbe, !.volumeMounts = <<>>]
    BY <2>2, <2>3 DEF SidecarContainer, SameButMutable
  <2> HIDE DEF c, d, resources
  <2>5. DOMAIN x = DOMAIN y
    BY <2>1, <2>4
  <2>6. \A f \in DOMAIN x \ {"image"} : x[f] = y[f]
    <3> TAKE f \in DOMAIN x \ {"image"}
    <3>1. f \in DOMAIN c /\ f \in DOMAIN d /\ c[f] = d[f]
      BY <2>1, <2>4
    <3> QED BY <2>4, <3>1
  <2> QED BY <2>2, <2>3, <2>5, <2>6
<1>3. /\ n \in Nat /\ DOMAIN a = 1 .. (n + 1) /\ DOMAIN b = 1 .. (n + 1)
      /\ a[1] = ApplicationContainer(new, envs) /\ b[1] = ApplicationContainer(old, envs)
      /\ \A i \in 2 .. (n + 1) : /\ a[i] = SidecarContainer(new, old.sidecars[i - 1])
                                 /\ b[i] = SidecarContainer(old, old.sidecars[i - 1])
  <2>1. new.sidecars = old.sidecars /\ SidecarsTyped(new) /\ n \in Nat
    BY DEF SameButMutable, SidecarsTyped
  <2> QED BY <2>1, ContainersListed
<1> HIDE DEF a, b, n
<1>4. \A i \in 1 .. (n + 1) : i = 1 \/ i \in 2 .. (n + 1)
  BY <1>3
<1>5. \A i \in 1 .. (n + 1) : DOMAIN a[i] = DOMAIN b[i] /\ \A f \in DOMAIN a[i] \ {"image"} : a[i][f] = b[i][f]
  <2> TAKE i \in 1 .. (n + 1)
  <2>1. CASE i = 1
    BY <1>1, <1>3, <2>1
  <2>2. CASE i \in 2 .. (n + 1)
    <3>1. a[i] = SidecarContainer(new, old.sidecars[i - 1]) /\ b[i] = SidecarContainer(old, old.sidecars[i - 1])
      BY <1>3, <2>2
    <3> QED BY <1>2, <3>1
  <2> QED BY <1>4, <2>1, <2>2
<1>6. \A i \in 1 .. (n + 1) : [a[i] EXCEPT !.image = NoImage] = [b[i] EXCEPT !.image = NoImage]
  BY <1>5
<1>7. Unimaged(a) = Unimaged(b)
  BY <1>3, <1>6 DEF Unimaged
<1> QED BY <1>7 DEF a, b

(* A StatefulSet stays as fresh when its LRP is edited.                       *)
LEMMA EditKeepsFresh ==
    ASSUME NEW k \in Keys, NEW old \in Specs[k], NEW new, ChangeAdmitted(new, old), NEW sts, AsFresh(old, sts)
    PROVE  AsFresh(new, sts)
<1>1. SameButMutable(new, old)
  BY AdmittedChange
<1>2. SidecarsTyped(old)
  BY EnvironmentAssumption DEF SidecarsTyped
<1>3. LrpEnvs(new) = LrpEnvs(old) /\ new.privateRegistry = old.privateRegistry
  BY <1>1 DEF SameButMutable, LrpEnvs
<1>4. PICK envs \in LrpEnvs(old) :
        Unimaged(sts.template.containers) = Unimaged(ContainersWith(old, envs))
  BY DEF AsFresh
<1>5. Unimaged(sts.template.containers) = Unimaged(ContainersWith(new, envs))
  BY <1>1, <1>2, <1>4, EditKeepsContainers
<1>6. sts = StatefulSetOf(new, sts.replicas, sts.template.pullSecrets, sts.template.containers)
  BY <1>1, EditKeepsStatefulSet DEF AsFresh
<1> QED BY <1>3, <1>4, <1>5, <1>6 DEF AsFresh

(* What a new StatefulSet is, and what an updated one becomes *)
LEMMA ConvertIsFresh ==
    ASSUME NEW lrp, SidecarsTyped(lrp), NEW sts \in Convert(GetStatefulsetName(lrp), lrp, RegistrySecretOf(lrp))
    PROVE  AsFresh(lrp, sts) /\ UpToDate(lrp, sts)
<1> DEFINE secrets == ImagePullSecrets(RegistrySecretOf(lrp))
<1>1. PICK envs \in LrpEnvs(lrp) :
        sts = StatefulSetOf(lrp, Int32(lrp.instances), secrets, ContainersWith(lrp, envs))
  BY ConvertedAs
<1> DEFINE containers == ContainersWith(lrp, envs)
<1>2. /\ containers[1] = [f \in DOMAIN containers[1] |-> containers[1][f]]
      /\ containers[1].image = lrp.image
  BY FirstContainer
<1>3. lrp.privateRegistry \/ secrets = <<RegistrySecretName>>
  BY PublicPullSecrets
<1> HIDE DEF containers, secrets
<1>4. /\ sts = StatefulSetOf(lrp, Int32(lrp.instances), secrets, containers)
      /\ Unimaged(containers) = Unimaged(ContainersWith(lrp, envs))
  BY <1>1 DEF containers
<1>5. /\ sts.replicas = Int32(lrp.instances) /\ sts.template.pullSecrets = secrets
      /\ sts.template.containers = containers
  BY <1>4 DEF StatefulSetOf
<1> QED BY <1>2, <1>3, <1>4, <1>5 DEF AsFresh, UpToDate

(* The Updater keeps it as fresh and makes it up to date.                     *)
LEMMA UpdatedIsFresh ==
    ASSUME NEW lrp, SidecarsTyped(lrp), NEW sts, AsFresh(lrp, sts)
    PROVE  AsFresh(lrp, UpdatedStatefulSet(sts, lrp)) /\ UpToDate(lrp, UpdatedStatefulSet(sts, lrp))
<1> DEFINE a == sts.template.containers
           secrets == sts.template.pullSecrets
           new == Reimaged(a, lrp.image)
<1>1. /\ sts = StatefulSetOf(lrp, sts.replicas, secrets, a)
      /\ lrp.privateRegistry \/ secrets = <<RegistrySecretName>>
      /\ a[1] = [f \in DOMAIN a[1] |-> a[1][f]]
  BY DEF AsFresh
<1>2. PICK envs \in LrpEnvs(lrp) : Unimaged(a) = Unimaged(ContainersWith(lrp, envs))
  BY DEF AsFresh
<1> DEFINE b == ContainersWith(lrp, envs)
           updated == UpdatedStatefulSet(sts, lrp)
<1>3. 1 \in DOMAIN b /\ "image" \in DOMAIN b[1] /\ b[1].name = "opi" /\ "name" \in DOMAIN b[1]
  <2>1. b[1] = ApplicationContainer(lrp, envs)
    BY ContainersListed
  <2> QED BY <2>1, FirstContainer DEF ApplicationContainer
<1>4. updated = StatefulSetOf(lrp, Int32(lrp.instances), secrets, new)
  <2>1. updated = [sts EXCEPT !.replicas = Int32(lrp.instances), !.template.containers = new]
    BY DEF UpdatedStatefulSet, Reimaged
  <2> HIDE DEF a, secrets, new, updated
  <2>2. updated = [[sts EXCEPT !.replicas = Int32(lrp.instances)] EXCEPT !.template.containers = new]
    BY <2>1
  <2>3. [sts EXCEPT !.replicas = Int32(lrp.instances)] = StatefulSetOf(lrp, Int32(lrp.instances), secrets, a)
    BY <1>1 DEF StatefulSetOf
  <2>4. [StatefulSetOf(lrp, Int32(lrp.instances), secrets, a) EXCEPT !.template.containers = new]
          = StatefulSetOf(lrp, Int32(lrp.instances), secrets, new)
    BY DEF StatefulSetOf
  <2> QED BY <2>2, <2>3, <2>4
<1> HIDE DEF a, b, secrets, new, updated
<1>5. /\ DOMAIN a = DOMAIN b
      /\ \A i \in DOMAIN a : [a[i] EXCEPT !.image = NoImage] = [b[i] EXCEPT !.image = NoImage]
  BY <1>2, UnimagedSame DEF b
<1>6. 1 \in DOMAIN a /\ "image" \in DOMAIN a[1] /\ a[1].name = "opi"
  <2>1. [a[1] EXCEPT !.image = NoImage] = [b[1] EXCEPT !.image = NoImage]
    BY <1>3, <1>5
  <2>2. DOMAIN a[1] = DOMAIN b[1] /\ \A f \in DOMAIN a[1] \ {"image"} : a[1][f] = b[1][f]
    BY <2>1, SameButImage
  <2> QED BY <1>3, <1>5, <2>2
<1>7. new[1] = IF lrp.image # NoImage THEN [a[1] EXCEPT !.image = lrp.image] ELSE a[1]
  BY <1>6 DEF new, Reimaged
<1>8. /\ new[1] = [f \in DOMAIN new[1] |-> new[1][f]]
      /\ lrp.image # NoImage => new[1].image = lrp.image
  BY <1>1, <1>6, <1>7
<1>9. Unimaged(new) = Unimaged(a)
  <2>1. DOMAIN new = DOMAIN a
    BY DEF new, Reimaged
  <2>2. \A i \in DOMAIN a : \/ new[i] = a[i]
                            \/ new[i] = [a[i] EXCEPT !.image = lrp.image]
    BY DEF new, Reimaged
  <2>3. \A c, image : [[c EXCEPT !.image = image] EXCEPT !.image = NoImage] = [c EXCEPT !.image = NoImage]
    OBVIOUS
  <2>4. \A i \in DOMAIN a : [new[i] EXCEPT !.image = NoImage] = [a[i] EXCEPT !.image = NoImage]
    BY <2>2, <2>3
  <2> QED BY <2>1, <2>4 DEF Unimaged
<1>10. /\ updated.replicas = Int32(lrp.instances) /\ updated.template.pullSecrets = secrets
       /\ updated.template.containers = new
  BY <1>4 DEF StatefulSetOf
<1>11. Unimaged(new) = Unimaged(ContainersWith(lrp, envs))
  BY <1>2, <1>9 DEF b
<1>12. AsFresh(lrp, updated) /\ UpToDate(lrp, updated)
  BY <1>1, <1>4, <1>8, <1>10, <1>11 DEF AsFresh, UpToDate
<1> QED BY <1>12 DEF updated

(* Every step keeps StatefulSets as fresh, and reconciled ones up to date.    *)
LEMMA KeptAsNewStep ==
    ASSUME LrpsApart, Owned, KeptAsNew, [Next]_vars
    PROVE  KeptAsNew'
<1>a. \A k \in Keys : Present(k) => lrps[k][1] \in Specs[k] /\ SidecarsTyped(lrps[k][1])
  <2> TAKE k \in Keys
  <2> HAVE Present(k)
  <2>1. lrps[k][1] \in Specs[k]
    BY DEF Owned, LrpsStored, Present
  <2> QED BY <2>1, EnvironmentAssumption DEF SidecarsTyped
<1>b. \A s \in stss : Named(s) /\ s.owner \in Keys /\ Present(s.owner)
  BY DEF Owned, Named
<1>1. ASSUME NEW k \in Keys, UserCreates(k) PROVE KeptAsNew'
  <2>1. PICK spec \in Specs[k] : lrps' = [lrps EXCEPT ![k] = <<spec>>]
    BY <1>1 DEF UserCreates
  <2>2. \A s \in stss : lrps'[s.owner] = lrps[s.owner]
    BY <1>1, <1>b, <2>1 DEF UserCreates, Owned, LrpsStored
  <2>3. UNCHANGED <<stss, reconciled>>
    BY <1>1 DEF UserCreates
  <2> QED BY <2>2, <2>3 DEF KeptAsNew
<1>2. ASSUME NEW k \in Keys, UserEdits(k) PROVE KeptAsNew'
  <2>1. PICK spec \in Specs[k] : /\ ChangeAdmitted(spec, lrps[k][1])
                                 /\ lrps' = [lrps EXCEPT ![k] = <<spec>>]
    BY <1>2 DEF UserEdits
  <2>2. stss' = stss /\ reconciled' = reconciled \ {k} /\ Present(k)
    BY <1>2 DEF UserEdits
  <2>3. lrps'[k][1] = spec /\ \A n \in Keys \ {k} : lrps'[n] = lrps[n]
    BY <2>1 DEF Owned, LrpsStored
  <2> SUFFICES ASSUME NEW s \in stss
               PROVE  /\ AsFresh(lrps'[s.owner][1], s.sts)
                      /\ s.owner \in reconciled' => UpToDate(lrps'[s.owner][1], s.sts)
    BY <2>2 DEF KeptAsNew
  <2>4. CASE s.owner = k
    <3>1. AsFresh(lrps[k][1], s.sts)
      BY <2>4 DEF KeptAsNew
    <3>2. AsFresh(spec, s.sts)
      BY <1>a, <2>1, <2>2, <3>1, EditKeepsFresh
    <3> QED BY <2>2, <2>3, <2>4, <3>2
  <2>5. CASE s.owner # k
    <3>1. lrps'[s.owner] = lrps[s.owner]
      BY <1>b, <2>3, <2>5
    <3> QED BY <2>2, <3>1 DEF KeptAsNew
  <2> QED BY <2>4, <2>5
<1>3. ASSUME NEW k \in Keys, Desire(k) PROVE KeptAsNew'
  <2> DEFINE lrp == lrps[k][1]
             name == GetStatefulsetName(lrp)
  <2>1. PICK sts \in Convert(name, lrp, RegistrySecretOf(lrp)) :
          stss' = stss \cup {[owner |-> k, sts |-> sts]}
    BY <1>3 DEF Desire
  <2>2. lrps' = lrps /\ reconciled' = reconciled \cup {k} /\ Present(k)
    BY <1>3 DEF Desire
  <2>3. PICK new : new = [owner |-> k, sts |-> sts]
    OBVIOUS
  <2>4. new.owner = k /\ new.sts = sts /\ stss' = stss \cup {new}
    BY <2>1, <2>3
  <2>5. AsFresh(lrp, sts) /\ UpToDate(lrp, sts)
    BY <1>a, <2>1, <2>2, ConvertIsFresh
  <2>6. \A s \in stss : s.owner # k
    <3>1. \A s \in stss : s.sts.name # name
      BY <1>3 DEF Desire
    <3> QED BY <1>b, <3>1 DEF Named
  <2>7. \A s \in stss : /\ AsFresh(lrps'[s.owner][1], s.sts)
                        /\ s.owner \in reconciled' => UpToDate(lrps'[s.owner][1], s.sts)
    BY <2>2, <2>6 DEF KeptAsNew
  <2> QED BY <2>2, <2>4, <2>5, <2>7 DEF KeptAsNew
<1>4. ASSUME NEW k \in Keys, Update(k) PROVE KeptAsNew'
  <2> DEFINE lrp == lrps[k][1]
  <2>1. PICK s \in stss :
          /\ s.sts.name = GetStatefulsetName(lrp)
          /\ stss' = (stss \ {s}) \cup {[s EXCEPT !.sts = UpdatedStatefulSet(s.sts, lrp)]}
    BY <1>4 DEF Update
  <2>2. lrps' = lrps /\ reconciled' = reconciled \cup {k} /\ Present(k)
    BY <1>4 DEF Update
  <2>3. s.owner = k
    <3>1. s.owner \in Keys /\ lrps[s.owner][1] \in Specs[s.owner] /\ lrp \in Specs[k]
      BY <1>a, <1>b, <2>2
    <3>2. GetStatefulsetName(lrps[s.owner][1]) = GetStatefulsetName(lrp)
      BY <1>b, <2>1 DEF Named
    <3> QED BY <3>1, <3>2 DEF LrpsApart
  <2>4. PICK new : new = [owner |-> k, sts |-> UpdatedStatefulSet(s.sts, lrp)]
    OBVIOUS
  <2>5. new.owner = k /\ new.sts = UpdatedStatefulSet(s.sts, lrp) /\ stss' = (stss \ {s}) \cup {new}
    <3>1. s = [owner |-> s.owner, sts |-> s.sts]
      BY <1>b DEF Named
    <3>2. [s EXCEPT !.sts = UpdatedStatefulSet(s.sts, lrp)]
            = [owner |-> s.owner, sts |-> UpdatedStatefulSet(s.sts, lrp)]
      BY <3>1
    <3> QED BY <2>1, <2>3, <2>4, <3>2
  <2>6. AsFresh(lrp, s.sts)
    BY <2>3 DEF KeptAsNew
  <2>7. AsFresh(lrp, new.sts) /\ UpToDate(lrp, new.sts)
    BY <1>a, <2>2, <2>5, <2>6, UpdatedIsFresh
  <2>8. \A t \in stss \ {s} : t.owner # k
    <3>1. ASSUME NEW t \in stss, t.owner = k PROVE t = s
      <4>1. t.sts.name = GetStatefulsetName(lrps[t.owner][1])
        BY <1>b DEF Named
      <4>2. t.sts.name = s.sts.name
        BY <2>1, <3>1, <4>1
      <4> QED BY <4>2 DEF Owned, NamesApart
    <3> QED BY <3>1
  <2>9. \A t \in stss \ {s} : /\ AsFresh(lrps'[t.owner][1], t.sts)
                              /\ t.owner \in reconciled' => UpToDate(lrps'[t.owner][1], t.sts)
    BY <2>2, <2>8 DEF KeptAsNew
  <2> QED BY <2>2, <2>5, <2>7, <2>9 DEF KeptAsNew
<1>5. CASE \/ \E s \in stss : PodStarts(s)
           \/ PodStops
           \/ \E task \in TaskSpecs : TaskRuns(task)
           \/ UNCHANGED vars
  <2>1. UNCHANGED <<lrps, reconciled, stss>>
    BY <1>5 DEF PodStarts, PodStops, TaskRuns, vars
  <2> QED BY <2>1 DEF KeptAsNew
<1> QED BY <1>1, <1>2, <1>3, <1>4, <1>5 DEF Next

(* An edited and reconciled LRP has the StatefulSet it would get if it were     *)
(* created now, whatever else its user sends and however often: what the        *)
(* webhook lets change is what the Updater carries over, for all LRPs of which  *)
(* no two have the same GUID and version or the same name.  The images of       *)
(* sidecars and, of a private registry, the credentials are not compared        *)
(* (getUpdatedStatefulSetObj, lrpMutableFields, Convert).                       *)
THEOREM UpdatesMissNothing == LrpsApart => (Spec => []UpdatedAsIfNew)
<1> SUFFICES ASSUME LrpsApart PROVE Spec => []UpdatedAsIfNew
  OBVIOUS
<1>1. Init => Owned /\ KeptAsNew
  BY DEF Init, Owned, LrpsStored, NamesApart, KeptAsNew
<1>2. Owned /\ KeptAsNew /\ [Next]_vars => (Owned /\ KeptAsNew)'
  BY OwnedStep, KeptAsNewStep
<1>3. Owned /\ KeptAsNew => UpdatedAsIfNew
  <2> SUFFICES ASSUME Owned, KeptAsNew, NEW k \in reconciled, NEW s \in stss,
                      s.owner = k, lrps[k][1].image # NoImage
               PROVE  \E fresh \in Convert(GetStatefulsetName(lrps[k][1]), lrps[k][1],
                                           RegistrySecretOf(lrps[k][1])) :
                         Comparable(lrps[k][1], s.sts) = Comparable(lrps[k][1], fresh)
    BY DEF UpdatedAsIfNew
  <2>1. k \in Keys /\ lrps[k][1] \in Specs[k]
    <3>1. Named(s)
      BY DEF Owned
    <3>2. k \in Keys /\ lrps[k] # <<>>
      BY <3>1 DEF Named, Present
    <3> QED BY <3>2 DEF Owned, LrpsStored
  <2>2. SidecarsTyped(lrps[k][1])
    BY <2>1, EnvironmentAssumption DEF SidecarsTyped
  <2>3. AsFresh(lrps[k][1], s.sts) /\ UpToDate(lrps[k][1], s.sts)
    BY DEF KeptAsNew
  <2> QED BY <2>2, <2>3, FreshIsAsNew
<1> QED BY <1>1, <1>2, <1>3, PTL DEF Spec

=============================================================================
