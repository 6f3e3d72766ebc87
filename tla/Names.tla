------------------------------- MODULE Names --------------------------------
(***************************************************************************)
(* The names of k8s/utils/names.go and the parsers of util: the StatefulSet*)
(* of an LRP, the Job of a Task, the index in a pod's name, the registry   *)
(* in an image's.                                                          *)
(*                                                                         *)
(* A string is a sequence of characters; a decimal number and a hash are   *)
(* one character each.  Whatever is not listed as an upper-case letter or  *)
(* as special is one of [a-z0-9].                                          *)
(***************************************************************************)
EXTENDS SequencesExt

CONSTANTS
    SanitizedNameMaxLen,      \* 40 in the code
    SanitizedJobNameMaxLen,   \* 50 in the code
    MaxIndex                  \* bound: numbers at the end of a pod's name

ASSUME LengthsAssumption == /\ SanitizedNameMaxLen \in Nat \ {0}
                            /\ SanitizedJobNameMaxLen \in Nat \ {0}
                            /\ MaxIndex \in Nat

Dash == <<"-">>
LowerCase == [A |-> "a", B |-> "b", S |-> "s"]
Special == {"-", ".", "_", " "} \cup DOMAIN LowerCase
Alphanumeric(c) == c \notin Special

(* validNameRegex: a DNS-1123 subdomain *)
ValidName(name) ==
    /\ name # <<>>
    /\ \A i \in DOMAIN name :
         /\ Alphanumeric(name[i]) \/ (name[i] \in {"-", "."} /\ i \notin {1, Len(name)})
         /\ name[i] = "." => Alphanumeric(name[i - 1]) /\ Alphanumeric(name[i + 1])

TruncateString(str, num) == IF Len(str) > num THEN SubSeq(str, 1, num) ELSE str

Lowered(c) == CASE c \in DOMAIN LowerCase -> LowerCase[c]
                [] c = "_" -> "-"
                [] OTHER -> c

SanitizedWithoutFallback(name, fallback, maxLen) ==     \* mutated form: no validation
    TruncateString([i \in DOMAIN name |-> Lowered(name[i])], maxLen)

SanitizeName(name, fallback, maxLen) ==
    LET sanitized == [i \in DOMAIN name |-> Lowered(name[i])]
    IN  TruncateString(IF ValidName(sanitized) THEN sanitized ELSE fallback, maxLen)

(* Ten hexadecimal digits of a SHA-256, taken to differ for different strings. *)
Hash(str) == <<ToString(str)>>

NamePrefix(app) ==
    SanitizeName(app.appName \o Dash \o app.spaceName, app.guid, SanitizedNameMaxLen)

ProcessGuid(lrp) == lrp.guid \o Dash \o lrp.version

NameWithoutHash(lrp) == NamePrefix(lrp)     \* mutated form

GetStatefulsetName(lrp) == NamePrefix(lrp) \o Dash \o Hash(ProcessGuid(lrp))

GetJobName(task) ==
    SanitizeName(IF task.name # <<>> THEN NamePrefix(task) \o Dash \o task.name ELSE NamePrefix(task),
                 task.guid, SanitizedJobNameMaxLen)

-----------------------------------------------------------------------------
Decimal(n) == <<ToString(n)>>
NoIndex == 0 - 1        \* the error of ParseAppIndex

ASSUME DecimalsAssumption ==
    \A n \in 0 .. MaxIndex :
      /\ ToString(n) # "-"
      /\ \A m \in 0 .. MaxIndex : Decimal(m) = Decimal(n) => m = n

ParseAppIndex(podName) ==
    LET dash == SelectLastInSeq(podName, LAMBDA c : c = "-")
        part == SubSeq(podName, dash + 1, Len(podName))
    IN  IF dash # 0 /\ \E n \in 0 .. MaxIndex : part = Decimal(n)
        THEN CHOOSE n \in 0 .. MaxIndex : part = Decimal(n)
        ELSE NoIndex

(* An image is [host, path]: dockerRX wants two parts behind the host, and its *)
(* first group leaves the port out.                                            *)
DockerHubHost == "index.docker.io/v1/"
ParseImageRegistryHost(image) == IF Len(image.path) >= 2 THEN image.host ELSE DockerHubHost
=============================================================================
