----------------------------- MODULE CrashLedger ----------------------------
(***************************************************************************)
(* What the PodCrash controller promises, without caches, queues or calls: *)
(* the Events of an index and a reason count terminations that happened,   *)
(* one at a time and never downwards, and a termination the controller     *)
(* takes for reported has been counted.                                    *)
(***************************************************************************)
EXTENDS Naturals

CONSTANTS Crashes, Keys, KeyOf(_)

VARIABLES
    crashed,    \* terminations that happened
    reported,   \* those the controller is done with
    tally       \* for each key, the counts of its Events together

vars == <<crashed, reported, tally>>

Init == crashed = {} /\ reported = {} /\ tally = [k \in Keys |-> 0]

Crash(c) == crashed' = crashed \cup {c} /\ UNCHANGED <<reported, tally>>

(* The controller may learn of what it counted, or count it again. *)
Count(c) == /\ c \in crashed
            /\ tally' = [tally EXCEPT ![KeyOf(c)] = @ + 1]
            /\ reported' \in {reported, reported \cup {c}}
            /\ UNCHANGED crashed

Next == \E c \in Crashes : Crash(c) \/ Count(c)

Spec == Init /\ [][Next]_vars
=============================================================================
