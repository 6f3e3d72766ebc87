--------------------------- MODULE TaskLifecycle ----------------------------
(***************************************************************************)
(* What the Task controller promises, without caches, queues or calls: the *)
(* command of a Task runs once, the Task's conditions tell what became of  *)
(* it and are never taken back, and the Job stays until they have told the *)
(* outcome.                                                                *)
(***************************************************************************)
EXTENDS Naturals

CONSTANT Uids

VARIABLES
    live,       \* Tasks that exist
    runs,       \* number of Jobs created for each Task
    kept,       \* Tasks whose Job exists
    ended,      \* <<Task, outcome of its Job>>
    reported    \* conditions of each Task that exists

vars == <<live, runs, kept, ended, reported>>

Outcome(u) == {end \in {"succeeded", "failed"} : <<u, end>> \in ended}

True(u) ==
    (IF runs[u] > 0 THEN {"Initialized", "Started"} ELSE {})
    \cup (IF "succeeded" \in Outcome(u) THEN {"Succeeded"} ELSE {})
    \cup (IF "failed" \in Outcome(u) THEN {"Failed"} ELSE {})

Init == /\ live = {} /\ runs = [u \in Uids |-> 0] /\ kept = {} /\ ended = {}
        /\ reported = [u \in Uids |-> {}]

Create(u) == /\ u \notin live /\ runs[u] = 0
             /\ live' = live \cup {u}
             /\ UNCHANGED <<runs, kept, ended, reported>>

Delete(u) == /\ u \in live
             /\ live' = live \ {u} /\ reported' = [reported EXCEPT ![u] = {}]
             /\ UNCHANGED <<runs, kept, ended>>

(* Only the cached copy of a deleted Task may be run again. *)
Run(u) == /\ u \notin kept /\ (runs[u] = 0 \/ u \notin live)
          /\ runs' = [runs EXCEPT ![u] = @ + 1] /\ kept' = kept \cup {u}
          /\ UNCHANGED <<live, ended, reported>>

End(u) == /\ u \in kept
          /\ Outcome(u) = {} \/ u \notin live
          /\ \E end \in {"succeeded", "failed"} : ended' = ended \cup {<<u, end>>}
          /\ UNCHANGED <<live, runs, kept, reported>>

Report(u) == /\ u \in live
             /\ \E conds \in SUBSET True(u) : /\ reported[u] \subseteq conds
                                              /\ reported' = [reported EXCEPT ![u] = conds]
             /\ UNCHANGED <<live, runs, kept, ended>>

Remove(u) == /\ u \in kept
             /\ u \in live => reported[u] \cap {"Succeeded", "Failed"} # {}
             /\ kept' = kept \ {u}
             /\ UNCHANGED <<live, runs, ended, reported>>

Next == \E u \in Uids : Create(u) \/ Delete(u) \/ Run(u) \/ End(u) \/ Report(u) \/ Remove(u)

Spec == Init /\ [][Next]_vars
=============================================================================
