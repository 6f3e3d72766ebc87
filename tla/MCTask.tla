------------------------------- MODULE MCTask -------------------------------
(***************************************************************************)
(* Every Task has a Job name of its own.  GetJobName does not promise it:  *)
(* the name is made of the Task's app name, space name and Spec.Name, and  *)
(* two Tasks of one app and space may have the same Spec.Name, or none.    *)
(***************************************************************************)
EXTENDS Task

OwnNames == [t \in Tasks |-> CHOOSE j \in JobNames : j = t]
=============================================================================
