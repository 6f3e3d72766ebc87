----------------------------- MODULE MCPodCrash -----------------------------
(* Instances of two LRPs with the same index. *)
EXTENDS PodCrash

LrpOfPod == [p \in Pods |-> CHOOSE l \in Lrps : l = "lrp-" \o p]
OneIndex == [p \in Pods |-> 0]
=============================================================================
