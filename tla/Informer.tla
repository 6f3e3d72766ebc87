------------------------------ MODULE Informer ------------------------------
(***************************************************************************)
(* What the controllers rely on of the informer cache behind               *)
(* manager.GetClient() (controller-runtime, outside src/): reads are       *)
(* answered by a local copy, the API server's changes reach that copy one  *)
(* at a time and in order, and a write that changes nothing sends nothing. *)
(*                                                                         *)
(* A kind of object is one cached version and the sequence of the versions *)
(* that are still on their way to it.                                      *)
(***************************************************************************)
EXTENDS Sequences, Naturals

(* The versions on their way once the stored object goes from old to new. *)
Published(watch, old, new) == IF new = old THEN watch ELSE Append(watch, new)

(* The version the cache shows when everything on its way has arrived. *)
Newest(cache, watch) == IF watch = <<>> THEN cache ELSE watch[Len(watch)]
=============================================================================
