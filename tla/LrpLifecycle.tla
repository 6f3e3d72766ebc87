---------------------------- MODULE LrpLifecycle ----------------------------
(***************************************************************************)
(* What the LRP controller promises, without caches, queues or calls, for  *)
(* the LRPs of one key: the app runs what versions of the LRP asked for    *)
(* and moves on to newer ones, the status shows a readiness the app had,   *)
(* and the budget comes and goes as a version asks for it.                 *)
(***************************************************************************)
EXTENDS Naturals

CONSTANTS Instances, Images, NoImage

VARIABLES
    wanted,                 \* the LRP, its replicas those of its status
    app,                    \* its StatefulSet
    rev,                    \* the version the app was last brought to
    budget,                 \* the app whose pods the budget protects, 0 without one
    versions, sightings,    \* what may still be known of LRPs and of apps
    troubled,               \* some call has failed
    count                   \* LRPs, versions and apps so far

vars == <<wanted, app, rev, budget, versions, sightings, troubled, count>>

NoVersion == [uid |-> 0, rev |-> 0, instances |-> 0, image |-> NoImage, replicas |-> 0]
NoApp == [uid |-> 0, owner |-> 0, replicas |-> 0, image |-> NoImage, secret |-> 0, ready |-> 0]

Exists(obj) == obj.uid # 0

Init == /\ wanted = NoVersion /\ app = NoApp /\ rev = 0 /\ budget = 0
        /\ versions = {} /\ sightings = {} /\ troubled = FALSE
        /\ count = [lrps |-> 0, revs |-> 0, apps |-> 0]

(* What was known may be forgotten at any time; nothing is made up. *)
Knows(moreVersions, moreApps) == /\ versions' \subseteq versions \cup moreVersions
                                 /\ sightings' \subseteq sightings \cup moreApps
KnowsNoMore == Knows({}, {})
Tries == troubled' \in {troubled, TRUE}

-----------------------------------------------------------------------------
(* The user *)

Create == /\ ~Exists(wanted)
          /\ count' = [count EXCEPT !.lrps = @ + 1, !.revs = @ + 1]
          /\ \E n \in Instances, image \in Images :
               wanted' = [uid |-> count'.lrps, rev |-> count'.revs, instances |-> n, image |-> image,
                          replicas |-> 0]
          /\ Knows({wanted'}, {})
          /\ UNCHANGED <<app, rev, budget, troubled>>

Edit == /\ Exists(wanted)
        /\ count' = [count EXCEPT !.revs = @ + 1]
        /\ \E n \in Instances, image \in Images :
             wanted' = [wanted EXCEPT !.rev = count'.revs, !.instances = n, !.image = image]
        /\ Knows({wanted'}, {})
        /\ UNCHANGED <<app, rev, budget, troubled>>

Delete == /\ Exists(wanted)
          /\ wanted' = NoVersion
          /\ KnowsNoMore
          /\ UNCHANGED <<app, rev, budget, troubled, count>>

-----------------------------------------------------------------------------
(* The controller *)

(* Which registry secret the app names is left open.                          *)
Start(v) == /\ ~Exists(app) /\ v.image # NoImage
            /\ count' = [count EXCEPT !.apps = @ + 1]
            /\ app'.uid = count'.apps /\ app'.owner = v.uid
            /\ app'.replicas = v.instances /\ app'.image = v.image /\ app'.ready = 0
            /\ rev' = v.rev
            /\ Knows({}, {app'}) /\ Tries
            /\ UNCHANGED <<wanted, budget>>

(* What the controller takes for unchanged stays. The app goes back to an     *)
(* older version only after an error, or if the LRP of that version is gone.  *)
Follow(v) == /\ Exists(app)
             /\ v.rev >= rev \/ v.uid # wanted.uid \/ troubled
             /\ rev' = v.rev
             /\ \E n \in {app.replicas, v.instances}, image \in {app.image, v.image} :
                  /\ image = NoImage => app.image = NoImage
                  /\ app' = [app EXCEPT !.replicas = n, !.image = image]
             /\ Knows({}, {app'}) /\ Tries
             /\ UNCHANGED <<wanted, budget, count>>

Show(a) == /\ Exists(wanted)
           /\ wanted' = [wanted EXCEPT !.replicas = a.ready]
           /\ Knows({wanted'}, {}) /\ Tries
           /\ UNCHANGED <<app, rev, budget, count>>

Protect(v, a) == /\ budget = 0 /\ v.instances > 1
                 /\ budget' = a.uid
                 /\ KnowsNoMore /\ Tries
                 /\ UNCHANGED <<wanted, app, rev, count>>

Unprotect(v) == /\ v.instances <= 1
                /\ budget' = 0
                /\ KnowsNoMore /\ Tries
                /\ UNCHANGED <<wanted, app, rev, count>>

(* A step of which nothing is to be seen *)
Think == /\ UNCHANGED <<wanted, app, rev, budget, count>>
         /\ KnowsNoMore /\ Tries

-----------------------------------------------------------------------------
(* The cluster *)

PodsChange == /\ Exists(app)
              /\ \E n \in 0 .. app.replicas : app' = [app EXCEPT !.ready = n]
              /\ Knows({}, {app'})
              /\ UNCHANGED <<wanted, rev, budget, troubled, count>>

CollectApp == /\ app.owner # wanted.uid
              /\ app' = NoApp
              /\ KnowsNoMore
              /\ UNCHANGED <<wanted, rev, budget, troubled, count>>

CollectBudget == /\ budget # app.uid
                 /\ budget' = 0
                 /\ KnowsNoMore
                 /\ UNCHANGED <<wanted, app, rev, troubled, count>>

Next == \/ Think
        \/ Create \/ Edit \/ Delete
        \/ PodsChange \/ CollectApp \/ CollectBudget
        \/ \E a \in sightings : Show(a)
        \/ \E v \in versions : \/ Start(v) \/ Follow(v) \/ Unprotect(v)
                               \/ \E a \in sightings : Protect(v, a)

Spec == Init /\ [][Next]_vars
=============================================================================
