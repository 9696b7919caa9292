----------------------------- MODULE RayBarrier -----------------------------
(***************************************************************************)
(* What the ledger and its dispatcher promise of the GPUs, whatever is     *)
(* cancelled, lost or restarted (docs/architecture.md, "RayLight"): the    *)
(* host sees one Director generation at a time; a generation runs on the   *)
(* only actor pool there is; a pool on which a generation did not succeed  *)
(* runs nothing more, nor does one that a RayKill shut down; a RayKill     *)
(* takes no pool away but the one it is meant for.                         *)
(*                                                                         *)
(* A pool is called by its epoch.                                          *)
(***************************************************************************)
CONSTANTS Generations, Epochs

VARIABLES
    visible,   \* the generations in the host's queue, each with its epoch
    running,   \* the worker executes a generation
    pools,     \* actor pools alive
    dead,      \* shut down by a RayKill
    spoiled    \* epochs of generations that ended without success

vars == <<visible, running, pools, dead, spoiled>>

Init ==
    /\ visible = {} /\ ~running
    /\ pools = {} /\ dead = {} /\ spoiled = {}

(* The host takes a generation g of epoch e in. *)
Enter ==
    /\ visible = {}
    /\ \E g \in Generations, e \in Epochs : visible' = {<<g, e>>}
    /\ UNCHANGED <<running, pools, dead, spoiled>>

(* It starts on the pool it continues, or builds the only one. *)
Begin ==
    /\ ~running
    /\ \E v \in visible :
          /\ visible = {v}
          /\ v[2] \notin dead \cup spoiled
          /\ pools \subseteq {v[2]}
          /\ pools' = {v[2]}
    /\ running' = TRUE
    /\ UNCHANGED <<visible, dead, spoiled>>

Succeed ==
    /\ running
    /\ visible' = {} /\ running' = FALSE
    /\ UNCHANGED <<pools, dead, spoiled>>

(* It fails, is interrupted, or leaves the queue before it started. *)
Fail ==
    /\ \E v \in visible : visible = {v} /\ spoiled' = spoiled \cup {v[2]}
    /\ visible' = {} /\ running' = FALSE
    /\ UNCHANGED <<pools, dead>>

(* It never reaches the host. *)
Miss ==
    /\ UNCHANGED <<visible, running, pools, dead>>
    /\ \E e \in Epochs : spoiled' = spoiled \cup {e}

(* A RayKill begins with the loader chain of the pool it is meant for. *)
Replay ==
    /\ ~running
    /\ \E e \in Epochs : pools \subseteq {e} /\ pools' = {e}
    /\ UNCHANGED <<visible, running, dead, spoiled>>

(* It ends: nothing runs, and no pool but the one it is meant for goes.    *)
(* Without success the pool may be gone as well, but nobody counts on it.  *)
Shutdown ==
    /\ ~running
    /\ \E e \in Epochs : pools \subseteq {e} /\ dead' \in {dead, dead \cup {e}}
    /\ pools' = {}
    /\ UNCHANGED <<visible, running, spoiled>>

(* The host process starts again: nothing it held survives. *)
Reboot ==
    /\ visible' = {} /\ running' = FALSE /\ pools' = {}
    /\ spoiled \subseteq spoiled' /\ spoiled' \subseteq Epochs
    /\ UNCHANGED dead

Next == Enter \/ Begin \/ Succeed \/ Fail \/ Miss \/ Replay \/ Shutdown \/ Reboot

Spec == Init /\ [][Next]_vars
=============================================================================
