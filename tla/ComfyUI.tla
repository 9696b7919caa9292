------------------------------ MODULE ComfyUI ------------------------------
(***************************************************************************)
(* The host's prompt queue, as Director sees it through POST /prompt,      *)
(* GET /queue, GET /history/<id> and POST /api/jobs/<id>/cancel.  The host *)
(* is outside the repository; this module states only what the client in   *)
(* backend/directordeck/comfy.py relies on.                                *)
(*                                                                         *)
(*   - A posted prompt may be admitted late (the handler is still          *)
(*     validating), refused with a 4xx, or never arrive.                   *)
(*   - One worker executes prompts, one at a time.                         *)
(*   - A directed cancel of a pending prompt removes it without a history  *)
(*     entry; of a running one, it asks the worker to stop and answers     *)
(*     before the worker has.                                              *)
(*   - History lives in the host's memory and may be forgotten.            *)
(***************************************************************************)
CONSTANT Prompts

VARIABLES
    up,         \* up[p]: where prompt p stands in the host
    forgotten   \* prompts whose history entry is gone

comfyVars == <<up, forgotten>>

Finished == {"success", "error", "interrupted"}
Executing == {"running", "stopping"}
InQueue == {"queued"} \cup Executing
HostStates ==
    {"unsent", "flight", "lost", "refused", "removed"} \cup InQueue \cup Finished

ComfyInit ==
    /\ up = [p \in Prompts |-> "unsent"]
    /\ forgotten = {}

----------------------------------------------------------------------------
(* What the client can read. *)

Visible(p) == up[p] \in InQueue

History(p) == IF up[p] \in Finished /\ p \notin forgotten THEN up[p] ELSE "absent"

WorkerFree == \A q \in Prompts : up[q] \notin Executing

----------------------------------------------------------------------------
(* What the host does on its own. *)

HostMove(p, from, to) ==
    /\ up[p] \in from
    /\ up' = [up EXCEPT ![p] = to]
    /\ UNCHANGED forgotten

HostAdmit(p)  == HostMove(p, {"flight"}, "queued")
HostRefuse(p) == HostMove(p, {"flight"}, "refused")
HostLose(p)   == HostMove(p, {"flight"}, "lost")
HostStart(p)  == WorkerFree /\ HostMove(p, {"queued"}, "running")

HostFinish(p) ==
    \/ \E r \in {"success", "error"} : HostMove(p, {"running"}, r)
    \/ \E r \in Finished : HostMove(p, {"stopping"}, r)

(* A person removes a pending prompt, or interrupts the running one, in the *)
(* host's own page.                                                         *)
HostDrop(p) ==
    \/ HostMove(p, {"queued"}, "removed")
    \/ HostMove(p, {"running"}, "stopping")

HostForget(p) ==
    /\ up[p] \in Finished
    /\ p \notin forgotten
    /\ forgotten' = forgotten \cup {p}
    /\ UNCHANGED up

(* The host process dies and starts again: its queue and history are empty. *)
HostReboot ==
    /\ up' = [p \in Prompts |->
                IF up[p] \in InQueue \cup {"flight"} THEN "lost" ELSE up[p]]
    /\ forgotten' = {p \in Prompts : up[p] \in Finished}

----------------------------------------------------------------------------
(* The directed cancel: TRUE exactly when the host acted on the prompt. *)

CancelAccepted(p) == Visible(p)

CancelEffect(p) ==
    up' = [up EXCEPT ![p] = IF @ = "queued" THEN "removed" ELSE "stopping"]
============================================================================
