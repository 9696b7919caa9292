--------------------------- MODULE PromptOwnership ---------------------------
(***************************************************************************)
(* Who may settle one prompt.  A child row of a job owns one prompt of a   *)
(* segment; prompt_ownership records how far Director's claim on it got.   *)
(* Five kinds of coroutine act on the two rows at once:                    *)
(*   - the dispatcher that posts the prompt and, when that fails, cleans   *)
(*     up behind itself;                                                   *)
(*   - requests to cancel the job;                                         *)
(*   - the recovery worker, which keeps cancelling what a failed           *)
(*     submission or a dead process left;                                  *)
(*   - the sync flight that reads the host's queue and history;            *)
(*   - the websocket sink for progress events.                             *)
(* A step runs from one await to the next.  Across its await a coroutine   *)
(* keeps a revision of the ownership, or a version of the child row, and   *)
(* what it writes next is a compare-and-set on it.  Versions only ever     *)
(* serve to be compared, so the model keeps the sets of coroutines whose   *)
(* copy is current: "held" for the ownership, "fresh" for the sync flight  *)
(* and the child row.                                                      *)
(*                                                                         *)
(* Left out: other children of the job, assembly, the RayLight ledger (see *)
(* RayLedger), a host that renames prompts, prompts of no segment.         *)
(***************************************************************************)
EXTENDS Integers, FiniteSets

CONSTANTS
    Users,        \* requests to cancel that may be under way together
    Disturbances  \* what may go wrong or be asked for

ASSUME UsersAssumption == Users \cap {"dispatcher", "worker", "sync"} = {}

Prompts == {1}

VARIABLES
    up, forgotten,  \* the host: see ComfyUI
    oldBoot,        \* the prompt was posted to an earlier boot of the host
    own,            \* prompt_ownership.state
    child,          \* (status, stage) of the child row
    receipt,        \* an output receipt is recorded: the host reported success
    job,            \* (status, stage) of the parent row
    wanted,         \* jobs.cancel_requested
    pc, duty,       \* where each coroutine is; why the dispatcher cancels
    adopted,        \* requests that claimed a recovery-owned child
    held, fresh,    \* whose copy is current
    seen            \* what the sync flight has read from the host

dbVars == <<own, child, receipt, job, wanted>>
flightVars == <<pc, duty, adopted, held, fresh, seen>>
hostVars == <<up, forgotten, oldBoot>>
vars == <<hostVars, dbVars, flightVars>>

INSTANCE ComfyUI

Cancellers == Users \cup {"dispatcher", "worker"}
Coroutines == Cancellers \cup {"sync"}

----------------------------------------------------------------------------
(* The rows.                                                               *)
(*                                                                         *)
(* own: "none" without a row, else the state; "owned" is both              *)
(* owned_requested_id and owned_actual_id.                                 *)
(* child: "prepared" is preparing without a prompt id.  "submitting" and   *)
(* "cancelSubmit" are the stages submitting and cancelling_during_submit.  *)
(* "cancelling" is any other status cancelling but "certificate" (the      *)
(* stage restart_certificate_required) and "recovery" (the other stages of *)
(* _RECOVERY_OWNERSHIP_STAGES, submission_cancel_pending and so on).       *)
(* job: "recovering" is cancelling in a stage the recovery worker lists.   *)

Confirmed == {"cleanup_confirmed", "terminal_confirmed"}
OwnershipStates ==
    {"none", "submitting", "owned", "cancel_pending", "unconfirmed"} \cup Confirmed

Terminal == {"succeeded", "failed", "cancelled"}
Submitting == {"submitting", "cancelSubmit"}
Recovery == {"recovery", "certificate"}
Active == {"queued", "running", "cancelling"}
ChildStates == {"prepared"} \cup Submitting \cup Active \cup Recovery \cup Terminal

JobStates == {"preparing", "published", "cancelling", "recovering", "certificate", "terminal"}

Over(c) == c \in Terminal

(* The parent follows its one child into a terminal status and stays there. *)
JobOf(c, j) == IF Over(c) \/ job = "terminal" THEN "terminal" ELSE j

----------------------------------------------------------------------------
(* Writes to the ownership.  Every transition increments the revision, so  *)
(* only the writer's copy stays current.                                   *)

Transition(state, writer) ==
    /\ own' = state
    /\ held' = writer

(* _claim_typed_prompt_cancel: a claim someone else made is shared. *)
ClaimCancel(s) ==
    IF own = "cancel_pending" THEN Transition(own, held \cup {s})
    ELSE Transition("cancel_pending", {s})

(* Mutant: the claim is not compared with the ownership. *)
MarkUnconfirmedBlindly(s) == Transition("unconfirmed", {})

(* _mark_typed_prompt_unconfirmed with the claim of coroutine s *)
MarkUnconfirmed(s) ==
    IF s \in held THEN Transition("unconfirmed", {}) ELSE UNCHANGED <<own, held>>

(* _confirm_typed_exact_cancel with the claim of coroutine s *)
ConfirmCancel(s) ==
    IF s \in held
    THEN /\ Transition("cleanup_confirmed", {})
         /\ child' = "cancelled"
         /\ job' = "terminal"
    ELSE UNCHANGED <<own, held, child, job>>

(* confirm_prompt_terminal, record_output_observation_receipt and          *)
(* fail_successful_history_artifact: exact history releases the prompt.    *)
CommitHistory(result) ==
    /\ Transition("terminal_confirmed", {})
    /\ receipt' = (result = "success")
    /\ child' \in CASE result = "success" -> {"running"} \cup ({"failed"} \cap Disturbances)
                    [] result = "error" -> {"failed"}
                    [] result = "interrupted" -> {"cancelled"}

(* _observe_output_receipt: published, unusable, or to be probed again. *)
Observe ==
    /\ child' \in {"succeeded", child} \cup ({"failed"} \cap Disturbances)
    /\ UNCHANGED <<own, held, receipt>>

(* _sync_timeline_child with a history entry *)
ApplyHistory(result) ==
    IF receipt THEN Observe ELSE CommitHistory(result)

Goto(s, where) == pc' = [pc EXCEPT ![s] = where]

(* No other coroutine than the writer keeps a current child row. *)
TouchChild(c) ==
    /\ child' = c
    /\ fresh' = FALSE

----------------------------------------------------------------------------
(* The dispatcher. *)

(* persist_job_child_submission_intent; POST /prompt starts. *)
Submit ==
    /\ pc["dispatcher"] = "start"
    /\ job = "preparing" /\ ~wanted
    /\ Transition("submitting", {"dispatcher"})
    /\ TouchChild("submitting")
    /\ up' = [up EXCEPT ![1] = "flight"]
    /\ Goto("dispatcher", "post")
    /\ UNCHANGED <<forgotten, oldBoot, receipt, job, wanted, duty, adopted, seen>>

(* _sync_timeline_before_cancel, called by coroutine s: a pass of the sync *)
(* flight may still find the prompt finished.  A flight under way is       *)
(* joined or replaced.                                                     *)
Probe(s) ==
    /\ \E begun \in {"begin"} \cup ({pc["sync"]} \ {"idle"}) :
          pc' = [pc EXCEPT ![s] = "probe", !["sync"] = begun]
    /\ job' = IF job \in {"preparing", "published"}
                 /\ (pc["dispatcher"] # "idle" \/ pc["sync"] # "idle")
              THEN "cancelling" ELSE job

(* The job was cancelled before its prompt was claimed: the dispatcher     *)
(* joins the cancel.                                                       *)
Withhold ==
    /\ pc["dispatcher"] = "start"
    /\ job # "preparing" \/ wanted
    /\ IF job = "terminal" THEN Goto("dispatcher", "idle") /\ UNCHANGED job
       ELSE Probe("dispatcher")
    /\ duty' = "cancel"
    /\ UNCHANGED <<hostVars, own, child, receipt, wanted, adopted, held, fresh, seen>>

Arrived == up[1] \in {"removed"} \cup InQueue \cup Finished

(* 200: the receipt is bound to the ownership the dispatcher started with; *)
(* if that moved on, the accepted prompt is cancelled inline.              *)
PostReturns ==
    /\ pc["dispatcher"] = "post"
    /\ Arrived
    /\ IF "dispatcher" \in held
       THEN /\ Transition("owned", {})
            /\ fresh' = FALSE
            /\ Goto("dispatcher", "bind")
            /\ UNCHANGED duty
       ELSE /\ Goto("dispatcher", "sent")
            /\ duty' = "inline"
            /\ UNCHANGED <<own, held, fresh>>
    /\ UNCHANGED <<hostVars, child, receipt, job, wanted, adopted, seen>>

(* The response is closed: the child becomes queued, unless a cancel won.  *)
(* The dispatcher that finds the parent cancelled joins the cancel.        *)
Bind ==
    /\ pc["dispatcher"] = "bind"
    /\ \/ /\ child \in {"submitting", "running", "succeeded", "failed"}
          /\ TouchChild(IF child = "submitting" THEN "queued" ELSE child)
          /\ IF job \in {"cancelling", "recovering"}
             THEN Probe("dispatcher") /\ duty' = "cancel"
             ELSE /\ job' = IF job = "preparing" THEN "published" ELSE job
                  /\ Goto("dispatcher", "idle")
                  /\ UNCHANGED duty
          /\ UNCHANGED <<own, held>>
       \/ /\ child \in {"cancelSubmit", "cancelling"} \cup Recovery
          /\ TouchChild("cancelling")
          /\ job' = "cancelling"
          /\ ClaimCancel("dispatcher")
          /\ Goto("dispatcher", "sent")
          /\ duty' = "late"
       \/ /\ child = "cancelled"
          /\ Goto("dispatcher", "idle")
          /\ UNCHANGED <<own, held, child, fresh, job, duty>>
    /\ UNCHANGED <<hostVars, receipt, wanted, adopted, seen>>

(* Mutant: only the parent is closed. *)
FinalizeParentOnly ==
    /\ UNCHANGED child
    /\ job' = "terminal"

(* finalize_timeline_submission_failure *)
Finalize ==
    /\ child' = IF Over(child) \/ job = "terminal" THEN child
                ELSE IF wanted THEN "cancelled" ELSE "failed"
    /\ job' = "terminal"

(* _cleanup_failed_timeline_submission up to its directed cancel *)
CleanUp ==
    IF Over(child) \/ own \in Confirmed
    THEN /\ Finalize
         /\ fresh' = FALSE
         /\ Goto("dispatcher", "idle")
         /\ UNCHANGED <<own, held, duty>>
    ELSE /\ ClaimCancel("dispatcher")
         /\ TouchChild("recovery")
         /\ Goto("dispatcher", "sent")
         /\ duty' = "cleanup"
         /\ UNCHANGED job

(* A transport error: it proves nothing about the prompt. *)
PostFails ==
    /\ pc["dispatcher"] = "post"
    /\ "error" \in Disturbances
    /\ up[1] # "refused"
    /\ CleanUp
    /\ UNCHANGED <<hostVars, receipt, wanted, adopted, seen>>

(* 400: fail_rejected_job_child_submission *)
PostRejected ==
    /\ pc["dispatcher"] = "post"
    /\ up[1] = "refused"
    /\ IF "dispatcher" \in held /\ child = "submitting"
       THEN /\ Transition("none", {})
            /\ TouchChild("failed")
            /\ job' = IF job = "preparing" THEN "terminal" ELSE job
            /\ Goto("dispatcher", "idle")
            /\ UNCHANGED duty
       ELSE CleanUp
    /\ UNCHANGED <<hostVars, receipt, wanted, adopted, seen>>

(* _cancel_submit_receipt and _bind_actual_prompt_id_from_submit_error: an *)
(* acknowledgement is evidence, unless history was first; anything else    *)
(* falls through to cleanup.                                               *)
InlineAnswered ==
    /\ pc["dispatcher"] \in {"yes", "no", "error"}
    /\ duty = "inline"
    /\ \/ pc["dispatcher"] # "yes" /\ CleanUp
       \/ /\ pc["dispatcher"] = "yes"
          /\ IF own \notin Confirmed
             THEN /\ Transition("cleanup_confirmed", {})
                  /\ TouchChild("cancelled")
                  /\ job' = "terminal"
             ELSE \* _mark_timeline_submission_interrupted
                  /\ TouchChild(IF Over(child) THEN child ELSE "cancelling")
                  /\ job' = JobOf(child, "recovering")
                  /\ UNCHANGED <<own, held>>
          /\ Goto("dispatcher", "idle")
          /\ UNCHANGED duty
    /\ UNCHANGED <<hostVars, receipt, wanted, adopted, seen>>

(* The cancel behind a POST that returned to a cancelled child. *)
LateAnswered ==
    /\ pc["dispatcher"] \in {"yes", "no", "error"}
    /\ duty = "late"
    /\ CASE pc["dispatcher"] = "yes" -> ConfirmCancel("dispatcher")
         [] pc["dispatcher"] = "no" -> MarkUnconfirmed("dispatcher") /\ UNCHANGED <<child, job>>
         [] pc["dispatcher"] = "error" ->
                /\ MarkUnconfirmed("dispatcher")
                /\ child' = IF Over(child) THEN child ELSE "cancelling"
                /\ job' = JobOf(child, "cancelling")
    /\ fresh' = FALSE
    /\ Goto("dispatcher", "idle")
    /\ UNCHANGED <<hostVars, receipt, wanted, duty, adopted, seen>>

(* The rest of _cleanup_failed_timeline_submission. *)
CleanupAnswered ==
    /\ pc["dispatcher"] \in {"yes", "no", "error"}
    /\ duty = "cleanup"
    /\ IF pc["dispatcher"] = "yes" /\ "dispatcher" \in held
       THEN ConfirmCancel("dispatcher")
       ELSE /\ MarkUnconfirmed("dispatcher")
            /\ child' = IF pc["dispatcher"] # "yes" /\ child = "cancelling" THEN "recovery" ELSE child
            /\ job' = IF job = "terminal" THEN job ELSE "recovering"
    /\ fresh' = FALSE
    /\ Goto("dispatcher", "idle")
    /\ UNCHANGED <<hostVars, receipt, wanted, duty, adopted, seen>>

----------------------------------------------------------------------------
(* A request to cancel the job. *)

(* The prompt belongs to an earlier boot of the host: only a restart       *)
(* certificate may release it.                                             *)
AwaitCertificate ==
    /\ IF own \in {"unconfirmed"} \cup Confirmed THEN UNCHANGED <<own, held>>
       ELSE Transition("unconfirmed", {})
    /\ TouchChild("certificate")

(* _cancel_job_with_read_context and the beginning of _cancel_timeline_job *)
RequestCancel(u) ==
    /\ pc[u] = "idle"
    /\ job # "terminal"
    /\ wanted' = TRUE
    /\ IF oldBoot /\ ~Over(child)
       THEN /\ AwaitCertificate
            /\ job' = "certificate"
            /\ UNCHANGED pc
       ELSE /\ Probe(u)
            /\ UNCHANGED <<own, held, child, fresh>>
    /\ UNCHANGED <<hostVars, receipt, duty, adopted, seen>>

(* _quiesce_cancelled_submission_dispatcher, and the caller s returns *)
Quiesce(s, c) ==
    pc' = [t \in Coroutines |->
             IF t = s \/ (t = "dispatcher" /\ c = "cancelled") THEN "idle" ELSE pc[t]]

Cancels(s) == s \in Users \/ (s = "dispatcher" /\ duty = "cancel")

(* _cancel_timeline_job once the pass is over, up to its directed cancel *)
Pursue(s) ==
    /\ Cancels(s)
    /\ pc[s] = "probe"
    /\ pc["sync"] = "idle"
    /\ \/ /\ Over(child) \/ own \in Confirmed
          /\ job' = JobOf(child, IF job \in {"preparing", "published"} THEN "cancelling" ELSE job)
          /\ Quiesce(s, child)
          /\ UNCHANGED <<own, held, child, fresh, adopted>>
       \/ /\ child = "prepared"
          /\ TouchChild("cancelled")
          /\ job' = "terminal"
          /\ Quiesce(s, "cancelled")
          /\ UNCHANGED <<own, held, adopted>>
       \/ /\ child \in Submitting
          /\ TouchChild("cancelSubmit")
          /\ job' = IF job = "recovering" THEN job ELSE "cancelling"
          /\ Goto(s, "idle")
          /\ UNCHANGED <<own, held, adopted>>
       \/ /\ child \in Active \cup Recovery /\ own \notin Confirmed
          /\ ClaimCancel(s)
          /\ TouchChild(IF child \in Recovery THEN "recovery" ELSE "cancelling")
          /\ job' = IF job = "recovering" THEN job ELSE "cancelling"
          /\ adopted' = IF child \in Recovery THEN adopted \cup {s} ELSE adopted
          /\ Goto(s, "sent")
    /\ UNCHANGED <<hostVars, receipt, wanted, duty, seen>>

(* Mutant: "not found" is taken for "gone". *)
CancelAnsweredOptimistically(s) ==
    /\ Cancels(s)
    /\ pc[s] \in {"yes", "no", "error"}
    /\ IF pc[s] = "error" THEN MarkUnconfirmed(s) /\ UNCHANGED <<child, job>>
       ELSE ConfirmCancel(s)
    /\ fresh' = FALSE
    /\ adopted' = adopted \ {s}
    /\ Quiesce(s, child')
    /\ UNCHANGED <<hostVars, receipt, wanted, duty, seen>>

(* The rest of _cancel_timeline_job: the answer is booked, and the         *)
(* dispatcher of a job that is now cancelled is stopped.                   *)
CancelAnswered(s) ==
    /\ Cancels(s)
    /\ \/ pc[s] = "yes" /\ ConfirmCancel(s)
       \/ pc[s] = "no" /\ MarkUnconfirmed(s) /\ UNCHANGED <<child, job>>
       \/ /\ pc[s] = "error"
          /\ MarkUnconfirmed(s)
          /\ job' = JobOf(child, IF s \in adopted THEN "recovering" ELSE "cancelling")
          /\ UNCHANGED child
    /\ fresh' = FALSE
    /\ adopted' = adopted \ {s}
    /\ Quiesce(s, child')
    /\ UNCHANGED <<hostVars, receipt, wanted, duty, seen>>

----------------------------------------------------------------------------
(* The recovery worker: _recover_interrupted_submission. *)

(* Mutant: the worker lists what only startup may take for a leftover. *)
RecoverLeftovers ==
    /\ pc["worker"] = "idle"
    /\ job \in {"preparing", "recovering"} \/ child \in Submitting
    /\ ~Over(child) /\ own \notin {"none"} \cup Confirmed
    /\ ClaimCancel("worker")
    /\ TouchChild("recovery")
    /\ Goto("worker", "sent")
    /\ UNCHANGED <<hostVars, receipt, job, wanted, duty, adopted, seen>>

(* One parent of list_interrupted_preparing_jobs, up to the cancel of its  *)
(* child                                                                   *)
Recover ==
    /\ pc["worker"] = "idle"
    /\ job = "recovering"
    /\ ~Over(child) /\ own \notin Confirmed
    /\ IF oldBoot
       THEN AwaitCertificate /\ UNCHANGED pc
       ELSE /\ ClaimCancel("worker")
            /\ TouchChild("recovery")
            /\ Goto("worker", "sent")
    /\ UNCHANGED <<hostVars, receipt, job, wanted, duty, adopted, seen>>

RecoverAnswered ==
    /\ \/ /\ pc["worker"] = "yes"
          /\ IF "worker" \in held \/ own \in Confirmed THEN ConfirmCancel("worker")
             ELSE job' = JobOf(child, "recovering") /\ UNCHANGED <<own, held, child>>
          /\ Goto("worker", "idle")
       \/ /\ pc["worker"] = "no"
          /\ MarkUnconfirmed("worker")
          /\ Goto("worker", IF Over(child) THEN "idle" ELSE "probe")
          /\ UNCHANGED <<child, job>>
       \/ /\ pc["worker"] = "error"
          /\ MarkUnconfirmed("worker")
          /\ job' = JobOf(child, "recovering")
          /\ Goto("worker", "idle")
          /\ UNCHANGED child
    /\ fresh' = FALSE
    /\ UNCHANGED <<hostVars, receipt, wanted, duty, adopted, seen>>

(* Mutant: without an entry in the history, the prompt counts as stopped. *)
RecoverProbeAssuming ==
    /\ pc["worker"] = "probe"
    /\ IF ~Over(child)
       THEN ApplyHistory(IF History(1) = "absent" THEN "interrupted" ELSE History(1))
       ELSE UNCHANGED <<own, held, child, receipt>>
    /\ job' = JobOf(child', "recovering")
    /\ fresh' = FALSE
    /\ Goto("worker", "idle")
    /\ UNCHANGED <<hostVars, wanted, duty, adopted, seen>>

(* Mutant: the parent is left in a stage nobody lists. *)
RecoverProbeOnce ==
    /\ pc["worker"] = "probe"
    /\ IF History(1) # "absent" /\ ~Over(child) THEN ApplyHistory(History(1))
       ELSE UNCHANGED <<own, held, child, receipt>>
    /\ job' = JobOf(child', "cancelling")
    /\ fresh' = FALSE
    /\ Goto("worker", "idle")
    /\ UNCHANGED <<hostVars, wanted, duty, adopted, seen>>

(* The cancel found nothing: exact history alone may settle the prompt. *)
RecoverProbe ==
    /\ pc["worker"] = "probe"
    /\ IF History(1) # "absent" /\ ~Over(child) THEN ApplyHistory(History(1))
       ELSE UNCHANGED <<own, held, child, receipt>>
    /\ job' = JobOf(child', "recovering")
    /\ fresh' = FALSE
    /\ Goto("worker", "idle")
    /\ UNCHANGED <<hostVars, wanted, duty, adopted, seen>>

----------------------------------------------------------------------------
(* The sync flight: _sync_timeline_children_batch. *)

(* The rows are read; without a child to look up, the parent follows what  *)
(* the children say.                                                       *)
SyncBegin ==
    /\ \/ pc["sync"] = "begin"
       \/ pc["sync"] = "idle" /\ job # "terminal" /\ (child \in Active \/ Over(child))
    /\ IF child \in Active
       THEN /\ fresh' = TRUE
            /\ seen' = IF job \in {"preparing", "published"} THEN "none" ELSE "cancelling"
            /\ Goto("sync", "queue")
            /\ UNCHANGED job
       ELSE /\ job' = JobOf(child, job)
            /\ Goto("sync", "idle")
            /\ UNCHANGED <<fresh, seen>>
    /\ UNCHANGED <<hostVars, own, child, receipt, wanted, duty, adopted, held>>

(* What the queue says of the prompt, in the terms the child row will take *)
(* it; under a parent that was being cancelled, every word for it is       *)
(* "cancelling".                                                           *)
SyncQueue ==
    /\ pc["sync"] = "queue"
    /\ \/ /\ Visible(1)
          /\ seen' = IF seen = "cancelling" THEN seen
                     ELSE IF up[1] = "queued" THEN "queued" ELSE "running"
          /\ Goto("sync", "apply")
       \/ ~Visible(1) /\ seen' = "off" /\ Goto("sync", "history")
       \/ "error" \in Disturbances /\ seen' = "unknown" /\ Goto("sync", "history")
    /\ UNCHANGED <<hostVars, dbVars, duty, adopted, held, fresh>>

SyncHistory ==
    /\ pc["sync"] = "history"
    /\ seen' \in {IF History(1) # "absent" THEN History(1)
                  ELSE IF seen = "off" THEN "absent" ELSE "unknown"}
                    \cup (IF "error" \in Disturbances THEN {"unknown"} ELSE {})
    /\ Goto("sync", "apply")
    /\ UNCHANGED <<hostVars, dbVars, duty, adopted, held, fresh>>

(* Mutant: the queue's word is written over whatever the row says now. *)
SyncQueuedBlindly ==
    /\ child' = IF Over(child) THEN child ELSE seen
    /\ UNCHANGED <<own, held, receipt>>

(* A prompt seen in the queue moves the row, if the row is the one read. *)
SyncQueued ==
    /\ child' = IF fresh THEN seen ELSE child
    /\ UNCHANGED <<own, held, receipt>>

(* Mutant: absence from queue and history closes the child. *)
SyncAbsentClosing ==
    /\ child' = "cancelled"
    /\ UNCHANGED <<own, held, receipt>>

(* One exact absence only makes the ownership unconfirmed. *)
SyncAbsent ==
    /\ IF own \in {"unconfirmed"} \cup Confirmed THEN UNCHANGED <<own, held>>
       ELSE Transition("unconfirmed", {})
    /\ UNCHANGED <<child, receipt>>

(* _sync_timeline_child with what the flight has read, and the parent's    *)
(* aggregate                                                               *)
SyncApply ==
    /\ pc["sync"] = "apply"
    /\ \/ Over(child) /\ UNCHANGED <<own, held, child, receipt>>
       \/ ~Over(child) /\ (receipt \/ seen \in Finished) /\ ApplyHistory(seen)
       \/ ~Over(child) /\ ~receipt /\ seen \in {"queued", "running", "cancelling"} /\ SyncQueued
       \/ ~Over(child) /\ ~receipt /\ seen = "absent" /\ SyncAbsent
       \/ ~Over(child) /\ ~receipt /\ seen = "unknown" /\ UNCHANGED <<own, held, child, receipt>>
    /\ job' = JobOf(child', IF job = "preparing" THEN "published" ELSE job)
    /\ fresh' = FALSE
    /\ seen' = "none"
    /\ Goto("sync", "idle")
    /\ UNCHANGED <<hostVars, wanted, duty, adopted>>

----------------------------------------------------------------------------
(* update_job_child_progress_monotonic; the frame may come late. *)
ProgressEvent ==
    /\ child \in {"submitting", "queued", "running"}
    /\ up[1] \in Executing \cup Finished
    /\ child # "running" \/ fresh
    /\ TouchChild("running")
    /\ UNCHANGED <<hostVars, own, receipt, job, wanted, pc, duty, adopted, held, seen>>

----------------------------------------------------------------------------
(* Restarts: prepare_interrupted_submissions_for_recovery, with every      *)
(* coroutine gone.                                                         *)
Leftover ==
    \/ wanted
    \/ job \in {"preparing", "recovering"}
    \/ child \in Submitting \cup {"recovery"}

ProcessDies ==
    /\ IF job # "terminal" /\ Leftover
       THEN /\ child' = IF Over(child) THEN child
                        ELSE IF child = "prepared" THEN "cancelled" ELSE "recovery"
            /\ job' = "recovering"
            /\ wanted' = TRUE
       ELSE UNCHANGED <<child, job, wanted>>
    /\ pc' = [s \in Coroutines |-> "idle"]
    /\ duty' = "none"
    /\ adopted' = {}
    /\ held' = {}
    /\ fresh' = FALSE
    /\ seen' = "none"
    /\ UNCHANGED <<own, receipt>>

BackendRestart ==
    /\ "restart" \in Disturbances
    /\ ProcessDies
    /\ UNCHANGED hostVars

HostRestart ==
    /\ "reboot" \in Disturbances
    /\ own # "none" /\ ~oldBoot
    /\ oldBoot' = TRUE
    /\ HostReboot
    /\ ProcessDies

(* The operator certifies that the host restarted with an empty queue. *)
ConfirmRestart ==
    /\ oldBoot
    /\ wanted
    /\ job \in {"recovering", "certificate"}
    /\ child \in Recovery
    /\ own \notin Confirmed
    /\ Transition("cleanup_confirmed", {})
    /\ TouchChild("cancelled")
    /\ job' = "terminal"
    /\ UNCHANGED <<hostVars, receipt, wanted, pc, duty, adopted, seen>>

----------------------------------------------------------------------------
(* The host. *)

HostStep ==
    /\ \/ HostAdmit(1) \/ HostStart(1) \/ HostFinish(1)
       \/ "refuse" \in Disturbances /\ HostRefuse(1)
       \/ "lose" \in Disturbances /\ HostLose(1)
       \/ "drop" \in Disturbances /\ HostDrop(1)
       \/ "forget" \in Disturbances /\ HostForget(1)
    /\ UNCHANGED <<oldBoot, dbVars, flightVars>>

(* The directed cancel of coroutine s reaches the host. *)
HostAnswers(s) ==
    /\ pc[s] = "sent"
    /\ IF CancelAccepted(1) THEN CancelEffect(1) ELSE UNCHANGED up
    /\ Goto(s, IF CancelAccepted(1) THEN "yes" ELSE "no")
    /\ UNCHANGED <<forgotten, oldBoot, dbVars, duty, adopted, held, fresh, seen>>

(* The request fails on the way there; or the host acts and its answer is  *)
(* lost.                                                                   *)
CancelFails(s) ==
    /\ pc[s] = "sent"
    /\ \/ "error" \in Disturbances /\ UNCHANGED up
       \/ "silence" \in Disturbances /\ CancelAccepted(1) /\ CancelEffect(1)
    /\ Goto(s, "error")
    /\ UNCHANGED <<forgotten, oldBoot, dbVars, duty, adopted, held, fresh, seen>>

----------------------------------------------------------------------------
Init ==
    /\ ComfyInit
    /\ oldBoot = FALSE
    /\ own = "none"
    /\ child = "prepared"
    /\ receipt = FALSE
    /\ job = "preparing"
    /\ wanted = FALSE
    /\ pc = [s \in Coroutines |-> IF s = "dispatcher" THEN "start" ELSE "idle"]
    /\ duty = "none"
    /\ adopted = {}
    /\ held = {}
    /\ fresh = FALSE
    /\ seen = "none"

Dispatch ==
    \/ Submit \/ Withhold \/ PostReturns \/ Bind \/ PostFails \/ PostRejected
    \/ InlineAnswered \/ LateAnswered \/ CleanupAnswered

Next ==
    \/ Dispatch
    \/ \E u \in Users : RequestCancel(u)
    \/ \E s \in Users \cup {"dispatcher"} : Pursue(s) \/ CancelAnswered(s)
    \/ Recover \/ RecoverAnswered \/ RecoverProbe
    \/ SyncBegin \/ SyncQueue \/ SyncHistory \/ SyncApply
    \/ ProgressEvent
    \/ BackendRestart \/ HostRestart \/ ConfirmRestart
    \/ HostStep
    \/ \E s \in Cancellers : HostAnswers(s) \/ CancelFails(s)

Spec == Init /\ [][Next]_vars

(* The worker is a loop of the process, and its passes end; the host        *)
(* admits what it is still validating; a transport that fails now and then  *)
(* lets a request through again and again.                                  *)
FairSpec ==
    /\ Spec
    /\ WF_vars(HostStep)
    /\ WF_vars(Recover) /\ WF_vars(RecoverAnswered) /\ WF_vars(RecoverProbe)
    /\ SF_vars(HostAnswers("worker"))

----------------------------------------------------------------------------
(* Properties. *)

TypeOK ==
    /\ up \in [Prompts -> HostStates]
    /\ forgotten \subseteq Prompts
    /\ own \in OwnershipStates
    /\ child \in ChildStates
    /\ job \in JobStates
    /\ {receipt, wanted, oldBoot, fresh} \subseteq BOOLEAN
    /\ pc \in [Coroutines -> {"idle", "start", "post", "bind", "sent", "yes", "no", "error",
                              "probe", "begin", "queue", "history", "apply"}]
    /\ duty \in {"none", "cancel", "inline", "late", "cleanup"}
    /\ adopted \subseteq Users \cup {"dispatcher"}
    /\ held \subseteq Cancellers
    /\ seen \in {"none", "off", "unknown", "absent", "queued", "running", "cancelling"}
                 \cup Finished

(* A prompt the host may still execute belongs to an open child: nobody    *)
(* reports a job as over while its prompt is in flight, queued or running, *)
(* however late the host admits it ("temporary queue/history absence       *)
(* cannot close it", docs/architecture.md).                                *)
OutstandingIsOpen == up[1] \in {"flight", "queued", "running"} => ~Over(child)

(* A closed child has given up its prompt.  _cancel_timeline_job and the   *)
(* recovery worker take the opposite for corruption ("terminal child       *)
(* retains prompt ownership") and refuse to go on.                         *)
ClosedMeansReleased == Over(child) => own \in {"none"} \cup Confirmed

(* Ownership released on the word of history was right: the host was done. *)
CertifiedIsFinished == own = "terminal_confirmed" => up[1] \in Finished

(* The parent, which five coroutines write, never ends before its child.   *)
ParentFollowsChild == job = "terminal" => Over(child)

(* The recovery worker never works on a prompt whose dispatcher is still   *)
(* submitting it (list_interrupted_preparing_jobs).                        *)
RecoveryLeavesSubmitsAlone ==
    pc["worker"] # "idle" => pc["dispatcher"] \notin {"start", "post", "bind"}

Stopping == {"cancelSubmit", "cancelling"} \cup Recovery

(* Late answers revive nothing: a terminal child stays as it is, one being *)
(* cancelled comes back only for a success the host has recorded, and a    *)
(* parent being cancelled never counts as merely running again.            *)
NeverRevived ==
    [][/\ Over(child) => child' = child
       /\ child \in Stopping =>
            \/ child' \in Stopping \cup Terminal
            \/ receipt' /\ child' = "running"
       /\ job \notin {"preparing", "published"} => job' \notin {"preparing", "published"}]_vars

(* A prompt of a failed submission that the host admits late is hunted     *)
(* down: "An unconfirmed cancel remains recovery-owned and is retried"     *)
(* (docs/architecture.md).                                                 *)
LatePromptIsReleased == job = "recovering" /\ up[1] = "flight" ~> own \in Confirmed

----------------------------------------------------------------------------
(* Why these hold: what every step relies on. *)

Waiting == {"sent", "yes", "no", "error"}
Early == {"start", "post", "bind"}

(* Before the POST there is no ownership, and none comes back to nothing   *)
(* while its dispatcher is at work.                                        *)
Unsent ==
    /\ pc["dispatcher"] = "start" =>
          own = "none" /\ up[1] = "unsent" /\ (child = "prepared" \/ job = "terminal")
    /\ child = "prepared" =>
          /\ own = "none" /\ up[1] = "unsent"
          /\ pc["dispatcher"] \in {"start", "idle", "probe"}
          /\ pc["sync"] \in {"idle", "begin"}
    /\ own = "none" => child \in {"prepared"} \cup Terminal
    /\ own # "none" => up[1] # "unsent"
    /\ pc["dispatcher"] \in {"post", "bind"} \cup Waiting => own # "none"

(* A current claim is a claim on an unreleased prompt. *)
ClaimsAreOpen == held # {} => own \in {"submitting", "cancel_pending"}

(* A released prompt closes its child, or its success is on record. *)
Releases ==
    /\ receipt => own = "terminal_confirmed"
    /\ own \in Confirmed => receipt \/ Over(child)
    /\ own \in Confirmed /\ pc["dispatcher"] = "bind" => child \in {"running"} \cup Terminal

(* What a coroutine has been told stays true until it acts on it. *)
Evidence ==
    /\ \A s \in Cancellers :
          pc[s] = "yes" => up[1] \in {"stopping", "removed", "lost"} \cup Finished
    /\ seen \in Finished => up[1] \in Finished
    /\ oldBoot => up[1] \notin {"unsent", "flight", "queued", "running"}

(* Recovery, and whoever works for it, starts when the dispatcher is past  *)
(* the POST; a child that was never posted is not recovered.               *)
RecoveryIsLater ==
    pc["dispatcher"] \in Early \/ child = "prepared" =>
        /\ pc["worker"] = "idle"
        /\ child \notin Recovery
        /\ job # "recovering"
        /\ adopted = {}
        /\ ~oldBoot

(* The sync flight looks at a cancelled job as one. *)
CancellingIsSeen ==
    /\ child \in {"cancelSubmit", "cancelling"} => job \notin {"preparing", "published"}
    /\ seen = "cancelling" => job \notin {"preparing", "published"}
    /\ fresh /\ child \in Stopping =>
          /\ pc["sync"] = "queue" => seen = "cancelling"
          /\ pc["sync"] = "apply" => seen \notin {"queued", "running"}

(* The inductive invariant behind the safety properties: the claims, the   *)
(* releases and the evidence above, with the properties they support.      *)
OwnershipInvariant ==
    /\ TypeOK
    /\ Unsent /\ ClaimsAreOpen /\ Releases /\ Evidence
    /\ RecoveryIsLater /\ CancellingIsSeen
    /\ OutstandingIsOpen /\ ClosedMeansReleased /\ CertifiedIsFinished
    /\ ParentFollowsChild

----------------------------------------------------------------------------
(* What the repository says and the code does not do. *)

(* An acknowledged cancel ends up in the ownership.  (It does not when     *)
(* another coroutine bumped the revision between the claim and the answer: *)
(* the acknowledgement is dropped, and nothing can give it again.)         *)
AcknowledgedCancelIsRecorded ==
    [][\A s \in Cancellers : pc[s] = "yes" /\ pc'[s] = "idle" => own' \in Confirmed]_vars

(* With usable outputs, a recorded success is never reported as a failure  *)
(* or a cancellation.  (It is, when the host is done before the answer to  *)
(* the POST has been processed.)                                           *)
RecordedSuccessIsKept == receipt => child \notin {"failed", "cancelled"}

(* A child with a recorded success stays where the sync flight looks for   *)
(* its output.  (A restart moves it to a stage that the flight skips       *)
(* because recovery owns it, and that recovery skips because its ownership *)
(* is released.)                                                           *)
ReceiptIsRetried == receipt => child \notin Recovery

(* A refused prompt has no owner once the dispatcher knows.  (It has, if   *)
(* the job was cancelled during the POST; the host never heard of it, so   *)
(* no cancel of it is ever confirmed.)                                     *)
RefusalReleases == up[1] = "refused" /\ pc["dispatcher"] # "post" => own = "none"
=============================================================================
