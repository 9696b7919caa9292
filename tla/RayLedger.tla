------------------------------ MODULE RayLedger ------------------------------
(***************************************************************************)
(* The persisted RayLight runtime ledger and the dispatcher that plans and *)
(* submits RayLight prompts against it.                                    *)
(*                                                                         *)
(* One row of SQLite (raylight_runtime_state) says which actor pool is     *)
(* resident (epoch, current), which prompt was queued last against it      *)
(* (tail, action), whether the pool may be reused (tainted) and what exact *)
(* history said of the tail (cert).  It is written by                      *)
(*   - the dispatcher that holds the endpoint's submission lock: it reads  *)
(*     the row, awaits the host several times, and writes;                 *)
(*   - the reconciler, a cancel request, the restart-recovery worker and   *)
(*     the cleanup of a failed submission: none of them takes the lock.    *)
(* A step below is what runs between two awaits.  SQLite calls are         *)
(* synchronous on one event loop, so such a step is atomic.                *)
(*                                                                         *)
(* Left out: legacy v1 rows (legacy_unknown), a host that renames prompts  *)
(* (actual_prompt_id), continuity between segments, the submission of      *)
(* Standard prompts themselves (they leave the row alone).                 *)
(***************************************************************************)
EXTENDS Integers, FiniteSets

CONSTANTS
    Keys,         \* (compatibility key, runtime key, GPUs) a Ray segment may ask for
    None,         \* no runtime descriptor
    Standard,     \* the wish of a Standard segment
    MaxPrompts,   \* bound: Ray prompts submitted in a behaviour
    MaxBoots,     \* bound: restarts of the host process
    Disturbances  \* what may go wrong or be asked for besides plain submissions

ASSUME ConstantsAssumption ==
    /\ None \notin Keys /\ Standard \notin Keys /\ None # Standard
    /\ MaxPrompts \in Nat /\ MaxBoots \in Nat

Prompts == 1 .. MaxPrompts
NoPrompt == 0

VARIABLES
    up, forgotten,  \* the host: see ComfyUI
    pools,          \* epochs of the actor pools alive in the host
    topologyOk,     \* the recorded GPU indices are visible to the host
    boots,          \* restarts of the host so far
    oldest,         \* prompts up to this one belong to an earlier boot
    ledger,         \* the persisted row
    child,          \* child[p]: (status, stage) of the row that owns prompt p
    kind, ns,       \* what p was submitted as, and its runtime namespace
    acked,          \* prompts whose directed cancel was acknowledged, not yet committed
    next,           \* next prompt id
    pc,             \* where the dispatcher that holds the endpoint lock is
    mode,           \* "standard" plan, "mixed" plan before its first Ray segment, "ray" after
    want,           \* what the segment being planned asks for
    snap,           \* the row as the dispatcher last read it
    ambiguous,      \* ambiguous_tail of the refresh in progress
    unit,           \* the prompt in flight or awaited
    stop            \* the dispatcher's own job was cancelled

hostVars == <<up, forgotten, pools, topologyOk, boots, oldest>>
rowVars == <<kind, ns, next>>
dispatcherVars == <<pc, mode, want, snap, ambiguous, unit, stop>>
vars == <<hostVars, ledger, child, rowVars, acked, dispatcherVars>>

INSTANCE ComfyUI

----------------------------------------------------------------------------
(* Child rows.  "owned": preparing/submitting.  "cancelSubmit":            *)
(* cancelling/cancelling_during_submit.  "live": queued or running.        *)
(* "recovery": cancelling in a stage of _RECOVERY_OWNERSHIP_STAGES.        *)
(* "verifying": exact success recorded, output not yet probed.  "frozen":  *)
(* a verifying row that a restart moved to restart_cancel_pending.         *)
(* "interrupted": cancelled by exact history.  "cancelled": by cleanup.    *)
(* "artifact": failed/artifact_verification_failed.                        *)

Certifiable == {"live", "cancelling", "recovery"}
Nonterminal == Certifiable \cup {"owned", "cancelSubmit", "verifying", "frozen"}
Terminal == {"succeeded", "failed", "interrupted", "cancelled", "artifact", "rejected"}
ChildStates == {"none", "deleted"} \cup Nonterminal \cup Terminal

ProcessOwned(p) == child[p] \in {"owned", "cancelSubmit", "recovery", "frozen"}

Kinds == {"none", "ray_unit", "shutdown"}

(* Mutant: any terminal row counts as exact history. *)
AnyTerminalIsACertificate(p) == child[p] \in Terminal

(* _raylight_child_has_terminal_history_certificate *)
HasCertificate(p) == child[p] \in {"succeeded", "failed", "interrupted"}

----------------------------------------------------------------------------
(* The row. *)

EmptyLedger == [epoch |-> 0, current |-> None, tail |-> NoPrompt,
                action |-> "none", tainted |-> FALSE, cert |-> "none"]

Tainted(l) == [l EXCEPT !.tainted = TRUE]

NoTail(l) == [l EXCEPT !.tail = NoPrompt, !.action = "none", !.cert = "none"]

(* Mutants: the result lands on whatever tail is recorded; the certificate *)
(* is written with the tail's action where its result belongs.             *)
SettleAnyTail(l, p, succeeded, certified) ==
    IF l.tail = NoPrompt THEN l
    ELSE [l EXCEPT !.tainted = ~succeeded,
                   !.cert = IF certified THEN IF succeeded THEN "ok" ELSE "bad" ELSE @]

SettleWithAction(l, p, succeeded, certified) ==
    IF l.tail # p THEN l
    ELSE [l EXCEPT !.tainted = ~succeeded, !.cert = IF certified THEN l.action ELSE @]

(* _settle_raylight_runtime_prompt_in_connection *)
Settle(l, p, succeeded, certified) ==
    IF l.tail # p THEN l
    ELSE IF succeeded /\ l.action = "shutdown"
    THEN [NoTail(l) EXCEPT !.current = None, !.tainted = FALSE]
    ELSE [l EXCEPT !.tainted = ~succeeded,
                   !.cert = IF ~certified THEN @
                            ELSE IF succeeded THEN "ok" ELSE "bad"]

(* Mutant: a cancelled prompt leaves a pool that counts as gone. *)
CleanupDroppingPool(l, p) ==
    IF l.tail = p THEN [NoTail(l) EXCEPT !.current = None, !.tainted = FALSE] ELSE l

(* _cleanup_raylight_runtime_prompt_in_connection *)
Cleanup(l, p) == IF l.tail = p THEN Tainted(NoTail(l)) ELSE l

(* _assert_settled_ray_frontier *)
SettledFrontier(l) ==
    \/ l.tail = NoPrompt
    \/ l.action = "ray_unit" /\ l.cert = (IF l.tainted THEN "bad" ELSE "ok")
    \/ l.action = "shutdown" /\ l.cert = "bad" /\ l.tainted

(* _requires_raylight_kill: it refuses a tainted row without a descriptor. *)
Plannable(l) == SettledFrontier(l) /\ (l.current = None => ~l.tainted)

(* Mutant: only a change of descriptor asks for RayKill. *)
NeedsKillIgnoringTaint(l, w) == l.current # None /\ (w = Standard \/ l.current # w)

NeedsKill(l, w) == l.current # None /\ (l.tainted \/ w = Standard \/ l.current # w)

(* Mutant: the pool built after a RayKill takes the old epoch again. *)
AfterSegmentSameEpoch(l, p, w) ==
    [epoch |-> IF l.epoch = 0 THEN 1 ELSE l.epoch,
     current |-> w, tail |-> p, action |-> "ray_unit",
     tainted |-> TRUE, cert |-> "none"]

(* _ray_segment_after_intent, _control_after_intent *)
AfterSegment(l, p, w) ==
    [epoch |-> IF l.current = None THEN l.epoch + 1 ELSE l.epoch,
     current |-> w, tail |-> p, action |-> "ray_unit",
     tainted |-> TRUE, cert |-> "none"]

AfterControl(l, p) ==
    [l EXCEPT !.tail = p, !.action = "shutdown", !.tainted = TRUE, !.cert = "none"]

(* segment_continuation: what a successful RayKill must have left. *)
CleanContinuation(l, before) ==
    /\ l.epoch = before.epoch /\ l.current = None
    /\ l.tail = NoPrompt /\ ~l.tainted /\ l.cert = "none"

----------------------------------------------------------------------------
(* Moves of the dispatcher. *)

Proceed(l, where, p) ==
    /\ ledger' = l
    /\ pc' = where
    /\ unit' = p
    /\ want' = None
    /\ snap' = EmptyLedger
    /\ ambiguous' = FALSE
    /\ UNCHANGED <<mode, stop>>

(* The request ends and the endpoint lock is free again. *)
Release(l) ==
    /\ ledger' = l
    /\ pc' = "free"
    /\ mode' = "none"
    /\ want' = None
    /\ snap' = EmptyLedger
    /\ ambiguous' = FALSE
    /\ unit' = NoPrompt
    /\ stop' = FALSE

Keep == UNCHANGED <<hostVars, rowVars, acked>>

(* What the dispatcher does with the tail once it is refreshed; l is the   *)
(* stored row, s the dispatcher's view of it.                              *)
Gate(l, s) ==
    LET p == s.tail IN
    CASE p = NoPrompt \/ (s.action = "ray_unit" /\ ~s.tainted) ->
            Proceed(l, "plan", NoPrompt)
      [] p # NoPrompt /\ s.action = "ray_unit" /\ s.tainted /\ child[p] = "deleted" ->
            Proceed(Tainted(s), "plan", NoPrompt)
      [] p # NoPrompt /\ s.action = "ray_unit" /\ s.tainted /\ child[p] \in Terminal ->
            Proceed(Settle(l, p, child[p] = "succeeded", HasCertificate(p)),
                    "plan", NoPrompt)
      [] p # NoPrompt /\ s.action = "ray_unit" /\ s.tainted /\ ~ProcessOwned(p)
            /\ child[p] \in Nonterminal ->
            Proceed(l, "awaitTail", p)
      [] p # NoPrompt /\ s.action = "shutdown" /\ child[p] \in {"deleted", "succeeded"} ->
            Proceed(l, "awaitOldKill", p)
      [] p # NoPrompt /\ (s.action = "shutdown" \/ s.tainted) /\ ProcessOwned(p) ->
            Release(l)
      [] OTHER ->
            Proceed(l, "plan", NoPrompt)

(* _create_timeline_job_impl takes the submission lock.  A Standard plan   *)
(* that finds the row tainted goes on without it and is not modelled.      *)
Acquire(m) ==
    /\ pc = "free"
    /\ m = "standard" => ~ledger.tainted
    /\ pc' = IF m = "standard" THEN "plan" ELSE "stats"
    /\ mode' = m
    /\ snap' = IF m = "standard" THEN EmptyLedger ELSE ledger
    /\ UNCHANGED <<ledger, child, want, ambiguous, unit, stop>>
    /\ Keep

(* system_stats answered: refuse a row whose GPUs are gone, else begin to  *)
(* refresh its tail.                                                       *)
CheckRecovery ==
    /\ pc = "stats"
    /\ CASE snap.current # None /\ ~topologyOk -> Release(ledger)
         [] snap.current = None -> Gate(ledger, snap)
         [] snap.current # None /\ topologyOk /\ snap.tail = NoPrompt ->
                Gate(Tainted(snap), Tainted(snap))
         [] OTHER ->
                /\ pc' = "history"
                /\ ambiguous' = (child[snap.tail] \in Nonterminal /\ ProcessOwned(snap.tail))
                /\ UNCHANGED <<ledger, mode, want, snap, unit, stop>>
    /\ UNCHANGED child
    /\ Keep

(* Mutant: a RayKill that vanished counts as done. *)
ConcludeLostKillAsDone(succeeded, certified) ==
    IF ~succeeded /\ snap.action = "shutdown"
    THEN LET l == [NoTail(snap) EXCEPT !.current = None, !.tainted = FALSE] IN Gate(l, l)
    ELSE LET l == Settle(ledger, snap.tail, succeeded, certified) IN Gate(l, l)

(* persist_terminal *)
Conclude(succeeded, certified) ==
    IF ~succeeded /\ snap.action = "shutdown"
    THEN LET l == Tainted(NoTail(snap)) IN Gate(l, l)
    ELSE LET l == Settle(ledger, snap.tail, succeeded, certified) IN Gate(l, l)

RefreshHistory ==
    /\ pc = "history"
    /\ IF History(snap.tail) # "absent"
       THEN Conclude(History(snap.tail) = "success", TRUE)
       ELSE pc' = "queue" /\ UNCHANGED <<ledger, mode, want, snap, ambiguous, unit, stop>>
    /\ UNCHANGED child
    /\ Keep

RefreshQueue ==
    /\ pc = "queue"
    /\ IF Visible(snap.tail)
       THEN Gate(IF snap.tainted THEN ledger ELSE Tainted(snap), Tainted(snap))
       ELSE pc' = "confirm" /\ UNCHANGED <<ledger, mode, want, snap, ambiguous, unit, stop>>
    /\ UNCHANGED child
    /\ Keep

RefreshConfirmation ==
    /\ pc = "confirm"
    /\ CASE History(snap.tail) # "absent" -> Conclude(History(snap.tail) = "success", TRUE)
         [] History(snap.tail) = "absent" /\ ambiguous -> Gate(Tainted(snap), Tainted(snap))
         [] OTHER -> Conclude(FALSE, FALSE)
    /\ UNCHANGED child
    /\ Keep

(* The tail of an earlier job reached a terminal child row. *)
AwaitTail ==
    /\ pc = "awaitTail"
    /\ child[unit] \notin Nonterminal
    /\ IF child[unit] = "deleted"
       THEN Release(ledger)
       ELSE Proceed(Settle(ledger, unit, child[unit] = "succeeded", HasCertificate(unit)),
                    "plan", NoPrompt)
    /\ UNCHANGED child
    /\ Keep

(* An earlier RayKill: exact success, or an error or timeout for this job. *)
AwaitOldKill ==
    /\ pc = "awaitOldKill"
    /\ \/ /\ History(unit) = "success"
          /\ Proceed(Settle(ledger, unit, TRUE, TRUE), "plan", NoPrompt)
       \/ /\ ~Visible(unit) /\ History(unit) # "success"
          /\ Release(ledger)
    /\ UNCHANGED child
    /\ Keep

----------------------------------------------------------------------------
(* Planning one unit and persisting its intent. *)

Wishes ==
    (IF mode \in {"standard", "mixed"} THEN {Standard} ELSE {})
        \cup (IF mode \in {"mixed", "ray"} THEN Keys ELSE {})

(* persist_job_child_submission_intent; POST /prompt starts right after. *)
Claim(k, w, before, after, rows) ==
    /\ next <= MaxPrompts
    /\ ledger' = after
    /\ child' = [rows EXCEPT ![next] = "owned"]
    /\ kind' = [kind EXCEPT ![next] = k]
    /\ ns' = [ns EXCEPT ![next] = [epoch |-> after.epoch, key |-> after.current]]
    /\ up' = [up EXCEPT ![next] = "flight"]
    /\ next' = next + 1
    /\ unit' = next
    /\ pc' = "post"
    /\ snap' = before
    /\ want' = w
    /\ ambiguous' = FALSE
    /\ UNCHANGED <<forgotten, pools, topologyOk, boots, oldest, acked, stop>>

PlanSegment(w) ==
    /\ pc = "plan"
    /\ ~stop
    /\ w \in Wishes \ {Standard}
    /\ Plannable(ledger)
    /\ ~NeedsKill(ledger, w)
    /\ mode' = "ray"
    /\ Claim("ray_unit", w, ledger, AfterSegment(ledger, next, w), child)

PlanKill(w) ==
    /\ pc = "plan"
    /\ ~stop
    /\ w \in Wishes
    /\ Plannable(ledger)
    /\ NeedsKill(ledger, w)
    /\ pc' = "preflight"
    /\ want' = w
    /\ snap' = ledger
    /\ mode' = IF w = Standard THEN mode ELSE "ray"
    /\ UNCHANGED <<ledger, child, ambiguous, unit, stop>>
    /\ Keep

(* No unit left, the job cancelled, or build_wave raising. *)
EndPlan ==
    /\ pc = "plan"
    /\ Release(ledger)
    /\ UNCHANGED child
    /\ Keep

(* _preflight_raylight_transition answered. *)
ClaimKill ==
    /\ pc = "preflight"
    /\ topologyOk
    /\ ~stop
    /\ ledger = snap
    /\ UNCHANGED mode
    /\ Claim("shutdown", want, snap, AfterControl(snap, next), child)

AbandonKill ==
    /\ pc = "preflight"
    /\ ~topologyOk \/ stop \/ ledger # snap
    /\ Release(ledger)
    /\ UNCHANGED child
    /\ Keep

----------------------------------------------------------------------------
(* POST /prompt. *)

(* 200: the receipt and the child row are bound, unless a cancel won. *)
PostReturns ==
    /\ pc = "post"
    /\ up[unit] \in {"removed"} \cup InQueue \cup Finished
    /\ \/ /\ child[unit] \in {"owned", "live"}
          /\ child' = [child EXCEPT ![unit] = "live"]
          /\ pc' = IF kind[unit] = "shutdown" THEN "awaitKill" ELSE "awaitSegment"
          /\ UNCHANGED <<ledger, mode, want, snap, ambiguous, unit, stop>>
       \/ /\ child[unit] = "cancelSubmit"
          /\ child' = [child EXCEPT ![unit] = "cancelling"]
          /\ Release(ledger)
    /\ Keep

Intent ==
    IF kind[unit] = "shutdown" THEN AfterControl(snap, unit)
    ELSE AfterSegment(snap, unit, want)

(* 4xx: fail_rejected_job_child_submission restores the row, unless the    *)
(* child or the row moved meanwhile.                                       *)
PostRejected ==
    /\ pc = "post"
    /\ up[unit] = "refused"
    /\ IF child[unit] = "owned" /\ ledger = Intent
       THEN child' = [child EXCEPT ![unit] = "rejected"] /\ Release(snap)
       ELSE child' = [child EXCEPT ![unit] = "recovery"] /\ Release(ledger)
    /\ Keep

(* _cleanup_failed_timeline_submission takes the unit over. *)
HandToRecovery ==
    child' = [child EXCEPT ![unit] =
                IF @ \in {"owned", "cancelSubmit", "live", "cancelling"} THEN "recovery" ELSE @]

(* Mutant: a transport error is taken for a refusal and the row restored. *)
PostFailedRestoring ==
    /\ pc = "post"
    /\ up[unit] # "refused"
    /\ HandToRecovery
    /\ Release(snap)
    /\ Keep

(* A transport error, or a receipt whose ownership revision is stale. *)
PostFailed ==
    /\ pc = "post"
    /\ up[unit] # "refused"
    /\ HandToRecovery
    /\ Release(ledger)
    /\ Keep

----------------------------------------------------------------------------
(* Awaiting the unit. *)

(* A poll of the host failed, or a RayKill stayed away for 300 seconds. *)
AwaitFailed ==
    /\ pc \in {"awaitSegment", "awaitKill"}
    /\ HandToRecovery
    /\ Release(ledger)
    /\ Keep

(* _await_raylight_generation returned and its result is settled. *)
SegmentDone ==
    /\ pc = "awaitSegment"
    /\ child[unit] \in Terminal
    /\ LET l == Settle(ledger, unit, child[unit] = "succeeded", HasCertificate(unit))
       IN IF stop THEN Release(l) ELSE Proceed(l, "plan", NoPrompt)
    /\ UNCHANGED child
    /\ Keep

SegmentStopped ==
    /\ pc = "awaitSegment"
    /\ stop
    /\ child[unit] \in Certifiable
    /\ Release(Settle(ledger, unit, FALSE, FALSE))
    /\ UNCHANGED child
    /\ Keep

CertifiedChild(p, state) ==
    child' = [child EXCEPT ![p] = IF @ \in Certifiable THEN state ELSE @]

(* RayKill has exact success; the segment behind it is claimed at once. *)
KillDone ==
    /\ pc = "awaitKill"
    /\ History(unit) = "success"
    /\ LET l == Settle(ledger, unit, TRUE, TRUE)
           done == [child EXCEPT ![unit] = IF @ \in Certifiable THEN "succeeded" ELSE @]
       IN CASE stop \/ ~CleanContinuation(l, snap) ->
                  child' = done /\ Release(l) /\ Keep
            [] ~stop /\ CleanContinuation(l, snap) /\ want = Standard ->
                  child' = done /\ Proceed(l, "plan", NoPrompt) /\ Keep
            [] OTHER ->
                  Claim("ray_unit", want, l, AfterSegment(l, next, want), done)
                  /\ UNCHANGED mode

KillFailed ==
    /\ pc = "awaitKill"
    /\ History(unit) \in {"error", "interrupted"}
    /\ CertifiedChild(unit, "failed")
    /\ Release(IF child[unit] \in Certifiable THEN Settle(ledger, unit, FALSE, TRUE) ELSE ledger)
    /\ Keep

KillStopped ==
    /\ pc = "awaitKill"
    /\ stop \/ child[unit] \in {"cancelling", "cancelled", "interrupted"}
    /\ Release(Settle(ledger, unit, FALSE, FALSE))
    /\ UNCHANGED child
    /\ Keep

(* _quiesce_cancelled_submission_dispatcher *)
Quiesce ==
    /\ pc \notin {"free", "post"}
    /\ stop
    /\ pc \in {"awaitSegment", "awaitKill"} => child[unit] \in Terminal
    /\ Release(ledger)
    /\ UNCHANGED child
    /\ Keep

----------------------------------------------------------------------------
(* The actors that do not hold the endpoint lock. *)

(* A progress event marks the row running, even before POST returned. *)
ProgressEvent(p) ==
    /\ child[p] = "owned"
    /\ up[p] \in Executing \cup Finished
    /\ child' = [child EXCEPT ![p] = "live"]
    /\ UNCHANGED <<hostVars, ledger, rowVars, acked, dispatcherVars>>

(* Exact history is committed with the child row and the ledger at once:   *)
(* _sync_timeline_child, _await_timeline_generation and the recovery       *)
(* worker all end in confirm_prompt_terminal or an output receipt.         *)
Certify(p) ==
    /\ child[p] \in Certifiable
    /\ History(p) # "absent"
    /\ ledger' = Settle(ledger, p, History(p) = "success", TRUE)
    /\ \E s \in CASE History(p) = "error" -> {"failed"}
                  [] History(p) = "interrupted" ->
                        {"interrupted"} \cup (IF child[p] = "live" THEN {} ELSE {"cancelled"})
                  [] History(p) = "success" /\ kind[p] = "shutdown" -> {"succeeded"}
                  [] OTHER -> {"verifying"} \cup ({"artifact"} \cap Disturbances) :
            child' = [child EXCEPT ![p] = s]
    /\ UNCHANGED <<hostVars, rowVars, acked, dispatcherVars>>

(* finalize_observed_artifact, fail_output_observation *)
Observe(p) ==
    /\ child[p] = "verifying"
    /\ \E s \in {"succeeded"} \cup ({"artifact"} \cap Disturbances) :
            child' = [child EXCEPT ![p] = s]
    /\ UNCHANGED <<hostVars, ledger, rowVars, acked, dispatcherVars>>

(* The reconciler settles the tail from a terminal row once more. *)
SyncSettle(p) ==
    /\ kind[p] = "ray_unit"
    /\ child[p] \in Terminal \ {"rejected"}
    /\ ledger' = Settle(ledger, p, child[p] = "succeeded", HasCertificate(p))
    /\ UNCHANGED <<hostVars, child, rowVars, acked, dispatcherVars>>

(* _cancel_timeline_job on the dispatcher's own job. *)
UserCancel ==
    /\ "cancel" \in Disturbances
    /\ pc # "free"
    /\ ~stop
    /\ stop' = TRUE
    /\ child' = IF unit = NoPrompt \/ pc \in {"awaitTail", "awaitOldKill"} THEN child
                ELSE [child EXCEPT ![unit] = CASE @ = "owned" -> "cancelSubmit"
                                               [] @ = "live" -> "cancelling"
                                               [] OTHER -> @]
    /\ UNCHANGED <<hostVars, ledger, rowVars, acked, pc, mode, want, snap, ambiguous, unit>>

(* The same on a job that has no dispatcher.  A prompt of an earlier boot   *)
(* now waits for a restart certificate.                                    *)
CancelOther(p) ==
    /\ "cancel" \in Disturbances
    /\ p # unit \/ pc \in {"awaitTail", "awaitOldKill"}
    /\ \/ /\ child[p] = "live"
          /\ child' = [child EXCEPT ![p] = IF p > oldest THEN "cancelling" ELSE "recovery"]
       \/ /\ child[p] = "verifying"
          /\ p <= oldest
          /\ child' = [child EXCEPT ![p] = "frozen"]
    /\ UNCHANGED <<hostVars, ledger, rowVars, acked, dispatcherVars>>

(* POST /api/jobs/<id>/cancel acted on the prompt; the answer is on its way. *)
DirectedCancel(p) ==
    /\ child[p] \in {"cancelling", "recovery"}
    /\ p > oldest
    /\ p \notin acked
    /\ CancelAccepted(p)
    /\ CancelEffect(p)
    /\ acked' = acked \cup {p}
    /\ UNCHANGED <<forgotten, pools, topologyOk, boots, oldest, ledger, child, rowVars,
                   dispatcherVars>>

(* confirm_prompt_cleanup with the exact cancel as evidence. *)
CommitCancel(p) ==
    /\ p \in acked
    /\ acked' = acked \ {p}
    /\ IF child[p] \in {"cancelling", "recovery"}
       THEN /\ child' = [child EXCEPT ![p] = "cancelled"]
            /\ ledger' = Cleanup(ledger, p)
       ELSE UNCHANGED <<child, ledger>>
    /\ UNCHANGED <<hostVars, rowVars, dispatcherVars>>

(* A terminal job's rows may be deleted. *)
Delete(p) ==
    /\ "delete" \in Disturbances
    /\ child[p] \in Terminal
    /\ p # unit
    /\ child' = [child EXCEPT ![p] = "deleted"]
    /\ UNCHANGED <<hostVars, ledger, rowVars, acked, dispatcherVars>>

----------------------------------------------------------------------------
(* Restarts. *)

(* A restart leaves alone what a published job (queued, running) owns: its *)
(* last segment.  Every other prompt gets a recovery stage.                *)
Published == {p \in Prompts : child[p] \in {"live", "verifying"} /\ kind[p] = "ray_unit"}

RecoveryRows ==
    \E kept \in SUBSET Published :
        child' = [p \in Prompts |->
                    CASE p \in kept -> child[p]
                      [] p \notin kept /\ child[p] = "verifying" -> "frozen"
                      [] p \notin kept /\ child[p] \in Nonterminal \ {"verifying", "frozen"} ->
                            "recovery"
                      [] OTHER -> child[p]]

(* Mutant: startup forgets the tail along with the coroutines. *)
ProcessDiesForgettingTail ==
    /\ RecoveryRows
    /\ acked' = {}
    /\ Release(NoTail(ledger))
    /\ UNCHANGED rowVars

(* prepare_interrupted_submissions_for_recovery; every coroutine is gone. *)
ProcessDies ==
    /\ RecoveryRows
    /\ acked' = {}
    /\ Release(ledger)
    /\ UNCHANGED rowVars

BackendRestart ==
    /\ "restart" \in Disturbances
    /\ pc # "free" \/ acked # {}
    /\ ProcessDies
    /\ UNCHANGED hostVars

HostRestart ==
    /\ boots < MaxBoots
    /\ boots' = boots + 1
    /\ HostReboot
    /\ pools' = {}
    /\ topologyOk' \in (IF ledger.current = None THEN {TRUE} ELSE BOOLEAN)
    /\ oldest' = next - 1
    /\ ProcessDies

(* _confirm_typed_comfy_restart_recovery *)
ConfirmRestart(p) ==
    /\ child[p] = "recovery"
    /\ p <= oldest
    /\ child' = [child EXCEPT ![p] = "cancelled"]
    /\ ledger' = Cleanup(ledger, p)
    /\ UNCHANGED <<hostVars, rowVars, acked, dispatcherVars>>

(* The guards of the settings page's RayLight recovery. *)
RecoveryAccepted ==
    /\ ledger.tail # NoPrompt
    /\ ledger.cert # "none" \/ History(ledger.tail) # "absent"
    /\ \A p \in Prompts : ~Visible(p) /\ child[p] \notin Nonterminal

RecoveryRequired == ledger.current # None /\ ~topologyOk

(* confirm_raylight_runtime_restart *)
ConfirmRayRestart ==
    /\ pc = "free"
    /\ RecoveryRequired
    /\ RecoveryAccepted
    /\ ledger' = [NoTail(ledger) EXCEPT !.current = None, !.tainted = FALSE]
    /\ topologyOk' = TRUE
    /\ UNCHANGED <<up, forgotten, pools, boots, oldest, child, rowVars, acked, dispatcherVars>>

----------------------------------------------------------------------------
(* The host. *)

HostStep(p) ==
    /\ \/ HostAdmit(p)
       \/ HostRefuse(p)
       \/ "lose" \in Disturbances /\ HostLose(p)
       \/ "drop" \in Disturbances /\ HostDrop(p)
       \/ "forget" \in Disturbances /\ HostForget(p)
    /\ UNCHANGED pools

(* RayInitializer, which RayKill replays as well: the pool of its epoch is  *)
(* built or, still cached, continued.  It would shut down a cluster it      *)
(* finds; the model does not count on that, so that pools holds whatever    *)
(* no RayKill has shut down.                                                *)
PoolBuilt(p) == pools \cup {ns[p].epoch}

(* RayKill, "Kill Entire Cluster"; when it raises, it may have done so. *)
PoolsLeft(p) ==
    IF kind[p] # "shutdown" THEN {pools}
    ELSE IF up'[p] = "success" THEN {{}} ELSE {{}, pools}

PoolStep(p) ==
    \/ HostStart(p) /\ pools' = PoolBuilt(p)
    \/ HostFinish(p) /\ pools' \in PoolsLeft(p)

HostActs(p) ==
    /\ HostStep(p) \/ PoolStep(p)
    /\ UNCHANGED <<topologyOk, boots, oldest, ledger, child, rowVars, acked, dispatcherVars>>

----------------------------------------------------------------------------
Init ==
    /\ ComfyInit
    /\ pools = {}
    /\ topologyOk = TRUE
    /\ boots = 0
    /\ oldest = 0
    /\ ledger = EmptyLedger
    /\ child = [p \in Prompts |-> "none"]
    /\ kind = [p \in Prompts |-> "none"]
    /\ ns = [p \in Prompts |-> [epoch |-> 0, key |-> None]]
    /\ acked = {}
    /\ next = 1
    /\ pc = "free"
    /\ mode = "none"
    /\ want = None
    /\ snap = EmptyLedger
    /\ ambiguous = FALSE
    /\ unit = NoPrompt
    /\ stop = FALSE

Dispatch ==
    \/ \E m \in {"standard", "mixed"} : Acquire(m)
    \/ CheckRecovery \/ RefreshHistory \/ RefreshQueue \/ RefreshConfirmation
    \/ AwaitTail \/ AwaitOldKill
    \/ \E w \in Keys \cup {Standard} : PlanSegment(w) \/ PlanKill(w)
    \/ EndPlan \/ ClaimKill \/ AbandonKill
    \/ PostReturns \/ PostRejected \/ PostFailed
    \/ AwaitFailed \/ SegmentDone \/ SegmentStopped
    \/ KillDone \/ KillFailed \/ KillStopped \/ Quiesce

Others ==
    \/ \E p \in Prompts :
          \/ ProgressEvent(p) \/ Certify(p) \/ Observe(p) \/ SyncSettle(p)
          \/ CancelOther(p) \/ DirectedCancel(p) \/ CommitCancel(p)
          \/ Delete(p) \/ ConfirmRestart(p)
    \/ UserCancel \/ ConfirmRayRestart

Next ==
    \/ Dispatch
    \/ Others
    \/ BackendRestart
    \/ HostRestart
    \/ \E p \in Prompts : HostActs(p)

Spec == Init /\ [][Next]_vars

----------------------------------------------------------------------------
(* Properties. *)

LedgerType ==
    [epoch : 0 .. MaxPrompts, current : Keys \cup {None}, tail : 0 .. MaxPrompts,
     action : {"none", "ray_unit", "shutdown"}, tainted : BOOLEAN,
     cert : {"none", "ok", "bad"}]

TypeOK ==
    /\ up \in [Prompts -> HostStates]
    /\ forgotten \subseteq Prompts
    /\ pools \subseteq 0 .. MaxPrompts
    /\ topologyOk \in BOOLEAN
    /\ boots \in 0 .. MaxBoots
    /\ oldest \in 0 .. MaxPrompts
    /\ ledger \in LedgerType /\ snap \in LedgerType
    /\ child \in [Prompts -> ChildStates]
    /\ kind \in [Prompts -> Kinds]
    /\ ns \in [Prompts -> [epoch : 0 .. MaxPrompts, key : Keys \cup {None}]]
    /\ acked \subseteq Prompts
    /\ next \in 1 .. MaxPrompts + 1
    /\ pc \in {"free", "stats", "history", "queue", "confirm", "awaitTail", "awaitOldKill",
              "plan", "preflight", "post", "awaitSegment", "awaitKill"}
    /\ mode \in {"none", "standard", "mixed", "ray"}
    /\ want \in Keys \cup {None, Standard}
    /\ ambiguous \in BOOLEAN
    /\ unit \in 0 .. MaxPrompts
    /\ stop \in BOOLEAN

Segment(p) == kind[p] = "ray_unit" /\ up[p] # "refused"

(* The point of the ledger: a segment is only ever appended to a pool all  *)
(* of whose earlier segments succeeded, with the same runtime key.  It     *)
(* spans every writer of the row: a late success must not clear the taint  *)
(* a newer prompt left (settle matches the tail in one transaction), a     *)
(* stale write-back must not either.                                       *)
PoolReusedOnlyAfterSuccess ==
    \A p, q \in Prompts :
        (p < q /\ Segment(p) /\ Segment(q) /\ ns[p].epoch = ns[q].epoch)
            => up[p] = "success" /\ ns[p].key = ns[q].key

(* A pool that a RayKill shut down is never addressed again: every later   *)
(* segment has a newer epoch, although a refused POST puts the epoch back. *)
KilledPoolStaysDead ==
    \A k, p \in Prompts :
        (k < p /\ kind[k] = "shutdown" /\ up[k] = "success" /\ Segment(p))
            => ns[p].epoch > ns[k].epoch

(* The barrier holds whatever is cancelled, lost or restarted: the host    *)
(* never holds two actor pools, so two runtimes never share the GPUs.      *)
OnePool == Cardinality(pools) <= 1

(* docs/architecture.md: only one Director Ray generation is visible in    *)
(* ComfyUI at a time.  Cancelled and abandoned ones count.                 *)
OneGenerationVisible ==
    \A p, q \in Prompts :
        (kind[p] = "ray_unit" /\ kind[q] = "ray_unit" /\ Visible(p) /\ Visible(q)) => p = q

(* A terminal certificate in the row states what the host really did.      *)
CertificateIsTrue ==
    /\ ledger.cert = "ok" => up[ledger.tail] = "success"
    /\ ledger.cert = "bad" => up[ledger.tail] \in {"error", "interrupted"}

(* Work that can still run in the host and that nobody has written off is  *)
(* the recorded tail, so that the next dispatcher waits for it.            *)
OutstandingWorkIsTheTail ==
    \A p \in Prompts :
        (up[p] \in {"flight", "queued", "running"} /\ child[p] \in Nonterminal)
            => ledger.tail = p

(* A dispatcher that reaches planning while no prompt is outstanding finds *)
(* a row it can plan on; app.py:7441 promises that an unresolvable tail    *)
(* makes the next unit queue RayKill first.                                *)
QuietFrontierIsPlannable ==
    (pc = "plan" /\ \A p \in Prompts : child[p] \notin Nonterminal) => Plannable(ledger)

(* The same promise for one case: the tail succeeded and the row says so,  *)
(* its job was deleted, and the host forgot its history.                   *)
DeletedTailIsPlannable ==
    (pc = "plan" /\ ledger.tail # NoPrompt /\ child[ledger.tail] = "deleted"
        /\ ledger.cert = "ok")
            => Plannable(ledger)

(* When Ray work is refused because its GPUs are gone and nothing is       *)
(* outstanding, the recovery the refusal points to accepts the request.    *)
RefusalHasARecovery ==
    (pc = "free" /\ RecoveryRequired /\ \A p \in Prompts : child[p] \notin Nonterminal)
        => RecoveryAccepted

----------------------------------------------------------------------------
(* The inductive invariant behind the first, second and fifth property.    *)

(* What a row l says about prompts ps, given their host state u, kind k    *)
(* and namespace n: no issued prompt is ahead of the row's epoch, the      *)
(* certificate is true, a pool without a generation at its tail is         *)
(* tainted, and behind a generation at the tail the epoch holds only       *)
(* successful generations of the same key and no RayKill.                  *)
Accounts(l, ps, u, k, n) ==
    LET Issued(p) == k[p] # "none" /\ u[p] # "refused"
    IN
    /\ l.tail = NoPrompt <=> l.action = "none"
    /\ \A p \in ps : Issued(p) => n[p].epoch <= l.epoch
    /\ l.cert = "ok" => l.tail # NoPrompt /\ u[l.tail] = "success"
    /\ l.cert = "bad" => l.tail # NoPrompt /\ u[l.tail] \in {"error", "interrupted"}
    /\ l.current # None =>
        /\ l.action # "ray_unit" => l.tainted
        /\ \A p \in ps : (Issued(p) /\ n[p].epoch = l.epoch) => n[p].key = l.current
        /\ l.action = "ray_unit" =>
              \A p \in ps : (Issued(p) /\ n[p].epoch = l.epoch) =>
                  k[p] = "ray_unit" /\ (p # l.tail => u[p] = "success")

(* A child row that claims an exact result has it. *)
ChildTruth ==
    \A p \in Prompts :
        /\ child[p] \in {"succeeded", "verifying"} => up[p] = "success"
        /\ child[p] = "failed" => up[p] \in {"error", "interrupted"}
        /\ child[p] = "interrupted" => up[p] = "interrupted"

EpochBehind == ledger.epoch < next /\ snap.epoch < next

Fresh == \A p \in Prompts : p >= next => kind[p] = "none" /\ up[p] = "unsent"

Named ==
    /\ pc \in {"awaitTail", "awaitOldKill", "post", "awaitSegment", "awaitKill"} => unit \in Prompts
    /\ pc \in {"history", "queue", "confirm"} => snap.tail \in Prompts
    /\ pc \in {"preflight", "post", "awaitKill"} => want # None

(* The stored row, and the copy a dispatcher may write back, both account  *)
(* for the prompts; while a POST is out, the copy precedes its unit.       *)
RowsAccount ==
    /\ Accounts(ledger, Prompts, up, kind, ns)
    /\ pc \in {"stats", "history", "queue", "confirm", "preflight"} =>
          Accounts(snap, Prompts, up, kind, ns)
    /\ pc = "post" => Accounts(snap, Prompts \ {unit}, up, kind, ns)

LedgerInvariant ==
    /\ EpochBehind
    /\ Fresh
    /\ Named
    /\ ChildTruth
    /\ RowsAccount

----------------------------------------------------------------------------
(* The inductive invariant behind the third, fourth and sixth property: it *)
(* is inductive together with LedgerInvariant.                             *)

(* Posted, and nobody has asked the host to stop it. *)
Pending == {"flight", "queued", "running"}
AtHost == {"flight"} \cup InQueue

(* A newer prompt is only posted when the older ones are past pending.  One *)
(* that is still stopping keeps the worker, so the newer one has not run,   *)
(* and between two generations there is a RayKill.                          *)
HostOrder ==
    \A p, q \in Prompts :
        (p < q /\ kind[q] # "none") =>
            /\ up[p] \notin Pending
            /\ up[p] = "stopping" =>
                  /\ up[q] \in {"flight", "queued", "lost", "removed", "refused"}
                  /\ kind[p] # "ray_unit" \/ kind[q] # "ray_unit"

(* How a row l guards the prompts ps and the pools pl of the host: its tail *)
(* is the last prompt of its epoch, pending work is the tail, a prompt at   *)
(* the host leaves the row tainted and in its epoch, and a pool is the      *)
(* row's own unless its RayKill succeeded.                                  *)
Guards(l, ps, u, k, n, pl) ==
    /\ l.tail # NoPrompt =>
          /\ l.tail \in ps /\ k[l.tail] = l.action /\ n[l.tail].epoch = l.epoch
          /\ \A p \in ps : (k[p] # "none" /\ u[p] # "refused") => p <= l.tail
    /\ \A p \in ps : u[p] \in Pending => l.tail = p
    /\ \A p \in ps : (k[p] # "none" /\ u[p] \in AtHost) =>
           l.current # None /\ l.tainted /\ n[p].epoch = l.epoch
    /\ pl # {} => l.current # None /\ pl = {l.epoch}
    /\ (l.action = "shutdown" /\ u[l.tail] = "success") => pl = {}

RowsGuard ==
    /\ Guards(ledger, Prompts, up, kind, ns, pools)
    /\ pc \in {"stats", "history", "queue", "confirm", "preflight"} =>
          Guards(snap, Prompts, up, kind, ns, pools)
    /\ (pc = "post" /\ up[unit] \in {"flight", "refused"}) =>
          Guards(snap, Prompts \ {unit}, up, kind, ns, pools)

(* What a child row, an acknowledged cancel and a restart say of the host. *)
ChildFollowsHost ==
    /\ oldest < next
    /\ \A p \in Prompts :
        /\ child[p] = "none" => up[p] = "unsent"
        /\ child[p] \in Terminal \cup {"deleted"} => up[p] \notin Pending
        /\ child[p] \in {"live", "cancelling", "verifying"} => up[p] # "flight"
        /\ p \in acked => up[p] \notin Pending \cup {"unsent"}
        /\ p <= oldest => up[p] \notin AtHost

(* A tail that is not ambiguous cannot arrive any more, and is gone once   *)
(* the queue did not list it.                                              *)
RefreshSound ==
    /\ (pc \in {"history", "queue", "confirm"} /\ ~ambiguous) => up[snap.tail] # "flight"
    /\ (pc = "confirm" /\ ~ambiguous) => up[snap.tail] \notin AtHost
    /\ pc = "preflight" => SettledFrontier(snap) /\ snap.current # None

(* While the recorded GPUs are gone, nothing is built on the row. *)
TopologyGone ==
    ~topologyOk =>
        /\ ledger.current # None /\ pools = {}
        /\ \A p \in Prompts : up[p] \notin AtHost /\ History(p) = "absent"
        /\ pc \in {"free", "stats", "plan", "preflight"}
        /\ pc = "plan" => mode = "standard"
        /\ pc = "stats" => snap.current # None

BarrierInvariant ==
    /\ HostOrder
    /\ RowsGuard
    /\ ChildFollowsHost
    /\ RefreshSound
    /\ TopologyGone

----------------------------------------------------------------------------
(* Refinement. *)

Generation(p) == kind[p] = "ray_unit"

VisibleGenerations == {<<p, ns[p].epoch>> : p \in {q \in Prompts : Generation(q) /\ Visible(q)}}

GenerationRuns == \E p \in Prompts : Generation(p) /\ up[p] \in Executing

KilledEpochs ==
    {ns[k].epoch : k \in {q \in Prompts : kind[q] = "shutdown" /\ up[q] = "success"}}

SpoiledEpochs ==
    {ns[p].epoch : p \in {q \in Prompts :
        Generation(q) /\ up[q] \in {"lost", "removed", "error", "interrupted"}}}

Barrier == INSTANCE RayBarrier WITH
    Generations <- Prompts, Epochs <- 0 .. MaxPrompts, visible <- VisibleGenerations,
    running <- GenerationRuns, dead <- KilledEpochs, spoiled <- SpoiledEpochs

(* docs/architecture.md: the barrier between generations and pools holds   *)
(* at every step of every actor, across cancels, losses and restarts.      *)
ImplementsBarrier == Barrier!Spec
=============================================================================
