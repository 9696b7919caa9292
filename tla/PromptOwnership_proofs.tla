------------------------ MODULE PromptOwnership_proofs ------------------------
(***************************************************************************)
(* Proofs about PromptOwnership, for every set of concurrent requests to   *)
(* cancel and every set of disturbances.                                   *)
(*                                                                         *)
(* The argument: OwnershipInvariant is inductive.  Each lemma takes one    *)
(* action; a part of the invariant that needs nothing but itself is        *)
(* carried along with others of its kind, and a part that rests on another *)
(* has a step that names it.                                               *)
(***************************************************************************)
EXTENDS PromptOwnership, TLAPS

(* The vocabulary of the rows and the frames of the actions. *)
USE UsersAssumption
DEF UsersAssumption, Prompts, Coroutines, Cancellers, hostVars, dbVars, flightVars,
    HostStates, Finished, Executing, InQueue,
    OwnershipStates, ChildStates, JobStates, Confirmed, Terminal, Over, Submitting,
    Recovery, Active, Stopping, Waiting, Early, Transition, TouchChild, Goto

(* The two halves of TypeOK: the rows and the host, and the coroutines. *)
RowsTyped ==
    /\ up \in [Prompts -> HostStates]
    /\ forgotten \subseteq Prompts
    /\ own \in OwnershipStates
    /\ child \in ChildStates
    /\ job \in JobStates
    /\ {receipt, wanted, oldBoot, fresh} \subseteq BOOLEAN

FlightTyped ==
    /\ pc \in [Coroutines -> {"idle", "start", "post", "bind", "sent", "yes", "no", "error",
                              "probe", "begin", "queue", "history", "apply"}]
    /\ duty \in {"none", "cancel", "inline", "late", "cleanup"}
    /\ adopted \subseteq Users \cup {"dispatcher"}
    /\ held \subseteq Cancellers
    /\ seen \in {"none", "off", "unknown", "absent", "queued", "running", "cancelling"}
                 \cup Finished

LEMMA InitStep == Init => OwnershipInvariant
<1> SUFFICES ASSUME Init PROVE OwnershipInvariant
  OBVIOUS
<1>1. RowsTyped /\ FlightTyped
  BY DEF Init, ComfyInit, RowsTyped, FlightTyped
<1>2. Unsent /\ ClaimsAreOpen /\ Releases /\ Evidence
  BY DEF Init, ComfyInit, Unsent, ClaimsAreOpen, Releases, Evidence
<1>3. RecoveryIsLater /\ CancellingIsSeen
  BY DEF Init, RecoveryIsLater, CancellingIsSeen
<1>4. /\ OutstandingIsOpen /\ ClosedMeansReleased
      /\ CertifiedIsFinished /\ ParentFollowsChild
  BY DEF Init, OutstandingIsOpen, ClosedMeansReleased, CertifiedIsFinished,
         ParentFollowsChild
<1> QED  BY <1>1, <1>2, <1>3, <1>4 DEF OwnershipInvariant, TypeOK, RowsTyped, FlightTyped

(* What exact history leaves behind. *)
LEMMA Committed ==
    ASSUME NEW r \in Finished, CommitHistory(r)
    PROVE  /\ own' = "terminal_confirmed"
           /\ receipt' = (r = "success")
           /\ r = "success" => child' \in {"running", "failed"}
           /\ r # "success" => child' \in {"failed", "cancelled"}
BY DEF CommitHistory

----------------------------------------------------------------------------
(* The dispatcher. *)

LEMMA SubmitStep == ASSUME OwnershipInvariant, Submit PROVE OwnershipInvariant'
<1>1. RowsTyped'
  BY DEF OwnershipInvariant, TypeOK, RowsTyped, Submit
<1>2. FlightTyped'
  BY DEF OwnershipInvariant, TypeOK, FlightTyped, Submit
<1>3. /\ Unsent' /\ ClaimsAreOpen' /\ RecoveryIsLater' /\ CancellingIsSeen'
      /\ OutstandingIsOpen' /\ ClosedMeansReleased' /\ CertifiedIsFinished' /\ ParentFollowsChild'
  BY DEF OwnershipInvariant, TypeOK, Unsent, ClaimsAreOpen, RecoveryIsLater,
         CancellingIsSeen, OutstandingIsOpen, ClosedMeansReleased, CertifiedIsFinished,
         ParentFollowsChild, Submit
<1>4. Releases'
  BY DEF OwnershipInvariant, Releases, Unsent, Submit
<1>5. Evidence'
  BY DEF OwnershipInvariant, Evidence, Unsent, Submit
<1> QED  BY <1>1, <1>2, <1>3, <1>4, <1>5
          DEF OwnershipInvariant, TypeOK, RowsTyped, FlightTyped

LEMMA WithholdStep == ASSUME OwnershipInvariant, Withhold PROVE OwnershipInvariant'
<1>1. RowsTyped'
  BY DEF OwnershipInvariant, TypeOK, RowsTyped, Withhold, Probe, JobOf
<1>2. FlightTyped'
  BY DEF OwnershipInvariant, TypeOK, FlightTyped, Withhold, Probe, JobOf
<1>3. ClaimsAreOpen' /\ OutstandingIsOpen' /\ ClosedMeansReleased' /\ CertifiedIsFinished'
  BY DEF OwnershipInvariant, ClaimsAreOpen, OutstandingIsOpen, ClosedMeansReleased,
         CertifiedIsFinished, Withhold
<1>4. Unsent' /\ Releases' /\ Evidence' /\ RecoveryIsLater'
  BY DEF OwnershipInvariant, TypeOK, Unsent, Releases, Evidence, RecoveryIsLater,
         Withhold, Probe
<1>5. CancellingIsSeen' /\ ParentFollowsChild'
  BY DEF OwnershipInvariant, TypeOK, CancellingIsSeen, ParentFollowsChild, Withhold,
         Probe
<1> QED  BY <1>1, <1>2, <1>3, <1>4, <1>5
          DEF OwnershipInvariant, TypeOK, RowsTyped, FlightTyped

LEMMA PostReturnsStep == ASSUME OwnershipInvariant, PostReturns PROVE OwnershipInvariant'
<1>1. RowsTyped'
  BY DEF OwnershipInvariant, TypeOK, RowsTyped, PostReturns, Arrived
<1>2. FlightTyped'
  BY DEF OwnershipInvariant, TypeOK, FlightTyped, PostReturns, Arrived
<1>3. /\ Unsent' /\ ClaimsAreOpen' /\ Evidence' /\ RecoveryIsLater'
      /\ CancellingIsSeen' /\ OutstandingIsOpen' /\ CertifiedIsFinished' /\ ParentFollowsChild'
  BY DEF OwnershipInvariant, TypeOK, Unsent, ClaimsAreOpen, Evidence, RecoveryIsLater,
         CancellingIsSeen, OutstandingIsOpen, CertifiedIsFinished, ParentFollowsChild,
         PostReturns
<1>4. Releases'
  BY DEF OwnershipInvariant, TypeOK, Releases, ClaimsAreOpen, PostReturns
<1>5. ClosedMeansReleased'
  BY DEF OwnershipInvariant, ClosedMeansReleased, ClaimsAreOpen, PostReturns
<1> QED  BY <1>1, <1>2, <1>3, <1>4, <1>5
          DEF OwnershipInvariant, TypeOK, RowsTyped, FlightTyped

LEMMA BindStep == ASSUME OwnershipInvariant, Bind PROVE OwnershipInvariant'
<1>1. RowsTyped'
  BY DEF OwnershipInvariant, TypeOK, RowsTyped, Bind, Probe, ClaimCancel
<1>2. FlightTyped'
  BY DEF OwnershipInvariant, TypeOK, FlightTyped, Bind, Probe, ClaimCancel
<1>3. OutstandingIsOpen' /\ ClosedMeansReleased'
  BY DEF OwnershipInvariant, OutstandingIsOpen, ClosedMeansReleased, Bind
<1>4. Unsent' /\ ClaimsAreOpen' /\ Releases' /\ Evidence'
  BY DEF OwnershipInvariant, TypeOK, Unsent, ClaimsAreOpen, Releases, Evidence, Bind,
         Probe, ClaimCancel
<1>5. RecoveryIsLater' /\ CancellingIsSeen' /\ CertifiedIsFinished' /\ ParentFollowsChild'
  BY DEF OwnershipInvariant, TypeOK, RecoveryIsLater, CancellingIsSeen,
         CertifiedIsFinished, ParentFollowsChild, Bind, Probe, ClaimCancel
<1> QED  BY <1>1, <1>2, <1>3, <1>4, <1>5
          DEF OwnershipInvariant, TypeOK, RowsTyped, FlightTyped

(* A failed POST closes the child only if history was first. *)
LEMMA PostFailsStep == ASSUME OwnershipInvariant, PostFails PROVE OwnershipInvariant'
<1>1. RowsTyped'
  BY DEF OwnershipInvariant, TypeOK, RowsTyped, PostFails, CleanUp, ClaimCancel,
         Finalize
<1>2. FlightTyped'
  BY DEF OwnershipInvariant, TypeOK, FlightTyped, PostFails, CleanUp, ClaimCancel,
         Finalize
<1>3. Unsent' /\ ClaimsAreOpen' /\ Releases' /\ Evidence'
  BY DEF OwnershipInvariant, TypeOK, Unsent, ClaimsAreOpen, Releases, Evidence,
         PostFails, CleanUp, ClaimCancel, Finalize
<1>4. RecoveryIsLater' /\ CancellingIsSeen' /\ ClosedMeansReleased' /\ CertifiedIsFinished'
  BY DEF OwnershipInvariant, TypeOK, RecoveryIsLater, CancellingIsSeen,
         ClosedMeansReleased, CertifiedIsFinished, PostFails, CleanUp, ClaimCancel,
         Finalize
<1>5. ParentFollowsChild'
  BY DEF OwnershipInvariant, ParentFollowsChild, PostFails, CleanUp, Finalize
<1>6. OutstandingIsOpen'
  BY DEF OwnershipInvariant, OutstandingIsOpen, Releases, CertifiedIsFinished,
         PostFails, CleanUp
<1> QED  BY <1>1, <1>2, <1>3, <1>4, <1>5, <1>6
          DEF OwnershipInvariant, TypeOK, RowsTyped, FlightTyped

LEMMA PostRejectedStep == ASSUME OwnershipInvariant, PostRejected PROVE OwnershipInvariant'
<1>1. RowsTyped'
  BY DEF OwnershipInvariant, TypeOK, RowsTyped, PostRejected, CleanUp, ClaimCancel,
         Finalize
<1>2. FlightTyped'
  BY DEF OwnershipInvariant, TypeOK, FlightTyped, PostRejected, CleanUp, ClaimCancel,
         Finalize
<1>3. OutstandingIsOpen'
  BY DEF OwnershipInvariant, OutstandingIsOpen, PostRejected
<1>4. Unsent' /\ ClaimsAreOpen' /\ Evidence' /\ RecoveryIsLater'
  BY DEF OwnershipInvariant, TypeOK, Unsent, ClaimsAreOpen, Evidence, RecoveryIsLater,
         PostRejected, CleanUp, ClaimCancel, Finalize
<1>5. CancellingIsSeen' /\ ClosedMeansReleased' /\ CertifiedIsFinished' /\ ParentFollowsChild'
  BY DEF OwnershipInvariant, CancellingIsSeen, ClosedMeansReleased, CertifiedIsFinished,
         ParentFollowsChild, PostRejected, CleanUp, ClaimCancel, Finalize
<1>6. Releases'
  BY DEF OwnershipInvariant, Releases, CertifiedIsFinished, PostRejected, CleanUp,
         ClaimCancel, Finalize
<1> QED  BY <1>1, <1>2, <1>3, <1>4, <1>5, <1>6
          DEF OwnershipInvariant, TypeOK, RowsTyped, FlightTyped

(* An acknowledged cancel closes the child: the host had let go of it. *)
LEMMA InlineAnsweredStep == ASSUME OwnershipInvariant, InlineAnswered PROVE OwnershipInvariant'
<1>1. RowsTyped'
  BY DEF OwnershipInvariant, TypeOK, RowsTyped, InlineAnswered, CleanUp, ClaimCancel,
         Finalize, JobOf
<1>2. FlightTyped'
  BY DEF OwnershipInvariant, TypeOK, FlightTyped, InlineAnswered, CleanUp, ClaimCancel,
         Finalize, JobOf
<1>3. Unsent' /\ ClaimsAreOpen' /\ Releases' /\ Evidence'
  BY DEF OwnershipInvariant, TypeOK, Unsent, ClaimsAreOpen, Releases, Evidence,
         InlineAnswered, CleanUp, ClaimCancel, Finalize
<1>4. RecoveryIsLater' /\ CancellingIsSeen' /\ ClosedMeansReleased' /\ CertifiedIsFinished'
  BY DEF OwnershipInvariant, TypeOK, RecoveryIsLater, CancellingIsSeen,
         ClosedMeansReleased, CertifiedIsFinished, InlineAnswered, CleanUp, ClaimCancel,
         Finalize, JobOf
<1>5. ParentFollowsChild'
  BY DEF OwnershipInvariant, ParentFollowsChild, InlineAnswered, CleanUp, Finalize,
         JobOf
<1>6. OutstandingIsOpen'
  BY DEF OwnershipInvariant, OutstandingIsOpen, Releases, Evidence, CertifiedIsFinished,
         InlineAnswered, CleanUp
<1> QED  BY <1>1, <1>2, <1>3, <1>4, <1>5, <1>6
          DEF OwnershipInvariant, TypeOK, RowsTyped, FlightTyped

LEMMA LateAnsweredStep == ASSUME OwnershipInvariant, LateAnswered PROVE OwnershipInvariant'
<1>1. CASE pc["dispatcher"] = "yes"
  <2>1. ConfirmCancel("dispatcher")
    BY <1>1 DEF LateAnswered
  <2>2. RowsTyped' /\ FlightTyped'
    <3>1. RowsTyped'
      BY <2>1 DEF OwnershipInvariant, TypeOK, RowsTyped, LateAnswered, ConfirmCancel
    <3>2. FlightTyped'
      BY <2>1 DEF OwnershipInvariant, TypeOK, FlightTyped, LateAnswered, ConfirmCancel
    <3> QED  BY <3>1, <3>2
  <2>3. Unsent' /\ ClaimsAreOpen' /\ Releases' /\ Evidence'
    BY <2>1 DEF OwnershipInvariant, TypeOK, Unsent, ClaimsAreOpen, Releases, Evidence,
                LateAnswered, ConfirmCancel
  <2>4. RecoveryIsLater' /\ CancellingIsSeen' /\ ParentFollowsChild'
    BY <2>1 DEF OwnershipInvariant, TypeOK, RecoveryIsLater, CancellingIsSeen,
                ParentFollowsChild, LateAnswered, ConfirmCancel
  <2>5. OutstandingIsOpen' /\ ClosedMeansReleased' /\ CertifiedIsFinished'
    BY <1>1, <2>1 DEF OwnershipInvariant, TypeOK, OutstandingIsOpen, ClosedMeansReleased,
                CertifiedIsFinished, ClaimsAreOpen, Evidence, LateAnswered, ConfirmCancel
  <2> QED  BY <2>2, <2>3, <2>4, <2>5
           DEF OwnershipInvariant, TypeOK, RowsTyped, FlightTyped
<1>2. CASE pc["dispatcher"] # "yes"
  <2> DEFINE shown == IF pc["dispatcher"] = "error" /\ ~Over(child)
                      THEN "cancelling" ELSE child
  <2>1. MarkUnconfirmed("dispatcher") /\ child' = shown
    BY <1>2 DEF LateAnswered
  <2>2. job' = IF pc["dispatcher"] = "error" THEN JobOf(child, "cancelling") ELSE job
    BY <1>2 DEF LateAnswered
  <2>3. RowsTyped' /\ FlightTyped'
    BY <2>1, <2>2 DEF OwnershipInvariant, TypeOK, RowsTyped, FlightTyped, LateAnswered,
                MarkUnconfirmed, JobOf
  <2>4. Unsent' /\ ClaimsAreOpen' /\ Releases' /\ Evidence'
    BY <2>1, <2>2 DEF OwnershipInvariant, TypeOK, Unsent, ClaimsAreOpen, Releases,
                Evidence, LateAnswered, MarkUnconfirmed, JobOf
  <2>5. RecoveryIsLater' /\ CancellingIsSeen' /\ ParentFollowsChild'
    BY <2>1, <2>2 DEF OwnershipInvariant, TypeOK, RecoveryIsLater, CancellingIsSeen,
                ParentFollowsChild, LateAnswered, MarkUnconfirmed, JobOf
  <2>6. OutstandingIsOpen' /\ ClosedMeansReleased' /\ CertifiedIsFinished'
    BY <2>1, <2>2 DEF OwnershipInvariant, TypeOK, OutstandingIsOpen, ClosedMeansReleased,
                CertifiedIsFinished, ClaimsAreOpen, LateAnswered, MarkUnconfirmed
  <2> QED  BY <2>3, <2>4, <2>5, <2>6
           DEF OwnershipInvariant, TypeOK, RowsTyped, FlightTyped
<1> QED  BY <1>1, <1>2

LEMMA CleanupAnsweredStep == ASSUME OwnershipInvariant, CleanupAnswered PROVE OwnershipInvariant'
<1>1. RowsTyped'
  BY DEF OwnershipInvariant, TypeOK, RowsTyped, CleanupAnswered, ConfirmCancel,
         MarkUnconfirmed
<1>2. FlightTyped'
  BY DEF OwnershipInvariant, TypeOK, FlightTyped, CleanupAnswered, ConfirmCancel,
         MarkUnconfirmed
<1>3. Evidence'
  BY DEF OwnershipInvariant, Evidence, CleanupAnswered
<1>4. Unsent' /\ ClaimsAreOpen' /\ CancellingIsSeen' /\ CertifiedIsFinished'
  BY DEF OwnershipInvariant, Unsent, ClaimsAreOpen, CancellingIsSeen,
         CertifiedIsFinished, CleanupAnswered, ConfirmCancel, MarkUnconfirmed
<1>5. ParentFollowsChild'
  BY DEF OwnershipInvariant, ParentFollowsChild, CleanupAnswered, ConfirmCancel
<1>6. Releases'
  BY DEF OwnershipInvariant, Releases, ClaimsAreOpen, CleanupAnswered, ConfirmCancel,
         MarkUnconfirmed
<1>7. RecoveryIsLater'
  BY DEF OwnershipInvariant, TypeOK, RecoveryIsLater, Unsent, CleanupAnswered,
         ConfirmCancel, MarkUnconfirmed
<1>8. OutstandingIsOpen'
  BY DEF OwnershipInvariant, OutstandingIsOpen, Evidence, CleanupAnswered
<1>9. ClosedMeansReleased'
  BY DEF OwnershipInvariant, ClosedMeansReleased, ClaimsAreOpen, CleanupAnswered,
         ConfirmCancel, MarkUnconfirmed
<1> QED  BY <1>1, <1>2, <1>3, <1>4, <1>5, <1>6, <1>7, <1>8, <1>9
          DEF OwnershipInvariant, TypeOK, RowsTyped, FlightTyped

----------------------------------------------------------------------------
(* Requests to cancel. *)

LEMMA RequestCancelStep == ASSUME NEW u \in Users, OwnershipInvariant, RequestCancel(u) PROVE OwnershipInvariant'
<1>1. RowsTyped'
  BY DEF OwnershipInvariant, TypeOK, RowsTyped, RequestCancel, AwaitCertificate, Probe
<1>2. FlightTyped'
  BY DEF OwnershipInvariant, TypeOK, FlightTyped, RequestCancel, AwaitCertificate, Probe
<1>3. ClaimsAreOpen' /\ Evidence' /\ RecoveryIsLater' /\ CancellingIsSeen'
  BY DEF OwnershipInvariant, TypeOK, ClaimsAreOpen, Evidence, RecoveryIsLater,
         CancellingIsSeen, RequestCancel, AwaitCertificate, Probe
<1>4. OutstandingIsOpen' /\ ClosedMeansReleased' /\ CertifiedIsFinished' /\ ParentFollowsChild'
  BY DEF OwnershipInvariant, OutstandingIsOpen, ClosedMeansReleased,
         CertifiedIsFinished, ParentFollowsChild, RequestCancel, AwaitCertificate, Probe
<1>5. Unsent'
  BY DEF OwnershipInvariant, TypeOK, Unsent, Evidence, RequestCancel, AwaitCertificate,
         Probe
<1>6. Releases'
  BY DEF OwnershipInvariant, TypeOK, Releases, RecoveryIsLater, RequestCancel,
         AwaitCertificate, Probe
<1> QED  BY <1>1, <1>2, <1>3, <1>4, <1>5, <1>6
          DEF OwnershipInvariant, TypeOK, RowsTyped, FlightTyped

(* A cancel closes only a child that was never posted. *)
LEMMA PursueStep == ASSUME NEW u \in Users \cup {"dispatcher"}, OwnershipInvariant, Pursue(u) PROVE OwnershipInvariant'
<1>1. RowsTyped'
  BY DEF OwnershipInvariant, TypeOK, RowsTyped, Pursue, Cancels, Quiesce, JobOf,
         ClaimCancel
<1>2. FlightTyped'
  BY DEF OwnershipInvariant, TypeOK, FlightTyped, Pursue, Cancels, Quiesce, JobOf,
         ClaimCancel
<1>3. Unsent' /\ ClaimsAreOpen' /\ Releases' /\ Evidence'
  BY DEF OwnershipInvariant, TypeOK, Unsent, ClaimsAreOpen, Releases, Evidence, Pursue,
         Quiesce, JobOf, ClaimCancel
<1>4. RecoveryIsLater' /\ CancellingIsSeen' /\ CertifiedIsFinished' /\ ParentFollowsChild'
  BY DEF OwnershipInvariant, TypeOK, RecoveryIsLater, CancellingIsSeen,
         CertifiedIsFinished, ParentFollowsChild, Pursue, Quiesce, JobOf, ClaimCancel
<1>5. OutstandingIsOpen'
  BY DEF OwnershipInvariant, OutstandingIsOpen, Unsent, Pursue
<1>6. ClosedMeansReleased'
  BY DEF OwnershipInvariant, ClosedMeansReleased, Unsent, Pursue
<1> QED  BY <1>1, <1>2, <1>3, <1>4, <1>5, <1>6
          DEF OwnershipInvariant, TypeOK, RowsTyped, FlightTyped

LEMMA CancelAnsweredStep == ASSUME NEW u \in Users \cup {"dispatcher"}, OwnershipInvariant, CancelAnswered(u) PROVE OwnershipInvariant'
<1>1. RowsTyped'
  BY DEF OwnershipInvariant, TypeOK, RowsTyped, CancelAnswered, Cancels, Quiesce, JobOf,
         ConfirmCancel, MarkUnconfirmed
<1>2. FlightTyped'
  BY DEF OwnershipInvariant, TypeOK, FlightTyped, CancelAnswered, Cancels, Quiesce,
         JobOf, ConfirmCancel, MarkUnconfirmed
<1>3. ClaimsAreOpen' /\ Evidence' /\ RecoveryIsLater' /\ CancellingIsSeen'
  BY DEF OwnershipInvariant, ClaimsAreOpen, Evidence, RecoveryIsLater, CancellingIsSeen,
         CancelAnswered, Quiesce, JobOf, ConfirmCancel, MarkUnconfirmed
<1>4. CertifiedIsFinished' /\ ParentFollowsChild'
  BY DEF OwnershipInvariant, CertifiedIsFinished, ParentFollowsChild, CancelAnswered,
         JobOf, ConfirmCancel, MarkUnconfirmed
<1>5. Unsent'
  BY DEF OwnershipInvariant, Unsent, ClaimsAreOpen, CancelAnswered, Quiesce, JobOf,
         ConfirmCancel, MarkUnconfirmed
<1>6. Releases'
  BY DEF OwnershipInvariant, Releases, ClaimsAreOpen, CancelAnswered, Quiesce,
         ConfirmCancel, MarkUnconfirmed
<1>7. OutstandingIsOpen'
  BY DEF OwnershipInvariant, OutstandingIsOpen, Evidence, CancelAnswered
<1>8. ClosedMeansReleased'
  BY DEF OwnershipInvariant, ClosedMeansReleased, ClaimsAreOpen, CancelAnswered,
         ConfirmCancel, MarkUnconfirmed
<1> QED  BY <1>1, <1>2, <1>3, <1>4, <1>5, <1>6, <1>7, <1>8
          DEF OwnershipInvariant, TypeOK, RowsTyped, FlightTyped

----------------------------------------------------------------------------
(* The recovery worker. *)

LEMMA RecoverStep == ASSUME OwnershipInvariant, Recover PROVE OwnershipInvariant'
<1>1. RowsTyped'
  BY DEF OwnershipInvariant, TypeOK, RowsTyped, Recover, AwaitCertificate, ClaimCancel
<1>2. FlightTyped'
  BY DEF OwnershipInvariant, TypeOK, FlightTyped, Recover, AwaitCertificate, ClaimCancel
<1>3. Evidence' /\ ParentFollowsChild'
  BY DEF OwnershipInvariant, TypeOK, Evidence, ParentFollowsChild, Recover
<1>4. ClaimsAreOpen' /\ Releases' /\ RecoveryIsLater' /\ CancellingIsSeen'
  BY DEF OwnershipInvariant, TypeOK, ClaimsAreOpen, Releases, RecoveryIsLater,
         CancellingIsSeen, Recover, AwaitCertificate, ClaimCancel
<1>5. OutstandingIsOpen' /\ ClosedMeansReleased' /\ CertifiedIsFinished'
  BY DEF OwnershipInvariant, OutstandingIsOpen, ClosedMeansReleased,
         CertifiedIsFinished, Recover, AwaitCertificate, ClaimCancel
<1>6. Unsent'
  <2>1. CASE oldBoot
    BY <2>1 DEF OwnershipInvariant, TypeOK, Unsent, Evidence, Recover, AwaitCertificate
  <2>2. CASE ~oldBoot
    <3>1. own' = "cancel_pending" /\ child' = "recovery"
      BY <2>2 DEF Recover, ClaimCancel
    <3>2. pc' = [pc EXCEPT !["worker"] = "sent"] /\ up' = up
      BY <2>2 DEF Recover
    <3>3. own # "none" /\ pc["dispatcher"] # "start"
      BY DEF OwnershipInvariant, Unsent, RecoveryIsLater, Recover
    <3> QED
      BY <3>1, <3>2, <3>3 DEF OwnershipInvariant, TypeOK, Unsent
  <2> QED  BY <2>1, <2>2
<1> QED  BY <1>1, <1>2, <1>3, <1>4, <1>5, <1>6
          DEF OwnershipInvariant, TypeOK, RowsTyped, FlightTyped

LEMMA RecoverAnsweredStep == ASSUME OwnershipInvariant, RecoverAnswered PROVE OwnershipInvariant'
<1>1. RowsTyped'
  <2>1. own' \in OwnershipStates
    BY DEF OwnershipInvariant, TypeOK, RecoverAnswered, ConfirmCancel, MarkUnconfirmed
  <2>2. child' \in ChildStates
    BY DEF OwnershipInvariant, TypeOK, RecoverAnswered, ConfirmCancel
  <2>3. job' \in JobStates
    BY DEF OwnershipInvariant, TypeOK, RecoverAnswered, ConfirmCancel, JobOf
  <2>4. /\ up' \in [Prompts -> HostStates] /\ forgotten' \subseteq Prompts
        /\ {receipt', wanted', oldBoot', fresh'} \subseteq BOOLEAN
    BY DEF OwnershipInvariant, TypeOK, RecoverAnswered
  <2> QED  BY <2>1, <2>2, <2>3, <2>4 DEF RowsTyped
<1>2. FlightTyped'
  BY DEF OwnershipInvariant, TypeOK, FlightTyped, RecoverAnswered, ConfirmCancel,
         MarkUnconfirmed, JobOf
<1>3. Evidence'
  BY DEF OwnershipInvariant, TypeOK, Evidence, RecoverAnswered
<1>4. ClaimsAreOpen' /\ RecoveryIsLater' /\ CancellingIsSeen' /\ CertifiedIsFinished'
  BY DEF OwnershipInvariant, TypeOK, ClaimsAreOpen, RecoveryIsLater, CancellingIsSeen,
         CertifiedIsFinished, RecoverAnswered, ConfirmCancel, MarkUnconfirmed, JobOf
<1>5. ParentFollowsChild'
  BY DEF OwnershipInvariant, ParentFollowsChild, RecoverAnswered, ConfirmCancel, JobOf
<1>6. Unsent'
  BY DEF OwnershipInvariant, TypeOK, Unsent, ClaimsAreOpen, RecoverAnswered,
         ConfirmCancel, MarkUnconfirmed, JobOf
<1>7. Releases'
  BY DEF OwnershipInvariant, TypeOK, Releases, ClaimsAreOpen, RecoverAnswered,
         ConfirmCancel, MarkUnconfirmed
<1>8. OutstandingIsOpen'
  BY DEF OwnershipInvariant, OutstandingIsOpen, Evidence, RecoverAnswered
<1>9. ClosedMeansReleased'
  BY DEF OwnershipInvariant, ClosedMeansReleased, ClaimsAreOpen, RecoverAnswered,
         ConfirmCancel, MarkUnconfirmed
<1> QED  BY <1>1, <1>2, <1>3, <1>4, <1>5, <1>6, <1>7, <1>8, <1>9
          DEF OwnershipInvariant, TypeOK, RowsTyped, FlightTyped

LEMMA RecoverProbeStep == ASSUME OwnershipInvariant, RecoverProbe PROVE OwnershipInvariant'
<1>1. RowsTyped'
  BY DEF OwnershipInvariant, TypeOK, RowsTyped, RecoverProbe, ApplyHistory,
         CommitHistory, Observe, History, JobOf
<1>2. FlightTyped'
  BY DEF OwnershipInvariant, TypeOK, FlightTyped, RecoverProbe, ApplyHistory,
         CommitHistory, Observe, History, JobOf
<1>3. Evidence'
  BY DEF OwnershipInvariant, Evidence, RecoverProbe
<1>4. Unsent' /\ ClaimsAreOpen' /\ RecoveryIsLater' /\ CancellingIsSeen'
  BY DEF OwnershipInvariant, TypeOK, Unsent, ClaimsAreOpen, RecoveryIsLater,
         CancellingIsSeen, RecoverProbe, ApplyHistory, CommitHistory, Observe, History,
         JobOf
<1>5. OutstandingIsOpen' /\ CertifiedIsFinished' /\ ParentFollowsChild'
  BY DEF OwnershipInvariant, OutstandingIsOpen, CertifiedIsFinished, ParentFollowsChild,
         RecoverProbe, History, JobOf
<1>6. ClosedMeansReleased'
  BY DEF OwnershipInvariant, ClosedMeansReleased, Releases, RecoverProbe, ApplyHistory,
         CommitHistory, Observe
<1>7. Releases'
  <2>1. CASE ~Over(child) /\ ~receipt /\ History(1) \in Finished
    BY <2>1, Committed DEF OwnershipInvariant, TypeOK, Releases, RecoverProbe,
                ApplyHistory
  <2>2. CASE ~Over(child) /\ receipt
    BY <2>2 DEF OwnershipInvariant, TypeOK, Releases, RecoverProbe, ApplyHistory, Observe
  <2>3. CASE Over(child) \/ History(1) \notin Finished
    BY <2>3 DEF OwnershipInvariant, TypeOK, Releases, RecoverProbe, History
  <2> QED  BY <2>1, <2>2, <2>3
<1> QED  BY <1>1, <1>2, <1>3, <1>4, <1>5, <1>6, <1>7
          DEF OwnershipInvariant, TypeOK, RowsTyped, FlightTyped

----------------------------------------------------------------------------
(* The sync flight and progress events. *)

LEMMA SyncBeginStep == ASSUME OwnershipInvariant, SyncBegin PROVE OwnershipInvariant'
<1>1. RowsTyped'
  BY DEF OwnershipInvariant, TypeOK, RowsTyped, SyncBegin, JobOf
<1>2. FlightTyped'
  BY DEF OwnershipInvariant, TypeOK, FlightTyped, SyncBegin, JobOf
<1>3. /\ ClaimsAreOpen' /\ Releases' /\ Evidence' /\ OutstandingIsOpen'
      /\ ClosedMeansReleased' /\ CertifiedIsFinished'
  BY DEF OwnershipInvariant, TypeOK, ClaimsAreOpen, Releases, Evidence,
         OutstandingIsOpen, ClosedMeansReleased, CertifiedIsFinished, SyncBegin
<1>4. Unsent' /\ RecoveryIsLater' /\ CancellingIsSeen' /\ ParentFollowsChild'
  BY DEF OwnershipInvariant, TypeOK, Unsent, RecoveryIsLater, CancellingIsSeen,
         ParentFollowsChild, SyncBegin, JobOf
<1> QED  BY <1>1, <1>2, <1>3, <1>4 DEF OwnershipInvariant, TypeOK, RowsTyped, FlightTyped

LEMMA SyncQueueStep == ASSUME OwnershipInvariant, SyncQueue PROVE OwnershipInvariant'
<1>1. RowsTyped'
  BY DEF OwnershipInvariant, TypeOK, RowsTyped, SyncQueue, Visible
<1>2. FlightTyped'
  BY DEF OwnershipInvariant, TypeOK, FlightTyped, SyncQueue, Visible
<1>3. /\ Unsent' /\ ClaimsAreOpen' /\ Releases' /\ Evidence'
      /\ RecoveryIsLater' /\ CancellingIsSeen' /\ OutstandingIsOpen' /\ ClosedMeansReleased'
      /\ CertifiedIsFinished' /\ ParentFollowsChild'
  BY DEF OwnershipInvariant, TypeOK, Unsent, ClaimsAreOpen, Releases, Evidence,
         RecoveryIsLater, CancellingIsSeen, OutstandingIsOpen, ClosedMeansReleased,
         CertifiedIsFinished, ParentFollowsChild, SyncQueue
<1> QED  BY <1>1, <1>2, <1>3 DEF OwnershipInvariant, TypeOK, RowsTyped, FlightTyped

LEMMA SyncHistoryStep == ASSUME OwnershipInvariant, SyncHistory PROVE OwnershipInvariant'
<1>1. RowsTyped'
  BY DEF OwnershipInvariant, TypeOK, RowsTyped, SyncHistory, History
<1>2. FlightTyped'
  BY DEF OwnershipInvariant, TypeOK, FlightTyped, SyncHistory, History
<1>3. /\ Unsent' /\ ClaimsAreOpen' /\ Releases' /\ RecoveryIsLater'
      /\ OutstandingIsOpen' /\ ClosedMeansReleased' /\ CertifiedIsFinished' /\ ParentFollowsChild'
  BY DEF OwnershipInvariant, Unsent, ClaimsAreOpen, Releases, RecoveryIsLater,
         OutstandingIsOpen, ClosedMeansReleased, CertifiedIsFinished,
         ParentFollowsChild, SyncHistory
<1>4. Evidence' /\ CancellingIsSeen'
  BY DEF OwnershipInvariant, Evidence, CancellingIsSeen, SyncHistory, History
<1> QED  BY <1>1, <1>2, <1>3, <1>4 DEF OwnershipInvariant, TypeOK, RowsTyped, FlightTyped

(* What the flight read of the host is still true when it is applied. *)
LEMMA SyncApplyStep == ASSUME OwnershipInvariant, SyncApply PROVE OwnershipInvariant'
<1>1. RowsTyped'
  <2>1. own' \in OwnershipStates
    BY DEF OwnershipInvariant, TypeOK, SyncApply, ApplyHistory, CommitHistory, Observe,
           SyncQueued, SyncAbsent
  <2>2. child' \in ChildStates
    BY DEF OwnershipInvariant, TypeOK, SyncApply, ApplyHistory, CommitHistory, Observe,
           SyncQueued, SyncAbsent
  <2>3. job' \in JobStates
    BY DEF OwnershipInvariant, TypeOK, SyncApply, JobOf
  <2>4. receipt' \in BOOLEAN
    BY DEF OwnershipInvariant, TypeOK, SyncApply, ApplyHistory, CommitHistory, Observe,
           SyncQueued, SyncAbsent
  <2>5. /\ up' \in [Prompts -> HostStates] /\ forgotten' \subseteq Prompts
        /\ {wanted', oldBoot', fresh'} \subseteq BOOLEAN
    BY DEF OwnershipInvariant, TypeOK, SyncApply
  <2> QED  BY <2>1, <2>2, <2>3, <2>4, <2>5 DEF RowsTyped
<1>2. FlightTyped'
  BY DEF OwnershipInvariant, TypeOK, FlightTyped, SyncApply, ApplyHistory,
         CommitHistory, Observe, JobOf, SyncQueued, SyncAbsent
<1>3. Evidence'
  BY DEF OwnershipInvariant, Evidence, SyncApply
<1>4. Unsent' /\ ClaimsAreOpen' /\ RecoveryIsLater' /\ CancellingIsSeen'
  BY DEF OwnershipInvariant, Unsent, ClaimsAreOpen, RecoveryIsLater, CancellingIsSeen,
         SyncApply, ApplyHistory, CommitHistory, Observe, JobOf, SyncQueued, SyncAbsent
<1>5. ParentFollowsChild'
  BY DEF OwnershipInvariant, ParentFollowsChild, SyncApply, JobOf
<1>6. OutstandingIsOpen'
  BY DEF OwnershipInvariant, OutstandingIsOpen, Releases, Evidence, CertifiedIsFinished,
         SyncApply, SyncQueued, SyncAbsent
<1>7. ClosedMeansReleased'
  BY DEF OwnershipInvariant, ClosedMeansReleased, Releases, SyncApply, ApplyHistory,
         CommitHistory, Observe, SyncQueued, SyncAbsent
<1>8. CertifiedIsFinished'
  BY DEF OwnershipInvariant, CertifiedIsFinished, Evidence, SyncApply, ApplyHistory,
         Observe, SyncQueued, SyncAbsent
<1>9. Releases'
  <2>1. CASE receipt
    BY <2>1 DEF OwnershipInvariant, TypeOK, Releases, SyncApply, ApplyHistory, Observe
  <2>2. CASE ~receipt /\ seen \in Finished
    <3>1. Over(child) => UNCHANGED <<own, child, receipt>>
      BY <2>2 DEF SyncApply, ApplyHistory, OwnershipInvariant, ClosedMeansReleased
    <3>2. ~Over(child) => CommitHistory(seen)
      BY <2>2 DEF SyncApply, ApplyHistory
    <3>3. pc'["dispatcher"] = pc["dispatcher"]
      BY DEF OwnershipInvariant, TypeOK, SyncApply
    <3>4. CASE Over(child)
      BY <3>1, <3>3, <3>4 DEF OwnershipInvariant, Releases
    <3>5. CASE ~Over(child) /\ seen = "success"
      BY <2>2, <3>2, <3>5, Committed DEF Releases
    <3>6. CASE ~Over(child) /\ seen # "success"
      BY <2>2, <3>2, <3>6, Committed DEF Releases
    <3> QED  BY <3>4, <3>5, <3>6
  <2>3. CASE ~receipt /\ seen \notin Finished
    BY <2>3 DEF OwnershipInvariant, TypeOK, Releases, SyncApply, SyncQueued, SyncAbsent
  <2> QED  BY <2>1, <2>2, <2>3
<1> QED  BY <1>1, <1>2, <1>3, <1>4, <1>5, <1>6, <1>7, <1>8, <1>9
          DEF OwnershipInvariant, TypeOK, RowsTyped, FlightTyped

LEMMA ProgressEventStep == ASSUME OwnershipInvariant, ProgressEvent PROVE OwnershipInvariant'
<1>1. RowsTyped'
  BY DEF OwnershipInvariant, TypeOK, RowsTyped, ProgressEvent
<1>2. FlightTyped'
  BY DEF OwnershipInvariant, TypeOK, FlightTyped, ProgressEvent
<1>3. /\ Unsent' /\ ClaimsAreOpen' /\ Releases' /\ Evidence'
      /\ RecoveryIsLater' /\ CancellingIsSeen' /\ OutstandingIsOpen' /\ ClosedMeansReleased'
      /\ CertifiedIsFinished' /\ ParentFollowsChild'
  BY DEF OwnershipInvariant, Unsent, ClaimsAreOpen, Releases, Evidence, RecoveryIsLater,
         CancellingIsSeen, OutstandingIsOpen, ClosedMeansReleased, CertifiedIsFinished,
         ParentFollowsChild, ProgressEvent
<1> QED  BY <1>1, <1>2, <1>3 DEF OwnershipInvariant, TypeOK, RowsTyped, FlightTyped

----------------------------------------------------------------------------
(* Restarts. *)

LEMMA BackendRestartStep == ASSUME OwnershipInvariant, BackendRestart PROVE OwnershipInvariant'
<1>1. RowsTyped'
  BY DEF OwnershipInvariant, TypeOK, RowsTyped, BackendRestart, ProcessDies, Leftover
<1>2. FlightTyped'
  BY DEF OwnershipInvariant, TypeOK, FlightTyped, BackendRestart, ProcessDies, Leftover
<1>3. Unsent' /\ ClaimsAreOpen' /\ Releases' /\ Evidence'
  BY DEF OwnershipInvariant, Unsent, ClaimsAreOpen, Releases, Evidence, BackendRestart,
         ProcessDies
<1>4. RecoveryIsLater' /\ CancellingIsSeen' /\ CertifiedIsFinished' /\ ParentFollowsChild'
  BY DEF OwnershipInvariant, RecoveryIsLater, CancellingIsSeen, CertifiedIsFinished,
         ParentFollowsChild, BackendRestart, ProcessDies
<1>5. OutstandingIsOpen'
  BY DEF OwnershipInvariant, OutstandingIsOpen, Unsent, BackendRestart, ProcessDies
<1>6. ClosedMeansReleased'
  BY DEF OwnershipInvariant, ClosedMeansReleased, Unsent, BackendRestart, ProcessDies
<1> QED  BY <1>1, <1>2, <1>3, <1>4, <1>5, <1>6
          DEF OwnershipInvariant, TypeOK, RowsTyped, FlightTyped

LEMMA HostRestartStep == ASSUME OwnershipInvariant, HostRestart PROVE OwnershipInvariant'
<1>1. RowsTyped'
  BY DEF OwnershipInvariant, TypeOK, RowsTyped, HostRestart, ProcessDies, Leftover,
         HostReboot
<1>2. FlightTyped'
  BY DEF OwnershipInvariant, TypeOK, FlightTyped, HostRestart, ProcessDies, Leftover,
         HostReboot
<1>3. Unsent' /\ ClaimsAreOpen' /\ Releases' /\ RecoveryIsLater'
  BY DEF OwnershipInvariant, Unsent, ClaimsAreOpen, Releases, RecoveryIsLater,
         HostRestart, ProcessDies, HostReboot
<1>4. CancellingIsSeen' /\ OutstandingIsOpen' /\ CertifiedIsFinished' /\ ParentFollowsChild'
  BY DEF OwnershipInvariant, CancellingIsSeen, OutstandingIsOpen, CertifiedIsFinished,
         ParentFollowsChild, HostRestart, ProcessDies, HostReboot
<1>5. Evidence'
  BY DEF OwnershipInvariant, Evidence, Unsent, HostRestart, ProcessDies, HostReboot
<1>6. ClosedMeansReleased'
  BY DEF OwnershipInvariant, ClosedMeansReleased, Unsent, HostRestart, ProcessDies
<1> QED  BY <1>1, <1>2, <1>3, <1>4, <1>5, <1>6
          DEF OwnershipInvariant, TypeOK, RowsTyped, FlightTyped

LEMMA ConfirmRestartStep == ASSUME OwnershipInvariant, ConfirmRestart PROVE OwnershipInvariant'
<1>1. RowsTyped'
  BY DEF OwnershipInvariant, TypeOK, RowsTyped, ConfirmRestart
<1>2. FlightTyped'
  BY DEF OwnershipInvariant, TypeOK, FlightTyped, ConfirmRestart
<1>3. /\ Unsent' /\ ClaimsAreOpen' /\ Releases' /\ Evidence'
      /\ RecoveryIsLater' /\ CancellingIsSeen' /\ ClosedMeansReleased' /\ CertifiedIsFinished'
      /\ ParentFollowsChild'
  BY DEF OwnershipInvariant, Unsent, ClaimsAreOpen, Releases, Evidence, RecoveryIsLater,
         CancellingIsSeen, ClosedMeansReleased, CertifiedIsFinished, ParentFollowsChild,
         ConfirmRestart
<1>4. OutstandingIsOpen'
  BY DEF OwnershipInvariant, OutstandingIsOpen, Evidence, ConfirmRestart
<1> QED  BY <1>1, <1>2, <1>3, <1>4 DEF OwnershipInvariant, TypeOK, RowsTyped, FlightTyped

----------------------------------------------------------------------------
(* The host. *)

LEMMA HostStepStep == ASSUME OwnershipInvariant, HostStep PROVE OwnershipInvariant'
<1>1. RowsTyped'
  <2>1. up' \in [Prompts -> HostStates]
    <3>1. up' = up \/ \E x \in HostStates : up' = [up EXCEPT ![1] = x]
      BY DEF HostStep, HostAdmit, HostRefuse, HostLose, HostStart, HostFinish, HostDrop,
             HostForget, HostMove
    <3> QED  BY <3>1 DEF OwnershipInvariant, TypeOK
  <2>2. forgotten' \subseteq Prompts
    BY DEF OwnershipInvariant, TypeOK, HostStep, HostAdmit, HostRefuse, HostLose,
           HostStart, HostFinish, HostDrop, HostForget, HostMove
  <2> QED  BY <2>1, <2>2 DEF OwnershipInvariant, TypeOK, RowsTyped, HostStep
<1>2. FlightTyped'
  BY DEF OwnershipInvariant, TypeOK, FlightTyped, HostStep, HostAdmit, HostRefuse,
         HostLose, HostStart, HostFinish, HostDrop, HostForget, HostMove
<1>3. /\ ClaimsAreOpen' /\ Releases' /\ RecoveryIsLater' /\ CancellingIsSeen'
      /\ ClosedMeansReleased' /\ ParentFollowsChild'
  BY DEF OwnershipInvariant, ClaimsAreOpen, Releases, RecoveryIsLater, CancellingIsSeen,
         ClosedMeansReleased, ParentFollowsChild, HostStep
<1>4. Unsent' /\ Evidence' /\ OutstandingIsOpen' /\ CertifiedIsFinished'
  BY DEF OwnershipInvariant, TypeOK, Unsent, Evidence, OutstandingIsOpen,
         CertifiedIsFinished, HostStep, HostAdmit, HostRefuse, HostLose, HostStart,
         HostFinish, HostDrop, HostForget, HostMove
<1> QED  BY <1>1, <1>2, <1>3, <1>4 DEF OwnershipInvariant, TypeOK, RowsTyped, FlightTyped

LEMMA HostAnswersStep == ASSUME NEW s \in Cancellers, OwnershipInvariant, HostAnswers(s) PROVE OwnershipInvariant'
<1>1. RowsTyped'
  BY DEF OwnershipInvariant, TypeOK, RowsTyped, HostAnswers, CancelAccepted,
         CancelEffect, Visible
<1>2. FlightTyped'
  BY DEF OwnershipInvariant, TypeOK, FlightTyped, HostAnswers, CancelAccepted,
         CancelEffect, Visible
<1>3. /\ ClaimsAreOpen' /\ Releases' /\ RecoveryIsLater' /\ CancellingIsSeen'
      /\ ClosedMeansReleased' /\ ParentFollowsChild'
  BY DEF OwnershipInvariant, ClaimsAreOpen, Releases, RecoveryIsLater, CancellingIsSeen,
         ClosedMeansReleased, ParentFollowsChild, HostAnswers
<1>4. Unsent' /\ Evidence' /\ OutstandingIsOpen' /\ CertifiedIsFinished'
  BY DEF OwnershipInvariant, TypeOK, Unsent, Evidence, OutstandingIsOpen,
         CertifiedIsFinished, HostAnswers, CancelAccepted, CancelEffect, Visible
<1> QED  BY <1>1, <1>2, <1>3, <1>4 DEF OwnershipInvariant, TypeOK, RowsTyped, FlightTyped

LEMMA CancelFailsStep == ASSUME NEW s \in Cancellers, OwnershipInvariant, CancelFails(s) PROVE OwnershipInvariant'
<1>1. RowsTyped'
  BY DEF OwnershipInvariant, TypeOK, RowsTyped, CancelFails, CancelAccepted,
         CancelEffect, Visible
<1>2. FlightTyped'
  BY DEF OwnershipInvariant, TypeOK, FlightTyped, CancelFails, CancelAccepted,
         CancelEffect, Visible
<1>3. /\ ClaimsAreOpen' /\ Releases' /\ RecoveryIsLater' /\ CancellingIsSeen'
      /\ ClosedMeansReleased' /\ ParentFollowsChild'
  BY DEF OwnershipInvariant, ClaimsAreOpen, Releases, RecoveryIsLater, CancellingIsSeen,
         ClosedMeansReleased, ParentFollowsChild, CancelFails
<1>4. Unsent' /\ Evidence' /\ OutstandingIsOpen' /\ CertifiedIsFinished'
  BY DEF OwnershipInvariant, TypeOK, Unsent, Evidence, OutstandingIsOpen,
         CertifiedIsFinished, CancelFails, CancelAccepted, CancelEffect, Visible
<1> QED  BY <1>1, <1>2, <1>3, <1>4 DEF OwnershipInvariant, TypeOK, RowsTyped, FlightTyped

----------------------------------------------------------------------------
(* The invariant. *)

LEMMA NextStep == OwnershipInvariant /\ [Next]_vars => OwnershipInvariant'
<1> SUFFICES ASSUME OwnershipInvariant, [Next]_vars PROVE OwnershipInvariant'
  OBVIOUS
<1>1. CASE Dispatch
  BY <1>1, SubmitStep, WithholdStep, PostReturnsStep, BindStep, PostFailsStep,
     PostRejectedStep, InlineAnsweredStep, LateAnsweredStep, CleanupAnsweredStep
  DEF Dispatch
<1>2. CASE \E u \in Users : RequestCancel(u)
  BY <1>2, RequestCancelStep
<1>3. CASE \E s \in Users \cup {"dispatcher"} : Pursue(s) \/ CancelAnswered(s)
  BY <1>3, PursueStep, CancelAnsweredStep
<1>4. CASE Recover \/ RecoverAnswered \/ RecoverProbe
  BY <1>4, RecoverStep, RecoverAnsweredStep, RecoverProbeStep
<1>5. CASE SyncBegin \/ SyncQueue \/ SyncHistory \/ SyncApply
  BY <1>5, SyncBeginStep, SyncQueueStep, SyncHistoryStep, SyncApplyStep
<1>6. CASE ProgressEvent
  BY <1>6, ProgressEventStep
<1>7. CASE BackendRestart \/ HostRestart \/ ConfirmRestart
  BY <1>7, BackendRestartStep, HostRestartStep, ConfirmRestartStep
<1>8. CASE HostStep
  BY <1>8, HostStepStep
<1>9. CASE \E s \in Cancellers : HostAnswers(s) \/ CancelFails(s)
  BY <1>9, HostAnswersStep, CancelFailsStep
<1>10. CASE UNCHANGED vars
  BY <1>10 DEF vars, OwnershipInvariant, TypeOK, Unsent, ClaimsAreOpen, Releases, Evidence,
               RecoveryIsLater, CancellingIsSeen, OutstandingIsOpen, ClosedMeansReleased,
               CertifiedIsFinished, ParentFollowsChild
<1> QED
  BY <1>1, <1>2, <1>3, <1>4, <1>5, <1>6, <1>7, <1>8, <1>9, <1>10 DEF Next

(* The claims, releases and evidence of the five coroutines stay           *)
(* consistent, whatever they interleave.                                   *)
THEOREM OwnershipInvariantHolds == Spec => []OwnershipInvariant
<1>1. Init => OwnershipInvariant
  BY InitStep
<1>2. OwnershipInvariant /\ [Next]_vars => OwnershipInvariant'
  BY NextStep
<1> QED  BY <1>1, <1>2, PTL DEF Spec

(* Every variable keeps its type. *)
THEOREM PromptTypeCorrect == Spec => []TypeOK
<1>1. OwnershipInvariant => TypeOK
  BY DEF OwnershipInvariant
<1> QED  BY <1>1, OwnershipInvariantHolds, PTL

(* No child is reported as over while the host may still execute its       *)
(* prompt.                                                                 *)
THEOREM OutstandingPromptsAreOpen == Spec => []OutstandingIsOpen
<1>1. OwnershipInvariant => OutstandingIsOpen
  BY DEF OwnershipInvariant
<1> QED  BY <1>1, OwnershipInvariantHolds, PTL

(* A closed child holds no prompt: what the flights and the recovery worker *)
(* take for corruption does not happen.                                    *)
THEOREM ClosedChildrenAreReleased == Spec => []ClosedMeansReleased
<1>1. OwnershipInvariant => ClosedMeansReleased
  BY DEF OwnershipInvariant
<1> QED  BY <1>1, OwnershipInvariantHolds, PTL

(* History released only what the host had finished.                       *)
THEOREM CertifiedPromptsAreFinished == Spec => []CertifiedIsFinished
<1>1. OwnershipInvariant => CertifiedIsFinished
  BY DEF OwnershipInvariant
<1> QED  BY <1>1, OwnershipInvariantHolds, PTL

(* The recovery worker and a submission in progress exclude each other.    *)
THEOREM RecoveryExcludesSubmission == Spec => []RecoveryLeavesSubmitsAlone
<1>1. OwnershipInvariant => RecoveryLeavesSubmitsAlone
  BY DEF OwnershipInvariant, RecoveryIsLater, RecoveryLeavesSubmitsAlone
<1> QED  BY <1>1, OwnershipInvariantHolds, PTL

(* The parent never ends before its child.                                 *)
THEOREM ParentsEndLast == Spec => []ParentFollowsChild
<1>1. OwnershipInvariant => ParentFollowsChild
  BY DEF OwnershipInvariant
<1> QED  BY <1>1, OwnershipInvariantHolds, PTL

----------------------------------------------------------------------------
(* Late answers. *)

KeepsStopped ==
    /\ Over(child) => child' = child
    /\ child \in Stopping =>
         \/ child' \in Stopping \cup Terminal
         \/ receipt' /\ child' = "running"
    /\ job \notin {"preparing", "published"} => job' \notin {"preparing", "published"}

LEMMA DispatchKeepsStopped == ASSUME OwnershipInvariant, Dispatch PROVE KeepsStopped
<1>1. CASE Submit
  BY <1>1 DEF Submit, KeepsStopped, OwnershipInvariant, Unsent, RecoveryIsLater,
              CancellingIsSeen
<1>2. CASE Withhold \/ PostReturns \/ Bind
  BY <1>2 DEF Withhold, PostReturns, Bind, Probe, KeepsStopped
<1>3. CASE PostFails \/ PostRejected
  BY <1>3 DEF PostFails, PostRejected, CleanUp, Finalize, KeepsStopped
<1>4. CASE InlineAnswered
  BY <1>4 DEF InlineAnswered, CleanUp, Finalize, JobOf, KeepsStopped,
              OwnershipInvariant, ClosedMeansReleased, Unsent
<1>5. CASE LateAnswered
  <2>1. CASE pc["dispatcher"] = "yes"
    <3>1. ConfirmCancel("dispatcher")
      BY <1>5, <2>1 DEF LateAnswered
    <3> QED  BY <3>1 DEF ConfirmCancel, KeepsStopped, OwnershipInvariant,
                         ClaimsAreOpen, ClosedMeansReleased
  <2>2. CASE pc["dispatcher"] = "no"
    BY <1>5, <2>2 DEF LateAnswered, KeepsStopped
  <2>3. CASE pc["dispatcher"] = "error"
    <3>1. /\ child' = IF Over(child) THEN child ELSE "cancelling"
          /\ job' = JobOf(child, "cancelling")
      BY <1>5, <2>3 DEF LateAnswered
    <3> QED  BY <3>1 DEF JobOf, KeepsStopped
  <2> QED  BY <1>5, <2>1, <2>2, <2>3 DEF LateAnswered
<1>6. CASE CleanupAnswered
  BY <1>6 DEF CleanupAnswered, ConfirmCancel, KeepsStopped, OwnershipInvariant,
              ClaimsAreOpen, ClosedMeansReleased
<1> QED  BY <1>1, <1>2, <1>3, <1>4, <1>5, <1>6 DEF Dispatch

LEMMA CancelKeepsStopped ==
    ASSUME OwnershipInvariant,
           NEW s \in Users \cup {"dispatcher"},
           (s \in Users /\ RequestCancel(s)) \/ Pursue(s) \/ CancelAnswered(s)
    PROVE  KeepsStopped
<1>1. CASE RequestCancel(s)
  BY <1>1 DEF RequestCancel, AwaitCertificate, Probe, KeepsStopped
<1>2. CASE Pursue(s)
  BY <1>2 DEF Pursue, JobOf, KeepsStopped
<1>3. CASE CancelAnswered(s)
  BY <1>3 DEF CancelAnswered, ConfirmCancel, JobOf, KeepsStopped, OwnershipInvariant,
              ClaimsAreOpen, ClosedMeansReleased
<1> QED  BY <1>1, <1>2, <1>3

(* Exact history moves a child that is being stopped to an end, or leaves  *)
(* it running with its success on record.                                  *)
LEMMA HistoryKeepsStopped ==
    ASSUME NEW r, receipt \/ r \in Finished, ApplyHistory(r), child \in Stopping
    PROVE  child' \in Stopping \cup Terminal \/ (receipt' /\ child' = "running")
<1>1. CASE receipt
  BY <1>1 DEF ApplyHistory, Observe
<1>2. CASE ~receipt
  <2>1. r \in Finished /\ CommitHistory(r)
    BY <1>2 DEF ApplyHistory
  <2> QED  BY <2>1, Committed
<1> QED  BY <1>1, <1>2

LEMMA RecoveryKeepsStopped ==
    ASSUME OwnershipInvariant, Recover \/ RecoverAnswered \/ RecoverProbe
    PROVE  KeepsStopped
<1>1. CASE Recover
  BY <1>1 DEF Recover, AwaitCertificate, KeepsStopped
<1>2. CASE RecoverAnswered
  BY <1>2 DEF RecoverAnswered, ConfirmCancel, JobOf, KeepsStopped, OwnershipInvariant,
              ClaimsAreOpen, ClosedMeansReleased
<1>3. CASE RecoverProbe
  <2>1. Over(child) => child' = child
    BY <1>3 DEF RecoverProbe
  <2>2. child \in Stopping =>
          child' \in Stopping \cup Terminal \/ (receipt' /\ child' = "running")
    BY <1>3, HistoryKeepsStopped DEF RecoverProbe, History
  <2>3. job \notin {"preparing", "published"} => job' \notin {"preparing", "published"}
    BY <1>3 DEF RecoverProbe, JobOf
  <2> QED  BY <2>1, <2>2, <2>3 DEF KeepsStopped
<1> QED  BY <1>1, <1>2, <1>3

LEMMA SyncKeepsStopped ==
    ASSUME OwnershipInvariant, SyncBegin \/ SyncQueue \/ SyncHistory \/ SyncApply
    PROVE  KeepsStopped
<1>1. CASE SyncBegin \/ SyncQueue \/ SyncHistory
  BY <1>1 DEF SyncBegin, SyncQueue, SyncHistory, JobOf, KeepsStopped
<1>2. CASE SyncApply
  <2>1. Over(child) => child' = child
    BY <1>2 DEF SyncApply
  <2>2. child \in Stopping =>
          child' \in Stopping \cup Terminal \/ (receipt' /\ child' = "running")
    <3>1. CASE receipt \/ seen \in Finished
      BY <1>2, <3>1, HistoryKeepsStopped DEF SyncApply
    <3>2. CASE ~receipt /\ seen \notin Finished
      BY <1>2, <3>2 DEF SyncApply, SyncQueued, SyncAbsent, OwnershipInvariant,
                        CancellingIsSeen
    <3> QED  BY <3>1, <3>2
  <2>3. job \notin {"preparing", "published"} => job' \notin {"preparing", "published"}
    BY <1>2 DEF SyncApply, JobOf
  <2> QED  BY <2>1, <2>2, <2>3 DEF KeepsStopped
<1> QED  BY <1>1, <1>2

LEMMA OtherStepsKeepStopped ==
    ASSUME OwnershipInvariant,
           \/ ProgressEvent
           \/ BackendRestart \/ HostRestart \/ ConfirmRestart
           \/ HostStep
           \/ \E s \in Cancellers : HostAnswers(s) \/ CancelFails(s)
           \/ UNCHANGED vars
    PROVE  KeepsStopped
<1>1. CASE ProgressEvent
  BY <1>1 DEF ProgressEvent, KeepsStopped
<1>2. CASE BackendRestart \/ HostRestart
  BY <1>2 DEF BackendRestart, HostRestart, ProcessDies, KeepsStopped
<1>3. CASE ConfirmRestart
  BY <1>3 DEF ConfirmRestart, KeepsStopped
<1>4. CASE HostStep \/ (\E s \in Cancellers : HostAnswers(s) \/ CancelFails(s))
  BY <1>4 DEF HostStep, HostAnswers, CancelFails, KeepsStopped
<1>5. CASE UNCHANGED vars
  BY <1>5 DEF vars, KeepsStopped
<1> QED  BY <1>1, <1>2, <1>3, <1>4, <1>5

(* Late answers revive nothing: a terminal child stays, a child being      *)
(* stopped comes back only for a recorded success, and a parent being      *)
(* cancelled is never merely running again.                                *)
THEOREM NothingIsRevived == Spec => NeverRevived
<1>1. OwnershipInvariant /\ [Next]_vars => KeepsStopped
  <2> SUFFICES ASSUME OwnershipInvariant, [Next]_vars PROVE KeepsStopped
    OBVIOUS
  <2> QED  BY DispatchKeepsStopped, CancelKeepsStopped, RecoveryKeepsStopped,
              SyncKeepsStopped, OtherStepsKeepStopped DEF Next
<1>2. KeepsStopped =>
        /\ Over(child) => child' = child
        /\ child \in Stopping =>
             \/ child' \in Stopping \cup Terminal
             \/ receipt' /\ child' = "running"
        /\ job \notin {"preparing", "published"} => job' \notin {"preparing", "published"}
  BY DEF KeepsStopped
<1> QED  BY <1>1, <1>2, OwnershipInvariantHolds, PTL DEF Spec, NeverRevived
=============================================================================
