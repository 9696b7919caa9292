---------------------------- MODULE RayPools_proofs ----------------------------
(***************************************************************************)
(* What the ledger's barrier protects, for every number of prompts, host   *)
(* restarts and runtime keys, and every set of disturbances: one actor     *)
(* pool, one visible generation, pending work at the tail of the row.      *)
(*                                                                         *)
(* The argument: BarrierInvariant is inductive together with the invariant *)
(* of RayLedger_proofs.  The row lemmas show that each way the code        *)
(* rewrites the row keeps it guarding the host; the move lemmas do the     *)
(* same for what the dispatcher, the host and the other writers do.        *)
(***************************************************************************)
EXTENDS RayLedger_proofs, FiniteSetTheorems

----------------------------------------------------------------------------
(* Rows that guard the host. *)

GuardOk(l) == RowOk(l) /\ Guards(l, Prompts, up, kind, ns, pools)

LEMMA StoredGuardOk == Inv /\ BarrierInvariant => GuardOk(ledger)
BY StoredRowOk DEF GuardOk, BarrierInvariant, RowsGuard

LEMMA CopiedGuardOk ==
    ASSUME Inv, BarrierInvariant, pc \in {"stats", "history", "queue", "confirm", "preflight"}
    PROVE  GuardOk(snap)
BY CopiedRowOk DEF GuardOk, BarrierInvariant, RowsGuard

LEMMA TailTyped ==
    ASSUME Inv, NEW l, GuardOk(l)
    PROVE  /\ l.tail = NoPrompt \/ l.tail \in Prompts
           /\ l.tail # NoPrompt => kind[l.tail] = l.action /\ l.action # "none"
           /\ l.tail = NoPrompt => l.action = "none"
           /\ NoPrompt \notin Prompts
<1>1. l.tail = NoPrompt \/ l.tail \in Prompts
  BY ConstantsAssumption DEF ConstantsAssumption, GuardOk, RowOk, LedgerType, NoPrompt, Prompts
<1>2. l.tail = NoPrompt <=> l.action = "none"
  BY DEF GuardOk, RowOk, Accounts
<1> QED  BY <1>1, <1>2 DEF GuardOk, Guards, Prompts, NoPrompt

(* Behind a tail that succeeded the host holds nothing of the ledger's. *)
LEMMA NothingBesideSuccess ==
    ASSUME Inv, HostOrder, NEW l, GuardOk(l), l.tail # NoPrompt, up[l.tail] = "success"
    PROVE  /\ \A q \in Prompts : up[q] \notin Pending
           /\ \A q \in Prompts : kind[q] # "none" => up[q] \notin AtHost
<1>1. l.tail \in Prompts /\ kind[l.tail] # "none"
  BY TailTyped
<1>2. \A q \in Prompts : up[q] \notin Pending
  BY DEF GuardOk, Guards, Pending
<1>3. ASSUME NEW q \in Prompts, kind[q] # "none", up[q] = "stopping" PROVE FALSE
  <2>1. q <= l.tail /\ q # l.tail
    BY <1>3 DEF GuardOk, Guards
  <2>2. q < l.tail
    BY <1>1, <2>1 DEF Prompts
  <2> QED  BY <1>1, <1>3, <2>2 DEF HostOrder
<1> QED  BY <1>2, <1>3 DEF Pending, AtHost, InQueue, Executing

LEMMA TaintGuards ==
    ASSUME Inv, NEW l, GuardOk(l)
    PROVE  GuardOk(Tainted(l)) /\ Tainted(l).current = l.current
<1>1. RowOk(Tainted(l))
  BY RowOkClosed DEF GuardOk
<1>2. l \in LedgerType
  BY DEF GuardOk, RowOk
<1>3. /\ Tainted(l).tail = l.tail /\ Tainted(l).action = l.action /\ Tainted(l).tainted
      /\ Tainted(l).current = l.current /\ Tainted(l).epoch = l.epoch
  BY <1>2 DEF Tainted, LedgerType
<1>4. Guards(Tainted(l), Prompts, up, kind, ns, pools)
  BY <1>3 DEF Guards, GuardOk
<1> QED  BY <1>1, <1>3, <1>4 DEF GuardOk

(* A tail may be forgotten once it is past pending. *)
LEMMA DropGuards ==
    ASSUME Inv, NEW l, GuardOk(l), l.tail # NoPrompt => up[l.tail] \notin Pending
    PROVE  GuardOk(Tainted(NoTail(l))) /\ Tainted(NoTail(l)).current = l.current
<1> DEFINE m == Tainted(NoTail(l))
<1>1. RowOk(m)
  BY RowOkClosed DEF GuardOk
<1>2. l \in LedgerType
  BY DEF GuardOk, RowOk
<1>3. /\ m.tail = NoPrompt /\ m.action = "none" /\ m.tainted
      /\ m.current = l.current /\ m.epoch = l.epoch
  BY <1>2 DEF Tainted, NoTail, LedgerType
<1> HIDE DEF m
<1>4. \A q \in Prompts : up[q] \notin Pending
  BY TailTyped DEF GuardOk, Guards
<1>5. Guards(m, Prompts, up, kind, ns, pools)
  BY <1>3, <1>4 DEF Guards, GuardOk
<1> QED  BY <1>1, <1>3, <1>5 DEF GuardOk, m

LEMMA CleanupGuards ==
    ASSUME Inv, NEW l, GuardOk(l), NEW p \in Prompts, up[p] \notin Pending
    PROVE  GuardOk(Cleanup(l, p)) /\ Cleanup(l, p).current = l.current
BY DropGuards DEF Cleanup

(* The row that a finished RayKill or a confirmed restart leaves. *)
LEMMA ResetGuards ==
    ASSUME Inv, NEW l, GuardOk(l), pools = {},
           \A q \in Prompts : up[q] \notin Pending,
           \A q \in Prompts : kind[q] # "none" => up[q] \notin AtHost
    PROVE  GuardOk([NoTail(l) EXCEPT !.current = None, !.tainted = FALSE])
<1> DEFINE m == [NoTail(l) EXCEPT !.current = None, !.tainted = FALSE]
<1>1. RowOk(m)
  BY RowOkClosed DEF GuardOk
<1>2. l \in LedgerType
  BY DEF GuardOk, RowOk
<1>3. m.tail = NoPrompt /\ m.action = "none"
  BY <1>2 DEF NoTail, LedgerType
<1> HIDE DEF m
<1>4. Guards(m, Prompts, up, kind, ns, pools)
  BY <1>3 DEF Guards
<1> QED  BY <1>1, <1>4 DEF GuardOk, m

(* A result settles the row only if it is the tail's, and only success     *)
(* clears the taint or, for a RayKill, the descriptor.                     *)
LEMMA SettleGuards ==
    ASSUME Inv, HostOrder, NEW l, GuardOk(l), NEW p \in Prompts, NEW s \in BOOLEAN, NEW c \in BOOLEAN,
           RowOk(Settle(l, p, s, c)), s => up[p] = "success"
    PROVE  GuardOk(Settle(l, p, s, c))
<1>1. CASE l.tail # p
  BY <1>1 DEF Settle
<1>2. CASE l.tail = p /\ s /\ l.action = "shutdown"
  <2>1. pools = {}
    BY <1>2 DEF GuardOk, Guards
  <2>2. /\ \A q \in Prompts : up[q] \notin Pending
        /\ \A q \in Prompts : kind[q] # "none" => up[q] \notin AtHost
    BY <1>2, TailTyped, NothingBesideSuccess
  <2> QED  BY <1>2, <2>1, <2>2, ResetGuards DEF Settle
<1>3. CASE l.tail = p /\ ~(s /\ l.action = "shutdown")
  <2> DEFINE m == [l EXCEPT !.tainted = ~s,
                            !.cert = IF ~c THEN @ ELSE IF s THEN "ok" ELSE "bad"]
  <2>1. Settle(l, p, s, c) = m
    BY <1>3 DEF Settle
  <2>2. /\ m.epoch = l.epoch /\ m.current = l.current /\ m.tail = l.tail
        /\ m.action = l.action /\ m.tainted = ~s
    BY DEF GuardOk, RowOk, LedgerType
  <2> HIDE DEF m
  <2>3. s => \A q \in Prompts : kind[q] # "none" => up[q] \notin AtHost
    BY <1>3, TailTyped, NothingBesideSuccess
  <2>4. Guards(m, Prompts, up, kind, ns, pools)
    BY <2>2, <2>3 DEF Guards, GuardOk
  <2> QED  BY <2>1, <2>4 DEF GuardOk
<1> QED  BY <1>1, <1>2, <1>3

LEMMA SettleGuardsFromChild ==
    ASSUME Inv, HostOrder, NEW l, GuardOk(l), NEW p \in Prompts
    PROVE  GuardOk(Settle(l, p, child[p] = "succeeded", HasCertificate(p)))
<1>1. child[p] = "succeeded" => up[p] = "success"
  BY DEF Inv, LedgerInvariant, ChildTruth
<1>2. (child[p] = "succeeded") \in BOOLEAN /\ HasCertificate(p) \in BOOLEAN
  BY DEF HasCertificate
<1>3. RowOk(Settle(l, p, child[p] = "succeeded", HasCertificate(p)))
  BY SettleFromChild DEF GuardOk
<1> QED  BY <1>1, <1>2, <1>3, SettleGuards

----------------------------------------------------------------------------
(* Moves of the dispatcher and of the writers that do not hold the lock.   *)

(* Where the prompts stand, as HostOrder reads it, has not moved. *)
LEMMA SameOrder ==
    ASSUME BarrierInvariant, UNCHANGED <<up, kind>>
    PROVE  HostOrder'
BY DEF BarrierInvariant, HostOrder

LEMMA ReleaseKeeps ==
    ASSUME Inv, BarrierInvariant, NEW l, GuardOk(l), Release(l), UNCHANGED <<hostVars, rowVars>>,
           ChildFollowsHost', ~topologyOk => l.current # None
    PROVE  BarrierInvariant'
<1>1. HostOrder'
  BY SameOrder DEF hostVars, rowVars
<1>2. RowsGuard'
  BY DEF Release, hostVars, rowVars, RowsGuard, GuardOk
<1>3. RefreshSound'
  BY DEF Release, RefreshSound
<1>4. TopologyGone'
  BY DEF Release, hostVars, BarrierInvariant, TopologyGone, History
<1> QED  BY <1>1, <1>2, <1>3, <1>4 DEF BarrierInvariant

LEMMA ProceedKeeps ==
    ASSUME Inv, BarrierInvariant, NEW l, GuardOk(l),
           NEW where \in {"plan", "awaitTail", "awaitOldKill"}, NEW p,
           Proceed(l, where, p), UNCHANGED <<hostVars, rowVars>>,
           ChildFollowsHost', topologyOk
    PROVE  BarrierInvariant'
<1>1. HostOrder'
  BY SameOrder DEF hostVars, rowVars
<1>2. RowsGuard'
  BY DEF Proceed, hostVars, rowVars, RowsGuard, GuardOk
<1>3. RefreshSound'
  BY DEF Proceed, RefreshSound
<1>4. TopologyGone'
  BY DEF hostVars, TopologyGone
<1> QED  BY <1>1, <1>2, <1>3, <1>4 DEF BarrierInvariant

LEMMA SameChildren ==
    ASSUME BarrierInvariant, UNCHANGED <<up, child, acked, oldest, next>>
    PROVE  ChildFollowsHost'
BY DEF BarrierInvariant, ChildFollowsHost

(* One child row moves; acknowledged cancels may be consumed. *)
LEMMA ChildMoves ==
    ASSUME Inv, BarrierInvariant, NEW p \in Prompts, NEW x,
           child' = [child EXCEPT ![p] = x],
           acked' \subseteq acked, UNCHANGED <<up, oldest, next>>,
           x = "none" => up[p] = "unsent",
           x \in Terminal \cup {"deleted"} => up[p] \notin Pending,
           x \in {"live", "cancelling", "verifying"} => up[p] # "flight"
    PROVE  ChildFollowsHost'
<1>1. \A q \in Prompts : child'[q] = IF q = p THEN x ELSE child[q]
  BY DEF Inv, TypeOK
<1> QED  BY <1>1 DEF BarrierInvariant, ChildFollowsHost

LEMMA GateKeeps ==
    ASSUME Inv, BarrierInvariant, NEW l, NEW s, GuardOk(l), GuardOk(s), Gate(l, s),
           Keep, UNCHANGED child, topologyOk
    PROVE  BarrierInvariant'
<1>1. ChildFollowsHost' /\ UNCHANGED <<hostVars, rowVars>>
  BY SameChildren DEF Keep, hostVars, rowVars
<1>2. HostOrder
  BY DEF BarrierInvariant
<1>3. GuardOk(Tainted(s))
  BY TaintGuards
<1>4. s.tail # NoPrompt =>
        GuardOk(Settle(l, s.tail, child[s.tail] = "succeeded", HasCertificate(s.tail)))
  BY <1>2, TailTyped, SettleGuardsFromChild
<1>5. \/ Release(l)
      \/ Proceed(l, "plan", NoPrompt)
      \/ Proceed(Tainted(s), "plan", NoPrompt)
      \/ /\ s.tail # NoPrompt
         /\ Proceed(Settle(l, s.tail, child[s.tail] = "succeeded", HasCertificate(s.tail)),
                    "plan", NoPrompt)
      \/ Proceed(l, "awaitTail", s.tail)
      \/ Proceed(l, "awaitOldKill", s.tail)
  BY DEF Gate
<1>6. CASE Release(l)
  BY <1>1, <1>6, ReleaseKeeps
<1>7. ASSUME NEW m, GuardOk(m), NEW where \in {"plan", "awaitTail", "awaitOldKill"}, NEW p,
             Proceed(m, where, p)
      PROVE  BarrierInvariant'
  BY <1>1, <1>7, ProceedKeeps
<1> QED  BY <1>3, <1>4, <1>5, <1>6, <1>7

LEMMA ConcludeKeeps ==
    ASSUME Inv, BarrierInvariant, pc \in {"history", "queue", "confirm"},
           NEW s \in BOOLEAN, NEW c \in BOOLEAN,
           s => up[snap.tail] = "success",
           ~s => up[snap.tail] \notin Pending,
           (c /\ ~s) => up[snap.tail] \in {"error", "interrupted"},
           Conclude(s, c), Keep, UNCHANGED child, topologyOk
    PROVE  BarrierInvariant'
<1>1. snap.tail \in Prompts /\ HostOrder
  BY DEF Inv, LedgerInvariant, Named, BarrierInvariant
<1>2. GuardOk(ledger) /\ GuardOk(snap)
  BY StoredGuardOk, CopiedGuardOk
<1>3. CASE ~s /\ snap.action = "shutdown"
  <2>1. GuardOk(Tainted(NoTail(snap)))
    BY <1>2, <1>3, DropGuards
  <2> QED  BY <1>3, <2>1, GateKeeps DEF Conclude
<1>4. CASE ~(~s /\ snap.action = "shutdown")
  <2>1. RowOk(Settle(ledger, snap.tail, s, c))
    BY <1>1, <1>2, SettleRowOk DEF GuardOk
  <2>2. GuardOk(Settle(ledger, snap.tail, s, c))
    BY <1>1, <1>2, <2>1, SettleGuards
  <2> QED  BY <1>4, <2>2, GateKeeps DEF Conclude
<1> QED  BY <1>3, <1>4

LEMMA OutsideKeeps ==
    ASSUME Inv, BarrierInvariant, NEW l, GuardOk(l), ledger' = l, ChildFollowsHost',
           UNCHANGED <<hostVars, rowVars, pc, mode, want, snap, ambiguous, unit>>,
           ~topologyOk => l.current # None
    PROVE  BarrierInvariant'
<1>1. HostOrder'
  BY SameOrder DEF hostVars, rowVars
<1>2. RowsGuard'
  BY DEF hostVars, rowVars, RowsGuard, GuardOk, BarrierInvariant
<1>3. RefreshSound'
  BY DEF hostVars, RefreshSound, SettledFrontier, BarrierInvariant
<1>4. TopologyGone'
  BY DEF hostVars, BarrierInvariant, TopologyGone, History
<1> QED  BY <1>1, <1>2, <1>3, <1>4 DEF BarrierInvariant

(* Claiming the next prompt with nothing pending: the intent guards all    *)
(* prompts, and the row before it guards the others.                       *)
LEMMA ClaimKeeps ==
    ASSUME Inv, BarrierInvariant, NEW k \in {"ray_unit", "shutdown"}, NEW w, NEW l, NEW rows, NEW m,
           GuardOk(l), \A p \in Prompts : up[p] \notin Pending,
           \/ /\ k = "ray_unit" /\ w \in Keys /\ (l.current = None \/ ~l.tainted)
              /\ m = AfterSegment(l, next, w)
           \/ k = "shutdown" /\ l.current # None /\ m = AfterControl(l, next),
           Claim(k, w, l, m, rows), topologyOk, rows \in [Prompts -> ChildStates],
           \A p \in Prompts :
              /\ rows[p] = "none" => up[p] = "unsent"
              /\ rows[p] \in {"live", "cancelling", "verifying"} => up[p] # "flight"
    PROVE  BarrierInvariant'
<1>1. next \in Prompts /\ next' = next + 1 /\ next \in Nat /\ next # NoPrompt
  BY ConstantsAssumption DEF ConstantsAssumption, Claim, Inv, TypeOK, Prompts, NoPrompt
<1>2. /\ up[next] = "unsent" /\ kind[next] = "none"
      /\ \A p \in Prompts : kind[p] # "none" => p < next
  BY <1>1 DEF Inv, LedgerInvariant, Fresh, Prompts
<1>3. \A p \in Prompts \ {next} : up'[p] = up[p] /\ kind'[p] = kind[p] /\ ns'[p] = ns[p]
  BY <1>1 DEF Claim, Inv, TypeOK
<1>4. up'[next] = "flight" /\ kind'[next] = k /\ ns'[next].epoch = m.epoch
  BY <1>1 DEF Claim, Inv, TypeOK
<1>5. /\ m.tail = next /\ m.action = k /\ m.current # None /\ m.tainted
      /\ l.current # None => m.epoch = l.epoch
  <2>1. l \in LedgerType
    BY DEF GuardOk, RowOk
  <2>2. CASE w \in Keys /\ k = "ray_unit" /\ m = AfterSegment(l, next, w)
    BY <2>2, ConstantsAssumption DEF ConstantsAssumption, AfterSegment
  <2>3. CASE k = "shutdown" /\ l.current # None /\ m = AfterControl(l, next)
    BY <2>1, <2>3 DEF AfterControl, LedgerType
  <2> QED  BY <2>2, <2>3
<1>6. k = "ray_unit" => \A p \in Prompts : kind[p] # "none" => up[p] \notin AtHost
  BY <1>5 DEF GuardOk, Guards
<1>7. HostOrder'
  <2> SUFFICES ASSUME NEW p \in Prompts, NEW q \in Prompts, p < q, kind'[q] # "none"
               PROVE  /\ up'[p] \notin Pending
                      /\ up'[p] = "stopping" =>
                            /\ up'[q] \in {"flight", "queued", "lost", "removed", "refused"}
                            /\ kind'[p] # "ray_unit" \/ kind'[q] # "ray_unit"
    BY DEF HostOrder
  <2>1. p < next /\ p # next
    BY <1>1, <1>2, <1>3 DEF Prompts
  <2>2. CASE q = next
    BY <1>3, <1>4, <1>6, <2>1, <2>2 DEF AtHost, InQueue, Executing
  <2>3. CASE q # next
    BY <1>3, <2>1, <2>3 DEF BarrierInvariant, HostOrder
  <2> QED  BY <2>2, <2>3
<1>8. Guards(m, Prompts, up', kind', ns', pools)
  <2>1. \A p \in Prompts : kind'[p] # "none" => p <= next
    BY <1>1, <1>2, <1>3 DEF Prompts
  <2>2. \A p \in Prompts : up'[p] \in Pending => p = next
    BY <1>3
  <2>3. pools # {} => pools = {m.epoch}
    BY <1>5 DEF GuardOk, Guards
  <2>4. \A p \in Prompts : (kind'[p] # "none" /\ up'[p] \in AtHost) => ns'[p].epoch = m.epoch
    BY <1>3, <1>4, <1>5, <1>6 DEF GuardOk, Guards
  <2> QED  BY <1>1, <1>4, <1>5, <2>1, <2>2, <2>3, <2>4 DEF Guards
<1>9. Guards(l, Prompts \ {next}, up', kind', ns', pools)
  <2>1. l.tail = NoPrompt \/ l.tail \in Prompts \ {next}
    BY <1>2, TailTyped
  <2>2. l.action = "shutdown" => l.tail \in Prompts \ {next}
    BY <2>1, TailTyped
  <2>3. Guards(l, Prompts, up, kind, ns, pools)
    BY DEF GuardOk
  <2> QED  BY <1>3, <2>1, <2>2, <2>3 DEF Guards
<1>10. RowsGuard'
  BY <1>8, <1>9 DEF Claim, RowsGuard
<1>11. ChildFollowsHost'
  <2>1. next \notin acked /\ oldest < next /\ oldest < next'
    BY <1>1, <1>2, ConstantsAssumption
    DEF ConstantsAssumption, BarrierInvariant, ChildFollowsHost, Inv, TypeOK
  <2>2. \A p \in Prompts : p <= oldest => p # next
    BY <2>1, <1>1, ConstantsAssumption DEF ConstantsAssumption, Prompts, Inv, TypeOK
  <2>3. child'[next] = "owned" /\ \A p \in Prompts \ {next} : child'[p] = rows[p]
    BY <1>1 DEF Claim
  <2>4. acked' = acked /\ oldest' = oldest
    BY DEF Claim
  <2> QED  BY <1>3, <2>1, <2>2, <2>3, <2>4
      DEF BarrierInvariant, ChildFollowsHost, Terminal
<1>12. RefreshSound' /\ TopologyGone'
  BY DEF Claim, RefreshSound, TopologyGone
<1> QED  BY <1>7, <1>10, <1>11, <1>12 DEF BarrierInvariant

----------------------------------------------------------------------------
(* The steps of the dispatcher. *)

LEMMA NoTopologyPhase ==
    ASSUME BarrierInvariant, ~topologyOk
    PROVE  /\ pc \in {"free", "stats", "plan", "preflight"} /\ ledger.current # None
           /\ \A p \in Prompts : History(p) = "absent"
BY DEF BarrierInvariant, TopologyGone

LEMMA FinishedIsPast ==
    ASSUME NEW p, History(p) # "absent"
    PROVE  up[p] \notin Pending /\ up[p] \notin AtHost /\ up[p] # "unsent"
BY DEF History, Finished, Pending, AtHost, InQueue, Executing

LEMMA InitBarrier == Init => BarrierInvariant
<1> SUFFICES ASSUME Init PROVE BarrierInvariant
  OBVIOUS
<1>1. HostOrder /\ RefreshSound /\ TopologyGone
  BY DEF Init, HostOrder, RefreshSound, TopologyGone
<1>2. RowsGuard
  BY DEF Init, ComfyInit, EmptyLedger, RowsGuard, Guards, Pending, AtHost, InQueue, Executing
<1>3. ChildFollowsHost
  BY DEF Init, ComfyInit, ChildFollowsHost, Terminal, AtHost, InQueue, Executing, Prompts
<1> QED  BY <1>1, <1>2, <1>3 DEF BarrierInvariant

LEMMA AcquireKeeps ==
    ASSUME Inv, BarrierInvariant, NEW m \in {"standard", "mixed"}, Acquire(m)
    PROVE  BarrierInvariant'
<1>1. /\ Keep /\ UNCHANGED <<ledger, child>> /\ pc' \in {"plan", "stats"}
      /\ pc' = "plan" => mode' = "standard"
      /\ pc' = "stats" => snap' = ledger
  BY DEF Acquire
<1>2. HostOrder' /\ ChildFollowsHost'
  BY <1>1, SameOrder, SameChildren DEF Keep, hostVars, rowVars
<1>3. RowsGuard'
  BY <1>1 DEF Keep, hostVars, rowVars, RowsGuard, BarrierInvariant
<1>4. RefreshSound' /\ TopologyGone'
  BY <1>1 DEF Keep, hostVars, RefreshSound, TopologyGone, History, BarrierInvariant
<1> QED  BY <1>2, <1>3, <1>4 DEF BarrierInvariant

(* Between two reads of a refresh only pc and ambiguous move. *)
LEMMA RefreshOnKeeps ==
    ASSUME Inv, BarrierInvariant, pc \in {"stats", "history", "queue"},
           pc' \in {"history", "queue", "confirm"},
           UNCHANGED <<ledger, child, snap>>, Keep, topologyOk, RefreshSound'
    PROVE  BarrierInvariant'
<1>1. HostOrder' /\ ChildFollowsHost'
  BY SameOrder, SameChildren DEF Keep, hostVars, rowVars
<1>2. RowsGuard' /\ TopologyGone'
  BY DEF Keep, hostVars, rowVars, RowsGuard, TopologyGone, BarrierInvariant
<1> QED  BY <1>1, <1>2 DEF BarrierInvariant

LEMMA CheckRecoveryKeeps ==
    ASSUME Inv, BarrierInvariant, CheckRecovery PROVE BarrierInvariant'
<1>1. GuardOk(ledger) /\ GuardOk(snap) /\ GuardOk(Tainted(snap)) /\ pc = "stats"
  BY StoredGuardOk, CopiedGuardOk, TaintGuards DEF CheckRecovery
<1>2. Keep /\ UNCHANGED child /\ ChildFollowsHost' /\ UNCHANGED <<hostVars, rowVars>>
  BY SameChildren DEF CheckRecovery, Keep, hostVars, rowVars
<1>3. ~topologyOk => snap.current # None /\ ledger.current # None
  BY <1>1 DEF BarrierInvariant, TopologyGone
<1>4. \/ Release(ledger)
      \/ topologyOk /\ Gate(ledger, snap)
      \/ topologyOk /\ Gate(Tainted(snap), Tainted(snap))
      \/ /\ topologyOk /\ snap.tail # NoPrompt
         /\ pc' = "history"
         /\ ambiguous' = (child[snap.tail] \in Nonterminal /\ ProcessOwned(snap.tail))
         /\ UNCHANGED <<ledger, mode, want, snap, unit, stop>>
  BY <1>3 DEF CheckRecovery, Inv, TypeOK
<1>5. CASE Release(ledger)
  BY <1>1, <1>2, <1>3, <1>5, ReleaseKeeps
<1>6. CASE topologyOk /\ Gate(ledger, snap)
  BY <1>1, <1>2, <1>6, GateKeeps
<1>7. CASE topologyOk /\ Gate(Tainted(snap), Tainted(snap))
  BY <1>1, <1>2, <1>7, GateKeeps
<1>8. CASE /\ topologyOk /\ snap.tail # NoPrompt
           /\ pc' = "history"
           /\ ambiguous' = (child[snap.tail] \in Nonterminal /\ ProcessOwned(snap.tail))
           /\ UNCHANGED <<ledger, mode, want, snap, unit, stop>>
  <2>1. snap.tail \in Prompts /\ child[snap.tail] \in ChildStates
    BY <1>1, <1>8, TailTyped DEF Inv, TypeOK
  <2>2. ~ambiguous' => up[snap.tail] # "flight"
    <3> SUFFICES ASSUME ~ambiguous' PROVE up[snap.tail] # "flight"
      OBVIOUS
    <3>1. child[snap.tail] \in Nonterminal =>
            child[snap.tail] \in {"live", "cancelling", "verifying"}
      BY <1>8 DEF ProcessOwned, Nonterminal, Certifiable
    <3>2. child[snap.tail] \in Terminal \cup {"deleted"} \cup {"none", "live", "cancelling", "verifying"}
      BY <2>1, <3>1 DEF ChildStates
    <3> QED  BY <2>1, <3>2 DEF BarrierInvariant, ChildFollowsHost, Pending
  <2>3. RefreshSound'
    BY <1>2, <1>8, <2>2 DEF RefreshSound, hostVars
  <2> QED  BY <1>1, <1>2, <1>8, <2>3, RefreshOnKeeps
<1> QED  BY <1>4, <1>5, <1>6, <1>7, <1>8

LEMMA RefreshKeeps ==
    ASSUME Inv, BarrierInvariant, RefreshHistory \/ RefreshQueue \/ RefreshConfirmation
    PROVE  BarrierInvariant'
<1>1. Keep /\ UNCHANGED child
  BY DEF RefreshHistory, RefreshQueue, RefreshConfirmation
<1>2. pc \in {"history", "queue", "confirm"} /\ topologyOk
  BY NoTopologyPhase DEF RefreshHistory, RefreshQueue, RefreshConfirmation
<1>3. GuardOk(ledger) /\ GuardOk(Tainted(snap))
  BY <1>2, StoredGuardOk, CopiedGuardOk, TaintGuards
<1>4. ASSUME History(snap.tail) # "absent", Conclude(History(snap.tail) = "success", TRUE)
      PROVE  BarrierInvariant'
  BY <1>1, <1>2, <1>4, HistoryIsExact, FinishedIsPast, ConcludeKeeps
<1>5. CASE RefreshHistory
  <2>1. CASE History(snap.tail) # "absent"
    BY <1>4, <1>5, <2>1 DEF RefreshHistory
  <2>2. CASE History(snap.tail) = "absent"
    <3>1. /\ pc = "history" /\ pc' = "queue"
          /\ UNCHANGED <<ledger, mode, want, snap, ambiguous, unit, stop>>
      BY <1>5, <2>2 DEF RefreshHistory
    <3>2. RefreshSound'
      BY <1>1, <3>1 DEF RefreshSound, Keep, hostVars, BarrierInvariant
    <3> QED  BY <1>1, <1>2, <3>1, <3>2, RefreshOnKeeps
  <2> QED  BY <2>1, <2>2
<1>6. CASE RefreshQueue
  <2>1. CASE Visible(snap.tail)
    BY <1>1, <1>2, <1>3, <1>6, <2>1, GateKeeps DEF RefreshQueue
  <2>2. CASE ~Visible(snap.tail)
    <3>1. /\ pc = "queue" /\ pc' = "confirm"
          /\ UNCHANGED <<ledger, mode, want, snap, ambiguous, unit, stop>>
      BY <1>6, <2>2 DEF RefreshQueue
    <3>2. RefreshSound'
      BY <1>1, <2>2, <3>1 DEF RefreshSound, Keep, hostVars, Visible, AtHost, BarrierInvariant
    <3> QED  BY <1>1, <1>2, <3>1, <3>2, RefreshOnKeeps
  <2> QED  BY <2>1, <2>2
<1>7. CASE RefreshConfirmation
  <2>1. CASE History(snap.tail) # "absent"
    BY <1>4, <1>7, <2>1 DEF RefreshConfirmation
  <2>2. CASE History(snap.tail) = "absent" /\ ambiguous
    BY <1>1, <1>2, <1>3, <1>7, <2>2, GateKeeps DEF RefreshConfirmation
  <2>3. CASE History(snap.tail) = "absent" /\ ~ambiguous
    <3>1. Conclude(FALSE, FALSE) /\ pc = "confirm"
      BY <1>7, <2>3 DEF RefreshConfirmation
    <3>2. up[snap.tail] \notin Pending
      BY <2>3, <3>1 DEF BarrierInvariant, RefreshSound, AtHost, Pending, InQueue, Executing
    <3> QED  BY <1>1, <1>2, <3>1, <3>2, ConcludeKeeps
  <2> QED  BY <2>1, <2>2, <2>3
<1> QED  BY <1>5, <1>6, <1>7

LEMMA AwaitOlderKeeps ==
    ASSUME Inv, BarrierInvariant, AwaitTail \/ AwaitOldKill PROVE BarrierInvariant'
<1>1. Keep /\ UNCHANGED child /\ ChildFollowsHost' /\ UNCHANGED <<hostVars, rowVars>>
  BY SameChildren DEF AwaitTail, AwaitOldKill, Keep, hostVars, rowVars
<1>2. unit \in Prompts /\ GuardOk(ledger) /\ topologyOk /\ HostOrder
  BY StoredGuardOk, NoTopologyPhase DEF AwaitTail, AwaitOldKill, Inv, LedgerInvariant, Named,
     BarrierInvariant
<1>3. \/ Release(ledger)
      \/ Proceed(Settle(ledger, unit, child[unit] = "succeeded", HasCertificate(unit)),
                 "plan", NoPrompt)
      \/ History(unit) = "success" /\ Proceed(Settle(ledger, unit, TRUE, TRUE), "plan", NoPrompt)
  BY DEF AwaitTail, AwaitOldKill
<1>4. GuardOk(Settle(ledger, unit, child[unit] = "succeeded", HasCertificate(unit)))
  BY <1>2, SettleGuardsFromChild
<1>5. ASSUME History(unit) = "success" PROVE GuardOk(Settle(ledger, unit, TRUE, TRUE))
  <2>1. RowOk(Settle(ledger, unit, TRUE, TRUE)) /\ up[unit] = "success"
    BY <1>2, <1>5, HistoryIsExact, SettleRowOk DEF GuardOk
  <2> QED  BY <1>2, <2>1, SettleGuards
<1>6. CASE Release(ledger)
  BY <1>1, <1>2, <1>6, ReleaseKeeps
<1>7. ASSUME NEW m, GuardOk(m), Proceed(m, "plan", NoPrompt) PROVE BarrierInvariant'
  BY <1>1, <1>2, <1>7, ProceedKeeps
<1> QED  BY <1>3, <1>4, <1>5, <1>6, <1>7

(* A settled row has no pending work behind it. *)
LEMMA SettledIsQuiet ==
    ASSUME Inv, NEW l, GuardOk(l), SettledFrontier(l)
    PROVE  \A p \in Prompts : up[p] \notin Pending
<1>1. l.tail # NoPrompt => up[l.tail] \notin Pending
  BY DEF SettledFrontier, GuardOk, RowOk, Accounts, Pending
<1> QED  BY <1>1, TailTyped DEF GuardOk, Guards

LEMMA PlanKeeps ==
    ASSUME Inv, BarrierInvariant, NEW w \in Keys \cup {Standard}, PlanSegment(w) \/ PlanKill(w)
    PROVE  BarrierInvariant'
<1>1. GuardOk(ledger) /\ Plannable(ledger) /\ SettledFrontier(ledger)
  BY StoredGuardOk DEF PlanSegment, PlanKill, Plannable
<1>2. CASE PlanSegment(w)
  <2>1. w \in Keys /\ (ledger.current = None \/ ~ledger.tainted)
    BY <1>2 DEF PlanSegment, NeedsKill
  <2>2. topologyOk
    BY <1>2, ConstantsAssumption
    DEF ConstantsAssumption, PlanSegment, Wishes, BarrierInvariant, TopologyGone
  <2>3. Claim("ray_unit", w, ledger, AfterSegment(ledger, next, w), child)
    BY <1>2 DEF PlanSegment
  <2>4. \A p \in Prompts : up[p] \notin Pending
    BY <1>1, SettledIsQuiet
  <2>5. child \in [Prompts -> ChildStates] /\ ChildFollowsHost
    BY DEF Inv, TypeOK, BarrierInvariant
  <2> QED  BY <1>1, <2>1, <2>2, <2>3, <2>4, <2>5, ClaimKeeps DEF ChildFollowsHost
<1>3. CASE PlanKill(w)
  <2>1. Keep /\ UNCHANGED <<ledger, child>> /\ pc' = "preflight" /\ snap' = ledger /\ pc = "plan"
    BY <1>3 DEF PlanKill
  <2>2. HostOrder' /\ ChildFollowsHost'
    BY <2>1, SameOrder, SameChildren DEF Keep, hostVars, rowVars
  <2>3. RowsGuard'
    BY <2>1 DEF Keep, hostVars, rowVars, RowsGuard, BarrierInvariant
  <2>4. RefreshSound'
    BY <1>1, <1>3, <2>1 DEF PlanKill, NeedsKill, RefreshSound, SettledFrontier
  <2>5. TopologyGone'
    BY <2>1 DEF Keep, hostVars, TopologyGone, History, BarrierInvariant
  <2> QED  BY <2>2, <2>3, <2>4, <2>5 DEF BarrierInvariant
<1> QED  BY <1>2, <1>3

LEMMA ClaimKillKeeps == ASSUME Inv, BarrierInvariant, ClaimKill PROVE BarrierInvariant'
<1>1. GuardOk(snap) /\ SettledFrontier(snap) /\ topologyOk
  BY CopiedGuardOk DEF ClaimKill, BarrierInvariant, RefreshSound
<1>2. \A p \in Prompts : up[p] \notin Pending
  BY <1>1, SettledIsQuiet
<1>3. Claim("shutdown", want, snap, AfterControl(snap, next), child)
  BY DEF ClaimKill
<1>4. child \in [Prompts -> ChildStates] /\ ChildFollowsHost
  BY DEF Inv, TypeOK, BarrierInvariant
<1>5. snap.current # None
  BY DEF ClaimKill, BarrierInvariant, RefreshSound
<1> QED  BY <1>1, <1>2, <1>3, <1>4, <1>5, ClaimKeeps DEF ChildFollowsHost

(* The steps that end the request and leave the rows alone. *)
LEMMA EndKeeps ==
    ASSUME Inv, BarrierInvariant, EndPlan \/ AbandonKill \/ Quiesce
    PROVE  BarrierInvariant'
<1>1. Keep /\ Release(ledger) /\ ChildFollowsHost' /\ UNCHANGED <<hostVars, rowVars>>
  BY SameChildren DEF EndPlan, AbandonKill, Quiesce, Keep, hostVars, rowVars
<1> QED  BY <1>1, StoredGuardOk, NoTopologyPhase, ReleaseKeeps

LEMMA PostReturnsKeeps ==
    ASSUME Inv, BarrierInvariant, PostReturns PROVE BarrierInvariant'
<1>1. /\ unit \in Prompts /\ Keep /\ UNCHANGED <<hostVars, rowVars, acked>>
      /\ topologyOk /\ pc = "post" /\ up[unit] # "flight"
  BY NoTopologyPhase
  DEF PostReturns, Keep, Inv, LedgerInvariant, Named, InQueue, Executing, Finished
<1>2. PICK x \in {"live", "cancelling"} : child' = [child EXCEPT ![unit] = x]
  BY DEF PostReturns
<1>3. ChildFollowsHost'
  BY <1>1, <1>2, ChildMoves DEF hostVars, rowVars, Terminal
<1>4. CASE Release(ledger)
  BY <1>1, <1>3, <1>4, StoredGuardOk, ReleaseKeeps
<1>5. CASE /\ pc' = IF kind[unit] = "shutdown" THEN "awaitKill" ELSE "awaitSegment"
           /\ UNCHANGED <<ledger, mode, want, snap, ambiguous, unit, stop>>
  <2>1. HostOrder'
    BY <1>1, SameOrder DEF hostVars, rowVars
  <2>2. RowsGuard'
    BY <1>1, <1>5 DEF hostVars, rowVars, RowsGuard, BarrierInvariant
  <2>3. RefreshSound' /\ TopologyGone'
    BY <1>1, <1>5 DEF hostVars, RefreshSound, TopologyGone
  <2> QED  BY <1>3, <2>1, <2>2, <2>3 DEF BarrierInvariant
<1> QED  BY <1>4, <1>5 DEF PostReturns

(* The row put back after a refusal guards the host: the refused prompt    *)
(* never was there.                                                        *)
LEMMA PostRejectedKeeps ==
    ASSUME Inv, BarrierInvariant, PostRejected PROVE BarrierInvariant'
<1>1. /\ unit \in Prompts /\ UNCHANGED <<hostVars, rowVars, acked>>
      /\ topologyOk /\ pc = "post" /\ up[unit] = "refused"
  BY NoTopologyPhase DEF PostRejected, Keep, Inv, LedgerInvariant, Named
<1>2. PICK x \in {"rejected", "recovery"} : child' = [child EXCEPT ![unit] = x]
  BY DEF PostRejected
<1>3. ChildFollowsHost'
  BY <1>1, <1>2, ChildMoves DEF hostVars, rowVars, Terminal, Pending
<1>4. GuardOk(snap)
  <2>1. snap \in LedgerType /\ snap.epoch < next
    BY DEF Inv, TypeOK, LedgerInvariant, EpochBehind
  <2>2. /\ Accounts(snap, Prompts \ {unit}, up, kind, ns)
        /\ Guards(snap, Prompts \ {unit}, up, kind, ns, pools)
    BY <1>1 DEF Inv, LedgerInvariant, RowsAccount, BarrierInvariant, RowsGuard
  <2>3. Accounts(snap, Prompts, up, kind, ns)
    BY <1>1, <2>2 DEF Accounts
  <2>4. Guards(snap, Prompts, up, kind, ns, pools)
    BY <1>1, <2>2 DEF Guards, Pending, AtHost, InQueue, Executing
  <2> QED  BY <2>1, <2>3, <2>4 DEF GuardOk, RowOk
<1>5. Release(snap) \/ Release(ledger)
  BY DEF PostRejected
<1> QED  BY <1>1, <1>3, <1>4, <1>5, StoredGuardOk, ReleaseKeeps

LEMMA HandOverKeeps ==
    ASSUME Inv, BarrierInvariant, PostFailed \/ AwaitFailed PROVE BarrierInvariant'
<1>1. /\ unit \in Prompts /\ UNCHANGED <<hostVars, rowVars, acked>> /\ topologyOk
      /\ HandToRecovery /\ Release(ledger)
  BY NoTopologyPhase DEF PostFailed, AwaitFailed, Keep, Inv, LedgerInvariant, Named
<1>2. PICK x \in {"recovery", child[unit]} : child' = [child EXCEPT ![unit] = x]
  BY <1>1 DEF HandToRecovery
<1>3. ChildFollowsHost'
  <2>1. /\ child[unit] = "none" => up[unit] = "unsent"
        /\ child[unit] \in Terminal \cup {"deleted"} => up[unit] \notin Pending
        /\ child[unit] \in {"live", "cancelling", "verifying"} => up[unit] # "flight"
    BY <1>1 DEF BarrierInvariant, ChildFollowsHost
  <2> QED  BY <1>1, <1>2, <2>1, ChildMoves DEF hostVars, rowVars, Terminal
<1> QED  BY <1>1, <1>3, StoredGuardOk, ReleaseKeeps

(* The row after a result, for the steps below. *)
LEMMA SettleFalseGuards ==
    ASSUME Inv, BarrierInvariant, NEW p \in Prompts, NEW c \in BOOLEAN,
           c => up[p] \in {"error", "interrupted"}
    PROVE  GuardOk(Settle(ledger, p, FALSE, c))
<1>1. GuardOk(ledger) /\ HostOrder
  BY StoredGuardOk DEF BarrierInvariant
<1>2. RowOk(Settle(ledger, p, FALSE, c))
  BY <1>1, SettleRowOk DEF GuardOk
<1> QED  BY <1>1, <1>2, SettleGuards

LEMMA SettleTrueGuards ==
    ASSUME Inv, BarrierInvariant, NEW p \in Prompts, up[p] = "success"
    PROVE  GuardOk(Settle(ledger, p, TRUE, TRUE))
<1>1. GuardOk(ledger) /\ HostOrder
  BY StoredGuardOk DEF BarrierInvariant
<1>2. RowOk(Settle(ledger, p, TRUE, TRUE))
  BY <1>1, SettleRowOk DEF GuardOk
<1> QED  BY <1>1, <1>2, SettleGuards

LEMMA AwaitSegmentKeeps ==
    ASSUME Inv, BarrierInvariant, SegmentDone \/ SegmentStopped PROVE BarrierInvariant'
<1>1. /\ unit \in Prompts /\ UNCHANGED <<hostVars, rowVars, child, acked>> /\ topologyOk
  BY NoTopologyPhase DEF SegmentDone, SegmentStopped, Keep, Inv, LedgerInvariant, Named
<1>2. ChildFollowsHost'
  BY <1>1, SameChildren DEF hostVars, rowVars
<1>3. GuardOk(Settle(ledger, unit, child[unit] = "succeeded", HasCertificate(unit)))
  BY <1>1, StoredGuardOk, SettleGuardsFromChild DEF BarrierInvariant
<1>4. GuardOk(Settle(ledger, unit, FALSE, FALSE))
  BY <1>1, SettleFalseGuards
<1>5. ASSUME NEW l, GuardOk(l), Release(l) \/ Proceed(l, "plan", NoPrompt)
      PROVE  BarrierInvariant'
  BY <1>1, <1>2, <1>5, ReleaseKeeps, ProceedKeeps
<1> QED  BY <1>3, <1>4, <1>5 DEF SegmentDone, SegmentStopped

LEMMA KillDoneKeeps == ASSUME Inv, BarrierInvariant, KillDone PROVE BarrierInvariant'
<1> DEFINE l == Settle(ledger, unit, TRUE, TRUE)
           done == [child EXCEPT ![unit] = IF @ \in Certifiable THEN "succeeded" ELSE @]
<1>1. unit \in Prompts /\ up[unit] = "success" /\ topologyOk /\ want \in Keys \cup {Standard}
  <2>1. unit \in Prompts /\ want \in Keys \cup {Standard}
    BY DEF KillDone, Inv, TypeOK, LedgerInvariant, Named
  <2> QED  BY <2>1, HistoryIsExact, NoTopologyPhase DEF KillDone
<1>2. GuardOk(l)
  BY <1>1, SettleTrueGuards
<1>3. done \in [Prompts -> ChildStates]
  BY DEF Inv, TypeOK, ChildStates, Terminal
<1>4. PICK x \in {"succeeded", child[unit]} : done = [child EXCEPT ![unit] = x]
  OBVIOUS
<1>5. ASSUME child' = done, Keep PROVE ChildFollowsHost'
  <2>1. child[unit] \in {"live", "cancelling", "verifying"} => up[unit] # "flight"
    BY <1>1
  <2>2. child[unit] = "none" => up[unit] = "unsent"
    BY <1>1 DEF BarrierInvariant, ChildFollowsHost
  <2> HIDE DEF done
  <2> QED  BY <1>1, <1>4, <1>5, <2>1, <2>2, ChildMoves DEF Keep, hostVars, rowVars, Pending
<1>6. \A p \in Prompts : /\ done[p] = "none" => up[p] = "unsent"
                         /\ done[p] \in {"live", "cancelling", "verifying"} => up[p] # "flight"
  BY <1>1 DEF BarrierInvariant, ChildFollowsHost, Inv, TypeOK
<1> HIDE DEF l, done
<1>7. \/ child' = done /\ Release(l) /\ Keep
      \/ child' = done /\ Proceed(l, "plan", NoPrompt) /\ Keep
      \/ /\ CleanContinuation(l, snap) /\ want \in Keys
         /\ Claim("ray_unit", want, l, AfterSegment(l, next, want), done)
  BY <1>1, ConstantsAssumption DEF ConstantsAssumption, KillDone, l, done, Inv, TypeOK
<1>8. CASE child' = done /\ Release(l) /\ Keep
  BY <1>1, <1>2, <1>5, <1>8, ReleaseKeeps DEF Keep
<1>9. CASE child' = done /\ Proceed(l, "plan", NoPrompt) /\ Keep
  BY <1>1, <1>2, <1>5, <1>9, ProceedKeeps DEF Keep
<1>10. CASE /\ CleanContinuation(l, snap) /\ want \in Keys
            /\ Claim("ray_unit", want, l, AfterSegment(l, next, want), done)
  <2>1. l.current = None /\ l.tail = NoPrompt
    BY <1>10 DEF CleanContinuation
  <2>2. \A p \in Prompts : up[p] \notin Pending
    BY <1>2, <2>1, SettledIsQuiet DEF SettledFrontier
  <2> QED  BY <1>1, <1>2, <1>3, <1>6, <1>10, <2>1, <2>2, ClaimKeeps
<1> QED  BY <1>7, <1>8, <1>9, <1>10

LEMMA KillEndKeeps ==
    ASSUME Inv, BarrierInvariant, KillFailed \/ KillStopped PROVE BarrierInvariant'
<1>1. /\ unit \in Prompts /\ UNCHANGED <<hostVars, rowVars, acked>> /\ topologyOk
      /\ GuardOk(ledger)
  BY NoTopologyPhase, StoredGuardOk DEF KillFailed, KillStopped, Keep, Inv, LedgerInvariant, Named
<1>2. CASE KillStopped
  <2>1. ChildFollowsHost'
    BY <1>1, <1>2, SameChildren DEF KillStopped, hostVars, rowVars
  <2> QED  BY <1>1, <1>2, <2>1, SettleFalseGuards, ReleaseKeeps DEF KillStopped
<1>3. CASE KillFailed
  <2>1. up[unit] \in {"error", "interrupted"}
    BY <1>3, HistoryIsExact DEF KillFailed
  <2>2. PICK x \in {"failed", child[unit]} : child' = [child EXCEPT ![unit] = x]
    BY <1>3 DEF KillFailed, CertifiedChild
  <2>3. child[unit] = "none" => up[unit] = "unsent"
    BY <1>1 DEF BarrierInvariant, ChildFollowsHost
  <2>4. ChildFollowsHost'
    BY <1>1, <2>1, <2>2, <2>3, ChildMoves DEF hostVars, rowVars, Pending
  <2>5. GuardOk(Settle(ledger, unit, FALSE, TRUE))
    BY <1>1, <2>1, SettleFalseGuards
  <2> QED  BY <1>1, <1>3, <2>4, <2>5, ReleaseKeeps DEF KillFailed
<1> QED  BY <1>2, <1>3

----------------------------------------------------------------------------
(* The writers that do not hold the lock. *)

LEMMA OutsideRowKeeps ==
    ASSUME Inv, BarrierInvariant, NEW p \in Prompts,
           ProgressEvent(p) \/ Certify(p) \/ Observe(p) \/ SyncSettle(p)
    PROVE  BarrierInvariant'
<1>1. UNCHANGED <<hostVars, rowVars, acked, dispatcherVars>>
  BY DEF ProgressEvent, Certify, Observe, SyncSettle
<1>2. GuardOk(ledger) /\ HostOrder
  BY StoredGuardOk DEF BarrierInvariant
<1>3. ASSUME NEW l, GuardOk(l), ledger' = l, ChildFollowsHost', ~topologyOk => l.current # None
      PROVE  BarrierInvariant'
  BY <1>1, <1>3, OutsideKeeps DEF dispatcherVars
<1>4. ASSUME NEW x, child' = [child EXCEPT ![p] = x],
             x = "none" => up[p] = "unsent",
             x \in Terminal \cup {"deleted"} => up[p] \notin Pending,
             x \in {"live", "cancelling", "verifying"} => up[p] # "flight"
      PROVE  ChildFollowsHost'
  BY <1>1, <1>4, ChildMoves DEF hostVars, rowVars
<1>5. CASE ProgressEvent(p)
  <2>1. ChildFollowsHost'
    BY <1>4, <1>5 DEF ProgressEvent, Executing, Finished, Terminal
  <2> QED  BY <1>2, <1>3, <1>5, <2>1, NoTopologyPhase DEF ProgressEvent
<1>6. CASE Certify(p)
  <2>1. History(p) # "absent" /\ ledger' = Settle(ledger, p, History(p) = "success", TRUE)
    BY <1>6 DEF Certify
  <2>2. topologyOk /\ up[p] \notin Pending /\ up[p] # "flight"
    BY <2>1, NoTopologyPhase, FinishedIsPast DEF Pending
  <2>3. GuardOk(Settle(ledger, p, History(p) = "success", TRUE))
    <3>1. History(p) = "success" => up[p] = "success"
      BY <2>1, HistoryIsExact
    <3>2. RowOk(Settle(ledger, p, History(p) = "success", TRUE))
      BY <1>2, <2>1, SettleFromHistory DEF GuardOk
    <3> QED  BY <1>2, <3>1, <3>2, SettleGuards
  <2>4. PICK x \in ChildStates \ {"none"} : child' = [child EXCEPT ![p] = x]
    BY <1>6, <2>1 DEF Certify, History, Finished, ChildStates, Nonterminal, Terminal
  <2>5. ChildFollowsHost'
    BY <1>4, <2>2, <2>4
  <2> QED  BY <1>3, <2>1, <2>2, <2>3, <2>5
<1>7. CASE Observe(p)
  <2>1. up[p] = "success"
    BY <1>7 DEF Observe, Inv, LedgerInvariant, ChildTruth
  <2>2. PICK x \in {"succeeded", "artifact"} : child' = [child EXCEPT ![p] = x]
    BY <1>7 DEF Observe
  <2>3. ChildFollowsHost'
    BY <1>4, <2>1, <2>2 DEF Pending
  <2> QED  BY <1>2, <1>3, <1>7, <2>3, NoTopologyPhase DEF Observe
<1>8. CASE SyncSettle(p)
  <2> DEFINE l == Settle(ledger, p, child[p] = "succeeded", HasCertificate(p))
  <2>1. ChildFollowsHost'
    BY <1>1, <1>8, SameChildren DEF SyncSettle, hostVars, rowVars
  <2>2. GuardOk(l)
    BY <1>2, SettleGuardsFromChild
  <2>3. ledger.tail = p => ledger.action = "ray_unit"
    BY <1>2, <1>8, TailTyped DEF SyncSettle
  <2>4. l.current = ledger.current
    BY <1>2, <2>3 DEF Settle, GuardOk, RowOk, LedgerType
  <2> QED  BY <1>3, <1>8, <2>1, <2>2, <2>4, NoTopologyPhase DEF SyncSettle
<1> QED  BY <1>5, <1>6, <1>7, <1>8

LEMMA CancelRowKeeps ==
    ASSUME Inv, BarrierInvariant, NEW p \in Prompts,
           CancelOther(p) \/ CommitCancel(p) \/ Delete(p) \/ ConfirmRestart(p)
    PROVE  BarrierInvariant'
<1>1. /\ UNCHANGED <<hostVars, rowVars, pc, mode, want, snap, ambiguous, unit>>
      /\ acked' \subseteq acked
  BY DEF CancelOther, CommitCancel, Delete, ConfirmRestart, dispatcherVars
<1>2. GuardOk(ledger) /\ (~topologyOk => ledger.current # None)
  BY StoredGuardOk, NoTopologyPhase
<1>3. ASSUME NEW l \in {ledger, Cleanup(ledger, p)}, ledger' = l, up[p] \notin Pending \/ l = ledger,
             ChildFollowsHost'
      PROVE  BarrierInvariant'
  <2>1. GuardOk(l) /\ l.current = ledger.current
    BY <1>2, <1>3, CleanupGuards
  <2> QED  BY <1>1, <1>2, <1>3, <2>1, OutsideKeeps
<1>4. ASSUME NEW x, child' = [child EXCEPT ![p] = x], x # "none",
             x \in Terminal \cup {"deleted"} => up[p] \notin Pending,
             x \in {"live", "cancelling", "verifying"} => up[p] # "flight"
      PROVE  ChildFollowsHost'
  BY <1>1, <1>4, ChildMoves DEF hostVars, rowVars
<1>5. /\ child[p] \in Terminal \cup {"deleted"} => up[p] \notin Pending
      /\ child[p] = "live" => up[p] # "flight"
      /\ p \in acked => up[p] \notin Pending
      /\ p <= oldest => up[p] \notin Pending
  BY DEF BarrierInvariant, ChildFollowsHost, AtHost, Pending, InQueue, Executing
<1>6. CASE CancelOther(p)
  <2>1. PICK x \in {"cancelling", "recovery", "frozen"} :
           child' = [child EXCEPT ![p] = x] /\ (x = "cancelling" => child[p] = "live")
    BY <1>6 DEF CancelOther
  <2>2. ChildFollowsHost'
    BY <1>4, <1>5, <2>1 DEF Terminal
  <2> QED  BY <1>3, <1>6, <2>2 DEF CancelOther
<1>7. CASE CommitCancel(p)
  <2>1. up[p] \notin Pending
    BY <1>5, <1>7 DEF CommitCancel
  <2>2. CASE child[p] \in {"cancelling", "recovery"}
    <3>1. ChildFollowsHost'
      BY <1>4, <1>7, <2>1, <2>2 DEF CommitCancel
    <3> QED  BY <1>3, <1>7, <2>1, <2>2, <3>1 DEF CommitCancel
  <2>3. CASE child[p] \notin {"cancelling", "recovery"}
    <3>1. UNCHANGED <<child, ledger>>
      BY <1>7, <2>3 DEF CommitCancel
    <3>2. ChildFollowsHost'
      BY <1>1, <3>1 DEF BarrierInvariant, ChildFollowsHost, hostVars, rowVars
    <3> QED  BY <1>3, <3>1, <3>2
  <2> QED  BY <2>2, <2>3
<1>8. CASE Delete(p)
  <2>1. ChildFollowsHost'
    BY <1>4, <1>5, <1>8 DEF Delete, Terminal
  <2> QED  BY <1>3, <1>8, <2>1 DEF Delete
<1>9. CASE ConfirmRestart(p)
  <2>1. up[p] \notin Pending
    BY <1>5, <1>9 DEF ConfirmRestart
  <2>2. ChildFollowsHost'
    BY <1>4, <1>9, <2>1 DEF ConfirmRestart
  <2> QED  BY <1>3, <1>9, <2>1, <2>2 DEF ConfirmRestart
<1> QED  BY <1>6, <1>7, <1>8, <1>9

LEMMA UserCancelKeeps == ASSUME Inv, BarrierInvariant, UserCancel PROVE BarrierInvariant'
<1>1. /\ UNCHANGED <<hostVars, ledger, rowVars, acked, pc, mode, want, snap, ambiguous, unit>>
      /\ pc # "free"
  BY DEF UserCancel
<1>2. ChildFollowsHost'
  <2>1. CASE child' = child
    BY <1>1, <2>1, SameChildren DEF hostVars, rowVars
  <2>2. CASE child' # child
    <3>1. unit \in Prompts
      BY <2>2, ConstantsAssumption
      DEF ConstantsAssumption, UserCancel, Inv, TypeOK, Prompts, NoPrompt
    <3>2. PICK x : /\ child' = [child EXCEPT ![unit] = x]
                   /\ \/ x = child[unit]
                      \/ x = "cancelSubmit"
                      \/ x = "cancelling" /\ child[unit] = "live"
      BY <2>2 DEF UserCancel
    <3>3. /\ child[unit] = "none" => up[unit] = "unsent"
          /\ child[unit] \in Terminal \cup {"deleted"} => up[unit] \notin Pending
          /\ child[unit] \in {"live", "cancelling", "verifying"} => up[unit] # "flight"
      BY <3>1 DEF BarrierInvariant, ChildFollowsHost
    <3> QED  BY <1>1, <3>1, <3>2, <3>3, ChildMoves DEF hostVars, rowVars, Terminal
  <2> QED  BY <2>1, <2>2
<1> QED  BY <1>1, <1>2, StoredGuardOk, NoTopologyPhase, OutsideKeeps

(* The settings page forgets the tail and the pool of a host without the   *)
(* recorded GPUs; nothing is left there to guard.                          *)
LEMMA ConfirmRayRestartKeeps ==
    ASSUME Inv, BarrierInvariant, ConfirmRayRestart PROVE BarrierInvariant'
<1>1. /\ pools = {} /\ \A p \in Prompts : up[p] \notin AtHost
      /\ topologyOk' = TRUE /\ pc = "free"
      /\ UNCHANGED <<up, forgotten, pools, boots, oldest, child, rowVars, acked, dispatcherVars>>
  BY DEF ConfirmRayRestart, RecoveryRequired, BarrierInvariant, TopologyGone
<1>2. GuardOk(ledger')
  <2>1. \A p \in Prompts : up[p] \notin Pending
    BY <1>1 DEF AtHost, Pending, InQueue, Executing
  <2> QED  BY <1>1, <2>1, StoredGuardOk, ResetGuards DEF ConfirmRayRestart
<1>3. HostOrder' /\ ChildFollowsHost'
  BY <1>1, SameOrder, SameChildren DEF rowVars
<1>4. RowsGuard'
  BY <1>1, <1>2 DEF rowVars, dispatcherVars, RowsGuard, GuardOk
<1>5. RefreshSound' /\ TopologyGone'
  BY <1>1 DEF dispatcherVars, RefreshSound, TopologyGone
<1> QED  BY <1>3, <1>4, <1>5 DEF BarrierInvariant

----------------------------------------------------------------------------
(* The host. *)

(* What a move of the host does to prompt p and to the pools. *)
HostMoved(p, x) ==
    /\ up' = [up EXCEPT ![p] = x]
    /\ \/ up[p] = "flight" /\ x \in {"queued", "refused", "lost"} /\ pools' = pools
       \/ up[p] = "queued" /\ x = "removed" /\ pools' = pools
       \/ /\ up[p] = "queued" /\ x = "running" /\ WorkerFree
          /\ pools' = PoolBuilt(p)
       \/ up[p] \in Executing /\ x = "stopping" /\ pools' = pools
       \/ /\ up[p] \in Executing /\ x \in Finished
          /\ pools' \in {pools, {}}
          /\ kind[p] # "shutdown" => pools' = pools
          /\ (kind[p] = "shutdown" /\ x = "success") => pools' = {}

LEMMA HostShape ==
    ASSUME Inv, NEW p \in Prompts, HostActs(p)
    PROVE  \/ UNCHANGED <<up, pools>> /\ forgotten' \in SUBSET Prompts /\ forgotten \subseteq forgotten'
           \/ \E x : HostMoved(p, x)
<1>1. up \in [Prompts -> HostStates] /\ forgotten \subseteq Prompts
  BY DEF Inv, TypeOK
<1>2. CASE HostStep(p)
  BY <1>1, <1>2 DEF HostStep, HostAdmit, HostRefuse, HostLose, HostDrop, HostForget, HostMove,
                    HostMoved, Executing
<1>3. CASE HostStart(p) /\ pools' = PoolBuilt(p)
  BY <1>3 DEF HostStart, HostMove, HostMoved
<1>4. CASE HostFinish(p) /\ pools' \in PoolsLeft(p)
  <2>1. PICK r \in Finished : up' = [up EXCEPT ![p] = r] /\ up[p] \in Executing
    BY <1>4 DEF HostFinish, HostMove, Executing, Finished
  <2>2. up'[p] = r
    BY <1>1, <2>1
  <2> QED  BY <1>4, <2>1, <2>2 DEF HostMoved, PoolsLeft
<1> QED  BY <1>2, <1>3, <1>4 DEF HostActs, PoolStep

(* A moved prompt was at the host, and only what was pending stays so. *)
LEMMA MovedWhere ==
    ASSUME Inv, NEW p \in Prompts, NEW x, HostMoved(p, x)
    PROVE  /\ up'[p] = x /\ \A q \in Prompts \ {p} : up'[q] = up[q]
           /\ up[p] \in AtHost /\ x \notin {"unsent", "flight"}
           /\ x \in Pending => up[p] \in {"flight", "queued"}
           /\ x = "stopping" => up[p] \in Executing
           /\ up[p] = "stopping" => x \in {"stopping"} \cup Finished
<1>1. up'[p] = x /\ \A q \in Prompts \ {p} : up'[q] = up[q]
  BY DEF HostMoved, Inv, TypeOK
<1> QED  BY <1>1 DEF HostMoved, AtHost, Pending, InQueue, Executing, Finished

LEMMA MovedOrder ==
    ASSUME Inv, BarrierInvariant, NEW p \in Prompts, NEW x, HostMoved(p, x), kind' = kind
    PROVE  HostOrder'
<1> SUFFICES ASSUME NEW a \in Prompts, NEW b \in Prompts, a < b, kind[b] # "none"
             PROVE  /\ up'[a] \notin Pending
                    /\ up'[a] = "stopping" =>
                          /\ up'[b] \in {"flight", "queued", "lost", "removed", "refused"}
                          /\ kind[a] # "ray_unit" \/ kind[b] # "ray_unit"
  BY DEF HostOrder
<1>1. /\ up[a] \notin Pending /\ a # b
      /\ up[a] = "stopping" =>
            /\ up[b] \in {"flight", "queued", "lost", "removed", "refused"}
            /\ kind[a] # "ray_unit" \/ kind[b] # "ray_unit"
  BY DEF BarrierInvariant, HostOrder, Prompts
<1>2. CASE p = a
  <2>1. up[a] = "stopping"
    BY <1>1, <1>2, MovedWhere DEF AtHost, Pending, InQueue, Executing
  <2>2. up'[a] \notin Pending /\ up'[b] = up[b]
    BY <1>1, <1>2, <2>1, MovedWhere DEF Pending, Finished
  <2> QED  BY <1>1, <2>1, <2>2
<1>3. CASE p = b
  <2>1. up'[a] = up[a] /\ up'[b] = x
    BY <1>1, <1>3, MovedWhere
  <2>2. up[a] = "stopping" => x \in {"queued", "refused", "lost", "removed"}
    BY <1>1, <1>3 DEF HostMoved, WorkerFree, Executing
  <2> QED  BY <1>1, <2>1, <2>2
<1>4. CASE p # a /\ p # b
  BY <1>1, <1>4, MovedWhere
<1> QED  BY <1>2, <1>3, <1>4

(* A row goes on guarding the prompts it guards; a prompt it does not name *)
(* is none of its business until the host queues it.                       *)
LEMMA MovedGuards ==
    ASSUME Inv, NEW l \in LedgerType, NEW ps \in SUBSET Prompts,
           Guards(l, ps, up, kind, ns, pools), l.tail = NoPrompt <=> l.action = "none",
           NEW p \in Prompts, NEW x, HostMoved(p, x), p \in ps \/ x \in {"refused", "lost"}
    PROVE  Guards(l, ps, up', kind, ns, pools')
<1>1. /\ \A q \in Prompts \ {p} : up'[q] = up[q]
      /\ up'[p] = x /\ x # "flight" /\ up[p] \in AtHost /\ up[p] # "refused" /\ up[p] # "success"
      /\ x \in Pending => up[p] \in Pending
  BY MovedWhere DEF Pending, AtHost, InQueue, Executing
<1>2. l.tail # NoPrompt =>
         /\ l.tail \in ps /\ kind[l.tail] = l.action /\ ns[l.tail].epoch = l.epoch
         /\ \A q \in ps : (kind[q] # "none" /\ up'[q] # "refused") => q <= l.tail
  BY <1>1 DEF Guards
<1>3. \A q \in ps : up'[q] \in Pending => l.tail = q
  BY <1>1 DEF Guards
<1>4. \A q \in ps : (kind[q] # "none" /\ up'[q] \in AtHost) =>
         l.current # None /\ l.tainted /\ ns[q].epoch = l.epoch
  BY <1>1 DEF Guards
<1>5. CASE x = "running" /\ up[p] = "queued" /\ pools' = pools \cup {ns[p].epoch}
  <2>1. p \in ps /\ l.tail = p /\ p # NoPrompt
    BY <1>5 DEF Guards, Pending, Prompts, NoPrompt
  <2>2. kind[p] # "none" /\ up[p] \in AtHost
    BY <1>5, <2>1 DEF Guards, AtHost, InQueue
  <2>3. l.current # None /\ ns[p].epoch = l.epoch
    BY <2>1, <2>2 DEF Guards
  <2>4. pools' = {l.epoch}
    BY <1>5, <2>3 DEF Guards
  <2>5. up'[l.tail] # "success"
    BY <1>1, <1>5, <2>1
  <2> QED  BY <1>2, <1>3, <1>4, <2>3, <2>4, <2>5 DEF Guards
<1>6. CASE /\ kind[p] = "shutdown" /\ pools' \in {pools, {}}
           /\ x = "success" => pools' = {}
  <2>1. pools' # {} => l.current # None /\ pools' = {l.epoch}
    BY <1>6 DEF Guards
  <2>2. (l.action = "shutdown" /\ up'[l.tail] = "success") => pools' = {}
    <3> SUFFICES ASSUME l.action = "shutdown", up'[l.tail] = "success" PROVE pools' = {}
      OBVIOUS
    <3>1. l.tail # NoPrompt /\ l.tail \in Prompts
      BY <1>2
    <3>2. CASE l.tail = p
      BY <1>1, <1>6, <3>2
    <3>3. CASE l.tail # p
      BY <1>1, <1>6, <3>1, <3>3 DEF Guards
    <3> QED  BY <3>2, <3>3
  <2> QED  BY <1>2, <1>3, <1>4, <2>1, <2>2 DEF Guards
<1>7. CASE pools' = pools /\ ~(kind[p] = "shutdown" /\ x = "success")
  <2>1. (l.action = "shutdown" /\ up'[l.tail] = "success") => pools = {}
    <3> SUFFICES ASSUME l.action = "shutdown", up'[l.tail] = "success" PROVE pools = {}
      OBVIOUS
    <3>1. l.tail # NoPrompt /\ l.tail \in Prompts /\ kind[l.tail] = "shutdown"
      BY <1>2
    <3>2. l.tail # p
      BY <1>1, <1>7, <3>1
    <3> QED  BY <1>1, <3>1, <3>2 DEF Guards
  <2> QED  BY <1>2, <1>3, <1>4, <1>7, <2>1 DEF Guards
<1>8. \/ x = "running" /\ up[p] = "queued" /\ pools' = pools \cup {ns[p].epoch}
      \/ /\ kind[p] = "shutdown" /\ pools' \in {pools, {}}
         /\ x = "success" => pools' = {}
      \/ pools' = pools /\ ~(kind[p] = "shutdown" /\ x = "success")
  BY DEF HostMoved, Finished, PoolBuilt
<1> QED  BY <1>5, <1>6, <1>7, <1>8

LEMMA MovedKeeps ==
    ASSUME Inv, BarrierInvariant, NEW p \in Prompts, NEW x, HostMoved(p, x),
           acked' \subseteq acked \cup {p}, p \in acked' \ acked => x \notin Pending,
           UNCHANGED <<topologyOk, oldest, ledger, child, rowVars, dispatcherVars>>
    PROVE  BarrierInvariant'
<1>1. HostOrder'
  BY MovedOrder DEF rowVars
<1>2. RowsGuard'
  <2>1. ledger \in LedgerType /\ snap \in LedgerType
    BY DEF Inv, TypeOK
  <2>2. Guards(ledger, Prompts, up', kind, ns, pools')
    BY <2>1, MovedGuards, TailTyped, StoredGuardOk DEF BarrierInvariant, RowsGuard
  <2>3. ASSUME pc \in {"stats", "history", "queue", "confirm", "preflight"}
        PROVE  Guards(snap, Prompts, up', kind, ns, pools')
    BY <2>1, <2>3, MovedGuards, TailTyped, CopiedGuardOk DEF BarrierInvariant, RowsGuard
  <2>4. ASSUME pc = "post", up'[unit] \in {"flight", "refused"}
        PROVE  Guards(snap, Prompts \ {unit}, up', kind, ns, pools')
    <3>1. unit \in Prompts /\ (snap.tail = NoPrompt <=> snap.action = "none")
      BY <2>4 DEF Inv, LedgerInvariant, Named, RowsAccount, Accounts
    <3>2. up[unit] \in {"flight", "refused"} /\ (p = unit => x = "refused")
      <4>1. CASE p = unit
        <5>1. x = "refused"
          BY <2>4, <4>1, MovedWhere
        <5> QED  BY <4>1, <5>1 DEF HostMoved, Finished
      <4>2. CASE p # unit
        BY <2>4, <3>1, <4>2, MovedWhere
      <4> QED  BY <4>1, <4>2
    <3>3. Guards(snap, Prompts \ {unit}, up, kind, ns, pools)
      BY <2>4, <3>2 DEF BarrierInvariant, RowsGuard
    <3> QED  BY <2>1, <3>1, <3>2, <3>3, MovedGuards
  <2> QED  BY <2>2, <2>3, <2>4 DEF RowsGuard, rowVars, dispatcherVars
<1>3. ChildFollowsHost'
  <2>1. /\ \A q \in Prompts \ {p} : up'[q] = up[q]
        /\ up'[p] = x /\ x # "flight" /\ x # "unsent" /\ up[p] \in AtHost
        /\ x \in Pending => up[p] \in Pending
        /\ up[p] # "unsent"
    BY MovedWhere DEF Pending, AtHost, InQueue, Executing
  <2> QED  BY <2>1 DEF BarrierInvariant, ChildFollowsHost, rowVars
<1>4. RefreshSound'
  <2>1. \A q \in Prompts : /\ up[q] # "flight" => up'[q] # "flight"
                           /\ up[q] \notin AtHost => up'[q] \notin AtHost
    BY MovedWhere
  <2>2. pc \in {"history", "queue", "confirm"} => snap.tail \in Prompts
    BY DEF Inv, LedgerInvariant, Named
  <2> QED  BY <2>1, <2>2 DEF BarrierInvariant, RefreshSound, SettledFrontier, dispatcherVars
<1>5. TopologyGone'
  <2>1. topologyOk
    BY MovedWhere DEF BarrierInvariant, TopologyGone
  <2> QED  BY <2>1 DEF TopologyGone
<1> QED  BY <1>1, <1>2, <1>3, <1>4, <1>5 DEF BarrierInvariant

LEMMA HostKeeps ==
    ASSUME Inv, BarrierInvariant, NEW p \in Prompts, HostActs(p) \/ DirectedCancel(p)
    PROVE  BarrierInvariant'
<1>1. CASE HostActs(p)
  <2>1. UNCHANGED <<topologyOk, boots, oldest, ledger, child, rowVars, acked, dispatcherVars>>
    BY <1>1 DEF HostActs
  <2>2. ASSUME NEW x, HostMoved(p, x) PROVE BarrierInvariant'
    BY <2>1, <2>2, MovedKeeps
  <2>3. ASSUME UNCHANGED <<up, pools>>, forgotten \subseteq forgotten' PROVE BarrierInvariant'
    <3>1. HostOrder' /\ ChildFollowsHost'
      BY <2>1, <2>3, SameOrder, SameChildren DEF rowVars
    <3>2. RowsGuard' /\ RefreshSound'
      BY <2>1, <2>3 DEF rowVars, dispatcherVars, RowsGuard, RefreshSound, SettledFrontier,
                        BarrierInvariant
    <3>3. TopologyGone'
      BY <2>1, <2>3 DEF dispatcherVars, TopologyGone, History, BarrierInvariant
    <3> QED  BY <3>1, <3>2, <3>3 DEF BarrierInvariant
  <2> QED  BY <1>1, <2>2, <2>3, HostShape
<1>2. CASE DirectedCancel(p)
  <2>1. /\ UNCHANGED <<forgotten, pools, topologyOk, boots, oldest, ledger, child, rowVars,
                       dispatcherVars>>
        /\ acked' = acked \cup {p}
    BY <1>2 DEF DirectedCancel
  <2>2. PICK x \in {"removed", "stopping"} : HostMoved(p, x)
    BY <1>2, <2>1 DEF DirectedCancel, CancelAccepted, CancelEffect, Visible, InQueue, HostMoved
  <2> QED  BY <2>1, <2>2, MovedKeeps DEF Pending
<1> QED  BY <1>1, <1>2

----------------------------------------------------------------------------
(* Restarts. *)

LEMMA RecoveryRowsFollow ==
    ASSUME Inv, BarrierInvariant, RecoveryRows, acked' = {}, next' = next, oldest' < next,
           \A p \in Prompts : up'[p] = up[p] \/ (up[p] \in AtHost /\ up'[p] = "lost"),
           \A p \in Prompts : p <= oldest' => up'[p] \notin AtHost
    PROVE  ChildFollowsHost'
<1>1. \A p \in Prompts : child'[p] \in {child[p], "recovery", "frozen"}
  BY DEF RecoveryRows
<1>2. "lost" \notin Pending \cup AtHost \cup {"flight", "unsent"} /\ "unsent" \notin AtHost
  BY DEF Pending, AtHost, InQueue, Executing
<1>3. \A p \in Prompts :
         /\ child'[p] = "none" => up'[p] = "unsent"
         /\ child'[p] \in Terminal \cup {"deleted"} => up'[p] \notin Pending
         /\ child'[p] \in {"live", "cancelling", "verifying"} => up'[p] # "flight"
  BY <1>1, <1>2 DEF BarrierInvariant, ChildFollowsHost, Terminal
<1> QED  BY <1>3 DEF ChildFollowsHost

LEMMA RestartKeeps ==
    ASSUME Inv, BarrierInvariant, BackendRestart \/ HostRestart PROVE BarrierInvariant'
<1>1. ProcessDies
  BY DEF BackendRestart, HostRestart
<1>2. /\ RecoveryRows /\ acked' = {} /\ Release(ledger) /\ UNCHANGED rowVars
      /\ next' = next /\ oldest < next
  BY <1>1 DEF ProcessDies, rowVars, BarrierInvariant, ChildFollowsHost
<1>3. CASE BackendRestart
  <2>1. UNCHANGED hostVars
    BY <1>3 DEF BackendRestart
  <2>2. ChildFollowsHost'
    BY <1>2, <2>1, RecoveryRowsFollow DEF hostVars, BarrierInvariant, ChildFollowsHost
  <2> QED  BY <1>2, <2>1, <2>2, StoredGuardOk, NoTopologyPhase, ReleaseKeeps
<1>4. CASE HostRestart
  <2>1. /\ up' = [p \in Prompts |-> IF up[p] \in InQueue \cup {"flight"} THEN "lost" ELSE up[p]]
        /\ forgotten' = {p \in Prompts : up[p] \in Finished}
        /\ pools' = {} /\ oldest' = next - 1
        /\ topologyOk' \in (IF ledger.current = None THEN {TRUE} ELSE BOOLEAN)
    BY <1>4 DEF HostRestart, HostReboot
  <2>2. \A p \in Prompts : /\ up'[p] = up[p] \/ (up[p] \in AtHost /\ up'[p] = "lost")
                           /\ up'[p] \notin AtHost /\ up'[p] \notin Pending
                           /\ up'[p] = "success" => up[p] = "success"
                           /\ up[p] = "refused" => up'[p] = "refused"
                           /\ up'[p] \in Finished => up[p] \in Finished
    BY <2>1 DEF AtHost, Pending, InQueue, Executing, Finished
  <2>3. oldest' < next
    BY <2>1, ConstantsAssumption DEF ConstantsAssumption, Inv, TypeOK
  <2>4. ChildFollowsHost'
    BY <1>2, <2>2, <2>3, RecoveryRowsFollow
  <2>5. HostOrder'
    BY <1>2, <2>2 DEF HostOrder, AtHost, InQueue, Executing, rowVars
  <2>6. Guards(ledger, Prompts, up', kind, ns, pools')
    BY <2>1, <2>2 DEF BarrierInvariant, RowsGuard, Guards
  <2>7. RowsGuard' /\ RefreshSound'
    BY <1>2, <2>6 DEF Release, RowsGuard, RefreshSound, rowVars
  <2>8. TopologyGone'
    <3>1. \A p \in Prompts : History(p)' = "absent"
      BY <2>1, <2>2 DEF History
    <3> QED  BY <1>2, <2>1, <2>2, <3>1 DEF Release, TopologyGone
  <2> QED  BY <2>4, <2>5, <2>7, <2>8 DEF BarrierInvariant
<1> QED  BY <1>3, <1>4

----------------------------------------------------------------------------
(* Every step keeps the barrier. *)

LEMMA StutterKeeps == ASSUME BarrierInvariant, UNCHANGED vars PROVE BarrierInvariant'
<1>1. HostOrder' /\ ChildFollowsHost'
  BY SameOrder, SameChildren DEF vars, hostVars, rowVars
<1>2. RowsGuard' /\ RefreshSound' /\ TopologyGone'
  BY DEF vars, hostVars, rowVars, dispatcherVars, RowsGuard, RefreshSound, SettledFrontier,
         TopologyGone, History, BarrierInvariant
<1> QED  BY <1>1, <1>2 DEF BarrierInvariant

LEMMA BarrierStep == Inv /\ BarrierInvariant /\ [Next]_vars => BarrierInvariant'
<1> SUFFICES ASSUME Inv, BarrierInvariant, [Next]_vars PROVE BarrierInvariant'
  OBVIOUS
<1>1. CASE Dispatch
  <2>1. CASE \E m \in {"standard", "mixed"} : Acquire(m)
    BY <2>1, AcquireKeeps
  <2>2. CASE CheckRecovery \/ RefreshHistory \/ RefreshQueue \/ RefreshConfirmation
    BY <2>2, CheckRecoveryKeeps, RefreshKeeps
  <2>3. CASE AwaitTail \/ AwaitOldKill
    BY <2>3, AwaitOlderKeeps
  <2>4. CASE \E w \in Keys \cup {Standard} : PlanSegment(w) \/ PlanKill(w)
    BY <2>4, PlanKeeps
  <2>5. CASE EndPlan \/ ClaimKill \/ AbandonKill \/ Quiesce
    BY <2>5, EndKeeps, ClaimKillKeeps
  <2>6. CASE PostReturns \/ PostRejected \/ PostFailed \/ AwaitFailed
    BY <2>6, PostReturnsKeeps, PostRejectedKeeps, HandOverKeeps
  <2>7. CASE SegmentDone \/ SegmentStopped \/ KillDone \/ KillFailed \/ KillStopped
    BY <2>7, AwaitSegmentKeeps, KillDoneKeeps, KillEndKeeps
  <2> QED  BY <1>1, <2>1, <2>2, <2>3, <2>4, <2>5, <2>6, <2>7 DEF Dispatch
<1>2. CASE Others
  <2>1. ASSUME NEW p \in Prompts,
               \/ ProgressEvent(p) \/ Certify(p) \/ Observe(p) \/ SyncSettle(p)
               \/ DirectedCancel(p) \/ CancelOther(p) \/ CommitCancel(p) \/ Delete(p) \/ ConfirmRestart(p)
        PROVE  BarrierInvariant'
    BY <2>1, OutsideRowKeeps, CancelRowKeeps, HostKeeps
  <2> QED  BY <1>2, <2>1, UserCancelKeeps, ConfirmRayRestartKeeps DEF Others
<1>3. CASE BackendRestart \/ HostRestart
  BY <1>3, RestartKeeps
<1>4. CASE \E p \in Prompts : HostActs(p)
  BY <1>4, HostKeeps
<1>5. CASE UNCHANGED vars
  BY <1>5, StutterKeeps
<1> QED  BY <1>1, <1>2, <1>3, <1>4, <1>5 DEF Next

(* The stored row, and every copy of it that a dispatcher may still write  *)
(* back, guards what the host holds: pending work, generations and pools.  *)
THEOREM BarrierInvariantHolds == Spec => []BarrierInvariant
BY InitStep, NextStep, InitBarrier, BarrierStep, PTL DEF Spec

(* The host never holds two actor pools, whatever is cancelled, refused,   *)
(* lost or restarted: two runtimes never share the GPUs.                   *)
THEOREM AtMostOnePool == Spec => []OnePool
<1>1. BarrierInvariant => OnePool
  <2> SUFFICES ASSUME BarrierInvariant PROVE Cardinality(pools) <= 1
    BY DEF OnePool
  <2>1. pools = {} \/ pools = {ledger.epoch}
    BY DEF BarrierInvariant, RowsGuard, Guards
  <2>2. Cardinality({}) = 0 /\ Cardinality({ledger.epoch}) = 1
    BY FS_EmptySet, FS_Singleton
  <2> QED  BY <2>1, <2>2
<1> QED  BY <1>1, BarrierInvariantHolds, PTL

(* Only one Director Ray generation is visible in ComfyUI at a time, a     *)
(* cancelled or abandoned one included (docs/architecture.md).             *)
THEOREM OneGenerationIsVisible == Spec => []OneGenerationVisible
<1>1. BarrierInvariant => OneGenerationVisible
  <2> SUFFICES ASSUME BarrierInvariant, NEW p \in Prompts, NEW q \in Prompts,
                      kind[p] = "ray_unit", kind[q] = "ray_unit", Visible(p), Visible(q)
               PROVE  p = q
    BY DEF OneGenerationVisible
  <2>1. ASSUME NEW a \in Prompts, NEW b \in Prompts, a < b, kind[a] = "ray_unit",
               kind[b] = "ray_unit", Visible(a)
        PROVE  FALSE
    BY <2>1 DEF BarrierInvariant, HostOrder, Visible, InQueue, Executing, Pending
  <2>2. p < q \/ q < p \/ p = q
    BY DEF Prompts
  <2> QED  BY <2>1, <2>2
<1> QED  BY <1>1, BarrierInvariantHolds, PTL

(* Work that can still run in the host is the recorded tail, so the next   *)
(* dispatcher waits for it before it queues anything.                      *)
THEOREM OutstandingWorkIsAtTheTail == Spec => []OutstandingWorkIsTheTail
<1>1. BarrierInvariant => OutstandingWorkIsTheTail
  BY DEF BarrierInvariant, RowsGuard, Guards, Pending, OutstandingWorkIsTheTail
<1> QED  BY <1>1, BarrierInvariantHolds, PTL

----------------------------------------------------------------------------
(* Refinement: every step of every actor is a step of RayBarrier or none. *)

(* What the abstract state is made of; a step that keeps these keeps it.   *)
LEMMA SameBarrier ==
    ASSUME UNCHANGED <<up, kind, ns, pools>>
    PROVE  UNCHANGED Barrier!vars
BY DEF Barrier!vars, VisibleGenerations, GenerationRuns, KilledEpochs, SpoiledEpochs, Generation,
       Visible

(* A claimed prompt has not reached the host yet. *)
LEMMA ClaimKeepsBarrier ==
    ASSUME Inv, NEW k, ClaimsNext(k), pools' = pools
    PROVE  UNCHANGED Barrier!vars
<1> DEFINE Known(p) == kind[p] # "none" /\ up[p] \notin {"unsent", "flight"}
<1>1. \A p \in Prompts \ {next} : up'[p] = up[p] /\ kind'[p] = kind[p] /\ ns'[p] = ns[p]
  BY DEF ClaimsNext, Inv, TypeOK
<1>2. next \in Prompts /\ up[next] = "unsent" /\ up'[next] = "flight"
  BY DEF ClaimsNext, Inv, TypeOK, LedgerInvariant, Fresh
<1>3. \A p \in Prompts :
         /\ (Generation(p) /\ Visible(p))' <=> Generation(p) /\ Visible(p) /\ p # next
         /\ Visible(p) => p # next
         /\ (Generation(p) /\ up[p] \in Executing)' <=> Generation(p) /\ up[p] \in Executing
  BY <1>1, <1>2 DEF Generation, Visible, InQueue, Executing
<1>4. VisibleGenerations' = VisibleGenerations /\ GenerationRuns' = GenerationRuns
  BY <1>1, <1>3 DEF VisibleGenerations, GenerationRuns
<1>5. KilledEpochs' = KilledEpochs
  BY <1>1, <1>2 DEF KilledEpochs
<1>6. SpoiledEpochs' = SpoiledEpochs
  BY <1>1, <1>2 DEF SpoiledEpochs, Generation
<1> QED  BY <1>4, <1>5, <1>6 DEF Barrier!vars

(* While a generation is at the host or on its way, no other is visible. *)
LEMMA AloneAtHost ==
    ASSUME Inv, BarrierInvariant, NEW p \in Prompts, Generation(p), up[p] \in AtHost
    PROVE  \A q \in Prompts \ {p} : Generation(q) => ~Visible(q)
<1> SUFFICES ASSUME NEW q \in Prompts, q # p, Generation(q), Visible(q) PROVE FALSE
  OBVIOUS
<1>1. CASE p < q
  BY <1>1 DEF BarrierInvariant, HostOrder, Generation, Visible, AtHost, InQueue, Executing, Pending
<1>2. CASE q < p
  BY <1>2 DEF BarrierInvariant, HostOrder, Generation, Visible, AtHost, InQueue, Executing, Pending
<1> QED  BY <1>1, <1>2 DEF Prompts

(* The worker executes one prompt. *)
LEMMA OneExecutes ==
    ASSUME Inv, BarrierInvariant, NEW p \in Prompts, NEW q \in Prompts,
           kind[p] # "none", kind[q] # "none", up[p] \in Executing, up[q] \in Executing
    PROVE  p = q
<1>1. ASSUME NEW a \in Prompts, NEW b \in Prompts, a < b, kind[b] # "none",
             up[a] \in Executing, up[b] \in Executing
      PROVE  FALSE
  BY <1>1 DEF BarrierInvariant, HostOrder, Executing, Pending
<1> QED  BY <1>1 DEF Prompts

(* What a move of a generation does to the abstract state. *)
LEMMA GenerationMoves ==
    ASSUME Inv, BarrierInvariant, NEW p \in Prompts, Generation(p), NEW x, HostMoved(p, x),
           UNCHANGED <<kind, ns>>
    PROVE  LET v == <<p, ns[p].epoch>>
           IN  /\ VisibleGenerations = IF up[p] \in InQueue THEN {v} ELSE {}
               /\ VisibleGenerations' = IF x \in InQueue THEN {v} ELSE {}
               /\ GenerationRuns <=> up[p] \in Executing
               /\ GenerationRuns' <=> x \in Executing
               /\ KilledEpochs' = KilledEpochs
               /\ SpoiledEpochs' = SpoiledEpochs \cup
                      (IF x \in {"lost", "removed", "error", "interrupted"}
                       THEN {ns[p].epoch} ELSE {})
<1>1. /\ up'[p] = x /\ up[p] \in AtHost
      /\ \A q \in Prompts \ {p} : up'[q] = up[q] /\ (Generation(q) => ~Visible(q))
  BY MovedWhere, AloneAtHost
<1>2. /\ VisibleGenerations = IF up[p] \in InQueue THEN {<<p, ns[p].epoch>>} ELSE {}
      /\ VisibleGenerations' = IF x \in InQueue THEN {<<p, ns[p].epoch>>} ELSE {}
  BY <1>1 DEF VisibleGenerations, Generation, Visible
<1>3. /\ GenerationRuns <=> up[p] \in Executing
      /\ GenerationRuns' <=> x \in Executing
  BY <1>1 DEF GenerationRuns, Generation, Visible, InQueue
<1>4. KilledEpochs' = KilledEpochs
  BY <1>1 DEF KilledEpochs, Generation
<1>5. up[p] \notin {"lost", "removed", "error", "interrupted"}
  BY <1>1 DEF AtHost, InQueue, Executing
<1>6. SpoiledEpochs' = SpoiledEpochs \cup (IF x \in {"lost", "removed", "error", "interrupted"}
                                           THEN {ns[p].epoch} ELSE {})
  BY <1>1, <1>5 DEF SpoiledEpochs, Generation
<1> QED  BY <1>2, <1>3, <1>4, <1>6

(* A prompt that the worker can start finds its pool as the only one. *)
LEMMA StartFindsItsPool ==
    ASSUME Inv, BarrierInvariant, NEW p \in Prompts, up[p] = "queued"
    PROVE  pools \subseteq {ns[p].epoch}
<1>1. ledger.tail = p /\ p # NoPrompt
  BY DEF BarrierInvariant, RowsGuard, Guards, Pending, Prompts, NoPrompt
<1> QED  BY <1>1 DEF BarrierInvariant, RowsGuard, Guards

(* For a generation that pool is neither shut down nor spoiled. *)
LEMMA ItsPoolIsSound ==
    ASSUME Inv, BarrierInvariant, PoolInv, NEW p \in Prompts, Generation(p), up[p] = "queued"
    PROVE  ns[p].epoch \notin KilledEpochs \cup SpoiledEpochs
<1>1. \A q \in Prompts : q # p /\ kind[q] # "none" => q < p
  BY DEF BarrierInvariant, HostOrder, Pending, Prompts
<1>2. Segment(p)
  BY DEF Segment, Generation
<1>3. ns[p].epoch \notin KilledEpochs
  <2> SUFFICES ASSUME NEW k \in Prompts, kind[k] = "shutdown", up[k] = "success",
                      ns[k].epoch = ns[p].epoch
               PROVE  FALSE
    BY DEF KilledEpochs
  <2>1. k < p
    BY <1>1 DEF Generation
  <2>2. ns[p].epoch > ns[k].epoch
    BY <1>2, <2>1 DEF PoolInv, NoSegmentBehindKill
  <2>3. ns[p].epoch \in Nat
    BY ConstantsAssumption DEF ConstantsAssumption, Inv, TypeOK
  <2> QED  BY <2>2, <2>3
<1>4. ns[p].epoch \notin SpoiledEpochs
  <2> SUFFICES ASSUME NEW q \in Prompts, Generation(q), ns[q].epoch = ns[p].epoch,
                      up[q] \in {"lost", "removed", "error", "interrupted"}
               PROVE  FALSE
    BY DEF SpoiledEpochs
  <2>1. q < p /\ Segment(q)
    BY <1>1 DEF Generation, Segment
  <2> QED  BY <1>2, <2>1 DEF PoolInv, PoolReusedOnlyAfterSuccess
<1> QED  BY <1>3, <1>4

LEMMA GenerationMaps ==
    ASSUME Inv, BarrierInvariant, PoolInv, NEW p \in Prompts, Generation(p), NEW x,
           HostMoved(p, x), UNCHANGED <<kind, ns>>
    PROVE  [Barrier!Next]_(Barrier!vars)
<1> DEFINE e == ns[p].epoch
<1>1. e \in 0 .. MaxPrompts
  BY DEF Inv, TypeOK
<1>2. /\ VisibleGenerations = IF up[p] \in InQueue THEN {<<p, e>>} ELSE {}
      /\ VisibleGenerations' = IF x \in InQueue THEN {<<p, e>>} ELSE {}
      /\ GenerationRuns <=> up[p] \in Executing
      /\ GenerationRuns' <=> x \in Executing
      /\ KilledEpochs' = KilledEpochs
      /\ SpoiledEpochs' = SpoiledEpochs \cup (IF x \in {"lost", "removed", "error", "interrupted"}
                                              THEN {e} ELSE {})
  BY GenerationMoves
<1>3. <<p, e>>[2] = e /\ GenerationRuns \in BOOLEAN /\ GenerationRuns' \in BOOLEAN
  BY DEF GenerationRuns
<1>4. up[p] = "queued" => e \notin KilledEpochs \cup SpoiledEpochs /\ pools \subseteq {e}
  BY StartFindsItsPool, ItsPoolIsSound
<1>0. \/ up[p] = "flight" /\ x \in {"queued", "refused", "lost"} /\ pools' = pools
      \/ up[p] = "queued" /\ x = "removed" /\ pools' = pools
      \/ up[p] = "queued" /\ x = "running" /\ pools' = pools \cup {e}
      \/ up[p] \in Executing /\ x \in {"stopping", "success", "error", "interrupted"} /\ pools' = pools
  BY DEF HostMoved, Finished, Generation, PoolBuilt
<1> HIDE DEF e
<1>5. CASE up[p] = "flight" /\ x = "queued" /\ pools' = pools
  <2>1. Barrier!Enter
    BY <1>1, <1>2, <1>3, <1>5 DEF Barrier!Enter, InQueue, Executing
  <2> QED  BY <2>1 DEF Barrier!Next
<1>6. CASE up[p] = "flight" /\ x = "lost" /\ pools' = pools
  <2>1. Barrier!Miss
    BY <1>1, <1>2, <1>3, <1>6 DEF Barrier!Miss, InQueue, Executing
  <2> QED  BY <2>1 DEF Barrier!Next
<1>7. CASE /\ pools' = pools
           /\ \/ up[p] = "flight" /\ x = "refused"
              \/ up[p] \in Executing /\ x = "stopping"
  BY <1>2, <1>3, <1>7 DEF Barrier!vars, InQueue, Executing
<1>8. CASE up[p] = "queued" /\ x = "running" /\ pools' = pools \cup {e}
  <2>1. pools' = {e}
    BY <1>4, <1>8
  <2>2. Barrier!Begin
    BY <1>2, <1>3, <1>4, <1>8, <2>1 DEF Barrier!Begin, InQueue, Executing
  <2> QED  BY <2>2 DEF Barrier!Next
<1>9. CASE up[p] \in Executing /\ x = "success" /\ pools' = pools
  <2>1. Barrier!Succeed
    BY <1>2, <1>3, <1>9 DEF Barrier!Succeed, InQueue, Executing
  <2> QED  BY <2>1 DEF Barrier!Next
<1>10. CASE /\ pools' = pools
            /\ \/ up[p] = "queued" /\ x = "removed"
               \/ up[p] \in Executing /\ x \in {"error", "interrupted"}
  <2>1. Barrier!Fail
    BY <1>2, <1>3, <1>10 DEF Barrier!Fail, InQueue, Executing
  <2> QED  BY <2>1 DEF Barrier!Next
<1> QED  BY <1>0, <1>5, <1>6, <1>7, <1>8, <1>9, <1>10

(* A RayKill moves. *)
LEMMA KillMaps ==
    ASSUME Inv, BarrierInvariant, NEW p \in Prompts, ~Generation(p), NEW x,
           HostMoved(p, x), UNCHANGED <<kind, ns>>
    PROVE  [Barrier!Next]_(Barrier!vars)
<1> DEFINE e == ns[p].epoch
<1>1. /\ up'[p] = x /\ \A q \in Prompts \ {p} : up'[q] = up[q]
      /\ up[p] # "success" /\ e \in 0 .. MaxPrompts
  BY MovedWhere DEF AtHost, InQueue, Executing, Inv, TypeOK
<1>2. \A q \in Prompts : Generation(q) => up'[q] = up[q]
  BY <1>1
<1>3. UNCHANGED <<VisibleGenerations, GenerationRuns, SpoiledEpochs>>
  BY <1>2 DEF VisibleGenerations, GenerationRuns, SpoiledEpochs, Generation, Visible
<1>4. KilledEpochs' = KilledEpochs \cup (IF kind[p] = "shutdown" /\ x = "success" THEN {e} ELSE {})
  BY <1>1 DEF KilledEpochs
<1>5. CASE x = "running" /\ up[p] = "queued" /\ WorkerFree /\ pools' = pools \cup {e}
  <2>1. ~GenerationRuns
    BY <1>5 DEF WorkerFree, GenerationRuns
  <2>2. pools \subseteq {e} /\ pools' = {e}
    BY <1>5, StartFindsItsPool
  <2>3. Barrier!Replay
    BY <1>1, <1>3, <1>4, <1>5, <2>1, <2>2 DEF Barrier!Replay
  <2> QED  BY <2>3 DEF Barrier!Next
<1>6. CASE kind[p] = "shutdown" /\ up[p] \in Executing /\ x \in Finished /\ pools' = {}
  <2>1. ~GenerationRuns
    BY <1>6, OneExecutes DEF GenerationRuns, Generation
  <2>2. pools \subseteq {e}
    BY <1>6 DEF BarrierInvariant, RowsGuard, Guards, AtHost, InQueue
  <2>3. KilledEpochs' \in {KilledEpochs, KilledEpochs \cup {e}}
    BY <1>4
  <2>4. Barrier!Shutdown
    BY <1>1, <1>3, <1>6, <2>1, <2>2, <2>3 DEF Barrier!Shutdown
  <2> QED  BY <2>4 DEF Barrier!Next
<1>7. CASE pools' = pools /\ ~(kind[p] = "shutdown" /\ x = "success")
  BY <1>3, <1>4, <1>7 DEF Barrier!vars
<1>8. \/ x = "running" /\ up[p] = "queued" /\ WorkerFree /\ pools' = pools \cup {e}
      \/ kind[p] = "shutdown" /\ up[p] \in Executing /\ x \in Finished /\ pools' = {}
      \/ pools' = pools /\ ~(kind[p] = "shutdown" /\ x = "success")
  BY DEF HostMoved, Finished, PoolBuilt
<1> QED  BY <1>5, <1>6, <1>7, <1>8

(* A restart of the host empties it, and counts what it held as spoiled. *)
LEMMA RebootMaps ==
    ASSUME Inv, Inv', HostRestart
    PROVE  Barrier!Reboot
<1>1. /\ up' = [p \in Prompts |-> IF up[p] \in InQueue \cup {"flight"} THEN "lost" ELSE up[p]]
      /\ pools' = {} /\ UNCHANGED <<kind, ns>>
  BY DEF HostRestart, HostReboot, ProcessDies, rowVars
<1>2. \A p \in Prompts :
         /\ up'[p] \notin InQueue
         /\ up[p] \in {"lost", "removed", "error", "interrupted"} => up'[p] = up[p]
         /\ up'[p] = "success" <=> up[p] = "success"
  BY <1>1 DEF InQueue, Executing
<1>3. VisibleGenerations' = {} /\ GenerationRuns' = FALSE
  BY <1>2 DEF VisibleGenerations, GenerationRuns, Visible, InQueue
<1>4. KilledEpochs' = KilledEpochs
  BY <1>1, <1>2 DEF KilledEpochs
<1>5. SpoiledEpochs \subseteq SpoiledEpochs'
  BY <1>1, <1>2 DEF SpoiledEpochs, Generation
<1>6. SpoiledEpochs' \subseteq 0 .. MaxPrompts
  BY DEF Inv, TypeOK, SpoiledEpochs
<1> QED  BY <1>1, <1>3, <1>4, <1>5, <1>6 DEF Barrier!Reboot

LEMMA StepMaps ==
    Inv /\ Inv' /\ BarrierInvariant /\ PoolInv /\ [Next]_vars => [Barrier!Next]_(Barrier!vars)
<1> SUFFICES ASSUME Inv, Inv', BarrierInvariant, PoolInv, [Next]_vars
             PROVE  [Barrier!Next]_(Barrier!vars)
  OBVIOUS
<1>1. CASE Idle
  BY <1>1, SameBarrier DEF Idle
<1>2. ASSUME NEW k \in {"ray_unit", "shutdown"}, ClaimsNext(k) PROVE UNCHANGED Barrier!vars
  BY <1>2, ClaimKeepsBarrier DEF ClaimsNext
<1>3. ASSUME NEW p \in Prompts, HostActs(p) \/ DirectedCancel(p)
      PROVE  [Barrier!Next]_(Barrier!vars)
  <2>1. UNCHANGED <<kind, ns>>
    BY <1>3 DEF HostActs, DirectedCancel, rowVars
  <2>2. UNCHANGED <<up, pools>> \/ \E x : HostMoved(p, x)
    <3>1. CASE DirectedCancel(p)
      BY <3>1 DEF DirectedCancel, CancelAccepted, CancelEffect, Visible, InQueue, HostMoved
    <3> QED  BY <1>3, <3>1, HostShape
  <2>3. ASSUME NEW x, HostMoved(p, x) PROVE [Barrier!Next]_(Barrier!vars)
    BY <2>1, <2>3, GenerationMaps, KillMaps
  <2>4. CASE UNCHANGED <<up, pools>>
    BY <2>1, <2>4, SameBarrier
  <2> QED  BY <2>2, <2>3, <2>4
<1>4. CASE HostRestart
  BY <1>4, RebootMaps DEF Barrier!Next
<1> QED  BY <1>1, <1>2, <1>3, <1>4, StepShape

(* The barrier of docs/architecture.md holds at every step of every actor: *)
(* generations enter one at a time, on the one pool that is neither shut   *)
(* down nor spoiled, and no RayKill succeeds under a running generation.   *)
THEOREM BarrierIsImplemented == Spec => ImplementsBarrier
<1>1. Init => Barrier!Init
  BY DEF Init, ComfyInit, Barrier!Init, VisibleGenerations, GenerationRuns, KilledEpochs,
         SpoiledEpochs, Generation
<1>2. Inv /\ [Next]_vars => Inv'
  BY NextStep
<1> QED  BY <1>1, <1>2, StepMaps, InitStep, BarrierInvariantHolds, PoolInvHolds, PTL
         DEF Spec, ImplementsBarrier, Barrier!Spec
=============================================================================
