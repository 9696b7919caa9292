--------------------------- MODULE RayLedger_proofs ---------------------------
(***************************************************************************)
(* Proofs about RayLedger, for every number of prompts, host restarts and  *)
(* runtime keys, and every set of disturbances.                            *)
(*                                                                         *)
(* The argument: LedgerInvariant is inductive together with TypeOK.  The   *)
(* row lemmas show that each way the code rewrites the row keeps it        *)
(* accountable; the move lemmas lift them to what the dispatcher does      *)
(* next; the step theorems go through the actions.                         *)
(***************************************************************************)
EXTENDS RayLedger, TLAPS

Phases == {"free", "stats", "history", "queue", "confirm", "awaitTail", "awaitOldKill",
           "plan", "preflight", "post", "awaitSegment", "awaitKill"}

(* The two halves of TypeOK: what only the dispatcher moves, and the rest. *)
DispatcherTyped ==
    /\ ledger \in LedgerType /\ snap \in LedgerType
    /\ pc \in Phases
    /\ mode \in {"none", "standard", "mixed", "ray"}
    /\ want \in Keys \cup {None, Standard}
    /\ ambiguous \in BOOLEAN
    /\ unit \in 0 .. MaxPrompts
    /\ stop \in BOOLEAN

WorldTyped ==
    /\ up \in [Prompts -> HostStates]
    /\ forgotten \subseteq Prompts
    /\ pools \subseteq 0 .. MaxPrompts
    /\ topologyOk \in BOOLEAN
    /\ boots \in 0 .. MaxBoots
    /\ oldest \in 0 .. MaxPrompts
    /\ child \in [Prompts -> ChildStates]
    /\ kind \in [Prompts -> Kinds]
    /\ ns \in [Prompts -> [epoch : 0 .. MaxPrompts, key : Keys \cup {None}]]
    /\ acked \subseteq Prompts
    /\ next \in 1 .. MaxPrompts + 1

LEMMA TypeHalves == TypeOK <=> DispatcherTyped /\ WorldTyped
BY DEF TypeOK, DispatcherTyped, WorldTyped, Phases

----------------------------------------------------------------------------
(* Rows. *)

(* Every rewriting of a row yields a row, and only a new intent moves the *)
(* epoch.                                                                  *)
LEMMA RowTypes ==
    ASSUME NEW l \in LedgerType
    PROVE  /\ Tainted(l) \in LedgerType /\ Tainted(l).epoch = l.epoch
           /\ NoTail(l) \in LedgerType /\ NoTail(l).epoch = l.epoch
           /\ \A p \in Prompts : Cleanup(l, p) \in LedgerType /\ Cleanup(l, p).epoch = l.epoch
           /\ [NoTail(l) EXCEPT !.current = None, !.tainted = FALSE] \in LedgerType
           /\ [NoTail(l) EXCEPT !.current = None, !.tainted = FALSE].epoch = l.epoch
<1>1. Tainted(l) \in LedgerType /\ Tainted(l).epoch = l.epoch
  BY DEF Tainted, LedgerType
<1>2. NoTail(l) \in LedgerType /\ NoTail(l).epoch = l.epoch
  <2>1. NoPrompt \in 0 .. MaxPrompts
    BY ConstantsAssumption DEF ConstantsAssumption, NoPrompt
  <2> QED  BY <2>1 DEF NoTail, LedgerType
<1>3. /\ [NoTail(l) EXCEPT !.current = None, !.tainted = FALSE] \in LedgerType
      /\ [NoTail(l) EXCEPT !.current = None, !.tainted = FALSE].epoch = l.epoch
  BY <1>2 DEF LedgerType
<1>4. \A p \in Prompts : Cleanup(l, p) \in LedgerType /\ Cleanup(l, p).epoch = l.epoch
  <2>1. Tainted(NoTail(l)) \in LedgerType /\ Tainted(NoTail(l)).epoch = l.epoch
    BY <1>2 DEF Tainted, LedgerType
  <2> QED  BY <2>1 DEF Cleanup
<1> QED  BY <1>1, <1>2, <1>3, <1>4

LEMMA SettleType ==
    ASSUME NEW l \in LedgerType, NEW p, NEW s \in BOOLEAN, NEW c \in BOOLEAN
    PROVE  Settle(l, p, s, c) \in LedgerType /\ Settle(l, p, s, c).epoch = l.epoch
<1>1. /\ [NoTail(l) EXCEPT !.current = None, !.tainted = FALSE] \in LedgerType
      /\ [NoTail(l) EXCEPT !.current = None, !.tainted = FALSE].epoch = l.epoch
  BY RowTypes
<1>2. /\ [l EXCEPT !.tainted = ~s, !.cert = IF ~c THEN @ ELSE IF s THEN "ok" ELSE "bad"] \in LedgerType
      /\ [l EXCEPT !.tainted = ~s, !.cert = IF ~c THEN @ ELSE IF s THEN "ok" ELSE "bad"].epoch = l.epoch
  BY DEF LedgerType
<1> QED  BY <1>1, <1>2 DEF Settle

(* An intent for prompt p stays within the epochs of the prompts so far. *)
LEMMA SegmentType ==
    ASSUME NEW l \in LedgerType, NEW p \in Prompts, NEW w \in Keys, l.epoch < p
    PROVE  AfterSegment(l, p, w) \in LedgerType /\ AfterSegment(l, p, w).epoch <= p
BY ConstantsAssumption DEF ConstantsAssumption, AfterSegment, LedgerType, Prompts

LEMMA ControlType ==
    ASSUME NEW l \in LedgerType, NEW p \in Prompts
    PROVE  AfterControl(l, p) \in LedgerType /\ AfterControl(l, p).epoch = l.epoch
<1>1. p \in 0 .. MaxPrompts
  BY ConstantsAssumption DEF ConstantsAssumption, Prompts
<1> QED  BY <1>1 DEF AfterControl, LedgerType

(* Rewriting the row without a new intent keeps it accountable, provided   *)
(* that a certificate comes from the host's own result.                    *)
LEMMA RowsStayAccountable ==
    ASSUME NEW l \in LedgerType, NEW ps \in SUBSET Prompts, NEW u, NEW k, NEW n,
           Accounts(l, ps, u, k, n)
    PROVE  /\ Accounts(Tainted(l), ps, u, k, n)
           /\ Accounts(Tainted(NoTail(l)), ps, u, k, n)
           /\ Accounts([NoTail(l) EXCEPT !.current = None, !.tainted = FALSE], ps, u, k, n)
           /\ \A p \in Prompts : Accounts(Cleanup(l, p), ps, u, k, n)
<1>1. Accounts(Tainted(l), ps, u, k, n)
  BY DEF Accounts, Tainted, LedgerType
<1>2. Accounts(Tainted(NoTail(l)), ps, u, k, n)
  BY DEF Accounts, Tainted, NoTail, LedgerType, NoPrompt
<1>3. Accounts([NoTail(l) EXCEPT !.current = None, !.tainted = FALSE], ps, u, k, n)
  BY DEF Accounts, NoTail, LedgerType, NoPrompt
<1> QED  BY <1>1, <1>2, <1>3 DEF Cleanup

LEMMA SettleAccounts ==
    ASSUME NEW l \in LedgerType, NEW ps \in SUBSET Prompts, NEW u, NEW k, NEW n,
           NEW p \in Prompts, NEW s \in BOOLEAN, NEW c \in BOOLEAN,
           Accounts(l, ps, u, k, n),
           (c /\ s) => u[p] = "success",
           (c /\ ~s) => u[p] \in {"error", "interrupted"}
    PROVE  Accounts(Settle(l, p, s, c), ps, u, k, n)
<1>1. CASE l.tail # p
  BY <1>1 DEF Settle
<1>2. CASE l.tail = p /\ s /\ l.action = "shutdown"
  BY <1>2, RowsStayAccountable DEF Settle
<1>3. CASE l.tail = p /\ ~(s /\ l.action = "shutdown")
  <2> DEFINE m == [l EXCEPT !.tainted = ~s,
                            !.cert = IF ~c THEN @ ELSE IF s THEN "ok" ELSE "bad"]
  <2>1. Settle(l, p, s, c) = m
    BY <1>3 DEF Settle
  <2>2. /\ m.epoch = l.epoch /\ m.current = l.current /\ m.tail = l.tail
        /\ m.action = l.action /\ m.tainted = ~s
        /\ m.cert = IF ~c THEN l.cert ELSE IF s THEN "ok" ELSE "bad"
    BY DEF LedgerType
  <2>3. p # NoPrompt
    BY DEF Prompts, NoPrompt
  <2>4. l.action # "ray_unit" => ~s
    BY <1>3, <2>3 DEF Accounts, LedgerType
  <2> HIDE DEF m
  <2>5. l.tail = p
    BY <1>3
  <2>6. /\ m.cert = "ok" => m.tail # NoPrompt /\ u[m.tail] = "success"
        /\ m.cert = "bad" => m.tail # NoPrompt /\ u[m.tail] \in {"error", "interrupted"}
    <3>1. CASE c
      BY <2>2, <2>3, <2>5, <3>1
    <3>2. CASE ~c
      BY <2>2, <2>5, <3>2 DEF Accounts
    <3> QED  BY <3>1, <3>2
  <2>7. m.current # None /\ m.action # "ray_unit" => m.tainted
    BY <2>2, <2>4
  <2> QED  BY <2>1, <2>2, <2>6, <2>7 DEF Accounts
<1> QED  BY <1>1, <1>2, <1>3

(* The host only ever adds results and refusals; it takes none back.       *)
HostProgress(u, v) ==
    \A p \in Prompts :
        /\ u[p] = "success" => v[p] = "success"
        /\ u[p] \in {"error", "interrupted"} => v[p] = u[p]
        /\ u[p] = "refused" => v[p] = "refused"

LEMMA HostKeepsAccounts ==
    ASSUME NEW l \in LedgerType, NEW ps \in SUBSET Prompts, NEW u, NEW v, NEW k, NEW n,
           Accounts(l, ps, u, k, n), HostProgress(u, v)
    PROVE  Accounts(l, ps, v, k, n)
<1>1. l.tail # NoPrompt => l.tail \in Prompts
  BY ConstantsAssumption DEF ConstantsAssumption, LedgerType, NoPrompt, Prompts
<1> QED  BY <1>1 DEF Accounts, HostProgress

(* Claiming prompt q.  Nothing was issued as q before, so the row as it    *)
(* was still accounts for the others, and the intent accounts for all.     *)
Claimed(k, q, x) == [k EXCEPT ![q] = x]

LEMMA ClaimKeepsOthers ==
    ASSUME NEW l \in LedgerType, NEW q \in Prompts, NEW x, NEW y,
           NEW u \in [Prompts -> HostStates], NEW k \in [Prompts -> Kinds],
           NEW n \in [Prompts -> [epoch : 0 .. MaxPrompts, key : Keys \cup {None}]],
           u[q] = "unsent", Accounts(l, Prompts, u, k, n)
    PROVE  Accounts(l, Prompts \ {q}, Claimed(u, q, "flight"), Claimed(k, q, x), Claimed(n, q, y))
<1>1. l.tail # NoPrompt => l.tail \in Prompts
  BY ConstantsAssumption DEF ConstantsAssumption, LedgerType, NoPrompt, Prompts
<1>2. \A p \in Prompts \ {q} : /\ Claimed(u, q, "flight")[p] = u[p]
                               /\ Claimed(k, q, x)[p] = k[p]
                               /\ Claimed(n, q, y)[p] = n[p]
  BY DEF Claimed
<1>3. l.cert \in {"ok", "bad"} => l.tail \in Prompts \ {q}
  BY <1>1 DEF Accounts
<1> QED  BY <1>1, <1>2, <1>3 DEF Accounts

LEMMA SegmentAccounts ==
    ASSUME NEW l \in LedgerType, NEW q \in Prompts, NEW w \in Keys,
           NEW u \in [Prompts -> HostStates], NEW k \in [Prompts -> Kinds],
           NEW n \in [Prompts -> [epoch : 0 .. MaxPrompts, key : Keys \cup {None}]],
           u[q] = "unsent", k[q] = "none", l.epoch < q,
           Accounts(l, Prompts, u, k, n), Plannable(l), ~NeedsKill(l, w)
    PROVE  LET m == AfterSegment(l, q, w) IN
           Accounts(m, Prompts, Claimed(u, q, "flight"), Claimed(k, q, "ray_unit"),
                    Claimed(n, q, [epoch |-> m.epoch, key |-> m.current]))
<1> DEFINE m == AfterSegment(l, q, w)
           u2 == Claimed(u, q, "flight")
           k2 == Claimed(k, q, "ray_unit")
           n2 == Claimed(n, q, [epoch |-> m.epoch, key |-> m.current])
<1>1. /\ m.epoch = (IF l.current = None THEN l.epoch + 1 ELSE l.epoch)
      /\ m.current = w /\ m.tail = q /\ m.action = "ray_unit" /\ m.tainted = TRUE
      /\ m.cert = "none"
  BY DEF AfterSegment
<1>2. \A p \in Prompts \ {q} : u2[p] = u[p] /\ k2[p] = k[p] /\ n2[p] = n[p]
  BY DEF Claimed
<1>3. u2[q] = "flight" /\ k2[q] = "ray_unit" /\ n2[q].epoch = m.epoch /\ n2[q].key = m.current
  BY DEF Claimed
<1>4. /\ q # NoPrompt /\ l.epoch \in Nat /\ m.epoch \in Nat /\ l.epoch <= m.epoch
      /\ \A p \in Prompts : n[p].epoch \in Nat
  BY <1>1, ConstantsAssumption DEF ConstantsAssumption, LedgerType, Prompts, NoPrompt
<1> HIDE DEF m, u2, k2, n2
<1>5. \A p \in Prompts \ {q} : (k[p] # "none" /\ u[p] # "refused") => n[p].epoch <= l.epoch
  BY DEF Accounts
<1>6. \A p \in Prompts : (k2[p] # "none" /\ u2[p] # "refused") => n2[p].epoch <= m.epoch
  BY <1>2, <1>3, <1>4, <1>5
(* On a pool that is resident, the frontier has succeeded. *)
<1>7. ASSUME NEW p \in Prompts \ {q}, k2[p] # "none", u2[p] # "refused", n2[p].epoch = m.epoch
      PROVE  n2[p].key = m.current /\ k2[p] = "ray_unit" /\ u2[p] = "success"
  <2>1. n[p].epoch = m.epoch /\ k[p] # "none" /\ u[p] # "refused"
    BY <1>2, <1>7
  <2>2. CASE l.current = None
    BY <2>1, <2>2, <1>1, <1>4, <1>5
  <2>3. CASE l.current # None
    <3>1. l.current = w /\ ~l.tainted /\ SettledFrontier(l)
      BY <2>3 DEF Plannable, NeedsKill
    <3>2. l.action = "ray_unit" /\ l.cert = "ok"
      BY <3>1, <2>3 DEF SettledFrontier, Accounts
    <3>3. n[p].epoch = l.epoch
      BY <2>1, <2>3, <1>1
    <3>4. n[p].key = l.current /\ k[p] = "ray_unit" /\ (p # l.tail => u[p] = "success")
      BY <2>1, <2>3, <3>2, <3>3 DEF Accounts
    <3>5. u[l.tail] = "success"
      BY <3>2 DEF Accounts
    <3> QED  BY <3>1, <3>4, <3>5, <1>1, <1>2
  <2> QED  BY <2>2, <2>3
<1> QED  BY <1>1, <1>3, <1>4, <1>6, <1>7 DEF Accounts, m, u2, k2, n2

LEMMA ControlAccounts ==
    ASSUME NEW l \in LedgerType, NEW q \in Prompts,
           NEW u \in [Prompts -> HostStates], NEW k \in [Prompts -> Kinds],
           NEW n \in [Prompts -> [epoch : 0 .. MaxPrompts, key : Keys \cup {None}]],
           u[q] = "unsent", k[q] = "none",
           Accounts(l, Prompts, u, k, n)
    PROVE  LET m == AfterControl(l, q) IN
           Accounts(m, Prompts, Claimed(u, q, "flight"), Claimed(k, q, "shutdown"),
                    Claimed(n, q, [epoch |-> m.epoch, key |-> m.current]))
<1> DEFINE m == AfterControl(l, q)
           u2 == Claimed(u, q, "flight")
           k2 == Claimed(k, q, "shutdown")
           n2 == Claimed(n, q, [epoch |-> m.epoch, key |-> m.current])
<1>1. /\ m.epoch = l.epoch /\ m.current = l.current /\ m.tail = q /\ m.action = "shutdown"
      /\ m.tainted = TRUE /\ m.cert = "none"
  BY DEF AfterControl, LedgerType
<1>2. \A p \in Prompts \ {q} : u2[p] = u[p] /\ k2[p] = k[p] /\ n2[p] = n[p]
  BY DEF Claimed
<1>3. n2[q].epoch = m.epoch /\ n2[q].key = m.current
  BY DEF Claimed
<1>4. q # NoPrompt /\ m.epoch \in Nat /\ m.epoch <= m.epoch
  BY <1>1, ConstantsAssumption DEF ConstantsAssumption, LedgerType, Prompts, NoPrompt
<1> HIDE DEF m, u2, k2, n2
<1> QED  BY <1>1, <1>2, <1>3, <1>4 DEF Accounts, m, u2, k2, n2

----------------------------------------------------------------------------
(* Moves: how an accountable row that is written keeps the invariant.      *)

Inv == TypeOK /\ LedgerInvariant

RowOk(l) == l \in LedgerType /\ l.epoch < next /\ Accounts(l, Prompts, up, kind, ns)

LEMMA StoredRowOk == Inv => RowOk(ledger)
BY DEF Inv, TypeOK, LedgerInvariant, EpochBehind, RowsAccount, RowOk

LEMMA CopiedRowOk ==
    Inv /\ pc \in {"stats", "history", "queue", "confirm", "preflight"} => RowOk(snap)
BY DEF Inv, TypeOK, LedgerInvariant, EpochBehind, RowsAccount, RowOk

LEMMA RowOkClosed ==
    ASSUME Inv, NEW l, RowOk(l)
    PROVE  /\ RowOk(Tainted(l))
           /\ RowOk(Tainted(NoTail(l)))
           /\ RowOk([NoTail(l) EXCEPT !.current = None, !.tainted = FALSE])
           /\ \A p \in Prompts : RowOk(Cleanup(l, p))
<1>1. NoTail(l) \in LedgerType /\ NoTail(l).epoch = l.epoch
  BY RowTypes DEF RowOk
<1>2. Tainted(NoTail(l)) \in LedgerType /\ Tainted(NoTail(l)).epoch = l.epoch
  BY <1>1, RowTypes
<1> QED  BY <1>2, RowTypes, RowsStayAccountable DEF RowOk

LEMMA SettleRowOk ==
    ASSUME Inv, NEW l, RowOk(l), NEW p \in Prompts, NEW s \in BOOLEAN, NEW c \in BOOLEAN,
           (c /\ s) => up[p] = "success",
           (c /\ ~s) => up[p] \in {"error", "interrupted"}
    PROVE  RowOk(Settle(l, p, s, c))
BY SettleType, SettleAccounts DEF RowOk

(* What a child row claims is what the host did. *)
LEMMA SettleFromChild ==
    ASSUME Inv, NEW l, RowOk(l), NEW p \in Prompts
    PROVE  RowOk(Settle(l, p, child[p] = "succeeded", HasCertificate(p)))
<1>1. (HasCertificate(p) /\ child[p] = "succeeded") => up[p] = "success"
  BY DEF Inv, LedgerInvariant, ChildTruth
<1>2. (HasCertificate(p) /\ ~(child[p] = "succeeded")) => up[p] \in {"error", "interrupted"}
  BY DEF Inv, LedgerInvariant, ChildTruth, HasCertificate
<1>3. HasCertificate(p) \in BOOLEAN /\ (child[p] = "succeeded") \in BOOLEAN
  BY DEF HasCertificate
<1> QED  BY <1>1, <1>2, <1>3, SettleRowOk

LEMMA SettleFromHistory ==
    ASSUME Inv, NEW l, RowOk(l), NEW p \in Prompts, History(p) # "absent"
    PROVE  RowOk(Settle(l, p, History(p) = "success", TRUE))
<1>1. up[p] \in {"success", "error", "interrupted"} /\ History(p) = up[p]
  BY DEF History, Finished
<1> QED  BY <1>1, SettleRowOk

(* Child rows that stay typed and true. *)
RowsTrue(c) == c \in [Prompts -> ChildStates] /\ ChildTruth'

LEMMA NoPromptTyped == NoPrompt \in 0 .. MaxPrompts
BY ConstantsAssumption DEF ConstantsAssumption, NoPrompt

LEMMA ReleaseStep ==
    ASSUME Inv, NEW l, RowOk(l), Release(l), Keep, RowsTrue(child')
    PROVE  Inv'
<1>1. EmptyLedger \in LedgerType /\ EmptyLedger.epoch = 0
  BY ConstantsAssumption DEF ConstantsAssumption, EmptyLedger, LedgerType, NoPrompt
<1>2. DispatcherTyped'
  <2>1. NoPrompt \in 0 .. MaxPrompts
    BY ConstantsAssumption DEF ConstantsAssumption, NoPrompt
  <2> QED  BY <1>1, <2>1 DEF Release, DispatcherTyped, Phases, RowOk
<1>3. WorldTyped'
  BY DEF Keep, hostVars, rowVars, RowsTrue, Inv, TypeOK, WorldTyped
<1>4. TypeOK'
  BY <1>2, <1>3 DEF TypeOK, DispatcherTyped, WorldTyped, Phases
<1>5. EpochBehind'
  BY <1>1 DEF Release, Keep, rowVars, RowOk, EpochBehind, Inv, TypeOK
<1>6. Fresh' /\ Named' /\ ChildTruth'
  BY DEF Release, Keep, hostVars, rowVars, RowsTrue, Fresh, Named, Inv, LedgerInvariant
<1>7. RowsAccount'
  BY DEF Release, Keep, hostVars, rowVars, RowOk, RowsAccount
<1> QED  BY <1>4, <1>5, <1>6, <1>7 DEF Inv, LedgerInvariant

LEMMA ProceedStep ==
    ASSUME Inv, NEW l, RowOk(l), NEW where \in {"plan", "awaitTail", "awaitOldKill"},
           NEW p \in 0 .. MaxPrompts, where # "plan" => p \in Prompts,
           Proceed(l, where, p), Keep, RowsTrue(child')
    PROVE  Inv'
<1>1. EmptyLedger \in LedgerType /\ EmptyLedger.epoch = 0
  BY ConstantsAssumption DEF ConstantsAssumption, EmptyLedger, LedgerType, NoPrompt
<1>2. DispatcherTyped'
  BY <1>1 DEF Proceed, DispatcherTyped, Phases, RowOk, Inv, TypeOK
<1>3. WorldTyped'
  BY DEF Keep, hostVars, rowVars, RowsTrue, Inv, TypeOK, WorldTyped
<1>4. TypeOK'
  BY <1>2, <1>3 DEF TypeOK, DispatcherTyped, WorldTyped, Phases
<1>5. EpochBehind'
  BY <1>1 DEF Proceed, Keep, rowVars, RowOk, EpochBehind, Inv, TypeOK
<1>6. Fresh' /\ Named' /\ ChildTruth'
  BY DEF Proceed, Keep, hostVars, rowVars, RowsTrue, Fresh, Named, Inv, LedgerInvariant
<1>7. RowsAccount'
  BY DEF Proceed, Keep, hostVars, rowVars, RowOk, RowsAccount
<1> QED  BY <1>4, <1>5, <1>6, <1>7 DEF Inv, LedgerInvariant

LEMMA SameRowsTrue == ASSUME Inv, UNCHANGED <<child, up>> PROVE RowsTrue(child')
BY DEF Inv, TypeOK, LedgerInvariant, RowsTrue, ChildTruth

LEMMA GateStep ==
    ASSUME Inv, NEW l, NEW s, RowOk(l), RowOk(s), Gate(l, s), Keep, UNCHANGED child
    PROVE  Inv'
<1>1. RowsTrue(child')
  BY SameRowsTrue DEF Keep, hostVars
<1>2. s.tail # NoPrompt => s.tail \in Prompts
  BY ConstantsAssumption DEF ConstantsAssumption, RowOk, LedgerType, NoPrompt, Prompts
<1>3. RowOk(Tainted(s))
  BY RowOkClosed
<1>4. s.tail # NoPrompt =>
        RowOk(Settle(l, s.tail, child[s.tail] = "succeeded", HasCertificate(s.tail)))
  BY <1>2, SettleFromChild
<1>5. NoPrompt \in 0 .. MaxPrompts /\ s.tail \in 0 .. MaxPrompts
  BY ConstantsAssumption DEF ConstantsAssumption, NoPrompt, RowOk, LedgerType
<1>6. \/ Release(l)
      \/ Proceed(l, "plan", NoPrompt)
      \/ Proceed(Tainted(s), "plan", NoPrompt)
      \/ /\ s.tail # NoPrompt
         /\ Proceed(Settle(l, s.tail, child[s.tail] = "succeeded", HasCertificate(s.tail)),
                    "plan", NoPrompt)
      \/ s.tail # NoPrompt /\ Proceed(l, "awaitTail", s.tail)
      \/ s.tail # NoPrompt /\ Proceed(l, "awaitOldKill", s.tail)
  BY DEF Gate
<1>7. CASE Release(l)
  BY <1>1, <1>7, ReleaseStep
<1>8. ASSUME NEW m, RowOk(m), Proceed(m, "plan", NoPrompt) PROVE Inv'
  BY <1>1, <1>5, <1>8, ProceedStep
<1>9. ASSUME NEW where \in {"awaitTail", "awaitOldKill"}, s.tail # NoPrompt,
             Proceed(l, where, s.tail)
      PROVE  Inv'
  BY <1>1, <1>2, <1>5, <1>9, ProceedStep
<1> QED  BY <1>3, <1>4, <1>6, <1>7, <1>8, <1>9

LEMMA ConcludeStep ==
    ASSUME Inv, pc \in {"history", "queue", "confirm"}, NEW s \in BOOLEAN, NEW c \in BOOLEAN,
           (c /\ s) => up[snap.tail] = "success",
           (c /\ ~s) => up[snap.tail] \in {"error", "interrupted"},
           Conclude(s, c), Keep, UNCHANGED child
    PROVE  Inv'
<1>1. snap.tail \in Prompts
  BY DEF Inv, LedgerInvariant, Named
<1>2. RowOk(Tainted(NoTail(snap)))
  BY CopiedRowOk, RowOkClosed
<1>3. RowOk(Settle(ledger, snap.tail, s, c))
  BY <1>1, StoredRowOk, SettleRowOk
<1> QED  BY <1>2, <1>3, GateStep DEF Conclude

(* A claim: the row moves to the intent of the next prompt, and the copy   *)
(* to the row before it.                                                   *)
LEMMA ClaimStep ==
    ASSUME Inv, NEW k \in {"ray_unit", "shutdown"}, NEW w \in Keys \cup {Standard},
           NEW l, NEW rows, RowOk(l), NEW m,
           \/ k = "ray_unit" /\ w \in Keys /\ Plannable(l) /\ ~NeedsKill(l, w)
                             /\ m = AfterSegment(l, next, w)
           \/ k = "shutdown" /\ m = AfterControl(l, next),
           rows \in [Prompts -> ChildStates],
           \A p \in Prompts :
              /\ rows[p] \in {"succeeded", "verifying"} => up[p] = "success"
              /\ rows[p] = "failed" => up[p] \in {"error", "interrupted"}
              /\ rows[p] = "interrupted" => up[p] = "interrupted",
           Claim(k, w, l, m, rows), mode' \in {mode, "ray"}
    PROVE  Inv'
<1>1. next \in Prompts /\ next' = next + 1 /\ next \in Nat
  BY ConstantsAssumption DEF ConstantsAssumption, Claim, Inv, TypeOK, Prompts
<1>2. up[next] = "unsent" /\ kind[next] = "none"
  BY <1>1 DEF Inv, LedgerInvariant, Fresh
<1>3. m \in LedgerType /\ m.epoch <= next
  <2>1. l \in LedgerType /\ l.epoch < next /\ l.epoch \in Nat
    BY DEF RowOk, LedgerType
  <2>2. CASE w \in Keys /\ m = AfterSegment(l, next, w)
    BY <1>1, <2>1, <2>2, SegmentType
  <2>3. CASE m = AfterControl(l, next)
    BY <1>1, <2>1, <2>3, ControlType
  <2> QED  BY <2>2, <2>3
<1>4. /\ up' = Claimed(up, next, "flight")
      /\ kind' = Claimed(kind, next, k)
      /\ ns' = Claimed(ns, next, [epoch |-> m.epoch, key |-> m.current])
  BY DEF Claim, Claimed
<1>5. /\ up \in [Prompts -> HostStates] /\ kind \in [Prompts -> Kinds]
      /\ ns \in [Prompts -> [epoch : 0 .. MaxPrompts, key : Keys \cup {None}]]
  BY DEF Inv, TypeOK
<1>6. Accounts(m, Prompts, up', kind', ns')
  BY <1>1, <1>2, <1>4, <1>5, SegmentAccounts, ControlAccounts DEF RowOk
<1>7. Accounts(l, Prompts \ {next}, up', kind', ns')
  BY <1>1, <1>2, <1>4, <1>5, ClaimKeepsOthers DEF RowOk
<1>8. DispatcherTyped'
  <2>1. next \in 0 .. MaxPrompts
    BY <1>1, ConstantsAssumption DEF ConstantsAssumption, Prompts
  <2> QED  BY <1>3, <2>1 DEF Claim, DispatcherTyped, Phases, RowOk, Inv, TypeOK
<1>9. WorldTyped'
  <2>1. up' \in [Prompts -> HostStates]
    BY <1>4, <1>5 DEF Claimed, HostStates, InQueue
  <2>2. kind' \in [Prompts -> Kinds]
    BY <1>4, <1>5 DEF Claimed, Kinds
  <2>3. ns' \in [Prompts -> [epoch : 0 .. MaxPrompts, key : Keys \cup {None}]]
    BY <1>3, <1>4, <1>5 DEF Claimed, LedgerType
  <2>4. child' \in [Prompts -> ChildStates]
    BY DEF Claim, ChildStates, Nonterminal
  <2>5. next' \in 1 .. MaxPrompts + 1
    BY <1>1, ConstantsAssumption DEF ConstantsAssumption, Prompts
  <2> QED  BY <2>1, <2>2, <2>3, <2>4, <2>5 DEF Claim, WorldTyped, Inv, TypeOK
<1>10. TypeOK'
  BY <1>8, <1>9 DEF TypeOK, DispatcherTyped, WorldTyped, Phases
<1>11. EpochBehind'
  <2>1. l.epoch \in Nat /\ m.epoch \in Nat /\ l.epoch < next
    BY <1>3 DEF RowOk, LedgerType
  <2> QED  BY <1>1, <1>3, <2>1 DEF Claim, EpochBehind
<1>12. Fresh'
  <2> SUFFICES ASSUME NEW p \in Prompts, p >= next + 1
               PROVE  kind'[p] = "none" /\ up'[p] = "unsent"
    BY <1>1 DEF Fresh
  <2>1. p >= next /\ p # next
    BY <1>1 DEF Prompts
  <2> QED  BY <2>1, <1>4 DEF Claimed, Inv, LedgerInvariant, Fresh
<1>13. Named'
  BY <1>1, ConstantsAssumption DEF ConstantsAssumption, Claim, Named
<1>14. ChildTruth'
  <2> SUFFICES ASSUME NEW p \in Prompts
               PROVE  /\ child'[p] \in {"succeeded", "verifying"} => up'[p] = "success"
                      /\ child'[p] = "failed" => up'[p] \in {"error", "interrupted"}
                      /\ child'[p] = "interrupted" => up'[p] = "interrupted"
    BY DEF ChildTruth
  <2>1. CASE p = next
    BY <2>1, <1>1 DEF Claim
  <2>2. CASE p # next
    BY <2>2, <1>4, <1>5 DEF Claim, Claimed
  <2> QED  BY <2>1, <2>2
<1>15. RowsAccount'
  BY <1>6, <1>7 DEF Claim, RowsAccount
<1> QED  BY <1>10, <1>11, <1>12, <1>13, <1>14, <1>15 DEF Inv, LedgerInvariant

(* A writer that does not hold the endpoint lock. *)
LEMMA OutsideStep ==
    ASSUME Inv, NEW l, RowOk(l), ledger' = l, RowsTrue(child'), acked' \subseteq Prompts,
           UNCHANGED <<hostVars, rowVars, pc, mode, want, snap, ambiguous, unit>>,
           stop' \in BOOLEAN
    PROVE  Inv'
<1>1. DispatcherTyped'
  BY DEF DispatcherTyped, Phases, RowOk, Inv, TypeOK
<1>2. WorldTyped'
  BY DEF hostVars, rowVars, RowsTrue, Inv, TypeOK, WorldTyped
<1>3. TypeOK'
  BY <1>1, <1>2 DEF TypeOK, DispatcherTyped, WorldTyped, Phases
<1>4. EpochBehind' /\ Fresh' /\ Named' /\ ChildTruth'
  BY DEF hostVars, rowVars, RowOk, RowsTrue, EpochBehind, Fresh, Named, Inv, LedgerInvariant
<1>5. RowsAccount'
  BY DEF hostVars, rowVars, RowOk, RowsAccount, Inv, LedgerInvariant
<1> QED  BY <1>3, <1>4, <1>5 DEF Inv, LedgerInvariant

(* The host moves: results and refusals only accumulate. *)
LEMMA HostStepKeeps ==
    ASSUME Inv, HostProgress(up, up'), up' \in [Prompts -> HostStates],
           \A p \in Prompts : up[p] = "unsent" => up'[p] = "unsent",
           \A p \in Prompts : up[p] = "interrupted" => up'[p] = "interrupted",
           UNCHANGED <<ledger, child, kind, ns, next, dispatcherVars>>
    PROVE  EpochBehind' /\ Fresh' /\ Named' /\ ChildTruth' /\ RowsAccount'
<1>1. EpochBehind' /\ Named'
  BY DEF dispatcherVars, EpochBehind, Named, Inv, LedgerInvariant
<1>2. Fresh'
  BY DEF Fresh, Inv, LedgerInvariant
<1>3. ChildTruth'
  <2> SUFFICES ASSUME NEW p \in Prompts
               PROVE  /\ child[p] \in {"succeeded", "verifying"} => up'[p] = "success"
                      /\ child[p] = "failed" => up'[p] \in {"error", "interrupted"}
                      /\ child[p] = "interrupted" => up'[p] = "interrupted"
    BY DEF ChildTruth
  <2> QED  BY DEF HostProgress, ChildTruth, Inv, LedgerInvariant
<1>4. RowsAccount'
  <2>1. ledger \in LedgerType /\ snap \in LedgerType
    BY DEF Inv, TypeOK
  <2>2. Accounts(ledger, Prompts, up', kind, ns)
    BY <2>1, HostKeepsAccounts DEF Inv, LedgerInvariant, RowsAccount
  <2>3. pc \in {"stats", "history", "queue", "confirm", "preflight"} =>
          Accounts(snap, Prompts, up', kind, ns)
    BY <2>1, HostKeepsAccounts DEF Inv, LedgerInvariant, RowsAccount
  <2>4. pc = "post" => Accounts(snap, Prompts \ {unit}, up', kind, ns)
    BY <2>1, HostKeepsAccounts DEF Inv, LedgerInvariant, RowsAccount
  <2> QED  BY <2>2, <2>3, <2>4 DEF RowsAccount, dispatcherVars
<1> QED  BY <1>1, <1>2, <1>3, <1>4

----------------------------------------------------------------------------
(* The steps. *)

LEMMA InitStep == Init => Inv
<1> SUFFICES ASSUME Init PROVE Inv
  OBVIOUS
<1>1. NoPrompt \in 0 .. MaxPrompts /\ 0 \in 0 .. MaxPrompts /\ 1 \in 1 .. MaxPrompts + 1
      /\ 0 \in 0 .. MaxBoots
  BY ConstantsAssumption DEF ConstantsAssumption, NoPrompt
<1>2. EmptyLedger \in LedgerType /\ EmptyLedger.epoch = 0
  BY <1>1 DEF EmptyLedger, LedgerType
<1>3. DispatcherTyped
  BY <1>1, <1>2 DEF Init, DispatcherTyped, Phases
<1>4. WorldTyped
  BY <1>1 DEF Init, ComfyInit, WorldTyped, HostStates, ChildStates, Kinds
<1>5. EpochBehind /\ Fresh /\ Named /\ ChildTruth
  BY <1>2 DEF Init, ComfyInit, EpochBehind, Fresh, Named, ChildTruth
<1>6. RowsAccount
  BY DEF Init, EmptyLedger, RowsAccount, Accounts, NoPrompt
<1> QED  BY <1>3, <1>4, <1>5, <1>6, TypeHalves DEF Inv, LedgerInvariant

(* Taking the lock and refreshing the tail. *)
LEMMA AcquireStep ==
    ASSUME Inv, NEW m \in {"standard", "mixed"}, Acquire(m) PROVE Inv'
<1>1. EmptyLedger \in LedgerType /\ EmptyLedger.epoch = 0
  BY ConstantsAssumption DEF ConstantsAssumption, EmptyLedger, LedgerType, NoPrompt
<1>2. DispatcherTyped'
  BY <1>1 DEF Acquire, Inv, TypeOK, DispatcherTyped, Phases
<1>3. WorldTyped'
  BY DEF Acquire, Keep, hostVars, rowVars, Inv, TypeOK, WorldTyped
<1>4. TypeOK'
  BY <1>2, <1>3 DEF TypeOK, DispatcherTyped, WorldTyped, Phases
<1>5. EpochBehind' /\ Fresh' /\ Named' /\ ChildTruth'
  BY <1>1 DEF Acquire, Keep, hostVars, rowVars, EpochBehind, Fresh, Named, ChildTruth,
              Inv, TypeOK, LedgerInvariant
<1>6. RowsAccount'
  BY DEF Acquire, Keep, hostVars, rowVars, RowsAccount, Inv, LedgerInvariant
<1> QED  BY <1>4, <1>5, <1>6 DEF Inv, LedgerInvariant

(* Only pc and ambiguous move between two reads of the refresh. *)
LEMMA RefreshOn ==
    ASSUME Inv, snap.tail \in Prompts,
           pc \in {"stats", "history", "queue"}, pc' \in {"history", "queue", "confirm"},
           ambiguous' \in BOOLEAN,
           UNCHANGED <<ledger, child, mode, want, snap, unit, stop>>, Keep
    PROVE  Inv'
<1>1. DispatcherTyped'
  BY DEF Inv, TypeOK, DispatcherTyped, Phases
<1>2. WorldTyped'
  BY DEF Keep, hostVars, rowVars, Inv, TypeOK, WorldTyped
<1>3. TypeOK'
  BY <1>1, <1>2 DEF TypeOK, DispatcherTyped, WorldTyped, Phases
<1>4. EpochBehind' /\ Fresh' /\ Named' /\ ChildTruth' /\ RowsAccount'
  BY DEF Keep, hostVars, rowVars, EpochBehind, Fresh, Named, ChildTruth, RowsAccount,
         Inv, LedgerInvariant
<1> QED  BY <1>3, <1>4 DEF Inv, LedgerInvariant

LEMMA CheckRecoveryStep == ASSUME Inv, CheckRecovery PROVE Inv'
<1>1. RowOk(ledger) /\ RowOk(snap) /\ RowOk(Tainted(snap))
  BY StoredRowOk, CopiedRowOk, RowOkClosed DEF CheckRecovery
<1>2. Keep /\ UNCHANGED child /\ RowsTrue(child')
  BY SameRowsTrue DEF CheckRecovery, Keep, hostVars
<1>3. snap.tail = NoPrompt \/ snap.tail \in Prompts
  BY ConstantsAssumption DEF ConstantsAssumption, Inv, TypeOK, LedgerType, NoPrompt, Prompts
<1>4. \/ Release(ledger)
      \/ Gate(ledger, snap)
      \/ Gate(Tainted(snap), Tainted(snap))
      \/ /\ snap.tail # NoPrompt
         /\ pc' = "history"
         /\ ambiguous' = (child[snap.tail] \in Nonterminal /\ ProcessOwned(snap.tail))
         /\ UNCHANGED <<ledger, mode, want, snap, unit, stop>>
  BY DEF CheckRecovery, Inv, TypeOK
<1>5. CASE Release(ledger)
  BY <1>1, <1>2, <1>5, ReleaseStep
<1>6. CASE Gate(ledger, snap)
  BY <1>1, <1>2, <1>6, GateStep
<1>7. CASE Gate(Tainted(snap), Tainted(snap))
  BY <1>1, <1>2, <1>7, GateStep
<1>8. CASE /\ snap.tail # NoPrompt
           /\ pc' = "history"
           /\ ambiguous' = (child[snap.tail] \in Nonterminal /\ ProcessOwned(snap.tail))
           /\ UNCHANGED <<ledger, mode, want, snap, unit, stop>>
  BY <1>2, <1>3, <1>8, RefreshOn DEF CheckRecovery, ProcessOwned
<1> QED  BY <1>4, <1>5, <1>6, <1>7, <1>8

LEMMA HistoryIsExact ==
    ASSUME NEW p, History(p) # "absent"
    PROVE  /\ History(p) = "success" => up[p] = "success"
           /\ History(p) # "success" => up[p] \in {"error", "interrupted"}
BY DEF History, Finished

LEMMA RefreshSteps ==
    ASSUME Inv, RefreshHistory \/ RefreshQueue \/ RefreshConfirmation PROVE Inv'
<1>1. Keep /\ UNCHANGED child
  BY DEF RefreshHistory, RefreshQueue, RefreshConfirmation
<1>2. pc \in {"history", "queue", "confirm"} /\ snap.tail \in Prompts
  BY DEF RefreshHistory, RefreshQueue, RefreshConfirmation, Inv, LedgerInvariant, Named
<1>3. RowOk(ledger) /\ RowOk(Tainted(snap))
  BY <1>2, StoredRowOk, CopiedRowOk, RowOkClosed
<1>4. ASSUME History(snap.tail) # "absent", Conclude(History(snap.tail) = "success", TRUE)
      PROVE  Inv'
  BY <1>1, <1>2, <1>4, HistoryIsExact, ConcludeStep
<1>5. CASE RefreshHistory
  <2>1. CASE History(snap.tail) # "absent"
    BY <1>4, <1>5, <2>1 DEF RefreshHistory
  <2>2. CASE History(snap.tail) = "absent"
    BY <1>1, <1>2, <1>5, <2>2, RefreshOn DEF RefreshHistory, Inv, TypeOK
  <2> QED  BY <2>1, <2>2
<1>6. CASE RefreshQueue
  <2>1. CASE Visible(snap.tail)
    BY <1>1, <1>3, <1>6, <2>1, GateStep DEF RefreshQueue
  <2>2. CASE ~Visible(snap.tail)
    BY <1>1, <1>2, <1>6, <2>2, RefreshOn DEF RefreshQueue, Inv, TypeOK
  <2> QED  BY <2>1, <2>2
<1>7. CASE RefreshConfirmation
  <2>1. CASE History(snap.tail) # "absent"
    BY <1>4, <1>7, <2>1 DEF RefreshConfirmation
  <2>2. CASE History(snap.tail) = "absent" /\ ambiguous
    BY <1>1, <1>3, <1>7, <2>2, GateStep DEF RefreshConfirmation
  <2>3. CASE History(snap.tail) = "absent" /\ ~ambiguous
    <3>1. Conclude(FALSE, FALSE)
      BY <1>7, <2>3 DEF RefreshConfirmation
    <3> QED  BY <1>1, <1>2, <3>1, ConcludeStep
  <2> QED  BY <2>1, <2>2, <2>3
<1> QED  BY <1>5, <1>6, <1>7

LEMMA AwaitOlderSteps == ASSUME Inv, AwaitTail \/ AwaitOldKill PROVE Inv'
<1>1. Keep /\ UNCHANGED child /\ RowsTrue(child')
  BY SameRowsTrue DEF AwaitTail, AwaitOldKill, Keep, hostVars
<1>2. unit \in Prompts /\ RowOk(ledger) /\ NoPrompt \in 0 .. MaxPrompts
  BY NoPromptTyped, StoredRowOk DEF AwaitTail, AwaitOldKill, Inv, LedgerInvariant, Named
<1>3. \/ Release(ledger)
      \/ Proceed(Settle(ledger, unit, child[unit] = "succeeded", HasCertificate(unit)),
                 "plan", NoPrompt)
      \/ History(unit) = "success" /\ Proceed(Settle(ledger, unit, TRUE, TRUE), "plan", NoPrompt)
  BY DEF AwaitTail, AwaitOldKill
<1>4. RowOk(Settle(ledger, unit, child[unit] = "succeeded", HasCertificate(unit)))
  BY <1>2, SettleFromChild
<1>5. History(unit) = "success" => RowOk(Settle(ledger, unit, TRUE, TRUE))
  BY <1>2, HistoryIsExact, SettleRowOk
<1>6. CASE Release(ledger)
  BY <1>1, <1>2, <1>6, ReleaseStep
<1>7. ASSUME NEW m, RowOk(m), Proceed(m, "plan", NoPrompt) PROVE Inv'
  BY <1>1, <1>2, <1>7, ProceedStep
<1> QED  BY <1>3, <1>4, <1>5, <1>6, <1>7

LEMMA PlanSteps ==
    ASSUME Inv, NEW w \in Keys \cup {Standard}, PlanSegment(w) \/ PlanKill(w)
    PROVE  Inv'
<1>1. RowOk(ledger)
  BY StoredRowOk
<1>2. CASE PlanSegment(w)
  <2>1. w \in Keys
    BY <1>2 DEF PlanSegment
  <2>2. child \in [Prompts -> ChildStates] /\ ChildTruth
    BY DEF Inv, TypeOK, LedgerInvariant
  <2>3. /\ Plannable(ledger) /\ ~NeedsKill(ledger, w) /\ mode' = "ray"
        /\ Claim("ray_unit", w, ledger, AfterSegment(ledger, next, w), child)
    BY <1>2 DEF PlanSegment
  <2> QED  BY <1>1, <2>1, <2>2, <2>3, ClaimStep DEF ChildTruth
<1>3. CASE PlanKill(w)
  <2>1. w # None /\ Keep /\ UNCHANGED child
    BY <1>3, ConstantsAssumption DEF ConstantsAssumption, PlanKill
  <2>2. DispatcherTyped'
    BY <1>3 DEF PlanKill, Inv, TypeOK, DispatcherTyped, Phases
  <2>3. WorldTyped'
    BY <2>1 DEF Keep, hostVars, rowVars, Inv, TypeOK, WorldTyped
  <2>4. TypeOK'
    BY <2>2, <2>3 DEF TypeOK, DispatcherTyped, WorldTyped, Phases
  <2>5. EpochBehind' /\ Fresh' /\ Named' /\ ChildTruth' /\ RowsAccount'
    BY <1>3, <2>1 DEF PlanKill, Keep, hostVars, rowVars, EpochBehind, Fresh, Named, ChildTruth,
           RowsAccount, Inv, LedgerInvariant
  <2> QED  BY <2>4, <2>5 DEF Inv, LedgerInvariant
<1> QED  BY <1>2, <1>3

LEMMA ClaimKillStep == ASSUME Inv, ClaimKill PROVE Inv'
<1>1. RowOk(snap) /\ want \in Keys \cup {Standard}
  BY CopiedRowOk DEF ClaimKill, Inv, TypeOK, LedgerInvariant, Named
<1>2. child \in [Prompts -> ChildStates] /\ ChildTruth
  BY DEF Inv, TypeOK, LedgerInvariant
<1>3. Claim("shutdown", want, snap, AfterControl(snap, next), child) /\ mode' = mode
  BY DEF ClaimKill
<1> QED  BY <1>1, <1>2, <1>3, ClaimStep DEF ChildTruth

(* The steps that end the request and leave the rows alone. *)
LEMMA EndSteps ==
    ASSUME Inv, EndPlan \/ AbandonKill \/ Quiesce
    PROVE  Inv'
<1>1. Keep /\ Release(ledger) /\ RowsTrue(child')
  BY SameRowsTrue DEF EndPlan, AbandonKill, Quiesce, Keep, hostVars
<1> QED  BY <1>1, StoredRowOk, ReleaseStep

LEMMA RowMoves ==
    ASSUME Inv, NEW p \in Prompts, NEW x \in ChildStates,
           child' = [child EXCEPT ![p] = x], up' = up,
           x \in {"succeeded", "verifying"} => up[p] = "success",
           x = "failed" => up[p] \in {"error", "interrupted"},
           x = "interrupted" => up[p] = "interrupted"
    PROVE  RowsTrue(child')
<1>1. child' \in [Prompts -> ChildStates]
  BY DEF Inv, TypeOK
<1>2. ChildTruth'
  BY DEF Inv, TypeOK, LedgerInvariant, ChildTruth
<1> QED  BY <1>1, <1>2 DEF RowsTrue

LEMMA PostReturnsStep == ASSUME Inv, PostReturns PROVE Inv'
<1>1. unit \in Prompts /\ Keep /\ up' = up
  BY DEF PostReturns, Keep, hostVars, Inv, LedgerInvariant, Named
<1>2. RowsTrue(child')
  BY <1>1, RowMoves DEF PostReturns, ChildStates, Nonterminal, Certifiable
<1>3. CASE Release(ledger)
  BY <1>1, <1>2, <1>3, StoredRowOk, ReleaseStep
<1>4. CASE /\ pc' = IF kind[unit] = "shutdown" THEN "awaitKill" ELSE "awaitSegment"
           /\ UNCHANGED <<ledger, mode, want, snap, ambiguous, unit, stop>>
  <2>1. DispatcherTyped'
    BY <1>4 DEF Inv, TypeOK, DispatcherTyped, Phases
  <2>2. WorldTyped'
    BY <1>1, <1>2 DEF Keep, hostVars, rowVars, RowsTrue, Inv, TypeOK, WorldTyped
  <2>3. TypeOK'
    BY <2>1, <2>2 DEF TypeOK, DispatcherTyped, WorldTyped, Phases
  <2>4. EpochBehind' /\ Fresh' /\ Named' /\ ChildTruth' /\ RowsAccount'
    BY <1>1, <1>2, <1>4 DEF PostReturns, Keep, hostVars, rowVars, RowsTrue, EpochBehind, Fresh,
           Named, RowsAccount, Inv, LedgerInvariant
  <2> QED  BY <2>3, <2>4 DEF Inv, LedgerInvariant
<1> QED  BY <1>3, <1>4 DEF PostReturns

(* A refused prompt was never issued, so the restored row accounts for it. *)
LEMMA PostRejectedStep == ASSUME Inv, PostRejected PROVE Inv'
<1>1. unit \in Prompts /\ Keep /\ up' = up
  BY DEF PostRejected, Keep, hostVars, Inv, LedgerInvariant, Named
<1>2. RowsTrue(child')
  BY <1>1, RowMoves
  DEF PostRejected, ChildStates, Nonterminal, Certifiable, Terminal
<1>3. RowOk(snap)
  <2>1. snap \in LedgerType /\ snap.epoch < next
    BY DEF Inv, TypeOK, LedgerInvariant, EpochBehind
  <2>2. Accounts(snap, Prompts \ {unit}, up, kind, ns) /\ up[unit] = "refused"
    BY DEF PostRejected, Inv, LedgerInvariant, RowsAccount
  <2>3. Accounts(snap, Prompts, up, kind, ns)
    BY <2>2 DEF Accounts
  <2> QED  BY <2>1, <2>3 DEF RowOk
<1> QED  BY <1>1, <1>2, <1>3, StoredRowOk, ReleaseStep DEF PostRejected

LEMMA HandOverSteps == ASSUME Inv, PostFailed \/ AwaitFailed PROVE Inv'
<1>1. unit \in Prompts /\ Keep /\ up' = up /\ HandToRecovery /\ Release(ledger)
  BY DEF PostFailed, AwaitFailed, Keep, hostVars, Inv, LedgerInvariant, Named
<1>2. RowsTrue(child')
  <2>1. PICK x \in {"recovery", child[unit]} : child' = [child EXCEPT ![unit] = x]
    BY <1>1 DEF HandToRecovery
  <2>2. x \in ChildStates
    BY <1>1, <2>1 DEF Inv, TypeOK, ChildStates, Nonterminal, Certifiable
  <2> QED  BY <1>1, <2>1, <2>2, RowMoves DEF Inv, LedgerInvariant, ChildTruth
<1> QED  BY <1>1, <1>2, StoredRowOk, ReleaseStep

LEMMA AwaitSegmentSteps == ASSUME Inv, SegmentDone \/ SegmentStopped PROVE Inv'
<1>1. unit \in Prompts /\ Keep /\ RowsTrue(child') /\ RowOk(ledger) /\ NoPrompt \in 0 .. MaxPrompts
  <2>1. unit \in Prompts /\ Keep /\ UNCHANGED <<child, up>>
    BY DEF SegmentDone, SegmentStopped, Keep, hostVars, Inv, LedgerInvariant, Named
  <2> QED  BY <2>1, NoPromptTyped, SameRowsTrue, StoredRowOk
<1>2. RowOk(Settle(ledger, unit, child[unit] = "succeeded", HasCertificate(unit)))
  BY <1>1, SettleFromChild
<1>3. RowOk(Settle(ledger, unit, FALSE, FALSE))
  BY <1>1, SettleRowOk
<1>4. ASSUME NEW l, RowOk(l), Release(l) PROVE Inv'
  BY <1>1, <1>4, ReleaseStep
<1>5. ASSUME NEW l, RowOk(l), Proceed(l, "plan", NoPrompt) PROVE Inv'
  BY <1>1, <1>5, ProceedStep
<1> QED  BY <1>2, <1>3, <1>4, <1>5 DEF SegmentDone, SegmentStopped

LEMMA KillDoneStep == ASSUME Inv, KillDone PROVE Inv'
<1> DEFINE l == Settle(ledger, unit, TRUE, TRUE)
           done == [child EXCEPT ![unit] = IF @ \in Certifiable THEN "succeeded" ELSE @]
<1>1. unit \in Prompts /\ up[unit] = "success" /\ NoPrompt \in 0 .. MaxPrompts
      /\ want \in Keys \cup {Standard}
  <2>1. unit \in Prompts /\ want \in Keys \cup {Standard}
    BY DEF KillDone, Inv, TypeOK, LedgerInvariant, Named
  <2> QED  BY <2>1, NoPromptTyped, HistoryIsExact DEF KillDone
<1>2. RowOk(l)
  BY <1>1, StoredRowOk, SettleRowOk
<1>3. done \in [Prompts -> ChildStates]
  BY DEF Inv, TypeOK, ChildStates, Terminal
<1>4. \A p \in Prompts :
         /\ done[p] \in {"succeeded", "verifying"} => up[p] = "success"
         /\ done[p] = "failed" => up[p] \in {"error", "interrupted"}
         /\ done[p] = "interrupted" => up[p] = "interrupted"
  BY <1>1 DEF Inv, TypeOK, LedgerInvariant, ChildTruth
<1> HIDE DEF l, done
<1>5. ASSUME child' = done, Keep PROVE RowsTrue(child')
  BY <1>3, <1>4, <1>5 DEF RowsTrue, ChildTruth, Keep, hostVars
<1>6. \/ child' = done /\ Release(l) /\ Keep
      \/ child' = done /\ Proceed(l, "plan", NoPrompt) /\ Keep
      \/ /\ CleanContinuation(l, snap) /\ want \in Keys /\ mode' = mode
         /\ Claim("ray_unit", want, l, AfterSegment(l, next, want), done)
  BY <1>1, ConstantsAssumption DEF ConstantsAssumption, KillDone, l, done, Inv, TypeOK
<1>7. CASE child' = done /\ Release(l) /\ Keep
  BY <1>2, <1>5, <1>7, ReleaseStep
<1>8. CASE child' = done /\ Proceed(l, "plan", NoPrompt) /\ Keep
  BY <1>1, <1>2, <1>5, <1>8, ProceedStep
<1>9. CASE /\ CleanContinuation(l, snap) /\ want \in Keys /\ mode' = mode
           /\ Claim("ray_unit", want, l, AfterSegment(l, next, want), done)
  <2>1. Plannable(l) /\ ~NeedsKill(l, want)
    BY <1>9 DEF CleanContinuation, Plannable, SettledFrontier, NeedsKill
  <2> QED  BY <1>2, <1>3, <1>4, <1>9, <2>1, ClaimStep
<1> QED  BY <1>6, <1>7, <1>8, <1>9

LEMMA KillEndSteps == ASSUME Inv, KillFailed \/ KillStopped PROVE Inv'
<1>1. unit \in Prompts /\ Keep /\ up' = up /\ RowOk(ledger)
  BY StoredRowOk DEF KillFailed, KillStopped, Keep, hostVars, Inv, LedgerInvariant, Named
<1>2. CASE KillStopped
  <2>1. RowsTrue(child') /\ RowOk(Settle(ledger, unit, FALSE, FALSE))
    BY <1>1, <1>2, SameRowsTrue, SettleRowOk DEF KillStopped
  <2> QED  BY <1>1, <1>2, <2>1, ReleaseStep DEF KillStopped
<1>3. CASE KillFailed
  <2>1. up[unit] \in {"error", "interrupted"}
    BY <1>3, HistoryIsExact DEF KillFailed
  <2>2. PICK x \in {"failed", child[unit]} : child' = [child EXCEPT ![unit] = x]
    BY <1>3 DEF KillFailed, CertifiedChild
  <2>3. x \in ChildStates
    BY <1>1 DEF Inv, TypeOK, ChildStates, Terminal
  <2>4. RowsTrue(child')
    BY <1>1, <2>1, <2>2, <2>3, RowMoves DEF Inv, LedgerInvariant, ChildTruth
  <2>5. RowOk(Settle(ledger, unit, FALSE, TRUE))
    BY <1>1, <2>1, SettleRowOk
  <2> QED  BY <1>1, <1>3, <2>4, <2>5, ReleaseStep DEF KillFailed
<1> QED  BY <1>2, <1>3

(* The actors that do not hold the lock. *)
LEMMA OutsideRows ==
    ASSUME Inv, NEW p \in Prompts,
           ProgressEvent(p) \/ Certify(p) \/ Observe(p) \/ SyncSettle(p)
    PROVE  Inv'
<1>1. UNCHANGED <<hostVars, rowVars, acked, dispatcherVars>>
  BY DEF ProgressEvent, Certify, Observe, SyncSettle
<1>2. RowOk(ledger) /\ up' = up /\ acked' \subseteq Prompts /\ stop' \in BOOLEAN
  BY <1>1, StoredRowOk DEF hostVars, dispatcherVars, Inv, TypeOK
<1>3. ASSUME NEW l, RowOk(l), ledger' = l, RowsTrue(child') PROVE Inv'
  BY <1>1, <1>2, <1>3, OutsideStep DEF dispatcherVars
<1>4. CASE ProgressEvent(p)
  <2>1. RowsTrue(child')
    BY <1>2, <1>4, RowMoves DEF ProgressEvent, ChildStates, Nonterminal, Certifiable
  <2> QED  BY <1>2, <1>3, <1>4, <2>1 DEF ProgressEvent
<1>5. CASE Certify(p)
  <2>1. History(p) # "absent" /\ ledger' = Settle(ledger, p, History(p) = "success", TRUE)
    BY <1>5 DEF Certify
  <2>2. RowOk(Settle(ledger, p, History(p) = "success", TRUE))
    BY <1>2, <2>1, SettleFromHistory
  <2>3. PICK x \in ChildStates :
           /\ child' = [child EXCEPT ![p] = x]
           /\ x \in {"succeeded", "verifying"} => History(p) = "success"
           /\ x = "failed" => History(p) = "error"
           /\ x = "interrupted" => History(p) = "interrupted"
    BY <1>5, <2>1 DEF Certify, History, Finished, ChildStates, Nonterminal, Terminal
  <2>4. RowsTrue(child')
    BY <1>2, <2>1, <2>3, RowMoves DEF History, Finished
  <2> QED  BY <1>3, <2>1, <2>2, <2>4
<1>6. CASE Observe(p)
  <2>1. up[p] = "success"
    BY <1>6 DEF Observe, Inv, LedgerInvariant, ChildTruth
  <2>2. PICK x \in {"succeeded", "artifact"} : child' = [child EXCEPT ![p] = x]
    BY <1>6 DEF Observe
  <2>3. RowsTrue(child')
    BY <1>2, <2>1, <2>2, RowMoves DEF ChildStates, Terminal
  <2> QED  BY <1>2, <1>3, <1>6, <2>3 DEF Observe
<1>7. CASE SyncSettle(p)
  <2>1. RowsTrue(child')
    BY <1>2, <1>7, SameRowsTrue DEF SyncSettle
  <2>2. RowOk(Settle(ledger, p, child[p] = "succeeded", HasCertificate(p)))
    BY <1>2, SettleFromChild
  <2> QED  BY <1>3, <1>7, <2>1, <2>2 DEF SyncSettle
<1> QED  BY <1>4, <1>5, <1>6, <1>7

LEMMA CancelRows ==
    ASSUME Inv, NEW p \in Prompts,
           CancelOther(p) \/ CommitCancel(p) \/ Delete(p) \/ ConfirmRestart(p)
    PROVE  Inv'
<1>1. UNCHANGED <<hostVars, rowVars, dispatcherVars>> /\ acked' \subseteq Prompts
  BY DEF CancelOther, CommitCancel, Delete, ConfirmRestart, Inv, TypeOK
<1>2. RowOk(ledger) /\ RowOk(Cleanup(ledger, p)) /\ up' = up /\ stop' \in BOOLEAN
  BY <1>1, StoredRowOk, RowOkClosed DEF hostVars, dispatcherVars, Inv, TypeOK
<1>3. ledger' \in {ledger, Cleanup(ledger, p)}
  BY DEF CancelOther, CommitCancel, Delete, ConfirmRestart
<1>4. RowsTrue(child')
  <2>1. \/ child' = child
        \/ \E x \in {"cancelling", "recovery", "frozen", "cancelled", "deleted"} : child' = [child EXCEPT ![p] = x]
    BY DEF CancelOther, CommitCancel, Delete, ConfirmRestart
  <2>2. {"cancelling", "recovery", "frozen", "cancelled", "deleted"} \subseteq ChildStates
    BY DEF ChildStates, Nonterminal, Certifiable, Terminal
  <2> QED  BY <1>2, <2>1, <2>2, SameRowsTrue, RowMoves
<1> QED  BY <1>1, <1>2, <1>3, <1>4, OutsideStep DEF dispatcherVars

LEMMA UserCancelStep == ASSUME Inv, UserCancel PROVE Inv'
<1>1. RowsTrue(child')
  <2>1. up' = up /\ UNCHANGED hostVars
    BY DEF UserCancel, hostVars
  <2>2. CASE child' = child
    BY <2>1, <2>2, SameRowsTrue
  <2>3. CASE unit # NoPrompt /\ child' # child
    <3>1. unit \in Prompts
      BY <2>3, ConstantsAssumption DEF ConstantsAssumption, Inv, TypeOK, NoPrompt, Prompts
    <3>2. PICK x \in {"cancelSubmit", "cancelling", child[unit]} :
             child' = [child EXCEPT ![unit] = x]
      BY <2>3 DEF UserCancel
    <3>3. x \in ChildStates
      BY <3>1 DEF Inv, TypeOK, ChildStates, Nonterminal, Certifiable
    <3> QED  BY <2>1, <3>1, <3>2, <3>3, RowMoves DEF Inv, LedgerInvariant, ChildTruth
  <2> QED  BY <2>2, <2>3 DEF UserCancel
<1>2. RowOk(ledger) /\ ledger' = ledger /\ stop' = TRUE /\ acked' \subseteq Prompts
  BY StoredRowOk DEF UserCancel, Inv, TypeOK
<1> QED  BY <1>1, <1>2, OutsideStep DEF UserCancel

LEMMA ConfirmRayRestartStep == ASSUME Inv, ConfirmRayRestart PROVE Inv'
<1> DEFINE l == [NoTail(ledger) EXCEPT !.current = None, !.tainted = FALSE]
<1>1. RowOk(l) /\ ledger' = l
  BY StoredRowOk, RowOkClosed DEF ConfirmRayRestart
<1> HIDE DEF l
<1>2. DispatcherTyped'
  BY <1>1 DEF ConfirmRayRestart, dispatcherVars, DispatcherTyped, Phases, RowOk, Inv, TypeOK
<1>3. WorldTyped'
  BY DEF ConfirmRayRestart, rowVars, WorldTyped, Inv, TypeOK
<1>4. TypeOK'
  BY <1>2, <1>3 DEF TypeOK, DispatcherTyped, WorldTyped, Phases
<1>5. EpochBehind' /\ Fresh' /\ Named' /\ ChildTruth' /\ RowsAccount'
  BY <1>1 DEF ConfirmRayRestart, dispatcherVars, rowVars, EpochBehind, Fresh, Named, ChildTruth,
              RowsAccount, RowOk, Inv, LedgerInvariant
<1> QED  BY <1>4, <1>5 DEF Inv, LedgerInvariant

(* The host. *)
LEMMA MoveProgress ==
    ASSUME Inv, NEW p \in Prompts, NEW x \in HostStates,
           up' = [up EXCEPT ![p] = x],
           up[p] \in {"flight", "queued", "running", "stopping"}
    PROVE  /\ HostProgress(up, up') /\ up' \in [Prompts -> HostStates]
           /\ \A q \in Prompts : up[q] = "unsent" => up'[q] = "unsent"
           /\ \A q \in Prompts : up[q] = "interrupted" => up'[q] = "interrupted"
BY DEF Inv, TypeOK, HostProgress

LEMMA HostSteps ==
    ASSUME Inv, NEW p \in Prompts, HostActs(p) \/ DirectedCancel(p)
    PROVE  Inv'
<1>1. UNCHANGED <<topologyOk, boots, oldest, ledger, child, rowVars, dispatcherVars>>
  BY DEF HostActs, DirectedCancel
<1>2. acked' \subseteq Prompts
  BY DEF HostActs, DirectedCancel, Inv, TypeOK
<1>3. forgotten' \subseteq Prompts
  BY DEF HostActs, DirectedCancel, HostStep, PoolStep, HostAdmit, HostRefuse, HostLose, HostDrop,
         HostForget, HostStart, HostFinish, HostMove, Inv, TypeOK
<1>4. pools' \subseteq 0 .. MaxPrompts
  <2>1. ns[p].epoch \in 0 .. MaxPrompts /\ pools \subseteq 0 .. MaxPrompts
    BY DEF Inv, TypeOK
  <2>2. CASE UNCHANGED pools
    BY <2>1, <2>2
  <2>3. CASE PoolStep(p)
    <3>1. pools' \in {pools, pools \cup {ns[p].epoch}, {}}
      BY <2>3 DEF PoolStep, PoolBuilt, PoolsLeft
    <3> QED  BY <2>1, <3>1
  <2> QED  BY <2>2, <2>3 DEF HostActs, DirectedCancel, HostStep
<1>5. \/ up' = up
      \/ /\ up[p] \in {"flight", "queued", "running", "stopping"}
         /\ \E x \in HostStates : up' = [up EXCEPT ![p] = x]
  BY DEF HostActs, DirectedCancel, CancelAccepted, CancelEffect, Visible, InQueue, Executing,
         HostStep, PoolStep, HostAdmit, HostRefuse, HostLose, HostDrop, HostForget, HostStart,
         HostFinish, HostMove, HostStates, Finished
<1>6. /\ HostProgress(up, up') /\ up' \in [Prompts -> HostStates]
      /\ \A q \in Prompts : up[q] = "unsent" => up'[q] = "unsent"
      /\ \A q \in Prompts : up[q] = "interrupted" => up'[q] = "interrupted"
  BY <1>5, MoveProgress DEF HostProgress, Inv, TypeOK
<1>7. EpochBehind' /\ Fresh' /\ Named' /\ ChildTruth' /\ RowsAccount'
  BY <1>1, <1>6, HostStepKeeps DEF rowVars
<1>8. TypeOK'
  BY <1>1, <1>2, <1>3, <1>4, <1>6 DEF rowVars, dispatcherVars, Inv, TypeOK
<1> QED  BY <1>7, <1>8 DEF Inv, LedgerInvariant

(* A restart: every coroutine is gone, what the host finished stays.       *)
LEMMA DeathStep ==
    ASSUME Inv, ProcessDies, HostProgress(up, up'),
           up' \in [Prompts -> HostStates], forgotten' \subseteq Prompts,
           pools' \subseteq 0 .. MaxPrompts, topologyOk' \in BOOLEAN,
           boots' \in 0 .. MaxBoots, oldest' \in 0 .. MaxPrompts,
           \A p \in Prompts : up[p] = "unsent" => up'[p] = "unsent",
           \A p \in Prompts : up[p] = "interrupted" => up'[p] = "interrupted"
    PROVE  Inv'
<1>1. EmptyLedger \in LedgerType /\ EmptyLedger.epoch = 0
  BY NoPromptTyped, ConstantsAssumption DEF ConstantsAssumption, EmptyLedger, LedgerType
<1>2. Release(ledger) /\ UNCHANGED rowVars /\ acked' = {}
  BY DEF ProcessDies
<1>3. child' \in [Prompts -> ChildStates]
  BY DEF ProcessDies, RecoveryRows, Inv, TypeOK, ChildStates, Nonterminal, Certifiable
<1>4. \A p \in Prompts : child'[p] \in {child[p], "recovery", "frozen"}
  BY DEF ProcessDies, RecoveryRows
<1>5. DispatcherTyped'
  BY <1>1, <1>2, NoPromptTyped DEF Release, DispatcherTyped, Phases, Inv, TypeOK
<1>6. WorldTyped'
  BY <1>2, <1>3 DEF rowVars, WorldTyped, Inv, TypeOK
<1>7. TypeOK'
  BY <1>5, <1>6 DEF TypeOK, DispatcherTyped, WorldTyped, Phases
<1>8. EpochBehind'
  BY <1>1, <1>2 DEF Release, rowVars, EpochBehind, Inv, TypeOK, LedgerInvariant
<1>9. Fresh' /\ Named'
  BY <1>2 DEF Release, rowVars, Fresh, Named, Inv, LedgerInvariant
<1>10. ChildTruth'
  BY <1>4 DEF ChildTruth, HostProgress, Inv, LedgerInvariant
<1>11. RowsAccount'
  <2>1. Accounts(ledger, Prompts, up', kind, ns)
    BY HostKeepsAccounts DEF Inv, TypeOK, LedgerInvariant, RowsAccount
  <2> QED  BY <1>2, <2>1 DEF Release, rowVars, RowsAccount
<1> QED  BY <1>7, <1>8, <1>9, <1>10, <1>11 DEF Inv, LedgerInvariant

LEMMA RestartSteps == ASSUME Inv, BackendRestart \/ HostRestart PROVE Inv'
<1>1. CASE BackendRestart
  <2>1. ProcessDies /\ UNCHANGED hostVars
    BY <1>1 DEF BackendRestart
  <2>2. HostProgress(up, up')
    BY <2>1 DEF hostVars, HostProgress
  <2> QED  BY <2>1, <2>2, DeathStep DEF hostVars, Inv, TypeOK
<1>2. CASE HostRestart
  <2>1. ProcessDies
    BY <1>2 DEF HostRestart
  <2>2. up' = [p \in Prompts |->
                  IF up[p] \in InQueue \cup {"flight"} THEN "lost" ELSE up[p]]
    BY <1>2 DEF HostRestart, HostReboot
  <2>3. /\ HostProgress(up, up') /\ up' \in [Prompts -> HostStates]
        /\ \A p \in Prompts : up[p] = "unsent" => up'[p] = "unsent"
        /\ \A p \in Prompts : up[p] = "interrupted" => up'[p] = "interrupted"
    BY <2>2 DEF HostProgress, InQueue, Executing, HostStates, Inv, TypeOK
  <2>4. forgotten' \subseteq Prompts /\ pools' \subseteq 0 .. MaxPrompts /\ topologyOk' \in BOOLEAN
    BY <1>2 DEF HostRestart, HostReboot
  <2>5. boots' \in 0 .. MaxBoots
    BY <1>2, ConstantsAssumption DEF ConstantsAssumption, HostRestart, Inv, TypeOK
  <2>6. oldest' \in 0 .. MaxPrompts
    BY <1>2, ConstantsAssumption DEF ConstantsAssumption, HostRestart, Inv, TypeOK
  <2> QED  BY <2>1, <2>3, <2>4, <2>5, <2>6, DeathStep
<1> QED  BY <1>1, <1>2

(* Every step keeps the invariant. *)
LEMMA NextStep == Inv /\ [Next]_vars => Inv'
<1> SUFFICES ASSUME Inv, [Next]_vars PROVE Inv'
  OBVIOUS
<1>1. CASE Dispatch
  <2>1. CASE \E m \in {"standard", "mixed"} : Acquire(m)
    BY <2>1, AcquireStep
  <2>2. CASE CheckRecovery \/ RefreshHistory \/ RefreshQueue \/ RefreshConfirmation
    BY <2>2, CheckRecoveryStep, RefreshSteps
  <2>3. CASE AwaitTail \/ AwaitOldKill
    BY <2>3, AwaitOlderSteps
  <2>4. CASE \E w \in Keys \cup {Standard} : PlanSegment(w) \/ PlanKill(w)
    BY <2>4, PlanSteps
  <2>5. CASE EndPlan \/ ClaimKill \/ AbandonKill \/ Quiesce
    BY <2>5, EndSteps, ClaimKillStep
  <2>6. CASE PostReturns \/ PostRejected \/ PostFailed \/ AwaitFailed
    BY <2>6, PostReturnsStep, PostRejectedStep, HandOverSteps
  <2>7. CASE SegmentDone \/ SegmentStopped \/ KillDone \/ KillFailed \/ KillStopped
    BY <2>7, AwaitSegmentSteps, KillDoneStep, KillEndSteps
  <2> QED  BY <1>1, <2>1, <2>2, <2>3, <2>4, <2>5, <2>6, <2>7 DEF Dispatch
<1>2. CASE Others
  <2>1. ASSUME NEW p \in Prompts,
               \/ ProgressEvent(p) \/ Certify(p) \/ Observe(p) \/ SyncSettle(p)
               \/ DirectedCancel(p) \/ CancelOther(p) \/ CommitCancel(p) \/ Delete(p) \/ ConfirmRestart(p)
        PROVE  Inv'
    BY <2>1, OutsideRows, CancelRows, HostSteps
  <2> QED  BY <1>2, <2>1, UserCancelStep, ConfirmRayRestartStep DEF Others
<1>3. CASE BackendRestart \/ HostRestart
  BY <1>3, RestartSteps
<1>4. CASE \E p \in Prompts : HostActs(p)
  BY <1>4, HostSteps
<1>5. CASE UNCHANGED vars
  <2>1. HostProgress(up, up')
    BY <1>5 DEF vars, hostVars, HostProgress
  <2>2. EpochBehind' /\ Fresh' /\ Named' /\ ChildTruth' /\ RowsAccount'
    BY <1>5, <2>1, HostStepKeeps DEF vars, hostVars, rowVars, Inv, TypeOK
  <2>3. TypeOK'
    BY <1>5 DEF vars, hostVars, rowVars, dispatcherVars, Inv, TypeOK
  <2> QED  BY <2>2, <2>3 DEF Inv, LedgerInvariant
<1> QED  BY <1>1, <1>2, <1>3, <1>4, <1>5 DEF Next

(* The invariant of the row, the dispatcher's copy and the child rows      *)
(* holds in every behaviour: this is what every writer of the ledger in    *)
(* app.py and database.py relies on.                                       *)
THEOREM LedgerInvariantHolds == Spec => [](TypeOK /\ LedgerInvariant)
<1>1. Inv <=> TypeOK /\ LedgerInvariant
  BY DEF Inv
<1> QED  BY <1>1, InitStep, NextStep, PTL DEF Spec

(* Every variable keeps its type; in particular an epoch never runs ahead  *)
(* of the prompts submitted.                                               *)
THEOREM TypeCorrect == Spec => []TypeOK
BY LedgerInvariantHolds, PTL

(* The terminal certificate in the row is what the host really did.        *)
THEOREM CertificatesAreTrue == Spec => []CertificateIsTrue
<1>1. LedgerInvariant => CertificateIsTrue
  BY DEF LedgerInvariant, RowsAccount, Accounts, CertificateIsTrue
<1> QED  BY <1>1, LedgerInvariantHolds, PTL

----------------------------------------------------------------------------
(* What the ledger protects: the pools. *)

(* KilledPoolStaysDead for every RayKill the host may still execute, not   *)
(* only those it has; this form is inductive.                              *)
NoSegmentBehindKill ==
    \A k, p \in Prompts :
        (k < p /\ kind[k] = "shutdown" /\ up[k] # "refused" /\ Segment(p))
            => ns[p].epoch > ns[k].epoch

PoolInv == PoolReusedOnlyAfterSuccess /\ NoSegmentBehindKill

(* Namespaces change only when the next prompt is claimed, and then the    *)
(* row that is written names it.                                           *)
ClaimsNext(k) ==
    /\ next \in Prompts
    /\ up' = [up EXCEPT ![next] = "flight"]
    /\ kind' = [kind EXCEPT ![next] = k]
    /\ ns' = [ns EXCEPT ![next] = [epoch |-> ledger'.epoch, key |-> ledger'.current]]
    /\ ledger'.tail = next /\ ledger'.action = k
    /\ k = "ray_unit" => ledger'.current # None
    /\ pools' = pools

Idle == UNCHANGED <<up, kind, ns, pools>>

Progress == UNCHANGED <<kind, ns>> /\ HostProgress(up, up')

LEMMA ClaimShape ==
    ASSUME Inv, NEW k \in {"ray_unit", "shutdown"}, NEW w, NEW l, NEW rows, NEW m,
           Claim(k, w, l, m, rows), m.tail = next, m.action = k,
           k = "ray_unit" => m.current # None
    PROVE  ClaimsNext(k)
<1>1. next \in Prompts
  BY ConstantsAssumption DEF ConstantsAssumption, Claim, Inv, TypeOK, Prompts
<1> QED  BY <1>1 DEF Claim, ClaimsNext

LEMMA StepShape ==
    ASSUME Inv, [Next]_vars
    PROVE  \/ Idle
           \/ \E k \in {"ray_unit", "shutdown"} : ClaimsNext(k)
           \/ \E p \in Prompts : HostActs(p) \/ DirectedCancel(p)
           \/ HostRestart
<1>1. ASSUME Keep PROVE Idle
  BY <1>1 DEF Keep, hostVars, rowVars, Idle
<1>2. ASSUME NEW w \in Keys, NEW l
      PROVE  LET m == AfterSegment(l, next, w)
             IN  m.tail = next /\ m.action = "ray_unit" /\ m.current # None
  BY ConstantsAssumption DEF ConstantsAssumption, AfterSegment
<1>3. CASE Dispatch
  <2>1. CASE \E w \in Keys \cup {Standard} : PlanSegment(w)
    <3>1. PICK w \in Keys : Claim("ray_unit", w, ledger, AfterSegment(ledger, next, w), child)
      BY <2>1 DEF PlanSegment
    <3> QED  BY <3>1, <1>2, ClaimShape
  <2>2. CASE ClaimKill
    <3>1. Claim("shutdown", want, snap, AfterControl(snap, next), child)
      BY <2>2 DEF ClaimKill
    <3>2. AfterControl(snap, next).tail = next /\ AfterControl(snap, next).action = "shutdown"
      BY DEF AfterControl, Inv, TypeOK, LedgerType
    <3> QED  BY <3>1, <3>2, ClaimShape
  <2>3. CASE KillDone
    <3> DEFINE l == Settle(ledger, unit, TRUE, TRUE)
               done == [child EXCEPT ![unit] = IF @ \in Certifiable THEN "succeeded" ELSE @]
    <3> HIDE DEF l, done
    <3>1. want \in Keys \cup {Standard}
      BY <2>3 DEF KillDone, Inv, TypeOK, LedgerInvariant, Named
    <3>2. Keep \/ (want \in Keys /\ Claim("ray_unit", want, l, AfterSegment(l, next, want), done))
      BY <2>3, <3>1 DEF KillDone, l, done, Inv, TypeOK
    <3> QED  BY <3>2, <1>1, <1>2, ClaimShape
  <2>4. CASE \/ \E m \in {"standard", "mixed"} : Acquire(m)
             \/ CheckRecovery \/ RefreshHistory \/ RefreshQueue \/ RefreshConfirmation
             \/ AwaitTail \/ AwaitOldKill
             \/ \E w \in Keys \cup {Standard} : PlanKill(w)
    BY <2>4, <1>1 DEF Acquire, CheckRecovery, RefreshHistory, RefreshQueue, RefreshConfirmation,
                      AwaitTail, AwaitOldKill, PlanKill
  <2>5. CASE \/ EndPlan \/ AbandonKill \/ PostReturns \/ PostRejected \/ PostFailed
             \/ AwaitFailed \/ SegmentDone \/ SegmentStopped
             \/ KillFailed \/ KillStopped \/ Quiesce
    BY <2>5, <1>1 DEF EndPlan, AbandonKill, PostReturns, PostRejected, PostFailed, AwaitFailed,
                      SegmentDone, SegmentStopped, KillFailed, KillStopped, Quiesce
  <2> QED  BY <1>3, <2>1, <2>2, <2>3, <2>4, <2>5 DEF Dispatch
<1>4. CASE Others
  <2>1. ASSUME NEW p \in Prompts,
               \/ ProgressEvent(p) \/ Certify(p) \/ Observe(p) \/ SyncSettle(p)
               \/ CancelOther(p) \/ CommitCancel(p) \/ Delete(p) \/ ConfirmRestart(p)
        PROVE  Idle
    BY <2>1 DEF ProgressEvent, Certify, Observe, SyncSettle, CancelOther, CommitCancel, Delete,
                ConfirmRestart, hostVars, rowVars, Idle
  <2>2. CASE UserCancel \/ ConfirmRayRestart
    BY <2>2 DEF UserCancel, ConfirmRayRestart, hostVars, rowVars, Idle
  <2> QED  BY <1>4, <2>1, <2>2 DEF Others
<1>5. CASE BackendRestart \/ UNCHANGED vars
  BY <1>5 DEF BackendRestart, ProcessDies, vars, hostVars, rowVars, Idle
<1> QED  BY <1>3, <1>4, <1>5 DEF Next

LEMMA ProgressShape ==
    ASSUME Inv, [Next]_vars
    PROVE  Progress \/ \E k \in {"ray_unit", "shutdown"} : ClaimsNext(k)
<1>1. CASE Idle
  BY <1>1 DEF Idle, Progress, HostProgress
<1>2. ASSUME NEW p \in Prompts, HostActs(p) \/ DirectedCancel(p) PROVE Progress
  <2>1. UNCHANGED <<kind, ns>>
    BY <1>2 DEF HostActs, DirectedCancel, rowVars
  <2>2. \/ up' = up
        \/ /\ up[p] \in {"flight", "queued", "running", "stopping"}
           /\ \E x \in HostStates : up' = [up EXCEPT ![p] = x]
    BY <1>2 DEF HostActs, DirectedCancel, CancelAccepted, CancelEffect, Visible, InQueue,
         Executing, HostStep, PoolStep, HostAdmit, HostRefuse, HostLose, HostDrop, HostForget,
         HostStart, HostFinish, HostMove, HostStates, Finished
  <2>3. HostProgress(up, up')
    BY <2>2, MoveProgress DEF HostProgress
  <2> QED  BY <2>1, <2>3 DEF Progress
<1>3. CASE HostRestart
  <2>1. UNCHANGED <<kind, ns>>
    BY <1>3 DEF HostRestart, ProcessDies, rowVars
  <2>2. HostProgress(up, up')
    BY <1>3 DEF HostRestart, HostReboot, HostProgress, InQueue, Executing
  <2> QED  BY <2>1, <2>2 DEF Progress
<1> QED  BY <1>1, <1>2, <1>3, StepShape

LEMMA PoolStepKeeps ==
    ASSUME Inv, Inv', PoolInv, [Next]_vars
    PROVE  PoolInv'
<1>1. CASE Progress
  <2>1. \A p \in Prompts : Segment(p)' => Segment(p)
    BY <1>1 DEF Progress, HostProgress, Segment
  <2>2. PoolReusedOnlyAfterSuccess'
    BY <1>1, <2>1 DEF Progress, HostProgress, PoolInv, PoolReusedOnlyAfterSuccess
  <2>3. NoSegmentBehindKill'
    BY <1>1, <2>1 DEF Progress, HostProgress, PoolInv, NoSegmentBehindKill
  <2> QED  BY <2>2, <2>3 DEF PoolInv
<1>2. ASSUME NEW k \in {"ray_unit", "shutdown"}, ClaimsNext(k) PROVE PoolInv'
  <2>1. \A p \in Prompts \ {next} : up'[p] = up[p] /\ kind'[p] = kind[p] /\ ns'[p] = ns[p]
    BY <1>2 DEF ClaimsNext, Inv, TypeOK
  <2>2. /\ kind'[next] = k /\ up'[next] = "flight"
        /\ ns'[next].epoch = ledger'.epoch /\ ns'[next].key = ledger'.current
    BY <1>2 DEF ClaimsNext, Inv, TypeOK
  <2>3. \A p \in Prompts : kind[p] # "none" => p < next
    BY DEF Inv, TypeOK, LedgerInvariant, Fresh, Prompts
(* Nothing is behind the new prompt; before it, the written row speaks.    *)
  <2>4. \A p \in Prompts : kind'[p] # "none" => p <= next
    BY <2>1, <2>3, <1>2 DEF ClaimsNext, Prompts
  <2>5. ASSUME NEW p \in Prompts, p # next, kind[p] # "none", up[p] # "refused",
               k = "ray_unit"
        PROVE  /\ ns[p].epoch <= ledger'.epoch
               /\ ns[p].epoch = ledger'.epoch =>
                      kind[p] = "ray_unit" /\ up[p] = "success" /\ ns[p].key = ledger'.current
    <3>1. Accounts(ledger', Prompts, up', kind', ns')
      BY DEF Inv, LedgerInvariant, RowsAccount
    <3>2. /\ ledger'.current # None /\ ledger'.action = "ray_unit" /\ ledger'.tail = next
          /\ kind'[p] # "none" /\ up'[p] # "refused" /\ ns'[p] = ns[p]
      BY <1>2, <2>1, <2>5 DEF ClaimsNext
    <3> QED  BY <2>1, <2>5, <3>1, <3>2 DEF Accounts
  <2>6. PoolReusedOnlyAfterSuccess'
    <3> SUFFICES ASSUME NEW p \in Prompts, NEW q \in Prompts, p < q,
                        Segment(p)', Segment(q)', ns'[p].epoch = ns'[q].epoch
                 PROVE  up'[p] = "success" /\ ns'[p].key = ns'[q].key
      BY DEF PoolReusedOnlyAfterSuccess
    <3>1. p # next
      BY <2>4, <1>2 DEF ClaimsNext, Segment, Prompts
    <3>2. CASE q = next
      BY <2>1, <2>2, <2>5, <3>1, <3>2 DEF Segment
    <3>3. CASE q # next
      BY <2>1, <3>1, <3>3 DEF Segment, PoolInv, PoolReusedOnlyAfterSuccess
    <3> QED  BY <3>2, <3>3
  <2>7. NoSegmentBehindKill'
    <3> SUFFICES ASSUME NEW j \in Prompts, NEW p \in Prompts, j < p,
                        kind'[j] = "shutdown", up'[j] # "refused", Segment(p)'
                 PROVE  ns'[p].epoch > ns'[j].epoch
      BY DEF NoSegmentBehindKill
    <3>1. j # next
      BY <2>4, <1>2 DEF ClaimsNext, Segment, Prompts
    <3>2. CASE p = next
      <4>1. /\ ns[j].epoch <= ledger'.epoch /\ ns[j].epoch # ledger'.epoch
            /\ ns'[j].epoch = ns[j].epoch /\ ns'[p].epoch = ledger'.epoch
        BY <2>1, <2>2, <2>5, <3>1, <3>2 DEF Segment
      <4>2. ns[j].epoch \in Nat /\ ledger'.epoch \in Nat
        BY ConstantsAssumption DEF ConstantsAssumption, Inv, TypeOK, LedgerType
      <4> QED  BY <4>1, <4>2
    <3>3. CASE p # next
      BY <2>1, <3>1, <3>3 DEF Segment, PoolInv, NoSegmentBehindKill
    <3> QED  BY <3>2, <3>3
  <2> QED  BY <2>6, <2>7 DEF PoolInv
<1> QED  BY <1>1, <1>2, ProgressShape

LEMMA PoolInvHolds == Spec => []PoolInv
<1>1. Init => PoolInv
  BY DEF Init, PoolInv, PoolReusedOnlyAfterSuccess, NoSegmentBehindKill, Segment
<1>2. Inv /\ PoolInv /\ [Next]_vars => Inv' /\ PoolInv'
  BY NextStep, PoolStepKeeps
<1> QED  BY <1>1, <1>2, InitStep, PTL DEF Spec

(* A Ray segment joins an actor pool only when every earlier segment of    *)
(* that pool succeeded with the same runtime key, whatever was cancelled,  *)
(* refused, lost or restarted.                                             *)
THEOREM PoolsAreReusedOnlyAfterSuccess == Spec => []PoolReusedOnlyAfterSuccess
<1>1. PoolInv => PoolReusedOnlyAfterSuccess
  BY DEF PoolInv
<1> QED  BY <1>1, PoolInvHolds, PTL

(* No segment is ever addressed to a pool that a RayKill shut down.        *)
THEOREM KilledPoolsStayDead == Spec => []KilledPoolStaysDead
<1>1. PoolInv => KilledPoolStaysDead
  BY DEF PoolInv, NoSegmentBehindKill, KilledPoolStaysDead
<1> QED  BY <1>1, PoolInvHolds, PTL
=============================================================================
