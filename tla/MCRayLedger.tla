---------------------------- MODULE MCRayLedger ----------------------------
(* Small instances of RayLedger for TLC. *)
EXTENDS RayLedger, TLC

CONSTANTS keyA, keyB

KeySymmetry == Permutations(Keys)

(* States that differ only in what is never read again are the same: how a *)
(* settled prompt that neither the ledger nor the dispatcher names went    *)
(* wrong, and what the dispatcher read before a segment it now awaits.     *)
Relevant(p) == p \in {ledger.tail, snap.tail, unit} \/ child[p] \in Nonterminal

View ==
    <<[p \in Prompts |->
          IF Relevant(p) \/ up[p] \in InQueue \cup {"unsent", "flight", "success", "refused"}
          THEN up[p] ELSE "ended"],
      {p \in forgotten : Relevant(p)},
      [p \in Prompts |-> IF Relevant(p) \/ child[p] = "none" THEN child[p] ELSE "settled"],
      {p \in 1 .. oldest : child[p] \in Nonterminal},
      pools, topologyOk, boots, ledger, rowVars,
      {p \in acked : child[p] \in {"cancelling", "recovery"}}, pc, mode, unit, ambiguous, stop,
      IF pc = "awaitSegment" THEN <<>> ELSE <<want, snap>>>>
=============================================================================
