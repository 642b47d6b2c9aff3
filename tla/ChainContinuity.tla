--------------------------- MODULE ChainContinuity ---------------------------
(***************************************************************************)
(* ChainContinuityCheck::run (crates/integrity-verify/src/chain.rs): the      *)
(* universal phase's own check of a chain, on sequence numbers and links only.*)
(* A finding is [kind, event].  Sequences are compared with the event before, *)
(* whatever was found about it.                                              *)
(***************************************************************************)
EXTENDS Naturals, Sequences

CONSTANT None

PreviousHash(events, i) == IF i = 1 THEN None ELSE events[i - 1].hash

ContinuityFindings(events) ==
    LET found(kind, Broken(_)) ==
            {[kind |-> kind, event |-> i] : i \in {j \in DOMAIN events : Broken(j)}}
        genesisHasPrev(i) == events[i].sequence = 0 /\ events[i].prevHash # None
        prevMismatch(i) ==
            events[i].sequence # 0 /\ events[i].prevHash # PreviousHash(events, i)
        reordered(i) == i > 1 /\ events[i].sequence <= events[i - 1].sequence
    IN       found("genesis_has_prev_hash", genesisHasPrev)
        \cup found("prev_hash_mismatch", prevMismatch)
        \cup found("sequence_reorder", reordered)
=============================================================================
