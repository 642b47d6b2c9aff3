---------------------------- MODULE LedgerJudge ----------------------------
(***************************************************************************)
(* The abstract verifier of one ledger: a call is decided once, and the      *)
(* verdict says whether every clause of LedgerClauses holds.  EventSet       *)
(* implements this specification.                                            *)
(***************************************************************************)
EXTENDS LedgerClauses

CONSTANTS Calls, Inputs

VARIABLES call, input, verdict

Init == call \in Calls /\ input = Inputs[call] /\ verdict = "pending"

Decide ==
    /\ verdict = "pending"
    /\ verdict' = Judgement(input)
    /\ UNCHANGED <<call, input>>

Safety == Init /\ [][Decide]_<<call, input, verdict>>
Spec == Safety /\ WF_<<call, input, verdict>>(Decide)
=============================================================================
