---------------------------- MODULE ExportJudge ----------------------------
(***************************************************************************)
(* The abstract verifier of an export: one decision per call.  Export, which  *)
(* judges an archive as the clauses of ExportClauses do, implements this      *)
(* specification.                                                            *)
(***************************************************************************)
CONSTANTS
    Calls, Exports,
    Judged(_, _)   \* what is decided of an archive and the identity types admitted

VARIABLES call, zip, types, verdict

Init == call \in Calls /\ zip = Exports[call].zip /\ types = Exports[call].types
        /\ verdict = "pending"

Decide ==
    /\ verdict = "pending"
    /\ verdict' \in {"refused", "verified", "tampered"}
    /\ verdict' = Judged(zip, types)
    /\ UNCHANGED <<call, zip, types>>

Safety == Init /\ [][Decide]_<<call, zip, types, verdict>>
=============================================================================
