--------------------------- MODULE LedgerCallJudge ---------------------------
(***************************************************************************)
(* The abstract entry points: a call is answered in one step with what is     *)
(* promised of its request.  LedgerCalls implements this specification, with  *)
(* the promise of LedgerCallClauses.                                         *)
(***************************************************************************)
CONSTANTS Calls, Requests, None, Promised(_)

VARIABLES call, request, result

Init == call \in Calls /\ request = Requests[call] /\ result = None

Answer ==
    /\ result = None
    /\ result' = Promised(request)
    /\ UNCHANGED <<call, request>>

Safety == Init /\ [][Answer]_<<call, request, result>>
Spec == Safety /\ WF_<<call, request, result>>(Answer)
=============================================================================
