--------------------------- MODULE MerkleQuestions ---------------------------
(***************************************************************************)
(* What the export verifier asks of merkle.rs: whether a leaf is under the     *)
(* head of a log, and whether one head is of the history of another.          *)
(***************************************************************************)
EXTENDS PrimitiveCalls, Merkle

CONSTANTS
    ProofQuestions   \* the inclusions and consistencies asked about

\* Sizes and positions are u64, proofs are lists of digests; RFC 6962 defines
\* consistency for heads of at least one leaf.
ASSUME ProofQuestionsAssumption ==
    \A q \in ProofQuestions :
        /\ q.proof \in Seq({q.proof[k] : k \in DOMAIN q.proof})
        /\ \/ /\ q.kind = "inclusion"
              /\ q.head \in Nat /\ q.size \in Nat /\ q.index \in Nat
           \/ /\ q.kind = "consistency"
              /\ q.from \in Nat \ {0} /\ q.to \in Nat /\ q.fork \in Nat

VARIABLES
    proofQuestion,   \* what was asked, or None
    proved           \* and the answer

proofVars == <<proofQuestion, proved>>

ProofInit == proofQuestion = None /\ proved = None

\* The first `size` leaves of the log, and of one that differs from event `at` on.
LeavesOf(size) == [k \in 1..size |-> MerkleLeafHash(k)]
ForkedAt(at, size) == [k \in 1..size |-> MerkleLeafHash(IF k < at THEN k ELSE 0 - k)]

RootOf(size) == MerkleRoot(LeavesOf(size))

\* fork = 0: the first root is the one of this history.
FirstRoot(q) ==
    IF q.fork = 0 THEN RootOf(q.from) ELSE MerkleRoot(ForkedAt(q.fork, q.from))

Proved(q) ==
    IF q.kind = "inclusion"
    THEN RootOf(q.head) \in
            RootFromInclusionProof(q.index, q.size, MerkleLeafHash(q.index + 1), q.proof)
    ELSE RootOf(q.to) \in RootFromConsistencyProof(q.from, q.to, FirstRoot(q), q.proof)

ProofStep ==
    /\ proofQuestion = None
    /\ \E q \in ProofQuestions : proofQuestion' = q /\ proved' = Proved(q)
    /\ UNCHANGED calls

ProofSpec == calls = 0 /\ ProofInit /\ [][ProofStep]_<<calls, proofVars>>

AskedFor(kind) == proofQuestion # None /\ proofQuestion.kind = kind

-----------------------------------------------------------------------------
(* Properties. *)

\* A leaf of a log of `size` events is proved against the head of a log of
\* `head` events only by the path RFC 6962 gives it there, never for a leaf the
\* head does not have; under the head of the whole log that path always proves it.
OnlyTheAuditPathProves ==
    AskedFor("inclusion") =>
        LET q == proofQuestion
            path == AuditPath(LeavesOf(q.head), q.index)
        IN  /\ proved => q.index < q.head /\ q.proof = path
            /\ ~proved /\ q.head = q.size => q.index >= q.size \/ q.proof # path

\* Two heads are proved consistent only when the older is a head of the same
\* history, and by the one path RFC 6962 gives; that path always proves them.
OnlyOneHistoryIsConsistent ==
    AskedFor("consistency") =>
        LET q == proofQuestion
            same == FirstRoot(q) = TreeHash(LeavesOf(q.from))
            given == /\ q.from <= q.to /\ same
                     /\ q.proof = ConsistencyPath(LeavesOf(q.to), q.from)
        IN  proved <=> given
=============================================================================
