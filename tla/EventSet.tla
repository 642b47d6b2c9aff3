------------------------------ MODULE EventSet ------------------------------
(***************************************************************************)
(* verify_event_set_with_classes (trellis/mod.rs): one pass over a ledger of *)
(* signed events, then three finalization passes over what the pass          *)
(* collected, then the report.  The state is the function's local variables; *)
(* one action is one iteration of the loop, or one call after it.            *)
(***************************************************************************)
EXTENDS Erasure, Certificates, UserAttestation

CONSTANTS
    Calls,   \* the calls that are verified
    Inputs   \* the arguments of each

ASSUME InputsAssumption == Inputs \in [Calls -> Input]

\* The canonical hash covers the payload and nothing of the COSE envelope.
PayloadOf(e) == [e EXCEPT !.kid = None, !.suite = TRUE, !.signer = None]

\* SHA-256 collisions are outside the model: within one ledger, events of one
\* canonical hash carry one payload.
ASSUME CollisionFreeAssumption ==
    \A c \in Calls : \A i, j \in DOMAIN Inputs[c].ledger :
        Inputs[c].ledger[i].hash = Inputs[c].ledger[j].hash
            => PayloadOf(Inputs[c].ledger[i]) = PayloadOf(Inputs[c].ledger[j])

VARIABLES
    call,               \* the call being verified; never changes
    input,              \* its arguments; never change
    cursor,             \* index of the next event of the loop
    previousHash,       \* canonical hash of the last admitted event
    previousAuthoredAt, \* its authored_at
    idempotencyIndex,   \* (scope, key) -> first canonical hash seen under it
    shadow,             \* state each kind of posture is believed to be in
    chain,              \* chain_summaries: the indices admitted so far
    failures,           \* event_failures
    transitions, erasures, certificates, attestations,  \* outcomes
    phase,              \* "scan", then one value per finalization call, "done"
    report              \* None until the call returns

scanVars == <<cursor, previousHash, previousAuthoredAt, idempotencyIndex, shadow,
              chain, transitions>>
finalVars == <<erasures, certificates, attestations>>
callVars == <<call, input>>
vars == <<callVars, scanVars, finalVars, failures, phase, report>>

Ledger == input.ledger
Identity(e) == <<e.scope, e.idempotencyKey>>
Identities == Scopes \X IdempotencyKeys

\* VerificationReport: the three verdicts and the failures listed.
Report == [structure : BOOLEAN, integrity : BOOLEAN, readability : BOOLEAN,
           failures : SUBSET FailureRecord]

FatalReport(kind) ==
    [structure |-> FALSE, integrity |-> FALSE, readability |-> FALSE,
     failures |-> {Failure(kind, None)}]

TransitionOutcome == [event : Nat, continuityVerified : BOOLEAN,
                      declarationResolved : BOOLEAN, attestationsVerified : BOOLEAN]
TransitionOutcomeOk(o) ==
    o.continuityVerified /\ o.declarationResolved /\ o.attestationsVerified

Init ==
    /\ call \in Calls /\ input = Inputs[call]
    /\ cursor = 1
    /\ previousHash = None
    /\ previousAuthoredAt = None
    /\ idempotencyIndex = [identity \in Identities |-> None]
    /\ shadow = IF input.initialPosture = None THEN [kind \in TransitionKinds |-> None]
                ELSE input.initialPosture
    /\ chain = {}
    /\ failures = {}
    /\ transitions = {} /\ erasures = {} /\ certificates = {} /\ attestations = {}
    /\ phase = "scan"
    /\ report = None

-----------------------------------------------------------------------------
(* Early returns of the loop.  Everything collected so far is dropped.       *)

\* The kind of fatal report event e causes, in the order the loop checks; None
\* when it causes none.  A failed signature is reached before the payload is.
FatalKind(in, e) ==
    IF KeyOf(in, e) = None
    THEN IF in.nonSigning[e.kid] # None THEN "KeyClassMismatch" ELSE "UnresolvableManifestKid"
    ELSE IF ~e.suite THEN "UnsupportedSuite"
    ELSE IF ~SignatureVerifies(in, e) THEN None
    ELSE IF ~Decodes(e) THEN DecodeError(e)
    ELSE IF KeyOf(in, e).status = 3 /\ KeyOf(in, e).validTo = None
    THEN "SigningKeyRegistryInvalid"
    ELSE None

\* A slip the runs must notice: the loop stops one event short.
ScanningButLast == phase = "scan" /\ cursor \in 1..(Len(Ledger) - 1)

Scanning == phase = "scan" /\ cursor \in DOMAIN Ledger

ReturnFatal ==
    /\ Scanning
    /\ FatalKind(input, Ledger[cursor]) # None
    /\ report' = FatalReport(FatalKind(input, Ledger[cursor]))
    /\ phase' = "done"
    /\ UNCHANGED <<callVars, scanVars, finalVars, failures>>

\* A slip: the `continue` is taken without a failure.
SignatureFailuresUnreported(e) == {}

SignatureFailures(e) == {Failure("SignatureInvalid", e.hash)}

\* The loop's `continue`: the event is not admitted and nothing it says counts.
RejectSignature ==
    LET e == Ledger[cursor]
    IN  /\ Scanning
        /\ FatalKind(input, e) = None
        /\ ~SignatureVerifies(input, e)
        /\ failures' = failures \cup SignatureFailures(e)
        /\ cursor' = cursor + 1
        /\ UNCHANGED <<callVars, previousHash, previousAuthoredAt, idempotencyIndex, shadow,
                       chain, transitions, finalVars, phase, report>>

-----------------------------------------------------------------------------
(* The checks of the rest of the iteration: each yields the failures it pushes. *)

\* A revoked key keeps the events authored up to valid_to.
RevokedFailures(e) ==
    Flag(KeyOf(input, e).status = 3 /\ e.authoredAt > KeyOf(input, e).validTo,
         "RevokedAuthority", e.hash)

ScopeFailures(e) ==
    Flag(input.expectedScope \notin {None, e.scope}, "ScopeMismatch", e.hash)

IdempotencyFailures(e) ==
    Flag(idempotencyIndex[Identity(e)] \notin {None, e.hash},
         "IdempotencyKeyPayloadMismatch", e.hash)

\* An external payload that is not supplied is not checked.
ContentFailures(e) ==
    Flag(ReadablePayload(input, e) \notin {None, e.contentHash}, "ContentHashMismatch", e.hash)

AuthorFailures(e) ==
    IF e.authorPreimage = None THEN {Failure("AuthorPreimageInvalid", e.hash)}
    ELSE Flag(e.authorPreimage # e.authorHash, "HashMismatch", e.hash)

\* A single event under an initial posture declaration stands alone.
SkipPrevHashCheck(in) == in.initialPosture # None /\ Len(in.ledger) = 1

PrevHashKind ==
    IF ~input.classifyTamper THEN "PrevHashMismatch"
    ELSE IF previousHash # None THEN "PrevHashBreak"
    ELSE IF Len(Ledger) = 1 THEN "EventTruncation" ELSE "EventReorder"

\* A slip: an event with sequence 0 is taken for a genesis unchecked.
PrevHashFailuresButGenesis(e) ==
    Flag(~SkipPrevHashCheck(input) /\ e.sequence # 0 /\ e.prevHash # previousHash,
         PrevHashKind, e.hash)

PrevHashFailures(e) ==
    IF SkipPrevHashCheck(input) THEN {}
    ELSE IF e.sequence = 0
    THEN Flag(e.prevHash # None,
              IF input.classifyTamper THEN "EventReorder" ELSE "PrevHashMismatch", e.hash)
    ELSE Flag(e.prevHash # previousHash, PrevHashKind, e.hash)

\* A slip: two events of one instant count as out of order.
TimestampFailuresStrict(e) ==
    Flag(previousAuthoredAt # None /\ e.authoredAt <= previousAuthoredAt,
         "TimestampOrderViolation", e.hash)

TimestampFailures(e) ==
    Flag(previousAuthoredAt # None /\ e.authoredAt < previousAuthoredAt,
         "TimestampOrderViolation", e.hash)

ContinuityBroken(t) == shadow[t.kind] \notin {None, t.from}

DeclarationMismatch(in, t) ==
    in.declaration # None /\ in.declaration.digest # t.declarationDigest

AttestationsMissing(t) ==
    RequiresDualAttestation(t) /\ ~({"prior", "new"} \subseteq t.attestationClasses)

\* Only the first failure of a transition becomes an event failure.
TransitionFailures(e) ==
    LET t == e.transition
    IN  IF t = None THEN {}
        ELSE IF ContinuityBroken(t) THEN {Failure("StateContinuityMismatch", e.hash)}
        ELSE IF DeclarationMismatch(input, t)
        THEN {Failure("PostureDeclarationDigestMismatch", e.hash)}
        ELSE Flag(AttestationsMissing(t), "AttestationInsufficient", e.hash)

\* A slip: the outcome names the event after its own.
TransitionOutcomesOfNext(e, index) ==
    LET t == e.transition
    IN  IF t = None THEN {}
        ELSE {[event |-> index + 1,
               continuityVerified |-> ~ContinuityBroken(t) /\ ~DeclarationMismatch(input, t),
               declarationResolved |-> ~DeclarationMismatch(input, t),
               attestationsVerified |-> ~AttestationsMissing(t)]}

TransitionOutcomes(e, index) ==
    LET t == e.transition
    IN  IF t = None THEN {}
        ELSE {[event |-> index,
               continuityVerified |-> ~ContinuityBroken(t) /\ ~DeclarationMismatch(input, t),
               declarationResolved |-> ~DeclarationMismatch(input, t),
               attestationsVerified |-> ~AttestationsMissing(t)]}

\* A slip: the shadow keeps the first state it learns.
ShadowAfterFirst(e) ==
    IF e.transition = None \/ shadow[e.transition.kind] # None THEN shadow
    ELSE [shadow EXCEPT ![e.transition.kind] = e.transition.to]

\* The shadow follows every transition, the failed ones included.
ShadowAfter(e) ==
    IF e.transition = None THEN shadow
    ELSE [shadow EXCEPT ![e.transition.kind] = e.transition.to]

\* A slip: the last event under an identity replaces the first.
IndexAfterOverwriting(e) == [idempotencyIndex EXCEPT ![Identity(e)] = e.hash]

IndexAfter(e) ==
    IF idempotencyIndex[Identity(e)] # None THEN idempotencyIndex
    ELSE [idempotencyIndex EXCEPT ![Identity(e)] = e.hash]

EventFailures(e) ==
    UNION {RevokedFailures(e), ScopeFailures(e), IdempotencyFailures(e), ContentFailures(e),
           AuthorFailures(e), PrevHashFailures(e), TimestampFailures(e), TransitionFailures(e)}

AdmitEvent ==
    LET e == Ledger[cursor]
    IN  /\ Scanning
        /\ FatalKind(input, e) = None
        /\ SignatureVerifies(input, e)
        /\ failures' = failures \cup EventFailures(e)
        /\ idempotencyIndex' = IndexAfter(e)
        /\ previousHash' = e.hash
        /\ previousAuthoredAt' = e.authoredAt
        /\ chain' = chain \cup {cursor}
        /\ transitions' = transitions \cup TransitionOutcomes(e, cursor)
        /\ shadow' = ShadowAfter(e)
        /\ cursor' = cursor + 1
        /\ UNCHANGED <<callVars, finalVars, phase, report>>

-----------------------------------------------------------------------------
(* After the loop. *)

FinalizeErasure ==
    /\ phase = "scan" /\ cursor = Len(Ledger) + 1
    /\ erasures' = ErasureOutcomes(input, chain)
    /\ failures' = failures \cup ErasureFailures(input, chain)
    /\ phase' = "certificates"
    /\ UNCHANGED <<callVars, scanVars, certificates, attestations, report>>

FinalizeCertificates ==
    /\ phase = "certificates"
    /\ certificates' = CertificateOutcomes(input, chain)
    /\ failures' = failures \cup CertificateFailures(input, chain)
    /\ phase' = "attestations"
    /\ UNCHANGED <<callVars, scanVars, erasures, attestations, report>>

FinalizeAttestations ==
    /\ phase = "attestations"
    /\ attestations' = AttestationOutcomes(input, chain)
    /\ failures' = failures \cup AttestationFailures(input, chain)
    /\ phase' = "report"
    /\ UNCHANGED <<callVars, scanVars, erasures, certificates, report>>

\* integrity_verified_from_parts; checkpoints, proofs and sidecars are empty here.
IntegrityVerified ==
    /\ failures = {}
    /\ \A o \in transitions : TransitionOutcomeOk(o)
    /\ \A o \in erasures : ErasureOutcomeOk(o)
    /\ \A o \in certificates : CertificateOutcomeOk(o)
    /\ \A o \in attestations : AttestationOutcomeOk(o)

ReturnReport ==
    /\ phase = "report"
    /\ report' = [structure |-> TRUE, integrity |-> IntegrityVerified, readability |-> TRUE,
                  failures |-> failures]
    /\ phase' = "done"
    /\ UNCHANGED <<callVars, scanVars, finalVars, failures>>

Next ==
    \/ ReturnFatal
    \/ RejectSignature
    \/ AdmitEvent
    \/ FinalizeErasure
    \/ FinalizeCertificates
    \/ FinalizeAttestations
    \/ ReturnReport

Spec == Init /\ [][Next]_vars

\* The call is one sequential computation: it never stops between two steps.
FairSpec == Spec /\ WF_vars(Next)

-----------------------------------------------------------------------------
(* Properties. *)

Verified == phase = "done" /\ report.integrity

OptionalHashes == Optional(Hashes)

\* Every variable keeps the type its Rust counterpart has.
TypeOK ==
    /\ call \in Calls /\ input = Inputs[call]
    /\ cursor \in 1..(Len(Ledger) + 1)
    /\ previousHash \in OptionalHashes
    /\ previousAuthoredAt \in Optional(Times)
    /\ idempotencyIndex \in [Identities -> OptionalHashes]
    /\ shadow \in [TransitionKinds -> Optional(Names)]
    /\ chain \subseteq DOMAIN Ledger
    /\ failures \subseteq FailureRecord
    /\ transitions \subseteq TransitionOutcome
    /\ \A o \in transitions \cup erasures \cup certificates \cup attestations : o.event \in chain
    /\ phase \in {"scan", "certificates", "attestations", "report", "done"}
    /\ report \in Optional(Report)
    /\ phase = "done" => report \in Report

\* The verdict of the call is the one the order-free specification gives: no
\* check depends on where in the pass it runs, and none is lost on the way.  The judge
\* decides every call, so the call returns.
Verdict ==
    IF phase # "done" THEN "pending"
    ELSE IF ~report.structure THEN "unreadable"
    ELSE IF report.integrity THEN "verified" ELSE "tampered"

Judge == INSTANCE LedgerJudge WITH verdict <- Verdict
ImplementsJudge == Judge!Spec

\* A failed outcome is never silent: the fold over the outcome booleans adds
\* nothing to the fold over the failures (integrity_verified_from_parts).
OutcomesLeaveFailures ==
    failures = {} =>
        /\ \A o \in transitions : TransitionOutcomeOk(o)
        /\ \A o \in erasures : ErasureOutcomeOk(o)
        /\ \A o \in certificates : CertificateOutcomeOk(o)
        /\ \A o \in attestations : AttestationOutcomeOk(o)

\* The first event seen under an identity stays its reference to the end, and
\* no later pass takes a failure back.
NothingIsForgotten ==
    [][/\ failures \subseteq failures'
       /\ \A identity \in Identities : idempotencyIndex[identity] # None =>
              idempotencyIndex'[identity] = idempotencyIndex[identity]]_vars

\* No event behind a `continue` escapes the verdict: what is verified was
\* admitted, every event of it.
VerifiedSkipsNothing == Verified => chain = DOMAIN Ledger

\* The links a verified ledger has are those the universal phase's chain check
\* asks for, in the one call form that exempts a lone event apart.
Continuity == INSTANCE ChainContinuity
VerifiedLinksPassContinuity ==
    Verified /\ ~SkipPrevHashCheck(input) =>
        \A finding \in Continuity!ContinuityFindings(Ledger) : finding.kind = "sequence_reorder"

\* The whole chain check: the comment that names the check's replacement
\* (mod.rs:19) says it covers sequence continuity too.
VerifiedPassesContinuity ==
    Verified /\ ~SkipPrevHashCheck(input) => Continuity!ContinuityFindings(Ledger) = {}

\* Custody cannot drift upwards: if the declared custody model has risen by the
\* end of a verified ledger, some step on the way carried both authorities.
NoUnattestedUpgrade ==
    Verified /\ input.initialPosture # None /\ input.initialPosture["custody"] # None
        /\ CustodyRank(shadow["custody"]) > CustodyRank(input.initialPosture["custody"])
    => \E i \in DOMAIN Ledger :
          /\ Ledger[i].transition # None /\ Ledger[i].transition.kind = "custody"
          /\ {"prior", "new"} \subseteq Ledger[i].transition.attestationClasses

\* An attestation's identity proof is earlier in the ledger than the attestation
\* (user_attestation.rs:300 says it must; the code compares sequence numbers).
IdentityPrecedesAttestation ==
    Verified => \A i, j \in DOMAIN Ledger :
        /\ Ledger[i].attestation # None
        /\ Ledger[i].attestation.identityRef = Ledger[j].hash
        => j < i

\* Certificates resolve against events whose signature failed as well; a
\* verified certificate nevertheless rests on signed events only.
VerifiedCertificatesRestOnSignedEvents ==
    Verified => \A i \in DOMAIN Ledger : Ledger[i].certificate # None =>
        \A k \in DOMAIN Ledger[i].certificate.signingEvents :
            \E j \in DOMAIN Ledger :
                /\ Ledger[j].hash = Ledger[i].certificate.signingEvents[k]
                /\ SignatureVerifies(input, Ledger[j])
=============================================================================
