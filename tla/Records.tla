------------------------------ MODULE Records ------------------------------
(***************************************************************************)
(* The data the Trellis verifier (crates/integrity-verify/src/trellis)      *)
(* works on once the bytes are parsed: key registry entries, COSE_Sign1     *)
(* items with their decoded EventDetails, and the options of one call of    *)
(* verify_event_set_with_classes.  Bytes are opaque: a digest is a member   *)
(* of Hashes, and "declared" and "recomputed" digests are separate fields.  *)
(* A timestamp (seconds, nanos) is a number: only its order is used.        *)
(***************************************************************************)
EXTENDS Naturals, Sequences, FiniteSets

CONSTANTS
    Kids,            \* key identifiers
    Keys,            \* Ed25519 public keys
    Hashes,          \* canonical event hashes
    Contents,        \* digests of contents, author preimages, declarations, responses
    Scopes,          \* ledger scopes
    IdempotencyKeys, \* idempotency key values
    Names,           \* opaque text: identifiers, principals, attestors, URIs
    OperatorNames,   \* the names with an operator URI prefix
    None             \* absent value

\* Classes as they are after "wrap" is normalised to "subject".
KeyClasses == {"signing", "tenant-root", "scope", "subject", "recovery", "extension"}

\* VerificationFailureKind, the part of it this verifier pushes, by the pass that does.
FatalKinds == {"KeyClassMismatch", "UnresolvableManifestKid", "UnsupportedSuite",
    "MalformedCose", "IdempotencyKeyLengthInvalid", "ErasureDestroyedAtAfterHost",
    "CertificateChainSummaryMismatch", "SigningKeyRegistryInvalid"}
EventKinds == {"SignatureInvalid", "RevokedAuthority", "ScopeMismatch",
    "IdempotencyKeyPayloadMismatch", "ContentHashMismatch", "AuthorPreimageInvalid",
    "HashMismatch", "PrevHashMismatch", "PrevHashBreak", "EventTruncation", "EventReorder",
    "TimestampOrderViolation", "StateContinuityMismatch", "PostureDeclarationDigestMismatch",
    "AttestationInsufficient"}
ErasureKinds == {"ErasureKeyClassRegistryMismatch", "ErasureDestroyedAtConflict",
    "ErasureKeyClassPayloadConflict", "PostErasureUse", "PostErasureWrap",
    "ErasureAttestationSignatureInvalid"}
CertificateKinds == {"CertificateIdCollision", "AttestationInsufficient",
    "SigningEventUnresolved", "CertificateChainSummaryMismatch",
    "SigningEventTimestampMismatch", "MalformedResponseDigest", "ResponseRefMismatch"}
AttestationKinds == {"UserContentAttestationIdCollision",
    "UserContentAttestationTimestampMismatch", "UserContentAttestationIntentMalformed",
    "UserContentAttestationOperatorInUserSlot", "UserContentAttestationChainPositionMismatch",
    "UserContentAttestationIdentityRequired", "UserContentAttestationIdentityUnresolved",
    "UserContentAttestationIdentityTemporalInversion",
    "UserContentAttestationIdentitySubjectMismatch", "UserContentAttestationKeyNotActive",
    "UserContentAttestationSignatureInvalid"}
FailureKinds ==
    FatalKinds \cup EventKinds \cup ErasureKinds \cup CertificateKinds \cup AttestationKinds

ASSUME NoneAssumption ==
    /\ None \notin Kids /\ None \notin Keys /\ None \notin Hashes /\ None \notin Contents
    /\ None \notin Scopes /\ None \notin IdempotencyKeys /\ None \notin Names
    /\ None \notin Nat /\ None \notin KeyClasses /\ None \notin FailureKinds

Times == Nat
Optional(S) == S \cup {None}

\* SigningKeyEntry: status 0 active, 1 rotating, 2 retired, 3 revoked.
KeyEntry == [key : Keys, status : Nat,
             validFrom : Optional(Times), validTo : Optional(Times)]

\* parse_key_registry yields one map per arm; a kid may be in both.
Registries == [Kids -> Optional(KeyEntry)]
NonSigningRegistries == [Kids -> Optional(KeyClasses)]

TransitionKinds == {"custody", "disclosure"}

TransitionDetails ==
    [kind : TransitionKinds, from : Names, to : Names, declarationDigest : Contents,
     attestationClasses : SUBSET STRING, scopeChange : STRING]

ErasureEvidenceDetails ==
    [id : Names, kid : Kids, keyClass : KeyClasses, destroyedAt : Times,
     authorities : SUBSET STRING, wellFormed : BOOLEAN]

SignerDisplay == [principal : Names, signedAt : Times]

CertificateDetails ==
    [id : Names, contentHash : Contents, attachmentId : Names,
     signingEvents : Seq(Hashes), signerCount : Nat, signerDisplay : Seq(SignerDisplay),
     responseRef : Optional(Contents), completedAt : Times, workflowStatus : Names, wellFormed : BOOLEAN]

UserContentAttestationDetails ==
    [id : Names, eventHash : Hashes, position : Nat, attestor : Names,
     identityRef : Optional(Hashes), intent : Names, intentIsUri : BOOLEAN,
     attestedAt : Times, signer : Optional(Keys), kid : Kids]

\* The descriptive fields of a binding (slot, media type, length, file name and
\* digest of the plaintext) travel with its id.
AttachmentBindingDetails ==
    [id : Names, payloadContentHash : Contents, priorBindingHash : Optional(Hashes)]

SupersedesChainIdDetails == [chainId : Scopes, checkpointHash : Contents]

PostureDeclaration == [digest : Contents, admitsUnverified : BOOLEAN]

\* The protected header and signature of one ParsedSign1 with the EventDetails
\* of its payload.  signer is the key that made the signature, or None.
EventRecord ==
    [kid : Kids, suite : BOOLEAN, signer : Optional(Keys),
     malformed : BOOLEAN, scope : Scopes, sequence : Nat,
     prevHash : Optional(Hashes), hash : Hashes,
     idempotencyKey : IdempotencyKeys, keyLength : Nat,
     authoredAt : Times, eventType : STRING, classification : STRING,
     contentHash : Contents, inline : Optional(Contents),
     authorHash : Contents, authorPreimage : Optional(Contents),
     wraps : SUBSET Kids, subject : Optional(Names),
     principal : Optional(Names), response : Optional(Contents), responseMalformed : BOOLEAN,
     transition : Optional(TransitionDetails),
     erasure : Optional(ErasureEvidenceDetails),
     certificate : Optional(CertificateDetails),
     attestation : Optional(UserContentAttestationDetails),
     binding : Optional(AttachmentBindingDetails),
     supersedes : Optional(SupersedesChainIdDetails)]

\* The arguments of one call.  blobs maps a content hash to the digest of the
\* stored bytes; initialPosture holds the two states the initial declaration
\* yields, None where it names none.
Input ==
    [ledger : Seq(EventRecord), registry : Registries, nonSigning : NonSigningRegistries,
     initialPosture : Optional([TransitionKinds -> Optional(Names)]),
     declaration : Optional(PostureDeclaration), classifyTamper : BOOLEAN,
     expectedScope : Optional(Scopes), blobs : Optional([Contents -> Optional(Contents)]),
     admittedTypes : SUBSET STRING]

-----------------------------------------------------------------------------
(* Checks that read one event and the registry, in the order the loop runs. *)

KeyOf(in, e) == in.registry[e.kid]

\* Ed25519 over Sig_structure under the key the registry holds for the kid.
SignatureVerifies(in, e) == e.signer = KeyOf(in, e).key

\* custody_rank, and the three ways a transition needs both authorities.
CustodyRank(name) ==
    CASE name = "CM-A" -> 3 [] name = "CM-B" -> 2 [] name = "CM-C" -> 1 [] OTHER -> 0

\* A slip: the ranks are compared the other way round.
RequiresDualAttestationSwapped(t) ==
    IF t.kind = "custody" THEN CustodyRank(t.from) > CustodyRank(t.to)
    ELSE t.scopeChange # "Narrowing"

RequiresDualAttestation(t) ==
    IF t.kind = "custody" THEN CustodyRank(t.to) > CustodyRank(t.from)
    ELSE t.scopeChange # "Narrowing"

\* decode_event_details: the failure kind of a payload that does not decode.
\* Erasure evidence and the certificate are decoded before the attestation.
DecodeError(e) ==
    IF e.malformed THEN "MalformedCose"
    ELSE IF e.keyLength \notin 1..64 THEN "IdempotencyKeyLengthInvalid"
    ELSE IF e.erasure # None /\ e.erasure.destroyedAt > e.authoredAt
         THEN "ErasureDestroyedAtAfterHost"
    ELSE IF e.certificate # None
            /\ ~ /\ e.certificate.signerCount = Len(e.certificate.signingEvents)
                 /\ Len(e.certificate.signerDisplay) = Len(e.certificate.signingEvents)
         THEN "CertificateChainSummaryMismatch"
    ELSE None

Decodes(e) == DecodeError(e) = None

\* The bytes a verifier can read for an event: the inline ciphertext, or the
\* blob stored under the content hash.  The value is the digest of those bytes.
ReadablePayload(in, e) ==
    IF e.inline # None THEN e.inline
    ELSE IF in.blobs # None THEN in.blobs[e.contentHash] ELSE None

\* build_event_details_lookup: the first decodable event of each canonical hash,
\* found by hash or by (scope, sequence).  Both return at most one index.
LookupPool(in) ==
    {i \in DOMAIN in.ledger :
        /\ Decodes(in.ledger[i])
        /\ \A j \in 1..(i - 1) :
              Decodes(in.ledger[j]) => in.ledger[j].hash # in.ledger[i].hash}

ByHash(in, hash) == {i \in LookupPool(in) : in.ledger[i].hash = hash}

AtPosition(in, scope, sequence) ==
    {i \in LookupPool(in) : in.ledger[i].scope = scope /\ in.ledger[i].sequence = sequence}

ByPosition(in, scope, sequence) ==
    {i \in AtPosition(in, scope, sequence) : \A j \in AtPosition(in, scope, sequence) : i <= j}

\* VerificationFailure: where it lies is a digest, or None where the code writes
\* no event's digest.
FailureRecord == [kind : FailureKinds, at : Optional(Hashes)]
Failure(kind, at) == [kind |-> kind, at |-> at]
Flag(condition, kind, at) == IF condition THEN {Failure(kind, at)} ELSE {}

\* The row of a group at which a walk in chain order first meets a value that
\* differs from the group's first row; earlier rows all agree with the first.
FirstDisagreement(value, group, i) ==
    LET earlier == {j \in group : j < i}
    IN  \E v \in {value[j] : j \in earlier} :
            value[i] # v /\ \A j \in earlier : value[j] = v
=============================================================================
