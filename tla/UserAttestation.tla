-------------------------- MODULE UserAttestation --------------------------
(***************************************************************************)
(* finalize_user_content_attestations (trellis/user_attestation.rs): the     *)
(* pass that binds each user's attestation to the event it attests, to an    *)
(* identity proof and to a key that is active.                               *)
(***************************************************************************)
EXTENDS Records

Attested(in, chain) == {i \in chain : in.ledger[i].attestation # None}

AttestationGroup(in, chain, i) ==
    {j \in Attested(in, chain) : in.ledger[j].attestation.id = in.ledger[i].attestation.id}

AttestationFields(in, chain) ==
    [i \in Attested(in, chain) |->
        LET a == in.ledger[i].attestation
        IN  <<a.eventHash, a.position, a.attestor, a.identityRef, a.intent, a.attestedAt>>]

\* Step 2, decided while decoding: the timestamp first, then the intent URI.
StepTwoFailure(e) ==
    IF e.attestation.attestedAt # e.authoredAt THEN "UserContentAttestationTimestampMismatch"
    ELSE IF ~e.attestation.intentIsUri THEN "UserContentAttestationIntentMalformed"
    ELSE None

\* Step 3: the first event at (own scope, position) is the attested one.
PositionResolves(in, e) ==
    \E j \in ByPosition(in, e.scope, e.attestation.position) :
        in.ledger[j].hash = e.attestation.eventHash

\* A signature-failed event is decoded again without the validator's taxonomy,
\* so it carries a subject only for the built-in identity event type.
IdentityEventType == "x-trellis-test/identity-attestation/v1"
SubjectOf(in, chain, j) ==
    IF j \in chain \/ in.ledger[j].eventType = IdentityEventType
    THEN in.ledger[j].subject ELSE None

\* Step 4: the kind of failure of the identity proof, None when it holds.
IdentityFailure(in, chain, e) ==
    LET a == e.attestation
        Unresolved(j) == \/ in.ledger[j].eventType \notin {IdentityEventType} \cup in.admittedTypes
                         \/ in.ledger[j].scope # e.scope
    IN  IF a.identityRef = None
        THEN IF in.declaration # None /\ in.declaration.admitsUnverified
             THEN None ELSE "UserContentAttestationIdentityRequired"
        ELSE IF \A j \in ByHash(in, a.identityRef) : Unresolved(j)
        THEN "UserContentAttestationIdentityUnresolved"
        ELSE IF \A j \in ByHash(in, a.identityRef) : in.ledger[j].sequence >= a.position
        THEN "UserContentAttestationIdentityTemporalInversion"
        ELSE IF \A j \in ByHash(in, a.identityRef) : SubjectOf(in, chain, j) # a.attestor
        THEN "UserContentAttestationIdentitySubjectMismatch"
        ELSE None

\* A slip: a rotating key is taken for an active one.
KeyAdmitsRotating(entry, at) ==
    /\ entry.validTo = None \/ at <= entry.validTo
    /\ entry.status \in {0, 1}

\* Step 6: an active key, or a rotating one from its valid_from on.
KeyAdmits(entry, at) ==
    /\ entry.validTo = None \/ at <= entry.validTo
    /\ \/ entry.status = 0
       \/ entry.status = 1 /\ entry.validFrom # None /\ entry.validFrom <= at

KeyActive(in, a) ==
    in.registry[a.kid] # None /\ KeyAdmits(in.registry[a.kid], a.attestedAt)

\* Step 5, skipped when the key is not active.
AttestationSignatureOk(in, a) == KeyActive(in, a) => a.signer = in.registry[a.kid].key

\* A slip: a key that is not active only skips the signature check.
KeyFailuresSignatureOnly(in, e) ==
    Flag(~AttestationSignatureOk(in, e.attestation),
         "UserContentAttestationSignatureInvalid", e.hash)

KeyFailures(in, e) ==
         Flag(~KeyActive(in, e.attestation), "UserContentAttestationKeyNotActive", e.hash)
    \cup Flag(~AttestationSignatureOk(in, e.attestation),
              "UserContentAttestationSignatureInvalid", e.hash)

AttestationFailuresAt(in, chain, i) ==
    LET e == in.ledger[i]
        a == e.attestation
        identity == IdentityFailure(in, chain, e)
        identityAt == IF identity = "UserContentAttestationIdentityRequired"
                      THEN e.hash ELSE a.identityRef
    IN  Flag(FirstDisagreement(AttestationFields(in, chain), AttestationGroup(in, chain, i), i),
             "UserContentAttestationIdCollision", e.hash)
        \cup IF StepTwoFailure(e) # None THEN {Failure(StepTwoFailure(e), e.hash)}
             ELSE Flag(a.attestor \in OperatorNames,
                       "UserContentAttestationOperatorInUserSlot", e.hash)
             \cup Flag(~PositionResolves(in, e),
                       "UserContentAttestationChainPositionMismatch", e.hash)
             \cup Flag(identity # None, identity, identityAt)
             \cup KeyFailures(in, e)

AttestationFailures(in, chain) ==
    UNION {AttestationFailuresAt(in, chain, i) : i \in Attested(in, chain)}

\* The four booleans stay true when step 2 fails: the steps were not run.
AttestationOutcomes(in, chain) ==
    {LET e == in.ledger[i]
         run == StepTwoFailure(e) = None
     IN  [event |-> i,
          chainPositionResolved |-> run => PositionResolves(in, e),
          identityResolved |-> run => IdentityFailure(in, chain, e) = None,
          signatureVerified |-> run => AttestationSignatureOk(in, e.attestation),
          keyActive |-> run => KeyActive(in, e.attestation)]
     : i \in Attested(in, chain)}

AttestationOutcomeOk(o) ==
    o.chainPositionResolved /\ o.identityResolved /\ o.signatureVerified /\ o.keyActive
=============================================================================
