--------------------------- MODULE LedgerClauses ---------------------------
(***************************************************************************)
(* What verify_event_set_with_classes promises of one call, stated over the  *)
(* whole ledger with no loop, no running state and no order of checks.       *)
(* LedgerJudge makes it a specification; the export verifier builds on it.   *)
(***************************************************************************)
EXTENDS Records

Indices(in) == DOMAIN in.ledger

\* An event that ends the call with a fatal report.
Unreadable(in, e) ==
    \/ KeyOf(in, e) = None
    \/ ~e.suite
    \/ /\ SignatureVerifies(in, e)
       /\ \/ ~Decodes(e)
          \/ KeyOf(in, e).status = 3 /\ KeyOf(in, e).validTo = None

\* What must hold of an event on its own.
EventAuthentic(in, e) ==
    /\ SignatureVerifies(in, e)
    /\ KeyOf(in, e).status = 3 => e.authoredAt <= KeyOf(in, e).validTo
    /\ in.expectedScope # None => e.scope = in.expectedScope
    /\ ReadablePayload(in, e) # None => ReadablePayload(in, e) = e.contentHash
    /\ e.authorPreimage # None /\ e.authorPreimage = e.authorHash

EventsAuthentic(in) == \A i \in Indices(in) : EventAuthentic(in, in.ledger[i])

\* An event with sequence 0 opens a chain; every other names its predecessor.
StandsAlone(in) == in.initialPosture # None /\ Len(in.ledger) = 1

ChainLinked(in) ==
    StandsAlone(in) \/
    \A i \in Indices(in) :
        in.ledger[i].prevHash =
            IF in.ledger[i].sequence = 0 \/ i = 1 THEN None ELSE in.ledger[i - 1].hash

TimeOrdered(in) ==
    \A i, j \in Indices(in) : i < j => in.ledger[i].authoredAt <= in.ledger[j].authoredAt

\* One identity, one event.
IdempotencyHolds(in) ==
    \A i, j \in Indices(in) :
        /\ in.ledger[i].scope = in.ledger[j].scope
        /\ in.ledger[i].idempotencyKey = in.ledger[j].idempotencyKey
        => in.ledger[i].hash = in.ledger[j].hash

-----------------------------------------------------------------------------
(* Posture: the transitions of one kind form a path from the declared state. *)

TransitionsOf(in, kind) ==
    {i \in Indices(in) : in.ledger[i].transition # None /\ in.ledger[i].transition.kind = kind}

FollowsFrom(in, kind, i) ==
    LET earlier == {j \in TransitionsOf(in, kind) : j < i}
        from == in.ledger[i].transition.from
    IN  /\ earlier = {} /\ in.initialPosture # None
               => in.initialPosture[kind] \in {None, from}
        /\ \A j \in earlier :
               (\A m \in earlier : m <= j) => in.ledger[j].transition.to = from

PostureHolds(in) ==
    \A kind \in TransitionKinds : \A i \in TransitionsOf(in, kind) :
        LET t == in.ledger[i].transition
        IN  /\ FollowsFrom(in, kind, i)
            /\ in.declaration # None => in.declaration.digest = t.declarationDigest
            /\ RequiresDualAttestation(t) => {"prior", "new"} \subseteq t.attestationClasses

-----------------------------------------------------------------------------
(* Erasure: rows about one kid agree, and a destroyed key is never used or   *)
(* wrapped for by an event authored later.                                   *)

ErasureHolds(in) ==
    \A i \in Indices(in) : in.ledger[i].erasure # None =>
        LET row == in.ledger[i].erasure
        IN  /\ row.wellFormed
            /\ IF in.registry[row.kid] # None THEN row.keyClass = "signing"
               ELSE in.nonSigning[row.kid] \in {None, row.keyClass}
            /\ \A j \in Indices(in) : in.ledger[j].erasure # None =>
                  LET other == in.ledger[j].erasure
                  IN  other.kid = row.kid =>
                        other.destroyedAt = row.destroyedAt /\ other.keyClass = row.keyClass
            /\ row.keyClass \in {"signing", "subject"} =>
                  \A j \in Indices(in) : in.ledger[j].authoredAt > row.destroyedAt =>
                      in.ledger[j].kid # row.kid /\ row.kid \notin in.ledger[j].wraps

-----------------------------------------------------------------------------
(* Certificates: every signing event is in the ledger, readable, and as shown. *)

SameCertificate(c, d) ==
    /\ c.contentHash = d.contentHash /\ c.signingEvents = d.signingEvents
    /\ c.signerCount = d.signerCount /\ c.completedAt = d.completedAt
    /\ c.workflowStatus = d.workflowStatus

Holds(in, j, hash) ==
    in.ledger[j].hash = hash /\ ReadablePayload(in, in.ledger[j]) # None

ShownAsSigned(in, c, k) ==
    \E j \in Indices(in) :
        /\ Holds(in, j, c.signingEvents[k])
        /\ in.ledger[j].principal \in {None, c.signerDisplay[k].principal}
        /\ in.ledger[j].authoredAt = c.signerDisplay[k].signedAt

AnswersWith(in, c, k, response) ==
    \E j \in Indices(in) : Holds(in, j, c.signingEvents[k]) /\ in.ledger[j].response = response

ResponseHolds(in, c) ==
    LET signers == DOMAIN c.signingEvents
        matches(k) == AnswersWith(in, c, k, c.responseRef)
        malformed(k) == \E j \in Indices(in) :
            Holds(in, j, c.signingEvents[k]) /\ in.ledger[j].responseMalformed
    IN  c.responseRef # None =>
          /\ \A k \in signers : malformed(k) => \E m \in signers : m < k /\ matches(m)
          /\ (\E k \in signers : \E r \in Contents : AnswersWith(in, c, k, r)) =>
                \E k \in signers : matches(k)

CertificatesHold(in) ==
    \A i \in Indices(in) : in.ledger[i].certificate # None =>
        LET c == in.ledger[i].certificate
        IN  /\ c.wellFormed
            /\ \A j \in Indices(in) : in.ledger[j].certificate # None =>
                  LET d == in.ledger[j].certificate
                  IN  d.id = c.id => SameCertificate(c, d)
            /\ \A k \in DOMAIN c.signingEvents : ShownAsSigned(in, c, k)
            /\ ResponseHolds(in, c)

-----------------------------------------------------------------------------
(* User attestations: bound to an event of the own scope, to an identity      *)
(* proof about the attestor, and signed under a key in force.                 *)

SameAttestation(a, b) ==
    /\ a.eventHash = b.eventHash /\ a.position = b.position /\ a.attestor = b.attestor
    /\ a.identityRef = b.identityRef /\ a.intent = b.intent /\ a.attestedAt = b.attestedAt

AttestsFirstAt(in, e) ==
    \E j \in Indices(in) :
        LET there(m) == in.ledger[m].scope = e.scope
                        /\ in.ledger[m].sequence = e.attestation.position
        IN  /\ there(j) /\ in.ledger[j].hash = e.attestation.eventHash
            /\ \A m \in 1..(j - 1) : ~there(m)

IdentityProved(in, e) ==
    LET a == e.attestation
    IN  IF a.identityRef = None THEN in.declaration # None /\ in.declaration.admitsUnverified
        ELSE \E j \in Indices(in) :
                LET proof == in.ledger[j]
                IN  /\ proof.hash = a.identityRef /\ proof.scope = e.scope
                    /\ proof.eventType \in {"x-trellis-test/identity-attestation/v1"}
                                           \cup in.admittedTypes
                    /\ proof.sequence < a.position /\ proof.subject = a.attestor

KeyInForce(entry, at) ==
    /\ entry.status \in {0, 1}
    /\ entry.validTo # None => at <= entry.validTo
    /\ entry.status = 1 => entry.validFrom # None /\ entry.validFrom <= at

AttestationsHold(in) ==
    \A i \in Indices(in) : in.ledger[i].attestation # None =>
        LET e == in.ledger[i]
            a == e.attestation
        IN  /\ \A j \in Indices(in) : in.ledger[j].attestation # None =>
                  LET b == in.ledger[j].attestation IN b.id = a.id => SameAttestation(a, b)
            /\ a.attestedAt = e.authoredAt /\ a.intentIsUri
            /\ a.attestor \notin OperatorNames
            /\ AttestsFirstAt(in, e)
            /\ IdentityProved(in, e)
            /\ in.registry[a.kid] # None /\ KeyInForce(in.registry[a.kid], a.attestedAt)
            /\ a.signer = in.registry[a.kid].key

-----------------------------------------------------------------------------
Clean(in) ==
    /\ EventsAuthentic(in)
    /\ ChainLinked(in) /\ TimeOrdered(in) /\ IdempotencyHolds(in)
    /\ PostureHolds(in) /\ ErasureHolds(in) /\ CertificatesHold(in) /\ AttestationsHold(in)

Judgement(in) ==
    IF \E i \in Indices(in) : Unreadable(in, in.ledger[i]) THEN "unreadable"
    ELSE IF Clean(in) THEN "verified" ELSE "tampered"
=============================================================================
