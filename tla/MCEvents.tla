------------------------------ MODULE MCEvents ------------------------------
(***************************************************************************)
(* Ledgers about order, links, keys and identities, and about what the passes  *)
(* over a ledger decide: posture, destroyed keys, certificates and             *)
(* attestations, each over its own samples.                                  *)
(***************************************************************************)
EXTENDS EventSet, MCBase

-----------------------------------------------------------------------------
(* Ledgers about signatures, keys, digests, links, order and identities.     *)

At(hash, sequence, prev, at, key) == Event(hash, sequence, prev, at, key, 1)

\* The events whose order and links matter: two chains from 1, a second
\* genesis 2, replays of an identity, and a step back in time.
Linked == <<
    At(1, 0, None, 1, 1),
    At(2, 0, None, 2, 2),
    At(3, 1, 1, 2, 3),
    At(4, 2, 3, 2, 4),
    At(5, 2, 3, 1, 5),
    At(6, 2, 3, 3, 3),
    At(7, 1, None, 1, 6),
    At(8, 0, 1, 2, 7),
    [At(3, 1, 1, 2, 3) EXCEPT !.signer = None] >>

\* One event for every way a single event is refused or just not.
Refused == <<
    [At(11, 0, None, 1, 1) EXCEPT !.kid = "nobody"],
    [At(12, 0, None, 1, 1) EXCEPT !.kid = "subject"],
    [At(13, 0, None, 1, 1) EXCEPT !.suite = FALSE],
    [At(14, 1, 1, 2, 5) EXCEPT !.malformed = TRUE],
    [At(14, 1, 1, 2, 5) EXCEPT !.malformed = TRUE, !.signer = "K2"],
    [At(15, 1, 1, 2, 5) EXCEPT !.keyLength = 0],
    [At(16, 1, 1, 2, 5) EXCEPT !.keyLength = 65],
    [At(17, 1, 1, 2, 5) EXCEPT !.keyLength = 64],
    [At(18, 1, 1, 2, 5) EXCEPT !.kid = "broken", !.signer = "KB"],
    [At(19, 1, 1, 2, 5) EXCEPT !.kid = "revoked", !.signer = "KR"],
    [At(20, 1, 1, 3, 5) EXCEPT !.kid = "revoked", !.signer = "KR"],
    [At(21, 1, 1, 2, 3) EXCEPT !.scope = "s2"],
    [At(22, 1, 1, 2, 5) EXCEPT !.inline = 2],
    [At(23, 1, 1, 2, 5) EXCEPT !.inline = None],
    [At(24, 1, 1, 2, 5) EXCEPT !.inline = None, !.contentHash = 3],
    [At(25, 1, 1, 2, 5) EXCEPT !.authorPreimage = None],
    [At(26, 1, 1, 2, 5) EXCEPT !.authorPreimage = 2] >>

ChainSamples == Linked \o Refused
ASSUME ProducibleAssumption == Producible(ChainSamples)

ChainNames == {"CM-A"}

\* The blob stored under 3 holds the bytes of 2.
ChainBlobs == [content \in EventContents |-> IF content = 3 THEN 2 ELSE None]
InCustody == [kind \in TransitionKinds |-> IF kind = "custody" THEN "CM-A" ELSE None]

ChainLedgers ==
    LedgersOver(DOMAIN Linked, {1, 2, 3}) \cup LedgersOver(DOMAIN ChainSamples, {1, 2})

ChainCalls == {<<"single", <<i>>>> : i \in DOMAIN ChainSamples}
              \cup ({"tampered", "anchored", "export"} \X ChainLedgers)

ChainInputs ==
    [c \in ChainCalls |->
        LET ledger == LedgerOf(ChainSamples, c[2])
        IN  CASE c[1] = "single" -> SingleEvent(ledger[1])
              [] c[1] = "tampered" -> TamperedLedger(ledger, None, None)
              [] c[1] = "anchored" -> TamperedLedger(ledger, InCustody, None)
              [] c[1] = "export" -> Export(ledger, "s1", ChainBlobs)]

-----------------------------------------------------------------------------
(* Ledgers about custody and disclosure transitions.                         *)

Moves(kind, from, to, digest, classes, change) ==
    [Sample(1) EXCEPT !.transition =
        [kind |-> kind, from |-> from, to |-> to, declarationDigest |-> digest,
         attestationClasses |-> classes, scopeChange |-> change]]

Both == {"prior", "new"}

PostureSamples == <<
    Sample(1),
    Moves("custody", "CM-A", "CM-B", 1, {"new"}, ""),
    Moves("custody", "CM-B", "CM-A", 1, Both, ""),
    Moves("custody", "CM-B", "CM-A", 1, {"new"}, ""),
    Moves("custody", "CM-A", "CM-A", 2, {}, ""),
    Moves("custody", "P1", "CM-C", 1, {"prior"}, ""),
    Moves("disclosure", "P1", "P2", 1, {"new"}, "Narrowing"),
    Moves("disclosure", "P2", "P1", 1, Both, "Widening"),
    Moves("disclosure", "P2", "P2", 1, {"new"}, "Orthogonal"),
    Moves("disclosure", "P1", "P1", 2, Both, "unlisted") >>

PostureNames == {"CM-A", "CM-B", "CM-C", "P1", "P2"}

Posture(custody, disclosure) ==
    [kind \in TransitionKinds |-> IF kind = "custody" THEN custody ELSE disclosure]
Initials == {None, Posture("CM-A", "P1"), Posture("CM-B", "P1"), Posture(None, "P2")}
Declarations == {None, [digest |-> 1, admitsUnverified |-> FALSE]}

PostureCalls == Initials \X Declarations \X LedgersOver(DOMAIN PostureSamples, 1..3)
PostureInputs == [c \in PostureCalls |-> TamperedLedger(Chained(PostureSamples, c[3]), c[1], c[2])]

-----------------------------------------------------------------------------
(* Ledgers about destroyed keys: evidence for a signing key, a subject key    *)
(* and an unregistered key, and events that use or wrap for them.             *)

SignedBy(kid, key, at) == [Sample(at) EXCEPT !.kid = kid, !.signer = key]
WrapsFor(kid, at) == [Sample(at) EXCEPT !.wraps = {kid}]

Destroys(kid, class, destroyedAt, at) ==
    [Sample(at) EXCEPT !.erasure =
        [id |-> "name", kid |-> kid, keyClass |-> class, destroyedAt |-> destroyedAt,
         authorities |-> {"new"}, wellFormed |-> TRUE]]

ErasureSamples == <<
    SignedBy("k2", "K2", 2),
    SignedBy("k2", "K2", 3),
    SignedBy("k2", "K1", 3),
    WrapsFor("subject", 1),
    WrapsFor("subject", 3),
    WrapsFor("nobody", 3),
    Destroys("k2", "signing", 2, 2),
    Destroys("k2", "signing", 1, 3),
    Destroys("k2", "subject", 2, 2),
    Destroys("subject", "subject", 2, 3),
    [Destroys("subject", "subject", 2, 2) EXCEPT !.erasure.authorities = {"other"}],
    Destroys("nobody", "recovery", 2, 2),
    Destroys("nobody", "subject", 2, 2),
    [Destroys("k2", "signing", 2, 2) EXCEPT !.erasure.wellFormed = FALSE],
    Destroys("subject", "subject", 3, 2) >>

ErasureNames == {"name"}

ErasureCalls == LedgersOver(DOMAIN ErasureSamples, 1..3)
ErasureInputs == [c \in ErasureCalls |-> TamperedLedger(Chained(ErasureSamples, c), None, None)]

-----------------------------------------------------------------------------
(* Ledgers about certificates of completion: signing events whose payload is  *)
(* inline, supplied, missing or forged, and certificates that name them.      *)

Signs(principal, response) ==
    [Sample(1) EXCEPT !.principal = principal, !.response = response]

\* The signing events are given by their place in the ledger.
Certifies(id, places, signers, response, completedAt) ==
    [Sample(2) EXCEPT !.certificate =
        [id |-> id, contentHash |-> 1, attachmentId |-> "doc", signingEvents |-> places,
         signerCount |-> Len(places),
         signerDisplay |-> [k \in DOMAIN places |-> [principal |-> signers[k], signedAt |-> 1]],
         responseRef |-> response, completedAt |-> completedAt, workflowStatus |-> "done",
         wellFormed |-> TRUE]]

CertificateSamples == <<
    Signs("ann", 5),
    Signs("bob", 6),
    [Signs("ann", 5) EXCEPT !.signer = None],
    [Signs("ann", 5) EXCEPT !.inline = None, !.contentHash = 3],
    [Signs("ann", None) EXCEPT !.responseMalformed = TRUE],
    Certifies("c1", <<1>>, <<"ann">>, 5, 2),
    Certifies("c1", <<1>>, <<"ann">>, 5, 3),
    Certifies("c2", <<1, 2>>, <<"ann", "bob">>, 6, 2),
    Certifies("c2", <<2, 1>>, <<"bob", "ann">>, None, 2),
    Certifies("c3", <<2>>, <<"ann">>, 5, 2),
    [Certifies("c1", <<1>>, <<"ann">>, 5, 2) EXCEPT !.certificate.signerDisplay[1].signedAt = 2],
    [Certifies("c3", <<1>>, <<"ann">>, None, 2) EXCEPT !.certificate.wellFormed = FALSE],
    [Certifies("c3", <<1>>, <<"ann">>, None, 2) EXCEPT !.certificate.signerCount = 2] >>

CertificateNames == {"ann", "bob", "c1", "c2", "c3", "doc", "done"}

\* The archive holds the payload stored under 3.
CertificateBlobs == [content \in EventContents |-> IF content = 3 THEN 3 ELSE None]

\* The same events, each opening a chain of its own.
Unlinked(ledger) ==
    <<>> \o [k \in DOMAIN ledger |-> [ledger[k] EXCEPT !.sequence = 0, !.prevHash = None]]

CertificateCalls == {"tampered", "unlinked", "export"} \X LedgersOver(DOMAIN CertificateSamples, 1..3)
CertificateInputs ==
    [c \in CertificateCalls |->
        LET ledger == Chained(CertificateSamples, c[2])
        IN  CASE c[1] = "tampered" -> TamperedLedger(ledger, None, None)
              [] c[1] = "unlinked" -> TamperedLedger(Unlinked(ledger), None, None)
              [] c[1] = "export" -> Export(ledger, "s1", CertificateBlobs)]

-----------------------------------------------------------------------------
(* Ledgers about user-content attestations: an identity event, the event that *)
(* is attested, and attestations of it that each break one rule.              *)

Proves(type) == [Sample(1) EXCEPT !.eventType = type, !.subject = "user"]

\* The attested event, at the given sequence, and the identity proof are given
\* by their place in the ledger.
Attests(place, proof) ==
    [Sample(2) EXCEPT !.attestation =
        [id |-> "a", eventHash |-> place, position |-> place - 1, attestor |-> "user",
         identityRef |-> proof, intent |-> "urn:intent", intentIsUri |-> TRUE,
         attestedAt |-> 2, signer |-> "K1", kid |-> "k1"]]

AttestationSamples == <<
    Proves(IdentityEventType),
    Proves("admitted"),
    [Proves(IdentityEventType) EXCEPT !.scope = "s2"],
    [Proves("unlisted") EXCEPT !.signer = None],
    [Proves("admitted") EXCEPT !.signer = None],
    Attests(2, 1),
    Attests(1, None),
    [Attests(1, None) EXCEPT !.attestation.id = "b", !.attestation.kid = "late",
                             !.attestation.signer = "KL"],
    [Attests(1, None) EXCEPT !.attestation.attestor = "urn:trellis:operator:x"],
    [Attests(1, None) EXCEPT !.attestation.kid = "nobody"],
    [Attests(1, None) EXCEPT !.attestation.kid = "revoked", !.attestation.signer = "KR"],
    [Attests(2, 1) EXCEPT !.attestation.signer = "K2"],
    [Attests(2, 1) EXCEPT !.attestation.position = 0],
    [Attests(2, 2) EXCEPT !.attestation.position = 1],
    [Attests(2, 1) EXCEPT !.attestation.attestor = "other"],
    [Attests(2, 1) EXCEPT !.attestation.intentIsUri = FALSE],
    [Attests(1, None) EXCEPT !.attestation.attestedAt = 1, !.attestation.intentIsUri = FALSE],
    [Attests(1, None) EXCEPT !.authoredAt = 1, !.attestation.attestedAt = 1,
                             !.attestation.kid = "late", !.attestation.signer = "KL"] >>

AttestationNames == {"user", "other", "a", "b", "urn:intent", "urn:trellis:operator:x"}

Admitting == [digest |-> 2, admitsUnverified |-> TRUE]

AttestationCalls == {None, Admitting} \X LedgersOver(DOMAIN AttestationSamples, 1..3)
AttestationInputs == [c \in AttestationCalls |-> TamperedLedger(Chained(AttestationSamples, c[2]), None, c[1])]

-----------------------------------------------------------------------------
(* Ledgers in which an identity event opens a chain of its own, before or     *)
(* after the attestation that rests on it.                                   *)

\* The identity event 1 is written first, by a producer that starts a ledger.
IdentitySamples == <<
    [At(1, 0, None, 2, 1) EXCEPT !.eventType = IdentityEventType, !.subject = "user"],
    At(2, 0, None, 2, 2),
    At(3, 1, 2, 2, 3),
    [At(4, 2, 3, 2, 4) EXCEPT !.attestation =
        [id |-> "a", eventHash |-> 3, position |-> 1, attestor |-> "user",
         identityRef |-> 1, intent |-> "urn:intent", intentIsUri |-> TRUE,
         attestedAt |-> 2, signer |-> "K1", kid |-> "k1"]] >>

IdentityCalls == LedgersOver(DOMAIN IdentitySamples, {4})
IdentityInputs == [c \in IdentityCalls |-> TamperedLedger(LedgerOf(IdentitySamples, c), None, None)]

-----------------------------------------------------------------------------
\* The largest digest is the one of three attestation samples; those of the chain
\* samples are below 27.
MCHashes == DigestsUpTo(AttestationSamples, 3)
MCContents == EventContents
MCIdempotencyKeys == 0..7
MCNames ==
    ChainNames \cup PostureNames \cup ErasureNames \cup CertificateNames \cup AttestationNames

LinkCalls == {"chain"} \X ChainCalls
LinkInputs == [c \in LinkCalls |-> ChainInputs[c[2]]]

MCCalls ==
    LinkCalls \cup ({"posture"} \X PostureCalls) \cup ({"erasure"} \X ErasureCalls)
    \cup ({"certificate"} \X CertificateCalls) \cup ({"attestation"} \X AttestationCalls)

MCInputs ==
    [c \in MCCalls |->
        CASE c[1] = "chain" -> ChainInputs[c[2]]
          [] c[1] = "posture" -> PostureInputs[c[2]]
          [] c[1] = "erasure" -> ErasureInputs[c[2]]
          [] c[1] = "certificate" -> CertificateInputs[c[2]]
          [] c[1] = "attestation" -> AttestationInputs[c[2]]]
=============================================================================
