---------------------------- MODULE Certificates ----------------------------
(***************************************************************************)
(* finalize_certificates_of_completion (trellis/certificate.rs): the pass    *)
(* that resolves every certificate's signing events against the whole chain, *)
(* the events whose signature failed included.                               *)
(***************************************************************************)
EXTENDS Records

\* The payloads taken from the events the loop admitted.
Certified(in, chain) == {i \in chain : in.ledger[i].certificate # None}

CertificateGroup(in, chain, i) ==
    {j \in Certified(in, chain) : in.ledger[j].certificate.id = in.ledger[i].certificate.id}

\* The fields two certificates of one id must agree on.
CollisionFields(in, chain) ==
    [i \in Certified(in, chain) |->
        LET c == in.ledger[i].certificate
        IN  <<c.contentHash, c.signingEvents, c.signerCount, c.completedAt, c.workflowStatus>>]

\* A slip: an event resolves whether or not its payload can be read.
SigningEventUnread(in, c, k) == ByHash(in, c.signingEvents[k])

\* The signing event k of certificate c, if it resolves to a readable event.
SigningEvent(in, c, k) ==
    {j \in ByHash(in, c.signingEvents[k]) : ReadablePayload(in, in.ledger[j]) # None}

\* A slip: one signing event that resolves is enough.
UnresolvedTogether(in, c) ==
    {k \in DOMAIN c.signingEvents :
        \A l \in DOMAIN c.signingEvents : SigningEvent(in, c, l) = {}}

Unresolved(in, c) == {k \in DOMAIN c.signingEvents : SigningEvent(in, c, k) = {}}

PrincipalMismatch(in, c) ==
    \E k \in DOMAIN c.signingEvents : \E j \in SigningEvent(in, c, k) :
        in.ledger[j].principal \notin {None, c.signerDisplay[k].principal}

TimestampMismatches(in, c) ==
    {k \in DOMAIN c.signingEvents : \E j \in SigningEvent(in, c, k) :
        c.signerDisplay[k].signedAt # in.ledger[j].authoredAt}

\* What the resolver reads from the payload of signing event k: a response hash,
\* nothing, or a malformed digest.  The walk stops at the first event that matches.
Responses(in, c, k) == {in.ledger[j].response : j \in SigningEvent(in, c, k)} \ {None}

MatchesResponse(in, c, k) == c.responseRef \in Responses(in, c, k)

MalformedResponse(in, c) ==
    /\ c.responseRef # None
    /\ \E k \in DOMAIN c.signingEvents :
          /\ \E j \in SigningEvent(in, c, k) : in.ledger[j].responseMalformed
          /\ \A m \in 1..(k - 1) : ~MatchesResponse(in, c, m)

ResponseMismatch(in, c) ==
    /\ c.responseRef # None
    /\ \E k \in DOMAIN c.signingEvents : Responses(in, c, k) # {}
    /\ \A k \in DOMAIN c.signingEvents : ~MatchesResponse(in, c, k)

\* A slip: the early return on a malformed digest pushes no failure.
ResponseFailuresMismatchOnly(in, c, hash) ==
    Flag(ResponseMismatch(in, c), "ResponseRefMismatch", hash)

ResponseFailures(in, c, hash) ==
         Flag(MalformedResponse(in, c), "MalformedResponseDigest", hash)
    \cup Flag(ResponseMismatch(in, c), "ResponseRefMismatch", hash)

CertificateFailuresAt(in, chain, i) ==
    LET c == in.ledger[i].certificate
        hash == in.ledger[i].hash
    IN       Flag(FirstDisagreement(CollisionFields(in, chain), CertificateGroup(in, chain, i), i),
                  "CertificateIdCollision", hash)
        \cup Flag(~c.wellFormed, "AttestationInsufficient", hash)
        \cup {Failure("SigningEventUnresolved", c.signingEvents[k]) : k \in Unresolved(in, c)}
        \cup Flag(PrincipalMismatch(in, c), "CertificateChainSummaryMismatch", hash)
        \cup {Failure("SigningEventTimestampMismatch", c.signingEvents[k])
              : k \in TimestampMismatches(in, c)}
        \cup ResponseFailures(in, c, hash)

CertificateFailures(in, chain) ==
    UNION {CertificateFailuresAt(in, chain, i) : i \in Certified(in, chain)}

\* attachmentResolved stays true here: the export path alone can lower it.
CertificateOutcomes(in, chain) ==
    {LET c == in.ledger[i].certificate
     IN  [event |-> i, attachmentResolved |-> TRUE,
          allSigningEventsResolved |-> Unresolved(in, c) = {},
          chainSummaryConsistent |->
              /\ c.wellFormed
              /\ ~PrincipalMismatch(in, c) /\ TimestampMismatches(in, c) = {}
              /\ ~MalformedResponse(in, c) /\ ~ResponseMismatch(in, c)]
     : i \in Certified(in, chain)}

CertificateOutcomeOk(o) ==
    o.attachmentResolved /\ o.allSigningEventsResolved /\ o.chainSummaryConsistent
=============================================================================
