----------------------------- MODULE CoSigning -----------------------------
(***************************************************************************)
(* The commitments of integrity-canonical over one Formspec Response that     *)
(* several people sign: a signed payload leaves out the signatures collected  *)
(* so far, a handoff hash covers them.  Each signer reads the response,       *)
(* builds a digest and attaches it later, while others do the same.           *)
(***************************************************************************)
EXTENDS PrimitiveCalls

CONSTANTS CoSigners, Answers, Algorithms, UnknownAlgorithm

ASSUME CoSigningAssumption == UnknownAlgorithm \notin Algorithms /\ None \notin Answers

VARIABLES
    response,   \* the Response all see
    drafts,     \* signer -> the payload it built and has not attached yet
    handoffs    \* the hashes handed off, each with the response it is of

coVars == <<response, drafts, handoffs>>

\* A slip: the signatures stay in.
Unstripped(document) == document

\* canonicalize_response.
CanonicalizeResponse(document) == [document EXCEPT !.signatures = <<>>]

\* domain_separated_canonical_bytes under the crate's two tags.
Separated(domain, document) == <<domain, document>>

SignedPayloadBytes(document) == Separated("signed-payload", CanonicalizeResponse(document))

HandoffBytes(document) == Separated("handoff", document)

Digest(bytes, algorithm) == <<algorithm, bytes>>

\* verify_signed_payload_digest; None is its Err.
VerifySignedPayloadDigest(document, digest, algorithm) ==
    IF algorithm \notin Algorithms THEN None
    ELSE Digest(SignedPayloadBytes(document), algorithm) = digest

CoInit ==
    /\ \E answers \in Answers : response = [answers |-> answers, signatures |-> <<>>]
    /\ drafts = [c \in CoSigners |-> None]
    /\ handoffs = {}

BuildSignedPayload(c, algorithm) ==
    /\ drafts[c] = None
    /\ StartCall
    /\ drafts' = [drafts EXCEPT ![c] =
          [algorithm |-> algorithm, over |-> response.answers,
           digest |-> Digest(SignedPayloadBytes(response), algorithm)]]
    /\ UNCHANGED <<response, handoffs>>

\* External: the signature joins authoredSignatures, naming the algorithm or one
\* the reader does not know.
AttachSignature(c, named) ==
    /\ drafts[c] # None
    /\ named \in {drafts[c].algorithm, UnknownAlgorithm}
    /\ response' = [response EXCEPT !.signatures =
          Append(@, [signer |-> c, algorithm |-> named, over |-> drafts[c].over,
                     digest |-> drafts[c].digest])]
    /\ drafts' = [drafts EXCEPT ![c] = None]
    /\ UNCHANGED <<calls, handoffs>>

\* External: somebody changes an answer; the signatures stay attached.
Amend(answers) ==
    /\ StartCall
    /\ answers # response.answers
    /\ response' = [response EXCEPT !.answers = answers]
    /\ UNCHANGED <<drafts, handoffs>>

HandOff(algorithm) ==
    /\ StartCall
    /\ handoffs' = handoffs \cup {[of |-> response, algorithm |-> algorithm,
                                   hash |-> Digest(HandoffBytes(response), algorithm)]}
    /\ UNCHANGED <<response, drafts>>

CoStep(c) ==
    \/ \E algorithm \in Algorithms : BuildSignedPayload(c, algorithm)
    \/ \E named \in Algorithms \cup {UnknownAlgorithm} : AttachSignature(c, named)

ResponseStep ==
    \/ \E answers \in Answers : Amend(answers)
    \/ \E algorithm \in Algorithms : HandOff(algorithm)

CoNext == (\E c \in CoSigners : CoStep(c)) \/ ResponseStep

\* The co-signers by themselves; Primitives.tla has them among others.
CoSpec == calls = 0 /\ CoInit /\ [][CoNext]_<<calls, coVars>>

-----------------------------------------------------------------------------
(* Properties. *)

\* Every signature attached so far verifies exactly while the answers are those its
\* signer read, however many signatures were attached before and after it and in
\* whatever order they were built; an amendment ends all of them, and undoing it
\* restores them.
CoSignaturesStand ==
    \A i \in DOMAIN response.signatures :
        LET signature == response.signatures[i]
        IN  VerifySignedPayloadDigest(response, signature.digest, signature.algorithm) =
              IF signature.algorithm = UnknownAlgorithm THEN None
              ELSE signature.over = response.answers

\* A handoff hash holds for the response only as it was handed off, signatures
\* included, and never passes for the digest of a signed payload.
HandoffsPinTheResponse ==
    \A h \in handoffs :
        /\ (Digest(HandoffBytes(response), h.algorithm) = h.hash) = (h.of = response)
        /\ VerifySignedPayloadDigest(response, h.hash, h.algorithm) = FALSE
=============================================================================
