------------------------------ MODULE Sealing ------------------------------
(***************************************************************************)
(* default_seal_input (integrity-seam) and default_async_sign                 *)
(* (integrity-cose): what is to be signed is built first, under the key the   *)
(* application holds then, and signed across an await, under the key it       *)
(* holds by then.                                                            *)
(***************************************************************************)
EXTENDS PrimitiveCalls

CONSTANTS
    Sealers,       \* tasks that seal
    SigningKeys,   \* Ed25519 keys the application may hold
    CodeUnits,     \* the bytes of tags and documents
    NUL,           \* the byte 0
    SealRequests,  \* what they seal: a domain tag and a canonical JSON document
    MalformedKid   \* a kid that is not the hex of 16 bytes

\* RFC 8785 escapes U+0000; a tag is any string.
ASSUME SealingAssumption ==
    /\ NUL \in CodeUnits
    /\ SealRequests \subseteq [domain : Seq(CodeUnits), document : Seq(CodeUnits)]
    /\ \A request \in SealRequests :
          \A i \in DOMAIN request.document : request.document[i] # NUL
    /\ MalformedKid \notin SigningKeys

VARIABLES
    held,        \* the signing key the application holds
    sealing,     \* task -> the SealInput it awaits a signature for
    envelopes    \* the SealedEnvelopes made, with the request of each

sealVars == <<held, sealing, envelopes>>

\* A slip: the tag runs into the document.
Unseparated(domain, document) == domain \o document

\* domain || NUL || JCS(payload).
DomainSeparated(domain, document) == domain \o <<NUL>> \o document

\* A kid is the truncated hash of the key: it stands for that key.
DefaultSealInput(domain, document, key) ==
    [domain |-> domain, document |-> document, requestedUnder |-> key,
     bytes |-> DomainSeparated(domain, document), kid |-> key]

SealInit ==
    /\ held \in SigningKeys
    /\ sealing = [s \in Sealers |-> None]
    /\ envelopes = {}

\* SealInputBuilder is a trait: a builder of the application's own may give a kid
\* that default_async_sign cannot decode.
BuildSealInput(s, request, kidReadable) ==
    LET input == DefaultSealInput(request.domain, request.document, held)
    IN  /\ sealing[s] = None /\ StartCall
        /\ sealing' = [sealing EXCEPT ![s] =
              IF kidReadable THEN input ELSE [input EXCEPT !.kid = MalformedKid]]
        /\ UNCHANGED <<held, envelopes>>

\* External: the application takes up another key.
RotateKey(key) ==
    /\ StartCall
    /\ held' = key /\ held # key
    /\ UNCHANGED <<sealing, envelopes>>

\* A slip: the header names the key that signs.
KidOfSigner(input) == held

KidInHeader(input) == input.kid

\* The signature covers the header and the bytes.
Envelope(input) ==
    [headerKid |-> KidInHeader(input), kid |-> input.kid, domain |-> input.domain,
     bytes |-> input.bytes, hash |-> input.bytes, signer |-> held,
     document |-> input.document, requestedUnder |-> input.requestedUnder]

\* A slip: a kid that does not decode leaves the future pending.
SignReadable(s) ==
    /\ sealing[s] # None /\ sealing[s].kid # MalformedKid
    /\ sealing' = [sealing EXCEPT ![s] = None]
    /\ envelopes' = envelopes \cup {Envelope(sealing[s])}
    /\ UNCHANGED <<calls, held>>

\* default_async_sign: such a kid is an Err.
AsyncSign(s) ==
    /\ sealing[s] # None
    /\ sealing' = [sealing EXCEPT ![s] = None]
    /\ envelopes' = IF sealing[s].kid = MalformedKid THEN envelopes
                    ELSE envelopes \cup {Envelope(sealing[s])}
    /\ UNCHANGED <<calls, held>>

SealStep(s) ==
    \/ \E request \in SealRequests, kidReadable \in BOOLEAN :
          BuildSealInput(s, request, kidReadable)
    \/ AsyncSign(s)

SealNext == (\E s \in Sealers : SealStep(s)) \/ (\E key \in SigningKeys : RotateKey(key))

\* The sealing tasks by themselves; Primitives.tla has them among others.
SealSpec == calls = 0 /\ SealInit /\ [][SealNext]_<<calls, sealVars>>

-----------------------------------------------------------------------------
(* Properties. *)

\* The event-set verifier, with a registry that lists every key under its own kid.
VerifierAccepts(envelope) == envelope.signer = envelope.headerKid

\* Two envelopes have one hash only if they seal one document under one tag: no choice
\* of tags lets a document pass for another one's.
OneHashOneRequest ==
    \A a, b \in envelopes :
        a.hash = b.hash => a.domain = b.domain /\ a.document = b.document

\* Keys may be rotated while a task awaits its signature.  What the verifier accepts
\* is then still signed by the key the input was built for; an input that outlived
\* its key yields an envelope that is refused.
AcceptedUnderRequestedKey ==
    \A envelope \in envelopes :
        VerifierAccepts(envelope) <=> envelope.signer = envelope.requestedUnder
=============================================================================
