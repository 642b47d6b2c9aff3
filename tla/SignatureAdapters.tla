------------------------- MODULE SignatureAdapters -------------------------
(***************************************************************************)
(* The two implementations of the signature port on one request: RingVerifier *)
(* (Rust, one synchronous call) and WebCryptoVerifier (TypeScript, a call     *)
(* cut by awaits into turns of the event loop).  Both dispatch on a method    *)
(* registry, resolve a key, and bind the envelope to the request before a     *)
(* primitive runs.  While the TypeScript call is suspended other turns run,   *)
(* and one of them may rebind a key identifier.                              *)
(*                                                                           *)
(* Bytes are abstracted.  An envelope is what its header says as written and   *)
(* the decoders that read it, a key its length, its modulus and the one        *)
(* algorithm whose primitive can read it, a signature the key that made it and *)
(* what it was made over.  The two decoders and the two primitives differ in   *)
(* three things, which are kept: the items a decoder reads, a mark before a   *)
(* text, and the RSA moduli a primitive takes.                                *)
(***************************************************************************)
EXTENDS Integers, Sequences, SequencesExt

CONSTANTS
    None,         \* an absent value
    Kids,         \* COSE key identifiers
    Keys,         \* public keys: [name, size, sec1, alg, bits], bits the modulus
    Methods,      \* method URIs
    WithoutMark,  \* a method URI without the U+FEFF that stands before it, if any
    OwnMethods,   \* the method URIs below the adapters' configured prefix
    Requests,     \* the requests made
    Registries,   \* the method registries requests are made against
    Resolvers,    \* what a resolver knows when it is given to an adapter
    Inserts,      \* the bindings other turns may insert
    MaxBinds      \* bound: rebindings of a key identifier during a call

ASSUME SignatureAssumption ==
    /\ OwnMethods \subseteq Methods
    /\ None \notin Kids /\ None \notin Keys /\ None \notin Methods
    /\ Inserts \subseteq Kids \X Keys
    /\ MaxBinds \in Nat
    /\ None \notin Int
    /\ WithoutMark \in [Methods -> Methods]
    /\ \A r \in Resolvers : DOMAIN r \subseteq Kids /\ Range(r) \subseteq Keys
    /\ \A r \in Registries : r.entries \in Seq(Range(r.entries))

VARIABLES
    request,    \* VerifyRequest: [signed, envelope, method, ref]
    registry,   \* MethodRegistry: [version, entries]
    config,     \* how the Rust adapter was constructed: [resolves, signer]
    bindings,   \* the resolver's map from identifiers to keys
    binds,      \* how often an identifier was rebound
    known,      \* what each adapter's resolver knew when the call was made
    ring,       \* the Rust call: Waiting, or its answer
    web         \* the TypeScript call: [turn, key, answer]

vars == <<request, registry, config, bindings, binds, known, ring, web>>

-----------------------------------------------------------------------------
\* The port.

Algorithms == {-8, -7, -37}

\* The first entry of the method, or None.
EntryIn(entries, method) ==
    LET found == SelectInSeq(entries, LAMBDA e : e.id = method)
    IN  IF found = 0 THEN None ELSE entries[found]

NamedEntry == EntryIn(registry.entries, request.method)

\* A key named by its identifier is looked up; a raw key is taken as it is.
Resolve(ref, table) ==
    IF ref.kind = "raw" THEN ref.key
    ELSE IF ref.kid \in DOMAIN table THEN table[ref.kid] ELSE None

FitsLength(alg, key) ==
    CASE alg = -8  -> key.size = 32
      [] alg = -7  -> key.size = 65 /\ key.sec1
      [] alg = -37 -> key.size >= 100
      [] OTHER     -> TRUE

\* TextDecoder drops a mark before the text; the crate keeps the text as written.
MethodRead(adapter, envelope) ==
    IF adapter = "web" /\ envelope.method # None THEN WithoutMark[envelope.method]
    ELSE envelope.method

\* The package refuses heads of 64 bits and of no length, floats and undefined; the
\* crate's decoder (external) what nests too deep for it.
ReadsItems(adapter, envelope) == adapter \in envelope.readers

\* Both decoders ask for a method URI below the prefix the adapter was given.
Decodes(adapter, envelope) ==
    /\ envelope # None
    /\ ReadsItems(adapter, envelope)
    /\ MethodRead(adapter, envelope) \in OwnMethods

BindsMethod(adapter, rq) == MethodRead(adapter, rq.envelope) = rq.method

BindsAlg(rq, alg) == rq.envelope.alg = alg

\* Slip: a header without an identifier binds to any.
LenientBindsKid(rq) ==
    rq.ref.kind = "kid" => rq.envelope.kid \in {None, rq.ref.kid}

BindsKid(rq) == rq.ref.kind = "kid" => rq.envelope.kid = rq.ref.kid

Bound(adapter, rq, alg) == BindsMethod(adapter, rq) /\ BindsAlg(rq, alg) /\ BindsKid(rq)

\* Slip: an embedded payload is taken for the one supplied.
EmbeddedPayloadWins(rq) == TRUE

\* An embedded payload must be the one supplied.
ResolvesPayload(rq) == rq.envelope.payload \in {None, rq.signed}

\* Sig_structure: the protected header as it is written, and the payload.
SigStructure(envelope, payload) ==
    <<envelope.alg, envelope.kid, envelope.method, payload>>

\* RSA_PSS_2048_8192_SHA256 wants a modulus of its range; WebCrypto takes any.
TakesModulus(adapter, alg, key) ==
    adapter = "ring" /\ alg = -37 => key.bits \in 2048..8192

\* External: the primitive of the algorithm, on a key it can read and takes.
Verifies(adapter, rq, alg, key) ==
    /\ key.alg = alg /\ TakesModulus(adapter, alg, key)
    /\ rq.envelope.signature =
         [by |-> key.name, over |-> SigStructure(rq.envelope, rq.signed)]

\* What both adapters put on a receipt.
Receipt(result) ==
    [result  |-> result, method |-> request.method,
     version |-> registry.version, key |-> request.ref, bytes |-> None]

\* A call answers with a receipt, or with an error when it reached no verdict.
Verdicts == {"verified", "failed", "unsupported"}
Error(code) == [result |-> code]
Waiting == None

-----------------------------------------------------------------------------
\* RingVerifier.

\* Only the literal status "registered" goes on.
RingUses(e) == e # None /\ e.status = "registered"

\* A verifier built with a signer has the empty resolver.
RingKnown == IF config.resolves THEN bindings ELSE [kid \in {} |-> None]

\* This decoder refuses a header without an algorithm.
RingDecodes(envelope) == Decodes("ring", envelope) /\ envelope.alg # None

\* Slip: one port wants a byte more of an RSA key than the other.
StricterRingVerdict(rq, alg, key) ==
    IF alg \notin Algorithms \/ ~FitsLength(alg, key) \/ (alg = -37 /\ key.size <= 100)
    THEN "unsupported"
    ELSE IF ~RingDecodes(rq.envelope) THEN "invalid_cose"
    ELSE IF ~Bound("ring", rq, alg) THEN "unsupported"
    ELSE IF ~ResolvesPayload(rq) THEN "invalid_cose"
    ELSE IF Verifies("ring", rq, alg, key) THEN "verified" ELSE "failed"

RingVerdict(rq, alg, key) ==
    IF alg \notin Algorithms \/ ~FitsLength(alg, key) THEN "unsupported"
    ELSE IF ~RingDecodes(rq.envelope) THEN "invalid_cose"
    ELSE IF ~Bound("ring", rq, alg) THEN "unsupported"
    ELSE IF ~ResolvesPayload(rq) THEN "invalid_cose"
    ELSE IF Verifies("ring", rq, alg, key) THEN "verified" ELSE "failed"

\* compute_receipt, up to the receipt.
RingReaches ==
    LET e == NamedEntry
        key == Resolve(request.ref, RingKnown)
    IN  IF ~RingUses(e) THEN "unsupported"
        ELSE IF key = None THEN "internal"
        ELSE RingVerdict(request, e.alg, key)

\* The in-process signer signs under its kid, and refuses without one.
SignerRefuses(signer) == signer.kid = None

\* Slip: a signer without a kid leaves the receipt unsigned.
DegradingAttached(receipt) ==
    IF config.signer = None \/ SignerRefuses(config.signer) THEN receipt
    ELSE [receipt EXCEPT !.bytes = [kid |-> config.signer.kid, over |-> receipt]]

\* A configured signer signs every receipt; its failure is the call's.
Attached(receipt) ==
    IF config.signer = None THEN receipt
    ELSE IF SignerRefuses(config.signer) THEN Error("internal")
    ELSE [receipt EXCEPT !.bytes = [kid |-> config.signer.kid, over |-> receipt]]

RingVerify ==
    /\ ring = Waiting
    /\ ring' = IF RingReaches \in Verdicts THEN Attached(Receipt(RingReaches))
               ELSE Error(RingReaches)
    /\ known' = [known EXCEPT !["ring"] = RingKnown]
    /\ UNCHANGED <<request, registry, config, bindings, binds, web>>

-----------------------------------------------------------------------------
\* WebCryptoVerifier.

\* Slip: the call answers and goes on.
ReturnAndGoOn(answer) == web' = [web EXCEPT !.answer = answer]

Return(answer) == web' = [turn |-> "done", key |-> web.key, answer |-> answer]

\* A method is refused when unknown or when it is "deprecated".
WebUses(e) == e # None /\ e.status # "deprecated"

\* verify: the registry, then the resolver, which looks the key up at once.
WebCall ==
    /\ web.turn = "call"
    /\ known' = [known EXCEPT !["web"] = bindings]
    /\ LET key == Resolve(request.ref, bindings)
       IN  \/ /\ ~WebUses(NamedEntry)
              /\ Return(Receipt("unsupported"))
           \/ /\ WebUses(NamedEntry)
              /\ key = None
              /\ Return(Error("internal"))
           \/ /\ WebUses(NamedEntry)
              /\ key # None
              /\ web' = [web EXCEPT !.turn = "import", !.key = key]
    /\ UNCHANGED <<request, registry, config, bindings, binds, ring>>

\* importKey reads a key of its algorithm; of a raw Ed25519 key only the length counts.
Imports(key, alg) == alg = -8 \/ key.alg = alg

\* Slip: a key that cannot be imported leaves the call pending.
PendingImport ==
    /\ web.turn = "import"
    /\ LET alg == NamedEntry.alg
           usable == alg \in Algorithms /\ FitsLength(alg, web.key)
       IN  \/ ~usable /\ Return(Receipt("unsupported"))
           \/ usable /\ Imports(web.key, alg) /\ web' = [web EXCEPT !.turn = "check"]
    /\ UNCHANGED <<request, registry, config, bindings, binds, known, ring>>

\* dispatchAlg: a wrong length or algorithm is unsupported; importKey throws for a key
\* it cannot read, and may for any on a platform without the algorithm.
WebImport ==
    /\ web.turn = "import"
    /\ LET alg == NamedEntry.alg
           usable == alg \in Algorithms /\ FitsLength(alg, web.key)
       IN  \/ ~usable /\ Return(Receipt("unsupported"))
           \/ usable /\ Return(Error("internal"))
           \/ usable /\ Imports(web.key, alg) /\ web' = [web EXCEPT !.turn = "check"]
    /\ UNCHANGED <<request, registry, config, bindings, binds, known, ring>>

\* The envelope is decoded and bound; what follows runs inside verdictFromSubtle.
WebBind ==
    /\ web.turn = "check"
    /\ LET bound == /\ Decodes("web", request.envelope)
                    /\ Bound("web", request, NamedEntry.alg)
       IN  \/ ~bound /\ Return(Receipt("unsupported"))
           \/ bound /\ ~ResolvesPayload(request) /\ Return(Error("internal"))
           \/ bound /\ ResolvesPayload(request) /\ web' = [web EXCEPT !.turn = "subtle"]
    /\ UNCHANGED <<request, registry, config, bindings, binds, known, ring>>

\* Slip: the key is looked up again when the primitive runs.
LateVerdict ==
    /\ web.turn = "subtle"
    /\ \/ Return(Error("internal"))
       \/ LET key == Resolve(request.ref, bindings)
          IN  Return(Receipt(IF Verifies("web", request, NamedEntry.alg, key)
                             THEN "verified" ELSE "failed"))
    /\ UNCHANGED <<request, registry, config, bindings, binds, known, ring>>

\* subtle.verify answers, or throws.
WebVerdict ==
    /\ web.turn = "subtle"
    /\ \/ Return(Error("internal"))
       \/ Return(Receipt(IF Verifies("web", request, NamedEntry.alg, web.key)
                         THEN "verified" ELSE "failed"))
    /\ UNCHANGED <<request, registry, config, bindings, binds, known, ring>>

\* StaticKeyResolver.insert, from another turn.
Insert(kid, key) ==
    /\ binds < MaxBinds
    /\ binds' = binds + 1
    /\ bindings' = [k \in DOMAIN bindings \cup {kid} |->
                       IF k = kid THEN key ELSE bindings[k]]
    /\ UNCHANGED <<request, registry, config, known, ring, web>>

-----------------------------------------------------------------------------
\* The constructors give a resolver or a signer, never both.
Configs ==
    {[resolves |-> r, signer |-> None] : r \in BOOLEAN}
    \cup {[resolves |-> FALSE, signer |-> [kid |-> k]] : k \in Kids \cup {None}}

Init ==
    /\ request \in Requests
    /\ registry \in Registries
    /\ config \in Configs
    /\ bindings \in Resolvers
    /\ binds = 0
    /\ known = [adapter \in {"ring", "web"} |-> bindings]
    /\ ring = Waiting
    /\ web = [turn |-> "call", key |-> None, answer |-> Waiting]

Web == WebCall \/ WebImport \/ WebBind \/ WebVerdict

Next ==
    \/ RingVerify
    \/ Web
    \/ \E binding \in Inserts : Insert(binding[1], binding[2])

\* A Rust call returns; the event loop runs the turns of a suspended call.
Fairness == WF_vars(RingVerify) /\ WF_vars(Web)

Spec == Init /\ [][Next]_vars /\ Fairness

-----------------------------------------------------------------------------
\* Properties.

Answer(adapter) == IF adapter = "ring" THEN ring ELSE web.answer

Answered(adapter, results) ==
    Answer(adapter) # Waiting /\ Answer(adapter).result \in results

\* The key the request named when the call was made.
KeyAtCall(adapter) == Resolve(request.ref, known[adapter])

Typed == \A i \in DOMAIN registry.entries :
            registry.entries[i].status \in {"registered", "deprecated"}

\* State and answers have the shapes of the ports.
TypeOK ==
    /\ request \in Requests /\ registry \in Registries /\ config \in Configs
    /\ DOMAIN bindings \subseteq Kids
    /\ \A kid \in DOMAIN bindings : bindings[kid] \in Keys
    /\ binds \in 0..MaxBinds
    /\ web.turn \in {"call", "import", "check", "subtle", "done"}
    /\ web.answer # Waiting => web.turn = "done"
    /\ \A a \in {"ring", "web"} :
          Answer(a) # Waiting => Answer(a).result \in Verdicts \cup {"internal", "invalid_cose"}

CheckedBy(adapter) ==
    LET e == NamedEntry
        key == KeyAtCall(adapter)
    IN  /\ e # None /\ e.status # "deprecated"
        /\ e.alg \in Algorithms
        /\ key # None /\ FitsLength(e.alg, key)
        /\ adapter = "web" => Imports(key, e.alg)
        /\ Decodes(adapter, request.envelope)
        /\ request.envelope.alg = e.alg
        /\ MethodRead(adapter, request.envelope) = request.method
        /\ request.ref.kind = "kid" => request.envelope.kid = request.ref.kid
        /\ request.envelope.payload \in {None, request.signed}

\* "verified" and "failed" are said only of a signature that was checked: the
\* method in use and its algorithm implemented, the key known and of its length,
\* the envelope bound to the request and its payload the one supplied.
VerdictsAreChecked ==
    \A adapter \in {"ring", "web"} :
        Answered(adapter, {"verified", "failed"}) => CheckedBy(adapter)

SignedFor(adapter) ==
    /\ MethodRead(adapter, request.envelope) = request.method
    /\ request.envelope.signature =
         [by |-> KeyAtCall(adapter).name,
          over |-> <<NamedEntry.alg,
                     IF request.ref.kind = "kid" THEN request.ref.kid
                     ELSE request.envelope.kid,
                     request.envelope.method, request.signed>>]

\* "verified" means that the key the request named when the call was made signed
\* the supplied bytes under the identifier the request names and under a method that
\* the adapter reads as the one it names (to TypeScript a mark before it is nothing),
\* whatever the resolver learned while the call was suspended.
VerifiedIsSigned ==
    \A adapter \in {"ring", "web"} :
        Answered(adapter, {"verified"}) => SignedFor(adapter)

\* A method behind U+FEFF is another one to Rust: one of the two turns it down.
ApartByMark ==
    /\ request.envelope # None
    /\ MethodRead("web", request.envelope) # request.envelope.method
    /\ Answered("ring", {"invalid_cose", "unsupported"}) \/ Answered("web", {"unsupported"})

\* An envelope one decoder does not read is refused by that adapter.
ApartByItems ==
    /\ request.envelope # None
    /\ \/ ~ReadsItems("ring", request.envelope) /\ Answered("ring", {"invalid_cose"})
       \/ ~ReadsItems("web", request.envelope) /\ Answered("web", {"unsupported"})

\* A signature under an RSA key ring does not take fails in Rust only.
ApartByModulus ==
    /\ Answered("ring", {"failed"}) /\ Answered("web", {"verified"})
    /\ ~TakesModulus("ring", NamedEntry.alg, KeyAtCall("ring"))

\* On registries of the two statuses the port names, adapters that resolve to one key
\* never verify what the other does not, a throw or a signer's failure aside, and
\* their receipts agree, save in three cases: a method URI behind U+FEFF
\* (integrity-cose/src/index.ts:422), an item only one of the decoders reads
\* (index.ts:462, 491-501), an RSA modulus outside 2048..8192 bits
\* (integrity-signature-ring/src/lib.rs:388).  In each the one that does not verify
\* says so in the one way that is its own.
AdaptersAgree ==
    (Typed /\ ring # Waiting /\ web.answer # Waiting
           /\ KeyAtCall("ring") = KeyAtCall("web")) =>
        \/ ApartByMark \/ ApartByItems \/ ApartByModulus
        \/ /\ Answered("web", {"verified"}) =>
                 \/ Answered("ring", {"verified"})
                 \/ config.signer # None /\ Answered("ring", {"internal"})
           /\ Answered("ring", {"verified"}) => Answered("web", {"verified", "internal"})
           /\ Answered("ring", Verdicts) /\ Answered("web", Verdicts) =>
                 [ring EXCEPT !.bytes = None] = web.answer

\* A verifier built with a signer returns no receipt the signer did not sign, and
\* the signature is over everything the receipt says.
NoUnsignedReceipt ==
    config.signer # None /\ Answered("ring", Verdicts) =>
        ring.bytes \in [kid : Kids, over : {[ring EXCEPT !.bytes = None]}]

\* Every call is answered, by a receipt or an error.
BothAnswer == <>(ring # Waiting /\ web.answer # Waiting)
=============================================================================
