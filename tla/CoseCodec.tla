----------------------------- MODULE CoseCodec -----------------------------
(***************************************************************************)
(* COSE_Sign1 envelopes as the two codecs write and read them: crate          *)
(* integrity-cose and package @formspec-org/integrity-cose.  An envelope is the *)
(* tree of CBOR items its bytes hold.                                        *)
(***************************************************************************)
EXTENDS PrimitiveCalls

CONSTANT Maximum   \* MAX_METHOD_URI_LEN

ASSUME MaximumAssumption == Maximum \in Nat

\* COSE_LABEL_*; "other" is an integer without a meaning, "word" a text.
IntegerLabels == {"alg", "kid", "suite_id", "artifact_type", "retired", "method_uri", "other"}

\* A text is what it says, the bytes it takes, and whether U+FEFF stands before it.
Text(word, size) == [type |-> "text", word |-> word, size |-> size, bom |-> FALSE]
Number(n) == [type |-> "int", n |-> n]
Bytes(v) == [type |-> "bytes", v |-> v]
Null == [type |-> "null"]
Undefined == [type |-> "undefined"]
Float == [type |-> "float"]

\* wide: a head of 64 bits, or an indefinite length.
Entry(label, value) == [label |-> label, value |-> value, wide |-> FALSE]

\* header is None if it is no map in a byte string, fields the number of the body's
\* items.
Sign1(header, payload, signature) ==
    [tag |-> "sign1", fields |-> 4, header |-> header, unprotected |-> "empty",
     payload |-> payload, signature |-> signature, trailing |-> FALSE]

-----------------------------------------------------------------------------
(* Writing, alike in both codecs. *)

\* Where the two differ: the package refuses a substrate kid that is not 16 bytes.
ForAlg(alg, kid) ==
    <<Entry("alg", Number(alg))>> \o IF kid = None THEN <<>> ELSE <<Entry("kid", Bytes(kid))>>

SubstrateProtectedHeader(alg, kid, suite, artifact) ==
    <<Entry("alg", Number(alg)), Entry("kid", Bytes(kid)), Entry("suite_id", Number(suite)),
      Entry("artifact_type", artifact)>>

\* The length of the method URI is not looked at.
DetachedSignatureProtectedHeader(alg, kid, uri) ==
    <<Entry("alg", Number(alg)), Entry("kid", Bytes(kid)), Entry("method_uri", uri)>>

\* A slip: a detached payload goes out as no bytes.
PayloadFieldEmpty(payload) == Bytes(IF payload = None THEN "" ELSE payload)

PayloadField(payload) == IF payload = None THEN Null ELSE Bytes(payload)

\* sig_structure_bytes: what is signed is the header's bytes and the payload.
SigStructure(header, payload) == <<header, payload>>

EncodeCoseSign1(header, payload, signature) ==
    Sign1(header, PayloadField(payload), Bytes(signature))

-----------------------------------------------------------------------------
(* Reading a header map. *)

At(header, label) == {i \in DOMAIN header : header[i].label = label}

\* A slip: integer labels may repeat.
DistinctUnchecked(header) == TRUE

Distinct(header) == \A label \in IntegerLabels : \A i, j \in At(header, label) : i = j

\* integer_label_value takes the first entry of a label, Map.set keeps the last.
FirstOf(header, label) ==
    IF At(header, label) = {} THEN None
    ELSE header[CHOOSE i \in At(header, label) : \A j \in At(header, label) : i <= j].value

LastOf(header, label) ==
    IF At(header, label) = {} THEN None
    ELSE header[CHOOSE i \in At(header, label) : \A j \in At(header, label) : j <= i].value

\* The optional labels, each absent or of its type.
LabelsTyped(alg, kid, suite, artifact, method) ==
    /\ alg # None => alg.type = "int"
    /\ kid # None => kid.type = "bytes"
    /\ suite # None => suite.type = "int" /\ suite.n >= 0
    /\ artifact # None => artifact.type = "text"
    /\ method # None => method.type = "text" /\ method.size <= Maximum

\* What both decoders ask of the body.
BodyHolds(e) ==
    /\ e.tag = "sign1" /\ e.fields = 4 /\ ~e.trailing
    /\ e.header # None /\ At(e.header, "retired") = {}
    /\ e.unprotected = "empty"
    /\ e.signature.type = "bytes"

\* What a decoder returns: what the envelope says, its parts None where absent.  The
\* crate returns the method URI from decode_protected_header.
Decoded(alg, kid, suite, artifact, method, payload, signature) ==
    {[alg |-> alg, kid |-> kid, suite_id |-> suite, artifact_type |-> artifact,
      method_uri |-> method, payload |-> payload, signature |-> signature]}

-----------------------------------------------------------------------------
(* The crate.  Decoders yield one value, or none for an error. *)

\* ciborium reads undefined as null.
PayloadRead(item) == IF item.type = "bytes" THEN item.v ELSE None

DecodeCoseSign1(e) ==
    LET read(label) == FirstOf(e.header, label)
    IN  IF /\ BodyHolds(e) /\ Distinct(e.header)
           /\ e.payload.type \in {"bytes", "null", "undefined"}
           /\ LabelsTyped(read("alg"), read("kid"), read("suite_id"), read("artifact_type"),
                          read("method_uri"))
        THEN Decoded(read("alg"), read("kid"), read("suite_id"), read("artifact_type"),
                     read("method_uri"), PayloadRead(e.payload), e.signature.v)
        ELSE {}

\* decode_protected_header asks for an algorithm.
DecodeWithMethodUri(e, prefix) ==
    {cose \in DecodeCoseSign1(e) :
        /\ cose.alg # None
        /\ cose.method_uri # None /\ ~cose.method_uri.bom /\ cose.method_uri.word = prefix}

-----------------------------------------------------------------------------
(* The package. *)

\* TextDecoder drops a leading U+FEFF.
TextRead(value) ==
    IF value # None /\ value.type = "text" /\ value.bom
    THEN [value EXCEPT !.bom = FALSE, !.size = @ - 3] ELSE value

\* CborDecoder knows no wide heads, no float and no undefined, wherever they stand.
ItemsReadable(e) ==
    /\ \A i \in DOMAIN e.header :
          ~e.header[i].wide /\ e.header[i].value.type \notin {"float", "undefined"}
    /\ Distinct(e.header)

PackageDecode(e) ==
    LET read(label) == TextRead(LastOf(e.header, label))
    IN  IF /\ BodyHolds(e) /\ ItemsReadable(e)
           /\ e.payload.type \in {"bytes", "null"}
           /\ LabelsTyped(read("alg"), read("kid"), read("suite_id"), read("artifact_type"),
                          read("method_uri"))
        THEN Decoded(read("alg"), read("kid"), read("suite_id"), read("artifact_type"),
                     read("method_uri"), PayloadRead(e.payload), e.signature.v)
        ELSE {}

PackageDecodeWithMethodUri(e, prefix) ==
    {cose \in PackageDecode(e) :
        cose.method_uri # None /\ ~cose.method_uri.bom /\ cose.method_uri.word = prefix}

-----------------------------------------------------------------------------
(* The payload and the signature, alike in both. *)

\* A slip: bytes beside an embedded payload are not compared.
ResolvePayloadTrusting(cose, supplied) ==
    IF cose.payload # None THEN {cose.payload} ELSE {supplied} \ {None}

\* resolve_payload.
ResolvePayload(cose, supplied) ==
    IF cose.payload = None THEN {supplied} \ {None}
    ELSE IF supplied \in {None, cose.payload} THEN {cose.payload} ELSE {}

\* verify_ed25519_sign1: the payloads that verify, at most one.
Verifies(e, key, supplied) ==
    {payload \in UNION {ResolvePayload(cose, supplied) : cose \in DecodeCoseSign1(e)} :
        \E cose \in DecodeCoseSign1(e) :
            /\ cose.signature.size = 64
            /\ cose.signature.by = key
            /\ cose.signature.over = SigStructure(e.header, payload)}

-----------------------------------------------------------------------------
(* An envelope on its way: a signer encodes it, others may alter it item by    *)
(* item, and either codec reads what arrives.                                 *)

CONSTANTS
    Headers,      \* protected headers the encoders are asked for
    Payloads,     \* signed bytes
    Owners,       \* Ed25519 keys
    Prefixes,     \* method URI prefixes a reader may expect
    HeaderItems,  \* entries that may come to stand in a header
    MaxEdits      \* alterations of one envelope

\* What stands for an entry of a header the encoders write: a label of theirs and an item
\* of its type, in the narrowest form.
WrittenEntry(entry) ==
    /\ entry.label \in {"alg", "kid", "suite_id", "artifact_type", "method_uri"}
    /\ ~entry.wide /\ entry.value # None
    /\ entry.label = "alg" => entry.value.type = "int"
    /\ entry.label = "kid" => entry.value.type = "bytes"
    /\ entry.label = "suite_id" => entry.value.type = "int" /\ entry.value.n >= 0
    /\ entry.label \in {"artifact_type", "method_uri"} =>
          entry.value.type = "text" /\ entry.value.size \in Nat /\ ~entry.value.bom

\* A sequence, of whatever it holds.
Listed(header) == header \in Seq({header[i] : i \in DOMAIN header})

\* Written label by label.
Written(header) ==
    /\ Listed(header)
    /\ \A i \in DOMAIN header : WrittenEntry(header[i])
    /\ \A i, j \in DOMAIN header : header[i].label = header[j].label => i = j

ASSUME HeadersAssumption ==
    /\ None \notin Headers
    /\ \A header \in Headers : Written(header)

VARIABLES
    wire,     \* the envelope, None before it is encoded
    sent,     \* what was encoded: the header, the payload, the key and whether detached
    edits     \* alterations so far

wireVars == <<wire, sent, edits>>

WireInit == wire = None /\ sent = None /\ edits = 0

\* sign1_bytes, sign1_detached_bytes.
Send(header, payload, key, detached) ==
    LET signature == [size |-> 64, by |-> key, over |-> SigStructure(header, payload)]
    IN  /\ wire = None
        /\ wire' = EncodeCoseSign1(header, IF detached THEN None ELSE payload, signature)
        /\ sent' = [header |-> header, payload |-> payload, key |-> key, detached |-> detached]
        /\ UNCHANGED <<calls, edits>>

\* One item of the envelope changed.
AlteredBody(e) ==
    {[e EXCEPT !.tag = "other"], [e EXCEPT !.fields = 3], [e EXCEPT !.header = None],
     [e EXCEPT !.unprotected = "filled"], [e EXCEPT !.signature = Null],
     [e EXCEPT !.trailing = TRUE]}
    \cup {[e EXCEPT !.payload = item] :
            item \in {Bytes(p) : p \in Payloads} \cup {Null, Undefined, Float}}

BehindBom(value) == [value EXCEPT !.bom = TRUE, !.size = @ + 3]

AlteredHeader(header) ==
    {[header EXCEPT ![i] = item] : i \in DOMAIN header, item \in HeaderItems}
    \cup {Append(header, item) : item \in HeaderItems}
    \cup {SubSeq(header, 2, Len(header))}
    \cup {[header EXCEPT ![i].wide = TRUE] : i \in DOMAIN header}
    \cup {[header EXCEPT ![i].value = BehindBom(@)] :
            i \in {k \in DOMAIN header : header[k].value.type = "text"}}

Alter ==
    /\ wire # None /\ edits < MaxEdits
    /\ edits' = edits + 1
    /\ \/ wire' \in AlteredBody(wire)
       \/ wire.signature.type = "bytes" /\ wire' = [wire EXCEPT !.signature.v.size = 63]
       \/ wire.header # None /\ \E h \in AlteredHeader(wire.header) : wire' = [wire EXCEPT !.header = h]
    /\ UNCHANGED <<calls, sent>>

WireStep ==
    \/ \E header \in Headers, payload \in Payloads, key \in Owners, detached \in BOOLEAN :
          Send(header, payload, key, detached)
    \/ Alter

WireSpec == calls = 0 /\ WireInit /\ [][WireStep]_<<calls, wireVars>>

-----------------------------------------------------------------------------
(* Properties. *)

TooLong(header) ==
    FirstOf(header, "method_uri") # None /\ FirstOf(header, "method_uri").size > Maximum

\* What an encoder writes, both codecs read back, detached or not - unless its method
\* URI is longer than readers take: then both refuse what the encoder let pass.
EncodedIsRead ==
    wire # None /\ edits = 0 =>
        LET says(label) == FirstOf(sent.header, label)
            expected == Decoded(says("alg"), says("kid"), says("suite_id"),
                                says("artifact_type"), says("method_uri"),
                                IF sent.detached THEN None ELSE sent.payload, wire.signature.v)
        IN  /\ DecodeCoseSign1(wire) = IF TooLong(sent.header) THEN {} ELSE expected
            /\ PackageDecode(wire) = DecodeCoseSign1(wire)

\* Whatever the package reads, the crate reads, and no label says one thing to one and
\* another to the other; only a text behind U+FEFF is not the same text to both.
CodecsReadAlike ==
    wire # None /\ wire.header # None
        /\ (\A i \in DOMAIN wire.header :
               wire.header[i].value.type = "text" => ~wire.header[i].value.bom)
    => PackageDecode(wire) \subseteq DecodeCoseSign1(wire)

\* The signature holds for the payload it was made over and for no other, under the
\* header it was made with: embedding or detaching the payload later changes nothing,
\* a reader that holds other bytes is refused, and no alteration yields an envelope
\* that verifies over anything the signer did not sign.
OnlyTheSignedVerifies ==
    wire # None =>
        \A key \in Owners, supplied \in Payloads \cup {None} :
            \A payload \in Verifies(wire, key, supplied) :
                /\ key = sent.key /\ payload = sent.payload /\ wire.header = sent.header
                /\ supplied \in {None, payload}

\* The package's method-URI decoder mirrors the crate's.
MethodDecodersMirror ==
    wire # None =>
        \A prefix \in Prefixes :
            PackageDecodeWithMethodUri(wire, prefix) # {} => DecodeWithMethodUri(wire, prefix) # {}
=============================================================================
