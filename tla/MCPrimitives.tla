---------------------------- MODULE MCPrimitives ----------------------------
(***************************************************************************)
(* The instance of each kind.  Tags and documents are over three bytes, so    *)
(* that a tag and a document can be told apart only by the separator.        *)
(***************************************************************************)
EXTENDS Primitives, Integers
Sq == INSTANCE SequencesExt

CONSTANT MaxSize   \* of a tree

-----------------------------------------------------------------------------
(* Headers of the three encoders, and items that alter one: other values,     *)
(* other types, the retired label, labels twice.                             *)

Uri(word) == Text(word, 30)

MCHeaders == {
    ForAlg(-8, None), ForAlg(-8, "k1"),
    SubstrateProtectedHeader(-8, "k1", 1, Text("event", 5)),
    DetachedSignatureProtectedHeader(-8, "k1", Uri("urn:sig")),
    DetachedSignatureProtectedHeader(-8, "k1", Text("urn:sig", Maximum)),
    DetachedSignatureProtectedHeader(-8, "k1", Text("urn:sig", Maximum + 1)) }

MCHeaderItems == {
    Entry("alg", Number(-7)), Entry("alg", Text("EdDSA", 5)),
    Entry("kid", Bytes("k2")), Entry("kid", Text("k2", 2)),
    Entry("suite_id", Number(-1)), Entry("artifact_type", Text("manifest", 8)),
    Entry("method_uri", Uri("urn:receipt")), Entry("method_uri", Number(1)),
    Entry("retired", Uri("urn:sig")), Entry("other", Float), Entry("other", Undefined),
    Entry("word", Number(1)) }

-----------------------------------------------------------------------------
(* Entries of one layout and of others, an empty payload, a path outside      *)
(* ASCII, one too long for its field, two entries of a path, and a payload    *)
(* that is an archive of one of the other entries.                           *)

A == <<97>>   \* "a"
AB == <<97, 98>>
Letter == BundleEntry(A, <<Byte(1)>>)

MCEntries == {
    Letter,
    BundleEntry(<<99>>, <<Byte(2)>>),
    BundleEntry(A, <<>>),
    BundleEntry(AB, <<Byte(2)>>),
    BundleEntry(<<98>>, CHOOSE bytes \in ToZipBytes(<<Letter>>) : TRUE),
    BundleEntry(<<233>>, <<Byte(1)>>),
    BundleEntry(<<97, 97, 97>>, <<>>) }

\* Offsets and lengths that headers of these archives have, and ones none has.
MCFieldValues == {0, 1, 2, LocalLen + 2, LocalLen + 3, CentralLen + 1, MaxU32}

-----------------------------------------------------------------------------
(* Merkle: every question the export verifier asks of a proof, over logs of   *)
(* up to MaxSize events: the right path, the right path of another leaf, size  *)
(* or history, and each of them with a node dropped, repeated or replaced.    *)
(* CBOR: pairs of values, among them maps in both orders, maps as keys, and   *)
(* numbers where the width of a head changes.  JSON: keys whose order by text *)
(* and by bytes differ, under paths with and without a tag.                  *)

Sizes == 1..MaxSize

AuditPaths == UNION {{AuditPath(LeavesOf(n), i) : i \in 0..(n - 1)} : n \in Sizes}
ConsistencyPaths == UNION {{ConsistencyPath(LeavesOf(n), m) : m \in 1..n} : n \in Sizes}

Nodes == UNION {{p[k] : k \in DOMAIN p} : p \in AuditPaths}

Without(p, k) == [i \in 1..(Len(p) - 1) |-> IF i < k THEN p[i] ELSE p[i + 1]]
Variants(p) ==
    {p, p \o p, <<>>} \cup {Without(p, k) : k \in DOMAIN p}
    \cup {[p EXCEPT ![k] = node] : k \in DOMAIN p, node \in Nodes}

Inclusions ==
    [kind : {"inclusion"}, size : Sizes, head : Sizes, index : 0..(MaxSize - 1),
     proof : UNION {Variants(p) : p \in AuditPaths}]

Consistencies ==
    [kind : {"consistency"}, from : Sizes, to : Sizes, fork : 0..MaxSize,
     proof : UNION {Variants(p) : p \in ConsistencyPaths}]

Pair(key, value) == [key |-> key, value |-> value]

CborKeys == {C!Integer(24), C!Integer(-1), C!Text(<<98>>), C!Text(<<97, 97>>)}
SmallMaps ==
    {C!Map(<<>>)} \cup {C!Map(<<Pair(k, C!Null)>>) : k \in CborKeys}
    \cup {C!Map(<<Pair(k, v), Pair(l, C!Null)>>) :
             k, l \in CborKeys, v \in {C!Null, C!Float("minusZero")}}

OneWay == C!Map(<<Pair(C!Integer(24), C!Null), Pair(C!Text(<<98>>), C!Null)>>)
OtherWay == C!Map(<<Pair(C!Text(<<98>>), C!Null), Pair(C!Integer(24), C!Null)>>)
Nested ==
    {C!Map(<<Pair(k, C!Null), Pair(l, v)>>) :
        k, l \in {OneWay, OtherWay, C!Integer(24)}, v \in {OneWay, C!Null}}
    \cup {C!Array(<<m, v>>) : m \in {OneWay, OtherWay}, v \in {C!Null, C!Float("nan")}}
    \cup {C!Tag(t, m) : t \in {0, 32}, m \in {OneWay, OtherWay, C!Text(<<98>>)}}

Leaves ==
    {C!Integer(n) : n \in {-257, -256, -25, -24, 0, 23, 24, 255, 256, 65535, 65536}}
    \cup {C!Float(f) : f \in {"zero", "minusZero", "half", "nan", "infinity"}}
    \cup {C!Null, C!Text(<<>>), C!Text(<<98>>), C!Bytes(<<98>>), C!Array(<<>>)}

CborValues == Leaves \cup SmallMaps \cup Nested

Encodings == [kind : {"encoding"}, left : CborValues, right : CborValues]

Field(key, value) == [key |-> key, value |-> value]

JsonLeaves ==
    {C!JsonNull, C!JsonString(<<97>>), C!JsonInteger(-1), C!JsonTooLarge,
     C!JsonFloat("half"), C!JsonFloat("minusZero")}
JsonLists == {C!JsonArray(<<v, w>>) : v \in JsonLeaves, w \in {C!JsonNull, C!JsonString(<<97>>)}}
JsonObjects(values) ==
    {C!JsonObject({})} \cup {C!JsonObject({Field(<<98>>, v)}) : v \in values}
    \cup {C!JsonObject({Field(<<98>>, v), Field(<<97, 97>>, w)}) :
             v \in values, w \in JsonLeaves}

JsonValues ==
    LET flat == JsonLeaves \cup JsonLists
    IN  flat \cup JsonObjects(flat) \cup JsonObjects(JsonObjects(JsonLeaves))

Rule(path, tag) == [path |-> path, tag |-> tag]

Conversions ==
    [kind : {"conversion"}, json : JsonValues,
     stringTags : {<<>>, <<Rule(<<>>, 0)>>, <<Rule(<<<<98>>>>, 0), Rule(<<<<98>>>>, 32)>>,
                   <<Rule(<<<<98>>, <<97, 97>>>>, 32), Rule(<<<<97, 97>>>>, 1)>>}]

MCProofQuestions == Inclusions \cup Consistencies
MCQuestions == Encodings \cup Conversions

-----------------------------------------------------------------------------
MCSealRequests ==
    {[domain |-> <<"d">>, document |-> <<"1", "1">>],
     [domain |-> <<"d", "1">>, document |-> <<"1">>],
     [domain |-> <<"d", NUL>>, document |-> <<"1">>]}

Arguments == {"--format", "json", "text", "--bogus", "a.zip", "b.zip"}

\* Every line of up to four arguments, and those that name two formats and a bundle.
MCCommandLines ==
    [command : {"verify"}, arguments : Sq!BoundedSeq(Arguments, 4)]
    \cup [command : {"verify-export"},
           arguments : Sq!BoundedSeq({"--format", "json", "a.zip"}, 3)]
    \cup {[command |-> "verify",
            arguments |-> Sq!InsertAt(<<"--format", f, "--format", g>>, i, "a.zip")] :
              f, g \in FormatNames, i \in 1..5}
    \cup [command : {"help", "other"}, arguments : {<<>>}]
=============================================================================
