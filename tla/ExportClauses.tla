--------------------------- MODULE ExportClauses ---------------------------
(***************************************************************************)
(* What verify_export_zip promises of an archive, stated over the archive as *)
(* a whole: no stage, no running checkpoint, no traversal.  The clauses build *)
(* on the contract of the event-set verifier (LedgerClauses) and on the trees *)
(* and proofs of RFC 6962 (Merkle).                                          *)
(***************************************************************************)
EXTENDS ExportMembers, Merkle

CONSTANTS
    Bundles,  \* what the bytes of a digest parse to as an export: [Contents -> archive or None]
    Sizes     \* how many bytes those are: [Contents -> Nat]

\* What parses has the type it parses to; and a ZIP holds its members as they are, each
\* behind a header (read_stored_zip refuses compression), so it is longer than any of them.
ASSUME BundlesAssumption ==
    /\ Sizes \in [Contents -> Nat]
    /\ \A content \in Contents : Bundles[content] # None =>
          LET a == Bundles[content]
          IN  /\ a.entries \in Seq(Entry)
              /\ \A k \in DOMAIN a.entries : Sizes[a.entries[k].content] < Sizes[content]
              /\ a.manifest.scope \in Scopes
              /\ a.manifest.supersession \in Optional(Counted)
              /\ a.graph \in Optional([head : Scopes, rows : Seq(Predecessor)])

\* The leaves: the canonical hashes of the events that decode.
Leaves(a) ==
    LET decodable == DecodableEvents(a)
    IN  [k \in DOMAIN decodable |-> MerkleLeafHash(decodable[k].hash)]

Prefix(a, size) == SubSeq(Leaves(a), 1, size)

-----------------------------------------------------------------------------
(* A call that is refused learns nothing of the events.                       *)

ManifestSigned(a) ==
    /\ a.manifest.envelope /\ a.manifest.suite
    /\ a.registry[a.manifest.kid] # None
    /\ a.manifest.signer = a.registry[a.manifest.kid].key

SidecarsHold(a) ==
    a.manifest.sidecars # None =>
        /\ \A s \in ToSet(a.manifest.sidecars) :
              /\ ~s.malformed /\ s.kind \in DispatchedKinds /\ s.derivationVersion = 1
              /\ s.path[1] = "sidecar" /\ MemberDigest(a, s.path) = s.contentDigest
        /\ SidecarFiles(a) = ListedSidecars(a)

MembersBound(a) ==
    /\ \A name \in CoreMembers \ {"000-manifest"} :
          None # a.manifest.digests[name] /\ a.manifest.digests[name] = MemberDigest(a, Core(name))
    /\ \A b \in ToSet(a.manifest.bindings) :
          /\ b.digest # None /\ b.boundAt # None
          /\ MemberDigest(a, BoundRegistryPath(b.digest)) = b.digest
          /\ a.registries[b.digest] # None

\* A checkpoint of another scope, or of no prefix of the events, counts for nothing.
Counts(a, k) ==
    /\ a.checkpoints[k].scope = a.manifest.scope
    /\ a.checkpoints[k].treeSize \in 1..Len(Leaves(a))

CheckpointReadable(a, k) ==
    LET c == a.checkpoints[k]
    IN  /\ c.suite /\ a.registry[c.kid] # None /\ c.signer = a.registry[c.kid].key
        /\ ~c.malformed
        /\ c.scope = a.manifest.scope => c.treeSize # None
        /\ Counts(a, k) => /\ c.root # None
                           /\ c.prev # None \/ \A j \in 1..(k - 1) : ~Counts(a, j)

Readable(a) ==
    /\ Opens(a) /\ a.registryFault = None
    /\ HasMember(a, Core("030-signing-key-registry")) /\ HasMember(a, Core("000-manifest"))
    /\ ManifestSigned(a) /\ a.manifest.malformed = {}
    /\ SidecarsHold(a) /\ MembersBound(a)
    /\ a.events # None
    /\ a.manifest.fence # None => SealFenceHolds(a)
    /\ a.checkpoints # None /\ \A k \in DOMAIN a.checkpoints : CheckpointReadable(a, k)
    /\ a.inclusions # None /\ a.consistencies # None

-----------------------------------------------------------------------------
(* What the archive says of its events.                                       *)

\* Every entry describes one event, which says the same of itself; a replaced
\* binding is an earlier event.
AttachmentsHold(a) ==
    a.manifest.attachments # None =>
        /\ MemberDigest(a, ExtensionMember("061-attachments")) = a.manifest.attachments.digest
        /\ a.attachments # None
        /\ \A k \in DOMAIN a.attachments :
              LET entry == a.attachments[k]
                  prior == entry.binding.priorBindingHash
              IN  /\ \A j \in DOMAIN a.attachments : a.attachments[j].event = entry.event => j = k
                  /\ \E i \in Decodable(a) :
                        /\ EventsOf(a, entry.event) = {i}
                        /\ a.events[i].binding = entry.binding
                        /\ a.events[i].contentHash = entry.binding.payloadContentHash
                        /\ prior # None => EventsOf(a, prior) # {}
                                           /\ \A j \in EventsOf(a, prior) : j < i
                  /\ a.manifest.attachments.inline =>
                        HasMember(a, Payload(entry.binding.payloadContentHash))

DistinctEvents(a) ==
    \A i, j \in Decodable(a) : a.events[i].hash = a.events[j].hash => i = j

CatalogHolds(a, catalog, rows, Describes(_, _)) ==
    catalog # None =>
        /\ MemberDigest(a, catalog.path) = catalog.digest
        /\ rows # None /\ Len(rows) = catalog.count
        /\ DistinctEvents(a)
        /\ \A k \in DOMAIN rows :
              /\ \A j \in DOMAIN rows : rows[j].event = rows[k].event => j = k
              /\ \E i \in Decodable(a) :
                    a.events[i].hash = rows[k].event /\ Describes(rows[k], a.events[i])

DescribesErasure(row, e) ==
    e.eventType = "trellis.erasure-evidence.v1" /\ ErasureRowAgrees(row, e)
DescribesCertificate(row, e) ==
    e.eventType = "trellis.certificate-of-completion.v1" /\ CertificateRowAgrees(row, e)

\* The artifact a certificate presents is the payload of the last binding of its
\* attachment, byte for byte.
ArtifactsHold(a) ==
    \A i \in Decodable(a) :
        a.events[i].certificate # None /\ a.events[i].signer = a.registry[a.events[i].kid].key =>
            LET c == a.events[i].certificate
                binds(j) == a.events[j].binding # None
                            /\ a.events[j].binding.id = c.attachmentId
            IN  \E j \in Decodable(a) :
                    /\ binds(j) /\ \A m \in Decodable(a) : m > j => ~binds(m)
                    /\ MemberDigest(a, Payload(a.events[j].binding.payloadContentHash))
                           = c.contentHash

\* Each event is of a type and classification the registry bound last before
\* it was appended lists.
RegistriesHold(a) ==
    \A i \in Decodable(a) :
        \E k \in DOMAIN a.manifest.bindings :
            LET b == a.manifest.bindings
            IN  /\ b[k].boundAt <= a.events[i].sequence
                /\ \A j \in DOMAIN b : b[j].boundAt <= a.events[i].sequence =>
                      b[j].boundAt < b[k].boundAt \/ (b[j].boundAt = b[k].boundAt /\ j <= k)
                /\ Admits(a.registries[b[k].digest], a.events[i])

ClocksHold(a) ==
    IF a.manifest.openClocks = None THEN ~HasMember(a, ClocksMember)
    ELSE /\ MemberDigest(a, ClocksMember) = a.manifest.openClocks.digest
         /\ a.clocks # None /\ a.clocks.count = a.manifest.openClocks.count
         /\ a.clocks.sealedAt = a.manifest.generatedAt

-----------------------------------------------------------------------------
(* Supersession: a descent is a chain of bundled rows, each from the graph of *)
(* the bundle of the row before.                                              *)

GraphHolds(a) ==
    /\ MemberDigest(a, GraphMember) = a.manifest.supersession.digest
    /\ a.graph # None
    /\ Len(a.graph.rows) = a.manifest.supersession.count /\ a.graph.head = a.manifest.scope

\* The bundle of a row that travels along verifies, and is the chain and head
\* the row names.
RowHolds(a, row, verifies) ==
    row.bundle # None =>
        LET bundle == MemberDigest(a, row.bundle)
        IN  /\ bundle # None /\ verifies[bundle]
            /\ Bundles[bundle].manifest.scope = row.chainId
            /\ Bundles[bundle].manifest.head = row.checkpointHash

\* The exports that replace chains in turn, and those among the bundles of an archive.
Replacing ==
    {content \in Contents : /\ Bundles[content] # None
                            /\ Bundles[content].manifest.supersession # None
                            /\ Bundles[content].graph # None}

BundledBelow(a) ==
    {MemberDigest(a, row.bundle) : row \in {r \in ToSet(a.graph.rows) : r.bundle # None}}
    \cap Replacing

\* A descent has come to an archive below the given chains: no chain comes twice on
\* the way down.
Descends[descent \in Replacing \X SUBSET Scopes] ==
    LET nested == Bundles[descent[1]]
        above == descent[2]
    IN  /\ \A row \in ToSet(nested.graph.rows) : row.chainId \notin above
        /\ \A b \in BundledBelow(nested) :
              Descends[<<b, above \cup {Bundles[b].manifest.scope}>>]

DescentsHold(a) ==
    \A b \in BundledBelow(a) : Descends[<<b, {a.manifest.scope, Bundles[b].manifest.scope}>>]

SupersessionHolds(a, verifies) ==
    IF a.manifest.supersession = None THEN ~HasMember(a, GraphMember)
    ELSE /\ GraphHolds(a)
         /\ \A i \in Decodable(a) : a.events[i].supersedes # None =>
               \E row \in ToSet(a.graph.rows) :
                   [chainId |-> row.chainId, checkpointHash |-> row.checkpointHash]
                       = a.events[i].supersedes
         /\ \A j, k \in DOMAIN a.graph.rows :
               a.graph.rows[j].chainId = a.graph.rows[k].chainId => j = k
         /\ \A row \in ToSet(a.graph.rows) :
               row.chainId # a.manifest.scope /\ RowHolds(a, row, verifies)
         /\ DescentsHold(a)

-----------------------------------------------------------------------------
(* Checkpoints and proofs.                                                    *)

HeadCheckpoint(a) == a.checkpoints[Len(a.checkpoints)]

\* Every checkpoint commits to a prefix of the events and to the checkpoint
\* before it; the manifest names the last.
CheckpointsHold(a) ==
    /\ a.checkpoints # <<>> /\ HeadCheckpoint(a).digest = a.manifest.head
    /\ \A k \in DOMAIN a.checkpoints :
          /\ Counts(a, k)
          /\ a.checkpoints[k].root = TreeHash(Prefix(a, a.checkpoints[k].treeSize))
          /\ k > 1 => a.checkpoints[k].prev = a.checkpoints[k - 1].digest

\* An inclusion proof leads from an event to the head's root; a consistency
\* proof is the one between two prefixes of the events.
ProofsHold(a) ==
    /\ \A p \in ToSet(a.inclusions) :
          /\ ~p.malformed /\ p.treeSize = Len(Leaves(a)) /\ p.index < p.treeSize
          /\ p.leaf = Leaves(a)[p.index + 1]
          /\ RootFromInclusionProof(p.index, p.treeSize, p.leaf, p.path) = {HeadCheckpoint(a).root}
    /\ \A p \in ToSet(a.consistencies) :
          /\ ~p.malformed /\ 0 < p.from /\ p.from < p.to /\ p.to <= Len(Leaves(a))
          /\ p.path = ConsistencyPath(Prefix(a, p.to), p.from)

-----------------------------------------------------------------------------
ArchiveHolds(a, types, verifies) ==
    /\ Judgement(EventSetInput(a, types)) = "verified"
    /\ AttachmentsHold(a)
    /\ CatalogHolds(a, a.manifest.erasures, a.erasures, DescribesErasure)
    /\ CatalogHolds(a, a.manifest.certificates, a.certificates, DescribesCertificate)
    /\ ArtifactsHold(a) /\ RegistriesHold(a) /\ ClocksHold(a)
    /\ SupersessionHolds(a, verifies)
    /\ CheckpointsHold(a) /\ ProofsHold(a)
    /\ Members(a) \subseteq BoundMembers(a)

\* Whether verify_export_zip, which admits no further identity types, verifies a
\* bundle; bytes cannot contain themselves, so the recursion ends.
BundleVerifies[content \in Contents] ==
    LET a == Bundles[content]
    IN  /\ a # None
        /\ Readable(a)
        /\ ArchiveHolds(a, {}, BundleVerifies)

ExportJudgement(a, types) ==
    IF a = None THEN "refused"
    ELSE IF ~Readable(a) THEN "refused"
    ELSE IF ArchiveHolds(a, types, BundleVerifies)
    THEN "verified" ELSE "tampered"
=============================================================================
