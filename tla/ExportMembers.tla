--------------------------- MODULE ExportMembers ---------------------------
(***************************************************************************)
(* The data of the export verifier (trellis/export.rs): a ZIP archive whose  *)
(* members are bytes, given by their digest, and what each member parses to  *)
(* (a digest, checkpoint digests included, is a member of Contents); and its *)
(* checks of what an archive carries beside its events: interop sidecars,    *)
(* the seal fence, the attachment manifest, the two catalogs, presentation   *)
(* artifacts, open clocks, and the sweep for members nothing binds.  Each    *)
(* check gives the kinds of failure one call pushes, or the one kind it      *)
(* makes the report fatal with.                                              *)
(***************************************************************************)
EXTENDS LedgerClauses, SequencesExt

CONSTANT Nodes   \* digests of the Merkle tree

\* A path is <<group, name>>.  "other" is any path outside the documented layout.
CoreMembers == {"000-manifest", "010-events", "020-inclusion-proofs", "025-consistency-proofs",
                "030-signing-key-registry", "040-checkpoints"}
Paths ==
         ({"core"} \X CoreMembers)
    \cup ({"payload", "registry"} \X Contents)
    \cup ({"helper", "cli", "sidecar", "extension", "predecessor", "other"} \X Names)

Core(name) == <<"core", name>>
Payload(content) == <<"payload", content>>
BoundRegistryPath(digest) == <<"registry", digest>>
ExtensionMember(name) == <<"extension", name>>

\* A ZIP entry "root/path"; no root, when its name has no slash.
Entry == [root : Optional(Names), path : Paths, content : Contents]

Sidecar == [kind : Names, path : Paths, derivationVersion : Nat,
            contentDigest : Contents, malformed : BOOLEAN]
RegistryBinding == [digest : Optional(Contents), boundAt : Optional(Nat)]
BoundRegistry == [eventTypes : SUBSET STRING, classifications : SUBSET STRING]
Catalog == [path : Paths, digest : Contents, count : Nat]
Counted == [digest : Contents, count : Nat]

\* export_attempt_id hashes the four values it is derived from.
SealFence == [scope : Scopes, version : Nat, eventCount : Nat, highWater : Nat,
              attempt : Scopes \X Nat \X Nat \X Hashes, head : Contents,
              eventsDigest : Contents, policyClosure : Optional(Contents)]

\* A field that does not decode is None, or named in malformed.  A detached
\* payload has no signature that verifies: its own kind is never reached.
ManifestFields == {"payload", "interop_sidecars", "registry_bindings", "scope",
    "generated_at", "seal_fence", "attachments", "erasure", "certificates", "supersession",
    "open_clocks", "head_checkpoint_digest"}

Manifest ==
    [envelope : BOOLEAN, suite : BOOLEAN, kid : Kids, signer : Optional(Keys),
     malformed : SUBSET ManifestFields,
     digests : [CoreMembers \ {"000-manifest"} -> Optional(Contents)],
     bindings : Seq(RegistryBinding), sidecars : Optional(Seq(Sidecar)),
     scope : Scopes, generatedAt : Times, treeSize : Nat, head : Contents,
     fence : Optional(SealFence),
     attachments : Optional([digest : Contents, inline : BOOLEAN]),
     erasures : Optional(Catalog), certificates : Optional(Catalog),
     supersession : Optional(Counted), openClocks : Optional(Counted),
     consumers : SUBSET Names]

AttachmentEntry == [event : Hashes, binding : AttachmentBindingDetails]
ErasureRow == [event : Hashes, id : Names, kid : Kids, destroyedAt : Times]
CertificateRow == [event : Hashes, id : Names, completedAt : Times, signerCount : Nat,
                   attachmentId : Names, workflowStatus : Names]
Predecessor == [chainId : Scopes, checkpointHash : Contents, bundle : Optional(Paths)]

\* tree_head_hash and the nodes of a proof are digests of the tree over the events.
\* A field that is null or does not decode is None; a payload or scope that does not
\* decode makes the checkpoint malformed.
Checkpoint ==
    [suite : BOOLEAN, kid : Kids, signer : Optional(Keys), malformed : BOOLEAN,
     scope : Scopes, treeSize : Optional(Nat), root : Optional(Nodes),
     prev : Optional(Contents), digest : Contents]
\* A size a consistency proof does not carry is read as 0.
InclusionProof ==
    [malformed : BOOLEAN, treeSize : Nat, index : Nat, leaf : Nodes, path : Seq(Nodes)]
ConsistencyProof == [malformed : BOOLEAN, from : Nat, to : Nat, path : Seq(Nodes)]

RegistryFaults == {"SigningKeyRegistryInvalid", "KeyEntryAttributesShapeMismatch",
                   "LegacyTimestampFormat", "TimestampNanosOutOfRange"}

\* What an export is refused for.
RefusalKinds == RegistryFaults \cup
    {"ExportZipInvalid", "MissingSigningKeyRegistry", "MissingManifest",
     "ManifestStructureInvalid", "UnsupportedSuite", "UnresolvableManifestKid",
     "ManifestSignatureInvalid", "ManifestPayloadInvalid", "InteropSidecarKindUnknown",
     "InteropSidecarDerivationVersionUnknown", "InteropSidecarPathInvalid",
     "InteropSidecarPhase1Locked", "InteropSidecarMissing", "InteropSidecarContentMismatch",
     "InteropSidecarUnlistedFile", "ArchiveIntegrityFailure", "BoundRegistryInvalid",
     "EventsInvalid", "CheckpointsInvalid", "CheckpointSignatureInvalid",
     "CheckpointPayloadInvalid", "InclusionProofsInvalid", "ConsistencyProofsInvalid"}

\* What the members parse to; None where they do not.  A proof member that is not
\* a map, or not an array, is passed over: it holds no proof.
Archive ==
    [entries : Seq(Entry), registryFault : Optional(RegistryFaults),
     registry : Registries, nonSigning : NonSigningRegistries, manifest : Manifest,
     registries : [Contents -> Optional(BoundRegistry)], events : Optional(Seq(EventRecord)),
     checkpoints : Optional(Seq(Checkpoint)), inclusions : Optional(Seq(InclusionProof)),
     consistencies : Optional(Seq(ConsistencyProof)),
     attachments : Optional(Seq(AttachmentEntry)), erasures : Optional(Seq(ErasureRow)),
     certificates : Optional(Seq(CertificateRow)),
     graph : Optional([head : Scopes, rows : Seq(Predecessor)]),
     clocks : Optional([count : Nat, sealedAt : Times])]

-----------------------------------------------------------------------------
(* parse_export_zip: members are named by the path below the root; of two     *)
(* entries with one path the later stays.                                     *)

Opens(a) == \A k \in DOMAIN a.entries : a.entries[k].root # None

EntriesAt(a, path) == {k \in DOMAIN a.entries : a.entries[k].path = path}

\* The digest of a member's bytes, or None when there is no such member.
MemberDigest(a, path) ==
    IF EntriesAt(a, path) = {} THEN None
    ELSE a.entries[CHOOSE k \in EntriesAt(a, path) :
                      \A j \in EntriesAt(a, path) : j <= k].content

Members(a) == {a.entries[k].path : k \in DOMAIN a.entries}
HasMember(a, path) == path \in Members(a)

\* The first kind of a list of checks that fails; None when all pass.
FirstFault(kinds) ==
    LET Fails(k) == kinds[k] # None
    IN  IF \A k \in DOMAIN kinds : ~Fails(k) THEN None
        ELSE kinds[CHOOSE k \in DOMAIN kinds : Fails(k) /\ \A j \in 1..(k - 1) : ~Fails(j)]
Fault(condition, kind) == IF condition THEN kind ELSE None

\* The events of an archive that decode, whatever their signature.
Decodable(a) == {i \in DOMAIN a.events : Decodes(a.events[i])}

DecodableEvents(a) ==
    [k \in 1..Cardinality(Decodable(a)) |->
        a.events[CHOOSE i \in Decodable(a) : Cardinality({j \in Decodable(a) : j <= i}) = k]]

\* The options verify_export_zip passes to verify_event_set_with_classes; types are
\* the identity event types the caller's validator admits.
EventSetInput(a, types) ==
    [ledger |-> a.events, registry |-> a.registry, nonSigning |-> a.nonSigning,
     initialPosture |-> None, declaration |-> None, classifyTamper |-> FALSE,
     expectedScope |-> a.manifest.scope,
     blobs |-> [content \in Contents |-> MemberDigest(a, Payload(content))],
     admittedTypes |-> types]

-----------------------------------------------------------------------------
KindIf(condition, kind) == IF condition THEN {kind} ELSE {}

-----------------------------------------------------------------------------
(* verify_interop_sidecars: the manifest's list first, entry by entry, then   *)
(* the files nobody listed.                                                   *)

DispatchedKinds == {"c2pa-manifest", "did-key-view"}
LockedKinds == {"scitt-receipt", "vc-jose-cose-event"}
MaxDerivationVersion == 255

SidecarEntryFault(a, s) ==
    IF s.malformed \/ s.derivationVersion > MaxDerivationVersion THEN "ManifestPayloadInvalid"
    ELSE IF s.kind \notin DispatchedKinds \cup LockedKinds THEN "InteropSidecarKindUnknown"
    ELSE IF s.kind \in DispatchedKinds /\ s.derivationVersion # 1
         THEN "InteropSidecarDerivationVersionUnknown"
    ELSE IF s.path[1] # "sidecar" THEN "InteropSidecarPathInvalid"
    ELSE IF s.kind \in LockedKinds THEN "InteropSidecarPhase1Locked"
    ELSE IF ~HasMember(a, s.path) THEN "InteropSidecarMissing"
    ELSE Fault(MemberDigest(a, s.path) # s.contentDigest, "InteropSidecarContentMismatch")

SidecarFiles(a) == {path \in Members(a) : path[1] = "sidecar"}
ListedSidecars(a) ==
    IF a.manifest.sidecars = None THEN {} ELSE {s.path : s \in ToSet(a.manifest.sidecars)}

\* A manifest without the field ends the walk before the files are looked at.
SidecarFault(a) ==
    LET listed == a.manifest.sidecars
    IN  IF "interop_sidecars" \in a.manifest.malformed THEN "ManifestPayloadInvalid"
        ELSE IF listed = None THEN None
        ELSE FirstFault([k \in DOMAIN listed |-> SidecarEntryFault(a, listed[k])]
                        \o <<Fault(~SidecarFiles(a) \subseteq ListedSidecars(a),
                                   "InteropSidecarUnlistedFile")>>)

-----------------------------------------------------------------------------
(* verify_seal_fence_extension.                                               *)

\* checked_add fails for a sequence no ledger's length can match: the comparison
\* of the counts refuses it as well.
SealFenceHolds(a) ==
    LET fence == a.manifest.fence
        last == a.events[Len(a.events)]
    IN  /\ fence.scope = a.manifest.scope
        /\ fence.version # 0
        /\ fence.eventCount = a.manifest.treeSize
        /\ fence.eventCount = Len(a.events)
        /\ a.events # <<>> /\ Decodes(last)
        /\ fence.highWater = last.sequence /\ fence.eventCount = last.sequence + 1
        /\ fence.attempt = <<fence.scope, fence.version, fence.highWater, last.hash>>
        /\ fence.head = a.manifest.head
        /\ fence.eventsDigest = a.manifest.digests["010-events"]
        /\ fence.eventsDigest = MemberDigest(a, Core("010-events"))
        /\ fence.policyClosure = MemberDigest(a, ExtensionMember("067-policy-closure"))

SealFenceFault(a) ==
    Fault("seal_fence" \in a.manifest.malformed
          \/ (a.manifest.fence # None /\ ~SealFenceHolds(a)), "ManifestPayloadInvalid")

-----------------------------------------------------------------------------
(* verify_attachment_manifest.  hash_to_index keeps the last event of a hash.  *)

EventsOf(a, hash) == {i \in Decodable(a) : a.events[i].hash = hash}

LastEventOf(a, hash) == {i \in EventsOf(a, hash) : \A j \in EventsOf(a, hash) : j <= i}

\* The entries whose event and prior are both in the archive, as edges.
Lineage(a) ==
    {<<entry.event, entry.binding.priorBindingHash>> : entry \in
        {e \in ToSet(a.attachments) : /\ e.binding.priorBindingHash # None
                                      /\ EventsOf(a, e.event) # {}
                                      /\ EventsOf(a, e.binding.priorBindingHash) # {}}}

\* Bindings of which each replaces another of them close a cycle.
LineageCycle(a) ==
    \E through \in SUBSET {edge[1] : edge \in Lineage(a)} :
        /\ through # {}
        /\ \A b \in through : \E replaced \in through : <<b, replaced>> \in Lineage(a)

ForwardReference(a, entry) ==
    \E i \in LastEventOf(a, entry.event), j \in LastEventOf(a, entry.binding.priorBindingHash) :
        j >= i

AttachmentTopologyFailures(a) ==
    LET entries == a.attachments
        linked == {e \in ToSet(entries) : /\ e.binding.priorBindingHash # None
                                          /\ EventsOf(a, e.event) # {}}
    IN       KindIf(Cardinality({e.event : e \in ToSet(entries)}) # Len(entries),
                    "AttachmentManifestDuplicateBinding")
        \cup KindIf(LineageCycle(a), "AttachmentBindingLineageCycle")
        \cup KindIf(\E e \in linked : EventsOf(a, e.binding.priorBindingHash) = {},
                    "AttachmentPriorBindingUnresolved")
        \cup KindIf(\E e \in linked : ForwardReference(a, e),
                    "AttachmentPriorBindingForwardReference")

AttachmentEntryFailures(a, entry) ==
    IF Cardinality(EventsOf(a, entry.event)) # 1 THEN {"AttachmentBindingEventUnresolved"}
    ELSE LET e == a.events[CHOOSE i \in EventsOf(a, entry.event) : TRUE]
             body == Payload(entry.binding.payloadContentHash)
         IN  IF e.binding = None THEN {"AttachmentBindingMissing"}
             ELSE KindIf(entry.binding # e.binding, "AttachmentBindingMismatch")
             \cup KindIf(entry.binding.payloadContentHash # e.contentHash
                         \/ e.binding.payloadContentHash # e.contentHash,
                         "AttachmentPayloadHashMismatch")
             \cup KindIf(a.manifest.attachments.inline /\ ~HasMember(a, body),
                         "MissingAttachmentBody")

AttachmentFailures(a) ==
    LET member == ExtensionMember("061-attachments")
    IN  IF a.manifest.attachments = None THEN {}
        ELSE IF ~HasMember(a, member) THEN {"MissingAttachmentManifest"}
        ELSE KindIf(MemberDigest(a, member) # a.manifest.attachments.digest,
                    "AttachmentManifestDigestMismatch")
        \cup IF a.attachments = None THEN {"AttachmentManifestInvalid"}
             ELSE AttachmentTopologyFailures(a)
                  \cup UNION {AttachmentEntryFailures(a, e) : e \in ToSet(a.attachments)}

-----------------------------------------------------------------------------
(* verify_erasure_evidence_catalog and verify_certificate_catalog: one shape,  *)
(* each with kinds of its own.  event_by_hash keeps the first event of a hash. *)

FirstEventOf(a, hash) == {i \in EventsOf(a, hash) : \A j \in EventsOf(a, hash) : i <= j}

ErasureRowAgrees(row, e) ==
    /\ e.erasure # None
    /\ row.id = e.erasure.id /\ row.kid = e.erasure.kid
    /\ row.destroyedAt = e.erasure.destroyedAt

CertificateRowAgrees(row, e) ==
    /\ e.certificate # None
    /\ row.id = e.certificate.id /\ row.completedAt = e.certificate.completedAt
    /\ row.signerCount = e.certificate.signerCount
    /\ row.attachmentId = e.certificate.attachmentId
    /\ row.workflowStatus = e.certificate.workflowStatus

RowAgrees(type, row, e) ==
    IF type = "trellis.erasure-evidence.v1" THEN ErasureRowAgrees(row, e)
    ELSE CertificateRowAgrees(row, e)

CatalogRowFailures(a, row, type) ==
    IF EventsOf(a, row.event) = {} THEN {"CatalogEventUnresolved"}
    ELSE LET e == a.events[CHOOSE i \in FirstEventOf(a, row.event) : TRUE]
         IN  IF e.eventType # type THEN {"CatalogEventTypeMismatch"}
             ELSE KindIf(~RowAgrees(type, row, e), "CatalogMismatch")

CatalogFailures(a, catalog, rows, type) ==
    IF catalog = None THEN {}
    ELSE IF ~HasMember(a, catalog.path) THEN {"MissingCatalog"}
    ELSE KindIf(MemberDigest(a, catalog.path) # catalog.digest, "CatalogDigestMismatch")
    \cup IF rows = None THEN {"CatalogInvalid"}
         ELSE KindIf(Len(rows) # catalog.count, "CatalogInvalid")
         \cup KindIf(\E i \in Decodable(a) : i \notin FirstEventOf(a, a.events[i].hash),
                     "ExportEventsDuplicateCanonicalHash")
         \cup KindIf(Cardinality({row.event : row \in ToSet(rows)}) # Len(rows),
                     "CatalogDuplicateEvent")
         \cup UNION {CatalogRowFailures(a, row, type) : row \in ToSet(rows)}

ErasureCatalogFailures(a) ==
    CatalogFailures(a, a.manifest.erasures, a.erasures, "trellis.erasure-evidence.v1")
CertificateCatalogFailures(a) ==
    CatalogFailures(a, a.manifest.certificates, a.certificates,
                    "trellis.certificate-of-completion.v1")

-----------------------------------------------------------------------------
(* verify_certificate_attachment_lineage.  The last binding of an attachment   *)
(* id counts; a certificate whose signature failed has no outcome to complete. *)

BindingsOf(a, id) ==
    {i \in Decodable(a) : a.events[i].binding # None /\ a.events[i].binding.id = id}

\* A slip: the first binding counts, the one a later binding replaced.
LastBindingOfFirst(a, id) == {i \in BindingsOf(a, id) : \A j \in BindingsOf(a, id) : i <= j}

LastBindingOf(a, id) == {i \in BindingsOf(a, id) : \A j \in BindingsOf(a, id) : j <= i}

ArtifactFailures(a, certificate) ==
    LET bytes == {MemberDigest(a, Payload(a.events[i].binding.payloadContentHash)) :
                     i \in LastBindingOf(a, certificate.attachmentId)}
    IN  IF bytes \subseteq {None} THEN {"PresentationArtifactAttachmentMissing"}
        ELSE KindIf(bytes # {certificate.contentHash}, "PresentationArtifactContentMismatch")

CertificateArtifactFailures(a) ==
    UNION {ArtifactFailures(a, a.events[i].certificate) : i \in
              {j \in Decodable(a) : /\ a.events[j].certificate # None
                                    /\ SignatureVerifies(EventSetInput(a, {}), a.events[j])}}

-----------------------------------------------------------------------------
(* verify_unbound_open_clocks, then verify_open_clocks.                        *)

ClocksMember == ExtensionMember("open-clocks")

OpenClockFailures(a) ==
    LET bound == a.manifest.openClocks
    IN  IF bound = None THEN KindIf(HasMember(a, ClocksMember), "ManifestPayloadInvalid")
        ELSE IF MemberDigest(a, ClocksMember) # bound.digest THEN {"ArchiveIntegrityFailure"}
        ELSE IF a.clocks = None THEN {"ManifestPayloadInvalid"}
        ELSE KindIf(a.clocks.count # bound.count \/ a.clocks.sealedAt # a.manifest.generatedAt,
                    "ManifestPayloadInvalid")

-----------------------------------------------------------------------------
(* Each event under the registry bound when it was appended: of the bindings   *)
(* of one sequence number the last of the manifest is in force.                *)

BindingInForce(a, sequence) ==
    LET b == a.manifest.bindings
        earlier == {k \in DOMAIN b : b[k].boundAt <= sequence}
    IN  {k \in earlier : \A j \in earlier :
            b[j].boundAt < b[k].boundAt \/ (b[j].boundAt = b[k].boundAt /\ j <= k)}

Admits(registry, e) ==
    e.eventType \in registry.eventTypes /\ e.classification \in registry.classifications

RegistryFailures(a) ==
    KindIf(\E i \in Decodable(a) :
              ~\E k \in BindingInForce(a, a.events[i].sequence) :
                  Admits(a.registries[a.manifest.bindings[k].digest], a.events[i]),
           "RegistryDigestMismatch")

-----------------------------------------------------------------------------
(* build_bound_member_set and the sweep.  Every payload present is admitted,   *)
(* and every file under the prefixes of the sidecars and the verifier binaries. *)

GraphMember == ExtensionMember("064-supersession-graph")

PredecessorPaths(a) ==
    IF ~HasMember(a, GraphMember) \/ a.graph = None THEN {}
    ELSE {row.bundle : row \in ToSet(a.graph.rows)} \ {None}

When(extension, paths) == IF extension = None THEN {} ELSE paths

BoundMembers(a) == UNION {
    {Core(name) : name \in CoreMembers},
    {path \in Members(a) : path[1] \in {"helper", "cli", "sidecar", "payload"}},
    {BoundRegistryPath(binding.digest) : binding \in ToSet(a.manifest.bindings)},
    When(a.manifest.attachments, {ExtensionMember("061-attachments")}),
    When(a.manifest.supersession, {GraphMember} \cup PredecessorPaths(a)),
    When(a.manifest.openClocks, {ClocksMember}),
    IF a.manifest.erasures = None THEN {} ELSE {a.manifest.erasures.path},
    IF a.manifest.certificates = None THEN {} ELSE {a.manifest.certificates.path},
    {ExtensionMember(name) : name \in a.manifest.consumers}}

UnboundFailures(a) == KindIf(~Members(a) \subseteq BoundMembers(a), "BundleUnboundMember")
=============================================================================
