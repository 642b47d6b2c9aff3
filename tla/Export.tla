------------------------------- MODULE Export -------------------------------
(***************************************************************************)
(* verify_export_zip_with_record_validator (trellis/export.rs): the stages   *)
(* of one verification of an archive, from opening it to the report.  An     *)
(* action is one stage, or one iteration of the checkpoint loop; a stage ends *)
(* the call with a fatal report or adds the kinds of failure it finds.       *)
(* The event-set call is taken at its contract, LedgerClauses!Judgement,      *)
(* which EventSet implements, and so is the call on a bundled predecessor.   *)
(***************************************************************************)
EXTENDS Supersession

CONSTANTS
    Calls,    \* the calls that are verified
    Exports   \* the arguments of each: the archive, None when the bytes are no
              \* ZIP, and the event types the validator admits as identities

\* What parses has the type it parses to.
ASSUME ExportsAssumption ==
    /\ None \notin RefusalKinds /\ None \notin AttachmentBindingDetails
    /\ \A c \in Calls : Exports[c].zip # None =>
          LET a == Exports[c].zip
          IN  /\ a.entries \in Seq(Entry)
              /\ a.registryFault \in Optional(RegistryFaults)
              /\ a.manifest.malformed \subseteq ManifestFields
              /\ a.manifest.head \in Contents
              /\ a.manifest.bindings \in Seq(RegistryBinding)
              /\ a.manifest.sidecars \in Optional(Seq(Sidecar))
              /\ a.manifest.attachments \in Optional([digest : Contents, inline : BOOLEAN])
              /\ a.manifest.erasures \in Optional(Catalog)
              /\ a.manifest.certificates \in Optional(Catalog)
              /\ a.manifest.supersession \in Optional(Counted)
              /\ a.manifest.openClocks \in Optional(Counted)
              /\ a.events \in Optional(Seq(EventRecord))
              /\ a.attachments \in Optional(Seq(AttachmentEntry))
              /\ a.erasures \in Optional(Seq(ErasureRow))
              /\ a.certificates \in Optional(Seq(CertificateRow))
              /\ a.graph \in Optional([head : Scopes, rows : Seq(Predecessor)])
              /\ a.checkpoints # None =>
                    /\ a.checkpoints \in Seq(ToSet(a.checkpoints))
                    /\ \A p \in ToSet(a.checkpoints) : p.digest \in Contents
              /\ a.inclusions # None => \A p \in ToSet(a.inclusions) :
                    p.index \in Nat /\ p.path \in Seq(ToSet(p.path))
              /\ a.consistencies # None => \A p \in ToSet(a.consistencies) :
                    p.from \in Nat /\ p.to \in Nat /\ p.path \in Seq(ToSet(p.path))

VARIABLES
    call,      \* the call being verified; never changes
    zip, types, \* its archive, and the identity types it admits; never change
    stage,     \* the next stage
    cursor,    \* index of the next checkpoint of the loop
    prior,     \* prior_checkpoint_digest
    headRoot,  \* head_checkpoint_root
    failures,  \* kinds of the failures collected, of all three lists
    report     \* None until the call returns

callVars == <<call, zip, types>>
vars == <<callVars, stage, cursor, prior, headRoot, failures, report>>

\* Failed outcomes leave failures (EventSet!OutcomesLeaveFailures), so the fold of a
\* whole report is over failures alone.
WholeReport == [structure |-> TRUE, integrity |-> failures = {}, failures |-> failures]
FatalReport(kind) == [structure |-> FALSE, integrity |-> FALSE, failures |-> {kind}]

Init ==
    /\ call \in Calls /\ zip = Exports[call].zip /\ types = Exports[call].types
    /\ stage = "open" /\ cursor = 1
    /\ prior = None /\ headRoot = None
    /\ failures = {} /\ report = None

\* The call returns at the first fault, or goes on with what the stage found.
Stage(name, fault, found, next) ==
    /\ stage = name
    /\ IF fault # None
       THEN stage' = "done" /\ report' = FatalReport(fault) /\ UNCHANGED failures
       ELSE stage' = next /\ failures' = failures \cup found /\ UNCHANGED report

Malformed(field) == Fault(field \in zip.manifest.malformed, "ManifestPayloadInvalid")

-----------------------------------------------------------------------------
(* The archive, its registry, its manifest and the members the manifest binds. *)

RegistryMember == Core("030-signing-key-registry")

RegistryFault(a) ==
    IF ~HasMember(a, RegistryMember) THEN "MissingSigningKeyRegistry" ELSE a.registryFault

ManifestFault(a) ==
    LET m == a.manifest
    IN  IF ~HasMember(a, Core("000-manifest")) THEN "MissingManifest"
        ELSE IF ~m.envelope THEN "ManifestStructureInvalid"
        ELSE IF ~m.suite THEN "UnsupportedSuite"
        ELSE IF a.registry[m.kid] = None THEN "UnresolvableManifestKid"
        ELSE IF m.signer # a.registry[m.kid].key THEN "ManifestSignatureInvalid"
        ELSE Fault("payload" \in m.malformed, "ManifestPayloadInvalid")

DigestFault(a, name) ==
    IF a.manifest.digests[name] = None THEN "ManifestPayloadInvalid"
    ELSE Fault(MemberDigest(a, Core(name)) # a.manifest.digests[name],
               "ArchiveIntegrityFailure")

BindingFault(a, binding) ==
    IF binding.digest = None THEN "ManifestPayloadInvalid"
    ELSE IF MemberDigest(a, BoundRegistryPath(binding.digest)) # binding.digest
         THEN "ArchiveIntegrityFailure"
    ELSE Fault(binding.boundAt = None, "ManifestPayloadInvalid")

BoundRegistryFault(a, binding) ==
    Fault(binding.digest # None /\ a.registries[binding.digest] = None, "BoundRegistryInvalid")

\* Open, key registry, manifest, sidecars.
OpenArchive ==
    /\ Stage("open",
             IF zip = None THEN "ExportZipInvalid"
             ELSE IF ~Opens(zip) THEN "ExportZipInvalid"
             ELSE FirstFault(<<RegistryFault(zip), ManifestFault(zip), SidecarFault(zip)>>),
             {}, "members")
    /\ UNCHANGED <<callVars, cursor, prior, headRoot>>

\* The five digests, then the bound registries: every digest before any parse.
CheckMembers ==
    /\ Stage("members",
             FirstFault(<<DigestFault(zip, "010-events"),
                          DigestFault(zip, "020-inclusion-proofs"),
                          DigestFault(zip, "025-consistency-proofs"),
                          DigestFault(zip, "030-signing-key-registry"),
                          DigestFault(zip, "040-checkpoints"),
                          Malformed("registry_bindings")>>
                        \o [k \in DOMAIN zip.manifest.bindings |->
                               BindingFault(zip, zip.manifest.bindings[k])]
                        \o [k \in DOMAIN zip.manifest.bindings |->
                               BoundRegistryFault(zip, zip.manifest.bindings[k])]
                        \o <<Malformed("scope"), Malformed("generated_at")>>),
             {}, "events")
    /\ UNCHANGED <<callVars, cursor, prior, headRoot>>

-----------------------------------------------------------------------------
(* The events, and what the archive says of them.                             *)

\* The failures of the event-set call, as one kind.  A fatal report of that call
\* does not end this one: its structure verdict is overwritten at the end.
EventSetFailures(a) ==
    KindIf(Judgement(EventSetInput(a, types)) # "verified", "EventSet")

\* Seal fence, then the event-set call.
VerifyEvents ==
    /\ Stage("events",
             IF zip.events = None THEN "EventsInvalid" ELSE SealFenceFault(zip),
             EventSetFailures(zip), "attachments")
    /\ UNCHANGED <<callVars, cursor, prior, headRoot>>

VerifyAttachments ==
    /\ Stage("attachments", Malformed("attachments"), AttachmentFailures(zip), "erasures")
    /\ UNCHANGED <<callVars, cursor, prior, headRoot>>

VerifyErasureCatalog ==
    /\ Stage("erasures", Malformed("erasure"), ErasureCatalogFailures(zip), "artifacts")
    /\ UNCHANGED <<callVars, cursor, prior, headRoot>>

\* A fatal event-set report carries no certificate outcomes to complete.
VerifyArtifacts ==
    /\ Stage("artifacts", None,
             IF Judgement(EventSetInput(zip, types)) = "unreadable" THEN {}
             ELSE CertificateArtifactFailures(zip), "certificates")
    /\ UNCHANGED <<callVars, cursor, prior, headRoot>>

VerifyCertificateCatalog ==
    /\ Stage("certificates", Malformed("certificates"), CertificateCatalogFailures(zip),
             "supersession")
    /\ UNCHANGED <<callVars, cursor, prior, headRoot>>

VerifySupersession ==
    /\ Stage("supersession", Malformed("supersession"),
             SupersessionFailures(zip), "clocks")
    /\ UNCHANGED <<callVars, cursor, prior, headRoot>>

VerifyOpenClocks ==
    /\ Stage("clocks", Malformed("open_clocks"), OpenClockFailures(zip), "registries")
    /\ UNCHANGED <<callVars, cursor, prior, headRoot>>

\* Every event against its bound registry; then 040-checkpoints is decoded.
VerifyRegistryBindings ==
    /\ Stage("registries", Fault(zip.checkpoints = None, "CheckpointsInvalid"),
             RegistryFailures(zip), "checkpoints")
    /\ UNCHANGED <<callVars, cursor, prior, headRoot>>

-----------------------------------------------------------------------------
(* The checkpoint loop.                                                       *)

CheckpointFault(c) ==
    IF ~c.suite THEN "UnsupportedSuite"
    ELSE IF zip.registry[c.kid] = None THEN "UnresolvableManifestKid"
    ELSE IF c.signer # zip.registry[c.kid].key THEN "CheckpointSignatureInvalid"
    ELSE Fault(c.malformed, "CheckpointPayloadInvalid")

\* A slip: the loop leaves the last checkpoint out.
CheckingButLast == stage = "checkpoints" /\ cursor + 1 \in DOMAIN zip.checkpoints

Checking == stage = "checkpoints" /\ cursor \in DOMAIN zip.checkpoints

SizeInvalid(c) == c.treeSize \notin 1..Len(Leaves(zip))

\* The loop's `continue`: the checkpoint is neither the head nor a predecessor.
SkipCheckpoint ==
    LET c == zip.checkpoints[cursor]
        foreign == c.scope # zip.manifest.scope
    IN  /\ Checking
        /\ foreign \/ SizeInvalid(c)
        /\ Stage("checkpoints",
                 FirstFault(<<CheckpointFault(c),
                              Fault(~foreign /\ c.treeSize = None, "CheckpointPayloadInvalid")>>),
                 {IF foreign THEN "ScopeMismatch" ELSE "TreeSizeInvalid"}, "checkpoints")
        /\ cursor' = cursor + 1
        /\ UNCHANGED <<callVars, prior, headRoot>>

\* A slip: the first checkpoint stays the one later ones are compared with.
PriorAfterFirst(c) == IF prior = None THEN c.digest ELSE prior

PriorAfter(c) == c.digest

\* A slip: the checkpoint before is not compared.
CheckpointFailuresUnlinked(c) ==
    KindIf(c.root # MerkleRoot(Prefix(zip, c.treeSize)), "CheckpointRootMismatch")

CheckpointFailures(c) ==
    KindIf(c.root # MerkleRoot(Prefix(zip, c.treeSize)), "CheckpointRootMismatch")
    \cup KindIf(prior # None /\ c.prev # prior, "PrevCheckpointHashMismatch")

CountCheckpoint ==
    LET c == zip.checkpoints[cursor]
    IN  /\ Checking
        /\ c.scope = zip.manifest.scope /\ ~SizeInvalid(c)
        /\ Stage("checkpoints",
                 FirstFault(<<CheckpointFault(c),
                              Fault(c.root = None \/ (prior # None /\ c.prev = None),
                                    "CheckpointPayloadInvalid")>>),
                 CheckpointFailures(c), "checkpoints")
        /\ cursor' = cursor + 1
        /\ prior' = PriorAfter(c) /\ headRoot' = c.root
        /\ UNCHANGED callVars

VerifyHead ==
    /\ Stage("checkpoints", Malformed("head_checkpoint_digest"),
             KindIf(prior # zip.manifest.head, "HeadCheckpointDigestMismatch"), "inclusions")
    /\ cursor = Len(zip.checkpoints) + 1
    /\ UNCHANGED <<callVars, cursor, prior, headRoot>>

-----------------------------------------------------------------------------
(* The proofs, the sweep, the report.                                         *)

LeadsToHead(p) ==
    RootFromInclusionProof(p.index, p.treeSize, p.leaf, p.path)
        = {IF headRoot = None THEN NoRoot ELSE headRoot}

InclusionFailures(p) ==
    LET leaves == Leaves(zip)
    IN  IF p.malformed \/ p.treeSize # Len(leaves) \/ p.index >= Len(leaves)
        THEN {"InclusionProofInvalid"}
        ELSE KindIf(p.leaf # leaves[p.index + 1] \/ ~LeadsToHead(p), "InclusionProofMismatch")

VerifyInclusionProofs ==
    /\ Stage("inclusions", Fault(zip.inclusions = None, "InclusionProofsInvalid"),
             UNION {InclusionFailures(p) : p \in ToSet(zip.inclusions)}, "consistencies")
    /\ UNCHANGED <<callVars, cursor, prior, headRoot>>

\* Both roots are recomputed from the events, not read from the checkpoints.
ConsistencyFailures(p) ==
    LET root(size) == MerkleRoot(Prefix(zip, size))
    IN  IF p.malformed \/ p.from = 0 \/ p.from >= p.to \/ p.to > Len(Leaves(zip))
        THEN {"ConsistencyProofInvalid"}
        ELSE LET roots == RootFromConsistencyProof(p.from, p.to, root(p.from), p.path)
             IN  IF roots = {} THEN {"ConsistencyProofInvalid"}
                 ELSE KindIf(roots # {root(p.to)}, "ConsistencyProofMismatch")

VerifyConsistencyProofs ==
    /\ Stage("consistencies", Fault(zip.consistencies = None, "ConsistencyProofsInvalid"),
             UNION {ConsistencyFailures(p) : p \in ToSet(zip.consistencies)}, "sweep")
    /\ UNCHANGED <<callVars, cursor, prior, headRoot>>

SweepMembers ==
    /\ Stage("sweep", None, UnboundFailures(zip), "report")
    /\ UNCHANGED <<callVars, cursor, prior, headRoot>>

\* Structure is set whatever the event-set call reported.
ReturnReport ==
    /\ stage = "report"
    /\ stage' = "done"
    /\ report' = WholeReport
    /\ UNCHANGED <<callVars, cursor, prior, headRoot, failures>>

Next ==
    \/ OpenArchive \/ CheckMembers
    \/ VerifyEvents \/ VerifyAttachments \/ VerifyErasureCatalog \/ VerifyArtifacts
    \/ VerifyCertificateCatalog \/ VerifySupersession \/ VerifyOpenClocks
    \/ VerifyRegistryBindings
    \/ SkipCheckpoint \/ CountCheckpoint \/ VerifyHead
    \/ VerifyInclusionProofs \/ VerifyConsistencyProofs
    \/ SweepMembers \/ ReturnReport

Spec == Init /\ [][Next]_vars

-----------------------------------------------------------------------------
(* Properties. *)

Verified == stage = "done" /\ report.integrity

\* The variables keep the types of their Rust counterparts: a report is of all that was
\* found, or of the one fault that ended the call; and the root and the digest of the
\* head are those of one checkpoint.
TypeOK ==
    /\ zip = Exports[call].zip /\ types = Exports[call].types
    /\ IF stage # "done" THEN report = None
       ELSE report = WholeReport \/ \E kind \in RefusalKinds : report = FatalReport(kind)
    /\ cursor > 1 => cursor - 1 \in DOMAIN zip.checkpoints
    /\ stage # "done" => (prior = None) = (headRoot = None)
    /\ prior # None => \E k \in 1..(cursor - 1) :
           zip.checkpoints[k].digest = prior /\ zip.checkpoints[k].root = headRoot

\* The verdict of a call is the one the clauses give of the whole archive: no
\* stage is passed over, no fatal condition is missed, and neither the checkpoint
\* loop nor the traversal of bundled predecessors loses track on the way.
Verdict ==
    IF stage # "done" THEN "pending"
    ELSE IF ~report.structure THEN "refused"
    ELSE IF report.integrity THEN "verified" ELSE "tampered"

Judge == INSTANCE ExportJudge WITH verdict <- Verdict, Judged <- ExportJudgement
ImplementsExportJudge == Judge!Safety

\* An event a verified export proves included is committed to by its head: the
\* head's tree, and not only the list of events, holds the event's hash
\* (the root comparison of export.rs).
ProvedEventsAreCommitted ==
    Verified => \A p \in ToSet(zip.inclusions) :
        \E k \in 1..HeadCheckpoint(zip).treeSize : Leaves(zip)[k] = p.leaf

\* Every file below interop-sidecars/ is listed: the sweep admits the prefix
\* because any unlisted file has ended the call (export.rs:1023-1025, 1057-1059).
SidecarsAreListed == Verified => SidecarFiles(zip) \subseteq ListedSidecars(zip)
=============================================================================
