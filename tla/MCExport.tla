------------------------------ MODULE MCExport ------------------------------
(***************************************************************************)
(* Exports and a validator: archives that differ in their events, checkpoints  *)
(* and proofs, variants of an archive with every member, and archives whose    *)
(* chain replaces others.                                                    *)
(***************************************************************************)
EXTENDS RelyingParty, MCBase, TLC

-----------------------------------------------------------------------------
(* The archive every sample of the export runs is a variant of: the layout   *)
(* a producer writes, signed by k1.  A member's digest is named after it.    *)

EntryOf(path) == [root |-> "root", path |-> path, content |-> path[2]]

CoreEntries == <<
    EntryOf(Core("000-manifest")), EntryOf(Core("010-events")),
    EntryOf(Core("020-inclusion-proofs")), EntryOf(Core("025-consistency-proofs")),
    EntryOf(Core("030-signing-key-registry")), EntryOf(Core("040-checkpoints")),
    EntryOf(BoundRegistryPath("reg")) >>

CoreContents == CoreMembers \cup {"reg"}

\* An archive of the events and checkpoints and nothing else.
PlainManifest(scope, size, head) ==
    [envelope |-> TRUE, suite |-> TRUE, kid |-> "k1", signer |-> "K1", malformed |-> {},
     digests |-> [name \in CoreMembers \ {"000-manifest"} |-> name],
     bindings |-> <<[digest |-> "reg", boundAt |-> 0]>>, sidecars |-> None,
     scope |-> scope, generatedAt |-> 5, treeSize |-> size, head |-> head, fence |-> None,
     attachments |-> None, erasures |-> None, certificates |-> None, supersession |-> None,
     openClocks |-> None, consumers |-> {}]

BaseRegistry ==
    [eventTypes |-> {"event", "trellis.erasure-evidence.v1",
                     "trellis.certificate-of-completion.v1"},
     classifications |-> {"plain"}]

PlainArchive(scope, events, checkpoints, head) ==
    [entries |-> CoreEntries, registryFault |-> None,
     registry |-> MCRegistry, nonSigning |-> MCNonSigning,
     manifest |-> PlainManifest(scope, Len(events), head),
     registries |-> [digest \in {"reg", "reg2"} |-> IF digest = "reg" THEN BaseRegistry ELSE None],
     events |-> events, checkpoints |-> checkpoints, inclusions |-> <<>>, consistencies |-> <<>>,
     attachments |-> None, erasures |-> None, certificates |-> None,
     graph |-> None, clocks |-> None]

CheckpointOf(scope, size, root, prev, digest) ==
    [suite |-> TRUE, kid |-> "k1", signer |-> "K1", malformed |-> FALSE, scope |-> scope,
     treeSize |-> size, root |-> root, prev |-> prev, digest |-> digest]

-----------------------------------------------------------------------------
Bind(e, content, replaced) ==
    [e EXCEPT !.inline = None,
              !.binding = [id |-> "form", payloadContentHash |-> content,
                           priorBindingHash |-> replaced]]

\* A form, the form that replaces it, a destroyed subject key, and a certificate
\* that presents the form.
G == Bind(Event("g", 0, None, 1, "i1", "draft"), "draft", None)
B == Bind(Event("b", 1, "g", 2, "i2", "final"), "final", "g")
E == [Event("e", 2, "b", 3, "i3", "evidence") EXCEPT
        !.eventType = "trellis.erasure-evidence.v1",
        !.erasure = [id |-> "er", kid |-> "subject", keyClass |-> "subject", destroyedAt |-> 3,
                     authorities |-> {"new"}, wellFormed |-> TRUE]]
C == [Event("c", 3, "e", 4, "i4", "certificate") EXCEPT
        !.eventType = "trellis.certificate-of-completion.v1",
        !.certificate =
            [id |-> "cert", contentHash |-> "final", attachmentId |-> "form",
             signingEvents |-> <<"g">>, signerCount |-> 1,
             signerDisplay |-> <<[principal |-> "ann", signedAt |-> 1]>>, responseRef |-> None,
             completedAt |-> 4, workflowStatus |-> "done", wellFormed |-> TRUE]]

BaseEvents == <<G, B, E, C>>
BaseLeaves == [k \in DOMAIN BaseEvents |-> MerkleLeafHash(BaseEvents[k].hash)]

-----------------------------------------------------------------------------
ErasuresMember == ExtensionMember("erasures")
CertificatesMember == ExtensionMember("certificates")
PolicyMember == ExtensionMember("067-policy-closure")
SidePath == <<"sidecar", "side">>

BaseEntries ==
    CoreEntries \o [k \in 1..9 |->
        EntryOf(<<BoundRegistryPath("reg2"), Payload("draft"), Payload("final"),
                  ExtensionMember("061-attachments"), ErasuresMember, CertificatesMember,
                  ClocksMember, PolicyMember, SidePath>>[k])]

BaseFence ==
    [scope |-> "s1", version |-> 1, eventCount |-> 4, highWater |-> 3,
     attempt |-> <<"s1", 1, 3, "c">>, head |-> "cp", eventsDigest |-> "010-events",
     policyClosure |-> "067-policy-closure"]

BaseSidecar == [kind |-> "c2pa-manifest", path |-> SidePath, derivationVersion |-> 1,
                contentDigest |-> "side", malformed |-> FALSE]

EntryFor(e) == [event |-> e.hash, binding |-> e.binding]
ErasureRowFor(e) == [event |-> e.hash, id |-> "er", kid |-> "subject", destroyedAt |-> 3]
CertificateRowFor(e) == [event |-> e.hash, id |-> "cert", completedAt |-> 4, signerCount |-> 1,
                         attachmentId |-> "form", workflowStatus |-> "done"]

BaseManifest ==
    [PlainManifest("s1", 4, "cp") EXCEPT
        !.bindings = <<[digest |-> "reg", boundAt |-> 0], [digest |-> "reg2", boundAt |-> 2]>>,
        !.sidecars = <<BaseSidecar>>, !.fence = BaseFence,
        !.attachments = [digest |-> "061-attachments", inline |-> TRUE],
        !.erasures = [path |-> ErasuresMember, digest |-> "erasures", count |-> 1],
        !.certificates = [path |-> CertificatesMember, digest |-> "certificates", count |-> 1],
        !.openClocks = [digest |-> "open-clocks", count |-> 2],
        !.consumers = {"067-policy-closure"}]

Base0 == PlainArchive("s1", BaseEvents,
                      <<CheckpointOf("s1", 4, TreeHash(BaseLeaves), None, "cp")>>, "cp")

BaseArchive ==
    [Base0 EXCEPT
        !.entries = BaseEntries, !.manifest = BaseManifest,
        !.registries = [digest \in {"reg", "reg2", "other"} |->
            CASE digest = "reg" -> BaseRegistry
              [] digest = "reg2" -> [BaseRegistry EXCEPT !.eventTypes = @ \ {"event"}]
              [] OTHER -> None],
        !.inclusions = <<[malformed |-> FALSE, treeSize |-> 4, index |-> 2,
                          leaf |-> BaseLeaves[3], path |-> AuditPath(BaseLeaves, 2)]>>,
        !.attachments = <<EntryFor(G), EntryFor(B)>>,
        !.erasures = <<ErasureRowFor(E)>>, !.certificates = <<CertificateRowFor(C)>>,
        !.clocks = [count |-> 2, sealedAt |-> 5]]

-----------------------------------------------------------------------------
(* What the parts are replaced with.                                          *)

Sidecars == <<
    None, <<>>, <<[BaseSidecar EXCEPT !.malformed = TRUE]>>,
    <<[BaseSidecar EXCEPT !.derivationVersion = 2]>>,
    <<[BaseSidecar EXCEPT !.derivationVersion = 257]>>,
    <<[BaseSidecar EXCEPT !.kind = "scitt-receipt"]>>,
    <<[BaseSidecar EXCEPT !.kind = "cert"]>>,
    <<[BaseSidecar EXCEPT !.path = <<"other", "side">>]>>,
    <<BaseSidecar, [BaseSidecar EXCEPT !.contentDigest = "other"]>>,
    <<[BaseSidecar EXCEPT !.kind = "did-key-view", !.path = <<"sidecar", "late">>,
                          !.contentDigest = "late"], BaseSidecar>> >>

Fences == <<
    None, [BaseFence EXCEPT !.scope = "s2"], [BaseFence EXCEPT !.version = 0],
    [BaseFence EXCEPT !.eventCount = 3], [BaseFence EXCEPT !.highWater = 2],
    [BaseFence EXCEPT !.attempt = <<"s1", 1, 3, "e">>], [BaseFence EXCEPT !.head = "other"],
    [BaseFence EXCEPT !.eventsDigest = "other"], [BaseFence EXCEPT !.policyClosure = None] >>

Attachments == <<
    None, <<>>, <<EntryFor(B)>>, <<EntryFor(B), EntryFor(G)>>, <<EntryFor(G), EntryFor(G)>>,
    <<[EntryFor(G) EXCEPT !.event = "e"]>>, <<[EntryFor(G) EXCEPT !.event = "z"]>>,
    <<[EntryFor(B) EXCEPT !.binding.priorBindingHash = "z"]>>,
    <<[EntryFor(G) EXCEPT !.binding.payloadContentHash = "final"]>>,
    <<[EntryFor(G) EXCEPT !.binding.priorBindingHash = "b"]>>,
    <<[EntryFor(G) EXCEPT !.binding.priorBindingHash = "b"], EntryFor(B)>> >>

Erasures == <<
    None, <<>>, <<ErasureRowFor(E), ErasureRowFor(E)>>, <<ErasureRowFor(C)>>,
    <<[ErasureRowFor(E) EXCEPT !.event = "z"]>>, <<[ErasureRowFor(E) EXCEPT !.kid = "k1"]>> >>

Certs == <<
    None, <<CertificateRowFor(C), CertificateRowFor(C)>>, <<CertificateRowFor(E)>>,
    <<[CertificateRowFor(C) EXCEPT !.event = "z"]>>,
    <<[CertificateRowFor(C) EXCEPT !.completedAt = 3]>> >>

Bindings == <<
    <<>>, <<[digest |-> "reg", boundAt |-> 0]>>, <<[digest |-> "reg", boundAt |-> 1]>>,
    <<[digest |-> "reg2", boundAt |-> 0], [digest |-> "reg", boundAt |-> 0]>>,
    <<[digest |-> "reg", boundAt |-> 0], [digest |-> "reg2", boundAt |-> 1]>>,
    <<[digest |-> None, boundAt |-> 0]>>, <<[digest |-> "reg", boundAt |-> None]>>,
    <<[digest |-> "other", boundAt |-> 0]>> >>

\* Ledgers: a repeated genesis, a forged certificate, a prior that comes later,
\* a broken link, an event that does not decode, payloads inline.
EventLists == <<
    None, <<G, G>>, <<G, B, E, [C EXCEPT !.signer = None]>>,
    <<[G EXCEPT !.binding.priorBindingHash = "b"], B, E, C>>,
    <<G, [B EXCEPT !.prevHash = "e"], E, C>>, <<G, B, E, [C EXCEPT !.malformed = TRUE]>>,
    <<[G EXCEPT !.malformed = TRUE, !.signer = None], B, E, C>>,
    <<[G EXCEPT !.inline = "draft"], [B EXCEPT !.inline = "final"], E, C>>,
    <<G, [B EXCEPT !.binding = None], E, C>>, <<>>,
    <<G, B, E, [C EXCEPT !.classification = "secret"]>>,
    <<G, B, E, [C EXCEPT !.certificate.attachmentId = "cert"]>>,
    <<G, B, E, [C EXCEPT !.certificate.contentHash = "draft"]>> >>

Manifests(m) == <<
    [m EXCEPT !.envelope = FALSE], [m EXCEPT !.suite = FALSE], [m EXCEPT !.kid = "nobody"],
    [m EXCEPT !.signer = "K2"], [m EXCEPT !.digests["010-events"] = None],
    [m EXCEPT !.digests["040-checkpoints"] = "other"], [m EXCEPT !.scope = "s2"],
    [m EXCEPT !.generatedAt = 6], [m EXCEPT !.treeSize = 3], [m EXCEPT !.head = "other"],
    [m EXCEPT !.attachments = None], [m EXCEPT !.attachments.digest = "other"],
    [m EXCEPT !.attachments.inline = FALSE],
    [m EXCEPT !.erasures = None], [m EXCEPT !.erasures.count = 2],
    [m EXCEPT !.erasures.path = SidePath], [m EXCEPT !.certificates = None],
    [m EXCEPT !.certificates.digest = "other"], [m EXCEPT !.openClocks = None],
    [m EXCEPT !.openClocks.count = 3], [m EXCEPT !.consumers = {}],
    [m EXCEPT !.supersession = [digest |-> "other", count |-> 0]] >>

-----------------------------------------------------------------------------
\* An edit is <<what, which>>.
BasePaths == {BaseEntries[k].path : k \in DOMAIN BaseEntries}
NewPaths == {Payload("other"), <<"sidecar", "late">>, <<"predecessor", "late">>, GraphMember,
             <<"cli", "late">>, <<"other", "late">>}

PathEdits == ({"drop", "replace"} \X BasePaths) \cup ({"add"} \X NewPaths)
FieldEdits == {"malformed"} \X ManifestFields
FaultEdits == {"fault"} \X RegistryFaults
PartEdits ==
    ({"sidecars"} \X DOMAIN Sidecars) \cup ({"fence"} \X DOMAIN Fences)
    \cup ({"attachments"} \X DOMAIN Attachments) \cup ({"erasures"} \X DOMAIN Erasures)
    \cup ({"certificates"} \X DOMAIN Certs) \cup ({"bindings"} \X DOMAIN Bindings)
    \cup ({"events"} \X DOMAIN EventLists) \cup ({"manifest"} \X DOMAIN Manifests(BaseManifest))
    \cup ({"clocks", "checkpoints", "inclusions", "consistencies", "rootless", "roots", "registries", "none"} \X {0})

Drop(a, path) == [a EXCEPT !.entries = SelectSeq(@, LAMBDA entry : entry.path # path)]
Put(a, where, content) ==
    [a EXCEPT !.entries = Append(@, [root |-> "root", path |-> where, content |-> content])]

Edited(a, edit) ==
    LET what == edit[1]
        which == edit[2]
    IN  CASE what = "drop" -> Drop(a, which)
          [] what = "replace" -> Put(a, which, "other")
          [] what = "add" -> Put(a, which, which[2])
          [] what = "malformed" -> [a EXCEPT !.manifest.malformed = @ \cup {which}]
          [] what = "fault" -> [a EXCEPT !.registryFault = which]
          [] what = "sidecars" -> [a EXCEPT !.manifest.sidecars = Sidecars[which]]
          [] what = "fence" -> [a EXCEPT !.manifest.fence = Fences[which]]
          [] what = "attachments" -> [a EXCEPT !.attachments = Attachments[which]]
          [] what = "erasures" -> [a EXCEPT !.erasures = Erasures[which]]
          [] what = "certificates" -> [a EXCEPT !.certificates = Certs[which]]
          [] what = "bindings" -> [a EXCEPT !.manifest.bindings = Bindings[which]]
          [] what = "events" -> [a EXCEPT !.events = EventLists[which]]
          [] what = "manifest" -> [a EXCEPT !.manifest = Manifests(@)[which]]
          [] what = "clocks" -> [a EXCEPT !.clocks = None]
          [] what = "checkpoints" -> [a EXCEPT !.checkpoints = None]
          [] what = "inclusions" -> [a EXCEPT !.inclusions = None]
          [] what = "consistencies" -> [a EXCEPT !.consistencies = None]
          [] what = "rootless" -> [a EXCEPT !.entries[1].root = None]
          [] what = "roots" -> [a EXCEPT !.entries[1].root = "late"]
          [] what = "registries" -> [a EXCEPT !.registries["reg"] = None]
          [] OTHER -> a

Edits == PathEdits \cup FieldEdits \cup FaultEdits \cup PartEdits

\* Two edits, one after the other; the manifest's own fields are edited first.
First == {e \in Edits : e[1] \in {"manifest", "none", "events", "drop", "sidecars", "attachments"}}

MemberCalls ==
    {c \in First \X Edits : c[1][1] = "manifest" => c[2][1] # "manifest"} \cup {<<>>}

MemberExport(c) ==
    [zip |-> IF c = <<>> THEN None ELSE Edited(Edited(BaseArchive, c[1]), c[2]), types |-> {}]

MemberHashes == {"g", "b", "e", "c", "z"}
MemberContents ==
    CoreContents \cup {path[2] : path \in BasePaths \cup NewPaths}
    \cup {"cp", "other", "evidence", "certificate"}
MemberNames == {"root", "side", "late", "form", "er", "cert", "ann", "done", "new", "erasures",
                "certificates", "c2pa-manifest", "did-key-view", "scitt-receipt",
                "061-attachments", "067-policy-closure", "open-clocks",
                "064-supersession-graph"}


-----------------------------------------------------------------------------
(* Archives that differ in their events, checkpoints and proofs.             *)

At(hash, sequence, prev, at, key) == Event(hash, sequence, prev, at, key, "content")

E0 == At("g", 0, None, 1, "i1")
E1 == At("a", 1, "g", 2, "i2")
E2 == At("b", 2, "a", 3, "i3")
F0 == At("h", 0, None, 2, "i4")

\* A chain, a part of it, a second genesis the list repeats, and an event that
\* is in no tree: it does not decode, and its signature fails.
Ledgers == <<
    <<E0, E1, E2>>, <<E0, E1>>, <<E0, F0, F0>>, <<E0, [E1 EXCEPT !.malformed = TRUE, !.signer = None], E2>>,
    <<>> >>

LeavesOf(ledger) ==
    LET decodable == SelectSeq(ledger, LAMBDA e : Decodes(e))
    IN  [k \in DOMAIN decodable |-> MerkleLeafHash(decodable[k].hash)]

\* What a producer's tree of the first events is; no root beyond the last.
RootOf(ledger, size) ==
    IF size \in 1..Len(LeavesOf(ledger)) THEN TreeHash(SubSeq(LeavesOf(ledger), 1, size))
    ELSE NoRoot

\* Checkpoint k has the digest "ck".
Checkpoints(ledger) ==
    LET good(size, prev, digest) ==
            CheckpointOf("s1", size, RootOf(ledger, size), prev, digest)
    IN  << good(1, None, "c1"), good(2, "c1", "c2"), good(3, "c2", "c3"), good(3, "c1", "c4"),
           good(1, "c2", "c5"), good(2, None, "c6"),
           [good(2, "c1", "c7") EXCEPT !.root = RootOf(ledger, 1)],
           [good(1, None, "c8") EXCEPT !.scope = "s2"],
           good(0, None, "c9"), good(4, "c1", "c10"),
           [good(1, None, "c11") EXCEPT !.treeSize = None],
           [good(1, None, "c12") EXCEPT !.treeSize = None, !.scope = "s2"],
           [good(1, None, "c13") EXCEPT !.root = None],
           [good(1, None, "c14") EXCEPT !.suite = FALSE],
           [good(1, None, "c15") EXCEPT !.signer = "K2"],
           [good(1, None, "c16") EXCEPT !.kid = "nobody"],
           [good(1, None, "c17") EXCEPT !.malformed = TRUE] >>

\* The paths the archives carry: every audit path of every prefix of the events.
Paths3(ledger) ==
    UNION {{AuditPath(SubSeq(LeavesOf(ledger), 1, m), i) : i \in 0..(m - 1)} :
              m \in 1..Len(LeavesOf(ledger))}

Inclusions(ledger) ==
    {<<[malformed |-> FALSE, treeSize |-> size, index |-> i, leaf |-> LeavesOf(ledger)[j],
        path |-> path]>> :
        size \in {2, 3}, i \in 0..3, j \in DOMAIN LeavesOf(ledger), path \in Paths3(ledger)}
    \cup {<<[malformed |-> TRUE, treeSize |-> 3, index |-> 0, leaf |-> LeavesOf(ledger)[1],
             path |-> <<>>]>>, <<>>}

Consistencies(ledger) ==
    {<<[malformed |-> malformed, from |-> from, to |-> to, path |-> path]>> :
        malformed \in BOOLEAN, from \in 0..3, to \in 0..4, path \in
            {ConsistencyPath(SubSeq(LeavesOf(ledger), 1, m), f) : f \in {1}, m \in {2, 3}}
            \cup {ConsistencyPath(SubSeq(LeavesOf(ledger), 1, 3), 2), <<>>}}

\* A call names the ledger, the checkpoints, the place in that list whose digest
\* is the head (0: another digest), and the proofs.
CheckpointLists ==
    UNION {[1..n -> 1..17] : n \in {0, 1, 2}} \cup [1..3 -> {1, 2, 3, 4, 5, 8, 9}]
Histories == {<<1>>, <<1, 2>>, <<1, 2, 3>>, <<1, 4>>}

CallsOver(ledgers, lists, heads, inclusions, consistencies) ==
    {<<l, list, head, p, c>> : l \in ledgers, list \in lists, head \in heads,
                               p \in inclusions, c \in consistencies}

CommitmentCalls ==
    UNION {
        {c \in CallsOver({1}, CheckpointLists, 0..3, {<<>>}, {<<>>}) : c[3] <= Len(c[2])},
        {c \in CallsOver(2..5, UNION {[1..n -> 1..5] : n \in 0..2}, {0, 1, 2}, {<<>>}, {<<>>}) :
            c[3] = Len(c[2])},
        UNION {{c \in CallsOver({l}, Histories, {1, 2, 3}, Inclusions(Ledgers[l]), {<<>>}) :
                   c[3] = Len(c[2])} : l \in {1, 3}},
        CallsOver({1}, {<<1, 2>>}, {2}, {<<>>}, Consistencies(Ledgers[1])),
        {<<1, <<1>>, 1, None, <<>>>>, <<1, <<1>>, 1, <<>>, None>>, <<1, None, 0, <<>>, <<>>>>}}

CommitmentArchive(c) ==
    LET ledger == Ledgers[c[1]]
        list == [k \in DOMAIN c[2] |-> Checkpoints(ledger)[c[2][k]]]
        a == PlainArchive("s1", ledger, <<>>, IF c[3] = 0 THEN "other" ELSE list[c[3]].digest)
    IN  [a EXCEPT !.checkpoints = IF c[2] = None THEN None ELSE <<>> \o list,
                  !.inclusions = c[4], !.consistencies = c[5]]

CommitmentExport(c) == [zip |-> CommitmentArchive(c), types |-> {}]

CommitmentHashes == {"g", "a", "b", "h"}
CommitmentContents ==
    CoreContents \cup {"content", "other"} \cup {"c" \o ToString(k) : k \in 1..17}

-----------------------------------------------------------------------------
(* Archives whose chain replaces others: a graph of up to two rows, over      *)
(* bundles that carry graphs of their own, three deep.  The export of a chain *)
(* has one event and one checkpoint; a bundle is named after what it holds.   *)

Chains == {"s1", "s2", "s3"}
HeadOf(chain) == "head-" \o chain

Genesis(chain) ==
    [Event("genesis-" \o chain, 0, None, 1, "i1", "content") EXCEPT !.scope = chain]

ExportOf(chain) ==
    PlainArchive(chain, <<Genesis(chain)>>,
                 <<CheckpointOf(chain, 1, MerkleLeafHash("genesis-" \o chain), None,
                                HeadOf(chain))>>,
                 HeadOf(chain))

\* A bundle's member is named after the bundle.
Row(chain, bundle) ==
    [chainId |-> chain, checkpointHash |-> HeadOf(chain),
     bundle |-> IF bundle = None THEN None ELSE <<"predecessor", bundle>>]

BundleEntries(rows) ==
    LET bundled == {k \in DOMAIN rows : rows[k].bundle # None}
    IN  IF bundled = {} THEN <<>>
        ELSE IF bundled = {1, 2} THEN <<EntryOf(rows[1].bundle), EntryOf(rows[2].bundle)>>
        ELSE <<EntryOf(rows[CHOOSE k \in bundled : TRUE].bundle)>>

WithGraph(a, rows) ==
    [a EXCEPT !.entries = @ \o <<EntryOf(GraphMember)>> \o BundleEntries(rows),
              !.manifest.supersession =
                  [digest |-> "064-supersession-graph", count |-> Len(rows)],
              !.graph = [head |-> a.manifest.scope, rows |-> rows]]

-----------------------------------------------------------------------------
(* The bundles: a leaf replaces no chain, a mid names one with or without its *)
(* leaf, a high one with its mid.                                             *)

LeafName(chain) == "leaf-" \o chain
MidName(m) == m[1] \o "-" \o m[2] \o (IF m[3] THEN "-leaf" ELSE "")
HighName(h) == h[1] \o "-mid-" \o MidName(h[2])

MidNames == Chains \X Chains \X BOOLEAN
HighNames == {h \in Chains \X MidNames : h[1] # h[2][1]}

MidExport(m) ==
    WithGraph(ExportOf(m[1]), <<Row(m[2], IF m[3] THEN LeafName(m[2]) ELSE None)>>)
HighExport(h) == WithGraph(ExportOf(h[1]), <<Row(h[2][1], MidName(h[2]))>>)

\* "broken" is signed by another key; every other content is no export.
BundleOf(content) ==
    IF \E chain \in Chains : content = LeafName(chain)
    THEN ExportOf(CHOOSE chain \in Chains : content = LeafName(chain))
    ELSE IF \E m \in MidNames : content = MidName(m)
    THEN MidExport(CHOOSE m \in MidNames : content = MidName(m))
    ELSE IF \E h \in HighNames : content = HighName(h)
    THEN HighExport(CHOOSE h \in HighNames : content = HighName(h))
    ELSE IF content = "broken" THEN [ExportOf("s2") EXCEPT !.manifest.signer = "K2"]
    ELSE None

\* A bundle is longer than what it holds.
SizeOf(content) ==
    IF \E chain \in Chains : content = LeafName(chain) THEN 1
    ELSE IF \E m \in MidNames : content = MidName(m) THEN 2
    ELSE IF \E h \in HighNames : content = HighName(h) THEN 3
    ELSE IF content = "broken" THEN 1 ELSE 0

BundleNames ==
    {LeafName(chain) : chain \in Chains} \cup {MidName(m) : m \in MidNames}
    \cup {HighName(h) : h \in HighNames} \cup {"broken", "junk"}

-----------------------------------------------------------------------------
(* The calls: variants of the export of s1, by its rows.                      *)

PlainRows ==
    {Row(chain, None) : chain \in Chains} \cup {Row(chain, LeafName(chain)) : chain \in Chains}
    \cup {Row("s2", "leaf-s3"), Row("s2", "broken"), Row("s2", "junk"),
          [Row("s2", "leaf-s2") EXCEPT !.checkpointHash = HeadOf("s3")],
          [Row("s3", "leaf-s2") EXCEPT !.checkpointHash = HeadOf("s2")]}
DeepRows ==
    {Row(m[1], MidName(m)) : m \in MidNames} \cup {Row(h[1], HighName(h)) : h \in HighNames}

RowLists ==
    {<<>>} \cup {<<r>> : r \in PlainRows \cup DeepRows} \cup {<<r, t>> : r, t \in PlainRows}
    \cup {<<r, t>> : r \in DeepRows, t \in {Row("s3", None), Row("s3", "leaf-s3")}}

Variants == {"as it is", "supersedes s2", "supersedes another head of s2"}
Faults == {"no member", "another digest", "does not parse", "another count", "another head",
           "unbound", "bundle missing"}

FewRows == {<<>>, <<Row("s2", None)>>, <<Row("s2", "leaf-s2")>>}

ChainCalls ==
    ({"as it is"} \X RowLists)
    \cup (Variants \X {<<>>, <<Row("s2", None)>>, <<Row("s3", None), Row("s2", "leaf-s2")>>})
    \cup (Faults \X FewRows)

Supersedes(a, head) ==
    [a EXCEPT !.events[1].supersedes = [chainId |-> "s2", checkpointHash |-> head]]

ArchiveOf(c) ==
    LET a == WithGraph(ExportOf("s1"), c[2])
        variant == c[1]
    IN  CASE variant = "supersedes s2" -> Supersedes(a, HeadOf("s2"))
          [] variant = "supersedes another head of s2" -> Supersedes(a, HeadOf("s3"))
          [] variant = "no member" -> [a EXCEPT !.entries = CoreEntries]
          [] variant = "another digest" -> [a EXCEPT !.manifest.supersession.digest = "other"]
          [] variant = "does not parse" -> [a EXCEPT !.graph = None]
          [] variant = "another count" -> [a EXCEPT !.manifest.supersession.count = 3]
          [] variant = "another head" -> [a EXCEPT !.graph.head = "s3"]
          [] variant = "unbound" -> [a EXCEPT !.manifest.supersession = None]
          [] variant = "bundle missing" ->
                 [a EXCEPT !.entries = CoreEntries \o <<EntryOf(GraphMember)>>]
          [] OTHER -> a

ChainExport(c) == [zip |-> ArchiveOf(c), types |-> {}]

ChainHashes == {"genesis-" \o chain : chain \in Chains}
ChainContents ==
    CoreContents \cup {"content", "other", "064-supersession-graph"}
    \cup {HeadOf(chain) : chain \in Chains} \cup BundleNames
ChainNames == {"root", "064-supersession-graph"} \cup BundleNames

-----------------------------------------------------------------------------
Finding(kind, severity) == [kind |-> kind, severity |-> severity]
MCAnswers ==
    {{}, {Finding("signed_acts_render_drift", "Advisory")},
     {Finding("missing_signed_acts_catalog", "Failure")},
     {Finding("signed_acts_manifest_mismatch", "Failure"),
      Finding("signed_acts_render_drift", "Advisory")}}

MemberAndChainCalls == ({"members"} \X MemberCalls) \cup ({"chains"} \X ChainCalls)

CallSet == MemberAndChainCalls \cup ({"commitments"} \X CommitmentCalls)
ExportSet ==
    [c \in CallSet |->
        CASE c[1] = "members" -> MemberExport(c[2])
          [] c[1] = "chains" -> ChainExport(c[2])
          [] c[1] = "commitments" -> CommitmentExport(c[2])]
ContentSet == MemberContents \cup ChainContents \cup CommitmentContents
BundleTable == [content \in ContentSet |-> BundleOf(content)]
SizeTable == [content \in ContentSet |-> SizeOf(content)]
HashSet == MemberHashes \cup ChainHashes \cup CommitmentHashes

\* TLC keeps the values of the definitions these name.
MCCalls == CallSet
MCFewCalls == MemberAndChainCalls
MCExports == ExportSet
MCContents == ContentSet
MCBundles == BundleTable
MCSizes == SizeTable
MCHashes == HashSet

MCExportScopes == MCScopes \cup Chains
MCIdempotencyKeys == {"i1", "i2", "i3", "i4"}
MCNames == MemberNames \cup ChainNames
MCNodes == {}
=============================================================================
