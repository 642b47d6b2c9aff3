---------------------------- MODULE ExportProofs ----------------------------
(***************************************************************************)
(* Theorems about Export and RelyingParty: a report is refused exactly when    *)
(* the archive cannot be read, the checkpoints of a verified one are one chain *)
(* up to the head the manifest names, what it proves included its head        *)
(* commits to, and what a relying party accepts was checked in both layers.   *)
(* And Export implements ExportJudge, for every set of calls: over a ledger of *)
(* which every event decodes each stage finds nothing exactly when its clause  *)
(* of ExportClauses holds, and so the verdict of the stages, with their        *)
(* running checkpoint and their walk over bundled predecessors, is the verdict *)
(* of the clauses.                                                             *)
(***************************************************************************)
EXTENDS RelyingParty, MerkleProofs, FiniteSetTheorems, TLAPS

-----------------------------------------------------------------------------
(* The first fault of a list of checks.                                       *)

\* A list of checks has no fault exactly when no check has one.
LEMMA FirstFaultFound ==
    ASSUME NEW kinds, NEW n \in Nat, DOMAIN kinds = 1..n
    PROVE  FirstFault(kinds) = None <=> \A k \in DOMAIN kinds : kinds[k] = None
<1>1. CASE \A k \in DOMAIN kinds : kinds[k] = None
  BY <1>1 DEF FirstFault
<1>2. CASE \E k \in DOMAIN kinds : kinds[k] # None
  <2> DEFINE Faults == {k \in DOMAIN kinds : kinds[k] # None}
  <2>1. PICK k \in Faults : \A j \in Faults : k <= j
    <3>1. Faults \subseteq Nat /\ Faults # {}
      BY <1>2
    <3> QED
      BY <3>1, LeastElement
  <2>2. \A j \in 1..(k - 1) : kinds[j] = None
    BY <2>1
  <2> QED
    BY <2>1, <2>2 DEF FirstFault
<1> QED
  BY <1>1, <1>2

\* Two lists in a row have no fault when neither has.
LEMMA FaultOfTwo ==
    ASSUME NEW S, NEW s \in Seq(S), NEW t \in Seq(S)
    PROVE  FirstFault(s \o t) = None <=> FirstFault(s) = None /\ FirstFault(t) = None
<1>1. /\ DOMAIN s = 1..Len(s) /\ DOMAIN t = 1..Len(t) /\ Len(s) \in Nat /\ Len(t) \in Nat
      /\ DOMAIN (s \o t) = 1..(Len(s) + Len(t))
      /\ \A k \in 1..Len(s) : (s \o t)[k] = s[k]
      /\ \A k \in 1..Len(t) : (s \o t)[Len(s) + k] = t[k]
  OBVIOUS
<1>2. (\A k \in DOMAIN (s \o t) : (s \o t)[k] = None)
      <=> (\A k \in DOMAIN s : s[k] = None) /\ (\A k \in DOMAIN t : t[k] = None)
  <2>1. ASSUME \A k \in DOMAIN (s \o t) : (s \o t)[k] = None
        PROVE  \A k \in DOMAIN t : t[k] = None
    <3>1. \A k \in 1..Len(t) : Len(s) + k \in 1..(Len(s) + Len(t))
      BY <1>1
    <3> QED
      BY <1>1, <2>1, <3>1
  <2>2. ASSUME \A k \in DOMAIN s : s[k] = None, \A k \in DOMAIN t : t[k] = None,
               NEW k \in DOMAIN (s \o t)
        PROVE  (s \o t)[k] = None
    <3>1. CASE k \in 1..Len(s)
      BY <1>1, <2>2, <3>1
    <3>2. CASE k - Len(s) \in 1..Len(t)
      BY <1>1, <2>2, <3>2
    <3> QED
      BY <1>1, <3>1, <3>2
  <2> QED
    BY <1>1, <2>1, <2>2
<1> QED
  <2>1. Len(s) + Len(t) \in Nat
    BY <1>1
  <2>2. FirstFault(s \o t) = None <=> \A k \in DOMAIN (s \o t) : (s \o t)[k] = None
    BY <1>1, <2>1, FirstFaultFound
  <2>3. /\ FirstFault(s) = None <=> \A k \in DOMAIN s : s[k] = None
        /\ FirstFault(t) = None <=> \A k \in DOMAIN t : t[k] = None
    BY <1>1, FirstFaultFound
  <2> QED
    BY <1>2, <2>2, <2>3

-----------------------------------------------------------------------------
(* What each stage lets pass is what an archive that can be read satisfies.   *)

Given == call \in Calls /\ zip = Exports[call].zip /\ types = Exports[call].types

OpenHolds(a) ==
    /\ a # None /\ Opens(a) /\ a.registryFault = None
    /\ HasMember(a, Core("030-signing-key-registry")) /\ HasMember(a, Core("000-manifest"))
    /\ ManifestSigned(a)
    /\ "payload" \notin a.manifest.malformed /\ "interop_sidecars" \notin a.manifest.malformed
    /\ SidecarsHold(a)

\* The archive of a call, and that None is none of the kinds of failure.
LEMMA GivenTypes ==
    ASSUME Given
    PROVE  /\ None \notin RefusalKinds
           /\ zip # None =>
                /\ zip.registryFault \in Optional(RegistryFaults)
                /\ zip.manifest.malformed \subseteq ManifestFields
                /\ zip.manifest.head \in Contents
                /\ zip.manifest.bindings \in Seq(RegistryBinding)
                /\ zip.manifest.sidecars \in Optional(Seq(Sidecar))
                /\ zip.events \in Optional(Seq(EventRecord))
                /\ zip.checkpoints # None =>
                      /\ zip.checkpoints \in Seq(ToSet(zip.checkpoints))
                      /\ \A p \in ToSet(zip.checkpoints) : p.digest \in Contents
  BY ExportsAssumption DEF Given

\* A kind of failure is not the absence of one.
LEMMA KindsAreNotNone ==
    ASSUME None \notin RefusalKinds
    PROVE  /\ "ExportZipInvalid" # None /\ "MissingSigningKeyRegistry" # None
           /\ "MissingManifest" # None /\ "ManifestStructureInvalid" # None
           /\ "UnsupportedSuite" # None /\ "UnresolvableManifestKid" # None
           /\ "ManifestSignatureInvalid" # None /\ "ManifestPayloadInvalid" # None
           /\ "InteropSidecarKindUnknown" # None
           /\ "InteropSidecarDerivationVersionUnknown" # None
           /\ "InteropSidecarPathInvalid" # None /\ "InteropSidecarPhase1Locked" # None
           /\ "InteropSidecarMissing" # None /\ "InteropSidecarContentMismatch" # None
           /\ "InteropSidecarUnlistedFile" # None /\ "ArchiveIntegrityFailure" # None
           /\ "BoundRegistryInvalid" # None /\ "EventsInvalid" # None
           /\ "CheckpointsInvalid" # None /\ "CheckpointSignatureInvalid" # None
           /\ "CheckpointPayloadInvalid" # None /\ "InclusionProofsInvalid" # None
           /\ "ConsistencyProofsInvalid" # None
  BY DEF RefusalKinds

LEMMA ManifestFaultFound ==
    ASSUME None \notin RefusalKinds, NEW a, HasMember(a, Core("000-manifest"))
    PROVE  ManifestFault(a) = None <=>
               ManifestSigned(a) /\ "payload" \notin a.manifest.malformed
  BY KindsAreNotNone, Zenon DEF ManifestFault, ManifestSigned, Fault

LEMMA SidecarEntryFound ==
    ASSUME None \notin RefusalKinds, NEW a, NEW s \in Sidecar
    PROVE  SidecarEntryFault(a, s) = None <=>
              /\ ~s.malformed /\ s.kind \in DispatchedKinds /\ s.derivationVersion = 1
              /\ s.path[1] = "sidecar" /\ MemberDigest(a, s.path) = s.contentDigest
<1>1. s.contentDigest \in Contents /\ s.contentDigest # None
  BY NoneAssumption DEF Sidecar
<1>2. MemberDigest(a, s.path) # None => HasMember(a, s.path)
  BY DEF MemberDigest, EntriesAt, HasMember, Members
<1>3. s.derivationVersion = 1 => ~(s.derivationVersion > MaxDerivationVersion)
  BY DEF MaxDerivationVersion
<1>4. s.kind \in DispatchedKinds => s.kind \notin LockedKinds
  BY DEF DispatchedKinds, LockedKinds
<1> QED
  BY <1>1, <1>2, <1>3, <1>4, KindsAreNotNone, Zenon
     DEF SidecarEntryFault, Fault

\* A list of one check.
LEMMA FaultOfOne ==
    ASSUME NEW fault
    PROVE  FirstFault(<<fault>>) = None <=> fault = None
<1> DEFINE faults == <<fault>>
<1>1. DOMAIN faults = 1..1 /\ faults[1] = fault
  OBVIOUS
<1>2. FirstFault(faults) = None <=> \A k \in 1..1 : faults[k] = None
  <2> HIDE DEF faults
  <2> QED
    BY <1>1, FirstFaultFound
<1> QED
  BY <1>1, <1>2

LEMMA SidecarsFound ==
    ASSUME None \notin RefusalKinds, NEW a, a.manifest.sidecars \in Optional(Seq(Sidecar))
    PROVE  SidecarFault(a) = None <=>
               "interop_sidecars" \notin a.manifest.malformed /\ SidecarsHold(a)
<1> DEFINE listed == a.manifest.sidecars
           unlisted == Fault(~SidecarFiles(a) \subseteq ListedSidecars(a),
                             "InteropSidecarUnlistedFile")
           entries == [k \in DOMAIN listed |-> SidecarEntryFault(a, listed[k])]
<1>1. CASE "interop_sidecars" \in a.manifest.malformed
  BY <1>1, KindsAreNotNone DEF SidecarFault
<1>2. CASE "interop_sidecars" \notin a.manifest.malformed /\ listed = None
  BY <1>2 DEF SidecarFault, SidecarsHold
<1>3. CASE "interop_sidecars" \notin a.manifest.malformed /\ listed # None
  <2>1. /\ listed \in Seq(Sidecar) /\ Len(listed) \in Nat /\ DOMAIN listed = 1..Len(listed)
        /\ \A k \in DOMAIN listed : listed[k] \in Sidecar
    BY <1>3 DEF Optional
  <2>2. FirstFault(entries \o <<unlisted>>) = None <=>
            FirstFault(entries) = None /\ FirstFault(<<unlisted>>) = None
    <3> DEFINE S == {entries[k] : k \in DOMAIN listed} \cup {unlisted}
    <3>1. entries \in Seq(S)
      <4>1. entries \in [1..Len(listed) -> S]
        BY <2>1
      <4> QED
        BY <2>1, <4>1
    <3>2. <<unlisted>> \in Seq(S)
      OBVIOUS
    <3> HIDE DEF S, entries, unlisted
    <3> QED
      BY <3>1, <3>2, FaultOfTwo
  <2>3. FirstFault(entries) = None <=>
            \A k \in DOMAIN listed : SidecarEntryFault(a, listed[k]) = None
    <3>1. DOMAIN entries = 1..Len(listed)
      BY <2>1
    <3> QED
      BY <2>1, <3>1, FirstFaultFound
  <2>4. FirstFault(<<unlisted>>) = None <=> SidecarFiles(a) \subseteq ListedSidecars(a)
    BY FaultOfOne, KindsAreNotNone DEF Fault
  <2>5. (\A k \in DOMAIN listed : SidecarEntryFault(a, listed[k]) = None) <=>
            \A s \in ToSet(listed) :
                /\ ~s.malformed /\ s.kind \in DispatchedKinds /\ s.derivationVersion = 1
                /\ s.path[1] = "sidecar" /\ MemberDigest(a, s.path) = s.contentDigest
    BY <2>1, SidecarEntryFound DEF ToSet
  <2>6. ASSUME \A s \in ToSet(listed) :
                   s.path[1] = "sidecar" /\ MemberDigest(a, s.path) = s.contentDigest
        PROVE  ListedSidecars(a) \subseteq SidecarFiles(a)
    <3>1. ASSUME NEW s \in ToSet(listed) PROVE s.path \in SidecarFiles(a)
      <4>1. s \in Sidecar
        BY <2>1, <3>1 DEF ToSet
      <4>2. s.contentDigest # None
        BY <4>1, NoneAssumption DEF Sidecar
      <4>3. s.path \in Members(a)
        BY <2>6, <3>1, <4>2 DEF MemberDigest, EntriesAt, Members
      <4> QED
        BY <2>6, <3>1, <4>3 DEF SidecarFiles
    <3> QED
      BY <1>3, <3>1 DEF ListedSidecars
  <2>7. SidecarFault(a) = FirstFault(entries \o <<unlisted>>)
    BY <1>3 DEF SidecarFault
  <2>8. SidecarsHold(a) <=>
            /\ \A s \in ToSet(listed) :
                  /\ ~s.malformed /\ s.kind \in DispatchedKinds /\ s.derivationVersion = 1
                  /\ s.path[1] = "sidecar" /\ MemberDigest(a, s.path) = s.contentDigest
            /\ SidecarFiles(a) = ListedSidecars(a)
    BY <1>3 DEF SidecarsHold
  <2> HIDE DEF entries, unlisted, listed
  <2> QED
    BY <1>3, <2>2, <2>3, <2>4, <2>5, <2>6, <2>7, <2>8
<1> QED
  BY <1>1, <1>2, <1>3

\* The fault OpenArchive ends the call with.
OpenFault(a) ==
    IF a = None THEN "ExportZipInvalid"
    ELSE IF ~Opens(a) THEN "ExportZipInvalid"
    ELSE FirstFault(<<RegistryFault(a), ManifestFault(a), SidecarFault(a)>>)

LEMMA OpenFound ==
    ASSUME Given
    PROVE  OpenFault(zip) = None <=> OpenHolds(zip)
<1>1. CASE zip = None \/ ~Opens(zip)
  BY <1>1, KindsAreNotNone, GivenTypes DEF OpenFault, OpenHolds
<1>2. CASE zip # None /\ Opens(zip)
  <2> DEFINE faults == <<RegistryFault(zip), ManifestFault(zip), SidecarFault(zip)>>
  <2>1. DOMAIN faults = 1..3 /\ faults[1] = RegistryFault(zip)
        /\ faults[2] = ManifestFault(zip) /\ faults[3] = SidecarFault(zip)
    OBVIOUS
  <2>2. FirstFault(faults) = None <=> \A k \in 1..3 : faults[k] = None
    <3> HIDE DEF faults
    <3> QED
      BY <2>1, FirstFaultFound
  <2>3. FirstFault(faults) = None <=>
            RegistryFault(zip) = None /\ ManifestFault(zip) = None /\ SidecarFault(zip) = None
    <3>1. 1..3 = {1, 2, 3}
      OBVIOUS
    <3> HIDE DEF faults
    <3> QED
      BY <2>1, <2>2, <3>1
  <2>4. RegistryFault(zip) = None <=>
            HasMember(zip, Core("030-signing-key-registry")) /\ zip.registryFault = None
    BY KindsAreNotNone, GivenTypes DEF RegistryFault, RegistryMember
  <2>5. ManifestFault(zip) = None <=> HasMember(zip, Core("000-manifest"))
            /\ ManifestSigned(zip) /\ "payload" \notin zip.manifest.malformed
    <3>1. ~HasMember(zip, Core("000-manifest")) => ManifestFault(zip) # None
      BY KindsAreNotNone, GivenTypes DEF ManifestFault
    <3> QED
      BY <3>1, ManifestFaultFound, GivenTypes
  <2>6. SidecarFault(zip) = None <=>
            "interop_sidecars" \notin zip.manifest.malformed /\ SidecarsHold(zip)
    BY <1>2, SidecarsFound, GivenTypes
  <2> QED
    BY <1>2, <2>3, <2>4, <2>5, <2>6 DEF OpenFault, OpenHolds
<1> QED
  BY <1>1, <1>2

-----------------------------------------------------------------------------
(* The members the manifest binds.                                            *)

MembersHold(a) ==
    /\ MembersBound(a)
    /\ \A field \in {"registry_bindings", "scope", "generated_at"} : field \notin a.manifest.malformed

\* The fault CheckMembers ends the call with.
DigestFaults(a) ==
    <<DigestFault(a, "010-events"), DigestFault(a, "020-inclusion-proofs"),
      DigestFault(a, "025-consistency-proofs"), DigestFault(a, "030-signing-key-registry"),
      DigestFault(a, "040-checkpoints"), Malformed("registry_bindings")>>
BindingFaults(a) == [k \in DOMAIN a.manifest.bindings |-> BindingFault(a, a.manifest.bindings[k])]
BoundFaults(a) ==
    [k \in DOMAIN a.manifest.bindings |-> BoundRegistryFault(a, a.manifest.bindings[k])]
FieldFaults == <<Malformed("scope"), Malformed("generated_at")>>
MemberFault ==
    FirstFault(DigestFaults(zip) \o BindingFaults(zip) \o BoundFaults(zip) \o FieldFaults)

LEMMA DigestFound ==
    ASSUME None \notin RefusalKinds, NEW a, NEW name
    PROVE  DigestFault(a, name) = None <=>
               /\ a.manifest.digests[name] # None
               /\ a.manifest.digests[name] = MemberDigest(a, Core(name))
  BY KindsAreNotNone DEF DigestFault, Fault

LEMMA FieldFound ==
    ASSUME None \notin RefusalKinds, NEW field
    PROVE  Malformed(field) = None <=> field \notin zip.manifest.malformed
  BY KindsAreNotNone DEF Malformed, Fault

LEMMA FieldFaultsFound ==
    ASSUME None \notin RefusalKinds
    PROVE  FirstFault(FieldFaults) = None <=>
               "scope" \notin zip.manifest.malformed /\ "generated_at" \notin zip.manifest.malformed
<1>1. /\ DOMAIN FieldFaults = 1..2 /\ FieldFaults[1] = Malformed("scope")
      /\ FieldFaults[2] = Malformed("generated_at")
  BY DEF FieldFaults
<1>2. FirstFault(FieldFaults) = None <=> \A k \in 1..2 : FieldFaults[k] = None
  BY <1>1, FirstFaultFound
<1>3. 1..2 = {1, 2}
  OBVIOUS
<1> QED
  BY <1>1, <1>2, <1>3, FieldFound

LEMMA DigestFaultsFound ==
    ASSUME None \notin RefusalKinds
    PROVE  FirstFault(DigestFaults(zip)) = None <=>
               /\ \A name \in CoreMembers \ {"000-manifest"} : DigestFault(zip, name) = None
               /\ "registry_bindings" \notin zip.manifest.malformed
<1> DEFINE faults == DigestFaults(zip)
<1>1. /\ DOMAIN faults = 1..6
      /\ faults[1] = DigestFault(zip, "010-events")
      /\ faults[2] = DigestFault(zip, "020-inclusion-proofs")
      /\ faults[3] = DigestFault(zip, "025-consistency-proofs")
      /\ faults[4] = DigestFault(zip, "030-signing-key-registry")
      /\ faults[5] = DigestFault(zip, "040-checkpoints")
      /\ faults[6] = Malformed("registry_bindings")
  BY DEF DigestFaults
<1>2. FirstFault(faults) = None <=> \A k \in 1..6 : faults[k] = None
  BY <1>1, FirstFaultFound
<1>3. 1..6 = {1, 2, 3, 4, 5, 6}
  OBVIOUS
<1>4. CoreMembers \ {"000-manifest"} = {"010-events", "020-inclusion-proofs",
          "025-consistency-proofs", "030-signing-key-registry", "040-checkpoints"}
  BY DEF CoreMembers
<1> HIDE DEF faults
<1>5. FirstFault(faults) = None <=>
          /\ faults[1] = None /\ faults[2] = None /\ faults[3] = None
          /\ faults[4] = None /\ faults[5] = None /\ faults[6] = None
  BY <1>2, <1>3
<1> QED
  BY <1>1, <1>4, <1>5, FieldFound DEF faults

LEMMA MembersFound ==
    ASSUME Given, zip # None
    PROVE  MemberFault = None <=> MembersHold(zip)
<1> DEFINE S == RefusalKinds \cup {None}
           b == zip.manifest.bindings
<1>1. None \notin RefusalKinds
  BY GivenTypes
<1>2. /\ b \in Seq(RegistryBinding) /\ Len(b) \in Nat /\ DOMAIN b = 1..Len(b)
  BY GivenTypes
<1>3. DigestFaults(zip) \in Seq(S) /\ FieldFaults \in Seq(S)
  <2>1. /\ \A name : DigestFault(zip, name) \in S
        /\ \A field : Malformed(field) \in S
    BY DEF DigestFault, Malformed, Fault, RefusalKinds
  <2> HIDE DEF S
  <2> QED
    BY <2>1 DEF DigestFaults, FieldFaults
<1>4. BindingFaults(zip) \in Seq(S) /\ BoundFaults(zip) \in Seq(S)
  <2>1. \A binding : BindingFault(zip, binding) \in S /\ BoundRegistryFault(zip, binding) \in S
    BY DEF BindingFault, BoundRegistryFault, Fault, RefusalKinds
  <2>2. BindingFaults(zip) \in [1..Len(b) -> S] /\ BoundFaults(zip) \in [1..Len(b) -> S]
    BY <1>2, <2>1 DEF BindingFaults, BoundFaults
  <2> HIDE DEF S
  <2> QED
    BY <1>2, <2>2
<1>5. MemberFault = None <=>
          /\ FirstFault(DigestFaults(zip)) = None /\ FirstFault(BindingFaults(zip)) = None
          /\ FirstFault(BoundFaults(zip)) = None /\ FirstFault(FieldFaults) = None
  <2> HIDE DEF S
  <2>1. /\ DigestFaults(zip) \o BindingFaults(zip) \in Seq(S)
        /\ DigestFaults(zip) \o BindingFaults(zip) \o BoundFaults(zip) \in Seq(S)
    BY <1>3, <1>4
  <2>2. MemberFault = None <=>
            /\ FirstFault(DigestFaults(zip) \o BindingFaults(zip) \o BoundFaults(zip)) = None
            /\ FirstFault(FieldFaults) = None
    <3> DEFINE before == DigestFaults(zip) \o BindingFaults(zip) \o BoundFaults(zip)
    <3>1. MemberFault = FirstFault(before \o FieldFaults)
      BY DEF MemberFault
    <3>2. before \in Seq(S) /\ FieldFaults \in Seq(S)
      BY <1>3, <2>1
    <3> HIDE DEF before
    <3>3. FirstFault(before \o FieldFaults) = None <=>
              FirstFault(before) = None /\ FirstFault(FieldFaults) = None
      BY <3>2, FaultOfTwo
    <3> QED
      BY <3>1, <3>3 DEF before
  <2>3. FirstFault(DigestFaults(zip) \o BindingFaults(zip) \o BoundFaults(zip)) = None <=>
            /\ FirstFault(DigestFaults(zip) \o BindingFaults(zip)) = None
            /\ FirstFault(BoundFaults(zip)) = None
    BY <1>4, <2>1, FaultOfTwo
  <2>4. FirstFault(DigestFaults(zip) \o BindingFaults(zip)) = None <=>
            FirstFault(DigestFaults(zip)) = None /\ FirstFault(BindingFaults(zip)) = None
    BY <1>3, <1>4, FaultOfTwo
  <2> QED
    BY <2>2, <2>3, <2>4
<1>6. /\ DOMAIN BindingFaults(zip) = 1..Len(b) /\ DOMAIN BoundFaults(zip) = 1..Len(b)
      /\ \A k \in DOMAIN b : /\ BindingFaults(zip)[k] = BindingFault(zip, b[k])
                             /\ BoundFaults(zip)[k] = BoundRegistryFault(zip, b[k])
  BY <1>2 DEF BindingFaults, BoundFaults
<1>7. /\ FirstFault(BindingFaults(zip)) = None <=>
             \A k \in DOMAIN b : BindingFault(zip, b[k]) = None
      /\ FirstFault(BoundFaults(zip)) = None <=>
             \A k \in DOMAIN b : BoundRegistryFault(zip, b[k]) = None
  BY <1>2, <1>6, FirstFaultFound
<1>8. \A binding :
          BindingFault(zip, binding) = None /\ BoundRegistryFault(zip, binding) = None <=>
              /\ binding.digest # None /\ binding.boundAt # None
              /\ MemberDigest(zip, BoundRegistryPath(binding.digest)) = binding.digest
              /\ zip.registries[binding.digest] # None
  BY <1>1, KindsAreNotNone DEF BindingFault, BoundRegistryFault, Fault
<1>9. MembersBound(zip) <=>
          /\ \A name \in CoreMembers \ {"000-manifest"} : DigestFault(zip, name) = None
          /\ \A k \in DOMAIN b :
                BindingFault(zip, b[k]) = None /\ BoundRegistryFault(zip, b[k]) = None
  BY <1>1, <1>8, DigestFound DEF MembersBound, ToSet
<1> HIDE DEF b, S
<1> QED
  BY <1>1, <1>5, <1>7, <1>9, DigestFaultsFound, FieldFaultsFound DEF MembersHold

-----------------------------------------------------------------------------
(* The invariant: what the stages behind the call established.                *)

PastSweep == {"report", "done"}
PastConsistencies == {"sweep"} \cup PastSweep
PastInclusions == {"consistencies"} \cup PastConsistencies
PastCheckpoints == {"inclusions"} \cup PastInclusions
PastRegistries == {"checkpoints"} \cup PastCheckpoints
PastClocks == {"registries"} \cup PastRegistries
PastSupersession == {"clocks"} \cup PastClocks
PastCertificates == {"supersession"} \cup PastSupersession
PastArtifacts == {"certificates"} \cup PastCertificates
PastErasures == {"artifacts"} \cup PastArtifacts
PastAttachments == {"erasures"} \cup PastErasures
PastEvents == {"attachments"} \cup PastAttachments
PastMembers == {"events"} \cup PastEvents
PastOpen == {"members"} \cup PastMembers

\* Nothing has been refused.
Reading == stage = "done" => report.structure

WellFormed(field) == field \notin zip.manifest.malformed

EventsReadable ==
    /\ zip.events # None /\ WellFormed("seal_fence")
    /\ zip.manifest.fence # None => SealFenceHolds(zip)

Established == Reading =>
    /\ stage \in PastOpen => OpenHolds(zip)
    /\ stage \in PastMembers => MembersHold(zip)
    /\ stage \in PastEvents => EventsReadable /\ EventSetFailures(zip) \subseteq failures
    /\ stage \in PastAttachments => WellFormed("attachments")
    /\ stage \in PastErasures => WellFormed("erasure")
    /\ stage \in PastCertificates => WellFormed("certificates")
    /\ stage \in PastSupersession => WellFormed("supersession")
    /\ stage \in PastClocks => WellFormed("open_clocks")
    /\ stage \in PastRegistries => zip.checkpoints # None
    /\ stage \in PastCheckpoints => WellFormed("head_checkpoint_digest")
    /\ stage \in PastInclusions => zip.inclusions # None
    /\ stage \in PastConsistencies => zip.consistencies # None

\* Behind the cursor every checkpoint could be read, and as long as nothing was found
\* each counts, is of the root of its prefix and names the one before it.
LinkedTo(n) ==
    \A k \in 1..n :
        /\ Counts(zip, k)
        /\ zip.checkpoints[k].root = MerkleRoot(Prefix(zip, zip.checkpoints[k].treeSize))
        /\ k > 1 => zip.checkpoints[k].prev = zip.checkpoints[k - 1].digest

Looped == Reading =>
    /\ stage \in PastRegistries =>
          /\ cursor <= Len(zip.checkpoints) + 1
          /\ \A k \in 1..(cursor - 1) : CheckpointReadable(zip, k)
          /\ prior # None <=> \E k \in 1..(cursor - 1) : Counts(zip, k)
          /\ failures = {} => LinkedTo(cursor - 1)
          /\ failures = {} /\ cursor > 1 => prior = zip.checkpoints[cursor - 1].digest
    /\ stage \in PastCheckpoints =>
          /\ cursor = Len(zip.checkpoints) + 1
          /\ failures = {} => prior = zip.manifest.head

\* Before the loop its variables are as they were.
Types ==
    /\ stage \in {"open"} \cup PastOpen /\ cursor \in Nat \ {0}
    /\ stage \notin PastRegistries => cursor = 1 /\ prior = None /\ headRoot = None

Refused == stage = "done" /\ ~report.structure => zip = None \/ ~Readable(zip)

XInv == Given /\ TypeOK /\ Types /\ Established /\ Looped /\ Refused

\* A call that went through every stage read an archive that can be read.
LEMMA ReadableAtTheEnd ==
    ASSUME XInv, Reading, stage \in PastSweep
    PROVE  zip # None /\ Readable(zip)
<1>1. /\ OpenHolds(zip) /\ MembersHold(zip) /\ EventsReadable
      /\ zip.checkpoints # None /\ zip.inclusions # None /\ zip.consistencies # None
      /\ \A field \in {"attachments", "erasure", "certificates", "supersession", "open_clocks",
                       "head_checkpoint_digest"} : WellFormed(field)
  BY DEF XInv, Established, PastOpen, PastMembers, PastEvents, PastAttachments, PastErasures,
         PastArtifacts, PastCertificates, PastSupersession, PastClocks, PastRegistries,
         PastCheckpoints, PastInclusions, PastConsistencies, PastSweep
<1>2. zip # None
  BY <1>1 DEF OpenHolds
<1>3. zip.manifest.malformed = {}
  BY <1>1, <1>2, GivenTypes
     DEF XInv, OpenHolds, MembersHold, EventsReadable, WellFormed, ManifestFields
<1>4. \A k \in DOMAIN zip.checkpoints : CheckpointReadable(zip, k)
  <2>1. /\ cursor = Len(zip.checkpoints) + 1
        /\ \A k \in 1..(cursor - 1) : CheckpointReadable(zip, k)
    BY DEF XInv, Looped, PastRegistries, PastCheckpoints, PastInclusions, PastConsistencies,
           PastSweep
  <2>2. /\ DOMAIN zip.checkpoints = 1..Len(zip.checkpoints) /\ Len(zip.checkpoints) \in Nat
    BY <1>1, <1>2, GivenTypes DEF XInv
  <2> QED
    BY <2>1, <2>2
<1> QED
  BY <1>1, <1>2, <1>3, <1>4 DEF Readable, OpenHolds, MembersHold, EventsReadable

-----------------------------------------------------------------------------
(* Steps.  A stage either refuses the archive or goes on.                     *)

LEMMA RefusalKeeps ==
    ASSUME XInv, NEW kind, kind \in RefusalKinds, zip = None \/ ~Readable(zip),
           stage' = "done", report' = FatalReport(kind), UNCHANGED callVars,
           cursor' \in Nat \ {0},
           cursor' > 1 => cursor' - 1 \in DOMAIN zip.checkpoints,
           prior' # None => \E k \in 1..(cursor' - 1) :
               zip.checkpoints[k].digest = prior' /\ zip.checkpoints[k].root = headRoot'
    PROVE  XInv'
<1>1. /\ call' = call /\ zip' = zip /\ types' = types /\ ~report'.structure /\ ~Reading'
  BY DEF callVars, FatalReport, Reading
<1>2. Given' /\ Types'
  BY <1>1 DEF XInv, Given, Types, PastOpen, PastMembers, PastEvents, PastAttachments,
       PastErasures, PastArtifacts, PastCertificates, PastSupersession, PastClocks,
       PastRegistries, PastCheckpoints, PastInclusions, PastConsistencies, PastSweep
<1>3. TypeOK'
  BY <1>1, <1>2 DEF TypeOK, Given
<1>4. Established' /\ Looped'
  BY <1>1 DEF Established, Looped
<1>5. Refused'
  BY <1>1 DEF Refused
<1> QED
  BY <1>2, <1>3, <1>4, <1>5 DEF XInv

\* A stage of no checkpoint that goes on.
LEMMA OnwardKeeps ==
    ASSUME XInv, stage # "done", stage' \in PastOpen, stage' # "done",
           report' = report, failures \subseteq failures',
           UNCHANGED <<callVars, cursor, prior, headRoot>>
    PROVE  Given' /\ TypeOK' /\ Refused' /\ Reading' /\ zip' = zip /\ types' = types
<1>1. /\ call' = call /\ zip' = zip /\ types' = types
  BY DEF callVars
<1>2. Given' /\ TypeOK'
  BY <1>1 DEF XInv, Given, TypeOK
<1> QED
  BY <1>1, <1>2 DEF Refused, Reading

\* A list of checks faults with one of their kinds.
LEMMA FirstFaultType ==
    ASSUME NEW S, None \in S, NEW kinds \in Seq(S)
    PROVE  FirstFault(kinds) \in S
<1>1. CASE \A k \in DOMAIN kinds : kinds[k] = None
  BY <1>1 DEF FirstFault
<1>2. CASE \E k \in DOMAIN kinds : kinds[k] # None
  <2> DEFINE Faults == {k \in DOMAIN kinds : kinds[k] # None}
  <2>1. PICK k \in Faults : \A j \in Faults : k <= j
    <3>1. Faults \subseteq Nat /\ Faults # {}
      BY <1>2
    <3> QED
      BY <3>1, LeastElement
  <2>2. DOMAIN kinds = 1..Len(kinds) /\ Len(kinds) \in Nat
    OBVIOUS
  <2>3. k \in DOMAIN kinds /\ kinds[k] # None /\ \A j \in 1..(k - 1) : kinds[j] = None
    BY <2>1, <2>2
  <2>4. \E i \in DOMAIN kinds : FirstFault(kinds) = kinds[i]
    BY <1>2, <2>3 DEF FirstFault
  <2> QED
    BY <2>4
<1> QED
  BY <1>1, <1>2

LEMMA FaultsAreKinds ==
    ASSUME Given
    PROVE  /\ OpenFault(zip) \in RefusalKinds \cup {None}
           /\ zip # None => MemberFault \in RefusalKinds \cup {None}
<1> DEFINE S == RefusalKinds \cup {None}
<1>1. \A a, name, field, binding : /\ DigestFault(a, name) \in S /\ Malformed(field) \in S
                                  /\ BindingFault(a, binding) \in S
                                  /\ BoundRegistryFault(a, binding) \in S
                                  /\ ManifestFault(a) \in S
                                  /\ SidecarEntryFault(a, binding) \in S
  BY DEF DigestFault, Malformed, BindingFault, BoundRegistryFault, ManifestFault,
         SidecarEntryFault, Fault, RefusalKinds
<1>2. ASSUME zip # None PROVE MemberFault \in S
  <2>1. /\ zip.manifest.bindings \in Seq(RegistryBinding)
        /\ Len(zip.manifest.bindings) \in Nat
        /\ DOMAIN zip.manifest.bindings = 1..Len(zip.manifest.bindings)
    BY <1>2, GivenTypes
  <2>2. DigestFaults(zip) \in Seq(S) /\ FieldFaults \in Seq(S)
    <3> HIDE DEF S
    <3> QED
      BY <1>1 DEF DigestFaults, FieldFaults
  <2>3. BindingFaults(zip) \in Seq(S) /\ BoundFaults(zip) \in Seq(S)
    <3>1. /\ BindingFaults(zip) \in [1..Len(zip.manifest.bindings) -> S]
          /\ BoundFaults(zip) \in [1..Len(zip.manifest.bindings) -> S]
      BY <1>1, <2>1 DEF BindingFaults, BoundFaults
    <3> HIDE DEF S
    <3> QED
      BY <2>1, <3>1
  <2>4. None \in S
    OBVIOUS
  <2> HIDE DEF S
  <2>5. DigestFaults(zip) \o BindingFaults(zip) \o BoundFaults(zip) \o FieldFaults \in Seq(S)
    BY <2>2, <2>3
  <2> QED
    BY <2>4, <2>5, FirstFaultType DEF MemberFault
<1>3. ASSUME zip # None PROVE SidecarFault(zip) \in S
  <2> DEFINE listed == zip.manifest.sidecars
             unlisted == Fault(~SidecarFiles(zip) \subseteq ListedSidecars(zip),
                               "InteropSidecarUnlistedFile")
             entries == [k \in DOMAIN listed |-> SidecarEntryFault(zip, listed[k])]
  <2>1. CASE "interop_sidecars" \in zip.manifest.malformed \/ listed = None
    BY <2>1 DEF SidecarFault, RefusalKinds
  <2>2. CASE "interop_sidecars" \notin zip.manifest.malformed /\ listed # None
    <3>1. /\ listed \in Seq(Sidecar) /\ Len(listed) \in Nat /\ DOMAIN listed = 1..Len(listed)
      BY <1>3, <2>2, GivenTypes DEF Optional
    <3>2. entries \in [1..Len(listed) -> S] /\ unlisted \in S /\ None \in S
      BY <1>1, <3>1 DEF Fault, RefusalKinds
    <3>3. SidecarFault(zip) = FirstFault(entries \o <<unlisted>>)
      BY <2>2 DEF SidecarFault
    <3> HIDE DEF S, entries, unlisted
    <3>4. entries \in Seq(S) /\ <<unlisted>> \in Seq(S)
      BY <3>1, <3>2
    <3>5. entries \o <<unlisted>> \in Seq(S)
      BY <3>4
    <3> QED
      BY <3>2, <3>3, <3>5, FirstFaultType
  <2> QED
    BY <2>1, <2>2
<1>4. OpenFault(zip) \in S
  <2>1. CASE zip = None \/ ~Opens(zip)
    BY <2>1 DEF OpenFault, RefusalKinds
  <2>2. CASE zip # None /\ Opens(zip)
    <3>1. RegistryFault(zip) \in S
      BY <2>2, GivenTypes DEF RegistryFault, RefusalKinds, Optional
    <3>2. /\ ManifestFault(zip) \in S /\ SidecarFault(zip) \in S /\ None \in S
      BY <1>1, <1>3, <2>2
    <3> HIDE DEF S
    <3>3. <<RegistryFault(zip), ManifestFault(zip), SidecarFault(zip)>> \in Seq(S)
      BY <3>1, <3>2
    <3>4. FirstFault(<<RegistryFault(zip), ManifestFault(zip), SidecarFault(zip)>>) \in S
      BY <3>2, <3>3, FirstFaultType
    <3> QED
      BY <2>2, <3>4 DEF OpenFault
  <2> QED
    BY <2>1, <2>2
<1> QED
  BY <1>2, <1>4

LEMMA OpenStep ==
    ASSUME XInv, OpenArchive
    PROVE  XInv'
<1> USE DEF PastOpen, PastMembers, PastEvents, PastAttachments, PastErasures, PastArtifacts,
        PastCertificates, PastSupersession, PastClocks, PastRegistries, PastCheckpoints,
        PastInclusions, PastConsistencies, PastSweep
<1>1. /\ stage = "open" /\ UNCHANGED <<callVars, cursor, prior, headRoot>>
      /\ IF OpenFault(zip) # None
         THEN stage' = "done" /\ report' = FatalReport(OpenFault(zip)) /\ UNCHANGED failures
         ELSE stage' = "members" /\ failures' = failures \cup {} /\ UNCHANGED report
  BY DEF OpenArchive, Stage, OpenFault
<1>2. CASE OpenFault(zip) # None
  <2>1. zip = None \/ ~Readable(zip)
    BY <1>2, OpenFound DEF XInv, OpenHolds, Readable
  <2>2. OpenFault(zip) \in RefusalKinds
    BY <1>2, FaultsAreKinds DEF XInv
  <2> QED
    BY <1>1, <1>2, <2>1, <2>2, RefusalKeeps DEF XInv, Types, TypeOK
<1>3. CASE OpenFault(zip) = None
  <2>1. Given' /\ TypeOK' /\ Refused' /\ Reading' /\ zip' = zip
    BY <1>1, <1>3, OnwardKeeps
  <2>2. OpenHolds(zip)
    BY <1>3, OpenFound DEF XInv
  <2>3. Types' /\ Looped'
    BY <1>1, <1>3 DEF XInv, Types, Looped
  <2>4. Established'
    BY <1>1, <1>3, <2>1, <2>2 DEF Established
  <2> QED
    BY <2>1, <2>3, <2>4 DEF XInv
<1> QED
  BY <1>2, <1>3

LEMMA MembersStep ==
    ASSUME XInv, CheckMembers
    PROVE  XInv'
<1> USE DEF PastOpen, PastMembers, PastEvents, PastAttachments, PastErasures, PastArtifacts,
        PastCertificates, PastSupersession, PastClocks, PastRegistries, PastCheckpoints,
        PastInclusions, PastConsistencies, PastSweep
<1>1. /\ stage = "members" /\ UNCHANGED <<callVars, cursor, prior, headRoot>>
      /\ IF MemberFault # None
         THEN stage' = "done" /\ report' = FatalReport(MemberFault) /\ UNCHANGED failures
         ELSE stage' = "events" /\ failures' = failures \cup {} /\ UNCHANGED report
  BY DEF CheckMembers, Stage, MemberFault, DigestFaults, BindingFaults, BoundFaults, FieldFaults
<1>2. OpenHolds(zip) /\ zip # None
  BY <1>1 DEF XInv, Established, Reading, OpenHolds
<1>3. CASE MemberFault # None
  <2>1. ~Readable(zip)
    BY <1>2, <1>3, MembersFound DEF XInv, MembersHold, Readable
  <2>2. MemberFault \in RefusalKinds
    BY <1>2, <1>3, FaultsAreKinds DEF XInv
  <2> QED
    BY <1>1, <1>3, <2>1, <2>2, RefusalKeeps DEF XInv, Types, TypeOK
<1>4. CASE MemberFault = None
  <2>1. Given' /\ TypeOK' /\ Refused' /\ Reading' /\ zip' = zip
    BY <1>1, <1>4, OnwardKeeps
  <2>2. MembersHold(zip)
    BY <1>2, <1>4, MembersFound DEF XInv
  <2>3. Types' /\ Looped'
    BY <1>1, <1>4 DEF XInv, Types, Looped
  <2>4. Established'
    BY <1>1, <1>2, <1>4, <2>1, <2>2 DEF Established
  <2> QED
    BY <2>1, <2>3, <2>4 DEF XInv
<1> QED
  BY <1>3, <1>4

LEMMA EventsStep ==
    ASSUME XInv, VerifyEvents
    PROVE  XInv'
<1> USE DEF PastOpen, PastMembers, PastEvents, PastAttachments, PastErasures, PastArtifacts,
        PastCertificates, PastSupersession, PastClocks, PastRegistries, PastCheckpoints,
        PastInclusions, PastConsistencies, PastSweep
<1> DEFINE fault == IF zip.events = None THEN "EventsInvalid" ELSE SealFenceFault(zip)
<1>1. /\ stage = "events" /\ UNCHANGED <<callVars, cursor, prior, headRoot>>
      /\ IF fault # None
         THEN stage' = "done" /\ report' = FatalReport(fault) /\ UNCHANGED failures
         ELSE /\ stage' = "attachments" /\ failures' = failures \cup EventSetFailures(zip)
              /\ UNCHANGED report
  BY DEF VerifyEvents, Stage
<1>2. OpenHolds(zip) /\ MembersHold(zip) /\ zip # None
  BY <1>1 DEF XInv, Established, Reading, OpenHolds
<1>3. fault = None <=> EventsReadable
  BY KindsAreNotNone, GivenTypes DEF XInv, SealFenceFault, Fault, EventsReadable, WellFormed
<1>4. CASE fault # None
  <2>1. ~Readable(zip)
    BY <1>3, <1>4 DEF EventsReadable, WellFormed, Readable
  <2>2. fault \in RefusalKinds
    BY <1>4 DEF SealFenceFault, Fault, RefusalKinds
  <2> HIDE DEF fault
  <2> QED
    BY <1>1, <1>4, <2>1, <2>2, RefusalKeeps DEF XInv, Types, TypeOK
<1>5. CASE fault = None
  <2>1. Given' /\ TypeOK' /\ Refused' /\ Reading' /\ zip' = zip /\ types' = types
    BY <1>1, <1>5, OnwardKeeps
  <2>2. EventsReadable' /\ EventSetFailures(zip)' \subseteq failures'
    BY <1>1, <1>3, <1>5, <2>1 DEF EventsReadable, WellFormed, EventSetFailures
  <2>3. Types' /\ Looped'
    BY <1>1, <1>5 DEF XInv, Types, Looped
  <2>4. Established'
    BY <1>1, <1>2, <1>5, <2>1, <2>2 DEF Established
  <2> QED
    BY <2>1, <2>3, <2>4 DEF XInv
<1> QED
  BY <1>4, <1>5

\* The stages of one field of the manifest: extensions, catalogs, artifacts.
LEMMA FieldSteps ==
    ASSUME XInv,
           \/ VerifyAttachments \/ VerifyErasureCatalog \/ VerifyArtifacts
           \/ VerifyCertificateCatalog \/ VerifySupersession \/ VerifyOpenClocks
    PROVE  XInv'
<1> USE DEF PastOpen, PastMembers, PastEvents, PastAttachments, PastErasures, PastArtifacts,
        PastCertificates, PastSupersession, PastClocks, PastRegistries, PastCheckpoints,
        PastInclusions, PastConsistencies, PastSweep
<1>1. ASSUME NEW name, NEW next, NEW fault, NEW found, stage = name,
             <<name, next, fault>> \in
                 {<<"attachments", "erasures", Malformed("attachments")>>,
                  <<"erasures", "artifacts", Malformed("erasure")>>,
                  <<"artifacts", "certificates", None>>,
                  <<"certificates", "supersession", Malformed("certificates")>>,
                  <<"supersession", "clocks", Malformed("supersession")>>,
                  <<"clocks", "registries", Malformed("open_clocks")>>},
             UNCHANGED <<callVars, cursor, prior, headRoot>>,
             IF fault # None
             THEN stage' = "done" /\ report' = FatalReport(fault) /\ UNCHANGED failures
             ELSE stage' = next /\ failures' = failures \cup found /\ UNCHANGED report
      PROVE  XInv'
  <2>1. OpenHolds(zip) /\ MembersHold(zip) /\ zip # None
    BY <1>1 DEF XInv, Established, Reading, OpenHolds
  <2>2. CASE fault # None
    <3>1. ~Readable(zip) /\ fault \in RefusalKinds
      BY <1>1, <2>2 DEF Malformed, Fault, Readable, RefusalKinds
    <3> QED
      BY <1>1, <2>2, <3>1, RefusalKeeps DEF XInv, Types, TypeOK
  <2>3. CASE fault = None
    <3>1. Given' /\ TypeOK' /\ Refused' /\ Reading' /\ zip' = zip /\ types' = types
      BY <1>1, <2>3, OnwardKeeps
    <3>2. \A field : Malformed(field) = None <=> WellFormed(field)
      BY KindsAreNotNone, GivenTypes DEF XInv, Malformed, Fault, WellFormed
    <3>3. /\ EventsReadable' <=> EventsReadable
          /\ EventSetFailures(zip)' = EventSetFailures(zip)
          /\ \A field : WellFormed(field)' <=> WellFormed(field)
      BY <3>1 DEF EventsReadable, WellFormed, EventSetFailures
    <3>4. Types' /\ Looped'
      BY <1>1, <2>3 DEF XInv, Types, Looped
    <3>5. Established'
      BY <1>1, <2>1, <2>3, <3>1, <3>2, <3>3 DEF XInv, Reading, Established
    <3> QED
      BY <3>1, <3>4, <3>5 DEF XInv
  <2> QED
    BY <2>2, <2>3
<1>2. CASE VerifyAttachments
  BY <1>1, <1>2 DEF VerifyAttachments, Stage
<1>3. CASE VerifyErasureCatalog
  BY <1>1, <1>3 DEF VerifyErasureCatalog, Stage
<1>4. CASE VerifyArtifacts
  BY <1>1, <1>4 DEF VerifyArtifacts, Stage
<1>5. CASE VerifyCertificateCatalog
  BY <1>1, <1>5 DEF VerifyCertificateCatalog, Stage
<1>6. CASE VerifySupersession
  BY <1>1, <1>6 DEF VerifySupersession, Stage
<1>7. CASE VerifyOpenClocks
  BY <1>1, <1>7 DEF VerifyOpenClocks, Stage
<1> QED
  BY <1>2, <1>3, <1>4, <1>5, <1>6, <1>7

LEMMA RegistriesStep ==
    ASSUME XInv, VerifyRegistryBindings
    PROVE  XInv'
<1> USE DEF PastOpen, PastMembers, PastEvents, PastAttachments, PastErasures, PastArtifacts,
        PastCertificates, PastSupersession, PastClocks, PastRegistries, PastCheckpoints,
        PastInclusions, PastConsistencies, PastSweep
<1> DEFINE fault == Fault(zip.checkpoints = None, "CheckpointsInvalid")
<1>1. /\ stage = "registries" /\ UNCHANGED <<callVars, cursor, prior, headRoot>>
      /\ IF fault # None
         THEN stage' = "done" /\ report' = FatalReport(fault) /\ UNCHANGED failures
         ELSE /\ stage' = "checkpoints" /\ failures' = failures \cup RegistryFailures(zip)
              /\ UNCHANGED report
  BY DEF VerifyRegistryBindings, Stage
<1>2. OpenHolds(zip) /\ MembersHold(zip) /\ zip # None
  BY <1>1 DEF XInv, Established, Reading, OpenHolds
<1>3. fault = None <=> zip.checkpoints # None
  BY KindsAreNotNone, GivenTypes DEF XInv, Fault
<1>4. CASE fault # None
  <2>1. ~Readable(zip) /\ fault \in RefusalKinds
    BY <1>3, <1>4 DEF Readable, Fault, RefusalKinds
  <2> HIDE DEF fault
  <2> QED
    BY <1>1, <1>4, <2>1, RefusalKeeps DEF XInv, Types, TypeOK
<1>5. CASE fault = None
  <2>1. Given' /\ TypeOK' /\ Refused' /\ Reading' /\ zip' = zip /\ types' = types
    BY <1>1, <1>5, OnwardKeeps
  <2>2. /\ EventsReadable' <=> EventsReadable
        /\ EventSetFailures(zip)' = EventSetFailures(zip)
        /\ \A field : WellFormed(field)' <=> WellFormed(field)
    BY <2>1 DEF EventsReadable, WellFormed, EventSetFailures
  <2>3. Types'
    BY <1>1, <1>5 DEF XInv, Types
  <2>4. Established'
    BY <1>1, <1>2, <1>3, <1>5, <2>1, <2>2 DEF XInv, Reading, Established
  <2>5. Looped'
    <3>1. cursor' = 1 /\ prior' = None
      BY <1>1 DEF XInv, Types
    <3>2. Len(zip.checkpoints) \in Nat
      BY <1>2, <1>3, <1>5, GivenTypes DEF XInv
    <3>3. LinkedTo(cursor - 1)'
      BY <3>1 DEF LinkedTo
    <3> QED
      BY <1>1, <1>5, <2>1, <3>1, <3>2, <3>3 DEF Looped
  <2> QED
    BY <2>1, <2>3, <2>4, <2>5 DEF XInv
<1> QED
  BY <1>4, <1>5

\* What holds at every iteration of the loop.
LEMMA InTheLoop ==
    ASSUME XInv, stage = "checkpoints"
    PROVE  /\ zip # None /\ OpenHolds(zip) /\ MembersHold(zip) /\ EventsReadable
           /\ zip.checkpoints # None /\ Len(zip.checkpoints) \in Nat
           /\ DOMAIN zip.checkpoints = 1..Len(zip.checkpoints)
           /\ \A k \in DOMAIN zip.checkpoints :
                  zip.checkpoints[k].digest \in Contents /\ zip.checkpoints[k].digest # None
           /\ cursor \in Nat \ {0} /\ cursor <= Len(zip.checkpoints) + 1 /\ report = None
           /\ \A k \in 1..(cursor - 1) : CheckpointReadable(zip, k)
           /\ prior # None <=> \E k \in 1..(cursor - 1) : Counts(zip, k)
           /\ failures = {} => LinkedTo(cursor - 1)
           /\ failures = {} /\ cursor > 1 => prior = zip.checkpoints[cursor - 1].digest
<1> USE DEF PastOpen, PastMembers, PastEvents, PastAttachments, PastErasures, PastArtifacts,
        PastCertificates, PastSupersession, PastClocks, PastRegistries, PastCheckpoints,
        PastInclusions, PastConsistencies, PastSweep
<1>1. /\ OpenHolds(zip) /\ MembersHold(zip) /\ EventsReadable
      /\ zip.checkpoints # None /\ zip # None
  BY DEF XInv, Established, Reading, OpenHolds
<1>2. /\ Len(zip.checkpoints) \in Nat /\ DOMAIN zip.checkpoints = 1..Len(zip.checkpoints)
      /\ \A p \in ToSet(zip.checkpoints) : p.digest \in Contents
  BY <1>1, GivenTypes DEF XInv
<1>3. \A k \in DOMAIN zip.checkpoints : zip.checkpoints[k].digest \in Contents
  BY <1>2 DEF ToSet
<1> QED
  BY <1>1, <1>2, <1>3, NoneAssumption DEF XInv, Types, TypeOK, Looped, Reading

\* An iteration that goes on keeps what was established before the loop.
LEMMA LoopKeeps ==
    ASSUME XInv, stage = "checkpoints", stage' = "checkpoints", failures \subseteq failures',
           report' = report, UNCHANGED callVars
    PROVE  Given' /\ Established' /\ Refused' /\ Reading' /\ zip' = zip
<1> USE DEF PastOpen, PastMembers, PastEvents, PastAttachments, PastErasures, PastArtifacts,
        PastCertificates, PastSupersession, PastClocks, PastRegistries, PastCheckpoints,
        PastInclusions, PastConsistencies, PastSweep
<1>1. call' = call /\ zip' = zip /\ types' = types
  BY DEF callVars
<1>2. /\ EventsReadable' <=> EventsReadable
      /\ EventSetFailures(zip)' = EventSetFailures(zip)
      /\ \A field : WellFormed(field)' <=> WellFormed(field)
  BY <1>1 DEF EventsReadable, WellFormed, EventSetFailures
<1>3. Established'
  BY <1>1, <1>2 DEF XInv, Established, Reading
<1> QED
  BY <1>1, <1>3 DEF XInv, Given, Refused, Reading

LEMMA CheckpointFound ==
    ASSUME Given, NEW c
    PROVE  /\ CheckpointFault(c) = None <=>
                  /\ c.suite /\ zip.registry[c.kid] # None
                  /\ c.signer = zip.registry[c.kid].key /\ ~c.malformed
           /\ CheckpointFault(c) \in RefusalKinds \cup {None}
<1>1. CheckpointFault(c) \in RefusalKinds \cup {None}
  BY DEF CheckpointFault, Fault, RefusalKinds
<1>2. CheckpointFault(c) = None <=>
          /\ c.suite /\ zip.registry[c.kid] # None
          /\ c.signer = zip.registry[c.kid].key /\ ~c.malformed
  BY KindsAreNotNone, GivenTypes, Zenon DEF CheckpointFault, Fault
<1> QED
  BY <1>1, <1>2

\* Two checks in a row.
LEMMA FaultOfPair ==
    ASSUME NEW first \in RefusalKinds \cup {None}, NEW second \in RefusalKinds \cup {None}
    PROVE  /\ FirstFault(<<first, second>>) = None <=> first = None /\ second = None
           /\ FirstFault(<<first, second>>) \in RefusalKinds \cup {None}
<1> DEFINE faults == <<first, second>>
           S == RefusalKinds \cup {None}
<1>1. DOMAIN faults = 1..2 /\ faults[1] = first /\ faults[2] = second /\ None \in S
  OBVIOUS
<1>2. faults \in Seq(S)
  <2> HIDE DEF S
  <2> QED
    BY DEF S
<1>3. 1..2 = {1, 2}
  OBVIOUS
<1> HIDE DEF faults, S
<1>4. FirstFault(faults) = None <=> \A k \in 1..2 : faults[k] = None
  BY <1>1, FirstFaultFound
<1>5. FirstFault(faults) \in S
  BY <1>1, <1>2, FirstFaultType
<1> QED
  BY <1>1, <1>3, <1>4, <1>5 DEF faults, S

\* The checkpoint at the cursor is passed over: it is of another scope or size, and
\* from here on something was found.
LEMMA SkipStep ==
    ASSUME XInv, SkipCheckpoint
    PROVE  XInv'
<1> DEFINE c == zip.checkpoints[cursor]
           foreign == c.scope # zip.manifest.scope
           sized == Fault(~foreign /\ c.treeSize = None, "CheckpointPayloadInvalid")
           fault == FirstFault(<<CheckpointFault(c), sized>>)
           kind == IF foreign THEN "ScopeMismatch" ELSE "TreeSizeInvalid"
<1>1. /\ stage = "checkpoints" /\ cursor \in DOMAIN zip.checkpoints
      /\ foreign \/ SizeInvalid(c)
      /\ cursor' = cursor + 1 /\ UNCHANGED <<callVars, prior, headRoot>>
      /\ IF fault # None
         THEN stage' = "done" /\ report' = FatalReport(fault) /\ UNCHANGED failures
         ELSE stage' = "checkpoints" /\ failures' = failures \cup {kind} /\ UNCHANGED report
  BY DEF SkipCheckpoint, Stage, Checking
<1>2. ~Counts(zip, cursor)
  BY <1>1 DEF Counts, SizeInvalid
<1>3. sized \in RefusalKinds \cup {None}
      /\ (sized = None <=> (c.scope = zip.manifest.scope => c.treeSize # None))
  BY KindsAreNotNone, GivenTypes DEF XInv, Fault, RefusalKinds
<1>4. fault \in RefusalKinds \cup {None}
      /\ (fault = None <=> CheckpointFault(c) = None /\ sized = None)
  <2> HIDE DEF sized, c
  <2> QED
    BY <1>3, FaultOfPair, CheckpointFound DEF XInv
<1>5. fault = None <=> CheckpointReadable(zip, cursor)
  BY <1>2, <1>3, <1>4, CheckpointFound DEF XInv, CheckpointReadable
<1>6. /\ cursor' \in Nat \ {0} /\ cursor' - 1 \in DOMAIN zip.checkpoints
      /\ prior' # None => \E k \in 1..(cursor' - 1) :
             zip.checkpoints[k].digest = prior' /\ zip.checkpoints[k].root = headRoot'
  <2>1. cursor \in Nat \ {0}
    BY <1>1, InTheLoop
  <2>2. prior # None => \E k \in 1..(cursor - 1) :
             zip.checkpoints[k].digest = prior /\ zip.checkpoints[k].root = headRoot
    BY DEF XInv, TypeOK
  <2> QED
    BY <1>1, <2>1, <2>2
<1> HIDE DEF fault, sized, kind
<1>7. CASE fault # None
  <2>1. ~Readable(zip)
    BY <1>1, <1>5, <1>7 DEF Readable
  <2> QED
    BY <1>1, <1>4, <1>6, <1>7, <2>1, RefusalKeeps
<1>8. CASE fault = None
  <2>1. failures \subseteq failures' /\ failures' # {}
    BY <1>1, <1>8
  <2>2. Given' /\ Established' /\ Refused' /\ Reading' /\ zip' = zip
    BY <1>1, <1>8, <2>1, LoopKeeps
  <2>3. Types'
    BY <1>1, <1>6, <1>8 DEF XInv, Types, PastRegistries
  <2>4. TypeOK'
    BY <1>1, <1>6, <1>8, <2>2 DEF XInv, Given, TypeOK
  <2>5. Looped'
    <3>1. /\ Len(zip.checkpoints) \in Nat /\ DOMAIN zip.checkpoints = 1..Len(zip.checkpoints)
          /\ cursor \in Nat \ {0}
          /\ \A k \in 1..(cursor - 1) : CheckpointReadable(zip, k)
          /\ prior # None <=> \E k \in 1..(cursor - 1) : Counts(zip, k)
      BY <1>1, InTheLoop
    <3>2. 1..(cursor' - 1) = 1..(cursor - 1) \cup {cursor} /\ cursor <= Len(zip.checkpoints)
      BY <1>1, <3>1
    <3>3. /\ cursor' <= Len(zip.checkpoints) + 1
          /\ \A k \in 1..(cursor' - 1) : CheckpointReadable(zip, k)
          /\ prior # None <=> \E k \in 1..(cursor' - 1) : Counts(zip, k)
      BY <1>1, <1>2, <1>5, <1>8, <3>1, <3>2
    <3> QED
      BY <1>1, <1>8, <2>1, <2>2, <3>3
         DEF Looped, PastCheckpoints, PastInclusions, PastConsistencies, PastSweep
  <2> QED
    BY <2>2, <2>3, <2>4, <2>5 DEF XInv
<1> QED
  BY <1>7, <1>8

\* The checkpoint at the cursor counts; what is found is that it is not of its prefix
\* or not behind the one before.
LEMMA CountStep ==
    ASSUME XInv, CountCheckpoint
    PROVE  XInv'
<1> DEFINE c == zip.checkpoints[cursor]
           rooted == Fault(c.root = None \/ (prior # None /\ c.prev = None),
                           "CheckpointPayloadInvalid")
           fault == FirstFault(<<CheckpointFault(c), rooted>>)
<1>1. /\ stage = "checkpoints" /\ cursor \in DOMAIN zip.checkpoints
      /\ c.scope = zip.manifest.scope /\ ~SizeInvalid(c)
      /\ cursor' = cursor + 1 /\ prior' = c.digest /\ headRoot' = c.root /\ UNCHANGED callVars
      /\ IF fault # None
         THEN stage' = "done" /\ report' = FatalReport(fault) /\ UNCHANGED failures
         ELSE /\ stage' = "checkpoints" /\ failures' = failures \cup CheckpointFailures(c)
              /\ UNCHANGED report
  BY DEF CountCheckpoint, Stage, Checking, PriorAfter
<1>2. Counts(zip, cursor)
  BY <1>1 DEF Counts, SizeInvalid
<1>3. /\ Len(zip.checkpoints) \in Nat /\ DOMAIN zip.checkpoints = 1..Len(zip.checkpoints)
      /\ cursor \in Nat \ {0} /\ c.digest # None
      /\ \A k \in 1..(cursor - 1) : CheckpointReadable(zip, k)
      /\ prior # None <=> \E k \in 1..(cursor - 1) : Counts(zip, k)
      /\ failures = {} => LinkedTo(cursor - 1)
      /\ failures = {} /\ cursor > 1 =>
             prior = zip.checkpoints[cursor - 1].digest /\ prior # None
  BY <1>1, InTheLoop
<1>4. c.treeSize # None
  BY <1>1, NoneAssumption DEF SizeInvalid
<1>5. rooted \in RefusalKinds \cup {None}
      /\ (rooted = None <=> c.root # None /\ (prior # None => c.prev # None))
  BY KindsAreNotNone, GivenTypes DEF XInv, Fault, RefusalKinds
<1>6. fault \in RefusalKinds \cup {None}
      /\ (fault = None <=> CheckpointFault(c) = None /\ rooted = None)
  <2> HIDE DEF rooted, c
  <2> QED
    BY <1>5, FaultOfPair, CheckpointFound DEF XInv
<1>7. fault = None <=> CheckpointReadable(zip, cursor)
  <2> DEFINE counted == \E j \in 1..(cursor - 1) : Counts(zip, j)
  <2>1. CheckpointReadable(zip, cursor) <=>
            /\ c.suite /\ zip.registry[c.kid] # None /\ c.signer = zip.registry[c.kid].key
            /\ ~c.malformed /\ c.root # None
            /\ c.prev # None \/ ~counted
    BY <1>2, <1>4 DEF CheckpointReadable
  <2>2. CheckpointFault(c) = None <=>
            /\ c.suite /\ zip.registry[c.kid] # None /\ c.signer = zip.registry[c.kid].key
            /\ ~c.malformed
    BY CheckpointFound DEF XInv
  <2>3. prior # None <=> counted
    BY <1>3
  <2> HIDE DEF fault, rooted, c, counted
  <2> QED
    BY ONLY <1>5, <1>6, <2>1, <2>2, <2>3, Zenon
<1>8. /\ cursor' \in Nat \ {0} /\ cursor' - 1 \in DOMAIN zip.checkpoints
      /\ \E k \in 1..(cursor' - 1) :
             zip.checkpoints[k].digest = prior' /\ zip.checkpoints[k].root = headRoot'
  <2>1. cursor' \in Nat \ {0} /\ cursor' - 1 = cursor /\ cursor \in 1..(cursor' - 1)
    BY ONLY <1>1, <1>3
  <2> QED
    BY <1>1, <2>1
<1> HIDE DEF fault, rooted
<1>9. CASE fault # None
  <2>1. ~Readable(zip)
    BY <1>1, <1>7, <1>9 DEF Readable
  <2>2. /\ stage' = "done" /\ report' = FatalReport(fault) /\ UNCHANGED callVars
        /\ fault \in RefusalKinds
    BY <1>1, <1>6, <1>9
  <2> HIDE DEF c
  <2> QED
    BY <1>8, <2>1, <2>2, RefusalKeeps
<1>10. CASE fault = None
  <2>1. Given' /\ Established' /\ Refused' /\ Reading' /\ zip' = zip
    BY <1>1, <1>10, LoopKeeps
  <2>2. Types'
    BY <1>1, <1>8, <1>10 DEF XInv, Types, PastRegistries
  <2>3. c.root # None
    BY <1>5, <1>6, <1>10, Zenon
  <2>4. TypeOK'
    BY <1>1, <1>3, <1>8, <1>10, <2>1, <2>3 DEF XInv, Given, TypeOK
  <2>5. 1..(cursor' - 1) = 1..(cursor - 1) \cup {cursor} /\ cursor <= Len(zip.checkpoints)
    BY <1>1, <1>3
  <2>6. ASSUME failures' = {} PROVE LinkedTo(cursor - 1 + 1)
    <3>1. failures = {} /\ CheckpointFailures(c) = {}
      BY <1>1, <1>10, <2>6
    <3>2. /\ c.root = MerkleRoot(Prefix(zip, c.treeSize))
          /\ prior # None => c.prev = prior
      BY <3>1 DEF CheckpointFailures, KindIf
    <3>3. cursor > 1 => c.prev = zip.checkpoints[cursor - 1].digest
      BY <1>3, <3>1, <3>2
    <3>4. 1..(cursor - 1 + 1) = 1..(cursor - 1) \cup {cursor}
      BY <1>3
    <3> QED
      BY <1>2, <1>3, <3>1, <3>2, <3>3, <3>4 DEF LinkedTo
  <2>7. Looped'
    <3>1. /\ cursor' <= Len(zip.checkpoints) + 1
          /\ \A k \in 1..(cursor' - 1) : CheckpointReadable(zip, k)
          /\ prior' # None <=> \E k \in 1..(cursor' - 1) : Counts(zip, k)
      BY <1>1, <1>2, <1>3, <1>7, <1>10, <2>5
    <3>2. failures' = {} => LinkedTo(cursor - 1)'
      <4>1. cursor' - 1 = cursor - 1 + 1 /\ zip' = zip
        BY <1>1, <1>3, <2>1
      <4>2. LinkedTo(cursor - 1 + 1) => LinkedTo(cursor - 1)'
        BY ONLY <4>1 DEF LinkedTo
      <4> QED
        BY <2>6, <4>2
    <3>3. prior' = zip.checkpoints[cursor' - 1].digest
      BY <1>1, <1>3
    <3> QED
      BY <1>1, <1>10, <2>1, <3>1, <3>2, <3>3
         DEF Looped, PastCheckpoints, PastInclusions, PastConsistencies, PastSweep
  <2> QED
    BY <2>1, <2>2, <2>4, <2>7 DEF XInv
<1> QED
  BY <1>9, <1>10

\* The head, the proofs and the sweep come after the loop.
LEMMA TailSteps ==
    ASSUME XInv,
           VerifyHead \/ VerifyInclusionProofs \/ VerifyConsistencyProofs \/ SweepMembers
    PROVE  XInv'
<1> USE DEF PastOpen, PastMembers, PastEvents, PastAttachments, PastErasures, PastArtifacts,
        PastCertificates, PastSupersession, PastClocks, PastRegistries, PastCheckpoints,
        PastInclusions, PastConsistencies, PastSweep
<1>1. ASSUME NEW name, NEW next, NEW fault, NEW found, stage = name,
             <<name, next, fault>> \in
                 {<<"checkpoints", "inclusions", Malformed("head_checkpoint_digest")>>,
                  <<"inclusions", "consistencies",
                    Fault(zip.inclusions = None, "InclusionProofsInvalid")>>,
                  <<"consistencies", "sweep",
                    Fault(zip.consistencies = None, "ConsistencyProofsInvalid")>>,
                  <<"sweep", "report", None>>},
             name = "checkpoints" =>
                 /\ cursor = Len(zip.checkpoints) + 1
                 /\ found = KindIf(prior # zip.manifest.head, "HeadCheckpointDigestMismatch"),
             UNCHANGED <<callVars, cursor, prior, headRoot>>,
             IF fault # None
             THEN stage' = "done" /\ report' = FatalReport(fault) /\ UNCHANGED failures
             ELSE stage' = next /\ failures' = failures \cup found /\ UNCHANGED report
      PROVE  XInv'
  <2>1. OpenHolds(zip) /\ MembersHold(zip) /\ zip # None
    BY <1>1 DEF XInv, Established, Reading, OpenHolds
  <2>2. CASE fault # None
    <3>1. ~Readable(zip) /\ fault \in RefusalKinds
      BY <1>1, <2>2 DEF Malformed, Fault, Readable, RefusalKinds
    <3> QED
      BY <1>1, <2>2, <3>1, RefusalKeeps DEF XInv, Types, TypeOK
  <2>3. CASE fault = None
    <3>1. Given' /\ TypeOK' /\ Refused' /\ Reading' /\ zip' = zip /\ types' = types
      BY <1>1, <2>3, OnwardKeeps
    <3>2. /\ \A field : Malformed(field) = None <=> WellFormed(field)
          /\ \A condition, kind : kind \in RefusalKinds =>
                 (Fault(condition, kind) = None <=> ~condition)
      BY KindsAreNotNone, GivenTypes DEF XInv, Malformed, Fault, WellFormed
    <3>3. /\ EventsReadable' <=> EventsReadable
          /\ EventSetFailures(zip)' = EventSetFailures(zip)
          /\ \A field : WellFormed(field)' <=> WellFormed(field)
      BY <3>1 DEF EventsReadable, WellFormed, EventSetFailures
    <3>4. Types'
      BY <1>1, <2>3 DEF XInv, Types
    <3>5. Established'
      <4>1. "InclusionProofsInvalid" \in RefusalKinds /\ "ConsistencyProofsInvalid" \in RefusalKinds
        BY DEF RefusalKinds
      <4> QED
        BY <1>1, <2>1, <2>3, <3>1, <3>2, <3>3, <4>1 DEF XInv, Reading, Established
    <3>6. Looped'
      <4>1. failures' = {} => failures = {} /\ found = {}
        BY <1>1, <2>3
      <4>2. name = "checkpoints" /\ found = {} => prior = zip.manifest.head
        BY <1>1 DEF KindIf
      <4>3. LinkedTo(cursor - 1)' <=> LinkedTo(cursor - 1)
        BY <1>1, <3>1 DEF LinkedTo
      <4> QED
        BY <1>1, <2>3, <3>1, <4>1, <4>2, <4>3 DEF XInv, Reading, Looped
    <3> QED
      BY <3>1, <3>4, <3>5, <3>6 DEF XInv
  <2> QED
    BY <2>2, <2>3
<1>2. CASE VerifyHead
  <2> DEFINE fault == Malformed("head_checkpoint_digest")
             found == KindIf(prior # zip.manifest.head, "HeadCheckpointDigestMismatch")
  <2>1. /\ stage = "checkpoints" /\ UNCHANGED <<callVars, cursor, prior, headRoot>>
        /\ IF fault # None
           THEN stage' = "done" /\ report' = FatalReport(fault) /\ UNCHANGED failures
           ELSE stage' = "inclusions" /\ failures' = failures \cup found /\ UNCHANGED report
    BY ONLY <1>2 DEF VerifyHead, Stage
  <2>2. <<"checkpoints", "inclusions", fault>> \in
            {<<"checkpoints", "inclusions", Malformed("head_checkpoint_digest")>>,
             <<"inclusions", "consistencies",
               Fault(zip.inclusions = None, "InclusionProofsInvalid")>>,
             <<"consistencies", "sweep",
               Fault(zip.consistencies = None, "ConsistencyProofsInvalid")>>,
             <<"sweep", "report", None>>}
    OBVIOUS
  <2>3. "checkpoints" = "checkpoints" =>
            /\ cursor = Len(zip.checkpoints) + 1
            /\ found = KindIf(prior # zip.manifest.head, "HeadCheckpointDigestMismatch")
    BY <1>2 DEF VerifyHead
  <2> HIDE DEF fault, found
  <2> QED
    BY <1>1, <2>1, <2>2, <2>3
<1>3. CASE VerifyInclusionProofs
  <2> DEFINE fault == Fault(zip.inclusions = None, "InclusionProofsInvalid")
             found == UNION {InclusionFailures(p) : p \in ToSet(zip.inclusions)}
  <2>1. /\ stage = "inclusions" /\ UNCHANGED <<callVars, cursor, prior, headRoot>>
        /\ IF fault # None
           THEN stage' = "done" /\ report' = FatalReport(fault) /\ UNCHANGED failures
           ELSE stage' = "consistencies" /\ failures' = failures \cup found /\ UNCHANGED report
    BY ONLY <1>3 DEF VerifyInclusionProofs, Stage
  <2>2. <<"inclusions", "consistencies", fault>> \in
            {<<"checkpoints", "inclusions", Malformed("head_checkpoint_digest")>>,
             <<"inclusions", "consistencies",
               Fault(zip.inclusions = None, "InclusionProofsInvalid")>>,
             <<"consistencies", "sweep",
               Fault(zip.consistencies = None, "ConsistencyProofsInvalid")>>,
             <<"sweep", "report", None>>}
    OBVIOUS
  <2>3. "inclusions" = "checkpoints" =>
            /\ cursor = Len(zip.checkpoints) + 1
            /\ found = KindIf(prior # zip.manifest.head, "HeadCheckpointDigestMismatch")
    OBVIOUS
  <2> HIDE DEF fault, found
  <2> QED
    BY <1>1, <2>1, <2>2, <2>3
<1>4. CASE VerifyConsistencyProofs
  <2> DEFINE fault == Fault(zip.consistencies = None, "ConsistencyProofsInvalid")
             found == UNION {ConsistencyFailures(p) : p \in ToSet(zip.consistencies)}
  <2>1. /\ stage = "consistencies" /\ UNCHANGED <<callVars, cursor, prior, headRoot>>
        /\ IF fault # None
           THEN stage' = "done" /\ report' = FatalReport(fault) /\ UNCHANGED failures
           ELSE stage' = "sweep" /\ failures' = failures \cup found /\ UNCHANGED report
    BY ONLY <1>4 DEF VerifyConsistencyProofs, Stage
  <2>2. <<"consistencies", "sweep", fault>> \in
            {<<"checkpoints", "inclusions", Malformed("head_checkpoint_digest")>>,
             <<"inclusions", "consistencies",
               Fault(zip.inclusions = None, "InclusionProofsInvalid")>>,
             <<"consistencies", "sweep",
               Fault(zip.consistencies = None, "ConsistencyProofsInvalid")>>,
             <<"sweep", "report", None>>}
    OBVIOUS
  <2>3. "consistencies" = "checkpoints" =>
            /\ cursor = Len(zip.checkpoints) + 1
            /\ found = KindIf(prior # zip.manifest.head, "HeadCheckpointDigestMismatch")
    OBVIOUS
  <2> HIDE DEF fault, found
  <2> QED
    BY <1>1, <2>1, <2>2, <2>3
<1>5. CASE SweepMembers
  <2> DEFINE fault == None
             found == UnboundFailures(zip)
  <2>1. /\ stage = "sweep" /\ UNCHANGED <<callVars, cursor, prior, headRoot>>
        /\ IF fault # None
           THEN stage' = "done" /\ report' = FatalReport(fault) /\ UNCHANGED failures
           ELSE stage' = "report" /\ failures' = failures \cup found /\ UNCHANGED report
    BY ONLY <1>5 DEF SweepMembers, Stage
  <2>2. <<"sweep", "report", fault>> \in
            {<<"checkpoints", "inclusions", Malformed("head_checkpoint_digest")>>,
             <<"inclusions", "consistencies",
               Fault(zip.inclusions = None, "InclusionProofsInvalid")>>,
             <<"consistencies", "sweep",
               Fault(zip.consistencies = None, "ConsistencyProofsInvalid")>>,
             <<"sweep", "report", None>>}
    OBVIOUS
  <2>3. "sweep" = "checkpoints" =>
            /\ cursor = Len(zip.checkpoints) + 1
            /\ found = KindIf(prior # zip.manifest.head, "HeadCheckpointDigestMismatch")
    OBVIOUS
  <2> HIDE DEF fault, found
  <2> QED
    BY <1>1, <2>1, <2>2, <2>3
<1> QED
  BY <1>2, <1>3, <1>4, <1>5

LEMMA ReportStep ==
    ASSUME XInv, ReturnReport
    PROVE  XInv'
<1> USE DEF PastOpen, PastMembers, PastEvents, PastAttachments, PastErasures, PastArtifacts,
        PastCertificates, PastSupersession, PastClocks, PastRegistries, PastCheckpoints,
        PastInclusions, PastConsistencies, PastSweep
<1>1. /\ stage = "report" /\ stage' = "done" /\ report' = WholeReport /\ failures' = failures
      /\ call' = call /\ zip' = zip /\ types' = types /\ cursor' = cursor /\ prior' = prior
      /\ headRoot' = headRoot
  BY DEF ReturnReport, callVars
<1>2. report' = WholeReport' /\ report'.structure /\ Reading' /\ Reading
  BY <1>1 DEF WholeReport, Reading
<1>3. Given' /\ Types' /\ TypeOK' /\ Refused'
  BY <1>1, <1>2 DEF XInv, Given, Types, TypeOK, Refused
<1>4. /\ EventsReadable' <=> EventsReadable
      /\ EventSetFailures(zip)' = EventSetFailures(zip)
      /\ \A field : WellFormed(field)' <=> WellFormed(field)
      /\ LinkedTo(cursor - 1)' <=> LinkedTo(cursor - 1)
  BY <1>1 DEF EventsReadable, WellFormed, EventSetFailures, LinkedTo
<1>5. Established'
  BY <1>1, <1>2, <1>4 DEF XInv, Established
<1>6. Looped'
  BY <1>1, <1>2, <1>4 DEF XInv, Looped
<1> QED
  BY <1>3, <1>5, <1>6 DEF XInv

LEMMA ExportInit == ASSUME Init PROVE XInv
<1>1. Given /\ Types /\ TypeOK /\ Refused /\ Reading
  BY DEF Init, Given, Types, TypeOK, Refused, Reading, PastOpen, PastMembers, PastEvents,
         PastAttachments, PastErasures, PastArtifacts, PastCertificates, PastSupersession,
         PastClocks, PastRegistries, PastCheckpoints, PastInclusions, PastConsistencies, PastSweep
<1>2. Established /\ Looped
  BY DEF Init, Established, Looped, PastOpen, PastMembers, PastEvents,
         PastAttachments, PastErasures, PastArtifacts, PastCertificates, PastSupersession,
         PastClocks, PastRegistries, PastCheckpoints, PastInclusions, PastConsistencies, PastSweep
<1> QED
  BY <1>1, <1>2 DEF XInv

LEMMA ExportStep == ASSUME XInv, [Next]_vars PROVE XInv'
<1>1. CASE UNCHANGED vars
  <2>1. /\ UNCHANGED <<call, zip, types, stage, cursor, prior, headRoot, failures, report>>
    BY <1>1 DEF vars, callVars
  <2>2. Given' /\ Types' /\ TypeOK' /\ Refused'
    BY <2>1 DEF XInv, Given, Types, TypeOK, Refused, WholeReport
  <2>3. /\ Reading' <=> Reading
        /\ EventsReadable' <=> EventsReadable
        /\ EventSetFailures(zip)' = EventSetFailures(zip)
        /\ \A field : WellFormed(field)' <=> WellFormed(field)
        /\ LinkedTo(cursor - 1)' <=> LinkedTo(cursor - 1)
    BY <2>1 DEF Reading, EventsReadable, WellFormed, EventSetFailures, LinkedTo
  <2>4. Established' /\ Looped'
    BY <2>1, <2>3 DEF XInv, Established, Looped
  <2> QED
    BY <2>2, <2>4 DEF XInv
<1> QED
  BY <1>1, OpenStep, MembersStep, EventsStep, FieldSteps, RegistriesStep, SkipStep, CountStep,
     TailSteps, ReportStep DEF Next

\* Every state of a call keeps the invariant.
THEOREM ExportInvariance == Spec => []XInv
  BY ExportInit, ExportStep, PTL DEF Spec

-----------------------------------------------------------------------------
(* The second layer.                                                          *)

\* The validator answered after the call returned, about the events of the archive
\* when the gate let it.
Consulted ==
    findings # None =>
        /\ stage = "done" /\ findings \subseteq DomainFinding
        /\ report.structure /\ DomainParses(zip) => shown = DomainEvents(zip)

LInv == XInv /\ Consulted

LEMMA LayeredStep == ASSUME LInv, [LayeredNext]_layeredVars PROVE LInv'
<1>1. CASE Next /\ UNCHANGED <<shown, findings>>
  <2>1. stage # "done"
    BY <1>1 DEF Next, OpenArchive, CheckMembers, VerifyEvents, VerifyAttachments,
                VerifyErasureCatalog, VerifyArtifacts, VerifyCertificateCatalog,
                VerifySupersession, VerifyOpenClocks, VerifyRegistryBindings, SkipCheckpoint,
                CountCheckpoint, VerifyHead, VerifyInclusionProofs, VerifyConsistencyProofs,
                SweepMembers, ReturnReport, Stage, Checking
  <2>2. XInv'
    BY <1>1, ExportStep DEF LInv
  <2> QED
    BY <1>1, <2>1, <2>2 DEF LInv, Consulted
<1>2. CASE Consult
  <2>1. UNCHANGED vars /\ stage = "done"
    BY <1>2 DEF Consult
  <2>2. XInv'
    BY <2>1, ExportStep DEF LInv
  <2>3. /\ stage' = stage /\ report' = report /\ zip' = zip /\ types' = types
    BY <2>1 DEF vars, callVars
  <2>4. /\ DomainParses(zip)' <=> DomainParses(zip)
        /\ DomainEvents(zip)' = DomainEvents(zip)
    BY <2>3 DEF DomainParses, DomainEvents
  <2>5. findings' \subseteq DomainFinding
    BY <1>2, AnswersAssumption DEF Consult
  <2>6. report.structure /\ DomainParses(zip) => shown' = DomainEvents(zip)
    BY <1>2 DEF Consult
  <2>7. Consulted'
    BY <2>1, <2>3, <2>4, <2>5, <2>6 DEF Consulted
  <2> QED
    BY <2>2, <2>7 DEF LInv
<1>3. CASE UNCHANGED layeredVars
  <2>1. UNCHANGED <<vars, shown, findings>>
    BY <1>3 DEF layeredVars
  <2>2. XInv'
    BY <2>1, ExportStep DEF LInv
  <2>3. /\ stage' = stage /\ report' = report /\ zip' = zip /\ types' = types
    BY <2>1 DEF vars, callVars
  <2>4. /\ DomainParses(zip)' <=> DomainParses(zip)
        /\ DomainEvents(zip)' = DomainEvents(zip)
    BY <2>3 DEF DomainParses, DomainEvents
  <2> QED
    BY <2>1, <2>2, <2>3, <2>4 DEF LInv, Consulted
<1> QED
  BY <1>1, <1>2, <1>3 DEF LayeredNext

LEMMA LayeredInvariance == LayeredSpec => []LInv
<1>1. LayeredInit => LInv
  BY ExportInit DEF LayeredInit, LInv, Consulted
<1> QED
  BY <1>1, LayeredStep, PTL DEF LayeredSpec

\* A call that has returned the whole report, or one that was refused.
LEMMA Returned ==
    ASSUME LInv, findings # None
    PROVE  /\ stage = "done" /\ findings \subseteq DomainFinding
           /\ report = WholeReport \/ \E kind \in RefusalKinds : report = FatalReport(kind)
  BY DEF LInv, Consulted, XInv, TypeOK

-----------------------------------------------------------------------------
(* The theorems.                                                              *)

\* The variables keep the types of their Rust counterparts, and the running root and
\* digest are those of one checkpoint of the loop (verify_export_zip, export.rs).
THEOREM ExportTypes == LayeredSpec => []TypeOK
<1>1. LInv => TypeOK
  BY DEF LInv, XInv
<1> QED
  BY <1>1, LayeredInvariance, PTL

\* A report has no structure exactly when the archive cannot be read: no stage ends the
\* call over an archive that satisfies Readable, and none goes on over another.
RefusedMeansUnreadable ==
    stage = "done" => (report.structure <=> zip # None /\ Readable(zip))

THEOREM RefusedIffUnreadable == LayeredSpec => []RefusedMeansUnreadable
<1>1. ASSUME LInv, stage = "done" PROVE report.structure <=> zip # None /\ Readable(zip)
  <2>1. XInv /\ stage \in PastSweep
    BY <1>1 DEF LInv, PastSweep
  <2>2. report.structure => zip # None /\ Readable(zip)
    BY <2>1, ReadableAtTheEnd DEF Reading
  <2>3. ~report.structure => ~(zip # None /\ Readable(zip))
    BY <1>1, <2>1 DEF XInv, Refused
  <2> QED
    BY <1>1, <2>2, <2>3 DEF XInv, TypeOK, WholeReport, FatalReport
<1>2. LInv => RefusedMeansUnreadable
  BY <1>1 DEF RefusedMeansUnreadable
<1> QED
  BY <1>2, LayeredInvariance, PTL

\* A report of integrity is of the whole archive, and of no failure.
LEMMA IntegrityMeansWhole ==
    ASSUME TypeOK, stage = "done", report.integrity
    PROVE  report = WholeReport /\ failures = {} /\ Reading
<1>1. CASE report = WholeReport
  <2>1. report.integrity = (failures = {}) /\ report.structure = TRUE
    BY <1>1, Zenon DEF WholeReport
  <2> QED
    BY <1>1, <2>1 DEF Reading
<1>2. CASE \E kind \in RefusalKinds : report = FatalReport(kind)
  <2>1. PICK kind : report = FatalReport(kind)
    BY <1>2
  <2>2. report.integrity = FALSE
    BY <2>1 DEF FatalReport
  <2> QED
    BY <2>2
<1> QED
  BY <1>1, <1>2 DEF TypeOK

\* The checkpoints of a verified export are one chain: each counts, commits to its
\* prefix of the events and to the digest of the one before, and the manifest names the
\* digest of the last (the checkpoint loop of export.rs, whose running digest skips
\* nothing on the way).
CheckpointsChained ==
    Verified =>
        /\ zip.checkpoints # <<>> /\ LinkedTo(Len(zip.checkpoints))
        /\ HeadCheckpoint(zip).digest = zip.manifest.head

LEMMA CheckpointsChainedAtTheEnd == ASSUME LInv, Verified PROVE CheckpointsChained
<1> USE DEF PastCheckpoints, PastInclusions, PastConsistencies, PastSweep
<1>1. XInv /\ stage = "done" /\ report.integrity
  BY DEF LInv, Verified
<1>2. report = WholeReport /\ failures = {} /\ Reading
  BY <1>1, IntegrityMeansWhole DEF XInv
<1>3. zip # None /\ Readable(zip)
  BY <1>1, <1>2, ReadableAtTheEnd
<1>4. /\ cursor = Len(zip.checkpoints) + 1 /\ prior = zip.manifest.head
      /\ LinkedTo(cursor - 1)
      /\ cursor > 1 => prior = zip.checkpoints[cursor - 1].digest
      /\ prior # None <=> \E k \in 1..(cursor - 1) : Counts(zip, k)
  BY <1>1, <1>2 DEF XInv, Looped, PastRegistries
<1>5. prior # None
  BY <1>1, <1>3, <1>4, GivenTypes, NoneAssumption DEF XInv
<1>6. zip.checkpoints \in Seq(ToSet(zip.checkpoints))
  BY <1>1, <1>3, GivenTypes DEF XInv, Readable
<1>7. Len(zip.checkpoints) \in Nat /\ cursor - 1 = Len(zip.checkpoints) /\ cursor > 1
  BY <1>4, <1>5, <1>6
<1>8. zip.checkpoints # <<>>
  <2>1. Len(<<>>) = 0
    OBVIOUS
  <2>2. ASSUME NEW n \in Nat, n = cursor - 1, cursor > 1 PROVE n # 0
    BY <2>2, <1>1 DEF XInv, Types
  <2>3. Len(zip.checkpoints) # 0
    BY <1>7, <2>2
  <2> QED
    BY <2>1, <2>3, Zenon
<1> QED
  BY <1>4, <1>7, <1>8 DEF CheckpointsChained, HeadCheckpoint

THEOREM CheckpointsChain == LayeredSpec => []CheckpointsChained
<1>1. LInv => CheckpointsChained
  BY CheckpointsChainedAtTheEnd DEF CheckpointsChained
<1> QED
  BY <1>1, LayeredInvariance, PTL

\* What it takes for a verdict to be Valid.
LEMMA ValidFound ==
    RelyingPartyResult = "Valid" <=>
        /\ report.structure /\ report.integrity
        /\ ~Failed(ProjectionKinds) /\ ~Failed(OtherKinds)
<1>1. /\ DOMAIN Tiers = 1..3 /\ Tiers[1] = CryptographicIntegrity
      /\ Tiers[2] = ProjectionIntegrity /\ Tiers[3] = DomainAdmissibility
  BY DEF Tiers
<1>2. 1..3 = {1, 2, 3}
  OBVIOUS
<1>3. RelyingPartyResult = "Valid" <=>
          /\ CryptographicIntegrity = "Pass" /\ ProjectionIntegrity = "Pass"
          /\ DomainAdmissibility = "Pass"
  BY <1>1, <1>2 DEF RelyingPartyResult
<1>4. CryptographicIntegrity = "Pass" <=> report.structure /\ report.integrity
  BY DEF CryptographicIntegrity
<1> QED
  BY <1>3, <1>4 DEF ProjectionIntegrity, DomainAdmissibility, Tier

\* A finding of the validator is a failure or an advisory, of a kind of either list.
LEMMA FailureFound ==
    ASSUME findings \subseteq DomainFinding
    PROVE  /\ ~Failed(ProjectionKinds) /\ ~Failed(OtherKinds) <=> DomainFailures = {}
           /\ DomainFailures = {} => \A f \in findings : f.severity = "Advisory"
<1>1. \A f \in findings : /\ f.kind \in ProjectionKinds \/ f.kind \in OtherKinds
                          /\ f.severity = "Failure" \/ f.severity = "Advisory"
  BY DEF DomainFinding
<1> QED
  BY <1>1 DEF Failed, DomainFailures

\* The exit code of the command line and the verdict of the library are computed by
\* different code from different fields, and agree on every report and every answer.
THEOREM ExitAgrees == LayeredSpec => []ExitAgreesWithVerdict
<1>1. ASSUME LInv, findings # None PROVE ExitCode = 0 <=> RelyingPartyResult = "Valid"
  <2>1. /\ findings \subseteq DomainFinding
        /\ report = WholeReport \/ \E kind \in RefusalKinds : report = FatalReport(kind)
    BY <1>1, Returned
  <2>2. report.structure /\ report.integrity => report.failures = {}
    <3>1. CASE report = WholeReport
      <4>1. report.integrity = (failures = {}) /\ report.failures = failures
        BY <3>1, Zenon DEF WholeReport
      <4> QED
        BY <4>1
    <3>2. CASE \E kind \in RefusalKinds : report = FatalReport(kind)
      <4>1. PICK kind : report = FatalReport(kind)
        BY <3>2
      <4>2. report.integrity = FALSE
        BY <4>1 DEF FatalReport
      <4> QED
        BY <4>2
    <3> QED
      BY <2>1, <3>1, <3>2
  <2>3. ExitCode = 0 <=>
            report.failures = {} /\ DomainFailures = {} /\ report.structure /\ report.integrity
    BY DEF ExitCode
  <2> QED
    BY <2>1, <2>2, <2>3, ValidFound, FailureFound
<1>2. LInv => ExitAgreesWithVerdict
  BY <1>1 DEF ExitAgreesWithVerdict, Answered
<1> QED
  BY <1>2, LayeredInvariance, PTL

-----------------------------------------------------------------------------
(* What the validator was shown.                                              *)

\* A finite set of indices has a last one: the entry of a member that stays.
LEMMA LastEntry ==
    ASSUME NEW n \in Nat, NEW T \in SUBSET (1..n), T # {}
    PROVE  \E k \in T : \A j \in T : j <= k
<1> DEFINE Backwards == {n - k : k \in T}
<1>1. Backwards \subseteq Nat /\ Backwards # {}
  <2>1. ASSUME NEW k \in T PROVE n - k \in Nat
    <3>1. k \in 1..n
      BY <2>1
    <3> QED
      BY <3>1
  <2> QED
    BY <2>1
<1>2. PICK i \in Backwards : \A j \in Backwards : i <= j
  <2> HIDE DEF Backwards
  <2> QED
    BY <1>1, LeastElement
<1>3. PICK k \in T : i = n - k
  OBVIOUS
<1>4. \A j \in T : n - k <= n - j
  BY <1>2, <1>3
<1> QED
  BY <1>4

LEMMA MemberDigestType ==
    ASSUME NEW a, a.entries \in Seq(Entry), NEW path
    PROVE  MemberDigest(a, path) \in Optional(Contents)
<1>1. CASE EntriesAt(a, path) = {}
  BY <1>1 DEF MemberDigest, Optional
<1>2. CASE EntriesAt(a, path) # {}
  <2>1. EntriesAt(a, path) \subseteq 1..Len(a.entries) /\ Len(a.entries) \in Nat
    BY DEF EntriesAt
  <2>2. \E k \in EntriesAt(a, path) : \A j \in EntriesAt(a, path) : j <= k
    BY <1>2, <2>1, LastEntry
  <2>3. PICK k \in 1..Len(a.entries) : MemberDigest(a, path) = a.entries[k].content
    BY <1>2, <2>1, <2>2 DEF MemberDigest
  <2>4. a.entries[k] \in Entry
    BY <2>3
  <2> QED
    BY <2>3, <2>4 DEF Entry, Optional
<1> QED
  BY <1>1, <1>2

\* When every event decodes, the events that decode are the events.
LEMMA AllDecodable ==
    ASSUME NEW a, a.events \in Seq(EventRecord), \A i \in DOMAIN a.events : Decodes(a.events[i])
    PROVE  DecodableEvents(a) = a.events
<1> DEFINE n == Len(a.events)
<1>1. n \in Nat /\ DOMAIN a.events = 1..n /\ a.events \in [1..n -> EventRecord]
  OBVIOUS
<1>2. Decodable(a) = 1..n
  BY <1>1 DEF Decodable
<1>3. ASSUME NEW i \in 1..n PROVE Cardinality({j \in Decodable(a) : j <= i}) = i
  <2>1. {j \in 1..n : j <= i} = 1..i
    BY <1>1
  <2>2. Cardinality(1..i) = i
    BY <1>1, FS_Interval
  <2> QED
    BY <1>2, <2>1, <2>2
<1>4. Cardinality(Decodable(a)) = n
  BY <1>1, <1>2, FS_Interval
<1>5. ASSUME NEW k \in 1..n
      PROVE  (CHOOSE i \in Decodable(a) : Cardinality({j \in Decodable(a) : j <= i}) = k) = k
  <2>1. \A i \in Decodable(a) : Cardinality({j \in Decodable(a) : j <= i}) = k <=> i = k
    BY <1>2, <1>3
  <2>2. k \in Decodable(a)
    BY <1>2
  <2> QED
    BY <2>1, <2>2
<1> HIDE DEF n
<1>6. DecodableEvents(a) = [k \in 1..n |-> a.events[k]]
  <2> DEFINE nth(k) ==
                 CHOOSE i \in Decodable(a) : Cardinality({j \in Decodable(a) : j <= i}) = k
  <2>1. DecodableEvents(a) = [k \in 1..n |-> a.events[nth(k)]]
    BY <1>4 DEF DecodableEvents
  <2>2. \A k \in 1..n : nth(k) = k
    BY <1>5
  <2> HIDE DEF nth
  <2> QED
    BY <2>1, <2>2
<1> QED
  BY <1>1, <1>6

\* The events shown are those of the ledger, in its order.
LEMMA ShownIsTheLedger ==
    ASSUME Given, zip # None, zip.events \in Seq(EventRecord), DecodableEvents(zip) = zip.events
    PROVE  /\ DomainEvents(zip) # None
           /\ Len(DomainEvents(zip)) = Len(zip.events)
           /\ DOMAIN DomainEvents(zip) = DOMAIN zip.events
           /\ \A k \in DOMAIN zip.events : DomainEvents(zip)[k].hash = zip.events[k].hash
<1> DEFINE n == Len(zip.events)
           in == EventSetInput(zip, types)
           event(e) == [eventType |-> e.eventType, hash |-> e.hash,
                        payload |-> ReadablePayload(in, e), authoredAt |-> e.authoredAt]
<1>1. n \in Nat /\ DOMAIN zip.events = 1..n
  OBVIOUS
<1>2. zip.entries \in Seq(Entry)
  BY ExportsAssumption DEF Given
<1>3. ASSUME NEW e \in EventRecord PROVE event(e) \in DomainEvent
  <2>1. /\ e.eventType \in STRING /\ e.hash \in Hashes /\ e.authoredAt \in Times
        /\ e.inline \in Optional(Contents) /\ e.contentHash \in Contents
    BY DEF EventRecord
  <2>2. ReadablePayload(in, e) \in Optional(Contents)
    <3>1. in.blobs = [content \in Contents |-> MemberDigest(zip, Payload(content))]
      BY DEF EventSetInput
    <3>2. in.blobs[e.contentHash] \in Optional(Contents)
      BY <1>2, <2>1, <3>1, MemberDigestType
    <3>3. None \in Optional(Contents)
      BY DEF Optional
    <3> HIDE DEF in
    <3> QED
      BY <2>1, <3>2, <3>3, Zenon DEF ReadablePayload
  <2> HIDE DEF in
  <2> QED
    BY <2>1, <2>2 DEF DomainEvent
<1>4. DomainEvents(zip) = [k \in 1..n |-> event(zip.events[k])]
  BY <1>1 DEF DomainEvents
<1>5. \A k \in 1..n : zip.events[k] \in EventRecord
  OBVIOUS
<1>6. \A e : event(e).hash = e.hash
  OBVIOUS
<1> HIDE DEF n, event
<1>7. [k \in 1..n |-> event(zip.events[k])] \in Seq(DomainEvent)
  BY <1>1, <1>3, <1>5
<1>8. Len([k \in 1..n |-> event(zip.events[k])]) = n
  BY <1>1, <1>7
<1> QED
  BY <1>1, <1>4, <1>6, <1>7, <1>8, AnswersAssumption DEF n

\* What a relying party may accept was checked in both layers: the export verified, the
\* validator was shown every event of the ledger in its order and found no failure.  The
\* early returns of verify_export_zip_with_validator are out of reach of a Valid verdict.
THEOREM ValidValidated == LayeredSpec => []ValidMeansValidated
<1>1. ASSUME LInv, findings # None, RelyingPartyResult = "Valid"
      PROVE  /\ Verdict = "verified" /\ shown # None /\ Len(shown) = Len(zip.events)
             /\ \A k \in DOMAIN shown : shown[k].hash = zip.events[k].hash
             /\ \A f \in findings : f.severity = "Advisory"
  <2> DEFINE in == EventSetInput(zip, types)
  <2>1. /\ XInv /\ stage = "done" /\ findings \subseteq DomainFinding
        /\ report.structure /\ report.integrity
    BY <1>1, Returned, ValidFound DEF LInv
  <2>2. failures = {} /\ Reading
    BY <2>1, IntegrityMeansWhole DEF XInv
  <2>3. zip # None /\ Readable(zip)
    BY <2>1, <2>2, ReadableAtTheEnd DEF PastSweep
  <2>4. zip.events # None /\ zip.events \in Seq(EventRecord)
    BY <2>1, <2>3, GivenTypes DEF XInv, Readable, Optional
  <2>5. Judgement(in) = "verified"
    <3>1. EventSetFailures(zip) = {}
      BY <2>1, <2>2 DEF XInv, Established, PastSweep, PastConsistencies, PastInclusions,
             PastCheckpoints, PastRegistries, PastClocks, PastSupersession, PastCertificates,
             PastArtifacts, PastErasures, PastAttachments, PastEvents
    <3> QED
      BY <3>1 DEF EventSetFailures, KindIf
  <2>6. \A i \in DOMAIN zip.events : Decodes(zip.events[i])
    <3>1. in.ledger = zip.events
      BY DEF EventSetInput
    <3> HIDE DEF in
    <3>2. Clean(in) /\ \A i \in Indices(in) : ~Unreadable(in, in.ledger[i])
      BY <2>5 DEF Judgement
    <3>3. \A i \in Indices(in) : SignatureVerifies(in, in.ledger[i])
      BY <3>2 DEF Clean, EventsAuthentic, EventAuthentic
    <3> QED
      BY <3>1, <3>2, <3>3 DEF Indices, Unreadable
  <2>7. DecodableEvents(zip) = zip.events
    BY <2>4, <2>6, AllDecodable
  <2>8. DomainParses(zip)
    BY <2>3, <2>4 DEF DomainParses, Readable, ManifestSigned, ExtensionFields
  <2>9. shown = DomainEvents(zip)
    BY <1>1, <2>1, <2>8 DEF LInv, Consulted
  <2>10. ~Failed(ProjectionKinds) /\ ~Failed(OtherKinds)
    BY <1>1, ValidFound
  <2>11. Verdict = "verified"
    BY <2>1 DEF Verdict
  <2> QED
    BY <2>1, <2>3, <2>4, <2>7, <2>9, <2>10, <2>11, ShownIsTheLedger, FailureFound DEF XInv
<1>2. LInv => ValidMeansValidated
  BY <1>1 DEF ValidMeansValidated, Answered
<1> QED
  BY <1>2, LayeredInvariance, PTL

-----------------------------------------------------------------------------
(* What was found.  A call that goes on has found something exactly when a     *)
(* stage it passed finds something in the archive.                           *)

ArtifactsFound ==
    IF Judgement(EventSetInput(zip, types)) = "unreadable" THEN {}
    ELSE CertificateArtifactFailures(zip)
HeadFound == KindIf(prior # zip.manifest.head, "HeadCheckpointDigestMismatch")
InclusionsFound == UNION {InclusionFailures(p) : p \in ToSet(zip.inclusions)}
ConsistenciesFound == UNION {ConsistencyFailures(p) : p \in ToSet(zip.consistencies)}

Spotless ==
    /\ stage \in PastEvents => EventSetFailures(zip) = {}
    /\ stage \in PastAttachments => AttachmentFailures(zip) = {}
    /\ stage \in PastErasures => ErasureCatalogFailures(zip) = {}
    /\ stage \in PastArtifacts => ArtifactsFound = {}
    /\ stage \in PastCertificates => CertificateCatalogFailures(zip) = {}
    /\ stage \in PastSupersession => SupersessionFailures(zip) = {}
    /\ stage \in PastClocks => OpenClockFailures(zip) = {}
    /\ stage \in PastRegistries => RegistryFailures(zip) = {} /\ LinkedTo(cursor - 1)
    /\ stage \in PastCheckpoints => HeadFound = {}
    /\ stage \in PastInclusions => InclusionsFound = {}
    /\ stage \in PastConsistencies => ConsistenciesFound = {}
    /\ stage \in PastSweep => UnboundFailures(zip) = {}

\* The running digest and root are those of the checkpoint before the cursor, if that
\* one counts, whatever was found before.
Running ==
    stage \in PastRegistries /\ cursor > 1 /\ Counts(zip, cursor - 1) =>
        /\ prior = zip.checkpoints[cursor - 1].digest
        /\ headRoot = zip.checkpoints[cursor - 1].root

FInv == Reading => (failures = {} <=> Spotless) /\ Running

LEMMA SameFindings ==
    ASSUME UNCHANGED <<callVars, cursor, prior, headRoot>>
    PROVE  /\ zip' = zip /\ types' = types /\ cursor' = cursor
           /\ EventSetFailures(zip)' = EventSetFailures(zip)
           /\ ArtifactsFound' = ArtifactsFound /\ HeadFound' = HeadFound
           /\ InclusionsFound' = InclusionsFound /\ ConsistenciesFound' = ConsistenciesFound
           /\ LinkedTo(cursor - 1)' <=> LinkedTo(cursor - 1)
<1>1. /\ zip' = zip /\ types' = types /\ cursor' = cursor /\ prior' = prior
      /\ headRoot' = headRoot
  BY DEF callVars
<1>2. EventSetFailures(zip)' = EventSetFailures(zip) /\ ArtifactsFound' = ArtifactsFound
  BY <1>1 DEF EventSetFailures, ArtifactsFound
<1>3. HeadFound' = HeadFound
  BY <1>1 DEF HeadFound
<1>4. \A p : InclusionFailures(p)' = InclusionFailures(p)
  BY <1>1 DEF InclusionFailures, LeadsToHead
<1>5. \A p : ConsistencyFailures(p)' = ConsistencyFailures(p)
  BY <1>1 DEF ConsistencyFailures
<1>6. InclusionsFound' = InclusionsFound
  BY <1>1, <1>4 DEF InclusionsFound
<1>7. ConsistenciesFound' = ConsistenciesFound
  BY <1>1, <1>5 DEF ConsistenciesFound
<1>8. LinkedTo(cursor - 1)' <=> LinkedTo(cursor - 1)
  BY <1>1 DEF LinkedTo
<1> QED
  BY <1>1, <1>2, <1>3, <1>6, <1>7, <1>8

\* A stage other than the loop adds what it found.
LEMMA StageAdds ==
    ASSUME Types, FInv, Reading,
           NEW found, failures' = failures \cup found,
           UNCHANGED <<callVars, cursor, prior, headRoot>>,
           \/ stage = "open" /\ stage' = "members" /\ found = {}
           \/ stage = "members" /\ stage' = "events" /\ found = {}
           \/ stage = "events" /\ stage' = "attachments" /\ found = EventSetFailures(zip)
           \/ stage = "attachments" /\ stage' = "erasures" /\ found = AttachmentFailures(zip)
           \/ stage = "erasures" /\ stage' = "artifacts" /\ found = ErasureCatalogFailures(zip)
           \/ stage = "artifacts" /\ stage' = "certificates" /\ found = ArtifactsFound
           \/ /\ stage = "certificates" /\ stage' = "supersession"
              /\ found = CertificateCatalogFailures(zip)
           \/ stage = "supersession" /\ stage' = "clocks" /\ found = SupersessionFailures(zip)
           \/ stage = "clocks" /\ stage' = "registries" /\ found = OpenClockFailures(zip)
           \/ stage = "registries" /\ stage' = "checkpoints" /\ found = RegistryFailures(zip)
           \/ stage = "checkpoints" /\ stage' = "inclusions" /\ found = HeadFound
           \/ stage = "inclusions" /\ stage' = "consistencies" /\ found = InclusionsFound
           \/ stage = "consistencies" /\ stage' = "sweep" /\ found = ConsistenciesFound
           \/ stage = "sweep" /\ stage' = "report" /\ found = UnboundFailures(zip)
           \/ stage = "report" /\ stage' = "done" /\ found = {}
    PROVE  FInv'
<1> USE DEF PastEvents, PastAttachments, PastErasures, PastArtifacts,
        PastCertificates, PastSupersession, PastClocks, PastRegistries, PastCheckpoints,
        PastInclusions, PastConsistencies, PastSweep
<1>1. /\ zip' = zip /\ types' = types /\ cursor' = cursor /\ prior' = prior
      /\ headRoot' = headRoot
      /\ EventSetFailures(zip)' = EventSetFailures(zip)
      /\ ArtifactsFound' = ArtifactsFound /\ HeadFound' = HeadFound
      /\ InclusionsFound' = InclusionsFound /\ ConsistenciesFound' = ConsistenciesFound
      /\ LinkedTo(cursor - 1)' <=> LinkedTo(cursor - 1)
  BY SameFindings DEF callVars
<1>2. Running'
  <2>1. stage' \in PastRegistries => stage \in PastRegistries \/ cursor = 1
    BY DEF Types, PastOpen, PastMembers
  <2>2. Counts(zip, cursor - 1)' <=> Counts(zip, cursor - 1)
    BY <1>1 DEF Counts, Leaves
  <2> QED
    BY <1>1, <2>1, <2>2 DEF FInv, Running, Types
<1>3. LinkedTo(0)
  BY DEF LinkedTo
<1>4. failures' = {} <=> failures = {} /\ found = {}
  OBVIOUS
<1>5. stage = "registries" => LinkedTo(cursor - 1)
  BY <1>3 DEF Types, PastOpen, PastMembers
<1>6. Spotless' <=> Spotless /\ found = {}
  <2>1. CASE stage = "open" \/ stage = "members"
    BY <1>1, <2>1 DEF Spotless
  <2>2. CASE stage = "events"
    BY <1>1, <2>2 DEF Spotless
  <2>3. CASE stage = "attachments"
    BY <1>1, <2>3 DEF Spotless
  <2>4. CASE stage = "erasures"
    BY <1>1, <2>4 DEF Spotless
  <2>5. CASE stage = "artifacts"
    BY <1>1, <2>5 DEF Spotless
  <2>6. CASE stage = "certificates"
    BY <1>1, <2>6 DEF Spotless
  <2>7. CASE stage = "supersession"
    BY <1>1, <2>7 DEF Spotless
  <2>8. CASE stage = "clocks"
    BY <1>1, <2>8 DEF Spotless
  <2>9. CASE stage = "registries"
    BY <1>1, <1>5, <2>9 DEF Spotless
  <2>10. CASE stage = "checkpoints"
    BY <1>1, <2>10 DEF Spotless
  <2>11. CASE stage = "inclusions"
    BY <1>1, <2>11 DEF Spotless
  <2>12. CASE stage = "consistencies"
    BY <1>1, <2>12 DEF Spotless
  <2>13. CASE stage = "sweep"
    BY <1>1, <2>13 DEF Spotless
  <2>14. CASE stage = "report"
    BY <1>1, <2>14 DEF Spotless
  <2> QED
    BY <2>1, <2>2, <2>3, <2>4, <2>5, <2>6, <2>7, <2>8, <2>9, <2>10, <2>11, <2>12, <2>13, <2>14
<1> QED
  BY <1>2, <1>4, <1>6 DEF FInv

\* An iteration of the loop goes on having found something exactly when the checkpoint
\* does not extend the chain of those before it.
LEMMA IterationAdds ==
    ASSUME XInv, FInv, Reading, stage = "checkpoints", stage' = stage,
           NEW found, failures' = failures \cup found, cursor' = cursor + 1,
           UNCHANGED callVars,
           LinkedTo(cursor - 1) => (found = {} <=> LinkedTo(cursor)),
           Counts(zip, cursor) =>
               /\ prior' = zip.checkpoints[cursor].digest
               /\ headRoot' = zip.checkpoints[cursor].root
    PROVE  FInv'
<1> USE DEF PastEvents, PastAttachments, PastErasures, PastArtifacts,
        PastCertificates, PastSupersession, PastClocks, PastRegistries, PastCheckpoints,
        PastInclusions, PastConsistencies, PastSweep
<1>1. zip' = zip /\ types' = types /\ cursor \in Nat \ {0} /\ cursor' - 1 = cursor
  BY InTheLoop DEF callVars
<1>2. EventSetFailures(zip)' = EventSetFailures(zip) /\ ArtifactsFound' = ArtifactsFound
  BY <1>1 DEF EventSetFailures, ArtifactsFound
<1>3. LinkedTo(cursor - 1)' <=> LinkedTo(cursor)
  BY ONLY <1>1 DEF LinkedTo
<1>4. LinkedTo(cursor) => LinkedTo(cursor - 1)
  BY <1>1 DEF LinkedTo
<1>5. failures' = {} <=> failures = {} /\ found = {}
  OBVIOUS
<1>6. Spotless' <=> Spotless /\ found = {}
  BY <1>1, <1>2, <1>3, <1>4 DEF Spotless
<1>7. Running'
  <2>1. Counts(zip, cursor - 1)' <=> Counts(zip, cursor)
    BY <1>1 DEF Counts, Leaves
  <2> QED
    BY <1>1, <2>1 DEF Running
<1> QED
  BY <1>5, <1>6, <1>7 DEF FInv

LEMMA SkipAdds ==
    ASSUME XInv, FInv, Reading, SkipCheckpoint
    PROVE  FInv'
<1> DEFINE c == zip.checkpoints[cursor]
           foreign == c.scope # zip.manifest.scope
           kind == IF foreign THEN "ScopeMismatch" ELSE "TreeSizeInvalid"
<1>1. /\ stage = "checkpoints" /\ (foreign \/ SizeInvalid(c))
      /\ cursor' = cursor + 1 /\ UNCHANGED callVars
      /\ \/ stage' = "done" /\ \E fault : report' = FatalReport(fault)
         \/ stage' = "checkpoints" /\ failures' = failures \cup {kind}
  BY DEF SkipCheckpoint, Stage, Checking
<1>2. ~Counts(zip, cursor)
  BY <1>1 DEF Counts, SizeInvalid
<1>3. ~LinkedTo(cursor)
  <2>1. cursor \in 1..cursor
    BY <1>1, InTheLoop
  <2> QED
    BY <1>2, <2>1 DEF LinkedTo
<1>4. CASE stage' = "done"
  <2>1. ~Reading'
    BY <1>1, <1>4 DEF Reading, FatalReport
  <2> QED
    BY <2>1 DEF FInv
<1>5. CASE stage' = "checkpoints"
  <2> DEFINE found == {kind}
  <2>1. failures' = failures \cup found /\ found # {}
    BY <1>1, <1>5
  <2> HIDE DEF found, c, foreign, kind
  <2> QED
    BY <1>1, <1>2, <1>3, <1>5, <2>1, IterationAdds
<1> QED
  BY <1>1, <1>4, <1>5

LEMMA CountAdds ==
    ASSUME XInv, FInv, Reading, CountCheckpoint
    PROVE  FInv'
<1> DEFINE c == zip.checkpoints[cursor]
<1>1. /\ stage = "checkpoints" /\ c.scope = zip.manifest.scope /\ ~SizeInvalid(c)
      /\ cursor' = cursor + 1 /\ prior' = c.digest /\ headRoot' = c.root /\ UNCHANGED callVars
      /\ \/ stage' = "done" /\ \E fault : report' = FatalReport(fault)
         \/ stage' = "checkpoints" /\ failures' = failures \cup CheckpointFailures(c)
  BY DEF CountCheckpoint, Stage, Checking, PriorAfter
<1>2. Counts(zip, cursor)
  BY <1>1 DEF Counts, SizeInvalid
<1>3. /\ cursor \in Nat \ {0}
      /\ prior # None <=> \E k \in 1..(cursor - 1) : Counts(zip, k)
  BY <1>1, InTheLoop
<1>4. ASSUME LinkedTo(cursor - 1) PROVE CheckpointFailures(c) = {} <=> LinkedTo(cursor)
  <2>1. CASE cursor = 1
    <3>1. prior = None
      BY <1>3, <2>1
    <3>2. LinkedTo(1) <=> c.root = MerkleRoot(Prefix(zip, c.treeSize))
      BY <1>2, <2>1 DEF LinkedTo
    <3> QED
      BY <2>1, <3>1, <3>2 DEF CheckpointFailures, KindIf
  <2>2. CASE cursor > 1
    <3>1. cursor - 1 \in 1..(cursor - 1) /\ 1..cursor = 1..(cursor - 1) \cup {cursor}
      BY <1>3, <2>2
    <3>2. Counts(zip, cursor - 1)
      BY <1>4, <3>1 DEF LinkedTo
    <3>3. prior = zip.checkpoints[cursor - 1].digest /\ prior # None
      BY <1>1, <1>3, <2>2, <3>1, <3>2 DEF FInv, Running, PastRegistries
    <3>4. LinkedTo(cursor) <=> /\ c.root = MerkleRoot(Prefix(zip, c.treeSize))
                               /\ c.prev = zip.checkpoints[cursor - 1].digest
      BY <1>2, <1>4, <2>2, <3>1 DEF LinkedTo
    <3> HIDE DEF c
    <3> QED
      BY <3>3, <3>4 DEF CheckpointFailures, KindIf
  <2> QED
    BY <1>3, <2>1, <2>2
<1>5. CASE stage' = "done"
  <2>1. ~Reading'
    BY <1>1, <1>5 DEF Reading, FatalReport
  <2> QED
    BY <2>1 DEF FInv
<1>6. CASE stage' = "checkpoints"
  <2> DEFINE found == CheckpointFailures(c)
  <2>1. /\ failures' = failures \cup found
        /\ LinkedTo(cursor - 1) => (found = {} <=> LinkedTo(cursor))
        /\ prior' = zip.checkpoints[cursor].digest /\ headRoot' = zip.checkpoints[cursor].root
    BY <1>1, <1>4, <1>6
  <2> HIDE DEF found, c
  <2> QED
    BY <1>1, <1>6, <2>1, IterationAdds
<1> QED
  BY <1>1, <1>5, <1>6

\* A call that ends with a fatal report reads no further.
LEMMA FatalEnds ==
    ASSUME NEW kind, stage' = "done", report' = FatalReport(kind)
    PROVE  FInv'
<1>1. ~Reading'
  BY DEF Reading, FatalReport
<1> QED
  BY <1>1 DEF FInv

LEMMA FindingStep == ASSUME XInv, FInv, [Next]_vars PROVE FInv'
<1>1. CASE UNCHANGED vars
  <2>1. /\ UNCHANGED <<callVars, cursor, prior, headRoot>>
        /\ stage' = stage /\ report' = report /\ failures' = failures
    BY <1>1 DEF vars
  <2>2. /\ Reading' <=> Reading
        /\ Counts(zip, cursor - 1)' <=> Counts(zip, cursor - 1)
    BY <2>1 DEF Reading, callVars, Counts, Leaves
  <2>3. Spotless' <=> Spotless
    BY <2>1, SameFindings DEF Spotless
  <2>4. Running' <=> Running
    BY <2>1, <2>2 DEF Running, callVars
  <2> QED
    BY <2>1, <2>2, <2>3, <2>4 DEF FInv
<1>2. ASSUME Next, stage = "done" PROVE FALSE
  BY <1>2 DEF Next, OpenArchive, CheckMembers, VerifyEvents, VerifyAttachments,
                VerifyErasureCatalog, VerifyArtifacts, VerifyCertificateCatalog,
                VerifySupersession, VerifyOpenClocks, VerifyRegistryBindings, SkipCheckpoint,
                CountCheckpoint, VerifyHead, VerifyInclusionProofs, VerifyConsistencyProofs,
                SweepMembers, ReturnReport, Stage, Checking
<1>3. ASSUME Next PROVE Reading
  BY <1>2, <1>3 DEF Reading
<1>4. CASE OpenArchive
  BY <1>3, <1>4, StageAdds, FatalEnds DEF OpenArchive, Stage, XInv, Next
<1>5. CASE CheckMembers
  BY <1>3, <1>5, StageAdds, FatalEnds DEF CheckMembers, Stage, XInv, Next
<1>6. CASE VerifyEvents
  BY <1>3, <1>6, StageAdds, FatalEnds DEF VerifyEvents, Stage, XInv, Next
<1>7. CASE VerifyAttachments
  BY <1>3, <1>7, StageAdds, FatalEnds DEF VerifyAttachments, Stage, XInv, Next
<1>8. CASE VerifyErasureCatalog
  BY <1>3, <1>8, StageAdds, FatalEnds DEF VerifyErasureCatalog, Stage, XInv, Next
<1>9. CASE VerifyArtifacts
  BY <1>3, <1>9, StageAdds, FatalEnds DEF VerifyArtifacts, ArtifactsFound, Stage, XInv, Next
<1>10. CASE VerifyCertificateCatalog
  BY <1>3, <1>10, StageAdds, FatalEnds DEF VerifyCertificateCatalog, Stage, XInv, Next
<1>11. CASE VerifySupersession
  BY <1>3, <1>11, StageAdds, FatalEnds DEF VerifySupersession, Stage, XInv, Next
<1>12. CASE VerifyOpenClocks
  BY <1>3, <1>12, StageAdds, FatalEnds DEF VerifyOpenClocks, Stage, XInv, Next
<1>13. CASE VerifyRegistryBindings
  BY <1>3, <1>13, StageAdds, FatalEnds DEF VerifyRegistryBindings, Stage, XInv, Next
<1>14. CASE VerifyHead
  BY <1>3, <1>14, StageAdds, FatalEnds DEF VerifyHead, HeadFound, Stage, XInv, Next
<1>15. CASE VerifyInclusionProofs
  BY <1>3, <1>15, StageAdds, FatalEnds DEF VerifyInclusionProofs, InclusionsFound, Stage, XInv, Next
<1>16. CASE VerifyConsistencyProofs
  BY <1>3, <1>16, StageAdds, FatalEnds
     DEF VerifyConsistencyProofs, ConsistenciesFound, Stage, XInv, Next
<1>17. CASE SweepMembers
  BY <1>3, <1>17, StageAdds, FatalEnds DEF SweepMembers, Stage, XInv, Next
<1>18. CASE ReturnReport
  <2>1. failures' = failures \cup {}
    BY <1>18 DEF ReturnReport
  <2> QED
    BY <1>3, <1>18, <2>1, StageAdds DEF ReturnReport, XInv, Next
<1> QED
  BY <1>1, <1>3, <1>4, <1>5, <1>6, <1>7, <1>8, <1>9, <1>10, <1>11, <1>12, <1>13, <1>14, <1>15,
     <1>16, <1>17, <1>18, SkipAdds, CountAdds DEF Next

LEMMA FindingInit == ASSUME Init PROVE FInv
  BY DEF Init, FInv, Spotless, Running, PastEvents,
         PastAttachments, PastErasures, PastArtifacts, PastCertificates, PastSupersession,
         PastClocks, PastRegistries, PastCheckpoints, PastInclusions, PastConsistencies, PastSweep

\* The layer above changes nothing of the call.
LEMMA FindingInvariance == LayeredSpec => []FInv
<1>1. LayeredInit => FInv
  BY FindingInit DEF LayeredInit
<1>2. ASSUME LInv, FInv, [LayeredNext]_layeredVars PROVE FInv'
  <2>1. [Next]_vars
    BY <1>2 DEF LayeredNext, layeredVars, Consult
  <2> QED
    BY <1>2, <2>1, FindingStep DEF LInv
<1> QED
  BY <1>1, <1>2, LayeredInvariance, PTL DEF LayeredSpec

-----------------------------------------------------------------------------
(* What a verified event-set call means for the archive.                      *)

\* Every event of a ledger that verifies decodes.
LEMMA EveryEventDecodes ==
    ASSUME Given, zip # None, zip.events \in Seq(EventRecord),
           Judgement(EventSetInput(zip, types)) = "verified"
    PROVE  /\ Decodable(zip) = 1..Len(zip.events) /\ DecodableEvents(zip) = zip.events
           /\ \A i \in 1..Len(zip.events) :
                  SignatureVerifies(EventSetInput(zip, types), zip.events[i])
<1> DEFINE in == EventSetInput(zip, types)
<1>1. in.ledger = zip.events /\ DOMAIN zip.events = 1..Len(zip.events)
  BY DEF EventSetInput
<1> HIDE DEF in
<1>2. Clean(in) /\ \A i \in Indices(in) : ~Unreadable(in, in.ledger[i])
  BY DEF Judgement, in
<1>3. \A i \in Indices(in) : SignatureVerifies(in, in.ledger[i])
  BY <1>2 DEF Clean, EventsAuthentic, EventAuthentic
<1>4. \A i \in 1..Len(zip.events) : SignatureVerifies(in, zip.events[i])
  BY <1>1, <1>3 DEF Indices
<1>5. \A i \in DOMAIN zip.events : Decodes(zip.events[i])
  BY <1>1, <1>2, <1>3 DEF Indices, Unreadable
<1>6. DecodableEvents(zip) = zip.events
  BY <1>5, AllDecodable
<1>7. Decodable(zip) = 1..Len(zip.events)
  BY <1>1, <1>5 DEF Decodable
<1> QED
  BY <1>4, <1>6, <1>7 DEF in

\* The leaves are the hashes of all events, and a prefix of them is a tree.
LEMMA LeavesOfTheLedger ==
    ASSUME zip.events \in Seq(EventRecord), DecodableEvents(zip) = zip.events
    PROVE  \E S :
              /\ Leaves(zip) \in Seq(S) /\ Len(Leaves(zip)) = Len(zip.events)
              /\ \A size \in 1..Len(Leaves(zip)) :
                    /\ Prefix(zip, size) \in Seq(S) /\ Len(Prefix(zip, size)) = size
                    /\ Prefix(zip, size) # <<>>
                    /\ \A k \in 1..size : /\ Prefix(zip, size)[k] = Leaves(zip)[k]
                                          /\ \E x : Prefix(zip, size)[k] = MerkleLeafHash(x)
<1> DEFINE n == Len(zip.events)
           leaf(k) == MerkleLeafHash(zip.events[k].hash)
           S == {leaf(k) : k \in 1..n}
           all == [k \in 1..n |-> leaf(k)]
<1>1. n \in Nat /\ DOMAIN zip.events = 1..n
  OBVIOUS
<1>2. Leaves(zip) = all
  BY <1>1 DEF Leaves
<1>3. \A k \in 1..n : \E x : all[k] = MerkleLeafHash(x)
  BY <1>1
<1>4. \A k \in 1..n : leaf(k) \in S
  OBVIOUS
<1> HIDE DEF n, leaf, S
<1>5. all \in Seq(S) /\ Len(all) = n /\ DOMAIN all = 1..n
  BY <1>1, <1>4
<1> HIDE DEF all
<1>6. ASSUME NEW size \in 1..n
      PROVE  /\ SubSeq(all, 1, size) \in Seq(S) /\ Len(SubSeq(all, 1, size)) = size
             /\ SubSeq(all, 1, size) # <<>>
             /\ \A k \in 1..size : /\ SubSeq(all, 1, size)[k] = all[k]
                                   /\ \E x : SubSeq(all, 1, size)[k] = MerkleLeafHash(x)
  <2>1. size \in Nat /\ size >= 1 /\ size <= n
    BY <1>1
  <2>2. /\ SubSeq(all, 1, size) \in Seq(S) /\ Len(SubSeq(all, 1, size)) = size
        /\ \A k \in 1..size : SubSeq(all, 1, size)[k] = all[k]
    BY <1>1, <1>5, <2>1
  <2>3. SubSeq(all, 1, size) # <<>>
    <3>1. Len(<<>>) = 0 /\ size # 0
      BY <2>1
    <3> QED
      BY ONLY <2>2, <3>1, Zenon
  <2>4. \A k \in 1..size : k \in 1..n
    BY <1>1, <2>1
  <2> QED
    BY <1>3, <2>2, <2>3, <2>4
<1> QED
  BY <1>2, <1>5, <1>6 DEF Prefix, n

-----------------------------------------------------------------------------
\* What a verified call has found out: nothing against the archive, at any stage.
LEMMA VerifiedFound ==
    ASSUME LInv, FInv, Verified
    PROVE  /\ zip # None /\ Readable(zip) /\ zip.events \in Seq(EventRecord)
           /\ Judgement(EventSetInput(zip, types)) = "verified"
           /\ Spotless /\ cursor = Len(zip.checkpoints) + 1
           /\ Len(zip.checkpoints) \in Nat
           /\ Len(zip.checkpoints) \in 1..Len(zip.checkpoints)
           /\ zip.checkpoints # <<>> /\ LinkedTo(Len(zip.checkpoints))
           /\ HeadCheckpoint(zip).root = headRoot /\ headRoot # None
           /\ HeadCheckpoint(zip).digest = zip.manifest.head
<1> USE DEF PastEvents, PastAttachments, PastErasures, PastArtifacts,
        PastCertificates, PastSupersession, PastClocks, PastRegistries, PastCheckpoints,
        PastInclusions, PastConsistencies, PastSweep
<1>1. XInv /\ stage = "done" /\ report.integrity
  BY DEF LInv, Verified
<1>2. failures = {} /\ Reading
  BY <1>1, IntegrityMeansWhole DEF XInv
<1>3. zip # None /\ Readable(zip)
  BY <1>1, <1>2, ReadableAtTheEnd
<1>4. Spotless /\ Running
  BY <1>2 DEF FInv
<1>5. zip.events \in Seq(EventRecord) /\ zip.checkpoints \in Seq(ToSet(zip.checkpoints))
  BY <1>1, <1>3, GivenTypes DEF XInv, Readable, Optional
<1>6. Judgement(EventSetInput(zip, types)) = "verified"
  BY <1>1, <1>4 DEF Spotless, EventSetFailures, KindIf
<1>7. CheckpointsChained
  BY CheckpointsChainedAtTheEnd
<1>8. /\ zip.checkpoints # <<>> /\ LinkedTo(Len(zip.checkpoints))
      /\ HeadCheckpoint(zip).digest = zip.manifest.head
  BY <1>7 DEF CheckpointsChained
<1>9. Len(zip.checkpoints) \in Nat /\ cursor = Len(zip.checkpoints) + 1
  BY <1>1, <1>2, <1>5 DEF XInv, Looped
<1>10. Len(zip.checkpoints) \in 1..Len(zip.checkpoints)
  <2>1. Len(zip.checkpoints) # 0
    BY <1>5, <1>8
  <2> QED
    BY <1>9, <2>1
<1>11. Counts(zip, Len(zip.checkpoints)) /\ CheckpointReadable(zip, Len(zip.checkpoints))
  BY <1>3, <1>5, <1>8, <1>10 DEF LinkedTo, Readable
<1>12. headRoot = HeadCheckpoint(zip).root /\ headRoot # None
  <2>1. cursor - 1 = Len(zip.checkpoints) /\ cursor > 1
    BY <1>9, <1>10
  <2> QED
    BY <1>1, <1>4, <1>11, <2>1 DEF Running, HeadCheckpoint, CheckpointReadable
<1> QED
  BY <1>3, <1>4, <1>5, <1>6, <1>8, <1>9, <1>10, <1>12

\* An event a verified export proves included is committed to by the head the manifest
\* names: inclusion proofs are checked for the whole ledger against the head's root, and
\* no proof for one tree leads to the root of another.
THEOREM ProvedAreCommitted == LayeredSpec => []ProvedEventsAreCommitted
<1>1. ASSUME LInv, FInv, Verified, NEW p \in ToSet(zip.inclusions)
      PROVE  \E k \in 1..HeadCheckpoint(zip).treeSize : Leaves(zip)[k] = p.leaf
  <2> DEFINE head == HeadCheckpoint(zip)
             n == Len(Leaves(zip))
             tree == Prefix(zip, head.treeSize)
  <2>1. /\ zip # None /\ Readable(zip) /\ zip.events \in Seq(EventRecord)
        /\ Judgement(EventSetInput(zip, types)) = "verified" /\ Spotless
        /\ Len(zip.checkpoints) \in 1..Len(zip.checkpoints)
        /\ LinkedTo(Len(zip.checkpoints)) /\ head.root = headRoot /\ headRoot # None
    BY <1>1, VerifiedFound
  <2>2. head.treeSize \in 1..n /\ head.root = MerkleRoot(tree)
    BY <2>1 DEF LinkedTo, Counts, HeadCheckpoint
  <2>3. PICK S :
           /\ Leaves(zip) \in Seq(S) /\ n = Len(zip.events)
           /\ \A size \in 1..n :
                 /\ Prefix(zip, size) \in Seq(S) /\ Len(Prefix(zip, size)) = size
                 /\ Prefix(zip, size) # <<>>
                 /\ \A k \in 1..size : /\ Prefix(zip, size)[k] = Leaves(zip)[k]
                                       /\ \E x : Prefix(zip, size)[k] = MerkleLeafHash(x)
    BY <1>1, <2>1, EveryEventDecodes, LeavesOfTheLedger DEF LInv, XInv
  <2>4. InclusionFailures(p) = {}
    BY <1>1, <2>1 DEF Spotless, InclusionsFound, Verified, PastInclusions, PastConsistencies,
                      PastSweep
  <2>5. /\ ~p.malformed /\ p.treeSize = n /\ ~(p.index >= n)
        /\ p.leaf = Leaves(zip)[p.index + 1] /\ LeadsToHead(p)
    BY <2>4, Zenon DEF InclusionFailures, KindIf
  <2>6. p.index \in Nat /\ p.path \in Seq(ToSet(p.path)) /\ n \in Nat /\ p.treeSize \in Nat
    <3>1. call \in Calls /\ zip = Exports[call].zip
      BY <1>1 DEF LInv, XInv, Given
    <3>2. zip # None /\ zip.inclusions # None
      BY <2>1, Zenon DEF Readable
    <3>3. \A q \in ToSet(zip.inclusions) : q.index \in Nat /\ q.path \in Seq(ToSet(q.path))
      BY <3>1, <3>2, ExportsAssumption, Zenon
    <3>4. p.index \in Nat /\ p.path \in Seq(ToSet(p.path))
      BY <1>1, <3>3, Zenon
    <3>5. n \in Nat
      <4>1. n = Len(zip.events) /\ zip.events \in Seq(EventRecord)
        BY <2>1, <2>3, Zenon
      <4> QED
        BY <4>1
    <3> QED
      BY <2>5, <3>4, <3>5, Zenon
  <2>7. \E y : p.leaf = MerkleLeafHash(y)
    <3>1. p.index + 1 \in 1..n
      BY <2>5, <2>6
    <3>2. n \in 1..n
      BY <2>6, <3>1
    <3> QED
      BY <2>3, <2>5, <3>1, <3>2
  <2>8. MerkleRoot(tree) \in RootFromInclusionProof(p.index, p.treeSize, p.leaf, p.path)
    BY <2>1, <2>2, <2>5 DEF LeadsToHead
  <2>9. \E k \in 1..Len(tree) : p.leaf = tree[k]
    <3>1. /\ tree \in Seq(S) /\ \A k \in 1..Len(tree) : \E x : tree[k] = MerkleLeafHash(x)
      BY <2>2, <2>3
    <3> HIDE DEF tree
    <3> QED
      BY <2>6, <2>7, <2>8, <3>1, InclusionIsSound
  <2> QED
    BY <2>2, <2>3, <2>9
<1>2. LInv /\ FInv => ProvedEventsAreCommitted
  BY <1>1 DEF ProvedEventsAreCommitted
<1> QED
  BY <1>2, LayeredInvariance, FindingInvariance, PTL

-----------------------------------------------------------------------------
(* The clauses.  Over a ledger of which every event decodes, a stage finds     *)
(* nothing exactly when the clause of its member holds.                       *)

EveryDecodes(a) ==
    /\ a.entries \in Seq(Entry) /\ a.events \in Seq(EventRecord)
    /\ Decodable(a) = 1..Len(a.events)

\* As many values as places: no two places have one value.
LEMMA CountsPlaces ==
    ASSUME NEW n \in Nat, NEW g, DOMAIN g = 1..n
    PROVE  Cardinality({g[k] : k \in 1..n}) = n <=> \A j, k \in 1..n : g[j] = g[k] => j = k
<1> DEFINE T == {g[k] : k \in 1..n}
           f == [k \in 1..n |-> g[k]]
<1>1. f \in Surjection(1..n, T)
  BY DEF Surjection
<1>2. IsFiniteSet(1..n) /\ Cardinality(1..n) = n
  BY FS_Interval
<1>3. Cardinality(T) = n <=> f \in Injection(1..n, T)
  <2> HIDE DEF f, T
  <2> QED
    BY <1>1, <1>2, FS_Surjection
<1>4. f \in Injection(1..n, T) <=> \A j, k \in 1..n : g[j] = g[k] => j = k
  BY DEF Injection, IsInjective
<1> QED
  BY <1>3, <1>4

\* The same of one field of the rows of a list.
LEMMA CountsRows ==
    ASSUME NEW rows, DOMAIN rows = 1..Len(rows), Len(rows) \in Nat
    PROVE  Cardinality({row.event : row \in ToSet(rows)}) = Len(rows) <=>
               \A j, k \in DOMAIN rows : rows[j].event = rows[k].event => j = k
<1> DEFINE n == Len(rows)
           g == [k \in 1..n |-> rows[k].event]
<1>1. {row.event : row \in ToSet(rows)} = {g[k] : k \in 1..n}
  BY DEF ToSet
<1>2. DOMAIN g = 1..n /\ n \in Nat /\ \A k \in 1..n : g[k] = rows[k].event
  OBVIOUS
<1> HIDE DEF g
<1>3. Cardinality({g[k] : k \in 1..n}) = n <=> \A j, k \in 1..n : g[j] = g[k] => j = k
  BY <1>2, CountsPlaces
<1> QED
  BY <1>1, <1>2, <1>3

\* The last and the first event of a hash.
LEMMA LastEventFound ==
    ASSUME NEW a, EveryDecodes(a), NEW hash, EventsOf(a, hash) # {}
    PROVE  \E i \in 1..Len(a.events) :
               /\ LastEventOf(a, hash) = {i} /\ i \in EventsOf(a, hash)
               /\ \A j \in EventsOf(a, hash) : j <= i
<1> DEFINE n == Len(a.events)
           T == EventsOf(a, hash)
<1>1. n \in Nat /\ T \in SUBSET (1..n)
  BY DEF EveryDecodes, EventsOf
<1>2. PICK i \in T : \A j \in T : j <= i
  <2> HIDE DEF T, n
  <2> QED
    BY <1>1, LastEntry DEF T
<1>3. LastEventOf(a, hash) = {i}
  <2>1. \A k \in T : k \in Nat
    BY <1>1
  <2>2. \A k \in T : (\A j \in T : j <= k) => k = i
    BY <1>2, <2>1
  <2> QED
    BY <1>2, <2>2 DEF LastEventOf
<1> QED
  BY <1>1, <1>2, <1>3

LEMMA FirstEventFound ==
    ASSUME NEW a, EveryDecodes(a), NEW hash, EventsOf(a, hash) # {}
    PROVE  \E i \in 1..Len(a.events) :
               /\ FirstEventOf(a, hash) = {i} /\ i \in EventsOf(a, hash)
               /\ \A j \in EventsOf(a, hash) : i <= j
<1> DEFINE n == Len(a.events)
           T == EventsOf(a, hash)
<1>1. n \in Nat /\ T \subseteq 1..n /\ T \subseteq Nat
  BY DEF EveryDecodes, EventsOf
<1>2. PICK i \in T : \A j \in T : i <= j
  <2> HIDE DEF T, n
  <2> QED
    BY <1>1, LeastElement DEF T
<1>3. FirstEventOf(a, hash) = {i}
  <2>1. \A k \in T : (\A j \in T : k <= j) => k = i
    BY <1>1, <1>2
  <2> QED
    BY <1>2, <2>1 DEF FirstEventOf
<1> QED
  BY <1>1, <1>2, <1>3

\* A member that has the digest the manifest binds is there.
LEMMA BoundIsThere ==
    ASSUME NEW a, NEW path, NEW digest \in Contents, MemberDigest(a, path) = digest
    PROVE  HasMember(a, path)
  BY NoneAssumption DEF MemberDigest, EntriesAt, HasMember, Members

-----------------------------------------------------------------------------
(* Attachments.                                                               *)

\* Entries that each name one earlier event as the binding they replace close no cycle.
LEMMA NoLineageCycle ==
    ASSUME NEW a, EveryDecodes(a), NEW rank,
           \A edge \in Lineage(a) : /\ rank[edge[1]] \in Nat /\ rank[edge[2]] \in Nat
                                    /\ rank[edge[2]] < rank[edge[1]]
    PROVE  ~LineageCycle(a)
<1> SUFFICES ASSUME NEW through \in SUBSET {edge[1] : edge \in Lineage(a)}, through # {},
                    \A b \in through : \E c \in through : <<b, c>> \in Lineage(a)
             PROVE  FALSE
  BY DEF LineageCycle
<1> DEFINE ranks == {rank[b] : b \in through}
<1>1. ranks \subseteq Nat /\ ranks # {}
  OBVIOUS
<1>2. PICK r \in ranks : \A s \in ranks : r <= s
  <2> HIDE DEF ranks
  <2> QED
    BY <1>1, LeastElement
<1>3. PICK b \in through : r = rank[b]
  OBVIOUS
<1>4. PICK c \in through : <<b, c>> \in Lineage(a)
  OBVIOUS
<1>5. /\ rank[b] \in Nat /\ rank[c] \in Nat /\ rank[c] < rank[b]
  <2>1. <<b, c>>[1] = b /\ <<b, c>>[2] = c
    OBVIOUS
  <2> QED
    BY <1>4, <2>1
<1>6. rank[b] <= rank[c]
  BY <1>2, <1>3
<1> HIDE DEF ranks
<1> QED
  BY <1>5, <1>6

\* What one entry must be.
EntryHolds(a, entry) ==
    LET replaced == entry.binding.priorBindingHash
    IN  /\ \E i \in Decodable(a) :
              /\ EventsOf(a, entry.event) = {i}
              /\ a.events[i].binding = entry.binding
              /\ a.events[i].contentHash = entry.binding.payloadContentHash
              /\ replaced # None => EventsOf(a, replaced) # {}
                                    /\ \A j \in EventsOf(a, replaced) : j < i
        /\ a.manifest.attachments.inline =>
              HasMember(a, Payload(entry.binding.payloadContentHash))

\* The same without what the topology checks.
EntryAgrees(a, entry) ==
    /\ \E i \in Decodable(a) :
          /\ EventsOf(a, entry.event) = {i}
          /\ a.events[i].binding = entry.binding
          /\ a.events[i].contentHash = entry.binding.payloadContentHash
    /\ a.manifest.attachments.inline => HasMember(a, Payload(entry.binding.payloadContentHash))

LEMMA AttachmentEntryFound ==
    ASSUME NEW a, EveryDecodes(a), NEW entry, entry.binding # None
    PROVE  AttachmentEntryFailures(a, entry) = {} <=> EntryAgrees(a, entry)
<1> DEFINE T == EventsOf(a, entry.event)
           n == Len(a.events)
<1>1. n \in Nat /\ T \subseteq Decodable(a) /\ Decodable(a) = 1..n
  BY DEF EveryDecodes, EventsOf
<1>2. IsFiniteSet(T)
  <2>1. IsFiniteSet(1..n)
    BY <1>1, FS_Interval
  <2> QED
    BY <1>1, <2>1, FS_Subset
<1>3. Cardinality(T) = 1 <=> \E i : T = {i}
  <2> HIDE DEF T
  <2> QED
    BY <1>2, FS_Singleton
<1>4. CASE Cardinality(T) # 1
  BY <1>1, <1>3, <1>4 DEF AttachmentEntryFailures, EntryAgrees
<1>5. CASE Cardinality(T) = 1
  <2>1. PICK i : T = {i}
    BY <1>3, <1>5
  <2>2. i \in Decodable(a) /\ (CHOOSE k \in T : TRUE) = i
    BY <1>1, <2>1
  <2> DEFINE e == a.events[i]
  <2>3. AttachmentEntryFailures(a, entry) = {} <=>
            /\ e.binding # None /\ entry.binding = e.binding
            /\ entry.binding.payloadContentHash = e.contentHash
            /\ e.binding.payloadContentHash = e.contentHash
            /\ ~(a.manifest.attachments.inline
                 /\ ~HasMember(a, Payload(entry.binding.payloadContentHash)))
    BY <1>5, <2>2, Zenon DEF AttachmentEntryFailures, KindIf
  <2>4. EntryAgrees(a, entry) <=>
            /\ e.binding = entry.binding /\ e.contentHash = entry.binding.payloadContentHash
            /\ a.manifest.attachments.inline =>
                  HasMember(a, Payload(entry.binding.payloadContentHash))
    BY <2>1, <2>2 DEF EntryAgrees
  <2> QED
    BY <2>3, <2>4
<1> QED
  BY <1>4, <1>5

\* A linked entry: one that replaces a binding, and whose event is in the archive.
LEMMA EntryTopology ==
    ASSUME NEW a, EveryDecodes(a), NEW entry, EntryAgrees(a, entry)
    PROVE  LET replaced == entry.binding.priorBindingHash
           IN  EntryHolds(a, entry) <=>
                   (replaced # None => EventsOf(a, replaced) # {} /\ ~ForwardReference(a, entry))
<1> DEFINE replaced == entry.binding.priorBindingHash
<1>1. PICK i \in Decodable(a) :
         /\ EventsOf(a, entry.event) = {i} /\ a.events[i].binding = entry.binding
         /\ a.events[i].contentHash = entry.binding.payloadContentHash
  BY DEF EntryAgrees
<1>2. EntryHolds(a, entry) <=>
          (replaced # None => EventsOf(a, replaced) # {} /\ \A j \in EventsOf(a, replaced) : j < i)
  BY <1>1 DEF EntryHolds, EntryAgrees
<1>3. ASSUME EventsOf(a, replaced) # {}
      PROVE  ForwardReference(a, entry) <=> ~\A j \in EventsOf(a, replaced) : j < i
  <2>1. PICK l \in 1..Len(a.events) :
           /\ LastEventOf(a, replaced) = {l} /\ l \in EventsOf(a, replaced)
           /\ \A j \in EventsOf(a, replaced) : j <= l
    BY <1>3, LastEventFound
  <2>2. LastEventOf(a, entry.event) = {i} /\ i \in 1..Len(a.events)
    <3>1. i \in 1..Len(a.events)
      BY DEF EveryDecodes
    <3> QED
      BY <1>1, <3>1 DEF LastEventOf
  <2>3. ForwardReference(a, entry) <=> l >= i
    BY <2>1, <2>2 DEF ForwardReference
  <2>4. EventsOf(a, replaced) \subseteq 1..Len(a.events)
    BY DEF EveryDecodes, EventsOf
  <2>5. \A j \in 1..Len(a.events) : j \in Nat
    BY DEF EveryDecodes
  <2> QED
    BY <2>1, <2>2, <2>3, <2>4, <2>5
<1> QED
  BY <1>2, <1>3

LEMMA AttachmentsFound ==
    ASSUME NEW a, EveryDecodes(a), None \notin AttachmentBindingDetails,
           a.manifest.attachments \in Optional([digest : Contents, inline : BOOLEAN]),
           a.attachments \in Optional(Seq(AttachmentEntry))
    PROVE  AttachmentFailures(a) = {} <=> AttachmentsHold(a)
<1> DEFINE member == ExtensionMember("061-attachments")
           entries == a.attachments
<1>1. CASE a.manifest.attachments = None
  BY <1>1 DEF AttachmentFailures, AttachmentsHold
<1>2. CASE a.manifest.attachments # None /\ a.attachments = None
  BY <1>2 DEF AttachmentFailures, AttachmentsHold
<1>3. CASE a.manifest.attachments # None /\ a.attachments # None
  <2>1. a.manifest.attachments.digest \in Contents
    BY <1>3 DEF Optional
  <2>2. entries \in Seq(AttachmentEntry)
    BY <1>3 DEF Optional
  <2>3. /\ Len(entries) \in Nat /\ DOMAIN entries = 1..Len(entries)
        /\ \A k \in DOMAIN entries : entries[k] \in AttachmentEntry
    BY <2>2
  <2>4. \A e \in ToSet(entries) : e.binding # None
    BY <2>3 DEF ToSet, AttachmentEntry
  <2>5. AttachmentFailures(a) = {} <=>
            /\ MemberDigest(a, member) = a.manifest.attachments.digest
            /\ AttachmentTopologyFailures(a) = {}
            /\ \A e \in ToSet(entries) : EntryAgrees(a, e)
    <3>1. MemberDigest(a, member) = a.manifest.attachments.digest => HasMember(a, member)
      BY <2>1, BoundIsThere
    <3>2. \A e \in ToSet(entries) : AttachmentEntryFailures(a, e) = {} <=> EntryAgrees(a, e)
      BY <2>4, AttachmentEntryFound
    <3>3. UNION {AttachmentEntryFailures(a, e) : e \in ToSet(entries)} = {} <=>
              \A e \in ToSet(entries) : EntryAgrees(a, e)
      BY <3>2
    <3> QED
      BY <1>3, <3>1, <3>3 DEF AttachmentFailures, KindIf
  <2>6. AttachmentsHold(a) <=>
            /\ MemberDigest(a, member) = a.manifest.attachments.digest
            /\ \A j, k \in DOMAIN entries : entries[j].event = entries[k].event => j = k
            /\ \A e \in ToSet(entries) : EntryHolds(a, e)
    <3>1. AttachmentsHold(a) <=>
              /\ MemberDigest(a, member) = a.manifest.attachments.digest
              /\ \A k \in DOMAIN entries :
                    /\ \A j \in DOMAIN entries : entries[j].event = entries[k].event => j = k
                    /\ EntryHolds(a, entries[k])
      BY <1>3, Zenon DEF AttachmentsHold, EntryHolds
    <3>2. (\A e \in ToSet(entries) : EntryHolds(a, e)) <=>
              \A k \in DOMAIN entries : EntryHolds(a, entries[k])
      BY DEF ToSet
    <3> HIDE DEF entries, member
    <3> QED
      BY <3>1, <3>2
  <2>7. \A e \in ToSet(entries) : EntryHolds(a, e) => EntryAgrees(a, e)
    BY DEF EntryHolds, EntryAgrees
  <2>8. ASSUME \A e \in ToSet(entries) : EntryAgrees(a, e)
        PROVE  AttachmentTopologyFailures(a) = {} <=>
                  /\ \A j, k \in DOMAIN entries : entries[j].event = entries[k].event => j = k
                  /\ \A e \in ToSet(entries) : EntryHolds(a, e)
    <3> DEFINE linked == {e \in ToSet(entries) : /\ e.binding.priorBindingHash # None
                                                 /\ EventsOf(a, e.event) # {}}
    <3>1. linked = {e \in ToSet(entries) : e.binding.priorBindingHash # None}
      BY <2>8 DEF EntryAgrees
    <3>2. (\A e \in ToSet(entries) : EntryHolds(a, e)) <=>
              /\ ~\E e \in linked : EventsOf(a, e.binding.priorBindingHash) = {}
              /\ ~\E e \in linked : ForwardReference(a, e)
      BY <2>8, <3>1, EntryTopology
    <3>3. Cardinality({e.event : e \in ToSet(entries)}) = Len(entries) <=>
              \A j, k \in DOMAIN entries : entries[j].event = entries[k].event => j = k
      BY <2>3, CountsRows
    <3>4. ASSUME \A e \in ToSet(entries) : EntryHolds(a, e) PROVE ~LineageCycle(a)
      <4> DEFINE hashes == {edge[1] : edge \in Lineage(a)} \cup {edge[2] : edge \in Lineage(a)}
                 last(h) == CHOOSE i \in 1..Len(a.events) : LastEventOf(a, h) = {i}
                 rank == [h \in hashes |-> last(h)]
      <4>1. ASSUME NEW edge \in Lineage(a)
            PROVE  /\ rank[edge[1]] \in Nat /\ rank[edge[2]] \in Nat
                   /\ rank[edge[2]] < rank[edge[1]]
        <5>1. PICK e \in ToSet(entries) :
                 /\ edge = <<e.event, e.binding.priorBindingHash>>
                 /\ e.binding.priorBindingHash # None
                 /\ EventsOf(a, e.event) # {} /\ EventsOf(a, e.binding.priorBindingHash) # {}
          BY DEF Lineage
        <5>2. edge[1] = e.event /\ edge[2] = e.binding.priorBindingHash
          BY <5>1
        <5>3. PICK i \in 1..Len(a.events) :
                 /\ LastEventOf(a, edge[1]) = {i} /\ i \in EventsOf(a, edge[1])
          BY <5>1, <5>2, LastEventFound
        <5>4. PICK l \in 1..Len(a.events) :
                 /\ LastEventOf(a, edge[2]) = {l} /\ l \in EventsOf(a, edge[2])
          BY <5>1, <5>2, LastEventFound
        <5>5. l < i
          BY <3>4, <5>1, <5>2, <5>3, <5>4 DEF EntryHolds
        <5>6. last(edge[1]) = i /\ last(edge[2]) = l
          BY <5>3, <5>4
        <5>7. edge[1] \in hashes /\ edge[2] \in hashes
          OBVIOUS
        <5> HIDE DEF hashes, last
        <5>8. rank[edge[1]] = i /\ rank[edge[2]] = l
          BY <5>6, <5>7
        <5>9. i \in Nat /\ l \in Nat
          BY DEF EveryDecodes
        <5> QED
          BY <5>5, <5>8, <5>9
      <4> HIDE DEF rank
      <4> QED
        BY <4>1, NoLineageCycle
    <3>5. AttachmentTopologyFailures(a) = {} <=>
              /\ Cardinality({e.event : e \in ToSet(entries)}) = Len(entries)
              /\ ~LineageCycle(a)
              /\ ~\E e \in linked : EventsOf(a, e.binding.priorBindingHash) = {}
              /\ ~\E e \in linked : ForwardReference(a, e)
      BY DEF AttachmentTopologyFailures, KindIf
    <3> HIDE DEF linked, entries
    <3> QED
      BY <3>2, <3>3, <3>4, <3>5
  <2> HIDE DEF entries, member
  <2> QED
    BY <2>5, <2>6, <2>7, <2>8
<1> QED
  BY <1>1, <1>2, <1>3

-----------------------------------------------------------------------------
(* The catalogs.                                                              *)

RowsHold(a, catalog, rows, type) ==
    catalog # None =>
        /\ MemberDigest(a, catalog.path) = catalog.digest
        /\ rows # None /\ Len(rows) = catalog.count
        /\ DistinctEvents(a)
        /\ \A k \in DOMAIN rows :
              /\ \A j \in DOMAIN rows : rows[j].event = rows[k].event => j = k
              /\ \E i \in Decodable(a) :
                    /\ a.events[i].hash = rows[k].event
                    /\ a.events[i].eventType = type /\ RowAgrees(type, rows[k], a.events[i])

\* No event comes twice exactly when each is the first of its hash.
LEMMA FirstOfEach ==
    ASSUME NEW a, EveryDecodes(a)
    PROVE  DistinctEvents(a) <=>
               ~\E i \in Decodable(a) : i \notin FirstEventOf(a, a.events[i].hash)
<1>1. Decodable(a) \subseteq Nat
  BY DEF EveryDecodes
<1>2. ASSUME DistinctEvents(a), NEW i \in Decodable(a)
      PROVE  i \in FirstEventOf(a, a.events[i].hash)
  <2>1. EventsOf(a, a.events[i].hash) = {i}
    BY <1>2 DEF DistinctEvents, EventsOf
  <2>2. i <= i
    BY <1>1
  <2> QED
    BY <2>1, <2>2 DEF FirstEventOf
<1>3. ASSUME \A i \in Decodable(a) : i \in FirstEventOf(a, a.events[i].hash),
             NEW i \in Decodable(a), NEW j \in Decodable(a), a.events[i].hash = a.events[j].hash
      PROVE  i = j
  <2>1. i \in EventsOf(a, a.events[j].hash) /\ j \in EventsOf(a, a.events[i].hash)
    BY <1>3 DEF EventsOf
  <2>2. i <= j /\ j <= i
    BY <1>3, <2>1 DEF FirstEventOf
  <2> QED
    BY <1>1, <2>2
<1> QED
  BY <1>2, <1>3 DEF DistinctEvents

LEMMA RowFound ==
    ASSUME NEW a, EveryDecodes(a), DistinctEvents(a), NEW row, NEW type
    PROVE  CatalogRowFailures(a, row, type) = {} <=>
               \E i \in Decodable(a) :
                   /\ a.events[i].hash = row.event
                   /\ a.events[i].eventType = type /\ RowAgrees(type, row, a.events[i])
<1> DEFINE T == EventsOf(a, row.event)
<1>1. T = {i \in Decodable(a) : a.events[i].hash = row.event}
  BY DEF EventsOf
<1>2. CASE T = {}
  BY <1>1, <1>2 DEF CatalogRowFailures
<1>3. CASE T # {}
  <2>1. PICK i \in T : FirstEventOf(a, row.event) = {i}
    BY <1>3, FirstEventFound
  <2>2. i \in Decodable(a) /\ a.events[i].hash = row.event
    BY <1>1
  <2>3. \A j \in Decodable(a) : a.events[j].hash = row.event => j = i
    BY <2>2 DEF DistinctEvents
  <2>4. (CHOOSE j \in FirstEventOf(a, row.event) : TRUE) = i
    BY <2>1
  <2>5. CatalogRowFailures(a, row, type) = {} <=>
            a.events[i].eventType = type /\ RowAgrees(type, row, a.events[i])
    BY <1>3, <2>4, Zenon DEF CatalogRowFailures, KindIf
  <2> QED
    BY <2>2, <2>3, <2>5
<1> QED
  BY <1>2, <1>3

LEMMA CatalogFound ==
    ASSUME NEW a, EveryDecodes(a), NEW catalog \in Optional(Catalog), NEW R,
           NEW rows \in Optional(Seq(R)), NEW type
    PROVE  CatalogFailures(a, catalog, rows, type) = {} <=> RowsHold(a, catalog, rows, type)
<1>1. CASE catalog = None
  BY <1>1 DEF CatalogFailures, RowsHold
<1>2. CASE catalog # None /\ rows = None
  BY <1>2 DEF CatalogFailures, RowsHold
<1>3. CASE catalog # None /\ rows # None
  <2>1. catalog.digest \in Contents
    BY <1>3 DEF Optional, Catalog
  <2>2. rows \in Seq(R)
    BY <1>3 DEF Optional
  <2>3. Len(rows) \in Nat /\ DOMAIN rows = 1..Len(rows)
    BY <2>2
  <2>4. MemberDigest(a, catalog.path) = catalog.digest => HasMember(a, catalog.path)
    BY <2>1, BoundIsThere
  <2>5. UNION {CatalogRowFailures(a, row, type) : row \in ToSet(rows)} = {} <=>
            \A k \in DOMAIN rows : CatalogRowFailures(a, rows[k], type) = {}
    BY DEF ToSet
  <2>6. Cardinality({row.event : row \in ToSet(rows)}) = Len(rows) <=>
            \A j, k \in DOMAIN rows : rows[j].event = rows[k].event => j = k
    BY <2>3, CountsRows
  <2>7. CatalogFailures(a, catalog, rows, type) = {} <=>
            /\ HasMember(a, catalog.path) /\ MemberDigest(a, catalog.path) = catalog.digest
            /\ Len(rows) = catalog.count
            /\ ~\E i \in Decodable(a) : i \notin FirstEventOf(a, a.events[i].hash)
            /\ Cardinality({row.event : row \in ToSet(rows)}) = Len(rows)
            /\ UNION {CatalogRowFailures(a, row, type) : row \in ToSet(rows)} = {}
    BY <1>3 DEF CatalogFailures, KindIf
  <2>8. CatalogFailures(a, catalog, rows, type) = {} <=>
            /\ MemberDigest(a, catalog.path) = catalog.digest
            /\ Len(rows) = catalog.count /\ DistinctEvents(a)
            /\ \A j, k \in DOMAIN rows : rows[j].event = rows[k].event => j = k
            /\ \A k \in DOMAIN rows : CatalogRowFailures(a, rows[k], type) = {}
    BY ONLY <2>4, <2>5, <2>6, <2>7, FirstOfEach, EveryDecodes(a), Zenon
  <2>9. DistinctEvents(a) => \A k \in DOMAIN rows :
            CatalogRowFailures(a, rows[k], type) = {} <=>
                \E i \in Decodable(a) :
                    /\ a.events[i].hash = rows[k].event
                    /\ a.events[i].eventType = type /\ RowAgrees(type, rows[k], a.events[i])
    BY RowFound
  <2> QED
    BY <1>3, <2>8, <2>9, Zenon DEF RowsHold
<1> QED
  BY <1>1, <1>2, <1>3

LEMMA CatalogsFound ==
    ASSUME NEW a, EveryDecodes(a),
           a.manifest.erasures \in Optional(Catalog),
           a.manifest.certificates \in Optional(Catalog),
           a.erasures \in Optional(Seq(ErasureRow)),
           a.certificates \in Optional(Seq(CertificateRow))
    PROVE  /\ ErasureCatalogFailures(a) = {} <=>
                  CatalogHolds(a, a.manifest.erasures, a.erasures, DescribesErasure)
           /\ CertificateCatalogFailures(a) = {} <=>
                  CatalogHolds(a, a.manifest.certificates, a.certificates, DescribesCertificate)
<1>1. \A row, e : e.eventType = "trellis.erasure-evidence.v1"
                      /\ RowAgrees("trellis.erasure-evidence.v1", row, e)
                  <=> DescribesErasure(row, e)
  BY DEF RowAgrees, DescribesErasure
<1>2. \A row, e : e.eventType = "trellis.certificate-of-completion.v1"
                      /\ RowAgrees("trellis.certificate-of-completion.v1", row, e)
                  <=> DescribesCertificate(row, e)
  BY DEF RowAgrees, DescribesCertificate
<1>3. RowsHold(a, a.manifest.erasures, a.erasures, "trellis.erasure-evidence.v1") <=>
          CatalogHolds(a, a.manifest.erasures, a.erasures, DescribesErasure)
  BY <1>1, Zenon DEF RowsHold, CatalogHolds
<1>4. RowsHold(a, a.manifest.certificates, a.certificates,
               "trellis.certificate-of-completion.v1") <=>
          CatalogHolds(a, a.manifest.certificates, a.certificates, DescribesCertificate)
  BY <1>2, Zenon DEF RowsHold, CatalogHolds
<1> QED
  BY <1>3, <1>4, CatalogFound DEF ErasureCatalogFailures, CertificateCatalogFailures

-----------------------------------------------------------------------------
(* Presentation artifacts.                                                    *)

LEMMA LastBindingFound ==
    ASSUME NEW a, EveryDecodes(a), NEW id, BindingsOf(a, id) # {}
    PROVE  \E i \in BindingsOf(a, id) : /\ LastBindingOf(a, id) = {i}
                                        /\ \A j \in BindingsOf(a, id) : j <= i
<1> DEFINE n == Len(a.events)
           T == BindingsOf(a, id)
<1>1. n \in Nat /\ T \in SUBSET (1..n)
  BY DEF EveryDecodes, BindingsOf
<1>2. PICK i \in T : \A j \in T : j <= i
  <2> HIDE DEF T, n
  <2> QED
    BY <1>1, LastEntry DEF T
<1>3. LastBindingOf(a, id) = {i}
  <2>1. \A k \in T : k \in Nat
    BY <1>1
  <2>2. \A k \in T : (\A j \in T : j <= k) => k = i
    BY <1>2, <2>1
  <2> QED
    BY <1>2, <2>2 DEF LastBindingOf
<1> QED
  BY <1>2, <1>3

Presented(a, c, j) ==
    /\ j \in BindingsOf(a, c.attachmentId)
    /\ \A m \in Decodable(a) : m > j => m \notin BindingsOf(a, c.attachmentId)
    /\ MemberDigest(a, Payload(a.events[j].binding.payloadContentHash)) = c.contentHash

LEMMA ArtifactFound ==
    ASSUME NEW a, EveryDecodes(a), NEW c, c.contentHash \in Contents
    PROVE  ArtifactFailures(a, c) = {} <=> \E j \in Decodable(a) : Presented(a, c, j)
<1> DEFINE T == BindingsOf(a, c.attachmentId)
           bytes(i) == MemberDigest(a, Payload(a.events[i].binding.payloadContentHash))
           found == {bytes(i) : i \in LastBindingOf(a, c.attachmentId)}
<1>1. T \subseteq Decodable(a) /\ Decodable(a) \subseteq Nat
  BY DEF EveryDecodes, BindingsOf
<1>2. ArtifactFailures(a, c) = {} <=> ~(found \subseteq {None}) /\ found = {c.contentHash}
  BY DEF ArtifactFailures, KindIf
<1>3. c.contentHash # None
  BY NoneAssumption
<1>4. CASE T = {}
  <2>1. found = {}
    BY <1>4 DEF LastBindingOf
  <2> QED
    BY <1>2, <1>4, <2>1 DEF Presented
<1>5. CASE T # {}
  <2>1. PICK i \in T : LastBindingOf(a, c.attachmentId) = {i} /\ \A j \in T : j <= i
    BY <1>5, LastBindingFound
  <2>2. found = {bytes(i)}
    BY <2>1
  <2>3. ArtifactFailures(a, c) = {} <=> bytes(i) = c.contentHash
    <3> HIDE DEF found, bytes
    <3> QED
      BY <1>2, <1>3, <2>2
  <2>4. \A m \in Decodable(a) : m > i => m \notin T
    BY <1>1, <2>1
  <2>5. \A j \in T : (\A m \in Decodable(a) : m > j => m \notin T) => j = i
    BY <1>1, <2>1
  <2> HIDE DEF T
  <2>6. ASSUME NEW j \in Decodable(a), Presented(a, c, j) PROVE j = i /\ bytes(i) = c.contentHash
    BY <2>5, <2>6 DEF Presented, T
  <2>7. bytes(i) = c.contentHash => Presented(a, c, i)
    BY <2>4 DEF Presented, T
  <2>8. i \in Decodable(a)
    BY <1>1
  <2> HIDE DEF bytes
  <2> QED
    BY <2>3, <2>6, <2>7, <2>8
<1> QED
  BY <1>4, <1>5

LEMMA ArtifactsMatch ==
    ASSUME NEW a, EveryDecodes(a)
    PROVE  CertificateArtifactFailures(a) = {} <=> ArtifactsHold(a)
<1> DEFINE T == {j \in Decodable(a) : /\ a.events[j].certificate # None
                                      /\ SignatureVerifies(EventSetInput(a, {}), a.events[j])}
<1>1. \A i \in Decodable(a) :
          SignatureVerifies(EventSetInput(a, {}), a.events[i])
              <=> a.events[i].signer = a.registry[a.events[i].kid].key
  BY DEF SignatureVerifies, KeyOf, EventSetInput
<1>2. ASSUME NEW i \in T PROVE a.events[i].certificate.contentHash \in Contents
  <2>1. a.events[i] \in EventRecord
    BY DEF EveryDecodes
  <2>2. a.events[i].certificate \in Optional(CertificateDetails)
    BY <2>1 DEF EventRecord
  <2> QED
    BY <2>2 DEF Optional, CertificateDetails
<1>3. CertificateArtifactFailures(a) = {} <=>
          \A i \in T : ArtifactFailures(a, a.events[i].certificate) = {}
  BY DEF CertificateArtifactFailures
<1>4. CertificateArtifactFailures(a) = {} <=>
          \A i \in T : \E j \in Decodable(a) : Presented(a, a.events[i].certificate, j)
  BY <1>2, <1>3, ArtifactFound
<1>5. ArtifactsHold(a) <=>
          \A i \in T : \E j \in Decodable(a) : Presented(a, a.events[i].certificate, j)
  <2>1. \A i \in Decodable(a) :
            i \in T <=> /\ a.events[i].certificate # None
                        /\ a.events[i].signer = a.registry[a.events[i].kid].key
    BY <1>1
  <2>2. \A c, j : j \in BindingsOf(a, c.attachmentId) <=>
            j \in Decodable(a) /\ a.events[j].binding # None /\ a.events[j].binding.id = c.attachmentId
    BY DEF BindingsOf
  <2>3. \A c : (\E j \in Decodable(a) : Presented(a, c, j)) <=>
            \E j \in Decodable(a) :
                /\ a.events[j].binding # None /\ a.events[j].binding.id = c.attachmentId
                /\ \A m \in Decodable(a) : m > j =>
                      ~(a.events[m].binding # None /\ a.events[m].binding.id = c.attachmentId)
                /\ MemberDigest(a, Payload(a.events[j].binding.payloadContentHash)) = c.contentHash
    BY <2>2 DEF Presented
  <2>4. ArtifactsHold(a) <=>
            \A i \in Decodable(a) :
                a.events[i].certificate # None
                /\ a.events[i].signer = a.registry[a.events[i].kid].key =>
                    \E j \in Decodable(a) : Presented(a, a.events[i].certificate, j)
    BY ONLY <2>3, Zenon DEF ArtifactsHold
  <2>5. T \subseteq Decodable(a)
    OBVIOUS
  <2> HIDE DEF T
  <2> QED
    BY <2>1, <2>4, <2>5
<1> QED
  BY <1>4, <1>5

-----------------------------------------------------------------------------
(* Bound registries, open clocks.                                             *)

LEMMA RegistriesMatch ==
    ASSUME NEW a
    PROVE  RegistryFailures(a) = {} <=> RegistriesHold(a)
<1> DEFINE b == a.manifest.bindings
<1>1. \A s, k : k \in BindingInForce(a, s) <=>
          /\ k \in DOMAIN b /\ b[k].boundAt <= s
          /\ \A j \in DOMAIN b : b[j].boundAt <= s =>
                b[j].boundAt < b[k].boundAt \/ (b[j].boundAt = b[k].boundAt /\ j <= k)
  BY DEF BindingInForce
<1>2. RegistryFailures(a) = {} <=>
          \A i \in Decodable(a) : \E k \in BindingInForce(a, a.events[i].sequence) :
              Admits(a.registries[b[k].digest], a.events[i])
  BY DEF RegistryFailures, KindIf
<1>3. RegistriesHold(a) <=>
          \A i \in Decodable(a) : \E k \in DOMAIN b :
              /\ b[k].boundAt <= a.events[i].sequence
              /\ \A j \in DOMAIN b : b[j].boundAt <= a.events[i].sequence =>
                    b[j].boundAt < b[k].boundAt \/ (b[j].boundAt = b[k].boundAt /\ j <= k)
              /\ Admits(a.registries[b[k].digest], a.events[i])
  BY Zenon DEF RegistriesHold
<1> HIDE DEF b
<1> QED
  BY ONLY <1>1, <1>2, <1>3

LEMMA ClocksMatch ==
    ASSUME NEW a
    PROVE  OpenClockFailures(a) = {} <=> ClocksHold(a)
  BY Zenon DEF OpenClockFailures, ClocksHold, KindIf

-----------------------------------------------------------------------------
(* Checkpoints and proofs.                                                    *)

\* The root of a prefix is its tree hash.
LEMMA PrefixRoots ==
    ASSUME zip.events \in Seq(EventRecord), DecodableEvents(zip) = zip.events,
           NEW size \in 1..Len(Leaves(zip))
    PROVE  MerkleRoot(Prefix(zip, size)) = TreeHash(Prefix(zip, size))
<1>1. PICK S : \A n \in 1..Len(Leaves(zip)) : Prefix(zip, n) \in Seq(S) /\ Prefix(zip, n) # <<>>
  BY LeavesOfTheLedger
<1> DEFINE tree == Prefix(zip, size)
<1>2. tree \in Seq(S) /\ tree # <<>>
  BY <1>1
<1> HIDE DEF tree
<1>3. MerkleRoot(tree) = TreeHash(tree)
  BY <1>2, RootIsTreeHash
<1> QED
  BY <1>3 DEF tree

LEMMA LinkedIsHeld ==
    ASSUME zip.events \in Seq(EventRecord), DecodableEvents(zip) = zip.events,
           zip.checkpoints \in Seq(ToSet(zip.checkpoints)), zip.checkpoints # <<>>
    PROVE  CheckpointsHold(zip) <=>
               LinkedTo(Len(zip.checkpoints)) /\ HeadCheckpoint(zip).digest = zip.manifest.head
<1>1. DOMAIN zip.checkpoints = 1..Len(zip.checkpoints)
  OBVIOUS
<1>2. \A k : Counts(zip, k) =>
          MerkleRoot(Prefix(zip, zip.checkpoints[k].treeSize))
              = TreeHash(Prefix(zip, zip.checkpoints[k].treeSize))
  BY PrefixRoots DEF Counts
<1> QED
  BY <1>1, <1>2 DEF CheckpointsHold, LinkedTo

LEMMA CheckpointsMatch ==
    ASSUME XInv, FInv, Reading, stage = "done",
           zip.events \in Seq(EventRecord), DecodableEvents(zip) = zip.events
    PROVE  /\ LinkedTo(cursor - 1) /\ HeadFound = {} <=> CheckpointsHold(zip)
           /\ CheckpointsHold(zip) =>
                 headRoot = HeadCheckpoint(zip).root /\ headRoot # None
<1> USE DEF PastCheckpoints, PastInclusions, PastConsistencies, PastSweep
<1> DEFINE n == Len(zip.checkpoints)
<1>1. zip # None /\ Readable(zip)
  BY ReadableAtTheEnd
<1>2. zip.checkpoints \in Seq(ToSet(zip.checkpoints))
  BY <1>1, GivenTypes DEF XInv, Readable
<1>3. n \in Nat /\ cursor = n + 1 /\ cursor - 1 = n /\ DOMAIN zip.checkpoints = 1..n
  BY <1>2 DEF XInv, Looped
<1>4. zip.manifest.head # None
  BY <1>1, GivenTypes, NoneAssumption DEF XInv
<1>5. HeadFound = {} <=> prior = zip.manifest.head
  BY DEF HeadFound, KindIf
<1>6. CASE zip.checkpoints = <<>>
  <2>1. n = 0
    BY <1>6
  <2>2. prior = None
    BY <1>3, <2>1 DEF XInv, Looped, PastRegistries
  <2>3. ~CheckpointsHold(zip)
    BY <1>6 DEF CheckpointsHold
  <2> QED
    BY <1>4, <1>5, <2>2, <2>3
<1>7. CASE zip.checkpoints # <<>>
  <2>1. n \in 1..n /\ cursor > 1
    <3>1. n # 0
      BY <1>2, <1>7
    <3> QED
      BY <1>3, <3>1
  <2>2. ASSUME LinkedTo(n)
        PROVE  /\ prior = HeadCheckpoint(zip).digest /\ headRoot = HeadCheckpoint(zip).root
               /\ headRoot # None
    <3>1. Counts(zip, n) /\ CheckpointReadable(zip, n)
      BY <1>1, <1>3, <2>1, <2>2 DEF LinkedTo, Readable
    <3>2. prior = zip.checkpoints[n].digest /\ headRoot = zip.checkpoints[n].root
      <4>1. Counts(zip, cursor - 1)
        BY <1>3, <3>1
      <4>2. prior = zip.checkpoints[cursor - 1].digest /\ headRoot = zip.checkpoints[cursor - 1].root
        BY <2>1, <4>1 DEF FInv, Running, PastRegistries
      <4> QED
        BY <1>3, <4>2
    <3> QED
      BY <3>1, <3>2 DEF CheckpointReadable, HeadCheckpoint
  <2>3. CheckpointsHold(zip) <=> LinkedTo(n) /\ HeadCheckpoint(zip).digest = zip.manifest.head
    BY <1>2, <1>7, LinkedIsHeld
  <2>4. LinkedTo(cursor - 1) <=> LinkedTo(n)
    BY <1>3
  <2> HIDE DEF n
  <2> QED
    BY <1>5, <2>2, <2>3, <2>4
<1> QED
  BY <1>6, <1>7

\* What is rebuilt from a proof is one root or none.
LEMMA OneRoot ==
    ASSUME NEW size1, NEW size2, NEW root1, NEW proof
    PROVE  \E x : RootFromConsistencyProof(size1, size2, root1, proof) \subseteq {x}
<1>1. CASE size1 = size2
  BY <1>1 DEF RootFromConsistencyProof
<1>2. CASE size1 # size2
  <2>1. \E y : RebuiltRoots(size1, size2, root1, proof) \subseteq {y}
    BY Zenon DEF RebuiltRoots
  <2>2. PICK y : RebuiltRoots(size1, size2, root1, proof) \subseteq {y}
    BY <2>1
  <2>3. RootFromConsistencyProof(size1, size2, root1, proof) \subseteq {y.new}
    BY <1>2, <2>2 DEF RootFromConsistencyProof
  <2> QED
    BY <2>3
<1> QED
  BY <1>1, <1>2

LEMMA ConsistencyMatches ==
    ASSUME zip.events \in Seq(EventRecord), DecodableEvents(zip) = zip.events,
           NEW p, p.from \in Nat, p.to \in Nat, p.path \in Seq(ToSet(p.path))
    PROVE  ConsistencyFailures(p) = {} <=>
               /\ ~p.malformed /\ 0 < p.from /\ p.from < p.to /\ p.to <= Len(Leaves(zip))
               /\ p.path = ConsistencyPath(Prefix(zip, p.to), p.from)
<1> DEFINE n == Len(Leaves(zip))
           sizes == ~p.malformed /\ 0 < p.from /\ p.from < p.to /\ p.to <= n
           roots == RootFromConsistencyProof(p.from, p.to, MerkleRoot(Prefix(zip, p.from)), p.path)
           tree == Prefix(zip, p.to)
<1>1. PICK S :
         /\ Leaves(zip) \in Seq(S)
         /\ \A size \in 1..n : /\ Prefix(zip, size) \in Seq(S) /\ Len(Prefix(zip, size)) = size
                               /\ \A k \in 1..size : Prefix(zip, size)[k] = Leaves(zip)[k]
  BY LeavesOfTheLedger
<1>2. n \in Nat
  BY <1>1
<1> HIDE DEF n
<1>3. sizes <=> ~(p.malformed \/ p.from = 0 \/ p.from >= p.to \/ p.to > n)
  BY <1>2
<1>4. ConsistencyFailures(p) = {} <=> sizes /\ roots # {} /\ roots = {MerkleRoot(tree)}
  <2> HIDE DEF sizes
  <2> QED
    BY <1>3, Zenon DEF ConsistencyFailures, KindIf, n
<1>5. roots = {MerkleRoot(tree)} <=> MerkleRoot(tree) \in roots
  <2>1. \E x : roots \subseteq {x}
    BY OneRoot
  <2> HIDE DEF roots
  <2> QED
    BY <2>1
<1>6. ASSUME sizes
      PROVE  MerkleRoot(tree) \in roots <=> p.path = ConsistencyPath(tree, p.from)
  <2>1. p.to \in 1..n /\ p.from \in 1..n /\ p.from \in 1..p.to
    BY <1>2, <1>6
  <2>2. tree \in Seq(S) /\ Len(tree) = p.to /\ \A k \in 1..p.to : tree[k] = Leaves(zip)[k]
    BY <1>1, <2>1
  <2> DEFINE older == Prefix(zip, p.from)
  <2>3. /\ older \in Seq(S) /\ Len(older) = p.from
        /\ \A k \in 1..p.from : older[k] = Leaves(zip)[k]
    BY <1>1, <2>1
  <2> HIDE DEF tree, older
  <2>4. SubSeq(tree, 1, p.from) = older
    <3>1. /\ SubSeq(tree, 1, p.from) \in Seq(S) /\ Len(SubSeq(tree, 1, p.from)) = p.from
          /\ \A k \in 1..p.from : SubSeq(tree, 1, p.from)[k] = tree[k]
      BY <2>1, <2>2
    <3>2. \A k \in 1..p.from : k \in 1..p.to
      BY <2>1
    <3>3. \A k \in 1..Len(older) : SubSeq(tree, 1, p.from)[k] = older[k]
      BY <2>2, <2>3, <3>1, <3>2
    <3> DEFINE cut == SubSeq(tree, 1, p.from)
    <3>4. cut \in Seq(S) /\ Len(cut) = Len(older) /\ \A k \in 1..Len(older) : cut[k] = older[k]
      BY <2>3, <3>1, <3>3
    <3> HIDE DEF cut
    <3>5. cut = older
      BY <2>3, <3>4, SameSequence
    <3> QED
      BY <3>5 DEF cut
  <2>5. MerkleRoot(tree) \in RootFromConsistencyProof(p.from, Len(tree), MerkleRoot(older), p.path)
            <=> /\ MerkleRoot(older) = MerkleRoot(SubSeq(tree, 1, p.from))
                /\ p.path = ConsistencyPath(tree, p.from)
    BY <2>1, <2>2, ConsistencyIsOneHistory
  <2> QED
    BY <2>2, <2>4, <2>5 DEF older
<1>7. roots = {MerkleRoot(tree)} => roots # {}
  OBVIOUS
<1> HIDE DEF sizes, roots, tree
<1>8. ConsistencyFailures(p) = {} <=> sizes /\ p.path = ConsistencyPath(tree, p.from)
  BY <1>4, <1>5, <1>6, <1>7
<1> QED
  BY <1>8 DEF sizes, tree, n

LEMMA ProofsMatch ==
    ASSUME Given, zip # None, Readable(zip),
           zip.events \in Seq(EventRecord), DecodableEvents(zip) = zip.events,
           headRoot = HeadCheckpoint(zip).root, headRoot # None
    PROVE  InclusionsFound = {} /\ ConsistenciesFound = {} <=> ProofsHold(zip)
<1> DEFINE n == Len(Leaves(zip))
<1>1. n \in Nat
  BY LeavesOfTheLedger
<1>2. /\ \A p \in ToSet(zip.inclusions) : p.index \in Nat
      /\ \A p \in ToSet(zip.consistencies) :
            p.from \in Nat /\ p.to \in Nat /\ p.path \in Seq(ToSet(p.path))
  BY ExportsAssumption DEF Given, Readable
<1>3. ASSUME NEW p \in ToSet(zip.inclusions)
      PROVE  InclusionFailures(p) = {} <=>
                /\ ~p.malformed /\ p.treeSize = n /\ p.index < p.treeSize
                /\ p.leaf = Leaves(zip)[p.index + 1]
                /\ RootFromInclusionProof(p.index, p.treeSize, p.leaf, p.path)
                      = {HeadCheckpoint(zip).root}
  <2>1. InclusionFailures(p) = {} <=>
            /\ ~p.malformed /\ p.treeSize = n /\ ~(p.index >= n)
            /\ p.leaf = Leaves(zip)[p.index + 1] /\ LeadsToHead(p)
    BY Zenon DEF InclusionFailures, KindIf
  <2>2. p.treeSize = n => (~(p.index >= n) <=> p.index < p.treeSize)
    <3> HIDE DEF n
    <3> QED
      BY <1>1, <1>2, <1>3
  <2>3. LeadsToHead(p) <=> RootFromInclusionProof(p.index, p.treeSize, p.leaf, p.path)
                              = {HeadCheckpoint(zip).root}
    BY DEF LeadsToHead
  <2> HIDE DEF n
  <2> QED
    BY <2>1, <2>2, <2>3
<1>4. InclusionsFound = {} <=> \A p \in ToSet(zip.inclusions) : InclusionFailures(p) = {}
  BY DEF InclusionsFound
<1>5. ConsistenciesFound = {} <=> \A p \in ToSet(zip.consistencies) : ConsistencyFailures(p) = {}
  BY DEF ConsistenciesFound
<1>6. \A p \in ToSet(zip.consistencies) : ConsistencyFailures(p) = {} <=>
          /\ ~p.malformed /\ 0 < p.from /\ p.from < p.to /\ p.to <= Len(Leaves(zip))
          /\ p.path = ConsistencyPath(Prefix(zip, p.to), p.from)
  BY <1>2, ConsistencyMatches
<1> QED
  BY <1>3, <1>4, <1>5, <1>6 DEF ProofsHold

-----------------------------------------------------------------------------
(* A function that is defined over ever smaller arguments is there.            *)

\* g is what F makes of it, up to a size.
GoodUpTo(D, size, F, g, n) == \A d \in D : size[d] < n => g[d] = F[g][d]

LEMMA OneGood ==
    ASSUME NEW D, NEW size \in [D -> Nat], NEW F,
           NEW g, NEW h, NEW m \in Nat, NEW n \in Nat, m <= n,
           GoodUpTo(D, size, F, g, m), GoodUpTo(D, size, F, h, n),
           \A d \in D : (\A c \in D : size[c] < size[d] => g[c] = h[c]) => F[g][d] = F[h][d]
    PROVE  \A d \in D : size[d] < m => g[d] = h[d]
<1> DEFINE Agree(k) == \A d \in D : size[d] < k /\ size[d] < m => g[d] = h[d]
           agree == {k \in Nat : Agree(k)}
<1>1. 0 \in agree
  OBVIOUS
<1>2. ASSUME NEW k \in agree PROVE k + 1 \in agree
  <2> SUFFICES ASSUME NEW d \in D, size[d] < k + 1, size[d] < m PROVE g[d] = h[d]
    OBVIOUS
  <2>1. \A c \in D : size[c] < size[d] => g[c] = h[c]
    <3> SUFFICES ASSUME NEW c \in D, size[c] < size[d] PROVE g[c] = h[c]
      OBVIOUS
    <3>1. size[c] < k /\ size[c] < m
      OBVIOUS
    <3> QED
      BY <3>1
  <2>2. g[d] = F[g][d] /\ h[d] = F[h][d]
    BY DEF GoodUpTo
  <2> QED
    BY <2>1, <2>2
<1>3. agree = Nat
  <2> HIDE DEF agree
  <2> QED
    BY <1>1, <1>2, EveryNumber DEF agree
<1>4. SUFFICES ASSUME NEW d \in D, size[d] < m PROVE g[d] = h[d]
  OBVIOUS
<1>5. size[d] + 1 \in agree
  BY <1>3
<1> QED
  BY <1>4, <1>5

\* F makes of a function a function, each value of values at smaller arguments.
Recursive(D, V, size, F) ==
    /\ size \in [D -> Nat] /\ F \in [[D -> V] -> [D -> V]]
    /\ \A g, h \in [D -> V] : \A d \in D :
          (\A c \in D : size[c] < size[d] => g[c] = h[c]) => F[g][d] = F[h][d]

LEMMA Recursion ==
    ASSUME NEW D, NEW V, NEW v \in V, NEW size, NEW F, Recursive(D, V, size, F)
    PROVE  \E f \in [D -> V] : f = F[f]
<1> /\ size \in [D -> Nat] /\ F \in [[D -> V] -> [D -> V]]
    /\ \A g, h \in [D -> V] : \A d \in D :
          (\A c \in D : size[c] < size[d] => g[c] = h[c]) => F[g][d] = F[h][d]
  BY DEF Recursive
<1> DEFINE Good(g, n) == GoodUpTo(D, size, F, g, n)
           reached == {n \in Nat : \E g \in [D -> V] : Good(g, n)}
<1>1. 0 \in reached
  <2>1. [d \in D |-> v] \in [D -> V] /\ Good([d \in D |-> v], 0)
    BY DEF GoodUpTo
  <2> QED
    BY <2>1
<1>2. ASSUME NEW n \in reached PROVE n + 1 \in reached
  <2>1. PICK g \in [D -> V] : Good(g, n)
    OBVIOUS
  <2>2. F[g] \in [D -> V]
    OBVIOUS
  <2>3. ASSUME NEW d \in D, size[d] < n + 1 PROVE F[g][d] = F[F[g]][d]
    <3>1. \A c \in D : size[c] < size[d] => g[c] = F[g][c]
      BY <2>1, <2>3 DEF GoodUpTo
    <3> QED
      BY <2>2, <3>1
  <2>4. Good(F[g], n + 1)
    BY <2>3 DEF GoodUpTo
  <2> QED
    BY <2>2, <2>4
<1>3. reached = Nat
  <2> HIDE DEF reached
  <2> QED
    BY <1>1, <1>2, EveryNumber DEF reached
<1> DEFINE good[n \in Nat] == CHOOSE g \in [D -> V] : Good(g, n)
           f == [d \in D |-> good[size[d] + 1][d]]
<1>4. \A n \in Nat : good[n] \in [D -> V] /\ Good(good[n], n)
  <2> SUFFICES ASSUME NEW n \in Nat PROVE good[n] \in [D -> V] /\ Good(good[n], n)
    OBVIOUS
  <2>1. \E g \in [D -> V] : Good(g, n)
    BY <1>3
  <2>2. good[n] = CHOOSE g \in [D -> V] : Good(g, n)
    OBVIOUS
  <2> HIDE DEF good, GoodUpTo
  <2> QED
    BY <2>1, <2>2
<1> HIDE DEF good, reached
<1>5. f \in [D -> V]
  <2> SUFFICES ASSUME NEW d \in D PROVE good[size[d] + 1][d] \in V
    OBVIOUS
  <2>1. size[d] + 1 \in Nat
    OBVIOUS
  <2> QED
    BY <1>4, <2>1
<1>6. ASSUME NEW d \in D PROVE f[d] = F[f][d]
  <2> DEFINE m == size[d] + 1
             g == good[m]
  <2>1. m \in Nat /\ g \in [D -> V] /\ Good(g, m)
    BY <1>4
  <2>2. ASSUME NEW c \in D, size[c] < size[d] PROVE g[c] = f[c]
    <3> DEFINE k == size[c] + 1
    <3>1. k \in Nat /\ k <= m
      BY <2>2
    <3>2. good[k] \in [D -> V] /\ Good(good[k], k)
      BY <1>4, <3>1
    <3>3. size[c] < k
      OBVIOUS
    <3> HIDE DEF g, m, k
    <3>4. \A e \in D : size[e] < k => good[k][e] = g[e]
      BY <2>1, <3>1, <3>2, OneGood
    <3> QED
      BY <3>3, <3>4 DEF k
  <2>3. g[d] = F[g][d]
    BY <2>1 DEF GoodUpTo
  <2>4. f[d] = g[d]
    OBVIOUS
  <2> HIDE DEF f, g
  <2> QED
    BY <1>5, <2>1, <2>2, <2>3, <2>4
<1> HIDE DEF f
<1>7. F[f] \in [D -> V]
  BY <1>5
<1> QED
  BY <1>5, <1>6, <1>7

-----------------------------------------------------------------------------
(* Bundles within bundles.                                                     *)

\* What a bundle holds is shorter than the bundle.
LEMMA MembersAreSmaller ==
    ASSUME NEW content \in Contents, Bundles[content] # None,
           NEW path, MemberDigest(Bundles[content], path) # None
    PROVE  /\ MemberDigest(Bundles[content], path) \in Contents
           /\ Sizes[MemberDigest(Bundles[content], path)] < Sizes[content]
<1> DEFINE a == Bundles[content]
           T == EntriesAt(a, path)
<1>1. /\ a.entries \in Seq(Entry)
      /\ \A k \in DOMAIN a.entries : Sizes[a.entries[k].content] < Sizes[content]
  BY BundlesAssumption
<1> HIDE DEF a
<1>2. T # {}
  BY Zenon DEF MemberDigest, a
<1>3. T \subseteq 1..Len(a.entries) /\ Len(a.entries) \in Nat
  BY <1>1 DEF EntriesAt
<1>4. \E k \in T : \A j \in T : j <= k
  BY <1>2, <1>3, LastEntry
<1>5. PICK k \in 1..Len(a.entries) : MemberDigest(a, path) = a.entries[k].content
  BY <1>2, <1>3, <1>4 DEF MemberDigest
<1>6. a.entries[k] \in Entry /\ k \in DOMAIN a.entries
  BY <1>1
<1>7. a.entries[k].content \in Contents
  BY <1>6 DEF Entry
<1> QED
  BY <1>1, <1>5, <1>6, <1>7 DEF a

LEMMA BundleTypes ==
    ASSUME NEW content \in Contents, Bundles[content] # None
    PROVE  /\ Bundles[content].entries \in Seq(Entry)
           /\ Bundles[content].manifest.scope \in Scopes
           /\ Bundles[content].manifest.supersession \in Optional(Counted)
           /\ Bundles[content].graph # None =>
                 \A row \in ToSet(Bundles[content].graph.rows) : row.chainId \in Scopes
<1> DEFINE a == Bundles[content]
<1>1. /\ a.entries \in Seq(Entry) /\ a.manifest.scope \in Scopes
      /\ a.manifest.supersession \in Optional(Counted)
      /\ a.graph \in Optional([head : Scopes, rows : Seq(Predecessor)])
  BY BundlesAssumption
<1> HIDE DEF a
<1>2. ASSUME a.graph # None, NEW row \in ToSet(a.graph.rows) PROVE row.chainId \in Scopes
  <2>1. a.graph.rows \in Seq(Predecessor)
    BY <1>1, <1>2 DEF Optional
  <2>2. row \in Predecessor
    BY <1>2, <2>1 DEF ToSet
  <2> QED
    BY <2>2 DEF Predecessor
<1> QED
  BY <1>1, <1>2 DEF a

-----------------------------------------------------------------------------
(* The recursive definitions, unfolded.                                        *)

Verifies(verifies, content) ==
    LET a == Bundles[content]
    IN  /\ a # None
        /\ Readable(a)
        /\ ArchiveHolds(a, {}, verifies)

\* The recursive definition has a solution: a bundle verifies exactly when it parses, can be
\* read and satisfies the clauses, those about the bundles in it included (the call on a
\* bundled predecessor, supersession.rs:156).
THEOREM BundleUnfolds ==
    ASSUME NEW content \in Contents
    PROVE  BundleVerifies[content] <=> Verifies(BundleVerifies, content)
<1> DEFINE D == Contents
           F == [g \in [D -> BOOLEAN] |-> [c \in D |-> Verifies(g, c)]]
<1>1. Sizes \in [D -> Nat]
  BY BundlesAssumption
<1>2. F \in [[D -> BOOLEAN] -> [D -> BOOLEAN]]
  <2>1. \A g, c : Verifies(g, c) \in BOOLEAN
    BY Zenon DEF Verifies
  <2> QED
    BY <2>1
<1>3. ASSUME NEW g \in [D -> BOOLEAN], NEW h \in [D -> BOOLEAN], NEW d \in D,
             \A c \in D : Sizes[c] < Sizes[d] => g[c] = h[c]
      PROVE  F[g][d] = F[h][d]
  <2> DEFINE a == Bundles[d]
  <2>1. CASE a = None
    BY <2>1 DEF Verifies
  <2>2. CASE a # None
    <3>1. \A row : RowHolds(a, row, g) <=> RowHolds(a, row, h)
      <4> SUFFICES ASSUME NEW row PROVE RowHolds(a, row, g) <=> RowHolds(a, row, h)
        OBVIOUS
      <4> DEFINE bundle == MemberDigest(a, row.bundle)
      <4>1. bundle # None => g[bundle] = h[bundle]
        <5>1. bundle # None => bundle \in D /\ Sizes[bundle] < Sizes[d]
          BY <2>2, MembersAreSmaller
        <5> QED
          BY <1>3, <5>1
      <4> HIDE DEF bundle
      <4>2. CASE bundle = None
        BY <4>2, Zenon DEF RowHolds, bundle
      <4>3. CASE bundle # None
        <5>1. g[bundle] = h[bundle]
          BY <4>1, <4>3
        <5>2. g[MemberDigest(a, row.bundle)] = h[MemberDigest(a, row.bundle)]
          BY <5>1, Zenon DEF bundle
        <5> QED
          BY <5>2, SMT DEF RowHolds
      <4> QED
        BY <4>2, <4>3
    <3>2. SupersessionHolds(a, g) <=> SupersessionHolds(a, h)
      BY ONLY <3>1, Zenon DEF SupersessionHolds
    <3>3. ArchiveHolds(a, {}, g) <=> ArchiveHolds(a, {}, h)
      BY ONLY <3>2, Zenon DEF ArchiveHolds
    <3>4. Verifies(g, d) = Verifies(h, d)
      BY <3>3, Zenon DEF Verifies
    <3> QED
      BY <3>4
  <2> QED
    BY <2>1, <2>2
<1>4. PICK f \in [D -> BOOLEAN] : f = F[f]
  <2> DEFINE V == BOOLEAN
  <2>1. Recursive(D, V, Sizes, F)
    BY <1>1, <1>2, <1>3 DEF Recursive
  <2>2. PICK v \in V : TRUE
    OBVIOUS
  <2> SUFFICES \E f \in [D -> V] : f = F[f]
    OBVIOUS
  <2> HIDE DEF F, D, V
  <2> QED
    BY ONLY <2>1, <2>2, Recursion
<1>5. f = [c \in Contents |-> Verifies(f, c)]
  BY <1>4
<1> DEFINE Rec(g) == g = [c \in Contents |-> Verifies(g, c)]
<1>6. BundleVerifies = CHOOSE g : Rec(g)
  BY Zenon DEF BundleVerifies, Verifies
<1>7. Rec(BundleVerifies)
  <2>1. \E g : Rec(g)
    BY <1>5
  <2> HIDE DEF Rec
  <2> QED
    BY <1>6, <2>1, Zenon
<1> QED
  BY <1>7

WalkKinds == {"SupersessionGraphCycle", "SupersessionPredecessorCheckpointMismatch",
              "SupersessionGraphInvalid", "SupersessionGraphHeadMismatch"}

\* The place a row leads to: its bundle, below the row's chain.
Below(a, row, path) == <<MemberDigest(a, row.bundle), PathBelow(path, row.chainId)>>

Walked(found, walk) ==
    LET a == Bundles[walk[1]]
    IN  UNION {RowFailures(a, row, walk[2], found[Below(a, row, walk[2])]) :
                  row \in ToSet(a.graph.rows)}

\* What is found below a row is asked of the bundles that replace chains.
LEMMA RowsLookBelow ==
    ASSUME NEW a, NEW row, NEW path, NEW x, NEW y,
           a.entries \in Seq(Entry),
           MemberDigest(a, row.bundle) \in Replacing => x = y
    PROVE  RowFailures(a, row, path, x) = RowFailures(a, row, path, y)
<1> DEFINE nested == Bundles[MemberDigest(a, row.bundle)]
<1>1. CASE row.chainId \in path \/ row.bundle = None \/ ~RowMatches(a, row)
           \/ nested.manifest.supersession = None \/ ~GraphReadable(nested)
  BY <1>1, Zenon DEF RowFailures
<1>2. CASE RowMatches(a, row) /\ nested.manifest.supersession # None /\ GraphReadable(nested)
  <2>1. MemberDigest(a, row.bundle) \in Contents
    BY <1>2, MemberDigestType DEF RowMatches, Optional
  <2>2. nested # None
    BY <1>2, <2>1, BundleUnfolds DEF RowMatches, Verifies
  <2>3. MemberDigest(a, row.bundle) \in Replacing
    BY <1>2, <2>1, <2>2 DEF Replacing, GraphReadable
  <2> QED
    BY <2>3
<1> QED
  BY <1>1, <1>2

LEMMA WalkUnfolds ==
    ASSUME NEW walk \in Replacing \X SUBSET Scopes
    PROVE  NestedFailures[walk] = Walked(NestedFailures, walk)
<1> DEFINE D == Replacing \X SUBSET Scopes
           V == SUBSET WalkKinds
           F == [g \in [D -> V] |-> [w \in D |-> Walked(g, w)]]
           size == [w \in D |-> Sizes[w[1]]]
<1>1. ASSUME NEW w \in D, NEW row \in ToSet(Bundles[w[1]].graph.rows),
             MemberDigest(Bundles[w[1]], row.bundle) \in Replacing
      PROVE  /\ Below(Bundles[w[1]], row, w[2]) \in D
             /\ size[Below(Bundles[w[1]], row, w[2])] < size[w]
  <2>1. w[1] \in Contents /\ Bundles[w[1]] # None /\ Bundles[w[1]].graph # None
        /\ w[2] \in SUBSET Scopes
    BY DEF Replacing
  <2>2. MemberDigest(Bundles[w[1]], row.bundle) # None
    BY <1>1, NoneAssumption DEF Replacing
  <2>3. row.chainId \in Scopes
    BY <2>1, BundleTypes
  <2>4. Sizes[MemberDigest(Bundles[w[1]], row.bundle)] < Sizes[w[1]]
    BY <2>1, <2>2, MembersAreSmaller
  <2>5. Below(Bundles[w[1]], row, w[2]) \in D
    BY <1>1, <2>1, <2>3 DEF Below, PathBelow
  <2> QED
    BY <2>4, <2>5 DEF Below
<1>2. size \in [D -> Nat]
  BY BundlesAssumption DEF Replacing
<1>3. F \in [[D -> V] -> [D -> V]]
  <2> SUFFICES ASSUME NEW g \in [D -> V], NEW w \in D PROVE Walked(g, w) \in V
    OBVIOUS
  <2> DEFINE a == Bundles[w[1]]
  <2>0. w[1] \in Contents /\ a # None
    BY DEF Replacing
  <2>1. ASSUME NEW row \in ToSet(a.graph.rows)
        PROVE  RowFailures(a, row, w[2], g[Below(a, row, w[2])]) \subseteq WalkKinds
    <3> DEFINE x == g[Below(a, row, w[2])]
               y == IF MemberDigest(a, row.bundle) \in Replacing THEN x ELSE {}
    <3>1. y \subseteq WalkKinds
      BY <1>1, <2>1
    <3>2. a.entries \in Seq(Entry)
      BY <2>0, BundleTypes
    <3>3. RowFailures(a, row, w[2], x) = RowFailures(a, row, w[2], y)
      BY <3>2, RowsLookBelow
    <3> HIDE DEF y
    <3>4. RowFailures(a, row, w[2], y) \subseteq WalkKinds
      BY <3>1 DEF RowFailures, GraphHeaderFailures, KindIf, WalkKinds
    <3> QED
      BY <3>3, <3>4
  <2> QED
    BY <2>1 DEF Walked
<1>4. ASSUME NEW g \in [D -> V], NEW h \in [D -> V], NEW w \in D,
             \A c \in D : size[c] < size[w] => g[c] = h[c]
      PROVE  F[g][w] = F[h][w]
  <2> DEFINE a == Bundles[w[1]]
  <2>1. a.entries \in Seq(Entry)
    BY BundleTypes DEF Replacing
  <2>2. ASSUME NEW row \in ToSet(a.graph.rows)
        PROVE  RowFailures(a, row, w[2], g[Below(a, row, w[2])])
                   = RowFailures(a, row, w[2], h[Below(a, row, w[2])])
    <3>1. MemberDigest(a, row.bundle) \in Replacing =>
              g[Below(a, row, w[2])] = h[Below(a, row, w[2])]
      BY <1>1, <1>4
    <3> QED
      BY <2>1, <3>1, RowsLookBelow
  <2>3. Walked(g, w) = Walked(h, w)
    BY <2>2 DEF Walked
  <2> QED
    BY <2>3
<1>5. PICK f \in [D -> V] : f = F[f]
  <2>1. Recursive(D, V, size, F)
    BY <1>2, <1>3, <1>4 DEF Recursive
  <2>2. {} \in V
    OBVIOUS
  <2> HIDE DEF F, V, size, D
  <2> QED
    BY ONLY <2>1, <2>2, Recursion
<1>6. f = [w \in D |-> Walked(f, w)]
  BY <1>5
<1> DEFINE Rec(g) == g = [w \in Replacing \X SUBSET Scopes |-> Walked(g, w)]
<1>7. NestedFailures = CHOOSE g : Rec(g)
  BY Zenon DEF NestedFailures, Walked, Below
<1>8. Rec(NestedFailures)
  <2>1. \E g : Rec(g)
    BY <1>6
  <2> HIDE DEF Rec
  <2> QED
    BY <1>7, <2>1, Zenon
<1> QED
  BY <1>8

Descended(holds, descent) ==
    LET nested == Bundles[descent[1]]
        above == descent[2]
    IN  /\ \A row \in ToSet(nested.graph.rows) : row.chainId \notin above
        /\ \A b \in BundledBelow(nested) :
              holds[<<b, above \cup {Bundles[b].manifest.scope}>>]

LEMMA DescentUnfolds ==
    ASSUME NEW descent \in Replacing \X SUBSET Scopes
    PROVE  Descends[descent] <=> Descended(Descends, descent)
<1> DEFINE D == Replacing \X SUBSET Scopes
           F == [g \in [D -> BOOLEAN] |-> [w \in D |-> Descended(g, w)]]
           size == [w \in D |-> Sizes[w[1]]]
<1>1. ASSUME NEW w \in D, NEW b \in BundledBelow(Bundles[w[1]])
      PROVE  LET c == <<b, w[2] \cup {Bundles[b].manifest.scope}>>
             IN  c \in D /\ size[c] < size[w]
  <2>1. w[1] \in Contents /\ Bundles[w[1]] # None /\ w[2] \in SUBSET Scopes
    BY DEF Replacing
  <2>2. b \in Replacing /\ b \in Contents /\ Bundles[b] # None /\ b # None
    BY NoneAssumption DEF BundledBelow, Replacing
  <2>3. Bundles[b].manifest.scope \in Scopes
    BY <2>2, BundleTypes
  <2>4. PICK path : b = MemberDigest(Bundles[w[1]], path)
    BY DEF BundledBelow
  <2>5. Sizes[b] < Sizes[w[1]]
    BY <2>1, <2>2, <2>4, MembersAreSmaller
  <2> QED
    BY <2>1, <2>2, <2>3, <2>5
<1>2. size \in [D -> Nat]
  BY BundlesAssumption DEF Replacing
<1>3. F \in [[D -> BOOLEAN] -> [D -> BOOLEAN]]
  <2>1. \A g, w : Descended(g, w) \in BOOLEAN
    BY Zenon DEF Descended
  <2> QED
    BY <2>1
<1>4. ASSUME NEW g \in [D -> BOOLEAN], NEW h \in [D -> BOOLEAN], NEW w \in D,
             \A c \in D : size[c] < size[w] => g[c] = h[c]
      PROVE  F[g][w] = F[h][w]
  <2>1. \A b \in BundledBelow(Bundles[w[1]]) :
            g[<<b, w[2] \cup {Bundles[b].manifest.scope}>>]
                = h[<<b, w[2] \cup {Bundles[b].manifest.scope}>>]
    BY <1>1, <1>4
  <2> HIDE DEF D, F, size
  <2>2. Descended(g, w) = Descended(h, w)
    BY <2>1, Zenon DEF Descended
  <2> QED
    BY <2>2 DEF F
<1>5. PICK f \in [D -> BOOLEAN] : f = F[f]
  <2> DEFINE V == BOOLEAN
  <2>1. Recursive(D, V, size, F)
    BY <1>2, <1>3, <1>4 DEF Recursive
  <2>2. PICK v \in V : TRUE
    OBVIOUS
  <2> SUFFICES \E f \in [D -> V] : f = F[f]
    OBVIOUS
  <2> HIDE DEF F, size, D, V
  <2> QED
    BY ONLY <2>1, <2>2, Recursion
<1>6. f = [w \in D |-> Descended(f, w)]
  BY <1>5
<1> DEFINE Rec(g) == g = [w \in Replacing \X SUBSET Scopes |-> Descended(g, w)]
<1>7. Descends = CHOOSE g : Rec(g)
  BY Zenon DEF Descends, Descended
<1>8. Rec(Descends)
  <2>1. \E g : Rec(g)
    BY <1>6
  <2> HIDE DEF Rec
  <2> QED
    BY <1>7, <2>1, Zenon
<1> QED
  BY <1>8

-----------------------------------------------------------------------------
(* The graph.                                                                  *)

LEMMA GraphFound ==
    ASSUME NEW a, a.manifest.supersession # None,
           a.manifest.supersession \in Optional(Counted)
    PROVE  GraphHeaderFailures(a) = {} /\ GraphReadable(a) <=> GraphHolds(a)
<1>1. a.manifest.supersession.digest \in Contents
  BY DEF Optional, Counted
<1>2. MemberDigest(a, GraphMember) = a.manifest.supersession.digest => HasMember(a, GraphMember)
  BY <1>1, BoundIsThere
<1>3. GraphReadable(a) <=>
          MemberDigest(a, GraphMember) = a.manifest.supersession.digest /\ a.graph # None
  BY <1>2 DEF GraphReadable
<1>4. GraphReadable(a) =>
          (GraphHeaderFailures(a) = {} <=>
              /\ Len(a.graph.rows) = a.manifest.supersession.count
              /\ a.graph.head = a.manifest.scope)
  BY Zenon DEF GraphHeaderFailures, KindIf
<1> QED
  BY <1>3, <1>4 DEF GraphHolds

\* What a verified bundle has of its own graph.
LEMMA VerifiedGraph ==
    ASSUME NEW b \in Contents, BundleVerifies[b], Bundles[b].manifest.supersession # None
    PROVE  /\ Bundles[b] # None /\ b \in Replacing
           /\ GraphHeaderFailures(Bundles[b]) = {} /\ GraphReadable(Bundles[b])
           /\ \A row \in ToSet(Bundles[b].graph.rows) : RowHolds(Bundles[b], row, BundleVerifies)
<1> DEFINE a == Bundles[b]
<1>1. a # None /\ SupersessionHolds(a, BundleVerifies)
  BY BundleUnfolds, Zenon DEF Verifies, ArchiveHolds
<1>2. /\ GraphHolds(a)
      /\ \A row \in ToSet(a.graph.rows) : RowHolds(a, row, BundleVerifies)
  BY <1>1, Zenon DEF SupersessionHolds
<1>3. a.manifest.supersession \in Optional(Counted)
  BY <1>1, BundleTypes
<1>4. GraphHeaderFailures(a) = {} /\ GraphReadable(a)
  BY <1>2, <1>3, GraphFound
<1>5. b \in Replacing
  BY <1>1, <1>4 DEF Replacing, GraphReadable
<1> QED
  BY <1>1, <1>2, <1>4, <1>5

\* The walk and the descent agree on what lies below the bundles of an archive.
Alike(b) ==
    \A above \in SUBSET Scopes : NestedFailures[<<b, above>>] = {} <=> Descends[<<b, above>>]

\* One row, whose bundle is what the row names.
LEMMA PredecessorFound ==
    ASSUME NEW a, a.entries \in Seq(Entry), NEW row, RowHolds(a, row, BundleVerifies),
           row.chainId \in Scopes, NEW path \in SUBSET Scopes,
           NEW found
    PROVE  RowFailures(a, row, path, found) = {} <=>
               /\ row.chainId \notin path
               /\ row.bundle # None /\ MemberDigest(a, row.bundle) \in Replacing => found = {}
<1> DEFINE b == MemberDigest(a, row.bundle)
<1>1. CASE row.chainId \in path
  BY <1>1 DEF RowFailures
<1>2. CASE row.chainId \notin path /\ row.bundle = None
  BY <1>2, Zenon DEF RowFailures
<1>3. CASE row.chainId \notin path /\ row.bundle # None
  <2>1. /\ b # None /\ BundleVerifies[b]
        /\ Bundles[b].manifest.scope = row.chainId /\ Bundles[b].manifest.head = row.checkpointHash
    BY <1>3, Zenon DEF RowHolds
  <2>2. RowMatches(a, row)
    BY <2>1, Zenon DEF RowMatches
  <2>3. b \in Contents
    BY <2>1, MemberDigestType DEF Optional
  <2>4. CASE Bundles[b].manifest.supersession = None
    <3>1. b \notin Replacing
      BY <2>4 DEF Replacing
    <3>2. RowFailures(a, row, path, found) = {}
      BY <1>3, <2>2, <2>4, Zenon DEF RowFailures
    <3> QED
      BY <1>3, <3>1, <3>2
  <2>5. CASE Bundles[b].manifest.supersession # None
    <3>1. b \in Replacing /\ GraphHeaderFailures(Bundles[b]) = {} /\ GraphReadable(Bundles[b])
      BY <2>1, <2>3, <2>5, VerifiedGraph
    <3>2. RowFailures(a, row, path, found) = {} \cup found
      BY <1>3, <2>2, <2>5, <3>1, Zenon DEF RowFailures
    <3> HIDE DEF b
    <3> QED
      BY <1>3, <3>1, <3>2 DEF b
  <2> QED
    BY <2>4, <2>5
<1> QED
  BY <1>1, <1>2, <1>3

LEMMA PredecessorsFound ==
    ASSUME NEW a, a.entries \in Seq(Entry),
           \A row \in ToSet(a.graph.rows) :
               RowHolds(a, row, BundleVerifies) /\ row.chainId \in Scopes,
           \A b \in BundledBelow(a) : Alike(b),
           NEW path \in SUBSET Scopes
    PROVE  (\A row \in ToSet(a.graph.rows) :
               RowFailures(a, row, path, NestedFailures[Below(a, row, path)]) = {}) <=>
               /\ \A row \in ToSet(a.graph.rows) : row.chainId \notin path
               /\ \A b \in BundledBelow(a) :
                     Descends[<<b, path \cup {Bundles[b].manifest.scope}>>]
<1> DEFINE rows == ToSet(a.graph.rows)
           leads(row) == row.bundle # None /\ MemberDigest(a, row.bundle) \in Replacing
           place(row) == <<MemberDigest(a, row.bundle), path \cup {row.chainId}>>
<1>1. ASSUME NEW row \in rows
      PROVE  RowFailures(a, row, path, NestedFailures[Below(a, row, path)]) = {} <=>
                /\ row.chainId \notin path
                /\ leads(row) => Descends[place(row)]
  <2>1. Below(a, row, path) = place(row)
    BY DEF Below, PathBelow
  <2>2. RowHolds(a, row, BundleVerifies) /\ row.chainId \in Scopes
    OBVIOUS
  <2>3. RowFailures(a, row, path, NestedFailures[place(row)]) = {} <=>
            row.chainId \notin path /\ (leads(row) => NestedFailures[place(row)] = {})
    BY <2>2, PredecessorFound
  <2>4. leads(row) => (NestedFailures[place(row)] = {} <=> Descends[place(row)])
    <3> SUFFICES ASSUME leads(row)
                 PROVE  NestedFailures[place(row)] = {} <=> Descends[place(row)]
      OBVIOUS
    <3>1. MemberDigest(a, row.bundle) \in BundledBelow(a)
      BY DEF BundledBelow
    <3>2. path \cup {row.chainId} \in SUBSET Scopes
      BY <2>2
    <3> QED
      BY <3>1, <3>2, Zenon DEF Alike
  <2> HIDE DEF place, leads
  <2> QED
    BY <2>1, <2>3, <2>4
<1>2. (\A row \in rows : leads(row) => Descends[place(row)]) <=>
          \A b \in BundledBelow(a) : Descends[<<b, path \cup {Bundles[b].manifest.scope}>>]
  <2>1. \A row \in rows : leads(row) =>
            Bundles[MemberDigest(a, row.bundle)].manifest.scope = row.chainId
    BY DEF RowHolds
  <2>2. \A b : b \in BundledBelow(a) <=>
            \E row \in rows : leads(row) /\ b = MemberDigest(a, row.bundle)
    BY DEF BundledBelow
  <2> QED
    BY <2>1, <2>2
<1> HIDE DEF rows, leads, place
<1>3. (\A row \in rows :
          RowFailures(a, row, path, NestedFailures[Below(a, row, path)]) = {}) <=>
          /\ \A row \in rows : row.chainId \notin path
          /\ \A row \in rows : leads(row) => Descends[place(row)]
  BY <1>1
<1> QED
  BY <1>2, <1>3 DEF rows

\* The bundles below a bundle that verifies verify.
LEMMA BelowVerifies ==
    ASSUME NEW a, \A row \in ToSet(a.graph.rows) : RowHolds(a, row, BundleVerifies),
           NEW b \in BundledBelow(a)
    PROVE  b \in Replacing /\ b \in Contents /\ BundleVerifies[b]
<1>1. PICK row \in ToSet(a.graph.rows) : row.bundle # None /\ b = MemberDigest(a, row.bundle)
  BY DEF BundledBelow
<1>2. BundleVerifies[MemberDigest(a, row.bundle)]
  BY <1>1, Zenon DEF RowHolds
<1> QED
  BY <1>1, <1>2 DEF BundledBelow, Replacing

LEMMA BundlesAlike ==
    ASSUME NEW b \in Replacing, BundleVerifies[b]
    PROVE  Alike(b)
<1> DEFINE alike == {n \in Nat : \A c \in Replacing : Sizes[c] < n /\ BundleVerifies[c] => Alike(c)}
<1>0. \A c \in Replacing : c \in Contents /\ Bundles[c] # None /\ Sizes[c] \in Nat
                           /\ Bundles[c].graph # None /\ Bundles[c].manifest.supersession # None
  BY BundlesAssumption DEF Replacing
<1>1. 0 \in alike
  BY <1>0
<1>2. ASSUME NEW n \in Nat, n \in alike PROVE n + 1 \in alike
  <2> SUFFICES ASSUME NEW c \in Replacing, Sizes[c] < n + 1, BundleVerifies[c],
                      NEW above \in SUBSET Scopes
               PROVE  NestedFailures[<<c, above>>] = {} <=> Descends[<<c, above>>]
    BY DEF Alike
  <2> DEFINE a == Bundles[c]
  <2>1. a.entries \in Seq(Entry) /\ \A row \in ToSet(a.graph.rows) : row.chainId \in Scopes
    BY <1>0, BundleTypes
  <2>2. \A row \in ToSet(a.graph.rows) : RowHolds(a, row, BundleVerifies)
    BY <1>0, VerifiedGraph
  <2>3. ASSUME NEW d \in BundledBelow(a) PROVE Alike(d)
    <3>1. d \in Replacing /\ d \in Contents /\ BundleVerifies[d] /\ d # None
      BY <2>2, BelowVerifies, NoneAssumption
    <3>2. PICK path : d = MemberDigest(a, path)
      BY DEF BundledBelow
    <3>3. Sizes[d] < Sizes[c] /\ Sizes[d] \in Nat /\ Sizes[c] \in Nat
      BY <1>0, <3>1, <3>2, MembersAreSmaller
    <3>4. Sizes[d] < n
      BY <3>3
    <3> QED
      BY <1>2, <3>1, <3>4
  <2>4. NestedFailures[<<c, above>>] =
            UNION {RowFailures(a, row, above, NestedFailures[Below(a, row, above)]) :
                      row \in ToSet(a.graph.rows)}
    <3>1. <<c, above>> \in Replacing \X SUBSET Scopes
      OBVIOUS
    <3>2. <<c, above>>[1] = c /\ <<c, above>>[2] = above
      OBVIOUS
    <3>3. NestedFailures[<<c, above>>] = Walked(NestedFailures, <<c, above>>)
      BY <3>1, WalkUnfolds
    <3> QED
      BY <3>2, <3>3 DEF Walked
  <2>5. Descends[<<c, above>>] <=>
            /\ \A row \in ToSet(a.graph.rows) : row.chainId \notin above
            /\ \A d \in BundledBelow(a) : Descends[<<d, above \cup {Bundles[d].manifest.scope}>>]
    <3>1. <<c, above>> \in Replacing \X SUBSET Scopes
      OBVIOUS
    <3>2. <<c, above>>[1] = c /\ <<c, above>>[2] = above
      OBVIOUS
    <3>3. Descends[<<c, above>>] <=> Descended(Descends, <<c, above>>)
      BY <3>1, DescentUnfolds
    <3> QED
      BY <3>2, <3>3 DEF Descended
  <2> HIDE DEF a
  <2>6. (\A row \in ToSet(a.graph.rows) :
            RowFailures(a, row, above, NestedFailures[Below(a, row, above)]) = {}) <=>
            /\ \A row \in ToSet(a.graph.rows) : row.chainId \notin above
            /\ \A d \in BundledBelow(a) : Descends[<<d, above \cup {Bundles[d].manifest.scope}>>]
    BY <2>1, <2>2, <2>3, PredecessorsFound
  <2>7. NestedFailures[<<c, above>>] = {} <=>
            \A row \in ToSet(a.graph.rows) :
                RowFailures(a, row, above, NestedFailures[Below(a, row, above)]) = {}
    BY <2>4
  <2> QED
    BY ONLY <2>5, <2>6, <2>7, Zenon
<1>3. alike = Nat
  <2> HIDE DEF alike
  <2> QED
    BY <1>1, <1>2, EveryNumber DEF alike
<1>4. Sizes[b] + 1 \in alike /\ Sizes[b] < Sizes[b] + 1
  BY <1>0, <1>3
<1> QED
  BY <1>4

-----------------------------------------------------------------------------
LEMMA SupersessionMatches ==
    ASSUME NEW a, a.entries \in Seq(Entry),
           a.manifest.supersession \in Optional(Counted),
           a.graph \in Optional([head : Scopes, rows : Seq(Predecessor)]),
           EveryDecodes(a)
    PROVE  SupersessionFailures(a) = {} <=> SupersessionHolds(a, BundleVerifies)
<1>1. CASE a.manifest.supersession = None
  BY <1>1, Zenon DEF SupersessionFailures, SupersessionHolds, KindIf
<1>2. CASE a.manifest.supersession # None /\ ~GraphHolds(a)
  <2>1. ~(GraphHeaderFailures(a) = {} /\ GraphReadable(a))
    BY <1>2, GraphFound
  <2>2. ~GraphReadable(a) => GraphHeaderFailures(a) # {}
    BY DEF GraphHeaderFailures
  <2>3. GraphHeaderFailures(a) # {}
    BY <2>1, <2>2
  <2>4. SupersessionFailures(a) # {}
    BY <1>2, <2>3 DEF SupersessionFailures
  <2> QED
    BY <1>2, <2>4, Zenon DEF SupersessionHolds
<1>3. CASE a.manifest.supersession # None /\ GraphHolds(a)
  <2> DEFINE rows == a.graph.rows
             head == {a.graph.head}
             found(row) == RowFailures(a, row, head, NestedFailures[Below(a, row, head)])
  <2>1. GraphHeaderFailures(a) = {} /\ GraphReadable(a)
    BY <1>3, GraphFound
  <2>2. a.graph.head = a.manifest.scope /\ a.graph.head \in Scopes
        /\ rows \in Seq(Predecessor)
    BY <1>3 DEF GraphHolds, Optional
  <2>3. /\ DOMAIN rows = 1..Len(rows) /\ Len(rows) \in Nat
        /\ \A row \in ToSet(rows) : row.chainId \in Scopes
    <3> HIDE DEF rows
    <3>1. DOMAIN rows = 1..Len(rows) /\ Len(rows) \in Nat /\ ToSet(rows) \subseteq Predecessor
      BY <2>2 DEF ToSet
    <3>2. \A row \in Predecessor : row.chainId \in Scopes
      BY DEF Predecessor
    <3> QED
      BY <3>1, <3>2
  <2>4. SupersessionFailures(a) = {} <=>
            /\ GraphLinkageFailures(a) = {} /\ GraphCycleFailures(a) = {}
            /\ PredecessorFailures(a) = {}
    BY <1>3, <2>1 DEF SupersessionFailures
  <2>5. GraphLinkageFailures(a) = {} <=>
            \A i \in Decodable(a) : a.events[i].supersedes # None =>
                \E row \in ToSet(rows) :
                    [chainId |-> row.chainId, checkpointHash |-> row.checkpointHash]
                        = a.events[i].supersedes
    <3>1. ASSUME NEW i \in Decodable(a), a.events[i].supersedes # None, NEW row
          PROVE  [chainId |-> row.chainId, checkpointHash |-> row.checkpointHash]
                        = a.events[i].supersedes
                 <=> /\ row.chainId = a.events[i].supersedes.chainId
                     /\ row.checkpointHash = a.events[i].supersedes.checkpointHash
      <4>1. a.events[i] \in EventRecord
        BY DEF EveryDecodes
      <4>2. a.events[i].supersedes \in SupersedesChainIdDetails
        BY <3>1, <4>1 DEF EventRecord, Optional
      <4> QED
        BY <4>2 DEF SupersedesChainIdDetails
    <3>2. GraphLinkageFailures(a) = {} <=>
              \A i \in Decodable(a) : a.events[i].supersedes # None =>
                  \E row \in ToSet(rows) :
                      /\ row.chainId = a.events[i].supersedes.chainId
                      /\ row.checkpointHash = a.events[i].supersedes.checkpointHash
      BY Zenon DEF GraphLinkageFailures, KindIf
    <3> QED
      BY <3>1, <3>2
  <2>6. GraphCycleFailures(a) = {} <=>
            /\ \A j, k \in DOMAIN rows : rows[j].chainId = rows[k].chainId => j = k
            /\ \A row \in ToSet(rows) : row.chainId # a.manifest.scope
    <3>1. GraphCycleFailures(a) = {} <=>
              \A k \in DOMAIN rows : /\ rows[k].chainId # a.graph.head
                                     /\ \A j \in 1..(k - 1) : rows[j].chainId # rows[k].chainId
      BY Zenon DEF GraphCycleFailures, KindIf
    <3>2. (\A k \in DOMAIN rows : rows[k].chainId # a.graph.head) <=>
              \A row \in ToSet(rows) : row.chainId # a.manifest.scope
      BY <2>2 DEF ToSet
    <3>3. (\A k \in DOMAIN rows : \A j \in 1..(k - 1) : rows[j].chainId # rows[k].chainId) <=>
              \A j, k \in DOMAIN rows : rows[j].chainId = rows[k].chainId => j = k
      <4> HIDE DEF rows
      <4> QED
        BY <2>3
    <3> HIDE DEF rows
    <3> QED
      BY <3>1, <3>2, <3>3
  <2>7. PredecessorFailures(a) = {} <=> \A row \in ToSet(rows) : found(row) = {}
    BY DEF PredecessorFailures, Below
  <2>8. ASSUME \A row \in ToSet(rows) : row.chainId # a.manifest.scope
        PROVE  PredecessorFailures(a) = {} <=>
                  /\ \A row \in ToSet(rows) : RowHolds(a, row, BundleVerifies)
                  /\ DescentsHold(a)
    <3>1. \A row \in ToSet(rows) : row.chainId \notin head
      BY <2>2, <2>8
    <3>2. ASSUME NEW row \in ToSet(rows), found(row) = {} PROVE RowHolds(a, row, BundleVerifies)
      <4>1. CASE row.bundle = None
        BY <4>1 DEF RowHolds
      <4>2. CASE row.bundle # None
        <5>1. RowMatches(a, row)
          BY <3>1, <3>2, <4>2 DEF RowFailures
        <5> QED
          BY <5>1, Zenon DEF RowMatches, RowHolds
      <4> QED
        BY <4>1, <4>2
    <3>3. ASSUME \A row \in ToSet(rows) : RowHolds(a, row, BundleVerifies)
          PROVE  PredecessorFailures(a) = {} <=> DescentsHold(a)
      <4>1. \A b \in BundledBelow(a) : Alike(b)
        BY <3>3, BelowVerifies, BundlesAlike
      <4>2. head \in SUBSET Scopes
        BY <2>2
      <4>3. (\A row \in ToSet(rows) : found(row) = {}) <=>
                /\ \A row \in ToSet(rows) : row.chainId \notin head
                /\ \A b \in BundledBelow(a) : Descends[<<b, head \cup {Bundles[b].manifest.scope}>>]
        <5> HIDE DEF head
        <5> QED
          BY <2>3, <3>3, <4>1, <4>2, PredecessorsFound
      <4>4. \A b : head \cup {Bundles[b].manifest.scope}
                       = {a.manifest.scope, Bundles[b].manifest.scope}
        BY <2>2
      <4>5. DescentsHold(a) <=>
                \A b \in BundledBelow(a) : Descends[<<b, head \cup {Bundles[b].manifest.scope}>>]
        BY <4>4 DEF DescentsHold
      <4> QED
        BY <2>7, <3>1, <4>3, <4>5
    <3> HIDE DEF found, rows
    <3> QED
      BY <2>7, <3>2, <3>3
  <2>9. SupersessionHolds(a, BundleVerifies) <=>
            /\ \A i \in Decodable(a) : a.events[i].supersedes # None =>
                  \E row \in ToSet(rows) :
                      [chainId |-> row.chainId, checkpointHash |-> row.checkpointHash]
                          = a.events[i].supersedes
            /\ \A j, k \in DOMAIN rows : rows[j].chainId = rows[k].chainId => j = k
            /\ \A row \in ToSet(rows) : row.chainId # a.manifest.scope
            /\ \A row \in ToSet(rows) : RowHolds(a, row, BundleVerifies)
            /\ DescentsHold(a)
    BY <1>3, Zenon DEF SupersessionHolds
  <2> HIDE DEF rows
  <2> QED
    BY ONLY <2>4, <2>5, <2>6, <2>8, <2>9, Zenon
<1> QED
  BY <1>1, <1>2, <1>3

-----------------------------------------------------------------------------
(* The refinement.                                                             *)

LEMMA ArchiveTypes ==
    ASSUME Given, zip # None
    PROVE  /\ zip.entries \in Seq(Entry) /\ None \notin AttachmentBindingDetails
           /\ zip.manifest.attachments \in Optional([digest : Contents, inline : BOOLEAN])
           /\ zip.manifest.erasures \in Optional(Catalog)
           /\ zip.manifest.certificates \in Optional(Catalog)
           /\ zip.manifest.supersession \in Optional(Counted)
           /\ zip.attachments \in Optional(Seq(AttachmentEntry))
           /\ zip.erasures \in Optional(Seq(ErasureRow))
           /\ zip.certificates \in Optional(Seq(CertificateRow))
           /\ zip.graph \in Optional([head : Scopes, rows : Seq(Predecessor)])
           /\ zip.events \in Optional(Seq(EventRecord))
  BY ExportsAssumption DEF Given

\* Nothing is found in an archive that can be read exactly when its clauses hold.
LEMMA SpotlessHolds ==
    ASSUME XInv, FInv, Reading, stage = "done"
    PROVE  Spotless <=> ArchiveHolds(zip, types, BundleVerifies)
<1>1. Given /\ zip # None /\ Readable(zip)
  BY ReadableAtTheEnd DEF XInv, PastSweep
<1>2. zip.events \in Seq(EventRecord)
  BY <1>1, ArchiveTypes DEF Readable, Optional
<1>3. LinkedTo(cursor - 1) \in BOOLEAN
  BY DEF LinkedTo
<1>4. Spotless <=>
          /\ EventSetFailures(zip) = {} /\ AttachmentFailures(zip) = {}
          /\ ErasureCatalogFailures(zip) = {} /\ ArtifactsFound = {}
          /\ CertificateCatalogFailures(zip) = {} /\ SupersessionFailures(zip) = {}
          /\ OpenClockFailures(zip) = {} /\ RegistryFailures(zip) = {}
          /\ LinkedTo(cursor - 1) /\ HeadFound = {}
          /\ InclusionsFound = {} /\ ConsistenciesFound = {} /\ UnboundFailures(zip) = {}
  BY DEF Spotless, PastEvents, PastAttachments, PastErasures, PastArtifacts,
         PastCertificates, PastSupersession, PastClocks, PastRegistries, PastCheckpoints,
         PastInclusions, PastConsistencies, PastSweep
<1>5. EventSetFailures(zip) = {} <=> Judgement(EventSetInput(zip, types)) = "verified"
  BY DEF EventSetFailures, KindIf
<1>6. CASE Judgement(EventSetInput(zip, types)) # "verified"
  BY <1>4, <1>5, <1>6, Zenon DEF ArchiveHolds
<1>7. CASE Judgement(EventSetInput(zip, types)) = "verified"
  <2>1. Decodable(zip) = 1..Len(zip.events) /\ DecodableEvents(zip) = zip.events
    BY <1>1, <1>2, <1>7, EveryEventDecodes
  <2>2. EveryDecodes(zip)
    BY <1>1, <1>2, <2>1, ArchiveTypes DEF EveryDecodes
  <2>3. AttachmentFailures(zip) = {} <=> AttachmentsHold(zip)
    BY <1>1, <2>2, ArchiveTypes, AttachmentsFound
  <2>4. /\ ErasureCatalogFailures(zip) = {} <=>
               CatalogHolds(zip, zip.manifest.erasures, zip.erasures, DescribesErasure)
        /\ CertificateCatalogFailures(zip) = {} <=>
               CatalogHolds(zip, zip.manifest.certificates, zip.certificates,
                            DescribesCertificate)
    BY <1>1, <2>2, ArchiveTypes, CatalogsFound
  <2>5. ArtifactsFound = {} <=> ArtifactsHold(zip)
    BY <1>7, <2>2, ArtifactsMatch DEF ArtifactsFound
  <2>6. /\ OpenClockFailures(zip) = {} <=> ClocksHold(zip)
        /\ RegistryFailures(zip) = {} <=> RegistriesHold(zip)
    BY RegistriesMatch, ClocksMatch
  <2>7. SupersessionFailures(zip) = {} <=> SupersessionHolds(zip, BundleVerifies)
    BY <1>1, <2>2, ArchiveTypes, SupersessionMatches
  <2>8. /\ LinkedTo(cursor - 1) /\ HeadFound = {} <=> CheckpointsHold(zip)
        /\ CheckpointsHold(zip) => headRoot = HeadCheckpoint(zip).root /\ headRoot # None
    BY <1>2, <2>1, CheckpointsMatch
  <2>9. CheckpointsHold(zip) => (InclusionsFound = {} /\ ConsistenciesFound = {} <=> ProofsHold(zip))
    BY <1>1, <1>2, <2>1, <2>8, ProofsMatch
  <2>10. UnboundFailures(zip) = {} <=> Members(zip) \subseteq BoundMembers(zip)
    BY DEF UnboundFailures, KindIf
  <2>11. ArchiveHolds(zip, types, BundleVerifies) <=>
            /\ AttachmentsHold(zip)
            /\ CatalogHolds(zip, zip.manifest.erasures, zip.erasures, DescribesErasure)
            /\ CatalogHolds(zip, zip.manifest.certificates, zip.certificates,
                            DescribesCertificate)
            /\ ArtifactsHold(zip) /\ RegistriesHold(zip) /\ ClocksHold(zip)
            /\ SupersessionHolds(zip, BundleVerifies)
            /\ CheckpointsHold(zip) /\ ProofsHold(zip)
            /\ Members(zip) \subseteq BoundMembers(zip)
    BY <1>7, Zenon DEF ArchiveHolds
  <2> QED
    BY ONLY <1>4, <1>5, <1>7, <2>3, <2>4, <2>5, <2>6, <2>7, <2>8, <2>9, <2>10, <2>11, Zenon
<1> QED
  BY <1>6, <1>7

\* A call that has returned gave the verdict of the clauses.
Decided == stage = "done" => Verdict = ExportJudgement(zip, types)

LEMMA ReturnedIsJudged == ASSUME XInv, FInv PROVE Decided
<1> SUFFICES ASSUME stage = "done" PROVE Verdict = ExportJudgement(zip, types)
  BY DEF Decided
<1>1. report = WholeReport \/ \E kind \in RefusalKinds : report = FatalReport(kind)
  BY DEF XInv, TypeOK
<1>2. CASE ~report.structure
  <2>1. zip = None \/ ~Readable(zip)
    BY <1>2 DEF XInv, Refused
  <2>2. ExportJudgement(zip, types) = "refused"
    BY <2>1, Zenon DEF ExportJudgement
  <2> QED
    BY <1>2, <2>2 DEF Verdict
<1>3. CASE report.structure
  <2>1. Reading
    BY <1>3 DEF Reading
  <2>2. zip # None /\ Readable(zip)
    BY <2>1, ReadableAtTheEnd DEF PastSweep
  <2>3. report = WholeReport
    BY <1>1, <1>3 DEF FatalReport
  <2>4. report.integrity <=> ArchiveHolds(zip, types, BundleVerifies)
    <3>1. report.integrity <=> failures = {}
      BY <2>3 DEF WholeReport
    <3> QED
      BY <2>1, <3>1, SpotlessHolds DEF FInv
  <2>5. ExportJudgement(zip, types)
            = IF ArchiveHolds(zip, types, BundleVerifies) THEN "verified" ELSE "tampered"
    BY <2>2, Zenon DEF ExportJudgement
  <2>6. Verdict = IF report.integrity THEN "verified" ELSE "tampered"
    BY <1>3, Zenon DEF Verdict
  <2>7. CASE report.integrity
    BY <2>4, <2>5, <2>6, <2>7
  <2>8. CASE ~report.integrity
    BY <2>4, <2>5, <2>6, <2>8
  <2> QED
    BY <2>7, <2>8
<1> QED
  BY <1>2, <1>3

LEMMA DecidesOnce ==
    ASSUME [Next]_vars, Decided'
    PROVE  [Judge!Decide]_<<call, zip, types, Verdict>>
<1>1. CASE UNCHANGED vars
  BY <1>1 DEF vars, callVars, Verdict
<1>2. CASE Next
  <2>1. stage # "done" /\ UNCHANGED <<call, zip, types>>
    BY <1>2 DEF Next, OpenArchive, CheckMembers, VerifyEvents, VerifyAttachments,
                VerifyErasureCatalog, VerifyArtifacts, VerifyCertificateCatalog,
                VerifySupersession, VerifyOpenClocks, VerifyRegistryBindings, SkipCheckpoint,
                CountCheckpoint, VerifyHead, VerifyInclusionProofs, VerifyConsistencyProofs,
                SweepMembers, ReturnReport, Stage, Checking, callVars
  <2>2. Verdict = "pending"
    BY <2>1 DEF Verdict
  <2>3. CASE stage' # "done"
    <3>1. Verdict' = "pending"
      BY <2>3 DEF Verdict
    <3> QED
      BY <2>1, <2>2, <3>1
  <2>4. CASE stage' = "done"
    <3>1. Verdict' = ExportJudgement(zip, types)
      <4>1. Verdict' = ExportJudgement(zip, types)'
        BY <2>4 DEF Decided
      <4>2. ExportJudgement(zip, types)' = ExportJudgement(zip, types)
        BY <2>1
      <4> QED
        BY <4>1, <4>2
    <3>2. Verdict' \in {"refused", "verified", "tampered"}
      BY <2>4 DEF Verdict
    <3>3. Judge!Decide
      BY <2>1, <2>2, <3>1, <3>2, Zenon DEF Judge!Decide
    <3> QED
      BY <3>3
  <2> QED
    BY <2>3, <2>4
<1> QED
  BY <1>1, <1>2

\* The layer above takes the steps of the call, and none of its own on its variables.
LEMMA LayeredIsExport == LayeredSpec => Spec
<1>1. [LayeredNext]_layeredVars => [Next]_vars
  BY DEF LayeredNext, layeredVars, Consult
<1> QED
  BY <1>1, PTL DEF LayeredSpec, LayeredInit, Spec

\* One call takes one decision, and it is the one the clauses give of the archive it was
\* given: verify_export_zip passes over no stage, and finds what there is to find
\* (export.rs:135-1100).
THEOREM VerdictIsJudged == LayeredSpec => ImplementsExportJudge
<1>1. Init => Judge!Init
  BY DEF Init, Judge!Init, Verdict
<1>2. XInv /\ FInv => Decided
  BY ReturnedIsJudged
<1>3. [Next]_vars /\ Decided' => [Judge!Decide]_<<call, zip, types, Verdict>>
  BY DecidesOnce
<1>4. LayeredSpec => []XInv /\ []FInv
  <2>1. LInv => XInv
    BY DEF LInv
  <2> QED
    BY <2>1, LayeredInvariance, FindingInvariance, PTL
<1> QED
  BY <1>1, <1>2, <1>3, <1>4, LayeredIsExport, PTL DEF Spec, ImplementsExportJudge, Judge!Safety

\* A call that admits no further identity types, as the walk over bundled predecessors
\* makes it of a bundle (verify_export_zip, supersession.rs:156), verifies it exactly when
\* BundleVerifies says so: the contract the walk takes that call at is the one Export keeps.
CallsKeepTheContract ==
    \A content \in Contents :
        stage = "done" /\ zip = Bundles[content] /\ types = {} =>
            (Verdict = "verified" <=> BundleVerifies[content])

THEOREM ContractKept == LayeredSpec => []CallsKeepTheContract
<1>1. ASSUME XInv, FInv, NEW content \in Contents, stage = "done", zip = Bundles[content], types = {}
      PROVE  Verdict = "verified" <=> BundleVerifies[content]
  <2>1. Verdict = ExportJudgement(zip, {})
    BY <1>1, ReturnedIsJudged DEF Decided
  <2>2. BundleVerifies[content] <=>
            zip # None /\ Readable(zip) /\ ArchiveHolds(zip, {}, BundleVerifies)
    BY <1>1, BundleUnfolds, Zenon DEF Verifies
  <2>3. CASE zip = None \/ ~Readable(zip)
    <3>1. ExportJudgement(zip, {}) = "refused"
      BY <2>3, Zenon DEF ExportJudgement
    <3> QED
      BY <2>1, <2>2, <2>3, <3>1
  <2>4. CASE zip # None /\ Readable(zip)
    <3>1. ExportJudgement(zip, {})
              = IF ArchiveHolds(zip, {}, BundleVerifies) THEN "verified" ELSE "tampered"
      BY <2>4, Zenon DEF ExportJudgement
    <3>2. CASE ArchiveHolds(zip, {}, BundleVerifies)
      BY <2>1, <2>2, <2>4, <3>1, <3>2
    <3>3. CASE ~ArchiveHolds(zip, {}, BundleVerifies)
      BY <2>1, <2>2, <3>1, <3>3
    <3> QED
      BY <3>2, <3>3
  <2> QED
    BY <2>3, <2>4
<1>2. XInv /\ FInv => CallsKeepTheContract
  BY <1>1 DEF CallsKeepTheContract
<1>3. LInv => XInv
  BY DEF LInv
<1> QED
  BY <1>2, <1>3, LayeredInvariance, FindingInvariance, PTL
=============================================================================
