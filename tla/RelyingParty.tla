---------------------------- MODULE RelyingParty ----------------------------
(***************************************************************************)
(* verify_export_zip_with_validator (trellis/export.rs) and the verdict a     *)
(* relying party reads (trellis/validator.rs): after the export's own report  *)
(* the archive is parsed once more and shown to the consumer's validator,     *)
(* whose findings are joined with the report.  The command line's exit code   *)
(* (integrity-verify-cli) is a second reading of the same two parts.          *)
(***************************************************************************)
EXTENDS Export

CONSTANT Answers   \* the sets of findings a validator may return

VARIABLES
    shown,     \* the events the validator was given, None when it was not asked
    findings   \* domain_findings, None until verify_export_zip_with_validator returns

layeredVars == <<vars, shown, findings>>

\* The kinds is_projection_finding tells apart, and one it does not list.
ProjectionKinds == {"missing_signed_acts_catalog", "signed_acts_catalog_digest_mismatch",
                    "signed_acts_catalog_invalid", "signed_acts_catalog_unbound",
                    "signed_acts_render_drift"}
OtherKinds == {"signed_acts_manifest_mismatch"}
DomainFinding == [kind : ProjectionKinds \cup OtherKinds,
                  severity : {"Failure", "Advisory"}]


\* What the validator is given of an event.
DomainEvent == [eventType : STRING, hash : Hashes, payload : Optional(Contents),
                authoredAt : Times]

\* A list of events is not the absence of one.
ASSUME AnswersAssumption ==
    Answers \subseteq SUBSET DomainFinding /\ None \notin Seq(DomainEvent)

LayeredInit == Init /\ shown = None /\ findings = None

-----------------------------------------------------------------------------
(* The second parse.  It looks at no signature and no digest.                *)

ExtensionFields == {"seal_fence", "attachments", "erasure", "certificates", "supersession",
                    "open_clocks"}

\* Extensions that are no map leave every extension malformed.
DomainParses(a) ==
    /\ Opens(a) /\ HasMember(a, Core("000-manifest"))
    /\ a.manifest.envelope /\ "payload" \notin a.manifest.malformed
    /\ ~(ExtensionFields \subseteq a.manifest.malformed)
    /\ a.events # None

DomainEvents(a) ==
    LET events == DecodableEvents(a)
    IN  [k \in DOMAIN events |->
            [eventType |-> events[k].eventType, hash |-> events[k].hash,
             payload |-> ReadablePayload(EventSetInput(a, types), events[k]),
             authoredAt |-> events[k].authoredAt]]

\* The gate is the structure of the report alone; the validator then answers.
Consult ==
    /\ stage = "done" /\ findings = None
    /\ IF report.structure /\ DomainParses(zip)
       THEN shown' = DomainEvents(zip) /\ findings' \in Answers
       ELSE shown' = None /\ findings' = {}
    /\ UNCHANGED vars

LayeredNext == (Next /\ UNCHANGED <<shown, findings>>) \/ Consult

LayeredSpec == LayeredInit /\ [][LayeredNext]_layeredVars

-----------------------------------------------------------------------------
(* RelyingPartyVerdict::from_parts.                                           *)

\* A slip: structure is taken for the whole of cryptographic integrity.
CryptographicStructure == IF report.structure THEN "Pass" ELSE "Fail"

CryptographicIntegrity ==
    IF report.structure /\ report.integrity THEN "Pass" ELSE "Fail"

Failed(kinds) == \E f \in findings : f.severity = "Failure" /\ f.kind \in kinds

Tier(kinds) ==
    IF CryptographicIntegrity # "Pass" THEN "Indeterminate"
    ELSE IF Failed(kinds) THEN "Fail" ELSE "Pass"

ProjectionIntegrity == Tier(ProjectionKinds)
DomainAdmissibility == Tier(OtherKinds)

Tiers == <<CryptographicIntegrity, ProjectionIntegrity, DomainAdmissibility>>

\* blocking_reasons holds one reason for each tier that failed.
RelyingPartyResult ==
    IF \A k \in DOMAIN Tiers : Tiers[k] = "Pass" THEN "Valid"
    ELSE IF \A k \in DOMAIN Tiers : Tiers[k] # "Fail" THEN "Indeterminate"
    ELSE "Invalid"

\* A slip: advisories count as failures of the domain.
DomainFailuresAny == findings

DomainFailures == {f \in findings : f.severity = "Failure"}

\* verify-export: 0 when nothing failed in either layer.
ExitCode ==
    IF report.failures = {} /\ DomainFailures = {} /\ report.structure /\ report.integrity
    THEN 0 ELSE 1

-----------------------------------------------------------------------------
(* Properties. *)

Answered == findings # None

\* What a relying party may accept was checked in both layers: the export verified,
\* the validator was shown every event of the ledger in its order, and found no
\* failure (the early returns of verify_export_zip_with_validator leave no findings,
\* as a validator that was content does).
ValidMeansValidated ==
    Answered /\ RelyingPartyResult = "Valid" =>
        /\ Verdict = "verified"
        /\ shown # None
        /\ Len(shown) = Len(zip.events)
        /\ \A k \in DOMAIN shown : shown[k].hash = zip.events[k].hash
        /\ \A f \in findings : f.severity = "Advisory"

\* The exit code of the command line and the verdict of the library, computed by
\* different code from different fields, never disagree.
ExitAgreesWithVerdict == Answered => (ExitCode = 0 <=> RelyingPartyResult = "Valid")

\* A validator is given verified events: so the doc of DomainEvent says, and those of
\* validate_events and validate_export (validator.rs:190, 250, 255).
ValidatorsSeeVerifiedEvents ==
    Answered /\ shown # None =>
        \A k \in DOMAIN shown : \E i \in DOMAIN zip.events :
            LET e == zip.events[i]
            IN  /\ e.hash = shown[k].hash
                /\ zip.registry[e.kid] # None
                /\ e.signer = zip.registry[e.kid].key
=============================================================================
