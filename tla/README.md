# integrity-stack: a verification project

The repository is a stack for signed, append-only ledgers: canonical CBOR and JSON, COSE_Sign1
envelopes, signature adapters, HPKE key wrapping, a deterministic ZIP bundle, and the verifier
that decides from the bytes alone whether a ledger, a single event or an exported archive is
what its author says it is.  The verifier (crate `integrity-verify`, module `trellis`) is where
most of the hard rules are.  It is one long sequential pass with early returns, `continue`s that
skip state updates, running state compared with the *last admitted* thing, passes after the loop
over what the loop collected, and verdicts folded from lists filled in different places.  So its
specifications ask one question in different forms: *does the order of the code matter where it
should not, and is anything it finds lost on the way to the verdict?*

Around it stand the parts that make what it verifies.  They have other questions.  The signature
adapters and the COSE codecs are written twice, in two languages: *do both read and check the
same?*  Key wrapping, sealing and co-signing are called by several tasks, which share a
randomness source, an application's key, a document: *does what one caller is given rest on its
own call alone?*  The canonical forms and the archive are written in one place and read in
another: *does what was written come back, and nothing else?*

All paths below are under `src/crates/` unless they say otherwise.

## 1. Inventory

| Part | State | Operations | Interacts with |
|---|---|---|---|
| Event-set verifier (`integrity-verify/src/trellis/mod.rs`, `types.rs`) | per call: last admitted hash and time, idempotency index, posture shadows, admitted summaries, outcomes, failures | `verify_event_set_with_classes`: a loop over events, three finalization passes, the fold into a report; around it `verify_single_event`, `verify_tampered_ledger` | key registry, payload blobs, record validator; called by the export verifier |
| Erasure, certificate, attestation passes (`erasure.rs`, `certificate.rs`, `user_attestation.rs`) | none of their own | one pass each over decoded events after the loop; catalogs and artifact lineage over an archive | failure list, admitted summaries, registry classes |
| Key registry and parsers (`parse.rs`, `util.rs`, `certificate_proof.rs`) | two maps being built: signing and non-signing keys | `parse_key_registry`, a loop whose later entries replace earlier ones; CBOR to records | every entry point |
| Export verifier (`export.rs`) | the archive's members, the last counted checkpoint's digest and root, failures | some forty ordered checks, most of them fatal at the first fault; checkpoint loop; proofs; sweep for unbound members | all the parts in this table |
| Merkle proofs (`merkle.rs`) | none | roots, inclusion and consistency proofs (RFC 6962) | export verifier |
| Supersession graph (`supersession.rs`) | the path of chains above the row | header, linkage and cycle checks, a walk through bundled predecessors, each verified recursively | export verifier, both ways |
| Interop sidecars, open clocks (`interop_sidecar.rs`, `open_clocks.rs`) | none | binding of members to the manifest | export verifier |
| Record validators and verdict (`validator.rs`) | none | consumer callbacks over events and exports; `RelyingPartyVerdict::from_parts` | export verifier, command line |
| Universal phase (`lib.rs`, `report.rs`, `bundle.rs`, `chain.rs`, `canonical.rs`, `cose.rs`, `profile.rs` of `integrity-verify`) | finding lists | bundle order, envelope shape, signature, dispatch to a profile, chain continuity, digest, roll-up into flags and a tier | COSE, profile verifiers, command line |
| Command line (`integrity-verify-cli`) | the walk over its arguments, what it has written | `verify`, `verify-export`: arguments, file, report, sections, exit code | both verifiers |
| ZIP bundle (`integrity-bundle`) | the entries added | deterministic writer, strict reader | export verifier |
| COSE (`integrity-cose`, `src/packages/integrity-cose`) | none | encode (attached, detached, substrate header), decode, method-URI decoders, payload resolution, `verify_ed25519`, `default_async_sign` | adapters, universal phase, seam |
| Signature port and adapters (`integrity-signature`, `integrity-signature-ring`, `src/packages/integrity-signature-port`, `src/packages/integrity-signature-adapter-webcrypto`) | a resolver's bindings of identifiers to keys; per TypeScript call, what the turns so far established | `verify` in Rust (synchronous) and TypeScript (three awaits): method registry, key, binding of the envelope, primitive, receipt; `insert` of a binding; signed receipts | COSE, key resolvers, receipt signers |
| HPKE (`integrity-hpke`) | per call, a generator that latches the first error of its source | `wrap_dek`, `unwrap_dek`, a fixture variant | randomness seam |
| Seam (`integrity-seam`) | none | `default_seal_input`; the traits of the seal builder, the signer and `SecureRandom` | COSE, HPKE |
| Canonical JSON (`integrity-canonical`) | none | signed payload, handoff hash and their verification over a Response | seam, consumers |
| Canonical CBOR (`integrity-cbor`) | none | canonical form, bytes, JSON to CBOR and back, map look-ups | all parsers |
| Event envelope, parity harness, fixtures, fuzzing, workflows | none | header constants and builders, tooling | |

What is hard, by part (PROJECT.json lists each hazard at its line):

- *Event set.* An event whose signature fails is skipped before anything is updated, yet later
  passes still find it by hash; links, clock and idempotency compare with the last admitted
  event; the posture shadow follows failed transitions too; `skip_prev_hash_check` is decided
  once for the whole call; a replay of an identity may lie anywhere.  Correct when the verdict
  is a function of the ledger alone, nothing skipped is verified, nothing found is forgotten.
- *Key registry.* A kid may have several entries, in either class; of two signing ones the last
  stays; an entry may be refused with a kind, which becomes a report, or without one, which is an
  `Err`.  Correct when a ledger verifies only under the entry that is in force.
- *Passes.* Erasure evidence is compared with events before and after it; certificates resolve
  by hash among events that were never admitted; attestations compare sequence numbers.
  Correct when a failed outcome always leaves a failure, and when what a verified outcome rests
  on was itself verified.
- *Export.* Checkpoints that are skipped leave the running state of the loop behind; the
  inclusion proofs use the ledger's size and the head's root; the sweep's allowance rests on an
  earlier stage having ended the call; the event-set call's structure verdict is overwritten.
  Correct when the verdict is the one an order-free reading of the archive gives, and when what
  is proved is under the head the manifest names.
- *Supersession.* One shared path is threaded through a recursion over archives inside
  archives.  Correct when a chain above a row is never lost and a diamond is not a cycle.
- *Merkle.* Bit arithmetic decides how long a path must be.  Correct when exactly the audit
  paths and consistency proofs of RFC 6962 are accepted.
- *Signatures.* The key is resolved turns before it is used; a throw at any turn must not become
  a verdict; the two languages check in different orders.  Correct when a verdict is said only
  of what was checked, under the key named at the call, and when the adapters agree.
- *Verdicts.* Library, command line and domain layer each fold the same findings from different
  fields; the command line writes in sections, each of which may fail.  Correct when they agree,
  when an early return is never read as a pass, and when exit code 0 means all of the report.
- *Key wraps.* The hpke crate takes a generator that cannot fail, so a failed source yields zeros
  until the call looks at the latch.  Correct when no wrap rests on a zero, no two share a draw,
  and a failure refuses the call that met it and no other.
- *Sealing.* The bytes to be signed are built under one key and signed, after an await, under the
  key held by then.  Correct when nothing signed by another key than the one requested is
  accepted, and when a hash determines tag and document.
- *Co-signing.* Signatures are collected in the document they are over.  Correct when each
  verifies exactly while the answers are those its signer read.
- *Codecs, archive, canonical forms.* A label twice, a retired label, a payload both embedded and
  supplied; offsets, lengths and limits of 16 and 32 bits, an archive as an entry of an archive;
  maps as keys of maps, tagged strings under a path.  Correct when what is written is read as it
  was and an alteration is never read as something else.

## 2. Modules

Data and time: a digest, a name, a payload is a member of a small set; hashing is injective and a
signature is the key that made it.  In the verifiers, parsing is what it decides; in the codecs it
is modelled, over items and cells instead of bits.  The control - every guard, early return,
failure kind and the order of them - is kept.

| Module | Models | Correspondence |
|---|---|---|
| `Records` | `types.rs`, `parse.rs`, `kinds.rs` | a parsed event with its payload, registry entries, the arguments of a call, failures |
| `Erasure`, `Certificates`, `UserAttestation` | the passes of those names | operators over a ledger and the set of admitted indices: outcomes and failures |
| `EventSet` | `verify_event_set_with_classes` | variables are its local variables; an action is one iteration of the loop (`ReturnFatal`, `RejectSignature`, `AdmitEvent`) or one call after it (`FinalizeErasure`, `FinalizeCertificates`, `FinalizeAttestations`, `ReturnReport`) |
| `LedgerClauses`, `LedgerJudge` | the abstract verifier of a ledger | one decision per call, by clauses over the whole ledger that mention no order of evaluation |
| `LedgerCalls` | `verify_single_event`, `verify_tampered_ledger` with a validator, `parse_key_registry` | `ReadEntry` and `RefuseEntry` are one iteration of the registry loop, the other actions the returns around it; the event set is taken at `LedgerClauses!Judgement` |
| `LedgerCallClauses`, `LedgerCallJudge` | the abstract entry points | the fields of an entry and what refuses it; the promise over the whole document: the first refused entry decides, else the last entry of each kid in each class |
| `ChainContinuity` | `chain.rs` | the universal chain check, also used to judge `EventSet` |
| `Merkle` | `merkle.rs` | the iterative root and the two proof verifiers, beside the recursive definitions of RFC 6962 |
| `ExportMembers` | the archive, its members by path and what each holds if it parses; sidecars, seal fence, attachments, both catalogs, artifact lineage, open clocks, bound registries, the sweep | the failure kinds each call pushes, or the one it returns with |
| `Supersession` | `supersession.rs` | graph checks; `NestedFailures` is the walk, a recursive function of a bundle and the path to it |
| `Export` | `verify_export_zip_with_record_validator` | an action is one stage, or one iteration of the checkpoint loop; `Stage` is the pattern *return at the first fault, else push and go on* |
| `ExportClauses`, `ExportJudge` | the abstract verifier of an archive | as `LedgerJudge`, over the whole archive |
| `RelyingParty` | `verify_export_zip_with_validator`, `RelyingPartyVerdict::from_parts`, the exit condition of `verify-export` | extends `Export` by one action, `Consult`: the second parse and the validator's answer |
| `Universal` | `verify_universal`, the exit condition of `verify` | an action is one check or one iteration over the events |
| `SignatureAdapters` | `RingVerifier::verify`, `WebCryptoVerifier.verify`, the ports | one request to both: `RingVerify` is the whole Rust call; `WebCall`, `WebImport`, `WebBind` and `WebVerdict` are what the TypeScript call does between awaits; `Insert` is another turn rebinding an identifier.  Each has a decoder and a primitive of its own: `ReadsItems`, `MethodRead` and `TakesModulus` say where they differ |
| `PrimitiveCalls` | - | the number of calls started, shared by the modules below |
| `KeyWrap` | `wrap_dek`, `SecureRandomRng`, the randomness seam | a caller is a record of its call; `FillBytes` is one draw, which fails or not, `FillZeros` one after a failure, `SealDone` the crate's return and the look at the latch |
| `Sealing` | `default_seal_input`, `default_async_sign` | `BuildSealInput`, `AsyncSign`, and the application's `RotateKey` between them |
| `CoSigning` | the commitments of `integrity-canonical` | `BuildSignedPayload`, `AttachSignature`, `HandOff`, and `Amend` by others |
| `CoseCodec` | both COSE codecs, header builders, method-URI decoders, payload resolution, `verify_ed25519` | items of CBOR in, a decoded envelope or nothing out; `Send` encodes, `Alter` changes one item on the way |
| `ZipBundle` | `Bundle::to_zip_bytes`, `read_stored_zip` | a byte is a cell, a header the block of cells it takes; `AddEntry`, and one of every edit in `AlterArchive` |
| `MerkleQuestions` | the callers of `merkle.rs` | a question (a leaf or an older head, a proof of it) and its answer |
| `CanonicalCbor`, `PrimitiveQuestions` | `integrity-cbor` and its callers | a question (a pair of values, a JSON document) and its answer; what recurs over a value in the code is here a function for each nesting depth, made from the one below |
| `CommandLine` | `run`, `verify_command`, `verify_export_command` | an action is one argument, the file, one section written or not, the exit |
| `Primitives` | - | one kind of caller a behaviour, of the modules above from `KeyWrap` on |
| `EventSetProofs` | - | the theorems about `EventSet`, that it implements `LedgerJudge` included |
| `LedgerCallProofs` | - | the theorems about `LedgerCalls` |
| `SignatureProofs` | - | the theorems about `SignatureAdapters` |
| `UniversalProofs` | - | the theorems about `Universal` |
| `ExportProofs` | - | the theorems about `Export` and `RelyingParty`, that `Export` implements `ExportJudge` and those about bundles within bundles included |
| `MerkleProofs` | - | the theorems about `Merkle` |
| `PrimitiveProofs` | - | the theorems about `KeyWrap`, `Sealing`, `CoSigning`, `CoseCodec`, `ZipBundle`, `MerkleQuestions` and `CommandLine` |
| `CborProofs` | - | the theorems about `CanonicalCbor` and `PrimitiveQuestions`, and about `Primitives` as a whole |
| `MC...` | - | samples and calls for TLC, a section of the module for each family of them; `MCBase` holds the honest event and `MCExport` the honest archive every sample varies |

Compositions: `EventSet` uses the three passes; `EventSet` implements `LedgerJudge`; `Export` and
`LedgerCalls` take the event-set call at its contract, `LedgerClauses!Judgement`, which is what
that refinement establishes; `Export` takes the call on a bundled predecessor at its contract
`BundleVerifies`, which `ContractKept` proves of `Export` itself; `Export` implements
`ExportJudge`, `LedgerCalls` implements `LedgerCallJudge`; `RelyingParty` extends `Export`; `Universal` and `EventSet` share
`ChainContinuity`; `CommandLine` takes a report's verdict from either verifier, whose exit
conditions `RelyingParty` and `Universal` check.

`Primitives` joins the remaining parts in one specification although they share no state in this
code (apart from the encoders, which are operators): its `scene` says which of them a behaviour
follows.  What does interleave is several callers of one kind.

The operators named as a *slip* (`ScanningButLast`, `PathBelowForgetful`, ...) are plausible
bugs, kept beside the definition they would replace; PROJECT.json says which property each
breaks.

## 3. Runs

A call of a verifier is one sequential computation, so the runs of the verifiers explore many
calls rather than many interleavings: the initial states are the calls, and an action's place in
its call is fixed by the state.  `signatures` and `primitives` have interleavings.
`CHECK_DEADLOCK FALSE` stands in every configuration for one of two reasons: a call returns and
there is nothing after it, or the number of calls, edits and entries is bounded.

| Run | Configuration | Shows | Inputs and bounds |
|---|---|---|---|
| `events` | `MCEvents.cfg` | types; `VerifiedSkipsNothing`, `VerifiedLinksPassContinuity`, `OutcomesLeaveFailures`, `NoUnattestedUpgrade`, `VerifiedCertificatesRestOnSignedEvents`, `NothingIsForgotten`; `EventSet` implements `LedgerJudge`, and so returns | ledgers of up to three events over nine linked samples (two chains from one genesis, a second genesis, replays, steps back in time, a forged copy), of up to two over sixteen more, one for every way a single event is refused; ledgers of up to three of four other families: transitions (under four initial postures and two declarations), destroyed keys (signing, subject, unregistered), certificates (inline, supplied, missing, forged signing events; linked and unlinked), attestations (positions, proofs, scopes, keys of every status); the call forms |
| `ledger_calls` | `MCLedgerCalls.cfg` | types; `VerifiedUnderListedKeys`; `LedgerCalls` implements `LedgerCallJudge`, and so returns | documents of up to two of twenty-eight entries and of three of twelve, most about one kid: two keys, every status, both classes, every form of a time and every refusal, typed or not; seven ledgers; single events under two keys |
| `export` | `MCExport.cfg` | types, among them that head root and head digest are of one checkpoint; `ProvedEventsAreCommitted`, `ValidMeansValidated`, `ExitAgreesWithVerdict`; `Export` implements `ExportJudge` | five ledgers, lists of up to three of seventeen checkpoints (foreign, oversized, empty, unlinked, forged, wrong root, ...), every head, every inclusion and consistency proof over them; an archive with every member the verifier knows under any two edits of members, manifest or contents; archives with supersession graphs of up to two rows over bundles nested three deep (`Sizes` counts levels); four answers of a validator |
| `universal` | `MCUniversal.cfg` | `ReportIsItsInputs`, `ExitZeroMeansVerified` | up to two events of thirteen kinds, chains of up to three rows, path lists of up to three paths, digests, verifiers |
| `signatures` | `MCSignatures.cfg` | types; `VerdictsAreChecked`, `VerifiedIsSigned`, `AdaptersAgree`, `NoUnsignedReceipt`; both calls are answered | envelopes with one wrong value and any absent ones, two methods, an identifier or a raw key; envelopes only one decoder reads, a method URI behind U+FEFF; every method with every key (lengths 32, 65, 99 and more, right and unreadable, RSA moduli of 720, 2048, 8192 and 16384 bits); registries that repeat a method, deprecate it, or give it a status of neither kind; three constructions of the Rust adapter; one rebinding at any moment |
| `primitives` | `MCPrimitives.cfg` | `WrapsAreFresh`, `FailuresAreOwn`; `OneHashOneRequest`, `AcceptedUnderRequestedKey`; `CoSignaturesStand`; `EncodedIsRead`, `CodecsReadAlike`, `OnlyTheSignedVerifies`; `PackedIsRead`, `EditsAreCaught`; `OnlyTheAuditPathProves`, `OnlyOneHistoryIsConsistent`, `OneMeaningOneEncoding`, `JsonSurvives`; `ExitZeroIsTheWholeReport`; every wrap and every sealing comes back | by kind: two callers of `wrap_dek`, up to three calls of two draws, a source that fails at any draw; two tasks, two keys, tags and documents that run into each other; two co-signers, two answers, three steps; six headers, attached and detached, and up to two alterations of an item, the shape or the header; up to three of seven entries, one edit of any field to seven values, any cut, another archive before it; every proof over trees of one to seven leaves, with a node dropped, replaced, or the whole repeated, and histories that fork at any leaf; pairs of some eighty CBOR values nested up to three deep (`MaxDepth` = 3), JSON two objects deep under four sets of tagged paths, one of a tag the way back refuses; command lines of up to five arguments |
| `chain_sequence`, `identity_order`, `export_sidecars`, `forged_shown`, `keyed_events`, `method_decoders` | `MC<Name>.cfg` | the findings of section 6: TLC finds the stated property violated | as the run of the same module |

Why the bounds are enough to be of use.  What the loop of `EventSet` compares is always two
things at a distance (an event and the last admitted one; an identity and its first event; a row
of evidence and an event), so three events give a pair, something between them that could
disturb the pair, and something skipped; the theorems of section 5 then remove the bound for
everything the loop does, as they do for the registry loop.  A checkpoint list of three holds a
counted checkpoint, a skipped one and the one compared with both.  Seven leaves contain balanced,
unbalanced and power-of-two trees with every border shape of depth three.  Three levels of bundles
are the least that tell "the chain above" from "the chains above", over three chains that may form
a cycle or a diamond.  Two edits of a complete archive pair every fault with every other, which is
what an *early return before a later check* needs to be seen.

Two callers and three calls give a failure met by one, seen or not by the other and by a later
call of the same; two draws give a call whose first draw succeeded and whose second did not.  An
envelope altered twice can have a label twice and be of another shape, or say in its payload what
it no longer says in its header.  The 16- and 32-bit limits of the archive are constants (`MaxU16`
= 2, `MaxU32` = 400), so that a path too long, an archive too large and a count too high occur; the
headers keep their real lengths, as offsets are computed from them.  An entry whose payload is an
archive gives the reader a second end record, and local and central headers, inside the first.
CBOR integers lie on both sides of every change of head up to four bytes; beyond that TLC's own
integers end, and the theorems go on to `u64`.

Samples are states a producer could reach: an event embeds only digests of events before it
(`Producible`, or `Chained`, which derives links and digests from the order).

## 4. Fairness

`EventSet` and `LedgerCalls`: `FairSpec == Spec /\ WF_vars(Next)`.  The call is a sequential
function without I/O, locks or callbacks that wait; while a step is enabled the next instruction
is executed.  It is assumed only for the fairness part of `ImplementsJudge` and
`ImplementsCallJudge`: the judge decides every call, so every call returns.
The validator of `RelyingParty` is consumer code; nothing is claimed about whether it returns, and
no fairness is given to `Consult`.

`SignatureAdapters` assumes `WF_vars(RingVerify)` (a synchronous call) and `WF_vars(Web)`: the
promises the TypeScript call awaits are settled, by a table lookup or by the platform's own
cryptography, and the event loop runs a settled continuation.  Nothing is assumed of `Insert`.

`Primitives` assumes, for each caller of `wrap_dek`, weak fairness of its call going on (it runs on
the caller's thread, and a draw answers with bytes or with an error), and for each task, of the
future it awaits being polled.  Nothing is assumed of starting a call, of rotating a key, of
co-signers, or of the command line.  `CallsReturn` has teeth because a failed source must not stop
a call and an unreadable kid must not leave a task waiting.

## 5. What is proved

`tlapm` proves, for every value of the constants - every set of calls, ledger, registry document,
posture and digest domain; every number of callers, draws, keys, requests and amendments:

| Theorem | Module | States |
|---|---|---|
| `TypeCorrectness` | `EventSetProofs` | `Spec => []TypeOK` |
| `Invariance` | `EventSetProofs` | `Spec => []Inv`, the strengthening all others about `EventSet` rest on |
| `Refinement` | `EventSetProofs` | `Spec => Judge!Safety`: the loop and its passes implement the order-free judge |
| `OutcomesAreLoud` | `EventSetProofs` | no outcome fails without a failure in the report |
| `NothingSkipped` | `EventSetProofs` | a verified ledger had every event admitted |
| `LinksPassContinuity` | `EventSetProofs` | its links pass the universal chain check |
| `CertificatesRestOnSignedEvents` | `EventSetProofs` | its certificates rest on events whose signatures verify |
| `NothingForgotten` | `EventSetProofs` | no step takes back a failure or rebinds an identity |
| `CustodyNeverDrifts` | `EventSetProofs` | custody rises only with both authorities |
| `CallTypes` | `LedgerCallProofs` | `Spec => []TypeOK` of a call with its registry document |
| `CallImplementsJudge` | `LedgerCallProofs` | `Spec => Promise!Safety`: the registry loop and the returns around it implement the promise that has no loop |
| `ListedKeysOnly` | `LedgerCallProofs` | a ledger verifies only under the last signing entry of each kid |
| `SignatureInvariance` | `SignatureProofs` | `Spec => []SInv`, over every request, registry, resolver and number of rebindings |
| `VerdictsChecked` | `SignatureProofs` | neither adapter says verified or failed of what it did not check |
| `VerifiedSigned` | `SignatureProofs` | verified means signed by the key named at the call, under a method the adapter reads as the one named |
| `SignatureTypes` | `SignatureProofs` | `Spec => []TypeOK` of the two adapters |
| `ReceiptsSigned` | `SignatureProofs` | with a signer configured, no receipt that signer did not sign |
| `AdaptersAgreeing` | `SignatureProofs` | adapters that resolve to one key verify the same and write the same receipt, but for a signer's or the platform's failure, a method URI behind U+FEFF, items one decoder does not read, and an RSA modulus ring does not take |
| `UniversalInvariance` | `UniversalProofs` | `Spec => []UInv`, over every bundle, chain and list of envelopes |
| `ReportsStandForInputs` | `UniversalProofs` | verdict and tier of a report are those of its inputs |
| `ExitCodesAgree` | `UniversalProofs` | `verify` exits with 0 only on a verified report |
| `ExportInvariance` | `ExportProofs` | `Spec => []XInv`, over every archive and every list of checkpoints |
| `ExportTypes` | `ExportProofs` | `LayeredSpec => []TypeOK` |
| `RefusedIffUnreadable` | `ExportProofs` | a call is refused exactly over an archive that cannot be read |
| `CheckpointsChain` | `ExportProofs` | the checkpoints of a verified export are one chain up to the head the manifest names |
| `ExitAgrees` | `ExportProofs` | exit code and library verdict agree on every report and answer |
| `ValidValidated` | `ExportProofs` | Valid means verified, and shown to the validator whole |
| `ProvedAreCommitted` | `ExportProofs` | a leaf a verified export proves included is under the head it names |
| `VerdictIsJudged` | `ExportProofs` | `LayeredSpec => ImplementsExportJudge`: the stages, the checkpoint loop and the walk over bundles implement the judge that has clauses only |
| `BundleUnfolds` | `ExportProofs` | a bundle verifies exactly when it parses, can be read and satisfies the clauses, its own bundles included |
| `ContractKept` | `ExportProofs` | a call verifies a bundle's bytes exactly when `BundleVerifies` says so |
| `WrapTyping` | `PrimitiveProofs` | `WrapSpec => []WrapTypes` |
| `FreshWraps` | `PrimitiveProofs` | no wrap rests on zeros, no two share a draw |
| `OwnFailures` | `PrimitiveProofs` | a call is refused only for a failure it met |
| `HashesPinRequests` | `PrimitiveProofs` | equal hashes mean one tag and one document, for tags with any bytes, NUL included |
| `RequestedKeySigns` | `PrimitiveProofs` | what is accepted is signed by the key the input was built for |
| `SignaturesStand` | `PrimitiveProofs` | a co-signature verifies exactly while the answers are those its signer read |
| `HandoffsPin` | `PrimitiveProofs` | a handoff hash is of one response and of no signed payload |
| `WholeReports` | `PrimitiveProofs` | the command exits with 0 exactly when help was asked for or all of a verified report was written in the format named last |
| `EncodedReads` | `PrimitiveProofs` | what an encoder wrote both codecs read back, or both refuse for the length of its URI |
| `CodecsAgree` | `PrimitiveProofs` | no altered envelope is read by the package and otherwise by the crate |
| `SignedOnly` | `PrimitiveProofs` | a signature verifies over nothing its signer did not sign |
| `PackedReads` | `PrimitiveProofs` | every order of adding packs to one archive, which reads back as what was added, sorted: `BundleSpec => []PackedIsRead` |
| `EditsCaught` | `PrimitiveProofs` | one edit of an archive never makes it read as something that was not packed, for plain payloads: `PlainPayloads => (BundleSpec => []EditsAreCaught)` |
| `RootIsTreeHash` | `MerkleProofs` | the root computed level by level is the divided tree hash of RFC 6962 |
| `InclusionIsTheAuditPath` | `MerkleProofs` | an inclusion proof over a tree's own size leads to its root exactly for the leaf at that index and its audit path |
| `InclusionIsSound` | `MerkleProofs` | over any size and index it leads there only from a leaf of the tree, by that leaf's audit path |
| `ConsistencyIsOneHistory` | `MerkleProofs` | a consistency proof leads to the newer root exactly when the older is of the same history and the path is that of RFC 6962 |
| `OnlyAuditPaths` | `PrimitiveProofs` | the same of the verifier's questions: `ProofSpec => []OnlyTheAuditPathProves` |
| `OnlyOneHistory` | `PrimitiveProofs` | `ProofSpec => []OnlyOneHistoryIsConsistent` |
| `EncodingsArePrefixFree` | `CborProofs` | no value's canonical bytes begin another's, and different values have different bytes |
| `EncodingsMean` | `CborProofs` | one meaning has one encoding, which exists exactly when nothing is said twice: `AskSpec => []OneMeaningOneEncoding` |
| `JsonComesBack` | `CborProofs` | JSON that becomes CBOR becomes canonical CBOR and comes back as it was: `AskSpec => []JsonSurvives` |
| `PrimitivesKeep` | `CborProofs` | all the promises of the callers hold along `Primitives!Spec`, the specification the run `primitives` checks |

The theorems of `PrimitiveProofs` and the first three of `CborProofs` are about the callers of one
kind by themselves (`WrapSpec`, `SealSpec`, `CoSpec`, `CommandSpec`, `WireSpec`, `BundleSpec`,
`ProofSpec`, `AskSpec`); `Primitives` has the same actions, one kind a behaviour, so that one run
checks them all.  `PrimitivesKeep` carries the promises over: the scene never changes, so a behaviour
of `Primitives` is a behaviour of the kind it follows (`OneKindSteps`), and the state of every other
kind stays where it began, where each promise holds as nothing was asked yet.
`WrapTypes`, `HandoffsPinTheResponse`, `RefusedMeansUnreadable`, `CheckpointsChained` and
`CallsKeepTheContract` are proved and part of no run; `ImplementsExportJudge`, which a run checks,
implies `RefusedMeansUnreadable` and `CheckpointsChained`.

Assumptions, each named where the constants are declared and evaluated by TLC in the runs:
`NoneAssumption` (None is no value of any domain), `SignatureAssumption` (None is no number; what a text decoder leaves of a method URI is one; a resolver that resolves gives bytes; the
entries of a registry are a list), `OutcomeAssumption` and `CallsAssumption` (the
same of outcomes; a natural bound on calls), `InputsAssumption` and `RequestsAssumption` (the
arguments have the types of the Rust signatures), `ExportsAssumption` (what an archive's members
parse to has the type it is parsed to; None is no kind of failure and no fault of an attachment
binding), `BundlesAssumption` (the same of what bundles parse to; and, as `read_stored_zip` reads
uncompressed members only, a bundle is longer than any member, by the constant `Sizes`),
`AnswersAssumption` (a validator
answers with findings; a list of events is not None), `CollisionFreeAssumption` (within one ledger,
events of one canonical hash carry one payload - the collision resistance of SHA-256; it says
nothing of the envelope, which the hash does not cover), `KeyWrapAssumption` (at least one draw a
call), `SealingAssumption` (a canonical JSON document holds no NUL, which RFC 8785 escapes; a tag
may), `CoSigningAssumption` (the unknown algorithm is not one of the known),
`CommandLinesAssumption` (`--format` is a flag; None is no argument, exit code or truth value), `MaximumAssumption` and
`HeadersAssumption` (None is no header; a header given to an encoder is a sequence of the entries the
header builders write, no label twice, its texts without U+FEFF at their front - `EncodersWrite`
proves it of the three builders), `ProofQuestionsAssumption` (sizes and indices are natural numbers, a
proof is a list, consistency is asked from one leaf on), `EntriesAssumption` (a path is a sequence of
code units, a payload a sequence of bytes; the bounds and the values of fields are natural numbers),
`QuestionsAssumption` (`MaxDepth` is a positive natural number; what is asked is of the Rust types - integers whose
magnitude is a `u64`, lists and strings whose length is one - and nests no deeper than `MaxDepth`, JSON
one level less, as a tag is a level of its own).

One theorem has a hypothesis of its own.  `EditsCaught` is about `PlainPayloads`: no payload holds a
header of an archive.  It is needed.  The reader compares a local header with its central header and
the payload with the checksum of both; what says where the directory starts is one field of the end
record, which no checksum covers.  A payload that repeats the central section of another entry is
then read for the directory once that field points to it.  The run includes payloads that are whole
archives, and there no single edit of the values it tries has that effect.

The argument for `EventSet`.  None of the properties is inductive: a verdict is about all events,
the state holds the last hash, the last time, one map.  `Inv` says what that state means: *as long
as nothing was found*, the variables are the summary of the prefix read so far (`Summary`: the
admitted indices are exactly `1..cursor-1`; the last hash and time are those of the event
before; an identity is bound if and only if the prefix holds it, and then to the hash of every
event under it; each shadow is the target of the last transition of its kind, or the initial
posture), and *nothing was found if and only if every event of the prefix is clean*
(`failures = {} <=> Passed`, with `CleanAt(i)` an event's part of every clause).  So clauses
about pairs of distant events (`TimeOrdered`, `IdempotencyHolds`) follow from comparisons with
the last event, by the summary; that is the step where the code's running state is shown
sufficient.  Once something was found the summary is given up - it really is false from then on,
as a skipped event leaves it behind - and all that is kept is that `failures` is not empty.
`PassesJudge` and `FailuresJudge` then connect `Passed` at the end of the ledger with the
clauses, `RefinesStep` maps every step to the one decision or a stutter, and the safety theorems
are consequences of `Inv` (`VerifiedIsClean`).  `CustodyNeverDrifts` adds `CustodyInv`: up to
the cursor, custody has not risen above the declared rank unless a doubly attested transition
was read.

For `LedgerCalls` the strengthening is `IInv`: behind the cursor no entry was refused, and each map
holds for a kid what the last entry of that kid and class says, or nothing if there is none
(`ReadUpTo`).  The step that reads an entry extends it by one (`SigningEntryRead`, `OtherEntryRead`, where
`BTreeMap::insert` is shown to be "the last one wins"); at the end of the document the two maps are
the two directories of the promise (`MapsAreDirectories`), and a refusal is the first one because everything before it
was read.

For the adapters, `SInv` adds what a suspended TypeScript call carries from turn to turn: the key
it holds is the one its resolver bound at the call (`Suspended`), of the algorithm and length of
the method (`Imported`), and the envelope is bound to the request (`Matched`).  Without it nothing
is known of the call when the primitive answers.  `KeptStaysSound` is the part about the other
adapter and about `Insert`: what was said stays justified, as it was justified by the bindings of
its own call.

`AdaptersAgree` compares two calls that have both ended and so needs more than either keeps for
itself: `AInv` accounts for every answer by what its call found (`RingAccounts`, `WebAccounts`), in
the same words for both languages although the checks come in another order.  The first entry of a
method, which both look up, is a least index (`LeastIndex`, from the well-foundedness of strict
inclusion, since the library's induction theorems cannot be instantiated).

The two adapters do not agree on everything, and the property says where they part.  Each has its
own decoder: TypeScript's `TextDecoder` drops a U+FEFF before the method URI
(`packages/integrity-cose/src/index.ts:422`), so that an envelope signed under such a URI passes the
prefix check and the method binding there and is verified, while Rust refuses it (`ApartByMark`); and
it refuses heads of 64 bits and of no length, floats and undefined (`index.ts:462`, `491-501`), where
the crate reads on, as `ciborium` may refuse what nests too deep for it (`ApartByItems`).  Each has its
own primitive: ring verifies under RSA keys of 2048 to 8192 bits
(`integrity-signature-ring/src/lib.rs:388`), which the bound of 100 bytes before it does not ask, and
WebCrypto under any it can import (`ApartByModulus`).  TLC finds `AdaptersAgree` violated when any one of
the three is left out.  Everywhere else agreement is a theorem: `ReadAlike` is the step where
two decoders that read the same items to the same text bind alike, `TurnedDownAlike` and `PassedAlike`
carry it to the answers.  What stays an assumption is that the two primitives, which are external,
say the same of a signature under a key both take.

For the universal phase, `UInv` says which of the report's lists are empty: after each check, exactly
when the input has no fault of that kind in the part that was read.  The chain and the bundle are
compared row by row with the row before; `ReportsStandForInputs` lifts that to an order over all
rows, the step where adjacent comparisons are shown sufficient.

For the export, `XInv` says what has been established when a stage is reached: everything the
earlier stages end a call over does not hold of the archive (`Established`, one line for each), the
failures found so far include those of the event set, and a call that ended with a fatal report
ended over an archive that is not `Readable` (`Refused`).  So that a stage passes exactly what the
clause asks is a lemma of its own for each (`OpenFound`, `MembersFound`, `CheckpointFound`, ...); the
order of the checks, which decides the kind of the report, drops out by `FirstFaultFound`: a list of
checks has no fault exactly when none has.  The checkpoint loop has a summary as well (`Looped`): a
running digest is held exactly when some checkpoint read so far counted, and as long as nothing was
found all did, each commits to the one before, and the digest is that of the last.  A skipped
checkpoint leaves a failure, which is why the running state it leaves behind, false from there on,
cannot reach a verdict.  At the end `ReadableAtTheEnd` puts the lines together.  For the layer above,
the event-set call's verdict means that every event decodes, so the second parse sees what the first
did (`AllDecodable`), and none of its early returns is open to a report of integrity.

`XInv` says what ends a call; the verdict is about what does not, so `FInv` says of each stage passed
what it adds: *as long as the call goes on, nothing was found if and only if no stage passed finds
anything* (`failures = {} <=> Spotless`), and the running root and digest are those of the
checkpoint before, whatever was found earlier (`Running`).  What is left is a lemma for each stage,
over an archive that can be read: the code's loop over members, rows and maps finds nothing exactly
when the clause holds (`AttachmentsFound`, `CatalogsFound`, `ArtifactsMatch`, `CheckpointsMatch`,
`ProofsMatch`, ...; `CountsPlaces` is why a set of as many values as rows means that no two rows
agree, `PrefixRoots` why the head of a prefix is its tree hash, from `MerkleProofs`).  For
`ProvedAreCommitted` the stages are enough: a proof that leads to the root of the head is the audit
path of the head's own prefix, whatever tree size it claims (`InclusionIsSound`).

Supersession compares two walks over archives inside archives, each a recursive function, and needs
the recursion to be well founded: a bundle is longer than its members.  `Recursion` proves, for any
functional whose values depend on arguments of smaller size only, that it has a fixed point
(uniqueness up to a size, then the union of the approximations); `BundleUnfolds`, `WalkUnfolds` and
`DescentUnfolds` are its three uses.  By induction on the size, `BundlesAlike` shows that the walk
with a path finds nothing below a bundle that verifies exactly when no descent of the clauses meets
a chain of the path or one twice; `BelowVerifies` is why the bundles below a verified one may be
taken to be verified.  `SupersessionMatches` puts the rows of the archive itself on top.  `ContractKept` closes
the circle: what the walk assumes of the call it makes on a bundle, `ReturnedIsJudged` proves of that
call.

For the key wraps, `WrapInv` says that a call that met no failure has drawn values of the source,
all different, that calls in progress and returned wraps are pairwise apart (they share nothing but
zeros), and that a latch is explained by a failed draw of its own call (`CallSound`, `WrapSound`,
`Apart`).  For sealing, `SealInv` keeps the bytes of an input tied to its tag, document and key;
`SeparatorSeparates` then says that a tag, NUL and a document without NUL can be taken apart in one
way only.  For co-signing, `CoInv` says that a draft not attached yet is over the answers it names;
`PayloadLeavesOutSignatures` is why attaching disturbs nobody.  For the command line, `CommandInv`
says that bundle and format are what the arguments behind the walk say (`Walked`, extended by
`FormatWalked` and `PathWalked`), that there is a report only of arguments walked to the end, which
are then well formed (`WalkedToTheEnd`), and that what is written is a prefix of the sections meant.

For the codecs, `WireInv` says that the header of an envelope on its way is still a list whose
signature, as long as it is one, is of what was sent, and that an unaltered envelope is what the
encoder makes of it.  `CodecsAgree` then compares two decoders on *any* list: where the crate asks
that a label be written once and the package takes the first, both find the only one (`OnlyEntry`).
`EncodedReads` needs that the builders write a label once (`EntryFound`); `SignedOnly` needs the
signature structure to be taken apart into one header and one payload.

For the archive there are two parts.  That it reads back: `sort_by` is modelled by positions, and
positions of different paths are a bijection, the same for every order of adding (that is why the
archive is); the sections of the sorted entries lie one behind the other, so the directory is read by
induction over its headers, each pointing at the local section its offset was counted for; and the end
record found is the writer's own, since nothing behind its first byte starts another, whatever the
payloads hold.  That edits are caught: an entry whose central header keeps its checksum and the length of its
name is read as it was packed or refused, since the payload is pinned by its checksum, the local header
by the central one and the name by both its copies; a header of a plain archive stands only where it was
written, so a directory that starts or ends elsewhere is refused; what is left is a case for each
field of the three headers, for each kind of cut, and for the archive in front, whose end record is not
the last but whose offsets count from the first byte.

For the Merkle proofs there is no state: the theorems are about functions.  `merkle_root` builds
rounds, RFC 6962 divides ranges; `NodesAreSubtrees` is the bridge, by induction on the rounds: node
`j` of round `i` is the hash of the leaves under it, because a range of more than one leaf that starts
at a multiple of its power of two is divided where the round pairs it.  The verifier of an
inclusion proof folds upwards while RFC 6962 descends: up to the round `inner` where the paths of the
index and of the last leaf meet, a sibling is on the side its bit says; above it, every node that
stands to the left is a one in what remains of the index, which is why counting ones gives the length
of the border.  For consistency the same fold makes two roots at once, the old one from the ones
only (`ChainInnerRight`).  As hashing is free, a fold that ends in the root of a tree can be read
backwards: every sibling and the seed are what the tree has there, so no other proof exists.
`InclusionIsSound` needs no agreement of sizes: a proof for another tree reaches this root only if it
is the audit path of a leaf of this one.

For the canonical encodings the recursion is over data.  No induction over data is to be had from the
provers, so the functions of `CanonicalCbor` are indexed by a nesting depth, each made from the one
below, and the theorems are inductions over that number: the values of a depth are those of the next
one as well, and what is said of a value does not depend on the depth it is counted at, so that each
operator may be unfolded at any value.  Then there are four parts.  *Bytes read one way*: the
head of an item, whose length its first byte tells, gives back the kind and the number in it
(`MajorLen`, for all of `u64`); a list of prefix-free items behind its own length is prefix-free.
*Sorting settles*: with no two keys of one encoding the positions of `sort_by` are a bijection, and
the ascending list of a set of entries is one list, however they were given.  *`Settled`*, by
induction over the depth: a value has a canonical form exactly when it is unambiguous, has one, whose
form is itself, and two canonical forms are equal exactly when the meanings are.  The keys of a map are
values too, so for the map this is needed of its keys before they can be compared: two keys have one
encoding after canonicalization exactly when they say the same, which is what `KeysDistinct` must
decide and would not decide of the keys as written.  *`Returns`*: what JSON becomes is canonical at
once since `ByKey` sorts by encoding, keys of an object being distinct texts; and on the way back the
entries, whatever their order, are the set of fields they were.

Only model-checked: liveness (`BothAnswer`, `CallsReturn`, and the fairness part of the
refinements), which the provers do not reach, and `EditsAreCaught` for payloads that are archives
themselves.  Every invariant a passing run checks is stated by a theorem, that one under its
hypothesis.

## 6. Findings

Six statements of the repository's own docs that the code does not keep; each is a run that
must end in a violation, and PROJECT.json quotes the lines.

- `chain_sequence`: the loop compares links and never sequence numbers; a second genesis or a
  repeated sequence verifies, though the comment calls the block sequence continuity.
- `identity_order`: an attestation's identity proof is compared by sequence number, so an
  identity event in a second chain, later in the ledger, counts as preceding it.
- `export_sidecars`: without an `interop_sidecars` field in the manifest, files below
  `interop-sidecars/` are neither listed nor refused; the sweep's comment relies on the opposite.
- `forged_shown`: the domain layer is gated on the structure verdict alone, so validators are
  given events whose signature was refused, as "verified event material".
- `keyed_events`: when a payload cannot be resolved the universal phase passes over the
  signature, reports the event verified and dispatches it to its profile.
- `method_decoders`: the TypeScript method-URI decoder is documented as the mirror of the crate's,
  but reads an envelope that names no algorithm, and a text behind U+FEFF.  The WebCrypto adapter sits
  on it: its method binding, documented as byte for byte, passes behind that mark as well.

Observations that contradict no line closely enough to be a run, kept for the reader: payload
members nothing names pass the sweep (`export.rs:1082`); members under several root directories
are merged into one archive, which the layout contract (`export.rs:1676`) says is rejected; the authority class of erasure
evidence is never compared with a class (`parse.rs:533`); the manifest's tree size is compared
only by the seal fence, so a verified export may hold events beyond its head's tree; checkpoint
tree sizes may shrink along the list; a replay of the genesis event directly after itself
verifies; the attachment manifest need not list every binding event; the cycle check of the
supersession walk is per path of descent; a fatal event-set report's structure verdict is
overwritten by the export's; the verdict `Indeterminate` of `RelyingPartyResult` is unreachable
(the blocking tier makes it `Invalid`); the universal chain check accepts a first row with a
sequence above zero and no predecessor; the substrate tier rests on chain rows and paths nothing
ties to the events; the exit condition of `verify` does not read the envelope findings, which
only the empty registry of the shipped command makes harmless; a P-256 or RSA key of the right length
that no primitive can read is "failed" to the Rust adapter and an error to the TypeScript one (of a raw
Ed25519 key the import looks at the length only, so that is "failed" to both); an RSA key of
100 bytes or more whose modulus is outside 2048 to 8192 bits is "failed" to Rust and may be
"verified" in TypeScript, and a header with a 64-bit head, a float or `undefined` is read by Rust and
"unsupported" in TypeScript (the exceptions of `AdaptersAgree`); of method
statuses the Rust adapter admits one and the TypeScript adapter refuses one, so a status the port's
type does not name separates them; a Rust verifier built with a receipt signer has the empty
resolver, so no receipt is both signed and about a key named by its identifier; a kid may be both a
signing and a non-signing key of one document; the encoders write a method URI longer than both
readers take; the ZIP reader asks neither for sorted nor for distinct paths and accepts bytes
before, between and after the members, so it accepts more than the writer emits, and an archive
preceded by another is read as the first, and no checksum covers the end record
and the directory it points to; `verify --help` exits with 1, unlike `--help`; the list of
preserved corrections holds those of events whose signature was refused.

## 7. Not modelled

- Byte layouts of CBOR items inside COSE and in the parsers (the `ciborium` and `serde` crates), RFC
  8785 serialization: external, with no state and no order; what they decide is data of the models.
  `ciborium` has limits of its own, such as a depth of nesting, and its own reading of tags other than
  that of the body: `CodecsReadAlike` and `CodecsAgree` hold of what lies within them, `AdaptersAgree` names
  the envelopes beyond.
  Of `integrity-cbor`, floats other than five of 16 bits, booleans (which go as null does), the size limit of
  `json_to_dcbor_bytes_with_limit` and the map look-ups are left out; the look-ups are the fields of
  the verifiers' records.
- Cryptography: a signature is the key that made it, a digest an injective name.
- `unwrap_dek` is one call into the `hpke` crate and `OsSecureRandom` one into `getrandom`;
  `wrap_dek_with_pinned_ephemeral` is a fixture function behind a feature.
- A Response that is no object makes every function of `integrity-canonical` return `Err`.
- `correction.rs` fills a list no verdict reads; `integrity-event` holds constants and builders of
  header maps.
- What the sections of the command line say; a section written in part before its write fails
  counts as not written.
- The domain layer over an event set without an archive (`mod.rs:776`, `mod.rs:925`): one call of the
  validator when the report is made, over the events `AdmitEvent` admits, which adds findings the
  verdict does not read.
- The parity harness, fixtures, fuzz targets and workflows have no behaviour of their own.

## 8. Plan

Done, in this order: the event set with its passes and judge; proofs; Merkle; export with its
members, supersession and judge; the layer above it; the universal phase; the signature adapters;
the entry points with their key registry, composed with the event set and proved; proofs of the
adapters, of the universal phase and of the export with the layer above it; key wraps,
sealing, co-signing and the command line with proofs; codecs, archive, canonical forms; proofs of
the codecs and of the Merkle tree; `ProvedEventsAreCommitted` and the refinement of `ExportJudge`,
with the contract on bundled predecessors, proved; proofs of the archive; proofs of the canonical
encodings and of the primitives together.

Next, most important first:

1. A second level of `BundleVerifies`: bundles with attestations, to compare the caller's
   validator with none.

## 9. Running it

`tlc -config MCEvents.cfg MCEvents` (and so on, per the table; the module of a configuration is in
PROJECT.json) and `tlapm` on `EventSetProofs.tla`, `LedgerCallProofs.tla`,
`SignatureProofs.tla`, `UniversalProofs.tla`, `ExportProofs.tla`, `MerkleProofs.tla`,
`PrimitiveProofs.tla`, `CborProofs.tla` (the last takes some twelve minutes).  The longest runs take two to
three minutes on two workers.
