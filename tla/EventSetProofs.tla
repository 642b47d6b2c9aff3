--------------------------- MODULE EventSetProofs ---------------------------
(***************************************************************************)
(* Theorems about EventSet for every value of its constants: any calls, any  *)
(* ledger length, any registry.  First the invariant of the loop and of its   *)
(* passes; then, that EventSet implements LedgerJudge: on a clean ledger each *)
(* finalization pass pushes no failure exactly when its clause holds, so the  *)
(* verdict of the pass over running state is the verdict of the clauses.     *)
(***************************************************************************)
EXTENDS EventSet, WellFoundedInduction, TLAPS

-----------------------------------------------------------------------------
(* The type invariant. *)

\* The arguments of a call have the types the decoders give them.
LEMMA ArgumentTypes ==
    ASSUME TypeOK
    PROVE  /\ input \in Input
           /\ Ledger \in Seq(EventRecord)
           /\ \A i \in DOMAIN Ledger : Ledger[i] \in EventRecord
<1>1. input \in Input
  BY InputsAssumption DEF TypeOK, OptionalHashes
<1>2. Ledger \in Seq(EventRecord)
  BY <1>1 DEF Input, Ledger
<1>3. \A i \in DOMAIN Ledger : Ledger[i] \in EventRecord
  BY <1>2
<1> QED
  BY <1>1, <1>2, <1>3

\* The event the loop is at.
LEMMA CurrentEvent ==
    ASSUME TypeOK, Scanning
    PROVE  /\ Ledger[cursor] \in EventRecord
           /\ Ledger[cursor].hash \in Hashes
           /\ cursor \in 1..Len(Ledger)
<1>1. cursor \in DOMAIN Ledger
  BY DEF Scanning
<1>2. Ledger[cursor] \in EventRecord
  BY <1>1, ArgumentTypes
<1>3. DOMAIN Ledger = 1..Len(Ledger)
  BY ArgumentTypes
<1> QED
  BY <1>1, <1>2, <1>3 DEF EventRecord

\* Every failure one iteration pushes is a failure record.
LEMMA EventFailuresType ==
    ASSUME NEW e \in EventRecord
    PROVE  EventFailures(e) \subseteq FailureRecord /\ SignatureFailures(e) \subseteq FailureRecord
<1>1. \A k \in EventKinds : {Failure(k, e.hash)} \subseteq FailureRecord
  BY DEF EventRecord, FailureRecord, FailureKinds, Failure, Optional
<1>2. RevokedFailures(e) \subseteq FailureRecord
  BY <1>1 DEF RevokedFailures, Flag, EventKinds
<1>3. ScopeFailures(e) \subseteq FailureRecord
  BY <1>1 DEF ScopeFailures, Flag, EventKinds
<1>4. IdempotencyFailures(e) \subseteq FailureRecord
  BY <1>1 DEF IdempotencyFailures, Flag, EventKinds
<1>5. ContentFailures(e) \subseteq FailureRecord
  BY <1>1 DEF ContentFailures, Flag, EventKinds
<1>6. AuthorFailures(e) \subseteq FailureRecord
  BY <1>1 DEF AuthorFailures, Flag, EventKinds
<1>7. PrevHashFailures(e) \subseteq FailureRecord
  BY <1>1 DEF PrevHashFailures, PrevHashKind, Flag, EventKinds
<1>8. TimestampFailures(e) \subseteq FailureRecord
  BY <1>1 DEF TimestampFailures, Flag, EventKinds
<1>9. TransitionFailures(e) \subseteq FailureRecord
  BY <1>1 DEF TransitionFailures, Flag, EventKinds
<1>10. SignatureFailures(e) \subseteq FailureRecord
  BY <1>1 DEF SignatureFailures, EventKinds
<1> QED
  BY <1>2, <1>3, <1>4, <1>5, <1>6, <1>7, <1>8, <1>9, <1>10 DEF EventFailures

\* So is every failure of the three finalization passes.
LEMMA AdmittedEvents ==
    ASSUME TypeOK
    PROVE  \A i \in chain : input.ledger[i] \in EventRecord
BY ArgumentTypes DEF TypeOK, OptionalHashes, Ledger

LEMMA ErasureFailuresType ==
    ASSUME TypeOK
    PROVE  ErasureFailures(input, chain) \subseteq FailureRecord
<1> SUFFICES ASSUME NEW i \in Evidence(input, chain)
             PROVE  ErasureFailuresAt(input, chain, i) \subseteq FailureRecord
  BY DEF ErasureFailures
<1>1. \A j \in chain : input.ledger[j].hash \in Hashes
  BY AdmittedEvents DEF EventRecord
<1>2. \A k \in ErasureKinds, a \in Optional(Hashes) : {Failure(k, a)} \subseteq FailureRecord
  BY DEF FailureRecord, FailureKinds, Failure
<1>3. i \in chain
  BY DEF Evidence
<1>4. SweepFailures(input, chain, i) \subseteq FailureRecord
  BY <1>1, <1>2 DEF SweepFailures, PostErasureUses, PostErasureWraps, Afterwards, ErasureKinds,
                   Optional
<1> QED
  BY <1>1, <1>2, <1>3, <1>4 DEF ErasureFailuresAt, Flag, ErasureKinds, Optional

LEMMA CertificateFailuresType ==
    ASSUME TypeOK
    PROVE  CertificateFailures(input, chain) \subseteq FailureRecord
<1> SUFFICES ASSUME NEW i \in Certified(input, chain)
             PROVE  CertificateFailuresAt(input, chain, i) \subseteq FailureRecord
  BY DEF CertificateFailures
<1> DEFINE c == input.ledger[i].certificate
<1>1. i \in chain /\ c # None
  BY DEF Certified
<1>2. input.ledger[i].hash \in Hashes /\ c \in CertificateDetails
  BY <1>1, AdmittedEvents DEF EventRecord, Optional
<1>3. \A k \in DOMAIN c.signingEvents : c.signingEvents[k] \in Hashes
  BY <1>2 DEF CertificateDetails
<1>4. \A k \in CertificateKinds, a \in Hashes : {Failure(k, a)} \subseteq FailureRecord
  BY DEF FailureRecord, FailureKinds, Failure, Optional
<1>5. {Failure("SigningEventUnresolved", c.signingEvents[k]) : k \in Unresolved(input, c)}
          \subseteq FailureRecord
  BY <1>3, <1>4 DEF Unresolved, CertificateKinds
<1>6. {Failure("SigningEventTimestampMismatch", c.signingEvents[k])
        : k \in TimestampMismatches(input, c)} \subseteq FailureRecord
  BY <1>3, <1>4 DEF TimestampMismatches, CertificateKinds
<1>7. ResponseFailures(input, c, input.ledger[i].hash) \subseteq FailureRecord
  BY <1>2, <1>4 DEF ResponseFailures, Flag, CertificateKinds
<1> QED
  BY <1>2, <1>4, <1>5, <1>6, <1>7 DEF CertificateFailuresAt, Flag, CertificateKinds

LEMMA AttestationFailuresType ==
    ASSUME TypeOK
    PROVE  AttestationFailures(input, chain) \subseteq FailureRecord
<1> SUFFICES ASSUME NEW i \in Attested(input, chain)
             PROVE  AttestationFailuresAt(input, chain, i) \subseteq FailureRecord
  BY DEF AttestationFailures
<1> DEFINE e == input.ledger[i]
           a == e.attestation
           identity == IdentityFailure(input, chain, e)
           identityAt == IF identity = "UserContentAttestationIdentityRequired"
                         THEN e.hash ELSE a.identityRef
<1>1. i \in chain /\ a # None
  BY DEF Attested
<1>2. e.hash \in Hashes /\ a \in UserContentAttestationDetails
  BY <1>1, AdmittedEvents DEF EventRecord, Optional
<1>3. \A k \in AttestationKinds, h \in Optional(Hashes) : {Failure(k, h)} \subseteq FailureRecord
  BY DEF FailureRecord, FailureKinds, Failure
<1>4. identity # None => identity \in AttestationKinds
  BY DEF IdentityFailure, AttestationKinds
<1>5. Flag(identity # None, identity, identityAt) \subseteq FailureRecord
  BY <1>2, <1>3, <1>4 DEF Flag, UserContentAttestationDetails, Optional
<1>6. StepTwoFailure(e) # None => StepTwoFailure(e) \in AttestationKinds
  BY DEF StepTwoFailure, AttestationKinds
<1>7. KeyFailures(input, e) \subseteq FailureRecord
  BY <1>2, <1>3 DEF KeyFailures, Flag, AttestationKinds, Optional
<1> HIDE DEF identity, identityAt
<1> QED
  BY <1>2, <1>3, <1>5, <1>6, <1>7
     DEF AttestationFailuresAt, Flag, AttestationKinds, Optional, identity, identityAt

-----------------------------------------------------------------------------
\* A fatal report is a report.
LEMMA FatalReportType ==
    ASSUME NEW in, NEW e, FatalKind(in, e) # None
    PROVE  FatalReport(FatalKind(in, e)) \in Report
<1>1. FatalKind(in, e) \in FailureKinds
  BY DEF FatalKind, DecodeError, FailureKinds, FatalKinds
<1>2. Failure(FatalKind(in, e), None) \in FailureRecord
  BY <1>1 DEF Failure, FailureRecord, Optional
<1> QED
  BY <1>2 DEF FatalReport, Report

LEMMA TypeInit == Init => TypeOK
<1> SUFFICES ASSUME Init PROVE TypeOK
  OBVIOUS
<1> USE DEF Init
<1>1. input \in Input /\ Ledger \in Seq(EventRecord)
  BY InputsAssumption DEF Input, Ledger
<1>2. cursor \in 1..(Len(Ledger) + 1)
  BY <1>1
<1>3. idempotencyIndex \in [Identities -> Optional(Hashes)]
  BY DEF Optional
<1>4. shadow \in [TransitionKinds -> Optional(Names)]
  BY <1>1 DEF Input, Optional
<1> QED
  BY <1>2, <1>3, <1>4 DEF TypeOK, OptionalHashes, Optional

LEMMA TypeStep == TypeOK /\ [Next]_vars => TypeOK'
<1> SUFFICES ASSUME TypeOK, [Next]_vars PROVE TypeOK'
  OBVIOUS
<1> USE DEF callVars, scanVars, finalVars
<1>1. CASE ReturnFatal
  <2>1. FatalReport(FatalKind(input, Ledger[cursor])) \in Report
    BY <1>1, FatalReportType DEF ReturnFatal
  <2> QED
    BY <1>1, <2>1 DEF ReturnFatal, TypeOK, OptionalHashes, Optional, Ledger
<1>2. CASE RejectSignature
  <2>1. Scanning
    BY <1>2 DEF RejectSignature
  <2>2. (failures \subseteq FailureRecord)'
    BY <1>2, <2>1, CurrentEvent, EventFailuresType DEF RejectSignature, TypeOK, OptionalHashes
  <2>3. (cursor \in 1..(Len(Ledger) + 1))'
    BY <1>2, <2>1, CurrentEvent, ArgumentTypes DEF RejectSignature, Ledger
  <2> QED
    BY <1>2, <2>2, <2>3 DEF RejectSignature, TypeOK, OptionalHashes, Ledger
<1>3. CASE AdmitEvent
  <2> DEFINE e == Ledger[cursor]
  <2>1. Scanning
    BY <1>3 DEF AdmitEvent
  <2>2. e \in EventRecord /\ cursor \in 1..Len(Ledger) /\ Ledger' = Ledger
    BY <1>3, <2>1, CurrentEvent DEF AdmitEvent, Ledger
  <2> HIDE DEF e
  <2>3. (failures \subseteq FailureRecord)'
    BY <1>3, <2>2, EventFailuresType DEF AdmitEvent, TypeOK, OptionalHashes, e
  <2>4. (cursor \in 1..(Len(Ledger) + 1))'
    BY <1>3, <2>2, ArgumentTypes DEF AdmitEvent
  <2>5. idempotencyIndex' \in [Identities -> Optional(Hashes)]
    BY <1>3, <2>2 DEF AdmitEvent, TypeOK, OptionalHashes, IndexAfter, Optional, EventRecord, e
  <2>6. shadow' \in [TransitionKinds -> Optional(Names)]
    <3>1. e.transition # None => e.transition.kind \in TransitionKinds /\ e.transition.to \in Names
      BY <2>2 DEF EventRecord, TransitionDetails, Optional
    <3> QED
      BY <1>3, <3>1 DEF AdmitEvent, TypeOK, OptionalHashes, ShadowAfter, Optional, e
  <2>7. previousHash' \in Optional(Hashes) /\ previousAuthoredAt' \in Optional(Times)
    BY <1>3, <2>2 DEF AdmitEvent, EventRecord, Optional, e
  <2>8. (chain \subseteq DOMAIN Ledger)'
    BY <1>3, <2>1, <2>2 DEF AdmitEvent, TypeOK, OptionalHashes, Scanning
  <2>9. \A o \in TransitionOutcomes(e, cursor) : o \in TransitionOutcome /\ o.event = cursor
    <3>1. cursor \in Nat
      BY <2>2, ArgumentTypes
    <3> SUFFICES ASSUME NEW o \in TransitionOutcomes(e, cursor)
                 PROVE  o \in TransitionOutcome /\ o.event = cursor
      OBVIOUS
    <3> DEFINE continuity == ~ContinuityBroken(e.transition)
                                 /\ ~DeclarationMismatch(input, e.transition)
               declaration == ~DeclarationMismatch(input, e.transition)
               attestation == ~AttestationsMissing(e.transition)
    <3>2. continuity \in BOOLEAN /\ declaration \in BOOLEAN /\ attestation \in BOOLEAN
      OBVIOUS
    <3>3. o = [event |-> cursor, continuityVerified |-> continuity,
               declarationResolved |-> declaration, attestationsVerified |-> attestation]
      BY DEF TransitionOutcomes
    <3> HIDE DEF continuity, declaration, attestation
    <3> QED
      BY <3>1, <3>2, <3>3 DEF TransitionOutcome
  <2>10. (transitions \subseteq TransitionOutcome)'
    BY <1>3, <2>9 DEF AdmitEvent, TypeOK, OptionalHashes, e
  <2>11. (\A o \in transitions \cup erasures \cup certificates \cup attestations :
              o.event \in chain)'
    BY <1>3, <2>9 DEF AdmitEvent, TypeOK, OptionalHashes, e
  <2> QED
    BY <1>3, <2>2, <2>3, <2>4, <2>5, <2>6, <2>7, <2>8, <2>10, <2>11 DEF AdmitEvent, TypeOK, OptionalHashes
<1>4. CASE FinalizeErasure
  <2>1. \A o \in ErasureOutcomes(input, chain) : o.event \in chain
    BY DEF ErasureOutcomes, Evidence
  <2> QED
    BY <1>4, <2>1, ErasureFailuresType DEF FinalizeErasure, TypeOK, OptionalHashes, Ledger
<1>5. CASE FinalizeCertificates
  <2>1. \A o \in CertificateOutcomes(input, chain) : o.event \in chain
    BY DEF CertificateOutcomes, Certified
  <2> QED
    BY <1>5, <2>1, CertificateFailuresType DEF FinalizeCertificates, TypeOK, OptionalHashes, Ledger
<1>6. CASE FinalizeAttestations
  <2>1. \A o \in AttestationOutcomes(input, chain) : o.event \in chain
    BY DEF AttestationOutcomes, Attested
  <2> QED
    BY <1>6, <2>1, AttestationFailuresType DEF FinalizeAttestations, TypeOK, OptionalHashes, Ledger
<1>7. CASE ReturnReport
  <2>1. report' \in Report
    BY <1>7 DEF ReturnReport, TypeOK, OptionalHashes, Report, IntegrityVerified
  <2> QED
    BY <1>7, <2>1 DEF ReturnReport, TypeOK, OptionalHashes, Optional, Ledger
<1>8. CASE UNCHANGED vars
  BY <1>8 DEF vars, TypeOK, OptionalHashes, Ledger
<1> QED
  BY <1>1, <1>2, <1>3, <1>4, <1>5, <1>6, <1>7, <1>8 DEF Next

\* Every variable of the call keeps its type, whatever the ledger.
THEOREM TypeCorrectness == Spec => []TypeOK
<1> QED
  BY TypeInit, TypeStep, PTL DEF Spec

-----------------------------------------------------------------------------
(* The loop of EventSet against the clauses of LedgerJudge that speak of one  *)
(* event and those before it, for every ledger.  The invariant says that the  *)
(* failures are empty exactly when the prefix read so far is clean, and what  *)
(* the local variables then hold of that prefix.                             *)

(* A clean prefix, one event at a time. *)

LinkedAt(in, i) ==
    \/ Judge!StandsAlone(in)
    \/ in.ledger[i].prevHash =
           IF in.ledger[i].sequence = 0 \/ i = 1 THEN None ELSE in.ledger[i - 1].hash

OrderedAt(in, i) ==
    \A j \in 1..(i - 1) : in.ledger[j].authoredAt <= in.ledger[i].authoredAt

IdempotentAt(in, i) ==
    \A j \in 1..(i - 1) :
        Identity(in.ledger[j]) = Identity(in.ledger[i]) => in.ledger[j].hash = in.ledger[i].hash

PostureAt(in, i) ==
    LET t == in.ledger[i].transition
    IN  t # None =>
          /\ Judge!FollowsFrom(in, t.kind, i)
          /\ in.declaration # None => in.declaration.digest = t.declarationDigest
          /\ RequiresDualAttestation(t) => {"prior", "new"} \subseteq t.attestationClasses

CleanAt(in, i) ==
    /\ Judge!EventAuthentic(in, in.ledger[i])
    /\ LinkedAt(in, i) /\ OrderedAt(in, i) /\ IdempotentAt(in, i) /\ PostureAt(in, i)

CleanBefore(in, n) == \A i \in 1..(n - 1) : CleanAt(in, i)
ReadableBefore(in, n) == \A i \in 1..(n - 1) : ~Judge!Unreadable(in, in.ledger[i])

\* The transitions of one kind the loop has read, and the state they lead to.
TransitionsBefore(kind) ==
    {j \in 1..(cursor - 1) : Ledger[j].transition # None /\ Ledger[j].transition.kind = kind}

ShadowKnown(kind) ==
    \/ /\ TransitionsBefore(kind) = {}
       /\ shadow[kind] = IF input.initialPosture = None THEN None ELSE input.initialPosture[kind]
    \/ \E j \in TransitionsBefore(kind) :
          /\ \A m \in TransitionsBefore(kind) : m <= j
          /\ shadow[kind] = Ledger[j].transition.to

\* What the local variables hold of a clean prefix.
Summary ==
    /\ chain = 1..(cursor - 1)
    /\ previousHash = IF cursor = 1 THEN None ELSE Ledger[cursor - 1].hash
    /\ previousAuthoredAt = IF cursor = 1 THEN None ELSE Ledger[cursor - 1].authoredAt
    /\ \A j \in 1..(cursor - 1) : idempotencyIndex[Identity(Ledger[j])] = Ledger[j].hash
    /\ \A identity \in Identities : idempotencyIndex[identity] # None =>
           \E j \in 1..(cursor - 1) : Identity(Ledger[j]) = identity
    /\ \A kind \in TransitionKinds : ShadowKnown(kind)
    /\ \A o \in transitions : TransitionOutcomeOk(o)

-----------------------------------------------------------------------------
(* The specification's own copies of the helpers of Records. *)
LEMMA SameHelpers ==
    /\ \A in, e : Judge!KeyOf(in, e) = KeyOf(in, e)
    /\ \A in, e : Judge!SignatureVerifies(in, e) = SignatureVerifies(in, e)
    /\ \A in, e : Judge!ReadablePayload(in, e) = ReadablePayload(in, e)
    /\ \A e : Judge!Decodes(e) = Decodes(e)
    /\ \A t : Judge!RequiresDualAttestation(t) = RequiresDualAttestation(t)
    /\ Judge!TransitionKinds = TransitionKinds
BY DEF Judge!KeyOf, KeyOf, Judge!SignatureVerifies, SignatureVerifies,
       Judge!ReadablePayload, ReadablePayload, Judge!Decodes, Decodes, Judge!DecodeError,
       DecodeError, Judge!RequiresDualAttestation, RequiresDualAttestation,
       Judge!CustodyRank, CustodyRank, Judge!TransitionKinds, TransitionKinds

\* A fatal report is returned exactly for the events the judge calls unreadable.
LEMMA FatalIsUnreadable ==
    ASSUME NEW in, NEW e
    PROVE  FatalKind(in, e) # None <=> Judge!Unreadable(in, e)
<1>1. \A k \in FailureKinds : k # None
  BY NoneAssumption
<1>2. ~Decodes(e) => DecodeError(e) \in FailureKinds
  BY DEF Decodes, DecodeError, FailureKinds, FatalKinds
<1> QED
  BY <1>1, <1>2, SameHelpers DEF FatalKind, Judge!Unreadable, FailureKinds, FatalKinds

-----------------------------------------------------------------------------
(* Each check of the loop against the clause it stands for.                  *)

\* The event the loop is about to admit.
Admitting ==
    /\ TypeOK /\ Scanning
    /\ FatalKind(input, Ledger[cursor]) = None
    /\ SignatureVerifies(input, Ledger[cursor])

LEMMA AdmittedKey ==
    ASSUME Admitting
    PROVE  LET key == KeyOf(input, Ledger[cursor])
           IN  key \in KeyEntry /\ (key.status = 3 => key.validTo \in Times)
<1>1. input \in Input /\ Ledger[cursor] \in EventRecord
  BY ArgumentTypes, CurrentEvent DEF Admitting
<1>2. input.registry \in [Kids -> Optional(KeyEntry)] /\ Ledger[cursor].kid \in Kids
  BY <1>1 DEF Input, Registries, EventRecord
<1>3. KeyOf(input, Ledger[cursor]) # None
  BY NoneAssumption DEF Admitting, FatalKind, FailureKinds, FatalKinds
<1>4. KeyOf(input, Ledger[cursor]) \in KeyEntry
  BY <1>2, <1>3 DEF KeyOf, Optional
<1>5. Decodes(Ledger[cursor]) => ~(/\ KeyOf(input, Ledger[cursor]).status = 3
                                   /\ KeyOf(input, Ledger[cursor]).validTo = None)
  BY <1>3, NoneAssumption DEF Admitting, FatalKind, FailureKinds, FatalKinds
<1>6. Decodes(Ledger[cursor])
  <2>1. ~Decodes(Ledger[cursor]) => DecodeError(Ledger[cursor]) \in FailureKinds
    BY DEF Decodes, DecodeError, FailureKinds, FatalKinds
  <2> QED
    BY <2>1, <1>3, NoneAssumption DEF Admitting, FatalKind, FailureKinds, FatalKinds
<1> QED
  BY <1>4, <1>5, <1>6 DEF KeyEntry, Optional

LEMMA AuthenticityChecks ==
    ASSUME Admitting
    PROVE  LET e == Ledger[cursor]
           IN  /\ RevokedFailures(e) = {} /\ ScopeFailures(e) = {}
               /\ ContentFailures(e) = {} /\ AuthorFailures(e) = {}
               <=> Judge!EventAuthentic(input, e)
<1> DEFINE e == Ledger[cursor]
<1>1. input \in Input /\ e \in EventRecord /\ SignatureVerifies(input, e)
  BY ArgumentTypes, CurrentEvent DEF Admitting
<1>2. RevokedFailures(e) = {}
        <=> (KeyOf(input, e).status = 3 => e.authoredAt <= KeyOf(input, e).validTo)
  BY <1>1, AdmittedKey DEF RevokedFailures, Flag, EventRecord, Times
<1>3. ScopeFailures(e) = {} <=> (input.expectedScope # None => e.scope = input.expectedScope)
  BY DEF ScopeFailures, Flag
<1>4. ContentFailures(e) = {}
        <=> (ReadablePayload(input, e) # None => ReadablePayload(input, e) = e.contentHash)
  BY DEF ContentFailures, Flag
<1>5. AuthorFailures(e) = {} <=> (e.authorPreimage # None /\ e.authorPreimage = e.authorHash)
  BY DEF AuthorFailures, Flag
<1> HIDE DEF e
<1>6. /\ RevokedFailures(e) = {} /\ ScopeFailures(e) = {}
      /\ ContentFailures(e) = {} /\ AuthorFailures(e) = {}
      <=> Judge!EventAuthentic(input, e)
  BY <1>1, <1>2, <1>3, <1>4, <1>5, SameHelpers DEF Judge!EventAuthentic
<1> QED
  BY <1>6 DEF e

LEMMA LinkCheck ==
    ASSUME Admitting, Summary
    PROVE  PrevHashFailures(Ledger[cursor]) = {} <=> LinkedAt(input, cursor)
<1>1. cursor \in 1..Len(Ledger)
  BY CurrentEvent DEF Admitting
<1> QED
  BY <1>1 DEF PrevHashFailures, Flag, LinkedAt, Judge!StandsAlone, SkipPrevHashCheck, Summary,
              Ledger

LEMMA TimestampCheck ==
    ASSUME Admitting, Summary, CleanBefore(input, cursor)
    PROVE  TimestampFailures(Ledger[cursor]) = {} <=> OrderedAt(input, cursor)
<1> DEFINE at(i) == Ledger[i].authoredAt
<1>1. cursor \in 1..Len(Ledger) /\ \A i \in 1..Len(Ledger) : at(i) \in Nat
  BY CurrentEvent, ArgumentTypes DEF Admitting, EventRecord, Times
<1>2. TimestampFailures(Ledger[cursor]) = {} <=> (cursor # 1 => at(cursor - 1) <= at(cursor))
  BY <1>1, NoneAssumption DEF TimestampFailures, Flag, Summary
<1>3. cursor # 1 => \A j \in 1..(cursor - 2) : at(j) <= at(cursor - 1)
  BY <1>1 DEF CleanBefore, CleanAt, OrderedAt, Ledger
<1>4. OrderedAt(input, cursor) <=> \A j \in 1..(cursor - 1) : at(j) <= at(cursor)
  BY DEF OrderedAt, Ledger
<1> HIDE DEF at
<1> QED
  BY <1>1, <1>2, <1>3, <1>4

LEMMA IdempotencyCheck ==
    ASSUME Admitting, Summary
    PROVE  IdempotencyFailures(Ledger[cursor]) = {} <=> IdempotentAt(input, cursor)
<1> DEFINE e == Ledger[cursor]
<1>1. e \in EventRecord /\ cursor \in 1..Len(Ledger)
  BY CurrentEvent DEF Admitting
<1>2. Identity(e) \in Identities /\ e.hash \in Hashes
  BY <1>1 DEF Identity, Identities, EventRecord
<1>3. IdempotencyFailures(e) = {} <=> idempotencyIndex[Identity(e)] \in {None, e.hash}
  BY DEF IdempotencyFailures, Flag
<1>4. IdempotentAt(input, cursor)
        <=> \A j \in 1..(cursor - 1) :
              Identity(Ledger[j]) = Identity(e) => Ledger[j].hash = e.hash
  BY DEF IdempotentAt, Ledger
<1> HIDE DEF e
<1>5. \A j \in 1..(cursor - 1) : Ledger[j].hash # None
  BY <1>1, ArgumentTypes, NoneAssumption DEF EventRecord, Admitting
<1>6. idempotencyIndex[Identity(e)] \in {None, e.hash}
        <=> \A j \in 1..(cursor - 1) :
              Identity(Ledger[j]) = Identity(e) => Ledger[j].hash = e.hash
  BY <1>2, <1>5 DEF Summary
<1> QED
  BY <1>3, <1>4, <1>6 DEF e

\* The shadow stands for the latest transition before the event.
LEMMA ContinuityCheck ==
    ASSUME Admitting, Summary, Ledger[cursor].transition # None
    PROVE  LET t == Ledger[cursor].transition
           IN  ContinuityBroken(t) <=> ~Judge!FollowsFrom(input, t.kind, cursor)
<1> DEFINE t == Ledger[cursor].transition
           earlier == {j \in Judge!TransitionsOf(input, t.kind) : j < cursor}
<1>1. input \in Input /\ cursor \in 1..Len(Ledger) /\ DOMAIN Ledger = 1..Len(Ledger)
  BY ArgumentTypes, CurrentEvent DEF Admitting
<1>2. t.kind \in TransitionKinds /\ t.from \in Names
  BY CurrentEvent DEF Admitting, EventRecord, Optional, TransitionDetails
<1>3. earlier = TransitionsBefore(t.kind)
  BY <1>1 DEF TransitionsBefore, Judge!TransitionsOf, Judge!Indices, Ledger
<1>4. Judge!FollowsFrom(input, t.kind, cursor)
        <=> /\ earlier = {} /\ input.initialPosture # None
                  => input.initialPosture[t.kind] \in {None, t.from}
            /\ \A j \in earlier : (\A m \in earlier : m <= j) => Ledger[j].transition.to = t.from
  BY DEF Judge!FollowsFrom, Ledger
<1>5. \A j \in TransitionsBefore(t.kind) : Ledger[j].transition.to # None
  <2> SUFFICES ASSUME NEW j \in TransitionsBefore(t.kind) PROVE Ledger[j].transition.to # None
    OBVIOUS
  <2>1. j \in DOMAIN Ledger /\ Ledger[j].transition # None
    BY <1>1 DEF TransitionsBefore
  <2>2. Ledger[j].transition \in TransitionDetails
    BY <2>1, ArgumentTypes DEF Admitting, EventRecord, Optional
  <2> QED
    BY <2>2, NoneAssumption DEF TransitionDetails
<1>6. \A j \in TransitionsBefore(t.kind) : j \in Nat
  BY <1>1 DEF TransitionsBefore
<1>7. ShadowKnown(t.kind)
  BY <1>2 DEF Summary
<1> SUFFICES ContinuityBroken(t) <=> ~Judge!FollowsFrom(input, t.kind, cursor)
  OBVIOUS
<1> HIDE DEF t, earlier
<1>8. CASE TransitionsBefore(t.kind) = {}
  BY <1>3, <1>4, <1>7, <1>8 DEF ShadowKnown, ContinuityBroken
<1>9. ASSUME NEW j \in TransitionsBefore(t.kind),
             \A m \in TransitionsBefore(t.kind) : m <= j,
             shadow[t.kind] = Ledger[j].transition.to
      PROVE  ContinuityBroken(t) <=> ~Judge!FollowsFrom(input, t.kind, cursor)
  <2>1. \A n \in TransitionsBefore(t.kind) :
            (\A m \in TransitionsBefore(t.kind) : m <= n) => n = j
    BY <1>6, <1>9
  <2> QED
    BY <1>3, <1>4, <1>5, <1>9, <2>1 DEF ContinuityBroken
<1> QED
  BY <1>7, <1>8, <1>9 DEF ShadowKnown

LEMMA TransitionCheck ==
    ASSUME Admitting, Summary
    PROVE  /\ TransitionFailures(Ledger[cursor]) = {} <=> PostureAt(input, cursor)
           /\ TransitionFailures(Ledger[cursor]) = {} =>
                  \A o \in TransitionOutcomes(Ledger[cursor], cursor) : TransitionOutcomeOk(o)
<1> DEFINE e == Ledger[cursor]
           t == e.transition
           follows == Judge!FollowsFrom(input, t.kind, cursor)
<1>1. CASE t = None
  BY <1>1 DEF TransitionFailures, TransitionOutcomes, PostureAt, Ledger
<1>2. CASE t # None
  <2>1. ContinuityBroken(t) <=> ~follows
    BY <1>2, ContinuityCheck
  <2>2. PostureAt(input, cursor)
          <=> follows /\ ~DeclarationMismatch(input, t) /\ ~AttestationsMissing(t)
    BY <1>2 DEF PostureAt, DeclarationMismatch, AttestationsMissing, Ledger
  <2>3. TransitionFailures(e) = {}
          <=> ~ContinuityBroken(t) /\ ~DeclarationMismatch(input, t) /\ ~AttestationsMissing(t)
    BY <1>2 DEF TransitionFailures, Flag
  <2>4. ~ContinuityBroken(t) /\ ~DeclarationMismatch(input, t) /\ ~AttestationsMissing(t)
          => \A o \in TransitionOutcomes(e, cursor) : TransitionOutcomeOk(o)
    <3> SUFFICES ASSUME ~ContinuityBroken(t), ~DeclarationMismatch(input, t),
                        ~AttestationsMissing(t), NEW o \in TransitionOutcomes(e, cursor)
                 PROVE  TransitionOutcomeOk(o)
      OBVIOUS
    <3>1. o = [event |-> cursor, continuityVerified |-> TRUE,
               declarationResolved |-> TRUE, attestationsVerified |-> TRUE]
      BY <1>2 DEF TransitionOutcomes
    <3> QED
      BY <3>1 DEF TransitionOutcomeOk
  <2> QED
    BY <2>1, <2>2, <2>3, <2>4
<1> QED
  BY <1>1, <1>2

\* An event leaves no failure behind exactly when it is clean against the prefix.
LEMMA EventCheck ==
    ASSUME Admitting, Summary, CleanBefore(input, cursor)
    PROVE  EventFailures(Ledger[cursor]) = {} <=> CleanAt(input, cursor)
<1> DEFINE e == Ledger[cursor]
<1>1. EventFailures(e) = {}
        <=> /\ RevokedFailures(e) = {} /\ ScopeFailures(e) = {} /\ IdempotencyFailures(e) = {}
            /\ ContentFailures(e) = {} /\ AuthorFailures(e) = {} /\ PrevHashFailures(e) = {}
            /\ TimestampFailures(e) = {} /\ TransitionFailures(e) = {}
  BY DEF EventFailures
<1> QED
  BY <1>1, AuthenticityChecks, LinkCheck, TimestampCheck, IdempotencyCheck, TransitionCheck
     DEF CleanAt, Ledger

-----------------------------------------------------------------------------
(* The invariant. *)

\* What has been found good by the time the call is in its current phase.
Passed ==
    /\ CleanBefore(input, cursor)
    /\ phase \in {"certificates", "attestations", "report"} => ErasureFailures(input, chain) = {}
    /\ phase \in {"attestations", "report"} => CertificateFailures(input, chain) = {}
    /\ phase = "report" => AttestationFailures(input, chain) = {}

Inv ==
    /\ TypeOK
    /\ ReadableBefore(input, cursor)
    /\ CleanBefore(input, cursor) => Summary
    /\ phase # "done" => (failures = {} <=> Passed)
    /\ phase \in {"certificates", "attestations", "report"} => cursor = Len(Ledger) + 1
    /\ OutcomesLeaveFailures
    /\ Verified =>
          /\ failures = {} /\ cursor = Len(Ledger) + 1 /\ CleanBefore(input, cursor)
          /\ ErasureFailures(input, chain) = {} /\ CertificateFailures(input, chain) = {}
          /\ AttestationFailures(input, chain) = {}

LEMMA InvInit == Init => Inv
<1> SUFFICES ASSUME Init PROVE Inv
  OBVIOUS
<1>1. TypeOK
  BY TypeInit
<1>2. 1..(cursor - 1) = {}
  BY DEF Init
<1>3. ReadableBefore(input, cursor) /\ CleanBefore(input, cursor)
  BY <1>2 DEF ReadableBefore, CleanBefore
<1>4. Summary
  BY <1>2 DEF Summary, Init, ShadowKnown, TransitionsBefore
<1>5. failures = {} /\ Passed /\ phase = "scan"
  BY <1>3 DEF Init, Passed
<1>6. OutcomesLeaveFailures
  BY DEF OutcomesLeaveFailures, Init
<1> QED
  BY <1>1, <1>3, <1>4, <1>5, <1>6 DEF Inv, Verified

\* A longer prefix is clean if the shorter one is and its last event is.
LEMMA PrefixGrows ==
    ASSUME NEW in, NEW n \in Nat \ {0}
    PROVE  /\ CleanBefore(in, n + 1) <=> CleanBefore(in, n) /\ CleanAt(in, n)
           /\ ReadableBefore(in, n + 1)
                <=> ReadableBefore(in, n) /\ ~Judge!Unreadable(in, in.ledger[n])
<1>1. 1..(n + 1 - 1) = 1..(n - 1) \cup {n}
  OBVIOUS
<1> QED
  BY <1>1 DEF CleanBefore, ReadableBefore

\* Admitting an event extends the summary of a clean prefix by it.
LEMMA SummaryGrows ==
    ASSUME TypeOK, Summary, AdmitEvent, CleanAt(input, cursor),
           \A o \in TransitionOutcomes(Ledger[cursor], cursor) : TransitionOutcomeOk(o)
    PROVE  Summary'
<1> DEFINE e == Ledger[cursor]
<1>1. /\ cursor \in 1..Len(Ledger) /\ e \in EventRecord /\ Ledger' = Ledger
      /\ cursor' = cursor + 1 /\ input' = input
  BY CurrentEvent DEF AdmitEvent, callVars, Ledger
<1>2. 1..(cursor' - 1) = 1..(cursor - 1) \cup {cursor} /\ cursor' # 1 /\ cursor' - 1 = cursor
  BY <1>1
<1>3. (chain = 1..(cursor - 1))'
  BY <1>2 DEF AdmitEvent, Summary
<1>4. previousHash' = Ledger'[cursor' - 1].hash
      /\ previousAuthoredAt' = Ledger'[cursor' - 1].authoredAt
  BY <1>1, <1>2 DEF AdmitEvent
<1>5. Identity(e) \in Identities /\ e.hash \in Hashes
  BY <1>1 DEF Identity, Identities, EventRecord
<1>6. idempotencyIndex' =
        IF idempotencyIndex[Identity(e)] # None THEN idempotencyIndex
        ELSE [idempotencyIndex EXCEPT ![Identity(e)] = e.hash]
  BY DEF AdmitEvent, IndexAfter
<1>7. \A j \in 1..(cursor - 1) : Identity(Ledger[j]) = Identity(e) => Ledger[j].hash = e.hash
  BY DEF CleanAt, IdempotentAt, Ledger
<1>8. \A j \in 1..(cursor - 1) : Ledger[j].hash \in Hashes /\ Identity(Ledger[j]) \in Identities
  BY <1>1, ArgumentTypes DEF EventRecord, Identity, Identities
<1>9. \A j \in 1..(cursor' - 1) : idempotencyIndex'[Identity(Ledger'[j])] = Ledger'[j].hash
  <2>1. idempotencyIndex'[Identity(e)] = e.hash
    BY <1>5, <1>6, <1>7 DEF Summary, TypeOK, OptionalHashes
  <2>2. ASSUME NEW j \in 1..(cursor - 1)
        PROVE  idempotencyIndex'[Identity(Ledger[j])] = Ledger[j].hash
    BY <1>5, <1>6, <1>8, NoneAssumption DEF Summary, TypeOK, OptionalHashes
  <2> QED
    BY <1>1, <1>2, <2>1, <2>2
<1>10. \A identity \in Identities : idempotencyIndex'[identity] # None =>
           \E j \in 1..(cursor' - 1) : Identity(Ledger'[j]) = identity
  <2> SUFFICES ASSUME NEW identity \in Identities, idempotencyIndex'[identity] # None
               PROVE  \E j \in 1..(cursor' - 1) : Identity(Ledger'[j]) = identity
    OBVIOUS
  <2>1. CASE identity = Identity(e)
    BY <1>1, <1>2, <2>1
  <2>2. CASE identity # Identity(e)
    <3>1. idempotencyIndex[identity] # None
      BY <1>6, <2>2 DEF TypeOK, OptionalHashes
    <3> QED
      BY <1>1, <1>2, <3>1 DEF Summary
  <2> QED
    BY <2>1, <2>2
<1>11. \A kind \in TransitionKinds : ShadowKnown(kind)'
  <2> SUFFICES ASSUME NEW kind \in TransitionKinds PROVE ShadowKnown(kind)'
    OBVIOUS
  <2>1. shadow' = IF e.transition = None THEN shadow
                  ELSE [shadow EXCEPT ![e.transition.kind] = e.transition.to]
    BY DEF AdmitEvent, ShadowAfter
  <2>2. shadow \in [TransitionKinds -> Optional(Names)]
    BY DEF TypeOK, OptionalHashes
  <2>3. ShadowKnown(kind)
    BY DEF Summary
  <2> HIDE DEF e
  <2>4. CASE e.transition # None /\ e.transition.kind = kind
    <3>1. TransitionsBefore(kind)' = TransitionsBefore(kind) \cup {cursor}
      BY <1>1, <1>2, <2>4 DEF TransitionsBefore, e
    <3>2. \A m \in TransitionsBefore(kind) : m <= cursor
      BY <1>1 DEF TransitionsBefore
    <3>3. shadow'[kind] = e.transition.to
      BY <2>1, <2>2, <2>4
    <3> QED
      BY <1>1, <3>1, <3>2, <3>3 DEF ShadowKnown, e
  <2>5. CASE ~(e.transition # None /\ e.transition.kind = kind)
    <3>1. TransitionsBefore(kind)' = TransitionsBefore(kind)
      BY <1>1, <1>2, <2>5 DEF TransitionsBefore, e
    <3>2. shadow'[kind] = shadow[kind]
      BY <2>1, <2>2, <2>5
    <3> QED
      BY <1>1, <2>3, <3>1, <3>2 DEF ShadowKnown
  <2> QED
    BY <2>4, <2>5
<1>12. (\A o \in transitions : TransitionOutcomeOk(o))'
  BY DEF AdmitEvent, Summary
<1> QED
  BY <1>2, <1>3, <1>4, <1>9, <1>10, <1>11, <1>12 DEF Summary

\* Erasure, certificate and attestation outcomes are good when their pass leaves
\* no failure: the booleans are set where the failures are pushed.
LEMMA OutcomesFollowFailures ==
    ASSUME NEW in, NEW admitted
    PROVE  /\ ErasureFailures(in, admitted) = {} =>
                  \A o \in ErasureOutcomes(in, admitted) : ErasureOutcomeOk(o)
           /\ CertificateFailures(in, admitted) = {} =>
                  \A o \in CertificateOutcomes(in, admitted) : CertificateOutcomeOk(o)
           /\ AttestationFailures(in, admitted) = {} =>
                  \A o \in AttestationOutcomes(in, admitted) : AttestationOutcomeOk(o)
<1>1. ASSUME ErasureFailures(in, admitted) = {}, NEW i \in Evidence(in, admitted)
      PROVE  /\ in.ledger[i].erasure.wellFormed
             /\ PostErasureUses(in, admitted, i) = {} /\ PostErasureWraps(in, admitted, i) = {}
  <2>1. ErasureFailuresAt(in, admitted, i) = {}
    BY <1>1 DEF ErasureFailures
  <2> QED
    BY <2>1 DEF ErasureFailuresAt, SweepFailures, Flag
<1>2. ASSUME CertificateFailures(in, admitted) = {}, NEW i \in Certified(in, admitted)
      PROVE  LET c == in.ledger[i].certificate
             IN  /\ c.wellFormed /\ Unresolved(in, c) = {} /\ ~PrincipalMismatch(in, c)
                 /\ TimestampMismatches(in, c) = {}
                 /\ ~MalformedResponse(in, c) /\ ~ResponseMismatch(in, c)
  <2>1. CertificateFailuresAt(in, admitted, i) = {}
    BY <1>2 DEF CertificateFailures
  <2> QED
    BY <2>1 DEF CertificateFailuresAt, ResponseFailures, Flag
<1>3. ASSUME AttestationFailures(in, admitted) = {}, NEW i \in Attested(in, admitted)
      PROVE  LET e == in.ledger[i]
             IN  /\ StepTwoFailure(e) = None /\ PositionResolves(in, e)
                 /\ IdentityFailure(in, admitted, e) = None
                 /\ AttestationSignatureOk(in, e.attestation) /\ KeyActive(in, e.attestation)
  <2>1. AttestationFailuresAt(in, admitted, i) = {}
    BY <1>3 DEF AttestationFailures
  <2> QED
    BY <2>1 DEF AttestationFailuresAt, KeyFailures, Flag
<1>4. ASSUME ErasureFailures(in, admitted) = {}, NEW o \in ErasureOutcomes(in, admitted)
      PROVE  ErasureOutcomeOk(o)
  BY <1>1, <1>4 DEF ErasureOutcomes, ErasureOutcomeOk
<1>5. ASSUME CertificateFailures(in, admitted) = {}, NEW o \in CertificateOutcomes(in, admitted)
      PROVE  CertificateOutcomeOk(o)
  <2>1. PICK i \in Certified(in, admitted) :
            LET c == in.ledger[i].certificate
            IN  o = [event |-> i, attachmentResolved |-> TRUE,
                     allSigningEventsResolved |-> Unresolved(in, c) = {},
                     chainSummaryConsistent |->
                         /\ c.wellFormed
                         /\ ~PrincipalMismatch(in, c) /\ TimestampMismatches(in, c) = {}
                         /\ ~MalformedResponse(in, c) /\ ~ResponseMismatch(in, c)]
    BY <1>5 DEF CertificateOutcomes
  <2> QED
    BY <1>2, <1>5, <2>1 DEF CertificateOutcomeOk
<1>6. ASSUME AttestationFailures(in, admitted) = {}, NEW o \in AttestationOutcomes(in, admitted)
      PROVE  AttestationOutcomeOk(o)
  <2>1. PICK i \in Attested(in, admitted) :
            LET e == in.ledger[i]
                run == StepTwoFailure(e) = None
            IN  o = [event |-> i,
                     chainPositionResolved |-> run => PositionResolves(in, e),
                     identityResolved |-> run => IdentityFailure(in, admitted, e) = None,
                     signatureVerified |-> run => AttestationSignatureOk(in, e.attestation),
                     keyActive |-> run => KeyActive(in, e.attestation)]
    BY <1>6 DEF AttestationOutcomes
  <2> QED
    BY <1>3, <1>6, <2>1 DEF AttestationOutcomeOk
<1> QED
  BY <1>4, <1>5, <1>6

LEMMA InvStep == Inv /\ [Next]_vars => Inv'
<1> SUFFICES ASSUME Inv, [Next]_vars PROVE Inv'
  OBVIOUS
<1>t. TypeOK /\ TypeOK'
  BY TypeStep DEF Inv
<1> USE DEF callVars, scanVars, finalVars
\* The steps that leave the loop's variables alone keep what is known of the prefix.
<1>p. UNCHANGED <<input, cursor, previousHash, previousAuthoredAt, idempotencyIndex, shadow,
                  chain, transitions>>
      => /\ Ledger' = Ledger
         /\ ReadableBefore(input, cursor)' = ReadableBefore(input, cursor)
         /\ CleanBefore(input, cursor)' = CleanBefore(input, cursor)
         /\ Summary' = Summary
  BY DEF Ledger, Summary, ShadowKnown, TransitionsBefore
<1>1. CASE ReturnFatal
  <2>1. UNCHANGED <<input, cursor, previousHash, previousAuthoredAt, idempotencyIndex, shadow,
                    chain, transitions, erasures, certificates, attestations, failures>>
        /\ phase' = "done" /\ ~report'.integrity
    BY <1>1 DEF ReturnFatal, FatalReport
  <2> QED
    BY <1>p, <1>t, <2>1 DEF Inv, Verified, OutcomesLeaveFailures
<1>2. CASE RejectSignature
  <2> DEFINE e == Ledger[cursor]
  <2>1. /\ phase = "scan" /\ phase' = "scan" /\ cursor \in Nat \ {0}
        /\ input' = input /\ cursor' = cursor + 1 /\ failures' # {}
    BY <1>2, <1>t, CurrentEvent DEF RejectSignature, Scanning, SignatureFailures
  <2>2. ~CleanAt(input, cursor) /\ ~Judge!Unreadable(input, e)
    <3>1. ~SignatureVerifies(input, e) /\ FatalKind(input, e) = None
      BY <1>2 DEF RejectSignature
    <3> QED
      BY <3>1, FatalIsUnreadable, SameHelpers DEF CleanAt, Judge!EventAuthentic, Ledger
  <2>3. ~CleanBefore(input, cursor)' /\ ReadableBefore(input, cursor)'
    BY <2>1, <2>2, PrefixGrows DEF Inv, Ledger
  <2> QED
    BY <1>t, <2>1, <2>3 DEF Inv, Passed, Verified, OutcomesLeaveFailures
<1>3. CASE AdmitEvent
  <2> DEFINE e == Ledger[cursor]
  <2>1. /\ Scanning /\ phase = "scan" /\ phase' = "scan" /\ cursor \in Nat \ {0}
        /\ input' = input /\ cursor' = cursor + 1 /\ failures' = failures \cup EventFailures(e)
        /\ transitions' = transitions \cup TransitionOutcomes(e, cursor)
        /\ UNCHANGED <<erasures, certificates, attestations>>
    BY <1>3, <1>t, CurrentEvent DEF AdmitEvent, Scanning
  <2>2. Admitting
    BY <1>3, <1>t DEF AdmitEvent, Admitting
  <2>3. ReadableBefore(input, cursor)'
    <3>1. ~Judge!Unreadable(input, e)
      BY <2>2, FatalIsUnreadable DEF Admitting
    <3> QED
      BY <2>1, <3>1, PrefixGrows DEF Inv, Ledger
  <2>4. failures = {} <=> CleanBefore(input, cursor)
    BY <2>1 DEF Inv, Passed
  <2>5. CleanBefore(input, cursor)' <=> CleanBefore(input, cursor) /\ CleanAt(input, cursor)
    BY <2>1, PrefixGrows
  <2>6. CASE CleanBefore(input, cursor)
    <3>1. Summary
      BY <2>6 DEF Inv
    <3>2. EventFailures(e) = {} <=> CleanAt(input, cursor)
      BY <2>2, <2>6, <3>1, EventCheck
    <3>3. CleanAt(input, cursor) =>
              \A o \in TransitionOutcomes(e, cursor) : TransitionOutcomeOk(o)
      BY <2>2, <3>1, TransitionCheck DEF CleanAt
    <3>4. CleanAt(input, cursor) => Summary'
      BY <1>3, <1>t, <3>1, <3>3, SummaryGrows
    <3>5. failures' = {} <=> CleanBefore(input, cursor)'
      BY <2>1, <2>4, <2>5, <2>6, <3>2
    <3>6. OutcomesLeaveFailures'
      BY <2>1, <2>4, <2>5, <2>6, <3>3, <3>5 DEF Inv, OutcomesLeaveFailures
    <3> QED
      BY <1>t, <2>1, <2>3, <2>5, <3>4, <3>5, <3>6 DEF Inv, Passed, Verified
  <2>7. CASE ~CleanBefore(input, cursor)
    BY <1>t, <2>1, <2>3, <2>4, <2>5, <2>7 DEF Inv, Passed, Verified, OutcomesLeaveFailures
  <2> QED
    BY <2>6, <2>7
<1>4. CASE FinalizeErasure
  <2>1. /\ UNCHANGED <<input, cursor, previousHash, previousAuthoredAt, idempotencyIndex, shadow,
                       chain, transitions, certificates, attestations>>
        /\ phase = "scan" /\ phase' = "certificates" /\ cursor = Len(Ledger) + 1
        /\ failures' = failures \cup ErasureFailures(input, chain)
        /\ erasures' = ErasureOutcomes(input, chain)
    BY <1>4 DEF FinalizeErasure
  <2>2. OutcomesLeaveFailures'
    BY <2>1, OutcomesFollowFailures DEF Inv, OutcomesLeaveFailures
  <2>3. (failures = {} <=> Passed)'
    BY <1>p, <2>1 DEF Inv, Passed
  <2> QED
    BY <1>p, <1>t, <2>1, <2>2, <2>3 DEF Inv, Verified
<1>5. CASE FinalizeCertificates
  <2>1. /\ UNCHANGED <<input, cursor, previousHash, previousAuthoredAt, idempotencyIndex, shadow,
                       chain, transitions, erasures, attestations>>
        /\ phase = "certificates" /\ phase' = "attestations"
        /\ failures' = failures \cup CertificateFailures(input, chain)
        /\ certificates' = CertificateOutcomes(input, chain)
    BY <1>5 DEF FinalizeCertificates
  <2>2. OutcomesLeaveFailures'
    BY <2>1, OutcomesFollowFailures DEF Inv, OutcomesLeaveFailures
  <2>3. (failures = {} <=> Passed)'
    BY <1>p, <2>1 DEF Inv, Passed
  <2> QED
    BY <1>p, <1>t, <2>1, <2>2, <2>3 DEF Inv, Verified
<1>6. CASE FinalizeAttestations
  <2>1. /\ UNCHANGED <<input, cursor, previousHash, previousAuthoredAt, idempotencyIndex, shadow,
                       chain, transitions, erasures, certificates>>
        /\ phase = "attestations" /\ phase' = "report"
        /\ failures' = failures \cup AttestationFailures(input, chain)
        /\ attestations' = AttestationOutcomes(input, chain)
    BY <1>6 DEF FinalizeAttestations
  <2>2. OutcomesLeaveFailures'
    BY <2>1, OutcomesFollowFailures DEF Inv, OutcomesLeaveFailures
  <2>3. (failures = {} <=> Passed)'
    BY <1>p, <2>1 DEF Inv, Passed
  <2> QED
    BY <1>p, <1>t, <2>1, <2>2, <2>3 DEF Inv, Verified
<1>7. CASE ReturnReport
  <2>1. /\ UNCHANGED <<input, cursor, previousHash, previousAuthoredAt, idempotencyIndex, shadow,
                       chain, transitions, erasures, certificates, attestations, failures>>
        /\ phase = "report" /\ phase' = "done"
        /\ report'.integrity = IntegrityVerified
    BY <1>7 DEF ReturnReport
  <2>2. Verified' => failures = {}
    BY <2>1 DEF Verified, IntegrityVerified
  <2>3. failures = {} => /\ CleanBefore(input, cursor) /\ ErasureFailures(input, chain) = {}
                         /\ CertificateFailures(input, chain) = {}
                         /\ AttestationFailures(input, chain) = {}
    BY <2>1 DEF Inv, Passed
  <2> QED
    BY <1>p, <1>t, <2>1, <2>2, <2>3 DEF Inv, OutcomesLeaveFailures
<1>8. CASE UNCHANGED vars
  BY <1>8, <1>p, <1>t DEF vars, Inv, Passed, Verified, OutcomesLeaveFailures
<1> QED
  BY <1>1, <1>2, <1>3, <1>4, <1>5, <1>6, <1>7, <1>8 DEF Next

\* What the loop and the passes carry is, at every step, the summary of the prefix read so
\* far, or something was found and stays found (verify_event_set_with_classes).
THEOREM Invariance == Spec => []Inv
<1> QED
  BY InvInit, InvStep, PTL DEF Spec

-----------------------------------------------------------------------------
(* The first row of a walk, and what "first disagreement" finds.             *)

LEMMA LessThanOnNat ==
    \E R : IsWellFoundedOn(R, Nat) /\ \A x, y \in Nat : x < y => <<x, y>> \in R
<1>1. \A x, y \in Nat : x < y => <<x, y>> \in OpToRel(<, Nat)
  BY DEF OpToRel
<1> QED
  BY <1>1, NatLessThanWellFounded

\* A set of ledger indices has a first one.
LEMMA LeastElement ==
    ASSUME NEW T \in SUBSET Nat, T # {}
    PROVE  \E i \in T : \A j \in T : i <= j
<1>1. PICK R : IsWellFoundedOn(R, Nat) /\ \A x, y \in Nat : x < y => <<x, y>> \in R
  BY LessThanOnNat
<1>2. PICK i \in T : \A j \in T : ~ (<<j, i>> \in R)
  <2>1. IsWellFoundedOn(R, Nat)
    BY <1>1
  <2>2. T \subseteq Nat
    OBVIOUS
  <2> QED
    BY ONLY <2>1, <2>2, T # {}, WFMin, Zenon
<1>3. ASSUME NEW j \in T PROVE i <= j
  <2>1. i \in Nat /\ j \in Nat
    OBVIOUS
  <2>2. ~(j < i)
    BY <1>1, <1>2, <2>1
  <2> QED
    BY <2>1, <2>2
<1> QED
  BY <1>3

\* A walk over a group that never meets a first disagreement has met only equal
\* values: erasure rows, certificates and attestations are grouped this way.
LEMMA NoDisagreement ==
    ASSUME NEW value, NEW group \in SUBSET Nat
    PROVE  (\A i \in group : ~FirstDisagreement(value, group, i))
           <=> \A i, j \in group : value[i] = value[j]
<1>1. ASSUME \A i, j \in group : value[i] = value[j], NEW i \in group
      PROVE  ~FirstDisagreement(value, group, i)
  BY <1>1 DEF FirstDisagreement
<1>2. ASSUME \A i \in group : ~FirstDisagreement(value, group, i), group # {}
      PROVE  \A i, j \in group : value[i] = value[j]
  <2>1. PICK m \in group : \A j \in group : m <= j
    BY <1>2, LeastElement
  <2> DEFINE others == {j \in group : value[j] # value[m]}
  <2>2. CASE others = {}
    BY <2>2
  <2>3. CASE others # {}
    <3>1. PICK i \in others : \A j \in others : i <= j
      BY <2>3, LeastElement
    <3>2. i \in group /\ m < i /\ value[i] # value[m]
      BY <2>1
    <3>3. \A j \in group : j < i => value[j] = value[m]
      BY <3>1
    <3>4. FirstDisagreement(value, group, i)
      BY <3>2, <3>3 DEF FirstDisagreement
    <3> QED
      BY <1>2, <3>2, <3>4
  <2> QED
    BY <2>2, <2>3
<1> QED
  BY <1>1, <1>2

-----------------------------------------------------------------------------
(* finalize_erasure_evidence against ErasureHolds. *)

\* Rows about one kid that agree are not in conflict with one another.
LEMMA ErasureAgreement ==
    ASSUME NEW in \in Input, NEW rows, rows = Evidence(in, DOMAIN in.ledger),
           \A i \in rows :
              /\ ~FirstDisagreement(DestroyedAts(in, DOMAIN in.ledger),
                                    KidGroup(in, DOMAIN in.ledger, i), i)
              /\ ~FirstDisagreement(DestroyedClasses(in, DOMAIN in.ledger),
                                    KidGroup(in, DOMAIN in.ledger, i), i)
    PROVE  \A i, j \in rows : in.ledger[i].erasure.kid = in.ledger[j].erasure.kid =>
              /\ in.ledger[i].erasure.destroyedAt = in.ledger[j].erasure.destroyedAt
              /\ in.ledger[i].erasure.keyClass = in.ledger[j].erasure.keyClass
<1> DEFINE all == DOMAIN in.ledger
<1> SUFFICES ASSUME NEW i \in rows, NEW j \in rows,
                    in.ledger[i].erasure.kid = in.ledger[j].erasure.kid
             PROVE  /\ in.ledger[i].erasure.destroyedAt = in.ledger[j].erasure.destroyedAt
                    /\ in.ledger[i].erasure.keyClass = in.ledger[j].erasure.keyClass
  OBVIOUS
<1> DEFINE group == KidGroup(in, all, i)
<1>1. group \in SUBSET Nat /\ group \subseteq rows /\ i \in group /\ j \in group
  BY DEF KidGroup, Evidence, Input
<1>2. \A k \in group : KidGroup(in, all, k) = group
  BY DEF KidGroup
<1> HIDE DEF group
<1>3. \A k \in group : /\ ~FirstDisagreement(DestroyedAts(in, all), group, k)
                       /\ ~FirstDisagreement(DestroyedClasses(in, all), group, k)
  BY <1>1, <1>2
<1>4. DestroyedAts(in, all)[i] = DestroyedAts(in, all)[j]
  BY <1>1, <1>3, NoDisagreement
<1>5. DestroyedClasses(in, all)[i] = DestroyedClasses(in, all)[j]
  BY <1>1, <1>3, NoDisagreement
<1> QED
  BY <1>4, <1>5 DEF DestroyedAts, DestroyedClasses

LEMMA ErasureCheck ==
    ASSUME NEW in \in Input
    PROVE  ErasureFailures(in, DOMAIN in.ledger) = {} <=> Judge!ErasureHolds(in)
<1> DEFINE all == DOMAIN in.ledger
           rows == Evidence(in, all)
           row(i) == in.ledger[i].erasure
           registered(i) == IF in.registry[row(i).kid] # None THEN row(i).keyClass = "signing"
                            ELSE in.nonSigning[row(i).kid] \in {None, row(i).keyClass}
           agree == \A i, j \in rows : row(i).kid = row(j).kid =>
                        row(i).destroyedAt = row(j).destroyedAt
                        /\ row(i).keyClass = row(j).keyClass
           unused(i) == row(i).keyClass \in {"signing", "subject"} =>
                            \A j \in all : in.ledger[j].authoredAt > row(i).destroyedAt =>
                                in.ledger[j].kid # row(i).kid /\ row(i).kid \notin in.ledger[j].wraps
<1>1. rows \in SUBSET Nat /\ rows \subseteq all
  BY DEF Evidence, Input
<1>2. ASSUME NEW i \in rows PROVE RegistryClassMismatch(in, i) <=> ~registered(i)
  BY NoneAssumption DEF RegistryClassMismatch, RegistryClass, KeyClasses
<1>3. agree => \A i \in rows : ~Conflicted(in, all, i)
  BY DEF Conflicted, KidGroup
<1>4. ASSUME agree, NEW i \in rows
      PROVE  SweepFailures(in, all, i) = {} <=> unused(i)
  <2>1. SweepFailures(in, all, i) = {}
          <=> PostErasureUses(in, all, i) = {} /\ PostErasureWraps(in, all, i) = {}
    BY DEF SweepFailures
  <2> QED
    BY <1>3, <1>4, <2>1 DEF PostErasureUses, PostErasureWraps, Afterwards
<1>5. Judge!ErasureHolds(in)
        <=> agree /\ \A i \in rows : row(i).wellFormed /\ registered(i) /\ unused(i)
  BY DEF Judge!ErasureHolds, Judge!Indices, Evidence
<1>6. \A i \in rows : ErasureFailuresAt(in, all, i) = {}
        <=> /\ ~RegistryClassMismatch(in, i)
            /\ ~FirstDisagreement(DestroyedAts(in, all), KidGroup(in, all, i), i)
            /\ ~FirstDisagreement(DestroyedClasses(in, all), KidGroup(in, all, i), i)
            /\ SweepFailures(in, all, i) = {} /\ row(i).wellFormed
  BY DEF ErasureFailuresAt, Flag
<1>7. agree => \A i \in rows :
                  /\ ~FirstDisagreement(DestroyedAts(in, all), KidGroup(in, all, i), i)
                  /\ ~FirstDisagreement(DestroyedClasses(in, all), KidGroup(in, all, i), i)
  BY DEF FirstDisagreement, KidGroup, DestroyedAts, DestroyedClasses
<1>8. ErasureFailures(in, all) = {} <=> \A i \in rows : ErasureFailuresAt(in, all, i) = {}
  BY DEF ErasureFailures
<1>9. ErasureFailures(in, all) = {} => agree
  BY <1>6, <1>8, ErasureAgreement
<1> HIDE DEF agree, rows, all, registered, unused
<1> QED
  BY <1>2, <1>4, <1>5, <1>6, <1>7, <1>8, <1>9 DEF all

-----------------------------------------------------------------------------
(* The lookup the other two passes resolve digests with.                     *)

\* A ledger all of whose payloads decode, and no two share a digest.
Resolvable(in) ==
    /\ in \in Input
    /\ \A i \in DOMAIN in.ledger : Decodes(in.ledger[i])
    /\ \A i, j \in DOMAIN in.ledger :
          in.ledger[i].hash = in.ledger[j].hash
              => PayloadOf(in.ledger[i]) = PayloadOf(in.ledger[j])

LEMMA ResolvableEvents ==
    ASSUME NEW in, Resolvable(in), NEW i \in DOMAIN in.ledger
    PROVE  in.ledger[i] \in EventRecord
<1>1. in.ledger \in Seq(EventRecord)
  BY DEF Resolvable, Input
<1> QED
  BY <1>1

\* What the digest of an event settles about it.
LEMMA HashSettles ==
    ASSUME NEW in, Resolvable(in), NEW i \in DOMAIN in.ledger, NEW j \in DOMAIN in.ledger,
           in.ledger[i].hash = in.ledger[j].hash
    PROVE  LET e == in.ledger[i]
               f == in.ledger[j]
           IN  /\ e.scope = f.scope /\ e.sequence = f.sequence /\ e.authoredAt = f.authoredAt
               /\ e.eventType = f.eventType /\ e.subject = f.subject
               /\ e.principal = f.principal /\ e.response = f.response
               /\ e.responseMalformed = f.responseMalformed
               /\ ReadablePayload(in, e) = ReadablePayload(in, f)
<1> DEFINE e == in.ledger[i]
           f == in.ledger[j]
<1>1. e \in EventRecord /\ f \in EventRecord /\ PayloadOf(e) = PayloadOf(f)
  BY DEF Resolvable, Input
<1>2. ASSUME NEW g \in EventRecord
      PROVE  /\ PayloadOf(g).scope = g.scope /\ PayloadOf(g).sequence = g.sequence
             /\ PayloadOf(g).authoredAt = g.authoredAt /\ PayloadOf(g).eventType = g.eventType
             /\ PayloadOf(g).subject = g.subject /\ PayloadOf(g).principal = g.principal
             /\ PayloadOf(g).response = g.response
             /\ PayloadOf(g).responseMalformed = g.responseMalformed
             /\ PayloadOf(g).inline = g.inline /\ PayloadOf(g).contentHash = g.contentHash
  BY DEF PayloadOf, EventRecord
<1> HIDE DEF e, f
<1>3. /\ e.scope = f.scope /\ e.sequence = f.sequence /\ e.authoredAt = f.authoredAt
      /\ e.eventType = f.eventType /\ e.subject = f.subject
      /\ e.principal = f.principal /\ e.response = f.response
      /\ e.responseMalformed = f.responseMalformed
      /\ e.inline = f.inline /\ e.contentHash = f.contentHash
  BY <1>1, <1>2
<1>4. ReadablePayload(in, e) = ReadablePayload(in, f)
  BY <1>3 DEF ReadablePayload
<1> QED
  BY <1>3, <1>4 DEF e, f

\* The lookup finds an event of every digest the ledger has, and no other.
LEMMA LookupByHash ==
    ASSUME NEW in, Resolvable(in), NEW hash
    PROVE  /\ \A j \in ByHash(in, hash) : j \in DOMAIN in.ledger /\ in.ledger[j].hash = hash
           /\ \A i \in DOMAIN in.ledger : in.ledger[i].hash = hash => ByHash(in, hash) # {}
<1> DEFINE found == {i \in DOMAIN in.ledger : in.ledger[i].hash = hash}
<1>1. found \in SUBSET Nat /\ in.ledger \in Seq(EventRecord)
  BY DEF Resolvable, Input
<1>2. ASSUME found # {} PROVE ByHash(in, hash) # {}
  <2>1. PICK i \in found : \A j \in found : i <= j
    BY <1>1, <1>2, LeastElement
  <2>2. \A j \in 1..(i - 1) : j \in DOMAIN in.ledger /\ j \notin found
    BY <1>1, <2>1
  <2>3. i \in LookupPool(in)
    BY <2>1, <2>2 DEF LookupPool, Resolvable
  <2> QED
    BY <2>3 DEF ByHash
<1> QED
  BY <1>2 DEF ByHash, LookupPool

-----------------------------------------------------------------------------
(* finalize_certificates_of_completion against CertificatesHold.             *)

LEMMA SigningEventsCheck ==
    ASSUME NEW in, Resolvable(in), NEW c \in CertificateDetails
    PROVE  /\ Unresolved(in, c) = {} /\ ~PrincipalMismatch(in, c)
           /\ TimestampMismatches(in, c) = {}
           <=> \A k \in DOMAIN c.signingEvents : Judge!ShownAsSigned(in, c, k)
<1> DEFINE shown(j, k) == /\ in.ledger[j].principal \in {None, c.signerDisplay[k].principal}
                          /\ in.ledger[j].authoredAt = c.signerDisplay[k].signedAt
<1>1. ASSUME NEW k \in DOMAIN c.signingEvents
      PROVE  SigningEvent(in, c, k) # {} /\ (\A j \in SigningEvent(in, c, k) : shown(j, k))
             <=> Judge!ShownAsSigned(in, c, k)
  <2>1. \A j \in SigningEvent(in, c, k) :
            j \in DOMAIN in.ledger /\ Judge!Holds(in, j, c.signingEvents[k])
    BY LookupByHash, SameHelpers DEF SigningEvent, Judge!Holds
  <2>2. ASSUME NEW i \in DOMAIN in.ledger, Judge!Holds(in, i, c.signingEvents[k])
        PROVE  /\ SigningEvent(in, c, k) # {}
               /\ \A j \in SigningEvent(in, c, k) : shown(i, k) <=> shown(j, k)
    <3>1. in.ledger[i].hash = c.signingEvents[k] /\ ReadablePayload(in, in.ledger[i]) # None
      BY <2>2, SameHelpers DEF Judge!Holds
    <3>2. \A j \in ByHash(in, c.signingEvents[k]) :
              /\ ReadablePayload(in, in.ledger[j]) = ReadablePayload(in, in.ledger[i])
              /\ in.ledger[j].principal = in.ledger[i].principal
              /\ in.ledger[j].authoredAt = in.ledger[i].authoredAt
      BY <3>1, LookupByHash, HashSettles
    <3> QED
      BY <3>1, <3>2, LookupByHash DEF SigningEvent
  <2> QED
    BY <2>1, <2>2 DEF Judge!ShownAsSigned, Judge!Indices
<1> QED
  BY <1>1 DEF Unresolved, PrincipalMismatch, TimestampMismatches

LEMMA ResponseCheck ==
    ASSUME NEW in, Resolvable(in), NEW c \in CertificateDetails
    PROVE  ~MalformedResponse(in, c) /\ ~ResponseMismatch(in, c) <=> Judge!ResponseHolds(in, c)
<1> DEFINE signers == DOMAIN c.signingEvents
           malformed(k) == \E j \in DOMAIN in.ledger :
               Judge!Holds(in, j, c.signingEvents[k]) /\ in.ledger[j].responseMalformed
<1>1. ASSUME NEW k \in signers
      PROVE  /\ \A r : r \in Responses(in, c, k) <=> r # None /\ Judge!AnswersWith(in, c, k, r)
             /\ (\E j \in SigningEvent(in, c, k) : in.ledger[j].responseMalformed) <=> malformed(k)
  <2>1. \A j \in SigningEvent(in, c, k) :
            j \in DOMAIN in.ledger /\ Judge!Holds(in, j, c.signingEvents[k])
    BY LookupByHash, SameHelpers DEF SigningEvent, Judge!Holds
  <2>2. ASSUME NEW i \in DOMAIN in.ledger, Judge!Holds(in, i, c.signingEvents[k])
        PROVE  \E j \in SigningEvent(in, c, k) :
                   /\ in.ledger[j].response = in.ledger[i].response
                   /\ in.ledger[j].responseMalformed = in.ledger[i].responseMalformed
    <3>1. in.ledger[i].hash = c.signingEvents[k] /\ ReadablePayload(in, in.ledger[i]) # None
      BY <2>2, SameHelpers DEF Judge!Holds
    <3>2. PICK j \in ByHash(in, c.signingEvents[k]) : TRUE
      BY <3>1, LookupByHash
    <3>3. j \in DOMAIN in.ledger /\ in.ledger[j].hash = in.ledger[i].hash
      BY <3>1, LookupByHash
    <3> QED
      BY <3>1, <3>3, HashSettles DEF SigningEvent
  <2> QED
    BY <2>1, <2>2 DEF Responses, Judge!AnswersWith, Judge!Indices
<1>2. \A k \in signers : \A r : Judge!AnswersWith(in, c, k, r) => r \in Optional(Contents)
  <2>1. \A j \in DOMAIN in.ledger : in.ledger[j].response \in Optional(Contents)
    BY ResolvableEvents DEF EventRecord
  <2> QED
    BY <2>1 DEF Judge!AnswersWith, Judge!Indices
<1>3. signers \subseteq Nat /\ \A k \in signers : 1..(k - 1) = {m \in signers : m < k}
  BY DEF CertificateDetails
<1>4. \A k \in signers : c.responseRef # None =>
          (MatchesResponse(in, c, k) <=> Judge!AnswersWith(in, c, k, c.responseRef))
  BY <1>1 DEF MatchesResponse
<1>5. \A k \in signers : Responses(in, c, k) # {}
          <=> \E r \in Contents : Judge!AnswersWith(in, c, k, r)
  BY <1>1, <1>2, NoneAssumption DEF Optional
<1>6. Judge!ResponseHolds(in, c) <=>
        (c.responseRef # None =>
          /\ \A k \in signers : malformed(k) =>
                \E m \in signers : m < k /\ Judge!AnswersWith(in, c, m, c.responseRef)
          /\ (\E k \in signers : \E r \in Contents : Judge!AnswersWith(in, c, k, r)) =>
                \E k \in signers : Judge!AnswersWith(in, c, k, c.responseRef))
  BY DEF Judge!ResponseHolds, Judge!Indices
<1> HIDE DEF malformed
<1>7. MalformedResponse(in, c) <=>
        c.responseRef # None /\ \E k \in signers : malformed(k) /\
            \A m \in signers : m < k => ~Judge!AnswersWith(in, c, m, c.responseRef)
  BY <1>1, <1>3, <1>4 DEF MalformedResponse
<1>8. ResponseMismatch(in, c) <=>
        /\ c.responseRef # None
        /\ \E k \in signers : \E r \in Contents : Judge!AnswersWith(in, c, k, r)
        /\ \A k \in signers : ~Judge!AnswersWith(in, c, k, c.responseRef)
  BY <1>4, <1>5 DEF ResponseMismatch
<1> QED
  BY <1>6, <1>7, <1>8

LEMMA CertificateAgreement ==
    ASSUME NEW in \in Input
    PROVE  (\A i \in Certified(in, DOMAIN in.ledger) :
                ~FirstDisagreement(CollisionFields(in, DOMAIN in.ledger),
                                   CertificateGroup(in, DOMAIN in.ledger, i), i))
           <=> \A i, j \in Certified(in, DOMAIN in.ledger) :
                  in.ledger[j].certificate.id = in.ledger[i].certificate.id =>
                      Judge!SameCertificate(in.ledger[i].certificate, in.ledger[j].certificate)
<1> DEFINE all == DOMAIN in.ledger
           certified == Certified(in, all)
           group(i) == CertificateGroup(in, all, i)
           fields == CollisionFields(in, all)
<1>1. \A i \in certified : group(i) \in SUBSET Nat /\ i \in group(i) /\ group(i) \subseteq certified
                           /\ \A k \in group(i) : group(k) = group(i)
  BY DEF CertificateGroup, Certified, Input
<1>2. \A i, j \in certified :
          fields[i] = fields[j]
          <=> Judge!SameCertificate(in.ledger[i].certificate, in.ledger[j].certificate)
  BY DEF CollisionFields, Judge!SameCertificate
<1>3. \A i, j \in certified :
          j \in group(i) <=> in.ledger[j].certificate.id = in.ledger[i].certificate.id
  BY DEF CertificateGroup
<1> HIDE DEF group, fields, certified
<1>4. (\A i \in certified : ~FirstDisagreement(fields, group(i), i))
      <=> \A i \in certified : \A k \in group(i) : ~FirstDisagreement(fields, group(i), k)
  BY <1>1
<1>5. \A i \in certified : (\A k \in group(i) : ~FirstDisagreement(fields, group(i), k))
                           <=> \A k, m \in group(i) : fields[k] = fields[m]
  BY <1>1, NoDisagreement
<1>6. (\A i \in certified : ~FirstDisagreement(fields, group(i), i))
      <=> \A i, j \in certified : j \in group(i) => fields[i] = fields[j]
  BY <1>1, <1>4, <1>5
<1>7. (\A i \in certified : ~FirstDisagreement(fields, group(i), i))
      <=> \A i, j \in certified :
             in.ledger[j].certificate.id = in.ledger[i].certificate.id =>
                 Judge!SameCertificate(in.ledger[i].certificate, in.ledger[j].certificate)
  BY <1>2, <1>3, <1>6
<1> QED
  BY <1>7 DEF group, fields, certified

LEMMA CertificateCheck ==
    ASSUME NEW in, Resolvable(in)
    PROVE  CertificateFailures(in, DOMAIN in.ledger) = {} <=> Judge!CertificatesHold(in)
<1> DEFINE all == DOMAIN in.ledger
           certified == Certified(in, all)
           c(i) == in.ledger[i].certificate
           collides(i) == FirstDisagreement(CollisionFields(in, all), CertificateGroup(in, all, i), i)
           shown(i) == \A k \in DOMAIN c(i).signingEvents : Judge!ShownAsSigned(in, c(i), k)
<1>1. \A i \in certified : c(i) \in CertificateDetails
  BY ResolvableEvents DEF Certified, EventRecord, Optional
<1>2. ASSUME NEW i \in certified
      PROVE  CertificateFailuresAt(in, all, i) = {}
             <=> ~collides(i) /\ c(i).wellFormed /\ shown(i) /\ Judge!ResponseHolds(in, c(i))
  <2>1. CertificateFailuresAt(in, all, i) = {}
        <=> /\ ~collides(i) /\ c(i).wellFormed
            /\ Unresolved(in, c(i)) = {} /\ ~PrincipalMismatch(in, c(i))
            /\ TimestampMismatches(in, c(i)) = {}
            /\ ~MalformedResponse(in, c(i)) /\ ~ResponseMismatch(in, c(i))
    BY DEF CertificateFailuresAt, ResponseFailures, Flag
  <2> QED
    BY <1>1, <2>1, SigningEventsCheck, ResponseCheck
<1>3. CertificateFailures(in, all) = {}
      <=> \A i \in certified : CertificateFailuresAt(in, all, i) = {}
  BY DEF CertificateFailures
<1>4. (\A i \in certified : ~collides(i))
      <=> \A i, j \in certified : c(j).id = c(i).id => Judge!SameCertificate(c(i), c(j))
  BY CertificateAgreement DEF Resolvable
<1>5. Judge!CertificatesHold(in) <=>
        /\ \A i \in certified :
              c(i).wellFormed /\ shown(i) /\ Judge!ResponseHolds(in, c(i))
        /\ \A i, j \in certified : c(j).id = c(i).id => Judge!SameCertificate(c(i), c(j))
  BY DEF Judge!CertificatesHold, Judge!Indices, Certified
<1> HIDE DEF certified, collides, shown, all
<1> QED
  BY <1>2, <1>3, <1>4, <1>5 DEF all

-----------------------------------------------------------------------------
(* finalize_user_content_attestations against AttestationsHold.              *)

LEMMA PositionCheck ==
    ASSUME NEW in, Resolvable(in), NEW e
    PROVE  PositionResolves(in, e) <=> Judge!AttestsFirstAt(in, e)
<1> DEFINE all == DOMAIN in.ledger
           there == {m \in all : /\ in.ledger[m].scope = e.scope
                                 /\ in.ledger[m].sequence = e.attestation.position}
           first(j) == j \in there /\ \A m \in there : j <= m
<1>1. there \in SUBSET Nat /\ all \subseteq Nat /\ \A j \in all : 1..(j - 1) \subseteq all
  BY DEF Resolvable, Input
<1>2. \A j : first(j) => j \in LookupPool(in)
  <2> SUFFICES ASSUME NEW j, first(j) PROVE j \in LookupPool(in)
    OBVIOUS
  <2>1. ASSUME NEW m \in 1..(j - 1) PROVE in.ledger[m].hash # in.ledger[j].hash
    <3>1. m \in all /\ j \in all /\ m \notin there
      BY <1>1
    <3> QED
      BY <3>1, HashSettles
  <2> QED
    BY <2>1 DEF LookupPool, Resolvable
<1>3. \A j : first(j) <=> j \in ByPosition(in, e.scope, e.attestation.position)
  <2>1. \A j \in AtPosition(in, e.scope, e.attestation.position) : j \in there
    BY DEF AtPosition, LookupPool
  <2>2. \A j : first(j) => j \in ByPosition(in, e.scope, e.attestation.position)
    BY <1>2, <2>1 DEF ByPosition, AtPosition
  <2>3. ASSUME NEW j \in ByPosition(in, e.scope, e.attestation.position)
        PROVE  first(j)
    <3>1. j \in there
      BY <2>1 DEF ByPosition
    <3>2. PICK k \in there : \A m \in there : k <= m
      BY <1>1, <3>1, LeastElement
    <3>3. k \in ByPosition(in, e.scope, e.attestation.position)
      BY <2>2, <3>2
    <3>4. j = k
      BY <1>1, <3>1, <3>2, <3>3 DEF ByPosition
    <3> QED
      BY <3>2, <3>4
  <2> QED
    BY <2>2, <2>3
<1>4. \A j \in there : (\A m \in 1..(j - 1) : m \notin there) <=> first(j)
  <2>1. \A m \in there : m \in Nat /\ m >= 1
    BY DEF Resolvable, Input
  <2> HIDE DEF there
  <2> QED
    BY <2>1
<1>5. Judge!AttestsFirstAt(in, e)
        <=> \E j \in there : /\ in.ledger[j].hash = e.attestation.eventHash
                             /\ \A m \in 1..(j - 1) : m \notin there
  BY <1>1 DEF Judge!AttestsFirstAt, Judge!Indices
<1> HIDE DEF there
<1> QED
  BY <1>3, <1>4, <1>5 DEF PositionResolves

LEMMA IdentityCheck ==
    ASSUME NEW in, Resolvable(in), NEW e, e.attestation \in UserContentAttestationDetails
    PROVE  IdentityFailure(in, DOMAIN in.ledger, e) = None <=> Judge!IdentityProved(in, e)
<1> DEFINE a == e.attestation
           found == ByHash(in, a.identityRef)
           admitted(j) == /\ in.ledger[j].eventType \in {IdentityEventType} \cup in.admittedTypes
                          /\ in.ledger[j].scope = e.scope
           earlier(j) == in.ledger[j].sequence < a.position
           about(j) == in.ledger[j].subject = a.attestor
<1>1. \A k \in FailureKinds : k # None
  BY NoneAssumption
<1>2. CASE a.identityRef = None
  BY <1>1, <1>2 DEF IdentityFailure, Judge!IdentityProved, FailureKinds, AttestationKinds
<1>3. CASE a.identityRef # None
  <2>1. \A j \in found : j \in DOMAIN in.ledger /\ in.ledger[j].hash = a.identityRef
    BY LookupByHash
  <2>2. a.position \in Nat /\ \A j \in found : in.ledger[j].sequence \in Nat
    BY <2>1, ResolvableEvents DEF UserContentAttestationDetails, EventRecord
  <2>3. \A j \in found : SubjectOf(in, DOMAIN in.ledger, j) = in.ledger[j].subject
    BY <2>1 DEF SubjectOf
  <2>4. IdentityFailure(in, DOMAIN in.ledger, e) = None
        <=> /\ \E j \in found : admitted(j)
            /\ \E j \in found : earlier(j)
            /\ \E j \in found : about(j)
    BY <1>1, <1>3, <2>2, <2>3 DEF IdentityFailure, FailureKinds, AttestationKinds
  <2>5. Judge!IdentityProved(in, e)
        <=> \E j \in DOMAIN in.ledger :
               in.ledger[j].hash = a.identityRef /\ admitted(j) /\ earlier(j) /\ about(j)
    BY <1>3 DEF Judge!IdentityProved, Judge!Indices, IdentityEventType
  <2>6. ASSUME NEW i \in DOMAIN in.ledger, NEW j \in DOMAIN in.ledger,
               in.ledger[i].hash = in.ledger[j].hash
        PROVE  (admitted(i) <=> admitted(j)) /\ (earlier(i) <=> earlier(j))
               /\ (about(i) <=> about(j))
    BY <2>6, HashSettles
  <2>7. ASSUME NEW i \in DOMAIN in.ledger, in.ledger[i].hash = a.identityRef
        PROVE  found # {}
    BY <2>7, LookupByHash
  <2> HIDE DEF found, admitted, earlier, about
  <2> QED
    BY <2>1, <2>4, <2>5, <2>6, <2>7
<1> QED
  BY <1>2, <1>3

LEMMA AttestationAgreement ==
    ASSUME NEW in \in Input
    PROVE  (\A i \in Attested(in, DOMAIN in.ledger) :
                ~FirstDisagreement(AttestationFields(in, DOMAIN in.ledger),
                                   AttestationGroup(in, DOMAIN in.ledger, i), i))
           <=> \A i, j \in Attested(in, DOMAIN in.ledger) :
                  in.ledger[j].attestation.id = in.ledger[i].attestation.id =>
                      Judge!SameAttestation(in.ledger[i].attestation, in.ledger[j].attestation)
<1> DEFINE all == DOMAIN in.ledger
           attested == Attested(in, all)
           group(i) == AttestationGroup(in, all, i)
           fields == AttestationFields(in, all)
<1>1. \A i \in attested : group(i) \in SUBSET Nat /\ i \in group(i) /\ group(i) \subseteq attested
                          /\ \A k \in group(i) : group(k) = group(i)
  BY DEF AttestationGroup, Attested, Input
<1>2. \A i, j \in attested :
          fields[i] = fields[j]
          <=> Judge!SameAttestation(in.ledger[i].attestation, in.ledger[j].attestation)
  BY DEF AttestationFields, Judge!SameAttestation
<1>3. \A i, j \in attested :
          j \in group(i) <=> in.ledger[j].attestation.id = in.ledger[i].attestation.id
  BY DEF AttestationGroup
<1> HIDE DEF group, fields, attested
<1>4. (\A i \in attested : ~FirstDisagreement(fields, group(i), i))
      <=> \A i \in attested : \A k \in group(i) : ~FirstDisagreement(fields, group(i), k)
  BY <1>1
<1>5. \A i \in attested : (\A k \in group(i) : ~FirstDisagreement(fields, group(i), k))
                          <=> \A k, m \in group(i) : fields[k] = fields[m]
  BY <1>1, NoDisagreement
<1>6. (\A i \in attested : ~FirstDisagreement(fields, group(i), i))
      <=> \A i, j \in attested : j \in group(i) => fields[i] = fields[j]
  BY <1>1, <1>4, <1>5
<1>7. (\A i \in attested : ~FirstDisagreement(fields, group(i), i))
      <=> \A i, j \in attested :
             in.ledger[j].attestation.id = in.ledger[i].attestation.id =>
                 Judge!SameAttestation(in.ledger[i].attestation, in.ledger[j].attestation)
  BY <1>2, <1>3, <1>6
<1> QED
  BY <1>7 DEF group, fields, attested

LEMMA AttestationCheck ==
    ASSUME NEW in, Resolvable(in)
    PROVE  AttestationFailures(in, DOMAIN in.ledger) = {} <=> Judge!AttestationsHold(in)
<1> DEFINE all == DOMAIN in.ledger
           attested == Attested(in, all)
           event(i) == in.ledger[i]
           a(i) == in.ledger[i].attestation
           collides(i) == FirstDisagreement(AttestationFields(in, all), AttestationGroup(in, all, i), i)
           keyHolds(i) == /\ in.registry[a(i).kid] # None
                          /\ Judge!KeyInForce(in.registry[a(i).kid], a(i).attestedAt)
                          /\ a(i).signer = in.registry[a(i).kid].key
           holds(i) == /\ a(i).attestedAt = event(i).authoredAt /\ a(i).intentIsUri
                       /\ a(i).attestor \notin OperatorNames
                       /\ Judge!AttestsFirstAt(in, event(i)) /\ Judge!IdentityProved(in, event(i))
                       /\ keyHolds(i)
<1>1. \A i \in attested : a(i) \in UserContentAttestationDetails
  BY ResolvableEvents DEF Attested, EventRecord, Optional
<1>2. ASSUME NEW i \in attested
      PROVE  AttestationFailuresAt(in, all, i) = {} <=> ~collides(i) /\ holds(i)
  <2>1. AttestationFailuresAt(in, all, i) = {}
        <=> /\ ~collides(i) /\ StepTwoFailure(event(i)) = None
            /\ a(i).attestor \notin OperatorNames /\ PositionResolves(in, event(i))
            /\ IdentityFailure(in, all, event(i)) = None
            /\ KeyActive(in, a(i)) /\ AttestationSignatureOk(in, a(i))
    BY DEF AttestationFailuresAt, KeyFailures, Flag
  <2>2. StepTwoFailure(event(i)) = None
        <=> a(i).attestedAt = event(i).authoredAt /\ a(i).intentIsUri
    BY NoneAssumption DEF StepTwoFailure, FailureKinds, AttestationKinds
  <2>3. KeyActive(in, a(i)) /\ AttestationSignatureOk(in, a(i)) <=> keyHolds(i)
    <3>1. \A entry, at : KeyAdmits(entry, at) <=> Judge!KeyInForce(entry, at)
      BY DEF KeyAdmits, Judge!KeyInForce
    <3> QED
      BY <3>1 DEF KeyActive, AttestationSignatureOk
  <2> QED
    BY <1>1, <2>1, <2>2, <2>3, PositionCheck, IdentityCheck
<1>3. AttestationFailures(in, all) = {}
      <=> \A i \in attested : AttestationFailuresAt(in, all, i) = {}
  BY DEF AttestationFailures
<1>4. (\A i \in attested : ~collides(i))
      <=> \A i, j \in attested : a(j).id = a(i).id => Judge!SameAttestation(a(i), a(j))
  BY AttestationAgreement DEF Resolvable
<1>5. Judge!AttestationsHold(in) <=>
        /\ \A i \in attested : holds(i)
        /\ \A i, j \in attested : a(j).id = a(i).id => Judge!SameAttestation(a(i), a(j))
  BY DEF Judge!AttestationsHold, Judge!Indices, Attested
<1> HIDE DEF attested, collides, holds, all
<1> QED
  BY <1>2, <1>3, <1>4, <1>5 DEF all

-----------------------------------------------------------------------------
(* The clauses of the judge on events, against the clean prefix.             *)

LEMMA CleanPrefixCheck ==
    ASSUME NEW in \in Input
    PROVE  CleanBefore(in, Len(in.ledger) + 1)
           <=> /\ Judge!EventsAuthentic(in) /\ Judge!ChainLinked(in) /\ Judge!TimeOrdered(in)
               /\ Judge!IdempotencyHolds(in) /\ Judge!PostureHolds(in)
<1>1. DOMAIN in.ledger = 1..Len(in.ledger) /\ Len(in.ledger) \in Nat
      /\ 1..(Len(in.ledger) + 1 - 1) = DOMAIN in.ledger
  BY DEF Input
<1> DEFINE all == DOMAIN in.ledger
<1>2. (\A i \in all : LinkedAt(in, i)) <=> Judge!ChainLinked(in)
  BY DEF LinkedAt, Judge!ChainLinked, Judge!Indices
<1>3. (\A i \in all : OrderedAt(in, i)) <=> Judge!TimeOrdered(in)
  BY <1>1 DEF OrderedAt, Judge!TimeOrdered, Judge!Indices
<1>4. (\A i \in all : IdempotentAt(in, i)) <=> Judge!IdempotencyHolds(in)
  <2>1. \A i, j \in all : Identity(in.ledger[i]) = Identity(in.ledger[j])
          <=> /\ in.ledger[i].scope = in.ledger[j].scope
              /\ in.ledger[i].idempotencyKey = in.ledger[j].idempotencyKey
    BY DEF Identity
  <2>2. \A i, j \in all : i = j \/ i \in 1..(j - 1) \/ j \in 1..(i - 1)
    BY <1>1
  <2>3. \A i \in all : \A j \in 1..(i - 1) : j \in all
    BY <1>1
  <2> HIDE DEF all
  <2> QED
    BY <2>1, <2>2, <2>3 DEF IdempotentAt, Judge!IdempotencyHolds, Judge!Indices, all
<1>5. (\A i \in all : PostureAt(in, i)) <=> Judge!PostureHolds(in)
  <2>1. \A i \in all : in.ledger[i] \in EventRecord
    BY DEF Input
  <2>2. \A i \in all : in.ledger[i].transition # None =>
            in.ledger[i].transition.kind \in TransitionKinds
    BY <2>1 DEF EventRecord, Optional, TransitionDetails
  <2> QED
    BY <2>2, SameHelpers DEF PostureAt, Judge!PostureHolds, Judge!TransitionsOf, Judge!Indices
<1>6. CleanBefore(in, Len(in.ledger) + 1) <=> \A i \in all : CleanAt(in, i)
  BY <1>1 DEF CleanBefore
<1>7. (\A i \in all : Judge!EventAuthentic(in, in.ledger[i])) <=> Judge!EventsAuthentic(in)
  BY DEF Judge!EventsAuthentic, Judge!Indices
<1> HIDE DEF all
<1> QED
  BY <1>2, <1>3, <1>4, <1>5, <1>6, <1>7 DEF CleanAt

-----------------------------------------------------------------------------
(* The refinement. *)

\* On a clean prefix that is the whole ledger, the passes and the clauses agree.
LEMMA PassesJudge ==
    ASSUME Inv, cursor = Len(Ledger) + 1
    PROVE  /\ CleanBefore(input, cursor)
           /\ ErasureFailures(input, chain) = {} /\ CertificateFailures(input, chain) = {}
           /\ AttestationFailures(input, chain) = {}
           <=> Judge!Clean(input)
<1>1. input \in Input /\ DOMAIN Ledger = 1..Len(Ledger) /\ Len(Ledger) \in Nat
  BY ArgumentTypes DEF Inv
<1>2. CleanBefore(input, cursor)
        <=> /\ Judge!EventsAuthentic(input) /\ Judge!ChainLinked(input)
            /\ Judge!TimeOrdered(input) /\ Judge!IdempotencyHolds(input)
            /\ Judge!PostureHolds(input)
  BY <1>1, CleanPrefixCheck DEF Ledger
<1>3. CASE CleanBefore(input, cursor)
  <2>1. chain = DOMAIN input.ledger /\ DOMAIN input.ledger = 1..(cursor - 1)
    <3>1. cursor - 1 = Len(Ledger)
      BY <1>1
    <3> QED
      BY <1>1, <1>3, <3>1 DEF Inv, Summary, Ledger
  <2>2. Resolvable(input)
    <3>1. ASSUME NEW i \in DOMAIN input.ledger PROVE Decodes(input.ledger[i])
      <4>1. SignatureVerifies(input, input.ledger[i])
        BY <1>3, <2>1, SameHelpers DEF CleanBefore, CleanAt, Judge!EventAuthentic
      <4>2. ~Judge!Unreadable(input, input.ledger[i])
        BY <2>1 DEF Inv, ReadableBefore
      <4> QED
        BY <4>1, <4>2, SameHelpers DEF Judge!Unreadable
    <3>2. call \in Calls /\ input = Inputs[call]
      BY DEF Inv, TypeOK, OptionalHashes
    <3> QED
      BY <1>1, <3>1, <3>2, CollisionFreeAssumption DEF Resolvable
  <2>3. /\ ErasureFailures(input, chain) = {} <=> Judge!ErasureHolds(input)
        /\ CertificateFailures(input, chain) = {} <=> Judge!CertificatesHold(input)
        /\ AttestationFailures(input, chain) = {} <=> Judge!AttestationsHold(input)
    BY <1>1, <2>1, <2>2, ErasureCheck, CertificateCheck, AttestationCheck
  <2> QED
    BY <1>2, <1>3, <2>3 DEF Judge!Clean
<1>4. CASE ~CleanBefore(input, cursor)
  BY <1>2, <1>4 DEF Judge!Clean
<1> QED
  BY <1>3, <1>4

\* When the passes are through, no failure was pushed exactly for clean ledgers.
LEMMA FailuresJudge ==
    ASSUME Inv, phase = "report"
    PROVE  failures = {} <=> Judge!Clean(input)
BY PassesJudge DEF Inv, Passed

LEMMA VerifiedIsClean ==
    ASSUME Inv, Verified
    PROVE  Judge!Clean(input) /\ Summary /\ chain = DOMAIN Ledger
<1>1. Summary /\ cursor = Len(Ledger) + 1 /\ Judge!Clean(input)
  BY PassesJudge DEF Inv
<1>2. DOMAIN Ledger = 1..Len(Ledger) /\ Len(Ledger) \in Nat
  BY ArgumentTypes DEF Inv
<1> QED
  BY <1>1, <1>2 DEF Summary

LEMMA RefinesInit == Init => Judge!Init
BY DEF Init, Judge!Init, Verdict

LEMMA RefinesStep ==
    Inv /\ [Next]_vars => [Judge!Decide]_<<call, input, Verdict>>
<1> SUFFICES ASSUME Inv, [Next]_vars
             PROVE  Judge!Decide \/ UNCHANGED <<call, input, Verdict>>
  OBVIOUS
<1> USE DEF callVars, scanVars, finalVars
<1>1. CASE ReturnFatal
  <2>1. /\ Verdict = "pending" /\ Verdict' = "unreadable"
        /\ UNCHANGED <<call, input>>
    BY <1>1 DEF ReturnFatal, Scanning, Verdict, FatalReport
  <2>2. Judge!Unreadable(input, input.ledger[cursor]) /\ cursor \in DOMAIN input.ledger
    BY <1>1, FatalIsUnreadable DEF ReturnFatal, Scanning, Ledger
  <2> QED
    BY <2>1, <2>2 DEF Judge!Decide, Judge!Judgement, Judge!Indices
<1>2. CASE RejectSignature \/ AdmitEvent
  BY <1>2 DEF RejectSignature, AdmitEvent, Verdict
<1>3. CASE FinalizeErasure \/ FinalizeCertificates \/ FinalizeAttestations
  BY <1>3 DEF FinalizeErasure, FinalizeCertificates, FinalizeAttestations, Verdict
<1>4. CASE ReturnReport
  <2>1. /\ phase = "report" /\ phase' = "done" /\ UNCHANGED <<call, input>>
        /\ report' = [structure |-> TRUE, integrity |-> IntegrityVerified,
                      readability |-> TRUE, failures |-> failures]
    BY <1>4 DEF ReturnReport
  <2>2. IntegrityVerified <=> failures = {}
    BY DEF Inv, OutcomesLeaveFailures, IntegrityVerified
  <2>3. \A i \in Judge!Indices(input) : ~Judge!Unreadable(input, input.ledger[i])
    <3>1. DOMAIN input.ledger = 1..(cursor - 1)
      <4>1. Len(Ledger) \in Nat /\ cursor = Len(Ledger) + 1 /\ DOMAIN Ledger = 1..Len(Ledger)
        BY <2>1, ArgumentTypes DEF Inv
      <4> QED
        BY <4>1 DEF Ledger
    <3> QED
      BY <3>1 DEF Inv, ReadableBefore, Judge!Indices
  <2>4. Verdict = "pending" /\ Verdict' = IF IntegrityVerified THEN "verified" ELSE "tampered"
    BY <2>1 DEF Verdict
  <2> QED
    BY <2>1, <2>2, <2>3, <2>4, FailuresJudge DEF Judge!Decide, Judge!Judgement
<1>5. CASE UNCHANGED vars
  BY <1>5 DEF vars, Verdict
<1> QED
  BY <1>1, <1>2, <1>3, <1>4, <1>5 DEF Next

\* The verdict the call returns is the judgement of the order-free specification
\* on its arguments, whatever the ledger, the registry and the options: the pass
\* accepts every clean ledger and no other.  (That it returns at all is
\* model-checked.)
THEOREM Refinement == Spec => Judge!Safety
<1>1. Spec => []Inv
  BY Invariance
<1>2. Init => Judge!Init
  BY RefinesInit
<1>3. Inv /\ [Next]_vars => [Judge!Decide]_<<call, input, Verdict>>
  BY RefinesStep
<1> QED
  BY <1>1, <1>2, <1>3, PTL DEF Spec, Judge!Safety

-----------------------------------------------------------------------------
(* What a reader of a verified report may rely on. *)

\* No outcome of a transition, an erasure, a certificate or an attestation is bad
\* without a failure that says so.
THEOREM OutcomesAreLoud == Spec => []OutcomesLeaveFailures
<1>1. Inv => OutcomesLeaveFailures
  BY DEF Inv
<1> QED
  BY <1>1, Invariance, PTL

\* No event escapes the verdict behind the loop's `continue`.
THEOREM NothingSkipped == Spec => []VerifiedSkipsNothing
<1>1. Inv => VerifiedSkipsNothing
  BY VerifiedIsClean DEF VerifiedSkipsNothing
<1> QED
  BY <1>1, Invariance, PTL

\* The links of a verified ledger pass the universal phase's chain check.
THEOREM LinksPassContinuity == Spec => []VerifiedLinksPassContinuity
<1>1. Inv => VerifiedLinksPassContinuity
  <2> SUFFICES ASSUME Inv, Verified, ~SkipPrevHashCheck(input),
                      NEW finding \in Continuity!ContinuityFindings(Ledger)
               PROVE  finding.kind = "sequence_reorder"
    BY DEF VerifiedLinksPassContinuity
  <2>1. \A i \in DOMAIN Ledger :
            Ledger[i].prevHash =
                IF Ledger[i].sequence = 0 \/ i = 1 THEN None ELSE Ledger[i - 1].hash
    BY VerifiedIsClean DEF Judge!Clean, Judge!ChainLinked, Judge!StandsAlone,
                           SkipPrevHashCheck, Judge!Indices, Ledger
  <2> QED
    BY <2>1 DEF Continuity!ContinuityFindings, Continuity!PreviousHash
<1> QED
  BY <1>1, Invariance, PTL

\* A certificate in a verified ledger rests on events whose signatures verify.
THEOREM CertificatesRestOnSignedEvents == Spec => []VerifiedCertificatesRestOnSignedEvents
<1>1. Inv => VerifiedCertificatesRestOnSignedEvents
  <2> SUFFICES ASSUME Inv, Verified, NEW i \in DOMAIN Ledger, Ledger[i].certificate # None,
                      NEW k \in DOMAIN Ledger[i].certificate.signingEvents
               PROVE  \E j \in DOMAIN Ledger :
                          /\ Ledger[j].hash = Ledger[i].certificate.signingEvents[k]
                          /\ SignatureVerifies(input, Ledger[j])
    BY DEF VerifiedCertificatesRestOnSignedEvents
  <2>1. Judge!CertificatesHold(input) /\ Judge!EventsAuthentic(input)
    BY VerifiedIsClean DEF Judge!Clean
  <2>2. Judge!ShownAsSigned(input, Ledger[i].certificate, k)
    BY <2>1 DEF Judge!CertificatesHold, Judge!Indices, Ledger
  <2>3. PICK j \in DOMAIN Ledger : Ledger[j].hash = Ledger[i].certificate.signingEvents[k]
    BY <2>2 DEF Judge!ShownAsSigned, Judge!Holds, Judge!Indices, Ledger
  <2>4. SignatureVerifies(input, Ledger[j])
    BY <2>1, SameHelpers DEF Judge!EventsAuthentic, Judge!EventAuthentic, Judge!Indices, Ledger
  <2> QED
    BY <2>3, <2>4
<1> QED
  BY <1>1, Invariance, PTL

\* No step takes a failure back or replaces an identity's first event.
THEOREM NothingForgotten == Spec => NothingIsForgotten
<1> DEFINE Kept == /\ failures \subseteq failures'
                   /\ \A identity \in Identities : idempotencyIndex[identity] # None =>
                          idempotencyIndex'[identity] = idempotencyIndex[identity]
<1>1. TypeOK /\ [Next]_vars => [Kept]_vars
  <2> SUFFICES ASSUME TypeOK, Next PROVE Kept
    OBVIOUS
  <2> USE DEF scanVars
  <2>1. CASE AdmitEvent
    BY <2>1 DEF AdmitEvent, IndexAfter, TypeOK, OptionalHashes
  <2>2. CASE RejectSignature
    BY <2>2 DEF RejectSignature
  <2>3. CASE ReturnFatal \/ ReturnReport
    BY <2>3 DEF ReturnFatal, ReturnReport
  <2>4. CASE FinalizeErasure \/ FinalizeCertificates \/ FinalizeAttestations
    BY <2>4 DEF FinalizeErasure, FinalizeCertificates, FinalizeAttestations
  <2> QED
    BY <2>1, <2>2, <2>3, <2>4 DEF Next
<1> QED
  BY <1>1, TypeCorrectness, PTL DEF Spec, NothingIsForgotten

-----------------------------------------------------------------------------
(* Custody: the shadow rises above the declared state only past an event that *)
(* carried both authorities.                                                 *)

Upgraded(n) ==
    \E i \in 1..(n - 1) :
        /\ Ledger[i].transition # None /\ Ledger[i].transition.kind = "custody"
        /\ {"prior", "new"} \subseteq Ledger[i].transition.attestationClasses

CustodyInv ==
    CleanBefore(input, cursor) /\ input.initialPosture # None
        /\ input.initialPosture["custody"] # None
    => /\ shadow["custody"] # None
       /\ \/ CustodyRank(shadow["custody"]) <= CustodyRank(input.initialPosture["custody"])
          \/ Upgraded(cursor)

LEMMA RankType == \A name : CustodyRank(name) \in Nat
BY DEF CustodyRank

LEMMA CustodyInit == Init => CustodyInv
<1> SUFFICES ASSUME Init, input.initialPosture # None PROVE CustodyInv
  BY DEF CustodyInv
<1>1. shadow = input.initialPosture
  BY DEF Init
<1> QED
  BY <1>1, RankType DEF CustodyInv

LEMMA CustodyStep == Inv /\ CustodyInv /\ [Next]_vars => CustodyInv'
<1> SUFFICES ASSUME Inv, CustodyInv, [Next]_vars PROVE CustodyInv'
  OBVIOUS
<1> USE DEF callVars, scanVars, finalVars
<1>1. CASE AdmitEvent
  <2> DEFINE e == Ledger[cursor]
             t == e.transition
  <2> SUFFICES ASSUME CleanBefore(input, cursor)', input.initialPosture # None,
                      input.initialPosture["custody"] # None
               PROVE  /\ shadow'["custody"] # None
                      /\ \/ CustodyRank(shadow'["custody"])
                                <= CustodyRank(input.initialPosture["custody"])
                         \/ Upgraded(cursor)'
    BY <1>1 DEF AdmitEvent, CustodyInv
  <2>1. /\ Admitting /\ cursor \in 1..Len(Ledger) /\ cursor' = cursor + 1 /\ input' = input
        /\ Ledger' = Ledger /\ e \in EventRecord
    BY <1>1, CurrentEvent DEF AdmitEvent, Admitting, Inv, Ledger
  <2>2. CleanBefore(input, cursor) /\ CleanAt(input, cursor)
    BY <2>1, PrefixGrows
  <2>3. /\ shadow["custody"] # None
        /\ \/ CustodyRank(shadow["custody"]) <= CustodyRank(input.initialPosture["custody"])
           \/ Upgraded(cursor)
    BY <2>2 DEF CustodyInv
  <2>4. 1..(cursor' - 1) = 1..(cursor - 1) \cup {cursor}
    BY <2>1
  <2>5. Upgraded(cursor) => Upgraded(cursor)'
    BY <2>1, <2>4 DEF Upgraded
  <2>6. CASE t = None \/ t.kind # "custody"
    <3>1. shadow'["custody"] = shadow["custody"]
      BY <1>1, <2>6 DEF AdmitEvent, ShadowAfter, Inv, TypeOK, OptionalHashes
    <3> QED
      BY <2>3, <2>5, <3>1
  <2>7. CASE t # None /\ t.kind = "custody"
    <3>1. shadow'["custody"] = t.to /\ t.to # None
      <4>1. t.to \in Names
        BY <2>1, <2>7 DEF EventRecord, Optional, TransitionDetails
      <4>2. shadow' = [shadow EXCEPT ![t.kind] = t.to] /\ shadow \in [TransitionKinds -> Optional(Names)]
        BY <1>1, <2>7 DEF AdmitEvent, ShadowAfter, Inv, TypeOK, OptionalHashes
      <4> QED
        BY <2>7, <4>1, <4>2, NoneAssumption DEF TransitionKinds
    <3>2. TransitionFailures(e) = {}
      BY <2>1, <2>2, TransitionCheck DEF CleanAt, Inv
    <3>3. shadow["custody"] = t.from /\ ~AttestationsMissing(t)
      BY <2>3, <2>7, <3>2 DEF TransitionFailures, Flag, ContinuityBroken
    <3>4. CASE CustodyRank(t.to) > CustodyRank(t.from)
      <4>1. {"prior", "new"} \subseteq t.attestationClasses
        BY <2>7, <3>3, <3>4 DEF AttestationsMissing, RequiresDualAttestation
      <4>2. Upgraded(cursor)'
        BY <2>1, <2>4, <2>7, <4>1 DEF Upgraded
      <4> QED
        BY <3>1, <4>2
    <3>5. CASE ~(CustodyRank(t.to) > CustodyRank(t.from))
      BY <2>3, <2>5, <3>1, <3>3, <3>5, RankType
    <3> QED
      BY <3>4, <3>5
  <2> QED
    BY <2>6, <2>7
<1>2. CASE RejectSignature
  <2>1. /\ input' = input /\ cursor' = cursor + 1 /\ cursor \in Nat \ {0}
        /\ ~SignatureVerifies(input, Ledger[cursor])
    BY <1>2, CurrentEvent DEF RejectSignature, Inv
  <2>2. ~CleanAt(input, cursor)
    BY <2>1, SameHelpers DEF CleanAt, Judge!EventAuthentic, Ledger
  <2> QED
    BY <2>1, <2>2, PrefixGrows DEF CustodyInv
<1>3. CASE \/ ReturnFatal \/ FinalizeErasure \/ FinalizeCertificates \/ FinalizeAttestations
           \/ ReturnReport \/ UNCHANGED vars
  <2>1. UNCHANGED <<input, cursor, shadow>>
    BY <1>3 DEF ReturnFatal, FinalizeErasure, FinalizeCertificates, FinalizeAttestations,
                ReturnReport, vars
  <2> QED
    BY <2>1 DEF CustodyInv, Upgraded, Ledger
<1> QED
  BY <1>1, <1>2, <1>3 DEF Next

\* In a verified ledger custody has not risen above the declared state without a
\* transition attested by both the prior and the new authority.
THEOREM CustodyNeverDrifts == Spec => []NoUnattestedUpgrade
<1>1. Inv /\ CustodyInv => NoUnattestedUpgrade
  <2> SUFFICES ASSUME Inv, CustodyInv, Verified, input.initialPosture # None,
                      input.initialPosture["custody"] # None,
                      CustodyRank(shadow["custody"])
                          > CustodyRank(input.initialPosture["custody"])
               PROVE  Upgraded(cursor) /\ 1..(cursor - 1) = DOMAIN Ledger
    BY DEF NoUnattestedUpgrade, Upgraded
  <2>1. CleanBefore(input, cursor)
    BY DEF Inv
  <2>2. 1..(cursor - 1) = DOMAIN Ledger
    BY VerifiedIsClean DEF Summary
  <2> QED
    BY <2>1, <2>2, RankType DEF CustodyInv
<1> QED
  BY <1>1, Invariance, CustodyInit, CustodyStep, PTL DEF Spec
=============================================================================
