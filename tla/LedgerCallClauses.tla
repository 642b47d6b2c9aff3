------------------------- MODULE LedgerCallClauses -------------------------
(***************************************************************************)
(* The two entry points that take a ledger and no export                     *)
(* (verify_single_event_with_validator and                                   *)
(* verify_tampered_ledger_with_validator, trellis/mod.rs), and what they     *)
(* promise: a key registry is read entry by entry (parse_key_registry,       *)
(* trellis/parse.rs), then the ledger is judged under it.                    *)
(***************************************************************************)
EXTENDS LedgerClauses

\* What a timestamp field holds: nothing or null; [seconds, nanos]; whole seconds;
\* a negative integer; nanos out of range; another array; another type.
TimeForms == {"absent", "pair", "seconds", "negative", "nanos", "misshapen", "other"}
WireTime == [form : TimeForms, at : Times]

ReservedClasses == {"tenant-root", "scope", "subject", "recovery"}

\* "absent" stands for no kind or null, "untyped" for a kind that is no text,
\* "extension" for a text the verifier does not know.
WireKinds == ReservedClasses \cup {"absent", "untyped", "signing", "wrap", "extension"}

\* One entry of the registry's array; None for a field it lacks or that is of
\* another type.  subjectValidTo lies inside attributes.
RawEntry ==
    [isMap : BOOLEAN, kind : WireKinds, kid : Optional(Kids),
     pubkey : Optional(Keys), status : Optional(Nat),
     validFrom : WireTime, validTo : WireTime,
     attributes : {"absent", "map", "other"}, subjectValidTo : WireTime]

\* The arguments of one call.  document is None when the registry is no array,
\* ledger when the array of COSE_Sign1 items does not parse.  The single-event
\* entry point is given a key instead of a document.
Request ==
    [entry : {"single", "tampered"}, key : Optional(Keys),
     document : Optional(Seq(RawEntry)), ledger : Optional(Seq(EventRecord)),
     initialPosture : Optional([TransitionKinds -> Optional(Names)]),
     declaration : Optional(PostureDeclaration), admittedTypes : SUBSET STRING]

\* VerifyErrorKind, the part of it this reader raises, and an error without a kind.
RegistryErrorKinds ==
    {"LegacyTimestampFormat", "TimestampNanosOutOfRange", "KeyEntryAttributesShapeMismatch"}
Errors == RegistryErrorKinds \cup {"untyped"}

-----------------------------------------------------------------------------
(* One entry. *)

\* "wrap" is the deprecated name of "subject"; no kind is a signing key.
ClassOf(entry) ==
    CASE entry.kind = "wrap" -> "subject"
      [] entry.kind = "absent" -> "signing"
      [] OTHER -> entry.kind

\* decode_timestamp_array.
PairError(t) ==
    CASE t.form = "nanos" -> "TimestampNanosOutOfRange"
      [] t.form = "misshapen" -> "untyped"
      [] OTHER -> None

\* Whole seconds still open an authority, but close none.
ValidFromError(t) == IF t.form \in {"negative", "other"} THEN "untyped" ELSE PairError(t)

ValidToError(t) ==
    IF t.form \in {"seconds", "negative"} THEN "LegacyTimestampFormat"
    ELSE IF t.form = "other" THEN "untyped" ELSE PairError(t)

SubjectValidToError(t) ==
    IF t.form \in {"seconds", "negative", "other"} THEN "KeyEntryAttributesShapeMismatch"
    ELSE PairError(t)

\* A slip: an entry without key or status is taken as it is.
SigningErrorLenient(entry) == ValidToError(entry.validTo)

SigningError(entry) ==
    IF entry.pubkey = None \/ entry.status = None THEN "untyped"
    ELSE IF ValidFromError(entry.validFrom) # None THEN ValidFromError(entry.validFrom)
    ELSE ValidToError(entry.validTo)

ReservedError(entry) ==
    IF entry.attributes # "map" THEN "KeyEntryAttributesShapeMismatch"
    ELSE IF ClassOf(entry) = "subject" THEN SubjectValidToError(entry.subjectValidTo)
    ELSE None

\* What reading the entry raises, None when it is admitted.
EntryError(entry) ==
    IF ~entry.isMap \/ entry.kind = "untyped" \/ entry.kid = None THEN "untyped"
    ELSE IF ClassOf(entry) = "signing" THEN SigningError(entry)
    ELSE IF ClassOf(entry) \in ReservedClasses THEN ReservedError(entry)
    ELSE None

TimeOf(t) == IF t.form = "absent" THEN None ELSE t.at

KeyEntryOf(entry) ==
    [key |-> entry.pubkey, status |-> entry.status,
     validFrom |-> TimeOf(entry.validFrom), validTo |-> TimeOf(entry.validTo)]

NoKeys == [kid \in Kids |-> None]

\* verify_single_event: the caller's key, active, under the event's own kid.
SingleKey(request) ==
    [kid \in Kids |->
        IF kid = request.ledger[1].kid
        THEN [key |-> request.key, status |-> 0, validFrom |-> None, validTo |-> None]
        ELSE None]

\* The arguments handed to verify_event_set_with_classes.
InputUnder(request, signing, nonSigning) ==
    [ledger |-> request.ledger, registry |-> signing, nonSigning |-> nonSigning,
     initialPosture |-> request.initialPosture, declaration |-> request.declaration,
     classifyTamper |-> request.entry = "tampered", expectedScope |-> None, blobs |-> None,
     admittedTypes |-> request.admittedTypes]

-----------------------------------------------------------------------------
(* The outcome of a call: Err, a fatal report of one kind, or the verdict of   *)
(* the event set.                                                             *)

Raised == [outcome |-> "error", kind |-> None]
Fatal(kind) == [outcome |-> "fatal", kind |-> kind]
Judged(verdict) == [outcome |-> "judged", kind |-> verdict]
RegistryFailure(error) == IF error = "untyped" THEN Raised ELSE Fatal(error)
LedgerRefused == Fatal("MalformedCose")

Outcomes ==
    {Raised, LedgerRefused} \cup {Fatal(kind) : kind \in RegistryErrorKinds}
    \cup {Judged(verdict) : verdict \in {"verified", "tampered", "unreadable"}}

ASSUME OutcomeAssumption == None \notin Outcomes /\ None \notin Errors

-----------------------------------------------------------------------------
(* The promise, with no loop: the first entry that is refused decides; else    *)
(* every kid has the last entry that names it, one directory for each class.   *)

Signs(entry) == ClassOf(entry) = "signing"

\* The entries of a document's first n that speak of the kid, signing or not.
Listed(document, n, kid, signing) ==
    {i \in 1..n : document[i].kid = kid /\ (Signs(document[i]) <=> signing)}

Last(numbers) == CHOOSE i \in numbers : \A j \in numbers : j <= i

SigningDirectory(document, n) ==
    [kid \in Kids |->
        LET listed == Listed(document, n, kid, TRUE)
        IN  IF listed = {} THEN None ELSE KeyEntryOf(document[Last(listed)])]

NonSigningDirectory(document, n) ==
    [kid \in Kids |->
        LET listed == Listed(document, n, kid, FALSE)
        IN  IF listed = {} THEN None ELSE ClassOf(document[Last(listed)])]

RefusedEntries(document) == {i \in DOMAIN document : EntryError(document[i]) # None}

LedgerOutcome(request, signing, nonSigning) ==
    IF request.ledger \in {None, <<>>} THEN LedgerRefused
    ELSE Judged(Judgement(InputUnder(request, signing, nonSigning)))

Promised(request) ==
    IF request.entry = "single"
    THEN IF request.ledger = None THEN Raised
         ELSE Judged(Judgement(InputUnder(request, SingleKey(request), NoKeys)))
    ELSE LET document == request.document
         IN  IF document = None THEN Raised
             ELSE IF RefusedEntries(document) # {}
             THEN RegistryFailure(EntryError(document[
                    CHOOSE i \in RefusedEntries(document) :
                        \A j \in RefusedEntries(document) : i <= j]))
             ELSE LedgerOutcome(request,
                    SigningDirectory(document, Len(document)),
                    NonSigningDirectory(document, Len(document)))
=============================================================================
