----------------------------- MODULE LedgerCalls -----------------------------
(***************************************************************************)
(* One call of verify_single_event_with_validator or                         *)
(* verify_tampered_ledger_with_validator.  The registry is read by the loop   *)
(* of parse_key_registry, one entry a step, into the function's two maps; the *)
(* event set stands at the contract EventSet is proved to implement.          *)
(***************************************************************************)
EXTENDS LedgerCallClauses

CONSTANTS
    Calls,     \* the calls that are made
    Requests   \* the arguments of each

ASSUME RequestsAssumption ==
    /\ Requests \in [Calls -> Request]
    /\ \A c \in Calls : Requests[c].entry = "single" =>
        /\ Requests[c].key # None
        /\ Requests[c].ledger # None => Len(Requests[c].ledger) = 1

VARIABLES
    call, request,  \* the call and its arguments; never change
    cursor,         \* number of the next entry of the registry
    registry,       \* kid -> SigningKeyEntry
    nonSigning,     \* kid -> class
    stage,          \* "single", or "registry" and then "ledger"; "done"
    result          \* None until the call returns

vars == <<call, request, cursor, registry, nonSigning, stage, result>>

Init ==
    /\ call \in Calls /\ request = Requests[call]
    /\ cursor = 1
    /\ registry = NoKeys /\ nonSigning = NoKeys
    /\ stage = IF request.entry = "single" THEN "single" ELSE "registry"
    /\ result = None

Return(outcome) ==
    /\ result' = outcome
    /\ stage' = "done"
    /\ UNCHANGED <<call, request, cursor, registry, nonSigning>>

VerifySingleEvent ==
    /\ stage = "single"
    /\ IF request.ledger = None THEN Return(Raised)
       ELSE Return(Judged(Judgement(InputUnder(request, SingleKey(request), NoKeys))))

RegistryIsNoArray == stage = "registry" /\ request.document = None /\ Return(Raised)

\* A slip: the loop stops one entry short.
ReadingButLast == stage = "registry" /\ request.document # None /\ cursor < Len(request.document)

Reading == stage = "registry" /\ request.document # None /\ cursor <= Len(request.document)

Entry == request.document[cursor]

\* A slip: a kind is never looked at, every refused entry is an Err.
RefusalUntyped(error) == Raised

\* An error with a kind becomes a report; one without is passed on.
Refusal(error) == RegistryFailure(error)

RefuseEntry ==
    /\ Reading
    /\ EntryError(Entry) # None
    /\ Return(Refusal(EntryError(Entry)))

\* A slip: entry().or_insert, the first entry of a kid stays.
FirstWins(map, kid, value) == [map EXCEPT ![kid] = IF @ = None THEN value ELSE @]

\* BTreeMap::insert.
Insert(map, kid, value) == [map EXCEPT ![kid] = value]

ReadEntry ==
    /\ Reading
    /\ EntryError(Entry) = None
    /\ IF Signs(Entry)
       THEN registry' = Insert(registry, Entry.kid, KeyEntryOf(Entry)) /\ UNCHANGED nonSigning
       ELSE nonSigning' = Insert(nonSigning, Entry.kid, ClassOf(Entry)) /\ UNCHANGED registry
    /\ cursor' = cursor + 1
    /\ UNCHANGED <<call, request, stage, result>>

RegistryIsRead ==
    /\ stage = "registry"
    /\ request.document # None
    /\ cursor > Len(request.document)
    /\ stage' = "ledger"
    /\ UNCHANGED <<call, request, cursor, registry, nonSigning, result>>

VerifyLedger ==
    /\ stage = "ledger"
    /\ Return(LedgerOutcome(request, registry, nonSigning))

Next ==
    \/ VerifySingleEvent \/ RegistryIsNoArray \/ RefuseEntry \/ ReadEntry
    \/ RegistryIsRead \/ VerifyLedger

Spec == Init /\ [][Next]_vars

\* The call runs on one thread that nothing suspends.
FairSpec == Spec /\ WF_vars(Next)

-----------------------------------------------------------------------------
(* Properties. *)

TypeOK ==
    /\ call \in Calls /\ request = Requests[call]
    /\ cursor \in Nat \ {0}
    /\ registry \in Registries
    /\ nonSigning \in NonSigningRegistries
    /\ stage \in {"single", "registry", "ledger", "done"}
    /\ result \in Optional(Outcomes)
    /\ (result # None) = (stage = "done")

\* The signing entry of the document by which a kid is judged.
InForce(document, i) ==
    /\ Signs(document[i])
    /\ \A j \in DOMAIN document :
          j > i /\ document[j].kid = document[i].kid => ~Signs(document[j])

\* A ledger verifies only under keys the caller gave: every event is signed by the
\* key of the last signing entry of its kid, before that entry's end if it is
\* revoked, and the whole document was read without a refusal - whatever other
\* entries, for the same kid or not, stand before and after it.
VerifiedUnderListedKeys ==
    result = Judged("verified") =>
        \A k \in DOMAIN request.ledger :
            LET e == request.ledger[k]
            IN  IF request.entry = "single" THEN e.signer = request.key
                ELSE \E i \in DOMAIN request.document :
                        LET entry == request.document[i]
                        IN  /\ RefusedEntries(request.document) = {}
                            /\ InForce(request.document, i)
                            /\ entry.kid = e.kid /\ entry.pubkey = e.signer
                            /\ entry.status = 3 =>
                                 entry.validTo.form = "pair" /\ e.authoredAt <= entry.validTo.at

\* The loop over the registry and the early returns around it answer every call as
\* the order-free promise does: what an entry point returns depends on the entries
\* a kid has, never on how the two maps came to hold them; and every call is answered.
Promise == INSTANCE LedgerCallJudge
ImplementsCallJudge == Promise!Spec
=============================================================================
