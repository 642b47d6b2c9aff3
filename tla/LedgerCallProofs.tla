-------------------------- MODULE LedgerCallProofs --------------------------
(***************************************************************************)
(* Theorems about LedgerCalls for every set of requests: any registry         *)
(* document, of any length and with any entries, and any ledger.              *)
(***************************************************************************)
EXTENDS LedgerCalls, TLAPS

\* What one map holds for a kid after the first n entries: nothing if none of them
\* names it, else what the last of those that do says.
MapsKey(map, document, n, kid) ==
    \/ map[kid] = None /\ Listed(document, n, kid, TRUE) = {}
    \/ \E i \in Listed(document, n, kid, TRUE) :
          /\ \A j \in Listed(document, n, kid, TRUE) : j <= i
          /\ map[kid] = KeyEntryOf(document[i])

MapsClass(map, document, n, kid) ==
    \/ map[kid] = None /\ Listed(document, n, kid, FALSE) = {}
    \/ \E i \in Listed(document, n, kid, FALSE) :
          /\ \A j \in Listed(document, n, kid, FALSE) : j <= i
          /\ map[kid] = ClassOf(document[i])

ReadUpTo(document, signing, classes, n) ==
    /\ \A i \in 1..n : EntryError(document[i]) = None
    /\ \A kid \in Kids : MapsKey(signing, document, n, kid) /\ MapsClass(classes, document, n, kid)

\* The strengthening: the two maps are the directories of the entries behind the
\* cursor, and a call that returned returned what is promised.
IInv ==
    /\ TypeOK
    /\ stage = "single" => request.entry = "single"
    /\ stage \in {"registry", "ledger"} => request.entry = "tampered"
    /\ request.entry = "tampered" /\ request.document # None =>
          /\ cursor \in 1..(Len(request.document) + 1)
          /\ ReadUpTo(request.document, registry, nonSigning, cursor - 1)
    /\ stage = "ledger" => request.document # None /\ cursor = Len(request.document) + 1
    /\ stage = "done" =>
          /\ result = Promised(request)
          /\ request.entry = "tampered" /\ result.outcome = "judged" =>
                /\ request.document # None /\ cursor = Len(request.document) + 1
                /\ request.ledger # None
                /\ result.kind = Judgement(InputUnder(request, registry, nonSigning))

-----------------------------------------------------------------------------
(* One entry. *)

\* What reading an entry raises is an error or nothing.
LEMMA ErrorType ==
    ASSUME NEW entry \in RawEntry
    PROVE  EntryError(entry) \in Optional(Errors)
<1> USE DEF Optional, Errors, RegistryErrorKinds
<1>1. \A t \in WireTime : PairError(t) \in Optional(Errors)
  BY DEF PairError
<1>2. \A t \in WireTime : /\ ValidFromError(t) \in Optional(Errors)
                          /\ ValidToError(t) \in Optional(Errors)
                          /\ SubjectValidToError(t) \in Optional(Errors)
  BY <1>1 DEF ValidFromError, ValidToError, SubjectValidToError
<1>3. SigningError(entry) \in Optional(Errors)
  BY <1>2 DEF SigningError, RawEntry
<1>4. ReservedError(entry) \in Optional(Errors)
  BY <1>2 DEF ReservedError, RawEntry
<1> QED
  BY <1>3, <1>4 DEF EntryError

\* An admitted signing entry yields a SigningKeyEntry, any other a class; an end of
\* authority is a timestamp pair.
LEMMA AdmittedEntry ==
    ASSUME NEW entry \in RawEntry, EntryError(entry) = None
    PROVE  /\ entry.kid \in Kids
           /\ Signs(entry) => KeyEntryOf(entry) \in KeyEntry
           /\ Signs(entry) => entry.validTo.form \in {"pair", "absent"}
           /\ ~Signs(entry) => ClassOf(entry) \in KeyClasses
<1>1. /\ entry.isMap /\ entry.kind # "untyped" /\ entry.kid # None
      /\ Signs(entry) => SigningError(entry) = None
  BY OutcomeAssumption DEF EntryError, Errors, Signs
<1>2. entry.kid \in Kids
  BY <1>1 DEF RawEntry, Optional
<1>3. ASSUME Signs(entry)
      PROVE  KeyEntryOf(entry) \in KeyEntry /\ entry.validTo.form \in {"pair", "absent"}
  <2>1. entry.pubkey \in Keys /\ entry.status \in Nat
    BY <1>1, <1>3, OutcomeAssumption DEF SigningError, Errors, RawEntry, Optional
  <2>2. ValidToError(entry.validTo) = None
    BY <1>1, <1>3, <2>1, NoneAssumption DEF SigningError
  <2>3. entry.validTo.form \in {"pair", "absent"}
    BY <2>2, OutcomeAssumption
    DEF ValidToError, PairError, RawEntry, WireTime, TimeForms, Errors, RegistryErrorKinds
  <2>4. TimeOf(entry.validFrom) \in Optional(Times) /\ TimeOf(entry.validTo) \in Optional(Times)
    BY DEF TimeOf, RawEntry, WireTime, Optional
  <2> QED
    BY <2>1, <2>3, <2>4 DEF KeyEntryOf, KeyEntry
<1>4. ASSUME ~Signs(entry)
      PROVE  ClassOf(entry) \in KeyClasses
  BY <1>1, <1>4 DEF ClassOf, Signs, RawEntry, WireKinds, ReservedClasses, KeyClasses
<1> QED
  BY <1>2, <1>3, <1>4

\* The entries of one kind that name a kid, one entry further on.
LEMMA ListedGrows ==
    ASSUME NEW document, NEW n \in Nat, NEW kid, NEW signing \in BOOLEAN
    PROVE  /\ Listed(document, n, kid, signing) \subseteq 1..n
           /\ Listed(document, n + 1, kid, signing) =
                Listed(document, n, kid, signing)
                \cup (IF document[n + 1].kid = kid /\ (Signs(document[n + 1]) <=> signing)
                      THEN {n + 1} ELSE {})
<1>1. 1..(n + 1) = 1..n \cup {n + 1}
  OBVIOUS
<1> QED
  BY <1>1 DEF Listed

-----------------------------------------------------------------------------
(* The loop. *)

\* One entry more brings the signing map from one directory to the next.
LEMMA SigningEntryRead ==
    ASSUME NEW document \in Seq(RawEntry), NEW n \in Nat, n + 1 <= Len(document),
           NEW map \in Registries, NEW kid \in Kids, document[n + 1].kid \in Kids,
           MapsKey(map, document, n, kid)
    PROVE  MapsKey(IF Signs(document[n + 1])
                 THEN Insert(map, document[n + 1].kid, KeyEntryOf(document[n + 1])) ELSE map,
                 document, n + 1, kid)
<1> DEFINE entry == document[n + 1]
           before == Listed(document, n, kid, TRUE)
           after == Listed(document, n + 1, kid, TRUE)
<1>1. before \subseteq 1..n
      /\ after = before \cup (IF entry.kid = kid /\ Signs(entry) THEN {n + 1} ELSE {})
  <2>1. /\ before \subseteq 1..n
        /\ after = before \cup (IF entry.kid = kid /\ (Signs(entry) <=> TRUE)
                              THEN {n + 1} ELSE {})
    BY ListedGrows
  <2>2. (Signs(entry) <=> TRUE) = Signs(entry)
    BY DEF Signs
  <2> QED
    BY <2>1, <2>2, Zenon
<1>2. CASE entry.kid = kid /\ Signs(entry)
  <2>1. Insert(map, entry.kid, KeyEntryOf(entry))[kid] = KeyEntryOf(document[n + 1])
    BY <1>2 DEF Insert, Registries
  <2>2. n + 1 \in after /\ \A j \in after : j <= n + 1
    <3> HIDE DEF before, after
    <3>1. after = before \cup {n + 1}
      BY <1>1, <1>2
    <3>2. \A j \in before : j <= n + 1
      BY <1>1
    <3> QED
      BY <3>1, <3>2
  <2> QED
    BY <1>2, <2>1, <2>2 DEF MapsKey
<1>3. CASE entry.kid # kid /\ Signs(entry)
  <2>1. Insert(map, entry.kid, KeyEntryOf(entry))[kid] = map[kid]
    BY <1>3 DEF Insert, Registries
  <2>2. after = before
    BY <1>1, <1>3
  <2> QED
    BY <1>3, <2>1, <2>2 DEF MapsKey
<1>4. CASE ~Signs(entry)
  BY <1>1, <1>4 DEF MapsKey
<1> QED
  BY <1>2, <1>3, <1>4

\* The same of the other map.
LEMMA OtherEntryRead ==
    ASSUME NEW document \in Seq(RawEntry), NEW n \in Nat, n + 1 <= Len(document),
           NEW map \in NonSigningRegistries, NEW kid \in Kids, document[n + 1].kid \in Kids,
           MapsClass(map, document, n, kid)
    PROVE  MapsClass(IF Signs(document[n + 1]) THEN map
                      ELSE Insert(map, document[n + 1].kid, ClassOf(document[n + 1])),
                      document, n + 1, kid)
<1> DEFINE entry == document[n + 1]
           before == Listed(document, n, kid, FALSE)
           after == Listed(document, n + 1, kid, FALSE)
<1>1. before \subseteq 1..n
      /\ after = before \cup (IF entry.kid = kid /\ ~Signs(entry) THEN {n + 1} ELSE {})
  <2>1. /\ before \subseteq 1..n
        /\ after = before \cup (IF entry.kid = kid /\ (Signs(entry) <=> FALSE)
                              THEN {n + 1} ELSE {})
    BY ListedGrows
  <2>2. (Signs(entry) <=> FALSE) = ~Signs(entry)
    BY DEF Signs
  <2> QED
    BY <2>1, <2>2, Zenon
<1>2. CASE entry.kid = kid /\ ~Signs(entry)
  <2>1. Insert(map, entry.kid, ClassOf(entry))[kid] = ClassOf(document[n + 1])
    BY <1>2 DEF Insert, NonSigningRegistries
  <2>2. n + 1 \in after /\ \A j \in after : j <= n + 1
    <3> HIDE DEF before, after
    <3>1. after = before \cup {n + 1}
      BY <1>1, <1>2
    <3>2. \A j \in before : j <= n + 1
      BY <1>1
    <3> QED
      BY <3>1, <3>2
  <2> QED
    BY <1>2, <2>1, <2>2 DEF MapsClass
<1>3. CASE entry.kid # kid /\ ~Signs(entry)
  <2>1. Insert(map, entry.kid, ClassOf(entry))[kid] = map[kid]
    BY <1>3 DEF Insert, NonSigningRegistries
  <2>2. after = before
    BY <1>1, <1>3
  <2> QED
    BY <1>3, <2>1, <2>2 DEF MapsClass
<1>4. CASE Signs(entry)
  BY <1>1, <1>4 DEF MapsClass
<1> QED
  BY <1>2, <1>3, <1>4

\* Maps that hold what the first n entries say are the directories the promise
\* names.
LEMMA MapsAreDirectories ==
    ASSUME NEW document \in Seq(RawEntry), NEW n \in Nat,
           NEW signing \in Registries, NEW classes \in NonSigningRegistries,
           ReadUpTo(document, signing, classes, n)
    PROVE  /\ signing = SigningDirectory(document, n)
           /\ classes = NonSigningDirectory(document, n)
<1>1. ASSUME NEW kid \in Kids, NEW flag \in BOOLEAN, NEW i \in Listed(document, n, kid, flag),
             \A j \in Listed(document, n, kid, flag) : j <= i
      PROVE  Last(Listed(document, n, kid, flag)) = i
  <2>1. Listed(document, n, kid, flag) \subseteq Nat
    BY DEF Listed
  <2> QED
    BY <1>1, <2>1 DEF Last
<1>2. ASSUME NEW kid \in Kids
      PROVE  signing[kid] = SigningDirectory(document, n)[kid]
  BY <1>1, <1>2 DEF ReadUpTo, MapsKey, SigningDirectory
<1>3. ASSUME NEW kid \in Kids
      PROVE  classes[kid] = NonSigningDirectory(document, n)[kid]
  BY <1>1, <1>3 DEF ReadUpTo, MapsClass, NonSigningDirectory
<1>4. signing = SigningDirectory(document, n)
  BY <1>2 DEF Registries, SigningDirectory
<1>5. classes = NonSigningDirectory(document, n)
  BY <1>3 DEF NonSigningRegistries, NonSigningDirectory
<1> QED
  BY <1>4, <1>5

-----------------------------------------------------------------------------
(* The machine. *)

\* The arguments of a call.
LEMMA Arguments ==
    ASSUME TypeOK
    PROVE  /\ request \in Request
           /\ request.document # None => request.document \in Seq(RawEntry)
           /\ request.ledger # None => request.ledger \in Seq(EventRecord)
           /\ request.entry = "single" /\ request.ledger # None => Len(request.ledger) = 1
           /\ request.entry # "single" => request.entry = "tampered"
<1>1. request \in Request
  BY RequestsAssumption DEF TypeOK
<1> QED
  BY <1>1, RequestsAssumption DEF TypeOK, Request, Optional

\* An admitted entry brings both maps from one directory to the next.
LEMMA EntryIsRead ==
    ASSUME IInv, ReadEntry
    PROVE  /\ cursor + 1 \in 1..(Len(request.document) + 1)
           /\ ReadUpTo(request.document, registry', nonSigning', cursor)
           /\ registry' \in Registries /\ nonSigning' \in NonSigningRegistries
<1> DEFINE entry == request.document[cursor]
           document == request.document
<1>1. /\ document # None /\ document \in Seq(RawEntry) /\ cursor \in 1..Len(document)
      /\ entry \in RawEntry /\ entry = Entry /\ EntryError(entry) = None
      /\ ReadUpTo(document, registry, nonSigning, cursor - 1)
      /\ registry \in Registries /\ nonSigning \in NonSigningRegistries
  BY Arguments DEF IInv, TypeOK, ReadEntry, Reading, Entry
<1>2. /\ entry.kid \in Kids
      /\ Signs(entry) => KeyEntryOf(entry) \in KeyEntry
      /\ ~Signs(entry) => ClassOf(entry) \in KeyClasses
  BY <1>1, AdmittedEntry
<1>3. /\ registry' = IF Signs(entry) THEN Insert(registry, entry.kid, KeyEntryOf(entry))
                     ELSE registry
      /\ nonSigning' = IF Signs(entry) THEN nonSigning
                       ELSE Insert(nonSigning, entry.kid, ClassOf(entry))
  BY <1>1 DEF ReadEntry
<1>4. registry' \in Registries /\ nonSigning' \in NonSigningRegistries
  BY <1>1, <1>2, <1>3 DEF Registries, NonSigningRegistries, Optional, Insert
<1>5. PICK n \in Nat : cursor = n + 1 /\ n + 1 <= Len(document) /\ cursor - 1 = n
  <2>1. cursor - 1 \in Nat /\ cursor = (cursor - 1) + 1 /\ (cursor - 1) + 1 <= Len(document)
    BY <1>1
  <2> QED
    BY <2>1
<1>6. \A i \in 1..(n + 1) : EntryError(document[i]) = None
  <2>1. \A i \in 1..n : EntryError(document[i]) = None
    BY <1>1, <1>5 DEF ReadUpTo
  <2> QED
    BY <1>1, <1>5, <2>1
<1>7. \A kid \in Kids : /\ MapsKey(registry, document, n, kid)
                        /\ MapsClass(nonSigning, document, n, kid)
  BY <1>1, <1>5 DEF ReadUpTo
<1>8. \A kid \in Kids : /\ MapsKey(registry', document, n + 1, kid)
                        /\ MapsClass(nonSigning', document, n + 1, kid)
  <2> TAKE kid \in Kids
  <2>1. MapsKey(registry, document, n, kid) /\ MapsClass(nonSigning, document, n, kid)
    BY <1>7
  <2>2. document[n + 1].kid \in Kids /\ document[n + 1] = entry
    <3>1. document[n + 1] = entry
      BY <1>5
    <3> QED
      BY <1>2, <3>1, Zenon
  <2>3. MapsKey(IF Signs(document[n + 1])
              THEN Insert(registry, document[n + 1].kid, KeyEntryOf(document[n + 1]))
              ELSE registry, document, n + 1, kid)
    BY <1>1, <1>5, <2>1, <2>2, SigningEntryRead
  <2>4. MapsClass(IF Signs(document[n + 1]) THEN nonSigning
                   ELSE Insert(nonSigning, document[n + 1].kid, ClassOf(document[n + 1])),
                   document, n + 1, kid)
    BY <1>1, <1>5, <2>1, <2>2, OtherEntryRead
  <2> QED
    BY <1>3, <2>2, <2>3, <2>4
<1>9. ReadUpTo(document, registry', nonSigning', n + 1)
  BY <1>6, <1>8 DEF ReadUpTo
<1> QED
  BY <1>1, <1>4, <1>5, <1>9

\* What a call returns has its type.
LEMMA OutcomeType ==
    /\ \A in : Judged(Judgement(in)) \in Outcomes
    /\ \A error \in Errors : RegistryFailure(error) \in Outcomes
    /\ Raised \in Outcomes /\ LedgerRefused \in Outcomes
    /\ \A outcome \in Outcomes : outcome # None
<1>1. \A in : Judgement(in) \in {"verified", "tampered", "unreadable"}
  BY DEF Judgement
<1>2. \A in : Judged(Judgement(in)) \in Outcomes
  BY <1>1 DEF Outcomes
<1>3. \A error \in Errors : RegistryFailure(error) \in Outcomes
  BY DEF Errors, RegistryFailure, Outcomes
<1>4. Raised \in Outcomes /\ LedgerRefused \in Outcomes
  BY DEF Outcomes
<1> QED
  BY <1>2, <1>3, <1>4, OutcomeAssumption

\* A call starts with the arguments of its request and empty maps.
LEMMA IInvInit == Init => IInv
<1> SUFFICES ASSUME Init PROVE IInv
  OBVIOUS
<1>1. TypeOK
  BY NoneAssumption
  DEF Init, TypeOK, NoKeys, Registries, NonSigningRegistries, Optional
<1>2. request.entry = "single" \/ request.entry = "tampered"
  BY <1>1, Arguments
<1>3. ASSUME request.document # None
      PROVE  /\ cursor \in 1..(Len(request.document) + 1)
             /\ ReadUpTo(request.document, registry, nonSigning, cursor - 1)
  <2>1. Len(request.document) \in Nat
    BY <1>1, <1>3, Arguments
  <2>2. cursor = 1 /\ cursor - 1 = 0 /\ 1..0 = {}
    BY DEF Init
  <2>3. \A kid \in Kids : /\ registry[kid] = None /\ nonSigning[kid] = None
                          /\ Listed(request.document, 0, kid, TRUE) = {}
                          /\ Listed(request.document, 0, kid, FALSE) = {}
    BY <2>2 DEF Init, NoKeys, Listed
  <2>4. ReadUpTo(request.document, registry, nonSigning, 0)
    BY <2>2, <2>3 DEF ReadUpTo, MapsKey, MapsClass
  <2> QED
    BY <2>1, <2>2, <2>4
<1> QED
  BY <1>1, <1>2, <1>3 DEF Init, IInv

\* The entry the loop stands at is the first the document has to be refused for.
LEMMA FirstRefusal ==
    ASSUME IInv, RefuseEntry
    PROVE  result' = Promised(request) /\ result' \in Outcomes
           /\ result'.outcome # "judged"
<1> DEFINE document == request.document
           refused == RefusedEntries(document)
<1>1. /\ request.entry = "tampered" /\ document # None /\ document \in Seq(RawEntry)
      /\ cursor \in 1..Len(document) /\ document[cursor] \in RawEntry
      /\ EntryError(document[cursor]) # None
      /\ ReadUpTo(document, registry, nonSigning, cursor - 1)
      /\ result' = RegistryFailure(EntryError(document[cursor]))
  BY Arguments DEF IInv, TypeOK, RefuseEntry, Reading, Entry, Refusal, Return
<1>2. cursor \in refused /\ refused \subseteq Nat
  BY <1>1 DEF RefusedEntries
<1>3. \A i \in refused : cursor <= i
  <2> TAKE i \in refused
  <2>1. i \in 1..Len(document) /\ EntryError(document[i]) # None
    BY <1>1 DEF RefusedEntries
  <2>2. i \notin 1..(cursor - 1)
    BY <1>1, <2>1 DEF ReadUpTo
  <2> QED
    BY <1>1, <2>1, <2>2
<1>4. (CHOOSE i \in refused : \A j \in refused : i <= j) = cursor
  BY <1>2, <1>3
<1>5. EntryError(document[cursor]) \in Errors
  BY <1>1, ErrorType DEF Optional
<1>6. result' = Promised(request)
  <2>1. request.entry # "single" /\ refused # {}
    BY <1>1, <1>2
  <2>2. Promised(request) = RegistryFailure(EntryError(document[
            CHOOSE i \in refused : \A j \in refused : i <= j]))
    BY <1>1, <2>1, Zenon DEF Promised
  <2> QED
    BY <1>1, <1>4, <2>2, Zenon
<1>7. result' \in Outcomes
  BY <1>1, <1>5, OutcomeType
<1>8. result'.outcome # "judged"
  BY <1>1 DEF RegistryFailure, Raised, Fatal
<1> QED
  BY <1>6, <1>7, <1>8

\* Behind the last entry the two maps are the document's directories, and the ledger
\* is judged under those.
LEMMA LedgerIsJudged ==
    ASSUME IInv, VerifyLedger
    PROVE  /\ result' = Promised(request) /\ result' \in Outcomes
           /\ result'.outcome = "judged" =>
                /\ request.ledger # None
                /\ result'.kind = Judgement(InputUnder(request, registry, nonSigning))
<1> DEFINE document == request.document
<1>1. /\ request.entry = "tampered" /\ document # None /\ document \in Seq(RawEntry)
      /\ cursor = Len(document) + 1 /\ cursor - 1 = Len(document) /\ Len(document) \in Nat
      /\ ReadUpTo(document, registry, nonSigning, Len(document))
      /\ registry \in Registries /\ nonSigning \in NonSigningRegistries
      /\ result' = LedgerOutcome(request, registry, nonSigning)
  BY Arguments DEF IInv, TypeOK, VerifyLedger, Return
<1>2. /\ registry = SigningDirectory(document, Len(document))
      /\ nonSigning = NonSigningDirectory(document, Len(document))
  BY <1>1, MapsAreDirectories
<1>3. RefusedEntries(document) = {}
  BY <1>1 DEF RefusedEntries, ReadUpTo
<1>4. result' = Promised(request)
  BY <1>1, <1>2, <1>3 DEF Promised
<1>5. result' \in Outcomes
  BY <1>1, OutcomeType DEF LedgerOutcome
<1>6. result'.outcome = "judged" =>
        /\ request.ledger # None
        /\ result'.kind = Judgement(InputUnder(request, registry, nonSigning))
  BY <1>1 DEF LedgerOutcome, LedgerRefused, Fatal, Judged
<1> QED
  BY <1>4, <1>5, <1>6

\* Every step keeps the invariant.
LEMMA IInvStep == IInv /\ [Next]_vars => IInv'
<1> SUFFICES ASSUME IInv, [Next]_vars PROVE IInv'
  OBVIOUS
<1>1. TypeOK
  BY DEF IInv
<1>2. CASE VerifySingleEvent
  <2>1. /\ request.entry = "single"
        /\ result' = Promised(request) /\ result' \in Outcomes
    BY <1>2, OutcomeType DEF VerifySingleEvent, Return, Promised, IInv
  <2>2. UNCHANGED <<call, request, cursor, registry, nonSigning>> /\ stage' = "done"
    BY <1>2 DEF VerifySingleEvent, Return
  <2>3. TypeOK'
    BY <1>1, <2>1, <2>2, OutcomeType DEF TypeOK, Optional
  <2> QED
    BY <2>1, <2>2, <2>3 DEF IInv
<1>3. CASE RegistryIsNoArray
  <2>1. /\ request.entry = "tampered" /\ request.document = None
        /\ result' = Raised /\ result' \in Outcomes
        /\ UNCHANGED <<call, request, cursor, registry, nonSigning>> /\ stage' = "done"
    BY <1>3, OutcomeType DEF RegistryIsNoArray, Return, IInv
  <2>2. result' = Promised(request)
    BY <2>1 DEF Promised
  <2>3. TypeOK'
    BY <1>1, <2>1, OutcomeType DEF TypeOK, Optional
  <2> QED
    BY <2>1, <2>2, <2>3 DEF IInv, Raised
<1>4. CASE RefuseEntry
  <2>1. /\ request.document # None
        /\ UNCHANGED <<call, request, cursor, registry, nonSigning>> /\ stage' = "done"
    BY <1>4 DEF RefuseEntry, Return, Reading
  <2>2. TypeOK'
    BY <1>1, <1>4, <2>1, FirstRefusal, OutcomeType DEF TypeOK, Optional
  <2> QED
    BY <1>4, <2>1, <2>2, FirstRefusal DEF IInv
<1>5. CASE ReadEntry
  <2>1. /\ request.entry = "tampered" /\ request.document # None /\ stage = "registry"
        /\ UNCHANGED <<call, request, stage, result>> /\ cursor' = cursor + 1
    BY <1>5 DEF ReadEntry, Reading, IInv
  <2>2. /\ cursor' \in 1..(Len(request.document) + 1) /\ cursor' - 1 = cursor
        /\ ReadUpTo(request.document, registry', nonSigning', cursor' - 1)
        /\ registry' \in Registries /\ nonSigning' \in NonSigningRegistries
    <3>1. cursor \in Nat /\ cursor' - 1 = cursor
      BY <1>1, <2>1 DEF TypeOK
    <3> QED
      BY <1>5, <2>1, <3>1, EntryIsRead
  <2>3. TypeOK'
    BY <1>1, <2>1, <2>2 DEF TypeOK
  <2> QED
    BY <2>1, <2>2, <2>3 DEF IInv
<1>6. CASE RegistryIsRead
  <2>1. /\ request.entry = "tampered" /\ request.document # None
        /\ stage = "registry" /\ stage' = "ledger" /\ cursor > Len(request.document)
        /\ UNCHANGED <<call, request, cursor, registry, nonSigning, result>>
    BY <1>6 DEF RegistryIsRead, IInv
  <2>2. Len(request.document) \in Nat /\ cursor = Len(request.document) + 1
    BY <1>1, <2>1, Arguments DEF IInv
  <2>3. TypeOK'
    BY <1>1, <2>1 DEF TypeOK
  <2> QED
    BY <2>1, <2>2, <2>3 DEF IInv
<1>7. CASE VerifyLedger
  <2>1. /\ request.entry = "tampered" /\ request.document # None
        /\ cursor = Len(request.document) + 1
        /\ UNCHANGED <<call, request, cursor, registry, nonSigning>> /\ stage' = "done"
    BY <1>7 DEF VerifyLedger, Return, IInv
  <2>2. TypeOK'
    BY <1>1, <1>7, <2>1, LedgerIsJudged, OutcomeType DEF TypeOK, Optional
  <2> QED
    BY <1>7, <2>1, <2>2, LedgerIsJudged DEF IInv
<1>8. CASE UNCHANGED vars
  BY <1>8 DEF IInv, TypeOK, vars
<1> QED
  BY <1>2, <1>3, <1>4, <1>5, <1>6, <1>7, <1>8 DEF Next

-----------------------------------------------------------------------------
(* The theorems. *)

\* Whatever a registry document holds, the loop leaves maps of signing keys and of
\* classes, and a call that returns returns one of the outcomes there are.
THEOREM CallTypes == Spec => []TypeOK
<1>1. IInv => TypeOK
  BY DEF IInv
<1> QED
  BY <1>1, IInvInit, IInvStep, PTL DEF Spec

\* The loop over the registry implements the promise that has none: the first refused
\* entry decides, else the last entry of each kid in each class.
THEOREM CallImplementsJudge == Spec => Promise!Safety
<1>1. IInv /\ IInv' /\ [Next]_vars => [Promise!Answer]_<<call, request, result>>
  <2> SUFFICES ASSUME IInv, IInv', [Next]_vars, ~UNCHANGED <<call, request, result>>
               PROVE  Promise!Answer
    OBVIOUS
  <2>1. UNCHANGED <<call, request>>
    BY DEF Next, VerifySingleEvent, RegistryIsNoArray, RefuseEntry, ReadEntry, RegistryIsRead,
           VerifyLedger, Return, vars
  <2>2. result = None /\ stage' = "done"
    BY <2>1 DEF Next, VerifySingleEvent, RegistryIsNoArray, RefuseEntry, ReadEntry, Reading,
           RegistryIsRead, VerifyLedger, Return, vars, IInv, TypeOK
  <2>3. result' = Promised(request)
    BY <2>1, <2>2 DEF IInv
  <2> QED
    BY <2>1, <2>2, <2>3 DEF Promise!Answer
<1>2. Init => Promise!Init
  BY DEF Init, Promise!Init
<1> QED
  BY <1>1, <1>2, IInvInit, IInvStep, PTL DEF Spec, Promise!Safety

\* A verified event is signed by the key its kid stands for, and before the end of
\* that key if it is revoked.
LEMMA VerifiedEvent ==
    ASSUME NEW in, Judgement(in) = "verified", NEW k \in Indices(in)
    PROVE  LET key == in.registry[in.ledger[k].kid]
           IN  /\ key # None /\ in.ledger[k].signer = key.key
               /\ key.status = 3 => key.validTo # None /\ in.ledger[k].authoredAt <= key.validTo
<1>1. ~Unreadable(in, in.ledger[k]) /\ EventAuthentic(in, in.ledger[k])
  BY DEF Judgement, Clean, EventsAuthentic
<1> QED
  BY <1>1 DEF Unreadable, EventAuthentic, SignatureVerifies, KeyOf

\* A ledger verifies only under keys the caller gave, and of the entries of a kid only
\* under the last that signs.
THEOREM ListedKeysOnly == Spec => []VerifiedUnderListedKeys
<1>1. IInv => VerifiedUnderListedKeys
  <2> SUFFICES ASSUME IInv, result = Judged("verified"), NEW k \in DOMAIN request.ledger
               PROVE  LET e == request.ledger[k]
                      IN  IF request.entry = "single" THEN e.signer = request.key
                          ELSE \E i \in DOMAIN request.document :
                                LET entry == request.document[i]
                                IN  /\ RefusedEntries(request.document) = {}
                                    /\ InForce(request.document, i)
                                    /\ entry.kid = e.kid /\ entry.pubkey = e.signer
                                    /\ entry.status = 3 =>
                                         entry.validTo.form = "pair"
                                         /\ e.authoredAt <= entry.validTo.at
    BY DEF VerifiedUnderListedKeys
  <2> DEFINE e == request.ledger[k]
             document == request.document
  <2>1. TypeOK /\ stage = "done" /\ result.outcome = "judged" /\ result.kind = "verified"
        /\ result = Promised(request)
    BY OutcomeAssumption DEF IInv, TypeOK, Judged, Outcomes
  <2>2. CASE request.entry = "single"
    <3> DEFINE in == InputUnder(request, SingleKey(request), NoKeys)
    <3>1. request.ledger # None
      BY <2>1, <2>2 DEF Promised, Raised
    <3>2. Judgement(in) = "verified"
      BY <2>1, <2>2, <3>1 DEF Promised, Judged
    <3>3. k = 1 /\ request.ledger \in Seq(EventRecord)
      BY <2>1, <2>2, <3>1, Arguments
    <3>4. e.kid \in Kids
      <4>1. e \in EventRecord
        BY <3>3
      <4> QED
        BY <4>1 DEF EventRecord
    <3>5. in.ledger = request.ledger /\ in.registry = SingleKey(request)
      BY DEF InputUnder
    <3>6. k \in Indices(in)
      BY <3>5 DEF Indices
    <3>7. e.signer = SingleKey(request)[e.kid].key
      BY <3>2, <3>5, <3>6, VerifiedEvent
    <3>8. SingleKey(request)[e.kid].key = request.key
      BY <3>3, <3>4 DEF SingleKey
    <3> QED
      BY <2>2, <3>7, <3>8
  <2>3. CASE request.entry = "tampered"
    <3> DEFINE in == InputUnder(request, registry, nonSigning)
    <3>1. /\ document # None /\ document \in Seq(RawEntry) /\ Len(document) \in Nat
          /\ request.ledger \in Seq(EventRecord)
          /\ Judgement(in) = "verified"
          /\ ReadUpTo(document, registry, nonSigning, Len(document))
      BY <2>1, <2>3, Arguments DEF IInv
    <3>2. e.kid \in Kids
      <4>1. e \in EventRecord
        BY <3>1
      <4> QED
        BY <4>1 DEF EventRecord
    <3>3. in.ledger = request.ledger /\ in.registry = registry
      BY DEF InputUnder
    <3>4. k \in Indices(in)
      BY <3>3 DEF Indices
    <3> DEFINE key == registry[e.kid]
    <3>5. /\ key # None /\ e.signer = key.key
          /\ key.status = 3 => key.validTo # None /\ e.authoredAt <= key.validTo
      BY <3>1, <3>3, <3>4, VerifiedEvent
    <3>6. MapsKey(registry, document, Len(document), e.kid)
      BY <3>1, <3>2 DEF ReadUpTo
    <3>7. PICK i \in Listed(document, Len(document), e.kid, TRUE) :
            /\ \A j \in Listed(document, Len(document), e.kid, TRUE) : j <= i
            /\ key = KeyEntryOf(document[i])
      BY <3>5, <3>6 DEF MapsKey
    <3> DEFINE entry == document[i]
    <3>8. /\ i \in 1..Len(document) /\ entry.kid = e.kid /\ Signs(entry) /\ entry \in RawEntry
      BY <3>1, <3>7 DEF Listed
    <3>9. EntryError(entry) = None /\ RefusedEntries(document) = {}
      BY <3>1, <3>8 DEF ReadUpTo, RefusedEntries
    <3>10. entry.validTo.form \in {"pair", "absent"}
      BY <3>8, <3>9, AdmittedEntry
    <3>11. InForce(document, i)
      <4>1. ASSUME NEW j \in 1..Len(document), j > i, document[j].kid = entry.kid,
                   Signs(document[j])
            PROVE  FALSE
        <5>1. j \in Listed(document, Len(document), e.kid, TRUE)
          BY <3>8, <4>1 DEF Listed
        <5>2. j <= i
          BY <3>7, <5>1, Zenon
        <5>3. i \in Nat /\ j \in Nat
          BY <3>1, <3>8, <4>1
        <5> QED
          BY <4>1, <5>2, <5>3
      <4> QED
        BY <3>1, <3>8, <4>1 DEF InForce
    <3>12. entry.pubkey = e.signer
      BY <3>5, <3>7 DEF KeyEntryOf
    <3>13. ASSUME entry.status = 3
           PROVE  entry.validTo.form = "pair" /\ e.authoredAt <= entry.validTo.at
      <4>1. TimeOf(entry.validTo) # None /\ e.authoredAt <= TimeOf(entry.validTo)
        BY <3>5, <3>7, <3>13 DEF KeyEntryOf
      <4> QED
        BY <3>10, <4>1 DEF TimeOf
    <3> QED
      BY <2>3, <3>1, <3>8, <3>9, <3>11, <3>12, <3>13
  <2> QED
    BY <2>1, <2>2, <2>3, Arguments
<1> QED
  BY <1>1, IInvInit, IInvStep, PTL DEF Spec
=============================================================================
