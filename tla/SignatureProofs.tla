--------------------------- MODULE SignatureProofs ---------------------------
(***************************************************************************)
(* Both signature adapters answer "verified" and "failed" only of signatures   *)
(* they checked, and "verified" only of those the named key made, for every   *)
(* request, registry, resolver and number of rebindings.                     *)
(***************************************************************************)
EXTENDS SignatureAdapters, FiniteSetTheorems, TLAPS

Adapters == {"ring", "web"}

\* What a suspended TypeScript call has established in the turns behind it.
Suspended == web.turn \in {"import", "check", "subtle"} =>
    /\ WebUses(NamedEntry)
    /\ web.key = KeyAtCall("web") /\ web.key # None
    /\ web.answer = Waiting

Imported == web.turn \in {"check", "subtle"} =>
    /\ NamedEntry.alg \in Algorithms
    /\ FitsLength(NamedEntry.alg, web.key)
    /\ Imports(web.key, NamedEntry.alg)

Matched == web.turn = "subtle" =>
    /\ Decodes("web", request.envelope)
    /\ Bound("web", request, NamedEntry.alg)
    /\ ResolvesPayload(request)

Shapes ==
    /\ web = [turn |-> web.turn, key |-> web.key, answer |-> web.answer]
    /\ known = [adapter \in Adapters |-> known[adapter]]
    /\ web.turn = "call" => web.answer = Waiting

SInv == Shapes /\ Suspended /\ Imported /\ Matched
        /\ VerdictsAreChecked /\ VerifiedIsSigned

\* The adapter that takes no step keeps its answer and its key.
Kept(adapter) == Answer(adapter)' = Answer(adapter) /\ known'[adapter] = known[adapter]

-----------------------------------------------------------------------------
\* What an adapter said stays justified while its answer and its key stay.
LEMMA KeptStaysSound ==
    ASSUME SInv, UNCHANGED <<request, registry>>,
           NEW adapter \in Adapters, Kept(adapter)
    PROVE  /\ Answered(adapter, {"verified", "failed"})' => CheckedBy(adapter)'
           /\ Answered(adapter, {"verified"})' => SignedFor(adapter)'
<1>1. KeyAtCall(adapter)' = KeyAtCall(adapter)
  BY DEF Kept, KeyAtCall, Resolve
<1>2. NamedEntry' = NamedEntry
  BY DEF NamedEntry
<1>3. /\ Answered(adapter, {"verified", "failed"})' <=> Answered(adapter, {"verified", "failed"})
      /\ Answered(adapter, {"verified"})' <=> Answered(adapter, {"verified"})
  BY DEF Kept, Answered, Waiting
<1>4. CheckedBy(adapter)' <=> CheckedBy(adapter)
  BY <1>1, <1>2 DEF CheckedBy, FitsLength, Algorithms, Imports, Decodes, ReadsItems, MethodRead
<1>5. SignedFor(adapter)' <=> SignedFor(adapter)
  BY <1>1, <1>2 DEF SignedFor, MethodRead
<1> QED
  BY <1>3, <1>4, <1>5 DEF SInv, VerdictsAreChecked, VerifiedIsSigned, Adapters

\* What the Rust call reaches it has checked.
LEMMA RingChecks ==
    ASSUME SInv, RingVerify
    PROVE  /\ Answered("ring", {"verified", "failed"})' => CheckedBy("ring")'
           /\ Answered("ring", {"verified"})' => SignedFor("ring")'
<1> DEFINE key == Resolve(request.ref, RingKnown)
<1>1. KeyAtCall("ring")' = key /\ NamedEntry' = NamedEntry
  BY DEF RingVerify, KeyAtCall, SInv, Shapes, Adapters, NamedEntry, Resolve
<1>2. ASSUME ring'.result \in {"verified", "failed"}
      PROVE  ring'.result = RingReaches
  BY <1>2 DEF RingVerify, Attached, Receipt, Error, Verdicts
<1>3. ASSUME RingReaches \in {"verified", "failed"}
      PROVE  /\ RingUses(NamedEntry) /\ key # None
             /\ RingReaches = RingVerdict(request, NamedEntry.alg, key)
  BY <1>3 DEF RingReaches
<1>4. ASSUME RingReaches \in {"verified", "failed"}
      PROVE  /\ NamedEntry.alg \in Algorithms /\ FitsLength(NamedEntry.alg, key)
             /\ RingDecodes(request.envelope) /\ Bound("ring", request, NamedEntry.alg)
             /\ ResolvesPayload(request)
             /\ RingReaches = "verified" => Verifies("ring", request, NamedEntry.alg, key)
  BY <1>3, <1>4 DEF RingVerdict
<1>5. ASSUME RingReaches \in {"verified", "failed"}
      PROVE  CheckedBy("ring")'
  <2>1. /\ request' = request
        /\ FitsLength(NamedEntry'.alg, KeyAtCall("ring")')
    BY <1>1, <1>4, <1>5 DEF RingVerify
  <2> QED
    BY <1>1, <1>3, <1>4, <1>5, <2>1
       DEF CheckedBy, RingUses, RingDecodes, Decodes, ReadsItems, MethodRead, Bound, BindsMethod,
           BindsAlg, BindsKid, ResolvesPayload
<1>6. ASSUME RingReaches = "verified"
      PROVE  SignedFor("ring")'
  BY <1>1, <1>4, <1>6
     DEF RingVerify, SignedFor, MethodRead, Verifies, SigStructure, Bound, BindsMethod,
         BindsAlg, BindsKid
<1> QED
  BY <1>2, <1>5, <1>6 DEF Answered, Answer

\* A turn of the TypeScript call keeps the shapes and what its turns have
\* established, and answers only what it has checked.
LEMMA WebChecks ==
    ASSUME SInv, Web
    PROVE  /\ Shapes' /\ Suspended' /\ Imported' /\ Matched'
           /\ Answered("web", {"verified", "failed"})' => CheckedBy("web")'
           /\ Answered("web", {"verified"})' => SignedFor("web")'
<1>1. request' = request /\ registry' = registry /\ NamedEntry' = NamedEntry
  BY DEF Web, WebCall, WebImport, WebBind, WebVerdict, NamedEntry
<1>2. CASE WebCall
  <2>1. KeyAtCall("web")' = Resolve(request.ref, bindings)
    BY <1>1, <1>2 DEF WebCall, KeyAtCall, SInv, Shapes, Adapters, Resolve
  <2>2. known' = [adapter \in Adapters |-> known'[adapter]]
    BY <1>2 DEF WebCall, SInv, Shapes, Adapters
  <2> DEFINE key == Resolve(request.ref, bindings)
  <2>3. CASE /\ WebUses(NamedEntry) /\ key # None
             /\ web' = [web EXCEPT !.turn = "import", !.key = key]
    <3>1. /\ web' = [turn |-> "import", key |-> key, answer |-> web.answer]
          /\ web.answer = Waiting
      BY <1>2, <2>3 DEF WebCall, SInv, Shapes
    <3>2. Shapes' /\ Suspended' /\ Imported' /\ Matched'
      BY <1>1, <2>1, <2>2, <2>3, <3>1
         DEF Shapes, Suspended, Imported, Matched, WebUses, Waiting
    <3>3. ~Answered("web", {"verified", "failed"})' /\ ~Answered("web", {"verified"})'
      BY <3>1 DEF Answered, Answer, Waiting
    <3> QED
      BY <3>2, <3>3
  <2>4. CASE Return(Receipt("unsupported")) \/ Return(Error("internal"))
    <3>1. web'.turn = "done" /\ web'.answer.result \in {"unsupported", "internal"}
      BY <2>4 DEF Return, Receipt, Error
    <3>2. Shapes' /\ Suspended' /\ Imported' /\ Matched'
      BY <2>2, <2>4, <3>1 DEF Return, Shapes, Suspended, Imported, Matched
    <3>3. ~Answered("web", {"verified", "failed"})' /\ ~Answered("web", {"verified"})'
      BY <3>1 DEF Answered, Answer
    <3> QED
      BY <3>2, <3>3
  <2> QED
    BY <1>2, <2>3, <2>4 DEF WebCall
<1>3. CASE WebImport
  <2>1. known' = known /\ KeyAtCall("web")' = KeyAtCall("web")
    BY <1>1, <1>3 DEF WebImport, KeyAtCall, Resolve
  <2>2. CASE web' = [web EXCEPT !.turn = "check"]
    <3>1. FitsLength(NamedEntry.alg, web.key) /\ FitsLength(NamedEntry'.alg, web'.key)
      BY <1>1, <1>3, <2>2 DEF WebImport, Return, SInv, Shapes
    <3> QED
      BY <1>1, <1>3, <2>1, <2>2, <3>1
         DEF WebImport, Imports, Return, SInv, Shapes, Suspended, Imported, Matched, WebUses,
             Answered, Answer, Waiting
  <2>3. CASE Return(Receipt("unsupported")) \/ Return(Error("internal"))
    BY <1>1, <1>3, <2>1, <2>3
       DEF Return, Receipt, Error, SInv, Shapes, Suspended, Imported, Matched, Answered,
           Answer
  <2> QED
    BY <1>3, <2>2, <2>3 DEF WebImport
<1>4. CASE WebBind
  <2>1. known' = known /\ KeyAtCall("web")' = KeyAtCall("web")
    BY <1>1, <1>4 DEF WebBind, KeyAtCall, Resolve
  <2>2. CASE web' = [web EXCEPT !.turn = "subtle"]
    <3>1. FitsLength(NamedEntry'.alg, web'.key)
      BY <1>1, <1>4, <2>2 DEF WebBind, SInv, Shapes, Imported
    <3>2. Decodes("web", request'.envelope) /\ Bound("web", request', NamedEntry'.alg)
          /\ ResolvesPayload(request')
      BY <1>1, <1>4, <2>2 DEF WebBind, Return, SInv, Shapes
    <3> QED
      BY <1>1, <1>4, <2>1, <2>2, <3>1, <3>2
         DEF WebBind, SInv, Shapes, Suspended, Imported, Matched, WebUses,
             Answered, Answer, Waiting
  <2>3. CASE Return(Receipt("unsupported")) \/ Return(Error("internal"))
    BY <1>1, <1>4, <2>1, <2>3
       DEF Return, Receipt, Error, SInv, Shapes, Suspended, Imported, Matched, Answered,
           Answer
  <2> QED
    BY <1>4, <2>2, <2>3 DEF WebBind
<1>5. CASE WebVerdict
  <2>1. known' = known /\ KeyAtCall("web")' = KeyAtCall("web")
    BY <1>1, <1>5 DEF WebVerdict, KeyAtCall, Resolve
  <2>2. Shapes' /\ Suspended' /\ Imported' /\ Matched'
    BY <1>1, <1>5, <2>1
       DEF WebVerdict, Return, SInv, Shapes, Suspended, Imported, Matched
  <2>3. CheckedBy("web")
    BY <1>5
       DEF WebVerdict, SInv, Suspended, Imported, Matched, CheckedBy, WebUses, Bound,
           BindsMethod, BindsAlg, BindsKid, ResolvesPayload
  <2>4. CheckedBy("web")' <=> CheckedBy("web")
    BY <1>1, <2>1 DEF CheckedBy, FitsLength, Algorithms, Imports, Decodes, ReadsItems, MethodRead
  <2>5. ASSUME Answered("web", {"verified"})'
        PROVE  Verifies("web", request, NamedEntry.alg, web.key)
    BY <1>5, <2>5 DEF WebVerdict, Return, Receipt, Error, Answered, Answer
  <2>6. Answered("web", {"verified"})' => SignedFor("web")'
    BY <1>1, <1>5, <2>1, <2>5
       DEF WebVerdict, SInv, Suspended, Matched, SignedFor, Verifies, SigStructure, Bound,
           BindsMethod, BindsAlg, BindsKid, MethodRead
  <2> QED
    BY <2>2, <2>3, <2>4, <2>6
<1> QED
  BY <1>2, <1>3, <1>4, <1>5 DEF Web

-----------------------------------------------------------------------------
\* The invariant holds at first and at every step.
THEOREM SignatureInvariance == Spec => []SInv
<1>1. Init => SInv
  BY DEF Init, SInv, Shapes, Adapters, Suspended, Imported, Matched, VerdictsAreChecked,
         VerifiedIsSigned, Answered, Answer
<1>2. SInv /\ [Next]_vars => SInv'
  <2> SUFFICES ASSUME SInv, [Next]_vars PROVE SInv'
    OBVIOUS
  <2>1. CASE RingVerify
    <3>1. UNCHANGED <<request, registry, web>> /\ NamedEntry' = NamedEntry
      BY <2>1 DEF RingVerify, NamedEntry
    <3>2. Kept("web")
      BY <2>1 DEF RingVerify, Kept, Answer, SInv, Shapes, Adapters
    <3>3. KeyAtCall("web")' = KeyAtCall("web")
      BY <3>1, <3>2 DEF Kept, KeyAtCall, Resolve
    <3>4. Shapes'
      BY <2>1, <3>1 DEF RingVerify, SInv, Shapes, Adapters
    <3>5. Suspended' /\ Matched'
      BY <3>1, <3>3 DEF SInv, Suspended, Matched, WebUses, Waiting, Decodes,
         ReadsItems, MethodRead, Bound, BindsMethod, BindsAlg, BindsKid, ResolvesPayload
    <3>6. Imported'
      BY <3>1 DEF SInv, Imported, Imports, Algorithms, FitsLength
    <3>7. VerdictsAreChecked' /\ VerifiedIsSigned'
      BY <2>1, <3>1, <3>2, RingChecks, KeptStaysSound
         DEF VerdictsAreChecked, VerifiedIsSigned, Adapters
    <3> QED
      BY <3>4, <3>5, <3>6, <3>7 DEF SInv
  <2>2. CASE Web
    <3>1. UNCHANGED <<request, registry>> /\ Kept("ring")
      BY <2>2 DEF Web, WebCall, WebImport, WebBind, WebVerdict, Kept, Answer, SInv,
         Shapes, Adapters
    <3> QED
      BY <2>2, <3>1, WebChecks, KeptStaysSound
         DEF SInv, VerdictsAreChecked, VerifiedIsSigned, Adapters
  <2>3. CASE (\E binding \in Inserts : Insert(binding[1], binding[2])) \/ UNCHANGED vars
    <3>1. UNCHANGED <<request, registry, known, ring, web>> /\ NamedEntry' = NamedEntry
      BY <2>3 DEF Insert, vars, NamedEntry
    <3>2. Kept("ring") /\ Kept("web")
      BY <3>1 DEF Kept, Answer
    <3>3. KeyAtCall("web")' = KeyAtCall("web")
      BY <3>1 DEF KeyAtCall, Resolve
    <3>4. Shapes' /\ Suspended' /\ Matched'
      BY <3>1, <3>3 DEF SInv, Shapes, Suspended, Matched, WebUses, Waiting, Decodes,
         ReadsItems, MethodRead, Bound, BindsMethod, BindsAlg, BindsKid, ResolvesPayload
    <3>5. Imported'
      BY <3>1 DEF SInv, Imported, Imports, Algorithms, FitsLength
    <3> QED
      BY <3>1, <3>2, <3>4, <3>5, KeptStaysSound
         DEF SInv, VerdictsAreChecked, VerifiedIsSigned, Adapters
  <2> QED
    BY <2>1, <2>2, <2>3 DEF Next
<1> QED
  BY <1>1, <1>2, PTL DEF Spec

\* Neither adapter says "verified" or "failed" of a signature it did not check.
THEOREM VerdictsChecked == Spec => []VerdictsAreChecked
<1>1. SInv => VerdictsAreChecked
  BY DEF SInv
<1> QED
  BY <1>1, SignatureInvariance, PTL

\* Neither says "verified" of what the named key did not sign.
THEOREM VerifiedSigned == Spec => []VerifiedIsSigned
<1>1. SInv => VerifiedIsSigned
  BY DEF SInv
<1> QED
  BY <1>1, SignatureInvariance, PTL

-----------------------------------------------------------------------------
\* The registry and the configuration are among those given, for good.
GivenInv == registry \in Registries /\ config \in Configs

\* What the Rust adapter reaches with the key its call resolved.
RingFrom(key) ==
    IF ~RingUses(NamedEntry) THEN "unsupported"
    ELSE IF key = None THEN "internal"
    ELSE RingVerdict(request, NamedEntry.alg, key)

RingSaid(key) ==
    IF RingFrom(key) \in Verdicts THEN Attached(Receipt(RingFrom(key)))
    ELSE Error(RingFrom(key))

\* What the TypeScript adapter has found when it answers a receipt.
WebPasses(key) ==
    /\ WebUses(NamedEntry) /\ key # None
    /\ NamedEntry.alg \in Algorithms /\ FitsLength(NamedEntry.alg, key)
    /\ Decodes("web", request.envelope) /\ Bound("web", request, NamedEntry.alg)
    /\ ResolvesPayload(request)

WebTurnsDown(key) ==
    \/ ~WebUses(NamedEntry)
    \/ /\ key # None
       /\ \/ NamedEntry.alg \notin Algorithms
          \/ ~FitsLength(NamedEntry.alg, key)
          \/ ~Decodes("web", request.envelope)
          \/ ~Bound("web", request, NamedEntry.alg)

WebSaid(key) ==
    \/ web.answer = Error("internal")
    \/ web.answer = Receipt("unsupported") /\ WebTurnsDown(key)
    \/ /\ WebPasses(key)
       /\ web.answer = Receipt(IF Verifies("web", request, NamedEntry.alg, key)
                               THEN "verified" ELSE "failed")

\* Every answer is accounted for by what the call found.
RingAccounted ==
    \A key : ring # Waiting /\ key = KeyAtCall("ring") => ring = RingSaid(key)
WebAccounted ==
    \A key : web.answer # Waiting /\ key = KeyAtCall("web") => WebSaid(key)

AInv == GivenInv /\ RingAccounted /\ WebAccounted

-----------------------------------------------------------------------------
\* A nonempty set of positions has a least one: its initial segments have one
\* that contains no other.
LEMMA LeastIndex ==
    ASSUME NEW I, I \subseteq Nat, I # {}
    PROVE  Min(I) \in I
<1> DEFINE Segments == {1..i : i \in I}
<1>1. Segments \subseteq FiniteSubsetsOf(Nat) /\ Segments # {}
  <2>1. \A i \in I : 1..i \subseteq Nat /\ IsFiniteSet(1..i)
    BY FS_Interval
  <2> QED
    BY <2>1 DEF FiniteSubsetsOf
<1>2. PICK S \in Segments :
          \A T \in Segments : <<T, S>> \notin StrictSubsetOrdering(Nat)
  <2> HIDE DEF Segments
  <2> QED
    BY <1>1, FS_StrictSubsetOrderingWellFounded, WFMin
<1>3. PICK x \in I : S = 1..x
  BY <1>2
<1>4. ASSUME NEW y \in I PROVE x <= y
  <2>1. CASE y < x
    <3>1. 1..y \subseteq 1..x /\ x \in 1..x /\ x \notin 1..y
      BY <2>1
    <3>2. <<1..y, 1..x>> \in StrictSubsetOrdering(Nat)
      BY <3>1 DEF StrictSubsetOrdering
    <3> QED
      BY <1>2, <1>3, <3>2
  <2> QED
    BY <2>1
<1> QED
  BY <1>3, <1>4 DEF Min

\* The entry the adapters dispatch on is one of the registry's, when it is there.
LEMMA EntryIsListed ==
    ASSUME GivenInv, NamedEntry # None
    PROVE  \E i \in DOMAIN registry.entries : NamedEntry = registry.entries[i]
<1> DEFINE s == registry.entries
           I == {i \in 1..Len(s) : s[i].id = request.method}
<1>1. s \in Seq(Range(s))
  BY SignatureAssumption DEF GivenInv
<1>2. I \subseteq Nat /\ I \subseteq DOMAIN s
  BY <1>1
<1>3. CASE I = {}
  BY <1>3 DEF NamedEntry, EntryIn, SelectInSeq
<1>4. CASE I # {}
  <2>1. Min(I) \in I
    BY <1>2, <1>4, LeastIndex
  <2>2. Min(I) # 0
    BY <2>1
  <2>3. NamedEntry = s[Min(I)]
    BY <1>4, <2>2 DEF NamedEntry, EntryIn, SelectInSeq
  <2> QED
    BY <1>2, <2>1, <2>3
<1> QED
  BY <1>3, <1>4

-----------------------------------------------------------------------------
\* What an adapter may say of a key changes with the request, the registry and
\* the configuration only.
LEMMA SayingsKeep ==
    ASSUME UNCHANGED <<request, registry, config>>, NEW key
    PROVE  /\ NamedEntry' = NamedEntry
           /\ RingSaid(key)' = RingSaid(key)
           /\ WebPasses(key)' <=> WebPasses(key)
           /\ WebTurnsDown(key)' <=> WebTurnsDown(key)
           /\ web' = web => (WebSaid(key)' <=> WebSaid(key))
<1>1. NamedEntry' = NamedEntry
  BY DEF NamedEntry
<1>2. /\ FitsLength(NamedEntry.alg, key)' <=> FitsLength(NamedEntry.alg, key)
      /\ (NamedEntry.alg \in Algorithms)' <=> NamedEntry.alg \in Algorithms
  BY <1>1 DEF FitsLength, Algorithms
<1>3. /\ RingDecodes(request.envelope)' <=> RingDecodes(request.envelope)
      /\ Decodes("web", request.envelope)' <=> Decodes("web", request.envelope)
      /\ ResolvesPayload(request)' <=> ResolvesPayload(request)
      /\ \A adapter \in Adapters :
            /\ Bound(adapter, request, NamedEntry.alg)' <=>
                  Bound(adapter, request, NamedEntry.alg)
            /\ Verifies(adapter, request, NamedEntry.alg, key)' <=>
                  Verifies(adapter, request, NamedEntry.alg, key)
  BY <1>1
     DEF RingDecodes, Decodes, ReadsItems, MethodRead, Bound, BindsMethod, BindsAlg, BindsKid,
         ResolvesPayload, Verifies, TakesModulus, SigStructure
<1>4. RingFrom(key)' = RingFrom(key)
  BY <1>1, <1>2, <1>3 DEF RingFrom, RingVerdict, RingUses, Adapters
<1>5. RingSaid(key)' = RingSaid(key)
  BY <1>4 DEF RingSaid, Attached, Receipt, Error, SignerRefuses, Verdicts
<1>6. /\ WebPasses(key)' <=> WebPasses(key)
      /\ WebTurnsDown(key)' <=> WebTurnsDown(key)
  BY <1>1, <1>2, <1>3 DEF WebPasses, WebTurnsDown, WebUses, Adapters
<1>7. web' = web => (WebSaid(key)' <=> WebSaid(key))
  BY <1>1, <1>3, <1>6 DEF WebSaid, Receipt, Error, Adapters
<1> QED
  BY <1>1, <1>5, <1>6, <1>7

\* The Rust call says what the key it resolves makes it say.
LEMMA RingAccounts ==
    ASSUME SInv, RingVerify
    PROVE  RingAccounted'
<1> SUFFICES ASSUME NEW key, key = KeyAtCall("ring")'
             PROVE  ring' = RingSaid(key)'
  BY DEF RingAccounted
<1>1. key = Resolve(request.ref, RingKnown)
  BY DEF RingVerify, KeyAtCall, SInv, Shapes, Adapters, Resolve
<1>2. RingReaches = RingFrom(key)
  BY <1>1 DEF RingReaches, RingFrom
<1>3. ring' = RingSaid(key)
  BY <1>2 DEF RingVerify, RingSaid
<1>4. UNCHANGED <<request, registry, config>>
  BY DEF RingVerify
<1>5. RingSaid(key)' = RingSaid(key)
  BY <1>4, SayingsKeep
<1> QED
  BY <1>3, <1>5

\* A turn of the TypeScript call answers what it has found.
LEMMA WebAccounts ==
    ASSUME SInv, Web
    PROVE  WebAccounted'
<1> SUFFICES ASSUME NEW key, key = KeyAtCall("web")', web'.answer # Waiting
             PROVE  WebSaid(key)'
  BY DEF WebAccounted, Waiting
<1>1. UNCHANGED <<request, registry, config>>
  BY DEF Web, WebCall, WebImport, WebBind, WebVerdict
<1>2. /\ NamedEntry' = NamedEntry
      /\ WebPasses(key)' <=> WebPasses(key)
      /\ WebTurnsDown(key)' <=> WebTurnsDown(key)
  BY <1>1, SayingsKeep
<1>3. Verifies("web", request, NamedEntry.alg, key)' <=>
         Verifies("web", request, NamedEntry.alg, key)
  BY <1>1, <1>2 DEF Verifies, TakesModulus, SigStructure
<1>4. SUFFICES
        \/ web'.answer = Error("internal")
        \/ web'.answer = Receipt("unsupported") /\ WebTurnsDown(key)
        \/ /\ WebPasses(key)
           /\ web'.answer = Receipt(IF Verifies("web", request, NamedEntry.alg, key)
                                    THEN "verified" ELSE "failed")
  BY <1>1, <1>2, <1>3 DEF WebSaid, Receipt, Error
<1>5. CASE WebCall
  <2>1. key = Resolve(request.ref, bindings)
    BY <1>5 DEF WebCall, KeyAtCall, SInv, Shapes, Adapters, Resolve
  <2>2. web.answer = Waiting
    BY <1>5 DEF WebCall, SInv, Shapes
  <2>3. web' # [web EXCEPT !.turn = "import", !.key = Resolve(request.ref, bindings)]
    BY <2>2 DEF SInv, Shapes, Waiting
  <2> QED
    BY <1>5, <2>1, <2>3 DEF WebCall, Return, WebTurnsDown
<1>6. ASSUME ~WebCall
      PROVE  key = web.key /\ web.answer = Waiting /\ WebUses(NamedEntry) /\ key # None
  <2>1. known' = known /\ web.turn \in {"import", "check", "subtle"}
    BY <1>6 DEF Web, WebImport, WebBind, WebVerdict
  <2>2. KeyAtCall("web")' = KeyAtCall("web")
    BY <1>1, <2>1 DEF KeyAtCall, Resolve
  <2> QED
    BY <2>1, <2>2 DEF SInv, Suspended
<1>7. CASE WebImport
  <2>1. ~WebCall
    BY <1>7 DEF WebImport, WebCall
  <2>2. web' # [web EXCEPT !.turn = "check"]
    BY <1>6, <2>1 DEF SInv, Shapes
  <2> QED
    BY <1>6, <1>7, <2>1, <2>2 DEF WebImport, Return, WebTurnsDown
<1>8. CASE WebBind
  <2>1. ~WebCall
    BY <1>8 DEF WebBind, WebCall
  <2>2. web' # [web EXCEPT !.turn = "subtle"]
    BY <1>6, <2>1 DEF SInv, Shapes
  <2> QED
    BY <1>6, <1>8, <2>1, <2>2 DEF WebBind, Return, WebTurnsDown
<1>9. CASE WebVerdict
  <2>1. ~WebCall
    BY <1>9 DEF WebVerdict, WebCall
  <2>2. FitsLength(NamedEntry.alg, web.key)
    BY <1>9 DEF WebVerdict, SInv, Imported
  <2>3. WebPasses(key)
    BY <1>6, <1>9, <2>1, <2>2 DEF WebVerdict, SInv, Imported, Matched, WebPasses
  <2> QED
    BY <1>6, <1>9, <2>1, <2>3 DEF WebVerdict, Return
<1> QED
  BY <1>5, <1>7, <1>8, <1>9 DEF Web

\* The account holds at first and at every step.
LEMMA Accounts == Spec => []AInv
<1>1. Init => AInv
  BY DEF Init, AInv, GivenInv, RingAccounted, WebAccounted, Waiting
<1>2. SInv /\ AInv /\ [Next]_vars => AInv'
  <2> SUFFICES ASSUME SInv, AInv, [Next]_vars PROVE AInv'
    OBVIOUS
  <2>1. UNCHANGED <<request, registry, config>>
    BY DEF Next, RingVerify, Web, WebCall, WebImport, WebBind, WebVerdict, Insert, vars
  <2>2. GivenInv'
    BY <2>1 DEF AInv, GivenInv, Configs
  <2>3. ASSUME ~RingVerify PROVE RingAccounted'
    <3>1. ring' = ring /\ known'["ring"] = known["ring"]
      BY <2>3 DEF Next, Web, WebCall, WebImport, WebBind, WebVerdict, Insert, vars, SInv,
         Shapes, Adapters
    <3>2. KeyAtCall("ring")' = KeyAtCall("ring")
      BY <2>1, <3>1 DEF KeyAtCall, Resolve
    <3>3. \A key : RingSaid(key)' = RingSaid(key)
      BY <2>1, SayingsKeep
    <3> QED
      BY <3>1, <3>2, <3>3 DEF AInv, RingAccounted, Waiting
  <2>4. ASSUME ~Web PROVE WebAccounted'
    <3>1. web' = web /\ known'["web"] = known["web"]
      BY <2>4 DEF Next, RingVerify, Insert, vars, SInv, Shapes, Adapters
    <3>2. KeyAtCall("web")' = KeyAtCall("web")
      BY <2>1, <3>1 DEF KeyAtCall, Resolve
    <3>3. \A key : WebSaid(key)' <=> WebSaid(key)
      BY <2>1, <3>1, SayingsKeep
    <3> QED
      BY <3>1, <3>2, <3>3 DEF AInv, WebAccounted, Waiting
  <2> QED
    BY <2>2, <2>3, <2>4, RingAccounts, WebAccounts DEF AInv
<1> QED
  BY <1>1, <1>2, SignatureInvariance, PTL DEF Spec

-----------------------------------------------------------------------------
\* A verdict of either decision is one of the port's.
LEMMA RingResults ==
    /\ RingReaches \in Verdicts \cup {"internal", "invalid_cose"}
    /\ RingReaches \in Verdicts => Attached(Receipt(RingReaches)).result
                                      \in Verdicts \cup {"internal"}
<1>1. RingReaches \in Verdicts \cup {"internal", "invalid_cose"}
  BY DEF RingReaches, RingVerdict, Verdicts
<1>2. ASSUME NEW r \in Verdicts
      PROVE  Attached(Receipt(r)).result \in Verdicts \cup {"internal"}
  BY DEF Attached, Receipt, Error
<1> QED
  BY <1>1, <1>2

\* State and answers have the shapes of the ports.
THEOREM SignatureTypes == Spec => []TypeOK
<1> USE SignatureAssumption
<1>1. Init => TypeOK
  BY DEF Init, TypeOK, Answer, Waiting, Range
<1>2. SInv /\ TypeOK /\ [Next]_vars => TypeOK'
  <2> SUFFICES ASSUME SInv, TypeOK, [Next]_vars PROVE TypeOK'
    OBVIOUS
  <2>1. CASE RingVerify
    <3>1. ring'.result \in Verdicts \cup {"internal", "invalid_cose"}
      BY <2>1, RingResults DEF RingVerify, Error
    <3> QED
      BY <2>1, <3>1 DEF RingVerify, TypeOK, Answer, Waiting, Configs, Verdicts
  <2>2. CASE Web
    <3>1. /\ web'.turn \in {"call", "import", "check", "subtle", "done"}
          /\ web'.answer # Waiting => web'.turn = "done"
          /\ web'.answer # Waiting =>
                web'.answer.result \in Verdicts \cup {"internal", "invalid_cose"}
      <4>1. web.answer = Waiting
        BY <2>2
           DEF Web, WebCall, WebImport, WebBind, WebVerdict, SInv, Shapes, Suspended
      <4>2. CASE \E t \in {"import", "check", "subtle"} : \E k :
                    web' = [turn |-> t, key |-> k, answer |-> web.answer]
        BY <4>1, <4>2
      <4>3. CASE \E r \in Verdicts : Return(Receipt(r))
        BY <4>3 DEF Return, Receipt
      <4>4. CASE Return(Error("internal"))
        BY <4>4 DEF Return, Error
      <4>5. web = [turn |-> web.turn, key |-> web.key, answer |-> web.answer]
        BY DEF SInv, Shapes
      <4>6. CASE WebCall
        BY <4>2, <4>3, <4>4, <4>5, <4>6 DEF WebCall, Verdicts
      <4>7. CASE WebImport
        BY <4>2, <4>3, <4>4, <4>5, <4>7 DEF WebImport, Verdicts
      <4>8. CASE WebBind
        BY <4>2, <4>3, <4>4, <4>5, <4>8 DEF WebBind, Verdicts
      <4>9. CASE WebVerdict
        BY <4>3, <4>4, <4>9 DEF WebVerdict, Verdicts
      <4> QED
        BY <2>2, <4>6, <4>7, <4>8, <4>9 DEF Web
    <3>2. UNCHANGED <<request, registry, config, bindings, binds, ring>>
      BY <2>2 DEF Web, WebCall, WebImport, WebBind, WebVerdict
    <3> QED
      BY <3>1, <3>2 DEF TypeOK, Answer, Waiting, Configs, Verdicts
  <2>3. ASSUME NEW binding \in Inserts, Insert(binding[1], binding[2])
        PROVE  TypeOK'
    <3>1. binding[1] \in Kids /\ binding[2] \in Keys
      OBVIOUS
    <3>2. /\ DOMAIN bindings' \subseteq Kids
          /\ \A kid \in DOMAIN bindings' : bindings'[kid] \in Keys
      BY <2>3, <3>1 DEF Insert, TypeOK
    <3>3. binds' \in 0..MaxBinds
      BY <2>3 DEF Insert, TypeOK
    <3> QED
      BY <2>3, <3>2, <3>3 DEF Insert, TypeOK, Answer, Waiting, Configs, Verdicts
  <2>4. CASE UNCHANGED vars
    BY <2>4 DEF vars, TypeOK, Answer, Waiting, Configs, Verdicts
  <2> QED
    BY <2>1, <2>2, <2>3, <2>4 DEF Next
<1> QED
  BY <1>1, <1>2, SignatureInvariance, PTL DEF Spec

-----------------------------------------------------------------------------
\* Signing a receipt adds the signature and leaves what was signed.
LEMMA SigningKeeps ==
    ASSUME NEW result, NEW method, NEW version, NEW key, NEW bytes, NEW signed,
           signed = [result |-> result, method |-> method, version |-> version,
                     key |-> key, bytes |-> bytes]
    PROVE  [signed EXCEPT !.bytes = None] =
              [result |-> result, method |-> method, version |-> version,
               key |-> key, bytes |-> None]
<1>1. [signed EXCEPT !.bytes = None] \in
         [result : {result}, method : {method}, version : {version}, key : {key},
          bytes : {None}]
  OBVIOUS
<1> QED
  BY <1>1

\* A verifier built with a signer returns no receipt the signer did not sign.
THEOREM ReceiptsSigned == Spec => []NoUnsignedReceipt
<1>1. AInv => NoUnsignedReceipt
  <2> SUFFICES ASSUME AInv, config.signer # None, Answered("ring", Verdicts)
               PROVE  ring.bytes \in [kid : Kids, over : {[ring EXCEPT !.bytes = None]}]
    BY DEF NoUnsignedReceipt
  <2> DEFINE key == KeyAtCall("ring")
             receipt == Receipt(RingFrom(key))
  <2>1. ring.result \in Verdicts /\ ring = RingSaid(key)
    BY DEF Answered, Answer, AInv, RingAccounted
  <2>2. /\ ~SignerRefuses(config.signer)
        /\ ring = [receipt EXCEPT !.bytes =
                      [kid |-> config.signer.kid, over |-> receipt]]
    BY <2>1 DEF RingSaid, Attached, Error, Verdicts
  <2>3. /\ receipt = [ring EXCEPT !.bytes = None]
        /\ ring.bytes = [kid |-> config.signer.kid, over |-> receipt]
    <3>1. PICK r, b :
            /\ ring = [result |-> r, method |-> request.method,
                       version |-> registry.version, key |-> request.ref, bytes |-> b]
            /\ receipt = Receipt(r)
            /\ b = [kid |-> config.signer.kid, over |-> receipt]
      <4> DEFINE bytes == [kid |-> config.signer.kid, over |-> receipt]
      <4>1. ring = [result |-> RingFrom(key), method |-> request.method,
                    version |-> registry.version, key |-> request.ref,
                    bytes |-> bytes]
        BY <2>2 DEF Receipt
      <4> QED
        BY <4>1
    <3>2. [ring EXCEPT !.bytes = None] = Receipt(r)
      BY <3>1, SigningKeeps DEF Receipt
    <3>3. ring.bytes = b
      BY <3>1
    <3> HIDE DEF receipt
    <3> QED
      BY <3>1, <3>2, <3>3
  <2>4. config.signer.kid \in Kids
    BY <2>2 DEF AInv, GivenInv, Configs, SignerRefuses
  <2> QED
    BY <2>3, <2>4
<1> QED
  BY <1>1, Accounts, PTL

\* The method URI is behind U+FEFF; the items are of those one decoder reads.
Marked ==
    /\ request.envelope # None
    /\ MethodRead("web", request.envelope) # request.envelope.method
Unread(adapter) == request.envelope # None /\ ~ReadsItems(adapter, request.envelope)

\* The adapters take the same entries, find the same keys too short and bind alike
\* an envelope that both decoders read to the same text.
LEMMA ReadAlike ==
    ASSUME ~Marked, ~Unread("ring"), ~Unread("web"), NEW alg \in Algorithms
    PROVE  RingDecodes(request.envelope) /\ Bound("ring", request, alg) <=>
              Decodes("web", request.envelope) /\ Bound("web", request, alg)
<1>1. alg # None
  BY SignatureAssumption DEF Algorithms
<1> QED
  BY <1>1
     DEF Marked, Unread, RingDecodes, Decodes, ReadsItems, MethodRead, Bound, BindsMethod, BindsAlg

\* What the TypeScript adapter turns down the Rust one turns down, unless one text or
\* one item stands between the decoders.
LEMMA TurnedDownAlike ==
    ASSUME NEW key, RingUses(NamedEntry) <=> WebUses(NamedEntry),
           WebTurnsDown(key), ~Marked, ~Unread("web")
    PROVE  RingFrom(key) \in {"unsupported", "invalid_cose"}
<1>1. CASE Unread("ring")
  <2>1. ~RingDecodes(request.envelope)
    BY <1>1 DEF Unread, RingDecodes, Decodes
  <2> QED
    BY <2>1 DEF WebTurnsDown, RingFrom, RingVerdict
<1>2. CASE ~Unread("ring")
  <2>1. NamedEntry.alg \in Algorithms /\ RingDecodes(request.envelope)
           /\ Bound("ring", request, NamedEntry.alg) =>
        Decodes("web", request.envelope) /\ Bound("web", request, NamedEntry.alg)
    BY <1>2, ReadAlike
  <2> QED
    BY <2>1 DEF WebTurnsDown, RingFrom, RingVerdict
<1> QED
  BY <1>1, <1>2

\* What passes the TypeScript adapter the Rust one judges by its own primitive, or
\* turns down for the text or the item between the decoders.
LEMMA PassedAlike ==
    ASSUME NEW key, RingUses(NamedEntry) <=> WebUses(NamedEntry), WebPasses(key)
    PROVE  /\ Unread("ring") => RingFrom(key) = "invalid_cose"
           /\ Marked => RingFrom(key) \in {"unsupported", "invalid_cose"}
           /\ ~Marked /\ ~Unread("ring") =>
                 RingFrom(key) = IF Verifies("ring", request, NamedEntry.alg, key)
                                 THEN "verified" ELSE "failed"
<1>1. RingFrom(key) = RingVerdict(request, NamedEntry.alg, key)
      /\ NamedEntry.alg \in Algorithms /\ FitsLength(NamedEntry.alg, key)
      /\ ResolvesPayload(request)
  BY DEF WebPasses, RingFrom
<1>2. Unread("ring") => ~RingDecodes(request.envelope)
  BY DEF Unread, RingDecodes, Decodes
<1>3. Marked => ~Bound("ring", request, NamedEntry.alg)
  BY DEF Marked, WebPasses, Bound, BindsMethod, MethodRead
<1>4. ~Marked /\ ~Unread("ring") =>
         RingDecodes(request.envelope) /\ Bound("ring", request, NamedEntry.alg)
  BY <1>1, ReadAlike DEF WebPasses, Unread, Decodes
<1> QED
  BY <1>1, <1>2, <1>3, <1>4 DEF RingVerdict

\* On every registry of the two statuses, adapters that resolve to one key never
\* verify what the other does not, and what both say on a receipt is the same, but
\* for a method URI behind U+FEFF, items one decoder does not read, and an RSA
\* modulus ring does not take.  A throw of the platform answers nothing; a signer
\* that refuses makes the Rust call fail.
THEOREM AdaptersAgreeing == Spec => []AdaptersAgree
<1>1. AInv => AdaptersAgree
  <2> SUFFICES ASSUME AInv, Typed, ring # Waiting, web.answer # Waiting,
                      KeyAtCall("ring") = KeyAtCall("web"),
                      ~ApartByMark, ~ApartByItems, ~ApartByModulus
               PROVE  /\ Answered("web", {"verified"}) =>
                            \/ Answered("ring", {"verified"})
                            \/ config.signer # None /\ Answered("ring", {"internal"})
                      /\ Answered("ring", {"verified"}) =>
                            Answered("web", {"verified", "internal"})
                      /\ Answered("ring", Verdicts) /\ Answered("web", Verdicts) =>
                            [ring EXCEPT !.bytes = None] = web.answer
    BY DEF AdaptersAgree
  <2> DEFINE key == KeyAtCall("ring")
  <2>1. ring = RingSaid(key) /\ WebSaid(key)
    BY DEF AInv, RingAccounted, WebAccounted
  <2>2. RingUses(NamedEntry) <=> WebUses(NamedEntry)
    BY EntryIsListed DEF AInv, Typed, RingUses, WebUses
  <2>3. \/ /\ ring.result = RingFrom(key)
           /\ RingFrom(key) \in Verdicts =>
                 [ring EXCEPT !.bytes = None] = Receipt(RingFrom(key))
        \/ config.signer # None /\ ring.result = "internal"
    BY <2>1 DEF RingSaid, Attached, Receipt, Error
  <2>4. CASE web.answer = Error("internal")
    BY <2>4 DEF Answered, Answer, Error, Verdicts
  <2>5. CASE web.answer = Receipt("unsupported") /\ WebTurnsDown(key)
    <3>1. Answered("web", {"unsupported"}) /\ ~Answered("web", {"verified"})
      BY <2>5 DEF Answered, Answer, Receipt
    <3>2. ~Marked /\ ~Unread("web")
      BY <3>1 DEF ApartByMark, ApartByItems, Marked, Unread
    <3>3. RingFrom(key) \in {"unsupported", "invalid_cose"}
      BY <2>2, <2>5, <3>2, TurnedDownAlike
    <3>4. ~Answered("ring", {"verified"})
      BY <2>3, <3>3 DEF Answered, Answer
    <3>5. Answered("ring", Verdicts) => [ring EXCEPT !.bytes = None] = web.answer
      BY <2>3, <2>5, <3>3 DEF Answered, Answer, Verdicts
    <3> QED
      BY <3>1, <3>4, <3>5
  <2>6. CASE /\ WebPasses(key)
             /\ web.answer = Receipt(IF Verifies("web", request, NamedEntry.alg, key)
                                     THEN "verified" ELSE "failed")
    <3>1. /\ Answered("web", {"verified"}) <=> Verifies("web", request, NamedEntry.alg, key)
          /\ web.answer.result \in {"verified", "failed"}
      BY <2>6 DEF Answered, Answer, Receipt
    <3>2. CASE config.signer # None /\ ring.result = "internal"
      BY <3>2 DEF Answered, Answer, Verdicts
    <3>3. CASE /\ ring.result = RingFrom(key)
               /\ RingFrom(key) \in Verdicts =>
                     [ring EXCEPT !.bytes = None] = Receipt(RingFrom(key))
      <4>1. ~Marked /\ ~Unread("ring")
        BY <2>2, <2>6, <3>3, PassedAlike
           DEF ApartByMark, ApartByItems, Marked, Unread, Answered, Answer
      <4>2. RingFrom(key) = IF Verifies("ring", request, NamedEntry.alg, key)
                            THEN "verified" ELSE "failed"
        BY <2>2, <2>6, <4>1, PassedAlike
      <4>3. Verifies("ring", request, NamedEntry.alg, key) <=>
            Verifies("web", request, NamedEntry.alg, key)
        <5>1. TakesModulus("web", NamedEntry.alg, key)
          BY DEF TakesModulus
        <5>2. CASE TakesModulus("ring", NamedEntry.alg, key)
          BY <5>1, <5>2 DEF Verifies
        <5>3. CASE ~TakesModulus("ring", NamedEntry.alg, key)
          <6>1. Answered("ring", {"failed"})
            BY <3>3, <4>2, <5>3 DEF Verifies, Answered, Answer
          <6> QED
            BY <3>1, <5>3, <6>1 DEF ApartByModulus, Verifies
        <5> QED
          BY <5>2, <5>3
      <4>4. web.answer = Receipt(RingFrom(key))
        BY <2>6, <4>2, <4>3
      <4> QED
        BY <3>1, <3>3, <4>2, <4>3, <4>4 DEF Answered, Answer, Verdicts, Receipt
    <3> QED
      BY <2>3, <3>2, <3>3
  <2> QED
    BY <2>1, <2>4, <2>5, <2>6 DEF WebSaid
<1> QED
  BY <1>1, Accounts, PTL
=============================================================================
