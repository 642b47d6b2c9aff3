--------------------------- MODULE UniversalProofs ---------------------------
(***************************************************************************)
(* What a report of the universal phase says is what its inputs are, for every *)
(* list of events, chain and list of paths, and the command's exit code is   *)
(* the report's verdict.                                                     *)
(***************************************************************************)
EXTENDS Universal, FiniteSetTheorems, TLAPS

\* A nonempty set of positions has a least one: its initial segments have one
\* that contains no other.
LEMMA LeastIndex ==
    ASSUME NEW I, I \subseteq Nat, I # {}
    PROVE  \E x \in I : \A y \in I : x <= y
<1> DEFINE Segments == {1..i : i \in I}
<1>1. Segments \subseteq FiniteSubsetsOf(Nat) /\ Segments # {}
  <2>1. \A i \in I : 1..i \subseteq Nat /\ IsFiniteSet(1..i)
    BY FS_Interval
  <2> QED
    BY <2>1 DEF FiniteSubsetsOf
<1>2. PICK S \in Segments :
          \A T \in Segments : <<T, S>> \notin StrictSubsetOrdering(Nat)
  <2> HIDE DEF Segments
  <2> QED
    BY <1>1, FS_StrictSubsetOrderingWellFounded, WFMin
<1>3. PICK x \in I : S = 1..x
  BY <1>2
<1>4. ASSUME NEW y \in I PROVE x <= y
  <2>1. CASE y < x
    <3>1. 1..y \subseteq 1..x /\ x \in 1..x /\ x \notin 1..y
      BY <2>1
    <3>2. <<1..y, 1..x>> \in StrictSubsetOrdering(Nat)
      BY <3>1 DEF StrictSubsetOrdering
    <3> QED
      BY <1>2, <1>3, <3>2
  <2> QED
    BY <2>1
<1> QED
  BY <1>3, <1>4

\* A list that ascends from each place to the next ascends.
LEMMA AdjacentOrder ==
    ASSUME NEW n \in Nat, NEW f, \A i \in 1..n : f[i] \in Nat,
           \A i \in 2..n : f[i - 1] < f[i]
    PROVE  \A i, j \in 1..n : i < j => f[i] < f[j]
<1> SUFFICES ASSUME NEW i \in 1..n, NEW k \in 1..n, i < k, ~(f[i] < f[k])
             PROVE  FALSE
  OBVIOUS
<1> DEFINE I == {j \in 1..n : i < j /\ ~(f[i] < f[j])}
<1>1. I \subseteq Nat /\ I # {}
  OBVIOUS
<1>2. PICK j \in I : \A y \in I : j <= y
  <2> HIDE DEF I
  <2> QED
    BY <1>1, LeastIndex
<1>3. j \in 2..n /\ f[j - 1] < f[j] /\ j - 1 \in 1..n /\ f[j - 1] \in Nat /\ f[j] \in Nat
  BY <1>2
<1>4. CASE j - 1 = i
  BY <1>2, <1>3, <1>4
<1>5. CASE j - 1 # i
  <2>1. j - 1 \notin I
    BY <1>2, <1>3
  <2>2. f[i] < f[j - 1] /\ f[i] \in Nat
    BY <1>2, <1>3, <1>5, <2>1
  <2> QED
    BY <1>2, <1>3, <2>2
<1> QED
  BY <1>4, <1>5

-----------------------------------------------------------------------------
\* Where no path is empty the one before is the one compared with.
LEMMA PreviousOfFull ==
    ASSUME NEW paths \in Seq(Nat), \A j \in DOMAIN paths : paths[j] # 0,
           NEW i \in DOMAIN paths
    PROVE  PreviousPath(paths, i) = IF i = 1 THEN 0 ELSE paths[i - 1]
<1>1. {j \in 1..(i - 1) : paths[j] # 0} = 1..(i - 1)
  OBVIOUS
<1>2. CASE i = 1
  BY <1>2 DEF PreviousPath
<1>3. CASE i # 1
  <2>1. i - 1 \in 1..(i - 1)
    BY <1>3
  <2>2. (CHOOSE j \in 1..(i - 1) : \A m \in 1..(i - 1) : m <= j) = i - 1
    BY <2>1
  <2> QED
    BY <1>1, <1>3, <2>1, <2>2 DEF PreviousPath
<1> QED
  BY <1>2, <1>3

\* The structural check of a bundle finds nothing exactly when its paths ascend.
LEMMA BundleCheck ==
    ASSUME NEW paths \in Seq(Nat)
    PROVE  BundleFindings(paths) = {} <=> PathsAscend(paths)
<1> DEFINE n == Len(paths)
<1>1. n \in Nat /\ DOMAIN paths = 1..n /\ \A i \in 1..n : paths[i] \in Nat
  OBVIOUS
<1>2. BundleFindings(paths) = {} <=>
        /\ \A j \in DOMAIN paths : paths[j] # 0
        /\ \A j \in DOMAIN paths : paths[j] # 0 =>
              ~(paths[j] < PreviousPath(paths, j)) /\ paths[j] # PreviousPath(paths, j)
  BY DEF BundleFindings
<1>3. ASSUME \A j \in DOMAIN paths : paths[j] # 0
      PROVE  (\A j \in DOMAIN paths : ~(paths[j] < PreviousPath(paths, j))
                                      /\ paths[j] # PreviousPath(paths, j))
             <=> \A j \in 2..n : paths[j - 1] < paths[j]
  <2>1. \A j \in DOMAIN paths :
           PreviousPath(paths, j) = IF j = 1 THEN 0 ELSE paths[j - 1]
    BY <1>3, PreviousOfFull
  <2>2. \A j \in 2..n : paths[j - 1] \in Nat /\ paths[j] \in Nat /\ j \in DOMAIN paths
    BY <1>1
  <2>3. \A j \in DOMAIN paths : j = 1 \/ j \in 2..n
    BY <1>1
  <2>4. 1 \in DOMAIN paths => paths[1] \in Nat /\ paths[1] # 0
    BY <1>1, <1>3
  <2>5. ASSUME NEW j \in 2..n
        PROVE  (~(paths[j] < PreviousPath(paths, j)) /\ paths[j] # PreviousPath(paths, j))
               <=> paths[j - 1] < paths[j]
    <3>0. j # 1
      OBVIOUS
    <3>1. PreviousPath(paths, j) = paths[j - 1]
      BY <2>1, <2>2, <3>0
    <3> QED
      BY <2>2, <3>1
  <2>6. 1 \in DOMAIN paths => ~(paths[1] < PreviousPath(paths, 1))
                              /\ paths[1] # PreviousPath(paths, 1)
    BY <2>1, <2>4
  <2> QED
    BY <2>2, <2>3, <2>5, <2>6
<1>4. (\A j \in 2..n : paths[j - 1] < paths[j])
         <=> (\A i, j \in DOMAIN paths : i < j => paths[i] < paths[j])
  <2>1. ASSUME \A j \in 2..n : paths[j - 1] < paths[j]
        PROVE  \A i, j \in DOMAIN paths : i < j => paths[i] < paths[j]
    BY <1>1, <2>1, AdjacentOrder
  <2>2. \A j \in 2..n : j - 1 \in DOMAIN paths /\ j \in DOMAIN paths /\ j - 1 < j
    BY <1>1
  <2> QED
    BY <2>1, <2>2
<1> QED
  BY <1>2, <1>3, <1>4 DEF PathsAscend

\* The continuity check finds nothing exactly when the chain holds.
LEMMA ChainCheck ==
    ASSUME NEW rows, Len(rows) \in Nat, DOMAIN rows = 1..Len(rows),
           \A i \in DOMAIN rows : rows[i].sequence \in Nat
    PROVE  ContinuityFindings(rows) = {} <=> ChainHolds(rows)
<1> DEFINE n == Len(rows)
           seq == [i \in 1..n |-> rows[i].sequence]
<1>1. ContinuityFindings(rows) = {} <=>
        \A i \in DOMAIN rows :
            /\ ~(rows[i].sequence = 0 /\ rows[i].prevHash # None)
            /\ ~(rows[i].sequence # 0 /\ rows[i].prevHash # PreviousHash(rows, i))
            /\ ~(i > 1 /\ rows[i].sequence <= rows[i - 1].sequence)
  BY DEF ContinuityFindings
<1>2. \A i \in 2..n : /\ i - 1 \in DOMAIN rows /\ i \in DOMAIN rows /\ i > 1 /\ i - 1 < i
                      /\ rows[i].sequence \in Nat /\ rows[i - 1].sequence \in Nat
  OBVIOUS
<1>3. \A i \in DOMAIN rows : i = 1 \/ i \in 2..n
  OBVIOUS
<1>4. ASSUME ContinuityFindings(rows) = {} PROVE ChainHolds(rows)
  <2>1. \A i \in 2..n : rows[i - 1].sequence < rows[i].sequence
    BY <1>1, <1>2, <1>4
  <2>2. \A i, j \in 1..n : i < j => seq[i] < seq[j]
    <3>1. \A i \in 2..n : seq[i - 1] < seq[i]
      BY <1>2, <2>1
    <3>2. \A i \in 1..n : seq[i] \in Nat
      OBVIOUS
    <3> HIDE DEF seq
    <3> QED
      BY <3>1, <3>2, AdjacentOrder
  <2>3. \A i \in DOMAIN rows : rows[i].prevHash = PreviousHash(rows, i)
    BY <1>1, <1>2, <1>3, <1>4, <2>1 DEF PreviousHash
  <2> QED
    BY <2>2, <2>3 DEF ChainHolds, PreviousHash
<1>5. ASSUME ChainHolds(rows) PROVE ContinuityFindings(rows) = {}
  <2>1. \A i \in 2..n : rows[i - 1].sequence < rows[i].sequence
    BY <1>2, <1>5 DEF ChainHolds
  <2>2. \A i \in DOMAIN rows : rows[i].prevHash = PreviousHash(rows, i)
    BY <1>5 DEF ChainHolds, PreviousHash
  <2>3. \A i \in DOMAIN rows : i > 1 => i \in 2..n
    BY <1>3
  <2> QED
    BY <1>1, <1>2, <1>3, <2>1, <2>2, <2>3 DEF PreviousHash
<1> QED
  BY <1>4, <1>5

-----------------------------------------------------------------------------
\* What the checks have found so far, said of the inputs.
EventPasses(i) ==
    LET e == input.events[i]
    IN  /\ e.decodes /\ input.verifier # None
        /\ e.publicKey # None /\ Resolved(e) # None =>
               e.signer = e.publicKey /\ e.signed = Resolved(e)

LacksAlg(i) == input.events[i].decodes /\ "alg" \notin input.events[i].labels

Given == call \in Calls /\ input = Inputs[call]

Progress ==
    /\ stage \in {"bundle", "events", "canonical", "fold", "done"}
    /\ cursor \in 1..(Len(input.events) + 1)
    /\ stage = "bundle" => cursor = 1
    /\ stage \in {"canonical", "fold", "done"} => cursor = Len(input.events) + 1

ListsFilled ==
    /\ findings = [list \in {"bundle", "envelope", "chain", "canonical"} |-> findings[list]]
    /\ findings["bundle"] =
         IF stage = "bundle" \/ input.bundle = None THEN {} ELSE BundleFindings(input.bundle)
    /\ findings["chain"] =
         IF stage \in {"bundle", "events"} \/ input.chain = None THEN {}
         ELSE ContinuityFindings(input.chain)
    /\ findings["canonical"] =
         IF stage \in {"bundle", "events", "canonical"} \/ input.digest \in {None, "matches"}
         THEN {} ELSE {input.digest}

EventsJudged ==
    /\ "alg" \in findings["envelope"] <=> \E i \in 1..(cursor - 1) : LacksAlg(i)
    /\ failures = {} <=> \A i \in 1..(cursor - 1) : EventPasses(i)
    /\ results # {} \/ failures # {} <=> cursor # 1
    /\ cursor = 1 => findings["envelope"] = {}

Reported ==
    stage = "done" => report =
        [universal |-> /\ EnvelopeClean /\ failures = {}
                       /\ \A list \in {"bundle", "chain", "canonical"} : findings[list] = {},
         profile |-> \A r \in results : r.verified,
         tier |-> IF ~EnvelopeSeen \/ ~EnvelopeClean \/ failures # {} THEN None
                  ELSE TierOf(input.chain # None /\ findings["chain"] = {},
                              input.bundle # None /\ findings["bundle"] = {})]

UInv == Given /\ Progress /\ ListsFilled /\ EventsJudged /\ Reported

\* The event at the cursor is judged, and no other.
LEMMA EventStep ==
    ASSUME UInv, RejectEnvelope \/ VerifyEvent
    PROVE  EventsJudged'
<1> DEFINE e == input.events[cursor]
<1>1. /\ cursor' = cursor + 1 /\ input' = input /\ Scanning
      /\ cursor \in Nat \ {0} /\ cursor' # 1
  BY DEF RejectEnvelope, VerifyEvent, callVars, UInv, Progress
<1>2. 1..(cursor' - 1) = 1..(cursor - 1) \cup {cursor}
  BY <1>1
<1>3. \A i : (EventPasses(i)' <=> EventPasses(i)) /\ (LacksAlg(i)' <=> LacksAlg(i))
  BY <1>1 DEF EventPasses, LacksAlg, Resolved
<1>4. "alg" \in findings'["envelope"] <=> "alg" \in findings["envelope"] \/ LacksAlg(cursor)
  <2>1. CASE RejectEnvelope
    BY <2>1 DEF RejectEnvelope, LacksAlg
  <2>2. CASE VerifyEvent
    BY <2>2 DEF VerifyEvent, LacksAlg, Found, EnvelopeFindings, UInv, ListsFilled
  <2> QED
    BY <2>1, <2>2
<1>5. /\ failures' = {} <=> failures = {} /\ EventPasses(cursor)
      /\ results' # {} \/ failures' # {}
  <2>1. CASE RejectEnvelope
    BY <2>1 DEF RejectEnvelope, EventPasses
  <2>2. CASE VerifyEvent
    BY <2>2
       DEF VerifyEvent, EventPasses, SignatureFailures, DispatchFailures, DispatchResults
  <2> QED
    BY <2>1, <2>2
<1>6. "alg" \in findings'["envelope"] <=> \E i \in 1..(cursor' - 1) : LacksAlg(i)'
  BY <1>2, <1>3, <1>4 DEF UInv, EventsJudged
<1>7. failures' = {} <=> \A i \in 1..(cursor' - 1) : EventPasses(i)'
  BY <1>2, <1>3, <1>5 DEF UInv, EventsJudged
<1> QED
  BY <1>1, <1>5, <1>6, <1>7 DEF EventsJudged

\* The other checks leave what the events were found to be.
LEMMA JudgedKeep ==
    ASSUME EventsJudged, UNCHANGED <<input, cursor, failures, results>>,
           findings'["envelope"] = findings["envelope"]
    PROVE  EventsJudged'
<1>1. \A i : (EventPasses(i)' <=> EventPasses(i)) /\ (LacksAlg(i)' <=> LacksAlg(i))
  BY DEF EventPasses, LacksAlg, Resolved
<1> QED
  BY <1>1 DEF EventsJudged

\* What the lists of the report hold is what the checks so far had to find in the
\* inputs (verify_universal), at first and at every step.
THEOREM UniversalInvariance == Spec => []UInv
<1>1. Init => UInv
  <2> SUFFICES ASSUME Init PROVE UInv
    OBVIOUS
  <2>1. Len(input.events) \in Nat
    BY InputsAssumption DEF Init
  <2>2. 1..(cursor - 1) = {}
    BY DEF Init
  <2>3. EventsJudged
    BY <2>2 DEF Init, EventsJudged
  <2> QED
    BY <2>1, <2>3 DEF Init, UInv, Given, Progress, ListsFilled, Reported
<1>2. UInv /\ [Next]_vars => UInv'
  <2> SUFFICES ASSUME UInv, [Next]_vars PROVE UInv'
    OBVIOUS
  <2>1. Len(input.events) \in Nat /\ DOMAIN input.events = 1..Len(input.events)
    BY InputsAssumption DEF UInv, Given
  <2>2. UNCHANGED callVars /\ input' = input
    BY DEF Next, CheckBundle, RejectEnvelope, VerifyEvent, CheckChain, CheckDigest,
           RecomputeFlags, vars, callVars
  <2>3. Given'
    BY <2>2 DEF UInv, Given, callVars
  <2>4. CASE CheckBundle
    <3>1. ListsFilled' /\ findings'["envelope"] = findings["envelope"]
      BY <2>2, <2>4 DEF CheckBundle, Found, UInv, ListsFilled
    <3>2. Progress' /\ Reported'
      BY <2>2, <2>4 DEF CheckBundle, UInv, Progress, Reported
    <3> QED
      BY <2>2, <2>3, <2>4, <3>1, <3>2, JudgedKeep DEF CheckBundle, UInv
  <2>5. CASE RejectEnvelope \/ VerifyEvent
    <3>1. ListsFilled'
      BY <2>2, <2>5 DEF RejectEnvelope, VerifyEvent, Scanning, Found, UInv, ListsFilled
    <3>2. Progress' /\ Reported'
      BY <2>1, <2>2, <2>5
         DEF RejectEnvelope, VerifyEvent, Scanning, UInv, Progress, Reported
    <3> QED
      BY <2>3, <2>5, <3>1, <3>2, EventStep DEF UInv
  <2>6. CASE CheckChain
    <3>1. ListsFilled' /\ findings'["envelope"] = findings["envelope"]
      BY <2>2, <2>6 DEF CheckChain, Found, UInv, ListsFilled
    <3>2. Progress' /\ Reported'
      BY <2>2, <2>6 DEF CheckChain, UInv, Progress, Reported
    <3> QED
      BY <2>2, <2>3, <2>6, <3>1, <3>2, JudgedKeep DEF CheckChain, UInv
  <2>7. CASE CheckDigest
    <3>1. ListsFilled' /\ findings'["envelope"] = findings["envelope"]
      BY <2>2, <2>7 DEF CheckDigest, Found, UInv, ListsFilled
    <3>2. Progress' /\ Reported'
      BY <2>2, <2>7 DEF CheckDigest, UInv, Progress, Reported
    <3> QED
      BY <2>2, <2>3, <2>7, <3>1, <3>2, JudgedKeep DEF CheckDigest, UInv
  <2>8. CASE RecomputeFlags
    <3>1. ListsFilled' /\ Progress'
      BY <2>2, <2>8 DEF RecomputeFlags, UInv, ListsFilled, Progress
    <3>2. Reported'
      BY <2>2, <2>8
         DEF RecomputeFlags, Reported, EnvelopeClean, EnvelopeSeen, TierOf
    <3> QED
      BY <2>2, <2>3, <2>8, <3>1, <3>2, JudgedKeep DEF RecomputeFlags, UInv
  <2>9. CASE UNCHANGED vars
    <3>1. ListsFilled' /\ Progress'
      BY <2>2, <2>9 DEF vars, UInv, ListsFilled, Progress
    <3>2. Reported'
      BY <2>2, <2>9 DEF vars, UInv, Reported, EnvelopeClean, EnvelopeSeen, TierOf
    <3> QED
      BY <2>2, <2>3, <2>9, <3>1, <3>2, JudgedKeep DEF vars, UInv
  <2> QED
    BY <2>4, <2>5, <2>6, <2>7, <2>8, <2>9 DEF Next
<1> QED
  BY <1>1, <1>2, PTL DEF Spec

-----------------------------------------------------------------------------
\* The verdict and the tier of a report are those of its inputs.
THEOREM ReportsStandForInputs == Spec => []ReportIsItsInputs
<1>1. UInv => ReportIsItsInputs
  <2> SUFFICES ASSUME UInv, stage = "done" PROVE ReportIsItsInputs
    BY DEF ReportIsItsInputs
  <2> DEFINE n == Len(input.events)
  <2>1. /\ input.events \in Seq(SignedEvent) /\ n \in Nat /\ DOMAIN input.events = 1..n
        /\ cursor = n + 1 /\ 1..(cursor - 1) = DOMAIN input.events
    BY InputsAssumption DEF UInv, Given, Progress
  <2>2. EventsHold(input) <=> failures = {} /\ EnvelopeClean
    BY <2>1 DEF EventsHold, UInv, EventsJudged, EventPasses, LacksAlg, EnvelopeClean
  <2>3. EnvelopeSeen <=> input.events # <<>>
    <3>1. EnvelopeSeen <=> cursor # 1
      BY DEF EnvelopeSeen, UInv, EventsJudged
    <3>2. input.events # <<>> <=> n # 0
      BY <2>1
    <3> QED
      BY <2>1, <3>1, <3>2
  <2>4. findings["bundle"] = {} <=> input.bundle = None \/ PathsAscend(input.bundle)
    <3>1. CASE input.bundle = None
      BY <3>1 DEF UInv, ListsFilled
    <3>2. CASE input.bundle # None
      BY <3>2, BundleCheck, InputsAssumption DEF UInv, ListsFilled, Given
    <3> QED
      BY <3>1, <3>2
  <2>5. findings["chain"] = {} <=> input.chain = None \/ ChainHolds(input.chain)
    <3>1. CASE input.chain = None
      BY <3>1 DEF UInv, ListsFilled
    <3>2. CASE input.chain # None
      <4>1. /\ Len(input.chain) \in Nat /\ DOMAIN input.chain = 1..Len(input.chain)
            /\ \A i \in DOMAIN input.chain : input.chain[i].sequence \in Nat
        BY <3>2, InputsAssumption DEF UInv, Given
      <4>2. ContinuityFindings(input.chain) = {} <=> ChainHolds(input.chain)
        BY <4>1, ChainCheck
      <4> QED
        BY <3>2, <4>2 DEF UInv, ListsFilled
    <3> QED
      BY <3>1, <3>2
  <2>6. findings["canonical"] = {} <=> input.digest \in {None, "matches"}
    BY DEF UInv, ListsFilled
  <2>7. report.universal <=> /\ EventsHold(input)
                             /\ input.bundle = None \/ PathsAscend(input.bundle)
                             /\ input.chain = None \/ ChainHolds(input.chain)
                             /\ input.digest \in {None, "matches"}
    <3>1. report.universal <=>
            /\ EnvelopeClean /\ failures = {}
            /\ \A list \in {"bundle", "chain", "canonical"} : findings[list] = {}
      BY DEF UInv, Reported
    <3> QED
      BY <2>2, <2>4, <2>5, <2>6, <3>1
  <2>8. report.tier =
            IF ~EnvelopeSeen \/ ~EnvelopeClean \/ failures # {} THEN None
            ELSE TierOf(input.chain # None /\ findings["chain"] = {},
                        input.bundle # None /\ findings["bundle"] = {})
    BY DEF UInv, Reported
  <2>9. Held(input.chain, ChainHolds) <=> input.chain # None /\ findings["chain"] = {}
    BY <2>5 DEF Held
  <2>10. Held(input.bundle, PathsAscend) <=> input.bundle # None /\ findings["bundle"] = {}
    BY <2>4 DEF Held
  <2>11. report.tier =
            IF input.events = <<>> \/ ~EventsHold(input) THEN None
            ELSE IF Held(input.chain, ChainHolds)
                 THEN IF Held(input.bundle, PathsAscend) THEN "L2" ELSE "L1"
                 ELSE "L0"
    BY <2>2, <2>3, <2>8, <2>9, <2>10 DEF TierOf
  <2> QED
    BY <2>7, <2>11 DEF ReportIsItsInputs
<1> QED
  BY <1>1, UniversalInvariance, PTL

\* The command's own reading of a report, which passes over the envelope, chain and
\* canonical findings, is the report's verdict on what the command calls with.
THEOREM ExitCodesAgree == Spec => []ExitZeroMeansVerified
<1>1. UInv => ExitZeroMeansVerified
  <2> SUFFICES ASSUME UInv, stage = "done", FromCommand
               PROVE  ExitCode = 0 <=> report.universal /\ report.profile
    BY DEF ExitZeroMeansVerified
  <2>1. findings["chain"] = {} /\ findings["canonical"] = {}
    BY DEF UInv, ListsFilled, FromCommand
  <2>2. failures = {} => EnvelopeClean
    BY DEF UInv, EventsJudged, EventPasses, FromCommand, EnvelopeClean
  <2>3. report.universal <=> EnvelopeClean /\ failures = {} /\ findings["bundle"] = {}
    BY <2>1 DEF UInv, Reported
  <2>4. ExitCode = 0 <=> failures = {} /\ findings["bundle"] = {} /\ report.profile
    BY DEF ExitCode
  <2> QED
    BY <2>2, <2>3, <2>4
<1> QED
  BY <1>1, UniversalInvariance, PTL
=============================================================================
