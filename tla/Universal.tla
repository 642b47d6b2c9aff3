----------------------------- MODULE Universal -----------------------------
(***************************************************************************)
(* verify_universal (crates/integrity-verify/src/lib.rs): the checks every    *)
(* profile shares, folded into one report.  An action is one of its checks or *)
(* one iteration of the loop over the events.  The events, the chain rows, the *)
(* bundle paths and the digest are separate inputs, each of them optional but  *)
(* the events.                                                              *)
(***************************************************************************)
EXTENDS ChainContinuity

CONSTANTS
    Payloads,  \* payloads of events
    Calls,     \* the calls that are verified
    Inputs     \* the arguments of each: VerifyBundleInput and the registry

VARIABLES
    call,      \* the call; never changes
    input,     \* its arguments; never change
    stage,     \* the next check
    cursor,    \* index of the next event
    findings,  \* the lists bundle_, envelope_, chain_ and canonical_findings, as sets
    failures,  \* universal_failures, as [kind, event]
    results,   \* profile_results, as [event, verified]
    report     \* the roll-up, None until it is computed

callVars == <<call, input>>
vars == <<callVars, stage, cursor, findings, failures, results, report>>

\* An envelope: whether it decodes, the header labels it carries, the payload it
\* embeds, the payload and the key its caller supplies, and what was signed by whom.
SignedEvent == [decodes : BOOLEAN, labels : SUBSET {"alg", "kid", "suite_id"},
                payload : Payloads \cup {None}, supplied : Payloads \cup {None},
                publicKey : {"K1", "K2", None}, signer : {"K1", "K2", None}, signed : Payloads]

ASSUME InputsAssumption ==
    \A c \in Calls :
        LET in == Inputs[c]
        IN  /\ in.events \in Seq(SignedEvent)
            /\ in.bundle # None => in.bundle \in Seq(Nat)
            /\ in.chain # None =>
                   /\ Len(in.chain) \in Nat /\ DOMAIN in.chain = 1..Len(in.chain)
                   /\ \A i \in DOMAIN in.chain : in.chain[i].sequence \in Nat

\* A path is a number, by its place in the order of paths; 0 is the empty one.
\* The digest check is decided: its algorithm is unknown, or the digests differ or not.
Init ==
    /\ call \in Calls /\ input = Inputs[call]
    /\ stage = "bundle" /\ cursor = 1
    /\ findings = [list \in {"bundle", "envelope", "chain", "canonical"} |-> {}]
    /\ failures = {} /\ results = {} /\ report = None

Found(list, found) == findings' = [findings EXCEPT ![list] = @ \cup found]

-----------------------------------------------------------------------------
(* BundleStructuralCheck::run.                                                *)

\* The last path before the i-th that is not empty; 0 when there is none.
PreviousPath(paths, i) ==
    LET named == {j \in 1..(i - 1) : paths[j] # 0}
    IN  IF named = {} THEN 0 ELSE paths[CHOOSE j \in named : \A m \in named : m <= j]

BundleFindings(paths) ==
    {[kind |-> "path_empty", entry |-> i] : i \in {j \in DOMAIN paths : paths[j] = 0}}
    \cup {[kind |-> "path_sort_violation", entry |-> i] :
             i \in {j \in DOMAIN paths : paths[j] # 0 /\ paths[j] < PreviousPath(paths, j)}}
    \cup {[kind |-> "path_duplicate", entry |-> i] :
             i \in {j \in DOMAIN paths : paths[j] # 0 /\ paths[j] = PreviousPath(paths, j)}}

CheckBundle ==
    /\ stage = "bundle" /\ stage' = "events"
    /\ Found("bundle", IF input.bundle = None THEN {} ELSE BundleFindings(input.bundle))
    /\ UNCHANGED <<callVars, cursor, failures, results, report>>

-----------------------------------------------------------------------------
(* The loop over the events.                                                  *)

Scanning == stage = "events" /\ cursor \in DOMAIN input.events
Failure(kind) == [kind |-> kind, event |-> cursor]

\* resolve_payload: None when nothing was embedded or supplied, and when both were
\* and differ.
Resolved(e) ==
    IF e.payload # None THEN IF e.supplied \in {None, e.payload} THEN e.payload ELSE None
    ELSE e.supplied

\* CoseEnvelopeCheck: a missing alg is a failure, the others advisories.
EnvelopeFindings(e) == {label \in {"alg", "kid", "suite_id"} : label \notin e.labels}

\* Without a key or a payload the signature is passed over.
SignatureFailures(e) ==
    IF e.publicKey # None /\ Resolved(e) # None
       /\ ~(e.signer = e.publicKey /\ e.signed = Resolved(e))
    THEN {Failure("SignatureInvalid")} ELSE {}

\* A slip: an event no verifier is registered for goes unreported.
DispatchFailuresSilent == {}

DispatchFailures ==
    IF input.verifier = None THEN {Failure("MissingProfileVerifier")} ELSE {}

\* A profile verifier decides on the payload, empty bytes when there is none.
DispatchResults(e) ==
    IF input.verifier = None THEN {}
    ELSE {[event |-> cursor, verified |-> input.verifier[Resolved(e)]]}

RejectEnvelope ==
    LET e == input.events[cursor]
    IN  /\ Scanning /\ ~e.decodes
        /\ failures' = failures \cup {Failure("MalformedEnvelope")}
        /\ cursor' = cursor + 1
        /\ UNCHANGED <<callVars, stage, findings, results, report>>

VerifyEvent ==
    LET e == input.events[cursor]
    IN  /\ Scanning /\ e.decodes
        /\ Found("envelope", EnvelopeFindings(e))
        /\ failures' = failures \cup SignatureFailures(e) \cup DispatchFailures
        /\ results' = results \cup DispatchResults(e)
        /\ cursor' = cursor + 1
        /\ UNCHANGED <<callVars, stage, report>>

-----------------------------------------------------------------------------
(* The chain, the digest, the roll-up.                                        *)

CheckChain ==
    /\ stage = "events" /\ cursor = Len(input.events) + 1 /\ stage' = "canonical"
    /\ Found("chain", IF input.chain = None THEN {} ELSE ContinuityFindings(input.chain))
    /\ UNCHANGED <<callVars, cursor, failures, results, report>>

CheckDigest ==
    /\ stage = "canonical" /\ stage' = "fold"
    /\ Found("canonical", IF input.digest \in {None, "matches"} THEN {} ELSE {input.digest})
    /\ UNCHANGED <<callVars, cursor, failures, results, report>>

EnvelopeClean == "alg" \notin findings["envelope"]
EnvelopeSeen == findings["envelope"] # {} \/ results # {} \/ failures # {}

\* A slip: the bundle lifts the tier without the chain.
TierOfBundle(chainHeld, bundleHeld) ==
    IF bundleHeld THEN "L2" ELSE IF chainHeld THEN "L1" ELSE "L0"

TierOf(chainHeld, bundleHeld) ==
    IF ~chainHeld THEN "L0" ELSE IF bundleHeld THEN "L2" ELSE "L1"

\* recompute_flags and derive_substrate_tier.
RecomputeFlags ==
    /\ stage = "fold" /\ stage' = "done"
    /\ report' =
        [universal |-> /\ EnvelopeClean /\ failures = {}
                       /\ \A list \in {"bundle", "chain", "canonical"} : findings[list] = {},
         profile |-> \A r \in results : r.verified,
         tier |-> IF ~EnvelopeSeen \/ ~EnvelopeClean \/ failures # {} THEN None
                  ELSE TierOf(input.chain # None /\ findings["chain"] = {},
                              input.bundle # None /\ findings["bundle"] = {})]
    /\ UNCHANGED <<callVars, cursor, findings, failures, results>>

Next ==
    \/ CheckBundle \/ RejectEnvelope \/ VerifyEvent
    \/ CheckChain \/ CheckDigest \/ RecomputeFlags

Spec == Init /\ [][Next]_vars

\* The exit code of `verify` (integrity-verify-cli/src/cli.rs): its own reading of
\* the report, which passes over the envelope findings.
ExitCode ==
    IF failures # {} \/ findings["bundle"] # {} \/ ~report.profile THEN 1 ELSE 0

\* What the command calls with: no keys, no payloads, no chain, no digest, the paths
\* of the archive, and the registry of main.rs, which holds no verifier.
FromCommand ==
    /\ input.verifier = None /\ input.chain = None /\ input.digest = None
    /\ input.bundle # None
    /\ \A i \in DOMAIN input.events :
           input.events[i].publicKey = None /\ input.events[i].supplied = None

-----------------------------------------------------------------------------
(* What each part of a report stands for, stated without an order.            *)

PathsAscend(paths) ==
    /\ \A i \in DOMAIN paths : paths[i] # 0
    /\ \A i, j \in DOMAIN paths : i < j => paths[i] < paths[j]

ChainHolds(rows) ==
    /\ \A i, j \in DOMAIN rows : i < j => rows[i].sequence < rows[j].sequence
    /\ \A i \in DOMAIN rows :
           rows[i].prevHash = IF i = 1 THEN None ELSE rows[i - 1].hash

\* The events on their own: all decode, name an algorithm, have a profile to check
\* them, and no signature that could be checked is wrong.
EventsHold(in) ==
    \A i \in DOMAIN in.events :
        LET e == in.events[i]
        IN  /\ e.decodes /\ "alg" \in e.labels /\ in.verifier # None
            /\ e.publicKey # None /\ Resolved(e) # None =>
                   e.signer = e.publicKey /\ e.signed = Resolved(e)

Held(part, Holds(_)) == part # None /\ Holds(part)

\* The verdict and the tier of a report are those of its inputs: the fold over lists
\* filled in different checks loses none of them, and the adjacent comparisons of
\* chain rows and paths amount to an order over all of them.
ReportIsItsInputs ==
    stage = "done" =>
        /\ report.universal <=> /\ EventsHold(input)
                                /\ input.bundle = None \/ PathsAscend(input.bundle)
                                /\ input.chain = None \/ ChainHolds(input.chain)
                                /\ input.digest \in {None, "matches"}
        /\ report.tier =
            IF input.events = <<>> \/ ~EventsHold(input) THEN None
            ELSE IF Held(input.chain, ChainHolds)
                 THEN IF Held(input.bundle, PathsAscend) THEN "L2" ELSE "L1"
                 ELSE "L0"

\* The shipped command exits with 0 exactly on a verified report, as its usage text
\* says (cli.rs:67), though its condition does not look at every list.
ExitZeroMeansVerified ==
    stage = "done" /\ FromCommand => (ExitCode = 0 <=> report.universal /\ report.profile)

\* Where a key was supplied the signature was verified: a profile verifier may rely on
\* it (profile.rs:72-73), and a payload supplied beside an embedded one is ignored
\* (report.rs:68-69).
KeyedEventsWereVerified ==
    stage = "done" /\ report.universal =>
        \A i \in DOMAIN input.events :
            LET e == input.events[i]
            IN  e.publicKey # None => e.signer = e.publicKey /\ e.signed \in {e.payload, e.supplied}
=============================================================================
