----------------------------- MODULE Primitives -----------------------------
(***************************************************************************)
(* What the suite does before and beside verification: callers that wrap keys, *)
(* tasks that seal, co-signers of a response, envelopes and archives on their  *)
(* way, the questions of the stateless primitives, the command line.  Callers  *)
(* of one kind work at the same time; across kinds they share nothing in this  *)
(* code, so a behaviour follows one kind.                                    *)
(***************************************************************************)
EXTENDS KeyWrap, Sealing, CoSigning, CoseCodec, ZipBundle, MerkleQuestions,
        PrimitiveQuestions, CommandLine

VARIABLE scene   \* the kind followed; never changes

vars == <<scene, calls, wrapVars, sealVars, coVars, wireVars, bundleVars, proofVars, askVars, commandVars>>

Init ==
    /\ scene \in {"wrapping", "sealing", "co-signing", "enveloping", "bundling", "proving",
              "asking", "commanding"}
    /\ calls = 0
    /\ WrapInit /\ SealInit /\ CoInit /\ WireInit /\ BundleInit /\ ProofInit /\ AskInit
    /\ CommandInit
    \* What is not followed starts in one way.
    /\ scene # "sealing" => held = CHOOSE key \in SigningKeys : TRUE
    /\ scene # "co-signing" => response.answers = CHOOSE answers \in Answers : TRUE

WrapKeys ==
    /\ scene = "wrapping"
    /\ WrapNext
    /\ UNCHANGED <<scene, sealVars, coVars, wireVars, bundleVars, proofVars, askVars, commandVars>>

Seal ==
    /\ scene = "sealing"
    /\ SealNext
    /\ UNCHANGED <<scene, wrapVars, coVars, wireVars, bundleVars, proofVars, askVars, commandVars>>

CoSign ==
    /\ scene = "co-signing"
    /\ CoNext
    /\ UNCHANGED <<scene, wrapVars, sealVars, wireVars, bundleVars, proofVars, askVars, commandVars>>

Envelop ==
    /\ scene = "enveloping" /\ WireStep
    /\ UNCHANGED <<scene, wrapVars, sealVars, coVars, bundleVars, proofVars, askVars, commandVars>>

PackBundle ==
    /\ scene = "bundling" /\ BundleStep
    /\ UNCHANGED <<scene, wrapVars, sealVars, coVars, wireVars, proofVars, askVars, commandVars>>

AskForProof ==
    /\ scene = "proving" /\ ProofStep
    /\ UNCHANGED <<scene, wrapVars, sealVars, coVars, wireVars, bundleVars, askVars, commandVars>>

AskPrimitive ==
    /\ scene = "asking" /\ Ask
    /\ UNCHANGED <<scene, wrapVars, sealVars, coVars, wireVars, bundleVars, proofVars, commandVars>>

RunCommandLine ==
    /\ scene = "commanding" /\ CommandStep
    /\ UNCHANGED <<scene, wrapVars, sealVars, coVars, wireVars, bundleVars, proofVars, askVars>>

Next ==
    \/ WrapKeys \/ Seal \/ CoSign \/ Envelop \/ PackBundle
    \/ AskForProof \/ AskPrimitive \/ RunCommandLine

Spec == Init /\ [][Next]_vars

\* A call in progress is not suspended for good: wrap_dek runs on its caller's thread,
\* a future that is awaited is polled again.
Fairness ==
    /\ \A w \in Wrappers :
          WF_vars(scene = "wrapping" /\ WrapProceeds(w)
                  /\ UNCHANGED <<scene, sealVars, coVars, wireVars, bundleVars, proofVars, askVars,
                                 commandVars>>)
    /\ \A s \in Sealers :
          WF_vars(scene = "sealing" /\ AsyncSign(s)
                  /\ UNCHANGED <<scene, wrapVars, coVars, wireVars, bundleVars, proofVars, askVars,
                                 commandVars>>)

FairSpec == Spec /\ Fairness

-----------------------------------------------------------------------------
(* Properties. *)

\* Every call of wrap_dek and of default_async_sign comes back, whatever the source
\* of randomness does and whoever else is at work.
CallsReturn ==
    /\ \A w \in Wrappers : Running(w) ~> ~Running(w)
    /\ \A s \in Sealers : sealing[s] # None ~> sealing[s] = None
=============================================================================
