------------------------------ MODULE Erasure ------------------------------
(***************************************************************************)
(* finalize_erasure_evidence (trellis/erasure.rs): the pass that runs after  *)
(* the event loop over the erasure payloads of the admitted events.  chain   *)
(* is the set of admitted ledger indices.                                    *)
(***************************************************************************)
EXTENDS Records

Evidence(in, chain) == {i \in chain : in.ledger[i].erasure # None}

\* The evidence rows that name the same destroyed kid.
KidGroup(in, chain, i) ==
    {j \in Evidence(in, chain) : in.ledger[j].erasure.kid = in.ledger[i].erasure.kid}

\* Step 2: a kid in both registry maps counts as a signing key.
RegistryClass(in, kid) == IF in.registry[kid] # None THEN "signing" ELSE in.nonSigning[kid]

RegistryClassMismatch(in, i) ==
    LET erasure == in.ledger[i].erasure
    IN  RegistryClass(in, erasure.kid) \notin {None, erasure.keyClass}

DestroyedAts(in, chain) ==
    [i \in Evidence(in, chain) |-> in.ledger[i].erasure.destroyedAt]
DestroyedClasses(in, chain) ==
    [i \in Evidence(in, chain) |-> in.ledger[i].erasure.keyClass]

\* Step 5 found the rows of i's kid in conflict: step 8 skips them.
Conflicted(in, chain, i) ==
    \E j \in KidGroup(in, chain, i) :
        \/ in.ledger[j].erasure.destroyedAt # in.ledger[i].erasure.destroyedAt
        \/ in.ledger[j].erasure.keyClass # in.ledger[i].erasure.keyClass

\* A slip the runs must notice: step 8 sweeps the instant of destruction too.
AfterwardsInclusive(in, chain, i) ==
    {j \in chain :
        /\ ~Conflicted(in, chain, i)
        /\ in.ledger[i].erasure.keyClass \in {"signing", "subject"}
        /\ in.ledger[j].authoredAt >= in.ledger[i].erasure.destroyedAt}

\* Step 8: the events authored after the destruction that i's evidence covers.
Afterwards(in, chain, i) ==
    {j \in chain :
        /\ ~Conflicted(in, chain, i)
        /\ in.ledger[i].erasure.keyClass \in {"signing", "subject"}
        /\ in.ledger[j].authoredAt > in.ledger[i].erasure.destroyedAt}

PostErasureUses(in, chain, i) ==
    {j \in Afterwards(in, chain, i) : in.ledger[j].kid = in.ledger[i].erasure.kid}

PostErasureWraps(in, chain, i) ==
    {j \in Afterwards(in, chain, i) : in.ledger[i].erasure.kid \in in.ledger[j].wraps}

\* A slip: the sweep counts the wraps but pushes no failure for them.
SweepFailuresUsesOnly(in, chain, i) ==
    {Failure("PostErasureUse", in.ledger[j].hash) : j \in PostErasureUses(in, chain, i)}

SweepFailures(in, chain, i) ==
         {Failure("PostErasureUse", in.ledger[j].hash) : j \in PostErasureUses(in, chain, i)}
    \cup {Failure("PostErasureWrap", in.ledger[j].hash) : j \in PostErasureWraps(in, chain, i)}

ErasureFailuresAt(in, chain, i) ==
    LET hash == in.ledger[i].hash
    IN       Flag(RegistryClassMismatch(in, i), "ErasureKeyClassRegistryMismatch", hash)
        \cup Flag(FirstDisagreement(DestroyedAts(in, chain), KidGroup(in, chain, i), i),
                  "ErasureDestroyedAtConflict", hash)
        \cup Flag(FirstDisagreement(DestroyedClasses(in, chain), KidGroup(in, chain, i), i),
                  "ErasureKeyClassPayloadConflict", hash)
        \cup SweepFailures(in, chain, i)
        \cup Flag(~in.ledger[i].erasure.wellFormed, "ErasureAttestationSignatureInvalid", None)

ErasureFailures(in, chain) ==
    UNION {ErasureFailuresAt(in, chain, i) : i \in Evidence(in, chain)}

\* uses and wraps are the sets whose sizes the outcome reports.
ErasureOutcomes(in, chain) ==
    {[event |-> i, signatureVerified |-> in.ledger[i].erasure.wellFormed,
      uses |-> PostErasureUses(in, chain, i), wraps |-> PostErasureWraps(in, chain, i)]
     : i \in Evidence(in, chain)}

ErasureOutcomeOk(o) == o.signatureVerified /\ o.uses = {} /\ o.wraps = {}
=============================================================================
