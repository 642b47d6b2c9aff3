------------------------------- MODULE MCBase -------------------------------
(***************************************************************************)
(* The registry, the event every sample is a variant of, and the three ways  *)
(* the code calls the event-set verifier, shared by the model-checking        *)
(* modules.  Text and digests are strings; a hash may be named by an event    *)
(* only if the event it belongs to comes earlier in the sample list, as no    *)
(* producer can embed the digest of bytes it has not written yet.             *)
(***************************************************************************)
EXTENDS Integers, Records

MCKids == {"k1", "k2", "late", "revoked", "broken", "subject", "nobody"}
MCKeys == {"K1", "K2", "KL", "KR", "KB"}
MCScopes == {"s1", "s2"}

\* The contents of the ledgers over numbered digests.
EventContents == {1, 2, 3, 5, 6}

RegistryEntry(key, status, from, to) ==
    [key |-> key, status |-> status, validFrom |-> from, validTo |-> to]

\* "revoked" has a valid_to of 2, "broken" is revoked without one, "late" is
\* rotating in from 2 on.
MCRegistry ==
    [kid \in MCKids |->
        CASE kid = "k1" -> RegistryEntry("K1", 0, None, None)
          [] kid = "k2" -> RegistryEntry("K2", 0, None, None)
          [] kid = "late" -> RegistryEntry("KL", 1, 2, None)
          [] kid = "revoked" -> RegistryEntry("KR", 3, None, 2)
          [] kid = "broken" -> RegistryEntry("KB", 3, None, None)
          [] OTHER -> None]

MCNonSigning == [kid \in MCKids |-> IF kid \in {"subject", "k2"} THEN "subject" ELSE None]

\* An event of k1 at the given place; its content and author hashes agree.
Event(hash, sequence, prev, at, key, content) ==
    [kid |-> "k1", suite |-> TRUE, signer |-> "K1", malformed |-> FALSE, scope |-> "s1",
     sequence |-> sequence, prevHash |-> prev, hash |-> hash, idempotencyKey |-> key,
     keyLength |-> 8, authoredAt |-> at, eventType |-> "event", classification |-> "plain",
     contentHash |-> content, inline |-> content,
     authorHash |-> content, authorPreimage |-> content, wraps |-> {}, subject |-> None,
     principal |-> None, response |-> None, responseMalformed |-> FALSE,
     transition |-> None, erasure |-> None, certificate |-> None, attestation |-> None,
     binding |-> None, supersedes |-> None]

\* A sample of a producer's chain: Chained gives it its place.
Sample(at) == Event(0, 0, None, at, 0, 1)

\* verify_single_event: a registry that holds the event's own kid, made active.
SingleEvent(e) ==
    [ledger |-> <<e>>,
     registry |-> [kid \in MCKids |-> IF kid = e.kid THEN RegistryEntry("K1", 0, None, None) ELSE None],
     nonSigning |-> [kid \in MCKids |-> None], initialPosture |-> None, declaration |-> None,
     classifyTamper |-> FALSE, expectedScope |-> None, blobs |-> None, admittedTypes |-> {}]

\* verify_tampered_ledger: refuses an empty ledger before it calls.
TamperedLedger(ledger, initial, declaration) ==
    [ledger |-> ledger, registry |-> MCRegistry, nonSigning |-> MCNonSigning,
     initialPosture |-> initial, declaration |-> declaration,
     classifyTamper |-> TRUE, expectedScope |-> None, blobs |-> None,
     admittedTypes |-> {"admitted"}]

\* verify_export_zip: the manifest's scope and the archive's payload blobs.
Export(ledger, scope, blobs) ==
    [ledger |-> ledger, registry |-> MCRegistry, nonSigning |-> MCNonSigning,
     initialPosture |-> None, declaration |-> None,
     classifyTamper |-> FALSE, expectedScope |-> scope, blobs |-> blobs,
     admittedTypes |-> {"admitted"}]

\* A call is named by its entry point and the sample numbers of its ledger.
LedgersOver(numbers, lengths) == UNION {[1..n -> numbers] : n \in lengths}
LedgerOf(samples, numbers) == <<>> \o [k \in DOMAIN numbers |-> samples[numbers[k]]]

\* A producer's chain over numbered samples: event k gets sequence k - 1, the
\* digest of event k - 1, an identity of its own, and a digest that stands for
\* its whole history: the numbers so far, read as the digits of one number.
RECURSIVE Digest(_, _, _)
Digest(base, numbers, k) ==
    IF k = 0 THEN 0 ELSE base * Digest(base, numbers, k - 1) + numbers[k]

Base(samples) == Len(samples) + 1

\* Where a sample names the digest of an event it holds the event's place in the
\* ledger; the digest of what is not an earlier event is 0, which no event has.
DigestAt(base, numbers, k, p) == IF p \in 1..(k - 1) THEN Digest(base, numbers, p) ELSE 0

Chained(samples, numbers) ==
    <<>> \o [k \in DOMAIN numbers |->
        LET e == samples[numbers[k]]
            base == Base(samples)
            at(p) == DigestAt(base, numbers, k, p)
        IN  [e EXCEPT
              !.sequence = k - 1, !.hash = Digest(base, numbers, k), !.idempotencyKey = k,
              !.prevHash = IF k = 1 THEN None ELSE Digest(base, numbers, k - 1),
              !.certificate = IF @ = None THEN None
                  ELSE [@ EXCEPT !.signingEvents = [n \in DOMAIN @ |-> at(@[n])]],
              !.attestation = IF @ = None THEN None
                  ELSE [@ EXCEPT !.eventHash = at(@),
                                 !.identityRef = IF @ = None THEN None ELSE at(@)]]]

\* The digests of the chains of at most the given length.
DigestsUpTo(samples, length) == 0..(Base(samples) ^ length)

\* The digests an event embeds.
Embedded(e) ==
    ({e.prevHash}
     \cup (IF e.certificate = None THEN {}
           ELSE {e.certificate.signingEvents[k] : k \in DOMAIN e.certificate.signingEvents})
     \cup (IF e.attestation = None THEN {}
           ELSE {e.attestation.eventHash, e.attestation.identityRef})) \ {None}

\* Every sample embeds only digests of samples before it.
Producible(samples) ==
    \A i, j \in DOMAIN samples :
        samples[j].hash \in Embedded(samples[i]) =>
            \E m \in 1..(i - 1) : samples[m].hash = samples[j].hash
=============================================================================
