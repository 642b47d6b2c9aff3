---------------------------- MODULE MCSignatures ----------------------------
(***************************************************************************)
(* Requests that differ from an honest one in their method, key, header,      *)
(* payload, items or signature, and keys of every length and modulus a check   *)
(* distinguishes.                                                            *)
(***************************************************************************)
EXTENDS SignatureAdapters

RsaKey(name, size, bits) ==
    [name |-> name, size |-> size, sec1 |-> FALSE, alg |-> -37, bits |-> bits]
Key(name, size, sec1, alg) ==
    [name |-> name, size |-> size, sec1 |-> sec1, alg |-> alg, bits |-> 0]

EdA == Key("edA", 32, FALSE, -8)
EdB == Key("edB", 32, FALSE, -8)
EdUnreadable == Key("edX", 32, FALSE, None)
Point == Key("point", 65, TRUE, -7)
OffCurve == Key("offCurve", 65, TRUE, None)
Odd == Key("odd", 65, FALSE, None)
Rsas == {RsaKey("rsa720", 100, 720), RsaKey("rsa2048", 270, 2048),
         RsaKey("rsa8192", 1038, 8192), RsaKey("rsa16384", 2062, 16384)}
Short == Key("short", 99, FALSE, None)
KeySet == {EdA, EdB, EdUnreadable, Point, OffCurve, Odd, Short} \cup Rsas

Raw(key) == [kind |-> "raw", key |-> key]
ByKid(kid) == [kind |-> "kid", kid |-> kid]

Both == {"ring", "web"}
Envelope(readers, alg, kid, method, payload, by, over) ==
    [readers |-> readers, alg |-> alg, kid |-> kid, method |-> method, payload |-> payload,
     signature |-> [by |-> by, over |-> <<alg, kid, method, over>>]]

Honest == Envelope(Both, -8, "k1", "ed", "p1", "edA", "p1")

\* What signers and wires may have made of one message, at most one wrong
\* value (and any absent ones) apart from what a request asks for.
Slips(envelope) ==
    Cardinality({f \in {"alg", "kid", "method", "payload"} :
                    envelope[f] \notin {Honest[f], None}})
    + IF envelope.signature.by = "edA" THEN 0 ELSE 1

Envelopes ==
    {envelope \in {Envelope(Both, alg, kid, method, payload, signature[1], signature[2]) :
        alg \in {-8, -7, None}, kid \in {"k1", "k2", None},
        method \in {"ed", "ed2", "marked", "foreign", None},
        payload \in {None, "p1", "p2"},
        signature \in {<<"edA", "p1">>, <<"edB", "p1">>, <<"edA", "p2">>}} :
        Slips(envelope) < 2}
    \* Those one decoder does not read.
    \cup {Envelope({adapter}, -8, "k1", method, None, by, "p1") :
            adapter \in Both, method \in {"ed", "marked"}, by \in {"edA", "edB"}}
    \cup {None}

EdRequests ==
    {[signed |-> "p1", envelope |-> envelope, method |-> method, ref |-> ref] :
        envelope \in Envelopes, method \in {"ed", "foreign"},
        ref \in {ByKid("k1"), Raw(EdA)}}

\* Every method, with an envelope made for it and every key.
MethodAlgs == [method \in {"ed", "ec", "rsa", "pqc", "unknown"} |->
    CASE method = "ed" -> -8 [] method = "ec" -> -7 [] method = "rsa" -> -37
      [] method = "pqc" -> None [] OTHER -> -36]
MethodRequests ==
    {[signed |-> "p1", method |-> method, ref |-> Raw(key),
      envelope |-> Envelope(Both, MethodAlgs[method], "k1", method, None, key.name, "p1")] :
        method \in DOMAIN MethodAlgs, key \in KeySet}

EntryOf(id, alg, status) == [id |-> id, alg |-> alg, status |-> status]
Row(id, status) == EntryOf(id, MethodAlgs[id], status)
Registry(entries) == [version |-> "1", entries |-> entries]
RegistrySet ==
    {Registry(<<Row("ed", "registered"), Row("ec", "registered"),
                Row("rsa", "registered"), Row("pqc", "registered"),
                EntryOf("foreign", -8, "registered"),
                Row("ed", "deprecated")>>),
     Registry(<<Row("ed", "deprecated"), Row("unknown", "registered"),
                Row("ed", "registered")>>),
     Registry(<<Row("ed", "withdrawn")>>)}

ResolverSet == {[kid \in {"k1"} |-> EdA], [kid \in {} |-> EdA]}

InsertSet == {<<"k1", EdB>>, <<"k2", EdA>>}

MCInserts == InsertSet
MCKidSet == {"k1", "k2"}
MCKeys == KeySet
MCMethods == {"ed", "ed2", "ec", "rsa", "pqc", "unknown", "marked", "foreign"}
MCOwn == MCMethods \ {"marked", "foreign"}
\* "marked" is "ed" behind U+FEFF, and no longer below the prefix.
MCWithoutMark == [method \in MCMethods |-> IF method = "marked" THEN "ed" ELSE method]
MCRequests == EdRequests \cup MethodRequests
MCRegistries == RegistrySet
MCResolvers == ResolverSet
=============================================================================
