---------------------------- MODULE MCLedgerCalls ----------------------------
(***************************************************************************)
(* Registries of up to three entries, many about one kid, and the ledgers     *)
(* that tell apart which of them is in force.                                *)
(***************************************************************************)
EXTENDS LedgerCalls, MCBase

At(form, time) == [form |-> form, at |-> time]
Absent == At("absent", 0)

Plain == [isMap |-> TRUE, kind |-> "absent", kid |-> "k1", pubkey |-> "K1", status |-> 0,
          validFrom |-> Absent, validTo |-> Absent,
          attributes |-> "map", subjectValidTo |-> Absent]

\* Entries the reader admits, most of them about k1.
Admitted == <<
    Plain,
    [Plain EXCEPT !.kind = "signing", !.pubkey = "K2"],
    [Plain EXCEPT !.status = 3, !.validTo = At("pair", 2)],
    [Plain EXCEPT !.status = 3],
    [Plain EXCEPT !.kid = "k2", !.pubkey = "K2", !.validFrom = At("seconds", 1)],
    [Plain EXCEPT !.kind = "wrap"],
    [Plain EXCEPT !.kind = "scope", !.kid = "k2", !.pubkey = None],
    [Plain EXCEPT !.kind = "extension", !.attributes = "absent", !.status = None],
    [Plain EXCEPT !.kind = "subject", !.subjectValidTo = At("pair", 2)] >>

\* Entries it refuses, typed and untyped, in pairs that differ in one field only.
RefusedForms == <<
    [Plain EXCEPT !.validTo = At("seconds", 2)],
    [Plain EXCEPT !.validTo = At("other", 0)],
    [Plain EXCEPT !.kind = "subject", !.attributes = "absent"],
    [Plain EXCEPT !.pubkey = None],
    [Plain EXCEPT !.status = None],
    [Plain EXCEPT !.isMap = FALSE],
    [Plain EXCEPT !.kind = "untyped"],
    [Plain EXCEPT !.kid = None],
    [Plain EXCEPT !.validTo = At("negative", 0)],
    [Plain EXCEPT !.validTo = At("nanos", 0)],
    [Plain EXCEPT !.validTo = At("misshapen", 0)],
    [Plain EXCEPT !.validFrom = At("negative", 0)],
    [Plain EXCEPT !.validFrom = At("nanos", 0), !.validTo = At("seconds", 2)],
    [Plain EXCEPT !.validFrom = At("other", 0)],
    [Plain EXCEPT !.kind = "recovery", !.attributes = "other"],
    [Plain EXCEPT !.kind = "subject", !.subjectValidTo = At("seconds", 2)],
    [Plain EXCEPT !.kind = "subject", !.subjectValidTo = At("other", 2)],
    [Plain EXCEPT !.kind = "wrap", !.subjectValidTo = At("nanos", 2)],
    [Plain EXCEPT !.kind = "subject", !.subjectValidTo = At("misshapen", 2)] >>

Entries == Admitted \o RefusedForms

\* Lists of three entries use the admitted ones and three refusals.
Documents ==
    UNION {[1..n -> DOMAIN Entries] : n \in 0..2} \cup [1..3 -> 1..(Len(Admitted) + 3)]

First(kid, signer, at) == [Event("g", 0, None, at, "i1", "content") EXCEPT
                              !.kid = kid, !.signer = signer]
Second(kid, signer) == [Event("a", 1, "g", 3, "i2", "content") EXCEPT
                           !.kid = kid, !.signer = signer]

MCLedgers == {
    None, <<>>,
    <<First("k1", "K1", 1)>>, <<First("k1", "K2", 1)>>, <<First("k1", "K1", 3)>>,
    <<First("k1", "K1", 1), Second("k2", "K2")>>,
    <<[First("k1", "K1", 1) EXCEPT !.malformed = TRUE]>> }

Tampered(document, ledger) ==
    [entry |-> "tampered", key |-> None, document |-> document, ledger |-> ledger,
     initialPosture |-> None, declaration |-> None, admittedTypes |-> {}]
Single(key, ledger) ==
    [entry |-> "single", key |-> key, document |-> None, ledger |-> ledger,
     initialPosture |-> None, declaration |-> None, admittedTypes |-> {}]

TamperedCalls == {"tampered"} \X (Documents \cup {None}) \X MCLedgers
SingleCalls == {"single"} \X {"K1", "K2"} \X {l \in MCLedgers : l = None \/ Len(l) = 1}

CallSet == TamperedCalls \cup SingleCalls
RequestTable ==
    [c \in CallSet |->
        IF c[1] = "single" THEN Single(c[2], c[3])
        ELSE Tampered(IF c[2] = None THEN None ELSE <<>> \o [k \in DOMAIN c[2] |-> Entries[c[2][k]]],
                      c[3])]

\* TLC keeps the values of the definitions these name.
MCCalls == CallSet
MCRequests == RequestTable
=============================================================================
