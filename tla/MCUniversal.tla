---------------------------- MODULE MCUniversal ----------------------------
(***************************************************************************)
(* Inputs of the universal phase: two events of every kind with few other     *)
(* parts, and every short chain and list of paths with few events.           *)
(***************************************************************************)
EXTENDS Universal

Signed == [decodes |-> TRUE, labels |-> {"alg", "kid", "suite_id"}, payload |-> "p",
           supplied |-> None, publicKey |-> "K1", signer |-> "K1", signed |-> "p"]
Keyless == [Signed EXCEPT !.publicKey = None]

Events == {
    Signed, Keyless,
    [Signed EXCEPT !.decodes = FALSE], [Keyless EXCEPT !.labels = {"alg"}],
    [Keyless EXCEPT !.labels = {"kid", "suite_id"}],
    [Signed EXCEPT !.publicKey = "K2"], [Signed EXCEPT !.signer = None],
    [Signed EXCEPT !.signed = "q"], [Signed EXCEPT !.supplied = "p"],
    [Signed EXCEPT !.supplied = "q"], [Signed EXCEPT !.payload = None],
    [Signed EXCEPT !.payload = None, !.supplied = "p"],
    [Signed EXCEPT !.payload = None, !.supplied = "q"] }
FewEvents == {<<>>, <<Signed>>, <<[Signed EXCEPT !.signer = None]>>}

EventLists == {<<>>} \cup {<<e>> : e \in Events} \cup (Events \X Events)

\* Rows of one event each; a link names an event of the chain, or none.
Rows == [sequence : 0..2, hash : {"g", "a"}, prevHash : {None, "g", "a"}]
ChainLists == {None, <<>>} \cup {<<r>> : r \in Rows} \cup (Rows \X Rows)
LongChains == Rows \X Rows \X Rows
FewChains == {None, <<>>, <<[sequence |-> 0, hash |-> "g", prevHash |-> None]>>,
              <<[sequence |-> 1, hash |-> "a", prevHash |-> "g"]>>}

PathLists == {None, <<>>} \cup [1..1 -> 0..2] \cup [1..3 -> 0..2]
FewPaths == {None, <<1, 2>>, <<2, 1>>}

Verifiers == {None, [p \in {"p", "q", None} |-> p = "p"]}
Digests == {None, "matches", "canonical_digest_mismatch", "digest_algorithm_unsupported"}

MCPayloads == {"p", "q"}
CallSet ==
    (EventLists \X FewChains \X FewPaths \X Digests \X Verifiers)
    \cup (FewEvents \X ChainLists \X FewPaths \X {None, "matches"} \X Verifiers)
    \cup ({<<Keyless>>} \X LongChains \X {None} \X {None} \X Verifiers)
    \cup (FewEvents \X FewChains \X PathLists \X {None, "matches"} \X Verifiers)
InputOf(c) ==
    [events |-> c[1], chain |-> c[2], bundle |-> c[3], digest |-> c[4], verifier |-> c[5]]
InputSet == [c \in CallSet |-> InputOf(c)]

\* TLC keeps the values of the definitions these name.
MCCalls == CallSet
MCInputs == InputSet
=============================================================================
