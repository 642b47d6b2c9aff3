------------------------- MODULE PrimitiveQuestions -------------------------
(***************************************************************************)
(* The encodings, as questions with one answer: what the canonical form of a   *)
(* CBOR value is, and what comes back of JSON.                                *)
(***************************************************************************)
EXTENDS PrimitiveCalls, Sequences

CONSTANTS
    MaxDepth,   \* how deep values nest
    Questions   \* what is asked: encodings and conversions

C == INSTANCE CanonicalCbor

\* What is asked is of the types of Rust and no deeper than its decoders go.
ASSUME QuestionsAssumption ==
    /\ MaxDepth \in Nat \ {0}
    /\ \A q \in Questions :
          \/ /\ q.kind = "encoding"
             /\ q.left \in C!Values[MaxDepth] /\ q.right \in C!Values[MaxDepth]
          \/ /\ q.kind = "conversion" /\ q.json \in C!Jsons[MaxDepth - 1]
             /\ q.stringTags \in Seq([path : Seq(C!Strings), tag : C!U64])

VARIABLES question, answer

askVars == <<question, answer>>

AskInit == question = None /\ answer = None

Answer(q) ==
    CASE q.kind = "encoding" ->
            [left |-> C!Canonicalize(q.left), right |-> C!Canonicalize(q.right)]
      [] q.kind = "conversion" -> [cbor |-> C!FromJson(q.json, <<>>, q.stringTags)]

Ask ==
    /\ question = None
    /\ \E q \in Questions : question' = q /\ answer' = Answer(q)
    /\ UNCHANGED calls

AskSpec == calls = 0 /\ AskInit /\ [][Ask]_<<calls, askVars>>

Asked(kind) == question # None /\ question.kind = kind

-----------------------------------------------------------------------------
(* What a CBOR value says: its maps are sets of entries.                     *)

MeaningBy(meaning, value) ==
    CASE value.type = "array" ->
            C!Array([i \in DOMAIN value.items |-> meaning[value.items[i]]])
      [] value.type = "map" ->
            C!Map({[key |-> meaning[value.entries[i].key],
                    value |-> meaning[value.entries[i].value]] : i \in DOMAIN value.entries})
      [] value.type = "tag" -> C!Tag(value.tag, meaning[value.item])
      [] OTHER -> value

Meanings[depth \in 0..MaxDepth] ==
    [value \in C!Values[depth] |->
        MeaningBy(IF depth = 0 THEN <<>> ELSE Meanings[depth - 1], value)]

Meaning(value) == Meanings[MaxDepth][value]

\* It says it once: no map has two entries of one key, and no float two encodings.
UnambiguousBy(unambiguous, value) ==
    CASE value.type = "array" -> \A i \in DOMAIN value.items : unambiguous[value.items[i]]
      [] value.type = "map" ->
            \A i \in DOMAIN value.entries :
                /\ unambiguous[value.entries[i].key] /\ unambiguous[value.entries[i].value]
                /\ \A j \in DOMAIN value.entries :
                      Meaning(value.entries[i].key) = Meaning(value.entries[j].key) => i = j
      [] value.type = "tag" -> unambiguous[value.item]
      [] value.type = "float" -> value.f \in {"zero", "half"}
      [] OTHER -> TRUE

Unambiguities[depth \in 0..MaxDepth] ==
    [value \in C!Values[depth] |->
        UnambiguousBy(IF depth = 0 THEN <<>> ELSE Unambiguities[depth - 1], value)]

Unambiguous(value) == Unambiguities[MaxDepth][value]

-----------------------------------------------------------------------------
(* Properties. *)

\* Two values have the same canonical bytes exactly when they say the same, however
\* their maps, and the maps that are keys of their maps, were ordered; a value that says
\* something twice has none; and a canonical form is its own (canonicalize_cbor_value,
\* encode_canonical_cbor_value).
OneMeaningOneEncoding ==
    Asked("encoding") =>
        /\ \A left \in answer.left, right \in answer.right :
              C!Encode(left) = C!Encode(right) <=> Meaning(question.left) = Meaning(question.right)
        /\ answer.left # {} <=> Unambiguous(question.left)
        /\ \A left \in answer.left : C!Canonicalize(left) = {left}

\* JSON that becomes CBOR becomes canonical CBOR, whatever the order of its keys by
\* their text is, and the inspection view shows the same JSON again, tagged strings and
\* strings in arrays of a tagged path included; it shows nothing only where a rule has
\* a tag it does not know (json_to_dcbor_bytes against dcbor_bytes_to_json).
JsonSurvives ==
    Asked("conversion") =>
        \A value \in answer.cbor :
            /\ C!Canonicalize(value) = {value}
            /\ C!ToJson(value) \subseteq {question.json}
            /\ (\A i \in DOMAIN question.stringTags : question.stringTags[i].tag \in {0, 32}) =>
                  C!ToJson(value) = {question.json}
=============================================================================
