--------------------------- MODULE CanonicalCbor ---------------------------
(***************************************************************************)
(* integrity-cbor: the canonical form of a CBOR value, its bytes, and the way *)
(* from JSON and back.  A result is a set: empty where the code returns an    *)
(* error.                                                                    *)
(***************************************************************************)
EXTENDS Integers, Sequences, FiniteSets

CONSTANT
    MaxDepth   \* how deep values nest; ciborium and serde_json bound it

-----------------------------------------------------------------------------
(* Numbers as u64. *)

Byte == 0..255

\* What is left of a number once its last bytes are dropped.
Shifted(n) ==
    LET after[dropped \in 0..8] == IF dropped = 0 THEN n ELSE after[dropped - 1] \div 256
    IN  after

Fits(n, width) == Shifted(n)[width] = 0

BigEndian(n, width) == [i \in 1..width |-> Shifted(n)[width - i] % 256]

\* encode_major_len.
MajorLen(major, n) ==
    IF n < 24 THEN <<32 * major + n>>
    ELSE IF Fits(n, 1) THEN <<32 * major + 24>> \o BigEndian(n, 1)
    ELSE IF Fits(n, 2) THEN <<32 * major + 25>> \o BigEndian(n, 2)
    ELSE IF Fits(n, 4) THEN <<32 * major + 26>> \o BigEndian(n, 4)
    ELSE <<32 * major + 27>> \o BigEndian(n, 8)

U64 == {n \in Nat : Fits(n, 8)}

\* -1 - n stands for a negative number; a signed one has a bit less for it.
Magnitude(n) == IF n < 0 THEN -1 - n ELSE n
I64 == {n \in Int : Magnitude(n) \in U64 /\ Shifted(Magnitude(n))[7] < 128}

-----------------------------------------------------------------------------
(* Values. *)

Null == [type |-> "null"]
Integer(n) == [type |-> "integer", n |-> n]
Float(f) == [type |-> "float", f |-> f]
Text(units) == [type |-> "text", units |-> units]
Bytes(units) == [type |-> "bytes", units |-> units]
Array(items) == [type |-> "array", items |-> items]
Map(entries) == [type |-> "map", entries |-> entries]
Tag(tag, item) == [type |-> "tag", tag |-> tag, item |-> item]

\* 16-bit floats; the widths above are written where these do not suffice.
FloatBytes == [zero |-> <<0, 0>>, minusZero |-> <<128, 0>>, half |-> <<56, 0>>,
               nan |-> <<126, 0>>, infinity |-> <<124, 0>>]

FloatIsCanonical(f) == f \notin {"nan", "infinity", "minusZero"}

\* Lists have a length in memory.
Lists(S) == {list \in Seq(S) : Len(list) \in U64}
Strings == Lists(Byte)

Scalars ==
    {Null} \cup [type : {"integer"}, n : {n \in Int : Magnitude(n) \in U64}]
    \cup [type : {"float"}, f : DOMAIN FloatBytes]
    \cup [type : {"text", "bytes"}, units : Strings]

Containers(parts) ==
    [type : {"array"}, items : Lists(parts)]
    \cup [type : {"map"}, entries : Lists([key : parts, value : parts])]
    \cup [type : {"tag"}, tag : U64, item : parts]

\* The values that nest no deeper than the index.
Values[depth \in 0..MaxDepth] ==
    IF depth = 0 THEN Scalars ELSE Scalars \cup Containers(Values[depth - 1])

\* The value if there is one of every part.
All(results) ==
    IF \E i \in DOMAIN results : results[i] = {} THEN {}
    ELSE {[i \in DOMAIN results |-> CHOOSE r \in results[i] : TRUE]}

-----------------------------------------------------------------------------
(* Bytes.  An operator that recurs is given the function for the parts of its *)
(* value, and the function of a depth is made from the one below.            *)

Joined(parts) ==
    LET upTo[k \in 0..Len(parts)] == IF k = 0 THEN <<>> ELSE upTo[k - 1] \o parts[k]
    IN  upTo[Len(parts)]

EncodeBy(encode, value) ==
    CASE value.type = "null" -> <<246>>
      [] value.type = "integer" -> MajorLen(IF value.n < 0 THEN 1 ELSE 0, Magnitude(value.n))
      [] value.type = "float" -> <<249>> \o FloatBytes[value.f]
      [] value.type = "bytes" -> MajorLen(2, Len(value.units)) \o value.units
      [] value.type = "text" -> MajorLen(3, Len(value.units)) \o value.units
      [] value.type = "array" ->
            MajorLen(4, Len(value.items))
            \o Joined([i \in DOMAIN value.items |-> encode[value.items[i]]])
      [] value.type = "map" ->
            MajorLen(5, Len(value.entries))
            \o Joined([i \in DOMAIN value.entries |->
                          encode[value.entries[i].key] \o encode[value.entries[i].value]])
      [] value.type = "tag" -> MajorLen(6, value.tag) \o encode[value.item]

Encodings[depth \in 0..MaxDepth] ==
    [value \in Values[depth] |->
        EncodeBy(IF depth = 0 THEN <<>> ELSE Encodings[depth - 1], value)]

Encode(value) == Encodings[MaxDepth][value]

\* Slice comparison: the first byte that differs decides, or the end of one.
BytesBefore(left, right) ==
    \/ Len(left) < Len(right) /\ SubSeq(right, 1, Len(left)) = left
    \/ \E i \in DOMAIN left \cap DOMAIN right :
          left[i] < right[i] /\ \A j \in 1..(i - 1) : left[j] = right[j]

-----------------------------------------------------------------------------
(* The canonical form. *)

\* sort_by is stable: of two entries of one key the first stays in front.
Position(keys, k) ==
    Cardinality({j \in DOMAIN keys :
                    \/ BytesBefore(keys[j], keys[k])
                    \/ keys[j] = keys[k] /\ j <= k})

SortedByKey(entries) ==
    LET keys == [i \in DOMAIN entries |-> Encode(entries[i].key)]
    IN  [p \in DOMAIN entries |->
            entries[CHOOSE k \in DOMAIN entries : Position(keys, k) = p]]

\* A slip: keys are compared as they were written.
KeysDistinctAsWritten(written, entries) ==
    \A i, j \in DOMAIN written :
        Encode(written[i].key) = Encode(written[j].key) => i = j

KeysDistinct(written, entries) ==
    \A i, j \in DOMAIN entries :
        Encode(entries[i].key) = Encode(entries[j].key) => i = j

CanonicalizeBy(canonicalize, value) ==
    CASE value.type = "array" ->
            {Array(items) : items \in
                All([i \in DOMAIN value.items |-> canonicalize[value.items[i]]])}
      [] value.type = "map" ->
            LET written == value.entries
                Entry(i) == {[key |-> key, value |-> v] :
                                key \in canonicalize[written[i].key],
                                v \in canonicalize[written[i].value]}
            IN  {Map(SortedByKey(entries)) : entries \in
                    {all \in All([i \in DOMAIN written |-> Entry(i)]) :
                        KeysDistinct(written, all)}}
      [] value.type = "tag" -> {Tag(value.tag, item) : item \in canonicalize[value.item]}
      [] value.type = "float" -> IF FloatIsCanonical(value.f) THEN {value} ELSE {}
      [] OTHER -> {value}

Canonicals[depth \in 0..MaxDepth] ==
    [value \in Values[depth] |->
        CanonicalizeBy(IF depth = 0 THEN <<>> ELSE Canonicals[depth - 1], value)]

Canonicalize(value) == Canonicals[MaxDepth][value]

-----------------------------------------------------------------------------
(* JSON, whose objects are sets of fields, each key once. *)

JsonNull == [json |-> "null"]
JsonString(units) == [json |-> "string", units |-> units]
JsonInteger(n) == [json |-> "integer", n |-> n]
JsonTooLarge == [json |-> "too large"]   \* beyond a signed 64-bit integer
JsonFloat(f) == [json |-> "float", f |-> f]
JsonArray(items) == [json |-> "array", items |-> items]
JsonObject(fields) == [json |-> "object", fields |-> fields]

JsonScalars ==
    {JsonNull, JsonTooLarge} \cup [json : {"string"}, units : Strings]
    \cup [json : {"integer"}, n : I64] \cup [json : {"float"}, f : DOMAIN FloatBytes]

Objects(parts) ==
    {fields \in SUBSET [key : Strings, value : parts] :
        /\ IsFiniteSet(fields) /\ Cardinality(fields) \in U64
        /\ \A f, g \in fields : f.key = g.key => f = g}

Jsons[depth \in 0..MaxDepth] ==
    IF depth = 0 THEN JsonScalars
    ELSE JsonScalars \cup [json : {"array"}, items : Lists(Jsons[depth - 1])]
         \cup [json : {"object"}, fields : Objects(Jsons[depth - 1])]

\* serde_json keeps a map in the order of its keys.
InOrderOfKeys(fields) ==
    [p \in 1..Cardinality(fields) |->
        CHOOSE field \in fields :
            Cardinality({other \in fields : BytesBefore(other.key, field.key)}) = p - 1]

\* A slip: map entries stay in the order of the object.
ByKeyAsGiven(entries) == entries

ByKey(entries) == SortedByKey(entries)

\* The tag of the first rule for the path.
TagAt(path, stringTags) ==
    LET rules == {i \in DOMAIN stringTags : stringTags[i].path = path}
    IN  {stringTags[i].tag : i \in {r \in rules : \A s \in rules : r <= s}}

\* json_to_cbor_value_at_path: the items of an array have its path.
FromJsonBy(fromJson, json, path, stringTags) ==
    CASE json.json = "null" -> {Null}
      [] json.json = "string" ->
            LET tags == TagAt(path, stringTags)
            IN  IF tags = {} THEN {Text(json.units)}
                ELSE {Tag(tag, Text(json.units)) : tag \in tags}
      [] json.json = "integer" -> {Integer(json.n)}
      [] json.json = "too large" -> {}
      [] json.json = "float" -> IF FloatIsCanonical(json.f) THEN {Float(json.f)} ELSE {}
      [] json.json = "array" ->
            {Array(items) : items \in
                All([i \in DOMAIN json.items |-> fromJson[json.items[i]][path]])}
      [] json.json = "object" ->
            LET fields == InOrderOfKeys(json.fields)
                Entry(field) ==
                    {[key |-> Text(field.key), value |-> v] :
                        v \in fromJson[field.value][Append(path, field.key)]}
            IN  {Map(ByKey(entries)) : entries \in
                    All([i \in DOMAIN fields |-> Entry(fields[i])])}

FromJsons(stringTags) ==
    LET at[depth \in 0..MaxDepth] ==
            [json \in Jsons[depth] |-> [path \in Seq(Strings) |->
                FromJsonBy(IF depth = 0 THEN <<>> ELSE at[depth - 1], json, path, stringTags)]]
    IN  at

\* A tag is one level more.
FromJson(json, path, stringTags) == FromJsons(stringTags)[MaxDepth - 1][json][path]

\* cbor_value_to_json; the base64 text of bytes is the bytes behind a unit no text has.
ToJsonBy(toJson, value) ==
    CASE value.type = "null" -> {JsonNull}
      [] value.type = "integer" -> IF value.n \in I64 THEN {JsonInteger(value.n)} ELSE {}
      [] value.type = "float" -> IF FloatIsCanonical(value.f) THEN {JsonFloat(value.f)} ELSE {}
      [] value.type = "text" -> {JsonString(value.units)}
      [] value.type = "bytes" -> {JsonString(<<256>> \o value.units)}
      [] value.type = "array" ->
            {JsonArray(items) : items \in
                All([i \in DOMAIN value.items |-> toJson[value.items[i]]])}
      [] value.type = "map" ->
            LET Field(entry) ==
                    IF entry.key.type # "text" THEN {}
                    ELSE {[key |-> entry.key.units, value |-> v] : v \in toJson[entry.value]}
                IsLast(fields, i) ==
                    \A j \in DOMAIN fields : fields[j].key = fields[i].key => j <= i
            IN  {JsonObject({fields[i] : i \in {k \in DOMAIN fields : IsLast(fields, k)}}) :
                 fields \in
                    All([i \in DOMAIN value.entries |-> Field(value.entries[i])])}
      [] value.type = "tag" -> IF value.tag \in {0, 32} THEN toJson[value.item] ELSE {}

ToJsons[depth \in 0..MaxDepth] ==
    [value \in Values[depth] |->
        ToJsonBy(IF depth = 0 THEN <<>> ELSE ToJsons[depth - 1], value)]

ToJson(value) == ToJsons[MaxDepth][value]
=============================================================================
