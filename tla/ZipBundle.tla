----------------------------- MODULE ZipBundle -----------------------------
(***************************************************************************)
(* The archives of integrity-bundle.  Bytes are cells: a byte of a path or a  *)
(* payload, or the at-th byte of a header, which stands for the whole header  *)
(* of which a reader that finds its first byte reads the fields.             *)
(***************************************************************************)
EXTENDS Naturals, Sequences, FiniteSets, PrimitiveCalls

CONSTANTS
    MaxU16, MaxU32   \* what the fields of an archive can hold

LocalLen == 30
CentralLen == 46
EocdLen == 22

Cell(header, at) == [of |-> header, at |-> at]
Header(header, length) == [i \in 1..length |-> Cell(header, i)]
Byte(value) == Cell([signature |-> "byte", value |-> value], 1)

\* A checksum collides with no other on the payloads there are.
Crc32(payload) == payload

BundleEntry(path, payload) == [path |-> path, bytes |-> payload]

\* A path is a sequence of code units.
IsAscii(path) == \A i \in DOMAIN path : path[i] < 128

\* str::cmp: lexicographic.
Before(left, right) ==
    \/ Len(left) < Len(right) /\ SubSeq(right, 1, Len(left)) = left
    \/ \E i \in DOMAIN left \cap DOMAIN right :
          left[i] < right[i] /\ \A j \in 1..(i - 1) : left[j] = right[j]

-----------------------------------------------------------------------------
(* Bundle::to_zip_bytes: the archive, or none for an error. *)

\* A slip: entries go out as they were added.
SortedAsAdded(entries) == entries

\* sort_by on the path is stable: of two entries of one path the first stays in front.
Position(entries, k) ==
    Cardinality({j \in DOMAIN entries :
                    \/ Before(entries[j].path, entries[k].path)
                    \/ entries[j].path = entries[k].path /\ j <= k})

Sorted(entries) ==
    [p \in DOMAIN entries |->
        entries[CHOOSE k \in DOMAIN entries : Position(entries, k) = p]]

LocalHeader(entry) ==
    [signature |-> "local", flags |-> 0, method |-> 0, crc |-> Crc32(entry.bytes),
     compressed |-> Len(entry.bytes), uncompressed |-> Len(entry.bytes),
     nameLength |-> Len(entry.path), extraLength |-> 0, time |-> 0]

CentralHeader(entry, offset) ==
    [signature |-> "central", flags |-> 0, method |-> 0, crc |-> Crc32(entry.bytes),
     compressed |-> Len(entry.bytes), uncompressed |-> Len(entry.bytes),
     nameLength |-> Len(entry.path), extraLength |-> 0, commentLength |-> 0,
     offset |-> offset, time |-> 0]

NameCells(path) == [i \in DOMAIN path |-> Byte(path[i])]

LocalSection(entry) ==
    Header(LocalHeader(entry), LocalLen) \o NameCells(entry.path) \o entry.bytes

CentralSection(entry, offset) ==
    Header(CentralHeader(entry, offset), CentralLen) \o NameCells(entry.path)

\* The loop over the entries appends to both sections; the k-th entry's local section
\* starts where those before it end.
LocalSections(entries) ==
    LET after[k \in 0..Len(entries)] ==
            IF k = 0 THEN <<>> ELSE after[k - 1] \o LocalSection(entries[k])
    IN  after

OffsetOf(entries, k) == Len(LocalSections(entries)[k - 1])

CentralSections(entries) ==
    LET after[k \in 0..Len(entries)] ==
            IF k = 0 THEN <<>>
            ELSE after[k - 1] \o CentralSection(entries[k], OffsetOf(entries, k))
    IN  after

Eocd(count, size, offset) ==
    [signature |-> "eocd", disk |-> 0, centralDisk |-> 0, onDisk |-> count, total |-> count,
     size |-> size, offset |-> offset, commentLength |-> 0]

PathsDistinct(entries) ==
    \A i, j \in DOMAIN entries : entries[i].path = entries[j].path => i = j

ToZipBytes(entries) ==
    LET sorted == Sorted(entries)
        locals == LocalSections(sorted)[Len(sorted)]
        centrals == CentralSections(sorted)[Len(sorted)]
    IN  IF /\ PathsDistinct(entries)
           /\ \A k \in DOMAIN entries :
                 /\ IsAscii(entries[k].path) /\ Len(entries[k].path) <= MaxU16
                 /\ Len(entries[k].bytes) <= MaxU32
           /\ Len(entries) <= MaxU16 /\ Len(locals) <= MaxU32 /\ Len(centrals) <= MaxU32
        THEN {locals \o centrals
              \o Header(Eocd(Len(sorted), Len(centrals), Len(locals)), EocdLen)}
        ELSE {}

-----------------------------------------------------------------------------
(* read_stored_zip: the entries, or none for an error.  Offsets count from 0. *)

\* A header of the kind starts at the offset, and all of it is there.
Stands(bytes, offset, signature, length) ==
    /\ offset + length <= Len(bytes)
    /\ bytes[offset + 1].of.signature = signature /\ bytes[offset + 1].at = 1

HeaderAt(bytes, offset) == bytes[offset + 1].of

Slice(bytes, offset, length) == SubSeq(bytes, offset + 1, offset + length)

\* A slip: the two headers are compared, the payload with neither.
ChecksumTaken(payload, central) == TRUE

ChecksumFits(payload, central) == Crc32(payload) = central.crc

\* read_local_file_payload, for the central header that points here.
LocalPayload(bytes, central, name) ==
    LET offset == central.offset
        local == HeaderAt(bytes, offset)
        start == offset + LocalLen + Len(name)
        payload == Slice(bytes, start, central.compressed)
    IN  IF /\ Stands(bytes, offset, "local", LocalLen)
           /\ local.flags = 0 /\ local.method = 0
           /\ local.crc = central.crc
           /\ local.compressed = central.compressed
           /\ local.uncompressed = central.uncompressed
           /\ local.extraLength = 0 /\ local.nameLength = Len(name)
           /\ start <= Len(bytes) /\ Slice(bytes, offset + LocalLen, Len(name)) = name
           /\ start + central.compressed <= Len(bytes)
           /\ ChecksumFits(payload, central)
        THEN {payload} ELSE {}

PathOf(name) == [i \in DOMAIN name |-> name[i].of.value]

\* One turn of the loop over the central directory: the entry that is read and where
\* the next header starts.
CentralEntry(bytes, cursor) ==
    LET central == HeaderAt(bytes, cursor)
        next == cursor + CentralLen + central.nameLength
        name == Slice(bytes, cursor + CentralLen, central.nameLength)
    IN  IF ~Stands(bytes, cursor, "central", CentralLen) THEN {}
        ELSE IF /\ central.flags = 0 /\ central.method = 0
                /\ central.compressed = central.uncompressed
                /\ central.extraLength = 0 /\ central.commentLength = 0
                /\ next <= Len(bytes)
                /\ \A i \in DOMAIN name : name[i].of.signature = "byte"
                /\ IsAscii(PathOf(name))
             THEN {[next |-> next, entry |-> BundleEntry(PathOf(name), payload)] :
                      payload \in LocalPayload(bytes, central, name)}
             ELSE {}

CentralEntries(bytes, start, count) ==
    LET read[k \in 0..count] ==
            IF k = 0 THEN {[next |-> start, entries |-> <<>>]}
            ELSE UNION {{[next |-> turn.next, entries |-> Append(before.entries, turn.entry)] :
                            turn \in CentralEntry(bytes, before.next)} : before \in read[k - 1]}
    IN  read[count]

\* find_eocd: the last place the signature stands with room for the record.
EocdOffsets(bytes) == {i \in 0..Len(bytes) : Stands(bytes, i, "eocd", EocdLen)}

ReadStoredZip(bytes) ==
    LET found == EocdOffsets(bytes)
        at == CHOOSE i \in found : \A j \in found : j <= i
        eocd == HeaderAt(bytes, at)
        end == eocd.offset + eocd.size
    IN  IF found = {} THEN {}
        ELSE IF /\ eocd.disk = 0 /\ eocd.centralDisk = 0 /\ eocd.onDisk = eocd.total
                /\ eocd.commentLength = 0
                /\ eocd.offset < Len(bytes) /\ end <= at
             THEN {directory.entries : directory \in
                     {d \in CentralEntries(bytes, eocd.offset, eocd.total) :
                         d.next = end}}
             ELSE {}

-----------------------------------------------------------------------------
(* A bundle from the first add_entry to what a reader makes of the archive     *)
(* once it has been cut, extended or altered on the way.                      *)

CONSTANTS
    Entries,      \* what may be added
    MaxEntries,   \* how much of it
    FieldValues        \* what an altered field may hold

\* Paths are texts, payloads strings of bytes, fields numbers.
ASSUME EntriesAssumption ==
    /\ MaxU16 \in Nat /\ MaxU32 \in Nat /\ MaxEntries \in Nat /\ FieldValues \subseteq Nat
    /\ \A e \in Entries :
          e \in [path : Seq(Nat), bytes : Seq({e.bytes[i] : i \in DOMAIN e.bytes})]

VARIABLES
    bundle,   \* the entries in the order they were added
    edit      \* what happened to the archive; None while it is whole

bundleVars == <<bundle, edit>>

BundleInit == bundle = <<>> /\ edit = None

AddEntry(entry) ==
    /\ edit = None /\ Len(bundle) < MaxEntries
    /\ bundle' = Append(bundle, entry)
    /\ UNCHANGED <<calls, edit>>

\* Every header at its first byte.
HeadersIn(bytes, signature) ==
    {i \in DOMAIN bytes : bytes[i].of.signature = signature /\ bytes[i].at = 1}

FieldsOf(signature) ==
    CASE signature = "local" ->
            {"flags", "method", "crc", "compressed", "uncompressed", "nameLength",
             "extraLength", "time"}
      [] signature = "central" ->
            {"flags", "method", "crc", "compressed", "uncompressed", "nameLength",
             "extraLength", "commentLength", "offset", "time"}
      [] signature = "eocd" ->
            {"disk", "centralDisk", "onDisk", "total", "size", "offset", "commentLength"}
      [] OTHER -> {"value"}

LengthOf(signature) ==
    CASE signature = "local" -> LocalLen [] signature = "central" -> CentralLen
      [] signature = "eocd" -> EocdLen [] OTHER -> 1

\* The k-th cell starts a header or is a byte: one field of it holds another value.
FieldEdits(bytes) ==
    (UNION {{[kind |-> "field", cell |-> k, field |-> field, value |-> value] :
                field \in FieldsOf(bytes[k].of.signature) \ {"crc"}, value \in FieldValues}
            : k \in {i \in DOMAIN bytes : bytes[i].at = 1}})
    \cup {[kind |-> "checksum", cell |-> k] :
             k \in HeadersIn(bytes, "local") \cup HeadersIn(bytes, "central")}

\* Cut short, extended, or preceded by the archive of another bundle.
ShapeEdits(bytes) ==
    {[kind |-> "cut", length |-> n] : n \in 0..(Len(bytes) - 1)}
    \cup {[kind |-> "extended"], [kind |-> "indented"]}
    \cup {[kind |-> "preceded", by |-> entry] :
             entry \in {e \in Entries : ToZipBytes(<<e>>) # {}}}

SetField(bytes, k, header) ==
    [i \in DOMAIN bytes |->
        IF i \in k..(k + LengthOf(bytes[k].of.signature) - 1)
        THEN [bytes[i] EXCEPT !.of = header] ELSE bytes[i]]

Edited(bytes, e) ==
    CASE e = None -> bytes
      [] e.kind = "field" ->
            SetField(bytes, e.cell, [bytes[e.cell].of EXCEPT ![e.field] = e.value])
      [] e.kind = "checksum" ->
            SetField(bytes, e.cell, [bytes[e.cell].of EXCEPT !.crc = Append(@, Byte(0))])
      [] e.kind = "cut" -> SubSeq(bytes, 1, e.length)
      [] e.kind = "extended" -> Append(bytes, Byte(0))
      [] e.kind = "indented" -> <<Byte(0)>> \o bytes
      [] e.kind = "preceded" -> (CHOOSE b \in ToZipBytes(<<e.by>>) : TRUE) \o bytes

\* The archive of the bundle, as it reached the reader; none when there is none.
Received == {Edited(bytes, edit) : bytes \in ToZipBytes(bundle)}

AlterArchive ==
    /\ edit = None
    /\ \E bytes \in ToZipBytes(bundle) : \E e \in FieldEdits(bytes) \cup ShapeEdits(bytes) :
          edit' = e
    /\ UNCHANGED <<calls, bundle>>

BundleStep == (\E entry \in Entries : AddEntry(entry)) \/ AlterArchive

BundleSpec == calls = 0 /\ BundleInit /\ [][BundleStep]_<<calls, bundleVars>>

-----------------------------------------------------------------------------

Contents(entries) == {entries[k] : k \in DOMAIN entries}

\* Every order in which what is in the bundle could have been added packs to the
\* same archive or is refused alike, and the archive reads back as exactly what was
\* added, in the strict order of the paths (to_zip_bytes against read_stored_zip).
PackedIsRead ==
    edit = None =>
        LET archive == ToZipBytes(bundle)
            places == DOMAIN bundle
        IN  /\ \A order \in [places -> places] :
                  (\A k \in places : \E j \in places : order[j] = k) =>
                      ToZipBytes([k \in places |-> bundle[order[k]]]) = archive
            /\ \A bytes \in archive :
                  \E entries \in ReadStoredZip(bytes) :
                      /\ Contents(entries) = Contents(bundle) /\ Len(entries) = Len(bundle)
                      /\ \A i, j \in DOMAIN entries :
                            i < j => Before(entries[i].path, entries[j].path)

\* One edit on the way never makes the reader return something that was not packed: an
\* archive with one field or byte altered, cut, extended or indented is refused or
\* reads as the same entries, also when a payload is an archive itself; one that another
\* archive precedes is never read as a mixture of the two, only - offsets count from the
\* first byte - as all of the one or all of the other (read_stored_zip,
\* read_local_file_payload, find_eocd).  It is not so of every payload: one that repeats the
\* section another entry has in the directory is not told from it.
EditsAreCaught ==
    edit # None =>
        \A bytes \in Received : \A entries \in ReadStoredZip(bytes) :
            \/ entries = Sorted(bundle)
            \/ edit.kind = "preceded" /\ entries = <<edit.by>>
=============================================================================
