----------------------------- MODULE SerializeCodec -----------------------------
(***************************************************************************)
(* SerializeCodec, SerializeField, SerializeHeader and SerializeArrayValue:*)
(* a message is a header and fields, each a name, a type, a flag, a length *)
(* if the flag says so, and a value.                                       *)
(*                                                                         *)
(* A frame is a sequence of cells, a cell standing for the bytes of one    *)
(* thing: a length, a name, a number, one byte of data.  Of the header the *)
(* two numbers a reader uses are kept, the length byte by byte; the magic  *)
(* number, the version, the flag and the checksum are constants that       *)
(* nobody looks at.  Numbers of a value travel in the order of the host    *)
(* that writes them: both ends are taken to be of one order, Host.         *)
(***************************************************************************)
EXTENDS ByteOrder

CONSTANT Host    \* the byte order of client and server

ASSUME HostAssumption == Host \in ByteOrders

None    == <<>>
Some(m) == <<m>>
SomeIf(condition, m) == IF condition THEN Some(m) ELSE None

-----------------------------------------------------------------------------
(* The header.                                                              *)

HEADER_SIZE == 3    \* message_length in two bytes, field_count

\* to_serialized_byte_array on a host
HeaderCells(host, h) == ToNetworkByteOrder(host, h.message_length) \o <<h.field_count>>

\* from_serialized_byte_array: only its length is checked.
HeaderFrom(host, cells) ==
  SomeIf(Len(cells) >= HEADER_SIZE,
         [message_length |-> ToLocalByteOrder(host, SubSeq(cells, 1, 2)), field_count |-> cells[3]])

-----------------------------------------------------------------------------
(* Fields.                                                                  *)

Field(name, type, flag, value) ==
  [name |-> name, type |-> type, has_value_length |-> flag, value |-> value]

\* get_data_type: the types a message has a field of.
DataTypeOf ==
  [bool |-> "Bool", uint8_t |-> "UInt8", uint16_t |-> "UInt16", uint32_t |-> "UInt32",
   uint64_t |-> "UInt64", int8_t |-> "Int8", int16_t |-> "Int16", int32_t |-> "Int32",
   int64_t |-> "Int64", float |-> "Float", double |-> "Double", string |-> "String"]

\* What serialize(...) adds to a message: one field, or none.
Scalar(name, T, n)     == <<Field(name, DataTypeOf[T], FALSE, <<n>>)>>
Text(name, characters) == <<Field(name, "String", TRUE, characters)>>

\* SerializeArrayValue: the type and number of the elements, whether their lengths differ,
\* the lengths or the length, and the elements.
ArrayValue(type, count, lengths, elements) ==
  LET variable == Len(lengths) > 1
  IN  IF variable /\ Len(lengths) # count THEN <<>>
      ELSE <<type, count, variable>> \o lengths \o elements

ARRAY_HEADER == 4

\* from_serialized_byte_array: none unless all of it is there.
ArrayFrom(v) ==
  LET variable == v[3]
      n        == IF variable THEN v[2] ELSE 1
      lengths  == SubSeq(v, 4, 3 + n)
      size     == IF variable THEN FoldLeft(+, 0, lengths) ELSE lengths[1] * v[2]
  IN  IF Len(v) < ARRAY_HEADER THEN None
      ELSE IF Len(v) < 3 + n THEN None
      ELSE SomeIf(Len(v) >= 3 + n + size,
                  [type |-> v[1], count |-> v[2], variable |-> variable, lengths |-> lengths,
                   elements |-> SubSeq(v, 4 + n, 3 + n + size)])

\* serialize(const std::vector<uint8_t>&): nothing for no bytes, a number for one.
Bytes(name, data) ==
  CASE Len(data) = 0 -> <<>>
    [] Len(data) = 1 -> <<Field(name, "UInt8", FALSE, data)>>
    [] OTHER -> <<Field(name, "Array", TRUE, ArrayValue("UInt8", Len(data), <<1>>, data))>>

\* to_serialized_byte_array
FieldCells(f) ==
  <<f.name, f.type, f.has_value_length>>
  \o (IF f.has_value_length THEN <<Len(f.value)>> ELSE <<>>) \o f.value

\* The header of what is built, written in place.
FinalizeMessageHeader(host, body, count) ==
  HeaderCells(host, [message_length |-> Len(body), field_count |-> count]) \o body

\* serialize(field) for one field after the other
Build(fields) ==
  FinalizeMessageHeader(Host, FlattenSeq([i \in DOMAIN fields |-> FieldCells(fields[i])]), Len(fields))

-----------------------------------------------------------------------------
\* get_data_type_length: of what is written without a length.
TypeLength(type) == IF type \in {"String", "Array", "Bool"} THEN 0 ELSE 1

MIN_FIELD == 3

\* SerializeField::from_serialized_byte_array: none unless all of it is there.
FieldFrom(cells) ==
  LET flag   == cells[3]
      length == IF flag THEN cells[4] ELSE TypeLength(cells[2])
      start  == IF flag THEN 4 ELSE 3
  IN  IF Len(cells) < MIN_FIELD THEN None
      ELSE IF Len(cells) < start THEN None
      ELSE SomeIf(Len(cells) >= start + length,
                  Field(cells[1], cells[2], flag, SubSeq(cells, start + 1, start + length)))

\* The field that starts after the cell at, and where it ends: nothing is checked.
ReadField(cells, at) ==
  LET flag   == cells[at + 3]
      length == IF flag THEN cells[at + 4] ELSE TypeLength(cells[at + 2])
      start  == IF flag THEN at + 4 ELSE at + 3
  IN  [field |-> Field(cells[at + 1], cells[at + 2], flag, SubSeq(cells, start + 1, start + length)),
       end |-> start + length]

\* deserialize: the map from names to fields, empty if the message is not all there.
Deserialize(cells) ==
  LET Next(read, i) ==
        LET r == ReadField(cells, read.at)
        IN  [at |-> r.end,
             fields |-> [n \in DOMAIN read.fields \cup {r.field.name} |->
                           IF n \in DOMAIN read.fields THEN read.fields[n] ELSE r.field]]
      header == HeaderFrom(Host, cells)
  IN  IF header = None THEN <<>>
      ELSE IF header[1].message_length + HEADER_SIZE > Len(cells) THEN <<>>
      ELSE FoldLeft(Next, [at |-> HEADER_SIZE, fields |-> <<>>],
                    [i \in 1..header[1].field_count |-> i]).fields

\* get_parsed_field and to_value: there is such a field, and it has the type.
Reads(fields, name, T) == name \in DOMAIN fields /\ fields[name].type = DataTypeOf[T]

\* There is no such field, or it has the type.
Tolerates(fields, name, T) == name \notin DOMAIN fields \/ fields[name].type = DataTypeOf[T]

Number(fields, name, T, default) ==
  IF Reads(fields, name, T) THEN fields[name].value[1] ELSE default

\* to_string: the name of the type for what has no text is left out.
Characters(fields, name, default) ==
  IF name \in DOMAIN fields THEN fields[name].value ELSE default

\* to_array<uint8_t>: nothing for what is no array of bytes or has elements of several lengths.
ToArray(field) ==
  LET array == ArrayFrom(field.value)
  IN  IF array = None THEN <<>>
      ELSE IF array[1].type # "UInt8" \/ array[1].variable THEN <<>>
      ELSE SubSeq(array[1].elements, 1, array[1].count)

Array(fields, name) == IF name \in DOMAIN fields THEN ToArray(fields[name]) ELSE <<>>
=============================================================================
