------------------------------- MODULE Framing -------------------------------
(***************************************************************************)
(* The bytes around an encoded record field: the Registry header, the      *)
(* message indexes of Confluent's Protobuf framing and the type reference  *)
(* of Apicurio's, as the composer writes and as the consumer reads them.   *)
(*                                                                         *)
(* Data is the record of its magic byte, the schema ID behind it and the   *)
(* payload, a sequence of bytes; a magic byte that is not 0 stands for     *)
(* data whose first bytes are no header but part of the payload.  A        *)
(* message's name is the sequence of its simple names, outermost first,    *)
(* and a simple name is one byte.                                          *)
(*                                                                         *)
(* A Protobuf file is the record of its package, a sequence of simple      *)
(* names, and of its messages, a function from index paths to names.       *)
(***************************************************************************)
EXTENDS Integers, Sequences, SequencesExt

MAGIC == 0
MAX_MESSAGE_INDEXES == 100000
VARINT_MAX_BYTES == 10
TYPE_REF_NAME_TAG == 10

\* More than the header of five bytes, the first of them the magic byte.
HasRegistryHeader(data) == data.magic = MAGIC /\ data.payload # <<>>
Framed(id, payload) == [magic |-> MAGIC, id |-> id, payload |-> payload]
Unframed(payload) == [magic |-> 1, id |-> 0, payload |-> payload]

-----------------------------------------------------------------------------
\* Variable-length integers: seven bits a byte, the lowest first.

Varint(value) ==
  LET bytes[v \in Nat] == IF v < 128 THEN <<v>> ELSE <<(v % 128) + 128>> \o bytes[v \div 128]
  IN  bytes[value]

Unread == [ok |-> FALSE, value |-> 0, offset |-> 0]

VarintAt(data, offset, end) ==
  LET value[i \in offset + 1 .. end + 1] ==
        IF i > end THEN 0 ELSE (data[i] % 128) + 128 * value[i + 1]
  IN  [ok |-> TRUE, value |-> value[offset + 1], offset |-> end]

\* The integer behind `offset` bytes, and the offset after it; ten bytes at most.
ReadVarint(data, offset) ==
  LET last == {i \in offset + 1 .. Len(data) : i <= offset + VARINT_MAX_BYTES /\ data[i] < 128}
  IN  IF last = {} THEN Unread ELSE VarintAt(data, offset, Min(last))

Zigzag(value) == IF value >= 0 THEN 2 * value ELSE -2 * value - 1
Unzigzag(value) == IF value % 2 = 0 THEN value \div 2 ELSE -((value + 1) \div 2)

ReadMessageIndex(data, offset) ==
  LET read == ReadVarint(data, offset)
  IN  [ok |-> read.ok, value |-> Unzigzag(read.value), offset |-> read.offset]

-----------------------------------------------------------------------------
\* Confluent: the path of indexes to the message; the first message is one 0.

MessageIndexBytes(indexes) ==
  IF indexes = <<0>> THEN <<0>>
  ELSE FlattenSeq([i \in 1 .. Len(indexes) + 1 |->
                     Varint(Zigzag((<<Len(indexes)>> \o indexes)[i]))])

NoIndexes == [ok |-> FALSE, indexes |-> <<>>, rest |-> <<>>]

\* The indexes of which `size` was read, one after the other.
ReadIndexes(data, size) ==
  LET read[n \in 0 .. size.value] ==
        IF n = 0 THEN [ok |-> TRUE, indexes |-> <<>>, offset |-> size.offset]
        ELSE LET before == read[n - 1]
                 index == ReadMessageIndex(data, before.offset)
             IN  [ok      |-> before.ok /\ index.ok,
                  indexes |-> Append(before.indexes, index.value),
                  offset  |-> index.offset]
  IN  read[size.value]

IndexesOf(data, all) ==
  IF all.ok /\ \A i \in DOMAIN all.indexes : all.indexes[i] >= 0
  THEN [ok |-> TRUE, indexes |-> all.indexes, rest |-> SubSeq(data, all.offset + 1, Len(data))]
  ELSE NoIndexes

IndexesBehind(data, size) ==
  IF ~size.ok \/ size.value < 0 \/ size.value > MAX_MESSAGE_INDEXES THEN NoIndexes
  ELSE IF size.value = 0
  THEN [ok |-> TRUE, indexes |-> <<0>>, rest |-> SubSeq(data, size.offset + 1, Len(data))]
  ELSE IndexesOf(data, ReadIndexes(data, size))

ParseMessageIndexes(data) == IndexesBehind(data, ReadMessageIndex(data, 0))

\* The name of the message at an index path, with the file's package.
HasMessage(file, indexes) ==
  indexes # <<>> /\ \A n \in 1 .. Len(indexes) : SubSeq(indexes, 1, n) \in DOMAIN file.messages
MessageName(file, indexes) ==
  file.package \o [n \in DOMAIN indexes |-> file.messages[SubSeq(indexes, 1, n)]]

\* The index path of a message that the file itself declares.
Declares(file, name) == \E indexes \in DOMAIN file.messages : MessageName(file, indexes) = name
MessageIndexes(file, name) ==
  CHOOSE indexes \in DOMAIN file.messages : MessageName(file, indexes) = name

\* What protoc accepts: a nested message has its outer ones, and the indexes,
\* the nesting and the lengths of names are those of Protobuf.
INT32_MAX == 2147483647
NAME_BYTES == 0 .. 127
WellFormed(file) ==
  /\ file.package \in Seq(NAME_BYTES) /\ Len(file.package) <= INT32_MAX
  /\ \A indexes \in DOMAIN file.messages :
       /\ indexes \in Seq(0 .. INT32_MAX) /\ Len(indexes) \in 1 .. MAX_MESSAGE_INDEXES
       /\ \A n \in 1 .. Len(indexes) : SubSeq(indexes, 1, n) \in DOMAIN file.messages
       /\ file.messages[indexes] \in NAME_BYTES

-----------------------------------------------------------------------------
\* Apicurio: an optional reference with the message's name within its package.

WithoutPackage(file, name) ==
  IF IsPrefix(file.package, name) THEN SubSeq(name, Len(file.package) + 1, Len(name)) ELSE name

TypeRef(name) ==
  LET reference == <<TYPE_REF_NAME_TAG>> \o Varint(Len(name)) \o name
  IN  Varint(Len(reference)) \o reference

\* Bytes with their number before them, at least `least`.
NotDelimited == [ok |-> FALSE, bytes |-> <<>>, rest |-> <<>>]
Delimited(data, size, least) ==
  IF ~size.ok \/ size.value < least \/ size.offset + size.value > Len(data) THEN NotDelimited
  ELSE [ok    |-> TRUE,
        bytes |-> SubSeq(data, size.offset + 1, size.offset + size.value),
        rest  |-> SubSeq(data, size.offset + size.value + 1, Len(data))]

NameIn(tag, ref) ==
  IF ~tag.ok \/ tag.value # TYPE_REF_NAME_TAG THEN NotDelimited
  ELSE Delimited(ref, ReadVarint(ref, tag.offset), 0)

\* No name, and the payload as it is, where it does not start with a reference.
Referenced(payload, ref, name) ==
  IF ref.ok /\ name.ok /\ \A i \in DOMAIN name.bytes : name.bytes[i] < 128
  THEN [named |-> TRUE, name |-> name.bytes, rest |-> ref.rest]
  ELSE [named |-> FALSE, name |-> <<>>, rest |-> payload]

ParseTypeRef(payload) ==
  LET ref == Delimited(payload, ReadVarint(payload, 0), 1)
  IN  Referenced(payload, ref, NameIn(ReadVarint(ref.bytes, 0), ref.bytes))

\* The message a name finds in the pool of a file and what it imports: by its
\* full name, else by its name within the package of the file.
NoMessage == [found |-> FALSE, name |-> <<>>]
FindMessage(pool, file, name) ==
  IF name \in pool THEN [found |-> TRUE, name |-> name]
  ELSE IF file.package \o name \in pool THEN [found |-> TRUE, name |-> file.package \o name]
  ELSE NoMessage

FirstMessage(pool, file) ==
  IF <<0>> \in DOMAIN file.messages THEN FindMessage(pool, file, <<file.messages[<<0>>]>>)
  ELSE NoMessage
=============================================================================
