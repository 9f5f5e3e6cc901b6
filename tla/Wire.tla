-------------------------------- MODULE Wire --------------------------------
(***************************************************************************)
(* The MessagePack encodings of log_gen.go, hlc_gen.go, types_gen.go and   *)
(* transport_gen.go: which fields of a struct are written, how many bytes  *)
(* they take, what Msgsize announces, and what decoding leaves in the      *)
(* struct that it decodes into.  Strings and byte slices are their         *)
(* lengths; structs have the names that their fields have on the wire.     *)
(***************************************************************************)
EXTENDS Integers, FiniteSets

CONSTANTS Nil,    \* a nil slice or pointer; an empty slice is 0
          Error   \* what a decoder returns that fails

Handshake == [ls : Nat, at : Nat]

ASSUME WireAssumption == Nil \notin Nat /\ Nil \notin Handshake

Int32 == {i \in Int : -32768 <= i \div 65536 /\ i \div 65536 <= 32767}

Timestamp == [p : Int, l : Int32]

LogEntry == [s : Nat, t : Timestamp, ba : Int, o : 0..4, k : Nat, n : Nat,
             v : Nat \cup {Nil}, d : Int, ttl : Int]

ZeroEntry == [s |-> 0, t |-> [p |-> 0, l |-> 0], ba |-> 0, o |-> 0, k |-> 0, n |-> 0,
              v |-> Nil, d |-> 0, ttl |-> 0]

(***************************************************************************)
(* The library's encodings: the bytes of a value, with its header.         *)
(***************************************************************************)
UintLen(u) ==
  IF u <= 127 THEN 1 ELSE IF u <= 255 THEN 2 ELSE IF u <= 65535 THEN 3
  ELSE IF u \div 65536 <= 65535 THEN 5 ELSE 9

IntLen(i) ==
  IF -32 <= i /\ i <= 127 THEN 1 ELSE IF -128 <= i /\ i <= 127 THEN 2
  ELSE IF -32768 <= i /\ i <= 32767 THEN 3
  ELSE IF i \in Int32 THEN 5 ELSE 9

StringLen(n) ==
  n + (IF n <= 31 THEN 1 ELSE IF n <= 255 THEN 2 ELSE IF n <= 65535 THEN 3 ELSE 5)

BytesLen(n) == n + (IF n <= 255 THEN 2 ELSE IF n <= 65535 THEN 3 ELSE 5)

(* What Msgsize counts for each: the most that the encoding may take.      *)
IntSize == 9            \* Int64Size, Uint64Size, Float64Size
Int32Size == 5
ByteSize == 2
PrefixSize == 5         \* StringPrefixSize, BytesPrefixSize

(***************************************************************************)
(* MarshalMsg: a map header with the number of fields, and the fields that *)
(* are not omitted; each is its name and its value.                        *)
(***************************************************************************)
Marshalled(z, omitted) ==
  [size |-> Cardinality(DOMAIN z) - Cardinality(omitted),
   fields |-> [f \in DOMAIN z \ omitted |-> z[f]]]

OmitIf(f, cond) == IF cond THEN {f} ELSE {}

(* Timestamp and MsgType                                                   *)
TimestampLen(t) == 3 + IntLen(t.p) + 2 + IntLen(t.l)
TimestampSize == 1 + 2 + IntSize + 2 + Int32Size

OmittedOfEntry(z) ==
  OmitIf("n", z.n = 0) \cup OmitIf("v", z.v = Nil) \cup OmitIf("d", z.d = 0)
    \cup OmitIf("ttl", z.ttl = 0)

MarshalEntry(z) == Marshalled(z, OmittedOfEntry(z))

(* len(out)                                                                *)
EntryLen(z) ==
  1 + 2 + UintLen(z.s) + 2 + TimestampLen(z.t) + 3 + IntLen(z.ba) + 2 + UintLen(z.o)
    + 2 + StringLen(z.k)
    + (IF z.n = 0 THEN 0 ELSE 2 + StringLen(z.n))
    + (IF z.v = Nil THEN 0 ELSE 2 + BytesLen(z.v))
    + (IF z.d = 0 THEN 0 ELSE 2 + 9)
    + (IF z.ttl = 0 THEN 0 ELSE 4 + IntLen(z.ttl))

(* A mutation of Msgsize: the name of a field of three letters counts as   *)
(* one of one letter, and numbers as the shortest.                         *)
MsgsizeShort(z) ==
  1 + 2 + 1 + 2 + 1 + 2 + 1 + 2 + 1 + 2 + PrefixSize + z.k

(* LogEntry.Msgsize, which counts every field.                             *)
Msgsize(z) ==
  1 + 2 + IntSize + 2 + TimestampSize + 3 + IntSize + 2 + ByteSize
    + 2 + PrefixSize + z.k + 2 + PrefixSize + z.n
    + 2 + PrefixSize + (IF z.v = Nil THEN 0 ELSE z.v)
    + 2 + IntSize + 4 + IntSize

(* Batch and Handshake.  A batch's entries are marshalled already.         *)
ZeroHandshake == [ls |-> 0, at |-> 0]
ZeroBatch == [f |-> 0, e |-> Nil, h |-> Nil]

MarshalHandshake(h) == Marshalled(h, OmitIf("at", h.at = 0))

MarshalBatch(b) ==
  Marshalled(IF b.h = Nil THEN b ELSE [b EXCEPT !.h = MarshalHandshake(b.h)],
             OmitIf("h", b.h = Nil))

(***************************************************************************)
(* UnmarshalMsg and DecodeMsg: as many fields as the header says are read  *)
(* and replace those of z, the struct that is decoded into; a field that   *)
(* is not sent stays as it is.  Bytes that are missing are an error, and   *)
(* ones too many are taken for the next message.                           *)
(***************************************************************************)
Decodes(m) == m.size = Cardinality(DOMAIN m.fields)

Decoded(z, m) ==
  IF Decodes(m)
  THEN [f \in DOMAIN z |-> IF f \in DOMAIN m.fields THEN m.fields[f] ELSE z[f]]
  ELSE Error

DecodeHandshake(h, m) == Decoded(IF h = Nil THEN ZeroHandshake ELSE h, m)

DecodeBatch(b, m) ==
  LET z == Decoded(b, m)
  IN  IF Decodes(m) /\ "h" \in DOMAIN m.fields
      THEN [z EXCEPT !.h = DecodeHandshake(b.h, m.fields.h)]
      ELSE z

UnmarshalEntry(z, m) == Decoded(z, m)
=============================================================================
