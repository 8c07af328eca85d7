------------------------------- MODULE Codec -------------------------------
(***************************************************************************)
(* How the web client turns values into bytes and back                      *)
(* (frontend/src/lib/convert.ts: MxGenericType): fromValue and astype for    *)
(* one value, and unpack, a loop over the fields of records whose structure  *)
(* the caller names.  The server lays records out one after the other        *)
(* (Packed); a generic value has its size in front.                          *)
(*                                                                          *)
(* Bytes are 0 .. ByteBase - 1; the sizes of texts and of the size in front  *)
(* are constants.  A text is a sequence of characters, a character of the    *)
(* sequence of bytes that encodes it; 64-bit integers and floats behave as   *)
(* the widths that are here.                                                *)
(***************************************************************************)
EXTENDS Integers, Sequences, FiniteSets, SequencesExt

CONSTANTS
  ByteBase,     (* 256                                                      *)
  SizeBytes,    (* 8, of the size in front of a generic value               *)
  TextBytes,    (* 512, of a text of fixed size                             *)
  Characters,   (* characters: sequences of bytes that are not 0            *)
  Structures,   (* the structures that are unpacked: sequences of types     *)
  MaxRecords    (* bound: records in an answer                              *)

VARIABLES
  structure, records,        (* what the server packed, and how             *)
  data,                      (* the bytes received                          *)
  packoffset, field, element, output,   (* the loop of unpack               *)
  unpacking,                 (* "yes", "no" or "thrown"                     *)
  sample                     (* a value, what it was made into and read as  *)

vars_x == <<structure, records, data, packoffset, field, element, output, unpacking, sample>>

Bytes == 0 .. ByteBase - 1
Width == [uint8 |-> 1, uint16 |-> 2, int8 |-> 1, int16 |-> 2, bool |-> 1]
Signed == {"int8", "int16"}
Span(t) == ByteBase ^ Width[t]

(* A typed array takes a number modulo its width; little end first.          *)
NumberBytes(n, w) == [i \in 1 .. w |-> (n \div ByteBase ^ (i - 1)) % ByteBase]
Number(bs) == FoldLeft(LAMBDA n, b : n * ByteBase + b, 0, Reverse(bs))
AsSigned(n, span) == IF 2 * n >= span THEN n - span ELSE n
ReadNumber(bs, t) == IF t \in Signed THEN AsSigned(Number(bs), Span(t)) ELSE Number(bs)

AllTexts == UNION {[1 .. n -> Characters] : n \in 0 .. 2}
Encoded(s) == FlattenSeq(s)
Padded(bs, n) == bs \o [i \in 1 .. n - Len(bs) |-> 0]
(* split('\0').shift(): up to the first 0, or all there is                   *)
UpToZero(bs) ==
  SubSeq(bs, 1, FoldLeft(LAMBDA n, i : IF n = i - 1 /\ bs[i] # 0 THEN i ELSE n, 0,
                         [i \in DOMAIN bs |-> i]))

(* fromValue; a text that does not fit is refused                            *)
Generic(bs) == NumberBytes(Len(bs), SizeBytes) \o bs
FromValue(v, t) ==
  CASE t \in {"uint8", "uint16", "int8", "int16"} -> NumberBytes(v % Span(t), Width[t])
    [] t = "bool" -> <<IF v THEN 1 ELSE 0>>
    [] t = "str512" -> IF Len(Encoded(v)) < TextBytes THEN Padded(Encoded(v), TextBytes) ELSE <<>>

(* astype of what is not an array; the size in front is skipped if there is  *)
(* more than that                                                           *)
Payload(bs, generic) ==
  IF generic /\ Len(bs) > SizeBytes THEN SubSeq(bs, SizeBytes + 1, Len(bs)) ELSE bs
AsType(bs, generic, t) ==
  LET p == Payload(bs, generic)
  IN CASE t \in {"uint8", "uint16", "int8", "int16"} -> ReadNumber(SubSeq(p, 1, Width[t]), t)
       [] t = "bool" -> p[1] = 1
       [] t = "str512" -> UpToZero(p)

SampleTypes == {"uint8", "uint16", "int8", "int16", "bool", "str512"}
SamplesOf(t) ==
  CASE t = "bool" -> BOOLEAN [] t = "str512" -> AllTexts
    [] OTHER -> - ByteBase .. ByteBase ^ 2

(* A value is converted next to an answer without records: the two have       *)
(* nothing to do with each other.                                            *)
NoSample == [t |-> "none"]
Convert(t, v, generic) ==
  /\ sample = NoSample /\ records = <<>> /\ unpacking # "yes"
  /\ LET bs == FromValue(v, t)
         all == IF generic THEN Generic(bs) ELSE bs
     IN sample' = [t |-> t, v |-> v, refused |-> bs = <<>>,
                   back |-> IF bs = <<>> THEN v ELSE AsType(all, generic, t)]
  /\ UNCHANGED <<structure, records, data, packoffset, field, element, output, unpacking>>

------------------------------------------------------------------------------
(* The server's side: the fields of a record one after the other.           *)
FieldValues(t) ==
  CASE t = "uint16" -> {0, ByteBase + 1} [] t = "int16" -> {-1, 1}
    [] t = "uint8" -> {2} [] t = "bool" -> BOOLEAN
    [] t \in {"str512", "cstr"} -> {s \in AllTexts : Len(Encoded(s)) < TextBytes}
    [] t = "bytearray" -> {<<>>, <<0, 1>>}

PackedField(v, t) ==
  CASE t = "cstr" -> Append(Encoded(v), 0)
    [] t = "bytearray" -> Generic(v)
    [] OTHER -> FromValue(v, t)
Packed(rs, types) ==
  FlattenSeq([r \in DOMAIN rs |->
    FlattenSeq([f \in DOMAIN types |-> PackedField(rs[r][f], types[f])])])

RecordsOf(types) ==
  FoldLeft(LAMBDA rs, t : {Append(r, v) : r \in rs, v \in FieldValues(t)}, {<<>>}, types)

CodecInit(structures, most) ==
  /\ sample = NoSample
  /\ structure \in structures
  /\ records \in UNION {[1 .. n -> RecordsOf(structure)] : n \in 0 .. most}
  /\ data = Generic(Packed(records, structure))
  /\ packoffset = 0 /\ field = 1 /\ element = <<>> /\ output = <<>> /\ unpacking = "yes"

(* One field: what is read at the offset, and how far that moves it.  A text *)
(* that ends with 0 moves it by the characters decoded and 1, and an empty   *)
(* one is neither kept nor passed.                                          *)
Remaining == SubSeq(Payload(data, TRUE), packoffset + 1, Len(Payload(data, TRUE)))
PrefixSize == Number(SubSeq(Remaining, 1, SizeBytes))
Decoded(bs) ==   (* characters, or bytes that are not of one                *)
  Cardinality({i \in DOMAIN bs :
    ~ \E c \in Characters, j \in 1 .. i - 1 : i - j < Len(c) /\ IsPrefix(c, SubSeq(bs, j, Len(bs)))})

(* Fault: the 0 behind the text is not passed (UnpackRight).                *)
TextOnly(bs) == Decoded(bs)
TextStep(bs) == Decoded(bs) + 1

FieldStep(t) ==
  CASE t = "cstr" -> IF UpToZero(Remaining) = <<>> THEN 0 ELSE TextStep(UpToZero(Remaining))
    [] t = "str512" -> TextBytes
    [] t = "bytearray" -> SizeBytes + PrefixSize
    [] OTHER -> Width[t]
(* what DataView and Uint8Array need to be there                             *)
Enough(t) ==
  \/ t \in {"cstr", "str512"}
  \/ t = "bytearray" /\ Len(Remaining) >= SizeBytes /\ Len(Remaining) - SizeBytes >= PrefixSize
  \/ t \in DOMAIN Width /\ Len(Remaining) >= Width[t]
FieldRead(t) ==
  CASE t = "cstr" -> IF UpToZero(Remaining) = <<>> THEN <<>> ELSE <<UpToZero(Remaining)>>
    [] t = "str512" -> <<UpToZero(Remaining)>>
    [] t = "bytearray" -> <<SubSeq(Remaining, SizeBytes + 1, SizeBytes + PrefixSize)>>
    [] t = "bool" -> <<Remaining[1] = 1>>
    [] OTHER -> <<ReadNumber(SubSeq(Remaining, 1, Width[t]), t)>>

UnpackField ==
  LET t == structure[field]
  IN /\ unpacking = "yes" /\ (field = 1 => Remaining # <<>>)
     /\ IF Enough(t)
        THEN /\ packoffset' = packoffset + FieldStep(t)
             /\ unpacking' = "yes"
             /\ IF field = Len(structure)
                THEN field' = 1 /\ element' = <<>> /\ output' = Append(output, element \o FieldRead(t))
                ELSE field' = field + 1 /\ element' = element \o FieldRead(t) /\ output' = output
        ELSE unpacking' = "thrown" /\ UNCHANGED <<packoffset, field, element, output>>
     /\ UNCHANGED <<structure, records, data, sample>>

UnpackEnds ==
  /\ unpacking = "yes" /\ field = 1 /\ Remaining = <<>>
  /\ unpacking' = "no"
  /\ UNCHANGED <<structure, records, data, packoffset, field, element, output, sample>>

CodecNext ==
  \/ UnpackField \/ UnpackEnds
  \/ \E t \in SampleTypes : \E v \in SamplesOf(t), generic \in BOOLEAN : Convert(t, v, generic)

------------------------------------------------------------------------------
(* A number within its type, a flag and a text that fits come back as they   *)
(* were, with and without the size in front; a number that does not fit      *)
(* comes back modulo the width, and a text that does not is refused.         *)
RoundTrip ==
  sample # NoSample =>
    CASE sample.t = "bool" -> ~ sample.refused /\ sample.back = sample.v
      [] sample.t = "str512" -> IF Len(Encoded(sample.v)) < TextBytes
                                THEN ~ sample.refused /\ sample.back = Encoded(sample.v)
                                ELSE sample.refused
      [] OTHER -> /\ ~ sample.refused
                  /\ (sample.back - sample.v) % Span(sample.t) = 0
                  /\ IF sample.t \in Signed
                     THEN -Span(sample.t) <= 2 * sample.back /\ 2 * sample.back < Span(sample.t)
                     ELSE 0 <= sample.back /\ sample.back < Span(sample.t)

Kept(v, t) == IF t \in {"str512", "cstr"} THEN Encoded(v) ELSE v
Field(r, f) == Kept(records[r][f], structure[f])
Plain ==   (* texts that end with 0 are not empty and of one byte a character *)
  \A r \in DOMAIN records, f \in DOMAIN structure :
    structure[f] = "cstr" =>
      records[r][f] # <<>> /\ \A c \in Range(records[r][f]) : Len(c) = 1

(* unpack gives back the records the server packed, all of them and nothing   *)
(* more, and does not run past the end, unless there are none (callers ask    *)
(* isEmpty first, or the size is taken for data) or a text that ends with 0   *)
(* is empty or has a character of more than one byte: the offset moves by     *)
(* characters, and what follows is read from the wrong place                  *)
(* (convert.ts:466-472; the comments of the log book are unpacked this way).  *)
UnpackRight ==
  (records # <<>> /\ Plain) =>
    /\ unpacking # "thrown"
    /\ unpacking = "no" =>
         output = [r \in DOMAIN records |-> [f \in DOMAIN structure |-> Field(r, f)]]
=============================================================================
