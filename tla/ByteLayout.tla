----------------------------- MODULE ByteLayout -----------------------------
(***************************************************************************)
(* The byte-transcription programs that the C generator                    *)
(* src/attic/gen_codec/gen_codec.py emits for a multi-byte scalar field    *)
(* (CodeGenerator.get_decode_code and CodeGenerator.get_encode_code).      *)
(*                                                                         *)
(* A scalar of N bytes is represented by its N significance bytes:         *)
(* v[k] = (v >> 8k) & 0xFF.  The wire is the C array bytes[0..N-1].  The   *)
(* generated decode is an OR of shifted bytes, "bytes[j] << s"; it is      *)
(* kept as the list of <<j, s>> terms the generator writes, and evaluated  *)
(* as an OR, so that a missing or repeated shift shows.  The generated     *)
(* encode is a list of assignments "bytes[j] = (v >> s) & 0xFF", applied   *)
(* in the order the generator writes them.                                 *)
(*                                                                         *)
(* Signed and unsigned types of one width share one byte program (the      *)
(* generator tests only the "_be", "_le", "_bs" substrings and the size),  *)
(* so a codec type here is an order class, a size and whether it is a      *)
(* float type (the codec_f32 and codec_f64 types).  A float's value is     *)
(* represented by the significance bytes of its IEEE-754 bit pattern.      *)
(*                                                                         *)
(* The module is driven by a round-trip harness: a value is encoded by     *)
(* the generated encode and decoded back by the generated decode, and a    *)
(* wire image is decoded and encoded back.                                 *)
(***************************************************************************)
EXTENDS Integers, Sequences, FiniteSetsExt, SequencesExt, Bitwise

CONSTANTS
  Bytes,    \* the byte values a scalar's bytes range over
  Types     \* the codec types the harness tries

ASSUME Bytes \subseteq 0 .. 255 /\ Bytes # {}

(***************************************************************************)
(* The codec types of CodeGenerator.type_sizes: codec_u8 (no order), the   *)
(* plain big/little endian types of 2, 4 and 8 bytes, and the "_bs"        *)
(* (word-swapped) types, which exist only for 4 and 8 bytes.               *)
(***************************************************************************)
IntTypes ==
  {[order |-> "none", size |-> 1, fp |-> FALSE]}
  \cup {[order |-> o, size |-> s, fp |-> FALSE] : o \in {"be", "le"}, s \in {2, 4, 8}}
  \cup {[order |-> o, size |-> s, fp |-> FALSE] : o \in {"be_bs", "le_bs"}, s \in {4, 8}}

\* codec_f32_* and codec_f64_*: every order class, 4 and 8 bytes.
FloatTypes ==
  {[order |-> o, size |-> s, fp |-> TRUE] : o \in {"be", "le", "be_bs", "le_bs"}, s \in {4, 8}}

CodecTypes == IntTypes \cup FloatTypes

ASSUME Types \subseteq CodecTypes /\ Types # {}

Idx(t) == 0 .. t.size - 1

\* All scalars of type t, as significance-byte functions.
Values(t) == [Idx(t) -> Bytes]

\* All wire images of type t, as the C array bytes[0..size-1].
Wires(t) == [Idx(t) -> Bytes]

\* Mutant: two byte indices of the 8-byte be_bs decode transposed.
DecodeTermsSwapped(t) ==
  CASE t.order = "none" -> << <<0, 0>> >>
    [] t.order = "be"   -> [i \in 1 .. t.size |-> <<i - 1, 8 * (t.size - i)>>]
    [] t.order = "le"   -> [i \in 1 .. t.size |-> <<i - 1, 8 * (i - 1)>>]
    [] t.order = "be_bs" /\ t.size = 4 ->
         << <<2, 24>>, <<3, 16>>, <<1, 8>>, <<0, 0>> >>
    [] t.order = "be_bs" /\ t.size = 8 ->
         << <<7, 56>>, <<6, 48>>, <<4, 40>>, <<5, 32>>,
            <<2, 24>>, <<3, 16>>, <<0, 8>>, <<1, 0>> >>
    [] t.order = "le_bs" /\ t.size = 4 ->
         << <<1, 0>>, <<0, 8>>, <<3, 16>>, <<2, 24>> >>
    [] t.order = "le_bs" /\ t.size = 8 ->
         << <<1, 0>>, <<0, 8>>, <<3, 16>>, <<2, 24>>,
            <<5, 32>>, <<4, 40>>, <<7, 48>>, <<6, 56>> >>

(***************************************************************************)
(* The decode terms <<j, s>> of "var = ... | (bytes[j] << s) | ...".       *)
(***************************************************************************)
DecodeTerms(t) ==
  CASE t.order = "none" -> << <<0, 0>> >>
    [] t.order = "be"   -> [i \in 1 .. t.size |-> <<i - 1, 8 * (t.size - i)>>]
    [] t.order = "le"   -> [i \in 1 .. t.size |-> <<i - 1, 8 * (i - 1)>>]
    [] t.order = "be_bs" /\ t.size = 4 ->
         << <<2, 24>>, <<3, 16>>, <<1, 8>>, <<0, 0>> >>
    [] t.order = "be_bs" /\ t.size = 8 ->
         << <<6, 56>>, <<7, 48>>, <<4, 40>>, <<5, 32>>,
            <<2, 24>>, <<3, 16>>, <<0, 8>>, <<1, 0>> >>
    [] t.order = "le_bs" /\ t.size = 4 ->
         << <<1, 0>>, <<0, 8>>, <<3, 16>>, <<2, 24>> >>
    [] t.order = "le_bs" /\ t.size = 8 ->
         << <<1, 0>>, <<0, 8>>, <<3, 16>>, <<2, 24>>,
            <<5, 32>>, <<4, 40>>, <<7, 48>>, <<6, 56>> >>

(***************************************************************************)
(* The encode assignments <<j, s>> of "bytes[j] = (v >> s) & 0xFF", in the *)
(* order the generator emits them (the 8-byte cases are its loops over     *)
(* range(8) and over the byte_order lists).                                *)
(***************************************************************************)
EncodeTerms(t) ==
  CASE t.order = "none" -> << <<0, 0>> >>
    [] t.order = "be"   -> [i \in 1 .. t.size |-> <<i - 1, 8 * (t.size - i)>>]
    [] t.order = "le"   -> [i \in 1 .. t.size |-> <<i - 1, 8 * (i - 1)>>]
    [] t.order = "be_bs" /\ t.size = 4 ->
         << <<2, 24>>, <<3, 16>>, <<1, 8>>, <<0, 0>> >>
    [] t.order = "be_bs" /\ t.size = 8 ->
         LET bo == <<6, 7, 4, 5, 2, 3, 0, 1>>
         IN  [i \in 1 .. 8 |-> <<bo[i], (8 - i) * 8>>]
    [] t.order = "le_bs" /\ t.size = 4 ->
         << <<1, 0>>, <<0, 8>>, <<3, 16>>, <<2, 24>> >>
    [] t.order = "le_bs" /\ t.size = 8 ->
         LET bo == <<1, 0, 3, 2, 5, 4, 7, 6>>
         IN  [i \in 1 .. 8 |-> <<bo[i], (i - 1) * 8>>]

\* Every byte of the C array is assigned by the encode program.
ASSUME \A t \in CodecTypes :
         {EncodeTerms(t)[i][1] : i \in DOMAIN EncodeTerms(t)} = Idx(t)

\* Mutant: the result is not cast to the type's width (8 bytes kept).
DecodeUncast(t, wire) ==
  LET terms == DecodeTerms(t)
      at(k) == {wire[terms[i][1]] : i \in {i \in DOMAIN terms : terms[i][2] = 8 * k}}
  IN  [k \in 0 .. 7 |-> FoldSet(LAMBDA x, y : x | y, 0, at(k))]

\* Bit i of the scalar whose significance bytes are v.
BitOf(v, i) == (v[i \div 8] \div 2^(i % 8)) % 2

(***************************************************************************)
(* The 4-byte OR "(bytes[0] << 24) | ..." has type int, and a byte of      *)
(* 0x80 or more shifted by 24 overflows it (undefined behaviour; gcc and   *)
(* clang emit a plain shift, so the int is the two's-complement wrap and   *)
(* negative).  The 8-byte OR casts every byte to uint64_t first.           *)
(***************************************************************************)
IntNegative(t, v) == t.size = 4 /\ v[3] >= 128

\* The bits of |n|: negating a two's-complement n flips every bit above its lowest set bit.
Magnitude(t, v) ==
  [i \in 0 .. 8 * t.size - 1 |->
     IF IntNegative(t, v) /\ \E j \in 0 .. i - 1 : BitOf(v, j) = 1
     THEN 1 - BitOf(v, i) ELSE BitOf(v, i)]

\* float / double: the fraction width and the exponent bias.
Frac(t) == IF t.size = 4 THEN 23 ELSE 52
Bias(t) == IF t.size = 4 THEN 127 ELSE 1023

(***************************************************************************)
(* "var = <integer expression>" with a float or double var converts the    *)
(* integer to the nearest representable value, ties to even (C 6.3.1.4,   *)
(* the default rounding mode); the result is given as its IEEE-754 bits:   *)
(* sign, biased exponent of the leading one, and the Frac(t) bits below    *)
(* it rounded on the guard bit and the bits under it (a carry out of the   *)
(* fraction bumps the exponent).  Then the union copy "u.i = <the bits of *)
(* var>; var = u.f;" reads the float's own bits back into it: a no-op.     *)
(***************************************************************************)
ToFloatBits(t, v) ==
  LET m     == Magnitude(t, v)
      W     == 8 * t.size
      P     == Frac(t)
      ones  == {i \in 0 .. W - 1 : m[i] = 1}
      h     == Max(ones)
      kept(j) == IF h - P + j >= 0 THEN m[h - P + j] ELSE 0
      guard == IF h - P - 1 >= 0 THEN m[h - P - 1] ELSE 0
      up    == guard = 1 /\ ((\E i \in ones : i < h - P - 1) \/ kept(0) = 1)
      frac(j) == IF up /\ \A k \in 0 .. j - 1 : kept(k) = 1 THEN 1 - kept(j) ELSE kept(j)
      e     == Bias(t) + h + (IF up /\ \A k \in 0 .. P - 1 : kept(k) = 1 THEN 1 ELSE 0)
  IN  IF ones = {} THEN [i \in 0 .. W - 1 |-> 0]
      ELSE [i \in 0 .. W - 1 |->
              IF i < P THEN frac(i)
              ELSE IF i < W - 1 THEN (e \div 2^(i - P)) % 2
              ELSE IF IntNegative(t, v) THEN 1 ELSE 0]

\* Significance bytes of a bit vector.
BytesOfBits(b, n) ==
  [k \in 0 .. n - 1 |-> FoldSet(LAMBDA i, acc : acc + b[8 * k + i] * 2^i, 0, 0 .. 7)]

(***************************************************************************)
(* Decode: the OR of the shifted wire bytes, read back per significance    *)
(* byte (the cast to uint8_t/uint16_t/uint32_t/uint64_t keeps the low      *)
(* size bytes, so the model keeps exactly Idx(t)); a float type then       *)
(* converts that integer to floating point.                                *)
(***************************************************************************)
Decode(t, wire) ==
  LET terms == DecodeTerms(t)
      at(k) == {wire[terms[i][1]] : i \in {i \in DOMAIN terms : terms[i][2] = 8 * k}}
      n     == [k \in Idx(t) |-> FoldSet(LAMBDA x, y : x | y, 0, at(k))]
  IN  IF t.fp THEN BytesOfBits(ToFloatBits(t, n), t.size) ELSE n

(***************************************************************************)
(* Encode: the assignments applied in order to the array bytes[]; a float  *)
(* is first copied into "u.f" and its bits "u.i" are shifted, so v is      *)
(* its bit pattern here.                                                   *)
(***************************************************************************)
Encode(t, v) ==
  LET assign(w, term) == [w EXCEPT ![term[1]] = v[term[2] \div 8]]
  IN  FoldLeft(assign, [j \in Idx(t) |-> 0], EncodeTerms(t))

(***************************************************************************)
(* The byte orders as spec.md section 4.3 and the vectors of section 8     *)
(* state them: NativeBig puts the most significant byte first, NativeLittle *)
(* the least significant first; SwappedBig sends the 16-bit words least    *)
(* significant word first, each word big-endian (0x12345678 ->             *)
(* 56 78 12 34); SwappedLittle sends the most significant word first,     *)
(* each word little-endian (0x12345678 -> 34 12 78 56).                    *)
(***************************************************************************)
SpecPos(t, j) ==
  CASE t.order \in {"none", "le"} -> j
    [] t.order = "be"    -> t.size - 1 - j
    [] t.order = "be_bs" -> 2 * (j \div 2) + (1 - (j % 2))
    [] t.order = "le_bs" -> 2 * (t.size \div 2 - 1 - (j \div 2)) + (j % 2)

\* The wire the spec prescribes for v: wire byte j is significance byte SpecPos(t, j).
SpecWire(t, v) == [j \in Idx(t) |-> v[SpecPos(t, j)]]

(***************************************************************************)
(* The value the spec reads from a wire: the inverse permutation, and for  *)
(* a float the same bits (spec.md 4.3: "bit-identical reinterpretation,    *)
(* not numeric conversion").                                               *)
(***************************************************************************)
SpecRead(t, w) == [k \in Idx(t) |-> w[CHOOSE j \in Idx(t) : SpecPos(t, j) = k]]

-----------------------------------------------------------------------------
(***************************************************************************)
(* Round-trip harness.  In mode "value" a scalar is chosen, encoded into   *)
(* the output array and decoded from it; in mode "wire" a wire image is    *)
(* chosen, decoded and encoded again.                                      *)
(***************************************************************************)
VARIABLES
  ctype,    \* the codec type under test
  mode,     \* "value" or "wire": which side the harness starts from
  value,    \* the scalar (significance bytes)
  wire,     \* the C array bytes[] on the wire
  stage,    \* "chosen", "first", "second": how far the round trip has got
  start     \* history: the scalar or wire image the round trip started from

vars == <<ctype, mode, value, wire, stage, start>>

Init ==
  /\ ctype \in Types
  /\ stage = "chosen"
  /\ \/ /\ mode = "value"
        /\ value \in Values(ctype)
        /\ wire = [j \in Idx(ctype) |-> 0]
        /\ start = value
     \/ /\ mode = "wire"
        /\ wire \in Wires(ctype)
        /\ value = [k \in Idx(ctype) |-> 0]
        /\ start = wire

\* The generated encode of a scalar field (get_encode_code).
EncodeStep ==
  /\ \/ mode = "value" /\ stage = "chosen"
     \/ mode = "wire" /\ stage = "first"
  /\ wire' = Encode(ctype, value)
  /\ stage' = IF stage = "chosen" THEN "first" ELSE "second"
  /\ UNCHANGED <<ctype, mode, value, start>>

\* The generated decode of a scalar field (get_decode_code).
DecodeStep ==
  /\ \/ mode = "wire" /\ stage = "chosen"
     \/ mode = "value" /\ stage = "first"
  /\ value' = Decode(ctype, wire)
  /\ stage' = IF stage = "chosen" THEN "first" ELSE "second"
  /\ UNCHANGED <<ctype, mode, wire, start>>

\* The harness has finished one round trip.
Finished ==
  /\ stage = "second"
  /\ UNCHANGED vars

Next == EncodeStep \/ DecodeStep \/ Finished

Spec == Init /\ [][Next]_vars /\ WF_vars(EncodeStep \/ DecodeStep)

-----------------------------------------------------------------------------
TypeOK ==
  /\ ctype \in CodecTypes
  /\ mode \in {"value", "wire"}
  /\ value \in [Idx(ctype) -> 0 .. 255]
  /\ wire \in Wires(ctype) \cup {[j \in Idx(ctype) |-> 0]}
  /\ stage \in {"chosen", "first", "second"}
  /\ start \in [Idx(ctype) -> Bytes]

(***************************************************************************)
(* Round trip (spec.md 4.3): decoding what the generated encode wrote      *)
(* gives back the scalar, and encoding what the generated decode read      *)
(* gives back the wire bytes, for every codec type of the generator.  It   *)
(* fails if the decode and encode programs of one type are not exact       *)
(* inverses (a byte index or a shift transcribed wrongly in one of them).  *)
(***************************************************************************)
RoundTrip ==
  stage = "second" =>
    IF mode = "value" THEN value = start ELSE wire = start

(***************************************************************************)
(* The generated programs are the spec's transcription plan (spec.md 4.3   *)
(* and the vectors of section 8): the bytes the generated encode puts on   *)
(* the wire are the ones the type's order class prescribes, and the value  *)
(* the generated decode reads from a wire is the one the spec reads, a     *)
(* float's being the wire's bits unchanged.                                *)
(***************************************************************************)
SpecPlan ==
  /\ (mode = "value" /\ stage # "chosen") => wire = SpecWire(ctype, start)
  /\ (mode = "wire" /\ stage # "chosen") => value = SpecRead(ctype, start)
====
