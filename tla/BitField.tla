------------------------------ MODULE BitField ------------------------------
(***************************************************************************)
(* The bit-field accessors the PDL generators emit into the header         *)
(* (src/tools/gen_codec/attic/gen_codec_fixed.py, generate_header; the     *)
(* same three lines in gen_codec.py, gen_codec_final.py, gen_codec_v2.py): *)
(*                                                                         *)
(*   get:  return (msg->C >> S) & ((1 << L) - 1);                          *)
(*   set:  msg->C &= ~(((1 << L) - 1) << S);                               *)
(*         msg->C |= (value & ((1 << L) - 1)) << S;                        *)
(*         msg->F = value;                                                 *)
(*                                                                         *)
(* for a bit-field F with source {container: C, start_bit: S, length: L},  *)
(* whose own member and setter argument have the C type                    *)
(* get_bit_field_type(L).                                                  *)
(*                                                                         *)
(* A C value is a record [bits, w, signed]: the set of its 1 bits, its     *)
(* width and its signedness, so 64-bit words fit TLC.  The literal 1 and   *)
(* the mask are int (IntBits wide, signed); the usual arithmetic           *)
(* conversions and integer promotions are applied as C does.  A shift by   *)
(* at least the width of its operand is undefined: the build picks an      *)
(* outcome once per accessor (Init), either the hardware's shift by the    *)
(* count modulo the width or the constant folder's 0.  A signed shift that *)
(* overflows is taken to wrap, which is what the targets produce.          *)
(***************************************************************************)
EXTENDS Integers, FiniteSets, Sequences, Functions

CONSTANTS
  IntBits,         \* width of C int
  ContainerBits,   \* width of the container member's C type
  BitFields,       \* the message's bit-fields: name -> [start, length]
  SetValues,       \* name -> the values an application passes to its setter
  ContainerWords   \* words the application stores into the container itself

Names == DOMAIN BitFields

ASSUME IntBits \in {8, 16, 32} /\ ContainerBits \in {8, 16, 32, 64}
ASSUME \A f \in Names : BitFields[f].start \in Nat /\ BitFields[f].length \in Nat \ {0}

Bits(n) == 0 .. n - 1

\* get_bit_field_type: the C type of the member and of the setter argument.
BitFieldTypeBits(len) ==
  IF len <= 8 THEN 8 ELSE IF len <= 16 THEN 16 ELSE IF len <= 32 THEN 32 ELSE 64

Unsigned(bits, w) == [bits |-> bits \cap Bits(w), w |-> w, signed |-> FALSE]
IntVal(bits) == [bits |-> bits \cap Bits(IntBits), w |-> IntBits, signed |-> TRUE]

\* Conversion to an unsigned type of width w (sign extension of a negative).
ToUnsigned(x, w) ==
  LET ext == IF x.signed /\ (x.w - 1) \in x.bits THEN x.w .. w - 1 ELSE {}
  IN  Unsigned(x.bits \cup ext, w)

\* Integer promotion: a type narrower than int becomes int.
Promote(x) == IF x.w < IntBits THEN IntVal(x.bits) ELSE x

\* The common type of a binary operator's promoted operands.
Common(x, y) ==
  LET w == IF x.w >= y.w THEN x.w ELSE y.w
      s == IF x.w = y.w THEN x.signed /\ y.signed
           ELSE IF x.w > y.w THEN x.signed ELSE y.signed
  IN  [w |-> w, signed |-> s]

Widen(x, t) == [bits |-> ToUnsigned(x, t.w).bits, w |-> t.w, signed |-> t.signed]

BitAnd(x, y) ==
  LET t == Common(Promote(x), Promote(y))
  IN  [bits |-> Widen(Promote(x), t).bits \cap Widen(Promote(y), t).bits,
       w |-> t.w, signed |-> t.signed]

BitOr(x, y) ==
  LET t == Common(Promote(x), Promote(y))
  IN  [bits |-> Widen(Promote(x), t).bits \cup Widen(Promote(y), t).bits,
       w |-> t.w, signed |-> t.signed]

BitNot(x) == LET p == Promote(x) IN [p EXCEPT !.bits = Bits(p.w) \ p.bits]

(***************************************************************************)
(* x << s and x >> s on the promoted operand; ub is the build's outcome    *)
(* for a count of at least the width: "mod" or "zero".                     *)
(***************************************************************************)
ShiftLeft(x, s, ub) ==
  LET p == Promote(x)
      k == IF s < p.w THEN s ELSE s % p.w
  IN  IF s >= p.w /\ ub = "zero" THEN [p EXCEPT !.bits = {}]
      ELSE [p EXCEPT !.bits = {b + k : b \in p.bits} \cap Bits(p.w)]

ShiftRight(x, s, ub) ==
  LET p == Promote(x)
      k == IF s < p.w THEN s ELSE s % p.w
  IN  IF s >= p.w /\ ub = "zero" THEN [p EXCEPT !.bits = {}]
      ELSE [p EXCEPT !.bits = {b - k : b \in {c \in p.bits : c >= k}}]

\* Mutant: the mask is built as (1 << (L - 1)) - 1.
MaskShort(len, ub) == IntVal(Bits(len - 1))

\* (1 << L) - 1, in int.  With the shift in range it is L low bits (for
\* L = IntBits - 1 the wrap of INT_MIN - 1); otherwise 1 << L is 0 (then
\* the mask is -1, all ones) or 1 << (L % IntBits).
Mask(len, ub) ==
  IF len < IntBits THEN IntVal(Bits(len))
  ELSE IF ub = "zero" THEN IntVal(Bits(IntBits))
  ELSE IntVal(Bits(len % IntBits))

-----------------------------------------------------------------------------
(***************************************************************************)
(* The emitted accessors.  c is the container's bits, ub the build's       *)
(* outcome for the accessor's undefined shifts.                             *)
(***************************************************************************)
Start(f) == BitFields[f].start
Length(f) == BitFields[f].length
FieldBits(f) == BitFieldTypeBits(Length(f))

\* <name>_get_<f>: the result converted to the return type.
Get(c, f, ub) ==
  ToUnsigned(BitAnd(ShiftRight(Unsigned(c, ContainerBits), Start(f), ub),
                    Mask(Length(f), ub)),
             FieldBits(f)).bits

\* Mutant: the clear mask is not shifted to the field's start.
ClearNoShift(c, f, ub) ==
  ToUnsigned(BitAnd(Unsigned(c, ContainerBits), BitNot(Mask(Length(f), ub))),
             ContainerBits).bits

\* msg->C &= ~(mask << S): the container with the field's bits cleared.
Clear(c, f, ub) ==
  ToUnsigned(BitAnd(Unsigned(c, ContainerBits),
                    BitNot(ShiftLeft(Mask(Length(f), ub), Start(f), ub))),
             ContainerBits).bits

\* msg->C |= (value & mask) << S.
Insert(c, f, v, ub) ==
  ToUnsigned(BitOr(Unsigned(c, ContainerBits),
                   ShiftLeft(BitAnd(Unsigned(v, FieldBits(f)), Mask(Length(f), ub)),
                             Start(f), ub)),
             ContainerBits).bits

VARIABLES
  container,  \* msg->C
  cache,      \* msg->F for every bit-field F: the member the setter writes
  ub,         \* the build's outcome of each accessor's undefined shifts
  last,       \* history: <<the last setter call>>, or <<>>
  before      \* history: what every getter returned before that call

vars == <<container, cache, ub, last, before>>

Getters(c) == [g \in Names |-> Get(c, g, ub[g])]

\* The accessors of f shift by at least the width of the shifted operand.
HasUB(f) == Length(f) >= IntBits \/ Start(f) >= IntBits

\* The message starts zeroed; an accessor without undefined shifts has
\* one behaviour.
Init ==
  /\ container = {}
  /\ cache = [f \in Names |-> {}]
  /\ ub \in {u \in [Names -> {"mod", "zero"}] : \A f \in Names : ~HasUB(f) => u[f] = "mod"}
  /\ last = <<>>
  /\ before = Getters(container)

\* Mutant: the setter caches the container word instead of the value.
SetCachesContainer(f, v) ==
  /\ container' = Insert(Clear(container, f, ub[f]), f, v, ub[f])
  /\ cache' = [cache EXCEPT ![f] = container']
  /\ last' = << [field |-> f, value |-> v] >>
  /\ before' = Getters(container)
  /\ UNCHANGED ub

\* <name>_set_<f>(msg, value).
Set(f, v) ==
  /\ container' = Insert(Clear(container, f, ub[f]), f, v, ub[f])
  /\ cache' = [cache EXCEPT ![f] = v]
  /\ last' = << [field |-> f, value |-> v] >>
  /\ before' = Getters(container)
  /\ UNCHANGED ub

\* The application (or a decode) stores the container member directly.
StoreContainer(w) ==
  /\ container' = w
  /\ last' = <<>>
  /\ before' = Getters(w)
  /\ UNCHANGED <<cache, ub>>

Next ==
  \/ \E f \in Names : \E v \in SetValues[f] : Set(f, v)
  \/ \E w \in ContainerWords : StoreContainer(w)

Spec == Init /\ [][Next]_vars

-----------------------------------------------------------------------------
TypeOK ==
  /\ container \subseteq Bits(ContainerBits)
  /\ \A f \in Names : cache[f] \subseteq Bits(FieldBits(f))
  /\ ub \in [Names -> {"mod", "zero"}]
  /\ last \in Seq([field : Names, value : SUBSET Nat]) /\ Len(last) <= 1
  /\ \A c \in Range(last) : c.value \subseteq Bits(FieldBits(c.field))

(***************************************************************************)
(* Set then get (spec.md 4.4 and its section 8 example): after             *)
(* <name>_set_<f>(msg, v), <name>_get_<f>(msg) returns exactly the low     *)
(* length bits of v.  It fails when the int-typed mask or shift loses      *)
(* bits: a wide field, or a field past the container's end.                *)
(***************************************************************************)
SetThenGet ==
  \A c \in Range(last) :
    Get(container, c.field, ub[c.field]) = c.value \cap Bits(Length(c.field))

Disjoint(f, g) ==
  {Start(f) + i : i \in Bits(Length(f))} \cap {Start(g) + i : i \in Bits(Length(g))} = {}

(***************************************************************************)
(* A setter touches only its own bits (spec.md 4.4: the setter clears the  *)
(* target bits, then ORs the new value in): every other bit-field whose    *)
(* bits do not overlap reads the same after the call as before it.          *)
(***************************************************************************)
SetKeepsOthers ==
  \A c \in Range(last) :
    \A g \in Names : (g # c.field /\ Disjoint(g, c.field)) =>
       Get(container, g, ub[g]) = before[g]
====
