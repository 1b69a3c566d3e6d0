----------------------------- MODULE MCBitField -----------------------------
(***************************************************************************)
(* Bit-field layouts for BitField.  C int is 32 bits wide on the targets.  *)
(***************************************************************************)
EXTENDS BitField

MCIntBits == 32

(***************************************************************************)
(* A u32 container with a flag, a 3-bit field, a byte and a 31-bit field   *)
(* overlapping the first two (the generator accepts overlaps).  Each       *)
(* setter is called with 0, all length bits set, and a value with a bit    *)
(* above the field (9 for the 3-bit field, as in spec.md section 8).       *)
(***************************************************************************)
PackedFields ==
  [flag |-> [start |-> 0, length |-> 1],
   mode |-> [start |-> 1, length |-> 3],
   count |-> [start |-> 8, length |-> 8],
   wide |-> [start |-> 1, length |-> 31]]

PackedValues ==
  [flag |-> {{}, {0}},
   mode |-> {{}, Bits(3), {0, 3}},
   count |-> {{}, Bits(8), {7}},
   wide |-> {{}, Bits(31), {30}}]

WordsU32 == {{}, Bits(32)}

(***************************************************************************)
(* A u64 container with a 40-bit field below an 8-bit one, and an 8-bit   *)
(* field at bit 60 that runs past the container's end (start_bit + length *)
(* is 68; the generator never checks it against the container width).     *)
(***************************************************************************)
WideFields ==
  [lo |-> [start |-> 0, length |-> 40], hi |-> [start |-> 40, length |-> 8],
   top |-> [start |-> 60, length |-> 8]]

WideValues == [lo |-> {Bits(40)}, hi |-> {Bits(8)}, top |-> {Bits(8)}]

WordsNone == {{}}
====
