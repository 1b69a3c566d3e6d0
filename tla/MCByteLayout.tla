---------------------------- MODULE MCByteLayout ----------------------------
(* Model-checking instance of ByteLayout: three byte values, so that every  *)
(* misplaced, lost or duplicated byte of an 8-byte scalar changes a value,  *)
(* and 255 sets the top bit that makes the 4-byte int expression negative. *)
EXTENDS ByteLayout

MCBytes == {0, 1, 255}

\* The integer codec types (bytelayout_roundtrip) and every codec type.
MCIntTypes == IntTypes
MCAllTypes == CodecTypes
====
