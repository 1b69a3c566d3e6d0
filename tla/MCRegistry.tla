----------------------------- MODULE MCRegistry -----------------------------
(***************************************************************************)
(* Registry over every file of up to three definitions drawn from a small  *)
(* set: two messages that may share a name, a message that refers to a     *)
(* later or undefined name, one that contains itself, a constant, a        *)
(* primitive and a bit-field; run by each generator on one such file, or  *)
(* on two files that are missing, do not parse or hold at most one        *)
(* definition, under one stem or two.                                     *)
(***************************************************************************)
EXTENDS Registry

MCNames == {"a", "b", "c", "p", "x", "y"}
MCUpper == [n \in MCNames |-> CASE n = "a" -> "A" [] n = "b" -> "B" [] n = "c" -> "C"
                                [] n = "p" -> "P" [] n = "x" -> "X" [] OTHER -> "Y"]
MCBaseTypes == {"u8", "u16"}

Fld(n, k, t, l) == [name |-> n, kind |-> k, type |-> t, len |-> l]
Def(n, k, fs, t) == [name |-> n, kind |-> k, fields |-> fs, tref |-> t]

\* a { x: u8 }
MsgA == Def("a", "message", <<Fld("x", "ref", "u8", 1)>>, "u8")
\* a { x: b; y: u16[] }, a second "a" that refers to b
MsgAb == Def("a", "message", <<Fld("x", "ref", "b", 1), Fld("y", "array", "u16", 1)>>, "u8")
\* b { x: bit_field of 12 bits; y: an inline spec }
MsgB == Def("b", "message", <<Fld("x", "bits", "u16", 12), Fld("y", "other", "u8", 1)>>, "u8")
\* b { x: b }, a message that contains itself by value
MsgSelf == Def("b", "message", <<Fld("x", "ref", "b", 1)>>, "u8")
\* c = { type: u16, const: ... }
ConstC == Def("c", "constant", <<>>, "u16")
\* p = { type: u16, byte_order: ... }
PrimP == Def("p", "primitive", <<>>, "u16")

Universe == {MsgA, MsgAb, MsgB, MsgSelf, ConstC, PrimP}

MCSchemas == UNION {[1 .. n -> Universe] : n \in 0 .. 3}
MCGenerators == {"fixed", "final", "lark"}
MCStems == {"s1", "s2"}

In(st, src) == [stem |-> st, src |-> src]
Small == {s \in Sources : Len(s.defs) <= 1}

MCInputLists ==
  {<<In("s1", s)>> : s \in Sources}
  \cup {<<In(t1, s1), In(t2, s2)>> : t1 \in {"s1"}, t2 \in MCStems, s1, s2 \in Small}
====
