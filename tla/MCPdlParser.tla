---------------------------- MODULE MCPdlParser ----------------------------
(***************************************************************************)
(* PdlParser over every file of at most two definitions, each one of the   *)
(* definition forms of the grammar (spec.md 4.1), with the definition the  *)
(* grammar gives it.                                                       *)
(***************************************************************************)
EXTENDS PdlParser

MCBaseTypes == {"u8", "u16"}
MCNumerals == {"0", "1"}

Frag(toks, d) == [toks |-> toks, def |-> d]
TypeRef(n, t) == [name |-> <<n>>, type |-> "type_ref", of |-> <<t>>]

\* def p = { type: u16, byte_order: [1, 0] }
PrimP == Frag(<<"def", "p", "=", "{", "type", ":", "u16", ",", "byte_order", ":",
                "[", "1", ",", "0", "]", "}">>, Def("p", "primitive", <<>>, <<"u16">>))
\* def m = { type: message, fields: [a: u8, b: p] }
MsgTwo == Frag(<<"def", "m", "=", "{", "type", ":", "message", ",", "fields", ":",
                 "[", "a", ":", "u8", ",", "b", ":", "p", "]", "}">>,
               Def("m", "message", <<TypeRef("a", "u8"), TypeRef("b", "p")>>, <<>>))
\* def n = { type: message, fields: [a: u8] }
MsgOne == Frag(<<"def", "n", "=", "{", "type", ":", "message", ",", "fields", ":",
                 "[", "a", ":", "u8", "]", "}">>,
               Def("n", "message", <<TypeRef("a", "u8")>>, <<>>))
\* def e = { type: message }
MsgNone == Frag(<<"def", "e", "=", "{", "type", ":", "message", "}">>,
                Def("e", "message", <<>>, <<>>))
\* def c = { type: u16, const: 1 }
ConstBase == Frag(<<"def", "c", "=", "{", "type", ":", "u16", ",", "const", ":", "1", "}">>,
                  Def("c", "constant", <<>>, <<"u16">>))
\* def k = { type: p, const: 0 }
ConstRef == Frag(<<"def", "k", "=", "{", "type", ":", "p", ",", "const", ":", "0", "}">>,
                 Def("k", "constant", <<>>, <<"p">>))
\* def f = { type: bit_field, source: { container: x, start_bit: 0, length: 1 } }
BitF == Frag(<<"def", "f", "=", "{", "type", ":", "bit_field", ",", "source", ":",
               "{", "container", ":", "x", ",", "start_bit", ":", "0", ",",
               "length", ":", "1", "}", "}">>, Def("f", "bit_field", <<>>, <<"source">>))

Frags == {PrimP, MsgTwo, MsgOne, MsgNone, ConstBase, ConstRef, BitF}

MCInputs ==
  {[src |-> <<>>, ref |-> <<>>]}
    \cup {[src |-> a.toks, ref |-> <<a.def>>] : a \in Frags}
    \cup {[src |-> a.toks \o b.toks, ref |-> <<a.def, b.def>>] : a, b \in Frags}
====
