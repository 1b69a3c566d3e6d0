----------------------------- MODULE PdlParser -----------------------------
(***************************************************************************)
(* SimplePDLParser of src/tools/gen_codec/attic/gen_codec_v2.py: the       *)
(* regex parser that turns PDL text ("def NAME = { type: ..., ... }") into *)
(* definition records.  parse_file scans the text for the definition       *)
(* pattern; parse_definition_body collects "key: value" pairs with a       *)
(* second pattern and classifies the definition; parse_value classifies a  *)
(* value; parse_fields splits a field list on the commas outside brackets. *)
(*                                                                         *)
(* Text is a sequence of tokens: identifiers and numerals (\w runs) and    *)
(* the punctuation the patterns look at.  Whitespace, which every pattern  *)
(* skips with \s*, is left out, and so are comments (no input holds "//"). *)
(* A regex is modelled by what it matches over these tokens.               *)
(***************************************************************************)
EXTENDS Integers, Sequences, SequencesExt

CONSTANTS
  BaseTypes,    \* the type names parse_definition_body lists (u8 ... f64)
  Numerals,     \* tokens int() or float() accepts
  Inputs        \* [src: a text, ref: the definitions the grammar gives it]

Punct == {":", ",", "{", "}", "[", "]", "="}
IsWord(t) == t \notin Punct

\* Both patterns' value class [^,}]: a value runs up to a ',' or a '}'.
Stops == {",", "}"}

-----------------------------------------------------------------------------
(***************************************************************************)
(* parse_fields' splitter: for char in inner, depth counting '{[' and      *)
(* '}]', a ',' at depth 0 ends a part; the last part is kept if non-empty. *)
(***************************************************************************)
Opens == {"{", "["}
Closes == {"}", "]"}

RECURSIVE SplitLoop(_, _, _, _, _)
SplitLoop(s, k, depth, current, parts) ==
  IF k > Len(s)
  THEN IF current = <<>> THEN parts ELSE Append(parts, current)
  ELSE IF s[k] = "," /\ depth = 0
  THEN SplitLoop(s, k + 1, depth, <<>>, Append(parts, current))
  ELSE SplitLoop(s, k + 1,
                 depth + (IF s[k] \in Opens THEN 1 ELSE IF s[k] \in Closes THEN -1 ELSE 0),
                 Append(current, s[k]), parts)

SplitTop(s) == SplitLoop(s, 1, 0, <<>>, <<>>)

-----------------------------------------------------------------------------
(***************************************************************************)
(* parse_value: a value is classified as a list ("[...]", int or str       *)
(* items alike), a number, an object ("{...}") or a raw identifier or      *)
(* expression; it keeps its tokens.  (No input holds string literals or    *)
(* booleans.)                                                              *)
(***************************************************************************)
ParseValue(v) ==
  [k |-> CASE v[1] = "[" /\ v[Len(v)] = "]"  -> "list"
           [] Len(v) = 1 /\ v[1] \in Numerals -> "num"
           [] v[1] = "{" /\ v[Len(v)] = "}"  -> "obj"
           [] OTHER                          -> "raw",
   toks |-> v]

Raw(v) == [k |-> "raw", toks |-> v]

\* The end of the value [^,}]+ that starts at k.
ValueEnd(b, k) ==
  LET stop == SelectInSubSeq(b, k, Len(b), LAMBDA t : t \in Stops)
  IN  IF stop = 0 THEN Len(b) ELSE stop - 1

(***************************************************************************)
(* for match in re.finditer(r'(\w+)\s*:\s*([^,}]+)', body):                *)
(*     attrs[key] = self.parse_value(value)                                *)
(* A later key overwrites an earlier one; the scan resumes after a match.  *)
(***************************************************************************)
RECURSIVE AttrScan(_, _, _)
AttrScan(b, k, attrs) ==
  IF k + 2 > Len(b) THEN attrs
  ELSE IF IsWord(b[k]) /\ b[k + 1] = ":" /\ b[k + 2] \notin Stops
  THEN LET e == ValueEnd(b, k + 2)
       IN  AttrScan(b, e + 1, (b[k] :> ParseValue(SubSeq(b, k + 2, e))) @@ attrs)
  ELSE AttrScan(b, k + 1, attrs)

Attrs(body) == AttrScan(body, 1, <<>>)
-----------------------------------------------------------------------------
(***************************************************************************)
(* A definition record: name, kind ("message", "bit_field", "primitive",   *)
(* "constant", "type_ref"), the message's fields, and the base type or     *)
(* type reference.  A field is [name, type, of]: type "type_ref" of the    *)
(* referenced tokens, "array" of its element type, or the kind of an       *)
(* inline definition.  A bit-field's "of" is <<"source">> when it has a    *)
(* source attribute (a string, list or number: a value cannot end in '}'). *)
(* A parse result is a definition, None, or an                             *)
(* exception ("crash").                                                    *)
(***************************************************************************)
Def(n, kind, fs, of) == [name |-> n, kind |-> kind, fields |-> fs, of |-> of]
Result(tag, d) == [tag |-> tag, def |-> d]
NoDef == Def("", "", <<>>, <<>>)

RECURSIVE ParseDefinitionBody(_, _), ParseFields(_)

\* parse_definition_body: classify by the "type" attribute.
ParseDefinitionBody(name, body) ==
  LET a  == Attrs(body)
      tv == a["type"]
      fs == ParseFields(IF "fields" \in DOMAIN a THEN a["fields"] ELSE Raw(<<"[", "]">>))
  IN  CASE "type" \notin DOMAIN a -> Result("none", NoDef)
        [] tv = Raw(<<"message">>) ->
             IF fs.crash THEN Result("crash", NoDef)
             ELSE Result("def", Def(name, "message", fs.fields, <<>>))
        [] tv = Raw(<<"bit_field">>) ->
             Result("def", Def(name, "bit_field", <<>>,
                               IF "source" \in DOMAIN a THEN <<"source">> ELSE <<>>))
        [] tv.k = "raw" /\ Len(tv.toks) = 1 /\ tv.toks[1] \in BaseTypes ->
             Result("def", Def(name, "primitive", <<>>, tv.toks))
        [] "const" \in DOMAIN a -> Result("def", Def(name, "constant", <<>>, tv.toks))
        [] OTHER -> Result("def", Def(name, "type_ref", <<>>, tv.toks))

(***************************************************************************)
(* parse_fields: fields_str.strip() raises on a value parse_value did not  *)
(* leave a string (a list, number or object); a string not in brackets or  *)
(* with nothing inside gives no fields; otherwise each part holding a ':'  *)
(* is a field: an inline "{...}" definition, an array "T[size]", or a      *)
(* type reference.                                                         *)
(***************************************************************************)
ParseFields(fv) ==
  LET s == fv.toks
      inner == SubSeq(s, 2, Len(s) - 1)
      parts == SelectSeq(SplitTop(inner), LAMBDA q : \E j \in DOMAIN q : q[j] = ":")
      Field(q) ==
        LET c  == SelectInSeq(q, LAMBDA t : t = ":")
            nm == SubSeq(q, 1, c - 1)
            ts == SubSeq(q, c + 1, Len(q))
            r  == ParseDefinitionBody("", SubSeq(ts, 2, Len(ts) - 1))
        IN  CASE Len(ts) >= 2 /\ ts[1] = "{" /\ ts[Len(ts)] = "}" ->
                   [crash |-> r.tag = "crash",
                    field |-> [name |-> nm, type |-> IF r.tag = "def" THEN r.def.kind ELSE "none",
                               of |-> r.def.of]]
              [] Len(ts) >= 4 /\ IsWord(ts[1]) /\ ts[2] = "[" /\ ts[3] # "]"
                   /\ SelectInSubSeq(ts, 4, Len(ts), LAMBDA t : t = "]") # 0 ->
                   [crash |-> FALSE, field |-> [name |-> nm, type |-> "array", of |-> <<ts[1]>>]]
              [] OTHER ->
                   [crash |-> FALSE, field |-> [name |-> nm, type |-> "type_ref", of |-> ts]]
      rs == [j \in DOMAIN parts |-> Field(parts[j])]
  IN  CASE fv.k # "raw" -> [crash |-> TRUE, fields |-> <<>>]
        [] ~(Len(s) >= 2 /\ s[1] = "[" /\ s[Len(s)] = "]") \/ inner = <<>> ->
             [crash |-> FALSE, fields |-> <<>>]
        [] OTHER -> [crash |-> \E j \in DOMAIN rs : rs[j].crash,
                     fields |-> [j \in DOMAIN rs |-> rs[j].field]]

-----------------------------------------------------------------------------
(***************************************************************************)
(* gen_codec_v2's CodeGenerator, which main runs on the parse: process     *)
(* numbers the messages with message_type_counter and collects the         *)
(* constants; a C type is [c, n] as in Registry.                           *)
(***************************************************************************)
\* get_c_type: the type_map entry of a base type, else name + "_t".
CTypeV2(t) ==
  IF Len(t) = 1 /\ t[1] \in BaseTypes THEN [c |-> "base", n |-> t[1]] ELSE [c |-> "named", n |-> t]

U8 == [c |-> "base", n |-> "u8"]

(***************************************************************************)
(* generate_field: a bit-field with a source calls source.get on a value   *)
(* that is not a dict (AttributeError); without one it is length 1, a      *)
(* uint8_t.  An array is of its element type; a type reference (or a field *)
(* with no type) of its ref, default u8; anything else uint8_t.            *)
(***************************************************************************)
GenFieldV2(f) ==
  CASE f.type = "bit_field" -> [crash |-> f.of # <<>>, ctype |-> U8]
    [] f.type = "array"     -> [crash |-> FALSE, ctype |-> [c |-> "array", n |-> f.of]]
    [] f.type = "type_ref"  -> [crash |-> FALSE, ctype |-> CTypeV2(f.of)]
    [] f.type = "none"      -> [crash |-> FALSE, ctype |-> U8]
    [] OTHER                -> [crash |-> FALSE, ctype |-> U8]

\* generate_message: the record with the counter's current value.
GenMessageV2(d, id) ==
  [name |-> d.name, id |-> id,
   fields |-> [j \in DOMAIN d.fields |-> [name |-> d.fields[j].name,
                                          ctype |-> GenFieldV2(d.fields[j]).ctype]]]

\* generate_constant: name.upper() (kept as the name) and get_c_type(type_ref).
GenConstantV2(d) == [name |-> d.name, ctype |-> CTypeV2(d.of)]

\* Mutant: the constant branch bumps message_type_counter too.
ProcessStepBumps(acc, d) ==
  CASE d.kind = "message" ->
         [acc EXCEPT !.messages = Append(@, GenMessageV2(d, acc.counter)), !.counter = @ + 1]
    [] d.kind = "constant" ->
         [acc EXCEPT !.constants = Append(@, GenConstantV2(d)), !.counter = @ + 1]
    [] OTHER -> acc

\* One iteration of process's loop over parsed_data['definitions'].
ProcessStep(acc, d) ==
  CASE d.kind = "message" ->
         [acc EXCEPT !.messages = Append(@, GenMessageV2(d, acc.counter)), !.counter = @ + 1]
    [] d.kind = "constant" ->
         [acc EXCEPT !.constants = Append(@, GenConstantV2(d))]
    [] OTHER -> acc

ProcessV2(ds) ==
  FoldLeft(ProcessStep, [counter |-> 1, messages |-> <<>>, constants |-> <<>>], ds)

ProcessRaises(ds) ==
  \E k \in DOMAIN ds : ds[k].kind = "message" /\
     \E j \in DOMAIN ds[k].fields : GenFieldV2(ds[k].fields[j]).crash

-----------------------------------------------------------------------------
VARIABLES
  src,      \* the file's content
  ref,      \* the definitions the grammar gives it
  pos,      \* where re.finditer(def_pattern, content) searches next
  defs,     \* results['definitions']
  status,   \* "scan", "done", "processed", or "crashed" (main reports the exception)
  generated \* codegen.process(parsed_data): counter, messages, constants

vars == <<src, ref, pos, defs, status, generated>>

(***************************************************************************)
(* def\s+(\w+)\s*=\s*\{([^}]+)\}: the body runs to the first '}'.         *)
(***************************************************************************)
DefAt(p) ==
  /\ p + 4 <= Len(src)
  /\ src[p] = "def" /\ IsWord(src[p + 1]) /\ src[p + 2] = "=" /\ src[p + 3] = "{"
  /\ src[p + 4] # "}"
  /\ SelectInSubSeq(src, p + 5, Len(src), LAMBDA t : t = "}") # 0

DefEnd(p) == SelectInSubSeq(src, p + 4, Len(src), LAMBDA t : t = "}")

Parsed(p) == ParseDefinitionBody(src[p + 1], SubSeq(src, p + 4, DefEnd(p) - 1))

Init ==
  /\ \E in \in Inputs : src = in.src /\ ref = in.ref
  /\ pos = 1 /\ defs = <<>> /\ status = "scan"
  /\ generated = [counter |-> 1, messages |-> <<>>, constants |-> <<>>]

\* Mutant: the search resumes one token past the match's end.
ScanDefSkipOne ==
  /\ status = "scan" /\ pos <= Len(src) /\ DefAt(pos) /\ Parsed(pos).tag # "crash"
  /\ defs' = IF Parsed(pos).tag = "def" THEN Append(defs, Parsed(pos).def) ELSE defs
  /\ pos' = DefEnd(pos) + 2
  /\ UNCHANGED <<src, ref, status, generated>>

\* A match: if definition: results['definitions'].append(definition).
ScanDef ==
  /\ status = "scan" /\ pos <= Len(src) /\ DefAt(pos) /\ Parsed(pos).tag # "crash"
  /\ defs' = IF Parsed(pos).tag = "def" THEN Append(defs, Parsed(pos).def) ELSE defs
  /\ pos' = DefEnd(pos) + 1
  /\ UNCHANGED <<src, ref, status, generated>>

\* parse_definition_body raises; main prints the error and skips the file.
ScanCrash ==
  /\ status = "scan" /\ pos <= Len(src) /\ DefAt(pos) /\ Parsed(pos).tag = "crash"
  /\ status' = "crashed"
  /\ UNCHANGED <<src, ref, pos, defs, generated>>

\* No match starts here; the search moves on.
ScanSkip ==
  /\ status = "scan" /\ pos <= Len(src) /\ ~DefAt(pos)
  /\ pos' = pos + 1
  /\ UNCHANGED <<src, ref, defs, status, generated>>

\* The scan reaches the end: parse_file returns results.
ScanEnd ==
  /\ status = "scan" /\ pos > Len(src)
  /\ status' = "done"
  /\ UNCHANGED <<src, ref, pos, defs, generated>>

\* main: generated_data = codegen.process(parsed_data), or the exception.
Process ==
  /\ status = "done"
  /\ status' = IF ProcessRaises(defs) THEN "crashed" ELSE "processed"
  /\ generated' = IF ProcessRaises(defs) THEN generated ELSE ProcessV2(defs)
  /\ UNCHANGED <<src, ref, pos, defs>>

Finished == status \in {"processed", "crashed"} /\ UNCHANGED vars

Next == ScanDef \/ ScanCrash \/ ScanSkip \/ ScanEnd \/ Process \/ Finished

Spec == Init /\ [][Next]_vars /\ WF_vars(Next)

-----------------------------------------------------------------------------
TypeOK ==
  /\ pos \in 1 .. Len(src) + 1
  /\ status \in {"scan", "done", "processed", "crashed"}
  /\ generated.counter = Len(generated.messages) + 1
  /\ \A k \in DOMAIN defs :
        defs[k].kind \in {"message", "bit_field", "primitive", "constant", "type_ref"}

(***************************************************************************)
(* Parsing is total and exact (spec.md 4.1): a file in the grammar parses  *)
(* without error to its definitions, in order, with every message's        *)
(* fields, every constant a constant.                                      *)
(***************************************************************************)
ParseMatchesGrammar == status # "scan" => status \in {"done", "processed"} /\ defs = ref

(***************************************************************************)
(* The header v2 generates follows the parse (spec.md 3 and 8, ordinal     *)
(* stability): one enumerator per parsed message, in order, numbered 1, 2, *)
(* ... with no gap, and one #define per parsed constant, in order.         *)
(***************************************************************************)
ProcessFollowsParse ==
  LET msgs == SelectSeq(defs, LAMBDA d : d.kind = "message")
      cons == SelectSeq(defs, LAMBDA d : d.kind = "constant")
  IN  status = "processed" =>
        /\ [k \in DOMAIN generated.messages |-> generated.messages[k].id]
             = [k \in DOMAIN msgs |-> k]
        /\ [k \in DOMAIN generated.messages |-> generated.messages[k].name]
             = [k \in DOMAIN msgs |-> msgs[k].name]
        /\ [k \in DOMAIN generated.constants |-> generated.constants[k].name]
             = [k \in DOMAIN cons |-> cons[k].name]
====
