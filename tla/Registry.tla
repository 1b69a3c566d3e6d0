------------------------------ MODULE Registry ------------------------------
(***************************************************************************)
(* The back ends of the three Lark-grammar PDL generators under            *)
(* src/tools/gen_codec/attic/, run by the driver loop their main()s share. *)
(*                                                                         *)
(* gen_codec_fixed.py ("fixed"): CodeGenerator.process_ast registers every *)
(* definition in a dict, then generates a message record for each message  *)
(* (generate_message, generate_field, numbered by message_type_counter)   *)
(* and a constant record for each constant (generate_constant).           *)
(* gen_codec_final.py ("final"): CodeGenerator.process runs the same      *)
(* generation loop without the dict; generate_field returns None, and the *)
(* field is dropped, for a type spec it does not know.                    *)
(* gen_codec.py ("lark"): generate_header filters the messages and        *)
(* constants out of the definitions itself and numbers the messages with  *)
(* enumerate(messages, 1); it writes the enumeration only if there is a   *)
(* message.                                                                *)
(* Each header declares, in this order: the message_type_t enumeration,   *)
(* one #define per constant, and per message a typedef struct with its    *)
(* fields.                                                                 *)
(*                                                                         *)
(* main() takes the input files in order: a missing file, or one whose     *)
(* parse raises, is reported and skipped (continue); any other gets a new  *)
(* CodeGenerator, and its header is written to <output_dir>/<stem>.h.     *)
(*                                                                         *)
(* A parsed file is a sequence of definition records; a C type is          *)
(* abstracted to its kind and the PDL name it came from.                   *)
(***************************************************************************)
EXTENDS Integers, Sequences, FiniteSets, SequencesExt

CONSTANTS
  Names,      \* the identifiers a file uses for definitions and fields
  Upper,      \* name -> its upper-cased form (str.upper, jinja's |upper)
  BaseTypes,  \* the PDL base types get_c_type maps (u8 ... f64)
  Schemas,    \* the parsed files (process_ast's ast['definitions'])
  Generators, \* the generators run: a subset of {"fixed", "final", "lark"}
  Stems,      \* the input file names' stems (input_path.stem)
  InputLists  \* the command lines: sequences of [stem, src]

Kinds == {"primitive", "message", "constant", "bit_field"}

(***************************************************************************)
(* A message field: "ref" (a TypeReference), "array" (a SimpleArrayType of *)
(* elements of type), "bits" (a BitFieldType of length len) or "other"     *)
(* (any other type_spec, the generator's fallback).                        *)
(***************************************************************************)
FieldRecs ==
  [name : Names, kind : {"ref", "array", "bits", "other"},
   type : Names \cup BaseTypes, len : 1 .. 64]

Defs == [name : Names, kind : Kinds, fields : Seq(FieldRecs), tref : Names \cup BaseTypes]

\* A file: one that parses to a schema, or one that is missing or does not parse.
Sources == [status : {"ok"}, defs : Schemas]
             \cup [status : {"missing", "unparsable"}, defs : {<<>>}]

ASSUME /\ Upper \in [Names -> STRING] /\ Schemas \subseteq Seq(Defs)
       /\ Generators \subseteq {"fixed", "final", "lark"}
       /\ InputLists \subseteq Seq([stem : Stems, src : Sources])

\* get_c_type: the type_map entry of a base type, else name + "_t".
CType(t) ==
  IF t \in BaseTypes THEN [c |-> "base", n |-> t] ELSE [c |-> "named", n |-> t]

\* get_bit_field_type: the unsigned type that holds len bits.
BitFieldCType(len) ==
  [c |-> "base", n |-> IF len <= 8 THEN "u8" ELSE IF len <= 16 THEN "u16"
                       ELSE IF len <= 32 THEN "u32" ELSE "u64"]

\* generate_field: the member's C type.
FieldCType(f) ==
  CASE f.kind = "bits"  -> BitFieldCType(f.len)
    [] f.kind = "array" -> [c |-> "array", n |-> f.type]
    [] f.kind = "ref"   -> CType(f.type)
    [] OTHER            -> [c |-> "base", n |-> "u8"]

(***************************************************************************)
(* The members of a message: fixed's generate_field falls back to uint8_t  *)
(* for a type spec it does not know; final's returns None and the field is *)
(* dropped ("if field:"), and gen_codec.py writes no line for it.          *)
(***************************************************************************)
Members(g, fs) ==
  LET kept == IF g = "fixed" THEN fs ELSE SelectSeq(fs, LAMBDA f : f.kind # "other")
  IN  [k \in DOMAIN kept |-> [name |-> kept[k].name, ctype |-> FieldCType(kept[k])]]

VARIABLES
  gen,        \* which generator main() runs
  inputs,     \* args.input_files, each with the stem and content of its file
  f,          \* index of the input file the driver loop is at
  ast,        \* the definitions of the file being processed
  phase,      \* "next", "register", "generate", "render", "write", "exit"
  i,          \* index of the definition the running loop is at
  types,      \* self.types: name -> definition (fixed only)
  counter,    \* self.message_type_counter
  messages,   \* generated['messages']
  constants,  \* generated['constants']
  out         \* the output directory: stem -> the header in <stem>.h

vars == <<gen, inputs, f, ast, phase, i, types, counter, messages, constants, out>>
gvars == <<ast, i, types, counter, messages, constants>>

Init ==
  /\ gen \in Generators /\ inputs \in InputLists
  /\ f = 1 /\ phase = "next" /\ out = <<>>
  /\ ast = <<>> /\ i = 1 /\ types = <<>> /\ counter = 1
  /\ messages = <<>> /\ constants = <<>>

Cur == ast[i]

(***************************************************************************)
(* The driver loop of main().                                              *)
(***************************************************************************)
\* if not input_path.exists(): print "File not found"; continue
FileNotFound ==
  /\ phase = "next" /\ f <= Len(inputs) /\ inputs[f].src.status = "missing"
  /\ f' = f + 1
  /\ UNCHANGED <<gen, inputs, phase, out>> /\ UNCHANGED gvars

\* parser.parse raises; except Exception: print "Error processing"; continue
ParseFails ==
  /\ phase = "next" /\ f <= Len(inputs) /\ inputs[f].src.status = "unparsable"
  /\ f' = f + 1
  /\ UNCHANGED <<gen, inputs, phase, out>> /\ UNCHANGED gvars

\* The first phase of a new generator.
FirstPhase == CASE gen = "fixed" -> "register" [] gen = "final" -> "generate"
                [] OTHER -> "render"

\* Mutant: the generator object is reused, message_type_counter not reset.
OpenFileKeepsCounter ==
  /\ phase = "next" /\ f <= Len(inputs) /\ inputs[f].src.status = "ok"
  /\ ast' = inputs[f].src.defs /\ i' = 1 /\ types' = <<>> /\ counter' = counter
  /\ messages' = <<>> /\ constants' = <<>> /\ phase' = FirstPhase
  /\ UNCHANGED <<gen, inputs, f, out>>

\* The file parses: codegen = CodeGenerator(namespace), counter = 1.
OpenFile ==
  /\ phase = "next" /\ f <= Len(inputs) /\ inputs[f].src.status = "ok"
  /\ ast' = inputs[f].src.defs /\ i' = 1 /\ types' = <<>> /\ counter' = 1
  /\ messages' = <<>> /\ constants' = <<>> /\ phase' = FirstPhase
  /\ UNCHANGED <<gen, inputs, f, out>>

\* The loop over args.input_files is over; main() returns (exit status 0).
Exit ==
  /\ phase = "next" /\ f = Len(inputs) + 1
  /\ phase' = "exit"
  /\ UNCHANGED <<gen, inputs, f, out>> /\ UNCHANGED gvars

(***************************************************************************)
(* fixed's process_ast and final's process.                                *)
(***************************************************************************)
\* for defn in ast['definitions']: self.types[defn.name] = defn.type_def
Register ==
  /\ phase = "register" /\ i <= Len(ast)
  /\ types' = [n \in DOMAIN types \cup {Cur.name} |->
                IF n = Cur.name THEN Cur ELSE types[n]]
  /\ i' = i + 1
  /\ UNCHANGED <<gen, inputs, f, ast, phase, counter, messages, constants, out>>

\* The registration loop is over; the generation loop starts.
StartGenerate ==
  /\ phase = "register" /\ i = Len(ast) + 1
  /\ phase' = "generate" /\ i' = 1
  /\ UNCHANGED <<gen, inputs, f, ast, types, counter, messages, constants, out>>

\* generate_message, then self.message_type_counter += 1.
GenMessage ==
  /\ phase = "generate" /\ i <= Len(ast) /\ Cur.kind = "message"
  /\ messages' = Append(messages,
        [name |-> Cur.name, id |-> counter, fields |-> Members(gen, Cur.fields)])
  /\ counter' = counter + 1
  /\ i' = i + 1
  /\ UNCHANGED <<gen, inputs, f, ast, phase, types, constants, out>>

\* Mutant: the constant's name is not upper-cased.
GenConstantNoUpper ==
  /\ phase = "generate" /\ i <= Len(ast) /\ Cur.kind = "constant"
  /\ constants' = Append(constants, [name |-> Cur.name, ctype |-> CType(Cur.tref)])
  /\ i' = i + 1
  /\ UNCHANGED <<gen, inputs, f, ast, phase, types, counter, messages, out>>

\* generate_constant: name.upper() and get_c_type(type_ref).
GenConstant ==
  /\ phase = "generate" /\ i <= Len(ast) /\ Cur.kind = "constant"
  /\ constants' = Append(constants, [name |-> Upper[Cur.name], ctype |-> CType(Cur.tref)])
  /\ i' = i + 1
  /\ UNCHANGED <<gen, inputs, f, ast, phase, types, counter, messages, out>>

\* Primitive and bit-field definitions produce nothing.
SkipDefinition ==
  /\ phase = "generate" /\ i <= Len(ast) /\ Cur.kind \in {"primitive", "bit_field"}
  /\ i' = i + 1
  /\ UNCHANGED <<gen, inputs, f, ast, phase, types, counter, messages, constants, out>>

\* The generation loop returns generated; generate_header renders it.
Finish ==
  /\ phase = "generate" /\ i = Len(ast) + 1
  /\ phase' = "write"
  /\ UNCHANGED <<gen, inputs, f, out>> /\ UNCHANGED gvars

\* The definitions of a kind in a file, in file order.
OfKind(s, k) == SelectSeq(s, LAMBDA d : d.kind = k)

\* gen_codec.py's generate_header: messages and constants are the list
\* comprehensions over the definitions, numbered by enumerate(messages, 1).
LarkRender ==
  /\ phase = "render"
  /\ LET ms == OfKind(ast, "message")  cs == OfKind(ast, "constant") IN
       /\ messages' = [k \in DOMAIN ms |->
                         [name |-> ms[k].name, id |-> k, fields |-> Members(gen, ms[k].fields)]]
       /\ constants' = [k \in DOMAIN cs |->
                         [name |-> Upper[cs[k].name], ctype |-> CType(cs[k].tref)]]
  /\ phase' = "write"
  /\ UNCHANGED <<gen, inputs, f, ast, i, types, counter, out>>

-----------------------------------------------------------------------------
(***************************************************************************)
(* The header generate_header renders.                                     *)
(***************************************************************************)
\* {{message.name|upper}}_MESSAGE_TYPE = {{message.message_type_id}}
EnumEntries == [k \in DOMAIN messages |-> [name |-> Upper[messages[k].name], id |-> messages[k].id]]

\* #define {{const.name}} (({{const.type}}){{const.value}}), name already upper
Macros == constants

\* typedef struct {{message.name}}_t { const int message_type; fields } ...
Typedefs ==
  [k \in DOMAIN messages |->
     [name |-> messages[k].name,
      members |-> <<[name |-> "message_type", ctype |-> [c |-> "base", n |-> "int"]]>>
                  \o messages[k].fields]]

\* Whether "typedef enum {" is written: fixed's template and final's lines
\* write it unconditionally, gen_codec.py only "if messages:".
WritesEnum == gen # "lark" \/ messages # <<>>

\* The header: the enumeration, the #defines, then one typedef per message.
Header ==
  [hasEnum |-> WritesEnum, enum |-> EnumEntries, macros |-> Macros, typedefs |-> Typedefs]

\* open(output_dir / f"{input_path.stem}.h", 'w').write(header_content)
WriteHeader ==
  /\ phase = "write"
  /\ out' = [s \in DOMAIN out \cup {inputs[f].stem} |->
               IF s = inputs[f].stem THEN Header ELSE out[s]]
  /\ f' = f + 1 /\ phase' = "next"
  /\ UNCHANGED <<gen, inputs>> /\ UNCHANGED gvars

\* main() has returned.
Finished == phase = "exit" /\ UNCHANGED vars

Next ==
  \/ FileNotFound \/ ParseFails \/ OpenFile \/ Exit
  \/ Register \/ StartGenerate \/ GenMessage \/ GenConstant \/ SkipDefinition
  \/ Finish \/ LarkRender \/ WriteHeader \/ Finished

\* main() is a straight-line loop over a finite list: it runs to the end.
Spec == Init /\ [][Next]_vars /\ WF_vars(Next)

-----------------------------------------------------------------------------
TypeOK ==
  /\ gen \in Generators /\ inputs \in InputLists
  /\ f \in 1 .. Len(inputs) + 1
  /\ phase \in {"next", "register", "generate", "render", "write", "exit"}
  /\ ast \in Schemas \cup {<<>>}
  /\ i \in 1 .. Len(ast) + 1
  /\ DOMAIN types \subseteq Names /\ \A n \in DOMAIN types : types[n] \in Range(ast)
  /\ counter \in 1 .. Len(ast) + 1
  /\ \A k \in DOMAIN messages : messages[k].name \in Names
  /\ \A k \in DOMAIN constants : constants[k].name \in Range(Upper)
  /\ DOMAIN out \subseteq Stems

\* The inputs that get a header, and the one whose header a stem keeps.
Written == {k \in DOMAIN inputs : inputs[k].src.status = "ok"}
LastSource(s) == inputs[Max({k \in Written : inputs[k].stem = s})].src.defs

\* What a header declares, by name: enumerators, #defines, typedefs.
Shape(h) ==
  [enum |-> h.enum, macros |-> [k \in DOMAIN h.macros |-> h.macros[k].name],
   typedefs |-> [k \in DOMAIN h.typedefs |-> h.typedefs[k].name]]

\* The header spec.md 3, 4.2 and 5 give a file: one enumerator per message,
\* numbered from 1 in definition order, one #define per constant, one
\* typedef per message.
Expected(s) ==
  LET ms == OfKind(s, "message")  cs == OfKind(s, "constant") IN
  [enum |-> [k \in DOMAIN ms |-> [name |-> Upper[ms[k].name], id |-> k]],
   macros |-> [k \in DOMAIN cs |-> Upper[cs[k].name]],
   typedefs |-> [k \in DOMAIN ms |-> ms[k].name]]

(***************************************************************************)
(* When main() returns, the output directory holds exactly one header per  *)
(* stem of an input that exists and parses, and that header follows the   *)
(* last such input of the stem: message ordinals restart at 1 for every    *)
(* compilation unit (spec.md 3), whatever files were skipped or processed  *)
(* before it by the driver loop.                                           *)
(***************************************************************************)
HeadersFollowInputs ==
  phase = "exit" =>
    /\ DOMAIN out = {inputs[k].stem : k \in Written}
    /\ \A s \in DOMAIN out : Shape(out[s]) = Expected(LastSource(s))

\* The names a header declares at file scope.
Declared(h) ==
  {<<"enum", "message_type_t">> : x \in IF h.hasEnum THEN {1} ELSE {}}
  \cup {<<"enumerator", e.name>> : e \in Range(h.enum)}
  \cup {<<"macro", m.name>> : m \in Range(h.macros)}
  \cup {<<"typedef", t.name>> : t \in Range(h.typedefs)}

\* A header compiles on its own: the enumeration, if written, is not empty;
\* no name is declared twice; a member of a named type refers to a typedef
\* written earlier; a constant's cast is to a base type.
HeaderCompiles(h) ==
  /\ h.hasEnum => h.enum # <<>>
  /\ IsInjective([k \in DOMAIN h.typedefs |-> h.typedefs[k].name])
  /\ IsInjective([k \in DOMAIN h.macros |-> h.macros[k].name])
  /\ \A k \in DOMAIN h.typedefs : \A m \in Range(h.typedefs[k].members) :
        m.ctype.c = "named" => \E j \in 1 .. k - 1 : h.typedefs[j].name = m.ctype.n
  /\ \A k \in DOMAIN h.macros : h.macros[k].ctype.c = "base"

(***************************************************************************)
(* The headers main() writes compile, alone and included together: spec.md *)
(* 4.2 (forward references resolve; an unknown name yields no code) and 6 *)
(* (the namespace prefix disambiguates generated symbols across schemas),  *)
(* checked over every header in the output directory when main() returns.  *)
(***************************************************************************)
HeadersCompile ==
  phase = "exit" =>
    /\ \A s \in DOMAIN out : HeaderCompiles(out[s])
    /\ \A s, t \in DOMAIN out : s # t => Declared(out[s]) \cap Declared(out[t]) = {}
====
