# TLA+ models of the protocol_toolkit codec generators

The repository's Python sources are schema-to-C code generators. They read a
description of binary message formats and emit C functions that decode a byte
buffer into a struct and encode it back. This directory holds TLA+ models of
those generators and of the C code they emit, the TLC configurations that check
them, and `PROJECT.json`, which maps every modelled definition to the source
lines it translates.

## The system

`spec.md` describes a pipeline: Parser → Registry → Byte-Layout Engine and
Bit-Field Planner → Code Emitter → Driver. In `src/` it exists as several
generations of one tool:

| Source | What it is |
|---|---|
| `src/attic/gen_codec/gen_codec.py` | Regex-based generator. It reads C-like `struct S { codec_u16_be a; ... }` files and emits a header and `S_decode`, `S_encode`, `S_dispose` and `S_log_impl` for each struct. It holds the only byte-layout engine (`get_decode_code`, `get_encode_code`) and the only emitted decode/encode bodies. |
| `src/tools/gen_codec/attic/gen_codec.py`, `gen_codec_final.py`, `gen_codec_fixed.py` | Lark-grammar generators for the PDL language (`def x = { type: ..., ... }`). Each has a transformer to an AST, a registry (`process_ast`/`process`), field typing (`generate_field`), a message-type enumeration and a Jinja header. The header has inline bit-field accessors and no codec bodies. |
| `src/tools/gen_codec/attic/gen_codec_v2.py` | The same generator with a regex `SimplePDLParser` in place of Lark. |
| `src/tools/gen_codec/attic/test_parser.py`, `debug_ast.py` | Scripts that print the parse of one fixed input. |
| `src/update_modbus_buffers.py`, `update_modbus_buffers_v2.py`, `src/fix_modbus_files.py` | One-shot regex rewrites of the Modbus example C files. They are not part of the generator. An update script moves each request function from a `ptk_buf_create`d buffer to the connection's shared buffer. Then `fix_modbus_files` cleans up what the update left. |

How the parts interact. In the attic generator, `parse_file` calls
`parse_struct_fields` for each struct. `generate_implementation` then walks the
field list. For each scalar field it splices in the byte program from
`get_decode_code` or `get_encode_code`. For each pointer field it emits a call
to a user-written hook `S_<f>_decode`, `S_<f>_encode` or `S_<f>_dispose`. At run
time the emitted code works on a `buf` through `buf_get_u8`, `buf_set_u8`,
`buf_len` and `buf_from_buf`, and on the heap through `malloc` and `free`. The
application calls `S_decode`, may call `S_encode`, and must call `S_dispose`.

## Modules

| Module | Models | State and actions ↔ code |
|---|---|---|
| `ByteLayout` | The byte-transcription programs of the attic generator for every codec type, integer and float. | A scalar is its significance bytes `v[k] = (v >> 8k) & 0xFF`. The wire is the C array `bytes[]`. `DecodeTerms(t)` lists the `bytes[j] << s` terms that `get_decode_code` writes. `Decode` evaluates their OR per significance byte, with `Bitwise`'s `\|`, so a repeated or missing shift shows up. `EncodeTerms(t)` lists the `bytes[j] = (v >> s) & 0xFF` assignments that `get_encode_code` writes, in emission order (the 8-byte cases are its loops over `byte_order`). `Encode` applies them in that order with `FoldLeft`. A harness encodes then decodes (mode "value") or decodes then encodes (mode "wire"). A float type (`codec_f32_*`, `codec_f64_*`) is represented by the significance bytes of its IEEE-754 bit pattern. Its decode ORs the bytes into an `int` (4 bytes, so a top byte of 0x80 or more wraps negative, as gcc does) or `uint64_t` and assigns that to the float field: a numeric conversion, which `ToFloatBits` computes bit by bit with round to nearest even. The union copy after it changes nothing. Encode is a bit copy. `SpecWire`/`SpecRead` are the layout spec.md 4.3 and its section 8 vectors prescribe. |
| `GeneratedCodec` | `S_decode`, `S_encode` and `S_dispose` as emitted for one struct, run by an application. | `ParseField` is `parse_struct_fields`: a `struct T name` member becomes type "struct" of size 0. Actions follow the emitted code. `DecodeAlloc` is the malloc, memset and `offset = 0`, and can fail. `DecodeHook` is a pointer-field hook with any code in `HookResults`, calling `S_dispose(result)` on failure. `DecodeScalar` is one scalar or array element: `buf_get_u8` at `offset + i`, return on the first out-of-bounds byte, otherwise `offset += size`. `DecodeNextField` ends the array loop. `DecodeFinish` is `buf_from_buf` plus `*value = result`. The encode actions mirror these. `AppDispose` and `AppGiveUp` are the application. The state records `live` (the struct block and each hooked resource), the logs `reads` and `writes` of byte offsets touched, the return codes, `*value` (`out`) and the remaining buffer (`rem`). Byte values are abstracted away here because `ByteLayout` models them. |
| `CodecContract` | What the three generated functions promise their caller (spec.md 4.5), with no loop or hook in it. | `Decode` returns once: OK only if the input holds `Need` bytes, with the value owning all of `Res` and the remaining buffer starting at `Need`; otherwise an error. `StartEncode`/`Encode`: an OK value is encoded once, and encoding succeeds only if the output holds `Need` bytes. `Release` is `S_dispose`. `GiveUp` is the caller dropping a failed decode. `GeneratedCodec` instantiates it as `Contract` with the refinement mapping `ContractSt`/`ContractEnc`. `Need` is the parsed wire size. `held` is `live` once `S_decode` returned OK. Every step inside a running decode or encode maps to a stuttering step. |
| `BitField` | The static inline `<name>_get_<f>` / `<name>_set_<f>` accessors that the PDL generators' header template emits for a bit-field (`gen_codec_fixed.py` lines 501-514; the same lines appear in the other three PDL generators), and `get_bit_field_type`. | A C value is a record `[bits, w, signed]`. `Mask`, `ShiftLeft`, `ShiftRight`, `BitAnd`, `BitOr` and `BitNot` apply C's integer promotions and usual arithmetic conversions, with `int` `IntBits` wide. A shift by at least the operand's width is undefined behaviour. The build picks its outcome once per accessor in `Init` (`ub`): the hardware's shift modulo the width, or the constant folder's 0. `Get`, `Clear` and `Insert` are the three emitted statements. `Set` is the whole setter: clear, insert and `msg->F = value`. `StoreContainer` is the application, or a decode, writing the container directly. `last` and `before` record the last setter call and what every getter returned before it. |
| `Registry` | The three Lark-grammar generators run by their shared `main()` loop: `process_ast` of `gen_codec_fixed.py`, `process` of `gen_codec_final.py` and `generate_header` of `gen_codec.py`, with `generate_message`, `generate_field`, `generate_constant`, `get_c_type` and the enumeration, `#define`s and typedefs of each header. | `gen` is the generator `Init` picks and `inputs` the command line: each file has a stem and is missing, unparsable or a parsed schema. `FileNotFound` and `ParseFails` are the two `continue`s of `main()`. `OpenFile` creates a new `CodeGenerator` (counter 1). `WriteHeader` writes `<stem>.h` into `out`, replacing a header of the same stem. `Exit` is the end of the loop. `ast` is the parsed file, as a sequence of definition records (the AST dataclasses). `Register` is one iteration of the registration loop into `types`. `GenMessage`, `GenConstant` and `SkipDefinition` are one iteration of the generation loop, each for its definition kind. `counter` is `message_type_counter`. `Finish` hands the result to `generate_header`. `LarkRender` is `gen_codec.py`'s `generate_header`, which filters and numbers the definitions itself. `Members` is `generate_field`: `fixed` falls back to `uint8_t` for an unknown type spec, `final` and `gen_codec.py` drop the field. `Header` is what gets rendered: `EnumEntries`, `Macros`, `Typedefs`, and whether `typedef enum` is written at all (`gen_codec.py` only when there is a message). |
| `ModbusRewrite` | The update scripts (`update_buffer_usage`, `update_file_comprehensively`), then `clean_modbus_file`, with both scripts' `main` loops. | A file is a token sequence: one token per statement or part of a line that a pattern tells apart, and `nl` for a newline. `ReSub` is `re.sub` with Python's leftmost, non-overlapping scan. Each pattern is an `...End(s, i)` operator that says where a match starting at `i` ends: `CreateBlockEnd`, `CommentBlockEnd` (the DOTALL `.*?`), `DisposeReturnEnd`, `DisposeEnd`, `FnEnd` (`function_pattern`), `SendReturnEnd`. `UpdateFile` rewrites one file with the update script chosen in `Init` (`updater`). `CleanRead`, `CleanPass` (one turn of the `while` loop) and `CleanWrite` are `clean_modbus_file`. `SkipMissing` is "File not found". The substitutions that only re-indent or merge blank lines are left out. The ones that join a line onto the previous one are kept, because `fix_function` only rewrites declarations that start a line. The operators were compared with the real scripts on 180 generated functions (both update scripts, then the fix), with newlines ignored in the final output. They agreed on all of them. |
| `PdlParser` | `SimplePDLParser` of `gen_codec_v2.py` (`parse_file`, `parse_definition_body`, `parse_value`, `parse_fields`), then `CodeGenerator.process` of the same file, as `main` runs them. | The text is a token sequence. Each regex is modelled by what it matches over tokens: `DefAt`/`DefEnd` for the definition pattern, whose body stops at the first `}`, and `AttrScan` for the attribute pattern, whose values stop at `,` or `}`. `SplitLoop` is the depth-counting comma splitter, which no input of the real pipeline reaches with a comma in it. `ScanDef`, `ScanSkip` and `ScanEnd` are the `re.finditer` loop. `ScanCrash` is an exception that `main` catches (the file is skipped). `Process` folds `ProcessStep` over the parsed definitions. |

The MC modules (`MCByteLayout`, `MCGeneratedCodec`, `MCBitField`, `MCRegistry`,
`MCPdlParser`, `MCModbusRewrite`) instantiate the constants.

## Runs

| Run | Config | Expect | What it checks |
|---|---|---|---|
| `bytelayout_roundtrip` | `MCByteLayout.cfg` | pass | `RoundTrip`: `decode(encode(v)) = v` and `encode(decode(w)) = w` for all 11 integer codec types, with every byte in {0, 1, 255}: 3^8 values of each 8-byte type in each direction. |
| `bytelayout_spec_order` | `MCByteLayout_order.cfg` | violation | `SpecPlan`: over all 19 codec types, the encoded wire is the spec's layout of the value, and the decoded value is the spec's reading of the wire (a bit-identical reinterpretation for floats). Violated by `_be_bs` and by every float decode (see Findings). |
| `codec_core` | `MCGeneratedCodec.cfg` | pass | Checks five properties. `DecodeConsumesWire`: an OK decode read exactly bytes `0..WireSize-1`, in order, and handed back the rest. `ExactFitDecodes`: the bounds checks fail only when the input is shorter than the wire size, so a last field ending exactly at `buf_len` decodes. `EncodeMirrorsDecode`: an OK encode wrote the same offsets in the same order. `Ownership`: `*value` is set iff OK; while the value is held, the struct and every pointer-field resource are live, and after `S_dispose` none is. `ContractSpec`: the functions implement `CodecContract`. Every call returns exactly once, and decode and encode succeed only with the wire size available. Encode happens only on an OK value and dispose releases all of it. This includes termination. The struct is `{u8; u16[2]; u8 *p; other_t x}`. Input and output lengths range over 0..6, malloc may fail and hooks may fail. |
| `codec_leak` | `MCGeneratedCodec_leak.cfg` | violation | `NoLeakOnError`: a failed decode leaves nothing allocated. Violated. |
| `codec_nested` | `MCGeneratedCodec_nested.cfg` | violation | `NestedRecordsTranscribed`: an OK decode of `{u8; struct T(2 bytes); u16}` reads the 5 declared bytes. Violated: it reads 3. |
| `bitfield_core` | `MCBitField.cfg` | pass | Checks two properties. `SetThenGet`: after `set_f(v)`, `get_f` returns the low `length` bits of `v`. `SetKeepsOthers`: every non-overlapping field reads the same as before the call. Both hold under any interleaving of setter calls and direct container writes. The container is 32-bit and holds four fields: 1 bit at 0, 3 at 1, 8 at 8, and 31 at 1. The 31-bit mask is `INT_MIN - 1`, which wraps. |
| `bitfield_wide` | `MCBitField_wide.cfg` | violation | `SetThenGet` in a 64-bit container with a 40-bit field, a field at bit 40 and a field at bit 60 of length 8, which runs past the container's end. Violated (see Findings). |
| `registry_core` | `MCRegistry.cfg` | pass | `HeadersFollowInputs`: when `main()` returns, each stem of a file that parsed has exactly one header, from the last such file of that stem, and nothing else is written. That header has one enumerator per message, in file order, numbered 1, 2, ... with no gap, one `#define` per constant and one typedef per message. It holds for all three generators, for skipped files anywhere in the command line and for a stem given twice. |
| `registry_forward` | `MCRegistry_forward.cfg` | violation | `HeadersCompile`: every header compiles on its own (a written enumeration is not empty, no typedef or macro is declared twice, every named member type is typedef'd earlier, every constant is cast to a base type), and no two headers declare the same name. Violated (see Findings). |
| `pdl_process` | `MCPdlParser.cfg` | pass | Checks `ProcessFollowsParse`: over every file of up to two definitions, `process` numbers the parsed messages 1, 2, ... in order and keeps every parsed constant. `parse_fields`' depth-counting splitter is modelled but has no property of its own: the attribute pattern cuts a field list at its first comma, and `.strip()` raises on a bracketed value first, so the program never gives the splitter a comma to split at. |
| `pdl_grammar` | `MCPdlParser_grammar.cfg` | violation | `ParseMatchesGrammar`: a grammatical file parses without error to its definitions. Violated (see Findings). |
| `modbus_rewrite` | `MCModbusRewrite.cfg` | violation | `RewriteKeepsErrLegal`: after an update script and `fix_modbus_files`, every function declares `err` at most once, before any use, and assigns it only calls. This held before the rewrite. Violated with either update script (see Findings). |

Each property of a passing run has a mutant in `PROJECT.json`. A mutant is a
plausible bug in the modelled code that TLC must catch:
- a transposed byte index in the 8-byte `be_bs` decode;
- a decode result without its width cast;
- an `offset + i - 1` index;
- a missing `offset += size`;
- an encode array loop that stops one element early;
- an `S_dispose` that skips the field hooks;
- a malloc NULL check with no `return`, which breaks the refinement;
- a bit-field mask `(1 << (L-1)) - 1`;
- a clear mask not shifted to the field's start;
- a setter that caches the container word;
- a constant branch that bumps the message counter (`PdlParser`);
- a generator reused across files, so the counter is not reset;
- a constant name left in lower case;
- a comma splitter whose closing brackets do not lower the depth;
- a definition scan that resumes one token late.

### Bounds

- **Byte values {0, 1, 255}.** 0 and 255 give all-zero and all-one bytes. 1 gives a value whose bytes differ, so any permutation or lost byte changes the result.
- **The flat struct.** It has one field of each kind the emitter handles: a 1-byte scalar, a 2-byte array of 2 elements, a pointer and a size-0 unknown type. Its wire size is 5.
- **Lengths 0..6.** These cover every cut point inside each field and a buffer one byte longer than the struct. Decodes therefore fail inside every field, end exactly at the buffer's end, or leave a remainder.
- **Bit-field values.** Each field gets zero, all ones in its width, and a single high bit. The 3-bit field also gets `0b1001`, one bit wider than the field. Container writes are all zeros and all ones. The four fields include adjacent ones (bit 0, bits 1-3), a byte-aligned one, and one that overlaps the others and reaches the sign bit.
- **Registry files.** These are all sequences of up to three definitions over five forms: two messages named `a` (one refers to `b`), a message `b` with a bit-field and an inline field, a message `b` that contains itself, a constant and a primitive. That gives duplicates, forward references, undefined references, a self-referential record, and every interleaving of kinds.
- **Registry command lines.** Each generator runs on one file (any of the above, missing, or unparsable), or on two files of at most one definition each, either of which may be missing or unparsable, under stems `s1` then `s1` or `s2`. Two files are enough for a counter carried over, a skipped file between two processed ones, a stem overwritten and two headers that collide; about 10.7k states.
- **Modbus files.** There are two paths, either of which may be missing. Each holds one of two request shapes. The first is the one the scripts' patterns describe: a comment, a checked `ptk_buf_create`, a checked call that disposes on error, then send, dispose and `return err`. The second has an unchecked create and `ptk_err err = modbus_send_frame(...)`. An `ASSUME` requires every input to use `err` legally.
- **Parser files.** These are all files of up to two definitions over seven forms, one per form of the spec.md 4.1 grammar: a primitive, messages with 0, 1 and 2 fields, a constant of a base type, a constant of a defined type, and a bit-field.

### Fairness

`main()` with `process_ast`/`process`/`generate_header`, `parse_file`, `process` and the Modbus scripts are loops with no
blocking, so they are weakly fair too (`WF_vars(Next)`). The bit-field accessors are called by the
application, so `BitField` has no fairness and no liveness property.

The emitted functions are straight-line single-threaded code: once called they
run to a return, so their steps are weakly fair (`WF` on the decode group and
on the encode group). The application is not assumed to call `S_encode` or
`S_dispose`. `CodecContract` has the same fairness: weak fairness on its
`Decode` and `Encode` and none on the caller's steps. `Finished` lets terminal states stutter, so deadlock checking
stays on.

## Findings

1. **The word-swapped byte orders differ from the spec.** For 32-bit values, `_be_bs` sends 0x12345678 as `78 56 12 34` and `_le_bs` as `56 78 12 34`. spec.md prescribes `56 78 12 34` (SwappedBig) and `34 12 78 56` (SwappedLittle). The 8-byte `_be_bs` and `_le_bs` programs are identical. Decode and encode still invert each other.
2. **Scalar out-of-bounds errors leak.** `S_decode` returns at a scalar bounds error without `S_dispose(result)`. This loses the struct and any hooked resources.
3. **Nested records are not transcribed.** `parse_struct_fields` turns `struct T name` into a field of type `struct` with no code, so the embedded record's bytes are skipped and the nested-record emitter branches are dead.
4. **Bit-fields past bit 31 lose their bits.** The mask and the shifted value are `int` expressions. In a `uint64_t` container, a `uint8_t` field at bit 40 is promoted to `int` and shifted by 40, which is undefined, so set-then-get returns 0.
   - `start_bit + length` is never checked against the container width, so no `InvalidBitFieldRange` is raised (spec.md 3). A field past the container's end is generated and its high bits are cut off. Checked alone with a 16-bit container and a field at bits 12-19: set-then-get of 0xFF returns 0x0F.
5. **Duplicate definitions are generated twice.** `self.types[name] = ...` overwrites silently, and both definitions are still emitted, so the header declares the typedef twice. No `DuplicateDefinition` error is raised. `final` and `gen_codec.py` have no registration at all and do the same.
6. **Undefined and forward type references compile into a broken header.** `get_c_type` turns any name into `name_t`. Typedefs follow definition order. No `UnknownType` error is raised.
   - A schema with no message gets `typedef enum { } message_type_t;` from `fixed` and `final`, which gcc rejects ("empty enum is invalid"). `gen_codec.py` guards it.
   - Every header declares `message_type_t` and unprefixed enumerators, typedefs and macros; the namespace is only in the include guard. Two headers in one translation unit fail ("conflicting types for 'message_type_t'", checked with gcc), contrary to spec.md 6.
   - A message that contains itself by value (`b { x: b }`) is not rejected with `SelfReferentialRecord` (spec.md 4.2). It becomes `typedef struct b_t { const int message_type; b_t x; } b_t;`, which gcc rejects ("unknown type name 'b_t'").
   - The run's trace is the shortest of these (the empty enumeration); each was also found alone by restricting the invariant to it.
   Findings 5 and 6 are about the back end. The Lark front ends may not reach it with a non-empty file. Their grammars have rules with no transformer method: `start`, `type_definition` and `field_spec` in `fixed`, `type_def` in `final`, and `type_definition` in `gen_codec.py`. Lark leaves such a rule as a `Tree`, which the next method indexes or unpacks as a definition. `Registry` starts from the AST the transformers were written to build, so it allows more files than the programs accept. The empty-enumeration trace of finding 6 uses an empty file, which is reachable under `final`.
7. **The v2 regex parser cannot produce a message with fields.** A field-list value stops at the first `,`. With one field the list reaches `parse_fields`, whose `.strip()` raises `AttributeError`; with two or more fields, the message gets no fields. A constant of a base type becomes a primitive. These three outcomes were also confirmed by running the real parser on the same inputs.
8. **The Modbus rewrite breaks the functions it updates.**
   - Both update scripts add `ptk_err err = ptk_buf_set_start(...)` inside a block that ends with an `if (err != PTK_OK) { return err; }` check. `fix_modbus_files` matches only two declarations with no `}` between them, so the function keeps both declarations of `err`.
   - `pattern2` of `update_modbus_buffers` removes the dispose before `pattern3` can rewrite the send, and v2 removes every dispose. So the sends stay `err = modbus_send_frame(...); return err;`. `fix_modbus_files`' last substitution then turns that into `err = return modbus_send_frame(conn, pdu_buf);`.
   - Running the real scripts on the same function gives the same output.
   - When `fix_function` does fire, it rewrites the first declaration too ("Keep only the first one" says otherwise).

9. **Float decode is a numeric conversion.** The generated decode assigns the assembled integer to the float field, so `3f 80 00 00` (1.0f) decodes to 1065353216.0 and re-encodes as `4e 7e 00 00`. spec.md 4.3 requires a bit-identical reinterpretation. gcc on the generated code agrees with the model on 960 random wires.

## Not modelled (yet)

- The Lark grammar and its `PDLTransformer`. `Registry` starts from the AST they build. What a transformer method receives depends on the Lark library: which anonymous tokens it filters out, and how its lexer resolves keywords against names. The library is neither in the repository nor installed, so a model of those rules could not be checked against it.
- The attic generator's `generate_header`. It writes text with one loop per list and has no control of its own beyond that.
- The exit status of `main()`: it is 0 on every path, although spec.md 6 asks for non-zero when an input is missing or fails (listed as a hazard).
- The cached bit-field member. The spec leaves it an open question, so no property holds it to a rule.
- Header text, accessor prototypes, logging and argument parsing. These are formatting and I/O.

`PROJECT.json` lists each of these with its reason, and lists the hazards and
the properties that cover them.

## Plan

1. **Modbus termination.** Add a liveness run for the `while` loop of `fix_modbus_files`, with a declaration joined onto a line by v2's dispose removal. This needs a run to spare.
2. **The attic header emitter.** Check that its typedef members cover the fields that `S_decode` writes.
