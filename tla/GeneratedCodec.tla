---------------------------- MODULE GeneratedCodec ----------------------------
(***************************************************************************)
(* The C functions that src/attic/gen_codec/gen_codec.py generates for one *)
(* struct S of its input file, S_decode, S_encode and S_dispose, run by an *)
(* application that decodes an input buffer, may encode the value back     *)
(* into an output buffer, and disposes it.                                  *)
(*                                                                         *)
(* The struct is given as declared in the input (Decl) and is first put    *)
(* through CodeGenerator.parse_struct_fields, whose field list is what the *)
(* emitter walks.  Byte values are abstracted away (ByteLayout models      *)
(* them): a field is its byte size, and the buffers are their lengths and  *)
(* the log of offsets the generated code reads and writes.                 *)
(*                                                                         *)
(* Memory: ResultBlk is the block S_decode mallocs; a pointer field i, once *)
(* its user-supplied S_<f>_decode hook succeeds, owns a resource, recorded *)
(* as i in live; S_<f>_dispose releases it.                                *)
(***************************************************************************)
EXTENDS Integers, Sequences, FiniteSets, SequencesExt

CONSTANTS
  Decl,          \* the struct's fields as declared in the input file
  MaxLen,        \* largest input and output buffer the application passes
  HookResults,   \* the codes a user-supplied pointer-field hook may return
  MallocCanFail  \* whether malloc may return NULL

Errors == {"OUT_OF_BOUNDS", "NULL_PTR", "NO_MEMORY"}
Codes  == {"OK"} \cup Errors

(***************************************************************************)
(* A declared field: kind "codec" (a codec_* type of the given byte size), *)
(* "struct" (a "struct T name" member; size is T's wire size) or "other"   *)
(* (any other type name); ptr for "type *name"; isArr/count for            *)
(* "type name[count]".                                                     *)
(***************************************************************************)
DeclFields ==
  [kind : {"codec", "struct", "other"}, size : {1, 2, 4, 8},
   ptr : BOOLEAN, isArr : BOOLEAN, count : 0 .. 4]

ASSUME Decl \in Seq(DeclFields)
ASSUME MaxLen \in Nat
ASSUME HookResults \subseteq Codes /\ "OK" \in HookResults
ASSUME MallocCanFail \in BOOLEAN

(***************************************************************************)
(* parse_struct_fields: its field regex tries the alternative "\w+" first,  *)
(* so it matches "struct" alone as the type of "struct T name", takes T as *)
(* field name and drops the rest, so such a field has type "struct", no    *)
(* pointer and no array.  type_sizes gives size 0 to every type that is    *)
(* not a codec_* type.                                                     *)
(***************************************************************************)
ParseField(d) ==
  IF d.kind = "struct"
  THEN [size |-> 0, ptr |-> FALSE, isArr |-> FALSE, count |-> 0]
  ELSE [size |-> IF d.kind = "codec" THEN d.size ELSE 0,
        ptr |-> d.ptr, isArr |-> d.isArr, count |-> d.count]

Fields == [i \in 1 .. Len(Decl) |-> ParseField(Decl[i])]

NF == Len(Fields)

PtrFields == {i \in 1 .. NF : Fields[i].ptr}

\* The number of times the field's transcription runs (the array loop).
Reps(f) == IF f.isArr THEN f.count ELSE 1

\* Sum of sz(f) over the fields f of fs.
SumSizes(fs, sz(_)) == FoldSeq(+, 0, [i \in DOMAIN fs |-> sz(fs[i])])

\* Bytes the generated code transcribes for the parsed fields.
WireSize == SumSizes(Fields, LAMBDA f : IF f.ptr THEN 0 ELSE f.size * Reps(f))

\* Bytes the declared struct occupies on the wire (spec.md 4.5).
DeclWireSize ==
  SumSizes(Decl, LAMBDA d : IF d.ptr /\ d.kind # "struct" THEN 0
                            ELSE d.size * Reps(d))

\* Mutant: the byte loop indexes buf_get_u8 at offset + i - 1.
SpanOffByOne(from, n) == [j \in 1 .. n |-> from + j - 2]

\* The offsets from..from+n-1, in order.
Span(from, n) == [j \in 1 .. n |-> from + j - 1]

VARIABLES
  phase,      \* "call", "decode", "decoded", "encode", "encoded", "done"
  fld,        \* index of the field the running function is at
  el,         \* array element index within that field
  off,        \* the generated function's local "offset"
  len,        \* buf_len(input_buf)
  cap,        \* buf_len(output_buf)
  live,       \* allocated and not yet released: ResultBlk and pointer fields
  reads,      \* offsets of input_buf read by buf_get_u8, in order
  writes,     \* offsets of output_buf written by buf_set_u8, in order
  ret,        \* code S_decode returned, or "none"
  encRet,     \* code S_encode returned, or "none"
  out,        \* *value as the caller sees it: "result" or "NULL"
  rem         \* the remaining buffer set by buf_from_buf: [start, len]

vars == <<phase, fld, el, off, len, cap, live, reads, writes, ret, encRet, out, rem>>

Init ==
  /\ phase = "call"
  /\ fld = 1 /\ el = 0 /\ off = 0
  /\ len \in 0 .. MaxLen
  /\ cap \in 0 .. MaxLen
  /\ live = {}
  /\ reads = <<>> /\ writes = <<>>
  /\ ret = "none" /\ encRet = "none"
  /\ out = "NULL"
  /\ rem = [start |-> 0, len |-> 0]

Cur == Fields[fld]

\* The block S_decode mallocs, kept in live beside the pointer-field indices.
ResultBlk == 0

\* Mutant: S_dispose frees the struct block but skips the field hooks.
DisposeResultOnly(l) == l \ {ResultBlk}

(***************************************************************************)
(* S_dispose(value): every pointer field's S_<f>_dispose hook, then        *)
(* free(value).  Members of type "struct" have no dispose code (the        *)
(* "struct " branches never match a parsed type).                          *)
(***************************************************************************)
Dispose(l) == l \ ({ResultBlk} \cup PtrFields)

-----------------------------------------------------------------------------
(* S_decode *)

\* Mutant: the NULL check of malloc's result has no "return".
DecodeAllocNoReturn ==
  /\ phase = "call"
  /\ \/ /\ MallocCanFail
        /\ ret' = "NO_MEMORY"
        /\ phase' = "decode"
        /\ fld' = 1 /\ el' = 0 /\ off' = 0
        /\ UNCHANGED live
     \/ /\ live' = live \cup {ResultBlk}
        /\ phase' = "decode"
        /\ fld' = 1 /\ el' = 0 /\ off' = 0
        /\ UNCHANGED ret
  /\ UNCHANGED <<len, cap, reads, writes, encRet, out, rem>>

\* malloc(sizeof(struct S)); memset; offset = 0.
DecodeAlloc ==
  /\ phase = "call"
  /\ \/ /\ MallocCanFail
        /\ ret' = "NO_MEMORY"
        /\ phase' = "decoded"
        /\ UNCHANGED <<live, fld, el, off>>
     \/ /\ live' = live \cup {ResultBlk}
        /\ phase' = "decode"
        /\ fld' = 1 /\ el' = 0 /\ off' = 0
        /\ UNCHANGED ret
  /\ UNCHANGED <<len, cap, reads, writes, encRet, out, rem>>

\* A pointer field: S_<f>_decode(result, remaining_input_buf, input_buf).
\* On failure S_dispose(result) and return the hook's code.
DecodeHook ==
  /\ phase = "decode"
  /\ fld <= NF /\ Cur.ptr
  /\ \E r \in HookResults :
       IF r = "OK"
       THEN /\ live' = live \cup {fld}
            /\ fld' = fld + 1
            /\ UNCHANGED <<phase, ret>>
       ELSE /\ live' = Dispose(live)
            /\ ret' = r
            /\ phase' = "decoded"
            /\ UNCHANGED fld
  /\ UNCHANGED <<el, off, len, cap, reads, writes, encRet, out, rem>>

\* Mutant: the "offset += size" after a scalar is missing.
DecodeScalarNoAdvance ==
  /\ phase = "decode"
  /\ fld <= NF /\ ~Cur.ptr /\ el < Reps(Cur)
  /\ IF off + Cur.size <= len
     THEN /\ reads' = reads \o Span(off, Cur.size)
          /\ el' = el + 1
          /\ UNCHANGED <<phase, ret, off>>
     ELSE /\ reads' = reads \o Span(off, len - off)
          /\ ret' = "OUT_OF_BOUNDS"
          /\ phase' = "decoded"
          /\ UNCHANGED <<off, el>>
  /\ UNCHANGED <<fld, len, cap, live, writes, encRet, out, rem>>

\* Mutant: the per-byte bounds check rejects the byte at buf_len - 1.
DecodeScalarStrict ==
  /\ phase = "decode"
  /\ fld <= NF /\ ~Cur.ptr /\ el < Reps(Cur)
  /\ IF off + Cur.size < len
     THEN /\ reads' = reads \o Span(off, Cur.size)
          /\ off' = off + Cur.size
          /\ el' = el + 1
          /\ UNCHANGED <<phase, ret>>
     ELSE /\ reads' = reads \o Span(off, len - off)
          /\ ret' = "OUT_OF_BOUNDS"
          /\ phase' = "decoded"
          /\ UNCHANGED <<off, el>>
  /\ UNCHANGED <<fld, len, cap, live, writes, encRet, out, rem>>

(***************************************************************************)
(* One scalar (or one array element): buf_get_u8 at offset + i for each    *)
(* of its bytes; the first that fails makes the function return            *)
(* OUT_OF_BOUNDS at once; otherwise offset += size.  A type of size 0      *)
(* emits no code.                                                          *)
(***************************************************************************)
DecodeScalar ==
  /\ phase = "decode"
  /\ fld <= NF /\ ~Cur.ptr /\ el < Reps(Cur)
  /\ IF off + Cur.size <= len
     THEN /\ reads' = reads \o Span(off, Cur.size)
          /\ off' = off + Cur.size
          /\ el' = el + 1
          /\ UNCHANGED <<phase, ret>>
     ELSE /\ reads' = reads \o Span(off, len - off)
          /\ ret' = "OUT_OF_BOUNDS"
          /\ phase' = "decoded"
          /\ UNCHANGED <<off, el>>
  /\ UNCHANGED <<fld, len, cap, live, writes, encRet, out, rem>>

\* The array loop (or the single transcription) of a field is over.
DecodeNextField ==
  /\ phase = "decode"
  /\ fld <= NF /\ ~Cur.ptr /\ el = Reps(Cur)
  /\ fld' = fld + 1 /\ el' = 0
  /\ UNCHANGED <<phase, off, len, cap, live, reads, writes, ret, encRet, out, rem>>

(***************************************************************************)
(* buf_from_buf(remaining_input_buf, input_buf, offset, len - offset);     *)
(* on failure S_dispose(result) and return; else *value = result, OK.      *)
(***************************************************************************)
DecodeFinish ==
  /\ phase = "decode"
  /\ fld = NF + 1
  /\ phase' = "decoded"
  /\ IF off <= len
     THEN /\ rem' = [start |-> off, len |-> len - off]
          /\ out' = "result"
          /\ ret' = "OK"
          /\ UNCHANGED live
     ELSE /\ live' = Dispose(live)
          /\ ret' = "OUT_OF_BOUNDS"
          /\ UNCHANGED <<rem, out>>
  /\ UNCHANGED <<fld, el, off, len, cap, reads, writes, encRet>>

-----------------------------------------------------------------------------
(* S_encode, called by the application on the decoded value *)

AppEncode ==
  /\ phase = "decoded" /\ ret = "OK"
  /\ phase' = "encode"
  /\ fld' = 1 /\ el' = 0 /\ off' = 0
  /\ UNCHANGED <<len, cap, live, reads, writes, ret, encRet, out, rem>>

\* S_<f>_encode(remaining_output_buf, output_buf, value); return on failure.
EncodeHook ==
  /\ phase = "encode"
  /\ fld <= NF /\ Cur.ptr
  /\ \E r \in HookResults :
       IF r = "OK"
       THEN /\ fld' = fld + 1 /\ UNCHANGED <<phase, encRet>>
       ELSE /\ encRet' = r /\ phase' = "encoded" /\ UNCHANGED fld
  /\ UNCHANGED <<el, off, len, cap, live, reads, writes, ret, out, rem>>

\* One scalar: buf_set_u8 at offset + i; the first failure returns
\* OUT_OF_BOUNDS (bytes already written stay written).
EncodeScalar ==
  /\ phase = "encode"
  /\ fld <= NF /\ ~Cur.ptr /\ el < Reps(Cur)
  /\ IF off + Cur.size <= cap
     THEN /\ writes' = writes \o Span(off, Cur.size)
          /\ off' = off + Cur.size
          /\ el' = el + 1
          /\ UNCHANGED <<phase, encRet>>
     ELSE /\ writes' = writes \o Span(off, cap - off)
          /\ encRet' = "OUT_OF_BOUNDS"
          /\ phase' = "encoded"
          /\ UNCHANGED <<off, el>>
  /\ UNCHANGED <<fld, len, cap, live, reads, ret, out, rem>>

\* Mutant: the encode array loop stops one element early.
EncodeNextFieldEarly ==
  /\ phase = "encode"
  /\ fld <= NF /\ ~Cur.ptr /\ el + 1 >= Reps(Cur)
  /\ fld' = fld + 1 /\ el' = 0
  /\ UNCHANGED <<phase, off, len, cap, live, reads, writes, ret, encRet, out, rem>>

EncodeNextField ==
  /\ phase = "encode"
  /\ fld <= NF /\ ~Cur.ptr /\ el = Reps(Cur)
  /\ fld' = fld + 1 /\ el' = 0
  /\ UNCHANGED <<phase, off, len, cap, live, reads, writes, ret, encRet, out, rem>>

\* buf_from_buf(remaining_output_buf, output_buf, offset, len - offset).
EncodeFinish ==
  /\ phase = "encode"
  /\ fld = NF + 1
  /\ phase' = "encoded"
  /\ IF off <= cap
     THEN /\ rem' = [start |-> off, len |-> cap - off]
          /\ encRet' = "OK"
     ELSE /\ encRet' = "OUT_OF_BOUNDS"
          /\ UNCHANGED rem
  /\ UNCHANGED <<fld, el, off, len, cap, live, reads, writes, ret, out>>

-----------------------------------------------------------------------------
(* The application releases what it was given *)

\* S_dispose(value) on the value S_decode handed out.
AppDispose ==
  /\ phase \in {"decoded", "encoded"} /\ ret = "OK"
  /\ live' = Dispose(live)
  /\ phase' = "done"
  /\ UNCHANGED <<fld, el, off, len, cap, reads, writes, ret, encRet, out, rem>>

\* S_decode failed: *value was never set, there is nothing to dispose.
AppGiveUp ==
  /\ phase = "decoded" /\ ret # "OK"
  /\ phase' = "done"
  /\ UNCHANGED <<fld, el, off, len, cap, live, reads, writes, ret, encRet, out, rem>>

Finished ==
  /\ phase = "done"
  /\ UNCHANGED vars

Next ==
  \/ DecodeAlloc \/ DecodeHook \/ DecodeScalar \/ DecodeNextField \/ DecodeFinish
  \/ AppEncode \/ EncodeHook \/ EncodeScalar \/ EncodeNextField \/ EncodeFinish
  \/ AppDispose \/ AppGiveUp \/ Finished

(***************************************************************************)
(* The generated functions are straight-line, single-threaded code: once   *)
(* called they keep running, so each of their steps is weakly fair.  The   *)
(* application's own steps are not assumed to happen.                      *)
(***************************************************************************)
Fairness ==
  WF_vars(DecodeAlloc \/ DecodeHook \/ DecodeScalar \/ DecodeNextField \/ DecodeFinish)
  /\ WF_vars(EncodeHook \/ EncodeScalar \/ EncodeNextField \/ EncodeFinish)

Spec == Init /\ [][Next]_vars /\ Fairness

-----------------------------------------------------------------------------
TypeOK ==
  /\ phase \in {"call", "decode", "decoded", "encode", "encoded", "done"}
  /\ fld \in 1 .. NF + 1
  /\ el \in 0 .. 4
  /\ off \in Nat
  /\ len \in 0 .. MaxLen /\ cap \in 0 .. MaxLen
  /\ live \subseteq {ResultBlk} \cup PtrFields
  /\ reads \in Seq(Nat) /\ writes \in Seq(Nat)
  /\ ret \in Codes \cup {"none"} /\ encRet \in Codes \cup {"none"}
  /\ out \in {"result", "NULL"}
  /\ rem \in [start : Nat, len : Int]

(***************************************************************************)
(* Decode consumption (spec.md 4.5 and the "Array decode" property of      *)
(* section 8): when S_decode returns OK it has read every byte of the      *)
(* parsed fields' wire form exactly once, in field order, all within the   *)
(* input, and the remaining buffer it hands back starts right after them.  *)
(* A per-byte bounds check, an offset update or an array loop that is off *)
(* by one breaks it.                                                       *)
(***************************************************************************)
DecodeConsumesWire ==
  (phase = "decoded" /\ ret = "OK") =>
    /\ WireSize <= len
    /\ reads = Span(0, WireSize)
    /\ rem = [start |-> WireSize, len |-> len - WireSize]

(***************************************************************************)
(* Exact fit (spec.md 4.5): S_decode's own bounds checks, per byte and in  *)
(* buf_from_buf, fail only when the input is shorter than the struct's     *)
(* wire size; a last field that ends exactly at buf_len decodes.  A        *)
(* bounds error a pointer hook returns is the hook's (fld stays on it).    *)
(***************************************************************************)
ExactFitDecodes ==
  (ret = "OUT_OF_BOUNDS" /\ ~(fld <= NF /\ Fields[fld].ptr)) => len < WireSize

(***************************************************************************)
(* Encode mirrors decode (spec.md 4.5): when S_encode of a decoded value   *)
(* returns OK it has written exactly the output offsets, in exactly the    *)
(* order, that S_decode read from the input.                               *)
(***************************************************************************)
EncodeMirrorsDecode ==
  encRet = "OK" => writes = reads

(***************************************************************************)
(* Ownership (spec.md 4.5, decode and dispose): the caller's *value is     *)
(* set exactly when S_decode returns OK; while the application holds that  *)
(* value the struct block and the resource of every pointer field are      *)
(* live, and after S_dispose none of them is.                              *)
(***************************************************************************)
Ownership ==
  /\ ret \in Errors => out = "NULL"
  /\ ret = "OK" =>
       /\ out = "result"
       /\ IF phase = "done" THEN live = {}
          ELSE live = {ResultBlk} \cup PtrFields

(***************************************************************************)
(* Partial-failure cleanup (spec.md 4.5 and section 8): when S_decode      *)
(* fails, everything it allocated for the value has been released, since  *)
(* the caller gets no pointer to release it through.                       *)
(***************************************************************************)
NoLeakOnError ==
  ret \in Errors => live = {}

(***************************************************************************)
(* Nested records (spec.md 4.5): S_decode of a struct that embeds another  *)
(* struct reads the embedded struct's bytes too, so a successful decode    *)
(* consumes the declared struct's whole wire size.                         *)
(***************************************************************************)
NestedRecordsTranscribed ==
  (phase = "decoded" /\ ret = "OK") => Len(reads) = DeclWireSize

-----------------------------------------------------------------------------
(***************************************************************************)
(* Refinement mapping onto CodecContract.  A decode that has not returned  *)
(* is "idle" whatever it has allocated so far; afterwards the value is     *)
(* "ok" or "err" by the code S_decode returned, until the application's    *)
(* last step.  The value owns resources only once S_decode returned OK.    *)
(***************************************************************************)
ContractSt ==
  CASE phase \in {"call", "decode"} -> "idle"
    [] phase = "done"                -> "done"
    [] ret = "OK"                    -> "ok"
    [] OTHER                         -> "err"

ContractEnc ==
  CASE phase = "encode"  -> "running"
    [] encRet = "OK"     -> "ok"
    [] encRet \in Errors -> "err"
    [] OTHER             -> "none"

Contract == INSTANCE CodecContract
              WITH Need <- WireSize,
                   Res  <- {ResultBlk} \cup PtrFields,
                   st   <- ContractSt,
                   enc  <- ContractEnc,
                   held <- IF ret = "OK" THEN live ELSE {}

(***************************************************************************)
(* The generated functions implement the contract (spec.md 4.5): every     *)
(* call of S_decode and of S_encode returns exactly once; S_decode returns *)
(* OK only with the struct's wire size available, with the caller's value  *)
(* owning the struct block and every pointer-field resource and the        *)
(* remaining buffer starting after the wire bytes; S_encode runs only on   *)
(* a value decoded OK and succeeds only when the output holds the wire     *)
(* size; S_dispose releases the whole value.  Includes termination under   *)
(* the fairness of the generated straight-line code.                       *)
(***************************************************************************)
ContractSpec == Contract!Spec
====
