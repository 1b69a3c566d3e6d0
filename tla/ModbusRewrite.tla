--------------------------- MODULE ModbusRewrite ---------------------------
(***************************************************************************)
(* The one-shot rewrite scripts run over the Modbus example sources:       *)
(* src/update_modbus_buffers.py or src/update_modbus_buffers_v2.py, which  *)
(* replace the per-call ptk_buf_create of pdu_buf by the connection's      *)
(* shared buffer and drop its ptk_buf_dispose calls, and then              *)
(* src/fix_modbus_files.py, which cleans up "the formatting issues from    *)
(* the previous script", first of all the redefinition of err.             *)
(*                                                                         *)
(* A file is a sequence of tokens, one per line of C or per part of a line *)
(* that a regular expression of the scripts tells apart; "nl" is a newline *)
(* with the next line's indentation.  Each re.sub is an operator over the  *)
(* token sequence with Python's leftmost, non-overlapping semantics.  The  *)
(* substitutions that only re-indent or merge blank lines are layout and   *)
(* left out; the ones that join a line onto the previous one are kept,     *)
(* since fix_modbus_files only rewrites a declaration that starts a line.  *)
(***************************************************************************)
EXTENDS Integers, Sequences, FiniteSets

CONSTANTS
  FileList,  \* files_to_update / files_to_clean, in order
  Inputs,    \* the possible contents of one source file
  Updaters,  \* the first scripts that may have been run: "v1", "v2"
  Absent     \* a path for which os.path.exists is false

Tokens ==
  { "nl",       \* a newline and the next line's indentation
    "sig",      \* ptk_err modbus_...(...) {
    "cmtCap",   \* // Create buffer with capacity for ...
    "cmtBuf",   \* // Create buffer ... (any other wording)
    "cmt",      \* any other comment line
    "create",   \* ptk_buf *pdu_buf = ptk_buf_create(...);
    "ifnull",   \* if (!pdu_buf) {
    "nores",    \* return PTK_ERR_NO_RESOURCES;
    "shared",   \* ptk_buf *pdu_buf = conn->buffer;
    "decl",     \* ptk_err err =
    "errEq",    \* err =
    "call",     \* ptk_buf_...(pdu_buf, ...);
    "sendcall", \* modbus_send_frame(conn, pdu_buf);
    "retsend",  \* return modbus_send_frame(conn, pdu_buf);
    "iferr",    \* if (err != PTK_OK) {
    "reterr",   \* return err;
    "dispose",  \* ptk_buf_dispose(pdu_buf);
    "close" }   \* }

ASSUME Inputs \subseteq Seq(Tokens)
ASSUME Updaters \subseteq {"v1", "v2"}

\* Tokens that end with an opening brace.
Opens == {"sig", "iferr", "ifnull"}

-----------------------------------------------------------------------------
(* Regular-expression matching over tokens *)

At(s, j, t) == j \in 1 .. Len(s) /\ s[j] = t

\* The first index at or after i that is not a newline: "\s*" ends before it.
RECURSIVE Skip(_, _)
Skip(s, i) == IF At(s, i, "nl") THEN Skip(s, i + 1) ELSE i

\* The first index at or after i whose token is in ts, or Len(s) + 1.
RECURSIVE FirstOf(_, _, _)
FirstOf(s, i, ts) ==
  IF i > Len(s) \/ s[i] \in ts THEN i ELSE FirstOf(s, i + 1, ts)

(***************************************************************************)
(* re.sub(pattern, repl, s): End(s, i) is the index of the last token of a *)
(* match starting at i, or 0; the leftmost match is replaced by            *)
(* Repl(s, i, End(s, i)) and scanning resumes after it.                    *)
(***************************************************************************)
ReSub(s, End(_, _), Repl(_, _, _)) ==
  LET RECURSIVE From(_)
      From(i) ==
        IF i > Len(s) THEN <<>>
        ELSE IF End(s, i) > 0
             THEN Repl(s, i, End(s, i)) \o From(End(s, i) + 1)
             ELSE <<s[i]>> \o From(i + 1)
  IN  From(1)

-----------------------------------------------------------------------------
(* update_modbus_buffers.update_buffer_usage *)

\* buffer_create_pattern: the create, its NULL check and the check's "}".
CreateBlockEnd(s, i) ==
  LET a == Skip(s, i + 1)
      b == Skip(s, a + 1)
      c == Skip(s, b + 1)
  IN  IF /\ At(s, i, "create")
         /\ a > i + 1 /\ At(s, a, "ifnull")
         /\ b > a + 1 /\ At(s, b, "nores")
         /\ c > b + 1 /\ At(s, c, "close")
      THEN c ELSE 0

\* The whitespace before the match, as group \1 ("(\s+)") captures it.
NlRun(s, i) == [j \in 1 .. Skip(s, i) - i |-> "nl"]

(***************************************************************************)
(* pattern1 (Comments = {"cmtCap"}) and pattern4 (Comments = {"cmtCap",    *)
(* "cmtBuf"}), compiled with DOTALL: "(\s+)// Create buffer ...", then     *)
(* ".*?\n\s+" up to the first create followed by its NULL check block.     *)
(* The lazy ".*?" crosses lines, so the create block found may be any      *)
(* later one.  End is the "}" of that block.                               *)
(***************************************************************************)
CommentBlockEnd(Comments, s, i) ==
  LET c  == Skip(s, i)
      js == {j \in c + 2 .. Len(s) : At(s, j - 1, "nl") /\ CreateBlockEnd(s, j) > 0}
  IN  IF At(s, i, "nl") /\ c <= Len(s) /\ s[c] \in Comments /\ js # {}
      THEN CreateBlockEnd(s, CHOOSE j \in js : \A x \in js : j <= x) ELSE 0

\* replacement1: every line of it starts with the captured whitespace R.
UseShared(R) ==
  R \o << "cmt", "nl" >> \o R \o << "shared", "nl" >> \o R \o << "nl" >> \o R \o
  << "cmt", "nl" >> \o R \o << "decl", "call", "nl" >> \o R \o << "iferr", "nl" >> \o R \o
  << "reterr", "nl" >> \o R \o << "close", "nl" >> \o R \o << "errEq", "call", "nl" >> \o
  R \o << "iferr", "nl" >> \o R \o << "reterr", "nl" >> \o R \o << "close" >>

\* pattern2: "\s+ptk_buf_dispose(pdu_buf);\s*\n\s+return err;" ->
\* "        return err;", joined to the previous line.
DisposeReturnEnd(s, i) ==
  LET d == Skip(s, i)
      r == Skip(s, d + 1)
  IN  IF At(s, i, "nl") /\ At(s, d, "dispose") /\ r > d + 1 /\ At(s, r, "reterr")
      THEN r ELSE 0

(***************************************************************************)
(* pattern3: "\s+err = modbus_send_frame(conn, pdu_buf);", dispose and     *)
(* return err -> "    return modbus_send_frame(conn, pdu_buf);".  pattern2 *)
(* has already removed every dispose followed by return err, so it never   *)
(* matches (nor inside "ptk_err err = modbus_send_frame").                 *)
(***************************************************************************)
SendDisposeReturnEnd(s, i) ==
  LET e == Skip(s, i)
      d == Skip(s, e + 2)
  IN  IF At(s, i, "nl") /\ At(s, e, "errEq") /\ At(s, e + 1, "sendcall")
         /\ d > e + 2 /\ At(s, d, "dispose")
      THEN DisposeReturnEnd(s, d - 1) ELSE 0

ToUseShared(s, i, e) == UseShared(NlRun(s, i))
ToReturn(s, i, e) == << "reterr" >>
ToReturnSend(s, i, e) == <<"retsend">>
CapBlockEnd(s, i) == CommentBlockEnd({"cmtCap"}, s, i)
AnyBlockEnd(s, i) == CommentBlockEnd({"cmtCap", "cmtBuf"}, s, i)

UpdateBufferUsage(s) ==
  LET s1 == ReSub(s, CapBlockEnd, ToUseShared)
      s2 == ReSub(s1, DisposeReturnEnd, ToReturn)
      s3 == ReSub(s2, SendDisposeReturnEnd, ToReturnSend)
  IN  ReSub(s3, AnyBlockEnd, ToUseShared)

-----------------------------------------------------------------------------
(* update_modbus_buffers_v2.update_file_comprehensively *)

\* buffer_replacement and simple_replacement: the shared buffer, then an err
\* declared by ptk_buf_set_start and assigned by ptk_buf_set_end, each
\* checked by an if block.
SharedReset ==
  << "shared", "nl", "nl", "cmt",
     "nl", "decl", "call", "nl", "iferr", "nl", "reterr", "nl", "close",
     "nl", "errEq", "call", "nl", "iferr", "nl", "reterr", "nl", "close" >>

\* simple_create_pattern: a create with no NULL check.
SimpleCreateEnd(s, i) == IF At(s, i, "create") THEN i ELSE 0

(***************************************************************************)
(* dispose_pattern "\s*ptk_buf_dispose\(pdu_buf\);\s*\n" -> "": the        *)
(* newlines before and after the call go with it, so the next line is     *)
(* joined to the end of the previous one.                                  *)
(***************************************************************************)
DisposeEnd(s, i) ==
  LET d == Skip(s, i)
  IN  IF At(s, d, "dispose") /\ Skip(s, d + 1) > d + 1
      THEN Skip(s, d + 1) - 1 ELSE 0

ToShared(s, i, e) == SharedReset
Drop(s, i, e) == <<>>

\* The three substitutions in order; the blank-line merge is layout.
UpdateComprehensively(s) ==
  LET s1 == ReSub(s, CreateBlockEnd, ToShared)
      s2 == ReSub(s1, SimpleCreateEnd, ToShared)
  IN  ReSub(s2, DisposeEnd, Drop)

-----------------------------------------------------------------------------
(* fix_modbus_files.clean_modbus_file *)

(***************************************************************************)
(* function_pattern: "ptk_err <word>" (a signature or a declaration of     *)
(* err), everything up to the next "{", then two declarations of err with  *)
(* no "}" before the second.  The match ends at the ";" of the second      *)
(* declaration's call.                                                     *)
(***************************************************************************)
FnEnd(s, p) ==
  LET b  == FirstOf(s, p, Opens)
      c  == FirstOf(s, b + 1, {"close"})
      ds == {d \in b + 1 .. c - 1 : At(s, d, "decl")}
      d2 == CHOOSE d \in ds : Cardinality({x \in ds : x <= d}) = 2
  IN  IF s[p] \in {"sig", "decl"} /\ b <= Len(s) /\ Cardinality(ds) >= 2
      THEN d2 + 1 ELSE 0

\* fix_function: in the matched text every "\n<indent>ptk_err err =" becomes
\* "\n    err =", the first declaration included.
FixFunction(s, p, e) ==
  [k \in 1 .. e - p + 1 |->
     IF s[p + k - 1] = "decl" /\ At(s, p + k - 2, "nl") /\ k > 1
     THEN "errEq" ELSE s[p + k - 1]]

\* "while function_pattern.search(content)".
Matches(s) == \E p \in 1 .. Len(s) : FnEnd(s, p) > 0

(***************************************************************************)
(* After the loop: "modbus_send_frame(conn, pdu_buf);\s*return err;" ->    *)
(* "return modbus_send_frame(conn, pdu_buf);".  The other substitutions    *)
(* only re-indent and merge blank lines.                                   *)
(***************************************************************************)
SendReturnEnd(s, i) ==
  IF At(s, i, "sendcall") /\ At(s, Skip(s, i + 1), "reterr")
  THEN Skip(s, i + 1) ELSE 0

CleanTail(s) == ReSub(s, SendReturnEnd, ToReturnSend)

-----------------------------------------------------------------------------
(* The scripts' main loops: an update script first, then the fix *)

\* The file rewrite of the update script that was run.
Update(u, s) == IF u = "v1" THEN UpdateBufferUsage(s) ELSE UpdateComprehensively(s)

Files == {FileList[k] : k \in DOMAIN FileList}

VARIABLES
  disk,     \* contents of each file, or Absent
  script,   \* "update", "fix" (the script running) or "done"
  k,        \* index into FileList of the running main loop
  pc,       \* clean_modbus_file: "open" (between files) or "loop"
  content,  \* clean_modbus_file's local content
  updater   \* which update script ran

vars == <<disk, script, k, pc, content, updater>>

Init ==
  /\ disk \in [Files -> Inputs \cup {Absent}]
  /\ script = "update" /\ k = 1 /\ pc = "open" /\ content = <<>>
  /\ updater \in Updaters

Cur == FileList[k]

\* update_buffer_usage or update_file_comprehensively: read, rewrite, write.
UpdateFile ==
  /\ script = "update" /\ k <= Len(FileList) /\ disk[Cur] # Absent
  /\ disk' = [disk EXCEPT ![Cur] = Update(updater, @)]
  /\ k' = k + 1
  /\ UNCHANGED <<script, pc, content, updater>>

\* print(f"File not found: {file_path}") in either script.
SkipMissing ==
  /\ script \in {"update", "fix"} /\ pc = "open"
  /\ k <= Len(FileList) /\ disk[Cur] = Absent
  /\ k' = k + 1
  /\ UNCHANGED <<disk, script, pc, content, updater>>

\* One main loop is over; fix_modbus_files runs next, then nothing.
EndScript ==
  /\ script \in {"update", "fix"} /\ k > Len(FileList)
  /\ script' = IF script = "update" THEN "fix" ELSE "done"
  /\ k' = 1
  /\ UNCHANGED <<disk, pc, content, updater>>

\* clean_modbus_file: content = f.read().
CleanRead ==
  /\ script = "fix" /\ pc = "open"
  /\ k <= Len(FileList) /\ disk[Cur] # Absent
  /\ content' = disk[Cur] /\ pc' = "loop"
  /\ UNCHANGED <<disk, script, k, updater>>

\* One turn of "while function_pattern.search(content)".
CleanPass ==
  /\ pc = "loop" /\ Matches(content)
  /\ content' = ReSub(content, FnEnd, FixFunction)
  /\ UNCHANGED <<disk, script, k, pc, updater>>

\* The loop is over: the remaining substitutions, then f.write(content).
CleanWrite ==
  /\ pc = "loop" /\ ~Matches(content)
  /\ disk' = [disk EXCEPT ![Cur] = CleanTail(content)]
  /\ pc' = "open" /\ k' = k + 1 /\ content' = <<>>
  /\ UNCHANGED <<script, updater>>

Finished == script = "done" /\ UNCHANGED vars

Next ==
  \/ UpdateFile \/ SkipMissing \/ EndScript
  \/ CleanRead \/ CleanPass \/ CleanWrite \/ Finished

Spec == Init /\ [][Next]_vars /\ WF_vars(Next)

-----------------------------------------------------------------------------
TypeOK ==
  /\ disk \in [Files -> Seq(Tokens) \cup {Absent}]
  /\ script \in {"update", "fix", "done"}
  /\ k \in 1 .. Len(FileList) + 1
  /\ pc \in {"open", "loop"}
  /\ content \in Seq(Tokens)
  /\ updater \in Updaters

\* Indices of the functions of s: each runs from its signature to the next.
FnStarts(s) == {i \in DOMAIN s : s[i] = "sig"}
FnOf(s, i) == SubSeq(s, i, FirstOf(s, i + 1, {"sig"}) - 1)

(***************************************************************************)
(* A function uses err legally: err is declared at most once, no use of    *)
(* err (an assignment, a check, a return) comes before its declaration,    *)
(* and "ptk_err err =" and "err =" are followed by a call, not by a        *)
(* return statement.                                                       *)
(***************************************************************************)
ErrUseLegal(f) ==
  LET ds == {i \in DOMAIN f : f[i] = "decl"}
  IN  /\ Cardinality(ds) <= 1
      /\ \A i \in DOMAIN f :
           f[i] \in {"errEq", "iferr", "reterr"} => \E d \in ds : d < i
      /\ \A i \in ds \cup {j \in DOMAIN f : f[j] = "errEq"} :
           At(f, i + 1, "call") \/ At(f, i + 1, "sendcall")

ASSUME \A s \in Inputs : \A i \in FnStarts(s) : ErrUseLegal(FnOf(s, i))

(***************************************************************************)
(* The rewritten sources still compile (the purpose of fix_modbus_files:   *)
(* "Fix the variable redefinition issue by removing duplicate 'ptk_err     *)
(* err' declarations.  Keep only the first one in each function"): once   *)
(* both scripts are done, every function of every file uses err legally,   *)
(* as it did before.                                                       *)
(***************************************************************************)
RewriteKeepsErrLegal ==
  script = "done" =>
    \A f \in Files : disk[f] # Absent =>
      \A i \in FnStarts(disk[f]) : ErrUseLegal(FnOf(disk[f], i))

====
