------------------------- MODULE MCModbusRewrite -------------------------
(***************************************************************************)
(* Model-checking instance of ModbusRewrite: two of the four example files *)
(* (either may be missing), each holding one function of the shape the     *)
(* scripts' patterns are written for.                                      *)
(***************************************************************************)
EXTENDS ModbusRewrite

CONSTANTS Holding, Coils

MCFileList == <<Holding, Coils>>

(***************************************************************************)
(* A write request: the comment, ptk_buf_create and its NULL check, one   *)
(* checked ptk_buf_append that disposes the buffer on error, then          *)
(* modbus_send_frame, ptk_buf_dispose and return err.                      *)
(***************************************************************************)
SendFn ==
  << "sig", "nl", "cmtCap", "nl", "create", "nl", "ifnull", "nl", "nores", "nl",
     "close", "nl", "nl", "decl", "call", "nl", "iferr", "nl", "dispose",
     "nl", "reterr", "nl", "close", "nl", "errEq", "sendcall", "nl",
     "dispose", "nl", "reterr", "nl", "close" >>

(***************************************************************************)
(* A request with an unchecked ptk_buf_create, an unchecked buffer call    *)
(* and no dispose, declaring err at the send ("ptk_err err =               *)
(* modbus_send_frame") and returning it.                                   *)
(***************************************************************************)
PlainFn ==
  << "sig", "nl", "create", "nl", "nl", "call", "nl", "decl", "sendcall",
     "nl", "reterr", "nl", "close" >>

MCInputs == {SendFn, PlainFn}
====
