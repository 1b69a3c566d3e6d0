--------------------------- MODULE CodecContract ---------------------------
(***************************************************************************)
(* What a generated S_decode / S_encode / S_dispose triple promises its    *)
(* caller, with no byte loop, field loop or hook in sight: one decode call *)
(* returns once; it returns OK only when the input holds the struct's wire *)
(* size, and then hands out a value that owns every resource of the        *)
(* struct and a remaining buffer that starts right after those bytes; an   *)
(* OK value may be encoded once, which succeeds only when the output holds *)
(* the wire size; the value is released by dispose and by nothing else.   *)
(* GeneratedCodec implements it (see ContractSpec there).                  *)
(***************************************************************************)
EXTENDS Naturals

CONSTANTS
  Need,   \* the struct's wire size
  Res     \* the resources an OK value owns: its block and hook resources

VARIABLES
  st,     \* "idle" (decode not returned), "ok", "err", "done" (released)
  enc,    \* "none", "running", "ok", "err": the one encode of the value
  held,   \* resources owned by the value the caller holds
  out,    \* *value: "result" or "NULL"
  rem,    \* the remaining buffer last handed back: [start, len]
  len,    \* input length
  cap     \* output length

cvars == <<st, enc, held, out, rem, len, cap>>

Init ==
  /\ st = "idle" /\ enc = "none" /\ held = {} /\ out = "NULL"
  /\ rem = [start |-> 0, len |-> 0]
  /\ len \in Nat /\ cap \in Nat

\* decode returns: OK with the whole struct consumed, or an error.
Decode ==
  /\ st = "idle"
  /\ \/ /\ Need <= len
        /\ st' = "ok" /\ held' = Res /\ out' = "result"
        /\ rem' = [start |-> Need, len |-> len - Need]
     \/ /\ st' = "err"
        /\ UNCHANGED <<held, out, rem>>
  /\ UNCHANGED <<enc, len, cap>>

\* The caller starts encoding the value it holds.
StartEncode ==
  /\ st = "ok" /\ enc = "none"
  /\ enc' = "running"
  /\ UNCHANGED <<st, held, out, rem, len, cap>>

\* encode returns: OK with the wire size written, or an error.
Encode ==
  /\ enc = "running"
  /\ \/ /\ Need <= cap
        /\ enc' = "ok"
        /\ rem' = [start |-> Need, len |-> cap - Need]
     \/ /\ enc' = "err"
        /\ UNCHANGED rem
  /\ UNCHANGED <<st, held, out, len, cap>>

\* dispose of the value: every resource it owns is released.
Release ==
  /\ st = "ok" /\ enc # "running"
  /\ st' = "done" /\ held' = {}
  /\ UNCHANGED <<enc, out, rem, len, cap>>

\* A failed decode leaves the caller nothing to release.
GiveUp ==
  /\ st = "err"
  /\ st' = "done"
  /\ UNCHANGED <<enc, held, out, rem, len, cap>>

Next == Decode \/ StartEncode \/ Encode \/ Release \/ GiveUp

\* A call of decode or encode returns; the caller's own steps may not come.
Spec == Init /\ [][Next]_cvars /\ WF_cvars(Decode) /\ WF_cvars(Encode)
====
