----------------------------- MODULE MCKeyCache -----------------------------
(***************************************************************************)
(* KeyCache on a small instance: an administrator's token, signed with a   *)
(* key that comes under its kid, with another one, with one of another     *)
(* algorithm or not at all; and one with a kid nobody ever published.      *)
(***************************************************************************)
EXTENDS KeyCache

CONSTANTS issued, unknown

MCBearer == {issued, unknown}
MCDocument == {[t \in MCBearer |-> IF t = issued THEN o ELSE "noKey"] : o \in Outcome}
=============================================================================
