----------------------------- MODULE MCGateLock -----------------------------
(***************************************************************************)
(* Small instances of GateLock for TLC.                                    *)
(***************************************************************************)
EXTENDS GateLock, TLC

CONSTANTS verify, hygiene, audit

\* foundation:verify spawns backlog:hygiene; the others start by themselves.
VerifyParent == [p \in Checks |-> IF p = hygiene THEN verify ELSE NoCheck]
=============================================================================
