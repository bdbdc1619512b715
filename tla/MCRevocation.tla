---------------------------- MODULE MCRevocation ----------------------------
(* Two tokens whose confirmations share one explicit key, or use another   *)
(* one that belongs to a tool without automatic rollback.                  *)
EXTENDS Revocation
=============================================================================
