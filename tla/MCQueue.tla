------------------------------ MODULE MCQueue -------------------------------
(***************************************************************************)
(* The server daemon on a small instance.                                  *)
(***************************************************************************)
EXTENDS ServerQueue

CONSTANTS sale, member, auth

MCWrites == {<<sale, auth, member>>}
=============================================================================
