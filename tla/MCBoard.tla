------------------------------- MODULE MCBoard -------------------------------
(***************************************************************************)
(* The board with two customers' cards.                                    *)
(***************************************************************************)
EXTENDS SmartIOBoard
=============================================================================
