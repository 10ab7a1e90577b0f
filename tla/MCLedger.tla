------------------------------ MODULE MCLedger ------------------------------
(***************************************************************************)
(* One customer of each kind.                                              *)
(***************************************************************************)
EXTENDS ServerLedger

CONSTANTS h1, h2

MCHolds == {h1, h2}
EitherHold == Permutations(MCHolds)

Old(type, status) == [type |-> type, status |-> status, credit |-> 0, renewed |-> 0, expires |-> 2]

MCMembers == {NoMember, Old("FULL", "ACTIVE"), Old("NON-FUELING", "ACTIVE"), Old("ONE-DAY", "PENDING")}
=============================================================================
