------------------------------- MODULE MCCard -------------------------------
(***************************************************************************)
(* Customers, the server and the gateway, without power failures.          *)
(***************************************************************************)
EXTENDS KioskFSM

CONSTANTS h1, h2, none

MCHolds == {h1, h2}
OneHold == {h1}

\* A member who owes what makes a charge worth its while, and asks for a gallon.
MCOffers ==
  {[answer |-> "Authentication Success",
    memb |-> [NoMemb EXCEPT !.ppg = 1, !.fuelPreAuth = 1, !.credit = -2]]}
=============================================================================
