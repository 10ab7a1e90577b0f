------------------------------- MODULE MCSite -------------------------------
(***************************************************************************)
(* The kiosk on its site: its door, pump and power supply, the operator,   *)
(* and a member whose credit pays for the fuel.                            *)
(***************************************************************************)
EXTENDS KioskFSM

CONSTANTS h1, none

MCHolds == {h1}

MCOffers ==
  {[answer |-> "Authentication Success",
    memb |-> [NoMemb EXCEPT !.ppg = 1, !.fuelPreAuth = 1, !.credit = 1]]}
=============================================================================
