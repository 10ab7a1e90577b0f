------------------------------- MODULE MCSale -------------------------------
(***************************************************************************)
(* Customers of every kind in front of the dialogs, with a card gateway    *)
(* that may refuse; nobody pumps more than is needed to end a session.     *)
(***************************************************************************)
EXTENDS KioskFSM

CONSTANTS h1, none

MCHolds == {h1}

Active == [NoMemb EXCEPT !.ppg = 1, !.fuelPreAuth = 1]

MCOffers ==
  {[answer |-> "Authentication Success", memb |-> Active],
   [answer |-> "Authentication Success", memb |-> [Active EXCEPT !.credit = -1]],
   [answer |-> "Authentication Success",
    memb |-> [Active EXCEPT !.ask = TRUE, !.renewalFee = 1, !.upgradeFee = 1,
                            !.surcharge = 1]],
   [answer |-> "Membership Expired",
    memb |-> [Active EXCEPT !.renewalFee = 1, !.surcharge = 1]],
   [answer |-> "Authentication Failed",
    memb |-> [NoMemb EXCEPT !.fullFee = 1, !.surcharge = 1]],
   [answer |-> "Authentication Failed", memb |-> NoMemb],
   [answer |-> "Authentication Failed SPN", memb |-> NoMemb]}
=============================================================================
