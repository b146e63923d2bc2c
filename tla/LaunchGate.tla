------------------------------ MODULE LaunchGate ------------------------------
(***************************************************************************)
(* What docs/TECHNICAL.md section 12 promises about starting the project's *)
(* command, without saying how it is kept: "Approval is consumed by one    *)
(* start.  A reindex, generation change, or failed index invalidates it."  *)
(*                                                                         *)
(* An offer is a command together with the generation it was published in. *)
(* A generation is offered at most once: an offer that is withdrawn never  *)
(* comes back.  A permit is the reader's approval of the current offer; it *)
(* falls with the offer, is used up by one launch, and can only be had by  *)
(* a new review.                                                           *)
(***************************************************************************)
EXTENDS Naturals

CONSTANTS
    Command,    \* the commands that may be offered
    NoOffer     \* nothing can be approved or started now; not an offer

Offers == [generation : Nat, argv : Command]

VARIABLES
    offer,      \* what may be approved now, or NoOffer
    permit,     \* what may be started now, or NoOffer
    latest,     \* the number of the latest generation
    reviews,    \* how many approvals were given
    launches,   \* how many commands were started
    launched    \* the offer the last of them was taken from

gateVars == <<offer, permit, latest, reviews, launches, launched>>

GateInit ==
    /\ offer = NoOffer
    /\ permit = NoOffer
    /\ latest \in Nat
    /\ reviews = 0
    /\ launches = 0
    /\ launched = NoOffer

(* A reindex begins or fails, or ends with nothing to offer.               *)
Withdraw ==
    /\ offer' = NoOffer
    /\ permit' = NoOffer
    /\ latest' \in Nat
    /\ latest' >= latest
    /\ UNCHANGED <<reviews, launches, launched>>

(* A reindex succeeds.                                                     *)
Publish ==
    /\ offer' \in Offers
    /\ permit' = NoOffer
    /\ latest' = offer'.generation
    /\ latest' > latest
    /\ UNCHANGED <<reviews, launches, launched>>

Review ==
    /\ offer # NoOffer
    /\ permit' = offer
    /\ reviews' = reviews + 1
    /\ UNCHANGED <<offer, latest, launches, launched>>

Revoke ==
    /\ permit' = NoOffer
    /\ UNCHANGED <<offer, latest, reviews, launches, launched>>

Launch ==
    /\ permit # NoOffer
    /\ permit' = NoOffer
    /\ launches' = launches + 1
    /\ launched' = permit
    /\ UNCHANGED <<offer, latest, reviews>>

GateNext == Withdraw \/ Publish \/ Review \/ Revoke \/ Launch

GateSpec == GateInit /\ [][GateNext]_gateVars

=============================================================================
