--------------------------- MODULE MCTravelServer ---------------------------
(***************************************************************************)
(* Instances of TravelServer for TLC: two clients, and a travelOffers.txt  *)
(* that is whole with one or two offers, or broken off after one.          *)
(***************************************************************************)
EXTENDS TravelServer

MCDocuments ==
  {[offers |-> <<1, 2>>, whole |-> TRUE],
   [offers |-> <<2>>, whole |-> TRUE],
   [offers |-> <<1>>, whole |-> FALSE]}

=============================================================================
