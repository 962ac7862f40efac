------------------------------ MODULE MCLicences ------------------------------
(* A small instance of Licences for TLC: two days, plans the platform may set. *)
EXTENDS Licences

MCGivenPlans == {<<"free", 0>>}
===============================================================================
