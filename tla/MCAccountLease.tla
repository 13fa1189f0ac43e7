--------------------------- MODULE MCAccountLease ---------------------------
(***************************************************************************)
(* AccountLease for TLC.  A lease of two ticks, renewed in the last one, is*)
(* the shortest that can be live, due for renewal and over; three keys let *)
(* two operations follow a forgotten one.                                  *)
(***************************************************************************)
EXTENDS AccountLease
=============================================================================
