------------------------ MODULE MCUpdateTransaction ------------------------
(***************************************************************************)
(* Values for the constants of UpdateTransaction.                          *)
(***************************************************************************)
EXTENDS UpdateTransaction

Both == Repo

TwoFiles == {"cards.json", Versions}
===========================================================================
