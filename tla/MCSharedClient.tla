--------------------------- MODULE MCSharedClient ---------------------------
(***************************************************************************)
(* Instances of SharedClient for TLC.                                      *)
(***************************************************************************)
EXTENDS SharedClient, TLC

CONSTANTS tracker, updater

OneCaller  == {tracker}
TwoCallers == {tracker, updater}

\* Nothing tells the callers apart.
CallerSymmetry == Permutations(TwoCallers)
=============================================================================
