---------------------------- MODULE MCEventOutbox ----------------------------
(***************************************************************************)
(* An instance of EventOutbox for TLC.                                     *)
(***************************************************************************)
EXTENDS EventOutbox

CONSTANTS old_deployment, new_deployment

TwoTrackers == {old_deployment, new_deployment}
OneChapter  == {"current"}
=============================================================================
