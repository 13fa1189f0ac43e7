---------------------------- MODULE MCRepoSharing ----------------------------
(***************************************************************************)
(* Values for the constants of RepoSharing.                                *)
(***************************************************************************)
EXTENDS RepoSharing

Both == Repo

InformationPage == {"userInformations.json"}
ThreeFiles      == {"cards.json", Versions} \cup InformationPage
=============================================================================
