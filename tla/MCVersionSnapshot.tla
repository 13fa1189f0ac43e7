-------------------------- MODULE MCVersionSnapshot --------------------------
(***************************************************************************)
(* Values for the constants of VersionSnapshot.                            *)
(***************************************************************************)
EXTENDS VersionSnapshot

\* An update of the data, then one of the app that /system announces without
\* its data version.
DataThenApp == <<1, 1, 2>>
=============================================================================
