----------------------------- MODULE DualPublish -----------------------------
(***************************************************************************)
(* What an update promises to the readers of the two remote repositories.  *)
(* Updates are published one after the other.  An update changes some of   *)
(* the repositories; each of these shows it exactly once, i18n before      *)
(* master, and the next update begins only when all of them do.            *)
(*                                                                         *)
(* Nothing is said about processes, journals, commits or crashes: that     *)
(* they do not show is the point.                                          *)
(***************************************************************************)
EXTENDS Naturals, Sequences

CONSTANT Repo

VARIABLES
  updates,  \* updates[n]: the repositories update n changes
  open,     \* the last update is still being published
  shown     \* shown[r]: the updates the remote of r shows

pubvars == <<updates, open, shown>>

PubTypeOK == /\ updates \in Seq(SUBSET Repo)
             /\ open \in BOOLEAN
             /\ shown \in [Repo -> SUBSET Nat]

Current == Len(updates)

PubInit == /\ updates = << >>
           /\ open = FALSE
           /\ shown = [r \in Repo |-> {}]

Begin(changed) == /\ ~open /\ open' = TRUE
                  /\ updates' = Append(updates, changed)
                  /\ UNCHANGED shown

Show(r) == /\ open /\ r \in updates[Current]
           /\ Current \notin shown[r]
           /\ r = "master" /\ "i18n" \in updates[Current]
                => Current \in shown["i18n"]
           /\ shown' = [shown EXCEPT ![r] = @ \cup {Current}]
           /\ UNCHANGED <<updates, open>>

Close == /\ open /\ open' = FALSE
         /\ \A r \in updates[Current] : Current \in shown[r]
         /\ UNCHANGED <<updates, shown>>

PubNext == \/ \E changed \in SUBSET Repo : Begin(changed)
           \/ \E r \in Repo : Show(r)
           \/ Close

PubSpec == PubInit /\ [][PubNext]_pubvars

=============================================================================
