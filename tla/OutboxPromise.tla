---------------------------- MODULE OutboxPromise ----------------------------
(***************************************************************************)
(* What the outbox promises for each ranking: accepted once, delivered at  *)
(* least once before it counts as sent, and settled for good.              *)
(*                                                                         *)
(* Nothing is said about trackers, claims, attempts or crashes.            *)
(***************************************************************************)
EXTENDS Naturals

CONSTANT Ranking

VARIABLES
  state,    \* what became of each ranking
  delivered \* the rankings the receiving API has stored

promised == <<state, delivered>>

PromiseInit == /\ state = [r \in Ranking |-> "unknown"]
               /\ delivered = {}

Becomes(r, from, to) == /\ r \in Ranking /\ state[r] = from
                        /\ state' = [state EXCEPT ![r] = to]
                        /\ UNCHANGED delivered

Accept(r)  == Becomes(r, "unknown", "open")
Confirm(r) == r \in delivered /\ Becomes(r, "open", "sent")
GiveUp(r)  == Becomes(r, "open", "failed")

\* A delivery takes as long as it takes: its ranking may be settled by then.
Arrive(r)  == /\ state[r] # "unknown" /\ delivered' = delivered \cup {r}
              /\ UNCHANGED state

\* Retention takes settled rankings only, and they never come back.
Forget(gone) == /\ \A r \in gone : state[r] \in {"sent", "failed"}
                /\ state' = [r \in Ranking |-> IF r \in gone THEN "forgotten" ELSE state[r]]
                /\ UNCHANGED delivered

PromiseNext == \/ \E r \in Ranking : Accept(r) \/ Confirm(r) \/ GiveUp(r) \/ Arrive(r)
               \/ \E gone \in SUBSET Ranking : Forget(gone)

PromiseSpec == PromiseInit /\ [][PromiseNext]_promised

=============================================================================
