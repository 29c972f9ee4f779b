----------------------------- MODULE SentTotals -----------------------------
(***************************************************************************)
(* What the way of the counters promises to those who work with the pool's *)
(* totals (MetricsPipeline is shown to implement it; LogGenerator relies   *)
(* on it): how much the workers have sent, what of it the aggregator's map *)
(* says, and what a reader makes of that map who copies it entry by entry  *)
(* while it changes.                                                       *)
(***************************************************************************)
EXTENDS Integers

VARIABLES
  steady,     \* no worker that counts as active ever stops counting
  sent,       \* logs sent by all workers
  published,  \* the sum over the map's entries of active workers
  reading,    \* a copy of the map is being made
  total       \* that sum over the entries of the copy, those still to be copied included

vars == <<steady, sent, published, reading, total>>

Init == /\ steady \in BOOLEAN
        /\ sent = 0 /\ published = 0 /\ reading = FALSE /\ total = 0

\* A batch of some worker leaves.
Send == sent' = sent + 1 /\ UNCHANGED <<steady, published, reading, total>>

\* An entry is written.  Without an outage the sum never falls; in an outage entries stop
\* counting: all that is known is that whatever is summed up was sent.  The sum of a copy
\* under way changes with the map's if the entry is still to be copied, else not at all.
Publish ==
  /\ published' \in (IF steady THEN published ELSE 0) .. sent
  /\ \/ total' = total
     \/ reading /\ total' = total + published' - published /\ total' \in 0..sent
  /\ UNCHANGED <<steady, sent, reading>>

Begin ==
  /\ ~reading /\ reading' = TRUE
  /\ total' = published
  /\ UNCHANGED <<steady, sent, published>>

End == reading /\ reading' = FALSE /\ UNCHANGED <<steady, sent, published, total>>

\* The total has been used.
Forget == ~reading /\ total' = 0 /\ UNCHANGED <<steady, sent, published, reading>>

Next == Send \/ Publish \/ Begin \/ End \/ Forget

Safety == Init /\ [][Next]_vars
=============================================================================
