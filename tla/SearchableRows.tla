--------------------------- MODULE SearchableRows ---------------------------
(***************************************************************************)
(* What a disk backend promises those who search it, whatever flushes,     *)
(* caches and persists go on behind the lock: every row appended so far,   *)
(* and no other, is ranked, and each under the metric now in force.  Rows  *)
(* appear only by an append and are re-ranked only by a metric change.     *)
(* It starts with the rows its directory held when it was opened.          *)
(* FlushController is shown to implement this.                             *)
(***************************************************************************)
EXTENDS Naturals

CONSTANTS Metrics, Unscaled

VARIABLES
  rows,    \* the number of rows appended
  ranked,  \* ranked[r]: the metrics a search ranks row r under
  metric   \* the metric in force

searchVars == <<rows, ranked, metric>>

AllUnder(n, m) == [r \in 0 .. n - 1 |-> {m}]

Init ==
  /\ rows \in Nat
  /\ metric = Unscaled
  /\ ranked = AllUnder(rows, Unscaled)

(* One row or a batch becomes searchable, at once and as a whole.          *)
Append ==
  /\ rows' \in Nat /\ rows' > rows
  /\ ranked' = AllUnder(rows', metric)
  /\ UNCHANGED metric

(* All rows are re-ranked, together.                                       *)
ChangeMetric ==
  /\ metric' \in Metrics
  /\ ranked' = AllUnder(rows, metric')
  /\ UNCHANGED rows

Next == Append \/ ChangeMetric

Spec == Init /\ [][Next]_searchVars
=============================================================================
