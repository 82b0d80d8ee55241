---------------------------- MODULE MCBatchReview ----------------------------
(* Two reviews of two filings of a Friday (day 4): one received in the     *)
(* second half of the day, a Saturday in the eastern zone, and one in the  *)
(* first half.                                                             *)
EXTENDS BatchReview, TLC

CONSTANTS r1, r2

ReceivedOnFriday == 1 :> 9 @@ 2 :> 8

Usual == [validFrom |-> 3, validThrough |-> 9, timezone |-> 1, closed |-> {7}]

Moved == [validFrom |-> 8, validThrough |-> 9, timezone |-> -1, closed |-> {}]

\* The court leaves its time zone between the receipt and the next open day.
Published == {<<>>, <<Usual>>, <<Usual, Moved>>}

DaysOfReceipt == 8..9

\* Bound of the model: one resubmission of either filing.
OneResubmission ==
  \A f, g \in Filings : f # g => filings[f].count + filings[g].count <= 3

Interchangeable == Permutations({r1, r2})

=============================================================================
