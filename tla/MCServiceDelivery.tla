-------------------------- MODULE MCServiceDelivery --------------------------
(* The filer of a filing sends documents to two participants of its case,  *)
(* one of whom has service instructions; one more account may be linked to *)
(* either.                                                                 *)
EXTENDS ServiceDelivery, TLC

CONSTANTS q1, q2, v1, v2

\* Requests and visits are interchangeable.
Interchangeable == Permutations({q1, q2}) \cup Permutations({v1, v2})

=============================================================================
