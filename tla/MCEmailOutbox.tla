---------------------------- MODULE MCEmailOutbox ----------------------------
(* Small instances of the email outbox: a service alert on its own with    *)
(* two workers, and a service alert that shares the workers with a notice. *)
EXTENDS EmailOutbox, TLC

\* Workers and addresses are interchangeable.
Interchangeable == Permutations(Workers) \cup Permutations(Addresses)

=============================================================================
