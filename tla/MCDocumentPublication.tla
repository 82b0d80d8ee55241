------------------------ MODULE MCDocumentPublication ------------------------
(* Two reviewers and a filer who is also assigned to the court.             *)
EXTENDS DocumentPublication, TLC

CONSTANTS s1, s2

\* The two reviewers are interchangeable, and so are the copies.
Interchangeable == Permutations({s1, s2}) \cup Permutations(Copies)

=============================================================================
