----------------------------- MODULE MCCaseAccess -----------------------------
(* Two members of the court's staff and one more account over the records  *)
(* of one case and its one participant.                                    *)
EXTENDS CaseAccess, TLC

CONSTANTS s1, s2

\* The two members of the staff are interchangeable.
Interchangeable == Permutations({s1, s2})

\* Bound of the model: changes of the case and of its instructions together.
FewChanges ==
  \A p \in Participants : version + ContactVersion(contact[p]) <= 3

=============================================================================
