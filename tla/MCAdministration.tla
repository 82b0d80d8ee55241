--------------------------- MODULE MCAdministration ---------------------------
(* Two accounts, two subjects and one address that passes from one subject *)
(* to the other; a second address is given by registration and by          *)
(* administrators.                                                         *)
EXTENDS Administration, TLC

CONSTANTS s1, s2, e1

SharedAddress == {<<s1, e1>>, <<s2, e1>>}

Interchangeable ==
  Permutations(Users) \cup Permutations({s1, s2}) \cup Permutations(Requests)

\* Bounds of the model: administrative changes of both accounts together,
\* and clerks stand for judges too.
FewChanges ==
  /\ \A u, v \in Users : u # v => account[u].version + account[v].version <= 2
  /\ \A u \in Users : account[u].type # "judge"

=============================================================================
