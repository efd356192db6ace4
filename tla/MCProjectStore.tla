--------------------------- MODULE MCProjectStore ---------------------------
(* Instances of ProjectStore for TLC. *)
EXTENDS ProjectStore, TLC

CONSTANTS p1, p2, c1, c2

OneProject  == {p1}
TwoProjects == {p1, p2}
TwoClients  == {c1, c2}
(* Nothing but identity tells clients apart, nor projects. *)
Interchangeable == Permutations(Project) \cup Permutations(Client)
=============================================================================
