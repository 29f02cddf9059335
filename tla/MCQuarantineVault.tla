------------------------- MODULE MCQuarantineVault -------------------------
(* Small instances of QuarantineVault: two clients, a file with evidence, a *)
(* second path that holds a copy of it or another content.                  *)
EXTENDS QuarantineVault, TLC

CONSTANTS c1, c2, p1, p2, x, y, z

MCClients == {c1, c2}
MCPaths == {p1, p2}
MCContent == {x, y}
MCMoreContent == {x, y, z}
MCFiles == [p \in MCPaths |-> IF p = p1 THEN x ELSE y]
MCFaults == {"copy", "late", "unlink", "record"}
MCNoFaults == {}
\* The clients run the same program.
MCSymmetry == Permutations(MCClients)
=============================================================================
