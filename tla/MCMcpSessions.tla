---------------------------- MODULE MCMcpSessions ----------------------------
(* Instances of McpSessions: which run makes which call. *)
EXTENDS McpSessions, TLC

CONSTANTS r1, r2, r3, c1, c2, c3

\* r1 makes the calls c1 and c2, r2 makes c3, r3 only closes the kernel.
McpRunOf == [c \in Calls |-> IF c = c3 THEN r2 ELSE r1]

\* The calls of one run are interchangeable, and so are the servers.
Symmetry == Permutations({c1, c2}) \cup Permutations(Servers)
==============================================================================
