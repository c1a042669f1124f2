-------------------------- MODULE MCEngineSessions --------------------------
(* Instances of EngineSessions for TLC. *)
EXTENDS EngineSessions, TLC

CONSTANTS c1, c2, c3

ThreeCallers == {c1, c2, c3}

\* Two sources, or a source and a virtual session, in both orders, and a list
\* that names a session twice.
Lists == {<<1, 2>>, <<2, 1>>, <<1, 3>>, <<1, 1>>}

CallerSymmetry == Permutations(Callers)
=============================================================================
