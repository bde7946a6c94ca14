---------------------------- MODULE MCIntegrate ----------------------------
(* Agents that share a file; the first may change no other. *)
EXTENDS Integrate

CONSTANTS a1, a2, a3, f1, f2

Asked(agents, mode, owners, dry) == [agents |-> agents, mode |-> mode, owners |-> owners, dry |-> dry]
Skipping == {Asked(<<a1, a2, a3>>, "skip", FALSE, FALSE)}
Checking == {Asked(<<a1, a2>>, "abort", TRUE, FALSE)}
OwnFile == [agent \in Agents |-> IF agent = a1 THEN {f1} ELSE {f1, f2}]
=============================================================================
