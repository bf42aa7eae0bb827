----------------------------- MODULE MCAppState -----------------------------
(* Two connections sending commands, and the day/night task.               *)
EXTENDS AppStateProofs, TLC

CONSTANTS c1, c2

MCClients == {c1, c2}

Set(f, b) == [set |-> f, to |-> b]

MCCommands ==
  {Set("night_mode", TRUE), Set("ircut_on", FALSE), Set("auto_daynight", TRUE)}

Symmetry == Permutations(MCClients)
=============================================================================
