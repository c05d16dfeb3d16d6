------------------------------ MODULE MCFleet ------------------------------
(***************************************************************************)
(* Three task-agents and one sweep.  1 and 2 name each other and 3 names 2: *)
(* a mutual pair while both run, and, when 1 has died, a chain that takes a *)
(* sweep three passes.  1 is a human's, the others are a master's.          *)
(***************************************************************************)
EXTENDS Fleet

CONSTANTS s1, m1

MCMaster  == {HOST, m1}
MCSweep   == {s1}
MCPeers   == <<{2}, {1}, {2}>>
MCParents == <<{HOST}, {m1}, {m1}>>
=============================================================================
