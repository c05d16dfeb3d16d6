---------------------------- MODULE MCSupervisor ----------------------------
(***************************************************************************)
(* A task-agent with two correspondents.                                    *)
(***************************************************************************)
EXTENDS Supervisor, TLC

CONSTANTS s1, s2

MCSender == {s1, s2}
=============================================================================
