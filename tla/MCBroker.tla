----------------------------- MODULE MCBroker -----------------------------
(* A ticket over two repositories and a task-agent whose repository has   *)
(* no graphql_command; any number of requests, two at a time.              *)
EXTENDS Broker, TLC

CONSTANTS c1, c2

MCMounts == "t" :> {"r", "q"} @@ "a" :> {"m"}
Interchangeable == Permutations({c1, c2})
============================================================================
