----------------------------- MODULE MCLaunch -----------------------------
(* Three launches, in this order: a task-agent or a shared ticket, a shared  *)
(* task-agent or a one-shot run, a task-agent; the agents have one master    *)
(* and one slug.                                                            *)
EXTENDS Launch

Agent(mode) == [kind |-> "task-agent", slug |-> "s", parent |-> "m", mode |-> mode]
Other(kind) == [kind |-> kind, slug |-> "s", parent |-> "none", mode |-> "isolated"]

MCAsks == <<{Agent("isolated"), [Other("ticket") EXCEPT !.mode = "shared"]},
            {Agent("shared"), Other("run")},
            {Agent("isolated")}>>
MCRoots == {{0}}
============================================================================
