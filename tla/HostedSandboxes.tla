-------------------------- MODULE HostedSandboxes --------------------------
(***************************************************************************)
(* What a worker promises of the sandboxes it hosts, in the terms of its   *)
(* inventory: how the state of an ID may change from one moment to the     *)
(* next.  DEAD is final until the sandbox is removed; an ID being removed  *)
(* is not hosted again before it is gone; without a removal, only a        *)
(* sandbox whose creation has not been answered is dropped, in its answer; *)
(* a restarted worker takes over the VMs it finds before it serves.        *)
(***************************************************************************)
CONSTANT Sandbox

VARIABLES
    host,      \* the state of each sandbox, "none" and "removing" included
    creating,  \* those whose creation has not been answered
    serving    \* the worker has recovered

vars == <<host, creating, serving>>

Live == {"starting", "running", "unknown"}

Changes ==
    {<<"none", "removing">>, <<"removing", "none">>, <<"dead", "removing">>,
     <<"starting", "running">>, <<"starting", "unknown">>,
     <<"unknown", "starting">>, <<"unknown", "running">>, <<"running", "unknown">>}
    \cup Live \X {"dead", "removing"}

Init ==
    /\ host = [s \in Sandbox |-> "none"]
    /\ creating = {}
    /\ serving = TRUE

(* A creation begins with the ID, and fails with it, DEAD or not yet up.   *)
Begins(s) == host[s] = "none" /\ host'[s] = "starting" /\ s \in creating'
Fails(s) == s \in creating \ creating' /\ host[s] \in {"starting", "dead"} /\ host'[s] = "none"

Serve ==
    /\ serving
    /\ host' = [s \in Sandbox |-> host'[s]]
    /\ \A s \in Sandbox :
           host'[s] # host[s] =>
               <<host[s], host'[s]>> \in Changes \/ Begins(s) \/ Fails(s)
    /\ creating' \subseteq creating \cup {s \in Sandbox : Begins(s)}
    /\ UNCHANGED serving

Restart ==
    /\ serving' = FALSE
    /\ host' = [s \in Sandbox |-> "none"]
    /\ creating' = {}

(* Before it serves, a worker takes over VMs, and may see them die.        *)
Recover ==
    /\ ~serving
    /\ host' = [s \in Sandbox |-> host'[s]]
    /\ \A s \in Sandbox :
           host'[s] # host[s] =>
               <<host[s], host'[s]>> \in ({"none"} \X Live) \cup (Live \X (Live \cup {"dead"}))
    /\ UNCHANGED <<creating, serving>>

Ready ==
    /\ ~serving
    /\ serving' = TRUE
    /\ UNCHANGED <<host, creating>>

Next == Serve \/ Restart \/ Recover \/ Ready

Spec == Init /\ [][Next]_vars

=============================================================================
