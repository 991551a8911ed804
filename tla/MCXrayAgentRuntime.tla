------------------------- MODULE MCXrayAgentRuntime -------------------------
(* Desired states for model checking: a first deployment, the removal of   *)
(* every listener, another configuration under the generation of that, and *)
(* the last one.                                                           *)
EXTENDS XrayAgentRuntime

CONSTANTS a, b, e

D(gen, cfg) == [gen |-> gen, cfg |-> cfg]

Deployments == {D(1, a), D(2, e), D(2, b), D(3, b)}
=============================================================================
