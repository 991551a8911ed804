---------------------------- MODULE MCFxpUdpExit ----------------------------
(* Two sessions of two rules; two datagrams in a packet, one in fragments. *)
EXTENDS FxpUdpExit

CONSTANTS k1, k2, r1, r2

MCRuleOf == [k \in {k1, k2} |-> IF k = k1 THEN r1 ELSE r2]
MCDatagrams == {[key |-> k1, seq |-> 1, n |-> 1], [key |-> k1, seq |-> 2, n |-> 2],
                [key |-> k2, seq |-> 1, n |-> 1]}
=============================================================================
