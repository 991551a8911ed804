------------------------- MODULE MCGlobalPortLedger -------------------------
(* A small ledger: an inbound that moves between two hosts and a quick     *)
(* config that aliases its port or owns one itself.                        *)
EXTENDS GlobalPortLedger, TLC

CONSTANTS inb, qc, h1, h2

Key(res, host, role) == [res |-> res, host |-> host, role |-> role, slot |-> "NONE"]

MCKeys == {Key(inb, h1, "PUBLIC_LISTENER"), Key(inb, h2, "PUBLIC_LISTENER"),
           Key(inb, h2, "OWNERSHIP"), Key(qc, h1, "PUBLIC_LISTENER")}
\* Ports and clients are interchangeable.
Symmetry == Permutations(Ports) \cup Permutations(Clients)
=============================================================================
