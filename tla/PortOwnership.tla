---------------------------- MODULE PortOwnership ----------------------------
(***************************************************************************)
(* What the global port ledger promises to every part of the panel: a      *)
(* listener port has at most one owner at a time, and it never passes from *)
(* one owner to the next without a quarantine in between, during which     *)
(* nobody owns it.                                                         *)
(***************************************************************************)
CONSTANTS
    Ports,       \* listener ports
    Owners,      \* logical resources that may own a port
    Available,   \* the state of a port nobody owns and anybody may claim
    Quarantined  \* the state of a port nobody owns and nobody may claim

VARIABLE holder  \* holder[p] is Available, Quarantined or the owner of p

Init == holder \in [Ports -> {Available, Quarantined}]

(* An owner claims an available port.                                      *)
Claim(p, o) ==
    /\ holder[p] = Available
    /\ holder' = [holder EXCEPT ![p] = o]

(* The owners of a set of ports give them up.                              *)
Retire(S) ==
    /\ \A p \in S : holder[p] \in Owners
    /\ holder' = [p \in Ports |-> IF p \in S THEN Quarantined ELSE holder[p]]

(* The quarantine of a port ends.                                          *)
Clear(p) ==
    /\ holder[p] = Quarantined
    /\ holder' = [holder EXCEPT ![p] = Available]

Next ==
    \/ \E p \in Ports, o \in Owners : Claim(p, o)
    \/ \E S \in SUBSET Ports : Retire(S)
    \/ \E p \in Ports : Clear(p)

Spec == Init /\ [][Next]_holder
=============================================================================
