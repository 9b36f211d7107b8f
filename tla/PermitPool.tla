----------------------------- MODULE PermitPool -----------------------------
(***************************************************************************)
(* What a concurrency gate promises, said without saying how: at most      *)
(* Permits clients hold a permit, a client gets one while there is room,   *)
(* gives it back, or hands it straight to somebody else.  No queue, no     *)
(* counter.  TransferGate is shown to implement this.                      *)
(***************************************************************************)
EXTENDS Naturals, FiniteSets

CONSTANTS Clients, Permits

VARIABLE holders

Init == holders = {}

Take(c) ==
    /\ c \notin holders
    /\ Cardinality(holders) < Permits
    /\ holders' = holders \union {c}

GiveBack(c) ==
    /\ c \in holders
    /\ holders' = holders \ {c}

HandOver(c, d) ==
    /\ c \in holders
    /\ d \notin holders
    /\ holders' = (holders \ {c}) \union {d}

Next ==
    \/ \E c \in Clients : Take(c) \/ GiveBack(c)
    \/ \E c, d \in Clients : HandOver(c, d)

Spec == Init /\ [][Next]_holders
=============================================================================
