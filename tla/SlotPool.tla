------------------------------ MODULE SlotPool ------------------------------
(* What the build route's `Permit` promises to its callers: a fixed set of   *)
(* numbered slots, each owned by at most one client at a time, each client   *)
(* given at most one.  BuildServer is shown to implement it.                 *)
EXTENDS Naturals

CONSTANTS Clients,  \* the build requests
          Slots,    \* the concurrency ids
          Free      \* the owner of a slot nobody holds

VARIABLES owner,    \* who holds each slot
          served    \* the clients that were given a slot

PoolTypeOK ==
    /\ owner \in [Slots -> Clients \cup {Free}]
    /\ served \subseteq Clients

Init ==
    /\ owner = [s \in Slots |-> Free]
    /\ served = {}

\* A client is given a slot nobody holds, once.
Grant(c, s) ==
    /\ owner[s] = Free
    /\ c \notin served
    /\ owner' = [owner EXCEPT ![s] = c]
    /\ served' = served \cup {c}

Return(s) ==
    /\ owner[s] # Free
    /\ owner' = [owner EXCEPT ![s] = Free]
    /\ UNCHANGED served

\* The server process restarts with an empty pool.
Reset ==
    /\ owner' = [s \in Slots |-> Free]
    /\ UNCHANGED served

Next ==
    \/ \E c \in Clients, s \in Slots : Grant(c, s)
    \/ \E s \in Slots : Return(s)
    \/ Reset

Spec == Init /\ [][Next]_<<owner, served>>
=============================================================================
