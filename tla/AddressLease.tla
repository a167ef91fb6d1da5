---------------------------- MODULE AddressLease ----------------------------
(***************************************************************************)
(* What the server promises about public addresses (subdomains and tcp     *)
(* ports), said without its mutexes, goroutines and sockets: an address    *)
(* has at most one owner, it changes hands only by being free in between,  *)
(* a registration that fails gives back what it took, and an address that  *)
(* a client was promised stays the client's until the client closes, which *)
(* gives back everything it owns in one step.                              *)
(***************************************************************************)
CONSTANTS Clients, Addresses, Nobody

VARIABLES
    open,       \* the clients being served
    owner,      \* address -> the client it is leased to
    promised    \* client -> the addresses it was told are its own

vars == <<open, owner, promised>>

Init ==
    /\ open = {}
    /\ owner = [a \in Addresses |-> Nobody]
    /\ promised = [c \in Clients |-> {}]

\* A client authenticates.
Open(c) ==
    /\ c \notin open
    /\ open' = open \cup {c}
    /\ UNCHANGED <<owner, promised>>

\* A registration takes a free address.
Take(c, a) ==
    /\ c \in open
    /\ owner[a] = Nobody
    /\ owner' = [owner EXCEPT ![a] = c]
    /\ UNCHANGED <<open, promised>>

\* The registration fails after all; only an address not yet promised goes.
GiveBack(c, a) ==
    /\ c \in open
    /\ owner[a] = c
    /\ a \notin promised[c]
    /\ owner' = [owner EXCEPT ![a] = Nobody]
    /\ UNCHANGED <<open, promised>>

\* The client is answered.
Promise(c, a) ==
    /\ c \in open
    /\ owner[a] = c
    /\ promised' = [promised EXCEPT ![c] = @ \cup {a}]
    /\ UNCHANGED <<open, owner>>

\* The client is gone.
Close(c) ==
    /\ c \in open
    /\ open' = open \ {c}
    /\ owner' = [a \in Addresses |-> IF owner[a] = c THEN Nobody ELSE owner[a]]
    /\ promised' = [promised EXCEPT ![c] = {}]

Next == \E c \in Clients :
    \/ Open(c) \/ Close(c)
    \/ \E a \in Addresses : Take(c, a) \/ GiveBack(c, a) \/ Promise(c, a)

Spec == Init /\ [][Next]_vars
=============================================================================
