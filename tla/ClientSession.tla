--------------------------- MODULE ClientSession ----------------------------
(***************************************************************************)
(* What an application expects of the three handlers of a NetworkClient:   *)
(* ConnectedHandler once, then packets, then DisconnectedHandler once.     *)
(***************************************************************************)
EXTENDS Naturals

CONSTANT Clients

VARIABLES state,        \* state[c]: "new", "open" or "over"
          packets       \* packets[c]: PacketHandler calls

vars == <<state, packets>>

Init ==
    /\ state = [c \in Clients |-> "new"]
    /\ packets = [c \in Clients |-> 0]

Connected(c) ==
    /\ state[c] = "new"
    /\ state' = [state EXCEPT ![c] = "open"]
    /\ UNCHANGED packets

Packet(c) ==
    /\ state[c] = "open"
    /\ packets' = [packets EXCEPT ![c] = @ + 1]
    /\ UNCHANGED state

Disconnected(c) ==
    /\ state[c] = "open"
    /\ state' = [state EXCEPT ![c] = "over"]
    /\ UNCHANGED packets

Next == \E c \in Clients : Connected(c) \/ Packet(c) \/ Disconnected(c)

Spec == Init /\ [][Next]_vars
=============================================================================
