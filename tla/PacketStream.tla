---------------------------- MODULE PacketStream ----------------------------
(***************************************************************************)
(* What the transport promises to the connection layer, and what module    *)
(* Channels takes for granted: the packets each side sends are handed to   *)
(* the other side in order, each exactly once, whatever key exchanges      *)
(* happen in between.                                                      *)
(***************************************************************************)
EXTENDS Naturals, Sequences

CONSTANTS Endpoint, Peer(_)

VARIABLES
    sent,      \* sent[e]: packets e has sent; they are numbered from 1
    inflight,  \* inflight[e]: packets sent to e and not handed to it
    rcvd       \* rcvd[e]: the packet handed to e last

vars == <<sent, inflight, rcvd>>

Init ==
    /\ sent = [e \in Endpoint |-> 0] /\ rcvd = [e \in Endpoint |-> 0]
    /\ inflight = [e \in Endpoint |-> <<>>]

Send(e) ==
    /\ sent' = [sent EXCEPT ![e] = @ + 1]
    /\ inflight' = [inflight EXCEPT ![Peer(e)] = Append(@, sent[e] + 1)]
    /\ UNCHANGED rcvd

Deliver(e) ==
    /\ inflight[e] # <<>>
    /\ rcvd' = [rcvd EXCEPT ![e] = Head(inflight[e])]
    /\ inflight' = [inflight EXCEPT ![e] = Tail(@)]
    /\ UNCHANGED sent

Next == \E e \in Endpoint : Send(e) \/ Deliver(e)

Spec == Init /\ [][Next]_vars
=============================================================================
