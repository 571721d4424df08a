----------------------------- MODULE MCTransport -----------------------------
(***************************************************************************)
(* Small instances of Transport for TLC, its fairness, and the properties. *)
(***************************************************************************)
EXTENDS Transport

\* Weak fairness of an action that is enabled, and changes the state, exactly
\* where its guard holds: []<>~guard \/ []<><<action>>_vars.  (It says what
\* WF_vars says; ENABLED of a whole handler is out of TLC's reach.)  Both
\* programs read whatever arrives, leave a dispatch loop that is done, and go on
\* to the next phase of the connection.
Fairness ==
    /\ \A e \in Endpoint :
          /\ []<>~CanSetup(e) \/ []<><<kex_setup(e)>>_vars
          /\ []<>~CanRead(e) \/ []<><<Read(e)>>_vars
    /\ []<>~KexOver("client") \/ []<><<ssh_userauth2>>_vars
    /\ []<>~KexOver("server") \/ []<><<do_authentication2>>_vars
    /\ []<>~AuthOver("client") \/ []<><<client_loop>>_vars
    /\ []<>~AuthOver("server") \/ []<><<server_loop2>>_vars

FairSpec == Spec /\ Fairness

----------------------------------------------------------------------------
\* No side ever gives the connection up: every frame is opened under the key, the
\* sequence number and the compression it was sealed with, every packet meets a
\* handler that expects it, the signed hash is the one the client computes, and
\* no rekey is started twice (ssh_dispatch_run, ssh_packet_read_poll2,
\* kex_start_rekex).
NeverFails == down = "none"

\* Every packet that is sent is delivered in the end: every rekey completes on
\* both sides and empties the queue (kex_input_newkeys, ssh_packet_send2,
\* ssh_packet_set_postauth).
DataDelivered ==
    \A e \in Endpoint : \A n \in 1 .. MaxData :
        (sent[e] >= n) ~> (rcvd[Peer(e)] >= n)

\* A key exchange that has begun comes to its end on both sides: no interleaving
\* of two KEXINITs that cross, of the clock and of the user's request leaves a
\* side waiting (kex_input_kexinit, kex_send_kexinit).
RekeyCompletes ==
    \A e \in Endpoint :
        ssh_packet_is_rekeying(st[e]) ~> ~ssh_packet_is_rekeying(st[e])

\* The connection survives every rekey, every rekey ends and every packet arrives
\* (NeverFails, RekeyCompletes, DataDelivered).
TransportLive == []NeverFails /\ RekeyCompletes /\ DataDelivered
=============================================================================
