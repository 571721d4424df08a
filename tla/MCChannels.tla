----------------------------- MODULE MCChannels -----------------------------
(***************************************************************************)
(* Small instances of Channels for TLC, the fairness under which channels  *)
(* make progress, and the properties that compare the two ends.            *)
(***************************************************************************)
EXTENDS Channels, SequencesExt

MuxKind == {<<"client", "mux">>}
SessionKinds == {<<"client", "session">>, <<"client", "mux">>}
EndKinds == {<<"client", "mux">>, <<"client", "tcpip">>}
BothTcp == {<<"client", "tcpip">>, <<"server", "tcpip">>}
AllKinds == SessionKinds \cup BothTcp

NoReads == [e \in Endpoint |-> 0]
OneByte == [e \in Endpoint |-> 1]
OneWindow == [client |-> 1, server |-> 2]

\* The main loops of both programs run for ever, dispatch every packet they
\* have buffered, and visit every channel in every round; connect(2) ends and
\* children exit.
Fairness ==
    /\ WF_vars(ClientReceive) /\ WF_vars(ServerReceive)
    /\ \A e \in Endpoint, i \in Slots :
          /\ WF_vars(channel_handler(e, i))
          /\ WF_vars(channel_post_connecting(e, i))
          /\ WF_vars(channel_output_poll(e, i))
    /\ \A i \in Slots : WF_vars(session_exit_message(i))

FairSpec == Spec /\ Fairness

----------------------------------------------------------------------------

\* Bytes in messages of types T about instance x on their way to e.
UnderWay(e, x, T) ==
    FoldLeft(LAMBDA a, m : IF m.t \in T /\ m.inst = x THEN a + m.n ELSE a,
             0, wire[e])

\* Both ends of instance x are in the OPEN type, c at e and d at its peer.
OpenPair(e, c, d) == c.type = "OPEN" /\ d.type = "OPEN" /\ c.inst = d.inst

\* The two ends agree on the window: what one end may still send, with the
\* data and the adjustments under way, is what the other end still expects
\* (plus stderr data it dropped without counting it).  So "rcvd too much
\* data" never happens and the unsigned local_window never wraps.
WindowAgreement ==
    \A e \in Endpoint : \A i, j \in Slots :
        LET c == channels[e][i]
            d == channels[Peer(e)][j]
        IN  OpenPair(e, c, d) =>
              /\ c.local_window >= 0 /\ d.remote_window >= 0
              /\ c.local_window = d.remote_window
                   + UnderWay(e, c.inst, {"DATA", "EXT"})
                   + UnderWay(Peer(e), c.inst, {"ADJUST"})
                   + hist[e][c.inst].dropped

\* Every byte of the window is either still available, buffered, waiting to
\* be credited, or was discarded by a failed writer: no credit is created or
\* given twice.  One exception: the message of client_status_confirm() about a
\* refused request goes through the same buffer, channel_handle_efd() counts it
\* as consumed when it is written, and so the budget exceeds the window by
\* exactly the bytes of that message, which no message of the peer paid for.
WindowBudget ==
    \A e \in Endpoint, i \in Slots :
        LET c == channels[e][i]
            buffered == c.output + (IF c.extended_usage = "WRITE"
                                    THEN c.extended ELSE 0)
        IN  c.type = "OPEN" =>
              c.local_window + buffered + c.local_consumed
                + hist[e][c.inst].leaked = WindowMax + hist[e][c.inst].own

\* The output of instance x at e has come to its end.
Ended(e, x) ==
    /\ x <= opened
    /\ \A i \in Slots : channels[e][i].inst = x =>
                            channels[e][i].type = "OPEN"
                            /\ channels[e][i].ostate = "CLOSED"

\* No data is lost at the end of a stream: when the output side of a channel
\* is closed, or the channel is gone, and the local writer did not fail, it
\* was given every byte the peer had read, whatever the order of EOF, CLOSE,
\* exit of the child and garbage collection.
StreamComplete ==
    \A e \in Endpoint, x \in Insts :
        Ended(e, x) /\ ~hist[e][x].cut /\ down = "none"
            => hist[e][x].wr = hist[Peer(e)][x].rd

\* The same for the stderr of a session.
StderrComplete ==
    \A x \in Insts :
        Ended("client", x) /\ ~hist["client"][x].cut /\ ~hist["client"][x].ecut
        /\ down = "none"
            => hist["client"][x].ewr = hist["server"][x].erd

\* When the client is done with a session whose command was started, it has
\* received the exit status: session_exit_message() runs before the server
\* sends CLOSE, and no CLOSE overtakes it.
ExitStatusKnown ==
    \A x \in Insts :
        /\ x <= opened /\ hist["server"][x].ran /\ down = "none"
        /\ \A i \in Slots : channels["client"][i].inst # x
        => hist["client"][x].exit

\* Every channel is eventually given back on both sides once its readers have
\* reached their end, its connect has ended and its child has exited.  Unless a
\* failed writer has discarded a whole window of data: chan_shutdown_write()
\* does not count it, so the window stays shut, and a channel whose peer may
\* not send is not read from and never sees its end.
ChannelsFreed ==
    \A e \in Endpoint, i \in Slots :
        channels[e][i].type # "FREE" ~>
            \/ channels[e][i].type = "FREE" \/ down # "none"
            \/ \E f \in Endpoint, x \in Insts : hist[f][x].leaked >= WindowMax

\* Buffered input is eventually sent, or the channel is given up: as long as
\* the writer at the other end does not fail, the window never stays shut.
InputDrains ==
    \A e \in Endpoint, i \in Slots :
        channels[e][i].input > 0 ~>
            \/ channels[e][i].input = 0 \/ down # "none"
            \/ \E x \in Insts : hist[Peer(e)][x].leaked > 0

\* Nothing of a session is lost at its end: its output, its stderr and its exit
\* status (StreamComplete, StderrComplete, ExitStatusKnown).
SessionComplete == StreamComplete /\ StderrComplete /\ ExitStatusKnown

\* The windows of the two ends add up (WindowAgreement, WindowBudget).
WindowsAgree == WindowAgreement /\ WindowBudget

\* Buffers empty and channels are given back (InputDrains, ChannelsFreed).
ChannelsEnd == InputDrains /\ ChannelsFreed
=============================================================================
