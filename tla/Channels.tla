------------------------------ MODULE Channels ------------------------------
(***************************************************************************)
(* The SSH 2 connection layer between a client and a server: the channel   *)
(* table of each side (channels.c), the session life of the server side    *)
(* (session.c, serverloop.c) and the request handling of the client side   *)
(* (clientloop.c).  The transport below delivers messages in order and     *)
(* without loss (module Transport), so it is one FIFO queue per direction. *)
(***************************************************************************)
EXTENDS Nchan, FiniteSets

CONSTANTS
    NSlots,        \* slots of a channel table that may be used (bound)
    MaxOpen,       \* channels opened in a behaviour (bound)
    WindowMax,     \* local_window_max, in abstract bytes
    MaxPacket,     \* local_maxpacket = remote_maxpacket
    MaxRead,       \* end -> bytes its local readers supply per channel (bound)
    MaxErr,        \* bytes of stderr the child of a session writes (bound)
    MaxAlive,      \* keepalive requests the server sends (bound)
    AliveCountMax, \* options.client_alive_count_max
    Kinds,         \* the <<opener, kind>> pairs of channels that are opened; a
                   \* "mux" is a session that a multiplexing master opens
    Complaint,     \* bytes of the client's own message about a refused request
    WritesFail,    \* whether write(2) on a channel's descriptors may fail
    ReadsEnd       \* whether the local readers reach their end of file

Endpoint == {"client", "server"}
Peer(e) == IF e = "client" THEN "server" ELSE "client"
Slots == 0 .. NSlots - 1
Insts == 1 .. MaxOpen

ASSUME BoundsAssumption ==
    /\ NSlots \in Nat \ {0} /\ MaxOpen \in Nat
    /\ WindowMax \in Nat \ {0} /\ MaxPacket \in Nat \ {0}
    /\ MaxRead \in [Endpoint -> Nat] /\ MaxErr \in Nat
    /\ MaxAlive \in Nat /\ AliveCountMax \in Nat /\ Complaint \in Nat
    /\ WritesFail \in BOOLEAN /\ ReadsEnd \in BOOLEAN
    /\ Kinds \subseteq {<<"client", "session">>, <<"client", "mux">>,
                        <<"client", "tcpip">>, <<"server", "tcpip">>}

VARIABLES
    channels,      \* the channel table of each endpoint
    wire,          \* wire[e]: messages on their way to e, oldest first
    opened,        \* number of channels opened so far (names the instances)
    sentAlive,     \* keepalive requests sent (bound)
    timeouts,      \* the server's keep_alive_timeouts
    down,          \* why the connection was torn down, "none" while it is up
    hist           \* history of the bytes of each instance at each endpoint

vars == <<channels, wire, opened, sentAlive, timeouts, down, hist>>

NoHist == [rd |-> 0, wr |-> 0, erd |-> 0, ewr |-> 0,
           leaked |-> 0, dropped |-> 0, own |-> 0, cut |-> FALSE, ecut |-> FALSE,
           ran |-> FALSE, exit |-> FALSE]

FreeSlot == [type |-> "FREE", ctype |-> "", self |-> 0, remote_id |-> -1,
             istate |-> "CLOSED", ostate |-> "CLOSED", flags |-> {},
             input |-> 0, output |-> 0, extended |-> 0,
             efd |-> FALSE, extended_usage |-> "IGNORE",
             local_window |-> 0, local_consumed |-> 0, remote_window |-> 0,
             detach_user |-> FALSE, detach_close |-> FALSE,
             mux |-> FALSE, confirms |-> 0, pid |-> "none", inst |-> 0]

Init ==
    /\ channels = [e \in Endpoint |-> [i \in Slots |-> FreeSlot]]
    /\ wire = [e \in Endpoint |-> <<>>]
    /\ opened = 0 /\ sentAlive = 0 /\ timeouts = 0 /\ down = "none"
    /\ hist = [e \in Endpoint |-> [x \in Insts |-> NoHist]]

----------------------------------------------------------------------------
(* The channel table.                                                      *)

Live(e) == {i \in Slots : channels[e][i].type # "FREE"}

\* channel_lookup() finds the channels that may receive messages.
Found(e, id) ==
    /\ id \in Slots
    /\ channels[e][id].type \in {"OPENING", "LARVAL", "CONNECTING", "OPEN"}

\* The slot channel_new() takes: the lowest free one.
IsNewSlot(e, i) == i \notin Live(e) /\ \A j \in Slots : j < i => j \in Live(e)

channel_new(ctype, type, i, window, extusage, x) ==
    [type |-> type, ctype |-> ctype, self |-> i, remote_id |-> -1,
     istate |-> "OPEN", ostate |-> "OPEN", flags |-> {},
     input |-> 0, output |-> 0, extended |-> 0,
     efd |-> (extusage = "WRITE"), extended_usage |-> extusage,
     local_window |-> window, local_consumed |-> 0, remote_window |-> 0,
     detach_user |-> FALSE, detach_close |-> FALSE,
     mux |-> FALSE, confirms |-> 0, pid |-> "none", inst |-> x]

Ctx(e, i) == [c |-> channels[e][i], out |-> <<>>,
              h |-> hist[e][channels[e][i].inst]]

\* A step of e on slot i ends with context k; the slot is released if free.
Commit(e, i, k, free) ==
    /\ channels' = [channels EXCEPT ![e][i] = IF free THEN FreeSlot ELSE k.c]
    /\ hist' = [hist EXCEPT ![e][k.c.inst] = k.h]

Emit(e, out) ==
    wire' = [wire EXCEPT ![Peer(e)] = @ \o out] /\ UNCHANGED timeouts

\* Reading any packet ends the wait for an answer to a keepalive request.
TakeEmit(e, out) ==
    /\ wire' = [wire EXCEPT ![e] = Tail(@), ![Peer(e)] = @ \o out]
    /\ timeouts' = IF e = "server" THEN 0 ELSE timeouts

\* The detach_user callback: a server session keeps its channel while its
\* child runs (session_close_by_channel); every other callback lets go.
DetachUser(c) ==
    IF c.pid = "running" THEN c
    ELSE [c EXCEPT !.detach_user = FALSE, !.detach_close = FALSE]

\* The context after channel_garbage_collect() and whether it freed c.
channel_garbage_collect(k) ==
    LET d  == chan_is_dead(k, k.c.detach_close)
        k1 == [d.k EXCEPT !.c = DetachUser(@)]
        g  == chan_is_dead(IF k.c.detach_user THEN k1 ELSE k, TRUE)
    IN  CASE k.c.detach_user /\ ~d.dead -> [k |-> d.k, free |-> FALSE]
          [] k.c.detach_user /\ d.dead /\ k1.c.detach_user ->
                [k |-> k1, free |-> FALSE]
          [] OTHER -> [k |-> g.k, free |-> g.dead]

----------------------------------------------------------------------------
(* Before and after select(): channel_handler().                           *)

Min2(a, b) == IF a < b THEN a ELSE b

Readable(c) ==
    c.istate = "OPEN" /\ c.remote_window > 0 /\ c.input < c.remote_window

Writable(c) == c.ostate \in {"OPEN", "WAIT_DRAIN"} /\ c.output > 0

EfdWritable(c) ==
    c.efd /\ ~BothClosed(c) /\ c.extended_usage = "WRITE" /\ c.extended > 0

EfdReadable(c) ==
    /\ c.efd /\ ~BothClosed(c) /\ ~Has(c, "EOF_SENT")
    /\ c.extended_usage = "READ" /\ c.extended < c.remote_window

\* channel_pre_open() sets the select masks and may find the output drained.
channel_pre(k) ==
    IF /\ k.c.type = "OPEN" /\ k.c.ostate = "WAIT_DRAIN" /\ k.c.output = 0
       /\ ~CHANNEL_EFD_OUTPUT_ACTIVE(k.c)
    THEN chan_obuf_empty(k)
    ELSE k

\* r, w, x: what the descriptors do.  -1 is an error or end of file, 0 means
\* not ready, n > 0 is the number of bytes moved.
channel_handle_rfd(k, r) ==
    CASE r = 0 -> k
      [] r < 0 -> chan_read_failed(k)
      [] OTHER -> [k EXCEPT !.c.input = @ + r, !.h.rd = @ + r]

channel_handle_wfd(k, w) ==
    CASE w = 0 -> k
      [] w < 0 -> chan_write_failed2(k)
      [] OTHER -> [k EXCEPT !.c.output = @ - w, !.c.local_consumed = @ + w,
                            !.h.wr = @ + w]

\* Once the child is gone (detach_close) stderr is read even if it is not
\* ready, and "not ready" then closes it.
channel_handle_efd(k, x) ==
    CASE k.c.extended_usage = "WRITE" /\ x < 0 ->
            [k EXCEPT !.c.efd = FALSE, !.h.ecut = TRUE]
      [] k.c.extended_usage = "WRITE" /\ x > 0 ->
            [k EXCEPT !.c.extended = @ - x, !.c.local_consumed = @ + x,
                      !.h.ewr = @ + x]
      [] k.c.extended_usage = "READ" /\ k.c.efd
            /\ (x < 0 \/ (x = 0 /\ k.c.detach_close)) ->
            [k EXCEPT !.c.efd = FALSE]
      [] k.c.extended_usage = "READ" /\ x > 0 ->
            [k EXCEPT !.c.extended = @ + x, !.h.erd = @ + x]
      [] OTHER -> k

\* Mutant: only three packets of consumed data cause an adjustment.
NeedsAdjust_3packets(c) ==
    /\ c.type = "OPEN" /\ ~Has(c, "CLOSE_SENT") /\ ~Has(c, "CLOSE_RCVD")
    /\ WindowMax - c.local_window > MaxPacket * 3
    /\ c.local_consumed > 0

NeedsAdjust(c) ==
    /\ c.type = "OPEN" /\ ~Has(c, "CLOSE_SENT") /\ ~Has(c, "CLOSE_RCVD")
    /\ \/ WindowMax - c.local_window > MaxPacket * 3
       \/ c.local_window < WindowMax \div 2
    /\ c.local_consumed > 0

channel_check_window(k) ==
    IF NeedsAdjust(k.c)
    THEN [Send(k, "ADJUST", k.c.local_consumed) EXCEPT
             !.c.local_window = @ + k.c.local_consumed,
             !.c.local_consumed = 0]
    ELSE k

channel_post_open(k, r, w, x) ==
    channel_check_window(
        channel_handle_efd(
            channel_handle_wfd(channel_handle_rfd(k, r), w), x))

\* What select() and the system calls may report for channel c.
MayRead(c, h, r, max) ==
    \/ r = 0
    \/ r = -1 /\ ReadsEnd /\ Readable(c)
    \/ r > 0 /\ Readable(c) /\ h.rd + r <= max
MayWrite(c, w) ==
    \/ w = 0
    \/ w = -1 /\ WritesFail /\ Writable(c)
    \/ w > 0 /\ Writable(c) /\ w <= c.output
MayErr(c, h, x) ==
    \/ x = 0
    \/ /\ c.extended_usage = "READ"
       /\ EfdReadable(c) \/ (c.efd /\ c.detach_close)
       /\ x < 0 \/ h.erd + x <= MaxErr
    \/ /\ EfdWritable(c)
       /\ x <= c.extended /\ (x > 0 \/ WritesFail)

\* One round of the main loop for one channel: the pre handler and garbage
\* collection, select(), the post handler and garbage collection.
channel_handler(e, i) ==
    /\ down = "none" /\ i \in Live(e)
    /\ channels[e][i].type # "CONNECTING"
    /\ \E pre \in {channel_garbage_collect(channel_pre(Ctx(e, i)))} :
          IF pre.free \/ channels[e][i].type # "OPEN"
          THEN Commit(e, i, pre.k, pre.free) /\ Emit(e, pre.k.out)
          ELSE \E r \in -1 .. MaxRead[e], w, x \in -1 .. WindowMax :
                 /\ MayRead(pre.k.c, pre.k.h, r, MaxRead[e])
                 /\ MayWrite(pre.k.c, w)
                 /\ MayErr(pre.k.c, pre.k.h, x)
                 /\ \E k \in {channel_post_open(pre.k, r, w, x)} :
                    \E post \in {channel_garbage_collect(k)} :
                       /\ Commit(e, i, post.k, post.free)
                       /\ Emit(e, post.k.out)
    /\ UNCHANGED <<opened, sentAlive, down>>

\* channel_post_connecting(): the connection to the target ends one way or
\* the other; a failed one leaves a zombie that is collected at once.
channel_post_connecting(e, i) ==
    /\ down = "none" /\ channels[e][i].type = "CONNECTING"
    /\ \/ LET k == [Ctx(e, i) EXCEPT !.c.type = "OPEN"]
          IN  /\ Commit(e, i, k, FALSE)
              /\ Emit(e, <<Msg("CONFIRM", k.c, k.c.local_window)>>)
       \/ LET g == channel_garbage_collect(
                     chan_mark_dead(Send(Ctx(e, i), "OPENFAIL", 0)))
          IN  Commit(e, i, g.k, g.free) /\ Emit(e, g.k.out)
    /\ UNCHANGED <<opened, sentAlive, down>>

----------------------------------------------------------------------------
(* Sending buffered input to the peer.                                     *)

OutputData(k) ==
    LET len == Min2(Min2(k.c.input, k.c.remote_window), MaxPacket)
    IN  CASE k.c.istate \in {"OPEN", "WAIT_DRAIN"} /\ k.c.input > 0 /\ len > 0 ->
               [Send(k, "DATA", len) EXCEPT !.c.input = @ - len,
                                            !.c.remote_window = @ - len]
          [] /\ k.c.istate = "WAIT_DRAIN" /\ k.c.input = 0
             /\ ~CHANNEL_EFD_INPUT_ACTIVE(k.c) -> chan_ibuf_empty(k)
          [] OTHER -> k

OutputExtended(k) ==
    LET len == Min2(Min2(k.c.extended, k.c.remote_window), MaxPacket)
    IN  IF ~Has(k.c, "EOF_SENT") /\ k.c.extended_usage = "READ" /\ len > 0
        THEN [Send(k, "EXT", len) EXCEPT !.c.extended = @ - len,
                                         !.c.remote_window = @ - len]
        ELSE k

channel_output_poll(e, i) ==
    /\ down = "none" /\ channels[e][i].type = "OPEN"
    /\ ~Has(channels[e][i], "CLOSE_SENT") /\ ~Has(channels[e][i], "CLOSE_RCVD")
    /\ LET k == OutputExtended(OutputData(Ctx(e, i)))
       IN  Commit(e, i, k, FALSE) /\ Emit(e, k.out)
    /\ UNCHANGED <<opened, sentAlive, down>>

----------------------------------------------------------------------------
(* Opening a channel.                                                      *)

\* channel_new() and channel_send_open() at the side that opens.
channel_send_open(e, kind) ==
    /\ down = "none" /\ opened < MaxOpen
    /\ opened' = opened + 1
    /\ \E i \in Slots :
         /\ IsNewSlot(e, i)
         /\ LET ses == kind # "tcpip"
                c == [channel_new(IF ses THEN "session" ELSE "tcpip",
                          "OPENING", i, WindowMax,
                          IF ses THEN "WRITE" ELSE "IGNORE", opened + 1)
                      EXCEPT !.detach_user = ses,
                             !.detach_close = kind = "mux",
                             !.mux = kind = "mux"]
            IN  /\ channels' = [channels EXCEPT ![e][i] = c]
                /\ Emit(e, <<Msg("OPEN", c, WindowMax)>>)
    /\ UNCHANGED <<sentAlive, down, hist>>

Head1(e, t) == wire[e] # <<>> /\ Head(wire[e]).t = t
M(e) == Head(wire[e])

\* A session is accepted at once, without a window, in the LARVAL type; a
\* forwarded connection waits for connect(2).  Either may be refused.
input_channel_open(e) ==
    /\ down = "none" /\ Head1(e, "OPEN")
    /\ \/ \E i \in Slots :
            /\ IsNewSlot(e, i)
            /\ LET ses == M(e).ctype = "session"
                   c == [channel_new(M(e).ctype,
                             IF ses THEN "LARVAL" ELSE "CONNECTING", i,
                             IF ses THEN 0 ELSE WindowMax, "IGNORE", M(e).inst)
                         EXCEPT !.remote_id = M(e).who,
                                !.remote_window = M(e).n,
                                !.detach_user = ses]
               IN  /\ channels' = [channels EXCEPT ![e][i] = c]
                   /\ TakeEmit(e, IF ses THEN <<Msg("CONFIRM", c, 0)>> ELSE <<>>)
       \/ /\ UNCHANGED channels
          /\ TakeEmit(e, <<[M(e) EXCEPT !.t = "OPENFAIL", !.id = M(e).who]>>)
    /\ UNCHANGED <<opened, sentAlive, down, hist>>

----------------------------------------------------------------------------
(* Messages for a channel.  fn is what the handler does to the channel.     *)

packet_disconnect(why) ==
    down' = why /\ UNCHANGED <<channels, wire, opened, sentAlive, timeouts, hist>>

Handle(e, t, fn(_, _)) ==
    /\ down = "none" /\ Head1(e, t)
    /\ IF Found(e, M(e).id)
       THEN LET k == fn(Ctx(e, M(e).id), M(e))
            IN  /\ Commit(e, M(e).id, k, FALSE)
                /\ TakeEmit(e, k.out)
                /\ UNCHANGED <<opened, sentAlive, down>>
       ELSE packet_disconnect("nonexistent channel")

\* The open_confirm callback of a session asks for the shell, with a reply.
OpenConfirmed(k, m) ==
    LET k1 == [k EXCEPT !.c.remote_id = m.who, !.c.type = "OPEN",
                        !.c.remote_window = m.n]
    IN  IF k.c.ctype = "session"
        THEN [Send(k1, "SHELL", 1) EXCEPT !.c.confirms = @ + 1]
        ELSE k1

channel_input_open_confirmation(e) ==
    IF Head1(e, "CONFIRM") /\ Found(e, M(e).id)
        /\ channels[e][M(e).id].type # "OPENING"
    THEN down = "none" /\ packet_disconnect("confirmation for non-opening channel")
    ELSE Handle(e, "CONFIRM", OpenConfirmed)

channel_input_open_failure(e) ==
    IF Head1(e, "OPENFAIL") /\ Found(e, M(e).id)
        /\ channels[e][M(e).id].type # "OPENING"
    THEN down = "none" /\ packet_disconnect("failure for non-opening channel")
    ELSE Handle(e, "OPENFAIL", LAMBDA k, m : chan_mark_dead(k))

\* Mutant: data for a closed output does not use up the window.
InputData_nowindow(k, m) ==
    CASE k.c.type # "OPEN" -> k
      [] k.c.type = "OPEN" /\ k.c.ostate # "OPEN" ->
            [k EXCEPT !.c.local_consumed = @ + m.n]
      [] /\ k.c.type = "OPEN" /\ k.c.ostate = "OPEN"
         /\ m.n > k.c.local_window -> k
      [] OTHER -> [k EXCEPT !.c.local_window = @ - m.n, !.c.output = @ + m.n]

\* Data for a closed output is counted as consumed; data beyond the window is
\* dropped, and so is data for a channel that is not open.
InputData(k, m) ==
    CASE k.c.type # "OPEN" -> k
      [] k.c.type = "OPEN" /\ k.c.ostate # "OPEN" ->
            [k EXCEPT !.c.local_window = @ - m.n, !.c.local_consumed = @ + m.n]
      [] /\ k.c.type = "OPEN" /\ k.c.ostate = "OPEN"
         /\ m.n > k.c.local_window -> k
      [] OTHER -> [k EXCEPT !.c.local_window = @ - m.n, !.c.output = @ + m.n]

channel_input_data(e) == Handle(e, "DATA", InputData)

\* Extended data that has nowhere to go is dropped without touching the
\* window.
InputExtendedData(k, m) ==
    IF \/ k.c.type # "OPEN" \/ ~k.c.efd \/ k.c.extended_usage # "WRITE"
       \/ m.n > k.c.local_window
    THEN [k EXCEPT !.h.dropped = @ + m.n]
    ELSE [k EXCEPT !.c.local_window = @ - m.n, !.c.extended = @ + m.n]

channel_input_extended_data(e) ==
    IF /\ Head1(e, "EXT") /\ Found(e, M(e).id)
       /\ channels[e][M(e).id].type = "OPEN"
       /\ Has(channels[e][M(e).id], "EOF_RCVD")
    THEN down = "none" /\ packet_disconnect("extended_data after EOF")
    ELSE Handle(e, "EXT", InputExtendedData)

channel_input_ieof(e) == Handle(e, "EOF", LAMBDA k, m : chan_rcvd_ieof(k))

channel_input_oclose(e) == Handle(e, "CLOSE", LAMBDA k, m : chan_rcvd_close2(k))

\* An adjustment for a channel that is gone is only logged.
channel_input_window_adjust(e) ==
    IF Head1(e, "ADJUST") /\ ~Found(e, M(e).id)
    THEN /\ down = "none" /\ TakeEmit(e, <<>>)
         /\ UNCHANGED <<channels, opened, sentAlive, down, hist>>
    ELSE Handle(e, "ADJUST", LAMBDA k, m : [k EXCEPT !.c.remote_window = @ + m.n])

----------------------------------------------------------------------------
(* Channel requests and their replies.                                     *)

\* A request for a channel that is gone: the server disconnects, the client
\* only logs it (and never answers).
Unknown(e, t) ==
    /\ down = "none" /\ Head1(e, t) /\ ~Found(e, M(e).id)
    /\ IF e = "server" THEN packet_disconnect("nonexistent channel")
       ELSE /\ TakeEmit(e, <<>>)
            /\ UNCHANGED <<channels, opened, sentAlive, down, hist>>

channel_req_eow(e) ==
    IF Head1(e, "EOW") /\ ~Found(e, M(e).id) THEN Unknown(e, "EOW")
    ELSE Handle(e, "EOW", LAMBDA k, m : chan_rcvd_eow(k))

channel_req_exit_status ==
    IF Head1("client", "EXIT") /\ ~Found("client", M("client").id)
    THEN Unknown("client", "EXIT")
    ELSE Handle("client", "EXIT", LAMBDA k, m : [k EXCEPT !.h.exit = TRUE])

\* session_shell_req(): do_exec() starts the child, channel_set_fds() opens
\* the LARVAL channel and announces its window, then the reply is sent; or
\* the request fails.
Reply(k, ok) ==
    IF Has(k.c, "CLOSE_SENT") THEN k
    ELSE Send(k, IF ok THEN "SUCCESS" ELSE "FAILURE", 0)

\* Mutant: the session lets the channel send its CLOSE while the child runs.
ShellStarted_close(k, m) ==
    Reply(Send([k EXCEPT !.c.type = "OPEN", !.c.pid = "running",
                         !.c.local_window = WindowMax,
                         !.c.extended_usage = "READ", !.c.efd = TRUE,
                         !.c.detach_close = TRUE, !.h.ran = TRUE],
               "ADJUST", WindowMax), TRUE)

ShellStarted(k, m) ==
    LET k1 == [k EXCEPT !.c.type = "OPEN", !.c.pid = "running",
                        !.c.local_window = WindowMax,
                        !.c.extended_usage = "READ", !.c.efd = TRUE,
                        !.h.ran = TRUE]
    IN  Reply(Send(k1, "ADJUST", WindowMax), TRUE)

server_input_channel_req_shell ==
    \/ /\ Head1("server", "SHELL") /\ Found("server", M("server").id)
       /\ channels["server"][M("server").id].type = "LARVAL"
       /\ Handle("server", "SHELL", ShellStarted)
    \/ Handle("server", "SHELL", LAMBDA k, m : Reply(k, FALSE))

\* The client's own words about a refused request, on the stderr of the mux
\* client (none below LogLevel ERROR): bytes the peer never sent, so that no
\* window was charged for them (history: own).
Complain(k) ==
    IF k.c.mux /\ k.c.extended_usage = "WRITE"
    THEN [k EXCEPT !.c.extended = @ + Complaint, !.h.own = @ + Complaint]
    ELSE k

\* client_status_confirm(): a refused shell closes both halves of a
\* multiplexed session; on the primary session the client exits.
StatusConfirm(k, m) ==
    LET k1 == [k EXCEPT !.c.confirms = @ - 1]
    IN  IF k.c.confirms = 0 \/ m.t = "SUCCESS" THEN
            (IF k.c.confirms = 0 THEN k ELSE k1)
        ELSE chan_write_failed2(chan_read_failed(Complain(k1)))

channel_input_status_confirm(t) ==
    LET e == "client" IN
    /\ down = "none" /\ Head1(e, t)
    /\ IF ~Found(e, M(e).id)
       THEN /\ TakeEmit(e, <<>>)
            /\ UNCHANGED <<channels, opened, sentAlive, down, hist>>
       ELSE IF t = "FAILURE" /\ ~channels[e][M(e).id].mux
       THEN packet_disconnect("exit")
       ELSE Handle(e, t, StatusConfirm)

\* channel_find_open(): the first channel it thinks suitable, if any.
Suitable(i) == channels["server"][i].type \in {"LARVAL", "OPEN"}
IsFirstOpen(i) == Suitable(i) /\ \A j \in Slots : j < i => ~Suitable(j)

\* The client has not answered for too long.
ClientGone ==
    /\ timeouts + 1 > AliveCountMax /\ down' = "timeout"
    /\ UNCHANGED <<channels, wire, hist>>

\* A bogus request on an open channel, or a global one if there is none.
AliveRequest ==
    /\ timeouts + 1 <= AliveCountMax
    /\ \/ \E i \in Slots :
            /\ IsFirstOpen(i)
            /\ wire' = [wire EXCEPT !["client"] =
                          Append(@, Msg("KEEPALIVE", channels["server"][i], 1))]
       \/ /\ \A i \in Slots : ~Suitable(i)
          /\ wire' = [wire EXCEPT !["client"] = Append(@, [t |-> "GLOBAL"])]
    /\ UNCHANGED <<channels, down, hist>>

client_alive_check ==
    /\ down = "none" /\ sentAlive < MaxAlive
    /\ sentAlive' = sentAlive + 1 /\ timeouts' = timeouts + 1
    /\ ClientGone \/ AliveRequest
    /\ UNCHANGED opened

\* The client knows no global request of this name and says so.
client_input_global_request ==
    /\ down = "none" /\ Head1("client", "GLOBAL")
    /\ TakeEmit("client", <<[t |-> "REQFAIL"]>>)
    /\ UNCHANGED <<channels, opened, sentAlive, down, hist>>

channel_req_keepalive ==
    IF Head1("client", "KEEPALIVE") /\ ~Found("client", M("client").id)
    THEN Unknown("client", "KEEPALIVE")
    ELSE Handle("client", "KEEPALIVE", LAMBDA k, m : Reply(k, FALSE))

\* server_input_keep_alive(): whatever the answer was to.
server_input_keep_alive ==
    /\ down = "none"
    /\ \E t \in {"SUCCESS", "FAILURE", "REQFAIL"} : Head1("server", t)
    /\ TakeEmit("server", <<>>)
    /\ UNCHANGED <<channels, opened, sentAlive, down, hist>>

\* collect_children(), session_close_by_pid(), session_exit_message().
session_exit_message(i) ==
    /\ down = "none" /\ channels["server"][i].pid = "running"
    /\ LET k1 == Send(Ctx("server", i), "EXIT", 0)
           k2 == [k1 EXCEPT !.c.pid = "exited", !.c.detach_user = TRUE,
                            !.c.detach_close = TRUE]
           k3 == IF k2.c.ostate # "CLOSED" THEN chan_write_failed2(k2) ELSE k2
       IN  Commit("server", i, k3, FALSE) /\ Emit("server", k3.out)
    /\ UNCHANGED <<opened, sentAlive, down>>

----------------------------------------------------------------------------

Receive(e) ==
    \/ input_channel_open(e)
    \/ channel_input_open_confirmation(e)
    \/ channel_input_open_failure(e)
    \/ channel_input_data(e)
    \/ channel_input_extended_data(e)
    \/ channel_input_ieof(e)
    \/ channel_input_oclose(e)
    \/ channel_input_window_adjust(e)
    \/ channel_req_eow(e)

ClientReceive ==
    \/ Receive("client")
    \/ channel_req_exit_status
    \/ channel_req_keepalive
    \/ client_input_global_request
    \/ \E t \in {"SUCCESS", "FAILURE"} : channel_input_status_confirm(t)

ServerReceive ==
    \/ Receive("server")
    \/ server_input_channel_req_shell
    \/ server_input_keep_alive

Next ==
    \/ \E kind \in Kinds : channel_send_open(kind[1], kind[2])
    \/ ClientReceive
    \/ ServerReceive
    \/ \E e \in Endpoint, i \in Slots :
          \/ channel_handler(e, i)
          \/ channel_post_connecting(e, i)
          \/ channel_output_poll(e, i)
    \/ \E i \in Slots : session_exit_message(i)
    \/ client_alive_check

Spec == Init /\ [][Next]_vars

----------------------------------------------------------------------------
(* What must hold.                                                         *)

MsgTypes == {"OPEN", "CONFIRM", "OPENFAIL", "DATA", "EXT", "EOF", "CLOSE",
             "ADJUST", "EOW", "SHELL", "EXIT", "SUCCESS", "FAILURE", "KEEPALIVE"}

\* Messages about a channel, and the global keepalive request and its answer.
ChannelMessage == [t : MsgTypes, id : Int, n : Nat, who : Nat,
                   ctype : {"session", "tcpip"}, inst : Insts]
GlobalMessage == [t : {"GLOBAL", "REQFAIL"}]
Message == ChannelMessage \cup GlobalMessage

Channel == [type : ChanTypes, ctype : {"session", "tcpip"},
            self : Nat, remote_id : Int,
            istate : HalfStates, ostate : HalfStates, flags : SUBSET Flags,
            input : Nat, output : Nat, extended : Nat,
            efd : BOOLEAN, extended_usage : {"IGNORE", "READ", "WRITE"},
            local_window : Int, local_consumed : Nat, remote_window : Int,
            detach_user : BOOLEAN, detach_close : BOOLEAN, mux : BOOLEAN,
            confirms : Nat, pid : {"none", "running", "exited"}, inst : Insts]

History == [rd : Nat, wr : Nat, erd : Nat, ewr : Nat,
            leaked : Nat, dropped : Nat, own : Nat, cut : BOOLEAN, ecut : BOOLEAN,
            ran : BOOLEAN, exit : BOOLEAN]

Reasons == {"none", "exit", "timeout", "nonexistent channel", "extended_data after EOF",
            "confirmation for non-opening channel",
            "failure for non-opening channel"}

\* The variables keep their types: buffers never hold a negative number of
\* bytes, and a slot in use names one of the channels that were opened.
TypeOK ==
    /\ channels \in [Endpoint -> [Slots -> Channel \cup {FreeSlot}]]
    /\ wire \in [Endpoint -> Seq(Message)]
    /\ opened \in 0 .. MaxOpen
    /\ sentAlive \in Nat /\ timeouts \in Nat
    /\ down \in Reasons
    /\ hist \in [Endpoint -> [Insts -> History]]

\* Whatever the two ends do, neither meets a message for a channel it does
\* not have, a second answer to an open, or extended data after EOF: the
\* packet_disconnect() calls of the channel handlers are never reached.
NeverDisconnected == down \in {"none", "exit", "timeout"}

\* Every message under way finds the channel it was sent about: a slot is not
\* freed, and so not given to another channel, while the peer may still have
\* messages for it in flight.  (Keepalive requests are the exception: the
\* channel they name may be gone.)
NoMisdelivery ==
    \A e \in Endpoint : \A j \in DOMAIN wire[e] :
        LET m == wire[e][j]
        IN  m.t \notin {"OPEN", "KEEPALIVE", "GLOBAL", "REQFAIL"}
            /\ ~(e = "server" /\ m.t = "FAILURE") =>
                Found(e, m.id) /\ channels[e][m.id].inst = m.inst

\* Nothing follows a CLOSE on its channel, and there is only one CLOSE.
CloseIsLast ==
    \A e \in Endpoint : \A j, l \in DOMAIN wire[e] :
        /\ wire[e][j].t = "CLOSE" /\ j < l /\ wire[e][l].t \in MsgTypes
        /\ wire[e][l].inst = wire[e][j].inst
        => wire[e][l].t \in {"KEEPALIVE"}

\* The two ends keep to the protocol of a channel while its slot is used again
\* (NoMisdelivery, NeverDisconnected, CloseIsLast).
ProtocolKept == NoMisdelivery /\ NeverDisconnected /\ CloseIsLast

\* A channel that has sent its CLOSE is closed in both directions and keeps
\* no running child; one that has sent EOF sends nothing more.
SentFlagsMatchState ==
    \A e \in Endpoint, i \in Slots :
        LET c == channels[e][i]
        IN  /\ Has(c, "CLOSE_SENT") => BothClosed(c) /\ c.pid # "running"
            /\ Has(c, "EOF_SENT") => c.istate = "CLOSED"
=============================================================================
