------------------------------- MODULE Nchan -------------------------------
(***************************************************************************)
(* The SSH 2 half-close state machine of one channel (nchan.c) as operators *)
(* on a step context k:                                                     *)
(*   k.c    the Channel record after the calls made so far,                 *)
(*   k.out  the messages those calls handed to packet_send(), in order,     *)
(*   k.h    history only: what happened to the bytes of this channel end.   *)
(* Buffers are represented by the number of bytes they hold.                *)
(***************************************************************************)
EXTENDS Integers, Sequences

ChanTypes == {"OPENING", "LARVAL", "CONNECTING", "OPEN", "ZOMBIE"}
HalfStates == {"OPEN", "WAIT_DRAIN", "CLOSED"}
Flags == {"CLOSE_SENT", "CLOSE_RCVD", "EOF_SENT", "EOF_RCVD"}

\* A message about the channel whose number at the receiver is id.  inst is
\* history: which of the channels ever opened the sender means.
Msg(t, c, n) == [t |-> t, id |-> c.remote_id, n |-> n, who |-> c.self,
                 ctype |-> c.ctype, inst |-> c.inst]

Send(k, t, n) == [k EXCEPT !.out = Append(@, Msg(t, k.c, n))]

SetIstate(k, s) == [k EXCEPT !.c.istate = s]
SetOstate(k, s) == [k EXCEPT !.c.ostate = s]
SetFlag(k, f) == [k EXCEPT !.c.flags = @ \cup {f}]

Has(c, f) == f \in c.flags
BothClosed(c) == c.istate = "CLOSED" /\ c.ostate = "CLOSED"

CHANNEL_EFD_INPUT_ACTIVE(c) ==
    c.extended_usage = "READ" /\ (c.efd \/ c.extended > 0)

CHANNEL_EFD_OUTPUT_ACTIVE(c) ==
    /\ c.extended_usage = "WRITE" /\ c.efd
    /\ (~Has(c, "EOF_RCVD") /\ ~Has(c, "CLOSE_RCVD")) \/ c.extended > 0

\* The output buffer is cleared; the bytes in it are neither written nor
\* credited back to the peer's window (history: leaked).
chan_shutdown_write(k) ==
    [k EXCEPT !.c.output = 0, !.h.leaked = @ + k.c.output]

chan_send_eof2(k) ==
    IF k.c.istate = "WAIT_DRAIN"
    THEN SetFlag(Send(k, "EOF", 0), "EOF_SENT")
    ELSE k

chan_send_close2(k) ==
    IF BothClosed(k.c) /\ ~Has(k.c, "CLOSE_SENT")
    THEN SetFlag(Send(k, "CLOSE", 0), "CLOSE_SENT")
    ELSE k

chan_send_eow2(k) ==
    IF k.c.ostate # "CLOSED" THEN Send(k, "EOW", 0) ELSE k

\* The local reader is done: no more input will be buffered.
chan_read_failed(k) ==
    IF k.c.istate = "OPEN" THEN SetIstate(k, "WAIT_DRAIN") ELSE k

chan_ibuf_empty(k) ==
    IF k.c.input = 0 /\ k.c.istate = "WAIT_DRAIN"
    THEN SetIstate(IF Has(k.c, "CLOSE_SENT") THEN k ELSE chan_send_eof2(k),
                   "CLOSED")
    ELSE k

chan_obuf_empty(k) ==
    IF k.c.output = 0 /\ k.c.ostate = "WAIT_DRAIN"
    THEN SetOstate(chan_shutdown_write(k), "CLOSED")
    ELSE k

\* Mutant: CLOSE ends the output at once instead of draining it.
chan_rcvd_close2_nodrain(k) ==
    SetIstate(SetOstate(SetFlag(k, "CLOSE_RCVD"), "CLOSED"), "CLOSED")

chan_rcvd_close2(k) ==
    LET k1 == SetFlag(k, "CLOSE_RCVD")
        k2 == IF k1.c.ostate = "OPEN" THEN SetOstate(k1, "WAIT_DRAIN") ELSE k1
    IN  IF k.c.type = "LARVAL"
        THEN SetIstate(SetOstate(k1, "CLOSED"), "CLOSED")
        ELSE CASE k2.c.istate = "WAIT_DRAIN" ->
                    SetIstate(chan_send_eof2(k2), "CLOSED")
               [] OTHER -> SetIstate(k2, "CLOSED")

chan_rcvd_eow(k) ==
    IF k.c.istate = "OPEN" THEN SetIstate(k, "CLOSED") ELSE k

chan_rcvd_eof2(k) ==
    LET k1 == SetFlag(k, "EOF_RCVD")
    IN  IF k.c.ostate = "OPEN" THEN SetOstate(k1, "WAIT_DRAIN") ELSE k1

chan_rcvd_ieof(k) ==
    LET k1 == chan_rcvd_eof2(k)
    IN  IF /\ k1.c.ostate = "WAIT_DRAIN" /\ k1.c.output = 0
           /\ ~CHANNEL_EFD_OUTPUT_ACTIVE(k1.c)
        THEN chan_obuf_empty(k1)
        ELSE k1

\* The local writer failed.  Only a session tells its peer (eow@openssh.com).
\* History: the stream to the writer is cut short.
chan_write_failed2(k) ==
    IF k.c.ostate \in {"OPEN", "WAIT_DRAIN"}
    THEN LET k1 == [chan_shutdown_write(k) EXCEPT !.h.cut = TRUE]
             k2 == IF k.c.ctype = "session" THEN chan_send_eow2(k1) ELSE k1
         IN  SetOstate(k2, "CLOSED")
    ELSE k

chan_mark_dead(k) == [k EXCEPT !.c.type = "ZOMBIE"]

\* Mutant: a channel is given up as soon as it has sent its own CLOSE.
chan_is_dead_norcvd(k, do_send) ==
    LET sends == /\ do_send /\ k.c.type # "ZOMBIE"
                 /\ BothClosed(k.c) /\ ~Has(k.c, "CLOSE_SENT")
        k1 == IF sends THEN chan_send_close2(k) ELSE k
    IN  [k |-> k1,
         dead |-> \/ k.c.type = "ZOMBIE"
                  \/ /\ BothClosed(k.c)
                     /\ Has(k1.c, "CLOSE_SENT") \/ ~do_send]

\* The context after chan_is_dead(c, do_send), which may send the CLOSE, and
\* the value it returns.
chan_is_dead(k, do_send) ==
    LET sends == /\ do_send /\ k.c.type # "ZOMBIE"
                 /\ BothClosed(k.c) /\ ~Has(k.c, "CLOSE_SENT")
        k1 == IF sends THEN chan_send_close2(k) ELSE k
    IN  [k |-> k1,
         dead |-> \/ k.c.type = "ZOMBIE"
                  \/ /\ BothClosed(k.c) /\ Has(k.c, "CLOSE_RCVD")
                     /\ Has(k1.c, "CLOSE_SENT") \/ ~do_send]
=============================================================================
