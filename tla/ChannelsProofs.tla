--------------------------- MODULE ChannelsProofs ---------------------------
(***************************************************************************)
(* TLAPS proofs about Channels, for every number of slots, window size and  *)
(* bound: the type invariant, and that CLOSE and EOF are only ever sent     *)
(* from the states in which nothing can follow them (SentFlagsMatchState).  *)
(*                                                                          *)
(* Every handler is a composition of the operators of Nchan on a context,   *)
(* so the proof is too: one lemma per operator says that it takes a Good    *)
(* context to a Good one, and one lemma per action puts them together.      *)
(***************************************************************************)
EXTENDS Channels, TLAPS

Context == [c : Channel, out : Seq(Message), h : History]

\* The flags a channel has sent fit the state of its halves.
HalfInv(c) ==
    /\ Has(c, "CLOSE_SENT") => BothClosed(c)
    /\ Has(c, "EOF_SENT") => c.istate = "CLOSED"

\* While its child runs, and before that while it is LARVAL, a session holds
\* on to its channel: detach_user is set, detach_close is not, and the CLOSE
\* is not sent.
UserInv(c) ==
    /\ c.pid = "running" =>
          c.detach_user /\ ~c.detach_close /\ ~Has(c, "CLOSE_SENT")
    /\ c.type = "LARVAL" =>
          /\ c.detach_user /\ ~c.detach_close /\ c.pid = "none"
          /\ ~Has(c, "CLOSE_SENT")
    /\ c.type = "CONNECTING" => c.local_window \in Nat

ChanInv(c) == HalfInv(c) /\ UserInv(c)

Good == {k \in Context : ChanInv(k.c)}

\* The inductive invariant.
IInv ==
    /\ TypeOK
    /\ \A e \in Endpoint, i \in Slots : ChanInv(channels[e][i])

----------------------------------------------------------------------------
(* Frames of the elementary updates.                                       *)

\* c and d differ at most in their half states, flags and output buffer.
SameRest(c, d) ==
    /\ d.pid = c.pid /\ d.type = c.type /\ d.ctype = c.ctype
    /\ d.detach_user = c.detach_user /\ d.detach_close = c.detach_close
    /\ d.local_window = c.local_window /\ d.extended = c.extended
    /\ d.extended_usage = c.extended_usage

\* packet_send() leaves the channel alone.
LEMMA SendType ==
    ASSUME NEW k \in Context, NEW t \in MsgTypes, NEW n \in Nat
    PROVE  /\ Send(k, t, n) \in Context
           /\ Send(k, t, n).c = k.c /\ Send(k, t, n).h = k.h
<1>1. Msg(t, k.c, n) \in Message
  BY DEF Context, Channel, Message, ChannelMessage, Msg
<1> QED
  BY <1>1 DEF Context, Send

\* chan_set_istate() changes the input half only.
LEMMA SetIstateFrame ==
    ASSUME NEW k \in Context, NEW s \in HalfStates
    PROVE  /\ SetIstate(k, s) \in Context
           /\ SetIstate(k, s).c.istate = s
           /\ SetIstate(k, s).c.ostate = k.c.ostate
           /\ SetIstate(k, s).c.flags = k.c.flags
           /\ SameRest(k.c, SetIstate(k, s).c)
  BY DEF Context, Channel, SetIstate, SameRest

\* chan_set_ostate() changes the output half only.
LEMMA SetOstateFrame ==
    ASSUME NEW k \in Context, NEW s \in HalfStates
    PROVE  /\ SetOstate(k, s) \in Context
           /\ SetOstate(k, s).c.ostate = s
           /\ SetOstate(k, s).c.istate = k.c.istate
           /\ SetOstate(k, s).c.flags = k.c.flags
           /\ SameRest(k.c, SetOstate(k, s).c)
  BY DEF Context, Channel, SetOstate, SameRest

\* c->flags |= f.
LEMMA SetFlagFrame ==
    ASSUME NEW k \in Context, NEW f \in Flags
    PROVE  /\ SetFlag(k, f) \in Context
           /\ SetFlag(k, f).c.flags = k.c.flags \cup {f}
           /\ SetFlag(k, f).c.istate = k.c.istate
           /\ SetFlag(k, f).c.ostate = k.c.ostate
           /\ SameRest(k.c, SetFlag(k, f).c)
  BY DEF Context, Channel, SetFlag, SameRest

\* chan_shutdown_write() clears the output buffer.
LEMMA ShutdownFrame ==
    ASSUME NEW k \in Context
    PROVE  /\ chan_shutdown_write(k) \in Context
           /\ chan_shutdown_write(k).c.istate = k.c.istate
           /\ chan_shutdown_write(k).c.ostate = k.c.ostate
           /\ chan_shutdown_write(k).c.flags = k.c.flags
           /\ SameRest(k.c, chan_shutdown_write(k).c)
<1> DEFINE d == [k.c EXCEPT !.output = 0]
           g == [k.h EXCEPT !.leaked = @ + k.c.output]
<1>1. k.c \in Channel /\ k.h \in History /\ k.out \in Seq(Message)
  BY DEF Context
<1>2. /\ d \in Channel /\ d.istate = k.c.istate /\ d.ostate = k.c.ostate
      /\ d.flags = k.c.flags /\ SameRest(k.c, d)
  BY <1>1 DEF Channel, SameRest
<1>3. k.c.output \in Nat
  BY <1>1 DEF Channel
<1>4. \A h \in History, n \in Nat : [h EXCEPT !.leaked = @ + n] \in History
  BY DEF History
<1>5. g \in History
  BY <1>1, <1>3, <1>4
<1>6. chan_shutdown_write(k) = [k EXCEPT !.c = d, !.h = g]
  BY <1>1 DEF chan_shutdown_write, Context
<1> HIDE DEF d, g
<1> QED
  BY <1>1, <1>2, <1>5, <1>6 DEF Context

\* chan_send_eof2() sends and sets EOF_SENT, nothing else.
LEMMA SendEofFrame ==
    ASSUME NEW k \in Context
    PROVE  /\ chan_send_eof2(k) \in Context
           /\ chan_send_eof2(k).c.istate = k.c.istate
           /\ chan_send_eof2(k).c.ostate = k.c.ostate
           /\ chan_send_eof2(k).c.flags
                 \in {k.c.flags, k.c.flags \cup {"EOF_SENT"}}
           /\ SameRest(k.c, chan_send_eof2(k).c)
<1> DEFINE k1 == Send(k, "EOF", 0)
<1>1. k1 \in Context /\ k1.c = k.c
  BY SendType DEF MsgTypes
<1>2. chan_send_eof2(k) = IF k.c.istate = "WAIT_DRAIN"
                          THEN SetFlag(k1, "EOF_SENT") ELSE k
  BY DEF chan_send_eof2
<1>3. SameRest(k.c, k.c)
  BY DEF SameRest
<1> HIDE DEF k1
<1> QED
  BY <1>1, <1>2, <1>3, SetFlagFrame DEF Flags

\* Leaving the other fields alone composes.
LEMMA SameRestTrans ==
    ASSUME NEW a, NEW b, NEW c, SameRest(a, b), SameRest(b, c)
    PROVE  SameRest(a, c)
  BY DEF SameRest

\* A context whose channel differs from a good one in the half states only is
\* good if these fit the flags and the CLOSE was not sent in between.
LEMMA GoodStep ==
    ASSUME NEW k \in Good, NEW k1 \in Context, SameRest(k.c, k1.c),
           Has(k1.c, "CLOSE_SENT") => Has(k.c, "CLOSE_SENT"),
           HalfInv(k1.c)
    PROVE  k1 \in Good
<1>1. UserInv(k.c)
  BY DEF Good, ChanInv
<1>2. UserInv(k1.c)
  BY <1>1 DEF UserInv, SameRest
<1> QED
  BY <1>2 DEF Good, ChanInv

----------------------------------------------------------------------------
(* The operators of Nchan.                                                 *)

\* chan_read_failed() keeps a context good.
LEMMA ReadFailed ==
    ASSUME NEW k \in Good
    PROVE  chan_read_failed(k) \in Good /\ SameRest(k.c, chan_read_failed(k).c)
<1> DEFINE k1 == SetIstate(k, "WAIT_DRAIN")
<1>1. k \in Context /\ HalfInv(k.c) /\ SameRest(k.c, k.c)
  BY DEF Good, ChanInv, SameRest
<1>2. CASE k.c.istate = "OPEN"
  <2>1. /\ k1 \in Context /\ k1.c.flags = k.c.flags /\ SameRest(k.c, k1.c)
        /\ k1.c.ostate = k.c.ostate
    BY <1>1, SetIstateFrame DEF HalfStates
  <2> HIDE DEF k1
  <2>2. HalfInv(k1.c)
    BY <1>1, <1>2, <2>1 DEF HalfInv, Has, BothClosed
  <2> QED
    BY <1>2, <2>1, <2>2, GoodStep DEF chan_read_failed, k1, Has
<1> QED
  BY <1>1, <1>2 DEF chan_read_failed

\* chan_ibuf_empty() keeps a context good.
LEMMA IbufEmpty ==
    ASSUME NEW k \in Good
    PROVE  chan_ibuf_empty(k) \in Good
<1>1. k \in Context /\ HalfInv(k.c)
  BY DEF Good, ChanInv
<1> DEFINE k1 == IF Has(k.c, "CLOSE_SENT") THEN k ELSE chan_send_eof2(k)
           k2 == SetIstate(k1, "CLOSED")
<1>2. /\ k1 \in Context /\ SameRest(k.c, k1.c) /\ k1.c.ostate = k.c.ostate
      /\ Has(k1.c, "CLOSE_SENT") => Has(k.c, "CLOSE_SENT")
  BY <1>1, SendEofFrame DEF SameRest, Has
<1> HIDE DEF k1
<1>3. /\ k2 \in Context /\ SameRest(k1.c, k2.c) /\ k2.c.ostate = k1.c.ostate
      /\ k2.c.istate = "CLOSED" /\ k2.c.flags = k1.c.flags
  BY <1>2, SetIstateFrame DEF HalfStates
<1> HIDE DEF k2
<1>4. HalfInv(k2.c)
  BY <1>1, <1>2, <1>3 DEF HalfInv, Has, BothClosed
<1>5. k2 \in Good
  BY <1>2, <1>3, <1>4, SameRestTrans, GoodStep DEF Has
<1>6. chan_ibuf_empty(k) \in {k, k2}
  BY DEF chan_ibuf_empty, k1, k2
<1> QED
  BY <1>5, <1>6

\* chan_obuf_empty() keeps a context good.
LEMMA ObufEmpty ==
    ASSUME NEW k \in Good
    PROVE  /\ chan_obuf_empty(k) \in Good
           /\ SameRest(k.c, chan_obuf_empty(k).c)
<1>1. k \in Context /\ HalfInv(k.c) /\ SameRest(k.c, k.c)
  BY DEF Good, ChanInv, SameRest
<1> DEFINE k1 == chan_shutdown_write(k)
           k2 == SetOstate(k1, "CLOSED")
<1>2. /\ k1 \in Context /\ SameRest(k.c, k1.c) /\ k1.c.istate = k.c.istate
      /\ k1.c.flags = k.c.flags
  BY <1>1, ShutdownFrame
<1> HIDE DEF k1
<1>3. /\ k2 \in Context /\ SameRest(k1.c, k2.c) /\ k2.c.istate = k1.c.istate
      /\ k2.c.ostate = "CLOSED" /\ k2.c.flags = k1.c.flags
  BY <1>2, SetOstateFrame DEF HalfStates
<1> HIDE DEF k2
<1>4. HalfInv(k2.c)
  BY <1>1, <1>2, <1>3 DEF HalfInv, Has, BothClosed
<1>5. k2 \in Good /\ SameRest(k.c, k2.c)
  BY <1>2, <1>3, <1>4, SameRestTrans, GoodStep DEF Has
<1>6. chan_obuf_empty(k) \in {k, k2}
  BY DEF chan_obuf_empty, k1, k2
<1> QED
  BY <1>1, <1>5, <1>6

\* chan_rcvd_close2() keeps a context good.
LEMMA RcvdClose ==
    ASSUME NEW k \in Good
    PROVE  chan_rcvd_close2(k) \in Good
<1>1. k \in Context /\ HalfInv(k.c)
  BY DEF Good, ChanInv
<1> DEFINE k1 == SetFlag(k, "CLOSE_RCVD")
           k2 == IF k1.c.ostate = "OPEN" THEN SetOstate(k1, "WAIT_DRAIN") ELSE k1
           k3 == IF k2.c.istate = "WAIT_DRAIN" THEN chan_send_eof2(k2) ELSE k2
           k4 == SetIstate(k3, "CLOSED")
           l2 == SetOstate(k1, "CLOSED")
           l3 == SetIstate(l2, "CLOSED")
<1>2. /\ k1 \in Context /\ SameRest(k.c, k1.c)
      /\ k1.c.flags = k.c.flags \cup {"CLOSE_RCVD"}
      /\ k1.c.istate = k.c.istate /\ k1.c.ostate = k.c.ostate
  BY <1>1, SetFlagFrame DEF Flags
<1> HIDE DEF k1
<1>3. /\ k2 \in Context /\ SameRest(k1.c, k2.c) /\ k2.c.flags = k1.c.flags
      /\ k2.c.ostate = "CLOSED" \/ k1.c.ostate # "CLOSED"
  BY <1>2, SetOstateFrame DEF SameRest, HalfStates
<1> HIDE DEF k2
<1>4. /\ k3 \in Context /\ SameRest(k2.c, k3.c) /\ k3.c.ostate = k2.c.ostate
      /\ k3.c.flags \in {k2.c.flags, k2.c.flags \cup {"EOF_SENT"}}
  BY <1>3, SendEofFrame DEF SameRest
<1> HIDE DEF k3
<1>5. /\ k4 \in Context /\ SameRest(k3.c, k4.c) /\ k4.c.flags = k3.c.flags
      /\ k4.c.ostate = k3.c.ostate /\ k4.c.istate = "CLOSED"
  BY <1>4, SetIstateFrame DEF HalfStates
<1>6. /\ l2 \in Context /\ SameRest(k1.c, l2.c) /\ l2.c.flags = k1.c.flags
      /\ l2.c.ostate = "CLOSED"
  BY <1>2, SetOstateFrame DEF HalfStates
<1> HIDE DEF l2
<1>7. /\ l3 \in Context /\ SameRest(l2.c, l3.c) /\ l3.c.flags = l2.c.flags
      /\ l3.c.ostate = "CLOSED" /\ l3.c.istate = "CLOSED"
  BY <1>6, SetIstateFrame DEF HalfStates
<1> HIDE DEF k4, l3
<1>8. HalfInv(k4.c) /\ HalfInv(l3.c)
  BY <1>1, <1>2, <1>3, <1>4, <1>5, <1>6, <1>7 DEF HalfInv, Has, BothClosed
<1>9. SameRest(k.c, k4.c)
  BY <1>2, <1>3, <1>4, <1>5, SameRestTrans
<1>10. SameRest(k.c, l3.c)
  BY <1>2, <1>6, <1>7, SameRestTrans
<1>11. k4 \in Good
  BY <1>2, <1>3, <1>4, <1>5, <1>8, <1>9, GoodStep DEF Has
<1>12. l3 \in Good
  BY <1>2, <1>6, <1>7, <1>8, <1>10, GoodStep DEF Has
<1>13. chan_rcvd_close2(k) \in {k4, l3}
  BY DEF chan_rcvd_close2, k1, k2, k3, k4, l2, l3
<1> QED
  BY <1>11, <1>12, <1>13

\* chan_rcvd_eow() keeps a context good.
LEMMA RcvdEow ==
    ASSUME NEW k \in Good
    PROVE  chan_rcvd_eow(k) \in Good
<1> DEFINE k1 == SetIstate(k, "CLOSED")
<1>1. k \in Context /\ HalfInv(k.c)
  BY DEF Good, ChanInv
<1>2. /\ k1 \in Context /\ k1.c.flags = k.c.flags /\ SameRest(k.c, k1.c)
      /\ k1.c.ostate = k.c.ostate /\ k1.c.istate = "CLOSED"
  BY <1>1, SetIstateFrame DEF HalfStates
<1> HIDE DEF k1
<1>3. HalfInv(k1.c)
  BY <1>1, <1>2 DEF HalfInv, Has, BothClosed
<1>4. k1 \in Good
  BY <1>2, <1>3, GoodStep DEF Has
<1> QED
  BY <1>4 DEF chan_rcvd_eow, k1

\* chan_rcvd_eof2() keeps a context good.
LEMMA RcvdEof ==
    ASSUME NEW k \in Good
    PROVE  chan_rcvd_eof2(k) \in Good
<1>1. k \in Context /\ HalfInv(k.c)
  BY DEF Good, ChanInv
<1> DEFINE k1 == SetFlag(k, "EOF_RCVD")
           k2 == IF k.c.ostate = "OPEN" THEN SetOstate(k1, "WAIT_DRAIN") ELSE k1
<1>2. /\ k1 \in Context /\ SameRest(k.c, k1.c)
      /\ k1.c.flags = k.c.flags \cup {"EOF_RCVD"}
      /\ k1.c.istate = k.c.istate /\ k1.c.ostate = k.c.ostate
  BY <1>1, SetFlagFrame DEF Flags
<1> HIDE DEF k1
<1>3. /\ k2 \in Context /\ SameRest(k1.c, k2.c) /\ k2.c.flags = k1.c.flags
      /\ k2.c.ostate = k1.c.ostate \/ k1.c.ostate = "OPEN"
      /\ k2.c.istate = k1.c.istate
  BY <1>2, SetOstateFrame DEF SameRest, HalfStates
<1>4. chan_rcvd_eof2(k) = k2
  BY DEF chan_rcvd_eof2, k1
<1> HIDE DEF k2
<1>5. HalfInv(k2.c)
  BY <1>1, <1>2, <1>3 DEF HalfInv, Has, BothClosed
<1>6. k2 \in Good
  BY <1>2, <1>3, <1>5, SameRestTrans, GoodStep DEF Has
<1> QED
  BY <1>4, <1>6

\* chan_rcvd_ieof() keeps a context good.
LEMMA RcvdIeof ==
    ASSUME NEW k \in Good
    PROVE  chan_rcvd_ieof(k) \in Good
<1>1. chan_rcvd_eof2(k) \in Good
  BY RcvdEof
<1>2. chan_obuf_empty(chan_rcvd_eof2(k)) \in Good
  BY <1>1, ObufEmpty
<1> QED
  BY <1>1, <1>2 DEF chan_rcvd_ieof

\* chan_write_failed2() keeps a context good.
LEMMA WriteFailed ==
    ASSUME NEW k \in Good
    PROVE  /\ chan_write_failed2(k) \in Good
           /\ SameRest(k.c, chan_write_failed2(k).c)
<1>1. k \in Context /\ HalfInv(k.c) /\ SameRest(k.c, k.c)
  BY DEF Good, ChanInv, SameRest
<1> DEFINE k0 == chan_shutdown_write(k)
           k1 == [k0 EXCEPT !.h.cut = TRUE]
           k2 == IF k.c.ctype = "session" THEN chan_send_eow2(k1) ELSE k1
           k3 == SetOstate(k2, "CLOSED")
<1>2. /\ k0 \in Context /\ SameRest(k.c, k0.c) /\ k0.c.flags = k.c.flags
      /\ k0.c.istate = k.c.istate
  BY <1>1, ShutdownFrame
<1> HIDE DEF k0
<1>3. k1 \in Context /\ k1.c = k0.c
  BY <1>2 DEF Context, History
<1> HIDE DEF k1
<1>4. k2 \in Context /\ k2.c = k1.c
  BY <1>3, SendType DEF chan_send_eow2, MsgTypes
<1> HIDE DEF k2
<1>5. /\ k3 \in Context /\ SameRest(k2.c, k3.c) /\ k3.c.flags = k2.c.flags
      /\ k3.c.ostate = "CLOSED" /\ k3.c.istate = k2.c.istate
  BY <1>4, SetOstateFrame DEF HalfStates
<1> HIDE DEF k3
<1>6. HalfInv(k3.c)
  BY <1>1, <1>2, <1>3, <1>4, <1>5 DEF HalfInv, Has, BothClosed
<1>7. SameRest(k.c, k3.c)
  BY <1>2, <1>3, <1>4, <1>5, SameRestTrans
<1>8. k3 \in Good
  BY <1>2, <1>3, <1>4, <1>5, <1>6, <1>7, GoodStep DEF Has
<1>9. chan_write_failed2(k) \in {k, k3}
  BY DEF chan_write_failed2, k0, k1, k2, k3
<1> QED
  BY <1>1, <1>7, <1>8, <1>9

\* chan_mark_dead() makes a zombie of a channel without a child.
LEMMA MarkDead ==
    ASSUME NEW k \in Good
    PROVE  chan_mark_dead(k) \in Good
<1> DEFINE d == [k.c EXCEPT !.type = "ZOMBIE"]
<1>1. k \in Context /\ k.c \in Channel /\ HalfInv(k.c) /\ UserInv(k.c)
  BY DEF Good, ChanInv, Context
<1>2. /\ d \in Channel /\ d.type = "ZOMBIE" /\ d.istate = k.c.istate
      /\ d.ostate = k.c.ostate /\ d.flags = k.c.flags /\ d.pid = k.c.pid
      /\ d.detach_user = k.c.detach_user /\ d.detach_close = k.c.detach_close
  BY <1>1 DEF Channel, ChanTypes
<1>3. chan_mark_dead(k) = [k EXCEPT !.c = d]
  BY <1>1 DEF chan_mark_dead, Context
<1> HIDE DEF d
<1>4. HalfInv(d) /\ UserInv(d)
  BY <1>1, <1>2 DEF HalfInv, UserInv, Has, BothClosed
<1>5. [k EXCEPT !.c = d] \in Context /\ [k EXCEPT !.c = d].c = d
  BY <1>1, <1>2 DEF Context
<1> QED
  BY <1>3, <1>4, <1>5 DEF Good, ChanInv
\* chan_send_close2() on a channel that no session holds on to.
LEMMA SendClose ==
    ASSUME NEW k \in Context
    PROVE  /\ chan_send_close2(k) \in Context
           /\ chan_send_close2(k).c.istate = k.c.istate
           /\ chan_send_close2(k).c.ostate = k.c.ostate
           /\ k.c.flags \subseteq chan_send_close2(k).c.flags
           /\ chan_send_close2(k).c.flags \subseteq k.c.flags \cup {"CLOSE_SENT"}
           /\ Has(chan_send_close2(k).c, "CLOSE_SENT") =>
                 Has(k.c, "CLOSE_SENT") \/ BothClosed(k.c)
           /\ BothClosed(k.c) => Has(chan_send_close2(k).c, "CLOSE_SENT")
           /\ SameRest(k.c, chan_send_close2(k).c)
<1> DEFINE k1 == Send(k, "CLOSE", 0)
           k2 == SetFlag(k1, "CLOSE_SENT")
<1>1. k1 \in Context /\ k1.c = k.c
  BY SendType DEF MsgTypes
<1>2. SameRest(k.c, k.c)
  BY DEF SameRest
<1> HIDE DEF k1
<1>3. /\ k2 \in Context /\ SameRest(k.c, k2.c)
      /\ k2.c.flags = k.c.flags \cup {"CLOSE_SENT"}
      /\ k2.c.istate = k.c.istate /\ k2.c.ostate = k.c.ostate
  BY <1>1, SetFlagFrame DEF Flags
<1>4. chan_send_close2(k) = IF BothClosed(k.c) /\ ~Has(k.c, "CLOSE_SENT")
                            THEN k2 ELSE k
  BY DEF chan_send_close2, k1
<1> HIDE DEF k2
<1>5. CASE BothClosed(k.c) /\ ~Has(k.c, "CLOSE_SENT")
  BY <1>3, <1>4, <1>5 DEF Has
<1>6. CASE ~(BothClosed(k.c) /\ ~Has(k.c, "CLOSE_SENT"))
  BY <1>2, <1>4, <1>6 DEF Has
<1> QED
  BY <1>5, <1>6

\* chan_is_dead() sends at most the CLOSE; it may only be asked to when no
\* session holds on to the channel.
LEMMA IsDead ==
    ASSUME NEW k \in Context, HalfInv(k.c), NEW b \in BOOLEAN
    PROVE  LET d == chan_is_dead(k, b)
           IN  /\ d.k \in Context /\ HalfInv(d.k.c) /\ SameRest(k.c, d.k.c)
               /\ d.k.c.istate = k.c.istate /\ d.k.c.ostate = k.c.ostate
               /\ k.c.flags \subseteq d.k.c.flags
               /\ d.k.c.flags \subseteq k.c.flags \cup {"CLOSE_SENT"}
               /\ ~b => d.k = k
               /\ d.dead => \/ k.c.type = "ZOMBIE"
                            \/ BothClosed(k.c) /\ Has(k.c, "CLOSE_RCVD")
               /\ /\ b
                  /\ \/ k.c.type = "ZOMBIE"
                     \/ BothClosed(k.c) /\ Has(k.c, "CLOSE_RCVD")
                  => d.dead
<1> DEFINE k1 == chan_send_close2(k)
           d == chan_is_dead(k, b)
           sends == /\ b /\ k.c.type # "ZOMBIE"
                    /\ BothClosed(k.c) /\ ~Has(k.c, "CLOSE_SENT")
<1>1. SameRest(k.c, k.c)
  BY DEF SameRest
<1>2. d.k = IF sends THEN k1 ELSE k
  BY DEF chan_is_dead
<1>3. d.dead <=> \/ k.c.type = "ZOMBIE"
                 \/ /\ BothClosed(k.c) /\ Has(k.c, "CLOSE_RCVD")
                    /\ Has(d.k.c, "CLOSE_SENT") \/ ~b
  BY DEF chan_is_dead
<1> HIDE DEF d
<1>4. CASE sends
  <2>1. /\ k1 \in Context /\ SameRest(k.c, k1.c)
        /\ k1.c.istate = k.c.istate /\ k1.c.ostate = k.c.ostate
        /\ k.c.flags \subseteq k1.c.flags
        /\ k1.c.flags \subseteq k.c.flags \cup {"CLOSE_SENT"}
        /\ Has(k1.c, "CLOSE_SENT") /\ BothClosed(k.c) /\ b
    BY <1>4, SendClose
  <2>2. HalfInv(k1.c)
    BY <2>1 DEF HalfInv, Has, BothClosed
  <2>3. d.k = k1
    BY <1>2, <1>4
  <2> HIDE DEF k1
  <2> QED
    BY <1>3, <2>1, <2>2, <2>3 DEF d
<1>5. CASE ~sends
  <2>1. d.k = k
    BY <1>2, <1>5
  <2>2. b /\ k.c.type # "ZOMBIE" /\ BothClosed(k.c) => Has(k.c, "CLOSE_SENT")
    BY <1>5
  <2> QED
    BY <1>1, <1>3, <2>1, <2>2 DEF d
<1> QED
  BY <1>4, <1>5

\* chan_is_dead() keeps a context good when no child runs or it may not
\* send.
LEMMA IsDeadGood ==
    ASSUME NEW k \in Good, NEW b \in BOOLEAN,
           b => k.c.pid # "running" /\ k.c.type # "LARVAL"
    PROVE  chan_is_dead(k, b).k \in Good
<1> DEFINE d == chan_is_dead(k, b).k
<1>1. k \in Context /\ HalfInv(k.c) /\ UserInv(k.c)
  BY DEF Good, ChanInv
<1>2. d \in Context /\ HalfInv(d.c) /\ SameRest(k.c, d.c) /\ (~b => d = k)
  BY <1>1, IsDead
<1> HIDE DEF d
<1>3. UserInv(d.c)
  BY <1>1, <1>2 DEF UserInv, SameRest
<1> QED
  BY <1>1, <1>2, <1>3 DEF Good, ChanInv, d

\* channel_garbage_collect() leaves a good channel or frees it.
LEMMA GarbageCollect ==
    ASSUME NEW k \in Good
    PROVE  LET g == channel_garbage_collect(k)
           IN  g.k \in Context /\ (~g.free => g.k \in Good)
<1> DEFINE d  == chan_is_dead(k, k.c.detach_close)
           k1 == [d.k EXCEPT !.c = DetachUser(@)]
           g1 == chan_is_dead(k1, TRUE)
           g2 == chan_is_dead(k, TRUE)
           r == channel_garbage_collect(k)
<1>1. /\ k \in Context /\ HalfInv(k.c) /\ UserInv(k.c)
      /\ k.c.detach_user \in BOOLEAN /\ k.c.detach_close \in BOOLEAN
  BY DEF Good, ChanInv, Context, Channel
<1>2. d.k \in Good
  <2>1. k.c.detach_close => k.c.pid # "running" /\ k.c.type # "LARVAL"
    BY <1>1 DEF UserInv
  <2> QED
    BY <1>1, <2>1, IsDeadGood
<1>3. /\ d.k.c.istate = k.c.istate /\ d.k.c.ostate = k.c.ostate
      /\ k.c.flags \subseteq d.k.c.flags /\ SameRest(k.c, d.k.c)
  BY <1>1, IsDead
<1>4. CASE k.c.detach_user /\ ~d.dead
  <2>1. r = [k |-> d.k, free |-> FALSE]
    BY <1>4 DEF channel_garbage_collect
  <2> QED
    BY <1>2, <2>1 DEF Good
<1>5. CASE k.c.detach_user /\ d.dead /\ d.k.c.pid = "running"
  <2>1. DetachUser(d.k.c) = d.k.c
    BY <1>5 DEF DetachUser
  <2>2. k1 = d.k /\ k1.c.detach_user
    BY <1>2, <1>3, <1>5, <2>1 DEF Good, Context, SameRest
  <2>3. r = [k |-> k1, free |-> FALSE]
    BY <1>5, <2>2 DEF channel_garbage_collect
  <2> QED
    BY <1>2, <2>2, <2>3 DEF Good
<1>6. CASE k.c.detach_user /\ d.dead /\ d.k.c.pid # "running"
  <2> DEFINE c1 == [d.k.c EXCEPT !.detach_user = FALSE, !.detach_close = FALSE]
  <2>1. k1 = [d.k EXCEPT !.c = c1]
    BY <1>6 DEF DetachUser
  <2>2. d.k \in Context /\ d.k.c \in Channel
    BY <1>2 DEF Good, Context
  <2>3. /\ c1 \in Channel /\ ~c1.detach_user /\ c1.type = d.k.c.type
        /\ c1.flags = d.k.c.flags /\ c1.istate = d.k.c.istate
        /\ c1.ostate = d.k.c.ostate
    BY <2>2 DEF Channel
  <2> HIDE DEF c1
  <2>4. k1 \in Context /\ k1.c = c1
    BY <2>1, <2>2, <2>3 DEF Context
  <2> HIDE DEF k1
  <2>5. HalfInv(k1.c)
    BY <1>2, <2>3, <2>4 DEF Good, ChanInv, HalfInv, Has, BothClosed
  <2>6. \/ k1.c.type = "ZOMBIE"
        \/ BothClosed(k1.c) /\ Has(k1.c, "CLOSE_RCVD")
    <3>1. k1.c.type = k.c.type
      BY <1>3, <2>3, <2>4 DEF SameRest
    <3>2. BothClosed(k.c) => BothClosed(k1.c)
      BY <1>3, <2>3, <2>4 DEF BothClosed
    <3>3. Has(k.c, "CLOSE_RCVD") => Has(k1.c, "CLOSE_RCVD")
      BY <1>3, <2>3, <2>4 DEF Has
    <3>4. d.dead => \/ k.c.type = "ZOMBIE"
                    \/ BothClosed(k.c) /\ Has(k.c, "CLOSE_RCVD")
      BY <1>1, IsDead
    <3>5. d.dead
      BY <1>6
    <3> HIDE DEF d
    <3> QED
      BY <3>1, <3>2, <3>3, <3>4, <3>5
  <2>7. g1.k \in Context /\ g1.dead
    BY <2>4, <2>5, <2>6, IsDead
  <2>8. r.k = g1.k /\ r.free = g1.dead
    BY <1>6, <2>3, <2>4 DEF channel_garbage_collect, k1
  <2> QED
    BY <2>7, <2>8
<1>7. CASE ~k.c.detach_user
  <2>1. k.c.pid # "running" /\ k.c.type # "LARVAL"
    BY <1>1, <1>7 DEF UserInv
  <2>2. g2.k \in Good
    BY <2>1, IsDeadGood
  <2>3. r.k = g2.k
    BY <1>7 DEF channel_garbage_collect
  <2> QED
    BY <2>2, <2>3 DEF Good
<1> QED
  BY <1>1, <1>4, <1>5, <1>6, <1>7

----------------------------------------------------------------------------
(* Moving data: buffers and windows change, the control state does not.    *)

SameCtl(c, d) ==
    /\ d.type = c.type /\ d.istate = c.istate /\ d.ostate = c.ostate
    /\ d.flags = c.flags /\ d.pid = c.pid
    /\ d.detach_user = c.detach_user /\ d.detach_close = c.detach_close

Keeps(c, d) == SameCtl(c, d) /\ d.local_window = c.local_window

SameExt(c, d) ==
    d.extended = c.extended /\ d.extended_usage = c.extended_usage

\* The context k with another channel record, and another history.
WithC(k, d) == [k EXCEPT !.c = d]
With(k, d, g) == [k EXCEPT !.c = d, !.h = g]

\* A context with another channel record of the same control state is good.
LEMMA Update ==
    ASSUME NEW k \in Good, NEW d \in Channel, NEW g \in History,
           SameCtl(k.c, d), d.type = "CONNECTING" => d.local_window \in Nat
    PROVE  /\ With(k, d, g) \in Good /\ With(k, d, g).c = d
           /\ WithC(k, d) \in Good /\ WithC(k, d).c = d
<1>1. k \in Context /\ HalfInv(k.c) /\ UserInv(k.c)
  BY DEF Good, ChanInv
<1>2. HalfInv(d)
  BY <1>1 DEF HalfInv, SameCtl, Has, BothClosed
<1>3. UserInv(d)
  BY <1>1 DEF UserInv, SameCtl, Has
<1>4. /\ With(k, d, g) \in Context /\ With(k, d, g).c = d
      /\ WithC(k, d) \in Context /\ WithC(k, d).c = d
  BY <1>1 DEF Context, With, WithC
<1> QED
  BY <1>2, <1>3, <1>4 DEF Good, ChanInv

\* The same when the window it offers does not change either.
LEMMA UpdateKeeps ==
    ASSUME NEW k \in Good, NEW d \in Channel, NEW g \in History, Keeps(k.c, d)
    PROVE  /\ With(k, d, g) \in Good /\ With(k, d, g).c = d
           /\ WithC(k, d) \in Good /\ WithC(k, d).c = d
<1>1. SameCtl(k.c, d)
  BY DEF Keeps
<1>2. d.type = "CONNECTING" => d.local_window \in Nat
  BY DEF Keeps, SameCtl, Good, ChanInv, UserInv
<1> QED
  BY <1>1, <1>2, Update

\* The types of the fields that arithmetic is done on.
LEMMA Fields ==
    ASSUME NEW k \in Good
    PROVE  /\ k \in Context /\ k.c \in Channel /\ k.h \in History
           /\ k.c.input \in Nat /\ k.c.output \in Nat /\ k.c.extended \in Nat
           /\ k.c.local_window \in Int /\ k.c.local_consumed \in Nat
           /\ k.c.remote_window \in Int /\ k.c.confirms \in Nat
  BY DEF Good, Context, Channel

\* One field of a channel is assigned.
LEMMA SetField ==
    ASSUME NEW c \in Channel, NEW n \in Nat, NEW z \in Int
    PROVE  /\ LET d == [c EXCEPT !.input = n]
              IN  d \in Channel /\ Keeps(c, d) /\ SameExt(c, d)
                  /\ d.output = c.output /\ d.remote_window = c.remote_window
           /\ LET d == [c EXCEPT !.output = n]
              IN  d \in Channel /\ Keeps(c, d) /\ SameExt(c, d)
                  /\ d.local_consumed = c.local_consumed
           /\ LET d == [c EXCEPT !.local_consumed = n]
              IN  d \in Channel /\ Keeps(c, d) /\ SameExt(c, d)
           /\ LET d == [c EXCEPT !.extended = n]
              IN  d \in Channel /\ Keeps(c, d)
                  /\ d.local_consumed = c.local_consumed
                  /\ d.remote_window = c.remote_window
           /\ LET d == [c EXCEPT !.efd = FALSE]
              IN  d \in Channel /\ Keeps(c, d)
           /\ LET d == [c EXCEPT !.confirms = n]
              IN  d \in Channel /\ Keeps(c, d)
           /\ LET d == [c EXCEPT !.remote_window = z]
              IN  d \in Channel /\ Keeps(c, d)
           /\ LET d == [c EXCEPT !.local_window = z]
              IN  d \in Channel /\ SameCtl(c, d)
                  /\ d.local_consumed = c.local_consumed
                  /\ d.output = c.output /\ d.extended = c.extended
<1>1. LET d == [c EXCEPT !.input = n]
      IN  d \in Channel /\ Keeps(c, d) /\ SameExt(c, d)
          /\ d.output = c.output /\ d.remote_window = c.remote_window
  BY DEF Channel, Keeps, SameCtl, SameExt
<1>2. LET d == [c EXCEPT !.output = n]
      IN  d \in Channel /\ Keeps(c, d) /\ SameExt(c, d)
          /\ d.local_consumed = c.local_consumed
  BY DEF Channel, Keeps, SameCtl, SameExt
<1>3. LET d == [c EXCEPT !.local_consumed = n]
      IN  d \in Channel /\ Keeps(c, d) /\ SameExt(c, d)
  BY DEF Channel, Keeps, SameCtl, SameExt
<1>4. LET d == [c EXCEPT !.extended = n]
      IN  d \in Channel /\ Keeps(c, d)
          /\ d.local_consumed = c.local_consumed
          /\ d.remote_window = c.remote_window
  BY DEF Channel, Keeps, SameCtl
<1>5. LET d == [c EXCEPT !.efd = FALSE]
      IN  d \in Channel /\ Keeps(c, d)
  BY DEF Channel, Keeps, SameCtl
<1>6. LET d == [c EXCEPT !.confirms = n]
      IN  d \in Channel /\ Keeps(c, d)
  BY DEF Channel, Keeps, SameCtl
<1>7. LET d == [c EXCEPT !.remote_window = z]
      IN  d \in Channel /\ Keeps(c, d)
  BY DEF Channel, Keeps, SameCtl
<1>8. LET d == [c EXCEPT !.local_window = z]
      IN  d \in Channel /\ SameCtl(c, d)
          /\ d.local_consumed = c.local_consumed
          /\ d.output = c.output /\ d.extended = c.extended
  BY DEF Channel, SameCtl
<1> QED
  BY <1>1, <1>2, <1>3, <1>4, <1>5, <1>6, <1>7, <1>8

\* One field of the history of a channel is assigned.
LEMMA SetHist ==
    ASSUME NEW h \in History, NEW n \in Nat
    PROVE  /\ [h EXCEPT !.rd = @ + n] \in History
           /\ [h EXCEPT !.wr = @ + n] \in History
           /\ [h EXCEPT !.erd = @ + n] \in History
           /\ [h EXCEPT !.ewr = @ + n] \in History
           /\ [h EXCEPT !.dropped = @ + n] \in History
           /\ [h EXCEPT !.own = @ + n] \in History
<1>1. [h EXCEPT !.rd = @ + n] \in History
  BY DEF History
<1>2. [h EXCEPT !.wr = @ + n] \in History
  BY DEF History
<1>3. [h EXCEPT !.erd = @ + n] \in History
  BY DEF History
<1>4. [h EXCEPT !.ewr = @ + n] \in History
  BY DEF History
<1>5. [h EXCEPT !.dropped = @ + n] \in History
  BY DEF History
<1>6. [h EXCEPT !.own = @ + n] \in History
  BY DEF History
<1> QED
  BY <1>1, <1>2, <1>3, <1>4, <1>5, <1>6

\* Setting a history flag keeps a context good.
LEMMA SetHistFlag ==
    ASSUME NEW h \in History
    PROVE  /\ [h EXCEPT !.ecut = TRUE] \in History
           /\ [h EXCEPT !.exit = TRUE] \in History
           /\ [h EXCEPT !.ran = TRUE] \in History
  BY DEF History

\* Keeping a context good composes.
LEMMA KeepsTrans ==
    ASSUME NEW a, NEW b, NEW c
    PROVE  /\ Keeps(a, b) /\ Keeps(b, c) => Keeps(a, c)
           /\ SameCtl(a, b) /\ SameCtl(b, c) => SameCtl(a, c)
           /\ SameExt(a, b) /\ SameExt(b, c) => SameExt(a, c)
           /\ Keeps(a, b) => SameCtl(a, b)
  BY DEF Keeps, SameCtl, SameExt

\* Send() keeps a context good.
LEMMA SendGood ==
    ASSUME NEW k \in Good, NEW t \in MsgTypes, NEW n \in Nat
    PROVE  Send(k, t, n) \in Good /\ Send(k, t, n).c = k.c
  BY SendType DEF Good

\* channel_pre() keeps a context good.
LEMMA Pre ==
    ASSUME NEW k \in Good
    PROVE  channel_pre(k) \in Good
  BY ObufEmpty DEF channel_pre

\* channel_handle_rfd(): input grows by what was read.
LEMMA HandleRfd ==
    ASSUME NEW k \in Good, NEW r \in Int
    PROVE  LET k1 == channel_handle_rfd(k, r)
           IN  k1 \in Good /\ k1.c.output = k.c.output /\ SameExt(k.c, k1.c)
<1>1. CASE r > 0
  <2> DEFINE d == [k.c EXCEPT !.input = k.c.input + r]
             g == [k.h EXCEPT !.rd = @ + r]
  <2>1. r \in Nat /\ k.c.input + r \in Nat
    BY <1>1, Fields
  <2>2. /\ d \in Channel /\ Keeps(k.c, d) /\ SameExt(k.c, d)
        /\ d.output = k.c.output
    BY <2>1, SetField, Fields
  <2>3. g \in History
    BY <2>1, SetHist, Fields
  <2>4. channel_handle_rfd(k, r) = With(k, d, g)
    BY <1>1, Fields DEF channel_handle_rfd, Context, With
  <2> HIDE DEF d, g
  <2> QED
    BY <2>2, <2>3, <2>4, UpdateKeeps
<1>2. CASE r < 0
  <2>1. channel_handle_rfd(k, r) = chan_read_failed(k)
    BY <1>2 DEF channel_handle_rfd
  <2>2. chan_read_failed(k).c.output = k.c.output
    BY Fields DEF chan_read_failed, SetIstate, Context, Channel
  <2> QED
    BY <2>1, <2>2, ReadFailed DEF SameRest, SameExt
<1>3. CASE r = 0
  BY <1>3 DEF channel_handle_rfd, SameExt
<1> QED
  BY <1>1, <1>2, <1>3

\* channel_handle_wfd(): no more is written than the buffer holds.
LEMMA HandleWfd ==
    ASSUME NEW k \in Good, NEW w \in Int, w <= k.c.output
    PROVE  LET k1 == channel_handle_wfd(k, w)
           IN  k1 \in Good /\ SameExt(k.c, k1.c)
<1>1. CASE w > 0
  <2> DEFINE d == [k.c EXCEPT !.output = k.c.output - w]
             d1 == [d EXCEPT !.local_consumed = k.c.local_consumed + w]
             g == [k.h EXCEPT !.wr = @ + w]
  <2>1. /\ w \in Nat /\ k.c.output - w \in Nat
        /\ k.c.local_consumed + w \in Nat
    BY <1>1, Fields
  <2>2. /\ d \in Channel /\ Keeps(k.c, d) /\ SameExt(k.c, d)
        /\ d.local_consumed = k.c.local_consumed
    BY <2>1, SetField, Fields
  <2>3. d1 \in Channel /\ Keeps(k.c, d1) /\ SameExt(k.c, d1)
    <3> HIDE DEF d
    <3>1. d1 \in Channel /\ Keeps(d, d1) /\ SameExt(d, d1)
      BY <2>1, <2>2, SetField
    <3> QED
      BY <2>2, <3>1, KeepsTrans
  <2>4. g \in History
    BY <2>1, SetHist, Fields
  <2>5. channel_handle_wfd(k, w) =
           [k EXCEPT !.c.output = @ - w, !.c.local_consumed = @ + w,
                     !.h.wr = @ + w]
    BY <1>1 DEF channel_handle_wfd
  <2>6. channel_handle_wfd(k, w) = With(k, d1, g)
    BY <2>2, <2>5, Fields DEF Context, Channel, With
  <2> HIDE DEF d1, g
  <2> QED
    BY <2>3, <2>4, <2>6, UpdateKeeps
<1>2. CASE w < 0
  <2>1. channel_handle_wfd(k, w) = chan_write_failed2(k)
    BY <1>2 DEF channel_handle_wfd
  <2> QED
    BY <2>1, WriteFailed DEF SameRest, SameExt
<1>3. CASE w = 0
  BY <1>3 DEF channel_handle_wfd, SameExt
<1> QED
  BY <1>1, <1>2, <1>3

\* channel_handle_efd(): stderr is read, or written no further than buffered.
LEMMA HandleEfd ==
    ASSUME NEW k \in Good, NEW x \in Int,
           k.c.extended_usage = "WRITE" => x <= k.c.extended
    PROVE  channel_handle_efd(k, x) \in Good
<1> DEFINE d1 == [k.c EXCEPT !.efd = FALSE]
           g1 == [k.h EXCEPT !.ecut = TRUE]
<1>1. d1 \in Channel /\ Keeps(k.c, d1) /\ g1 \in History
  BY SetField, SetHistFlag, Fields
<1>4. CASE k.c.extended_usage = "WRITE" /\ x < 0
  <2>1. channel_handle_efd(k, x) = With(k, d1, g1)
    BY <1>4, Fields DEF channel_handle_efd, Context, With
  <2> HIDE DEF d1, g1
  <2> QED
    BY <1>1, <2>1, UpdateKeeps
<1>5. CASE k.c.extended_usage = "WRITE" /\ x > 0
  <2> DEFINE d == [k.c EXCEPT !.extended = k.c.extended - x]
             d2 == [d EXCEPT !.local_consumed = k.c.local_consumed + x]
             g2 == [k.h EXCEPT !.ewr = @ + x]
  <2>1. /\ x \in Nat /\ k.c.extended - x \in Nat
        /\ k.c.local_consumed + x \in Nat
    BY <1>5, Fields
  <2>2. /\ d \in Channel /\ Keeps(k.c, d)
        /\ d.local_consumed = k.c.local_consumed
    BY <2>1, SetField, Fields
  <2>3. d2 \in Channel /\ Keeps(k.c, d2)
    <3> HIDE DEF d
    <3>1. d2 \in Channel /\ Keeps(d, d2)
      BY <2>1, <2>2, SetField
    <3> QED
      BY <2>2, <3>1, KeepsTrans
  <2>4. g2 \in History
    BY <2>1, SetHist, Fields
  <2>5. channel_handle_efd(k, x) =
           [k EXCEPT !.c.extended = @ - x, !.c.local_consumed = @ + x,
                     !.h.ewr = @ + x]
    BY <1>5 DEF channel_handle_efd
  <2>6. channel_handle_efd(k, x) = With(k, d2, g2)
    BY <2>2, <2>5, Fields DEF Context, Channel, With
  <2> HIDE DEF d2, g2
  <2> QED
    BY <2>3, <2>4, <2>6, UpdateKeeps
<1>6. CASE /\ k.c.extended_usage = "READ" /\ k.c.efd
           /\ x < 0 \/ (x = 0 /\ k.c.detach_close)
  <2>1. channel_handle_efd(k, x) = WithC(k, d1)
    BY <1>6, Fields DEF channel_handle_efd, Context, WithC
  <2> HIDE DEF d1
  <2> QED
    BY <1>1, <2>1, UpdateKeeps
<1>7. CASE k.c.extended_usage = "READ" /\ x > 0
  <2> DEFINE d3 == [k.c EXCEPT !.extended = k.c.extended + x]
             g3 == [k.h EXCEPT !.erd = @ + x]
  <2>1. x \in Nat /\ k.c.extended + x \in Nat
    BY <1>7, Fields
  <2>2. d3 \in Channel /\ Keeps(k.c, d3) /\ g3 \in History
    BY <2>1, SetField, SetHist, Fields
  <2>3. channel_handle_efd(k, x) = With(k, d3, g3)
    BY <1>7, Fields DEF channel_handle_efd, Context, With
  <2> HIDE DEF d3, g3
  <2> QED
    BY <2>2, <2>3, UpdateKeeps
<1>8. CASE ~(\/ k.c.extended_usage = "WRITE" /\ x < 0
             \/ k.c.extended_usage = "WRITE" /\ x > 0
             \/ /\ k.c.extended_usage = "READ" /\ k.c.efd
                /\ x < 0 \/ (x = 0 /\ k.c.detach_close)
             \/ k.c.extended_usage = "READ" /\ x > 0)
  <2>1. channel_handle_efd(k, x) = k
    BY <1>8 DEF channel_handle_efd
  <2> QED
    BY <2>1
<1> QED
  BY <1>4, <1>5, <1>6, <1>7, <1>8

\* channel_check_window(): what was consumed is credited once.
LEMMA CheckWindow ==
    ASSUME NEW k \in Good
    PROVE  channel_check_window(k) \in Good
<1> DEFINE k1 == Send(k, "ADJUST", k.c.local_consumed)
           d == [k.c EXCEPT !.local_window =
                               k.c.local_window + k.c.local_consumed]
           d1 == [d EXCEPT !.local_consumed = 0]
<1>1. k1 \in Good /\ k1.c = k.c
  BY SendGood, Fields DEF MsgTypes
<1>2. d \in Channel /\ SameCtl(k.c, d)
  <2>1. k.c.local_window + k.c.local_consumed \in Int
    BY Fields
  <2> QED
    BY <2>1, SetField, Fields
<1>3. d1 \in Channel /\ SameCtl(k.c, d1)
  <2> HIDE DEF d
  <2>1. 0 \in Nat /\ 0 \in Int
    OBVIOUS
  <2>2. d1 \in Channel /\ Keeps(d, d1)
    BY <1>2, <2>1, SetField
  <2> QED
    BY <1>2, <2>2, KeepsTrans
<1>4. CASE NeedsAdjust(k.c)
  <2>1. channel_check_window(k) = WithC(k1, d1)
    BY <1>1, <1>4 DEF channel_check_window, WithC
  <2>2. d1.type # "CONNECTING"
    BY <1>3, <1>4 DEF NeedsAdjust, SameCtl
  <2>3. k.h \in History
    BY Fields
  <2> HIDE DEF d1, k1
  <2> QED
    BY <1>1, <1>3, <2>1, <2>2, <2>3, Update
<1>5. CASE ~NeedsAdjust(k.c)
  BY <1>5 DEF channel_check_window
<1> QED
  BY <1>4, <1>5

\* channel_post_open() keeps a context good.
LEMMA PostOpen ==
    ASSUME NEW k \in Good, NEW r \in Int, NEW w \in Int, NEW x \in Int,
           w <= k.c.output, k.c.extended_usage = "WRITE" => x <= k.c.extended
    PROVE  channel_post_open(k, r, w, x) \in Good
<1> DEFINE k1 == channel_handle_rfd(k, r)
           k2 == channel_handle_wfd(k1, w)
           k3 == channel_handle_efd(k2, x)
<1>1. k1 \in Good /\ k1.c.output = k.c.output /\ SameExt(k.c, k1.c)
  BY HandleRfd
<1> HIDE DEF k1
<1>2. k2 \in Good /\ SameExt(k1.c, k2.c)
  BY <1>1, HandleWfd
<1> HIDE DEF k2
<1>3. k3 \in Good
  BY <1>1, <1>2, HandleEfd DEF SameExt
<1> HIDE DEF k3
<1>4. channel_check_window(k3) \in Good
  BY <1>3, CheckWindow
<1> QED
  BY <1>4 DEF channel_post_open, k1, k2, k3

----------------------------------------------------------------------------
(* The message handlers.                                                   *)

\* Min2() is a lower bound of both arguments.
LEMMA MinBounds ==
    ASSUME NEW a \in Nat, NEW b \in Int, Min2(Min2(a, b), MaxPacket) > 0
    PROVE  /\ Min2(Min2(a, b), MaxPacket) \in Nat
           /\ Min2(Min2(a, b), MaxPacket) <= a
  BY BoundsAssumption DEF Min2

\* channel_output_poll() sends no more than is buffered.
LEMMA OutputDataGood ==
    ASSUME NEW k \in Good
    PROVE  OutputData(k) \in Good
<1> DEFINE len == Min2(Min2(k.c.input, k.c.remote_window), MaxPacket)
<1>1. CASE k.c.istate \in {"OPEN", "WAIT_DRAIN"} /\ k.c.input > 0 /\ len > 0
  <2> DEFINE k1 == Send(k, "DATA", len)
             d == [k.c EXCEPT !.input = k.c.input - len]
             d1 == [d EXCEPT !.remote_window = k.c.remote_window - len]
  <2>1. len \in Nat /\ len <= k.c.input
    BY <1>1, MinBounds, Fields
  <2> HIDE DEF len
  <2>2. k1 \in Good /\ k1.c = k.c
    BY <2>1, SendGood DEF MsgTypes
  <2>3. k.c.input - len \in Nat /\ k.c.remote_window - len \in Int
    BY <2>1, Fields
  <2>4. /\ d \in Channel /\ Keeps(k.c, d)
        /\ d.remote_window = k.c.remote_window
    BY <2>3, SetField, Fields
  <2>5. d1 \in Channel /\ Keeps(k.c, d1)
    <3> HIDE DEF d
    <3>1. d1 \in Channel /\ Keeps(d, d1)
      BY <2>1, <2>3, <2>4, SetField
    <3> QED
      BY <2>4, <3>1, KeepsTrans
  <2>6. OutputData(k) = [k1 EXCEPT !.c.input = @ - len,
                                   !.c.remote_window = @ - len]
    BY <1>1 DEF OutputData, len
  <2> HIDE DEF k1
  <2>7. k1 \in Context
    BY <2>2 DEF Good
  <2>8. OutputData(k) = WithC(k1, d1)
    BY <2>2, <2>4, <2>6, <2>7 DEF Context, Channel, WithC
  <2>9. k.h \in History
    BY Fields
  <2> HIDE DEF d1
  <2> QED
    BY <2>2, <2>5, <2>8, <2>9, UpdateKeeps
<1>2. CASE ~(k.c.istate \in {"OPEN", "WAIT_DRAIN"} /\ k.c.input > 0 /\ len > 0)
  <2>1. OutputData(k) \in {k, chan_ibuf_empty(k)}
    BY <1>2 DEF OutputData
  <2> QED
    BY <2>1, IbufEmpty
<1> QED
  BY <1>1, <1>2

\* OutputExtended() keeps a context good.
LEMMA OutputExtendedGood ==
    ASSUME NEW k \in Good
    PROVE  OutputExtended(k) \in Good
<1> DEFINE len == Min2(Min2(k.c.extended, k.c.remote_window), MaxPacket)
<1>1. CASE ~Has(k.c, "EOF_SENT") /\ k.c.extended_usage = "READ" /\ len > 0
  <2> DEFINE k1 == Send(k, "EXT", len)
             d == [k.c EXCEPT !.extended = k.c.extended - len]
             d1 == [d EXCEPT !.remote_window = k.c.remote_window - len]
  <2>1. len \in Nat /\ len <= k.c.extended
    BY <1>1, MinBounds, Fields
  <2> HIDE DEF len
  <2>2. k1 \in Good /\ k1.c = k.c
    BY <2>1, SendGood DEF MsgTypes
  <2>3. k.c.extended - len \in Nat /\ k.c.remote_window - len \in Int
    BY <2>1, Fields
  <2>4. /\ d \in Channel /\ Keeps(k.c, d)
        /\ d.remote_window = k.c.remote_window
    BY <2>3, SetField, Fields
  <2>5. d1 \in Channel /\ Keeps(k.c, d1)
    <3> HIDE DEF d
    <3>1. d1 \in Channel /\ Keeps(d, d1)
      BY <2>1, <2>3, <2>4, SetField
    <3> QED
      BY <2>4, <3>1, KeepsTrans
  <2>6. OutputExtended(k) = [k1 EXCEPT !.c.extended = @ - len,
                                       !.c.remote_window = @ - len]
    BY <1>1 DEF OutputExtended, len
  <2> HIDE DEF k1
  <2>7. k1 \in Context
    BY <2>2 DEF Good
  <2>8. OutputExtended(k) = WithC(k1, d1)
    BY <2>2, <2>4, <2>6, <2>7 DEF Context, Channel, WithC
  <2>9. k.h \in History
    BY Fields
  <2> HIDE DEF d1
  <2> QED
    BY <2>2, <2>5, <2>8, <2>9, UpdateKeeps
<1>2. CASE ~(~Has(k.c, "EOF_SENT") /\ k.c.extended_usage = "READ" /\ len > 0)
  BY <1>2 DEF OutputExtended
<1> QED
  BY <1>1, <1>2

\* channel_input_data().
LEMMA InputDataGood ==
    ASSUME NEW k \in Good, NEW m \in ChannelMessage
    PROVE  InputData(k, m) \in Good
<1> DEFINE n == m.n
           d == [k.c EXCEPT !.local_window = k.c.local_window - n]
           d1 == [d EXCEPT !.local_consumed = k.c.local_consumed + n]
           d2 == [d EXCEPT !.output = k.c.output + n]
<1>1. n \in Nat
  BY DEF ChannelMessage
<1> HIDE DEF n
<1>2. /\ k.c.local_window - n \in Int /\ k.c.local_consumed + n \in Nat
      /\ k.c.output + n \in Nat
  BY <1>1, Fields
<1>3. /\ d \in Channel /\ SameCtl(k.c, d) /\ d.output = k.c.output
      /\ d.local_consumed = k.c.local_consumed
  BY <1>1, <1>2, SetField, Fields
<1>4. d1 \in Channel /\ SameCtl(k.c, d1) /\ d2 \in Channel /\ SameCtl(k.c, d2)
  <2> HIDE DEF d
  <2>1. d1 \in Channel /\ Keeps(d, d1)
    BY <1>2, <1>3, SetField
  <2>2. d2 \in Channel /\ Keeps(d, d2)
    BY <1>2, <1>3, SetField
  <2> QED
    BY <1>3, <2>1, <2>2, KeepsTrans
<1>5. CASE k.c.type # "OPEN"
  BY <1>5 DEF InputData
<1>6. CASE k.c.type = "OPEN"
  <2>1. InputData(k, m) \in
           {k, [k EXCEPT !.c.local_window = @ - n, !.c.local_consumed = @ + n],
               [k EXCEPT !.c.local_window = @ - n, !.c.output = @ + n]}
    BY <1>6 DEF InputData, n
  <2>2. /\ [k EXCEPT !.c.local_window = @ - n, !.c.local_consumed = @ + n]
             = WithC(k, d1)
        /\ [k EXCEPT !.c.local_window = @ - n, !.c.output = @ + n]
             = WithC(k, d2)
    BY <1>3, Fields DEF Context, Channel, WithC
  <2>3. d1.type # "CONNECTING" /\ d2.type # "CONNECTING" /\ k.h \in History
    BY <1>4, <1>6, Fields DEF SameCtl
  <2> HIDE DEF d1, d2
  <2>4. WithC(k, d1) \in Good /\ WithC(k, d2) \in Good
    BY <1>4, <2>3, Update
  <2> QED
    BY <2>1, <2>2, <2>4
<1> QED
  BY <1>5, <1>6

\* channel_input_extended_data().
LEMMA InputExtendedDataGood ==
    ASSUME NEW k \in Good, NEW m \in ChannelMessage
    PROVE  InputExtendedData(k, m) \in Good
<1> DEFINE n == m.n
           d == [k.c EXCEPT !.local_window = k.c.local_window - n]
           d1 == [d EXCEPT !.extended = k.c.extended + n]
           g == [k.h EXCEPT !.dropped = @ + n]
           bad == \/ k.c.type # "OPEN" \/ ~k.c.efd
                  \/ k.c.extended_usage # "WRITE" \/ m.n > k.c.local_window
<1>1. n \in Nat
  BY DEF ChannelMessage
<1>2. CASE bad
  <2>1. InputExtendedData(k, m) = With(k, k.c, g)
    BY <1>2, Fields DEF InputExtendedData, With, Context
  <2>2. g \in History
    BY <1>1, SetHist, Fields
  <2>3. k.c \in Channel /\ Keeps(k.c, k.c)
    BY Fields DEF Keeps, SameCtl
  <2> HIDE DEF g
  <2> QED
    BY <2>1, <2>2, <2>3, UpdateKeeps
<1>3. CASE ~bad
  <2>1. InputExtendedData(k, m) =
          [k EXCEPT !.c.local_window = @ - n, !.c.extended = @ + n]
    BY <1>3 DEF InputExtendedData
  <2> HIDE DEF n
  <2>2. k.c.local_window - n \in Int /\ k.c.extended + n \in Nat
    BY <1>1, Fields
  <2>3. d \in Channel /\ SameCtl(k.c, d) /\ d.extended = k.c.extended
    BY <1>1, <2>2, SetField, Fields
  <2>4. d1 \in Channel /\ SameCtl(k.c, d1)
    <3> HIDE DEF d
    <3>1. d1 \in Channel /\ Keeps(d, d1)
      BY <2>2, <2>3, SetField
    <3> QED
      BY <2>3, <3>1, KeepsTrans
  <2>5. InputExtendedData(k, m) = WithC(k, d1)
    BY <2>1, <2>3, Fields DEF Context, Channel, WithC
  <2>6. d1.type # "CONNECTING" /\ k.h \in History
    BY <1>3, <2>4, Fields DEF SameCtl
  <2> HIDE DEF d1
  <2> QED
    BY <2>4, <2>5, <2>6, Update
<1> QED
  BY <1>2, <1>3

\* channel_input_window_adjust().
LEMMA AdjustGood ==
    ASSUME NEW k \in Good, NEW m \in ChannelMessage
    PROVE  [k EXCEPT !.c.remote_window = @ + m.n] \in Good
<1> DEFINE d == [k.c EXCEPT !.remote_window = k.c.remote_window + m.n]
<1>1. k.c.remote_window + m.n \in Int /\ 0 \in Nat
  BY Fields DEF ChannelMessage
<1>2. d \in Channel /\ Keeps(k.c, d) /\ k.h \in History
  BY <1>1, SetField, Fields
<1>3. [k EXCEPT !.c.remote_window = @ + m.n] = WithC(k, d)
  BY Fields DEF Context, WithC
<1> HIDE DEF d
<1> QED
  BY <1>2, <1>3, UpdateKeeps

\* channel_input_open_confirmation() and the open_confirm callback.
LEMMA OpenConfirmedGood ==
    ASSUME NEW k \in Good, NEW m \in ChannelMessage, k.c.type # "LARVAL"
    PROVE  OpenConfirmed(k, m) \in Good
<1> DEFINE d == [k.c EXCEPT !.remote_id = m.who, !.type = "OPEN",
                            !.remote_window = m.n]
           k1 == WithC(k, d)
           k2 == Send(k1, "SHELL", 1)
           d2 == [d EXCEPT !.confirms = d.confirms + 1]
<1>1. m.who \in Int /\ m.n \in Int
  BY DEF ChannelMessage
<1>2. k \in Context /\ k.c \in Channel /\ HalfInv(k.c) /\ UserInv(k.c)
      /\ k.h \in History
  BY DEF Good, ChanInv, Context
<1>3. /\ d \in Channel /\ d.istate = k.c.istate /\ d.ostate = k.c.ostate
      /\ d.flags = k.c.flags /\ d.pid = k.c.pid /\ d.type = "OPEN"
      /\ d.detach_user = k.c.detach_user /\ d.detach_close = k.c.detach_close
      /\ d.confirms \in Nat
  BY <1>1, <1>2 DEF Channel, ChanTypes
<1>4. [k EXCEPT !.c.remote_id = m.who, !.c.type = "OPEN",
                !.c.remote_window = m.n] = k1
  BY <1>2 DEF WithC, Context
<1> HIDE DEF d
<1>5. HalfInv(d) /\ UserInv(d)
  BY <1>2, <1>3 DEF HalfInv, UserInv, Has, BothClosed
<1>6. k1 \in Context /\ k1.c = d
  BY <1>2, <1>3 DEF Context, WithC
<1>7. k1 \in Good
  BY <1>5, <1>6 DEF Good, ChanInv
<1> HIDE DEF k1
<1>8. k2 \in Good /\ k2.c = d
  BY <1>6, <1>7, SendGood DEF MsgTypes
<1>9. d2 \in Channel /\ Keeps(d, d2)
  <2>1. d.confirms + 1 \in Nat /\ 0 \in Int
    BY <1>3
  <2> QED
    BY <1>3, <2>1, SetField
<1>10. [k2 EXCEPT !.c.confirms = @ + 1] = WithC(k2, d2)
  BY <1>8 DEF Good, Context, WithC
<1> HIDE DEF k2, d2
<1>11. WithC(k2, d2) \in Good
  BY <1>2, <1>8, <1>9, UpdateKeeps
<1>12. OpenConfirmed(k, m) \in {k1, WithC(k2, d2)}
  BY <1>4, <1>10 DEF OpenConfirmed, k2
<1> QED
  BY <1>7, <1>11, <1>12

\* Reply() keeps a context good.
LEMMA ReplyGood ==
    ASSUME NEW k \in Good, NEW b \in BOOLEAN
    PROVE  Reply(k, b) \in Good
<1>1. Send(k, "SUCCESS", 0) \in Good /\ Send(k, "FAILURE", 0) \in Good
  BY SendGood DEF MsgTypes
<1> QED
  BY <1>1 DEF Reply

\* session_shell_req() on a LARVAL channel.
LEMMA ShellStartedGood ==
    ASSUME NEW k \in Good, NEW m \in ChannelMessage, k.c.type = "LARVAL"
    PROVE  ShellStarted(k, m) \in Good
<1> DEFINE d0 == [k.c EXCEPT !.type = "OPEN", !.pid = "running"]
           d1 == [d0 EXCEPT !.local_window = WindowMax]
           d2 == [d1 EXCEPT !.extended_usage = "READ", !.efd = TRUE]
           g == [k.h EXCEPT !.ran = TRUE]
           k1 == With(k, d2, g)
           k2 == Send(k1, "ADJUST", WindowMax)
<1>1. WindowMax \in Nat /\ WindowMax \in Int
  BY BoundsAssumption
<1>2. k \in Context /\ k.c \in Channel /\ HalfInv(k.c) /\ UserInv(k.c)
      /\ k.h \in History
  BY DEF Good, ChanInv, Context
<1>3. /\ d0 \in Channel /\ d0.istate = k.c.istate /\ d0.ostate = k.c.ostate
      /\ d0.flags = k.c.flags /\ d0.pid = "running" /\ d0.type = "OPEN"
      /\ d0.detach_user = k.c.detach_user /\ d0.detach_close = k.c.detach_close
  BY <1>2 DEF Channel, ChanTypes
<1>4. [k EXCEPT !.c.type = "OPEN", !.c.pid = "running",
                !.c.local_window = WindowMax,
                !.c.extended_usage = "READ", !.c.efd = TRUE,
                !.h.ran = TRUE] = k1
  BY <1>2 DEF With, Context
<1>5. g \in History
  BY <1>2, SetHistFlag
<1> HIDE DEF d0, g
<1>6. d1 \in Channel /\ SameCtl(d0, d1)
  BY <1>1, <1>3, SetField
<1> HIDE DEF d1
<1>7. d2 \in Channel /\ SameCtl(d1, d2)
  BY <1>6 DEF Channel, SameCtl
<1> HIDE DEF d2
<1>8. SameCtl(d0, d2)
  BY <1>6, <1>7, KeepsTrans
<1>9. HalfInv(d2) /\ UserInv(d2)
  BY <1>2, <1>3, <1>8 DEF HalfInv, UserInv, Has, BothClosed, SameCtl
<1>10. k1 \in Context /\ k1.c = d2
  BY <1>2, <1>5, <1>7 DEF Context, With
<1>11. k1 \in Good
  BY <1>9, <1>10 DEF Good, ChanInv
<1> HIDE DEF k1
<1>12. k2 \in Good
  BY <1>1, <1>11, SendGood DEF MsgTypes
<1>13. ShellStarted(k, m) = Reply(k2, TRUE)
  BY <1>4 DEF ShellStarted
<1> QED
  BY <1>12, <1>13, ReplyGood

\* The client's own message about a refused request keeps a context good.
LEMMA ComplainGood ==
    ASSUME NEW k \in Good
    PROVE  Complain(k) \in Good
<1> DEFINE d == [k.c EXCEPT !.extended = k.c.extended + Complaint]
           g == [k.h EXCEPT !.own = @ + Complaint]
<1>1. k.c.extended + Complaint \in Nat /\ 0 \in Int /\ Complaint \in Nat
  BY Fields, BoundsAssumption
<1>2. d \in Channel /\ Keeps(k.c, d)
  BY <1>1, SetField, Fields
<1>3. g \in History
  BY <1>1, SetHist, Fields
<1>4. Complain(k) \in {k, With(k, d, g)}
  BY Fields DEF Complain, Context, With
<1> HIDE DEF d, g
<1>5. With(k, d, g) \in Good
  BY <1>2, <1>3, UpdateKeeps
<1> QED
  BY <1>4, <1>5

\* channel_input_status_confirm() keeps a context good.
LEMMA StatusConfirmGood ==
    ASSUME NEW k \in Good, NEW m \in ChannelMessage
    PROVE  StatusConfirm(k, m) \in Good
<1>1. CASE k.c.confirms = 0
  BY <1>1 DEF StatusConfirm
<1>2. CASE k.c.confirms # 0
  <2> DEFINE d == [k.c EXCEPT !.confirms = k.c.confirms - 1]
             k1 == WithC(k, d)
  <2>1. k.c.confirms - 1 \in Nat /\ 0 \in Int
    BY <1>2, Fields
  <2>2. d \in Channel /\ Keeps(k.c, d) /\ k.h \in History
    BY <2>1, SetField, Fields
  <2>3. [k EXCEPT !.c.confirms = @ - 1] = k1
    BY Fields DEF Context, WithC
  <2> HIDE DEF d
  <2>4. k1 \in Good
    BY <2>2, UpdateKeeps
  <2> HIDE DEF k1
  <2>5. chan_read_failed(Complain(k1)) \in Good
    BY <2>4, ComplainGood, ReadFailed
  <2>6. chan_write_failed2(chan_read_failed(Complain(k1))) \in Good
    BY <2>5, WriteFailed
  <2>7. StatusConfirm(k, m) \in {k1, chan_write_failed2(chan_read_failed(Complain(k1)))}
    BY <1>2, <2>3 DEF StatusConfirm
  <2> QED
    BY <2>4, <2>6, <2>7
<1> QED
  BY <1>1, <1>2

----------------------------------------------------------------------------
(* The state: a step that ends in a good context keeps the invariant.      *)

ChansInv ==
    /\ channels \in [Endpoint -> [Slots -> Channel \cup {FreeSlot}]]
    /\ \A e \in Endpoint, i \in Slots : ChanInv(channels[e][i])
WireInv == wire \in [Endpoint -> Seq(Message)] /\ timeouts \in Nat
HistInv == hist \in [Endpoint -> [Insts -> History]]
RestInv == opened \in 0 .. MaxOpen /\ sentAlive \in Nat /\ down \in Reasons

\* The inductive invariant, variable by variable.
LEMMA IInvParts == IInv <=> ChansInv /\ WireInv /\ HistInv /\ RestInv
  BY DEF IInv, TypeOK, ChansInv, WireInv, HistInv, RestInv

\* The peer of an endpoint is an endpoint.
LEMMA PeerType == \A e \in Endpoint : Peer(e) \in Endpoint
  BY DEF Peer, Endpoint

\* A free slot satisfies the invariant of a slot.
LEMMA FreeSlotInv == ChanInv(FreeSlot)
  BY DEF ChanInv, HalfInv, UserInv, Has, FreeSlot

\* The context of a slot in use.
LEMMA CtxGood ==
    ASSUME ChansInv, HistInv, NEW e \in Endpoint, NEW i \in Slots,
           channels[e][i].type # "FREE"
    PROVE  Ctx(e, i) \in Good /\ Ctx(e, i).c = channels[e][i]
<1> DEFINE c == channels[e][i]
<1>1. c \in Channel
  <2>1. c \in Channel \cup {FreeSlot}
    BY DEF ChansInv
  <2>2. FreeSlot.type = "FREE"
    BY DEF FreeSlot
  <2> QED
    BY <2>1, <2>2
<1>2. ChanInv(c)
  BY DEF ChansInv
<1> HIDE DEF c
<1>3. c.inst \in Insts
  BY <1>1 DEF Channel
<1>4. hist[e][c.inst] \in History
  BY <1>3 DEF HistInv
<1>5. Ctx(e, i) = [c |-> c, out |-> <<>>, h |-> hist[e][c.inst]]
  BY DEF Ctx, c
<1>6. Ctx(e, i) \in Context /\ Ctx(e, i).c = c
  BY <1>1, <1>4, <1>5 DEF Context
<1> QED
  BY <1>2, <1>6 DEF Good, c

\* Ending a step in a good context, or freeing the slot, keeps the tables
\* well formed.
LEMMA CommitInv ==
    ASSUME ChansInv, HistInv, NEW e \in Endpoint, NEW i \in Slots,
           NEW k \in Context, NEW free, ~free => k \in Good,
           Commit(e, i, k, free)
    PROVE  ChansInv' /\ HistInv'
<1> DEFINE d == IF free THEN FreeSlot ELSE k.c
<1>1. d \in Channel \cup {FreeSlot} /\ ChanInv(d)
  <2>1. CASE free
    BY <2>1, FreeSlotInv
  <2>2. CASE ~free
    BY <2>2 DEF Good, Context
  <2> QED
    BY <2>1, <2>2
<1>2. channels' = [channels EXCEPT ![e][i] = d]
  BY DEF Commit
<1> HIDE DEF d
<1>3. ChansInv'
  BY <1>1, <1>2 DEF ChansInv
<1>4. k.c.inst \in Insts /\ k.h \in History
  BY DEF Context, Channel
<1>5. hist' = [hist EXCEPT ![e][k.c.inst] = k.h]
  BY DEF Commit
<1>6. HistInv'
  BY <1>4, <1>5 DEF HistInv
<1> QED
  BY <1>3, <1>6

\* Sending well-typed messages keeps the wires well formed.
LEMMA EmitInv ==
    ASSUME WireInv, NEW e \in Endpoint, NEW out \in Seq(Message), Emit(e, out)
    PROVE  WireInv'
<1>1. wire[Peer(e)] \o out \in Seq(Message)
  BY PeerType DEF WireInv
<1> QED
  BY <1>1 DEF WireInv, Emit

\* So does taking one message off and answering it.
LEMMA TakeEmitInv ==
    ASSUME WireInv, NEW e \in Endpoint, NEW out \in Seq(Message),
           wire[e] # <<>>, TakeEmit(e, out)
    PROVE  WireInv'
<1>1. /\ wire[Peer(e)] \o out \in Seq(Message) /\ Tail(wire[e]) \in Seq(Message)
      /\ Peer(e) \in Endpoint /\ Peer(e) # e
  BY PeerType DEF WireInv, Peer, Endpoint
<1> QED
  BY <1>1 DEF WireInv, TakeEmit

\* The message a handler works on is well typed.
LEMMA HeadType ==
    ASSUME WireInv, NEW e \in Endpoint, NEW t, Head1(e, t)
    PROVE  /\ M(e) \in Message /\ M(e).t = t /\ wire[e] # <<>>
           /\ t \in MsgTypes => M(e) \in ChannelMessage
<1>1. M(e) \in Message /\ M(e).t = t /\ wire[e] # <<>>
  BY DEF WireInv, Head1, M
<1>2. \A m \in Message : m.t \in MsgTypes => m \in ChannelMessage
  BY DEF Message, GlobalMessage, MsgTypes
<1> QED
  BY <1>1, <1>2

\* Every handler that packet-dispatch runs on a channel it found.
LEMMA HandleInv ==
    ASSUME IInv, NEW e \in Endpoint, NEW t, Head1(e, t),
           NEW k \in Good,
           Commit(e, M(e).id, k, FALSE), TakeEmit(e, k.out), Found(e, M(e).id),
           UNCHANGED <<opened, sentAlive, down>>
    PROVE  IInv'
<1>1. M(e).id \in Slots
  BY DEF Found
<1>2. k \in Context /\ k.out \in Seq(Message)
  BY DEF Good, Context
<1>3. ChansInv' /\ HistInv'
  BY <1>1, <1>2, IInvParts, CommitInv
<1>4. WireInv'
  BY <1>2, IInvParts, HeadType, TakeEmitInv
<1>5. RestInv'
  BY IInvParts DEF RestInv
<1>6. (ChansInv /\ WireInv /\ HistInv /\ RestInv)' => IInv'
  BY DEF IInv, TypeOK, ChansInv, WireInv, HistInv, RestInv
<1> QED
  BY <1>3, <1>4, <1>5, <1>6

----------------------------------------------------------------------------
(* One lemma per action.                                                   *)

\* The parts of the invariant after a step make up the invariant.
LEMMA Parts ==
    ASSUME ChansInv', WireInv', HistInv', RestInv'
    PROVE  IInv'
  BY DEF IInv, TypeOK, ChansInv, WireInv, HistInv, RestInv

\* packet_disconnect() only records why.
LEMMA DisconnectInv ==
    ASSUME IInv, NEW why \in Reasons, packet_disconnect(why)
    PROVE  IInv'
  BY DEF IInv, TypeOK, packet_disconnect

\* A message that is only taken off the wire.
LEMMA TakeInv ==
    ASSUME IInv, NEW e \in Endpoint, wire[e] # <<>>, TakeEmit(e, <<>>),
           UNCHANGED <<channels, opened, sentAlive, down, hist>>
    PROVE  IInv'
<1>1. WireInv'
  <2>1. <<>> \in Seq(Message)
    OBVIOUS
  <2> QED
    BY <2>1, IInvParts, TakeEmitInv
<1>2. ChansInv' /\ HistInv' /\ RestInv'
  BY IInvParts DEF ChansInv, HistInv, RestInv
<1> QED
  BY <1>1, <1>2, Parts

\* The context a message handler works on.
LEMMA FoundGood ==
    ASSUME IInv, NEW e \in Endpoint, Found(e, M(e).id)
    PROVE  /\ Ctx(e, M(e).id) \in Good
           /\ Ctx(e, M(e).id).c = channels[e][M(e).id]
           /\ M(e).id \in Slots
<1>1. M(e).id \in Slots /\ channels[e][M(e).id].type # "FREE"
  BY DEF Found
<1> QED
  BY <1>1, IInvParts, CtxGood

\* A request for a channel that is gone.
LEMMA UnknownInv ==
    ASSUME IInv, NEW e \in Endpoint, NEW t, Unknown(e, t)
    PROVE  IInv'
<1>1. wire[e] # <<>>
  BY DEF Unknown, Head1
<1>2. CASE e = "server"
  BY <1>2, DisconnectInv DEF Unknown, Reasons
<1>3. CASE e # "server"
  BY <1>1, <1>3, TakeInv DEF Unknown
<1> QED
  BY <1>2, <1>3

\* channel_input_data() keeps the invariant.
LEMMA DataInv ==
    ASSUME IInv, NEW e \in Endpoint, channel_input_data(e)
    PROVE  IInv'
<1> DEFINE k == Ctx(e, M(e).id)
           k1 == InputData(k, M(e))
<1>1. Head1(e, "DATA") /\ wire[e] # <<>> /\ M(e) \in ChannelMessage
  <2>1. Head1(e, "DATA")
    BY DEF channel_input_data, Handle
  <2> QED
    BY <2>1, IInvParts, HeadType DEF MsgTypes
<1>2. CASE Found(e, M(e).id)
  <2>1. k \in Good
    BY <1>2, FoundGood
  <2>2. /\ Commit(e, M(e).id, k1, FALSE) /\ TakeEmit(e, k1.out)
        /\ UNCHANGED <<opened, sentAlive, down>>
    BY <1>2 DEF channel_input_data, Handle
  <2> HIDE DEF k
  <2>3. k1 \in Good
    BY <1>1, <2>1, InputDataGood
  <2> HIDE DEF k1
  <2> QED
    BY <1>1, <1>2, <2>2, <2>3, HandleInv
<1>3. CASE ~Found(e, M(e).id)
  <2>1. packet_disconnect("nonexistent channel")
    BY <1>3 DEF channel_input_data, Handle
  <2> QED
    BY <2>1, DisconnectInv DEF Reasons
<1> QED
  BY <1>2, <1>3

\* channel_input_ieof() keeps the invariant.
LEMMA EofInv ==
    ASSUME IInv, NEW e \in Endpoint, channel_input_ieof(e)
    PROVE  IInv'
<1> DEFINE k == Ctx(e, M(e).id)
           k1 == chan_rcvd_ieof(k)
<1>1. Head1(e, "EOF") /\ wire[e] # <<>> /\ M(e) \in ChannelMessage
  <2>1. Head1(e, "EOF")
    BY DEF channel_input_ieof, Handle
  <2> QED
    BY <2>1, IInvParts, HeadType DEF MsgTypes
<1>2. CASE Found(e, M(e).id)
  <2>1. k \in Good
    BY <1>2, FoundGood
  <2>2. /\ Commit(e, M(e).id, k1, FALSE) /\ TakeEmit(e, k1.out)
        /\ UNCHANGED <<opened, sentAlive, down>>
    BY <1>2 DEF channel_input_ieof, Handle
  <2> HIDE DEF k
  <2>3. k1 \in Good
    BY <1>1, <2>1, RcvdIeof
  <2> HIDE DEF k1
  <2> QED
    BY <1>1, <1>2, <2>2, <2>3, HandleInv
<1>3. CASE ~Found(e, M(e).id)
  <2>1. packet_disconnect("nonexistent channel")
    BY <1>3 DEF channel_input_ieof, Handle
  <2> QED
    BY <2>1, DisconnectInv DEF Reasons
<1> QED
  BY <1>2, <1>3

\* channel_input_oclose() keeps the invariant.
LEMMA CloseInv ==
    ASSUME IInv, NEW e \in Endpoint, channel_input_oclose(e)
    PROVE  IInv'
<1> DEFINE k == Ctx(e, M(e).id)
           k1 == chan_rcvd_close2(k)
<1>1. Head1(e, "CLOSE") /\ wire[e] # <<>> /\ M(e) \in ChannelMessage
  <2>1. Head1(e, "CLOSE")
    BY DEF channel_input_oclose, Handle
  <2> QED
    BY <2>1, IInvParts, HeadType DEF MsgTypes
<1>2. CASE Found(e, M(e).id)
  <2>1. k \in Good
    BY <1>2, FoundGood
  <2>2. /\ Commit(e, M(e).id, k1, FALSE) /\ TakeEmit(e, k1.out)
        /\ UNCHANGED <<opened, sentAlive, down>>
    BY <1>2 DEF channel_input_oclose, Handle
  <2> HIDE DEF k
  <2>3. k1 \in Good
    BY <1>1, <2>1, RcvdClose
  <2> HIDE DEF k1
  <2> QED
    BY <1>1, <1>2, <2>2, <2>3, HandleInv
<1>3. CASE ~Found(e, M(e).id)
  <2>1. packet_disconnect("nonexistent channel")
    BY <1>3 DEF channel_input_oclose, Handle
  <2> QED
    BY <2>1, DisconnectInv DEF Reasons
<1> QED
  BY <1>2, <1>3

\* channel_input_window_adjust() keeps the invariant.
LEMMA AdjustInv ==
    ASSUME IInv, NEW e \in Endpoint, channel_input_window_adjust(e)
    PROVE  IInv'
<1> DEFINE k == Ctx(e, M(e).id)
           k1 == [k EXCEPT !.c.remote_window = @ + M(e).n]
<1>1. Head1(e, "ADJUST") /\ wire[e] # <<>> /\ M(e) \in ChannelMessage
  <2>1. Head1(e, "ADJUST")
    BY DEF channel_input_window_adjust, Handle
  <2> QED
    BY <2>1, IInvParts, HeadType DEF MsgTypes
<1>2. CASE Found(e, M(e).id)
  <2>1. k \in Good
    BY <1>2, FoundGood
  <2>2. /\ Commit(e, M(e).id, k1, FALSE) /\ TakeEmit(e, k1.out)
        /\ UNCHANGED <<opened, sentAlive, down>>
    BY <1>2 DEF channel_input_window_adjust, Handle
  <2> HIDE DEF k
  <2>3. k1 \in Good
    BY <1>1, <2>1, AdjustGood
  <2> HIDE DEF k1
  <2> QED
    BY <1>1, <1>2, <2>2, <2>3, HandleInv
<1>3. CASE ~Found(e, M(e).id)
  <2>1. /\ TakeEmit(e, <<>>)
        /\ UNCHANGED <<channels, opened, sentAlive, down, hist>>
    BY <1>1, <1>3 DEF channel_input_window_adjust
  <2> QED
    BY <1>1, <2>1, TakeInv
<1> QED
  BY <1>2, <1>3

\* An eow@openssh.com request keeps the invariant.
LEMMA EowInv ==
    ASSUME IInv, NEW e \in Endpoint, channel_req_eow(e)
    PROVE  IInv'
<1> DEFINE k == Ctx(e, M(e).id)
           k1 == chan_rcvd_eow(k)
<1>1. Head1(e, "EOW") /\ wire[e] # <<>> /\ M(e) \in ChannelMessage
  <2>1. Head1(e, "EOW")
    BY DEF channel_req_eow, Handle, Unknown
  <2> QED
    BY <2>1, IInvParts, HeadType DEF MsgTypes
<1>2. CASE Found(e, M(e).id)
  <2>1. k \in Good
    BY <1>2, FoundGood
  <2>2. /\ Commit(e, M(e).id, k1, FALSE) /\ TakeEmit(e, k1.out)
        /\ UNCHANGED <<opened, sentAlive, down>>
    BY <1>2 DEF channel_req_eow, Handle
  <2> HIDE DEF k
  <2>3. k1 \in Good
    BY <1>1, <2>1, RcvdEow
  <2> HIDE DEF k1
  <2> QED
    BY <1>1, <1>2, <2>2, <2>3, HandleInv
<1>3. CASE ~Found(e, M(e).id)
  <2>1. Unknown(e, "EOW")
    BY <1>1, <1>3 DEF channel_req_eow
  <2> QED
    BY <2>1, UnknownInv
<1> QED
  BY <1>2, <1>3

\* channel_input_open_confirmation() keeps the invariant.
LEMMA ConfirmationInv ==
    ASSUME IInv, NEW e \in Endpoint, channel_input_open_confirmation(e)
    PROVE  IInv'
<1> DEFINE k == Ctx(e, M(e).id)
           k1 == OpenConfirmed(k, M(e))
<1>1. Head1(e, "CONFIRM") /\ wire[e] # <<>> /\ M(e) \in ChannelMessage
  <2>1. Head1(e, "CONFIRM")
    BY DEF channel_input_open_confirmation, Handle
  <2> QED
    BY <2>1, IInvParts, HeadType DEF MsgTypes
<1>2. CASE Found(e, M(e).id) /\ channels[e][M(e).id].type = "OPENING"
  <2>1. k \in Good /\ k.c.type = "OPENING"
    BY <1>2, FoundGood
  <2>2. /\ Commit(e, M(e).id, k1, FALSE) /\ TakeEmit(e, k1.out)
        /\ UNCHANGED <<opened, sentAlive, down>>
    BY <1>2 DEF channel_input_open_confirmation, Handle
  <2> HIDE DEF k
  <2>3. k1 \in Good
    BY <1>1, <2>1, OpenConfirmedGood
  <2> HIDE DEF k1
  <2> QED
    BY <1>1, <1>2, <2>2, <2>3, HandleInv
<1>3. CASE ~Found(e, M(e).id)
  <2>1. packet_disconnect("nonexistent channel")
    BY <1>3 DEF channel_input_open_confirmation, Handle
  <2> QED
    BY <2>1, DisconnectInv DEF Reasons
<1>4. CASE Found(e, M(e).id) /\ channels[e][M(e).id].type # "OPENING"
  <2>1. packet_disconnect("confirmation for non-opening channel")
    BY <1>1, <1>4 DEF channel_input_open_confirmation
  <2> QED
    BY <2>1, DisconnectInv DEF Reasons
<1> QED
  BY <1>2, <1>3, <1>4

\* channel_input_open_failure() keeps the invariant.
LEMMA FailureInv ==
    ASSUME IInv, NEW e \in Endpoint, channel_input_open_failure(e)
    PROVE  IInv'
<1> DEFINE k == Ctx(e, M(e).id)
           k1 == chan_mark_dead(k)
<1>1. Head1(e, "OPENFAIL") /\ wire[e] # <<>> /\ M(e) \in ChannelMessage
  <2>1. Head1(e, "OPENFAIL")
    BY DEF channel_input_open_failure, Handle
  <2> QED
    BY <2>1, IInvParts, HeadType DEF MsgTypes
<1>2. CASE Found(e, M(e).id) /\ channels[e][M(e).id].type = "OPENING"
  <2>1. k \in Good /\ k.c.type = "OPENING"
    BY <1>2, FoundGood
  <2>2. /\ Commit(e, M(e).id, k1, FALSE) /\ TakeEmit(e, k1.out)
        /\ UNCHANGED <<opened, sentAlive, down>>
    BY <1>2 DEF channel_input_open_failure, Handle
  <2> HIDE DEF k
  <2>3. k1 \in Good
    BY <1>1, <2>1, MarkDead
  <2> HIDE DEF k1
  <2> QED
    BY <1>1, <1>2, <2>2, <2>3, HandleInv
<1>3. CASE ~Found(e, M(e).id)
  <2>1. packet_disconnect("nonexistent channel")
    BY <1>3 DEF channel_input_open_failure, Handle
  <2> QED
    BY <2>1, DisconnectInv DEF Reasons
<1>4. CASE Found(e, M(e).id) /\ channels[e][M(e).id].type # "OPENING"
  <2>1. packet_disconnect("failure for non-opening channel")
    BY <1>1, <1>4 DEF channel_input_open_failure
  <2> QED
    BY <2>1, DisconnectInv DEF Reasons
<1> QED
  BY <1>2, <1>3, <1>4

\* channel_input_extended_data() keeps the invariant.
LEMMA ExtendedInv ==
    ASSUME IInv, NEW e \in Endpoint, channel_input_extended_data(e)
    PROVE  IInv'
<1> DEFINE after == /\ channels[e][M(e).id].type = "OPEN"
                    /\ Has(channels[e][M(e).id], "EOF_RCVD")
           k == Ctx(e, M(e).id)
           k1 == InputExtendedData(k, M(e))
<1>1. Head1(e, "EXT") /\ wire[e] # <<>> /\ M(e) \in ChannelMessage
  <2>1. Head1(e, "EXT")
    BY DEF channel_input_extended_data, Handle
  <2> QED
    BY <2>1, IInvParts, HeadType DEF MsgTypes
<1>2. CASE Found(e, M(e).id) /\ ~after
  <2>1. k \in Good
    BY <1>2, FoundGood
  <2>2. /\ Commit(e, M(e).id, k1, FALSE) /\ TakeEmit(e, k1.out)
        /\ UNCHANGED <<opened, sentAlive, down>>
    BY <1>2 DEF channel_input_extended_data, Handle
  <2> HIDE DEF k
  <2>3. k1 \in Good
    BY <1>1, <2>1, InputExtendedDataGood
  <2> HIDE DEF k1
  <2> QED
    BY <1>1, <1>2, <2>2, <2>3, HandleInv
<1>3. CASE ~Found(e, M(e).id)
  <2>1. packet_disconnect("nonexistent channel")
    BY <1>3 DEF channel_input_extended_data, Handle
  <2> QED
    BY <2>1, DisconnectInv DEF Reasons
<1>4. CASE Found(e, M(e).id) /\ after
  <2>1. packet_disconnect("extended_data after EOF")
    BY <1>1, <1>4 DEF channel_input_extended_data
  <2> QED
    BY <2>1, DisconnectInv DEF Reasons
<1> QED
  BY <1>2, <1>3, <1>4

\* Recording the exit status keeps a context good.
LEMMA ExitGood ==
    ASSUME NEW k \in Good
    PROVE  [k EXCEPT !.h.exit = TRUE] \in Good
<1> DEFINE g == [k.h EXCEPT !.exit = TRUE]
<1>1. g \in History /\ k.c \in Channel /\ Keeps(k.c, k.c)
  BY SetHistFlag, Fields DEF Keeps, SameCtl
<1>2. [k EXCEPT !.h.exit = TRUE] = With(k, k.c, g)
  BY Fields DEF With, Context
<1> HIDE DEF g
<1> QED
  BY <1>1, <1>2, UpdateKeeps

\* An exit-status request keeps the invariant.
LEMMA ExitStatusInv ==
    ASSUME IInv, channel_req_exit_status
    PROVE  IInv'
<1> DEFINE e == "client"
           k == Ctx(e, M(e).id)
           k1 == [k EXCEPT !.h.exit = TRUE]
<1>0. e \in Endpoint
  BY DEF Endpoint
<1>1. Head1(e, "EXIT") /\ wire[e] # <<>> /\ M(e) \in ChannelMessage
  <2>1. Head1(e, "EXIT")
    BY DEF channel_req_exit_status, Handle, Unknown
  <2> QED
    BY <1>0, <2>1, IInvParts, HeadType DEF MsgTypes
<1>2. CASE Found(e, M(e).id)
  <2>1. k \in Good
    BY <1>0, <1>2, FoundGood
  <2>2. /\ Commit(e, M(e).id, k1, FALSE) /\ TakeEmit(e, k1.out)
        /\ UNCHANGED <<opened, sentAlive, down>>
    BY <1>2 DEF channel_req_exit_status, Handle
  <2> HIDE DEF k
  <2>3. k1 \in Good
    BY <1>1, <2>1, ExitGood
  <2> HIDE DEF k1
  <2> QED
    BY <1>0, <1>1, <1>2, <2>2, <2>3, HandleInv
<1>3. CASE ~Found(e, M(e).id)
  <2>1. Unknown(e, "EXIT")
    BY <1>1, <1>3 DEF channel_req_exit_status
  <2> QED
    BY <1>0, <2>1, UnknownInv
<1> QED
  BY <1>2, <1>3

\* A keepalive request on a channel keeps the invariant.
LEMMA KeepaliveInv ==
    ASSUME IInv, channel_req_keepalive
    PROVE  IInv'
<1> DEFINE e == "client"
           k == Ctx(e, M(e).id)
           k1 == Reply(k, FALSE)
<1>0. e \in Endpoint
  BY DEF Endpoint
<1>1. Head1(e, "KEEPALIVE") /\ wire[e] # <<>> /\ M(e) \in ChannelMessage
  <2>1. Head1(e, "KEEPALIVE")
    BY DEF channel_req_keepalive, Handle, Unknown
  <2> QED
    BY <1>0, <2>1, IInvParts, HeadType DEF MsgTypes
<1>2. CASE Found(e, M(e).id)
  <2>1. k \in Good
    BY <1>0, <1>2, FoundGood
  <2>2. /\ Commit(e, M(e).id, k1, FALSE) /\ TakeEmit(e, k1.out)
        /\ UNCHANGED <<opened, sentAlive, down>>
    BY <1>2 DEF channel_req_keepalive, Handle
  <2> HIDE DEF k
  <2>3. k1 \in Good
    BY <1>1, <2>1, ReplyGood
  <2> HIDE DEF k1
  <2> QED
    BY <1>0, <1>1, <1>2, <2>2, <2>3, HandleInv
<1>3. CASE ~Found(e, M(e).id)
  <2>1. Unknown(e, "KEEPALIVE")
    BY <1>1, <1>3 DEF channel_req_keepalive
  <2> QED
    BY <1>0, <2>1, UnknownInv
<1> QED
  BY <1>2, <1>3

\* A shell request keeps the invariant.
LEMMA ShellInv ==
    ASSUME IInv, server_input_channel_req_shell
    PROVE  IInv'
<1> DEFINE e == "server"
           k == Ctx(e, M(e).id)
           k1 == ShellStarted(k, M(e))
           k2 == Reply(k, FALSE)
<1>0. e \in Endpoint
  BY DEF Endpoint
<1>1. Head1(e, "SHELL") /\ wire[e] # <<>> /\ M(e) \in ChannelMessage
  <2>1. Head1(e, "SHELL")
    BY DEF server_input_channel_req_shell, Handle
  <2> QED
    BY <1>0, <2>1, IInvParts, HeadType DEF MsgTypes
<1>2. CASE Found(e, M(e).id)
  <2>1. k \in Good /\ k.c = channels[e][M(e).id]
    BY <1>0, <1>2, FoundGood
  <2>2. \/ /\ channels[e][M(e).id].type = "LARVAL"
           /\ Commit(e, M(e).id, k1, FALSE) /\ TakeEmit(e, k1.out)
           /\ UNCHANGED <<opened, sentAlive, down>>
        \/ /\ Commit(e, M(e).id, k2, FALSE) /\ TakeEmit(e, k2.out)
           /\ UNCHANGED <<opened, sentAlive, down>>
    BY <1>2 DEF server_input_channel_req_shell, Handle
  <2> HIDE DEF k
  <2>3. channels[e][M(e).id].type = "LARVAL" => k1 \in Good
    BY <1>1, <2>1, ShellStartedGood
  <2>4. k2 \in Good
    BY <2>1, ReplyGood
  <2> HIDE DEF k1, k2
  <2> QED
    BY <1>0, <1>1, <1>2, <2>2, <2>3, <2>4, HandleInv
<1>3. CASE ~Found(e, M(e).id)
  <2>1. packet_disconnect("nonexistent channel")
    BY <1>3 DEF server_input_channel_req_shell, Handle
  <2> QED
    BY <2>1, DisconnectInv DEF Reasons
<1> QED
  BY <1>2, <1>3

\* channel_input_status_confirm() keeps the invariant.
LEMMA StatusInv ==
    ASSUME IInv, NEW t \in {"SUCCESS", "FAILURE"}, channel_input_status_confirm(t)
    PROVE  IInv'
<1> DEFINE e == "client"
           k == Ctx(e, M(e).id)
           k1 == StatusConfirm(k, M(e))
<1>0. e \in Endpoint
  BY DEF Endpoint
<1>1. Head1(e, t) /\ wire[e] # <<>> /\ M(e) \in ChannelMessage
  <2>1. Head1(e, t)
    BY DEF channel_input_status_confirm
  <2> QED
    BY <1>0, <2>1, IInvParts, HeadType DEF MsgTypes
<1>2. CASE ~Found(e, M(e).id)
  <2>1. /\ TakeEmit(e, <<>>)
        /\ UNCHANGED <<channels, opened, sentAlive, down, hist>>
    BY <1>2 DEF channel_input_status_confirm
  <2> QED
    BY <1>0, <1>1, <2>1, TakeInv
<1>3. CASE Found(e, M(e).id) /\ t = "FAILURE" /\ ~channels[e][M(e).id].mux
  <2>1. packet_disconnect("exit")
    BY <1>3 DEF channel_input_status_confirm
  <2> QED
    BY <2>1, DisconnectInv DEF Reasons
<1>4. CASE Found(e, M(e).id) /\ ~(t = "FAILURE" /\ ~channels[e][M(e).id].mux)
  <2>1. k \in Good
    BY <1>0, <1>4, FoundGood
  <2>2. /\ Commit(e, M(e).id, k1, FALSE) /\ TakeEmit(e, k1.out)
        /\ UNCHANGED <<opened, sentAlive, down>>
    BY <1>4 DEF channel_input_status_confirm, Handle
  <2> HIDE DEF k
  <2>3. k1 \in Good
    BY <1>1, <2>1, StatusConfirmGood
  <2> HIDE DEF k1
  <2> QED
    BY <1>0, <1>1, <1>4, <2>2, <2>3, HandleInv
<1> QED
  BY <1>2, <1>3, <1>4

\* server_input_keep_alive() keeps the invariant.
LEMMA KeepAliveReplyInv ==
    ASSUME IInv, server_input_keep_alive
    PROVE  IInv'
<1>1. /\ wire["server"] # <<>> /\ TakeEmit("server", <<>>)
      /\ UNCHANGED <<channels, opened, sentAlive, down, hist>>
  BY DEF server_input_keep_alive, Head1
<1>2. "server" \in Endpoint
  BY DEF Endpoint
<1> QED
  BY <1>1, <1>2, TakeInv

----------------------------------------------------------------------------
(* The actions that are not message handlers of an existing channel.       *)

\* A step of the main loop on slot i that ends with context k.
LEMMA StepInv ==
    ASSUME IInv, NEW e \in Endpoint, NEW i \in Slots,
           NEW k \in Context, NEW free, ~free => k \in Good,
           Commit(e, i, k, free), Emit(e, k.out),
           UNCHANGED <<opened, sentAlive, down>>
    PROVE  IInv'
<1>1. ChansInv' /\ HistInv'
  BY IInvParts, CommitInv
<1>2. k.out \in Seq(Message)
  BY DEF Context
<1>3. WireInv'
  BY <1>2, IInvParts, EmitInv
<1>4. RestInv'
  BY IInvParts DEF RestInv
<1> QED
  BY <1>1, <1>3, <1>4, Parts

\* A round of the main loop on one channel keeps the invariant.
LEMMA HandlerInv ==
    ASSUME IInv, NEW e \in Endpoint, NEW i \in Slots, channel_handler(e, i)
    PROVE  IInv'
<1> DEFINE pre == channel_garbage_collect(channel_pre(Ctx(e, i)))
<1>1. Ctx(e, i) \in Good
  BY IInvParts, CtxGood DEF channel_handler, Live
<1>2. pre.k \in Context /\ (~pre.free => pre.k \in Good)
  BY <1>1, Pre, GarbageCollect
<1>3. UNCHANGED <<opened, sentAlive, down>>
  BY DEF channel_handler
<1>4. CASE pre.free \/ channels[e][i].type # "OPEN"
  <2>1. Commit(e, i, pre.k, pre.free) /\ Emit(e, pre.k.out)
    BY <1>4 DEF channel_handler
  <2> HIDE DEF pre
  <2> QED
    BY <1>2, <1>3, <2>1, StepInv
<1>5. CASE ~(pre.free \/ channels[e][i].type # "OPEN")
  <2>1. PICK r \in -1 .. MaxRead[e], w \in -1 .. WindowMax, x \in -1 .. WindowMax :
           /\ MayWrite(pre.k.c, w) /\ MayErr(pre.k.c, pre.k.h, x)
           /\ \E k \in {channel_post_open(pre.k, r, w, x)} :
              \E post \in {channel_garbage_collect(k)} :
                 Commit(e, i, post.k, post.free) /\ Emit(e, post.k.out)
    BY <1>5 DEF channel_handler
  <2> DEFINE k == channel_post_open(pre.k, r, w, x)
             post == channel_garbage_collect(k)
  <2>2. Commit(e, i, post.k, post.free) /\ Emit(e, post.k.out)
    BY <2>1
  <2>3. r \in Int /\ w \in Int /\ x \in Int
    BY BoundsAssumption
  <2>4. pre.k \in Good
    BY <1>2, <1>5
  <2> HIDE DEF pre
  <2>5. /\ pre.k.c.output \in Nat /\ pre.k.c.extended \in Nat
    BY <2>4, Fields
  <2>6. w <= pre.k.c.output
    BY <2>1, <2>3, <2>5 DEF MayWrite
  <2>7. pre.k.c.extended_usage = "WRITE" => x <= pre.k.c.extended
    BY <2>1, <2>3, <2>5 DEF MayErr
  <2>8. k \in Good
    BY <2>3, <2>4, <2>6, <2>7, PostOpen
  <2> HIDE DEF k
  <2>9. post.k \in Context /\ (~post.free => post.k \in Good)
    BY <2>8, GarbageCollect
  <2> HIDE DEF post
  <2> QED
    BY <1>3, <2>2, <2>9, StepInv
<1> QED
  BY <1>4, <1>5

\* channel_output_poll() keeps the invariant.
LEMMA OutputPollInv ==
    ASSUME IInv, NEW e \in Endpoint, NEW i \in Slots, channel_output_poll(e, i)
    PROVE  IInv'
<1> DEFINE k == OutputExtended(OutputData(Ctx(e, i)))
<1>1. /\ Commit(e, i, k, FALSE) /\ Emit(e, k.out)
      /\ UNCHANGED <<opened, sentAlive, down>>
  BY DEF channel_output_poll
<1>2. Ctx(e, i) \in Good
  BY IInvParts, CtxGood DEF channel_output_poll
<1>3. k \in Good
  BY <1>2, OutputDataGood, OutputExtendedGood
<1> HIDE DEF k
<1>4. k \in Context
  BY <1>3 DEF Good
<1> QED
  BY <1>1, <1>3, <1>4, StepInv

\* channel_post_connecting() keeps the invariant.
LEMMA ConnectingInv ==
    ASSUME IInv, NEW e \in Endpoint, NEW i \in Slots,
           channel_post_connecting(e, i)
    PROVE  IInv'
<1> DEFINE k == Ctx(e, i)
           d == [k.c EXCEPT !.type = "OPEN"]
           k1 == WithC(k, d)
           k2 == Send(k1, "CONFIRM", k1.c.local_window)
           g == channel_garbage_collect(chan_mark_dead(Send(k, "OPENFAIL", 0)))
<1>1. k \in Good /\ k.c = channels[e][i]
  BY IInvParts, CtxGood DEF channel_post_connecting
<1>2. k.c.type = "CONNECTING" /\ UNCHANGED <<opened, sentAlive, down>>
  BY <1>1 DEF channel_post_connecting
<1>3. \/ /\ Commit(e, i, [k EXCEPT !.c.type = "OPEN"], FALSE)
         /\ Emit(e, <<Msg("CONFIRM", [k EXCEPT !.c.type = "OPEN"].c,
                                 [k EXCEPT !.c.type = "OPEN"].c.local_window)>>)
      \/ Commit(e, i, g.k, g.free) /\ Emit(e, g.k.out)
  BY DEF channel_post_connecting
<1> HIDE DEF k
<1>4. CASE Commit(e, i, g.k, g.free) /\ Emit(e, g.k.out)
  <2>1. Send(k, "OPENFAIL", 0) \in Good
    BY <1>1, SendGood DEF MsgTypes
  <2>2. g.k \in Context /\ (~g.free => g.k \in Good)
    BY <2>1, MarkDead, GarbageCollect
  <2> HIDE DEF g
  <2> QED
    BY <1>2, <1>4, <2>2, StepInv
<1>5. CASE /\ Commit(e, i, [k EXCEPT !.c.type = "OPEN"], FALSE)
           /\ Emit(e, <<Msg("CONFIRM", [k EXCEPT !.c.type = "OPEN"].c,
                                 [k EXCEPT !.c.type = "OPEN"].c.local_window)>>)
  <2>1. /\ k \in Context /\ k.c \in Channel /\ HalfInv(k.c) /\ UserInv(k.c)
        /\ k.h \in History
    BY <1>1 DEF Good, ChanInv, Context
  <2>2. [k EXCEPT !.c.type = "OPEN"] = k1
    BY <2>1 DEF WithC, Context
  <2>3. /\ d \in Channel /\ d.istate = k.c.istate /\ d.ostate = k.c.ostate
        /\ d.flags = k.c.flags /\ d.pid = k.c.pid /\ d.type = "OPEN"
        /\ d.detach_user = k.c.detach_user /\ d.detach_close = k.c.detach_close
        /\ d.local_window = k.c.local_window
    BY <2>1 DEF Channel, ChanTypes
  <2> HIDE DEF d
  <2>4. HalfInv(d) /\ UserInv(d)
    BY <2>1, <2>3 DEF HalfInv, UserInv, Has, BothClosed
  <2>5. k1 \in Context /\ k1.c = d
    BY <2>1, <2>3 DEF Context, WithC
  <2>6. k1 \in Good
    BY <2>4, <2>5 DEF Good, ChanInv
  <2>7. k1.c.local_window \in Nat
    BY <1>2, <2>1, <2>3, <2>5 DEF UserInv
  <2> HIDE DEF k1
  <2>8. <<Msg("CONFIRM", k1.c, k1.c.local_window)>> \in Seq(Message)
    <3>1. Msg("CONFIRM", k1.c, k1.c.local_window) \in Message
      BY <2>5, <2>7 DEF Context, Channel, Message, ChannelMessage, Msg, MsgTypes
    <3> QED
      BY <3>1
  <2>9. ChansInv' /\ HistInv'
    BY <1>5, <2>2, <2>5, <2>6, IInvParts, CommitInv
  <2>10. WireInv'
    BY <1>5, <2>2, <2>8, IInvParts, EmitInv
  <2>11. RestInv'
    BY <1>2, IInvParts DEF RestInv
  <2> QED
    BY <2>9, <2>10, <2>11, Parts
<1> QED
  BY <1>3, <1>4, <1>5

\* session_exit_message() keeps the invariant.
LEMMA ExitInv ==
    ASSUME IInv, NEW i \in Slots, session_exit_message(i)
    PROVE  IInv'
<1> DEFINE e == "server"
           k == Ctx(e, i)
           k1 == Send(k, "EXIT", 0)
           d == [k1.c EXCEPT !.pid = "exited", !.detach_user = TRUE,
                             !.detach_close = TRUE]
           k2 == WithC(k1, d)
           k3 == IF k2.c.ostate # "CLOSED" THEN chan_write_failed2(k2) ELSE k2
<1>1. e \in Endpoint
  BY DEF Endpoint
<1>2. channels[e][i].pid = "running"
  BY DEF session_exit_message
<1>3. channels[e][i].type # "FREE"
  <2>1. channels[e][i] \in Channel \cup {FreeSlot}
    BY <1>1, IInvParts DEF ChansInv
  <2>2. FreeSlot.pid = "none"
    BY DEF FreeSlot
  <2>3. channels[e][i] \in Channel
    BY <1>2, <2>1, <2>2
  <2> QED
    BY <2>3 DEF Channel, ChanTypes
<1>4. k \in Good /\ k.c.pid = "running"
  BY <1>1, <1>2, <1>3, IInvParts, CtxGood
<1>5. /\ Commit(e, i, k3, FALSE) /\ Emit(e, k3.out)
      /\ UNCHANGED <<opened, sentAlive, down>>
  <2>1. k1 \in Context /\ [k1 EXCEPT !.c.pid = "exited", !.c.detach_user = TRUE,
                                     !.c.detach_close = TRUE] = k2
    <3>1. k1 \in Context
      BY <1>4, SendGood DEF MsgTypes, Good
    <3> HIDE DEF k1
    <3> QED
      BY <3>1 DEF Context, WithC
  <2> HIDE DEF k2, d
  <2> QED
    BY <2>1 DEF session_exit_message
<1> HIDE DEF k
<1>6. k1 \in Good /\ k1.c.pid = "running"
  BY <1>4, SendGood DEF MsgTypes
<1> HIDE DEF k1
<1>7. /\ k1 \in Context /\ k1.c \in Channel /\ HalfInv(k1.c) /\ UserInv(k1.c)
  BY <1>6 DEF Good, ChanInv, Context
<1>8. /\ d \in Channel /\ d.istate = k1.c.istate /\ d.ostate = k1.c.ostate
      /\ d.flags = k1.c.flags /\ d.pid = "exited" /\ d.type = k1.c.type
      /\ d.local_window = k1.c.local_window
  BY <1>7 DEF Channel
<1> HIDE DEF d
<1>9. HalfInv(d) /\ UserInv(d)
  BY <1>6, <1>7, <1>8 DEF HalfInv, UserInv, Has, BothClosed
<1>10. k2 \in Context /\ k2.c = d
  BY <1>7, <1>8 DEF Context, WithC
<1>11. k2 \in Good
  BY <1>9, <1>10 DEF Good, ChanInv
<1> HIDE DEF k2
<1>12. k3 \in Good
  BY <1>11, WriteFailed
<1> HIDE DEF k3
<1>13. k3 \in Context
  BY <1>12 DEF Good
<1> QED
  BY <1>1, <1>5, <1>12, <1>13, StepInv

\* client_alive_check() keeps the invariant.
LEMMA AliveInv ==
    ASSUME IInv, client_alive_check
    PROVE  IInv'
<1>1. /\ opened' = opened /\ sentAlive' = sentAlive + 1
      /\ timeouts' = timeouts + 1
  BY DEF client_alive_check
<1>2. "server" \in Endpoint /\ "client" \in Endpoint
  BY DEF Endpoint
<1>3. CASE ClientGone
  <2>1. UNCHANGED <<channels, wire, hist>> /\ down' \in Reasons
    BY <1>3 DEF ClientGone, Reasons
  <2> QED
    BY <1>1, <2>1 DEF IInv, TypeOK
<1>4. CASE AliveRequest
  <2>1. ChansInv' /\ HistInv' /\ RestInv'
    BY <1>1, <1>4, IInvParts DEF ChansInv, HistInv, RestInv, AliveRequest
  <2>2. ASSUME NEW m \in Message,
               wire' = [wire EXCEPT !["client"] = Append(@, m)]
        PROVE  WireInv'
    <3>1. Append(wire["client"], m) \in Seq(Message)
      BY <1>2, IInvParts DEF WireInv
    <3> QED
      BY <1>1, <1>2, <2>2, <3>1, IInvParts DEF WireInv
  <2>3. CASE \E i \in Slots :
               /\ IsFirstOpen(i)
               /\ wire' = [wire EXCEPT !["client"] =
                     Append(@, Msg("KEEPALIVE", channels["server"][i], 1))]
    <3>1. PICK i \in Slots :
               /\ channels["server"][i].type \in {"LARVAL", "OPEN"}
               /\ wire' = [wire EXCEPT !["client"] =
                     Append(@, Msg("KEEPALIVE", channels["server"][i], 1))]
      BY <2>3 DEF IsFirstOpen, Suitable
    <3>2. channels["server"][i] \in Channel
      <4>1. channels["server"][i] \in Channel \cup {FreeSlot}
        BY <1>2, IInvParts DEF ChansInv
      <4>2. FreeSlot.type = "FREE"
        BY DEF FreeSlot
      <4> QED
        BY <3>1, <4>1, <4>2
    <3>3. Msg("KEEPALIVE", channels["server"][i], 1) \in Message
      BY <3>2 DEF Channel, Message, ChannelMessage, Msg, MsgTypes
    <3> QED
      BY <2>1, <2>2, <3>1, <3>3, Parts
  <2>4. CASE wire' = [wire EXCEPT !["client"] = Append(@, [t |-> "GLOBAL"])]
    <3>1. [t |-> "GLOBAL"] \in Message
      BY DEF Message, GlobalMessage
    <3> QED
      BY <2>1, <2>2, <2>4, <3>1, Parts
  <2> QED
    BY <1>4, <2>3, <2>4 DEF AliveRequest
<1> QED
  BY <1>3, <1>4 DEF client_alive_check

\* Answering the global keepalive request keeps the invariant.
LEMMA GlobalRequestInv ==
    ASSUME IInv, client_input_global_request
    PROVE  IInv'
<1>1. /\ wire["client"] # <<>> /\ TakeEmit("client", <<[t |-> "REQFAIL"]>>)
      /\ UNCHANGED <<channels, opened, sentAlive, down, hist>>
  BY DEF client_input_global_request, Head1
<1>2. "client" \in Endpoint
  BY DEF Endpoint
<1>3. [t |-> "REQFAIL"] \in Message
  BY DEF Message, GlobalMessage
<1>4. <<[t |-> "REQFAIL"]>> \in Seq(Message)
  BY <1>3
<1>5. WireInv'
  BY <1>1, <1>2, <1>4, IInvParts, TakeEmitInv
<1>6. ChansInv' /\ HistInv' /\ RestInv'
  BY <1>1, IInvParts DEF ChansInv, HistInv, RestInv
<1> QED
  BY <1>5, <1>6, Parts

\* A record that channel_new() makes, before it is in use.
LEMMA NewChannel ==
    ASSUME NEW ctype \in {"session", "tcpip"}, NEW type \in ChanTypes,
           NEW i \in Slots, NEW window \in Nat,
           NEW usage \in {"IGNORE", "WRITE"}, NEW x \in Insts,
           NEW c, c = channel_new(ctype, type, i, window, usage, x)
    PROVE  /\ c \in Channel /\ HalfInv(c) /\ c.flags = {}
           /\ c.type = type /\ c.pid = "none" /\ c.local_window \in Nat
<1>1. i \in Nat
  BY BoundsAssumption DEF Slots
<1>2. c \in Channel
  BY <1>1 DEF channel_new, Channel, HalfStates
<1>3. /\ c.flags = {} /\ c.type = type /\ c.pid = "none"
      /\ c.local_window \in Nat
  BY DEF channel_new
<1> QED
  BY <1>2, <1>3 DEF HalfInv, Has

\* What its callers set before anything else happens.
LEMMA SetNew ==
    ASSUME NEW c \in Channel, c.flags = {}, c.pid = "none",
           c.local_window \in Nat,
           NEW user \in BOOLEAN, NEW close \in BOOLEAN,
           c.type = "LARVAL" => user /\ ~close
    PROVE  LET d == [c EXCEPT !.detach_user = user, !.detach_close = close,
                              !.mux = close]
           IN  d \in Channel /\ ChanInv(d)
<1> DEFINE d == [c EXCEPT !.detach_user = user, !.detach_close = close,
                          !.mux = close]
<1>1. /\ d \in Channel /\ d.flags = {} /\ d.pid = "none" /\ d.type = c.type
      /\ d.local_window = c.local_window
      /\ d.detach_user = user /\ d.detach_close = close
  BY DEF Channel
<1> HIDE DEF d
<1>2. HalfInv(d)
  BY <1>1 DEF HalfInv, Has
<1>3. UserInv(d)
  BY <1>1 DEF UserInv, Has
<1> QED
  BY <1>1, <1>2, <1>3 DEF ChanInv, d

\* So does recording who opened it.
LEMMA SetNewRemote ==
    ASSUME NEW c \in Channel, c.flags = {}, c.pid = "none",
           c.local_window \in Nat, ~c.detach_close,
           NEW rid \in Int, NEW rwin \in Int, NEW user \in BOOLEAN,
           c.type = "LARVAL" => user
    PROVE  LET d == [c EXCEPT !.remote_id = rid, !.remote_window = rwin,
                              !.detach_user = user]
           IN  d \in Channel /\ ChanInv(d)
<1> DEFINE d == [c EXCEPT !.remote_id = rid, !.remote_window = rwin,
                          !.detach_user = user]
<1>1. /\ d \in Channel /\ d.flags = {} /\ d.pid = "none" /\ d.type = c.type
      /\ d.local_window = c.local_window
      /\ d.detach_user = user /\ d.detach_close = c.detach_close
  BY DEF Channel
<1> HIDE DEF d
<1>2. HalfInv(d)
  BY <1>1 DEF HalfInv, Has
<1>3. UserInv(d)
  BY <1>1 DEF UserInv, Has
<1> QED
  BY <1>1, <1>2, <1>3 DEF ChanInv, d

\* A slot of the table is given to a new channel.
LEMMA NewSlotInv ==
    ASSUME ChansInv, NEW e \in Endpoint, NEW i \in Slots,
           NEW c \in Channel, ChanInv(c),
           channels' = [channels EXCEPT ![e][i] = c]
    PROVE  ChansInv'
  BY DEF ChansInv

\* channel_send_open() keeps the invariant.
LEMMA SendOpenInv ==
    ASSUME IInv, NEW kind \in Kinds, channel_send_open(kind[1], kind[2])
    PROVE  IInv'
<1> DEFINE e == kind[1]
           ses == kind[2] # "tcpip"
           mux == kind[2] = "mux"
           ctype == IF ses THEN "session" ELSE "tcpip"
<1>1. e \in Endpoint /\ ctype \in {"session", "tcpip"}
  BY BoundsAssumption DEF Endpoint
<1>2. opened' = opened + 1 /\ opened < MaxOpen
      /\ UNCHANGED <<sentAlive, down, hist>>
  BY DEF channel_send_open
<1>3. opened + 1 \in Insts /\ RestInv'
  BY <1>2, IInvParts, BoundsAssumption DEF RestInv, Insts
<1> DEFINE usage == IF ses THEN "WRITE" ELSE "IGNORE"
           new(i) == channel_new(ctype, "OPENING", i, WindowMax, usage, opened + 1)
           c(i) == [new(i) EXCEPT !.detach_user = ses, !.detach_close = mux,
                                  !.mux = mux]
<1>4. PICK i \in Slots : /\ channels' = [channels EXCEPT ![e][i] = c(i)]
                         /\ Emit(e, <<Msg("OPEN", c(i), WindowMax)>>)
  BY DEF channel_send_open
<1>5. WindowMax \in Nat
  BY BoundsAssumption
<1>6. /\ new(i) \in Channel /\ new(i).flags = {} /\ new(i).type = "OPENING"
      /\ new(i).pid = "none" /\ new(i).local_window \in Nat
  <2>1. usage \in {"IGNORE", "WRITE"}
    OBVIOUS
  <2>2. "OPENING" \in ChanTypes
    BY DEF ChanTypes
  <2>3. new(i) = channel_new(ctype, "OPENING", i, WindowMax, usage, opened + 1)
    OBVIOUS
  <2> HIDE DEF usage, ctype, new
  <2> QED
    BY <1>1, <1>3, <1>5, <2>1, <2>2, <2>3, NewChannel
<1> HIDE DEF new
<1>7. c(i) \in Channel /\ ChanInv(c(i))
  <2>1. ses \in BOOLEAN /\ mux \in BOOLEAN
    OBVIOUS
  <2> HIDE DEF ses, mux
  <2> QED
    BY <1>6, <2>1, SetNew
<1> HIDE DEF c
<1>8. ChansInv'
  BY <1>1, <1>4, <1>7, IInvParts, NewSlotInv
<1>9. Msg("OPEN", c(i), WindowMax) \in Message
  BY <1>5, <1>7 DEF Channel, Message, ChannelMessage, Msg, MsgTypes
<1>10. <<Msg("OPEN", c(i), WindowMax)>> \in Seq(Message)
  BY <1>9
<1>11. WireInv'
  BY <1>1, <1>4, <1>10, IInvParts, EmitInv
<1>12. HistInv'
  BY <1>2, IInvParts DEF HistInv
<1> QED
  BY <1>3, <1>8, <1>11, <1>12, Parts

\* Answering an open request keeps the invariant.
LEMMA InputOpenInv ==
    ASSUME IInv, NEW e \in Endpoint, input_channel_open(e)
    PROVE  IInv'
<1> DEFINE m == M(e)
           ses == m.ctype = "session"
<1>1. m \in ChannelMessage /\ wire[e] # <<>>
  BY IInvParts, HeadType DEF input_channel_open, MsgTypes
<1>2. /\ m.ctype \in {"session", "tcpip"} /\ m.inst \in Insts
      /\ m.who \in Nat /\ m.n \in Nat /\ m.id \in Int
  BY <1>1 DEF ChannelMessage
<1>3. HistInv' /\ RestInv'
  BY IInvParts DEF HistInv, RestInv, input_channel_open
<1> DEFINE type == IF ses THEN "LARVAL" ELSE "CONNECTING"
           window == IF ses THEN 0 ELSE WindowMax
           new(i) == channel_new(m.ctype, type, i, window, "IGNORE", m.inst)
           c(i) == [new(i) EXCEPT !.remote_id = m.who, !.remote_window = m.n,
                                  !.detach_user = ses]
           refusal == [m EXCEPT !.t = "OPENFAIL", !.id = m.who]
<1>4. CASE \E i \in Slots :
             /\ channels' = [channels EXCEPT ![e][i] = c(i)]
             /\ TakeEmit(e, IF ses THEN <<Msg("CONFIRM", c(i), 0)>> ELSE <<>>)
  <2>1. PICK i \in Slots :
             /\ channels' = [channels EXCEPT ![e][i] = c(i)]
             /\ TakeEmit(e, IF ses THEN <<Msg("CONFIRM", c(i), 0)>> ELSE <<>>)
    BY <1>4
  <2>2. /\ new(i) \in Channel /\ new(i).flags = {} /\ new(i).pid = "none"
        /\ new(i).local_window \in Nat /\ ~new(i).detach_close
        /\ new(i).type = "LARVAL" => ses
    <3>1. type \in ChanTypes /\ window \in Nat /\ (type = "LARVAL" => ses)
      BY BoundsAssumption DEF ChanTypes
    <3>2. ~new(i).detach_close
      BY DEF channel_new
    <3>3. new(i) = channel_new(m.ctype, type, i, window, "IGNORE", m.inst)
      OBVIOUS
    <3> HIDE DEF type, window, new, m, ses
    <3> QED
      BY <1>2, <3>1, <3>2, <3>3, NewChannel
  <2> HIDE DEF new
  <2>3. c(i) \in Channel /\ ChanInv(c(i))
    <3>1. ses \in BOOLEAN /\ m.who \in Int /\ m.n \in Int
      BY <1>2
    <3> HIDE DEF ses, m
    <3> QED
      BY <2>2, <3>1, SetNewRemote
  <2> HIDE DEF c
  <2>4. ChansInv'
    BY <2>1, <2>3, IInvParts, NewSlotInv
  <2>5. Msg("CONFIRM", c(i), 0) \in Message
    BY <2>3 DEF Channel, Message, ChannelMessage, Msg, MsgTypes
  <2>6. (IF ses THEN <<Msg("CONFIRM", c(i), 0)>> ELSE <<>>) \in Seq(Message)
    BY <2>5
  <2>7. WireInv'
    BY <1>1, <2>1, <2>6, IInvParts, TakeEmitInv
  <2> QED
    BY <1>3, <2>4, <2>7, Parts
<1>5. CASE UNCHANGED channels /\ TakeEmit(e, <<refusal>>)
  <2>1. ChansInv'
    BY <1>5, IInvParts DEF ChansInv
  <2>2. refusal \in Message
    <3>1. \A a \in ChannelMessage, n \in Int :
             [a EXCEPT !.t = "OPENFAIL", !.id = n] \in Message
      BY DEF Message, ChannelMessage, MsgTypes
    <3>2. m.who \in Int
      BY <1>2
    <3> HIDE DEF m
    <3> QED
      BY <1>1, <3>1, <3>2
  <2>3. <<refusal>> \in Seq(Message)
    BY <2>2
  <2> HIDE DEF refusal
  <2>4. WireInv'
    BY <1>1, <1>5, <2>3, IInvParts, TakeEmitInv
  <2> QED
    BY <1>3, <2>1, <2>4, Parts
<1> QED
  BY <1>4, <1>5 DEF input_channel_open

----------------------------------------------------------------------------
(* The theorems.                                                           *)

\* The invariant holds initially.
LEMMA InitInv == Init => IInv
<1> SUFFICES ASSUME Init PROVE IInv
  OBVIOUS
<1>1. ChansInv
  BY FreeSlotInv DEF Init, ChansInv
<1>2. WireInv
  BY DEF Init, WireInv
<1>3. NoHist \in History
  BY DEF NoHist, History
<1>4. HistInv
  BY <1>3 DEF Init, HistInv
<1>5. RestInv
  BY BoundsAssumption DEF Init, RestInv, Reasons
<1> QED
  BY <1>1, <1>2, <1>4, <1>5, IInvParts

\* The message handlers both sides have keep the invariant.
LEMMA ReceiveInv ==
    ASSUME IInv, NEW e \in Endpoint, Receive(e)
    PROVE  IInv'
  BY InputOpenInv, ConfirmationInv, FailureInv, DataInv, ExtendedInv, EofInv,
     CloseInv, AdjustInv, EowInv DEF Receive

\* Every step keeps the invariant.
LEMMA NextInv == IInv /\ [Next]_vars => IInv'
<1> SUFFICES ASSUME IInv, [Next]_vars PROVE IInv'
  OBVIOUS
<1>1. "client" \in Endpoint /\ "server" \in Endpoint
  BY DEF Endpoint
<1>2. CASE \E kind \in Kinds : channel_send_open(kind[1], kind[2])
  BY <1>2, SendOpenInv
<1>3. CASE ClientReceive
  BY <1>1, <1>3, ReceiveInv, ExitStatusInv, KeepaliveInv, StatusInv,
     GlobalRequestInv
  DEF ClientReceive
<1>4. CASE ServerReceive
  BY <1>1, <1>4, ReceiveInv, ShellInv, KeepAliveReplyInv DEF ServerReceive
<1>5. CASE \E e \in Endpoint, i \in Slots :
             \/ channel_handler(e, i)
             \/ channel_post_connecting(e, i)
             \/ channel_output_poll(e, i)
  BY <1>5, HandlerInv, ConnectingInv, OutputPollInv
<1>6. CASE \E i \in Slots : session_exit_message(i)
  BY <1>6, ExitInv
<1>7. CASE client_alive_check
  BY <1>7, AliveInv
<1>8. CASE UNCHANGED vars
  BY <1>8 DEF vars, IInv, TypeOK
<1> QED
  BY <1>2, <1>3, <1>4, <1>5, <1>6, <1>7, <1>8 DEF Next

\* The inductive invariant holds in every behaviour.
THEOREM Invariance == Spec => []IInv
<1>1. Init => IInv
  BY InitInv
<1>2. IInv /\ [Next]_vars => IInv'
  BY NextInv
<1> QED
  BY <1>1, <1>2, PTL DEF Spec

\* Buffers never hold a negative number of bytes and every slot in use is a
\* well-formed channel, for every table size, window and number of channels.
THEOREM TypeCorrect == Spec => []TypeOK
<1>1. IInv => TypeOK
  BY DEF IInv
<1> QED
  BY <1>1, Invariance, PTL

\* A channel that has sent CLOSE is closed in both directions and has no
\* running child, and one that has sent EOF reads no more input
\* (chan_send_close2(), chan_send_eof2(), channel_garbage_collect()).
THEOREM SentFlags == Spec => []SentFlagsMatchState
<1>1. IInv => SentFlagsMatchState
  BY DEF IInv, ChanInv, HalfInv, UserInv, SentFlagsMatchState
<1> QED
  BY <1>1, Invariance, PTL
=============================================================================
