----------------------------- MODULE MCServices -----------------------------
(***************************************************************************)
(* Connection sharing and port forwarding checked together: the scenarios  *)
(* share a client and a server and differ in the forwards configured, the  *)
(* requests of the control clients and whether connections are made.       *)
(***************************************************************************)
EXTENDS Mux

CONSTANTS CmdlineForwards, Scenarios

VARIABLE scenario

vars == <<scenario, fwdvars, muxvars>>

F(kind, lhost, lport, to) == [kind |-> kind, lhost |-> lhost, lport |-> lport, to |-> to]
Cmd(c, v) == [c |-> c, v |-> v]

fStatic == F("remote", NoHost, 8080, "a")
fOther  == F("remote", "*", 8081, "b")
fAgain  == F("remote", NoHost, 8080, "b")
fAny    == F("remote", NoHost, 0, "c")
fPath   == F("remote", "/r", Streamlocal, "d")
lWeb    == F("local", NoHost, 80, "web")
lDb     == F("local", "*", 81, "db")
lSocks  == F("dynamic", NoHost, 1080, Socks)

Req(ver, methods, noauth, cmd, addr, names) ==
  [ver |-> ver, methods |-> methods, noauth |-> noauth, cmd |-> cmd, addr |-> addr,
   names |-> names, to |-> "web"]
MCSocks == {Req(4, 0, TRUE, 1, 0, FALSE), Req(4, 0, TRUE, 1, 3, TRUE), Req(4, 0, TRUE, 2, 0, FALSE),
            Req(5, 1, TRUE, 1, 4, FALSE), Req(5, 2, TRUE, 1, 3, TRUE), Req(5, 1, FALSE, 1, 4, FALSE),
            Req(5, 1, TRUE, 2, 4, FALSE), Req(9, 0, TRUE, 1, 0, FALSE)}

MCCmdline == {lDb, fOther}

Sess(tty) == <<Cmd("alive", 0), Cmd("session", tty)>>
Idle == <<>>

Conf ==
  [sessions |-> <<>>, tty |-> <<fPath>>, forwards |-> <<fAny>>, shared |-> <<fStatic>>,
   listen |-> <<lWeb, lSocks>>, remote |-> <<fStatic, fAny>>, cmdline |-> <<fStatic>>,
   again |-> <<fStatic, fAgain>>]
Progs ==
  [sessions |-> [m1 |-> Sess(FALSE), m2 |-> <<Cmd("alive", 0), Cmd("stdio", FALSE)>>],
   tty      |-> [m1 |-> Sess(TRUE), m2 |-> <<Cmd("close_fwd", fPath), Cmd("stop", 0), Cmd("terminate", 0)>>],
   forwards |-> [m1 |-> <<Cmd("open_fwd", fOther)>>,
                 m2 |-> <<Cmd("close_fwd", fAny), Cmd("close_fwd", lDb)>>],
   shared   |-> [m1 |-> <<Cmd("open_fwd", fAny), Cmd("close_fwd", fAny)>>,
                 m2 |-> <<Cmd("open_fwd", fAny)>>],
   listen   |-> [m1 |-> Idle, m2 |-> Idle],
   remote   |-> [m1 |-> Idle, m2 |-> <<Cmd("close_fwd", fAny)>>],
   cmdline  |-> [m1 |-> <<Cmd("open_fwd", F("remote", NoHost, 8082, "e"))>>, m2 |-> Idle],
   again    |-> [m1 |-> Idle, m2 |-> <<Cmd("close_fwd", fStatic)>>]]

(* Connections are made in these: two at once where there are two forwards  *)
(* of one listening end                                                     *)
Connecting == scenario \in {"listen", "remote", "again"} /\ Len(conns) < IF scenario = "again" THEN 2 ELSE 1

Init ==
  /\ scenario \in Scenarios
  /\ FwdInit(Conf[scenario])
  /\ MuxInit(Progs[scenario])

(* The clients that take part *)
Active == {c \in MuxClients : Progs[scenario][c] # Idle}

Cmdline(f) ==
  \/ scenario = "forwards" /\ (CmdlineLocal(f) \/ CmdlineCancelLocal(f) \/ CmdlineCancelRemote(f))
  \/ scenario = "cmdline" /\ Len(permitted) < 2 /\ CmdlineRemote(f)

Killed(c) == scenario \in {"sessions", "tty", "forwards", "shared", "cmdline"} /\ c = "m1" /\ ClientKilled(c)

Finished ==
  /\ \A c \in Active : ClientGone(c)
  /\ ~MasterUp \/ (up = <<>> /\ down = <<>>)
  /\ UNCHANGED <<fwdvars, muxvars>>

Accepts == Connecting /\ (RemoteAccept \/ LocalAccept)
Keepalives == scenario = "shared" /\ server_alive_check

Answers ==
  \/ ServerForwardRequest \/ ServerCancelRequest \/ ServerKeepalive \/ server_request_direct
  \/ UnexpectedReply \/ PlaceholderReply \/ ssh_confirm_remote_forward \/ client_request_forwarded

Next ==
  /\ UNCHANGED scenario
  /\ \/ /\ Answers \/ ForwardConns \/ Accepts \/ Keepalives
           \/ \E f \in CmdlineForwards : Cmdline(f)
        /\ UNCHANGED muxvars
     \/ \E c \in Active : MuxClientStep(c) \/ MuxMasterStep(c) \/ Killed(c)
     \/ MuxServerStep \/ MuxInput
     \/ \E s \in DOMAIN sessions : ServerExit(s) \/ mux_master_session_cleanup_cb(s)
     \/ Finished

(***************************************************************************)
(* Fairness: both event loops run, packets are processed, a connection     *)
(* attempt ends and a program that connected sends its SOCKS request;      *)
(* nobody has to connect, a program on the server need not end, and a      *)
(* client need not be killed.                                              *)
(***************************************************************************)
LoopStep == UNCHANGED scenario /\ UNCHANGED muxvars /\ (Answers \/ ForwardConns)
MasterStep(c) == UNCHANGED scenario /\ MuxMasterStep(c)
SessionStep ==
  /\ UNCHANGED scenario
  /\ MuxServerStep \/ MuxInput \/ \E s \in DOMAIN sessions : mux_master_session_cleanup_cb(s)

Fairness ==
  /\ WF_vars(LoopStep) /\ WF_vars(SessionStep)
  /\ \A c \in MuxClients : WF_vars(MasterStep(c))

Spec == Init /\ [][Next]_vars /\ Fairness

(***************************************************************************)
(* Properties                                                              *)
(***************************************************************************)
WantsReply(m) == m.t \in {"tcpip-forward", "streamlocal-forward", "keepalive"}
Outstanding ==
  [i \in DOMAIN SelectSeq(down, IsReply) |->
     [req |-> SelectSeq(down, IsReply)[i].req, for |-> SelectSeq(down, IsReply)[i].for]]
  \o [i \in DOMAIN SelectSeq(up, WantsReply) |->
     [req |-> SelectSeq(up, WantsReply)[i].t, for |-> SelectSeq(up, WantsReply)[i].for]]

Handle(k) == CASE k.cb \in {"ssh", "ssh_freed"} -> rforwards[k.ctx].handle
               [] k.cb = "mux" -> rforwards[k.ctx.fid].handle [] OTHER -> 0
ExpectedReplies ==
  FlattenSeq([i \in DOMAIN confirms |-> [j \in 1..confirms[i].ref |-> Handle(confirms[i])]])

(* The server answers global requests in order and its answers carry no    *)
(* number, so global_confirms must hold one entry per request that wants a *)
(* reply, in the order of the requests: every confirm gets the answer to   *)
(* the request it was registered for (clientloop.c:605, "Insert an empty  *)
(* placeholder to maintain ordering").  The exception: from the moment the *)
(* user asks for a remote forward on the escape command line, for which    *)
(* process_cmdline() registers no confirm, every later answer is taken for *)
(* the answer to another request.                                          *)
OrderMaintained ==
  MasterUp /\ (\A p \in ToSet(permitted) : ~p.cmdline)
    => \A i \in DOMAIN ExpectedReplies :
         i \in DOMAIN Outstanding /\ ExpectedReplies[i] = Outstanding[i].for

(* A connection made to a listener of the server goes where the forward    *)
(* that the listener was opened for says, or nowhere: whatever was         *)
(* cancelled, refused or allocated while the connection was on its way.    *)
(* Two exceptions, both with two forwards of one listening end.  The entry *)
(* of a forward with a fixed port that the server refused, or opened for   *)
(* some address families only, stays in permitted_opens and is found first *)
(* (ssh.c:1540, mux.c:626 clear it for port 0 only): the connection goes to *)
(* the refused target.  And a connection made to a forward before the      *)
(* server saw that it is cancelled goes to the target of the forward that  *)
(* replaced it.                                                            *)
ForwardedRight ==
  \A i \in DOMAIN conns :
    conns[i].via = "remote" /\ conns[i].st \in {"connecting", "open"}
      => \/ conns[i].to = permitted[conns[i].for].to
         \/ permitted[conns[i].entry].short /\ conns[i].entry < conns[i].for
         \/ permitted[conns[i].for].cancelled /\ conns[i].entry > conns[i].for

(* A control client never gets an answer to another request than the one   *)
(* it waits for or a message about another session, and no combination of  *)
(* clients that come, go and ask for sessions and forwards makes the       *)
(* master give up the connection they share.  The exception, "fatal_pty":  *)
(* the server refuses the pty of a session whose client has gone.          *)
(* mux_master_control_cleanup_cb() has set ctl_chan to -1 (mux.c:229), and *)
(* mux_tty_alloc_failed() finds no control channel and calls fatal(), which *)
(* ends the sessions of all clients.                                       *)
MuxInStep == master # "fatal" /\ \A c \in MuxClients : ctl[c].cst # "confused"

(* A client whose session ran to its end exits with the status of its own  *)
(* session: it was neither lost when the channels were collected nor       *)
(* delivered to a client of another session.                               *)
ExitDelivered ==
  \A c \in MuxClients :
    ctl[c].cst = "done" /\ ctl[c].sid # 0 /\ MasterUp /\ sessions[ctl[c].sid].kind = "session"
      => ctl[c].exit = sessions[ctl[c].sid].status /\ ctl[c].exit # 255

(* A session whose control client is gone is hung up on the server too and *)
(* released once its program has ended (sshd closes the channel of a       *)
(* session only then, and a program without a terminal may go on), and a   *)
(* connection accepted for a forward is in the end open or refused at both *)
(* ends, as long as the shared connection lives.                           *)
SessionReleased(s) ==
  \/ ~MasterUp
  \/ s \in DOMAIN sessions => \/ ~ClientGone(sessions[s].by)
                              \/ sessions[s].st = "gone" \/ sessions[s].srv = "hungup"
ConnDecided(i) ==
  (i \in DOMAIN conns => conns[i].st \in {"open", "failed", "refused"}) \/ ~MasterUp
SharingProgress ==
  /\ \A s \in 1..2 : ~SessionReleased(s) ~> SessionReleased(s)
  /\ \A i \in 1..MaxConns : ~ConnDecided(i) ~> ConnDecided(i)

(* Global requests and forwards (OrderMaintained, ForwardedRight), and what *)
(* the clients of a shared connection are told (MuxInStep, ExitDelivered).  *)
ForwardsRight == OrderMaintained /\ ForwardedRight
MuxSound == MuxInStep /\ ExitDelivered
=============================================================================
