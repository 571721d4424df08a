-------------------------------- MODULE Mux --------------------------------
(***************************************************************************)
(* Connection sharing (mux.c): the master serves control clients over a    *)
(* local socket while it runs its own connection.  A client exchanges      *)
(* hellos and then sends one request after another, each answered with the *)
(* request's number; opening a session and asking for a remote forward are *)
(* answered only when the server has answered, and until then the master   *)
(* reads nothing more from that client (mux_pause).  Clients may be killed *)
(* at any moment.  The proxy mode (channel_proxy_downstream/_upstream) is  *)
(* not modelled.                                                           *)
(***************************************************************************)
EXTENDS Forwarding

CONSTANTS
  MuxClients,   \* the control clients
  AskMaster,    \* ControlMaster=ask: the user may refuse
  TtyMayFail    \* the server may refuse a pty

VARIABLES
  ctl,        \* [client -> both ends of its control connection]
  sessions,   \* the session channels the master opened
  listening   \* the control socket is there

muxvars == <<ctl, sessions, listening>>

NoClient == "<no client>"

(***************************************************************************)
(* The ends of a control connection.  cst, todo, rid, sid and exit belong  *)
(* to the client, chan, pause, hello and sess to the master.  programs[c]  *)
(* is the sequence of requests that client c makes.                        *)
(***************************************************************************)
MuxInit(programs) ==
  /\ ctl = [c \in MuxClients |->
       [cst |-> "new", todo |-> programs[c], rid |-> 0, sid |-> 0, exit |-> 255, failed |-> FALSE,
        toM |-> <<>>, toC |-> <<>>, chan |-> "none", pause |-> FALSE, hello |-> FALSE, sess |-> 0]]
  /\ sessions = <<>>
  /\ listening = TRUE

MasterUp == master = "up"
Reply(c, m) == [ctl EXCEPT ![c].toM = Tail(@), ![c].toC = Append(@, m)]
Msg(t, rid) == [t |-> t, rid |-> rid, v |-> 0]

(***************************************************************************)
(* The client                                                              *)
(***************************************************************************)
(* muxclient(): connect, then the hello exchange                           *)
muxclient(c) ==
  /\ ctl[c].cst = "new"
  /\ IF listening /\ MasterUp
     THEN ctl' = [ctl EXCEPT ![c].cst = "hello", ![c].chan = "open",
                             ![c].toC = <<Msg("hello", 0)>>, ![c].toM = <<Msg("hello", 0)>>]
     ELSE ctl' = [ctl EXCEPT ![c].cst = "done"]
  /\ UNCHANGED <<sessions, listening, fwdvars>>

mux_client_hello_exchange(c) ==
  /\ ctl[c].cst = "hello" /\ ctl[c].toC # <<>>
  /\ ctl' = [ctl EXCEPT ![c].cst = IF Head(ctl[c].toC).t = "hello" THEN "ready" ELSE "confused",
                        ![c].toC = Tail(@)]
  /\ UNCHANGED <<sessions, listening, fwdvars>>

(* The next request is written and its reply awaited                       *)
mux_client_request(c) ==
  /\ ctl[c].cst = "ready" /\ ctl[c].todo # <<>>
  /\ ctl' = [ctl EXCEPT ![c].cst = "wait",
                        ![c].toM = Append(@, [t |-> Head(ctl[c].todo).c, rid |-> ctl[c].rid,
                                              v |-> Head(ctl[c].todo).v])]
  /\ UNCHANGED <<sessions, listening, fwdvars>>

Expected(cmd) ==
  CASE cmd = "alive" -> {"alive"}
    [] cmd = "open_fwd" -> {"ok", "remote_port"}
    [] cmd \in {"close_fwd", "terminate", "stop"} -> {"ok"}
    [] OTHER -> {"session_opened"}
Refusals == {"failure", "denied"}

(* The reply to the request under way: another request's number or a type  *)
(* the request cannot have is an error; a refused forward is remembered, a *)
(* refused session ends the client                                         *)
RequestReplied(c, cmds) ==
  /\ ctl[c].cst = "wait" /\ ctl[c].toC # <<>> /\ Head(ctl[c].todo).c \in cmds
  /\ LET m == Head(ctl[c].toC)
         cmd == Head(ctl[c].todo).c
         outOfStep == m.rid # ctl[c].rid \/ m.t \notin Expected(cmd) \cup Refusals
         opened == cmd \in {"session", "stdio"} /\ m.t = "session_opened"
     IN ctl' = [ctl EXCEPT
          ![c].cst = IF outOfStep THEN "confused"
                     ELSE IF opened THEN "session"
                     ELSE IF m.t \in Refusals /\ cmd \notin {"open_fwd", "close_fwd"} THEN "done"
                     ELSE "ready",
          ![c].failed = @ \/ m.t \in Refusals,
          ![c].sid = IF opened THEN m.v ELSE @,
          ![c].rid = @ + 1, ![c].todo = Tail(@), ![c].toC = Tail(@)]
  /\ UNCHANGED <<sessions, listening, fwdvars>>

mux_client_request_alive(c) == RequestReplied(c, {"alive"})
mux_client_request_terminate(c) == RequestReplied(c, {"terminate"})
mux_client_forward(c) == RequestReplied(c, {"open_fwd", "close_fwd"})
mux_client_request_session(c) == RequestReplied(c, {"session"})
mux_client_request_stdio_fwd(c) == RequestReplied(c, {"stdio"})
mux_client_request_stop_listening(c) == RequestReplied(c, {"stop"})

(* No request left, or a forward failed: the client goes                   *)
mux_client_done(c) ==
  /\ ctl[c].cst = "ready"
  /\ ctl[c].todo # <<>> => ctl[c].failed /\ Head(ctl[c].todo).c \in {"alive", "session", "stdio"}
  /\ ctl' = [ctl EXCEPT ![c].cst = "done"]
  /\ UNCHANGED <<sessions, listening, fwdvars>>

(* The loop of mux_client_request_session(): messages until the master     *)
(* closes the connection                                                   *)
mux_client_session(c) ==
  /\ ctl[c].cst = "session" /\ ctl[c].toC # <<>>
  /\ LET m == Head(ctl[c].toC) IN
     ctl' = [ctl EXCEPT
       ![c].cst = IF \/ m.t \notin {"tty_alloc_fail", "exit_message"}
                     \/ m.rid # ctl[c].sid
                     \/ m.t = "exit_message" /\ ctl[c].exit # 255
                  THEN "confused" ELSE "session",
       ![c].exit = IF m.t = "exit_message" THEN m.v ELSE @,
       ![c].toC = Tail(@)]
  /\ UNCHANGED <<sessions, listening, fwdvars>>

MasterClosed(c) == ctl[c].chan = "gone" \/ ~MasterUp

mux_client_eof(c) ==
  /\ ctl[c].cst \in {"hello", "wait", "session"} /\ ctl[c].toC = <<>> /\ MasterClosed(c)
  /\ ctl' = [ctl EXCEPT ![c].cst = "done"]
  /\ UNCHANGED <<sessions, listening, fwdvars>>

ClientKilled(c) ==
  /\ ctl[c].cst \notin {"new", "done", "confused", "killed"}
  /\ ctl' = [ctl EXCEPT ![c].cst = "killed"]
  /\ UNCHANGED <<sessions, listening, fwdvars>>

ClientGone(c) == ctl[c].cst \in {"done", "killed", "confused"}

(***************************************************************************)
(* The master: requests                                                    *)
(***************************************************************************)
(* channel_post_mux_client(): a whole request is in and may be processed   *)
Processes(c, t) ==
  /\ MasterUp /\ ctl[c].chan = "open" /\ ~ctl[c].pause /\ ctl[c].toM # <<>>
  /\ Head(ctl[c].toM).t = t

process_mux_master_hello(c) ==
  /\ Processes(c, "hello")
  /\ ctl' = [ctl EXCEPT ![c].toM = Tail(@), ![c].hello = TRUE]
  /\ UNCHANGED <<sessions, listening, fwdvars>>

process_mux_alive_check(c) ==
  /\ Processes(c, "alive")
  /\ ctl' = Reply(c, Msg("alive", Head(ctl[c].toM).rid))
  /\ UNCHANGED <<sessions, listening, fwdvars>>

(* compare_forward() *)
SameForward(f, g) == f.lhost = g.lhost /\ f.lport = g.lport /\ f.to = g.to

KnownRemote(f) == First(rforwards, LAMBDA g : g.live /\ SameForward(f, g))
KnownLocal(f) == First(lforwards, LAMBDA g : SameForward(f, g))

(* ask_permission(): the request is refused; nobody is asked about a forward *)
(* that is there                                                           *)
PermissionDenied(c) ==
  /\ AskMaster
  /\ \E t \in {"session", "stdio", "open_fwd", "terminate", "stop"} : Processes(c, t)
  /\ Processes(c, "open_fwd") =>
       LET f == Head(ctl[c].toM).v IN (IF f.kind = "remote" THEN KnownRemote(f) ELSE KnownLocal(f)) = 0
  /\ ctl' = Reply(c, Msg("denied", Head(ctl[c].toM).rid))
  /\ UNCHANGED <<sessions, listening, fwdvars>>

(* The loop ends when quit_pending is set, and every connection with it    *)
process_mux_terminate(c) ==
  /\ Processes(c, "terminate")
  /\ ctl' = Reply(c, Msg("ok", Head(ctl[c].toM).rid))
  /\ master' = "gone"
  /\ listening' = FALSE
  /\ UNCHANGED <<sessions, permitted, rforwards, lforwards, confirms, local, remote, up, down, conns, alive>>

process_mux_stop_listening(c) ==
  /\ Processes(c, "stop")
  /\ ctl' = Reply(c, Msg("ok", Head(ctl[c].toM).rid))
  /\ listening' = FALSE
  /\ UNCHANGED <<sessions, fwdvars>>

(* The new channel and the control channel are linked both ways, and the   *)
(* reply waits for the server's.                                           *)
LinkSession(c, t, pause) ==
  /\ Processes(c, t)
  /\ LET m == Head(ctl[c].toM)
         id == Len(sessions) + 1
     IN IF ctl[c].sess # 0
        THEN /\ ctl' = Reply(c, Msg("failure", m.rid))
             /\ UNCHANGED <<sessions, up>>
        ELSE /\ sessions' = Append(sessions, [ctl |-> c, by |-> c, st |-> "opening", kind |-> t, tty |-> m.v,
                              rid |-> m.rid, status |-> 255, srv |-> "none"])
             /\ ctl' = [ctl EXCEPT ![c].toM = Tail(@), ![c].sess = id, ![c].pause = pause]
             /\ up' = Append(up, [t |-> "session", host |-> "", port |-> 0, for |-> id])
  /\ UNCHANGED <<listening, permitted, rforwards, lforwards, confirms, local, remote, down, conns,
                 alive, master>>
NewSession_noPause(c) == LinkSession(c, "session", FALSE)
process_mux_new_session(c) == LinkSession(c, "session", TRUE)
process_mux_stdio_fwd(c) == LinkSession(c, "stdio", TRUE)

(* process_mux_open_fwd(), local and dynamic forwards                      *)
OpenLocalForward(c) ==
  /\ Processes(c, "open_fwd") /\ Head(ctl[c].toM).v.kind # "remote"
  /\ LET m == Head(ctl[c].toM) IN
     IF KnownLocal(m.v) # 0
     THEN ctl' = Reply(c, Msg("ok", m.rid)) /\ UNCHANGED <<local, lforwards>>
     ELSE IF CanListenLocally(local, m.v)
     THEN /\ ctl' = Reply(c, Msg("ok", m.rid))
          /\ local' = local \cup {LocalListener(m.v)}
          /\ lforwards' = Append(lforwards, m.v)
     ELSE ctl' = Reply(c, Msg("failure", m.rid)) /\ UNCHANGED <<local, lforwards>>
  /\ UNCHANGED <<sessions, listening, permitted, rforwards, confirms, remote, up, down, conns, alive, master>>

(* ... remote forwards: one that is known is answered at once, another one *)
(* when the server has answered                                            *)
KnownRemoteForward(c) ==
  /\ Processes(c, "open_fwd") /\ Head(ctl[c].toM).v.kind = "remote"
  /\ KnownRemote(Head(ctl[c].toM).v) # 0
  /\ LET m == Head(ctl[c].toM)
         g == rforwards[KnownRemote(m.v)]
     IN ctl' = Reply(c, IF m.v.lport # 0 THEN Msg("ok", m.rid)
                        ELSE [t |-> "remote_port", rid |-> m.rid, v |-> g.alloc])
  /\ UNCHANGED <<sessions, listening, fwdvars>>

(* add_remote_forward() may move the array, and with it the contexts of     *)
(* the confirms that ssh_init_forwarding() registered                       *)
Moved(queue) == [i \in DOMAIN queue |-> IF queue[i].cb = "ssh" THEN [queue[i] EXCEPT !.cb = "ssh_freed"]
                                        ELSE queue[i]]

OpenRemoteForward(c) ==
  /\ Processes(c, "open_fwd") /\ Head(ctl[c].toM).v.kind = "remote"
  /\ KnownRemote(Head(ctl[c].toM).v) = 0 /\ Len(permitted) < MaxRequests
  /\ LET m == Head(ctl[c].toM) IN
     /\ channel_request_remote_forwarding(m.v, FALSE)
     /\ rforwards' = Append(rforwards, NewRemote(m.v, Len(permitted) + 1))
     /\ \E queue \in {confirms, Moved(confirms)} :
          confirms' = client_register_global_confirm(queue, "mux",
                        [cid |-> c, rid |-> m.rid, fid |-> Len(rforwards) + 1])
     /\ ctl' = [ctl EXCEPT ![c].toM = Tail(@), ![c].pause = TRUE]
  /\ UNCHANGED <<sessions, listening, lforwards, local, remote, down, conns, alive, master>>

(* process_mux_close_fwd() *)
CloseLocalForward(c) ==
  /\ Processes(c, "close_fwd") /\ Head(ctl[c].toM).v.kind # "remote"
  /\ LET m == Head(ctl[c].toM)
         i == KnownLocal(m.v)
     IN IF i = 0
        THEN ctl' = Reply(c, Msg("failure", m.rid)) /\ UNCHANGED <<local, lforwards>>
        ELSE /\ ctl' = Reply(c, Msg("ok", m.rid))
             /\ channel_cancel_lport_listener(m.v)
             /\ lforwards' = RemoveAt(lforwards, i)
  /\ UNCHANGED <<sessions, listening, permitted, rforwards, confirms, remote, up, down, conns, alive, master>>

CloseRemoteForward(c) ==
  /\ Processes(c, "close_fwd") /\ Head(ctl[c].toM).v.kind = "remote"
  /\ LET m == Head(ctl[c].toM)
         i == KnownRemote(m.v)
         port == IF rforwards[i].lport # 0 THEN rforwards[i].lport ELSE rforwards[i].alloc
     IN IF i = 0 \/ CancelledEntry(rforwards[i].lhost, port) = 0
        THEN /\ ctl' = Reply(c, Msg("failure", m.rid))
             /\ UNCHANGED <<permitted, rforwards, up>>
        ELSE /\ channel_request_rforward_cancel(rforwards[i].lhost, port)
             /\ rforwards' = [rforwards EXCEPT ![i].live = FALSE]
             /\ ctl' = Reply(c, Msg("ok", m.rid))
  /\ UNCHANGED <<sessions, listening, lforwards, confirms, local, remote, down, conns, alive, master>>

(***************************************************************************)
(* The master: what the server answers                                     *)
(***************************************************************************)
(* mux_confirm_remote_forward() *)
mux_confirm_remote_forward ==
  /\ MasterUp /\ down # <<>> /\ IsReply(Head(down)) /\ confirms # <<>> /\ Head(confirms).cb = "mux"
  /\ LET m == Head(down)
         x == Head(confirms).ctx
         f == rforwards[x.fid]
         ok == m.t = "success"
         Answer(r) == [ctl EXCEPT ![x.cid].toC = Append(@, r), ![x.cid].pause = FALSE]
     IN IF ctl[x.cid].chan # "open" THEN UNCHANGED <<ctl, permitted, rforwards, master>>
        ELSE IF ~ctl[x.cid].pause
        THEN master' = "fatal" /\ UNCHANGED <<ctl, permitted, rforwards>>
        ELSE IF ~f.live
        THEN ctl' = Answer(Msg("failure", x.rid)) /\ UNCHANGED <<permitted, rforwards, master>>
        ELSE IF ok /\ f.lport = 0
        THEN /\ ctl' = Answer([t |-> "remote_port", rid |-> x.rid, v |-> m.port])
             /\ rforwards' = [rforwards EXCEPT ![x.fid].alloc = m.port]
             /\ channel_update_permitted_opens(f.handle, m.port)
             /\ master' = IF m.port = 0 THEN "fatal" ELSE master
        ELSE IF ok
        THEN ctl' = Answer(Msg("ok", x.rid)) /\ UNCHANGED <<permitted, rforwards, master>>
        ELSE /\ ctl' = Answer(Msg("failure", x.rid))
             /\ rforwards' = [rforwards EXCEPT ![x.fid].live = FALSE]
             /\ IF f.lport = 0 THEN channel_update_permitted_opens(f.handle, -1)
                               ELSE UNCHANGED permitted
             /\ UNCHANGED master
  /\ confirms' = NextConfirms
  /\ down' = Tail(down)
  /\ UNCHANGED <<sessions, listening, lforwards, local, remote, up, conns, alive>>

SessionPacket(t) == MasterUp /\ down # <<>> /\ Head(down).t = t

(* The control channel must still be there and paused; a session goes on   *)
(* with its requests.                                                      *)
OpenConfirmed(kind, requests(_)) ==
  /\ SessionPacket("session-open") \/ SessionPacket("session-failure")
  /\ sessions[Head(down).for].kind = kind
  /\ LET s == Head(down).for
         c == sessions[s].ctl
         ok == Head(down).t = "session-open"
     IN IF c = NoClient
        THEN master' = "fatal" /\ UNCHANGED <<ctl, sessions, up>>
        ELSE /\ master' = IF ctl[c].pause THEN master ELSE "fatal"
             /\ sessions' = [sessions EXCEPT ![s].st = IF ok THEN "open" ELSE "dead"]
             /\ up' = IF ok THEN up \o requests(s) ELSE up
             /\ ctl' = [ctl EXCEPT ![c].pause = FALSE,
                          ![c].toC = Append(@, [t |-> IF ok THEN "session_opened" ELSE "failure",
                                                rid |-> sessions[s].rid, v |-> s])]
  /\ down' = Tail(down)
  /\ UNCHANGED <<listening, permitted, rforwards, lforwards, confirms, local, remote, conns, alive>>

mux_session_confirm ==
  OpenConfirmed("session", LAMBDA s : IF sessions[s].tty THEN <<[t |-> "pty-req", host |-> "", port |-> 0, for |-> s]>> ELSE <<>>)
mux_stdio_confirm == OpenConfirmed("stdio", LAMBDA s : <<>>)

(* client_status_confirm() for the pty request, and mux_tty_alloc_failed() *)
mux_tty_alloc_failed ==
  /\ SessionPacket("pty-failure")
  /\ LET s == Head(down).for
         c == sessions[s].ctl
     IN IF c = NoClient THEN master' = "fatal_pty" /\ UNCHANGED ctl
        ELSE /\ ctl' = [ctl EXCEPT ![c].toC = Append(@, [t |-> "tty_alloc_fail", rid |-> s, v |-> 0])]
             /\ UNCHANGED master
  /\ down' = Tail(down)
  /\ UNCHANGED <<sessions, listening, permitted, rforwards, lforwards, confirms, local, remote, up, conns, alive>>

PtyAllocated ==
  /\ SessionPacket("pty-success")
  /\ down' = Tail(down)
  /\ UNCHANGED <<muxvars, permitted, rforwards, lforwards, confirms, local, remote, up, conns, alive, master>>

(* client_input_channel_req() and mux_exit_message() *)
mux_exit_message ==
  /\ SessionPacket("exit-status")
  /\ LET s == Head(down).for
         c == sessions[s].ctl
     IN ctl' = IF c = NoClient THEN ctl
               ELSE [ctl EXCEPT ![c].toC = Append(@, [t |-> "exit_message", rid |-> s,
                                                      v |-> sessions[s].status])]
  /\ down' = Tail(down)
  /\ UNCHANGED <<sessions, listening, permitted, rforwards, lforwards, confirms, local, remote, up, conns, alive, master>>

(* The server's close: the session has nothing more to come                *)
SessionClosed ==
  /\ SessionPacket("session-close")
  /\ sessions' = [sessions EXCEPT ![Head(down).for].st = "dead"]
  /\ down' = Tail(down)
  /\ UNCHANGED <<ctl, listening, permitted, rforwards, lforwards, confirms, local, remote, up, conns, alive, master>>

(* mux_master_session_cleanup_cb(): a dead session is collected, its       *)
(* control channel unlinked and closed once its output is written          *)
mux_master_session_cleanup_cb(s) ==
  /\ MasterUp /\ sessions[s].st = "dead"
  /\ LET c == sessions[s].ctl IN
     ctl' = IF c = NoClient THEN ctl ELSE [ctl EXCEPT ![c].sess = 0, ![c].chan = "closing"]
  /\ sessions' = [sessions EXCEPT ![s].st = "gone", ![s].ctl = NoClient]
  /\ UNCHANGED <<listening, fwdvars>>

ControlDrained(c) ==
  /\ MasterUp /\ ctl[c].chan = "closing"
  /\ ctl' = [ctl EXCEPT ![c].chan = "gone"]
  /\ UNCHANGED <<sessions, listening, fwdvars>>

ControlCleanup_leaves(c) ==
  LET s == ctl[c].sess IN
  /\ ctl' = [ctl EXCEPT ![c].chan = "gone", ![c].sess = 0, ![c].pause = FALSE]
  /\ sessions' = IF s = 0 THEN sessions ELSE [sessions EXCEPT ![s].ctl = NoClient]
  /\ UNCHANGED <<listening, fwdvars>>

(* mux_master_control_cleanup_cb(): the control channel is gone; its       *)
(* session is told that nobody reads or writes, and asks the server to end *)
ControlCleanup(c) ==
  LET s == ctl[c].sess IN
  /\ ctl' = [ctl EXCEPT ![c].chan = "gone", ![c].sess = 0, ![c].pause = FALSE]
  /\ IF s = 0 THEN UNCHANGED <<sessions, up>>
     ELSE /\ sessions' = [sessions EXCEPT ![s].ctl = NoClient,
                            ![s].st = IF @ \in {"open", "opening"} THEN @ ELSE "dead"]
          /\ up' = IF sessions[s].st \in {"open", "opening"}
                   THEN Append(up, [t |-> "hangup", host |-> "", port |-> 0, for |-> s]) ELSE up
  /\ UNCHANGED <<listening, permitted, rforwards, lforwards, confirms, local, remote, down, conns, alive, master>>

(* read_mux() finds the end of the control connection: not while paused    *)
ControlEof(c) ==
  /\ MasterUp /\ ctl[c].chan = "open" /\ ~ctl[c].pause /\ ctl[c].toM = <<>> /\ ClientGone(c)
  /\ ControlCleanup(c)

(* channel_post_mux_client(): the write of a reply fails                   *)
ControlWriteFails(c) ==
  /\ MasterUp /\ ctl[c].chan = "open" /\ ctl[c].toC # <<>> /\ ClientGone(c)
  /\ ControlCleanup(c)

(***************************************************************************)
(* The server's side of the sessions (external to mux.c: what sshd sends)  *)
(***************************************************************************)
ServerSession ==
  /\ up # <<>> /\ Head(up).t = "session"
  /\ LET s == Head(up).for IN
     \/ /\ sessions' = [sessions EXCEPT ![s].srv = "open"]
        /\ down' = Append(down, [t |-> "session-open", for |-> s])
     \/ /\ sessions' = [sessions EXCEPT ![s].srv = "closed"]
        /\ down' = Append(down, [t |-> "session-failure", for |-> s])
  /\ up' = Tail(up)
  /\ UNCHANGED <<ctl, listening, permitted, rforwards, lforwards, confirms, local, remote, conns, alive, master>>

ServerPty ==
  /\ up # <<>> /\ Head(up).t = "pty-req"
  /\ IF sessions[Head(up).for].srv = "closed" THEN UNCHANGED down
     ELSE \/ down' = Append(down, [t |-> "pty-success", for |-> Head(up).for])
          \/ TtyMayFail /\ down' = Append(down, [t |-> "pty-failure", for |-> Head(up).for])
  /\ up' = Tail(up)
  /\ UNCHANGED <<muxvars, permitted, rforwards, lforwards, confirms, local, remote, conns, alive, master>>

(* The program ends by itself, or because nobody is left                   *)
ServerExit(s) ==
  /\ sessions[s].srv \in {"open", "hungup"}
  /\ sessions' = [sessions EXCEPT ![s].srv = "closed", ![s].status = s]
  /\ down' = down \o (IF sessions[s].kind = "session" THEN <<[t |-> "exit-status", for |-> s]>> ELSE <<>>)
                  \o <<[t |-> "session-close", for |-> s]>>
  /\ UNCHANGED <<ctl, listening, permitted, rforwards, lforwards, confirms, local, remote, up, conns, alive, master>>

(* Both directions of the channel are shut.  A forwarded connection is     *)
(* closed with that; session_close_by_channel() leaves a session that has a *)
(* child, and the channel is closed when the child has ended (ServerExit). *)
ServerHangup ==
  /\ up # <<>> /\ Head(up).t = "hangup"
  /\ LET s == Head(up).for IN
     \/ /\ sessions[s].srv = "closed"
        /\ UNCHANGED <<sessions, down>>
     \/ /\ sessions[s].srv # "closed" /\ sessions[s].kind = "session"
        /\ sessions' = [sessions EXCEPT ![s].srv = "hungup"]
        /\ UNCHANGED down
     \/ /\ sessions[s].srv # "closed" /\ sessions[s].kind = "stdio"
        /\ sessions' = [sessions EXCEPT ![s].srv = "closed"]
        /\ down' = Append(down, [t |-> "session-close", for |-> s])
  /\ up' = Tail(up)
  /\ UNCHANGED <<ctl, listening, permitted, rforwards, lforwards, confirms, local, remote, conns, alive, master>>

(***************************************************************************)
MuxClientStep(c) ==
  \/ muxclient(c) \/ mux_client_hello_exchange(c) \/ mux_client_request(c)
  \/ mux_client_request_alive(c) \/ mux_client_request_terminate(c) \/ mux_client_forward(c)
  \/ mux_client_request_session(c) \/ mux_client_request_stdio_fwd(c) \/ mux_client_request_stop_listening(c)
  \/ mux_client_done(c) \/ mux_client_session(c) \/ mux_client_eof(c)

MuxMasterStep(c) ==
  \/ process_mux_master_hello(c) \/ process_mux_alive_check(c) \/ PermissionDenied(c)
  \/ process_mux_terminate(c) \/ process_mux_stop_listening(c)
  \/ process_mux_new_session(c) \/ process_mux_stdio_fwd(c)
  \/ OpenLocalForward(c) \/ KnownRemoteForward(c) \/ OpenRemoteForward(c)
  \/ CloseLocalForward(c) \/ CloseRemoteForward(c)
  \/ ControlDrained(c) \/ ControlEof(c) \/ ControlWriteFails(c)

MuxServerStep == ServerSession \/ ServerPty \/ ServerHangup

MuxInput ==
  \/ mux_confirm_remote_forward \/ mux_session_confirm \/ mux_stdio_confirm \/ mux_tty_alloc_failed \/ PtyAllocated
  \/ mux_exit_message \/ SessionClosed
=============================================================================
