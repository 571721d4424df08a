------------------------------ MODULE Session ------------------------------
(***************************************************************************)
(* The login sessions of one authenticated connection: the session table   *)
(* of the unprivileged server process, the channels, descriptors, X11      *)
(* listeners and programs that belong to a session, and the monitor's own  *)
(* table of the ptys it opened and recorded in utmp.                       *)
(*                                                                         *)
(* A request is handled at once, together with the monitor's answer: the   *)
(* server process waits for it (monitor_wrap.c), and pty releases, which   *)
(* are not answered, reach the monitor before any later request.  What     *)
(* flows through a channel is the subject of Channels; here a channel is   *)
(* its descriptors, whether CLOSE was sent or received, and its callback.  *)
(***************************************************************************)
EXTENDS Integers, Sequences, FiniteSets, SequencesExt, FiniteSetsExt

CONSTANTS
  MaxSessions,   \* options.max_sessions
  MaxChannels,   \* bound: channel slots of the connection
  MaxFd,         \* bound: descriptor numbers of the server process
  MaxPids,       \* bound: programs started
  MaxFailures,   \* bound: pty, pipe, dup and fork calls that fail
  MaxEnv,        \* s->num_env may reach MaxEnv + 1
  Ptys,          \* pty numbers
  Displays,      \* X11 display numbers tried, lowest first
  Families,      \* address families of the X11 listeners
  BusyPorts      \* <<display, family>> bound by other processes

NONE == "none"
NoTty == -1
NoDisplay == -1
NoPort == <<-1, NONE>>
SUBSYSTEM_NONE == 0
SUBSYSTEM_EXT == 1
SUBSYSTEM_INT_SFTP == 2
SUBSYSTEM_INT_SFTP_ERROR == 3

VARIABLES
  setup,         \* options of the server and of the key that authenticated
  sessions,      \* sessions[]: nalloc is its length
  first_unused,  \* sessions_first_unused, 0 for -1
  chans,         \* the channel table
  fds,           \* descriptor number -> what it refers to
  progs,         \* the programs forked, by pid
  monTtys,           \* the monitor's session table: the tty of each used slot
  logins,        \* ttys with a login record and no logout record
  agent,         \* [called, sock]: authentication agent forwarding
  procs,         \* "up" while the server process runs; "monitor" alone; "gone"
  failures, opened, fatal,
  astray         \* history: a request was served with the number of a descriptor
                 \* that had been closed, "exec" or "resize"

sesvars == <<setup, sessions, first_unused, chans, fds, progs, monTtys, logins, agent, procs,
             failures, opened, fatal, astray>>

(***************************************************************************)
(* Descriptors                                                             *)
(***************************************************************************)
Closed == <<"closed", 0>>
FreeFd(t) == Min({n \in DOMAIN t : t[n] = Closed})
OpenFd(t, obj) == [t EXCEPT ![FreeFd(t)] = obj]
CloseFds(t, S) == [n \in DOMAIN t |-> IF n \in S THEN Closed ELSE t[n]]

(* The pty a descriptor leads to, NoTty when it leads to something else     *)
TtyOf(t, n) == IF n \in DOMAIN t /\ t[n][1] \in {"master", "slave"} THEN t[n][2] ELSE NoTty

PtyBusy(p) ==
  \/ p \in Range(monTtys)
  \/ \E n \in DOMAIN fds : TtyOf(fds, n) = p
  \/ \E i \in DOMAIN progs : progs[i].tty = p /\ progs[i].st = "alive"

(***************************************************************************)
(* Channels: slots are reused, the lowest first                            *)
(***************************************************************************)
FreeChan == [type |-> "free", rfd |-> -1, wfd |-> -1, sent |-> FALSE, rcvd |-> FALSE,
             cb |-> NONE, do_close |-> FALSE, single |-> FALSE, port |-> NoPort]

channel_new(cs, type) ==
  LET i == Min({n \in DOMAIN cs : cs[n].type = "free"})
  IN  [id |-> i, cs |-> [cs EXCEPT ![i] = [FreeChan EXCEPT !.type = type]]]

ChannelFree(cs) == \E n \in DOMAIN cs : cs[n].type = "free"

chan_mark_dead(c) == [c EXCEPT !.type = "zombie"]
channel_cancel_cleanup(c) == [c EXCEPT !.cb = NONE, !.do_close = FALSE]

Drained(c) == c.type # "larval" /\ c.rfd = -1 /\ c.wfd = -1
(* [dead, sent] of chan_is_dead(c, do_send): a close is sent when allowed  *)
chan_is_dead(c, do_send) ==
  LET over == (c.type = "larval" /\ c.rcvd) \/ (c.type = "open" /\ Drained(c))
      sent == c.sent \/ (over /\ do_send)
  IN  [dead |-> c.type = "zombie" \/ (over /\ c.rcvd), sent |-> sent]

(***************************************************************************)
(* The session table: unused slots are linked                              *)
(***************************************************************************)
Unused(next) ==
  [used |-> FALSE, next_unused |-> next, chanid |-> -1, tty |-> NoTty, ptyfd |-> -1,
   ttyfd |-> -1, ptymaster |-> -1, pid |-> 0, is_subsystem |-> SUBSYSTEM_NONE,
   x11_chanids |-> <<>>, display |-> NoDisplay, auth |-> FALSE, env |-> <<>>, failed |-> FALSE]

session_unused(id) ==
  /\ sessions' = [sessions EXCEPT ![id] = Unused(first_unused)]
  /\ first_unused' = id

(* [id, tab, first]: id 0 when there are no more sessions                  *)
session_new ==
  LET grown == first_unused = 0 /\ Len(sessions) < MaxSessions
      tab   == IF grown THEN Append(sessions, Unused(0)) ELSE sessions
      id    == IF grown THEN Len(tab) ELSE first_unused
  IN  IF id = 0 THEN [id |-> 0, tab |-> tab, first |-> 0]
      ELSE [id |-> id, tab |-> [tab EXCEPT ![id].used = TRUE, ![id].next_unused = 0],
            first |-> tab[id].next_unused]

session_by_channel(id) == {i \in DOMAIN sessions : sessions[i].used /\ sessions[i].chanid = id}
session_by_x11_channel(id) ==
  {i \in DOMAIN sessions : sessions[i].used /\ id \in Range(sessions[i].x11_chanids)}
session_by_pid(pid) == {i \in DOMAIN sessions : sessions[i].used /\ sessions[i].pid = pid}
First(S) == CHOOSE x \in S : \A y \in S : x <= y

(***************************************************************************)
(* The monitor's side of a pty                                             *)
(***************************************************************************)
MonSlots == {i \in DOMAIN monTtys : monTtys[i] = NoTty}
session_by_tty(tty) == {i \in DOMAIN monTtys : monTtys[i] = tty}

mm_session_close(i) ==
  /\ monTtys' = [monTtys EXCEPT ![i] = NoTty]
  /\ logins' = logins \ {monTtys[i]}

mm_answer_pty_cleanup(tty) ==
  IF session_by_tty(tty) # {} THEN mm_session_close(First(session_by_tty(tty)))
                              ELSE UNCHANGED <<monTtys, logins>>

(* mutant: the pty is not released before the connection ends              *)
PtyCleanup_leaves(s) == UNCHANGED <<monTtys, logins>>

(* session_pty_cleanup() of session s in the server process: the monitor   *)
(* releases the pty, the kept master is closed and the tty forgotten       *)
session_pty_cleanup(s) ==
  IF s.ttyfd # -1 THEN mm_answer_pty_cleanup(s.tty) ELSE UNCHANGED <<monTtys, logins>>
PtyCleanupFds(t, s) ==
  IF s.ttyfd # -1 /\ s.ptymaster # -1 THEN CloseFds(t, {s.ptymaster}) ELSE t
Unlinked(s) == [s EXCEPT !.ttyfd = -1]

(***************************************************************************)
(* What a program is started as: the first that applies                    *)
(***************************************************************************)
IS_INTERNAL_SFTP(command) == command = "internal-sftp"
Forced ==
  CASE setup.adm_forced # NONE -> setup.adm_forced
    [] setup.adm_forced = NONE -> setup.key_forced
CommandOf(command) == IF Forced # NONE THEN Forced ELSE command
(* mutant: a forced internal-sftp serves any request                       *)
SubsystemOf_any(s) ==
  IF Forced # NONE /\ IS_INTERNAL_SFTP(Forced) THEN SUBSYSTEM_INT_SFTP ELSE s.is_subsystem

SubsystemOf(s) ==
  IF Forced = NONE THEN s.is_subsystem
  ELSE IF IS_INTERNAL_SFTP(Forced)
       THEN IF s.is_subsystem # SUBSYSTEM_NONE THEN SUBSYSTEM_INT_SFTP ELSE SUBSYSTEM_INT_SFTP_ERROR
  ELSE IF s.is_subsystem # SUBSYSTEM_NONE THEN SUBSYSTEM_EXT ELSE SUBSYSTEM_NONE

(* Every component of the path, the last included, must be a directory of  *)
(* root that nobody else may write to                                      *)
safely_chroot(path) ==
  \A i \in DOMAIN path : path[i].uid = 0 /\ ~path[i].writable /\ path[i].dir
do_setusercontext == setup.chroot = <<>> \/ safely_chroot(setup.chroot)

do_nologin == setup.nologin /\ ~setup.use_pam /\ ~setup.root

do_pwchange(s) == IF s.ttyfd # -1 THEN "passwd" ELSE "refused"

ProgramRun(s, command) ==
  CASE s.is_subsystem = SUBSYSTEM_INT_SFTP_ERROR -> "refused"
    [] s.is_subsystem = SUBSYSTEM_INT_SFTP -> "internal-sftp"
    [] OTHER -> IF command = NONE THEN "shell" ELSE command

(* Which of the rc files runs first: the user's, the system's or xauth     *)
do_rc_files(s) ==
  LET do_xauth == s.display # NoDisplay /\ s.auth
  IN  IF s.is_subsystem = SUBSYSTEM_NONE /\ setup.adm_forced = NONE /\ setup.permit_user_rc
         /\ setup.user_rc THEN "user"
      ELSE IF setup.system_rc THEN "system" ELSE IF do_xauth THEN "xauth" ELSE NONE

(* The environment: later assignments replace earlier ones                 *)
child_set_env(env, pair) == [n \in DOMAIN env \cup {pair[1]} |-> IF n = pair[1] THEN pair[2] ELSE env[n]]
When(b, name, value) == IF b THEN <<<<name, value>>>> ELSE <<>>
do_setup_env(s, command) ==
  LET basic == <<<<"USER", "user">>, <<"PATH", "std">>, <<"SHELL", "sh">>>>
      ssh == <<<<"SSH_CONNECTION", "peer">>>>
             \o When(s.ttyfd # -1, "SSH_TTY", "tty")
             \o When(s.display # NoDisplay, "DISPLAY", "display")
             \o When(Forced # NONE /\ command # NONE, "SSH_ORIGINAL_COMMAND", command)
             \o When(agent.sock, "SSH_AUTH_SOCK", "agent")
      all == [i \in DOMAIN s.env |-> <<s.env[i], "client">>] \o basic \o setup.key_env \o ssh
             \o setup.user_env
  IN  FoldLeft(child_set_env, [n \in {} |-> NONE], all)

do_child(s, command) ==
  LET forced == [s EXCEPT !.is_subsystem = SubsystemOf(s)]
      cmd == CommandOf(command)
      run == IF ~do_setusercontext THEN "refused"
             ELSE IF setup.force_pwchange THEN do_pwchange(s)
             ELSE IF do_nologin \/ (setup.use_pam /\ ~setup.pam_session) THEN "refused"
             ELSE ProgramRun(forced, cmd)
  IN  [run |-> run, st |-> "alive", tty |-> TtyOf(fds, s.ttyfd), session |-> s.tty,
       rc |-> do_rc_files(forced), env |-> do_setup_env(s, command)]

SubsystemSet(s) == [s EXCEPT !.is_subsystem = SubsystemOf(s)]

(***************************************************************************)
(* Starting a program.  how is what the calls on the way do: "dup" and     *)
(* "fork" fail in do_exec_pty(), "pipe" and "fork" in do_exec_no_pty()     *)
(***************************************************************************)
NextPid == Len(progs) + 1
Fails(how) == failures' = IF how = "ok" THEN failures ELSE failures + 1

(* channel_set_fds(): the larval channel becomes open                      *)
session_set_fds(c, fdin, fdout) == [c EXCEPT !.type = "open", !.rfd = fdout, !.wfd = fdin]

do_exec_pty(i, s, command, how) ==
  LET t1 == OpenFd(fds, fds[s.ptyfd])
      t2 == OpenFd(t1, fds[s.ptyfd])
      fdout == FreeFd(fds)
      started == [SubsystemSet(s) EXCEPT !.pid = NextPid, !.ptymaster = FreeFd(t1)]
  IN  IF how = "ok" /\ fds[s.ptyfd] # Closed
      THEN /\ fds' = CloseFds(t2, {s.ttyfd})
           /\ progs' = Append(progs, do_child(s, command))
           /\ sessions' = [sessions EXCEPT ![i] = started]
           /\ chans' = [chans EXCEPT ![s.chanid] = session_set_fds(@, s.ptyfd, fdout)]
           /\ UNCHANGED failures
      ELSE /\ fds' = CloseFds(fds, {s.ttyfd, s.ptyfd})
           /\ sessions' = [sessions EXCEPT ![i] = [SubsystemSet(s) EXCEPT !.failed = TRUE]]
           /\ Fails(how)
           /\ UNCHANGED <<progs, chans>>

do_exec_no_pty(i, s, command, how) ==
  LET pipe == <<"pipe", NextPid>>
      t1 == OpenFd(fds, pipe)
  IN  IF how = "ok"
      THEN /\ fds' = OpenFd(t1, pipe)
           /\ progs' = Append(progs, do_child(s, command))
           /\ sessions' = [sessions EXCEPT ![i] = [SubsystemSet(s) EXCEPT !.pid = NextPid]]
           /\ chans' = [chans EXCEPT ![s.chanid] = session_set_fds(@, FreeFd(fds), FreeFd(t1))]
           /\ UNCHANGED failures
      ELSE /\ sessions' = [sessions EXCEPT ![i] = [SubsystemSet(s) EXCEPT !.failed = TRUE]]
           /\ Fails(how)
           /\ UNCHANGED <<progs, chans, fds>>

(* A do_exec_pty() that failed has closed both ends and left their numbers  *)
(* in the session: another request uses whatever has these numbers by then *)
do_exec(i, s, command, how) ==
  /\ IF s.ttyfd # -1 THEN do_exec_pty(i, s, command, how) ELSE do_exec_no_pty(i, s, command, how)
  /\ astray' = astray \cup (IF s.failed /\ s.ttyfd # -1 THEN {"exec"} ELSE {})

(***************************************************************************)
(* The requests of a session                                               *)
(***************************************************************************)
MayFail(how) == how = "ok" \/ failures < MaxFailures

(* A request finds its session by the channel; a larval channel takes all of*)
(* them, one after the other, also when an earlier one has failed          *)
Requesting(i) ==
  /\ procs = "up" /\ fatal = NONE
  /\ sessions[i].used /\ sessions[i].chanid # -1
  /\ ~chans[sessions[i].chanid].rcvd
Larval(i) ==
  /\ Requesting(i)
  /\ chans[sessions[i].chanid].type = "larval"

ProgramRequest(i) == Larval(i) /\ Len(progs) < MaxPids

session_shell_req(i, how) ==
  ProgramRequest(i) /\ MayFail(how) /\ do_exec(i, sessions[i], NONE, how)
  /\ UNCHANGED <<setup, first_unused, monTtys, logins, agent, procs, fatal>>

session_exec_req(i, how) ==
  ProgramRequest(i) /\ MayFail(how) /\ do_exec(i, sessions[i], "command", how)
  /\ UNCHANGED <<setup, first_unused, monTtys, logins, agent, procs, fatal>>

(* A subsystem the server does not have is refused without a trace         *)
session_subsystem_req(i, name, how) ==
  /\ ProgramRequest(i) /\ MayFail(how)
  /\ IF name \in DOMAIN setup.subsystems
     THEN LET prog == setup.subsystems[name]
              kind == IF IS_INTERNAL_SFTP(prog) THEN SUBSYSTEM_INT_SFTP ELSE SUBSYSTEM_EXT
          IN  do_exec(i, [sessions[i] EXCEPT !.is_subsystem = kind], prog, how)
     ELSE how = "ok" /\ UNCHANGED <<sessions, chans, fds, progs, failures, astray>>
  /\ UNCHANGED <<setup, first_unused, monTtys, logins, agent, procs, fatal>>

(* The monitor opens the pty, records the login and passes both ends       *)
mm_answer_pty(p) ==
  /\ monTtys' = [monTtys EXCEPT ![First(MonSlots)] = p]
  /\ logins' = logins \cup {p}

FreePtys == {p \in Ptys : ~PtyBusy(p)}
mm_pty_allocate(i, p) ==
  LET t == OpenFd(fds, <<"master", p>>)
  IN  /\ mm_answer_pty(p)
      /\ fds' = OpenFd(t, <<"slave", p>>)
      /\ sessions' = [sessions EXCEPT ![i].tty = p, ![i].ptyfd = FreeFd(fds), ![i].ttyfd = FreeFd(t)]

session_pty_req(i, how) ==
  /\ Larval(i) /\ MayFail(how)
  /\ setup.permit_tty
  /\ UNCHANGED <<setup, first_unused, chans, progs, agent, procs, astray>>
  /\ IF sessions[i].ttyfd # -1
     THEN /\ how = "ok" /\ fatal' = "you already have a pty"
          /\ UNCHANGED <<sessions, fds, monTtys, logins, failures>>
     ELSE /\ Fails(how) /\ UNCHANGED fatal
          /\ IF how = "ok" /\ FreePtys # {} /\ MonSlots # {}
             THEN mm_pty_allocate(i, First(FreePtys))
             ELSE UNCHANGED <<monTtys, logins, fds, sessions>>

session_env_req(i, name) ==
  /\ Larval(i)
  /\ Len(sessions[i].env) <= MaxEnv
  /\ name \in setup.accept_env
  /\ sessions' = [sessions EXCEPT ![i].env = Append(@, name)]
  /\ UNCHANGED <<setup, first_unused, chans, fds, progs, monTtys, logins, agent, procs, failures, fatal, astray>>

(* The size of the terminal behind s->ptyfd, whichever that is: sizes are   *)
(* not kept, only whether another session's terminal got this one          *)
session_window_change_req(i) ==
  LET hit == TtyOf(fds, sessions[i].ptyfd)
  IN  /\ Requesting(i)
      /\ astray' = astray \cup (IF hit \notin {NoTty, sessions[i].tty} THEN {"resize"} ELSE {})
      /\ UNCHANGED <<setup, sessions, first_unused, chans, fds, progs, monTtys, logins, agent, procs,
                     failures, fatal>>

(* The socket is made in a private directory, or nothing is left           *)
auth_input_request_forwarding(how) ==
  how = "ok"

(* Only the first request of a connection is tried, also when it failed    *)
session_auth_agent_req(i, how) ==
  /\ Larval(i) /\ MayFail(how)
  /\ setup.allow_agent /\ ~agent.called
  /\ agent' = [called |-> TRUE, sock |-> auth_input_request_forwarding(how)]
  /\ Fails(how)
  /\ UNCHANGED <<setup, sessions, first_unused, chans, fds, progs, monTtys, logins, procs, fatal, astray>>

(***************************************************************************)
(* X11 forwarding: the first display for which every family can be bound   *)
(***************************************************************************)
Bound(d, f) ==
  <<d, f>> \in BusyPorts \/ \E c \in DOMAIN chans : chans[c].port = <<d, f>>
x11_create_display_inet == {d \in Displays : \A f \in Families : ~Bound(d, f)}

AddListener(acc, f) ==
  LET new == channel_new(acc.cs, "x11")
  IN  [cs |-> [new.cs EXCEPT ![new.id].cb = "session_close_single_x11",
                             ![new.id].single = acc.single, ![new.id].port = <<acc.d, f>>],
       ids |-> Append(acc.ids, new.id), d |-> acc.d, single |-> acc.single]

session_setup_x11fwd(i, single) ==
  LET d == First(x11_create_display_inet)
      made == FoldLeft(AddListener, [cs |-> chans, ids |-> <<>>, d |-> d, single |-> single],
                       SetToSeq(Families))
  IN  /\ chans' = made.cs
      /\ sessions' = [sessions EXCEPT ![i].x11_chanids = made.ids, ![i].display = d,
                                      ![i].auth = TRUE]

session_x11_req(i, single) ==
  /\ Larval(i)
  /\ ~sessions[i].auth /\ sessions[i].display = NoDisplay
  /\ setup.x11_forwarding
  /\ x11_create_display_inet # {}
  /\ Cardinality({c \in DOMAIN chans : chans[c].type = "free"}) > Cardinality(Families)
  /\ session_setup_x11fwd(i, single)
  /\ UNCHANGED <<setup, first_unused, fds, progs, monTtys, logins, agent, procs, failures, fatal, astray>>

(* A connection to the fake display; "single connection" gives it up       *)
channel_post_x11_listener(c) ==
  /\ procs = "up" /\ fatal = NONE
  /\ chans[c].type = "x11" /\ chans[c].single
  /\ chans' = [chans EXCEPT ![c] = [chan_mark_dead(@) EXCEPT !.port = NoPort]]
  /\ UNCHANGED <<setup, sessions, first_unused, fds, progs, monTtys, logins, agent, procs, failures, fatal>>

session_close_x11(cs, id) ==
  IF cs[id].type = "free" THEN cs
  ELSE [cs EXCEPT ![id] = chan_mark_dead(channel_cancel_cleanup(@))]

ForgetX11(s) == [s EXCEPT !.x11_chanids = <<>>, !.display = NoDisplay, !.auth = FALSE]

(***************************************************************************)
(* Opening and closing                                                     *)
(***************************************************************************)
server_request_session ==
  LET c == channel_new(chans, "larval")
      n == session_new
  IN  /\ procs = "up" /\ fatal = NONE
      /\ ChannelFree(chans)
      /\ opened < setup.opens /\ opened' = opened + 1
      /\ sessions' = IF n.id = 0 THEN n.tab ELSE [n.tab EXCEPT ![n.id].chanid = c.id]
      /\ first_unused' = n.first
      /\ chans' = IF n.id = 0 THEN chans ELSE [c.cs EXCEPT ![c.id].cb = "session_close_by_channel"]
      /\ UNCHANGED <<setup, fds, progs, monTtys, logins, agent, procs, failures, fatal>>

(* The client's CLOSE; what is still buffered is written first             *)
channel_input_oclose(c) ==
  /\ procs = "up" /\ fatal = NONE
  /\ chans[c].type \in {"larval", "open"} /\ ~chans[c].rcvd
  /\ chans' = [chans EXCEPT ![c].rcvd = TRUE, ![c].rfd = -1, ![c].wfd = -1]
  /\ fds' = CloseFds(fds, {chans[c].rfd, chans[c].wfd})
  /\ UNCHANGED <<setup, sessions, first_unused, progs, monTtys, logins, agent, procs, failures, fatal>>

ProgramExits(pid) ==
  /\ progs[pid].st = "alive"
  /\ progs' = [progs EXCEPT ![pid].st = "exited"]
  /\ UNCHANGED <<setup, sessions, first_unused, chans, fds, monTtys, logins, agent, procs, failures, fatal>>

(* End of file on a program's output, once nobody holds the other end      *)
chan_read_failed(c) ==
  /\ procs = "up" /\ fatal = NONE
  /\ chans[c].type = "open" /\ chans[c].rfd # -1
  /\ LET obj == fds[chans[c].rfd]
     IN  IF obj[1] = "pipe" THEN progs[obj[2]].st # "alive"
         ELSE ~\E i \in DOMAIN progs : progs[i].tty = obj[2] /\ progs[i].st = "alive"
  /\ chans' = [chans EXCEPT ![c].rfd = -1]
  /\ fds' = CloseFds(fds, {chans[c].rfd})
  /\ UNCHANGED <<setup, sessions, first_unused, progs, monTtys, logins, agent, procs, failures, fatal>>

(* session_exit_message(): the channel may now close by itself, and        *)
(* nothing more is written to the program                                  *)
session_exit_message(c) ==
  [chans[c] EXCEPT !.cb = "session_close_by_channel", !.do_close = TRUE, !.wfd = -1]

session_close_by_pid(pid) ==
  LET i == First(session_by_pid(pid))
      s == sessions[i]
      t == IF s.chanid # -1 THEN CloseFds(fds, {chans[s.chanid].wfd}) ELSE fds
  IN  IF session_by_pid(pid) = {} THEN UNCHANGED <<sessions, chans, fds, monTtys, logins>>
      ELSE /\ chans' = IF s.chanid # -1 THEN [chans EXCEPT ![s.chanid] = session_exit_message(s.chanid)]
                       ELSE chans
           /\ session_pty_cleanup(s)
           /\ fds' = PtyCleanupFds(t, s)
           /\ sessions' = [sessions EXCEPT ![i] = [Unlinked(s) EXCEPT !.pid = 0]]

collect_children(pid) ==
  /\ procs = "up" /\ fatal = NONE
  /\ progs[pid].st = "exited"
  /\ progs' = [progs EXCEPT ![pid].st = "reaped"]
  /\ session_close_by_pid(pid)
  /\ UNCHANGED <<setup, first_unused, agent, procs, failures, fatal>>

(* The rest of channel_garbage_collect(), once no callback is registered:   *)
(* the close is sent, and a channel closed on both sides is freed          *)
Collected(cs, c) ==
  LET final == chan_is_dead(cs[c], TRUE)
  IN  [cs EXCEPT ![c] = IF final.dead THEN FreeChan ELSE [@ EXCEPT !.sent = final.sent]]

(* The callback of a session's channel; with a program still running only  *)
(* the pty is given up, and the channel stays                              *)
session_close_by_channel(id, cs) ==
  LET i == First(session_by_channel(id))
      s == sessions[i]
      quiet == [cs EXCEPT ![id] = channel_cancel_cleanup(@)]
  IN  IF session_by_channel(id) = {} THEN
           /\ chans' = cs /\ UNCHANGED <<sessions, first_unused, fds, monTtys, logins>>
      ELSE /\ session_pty_cleanup(s)
           /\ IF s.pid # 0
              THEN /\ sessions' = [sessions EXCEPT ![i] = Unlinked(s)]
                   /\ fds' = PtyCleanupFds(fds, s)
                   /\ chans' = cs /\ UNCHANGED first_unused
              ELSE /\ session_unused(i)
                   /\ fds' = PtyCleanupFds(fds, s)
                   /\ chans' = Collected(FoldLeft(session_close_x11, quiet, s.x11_chanids), id)

(* The callback of an X11 listener: it closes its siblings too             *)
session_close_single_x11(id, cs) ==
  LET i == First(session_by_x11_channel(id))
      quiet == [cs EXCEPT ![id] = channel_cancel_cleanup(@)]
      others == SelectSeq(sessions[i].x11_chanids, LAMBDA x : x # id)
  IN  IF session_by_x11_channel(id) = {}
      THEN /\ fatal' = "session_close_single_x11"
           /\ UNCHANGED <<sessions, first_unused, chans, fds, monTtys, logins>>
      ELSE /\ chans' = Collected(FoldLeft(session_close_x11, quiet, others), id)
           /\ sessions' = [sessions EXCEPT ![i] = ForgetX11(@)]
           /\ UNCHANGED <<first_unused, fds, monTtys, logins, fatal>>

channel_garbage_collect(c) ==
  LET ch == chans[c]
      noticed == chan_is_dead(ch, ch.do_close)
      cs == [chans EXCEPT ![c].sent = noticed.sent]
  IN  /\ procs = "up" /\ fatal = NONE
      /\ ch.type # "free"
      /\ CASE ch.cb = "session_close_by_channel" /\ noticed.dead ->
                session_close_by_channel(c, cs) /\ UNCHANGED fatal
           [] ch.cb = "session_close_single_x11" /\ noticed.dead -> session_close_single_x11(c, cs)
           [] OTHER -> /\ chans' = IF ch.cb = NONE THEN Collected(chans, c) ELSE cs
                       /\ UNCHANGED <<sessions, first_unused, fds, monTtys, logins, fatal>>
      /\ UNCHANGED <<setup, progs, agent, procs, failures>>

(***************************************************************************)
(* The end of the connection.  The server process leaves its loop and      *)
(* gives every session up, or dies: in fatal(), which runs do_cleanup(),   *)
(* or killed.  The monitor then closes what its own table still holds.     *)
(***************************************************************************)
session_destroy_all ==
  LET used == {i \in DOMAIN sessions : sessions[i].used /\ sessions[i].ttyfd # -1}
      ttys == {sessions[i].tty : i \in used}
  IN  /\ monTtys' = [i \in DOMAIN monTtys |-> IF monTtys[i] \in ttys THEN NoTty ELSE monTtys[i]]
      /\ logins' = logins \ ttys

server_loop2_ends ==
  /\ procs = "up" /\ fatal = NONE
  /\ session_destroy_all
  /\ sessions' = [i \in DOMAIN sessions |-> Unused(0)]
  /\ chans' = [c \in DOMAIN chans |-> FreeChan]
  /\ fds' = [n \in DOMAIN fds |-> Closed]
  /\ agent' = [agent EXCEPT !.sock = FALSE]      \* do_cleanup()
  /\ procs' = "monitor"
  /\ UNCHANGED <<setup, first_unused, progs, failures, fatal>>

ServerDies(cleanup) ==
  /\ procs = "up"
  /\ fatal # NONE => cleanup
  /\ agent' = [agent EXCEPT !.sock = @ /\ ~cleanup]
  /\ procs' = "monitor"
  /\ fds' = [n \in DOMAIN fds |-> Closed]
  /\ UNCHANGED <<setup, sessions, first_unused, chans, progs, monTtys, logins, failures, fatal>>

(* mm_answer_term(), or do_cleanup() of the monitor when its pipe is closed *)
MonitorEnds ==
  /\ procs = "monitor"
  /\ monTtys' = [i \in DOMAIN monTtys |-> NoTty]
  /\ logins' = logins \ Range(monTtys)
  /\ procs' = "gone"
  /\ UNCHANGED <<setup, sessions, first_unused, chans, fds, progs, agent, failures, fatal>>

SesInit(S) ==
  /\ setup \in S
  /\ sessions = <<>> /\ first_unused = 0
  /\ chans = [c \in 1..MaxChannels |-> FreeChan]
  /\ fds = [n \in 1..MaxFd |-> Closed]
  /\ progs = <<>>
  /\ monTtys = [i \in 1..MaxSessions |-> NoTty]
  /\ logins = {}
  /\ agent = [called |-> FALSE, sock |-> FALSE]
  /\ procs = "up" /\ failures = 0 /\ opened = 0 /\ fatal = NONE
  /\ astray = {}

(* session_input_channel_req(): setup.wants is what the client asks for    *)
session_input_channel_req(i) ==
  \/ \E how \in {"ok", "fails"} :
       \/ "shell" \in setup.wants /\ session_shell_req(i, how)
       \/ "exec" \in setup.wants /\ session_exec_req(i, how)
       \/ "pty-req" \in setup.wants /\ session_pty_req(i, how)
       \/ "auth-agent-req" \in setup.wants /\ session_auth_agent_req(i, how)
       \/ /\ "subsystem" \in setup.wants
          /\ \E name \in {"sftp", "unknown"} : session_subsystem_req(i, name, how)
  \/ "x11-req" \in setup.wants /\ \E single \in BOOLEAN : session_x11_req(i, single)
  \/ "window-change" \in setup.wants /\ session_window_change_req(i)
  \/ "env" \in setup.wants /\ \E name \in setup.accept_env : session_env_req(i, name)

SessionEvent ==
  \/ \E c \in DOMAIN chans : channel_input_oclose(c) \/ chan_read_failed(c)
                             \/ channel_post_x11_listener(c) \/ channel_garbage_collect(c)
  \/ \E pid \in DOMAIN progs : ProgramExits(pid) \/ collect_children(pid)
  \/ server_loop2_ends \/ MonitorEnds
  \/ \E cleanup \in BOOLEAN : ServerDies(cleanup)

SessionStep ==
  \/ server_request_session /\ UNCHANGED astray
  \/ (\E i \in DOMAIN sessions : session_input_channel_req(i)) /\ UNCHANGED opened
  \/ SessionEvent /\ UNCHANGED <<opened, astray>>
=============================================================================
