------------------------------ MODULE Listener ------------------------------
(***************************************************************************)
(* The listening sshd (sshd.c): its select loop, the startup pipes that    *)
(* count the connections that are not authenticated yet, MaxStartups, its  *)
(* signals and its restart; and of every connection the process [priv],    *)
(* its unprivileged child [net] and the LoginGraceTime alarm.              *)
(*                                                                         *)
(* The write end of a startup pipe is held by [priv] and, once it is       *)
(* forked, by [net]: the listener sees the end of the pipe when the last   *)
(* of them closes it or dies.                                              *)
(***************************************************************************)
EXTENDS Naturals, FiniteSets

CONSTANTS
    Conns,              \* connections that clients may make
    NoConn,
    max_startups, max_startups_begin, max_startups_rate,
    use_privsep,        \* UsePrivilegeSeparation
    login_grace_time,   \* FALSE: LoginGraceTime 0, no limit
    rexec_flag,         \* children execute sshd again
    acquires_ctty,      \* built with SSHD_ACQUIRES_CTTY: no setsid()
    MaxRestarts         \* bound: SIGHUPs that the listener acts upon

\* servconf.c refuses begin > max and a rate outside 1 .. 100.
ASSUME ListenAssumption ==
    /\ max_startups \in Nat /\ max_startups_begin \in 0 .. max_startups
    /\ max_startups_rate \in 1 .. 100
    /\ use_privsep \in BOOLEAN /\ login_grace_time \in BOOLEAN
    /\ rexec_flag \in BOOLEAN /\ acquires_ctty \in BOOLEAN /\ MaxRestarts \in Nat
    /\ NoConn \notin Conns

Slots == 0 .. max_startups - 1

VARIABLES
    pc,             \* where the listener is: top, select, pipes, accept, exited
    startup_pipes,  \* slot -> the connection whose pipe it is, or NoConn
    startups,
    fdset,          \* what select() reported: [pipes, listening]
    received,       \* signals whose handlers have run
    eintr,          \* a signal arrived during select()
    backlog,        \* connections that wait for accept()
    generation,     \* how often the listener has executed itself
    conn            \* connection -> its processes

listener == <<pc, startup_pipes, startups, fdset, received, eintr, generation>>
listenvars == <<listener, backlog, conn>>

\* A connection: the phase of [priv], the state of [net], whether [priv] has
\* stored the pid of [net], who holds the startup pipe, the listener that
\* accepted it, whether the alarm is set.
NewConn ==
    [phase |-> "unborn", net |-> "none", m_pid |-> FALSE, pipe |-> {},
     gen |-> 0, alarm |-> FALSE]

\* Refused, dropped, or all its processes are gone.
Gone == [NewConn EXCEPT !.phase = "gone"]

NothingReady == [pipes |-> {}, listening |-> FALSE]

ListenInit ==
    /\ pc = "top"
    /\ startup_pipes = [i \in Slots |-> NoConn]
    /\ startups = 0
    /\ fdset = NothingReady
    /\ received = {} /\ eintr = FALSE
    /\ backlog = {} /\ generation = 0
    /\ conn = [c \in Conns |-> NewConn]

----------------------------------------------------------------------------
(* The listener.                                                           *)

\* Mutant: off by one at the limit.
DropPercent_limit(n) ==
    IF n < max_startups_begin THEN 0
    ELSE IF n > max_startups \/ max_startups_rate = 100 THEN 100
    ELSE max_startups_rate
\* The outcomes of drop_connection(): the probability in per cent is 0 below
\* max_startups_begin, 100 from max_startups on, and linear in between.
DropPercent(n) ==
    IF n < max_startups_begin THEN 0
    ELSE IF n >= max_startups \/ max_startups_rate = 100 THEN 100
    ELSE max_startups_rate
         + ((100 - max_startups_rate) * (n - max_startups_begin))
           \div (max_startups - max_startups_begin)

drop_connection(n) ==
    {d \in BOOLEAN : IF d THEN DropPercent(n) > 0 ELSE DropPercent(n) < 100}

\* The pipes whose write end nobody holds any more.
AtEnd == {i \in Slots : /\ startup_pipes[i] # NoConn
                        /\ conn[startup_pipes[i]].pipe = {}}

\* execv() of itself on SIGHUP: listening sockets and pipes are closed, and the
\* new listener starts with an empty table; connections in the backlog are lost.
sighup_restart ==
    /\ \/ pc' = "top"
       \/ pc' = "exited"                    \* execv() or the new bind() fails
    /\ startup_pipes' = [i \in Slots |-> NoConn]
    /\ startups' = 0
    /\ received' = {} /\ eintr' = FALSE
    /\ generation' = generation + 1
    /\ fdset' = NothingReady
    /\ conn' = [c \in Conns |-> IF c \in backlog
                                THEN Gone ELSE conn[c]]
    /\ backlog' = {}

\* The top of the loop looks for a SIGHUP and builds the descriptor set.
LoopTop ==
    /\ pc = "top"
    /\ \/ "hup" \in received /\ sighup_restart
       \/ /\ "hup" \notin received
          /\ pc' = "select" /\ eintr' = FALSE
          /\ UNCHANGED <<startup_pipes, startups, fdset, received, generation,
                         backlog, conn>>

\* select() returns: a SIGTERM ends the listener, an interrupted call starts
\* over.
Select ==
    /\ pc = "select"
    /\ eintr \/ AtEnd # {} \/ backlog # {}
    /\ fdset' = IF eintr THEN NothingReady
                ELSE [pipes |-> AtEnd, listening |-> backlog # {}]
    /\ pc' = IF "term" \in received THEN "exited"
             ELSE IF eintr THEN "top" ELSE "pipes"
    /\ eintr' = FALSE
    /\ conn' = [c \in Conns |->
                  IF "term" \in received /\ c \in backlog
                  THEN Gone ELSE conn[c]]
    /\ backlog' = IF "term" \in received THEN {} ELSE backlog
    /\ UNCHANGED <<startup_pipes, startups, received, generation>>

\* Every pipe that is ready is closed and counted out.
CountOut ==
    /\ pc = "pipes"
    /\ startup_pipes' = [i \in Slots |-> IF i \in fdset.pipes THEN NoConn
                                         ELSE startup_pipes[i]]
    /\ startups' = startups - Cardinality(fdset.pipes)
    /\ pc' = IF fdset.listening THEN "accept" ELSE "top"
    /\ fdset' = NothingReady
    /\ UNCHANGED <<received, eintr, generation, backlog, conn>>

FreeSlots == {i \in Slots : startup_pipes[i] = NoConn}
FirstFree == CHOOSE i \in FreeSlots : \A j \in FreeSlots : i <= j

\* The connection gets the first free slot of the table, if there is one.
TakeSlot(c) ==
    IF FreeSlots = {} THEN UNCHANGED <<startup_pipes, startups>>
    ELSE /\ startup_pipes' = [startup_pipes EXCEPT ![FirstFree] = c]
         /\ startups' = startups + 1

\* A connection is accepted: it is dropped, or it gets a slot and a process; no
\* process if fork() fails, and then the pipe is at its end at once.
Accept ==
    /\ pc = "accept"
    /\ pc' = "top"
    /\ \/ UNCHANGED <<backlog, conn, startup_pipes, startups>>      \* accept() fails
       \/ \E c \in backlog :
            /\ backlog' = backlog \ {c}
            /\ \/ /\ TRUE \in drop_connection(startups)
                  /\ conn' = [conn EXCEPT ![c] = Gone]
                  /\ UNCHANGED <<startup_pipes, startups>>
               \/ /\ FALSE \in drop_connection(startups)
                  /\ conn' = [conn EXCEPT ![c] = Gone]   \* pipe() fails
                  /\ UNCHANGED <<startup_pipes, startups>>
               \/ /\ FALSE \in drop_connection(startups)
                  /\ TakeSlot(c)
                  /\ \/ conn' = [conn EXCEPT ![c] = [@ EXCEPT !.phase = "forked",
                                                !.pipe = {"priv"}, !.gen = generation]]
                     \/ conn' = [conn EXCEPT ![c] = Gone]         \* fork() fails
    /\ UNCHANGED <<fdset, received, eintr, generation>>

\* The signal handlers only set a flag.  One that runs between the test of the
\* flag and select() does not interrupt select().
Signal(s) ==
    /\ pc # "exited" /\ s \notin received
    /\ s = "hup" => generation < MaxRestarts
    /\ received' = received \cup {s}
    /\ eintr' = (eintr \/ pc = "select")
    /\ UNCHANGED <<pc, startup_pipes, startups, fdset, generation, backlog, conn>>

\* A client connects: without a listener the connection is refused.
Connect(c) ==
    /\ conn[c].phase = "unborn"
    /\ IF pc = "exited"
       THEN conn' = [conn EXCEPT ![c] = Gone] /\ UNCHANGED backlog
       ELSE /\ conn' = [conn EXCEPT ![c].phase = "backlog"]
            /\ backlog' = backlog \cup {c}
    /\ UNCHANGED listener

----------------------------------------------------------------------------
(* The processes of a connection.                                          *)

\* [priv] or [net] dies, and the kernel closes its descriptors.
Dead(r) ==
    IF r.net # "running" THEN Gone
    ELSE [r EXCEPT !.phase = "dead", !.alarm = FALSE, !.pipe = @ \ {"priv"}]
NetDead(r) ==
    IF r.phase = "dead" THEN Gone
    ELSE [r EXCEPT !.net = "exited", !.pipe = @ \ {"net"}]

\* fatal() in [priv]: cleanup_exit() kills [net] when its pid is known and the
\* authentication context exists, which it does once [net] has been forked.
cleanup_exit(r) ==
    Dead(IF r.net = "running" /\ r.m_pid THEN NetDead(r) ELSE r)

\* The new process executes sshd again and reads its configuration, or goes on
\* without; then it sets the alarm and reads the version of the client.
Startup(c) ==
    /\ conn[c].phase = "forked"
    /\ \/ conn' = [conn EXCEPT ![c] = [@ EXCEPT !.phase = "ident",
                                                !.alarm = login_grace_time]]
       \/ rexec_flag /\ conn' = [conn EXCEPT ![c] = Dead(@)]  \* recv_rexec_state
    /\ UNCHANGED <<listener, backlog>>

\* The version of the client is good or the process exits.  Without privilege
\* separation this process goes on to authenticate the user.
sshd_exchange_identification(c) ==
    /\ conn[c].phase = "ident"
    /\ \/ conn' = [conn EXCEPT ![c] = Dead(@)]
       \/ conn' = [conn EXCEPT ![c].phase = IF use_privsep THEN "privsep" ELSE "auth"]
    /\ UNCHANGED <<listener, backlog>>

\* [priv] forks [net]; it knows the pid only after fork() has returned.
privsep_preauth(c) ==
    /\ \/ /\ conn[c].phase = "privsep"
          /\ \/ conn' = [conn EXCEPT ![c] = [conn[c] EXCEPT !.phase = "forking",
                                  !.net = "running", !.pipe = @ \cup {"net"}]]
             \/ conn' = [conn EXCEPT ![c] = Dead(@)]          \* fork() fails
       \/ /\ conn[c].phase = "forking"
          /\ conn' = [conn EXCEPT ![c] = [@ EXCEPT !.phase = "auth", !.m_pid = TRUE]]
    /\ UNCHANGED <<listener, backlog>>

\* The client authenticates, gives up or goes away.  [net] hands its state over
\* and exits, [priv] reads it and waits for the exit; without [priv] there is
\* nobody [net] could ask.
NetEnds(c) ==
    /\ conn[c].net = "running"
    /\ \/ conn[c].phase = "auth"
          /\ conn' = [conn EXCEPT ![c] = [NetDead(@) EXCEPT !.phase = "waitpid"]]
       \/ conn' = [conn EXCEPT ![c] = NetDead(@)]
    /\ UNCHANGED <<listener, backlog>>

\* [priv] finds its channel to [net] closed in the middle of authentication.
monitor_read_eof(c) ==
    /\ conn[c].phase = "auth" /\ conn[c].net = "exited"
    /\ conn' = [conn EXCEPT ![c] = cleanup_exit(@)]
    /\ UNCHANGED <<listener, backlog>>

\* The user is authenticated: the alarm is cleared and the startup pipe closed.
Authenticated(c) ==
    /\ conn[c].phase = IF use_privsep THEN "waitpid" ELSE "auth"
    /\ conn' = [conn EXCEPT ![c] =
                  [conn[c] EXCEPT !.phase = "session", !.alarm = FALSE,
                                  !.pipe = @ \ {"priv"}, !.m_pid = FALSE,
                                  !.net = "none"]]
    /\ UNCHANGED <<listener, backlog>>

\* The process gives up or the session is over.
Exit(c) ==
    /\ conn[c].phase \in {"auth", "waitpid", "session"}
    /\ conn' = [conn EXCEPT ![c] = cleanup_exit(@)]
    /\ UNCHANGED <<listener, backlog>>

\* Mutant: only a [net] whose pid is known is told.
grace_alarm_handler_pid(c) ==
    /\ conn[c].alarm
    /\ conn' = [conn EXCEPT ![c] =
                  Dead(IF use_privsep /\ @.m_pid /\ @.net = "running"
                       THEN NetDead(@) ELSE @)]
    /\ UNCHANGED <<listener, backlog>>
\* LoginGraceTime is over: [priv] sends SIGALRM to [net] if it knows its pid, and
\* SIGTERM to its process group if setsid() has made it the leader, which reaches
\* [net] from the moment fork() has made it; then it exits without cleaning up.
\* alarm() is not inherited by [net].
grace_alarm_handler(c) ==
    /\ conn[c].alarm
    /\ conn' = [conn EXCEPT ![c] =
                  Dead(IF /\ @.net = "running"
                          /\ (use_privsep /\ @.m_pid) \/ ~acquires_ctty
                       THEN NetDead(@) ELSE @)]
    /\ UNCHANGED <<listener, backlog>>

ListenerStep == LoopTop \/ Select \/ CountOut \/ Accept

ListenStep ==
    \/ ListenerStep
    \/ \E s \in {"hup", "term"} : Signal(s)
    \/ \E c \in Conns :
         \/ Connect(c) \/ Startup(c) \/ sshd_exchange_identification(c)
         \/ privsep_preauth(c) \/ NetEnds(c) \/ monitor_read_eof(c)
         \/ Authenticated(c) \/ Exit(c) \/ grace_alarm_handler(c)

ListenSpec == ListenInit /\ [][ListenStep]_listenvars

\* The kernel runs every process that can run, and the alarm goes off.
ListenFair ==
    /\ WF_listenvars(ListenerStep)
    /\ \A c \in Conns :
         WF_listenvars(Startup(c)) /\ WF_listenvars(privsep_preauth(c))
         /\ WF_listenvars(monitor_read_eof(c)) /\ WF_listenvars(grace_alarm_handler(c))

----------------------------------------------------------------------------
Counted(c) == \E i \in Slots : startup_pipes[i] = c
Unauthenticated(r) ==
    r.phase \in {"forked", "ident", "privsep", "forking", "auth", "waitpid"}

\* startups is the number of slots in use, a slot is free whenever the random drop
\* lets a connection through (drop_connection compares with the same
\* max_startups the table has), and no
\* process of an unauthenticated connection that this listener accepted escapes
\* the count, not even one that outlives its parent (server_accept_loop).
StartupsExact ==
    /\ startups = Cardinality({i \in Slots : startup_pipes[i] # NoConn})
    /\ \A c \in Conns :
         /\ conn[c].gen = generation /\ pc # "exited" /\ c \notin backlog
              => (conn[c].pipe # {} => Counted(c))
         /\ Unauthenticated(conn[c]) => "priv" \in conn[c].pipe
         /\ conn[c].net = "running" => "net" \in conn[c].pipe
    /\ \A i, j \in Slots :
         startup_pipes[i] = startup_pipes[j] /\ startup_pipes[i] # NoConn => i = j
    /\ pc = "accept" /\ FALSE \in drop_connection(startups) => FreeSlots # {}

\* Connections are alike, so one stands for all of them in what follows.
AConn == CHOOSE c \in Conns : TRUE

\* No client can hold a startup slot for ever: whatever it does or leaves undone,
\* LoginGraceTime gives the slot back while the listener runs, also when the alarm
\* goes off between the fork() of privsep_preauth() and the store of the pid: the
\* signal to the process group reaches [net] then.  (With SSHD_ACQUIRES_CTTY
\* there is no such group, and a [net] that loses its parent there keeps the slot
\* until its client goes away.)
SlotsComeBack ==
    ~acquires_ctty => (Counted(AConn) ~> (~Counted(AConn) \/ pc = "exited"))

\* A SIGTERM is noticed at the latest when the next connection arrives, unless a
\* SIGHUP comes as well: execv() forgets it (server_accept_loop tests the flag
\* only after select() has returned).
TermNoticed ==
    \A g \in 0 .. MaxRestarts :
        ("term" \in received /\ AConn \in backlog /\ pc \in {"top", "select"} /\ generation = g)
        ~> (pc = "exited" \/ generation # g)

=============================================================================
