----------------------------- MODULE ClientLoop -----------------------------
(***************************************************************************)
(* The main loop of ssh and what the user sees of it (clientloop.c, the    *)
(* session part of ssh.c, sshtty.c): the terminal and its modes, escapes,  *)
(* signals, going to the background (-f, ~&, ControlPersist) and the end   *)
(* of an idle master.  Session 0 is the program's own; the others are      *)
(* those of mux clients.  The channels and packets below are Channels and  *)
(* Transport; here a channel is open or not.                               *)
(***************************************************************************)
EXTENDS Integers, Sequences, FiniteSets

CONSTANTS
  Slaves,       \* mux clients, each with one session
  LoopConfs,    \* options: pty, tty_forced, no_shell, persist (timeout or 0), alive, fork, rforwards,
                \* exit_on_failure; types: bound on the characters typed
  AliveCountMax,\* options.server_alive_count_max
  OneTypist,    \* only one session is typed in
  MaxClock,     \* bound on the time
  MaxAsides     \* bound on what happens besides: signals, replies, window changes, forks that fail

VARIABLES
  lconf,    \* the options of this run of ssh
  lp,       \* the process
  tty,      \* the terminal: raw, its size, and the size the server was told
  typed,    \* session -> what the user typed
  passed    \* session -> what was put into the channel's input buffer
loopVars == <<lconf, lp, tty, typed, passed>>

Own == 0
LoopSessions == {Own} \cup Slaves
Never == -1

NewLoop ==
  [pc |-> "start", quit |-> FALSE, signal |-> FALSE, closed |-> FALSE, why |-> "", need_rekeying |-> FALSE, winch |-> FALSE,
   exit_time |-> 0, open |-> {}, pending |-> [s \in LoopSessions |-> FALSE], cr |-> TRUE, s |-> Own, rest |-> <<>>,
   bg |-> FALSE, ports |-> TRUE, rekeying |-> FALSE, timeouts |-> 0, refused |-> FALSE, resumed |-> FALSE, mux |-> FALSE, shell |-> FALSE, pty |-> FALSE, fork |-> FALSE, detach |-> FALSE,
   confirms |-> 0, forks |-> 0, clock |-> 1, busy |-> 1, asides |-> 0]
LoopInit(confs) ==
  /\ lconf \in confs /\ lp = NewLoop
  /\ tty = [raw |-> FALSE, size |-> 0, told |-> 0]
  /\ typed = [s \in LoopSessions |-> <<>>] /\ passed = [s \in LoopSessions |-> <<>>]

Set(f, v) == [lp EXCEPT ![f] = v]
channel_still_open == lp.open # {}
leave_raw_mode(t) == [t EXCEPT !.raw = FALSE]
enter_raw_mode(t) == [t EXCEPT !.raw = TRUE]
KeepInput == UNCHANGED <<lconf, typed, passed>>

-----------------------------------------------------------------------------
(* Starting a session, in the foreground or not. *)
(* The child goes on; with a control socket the parent becomes a client of *)
(* it, otherwise it exits.  The terminal is then no longer this process's. *)
control_persist_detach(l) == [l EXCEPT !.bg = TRUE, !.detach = FALSE, !.open = IF Slaves = {} THEN @ ELSE @ \cup {CHOOSE s \in Slaves : TRUE}]
fork_postauth(l) ==
  LET d == IF l.detach THEN control_persist_detach(l) ELSE l
  IN  [d EXCEPT !.bg = TRUE, !.fork = FALSE, !.forks = @ + 1]
ssh_session2_open(l) == [l EXCEPT !.open = @ \cup {Own}]
(* client_loop up to its loop; a process in the background has no terminal *)
client_loop_start(l, t) == IF l.pty THEN enter_raw_mode(t) ELSE t
ssh_session2(listening) ==
  LET persist == lconf.persist # Never /\ listening
      l == [lp EXCEPT !.mux = listening, !.pty = lconf.pty /\ ~persist, !.shell = ~lconf.no_shell /\ ~persist,
                      !.detach = persist /\ ~lconf.fork, !.fork = lconf.fork \/ persist]
      m == IF l.shell THEN ssh_session2_open(l) ELSE l
      n == IF m.fork /\ ~(lconf.exit_on_failure /\ lconf.rforwards > 0) THEN fork_postauth(m) ELSE m
  IN  /\ lp.pc = "start"
      /\ lp' = [n EXCEPT !.pc = "top"]
      /\ tty' = client_loop_start(n, tty)
      /\ KeepInput

(* What the server sends is taken at the top of the loop; during a key     *)
(* exchange it sends nothing of this, and channels are left alone.         *)
Aside == lp.asides < MaxAsides
Exits(why) == [lp EXCEPT !.pc = "exited", !.why = why, !.open = {}]
Serving == lp.pc = "top" /\ ~lp.rekeying
ssh_confirm_remote_forward(ok) ==
  LET l == [lp EXCEPT !.confirms = @ + 1, !.asides = @ + 1]
  IN  /\ Serving /\ lp.confirms < lconf.rforwards /\ Aside
      /\ IF ~ok /\ lconf.exit_on_failure
         THEN lp' = [l EXCEPT !.pc = "exited", !.why = "fatal", !.open = {}] /\ tty' = leave_raw_mode(tty)
         ELSE /\ lp' = IF l.confirms = lconf.rforwards /\ l.fork THEN fork_postauth(l) ELSE l
              /\ UNCHANGED tty
      /\ KeepInput
(* The channel of a session is gone; for that of a mux client its cleanup  *)
(* callback is another, which leaves this state alone.                     *)
client_channel_closed(s) ==
  /\ Serving /\ s \in lp.open
  /\ lp' = [lp EXCEPT !.open = @ \ {s}, !.closed = @ \/ s = Own]
  /\ tty' = IF s = Own THEN leave_raw_mode(tty) ELSE tty
  /\ KeepInput
(* The server refuses the pty of the own session: the end of ssh when the  *)
(* user asked for one, otherwise the session goes on without it.  For a mux *)
(* client's session this is another terminal (mux_tty_alloc_failed).       *)
client_status_confirm ==
  /\ Serving /\ lp.pty /\ Own \in lp.open /\ ~lp.refused /\ Aside
  /\ lp' = IF lconf.tty_forced THEN Exits("fatal") ELSE [lp EXCEPT !.refused = TRUE, !.asides = @ + 1]
  /\ tty' = leave_raw_mode(tty) /\ KeepInput
(* ssh -O stop *)
client_stop_mux ==
  /\ Serving /\ lp.mux /\ lp.open \cap Slaves # {} /\ Aside
  /\ lp' = [lp EXCEPT !.mux = FALSE, !.closed = @ \/ lconf.persist # Never \/ ~lp.shell, !.asides = @ + 1]
  /\ UNCHANGED tty /\ KeepInput

-----------------------------------------------------------------------------
(* The loop. *)
set_control_persist_exit_time(l) ==
  IF ~l.mux \/ lconf.persist \in {Never, 0} THEN 0
  ELSE IF l.open # {} THEN 0
  ELSE IF l.exit_time <= 0 THEN l.clock + lconf.persist ELSE l.exit_time
client_check_window_change(t) == IF lp.winch THEN [t EXCEPT !.told = t.size] ELSE t
(* From the top of the loop to just before select().  A key exchange under *)
(* way, or one that the user asks for, leaves the window change for later.  *)
Ends(why) == lp' = [lp EXCEPT !.pc = "ending", !.why = why] /\ UNCHANGED tty
client_loop ==
  /\ lp.pc = "top" /\ KeepInput
  /\ IF lp.quit THEN Ends("quit")
     ELSE IF lp.closed /\ ~channel_still_open THEN Ends("closed")
     ELSE LET l == IF lp.rekeying THEN lp
                   ELSE IF lp.need_rekeying THEN [lp EXCEPT !.need_rekeying = FALSE, !.rekeying = TRUE]
                   ELSE Set("winch", FALSE)
          IN  /\ tty' = IF lp.rekeying \/ lp.need_rekeying \/ Own \notin lp.open THEN tty
                        ELSE client_check_window_change(tty)
              /\ lp' = [l EXCEPT !.pc = "before", !.exit_time = set_control_persist_exit_time(l),
                                 !.busy = IF l.open # {} THEN l.clock ELSE @]
(* In select(). *)
EnterSelect == lp.pc = "before" /\ lp' = Set("pc", "select") /\ UNCHANGED tty /\ KeepInput
(* The server has been silent for an interval. *)
server_alive_check ==
  IF lp.timeouts + 1 > AliveCountMax
  THEN lp' = Exits("silent") /\ tty' = leave_raw_mode(tty)      \* cleanup_exit()
  ELSE lp' = [lp EXCEPT !.pc = "after", !.timeouts = @ + 1] /\ UNCHANGED tty
client_wait_until_can_do_something(event) ==
  /\ lp.pc = "select" /\ KeepInput
  /\ \/ event = "timeout" /\ lp.exit_time > 0 /\ lp.clock >= lp.exit_time
        /\ lp' = Set("pc", "after") /\ UNCHANGED tty
     \/ event = "silent" /\ lconf.alive /\ server_alive_check
     \* the answer to a keepalive, which the server gets after the key exchange
     \/ event = "reply" /\ lp.timeouts > 0 /\ ~lp.rekeying
        /\ lp' = [lp EXCEPT !.pc = "after", !.timeouts = 0] /\ UNCHANGED tty
     \* the server starts a key exchange, or takes part in one to its end
     \/ event = "kex" /\ ~lp.rekeying /\ Aside
        /\ lp' = [lp EXCEPT !.pc = "after", !.rekeying = TRUE, !.timeouts = 0, !.asides = @ + 1] /\ UNCHANGED tty
     \/ event = "newkeys" /\ lp.rekeying
        /\ lp' = [lp EXCEPT !.pc = "after", !.rekeying = FALSE, !.timeouts = 0] /\ UNCHANGED tty
     \* client_process_net_input: the server has closed the connection
     \/ event = "eof" /\ Aside /\ lp' = [lp EXCEPT !.pc = "after", !.asides = @ + 1, !.quit = TRUE] /\ UNCHANGED tty
     \* channel_post_mux_listener
     \/ event = "accept" /\ lp.mux /\ ~lp.rekeying
        /\ \E s \in Slaves \ lp.open : lp' = [lp EXCEPT !.pc = "after", !.open = @ \cup {s}] /\ UNCHANGED tty
(* The user types in a session, and the characters are read together. *)
TypedTotal == Cardinality(UNION {{s} \X DOMAIN typed[s] : s \in LoopSessions})
Types(s, chunk) ==
  /\ lp.pc = "select" /\ ~lp.rekeying /\ s \in lp.open /\ (s = Own => ~lp.bg /\ lp.pty)
  /\ TypedTotal + Len(chunk) <= lconf.types
  /\ OneTypist => \A o \in LoopSessions \ {s} : typed[o] = <<>>
  /\ lp' = [lp EXCEPT !.pc = "escapes", !.s = s, !.rest = chunk]
  /\ typed' = [typed EXCEPT ![s] = @ \o chunk]
  /\ UNCHANGED <<lconf, tty, passed>>
client_process_net_input ==
  /\ lp.pc = "after" /\ KeepInput /\ UNCHANGED tty
  /\ lp' = IF lp.quit THEN [lp EXCEPT !.pc = "ending", !.why = "quit"]
           ELSE IF lp.exit_time > 0 /\ lp.clock >= lp.exit_time THEN [lp EXCEPT !.pc = "ending", !.why = "persist"]
           ELSE Set("pc", "top")
(* The end: DISCONNECT is sent, the terminal put back. *)
client_loop_end ==
  /\ lp.pc = "ending" /\ KeepInput
  /\ lp' = [lp EXCEPT !.pc = "exited", !.open = {}]
  /\ tty' = IF lp.pty \/ lp.signal THEN leave_raw_mode(tty) ELSE tty

-----------------------------------------------------------------------------
(* Escapes: one character of what was read. *)
Pass(l, chars, cr) ==
  /\ passed' = [passed EXCEPT ![l.s] = @ \o chars]
  /\ lp' = [l EXCEPT !.cr = cr]
Newline == "n"
Ignored == {"B", "V", "#", "?"}    \* those that send a break, or write to the user
Here(l) == l.s = Own
(* Mutant: suspended with the terminal as it is. *)
client_suspend_self_raw(l, t) == <<[l EXCEPT !.pc = "stopped", !.winch = TRUE], t>>
client_suspend_self(l, t) == <<[l EXCEPT !.pc = "stopped", !.winch = TRUE], leave_raw_mode(t)>>
(* "~&": the own session's input is closed, and a control character sent.  *)
(* channel_stop_listening() closes the ports, not the control socket.      *)
Backgrounded(l, forked) ==
  /\ Here(l)
  /\ tty' = leave_raw_mode(tty)
  /\ IF forked THEN /\ lp' = [l EXCEPT !.bg = TRUE, !.ports = FALSE, !.rest = <<>>, !.forks = @ + 1]
                    /\ passed' = [passed EXCEPT ![Own] = @ \o <<"^D">>]
     ELSE Aside /\ lp' = [l EXCEPT !.ports = FALSE, !.asides = @ + 1] /\ UNCHANGED passed
EscapeCommand(l, ch) ==
  \/ /\ ch = "." /\ UNCHANGED passed
     /\ IF Here(l) THEN lp' = [l EXCEPT !.quit = TRUE, !.rest = <<>>] /\ UNCHANGED tty
        ELSE lp' = [l EXCEPT !.open = @ \ {l.s}, !.rest = <<>>] /\ UNCHANGED tty    \* the channel is abandoned
  \/ /\ ch = "Z" /\ UNCHANGED passed
     /\ IF Here(l) THEN lp' = client_suspend_self(l, tty)[1] /\ tty' = client_suspend_self(l, tty)[2]
        ELSE lp' = l /\ UNCHANGED tty
  \/ /\ ch = "&"
     /\ IF Here(l) THEN \E forked \in BOOLEAN : Backgrounded(l, forked) ELSE lp' = l /\ UNCHANGED <<tty, passed>>
  \/ ch = "R" /\ lp' = [l EXCEPT !.need_rekeying = TRUE] /\ UNCHANGED <<tty, passed>>
  \/ /\ ch = "C" /\ UNCHANGED passed
     /\ IF Here(l) THEN lp' = [l EXCEPT !.pc = "cmdline"] /\ tty' = leave_raw_mode(tty) ELSE lp' = l /\ UNCHANGED tty
  \/ ch \in Ignored /\ lp' = l /\ UNCHANGED <<tty, passed>>
Commands == {".", "Z", "&", "R", "C"} \cup Ignored
process_escapes ==
  LET ch == Head(lp.rest)
      l  == [lp EXCEPT !.rest = Tail(@)]
      e  == [l EXCEPT !.pending[l.s] = FALSE]
  IN  /\ lp.pc = "escapes" /\ lp.rest # <<>> /\ UNCHANGED <<lconf, typed>>
      /\ IF lp.pending[lp.s]
         THEN IF ch \in Commands THEN EscapeCommand(e, ch)
              ELSE Pass(e, IF ch = "~" THEN <<ch>> ELSE <<"~", ch>>, ch = Newline) /\ UNCHANGED tty
         ELSE IF lp.cr /\ ch = "~" THEN lp' = [l EXCEPT !.pending[l.s] = TRUE] /\ UNCHANGED <<tty, passed>>
         ELSE Pass(l, <<ch>>, ch = Newline) /\ UNCHANGED tty
EscapesDone == lp.pc = "escapes" /\ lp.rest = <<>> /\ lp' = Set("pc", "after") /\ UNCHANGED tty /\ KeepInput
(* The user continues the program (fg), or is done with the command line   *)
(* that process_cmdline asked for.                                         *)
Continued ==
  /\ lp.pc \in {"stopped", "cmdline"} /\ KeepInput
  /\ lp' = [lp EXCEPT !.pc = "escapes", !.resumed = TRUE] /\ tty' = enter_raw_mode(tty)

-----------------------------------------------------------------------------
(* Signals, and time, which only the exit of an idle master looks at. *)
Caught == lp.pc \in {"top", "before", "select", "after"}
Interrupted == IF lp.pc = "select" THEN "after" ELSE lp.pc     \* select fails with EINTR
signal_handler ==
  /\ Caught /\ ~lp.signal /\ Aside
  /\ lp' = [lp EXCEPT !.signal = TRUE, !.quit = TRUE, !.pc = Interrupted, !.asides = @ + 1]
  /\ UNCHANGED tty /\ KeepInput
window_change_handler ==
  /\ Caught /\ ~lp.bg /\ Aside
  /\ lp' = [lp EXCEPT !.winch = TRUE, !.pc = Interrupted, !.asides = @ + 1]
  /\ tty' = [tty EXCEPT !.size = @ + 1] /\ KeepInput
LoopTick == lp.pc = "select" /\ lconf.persist > 0 /\ lp.clock < MaxClock /\ lp' = Set("clock", lp.clock + 1) /\ UNCHANGED tty /\ KeepInput
=============================================================================
