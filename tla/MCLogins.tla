------------------------------ MODULE MCLogins ------------------------------
(***************************************************************************)
(* A login on the server, in three scenarios: a client authenticates to    *)
(* the child and its monitor ("auth"), the sessions of an authenticated    *)
(* connection ("sessions"), and the terminal modes of a pty request        *)
(* between two systems ("tty").                                            *)
(***************************************************************************)
EXTENDS Auth, Session, TtyModes

VARIABLE scenario
vars == <<authvars, sesvars, ttyVars, scenario>>

E(m) == [m |-> m, sub |-> ""]
PamEntry == [m |-> "keyboard-interactive", sub |-> "pam"]

AuthBase ==
    [lists |-> <<>>, enabled |-> {"password", "publickey", "hostbased"},
     max_authtries |-> 3, use_pam |-> FALSE, permit_empty |-> FALSE,
     banner |-> TRUE, root_login |-> "prohibit-password", valid |-> TRUE,
     root |-> FALSE, no_password |-> FALSE, keys |-> {"k1", "k2"},
     forced |-> {"k1"}, hostkeys |-> {"h1"}]
WithPam ==
    [AuthBase EXCEPT !.use_pam = TRUE, !.banner = FALSE,
                 !.enabled = {"password", "publickey", "keyboard-interactive"}]
Root(o, l) == [o EXCEPT !.root = TRUE, !.root_login = l]

\* One method, several methods, PAM, root under each PermitRootLogin, a user that
\* does not exist, an account without a password.
Usual ==
    {AuthBase, WithPam, [AuthBase EXCEPT !.valid = FALSE], [WithPam EXCEPT !.valid = FALSE],
     [AuthBase EXCEPT !.lists = << <<E("publickey"), E("password")>>,
                               <<E("publickey"), E("publickey")>>,
                               <<E("keyboard-interactive")>> >>],
     [WithPam EXCEPT !.lists = << <<PamEntry, E("publickey")>>,
                                  <<E("password"), E("keyboard-interactive")>> >>],
     [AuthBase EXCEPT !.lists = << <<E("keyboard-interactive")>> >>],
     Root([AuthBase EXCEPT !.lists = << <<E("publickey"), E("publickey")>>,
                                    <<E("publickey")>> >>], "forced-commands-only"),
     [AuthBase EXCEPT !.no_password = TRUE, !.permit_empty = TRUE],
     [WithPam EXCEPT !.no_password = TRUE, !.permit_empty = TRUE,
                     !.lists = << <<E("password"), E("publickey")>>,
                                  <<E("none"), PamEntry, E("publickey")>>,
                                  <<PamEntry, E("password")>> >>]}
    \cup {Root(o, l) : o \in {AuthBase, WithPam},
                       l \in {"yes", "prohibit-password", "forced-commands-only", "no"}}

Base ==
  [wants |-> {}, adm_forced |-> NONE, key_forced |-> NONE, chroot |-> <<>>, nologin |-> FALSE,
   use_pam |-> FALSE, pam_session |-> TRUE, root |-> FALSE, force_pwchange |-> FALSE,
   permit_user_rc |-> TRUE, user_rc |-> TRUE, system_rc |-> FALSE, key_env |-> <<>>, user_env |-> <<>>,
   permit_tty |-> TRUE, x11_forwarding |-> TRUE, allow_agent |-> TRUE, accept_env |-> {},
   subsystems |-> [sftp |-> "internal-sftp"], opens |-> 3]
BadPath == <<[uid |-> 0, writable |-> FALSE, dir |-> TRUE], [uid |-> 1, writable |-> FALSE, dir |-> TRUE]>>
\* A chroot directory, a password that has expired, PermitTTY no.
Plain == [c |-> <<>>, w |-> FALSE, t |-> TRUE]
Surroundings ==
  {Plain, [Plain EXCEPT !.w = TRUE], [Plain EXCEPT !.w = TRUE, !.t = FALSE], [Plain EXCEPT !.c = BadPath]}
Setups ==
  {[Base EXCEPT !.wants = {"pty-req", "shell", "window-change"}, !.opens = 2],
   [Base EXCEPT !.wants = {"x11-req", "exec"}, !.opens = 2]}
  \cup {[Base EXCEPT !.wants = {"pty-req", "shell", "exec", "subsystem", "auth-agent-req", "env"},
           !.opens = 1, !.accept_env = {"LANG", "USER"}, !.adm_forced = f, !.key_forced = g,
           !.chroot = x.c, !.force_pwchange = x.w, !.permit_tty = x.t, !.x11_forwarding = FALSE]
         : f \in {NONE, "internal-sftp"}, g \in {NONE, "backup"}, x \in Surroundings}

\* Two systems with different modes and different values for "disabled".
MCSystems ==
  [sysA |-> [ops |-> {1, 3, 7, 42, 50, 90, 91}, speeds |-> {9600, 38400}, vdisable |-> 0],
   sysB |-> [ops |-> {1, 3, 50, 90, 91}, speeds |-> {9600, 115200}, vdisable |-> 255]]
Termios(s) ==
  {[none |-> FALSE, ispeed |-> sp, ospeed |-> sp, csize |-> cs, flags |-> fl,
    cc |-> [op \in TtyChars |-> IF op = 3 THEN c ELSE IF op = 1 THEN s.vdisable ELSE 7]]
    : sp \in s.speeds, cs \in {{}, {2}, {1, 2}}, fl \in {{}, {50}, {42}} , c \in {0, 3, 255}}
NoTermios == [none |-> TRUE, ispeed |-> 0, ospeed |-> 0, csize |-> {}, flags |-> {},
              cc |-> [op \in TtyChars |-> 0]]
MCTerminals ==
  [sysA |-> Termios(MCSystems.sysA) \cup {NoTermios}, sysB |-> Termios(MCSystems.sysB)]
\* An unknown mode, an opcode without an argument, a length that is too long.
MCModeStrings ==
  {[items |-> <<Item(3, 9), Item(120, 1), Item(50, 1)>>, len |-> 16],
   [items |-> <<Item(3, 9), Item(200, 1), Item(50, 1)>>, len |-> 16],
   [items |-> <<Item(193, 38400), Item(50, 1)>>, len |-> 11], [items |-> <<Item(3, 9)>>, len |-> 9]}

Init ==
  /\ scenario \in {"auth", "sessions", "tty"}
  /\ AuthInit(IF scenario = "auth" THEN Configs ELSE {AuthBase})
  /\ SesInit(IF scenario = "sessions" THEN Setups ELSE {Base})
  /\ IF scenario = "tty" THEN TtyInit([client : DOMAIN Systems, server : DOMAIN Systems])
     ELSE /\ ttySides = [client |-> "sysA", server |-> "sysA"] /\ ttyLocal = NoTermios
          /\ ttyPty = NoTermios /\ ttyOld = NoTermios /\ ttySent = [items |-> <<>>, len |-> 0]

(* The connection is over, or the request has been served                   *)
Done ==
  /\ \/ scenario = "auth" /\ (down # "none" \/ LoggedIn)
     \/ scenario = "sessions" /\ procs = "gone"
     \/ scenario = "tty" /\ ttySent.len # 0
  /\ UNCHANGED vars

Next ==
  \/ scenario = "auth" /\ AuthStep /\ UNCHANGED <<sesvars, ttyVars, scenario>>
  \/ scenario = "sessions" /\ SessionStep /\ UNCHANGED <<authvars, ttyVars, scenario>>
  \/ scenario = "tty" /\ TtyStep /\ UNCHANGED <<authvars, sesvars, scenario>>
  \/ Done

Spec == Init /\ [][Next]_vars

-----------------------------------------------------------------------------

Ttys == {sessions[i].tty : i \in {j \in DOMAIN sessions : sessions[j].used /\ sessions[j].ttyfd # -1}}
(* The monitor's table, the server process's table and the login records    *)
(* name the same ptys whenever no request is under way, and no login record *)
(* outlives the connection (session_pty_cleanup2, mm_answer_pty_cleanup,    *)
(* mm_session_close).                                                       *)
TablesAgree ==
  /\ procs = "up" => logins = Ttys /\ Range(monTtys) \ {NoTty} = Ttys
  /\ procs = "gone" => logins = {}

(* A program runs on the pty of its own session and no two live programs    *)
(* share one, what a channel reads and writes is its session's pty, and so  *)
(* is the terminal a window-change sets the size of, although descriptors   *)
(* and ptys are reused as sessions come and go (do_exec_pty,                *)
(* session_set_fds, session_window_change_req, session_close).  Two         *)
(* exceptions, where the code keeps the number of a descriptor it has       *)
(* closed: a client that asks for a program again in a session whose        *)
(* do_exec_pty() has failed gets whatever pty took over the numbers         *)
(* (astray), and a window-change after such a failure, or after the channel *)
(* has closed its end, may resize another session's terminal.               *)
OwnTerminal ==
  "exec" \notin astray =>
  /\ \A i, j \in DOMAIN progs :
       /\ progs[i].tty = progs[i].session
       /\ i # j /\ progs[i].st = "alive" /\ progs[j].st = "alive" =>
            progs[i].tty = NoTty \/ progs[i].tty # progs[j].tty
  /\ procs = "up" =>
       \A i \in DOMAIN sessions :
         LET s == sessions[i]  c == chans[s.chanid]
         IN  s.used /\ s.ttyfd # -1 =>
               /\ c.type = "larval" /\ ~s.failed => fds[s.ptyfd] = <<"master", s.tty>>
                                                   /\ fds[s.ttyfd] = <<"slave", s.tty>>
               /\ c.wfd # -1 => TtyOf(fds, s.ptyfd) = s.tty
               /\ c.wfd # -1 => TtyOf(fds, c.wfd) = s.tty
               /\ c.rfd # -1 => TtyOf(fds, c.rfd) = s.tty

(* Whatever the client asks for, and in whatever order: a forced command is *)
(* what runs, nothing runs outside a chroot that is not safe or before an   *)
(* expired password is changed, and the environment the client sends does   *)
(* not reach the variables the server sets (do_exec, do_child,              *)
(* do_setup_env, safely_chroot).                                            *)
Confined ==
  \A i \in DOMAIN progs :
    LET p == progs[i]
        forced == IF setup.adm_forced # NONE THEN setup.adm_forced ELSE setup.key_forced
    IN  /\ p.run \notin {"refused", "passwd"} =>
             /\ forced # NONE => p.run = forced
             /\ setup.chroot # BadPath /\ ~setup.force_pwchange
        /\ p.env["USER"] = "user"
        /\ "SSH_ORIGINAL_COMMAND" \in DOMAIN p.env => forced # NONE
(* Every X11 listener belongs to exactly one session, so that closing it    *)
(* with single-connection set finds whose it is (session_by_x11_channel,    *)
(* session_close_single_x11).                                               *)
X11Owned ==
  /\ fatal # "session_close_single_x11"
  /\ procs = "up" =>
     \A c \in DOMAIN chans : chans[c].type = "x11" => Cardinality(session_by_x11_channel(c)) = 1

(* The sessions of a connection and what they own (TablesAgree,             *)
(* OwnTerminal, X11Owned).                                                  *)
SessionsSound == TablesAgree /\ OwnTerminal /\ X11Owned
=============================================================================
