----------------------------- MODULE MCStartup ------------------------------
(***************************************************************************)
(* Before a user is logged in, in two scenarios: the listening sshd with   *)
(* its unauthenticated children ("listen"), and PAM in the monitor of one  *)
(* connection ("pam").                                                     *)
(***************************************************************************)
EXTENDS Pam, Listener

VARIABLE scenario
vars == <<pamvars, listenvars, scenario>>

PamSetups ==
  [valid : BOOLEAN, root_ok : {TRUE}, acct : {"ok", "newtok", "expired"},
   stack : {<<>>, <<<<"off">>>>, <<<<"info">>, <<"off", "on">>>>}]
  \cup {[valid |-> TRUE, root_ok |-> FALSE, acct |-> "ok", stack |-> <<<<"off">>>>]}

Init ==
  /\ scenario \in {"listen", "pam"}
  /\ PamInit(IF scenario = "pam" THEN PamSetups
             ELSE {[valid |-> TRUE, root_ok |-> TRUE, acct |-> "ok", stack |-> <<>>]})
  /\ ListenInit

(* The monitor has ended; the listener has stopped or is idle               *)
Done ==
  /\ \/ scenario = "pam" /\ pm.pc = "end"
     \/ scenario = "listen" /\ (pc = "exited" \/ \A c \in Conns : conn[c].phase = "gone")
  /\ UNCHANGED vars

Next ==
  \/ scenario = "pam" /\ PamStep /\ UNCHANGED <<listenvars, scenario>>
  \/ scenario = "listen" /\ ListenStep /\ UNCHANGED <<pamvars, scenario>>
  \/ Done

Spec ==
  /\ Init /\ [][Next]_vars
  /\ scenario = "pam" => PamFair
  /\ scenario = "listen" => ListenFair

-----------------------------------------------------------------------------
(* When the unprivileged process dies the monitor ends, even though it may  *)
(* be waiting for a thread whose modules never come back: the SIGCHLD       *)
(* handler kills the thread it waits for (sshpam_sigchld_handler).          *)
PamEnds == kb.st = "gone" ~> pm.pc = "end"

(* What must come to an end before a login: a startup slot that is taken, a *)
(* listener that was told to stop, a monitor whose child is gone            *)
(* (SlotsComeBack, TermNoticed, PamEnds).                                   *)
StartupEnds == SlotsComeBack /\ TermNoticed /\ PamEnds
=============================================================================
