-------------------------------- MODULE Pam --------------------------------
(***************************************************************************)
(* PAM in the privileged monitor (auth-pam.c).  pam_authenticate() blocks  *)
(* in a conversation with the user, so it runs in a "thread" that is       *)
(* really a forked process, joined to the monitor by a socket pair.  The   *)
(* unprivileged process asks the monitor to start, query, answer and free  *)
(* that conversation; it may die at any time, and the monitor learns of    *)
(* both children by SIGCHLD.                                               *)
(*                                                                         *)
(* The PAM modules are external: pset.stack is what they say in each call  *)
(* of the conversation function, they accept when every answer is right,   *)
(* and they may take for ever.  The unprivileged process keeps to its own  *)
(* code (auth2-chall.c).  Protocol 2, with privilege separation.           *)
(***************************************************************************)
EXTENDS Integers, Sequences, FiniteSets, SequencesExt

CONSTANTS MaxContexts   \* bound: keyboard-interactive attempts

VARIABLES
  pset,   \* [valid, root_ok, stack, acct]: the user and the modules
  pm,     \* the monitor: its program counter and auth-pam.c's statics
  thr,    \* the forked authentication thread
  toM,    \* socket pair, thread to monitor
  toT,    \* socket pair, monitor to thread
  kb,     \* the unprivileged process: [st, id, num, ok]
  sigs,   \* SIGCHLD is pending in the monitor
  lib     \* what the modules have seen

pamvars == <<pset, pm, thr, toM, toT, kb, sigs, lib>>

Prompts == {"off", "on"}

PamInit(Setups) ==
  /\ pset \in Setups
  /\ pm = [pc |-> "start", handle |-> FALSE, ctxt |-> FALSE, cleanup |-> FALSE, done |-> 0,
           acc |-> FALSE, authenticated |-> FALSE, session |-> FALSE, cred |-> FALSE,
           account |-> -1, maxtries |-> FALSE, pwchange |-> FALSE, restricted |-> FALSE,
           tstatus |-> "none", handler |-> FALSE, authok |-> FALSE, by |-> 0]
  /\ thr = [st |-> "none", gen |-> 0, phase |-> "auth", c |-> 1, i |-> 1, wait |-> FALSE,
            bad |-> FALSE, account |-> -1, pwchange |-> FALSE]
  /\ toM = <<>> /\ toT = <<>>
  /\ kb = [st |-> "idle", id |-> <<>>, num |-> 0, ok |-> FALSE]
  /\ sigs = FALSE
  /\ lib = [answers |-> {}, passed |-> {}, changed |-> FALSE, session |-> FALSE, cred |-> FALSE]

(* Somebody whose answers may reach PAM                                     *)
Eligible == pset.valid /\ pset.root_ok

(***************************************************************************)
(* The thread                                                              *)
(***************************************************************************)
Alive == thr.st = "alive"
Calls == CASE thr.phase = "auth" -> pset.stack [] thr.phase = "chauth" -> <<<<"off">>>> [] OTHER -> <<>>
Said  == thr.c > Len(Calls)
HungUp == pm.pc = "end" \/ ~pm.ctxt       \* the monitor's end is closed

NextMessage(t) ==
  IF t.i < Len(Calls[t.c]) THEN [t EXCEPT !.i = @ + 1, !.wait = FALSE]
  ELSE [t EXCEPT !.c = @ + 1, !.i = 1, !.wait = FALSE]

(* PAM_CONV_ERR: the module that asked gives up                             *)
ConvError(t) == [t EXCEPT !.c = Len(Calls) + 1, !.bad = TRUE, !.wait = FALSE]

(* One message of a conversation; after a prompt the thread waits           *)
sshpam_thread_conv ==
  /\ Alive /\ ~thr.wait /\ ~Said
  /\ LET style == Calls[thr.c][thr.i]
     IN  IF HungUp THEN thr' = ConvError(thr) /\ UNCHANGED toM
         ELSE /\ toM' = Append(toM, [t |-> IF style \in Prompts THEN "prompt" ELSE "info",
                                     id |-> <<thr.gen, thr.phase, thr.c, thr.i>>,
                                     account |-> -1, pwchange |-> FALSE])
              /\ thr' = IF style \in Prompts THEN [thr EXCEPT !.wait = TRUE] ELSE NextMessage(thr)
  /\ UNCHANGED <<pset, pm, toT, kb, sigs, lib>>

ThreadAnswered ==
  /\ Alive /\ thr.wait
  /\ \/ /\ toT # <<>>
        /\ lib' = [lib EXCEPT !.answers = @ \cup
                     {[asked |-> <<thr.gen, thr.phase, thr.c, thr.i>>, got |-> Head(toT)]}]
        /\ thr' = [NextMessage(thr) EXCEPT !.bad = @ \/ ~Head(toT).right]
        /\ toT' = Tail(toT)
     \/ /\ toT = <<>> /\ HungUp
        /\ thr' = ConvError(thr)
        /\ UNCHANGED <<lib, toT>>
  /\ UNCHANGED <<pset, pm, toM, kb, sigs>>

ThreadExits(kind) ==
  /\ thr' = [thr EXCEPT !.st = "exited"]
  /\ sigs' = pm.handler
  /\ toM' = IF HungUp THEN toM
            ELSE Append(toM, [t |-> kind, id |-> <<>>, account |-> thr.account, pwchange |-> thr.pwchange])

(* What pam_authenticate() and then pam_chauthtok() return.  The account is *)
(* looked up once: the status the monitor had at the fork is inherited.     *)
sshpam_thread ==
  /\ Alive /\ Said /\ thr.phase # "changed"
  /\ IF thr.phase = "chauth"
     THEN \/ ~thr.bad /\ thr' = [thr EXCEPT !.phase = "changed", !.pwchange = FALSE]
               /\ lib' = [lib EXCEPT !.changed = TRUE] /\ UNCHANGED <<toM, sigs>>
          \/ ThreadExits("autherr") /\ UNCHANGED lib
     ELSE IF thr.bad THEN (ThreadExits("autherr") \/ ThreadExits("maxtries")) /\ UNCHANGED lib
     ELSE /\ lib' = [lib EXCEPT !.passed = @ \cup {thr.gen}]
          /\ IF thr.account = -1 /\ pset.acct = "expired" THEN ThreadExits("expired")
             ELSE /\ thr' = LET due == thr.pwchange \/ (thr.account = -1 /\ pset.acct = "newtok")
                            IN  [thr EXCEPT !.account = 1, !.pwchange = due, !.c = 1, !.i = 1,
                                            !.phase = IF due THEN "chauth" ELSE "changed"]
                  /\ UNCHANGED <<toM, sigs>>
  /\ UNCHANGED <<pset, pm, toT, kb>>

ThreadSucceeds ==
  /\ Alive /\ thr.phase = "changed"
  /\ ThreadExits("success")
  /\ UNCHANGED <<pset, pm, toT, kb, lib>>

(* A module dies                                                            *)
ThreadCrash ==
  /\ Alive /\ thr' = [thr EXCEPT !.st = "crashed"] /\ sigs' = pm.handler
  /\ UNCHANGED <<pset, pm, toM, toT, kb, lib>>

(***************************************************************************)
(* The monitor: signals, cleaning up, ending                               *)
(***************************************************************************)
(* kill(SIGTERM) and waitpid()                                              *)
Reaped == IF thr.st = "none" THEN thr ELSE [thr EXCEPT !.st = "reaped"]

StatusOf == CASE thr.st = "exited" -> "exit0" [] thr.st = "crashed" -> "signal" [] OTHER -> "term"

(* A status other than a clean exit or SIGTERM ends the monitor in sigdie() *)
sshpam_sigchld_handler ==
  /\ sigs /\ sigs' = FALSE /\ pm.pc # "end"
  /\ IF ~pm.cleanup THEN pm' = [pm EXCEPT !.handler = FALSE] /\ UNCHANGED thr
     ELSE /\ thr' = Reaped
          /\ pm' = [pm EXCEPT !.handler = FALSE, !.tstatus = StatusOf,
                              !.pc = IF StatusOf = "signal" THEN "end" ELSE @]
  /\ UNCHANGED <<pset, toM, toT, kb, lib>>

(* pthread_cancel() and pthread_join(): back to SIG_DFL, which also drops a  *)
(* SIGCHLD that is pending                                                  *)
sshpam_thread_cleanup(m) ==
  IF m.cleanup THEN [m EXCEPT !.cleanup = FALSE, !.handler = FALSE] ELSE m
ThreadAfterCleanup(m) == IF m.cleanup THEN Reaped ELSE thr

\* Mutant: only pam_end().
sshpam_cleanup_end(m, l) ==
  [m |-> [m EXCEPT !.handle = FALSE, !.session = FALSE, !.cred = FALSE], l |-> l]

sshpam_cleanup(m, l) ==
  IF ~m.handle THEN [m |-> m, l |-> l]
  ELSE [m |-> [m EXCEPT !.handle = FALSE, !.session = FALSE, !.cred = FALSE, !.authenticated = FALSE],
        l |-> [l EXCEPT !.session = @ /\ ~m.session, !.cred = @ /\ ~m.cred]]

(* fatal() and cleanup_exit() in the monitor                                *)
Ends(m) ==
  LET d == sshpam_cleanup(m, lib)
  IN  /\ pm' = [sshpam_thread_cleanup(d.m) EXCEPT !.pc = "end"]
      /\ thr' = ThreadAfterCleanup(m)
      /\ lib' = d.l
      /\ sigs' = FALSE
      /\ UNCHANGED <<toM, toT>>

SlaveDies ==
  /\ kb.st # "gone"
  /\ kb' = [kb EXCEPT !.st = "gone"] /\ sigs' = (sigs \/ pm.handler)
  /\ UNCHANGED <<pset, pm, thr, toM, toT, lib>>

(* The monitor reads the end of file where it waits for a request           *)
MonitorEof ==
  /\ kb.st = "gone" /\ pm.pc \in {"start", "idle", "account", "session"}
  /\ Ends(pm)
  /\ UNCHANGED <<pset, kb>>

(***************************************************************************)
(* The monitor: keyboard-interactive                                       *)
(***************************************************************************)
start_pam ==
  /\ pm.pc = "start" /\ kb.st = "idle"
  /\ \/ pm' = [pm EXCEPT !.pc = "idle", !.handle = TRUE] /\ UNCHANGED <<thr, toM, toT, lib, sigs>>
     \/ Ends(pm)
  /\ UNCHANGED <<pset, kb>>

(* socketpair() and fork(); the handler is installed before cleanup_ctxt    *)
(* says which process is the thread.  A start that is refused because the   *)
(* account is, or in which one of the two calls fails, changes nothing.     *)
(* The PAM handle is the one of start_pam: modules that change PAM_USER,    *)
(* for which sshpam_init() would start a new one, are left out.             *)
sshpam_init_ctx ==
  /\ pm.pc = "idle" /\ kb.st = "idle" /\ ~pm.maxtries /\ thr.gen < MaxContexts
  /\ pm.account # 0
  /\ pm' = [pm EXCEPT !.pc = "create", !.ctxt = TRUE, !.done = 0, !.authok = FALSE, !.tstatus = "none",
                      !.handler = TRUE]
  /\ thr' = [thr EXCEPT !.st = "alive", !.gen = @ + 1, !.phase = "auth", !.c = 1, !.i = 1,
                        !.wait = FALSE, !.bad = FALSE, !.account = pm.account, !.pwchange = pm.pwchange]
  /\ toM' = <<>> /\ toT' = <<>>
  /\ UNCHANGED <<pset, kb, sigs, lib>>

InitCtxReturns ==
  /\ pm.pc = "create"
  /\ IF kb.st = "gone" THEN Ends([pm EXCEPT !.cleanup = TRUE]) /\ UNCHANGED kb
     ELSE /\ pm' = [pm EXCEPT !.pc = "idle", !.cleanup = TRUE]
          /\ kb' = [kb EXCEPT !.st = "query"]
          /\ UNCHANGED <<thr, toM, toT, lib, sigs>>
  /\ UNCHANGED pset

mm_answer_pam_query ==
  /\ pm.pc = "idle" /\ kb.st = "query"
  /\ pm' = [pm EXCEPT !.pc = "query", !.acc = FALSE, !.authok = FALSE]
  /\ kb' = [kb EXCEPT !.st = "wait"]
  /\ UNCHANGED <<pset, thr, toM, toT, sigs, lib>>

(* The monitor answers the query; nobody reads it when the slave is gone    *)
Answer(m, id, num, ret) ==
  IF kb.st = "gone" THEN Ends(m) /\ UNCHANGED kb
  ELSE /\ pm' = [m EXCEPT !.pc = "idle", !.authok = ret = 0 /\ num = 0]
       /\ kb' = IF ret = 0 THEN [kb EXCEPT !.st = "info", !.id = id, !.num = num]
                ELSE [kb EXCEPT !.st = "free"]
       /\ UNCHANGED <<thr, toT, lib, sigs>>

sshpam_set_maxtries_reached(m) == [m EXCEPT !.maxtries = TRUE]

(* no_port_forwarding_flag and its like get or lose bit 2                   *)
sshpam_password_change_required(m, reqd) == [m EXCEPT !.pwchange = reqd, !.restricted = reqd]

import_environments(m, msg) ==
  sshpam_password_change_required([m EXCEPT !.account = msg.account], msg.pwchange)

sshpam_query ==
  /\ pm.pc = "query"
  /\ IF toM = <<>>
     THEN thr.st # "alive" /\ Answer(pm, <<>>, 0, -1) /\ UNCHANGED toM
     ELSE LET msg == Head(toM)
              m == CASE msg.t = "expired"  -> [pm EXCEPT !.account = 0, !.done = -1]
                     [] msg.t = "maxtries" -> [sshpam_set_maxtries_reached(pm) EXCEPT !.done = -1]
                     [] msg.t = "autherr"  -> [pm EXCEPT !.done = -1]
                     [] OTHER -> pm
          IN  IF msg.t = "info"
              THEN /\ pm' = [pm EXCEPT !.acc = TRUE] /\ toM' = Tail(toM)
                   /\ UNCHANGED <<thr, toT, kb, lib, sigs>>
              ELSE IF msg.t = "success" /\ ~Eligible
              THEN Ends(pm) /\ UNCHANGED kb
              ELSE /\ IF kb.st = "gone" THEN TRUE ELSE toM' = Tail(toM)
                   /\ CASE msg.t = "prompt"  -> Answer(m, msg.id, 1, 0)
                        [] msg.t = "success" -> Answer([import_environments(m, msg) EXCEPT !.done = 1],
                                                       <<>>, 0, 0)
                        [] OTHER -> Answer(m, <<>>, 0, IF pm.acc THEN 0 ELSE -1)
  /\ UNCHANGED pset

(* An answer to the prompt on the user's screen, or a junk password of the  *)
(* same length (fake_password)                                              *)
sshpam_respond(right) ==
  /\ pm.pc = "idle" /\ kb.st = "info"
  /\ LET ret == CASE pm.done = 1 -> 0
                  [] pm.done = 0 -> IF kb.num = 1 /\ thr.st = "alive" THEN 1 ELSE -1
                  [] OTHER -> -1
     IN  /\ pm' = [pm EXCEPT !.authok = ret = 0, !.authenticated = @ \/ ret = 0,
                             !.by = IF ret = 0 THEN thr.gen ELSE @]
         /\ kb' = [kb EXCEPT !.st = IF ret = 1 THEN "query" ELSE "free", !.ok = ret = 0 /\ pset.valid]
         /\ toT' = IF ret # 1 THEN toT
                   ELSE Append(toT, [to |-> kb.id, right |-> right /\ Eligible, junk |-> ~Eligible])
  /\ UNCHANGED <<pset, thr, toM, sigs, lib>>

(* The client starts over instead of answering                              *)
Abandon ==
  /\ kb.st = "info" /\ kb' = [kb EXCEPT !.st = "free"]
  /\ UNCHANGED <<pset, pm, thr, toM, toT, sigs, lib>>

sshpam_free_ctx ==
  /\ pm.pc = "idle" /\ kb.st = "free"
  /\ pm' = [sshpam_thread_cleanup(pm) EXCEPT !.ctxt = FALSE, !.authok = FALSE,
                                             !.pc = IF pm.authok THEN "account" ELSE "idle"]
  /\ thr' = ThreadAfterCleanup(pm)
  /\ toM' = <<>> /\ toT' = <<>>
  /\ kb' = [kb EXCEPT !.st = "idle"]
  /\ sigs' = (sigs /\ ~pm.cleanup)
  /\ UNCHANGED <<pset, lib>>

(***************************************************************************)
(* The monitor: password and other methods, the account, the session       *)
(***************************************************************************)
(* The conversation of the password method: every hidden prompt is taken    *)
(* to be for the password, a visible one fails                              *)
sshpam_passwd_conv(right) ==
  \A c \in DOMAIN pset.stack : \A i \in DOMAIN pset.stack[c] :
    /\ pset.stack[c][i] # "on"
    /\ pset.stack[c][i] = "off" => right /\ Eligible

sshpam_auth_passwd(right) ==
  /\ pm.pc = "idle" /\ kb.st = "idle" /\ ~pm.maxtries
  /\ \/ /\ sshpam_passwd_conv(right) /\ Eligible
        /\ pm' = [pm EXCEPT !.pc = "account"] /\ kb' = [kb EXCEPT !.ok = TRUE]
     \/ /\ ~(sshpam_passwd_conv(right) /\ Eligible)
        /\ pm' \in {pm, sshpam_set_maxtries_reached(pm)} /\ UNCHANGED kb
  /\ UNCHANGED <<pset, thr, toM, toT, sigs, lib>>

OtherMethod ==
  /\ pm.pc = "idle" /\ kb.st = "idle" /\ Eligible
  /\ pm' = [pm EXCEPT !.pc = "account"] /\ kb' = [kb EXCEPT !.ok = TRUE]
  /\ UNCHANGED <<pset, thr, toM, toT, sigs, lib>>

do_pam_account(m) ==
  IF m.account # -1 THEN m
  ELSE IF pset.acct = "expired" THEN [m EXCEPT !.account = 0]
  ELSE [(IF pset.acct = "newtok" THEN sshpam_password_change_required(m, TRUE) ELSE m)
          EXCEPT !.account = 1]

(* A slave that does not believe the user authenticated sends no request    *)
(* for the account next; one that is refused ends                           *)
mm_answer_pam_account ==
  /\ pm.pc = "account" /\ kb.st = "idle"
  /\ IF ~kb.ok THEN Ends(pm) /\ UNCHANGED kb
     ELSE LET m == do_pam_account(pm)
          IN  /\ IF m.account = 0
                 THEN /\ pm' = [m EXCEPT !.pc = "idle"]
                      /\ kb' = [kb EXCEPT !.st = "gone"] /\ sigs' = pm.handler
                 ELSE pm' = [m EXCEPT !.pc = "cred"] /\ UNCHANGED <<kb, sigs>>
              /\ UNCHANGED <<thr, toM, toT, lib>>
  /\ UNCHANGED pset

do_pam_setcred ==
  /\ pm.pc = "cred"
  /\ \/ /\ pm' = [pm EXCEPT !.pc = "open", !.cred = TRUE] /\ lib' = [lib EXCEPT !.cred = TRUE]
        /\ UNCHANGED <<thr, toM, toT, sigs>>
     \/ IF pm.authenticated THEN Ends(pm)
        ELSE pm' = [pm EXCEPT !.pc = "open"] /\ UNCHANGED <<thr, toM, toT, lib, sigs>>
  /\ UNCHANGED <<pset, kb>>

do_pam_session ==
  /\ pm.pc = "open"
  /\ \/ pm' = [pm EXCEPT !.pc = "session", !.session = TRUE] /\ lib' = [lib EXCEPT !.session = TRUE]
     \/ pm' = [pm EXCEPT !.pc = "session", !.restricted = TRUE] /\ UNCHANGED lib
  /\ UNCHANGED <<pset, thr, toM, toT, kb, sigs>>

PamMonitor ==
  \/ sshpam_sigchld_handler \/ MonitorEof \/ InitCtxReturns \/ mm_answer_pam_query \/ sshpam_query
  \/ sshpam_free_ctx \/ mm_answer_pam_account \/ do_pam_setcred \/ do_pam_session

PamStep ==
  \/ PamMonitor
  \/ start_pam \/ sshpam_init_ctx \/ Abandon \/ OtherMethod \/ SlaveDies
  \/ \E right \in BOOLEAN : sshpam_respond(right) \/ sshpam_auth_passwd(right)
  \/ sshpam_thread_conv \/ ThreadAnswered \/ sshpam_thread \/ ThreadSucceeds \/ ThreadCrash

(* The modules may take for ever, the monitor does not                      *)
PamFair == WF_pamvars(PamMonitor)

(* Any user, and modules that say anything, with a message in every call    *)
Styles == {"off", "on", "info"}
AnySetup ==
  [valid : BOOLEAN, root_ok : BOOLEAN, acct : {"ok", "newtok", "expired"},
   stack : Seq(Seq(Styles) \ {<<>>})]

PamSpec == PamInit(AnySetup) /\ [][PamStep]_pamvars

-----------------------------------------------------------------------------
(* PAM's conversation crosses two processes and a socket: an answer goes to *)
(* the prompt the user was shown, and is junk unless the user may log in    *)
(* (sshpam_thread_conv, sshpam_query, sshpam_respond); an authenticated     *)
(* user passed in the attempt that is believed; no session opens for an     *)
(* expired account, nor with an expired password unless it was changed or   *)
(* forwarding is off and the change is forced (do_pam_account); and when    *)
(* the monitor has ended no thread runs and no session or credential is     *)
(* left open (sshpam_cleanup, sshpam_thread_cleanup).                       *)
PamSound ==
  /\ \A a \in lib.answers : a.got.to = a.asked /\ a.got.junk = ~Eligible
  /\ pm.authenticated => pm.by \in lib.passed /\ Eligible
  /\ pm.session =>
       /\ pset.acct # "expired"
       /\ pset.acct = "newtok" => lib.changed \/ (pm.pwchange /\ pm.restricted)
  /\ pm.pc = "end" => ~lib.session /\ ~lib.cred /\ thr.st # "alive"
=============================================================================
