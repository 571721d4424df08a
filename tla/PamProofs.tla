----------------------------- MODULE PamProofs ------------------------------
(***************************************************************************)
(* TLAPS proofs about Pam, for every user, every stack of modules and any  *)
(* number of attempts: PamSound.                                           *)
(*                                                                         *)
(* PamSound is not inductive.  That an answer goes to the prompt it is for *)
(* needs that there is one thing under way at a time between the modules   *)
(* and the user: a prompt on its way, a prompt on the screen, or an answer *)
(* on its way (Dialogue).  That the end finds nothing left open needs the  *)
(* places of the monitor at which a thread can be alive and a SIGCHLD end  *)
(* it (Places).  That nobody is believed without having passed, or gets a  *)
(* session on an expired account, follows the success message through the  *)
(* socket (Earned) and the account status through the fork and back        *)
(* (Standing).                                                             *)
(***************************************************************************)
EXTENDS Pam, SequenceTheorems, TLAPS

PamPhases == {"auth", "chauth", "changed"}
Ids == {<<>>} \cup (Nat \X PamPhases \X Nat \X Nat)

PamMonitors ==
  [pc : {"start", "idle", "create", "query", "account", "cred", "open", "session", "end"},
   handle : BOOLEAN, ctxt : BOOLEAN, cleanup : BOOLEAN, done : {-1, 0, 1}, acc : BOOLEAN,
   authenticated : BOOLEAN, session : BOOLEAN, cred : BOOLEAN, account : {-1, 0, 1},
   maxtries : BOOLEAN, pwchange : BOOLEAN, restricted : BOOLEAN,
   tstatus : {"none", "exit0", "signal", "term"}, handler : BOOLEAN, authok : BOOLEAN, by : Nat]

Threads ==
  [st : {"none", "alive", "exited", "crashed", "reaped"}, gen : Nat, phase : PamPhases,
   c : Nat, i : Nat, wait : BOOLEAN, bad : BOOLEAN, account : {-1, 0, 1}, pwchange : BOOLEAN]

PamMessages ==
  [t : {"prompt", "info", "autherr", "maxtries", "expired", "success"}, id : Ids,
   account : {-1, 0, 1}, pwchange : BOOLEAN]

Replies == [to : Ids, right : BOOLEAN, junk : BOOLEAN]

Slaves ==
  [st : {"idle", "query", "wait", "info", "free", "gone"}, id : Ids, num : {0, 1}, ok : BOOLEAN]

Seen ==
  [answers : SUBSET [asked : Ids, got : Replies], passed : SUBSET Nat,
   changed : BOOLEAN, session : BOOLEAN, cred : BOOLEAN]

PamTypeOK ==
  /\ pset \in AnySetup
  /\ pm \in PamMonitors
  /\ thr \in Threads
  /\ toM \in Seq(PamMessages)
  /\ toT \in Seq(Replies)
  /\ kb \in Slaves
  /\ sigs \in BOOLEAN
  /\ lib \in Seen

\* Where the monitor may be, what the unprivileged process does meanwhile, and
\* where a thread may be alive.
Places ==
  /\ pm.pc \in {"start", "create", "account", "cred", "open", "session"} =>
       kb.st \in {"idle", "gone"} /\ ~pm.cleanup
  /\ pm.pc = "query" => kb.st \in {"wait", "gone"}
  /\ kb.st = "idle" => ~pm.cleanup
  /\ thr.st = "alive" =>
       pm.ctxt /\ (pm.pc = "create" \/ (pm.pc \in {"idle", "query"} /\ pm.cleanup))

\* What has to be undone at the end is known to the monitor.
Open ==
  /\ lib.session => pm.session
  /\ lib.cred => pm.cred
  /\ pm.session => pm.handle /\ pm.pc = "session"
  /\ pm.cred => pm.handle /\ pm.pc \in {"open", "session"}
  /\ pm.pc \notin {"start", "end"} => pm.handle

Prompt == <<thr.gen, thr.phase, thr.c, thr.i>>

Dialogue ==
  thr.st = "alive" =>
    /\ thr.wait => ~Said
    /\ \A k \in 1..Len(toM) :
         /\ toM[k].t \in {"prompt", "info"}
         /\ toM[k].t = "prompt" => thr.wait /\ k = Len(toM) /\ toM[k].id = Prompt
    /\ toM # <<>> => toT = <<>>
    /\ toT # <<>> => /\ thr.wait /\ Len(toT) = 1
                     /\ toT[1].to = Prompt /\ toT[1].junk = ~Eligible
    /\ kb.st = "info" => thr.wait /\ toM = <<>> /\ toT = <<>> /\ kb.id = Prompt

\* A success belongs to a thread that passed.
Earned ==
  /\ thr.phase # "auth" => thr.gen \in lib.passed
  /\ \A k \in 1..Len(toM) : toM[k].t = "success" => thr.gen \in lib.passed
  /\ pm.done = 1 => thr.gen \in lib.passed /\ Eligible

\* The account was looked up; a password that is due was changed or is being.
Good(due) ==
  /\ pset.acct # "expired"
  /\ pset.acct = "newtok" => lib.changed \/ due

Standing ==
  /\ pm.account = 1 => Good(pm.pwchange /\ pm.restricted)
  /\ thr.account = 1 => Good(thr.pwchange)
  /\ thr.phase # "auth" => thr.account = 1
  /\ thr.account # 0
  /\ \A k \in 1..Len(toM) :
       toM[k].t = "success" => toM[k].account = 1 /\ Good(toM[k].pwchange)
  /\ pm.pc \in {"cred", "open", "session"} => pm.account = 1

PamInv == PamTypeOK /\ Places /\ Open /\ Dialogue /\ Earned /\ Standing /\ PamSound
----------------------------------------------------------------------------
(* What the steps are made of.                                             *)

LEMMA SetupFacts ==
  ASSUME pset \in AnySetup
  PROVE  /\ pset.valid \in BOOLEAN /\ pset.root_ok \in BOOLEAN
         /\ Eligible \in BOOLEAN
         /\ Len(pset.stack) \in Nat
BY DEF AnySetup, Eligible

LEMMA CallsFacts ==
  ASSUME pset \in AnySetup
  PROVE  Len(Calls) \in Nat
<1>1. Len(pset.stack) \in Nat
  BY SetupFacts
<1> QED
  BY <1>1 DEF Calls

\* The thread goes on within its conversation.
Continues(t, u) ==
  /\ u \in Threads
  /\ u.st = t.st /\ u.gen = t.gen /\ u.phase = t.phase
  /\ u.account = t.account /\ u.pwchange = t.pwchange

LEMMA NextMessageFacts ==
  ASSUME NEW t \in Threads
  PROVE  Continues(t, NextMessage(t)) /\ NextMessage(t).wait = FALSE
<1>1. t.i + 1 \in Nat /\ t.c + 1 \in Nat /\ 1 \in Nat
  BY DEF Threads
<1>2. \A c, i \in Nat : Continues(t, [t EXCEPT !.c = c, !.i = i, !.wait = FALSE])
  BY DEF Continues, Threads
<1>3. \A c, i \in Nat : [t EXCEPT !.c = c, !.i = i, !.wait = FALSE].wait = FALSE
  BY DEF Threads
<1>4. t.c \in Nat /\ [t EXCEPT !.i = t.i + 1, !.wait = FALSE]
                       = [t EXCEPT !.c = t.c, !.i = t.i + 1, !.wait = FALSE]
  BY DEF Threads
<1>5. \/ NextMessage(t) = [t EXCEPT !.c = t.c, !.i = t.i + 1, !.wait = FALSE]
      \/ NextMessage(t) = [t EXCEPT !.c = t.c + 1, !.i = 1, !.wait = FALSE]
  BY <1>4 DEF NextMessage
<1>6. CASE NextMessage(t) = [t EXCEPT !.c = t.c, !.i = t.i + 1, !.wait = FALSE]
  <2>1. t.c \in Nat /\ t.i + 1 \in Nat
    BY <1>1, <1>4
  <2> QED
    BY <1>2, <1>3, <1>6, <2>1, Zenon
<1>7. CASE NextMessage(t) = [t EXCEPT !.c = t.c + 1, !.i = 1, !.wait = FALSE]
  <2>1. t.c + 1 \in Nat /\ 1 \in Nat
    BY <1>1
  <2> QED
    BY <1>2, <1>3, <1>7, <2>1, Zenon
<1> QED
  BY <1>5, <1>6, <1>7

\* While the thread is alive the monitor holds its end of the socket.
LEMMA NotHungUp == PamInv /\ thr.st = "alive" => ~HungUp
BY DEF PamInv, Places, HungUp

LEMMA ReapedFacts ==
  ASSUME thr \in Threads
  PROVE  /\ Reaped \in Threads /\ Reaped.st # "alive"
         /\ Reaped.gen = thr.gen /\ Reaped.phase = thr.phase
         /\ Reaped.account = thr.account /\ Reaped.pwchange = thr.pwchange
BY DEF Reaped, Threads

----------------------------------------------------------------------------
(* The thread.                                                             *)

LEMMA ConvInv == PamInv /\ sshpam_thread_conv => PamInv'
<1> SUFFICES ASSUME PamInv, sshpam_thread_conv PROVE PamInv'
  OBVIOUS
<1>1. thr.st = "alive" /\ ~HungUp /\ ~thr.wait /\ ~Said
  BY NotHungUp DEF sshpam_thread_conv, Alive
<1> DEFINE prompt == Calls[thr.c][thr.i] \in Prompts
           msg == [t |-> IF prompt THEN "prompt" ELSE "info", id |-> Prompt,
                   account |-> -1, pwchange |-> FALSE]
<1>2. /\ toM' = Append(toM, msg)
      /\ thr' = IF prompt THEN [thr EXCEPT !.wait = TRUE] ELSE NextMessage(thr)
      /\ UNCHANGED <<pset, pm, toT, kb, sigs, lib>>
  BY <1>1 DEF sshpam_thread_conv, Prompt
<1>3. /\ PamTypeOK /\ Places /\ Open /\ Dialogue /\ Earned /\ Standing /\ PamSound
  BY DEF PamInv
<1>4. Prompt \in Ids /\ msg \in PamMessages
  BY <1>3 DEF PamTypeOK, Threads, Prompt, Ids, PamMessages
<1>5. msg.t = (IF prompt THEN "prompt" ELSE "info") /\ msg.id = Prompt
  OBVIOUS
<1>6. /\ Continues(thr, thr')
      /\ prompt => thr'.wait = TRUE /\ Prompt' = Prompt /\ Said' = Said
      /\ ~prompt => thr'.wait = FALSE
  <2>1. thr \in Threads
    BY <1>3 DEF PamTypeOK
  <2>2. CASE prompt
    <3>1. thr' = [thr EXCEPT !.wait = TRUE]
      BY <1>2, <2>2
    <3> QED
      BY <1>2, <2>1, <2>2, <3>1 DEF Continues, Threads, Prompt, Said, Calls
  <2>3. CASE ~prompt
    BY <1>2, <2>1, <2>3, NextMessageFacts
  <2> QED
    BY <2>2, <2>3
<1> HIDE DEF prompt, msg
<1>7. toM \in Seq(PamMessages) /\ toT \in Seq(Replies)
  BY <1>3 DEF PamTypeOK
<1>8. /\ toM' \in Seq(PamMessages) /\ Len(toM') = Len(toM) + 1 /\ toM' # <<>>
      /\ \A k \in 1..Len(toM) : toM'[k] = toM[k]
      /\ toM'[Len(toM) + 1] = msg
  BY <1>2, <1>4, <1>7
<1>9. PamTypeOK'
  BY <1>2, <1>3, <1>6, <1>8 DEF PamTypeOK, Continues
<1>10. Places' /\ Open'
  BY <1>2, <1>3, <1>6 DEF Places, Open, Continues
<1>11. \A k \in 1..Len(toM) : toM[k].t = "info"
  BY <1>1, <1>3 DEF Dialogue
<1>12. toT = <<>> /\ kb.st # "info"
  BY <1>1, <1>3 DEF Dialogue
<1>13. Dialogue'
  <2> SUFFICES ASSUME NEW k \in 1..Len(toM')
               PROVE  /\ toM'[k].t \in {"prompt", "info"}
                      /\ toM'[k].t = "prompt" =>
                           thr'.wait /\ k = Len(toM') /\ toM'[k].id = Prompt'
    BY <1>1, <1>2, <1>6, <1>12 DEF Dialogue
  <2>1. Len(toM) \in Nat
    BY <1>7
  <2>2. CASE k = Len(toM) + 1
    BY <1>5, <1>6, <1>8, <2>2
  <2>3. CASE k \in 1..Len(toM)
    BY <1>8, <1>11, <2>3
  <2> QED
    BY <1>8, <2>1, <2>2, <2>3
<1>14. \A k \in 1..Len(toM') : toM'[k].t # "success"
  <2> TAKE k \in 1..Len(toM')
  <2>1. Len(toM) \in Nat
    BY <1>7
  <2>2. CASE k = Len(toM) + 1
    BY <1>5, <1>8, <2>2
  <2>3. CASE k \in 1..Len(toM)
    BY <1>8, <1>11, <2>3
  <2> QED
    BY <1>8, <2>1, <2>2, <2>3
<1>15. Earned'
  BY <1>2, <1>3, <1>6, <1>14 DEF Earned, Continues, Eligible
<1>16. Standing'
  BY <1>2, <1>3, <1>6, <1>14 DEF Standing, Continues, Good
<1>17. PamSound'
  BY <1>2, <1>3, <1>6 DEF PamSound, Continues, Eligible
<1> QED
  BY <1>9, <1>10, <1>13, <1>15, <1>16, <1>17 DEF PamInv

LEMMA AnsweredInv == PamInv /\ ThreadAnswered => PamInv'
<1> SUFFICES ASSUME PamInv, ThreadAnswered PROVE PamInv'
  OBVIOUS
<1>1. thr.st = "alive" /\ ~HungUp /\ thr.wait
  BY NotHungUp DEF ThreadAnswered, Alive
<1> DEFINE next == NextMessage(thr)
           answer == [asked |-> Prompt, got |-> Head(toT)]
<1>2. /\ toT # <<>> /\ toT' = Tail(toT)
      /\ lib' = [lib EXCEPT !.answers = @ \cup {answer}]
      /\ thr' = [next EXCEPT !.bad = @ \/ ~Head(toT).right]
      /\ UNCHANGED <<pset, pm, toM, kb, sigs>>
  BY <1>1 DEF ThreadAnswered, Prompt
<1>3. /\ PamTypeOK /\ Places /\ Open /\ Dialogue /\ Earned /\ Standing /\ PamSound
  BY DEF PamInv
<1>4. /\ toT \in Seq(Replies) /\ Len(toT) = 1 /\ Head(toT) = toT[1] /\ Head(toT) \in Replies
      /\ toT' = <<>>
  BY <1>1, <1>2, <1>3 DEF PamTypeOK, Dialogue
<1>5. Head(toT).to = Prompt /\ Head(toT).junk = ~Eligible
  BY <1>1, <1>2, <1>3, <1>4 DEF Dialogue
<1>6. Prompt \in Ids /\ answer \in [asked : Ids, got : Replies]
  BY <1>3, <1>4 DEF PamTypeOK, Threads, Prompt, Ids
<1>7. answer.got.to = answer.asked /\ answer.got.junk = ~Eligible
  BY <1>5
<1> HIDE DEF answer
<1>8. Continues(thr, thr') /\ thr'.wait = FALSE
  <2>1. Continues(thr, next) /\ next.wait = FALSE
    BY <1>3, NextMessageFacts DEF PamTypeOK
  <2>2. Head(toT).right \in BOOLEAN
    BY <1>4 DEF Replies
  <2> HIDE DEF next
  <2> QED
    BY <1>2, <2>1, <2>2 DEF Continues, Threads
<1>9. /\ lib' \in Seen /\ lib'.answers = lib.answers \cup {answer}
      /\ lib'.passed = lib.passed /\ lib'.changed = lib.changed
      /\ lib'.session = lib.session /\ lib'.cred = lib.cred
  BY <1>2, <1>3, <1>6 DEF PamTypeOK, Seen
<1>10. PamTypeOK'
  BY <1>2, <1>3, <1>4, <1>8, <1>9 DEF PamTypeOK, Continues
<1>11. Places' /\ Open'
  BY <1>2, <1>3, <1>8, <1>9 DEF Places, Open, Continues
<1>12. toM = <<>> /\ kb.st # "info"
  BY <1>1, <1>2, <1>3 DEF Dialogue
<1>13. Dialogue'
  BY <1>2, <1>4, <1>8, <1>12 DEF Dialogue
<1>14. Earned'
  BY <1>2, <1>3, <1>8, <1>9 DEF Earned, Continues, Eligible
<1>15. Standing'
  BY <1>2, <1>3, <1>8, <1>9 DEF Standing, Continues, Good
<1>16. PamSound'
  BY <1>2, <1>3, <1>7, <1>8, <1>9 DEF PamSound, Continues, Eligible
<1> QED
  BY <1>10, <1>11, <1>13, <1>14, <1>15, <1>16 DEF PamInv

\* The thread sends its last message, if any, and exits.
LEMMA ExitsInv ==
  ASSUME PamInv, thr.st = "alive",
         NEW kind \in {"autherr", "maxtries", "expired", "success"},
         ThreadExits(kind), UNCHANGED <<pset, pm, toT, kb>>,
         \/ UNCHANGED lib
         \/ lib' = [lib EXCEPT !.passed = @ \cup {thr.gen}],
         kind = "success" => thr.phase = "changed"
  PROVE  PamInv'
<1> DEFINE msg == [t |-> kind, id |-> <<>>, account |-> thr.account, pwchange |-> thr.pwchange]
<1>1. /\ thr' = [thr EXCEPT !.st = "exited"]
      /\ sigs' = pm.handler
      /\ toM' = Append(toM, msg)
  BY NotHungUp DEF ThreadExits
<1>2. /\ PamTypeOK /\ Places /\ Open /\ Dialogue /\ Earned /\ Standing /\ PamSound
  BY DEF PamInv
<1>3. /\ Continues([thr EXCEPT !.st = "exited"], thr') /\ thr'.st = "exited"
      /\ thr' \in Threads /\ thr'.gen = thr.gen /\ thr'.phase = thr.phase
      /\ thr'.account = thr.account /\ thr'.pwchange = thr.pwchange
  BY <1>1, <1>2 DEF PamTypeOK, Threads, Continues
<1>4. /\ lib' \in Seen /\ lib'.answers = lib.answers /\ lib'.changed = lib.changed
      /\ lib'.session = lib.session /\ lib'.cred = lib.cred
      /\ lib.passed \subseteq lib'.passed
  BY <1>2 DEF PamTypeOK, Seen, Threads
<1>5. /\ msg \in PamMessages /\ msg.t = kind /\ msg.account = thr.account
      /\ msg.pwchange = thr.pwchange
  BY <1>2 DEF PamTypeOK, Threads, PamMessages, Ids
<1> HIDE DEF msg
<1>6. toM \in Seq(PamMessages)
  BY <1>2 DEF PamTypeOK
<1>7. /\ toM' \in Seq(PamMessages) /\ Len(toM') = Len(toM) + 1 /\ Len(toM) \in Nat
      /\ \A k \in 1..Len(toM) : toM'[k] = toM[k]
      /\ toM'[Len(toM) + 1] = msg
  BY <1>1, <1>5, <1>6
<1>8. PamTypeOK'
  <2>1. pm.handler \in BOOLEAN
    BY <1>2 DEF PamTypeOK, PamMonitors
  <2> QED
    BY <1>1, <1>2, <1>3, <1>4, <1>7, <2>1 DEF PamTypeOK
<1>9. Places' /\ Open'
  BY <1>2, <1>3, <1>4 DEF Places, Open
<1>10. Dialogue'
  BY <1>3 DEF Dialogue
<1>11. \A k \in 1..Len(toM) : toM[k].t # "success"
  BY <1>2 DEF Dialogue
<1>12. \A k \in 1..Len(toM') : toM'[k].t = "success" => toM'[k] = msg /\ kind = "success"
  <2> TAKE k \in 1..Len(toM')
  <2>1. CASE k = Len(toM) + 1
    BY <1>5, <1>7, <2>1
  <2>2. CASE k \in 1..Len(toM)
    BY <1>7, <1>11, <2>2
  <2> QED
    BY <1>7, <2>1, <2>2
<1>13. Earned'
  <2>1. kind = "success" => thr.gen \in lib.passed
    BY <1>2 DEF Earned
  <2> QED
    BY <1>2, <1>3, <1>4, <1>12, <2>1 DEF Earned, Eligible
<1>14. Standing'
  <2>1. kind = "success" => thr.account = 1 /\ Good(thr.pwchange)
    BY <1>2 DEF Standing
  <2> QED
    BY <1>2, <1>3, <1>4, <1>5, <1>12, <2>1 DEF Standing, Good
<1>15. PamSound'
  BY <1>2, <1>3, <1>4 DEF PamSound, Eligible
<1> QED
  BY <1>8, <1>9, <1>10, <1>13, <1>14, <1>15 DEF PamInv

\* pam_authenticate() or pam_chauthtok() has returned and the thread goes on.
LEMMA ThreadInv == PamInv /\ sshpam_thread => PamInv'
<1> SUFFICES ASSUME PamInv, sshpam_thread PROVE PamInv'
  OBVIOUS
<1>1. thr.st = "alive" /\ thr.phase # "changed" /\ Said /\ UNCHANGED <<pset, pm, toT, kb>>
  BY DEF sshpam_thread, Alive
<1>2. /\ PamTypeOK /\ Places /\ Open /\ Dialogue /\ Earned /\ Standing /\ PamSound
  BY DEF PamInv
<1>3. CASE \E kind \in {"autherr", "maxtries", "expired"} :
             /\ ThreadExits(kind)
             /\ \/ UNCHANGED lib
                \/ lib' = [lib EXCEPT !.passed = @ \cup {thr.gen}]
  BY <1>1, <1>3, ExitsInv
<1>4. CASE /\ thr.phase = "chauth"
           /\ thr' = [thr EXCEPT !.phase = "changed", !.pwchange = FALSE]
           /\ lib' = [lib EXCEPT !.changed = TRUE]
           /\ UNCHANGED <<toM, sigs>>
  <2>1. /\ thr' \in Threads /\ thr'.st = thr.st /\ thr'.gen = thr.gen
        /\ thr'.account = thr.account /\ thr'.wait = thr.wait
    BY <1>2, <1>4 DEF PamTypeOK, Threads, PamPhases
  <2>2. /\ lib' \in Seen /\ lib'.answers = lib.answers /\ lib'.passed = lib.passed
        /\ lib'.session = lib.session /\ lib'.cred = lib.cred /\ lib'.changed = TRUE
    BY <1>2, <1>4 DEF PamTypeOK, Seen
  <2>3. ~thr.wait
    BY <1>1, <1>2 DEF Dialogue
  <2>4. PamTypeOK' /\ Places' /\ Open'
    BY <1>1, <1>2, <1>4, <2>1, <2>2 DEF PamTypeOK, Places, Open
  <2>5. Dialogue'
    BY <1>1, <1>2, <1>4, <2>1, <2>3 DEF Dialogue
  <2>6. Earned'
    BY <1>1, <1>2, <1>4, <2>1, <2>2 DEF Earned, Eligible
  <2>7. Standing'
    BY <1>1, <1>2, <1>4, <2>1, <2>2 DEF Standing, Good
  <2>8. PamSound'
    BY <1>1, <1>2, <1>4, <2>1, <2>2 DEF PamSound, Eligible
  <2> QED
    BY <2>4, <2>5, <2>6, <2>7, <2>8 DEF PamInv
<1>5. CASE /\ thr.phase = "auth"
           /\ lib' = [lib EXCEPT !.passed = @ \cup {thr.gen}]
           /\ ~ (thr.account = -1 /\ pset.acct = "expired")
           /\ thr' = LET due == thr.pwchange \/ (thr.account = -1 /\ pset.acct = "newtok")
                     IN  [thr EXCEPT !.account = 1, !.pwchange = due, !.c = 1, !.i = 1,
                                     !.phase = IF due THEN "chauth" ELSE "changed"]
           /\ UNCHANGED <<toM, sigs>>
  <2> DEFINE due == thr.pwchange \/ (thr.account = -1 /\ pset.acct = "newtok")
  <2>1. /\ thr' \in Threads /\ thr'.st = thr.st /\ thr'.gen = thr.gen
        /\ thr'.account = 1 /\ thr'.wait = thr.wait /\ thr'.pwchange = due
    BY <1>2, <1>5 DEF PamTypeOK, Threads, PamPhases
  <2>2. /\ lib' \in Seen /\ lib'.answers = lib.answers
        /\ lib'.passed = lib.passed \cup {thr.gen}
        /\ lib'.session = lib.session /\ lib'.cred = lib.cred /\ lib'.changed = lib.changed
    BY <1>2, <1>5 DEF PamTypeOK, Seen, Threads
  <2>3. ~thr.wait
    BY <1>1, <1>2 DEF Dialogue
  <2>4. PamTypeOK' /\ Places' /\ Open'
    BY <1>1, <1>2, <1>5, <2>1, <2>2 DEF PamTypeOK, Places, Open
  <2>5. Dialogue'
    BY <1>1, <1>2, <1>5, <2>1, <2>3 DEF Dialogue
  <2>6. Earned'
    BY <1>1, <1>2, <1>5, <2>1, <2>2 DEF Earned, Eligible
  <2>7. Good(due)
    <3>1. thr.account \in {-1, 1}
      BY <1>2 DEF PamTypeOK, Threads, Standing
    <3>2. CASE thr.account = 1
      BY <1>2, <3>2 DEF Standing, Good
    <3>3. CASE thr.account = -1
      BY <1>5, <3>3 DEF Good
    <3> QED
      BY <3>1, <3>2, <3>3
  <2>8. \A k \in 1..Len(toM) : toM[k].t # "success"
    BY <1>1, <1>2 DEF Dialogue
  <2> HIDE DEF due
  <2>9. Standing'
    BY <1>1, <1>2, <1>5, <2>1, <2>2, <2>7, <2>8 DEF Standing, Good
  <2>10. PamSound'
    BY <1>1, <1>2, <1>5, <2>1, <2>2 DEF PamSound, Eligible
  <2> QED
    BY <2>4, <2>5, <2>6, <2>9, <2>10 DEF PamInv
<1> QED
  <2>1. thr.phase \in {"auth", "chauth"}
    BY <1>1, <1>2 DEF PamTypeOK, Threads, PamPhases
  <2> QED
    BY <1>3, <1>4, <1>5, <2>1 DEF sshpam_thread

LEMMA SucceedsInv == PamInv /\ ThreadSucceeds => PamInv'
BY ExitsInv DEF ThreadSucceeds, Alive

LEMMA CrashInv == PamInv /\ ThreadCrash => PamInv'
<1> SUFFICES ASSUME PamInv, ThreadCrash PROVE PamInv'
  OBVIOUS
<1>1. /\ thr' = [thr EXCEPT !.st = "crashed"] /\ sigs' = pm.handler
      /\ UNCHANGED <<pset, pm, toM, toT, kb, lib>>
  BY DEF ThreadCrash
<1>2. /\ PamTypeOK /\ Places /\ Open /\ Dialogue /\ Earned /\ Standing /\ PamSound
  BY DEF PamInv
<1>3. /\ thr' \in Threads /\ thr'.st = "crashed" /\ thr'.gen = thr.gen /\ thr'.phase = thr.phase
      /\ thr'.account = thr.account /\ thr'.pwchange = thr.pwchange
  BY <1>1, <1>2 DEF PamTypeOK, Threads
<1>4. pm.handler \in BOOLEAN
  BY <1>2 DEF PamTypeOK, PamMonitors
<1>5. PamTypeOK' /\ Places' /\ Open' /\ Dialogue'
  BY <1>1, <1>2, <1>3, <1>4 DEF PamTypeOK, Places, Open, Dialogue
<1>6. Earned' /\ Standing' /\ PamSound'
  BY <1>1, <1>2, <1>3 DEF Earned, Standing, Good, PamSound, Eligible
<1> QED
  BY <1>5, <1>6 DEF PamInv

----------------------------------------------------------------------------
(* The monitor: signals and the end.                                       *)

LEMMA HandlerInv == PamInv /\ sshpam_sigchld_handler => PamInv'
<1> SUFFICES ASSUME PamInv, sshpam_sigchld_handler PROVE PamInv'
  OBVIOUS
<1>1. /\ sigs' = FALSE /\ pm.pc # "end" /\ UNCHANGED <<pset, toM, toT, kb, lib>>
  BY DEF sshpam_sigchld_handler
<1>2. /\ PamTypeOK /\ Places /\ Open /\ Dialogue /\ Earned /\ Standing /\ PamSound
  BY DEF PamInv
<1> DEFINE Same(m) ==
      /\ m \in PamMonitors /\ m.handle = pm.handle /\ m.ctxt = pm.ctxt /\ m.cleanup = pm.cleanup
      /\ m.done = pm.done /\ m.authenticated = pm.authenticated /\ m.session = pm.session
      /\ m.cred = pm.cred /\ m.account = pm.account /\ m.pwchange = pm.pwchange
      /\ m.restricted = pm.restricted /\ m.by = pm.by
<1>3. CASE ~pm.cleanup
  <2>1. pm' = [pm EXCEPT !.handler = FALSE] /\ thr' = thr
    BY <1>3 DEF sshpam_sigchld_handler
  <2>2. Same(pm') /\ pm'.pc = pm.pc
    BY <1>2, <2>1 DEF PamTypeOK, PamMonitors
  <2>3. PamTypeOK' /\ Places' /\ Open'
    BY <1>1, <1>2, <2>1, <2>2 DEF PamTypeOK, Places, Open
  <2>4. Dialogue'
    BY <1>1, <1>2, <2>1, <2>2 DEF Dialogue, Eligible, Said, Calls, Prompt
  <2>5. Earned' /\ Standing' /\ PamSound'
    BY <1>1, <1>2, <2>1, <2>2 DEF Earned, Standing, Good, PamSound, Eligible
  <2> QED
    BY <2>3, <2>4, <2>5 DEF PamInv
<1>4. CASE pm.cleanup
  <2>1. /\ thr' = Reaped
        /\ pm' = [pm EXCEPT !.handler = FALSE, !.tstatus = StatusOf,
                            !.pc = IF StatusOf = "signal" THEN "end" ELSE @]
    BY <1>4 DEF sshpam_sigchld_handler
  <2>2. StatusOf \in {"exit0", "signal", "term"}
    BY DEF StatusOf
  <2>3. Same(pm') /\ pm'.pc \in {pm.pc, "end"}
    BY <1>2, <2>1, <2>2 DEF PamTypeOK, PamMonitors
  <2>4. /\ thr' \in Threads /\ thr'.st # "alive" /\ thr'.gen = thr.gen /\ thr'.phase = thr.phase
        /\ thr'.account = thr.account /\ thr'.pwchange = thr.pwchange
    BY <1>2, <2>1, ReapedFacts DEF PamTypeOK
  <2>5. ~pm.session /\ ~pm.cred /\ ~lib.session /\ ~lib.cred
    BY <1>2, <1>4 DEF Open, Places
  <2>6. PamTypeOK' /\ Places' /\ Open' /\ Dialogue'
    BY <1>1, <1>2, <1>4, <2>3, <2>4, <2>5 DEF PamTypeOK, Places, Open, Dialogue
  <2>7. Earned' /\ Standing' /\ PamSound'
    BY <1>1, <1>2, <2>3, <2>4, <2>5 DEF Earned, Standing, Good, PamSound, Eligible
  <2> QED
    BY <2>6, <2>7 DEF PamInv
<1> QED
  BY <1>3, <1>4

LEMMA SlaveDiesInv == PamInv /\ SlaveDies => PamInv'
<1> SUFFICES ASSUME PamInv, SlaveDies PROVE PamInv'
  OBVIOUS
<1>1. /\ kb' = [kb EXCEPT !.st = "gone"] /\ sigs' = (sigs \/ pm.handler)
      /\ UNCHANGED <<pset, pm, thr, toM, toT, lib>>
  BY DEF SlaveDies
<1>2. /\ PamTypeOK /\ Places /\ Open /\ Dialogue /\ Earned /\ Standing /\ PamSound
  BY DEF PamInv
<1>3. kb' \in Slaves /\ kb'.st = "gone"
  BY <1>1, <1>2 DEF PamTypeOK, Slaves
<1>4. PamTypeOK' /\ Places' /\ Open'
  BY <1>1, <1>2, <1>3 DEF PamTypeOK, Places, Open
<1>5. Dialogue'
  BY <1>1, <1>2, <1>3 DEF Dialogue, Eligible, Said, Calls, Prompt
<1>6. Earned' /\ Standing' /\ PamSound'
  BY <1>1, <1>2 DEF Earned, Standing, Good, PamSound, Eligible
<1> QED
  BY <1>4, <1>5, <1>6 DEF PamInv

\* m is what the monitor holds when it decides to end.
Final(m) ==
  /\ m \in PamMonitors
  /\ m.handle = pm.handle /\ m.session = pm.session /\ m.cred = pm.cred
  /\ m.authenticated = pm.authenticated /\ m.by = pm.by
  /\ thr.st = "alive" => m.cleanup
  /\ m.done = 1 => thr.gen \in lib.passed /\ Eligible
  /\ m.account = 1 => Good(m.pwchange /\ m.restricted)

LEMMA EndsInv ==
  ASSUME PamInv, NEW m, Final(m), Ends(m), UNCHANGED <<pset, kb>>
  PROVE  PamInv'
<1>1. /\ PamTypeOK /\ Places /\ Open /\ Dialogue /\ Earned /\ Standing /\ PamSound
  BY DEF PamInv
<1> DEFINE d == sshpam_cleanup(m, lib)
<1>2. /\ pm' = [sshpam_thread_cleanup(d.m) EXCEPT !.pc = "end"]
      /\ thr' = ThreadAfterCleanup(m)
      /\ lib' = d.l
      /\ sigs' = FALSE
      /\ UNCHANGED <<toM, toT>>
  BY DEF Ends
<1>3. m \in PamMonitors /\ lib \in Seen /\ thr \in Threads
  BY <1>1 DEF Final, PamTypeOK
<1>4. /\ d.m \in PamMonitors /\ ~d.m.session /\ ~d.m.cred /\ d.m.cleanup = m.cleanup
      /\ d.m.authenticated => m.authenticated
      /\ d.m.done = m.done /\ d.m.account = m.account /\ d.m.pwchange = m.pwchange
      /\ d.m.restricted = m.restricted /\ d.m.by = m.by
  <2>1. CASE m.handle
    <3>1. d.m = [m EXCEPT !.handle = FALSE, !.session = FALSE, !.cred = FALSE, !.authenticated = FALSE]
      BY <2>1 DEF sshpam_cleanup
    <3> HIDE DEF d
    <3> QED
      BY <1>3, <3>1 DEF PamMonitors
  <2>2. CASE ~m.handle
    <3>1. d.m = m
      BY <2>2 DEF sshpam_cleanup
    <3>2. ~m.session /\ ~m.cred
      BY <1>1, <2>2 DEF Final, Open
    <3> HIDE DEF d
    <3> QED
      BY <1>3, <3>1, <3>2
  <2> QED
    BY <2>1, <2>2
<1>5. /\ d.l \in Seen /\ ~d.l.session /\ ~d.l.cred
      /\ d.l.answers = lib.answers /\ d.l.passed = lib.passed /\ d.l.changed = lib.changed
  <2>1. CASE m.handle
    <3>1. d.l = [lib EXCEPT !.session = @ /\ ~m.session, !.cred = @ /\ ~m.cred]
      BY <2>1 DEF sshpam_cleanup
    <3>2. (lib.session => m.session) /\ (lib.cred => m.cred)
      BY <1>1 DEF Final, Open
    <3> HIDE DEF d
    <3> QED
      BY <1>3, <3>1, <3>2 DEF Seen, PamMonitors
  <2>2. CASE ~m.handle
    <3>1. d.l = lib
      BY <2>2 DEF sshpam_cleanup
    <3>2. ~lib.session /\ ~lib.cred
      BY <1>1, <2>2 DEF Final, Open
    <3> HIDE DEF d
    <3> QED
      BY <1>3, <3>1, <3>2
  <2> QED
    BY <2>1, <2>2
<1> HIDE DEF d
<1>6. /\ pm' \in PamMonitors /\ pm'.pc = "end" /\ ~pm'.session /\ ~pm'.cred /\ ~pm'.cleanup
      /\ pm'.authenticated => pm.authenticated
      /\ pm'.done = m.done /\ pm'.account = m.account /\ pm'.pwchange = m.pwchange
      /\ pm'.restricted = m.restricted /\ pm'.by = pm.by
  <2> DEFINE e == sshpam_thread_cleanup(d.m)
  <2>1. /\ e \in PamMonitors /\ ~e.session /\ ~e.cred /\ ~e.cleanup
        /\ e.authenticated => m.authenticated
        /\ e.done = m.done /\ e.account = m.account /\ e.pwchange = m.pwchange
        /\ e.restricted = m.restricted /\ e.by = m.by
    <3>1. CASE d.m.cleanup
      <4>1. e = [d.m EXCEPT !.cleanup = FALSE, !.handler = FALSE]
        BY <3>1 DEF sshpam_thread_cleanup
      <4> HIDE DEF e
      <4> QED
        BY <1>4, <4>1 DEF PamMonitors
    <3>2. CASE ~d.m.cleanup
      BY <1>4, <3>2 DEF sshpam_thread_cleanup
    <3> QED
      BY <3>1, <3>2
  <2>2. pm' = [e EXCEPT !.pc = "end"]
    BY <1>2
  <2>3. m.authenticated = pm.authenticated /\ m.by = pm.by
    BY DEF Final
  <2> HIDE DEF e
  <2> QED
    BY <2>1, <2>2, <2>3 DEF PamMonitors
<1>7. /\ thr' \in Threads /\ thr'.st # "alive" /\ thr'.gen = thr.gen /\ thr'.phase = thr.phase
      /\ thr'.account = thr.account /\ thr'.pwchange = thr.pwchange
  <2>1. CASE m.cleanup
    <3>1. thr' = Reaped
      BY <1>2, <2>1 DEF ThreadAfterCleanup
    <3> QED
      BY <1>3, <3>1, ReapedFacts
  <2>2. CASE ~m.cleanup
    BY <1>2, <1>3, <2>2 DEF ThreadAfterCleanup, Final
  <2> QED
    BY <2>1, <2>2
<1>8. PamTypeOK' /\ Places' /\ Open' /\ Dialogue'
  BY <1>1, <1>2, <1>5, <1>6, <1>7 DEF PamTypeOK, Places, Open, Dialogue
<1>9. Earned' /\ Standing'
  BY <1>1, <1>2, <1>5, <1>6, <1>7 DEF Earned, Standing, Good, Final, Eligible
<1>10. PamSound'
  BY <1>1, <1>2, <1>5, <1>6, <1>7 DEF PamSound, Eligible
<1> QED
  BY <1>8, <1>9, <1>10 DEF PamInv

\* The monitor ends from a place at which a thread that runs is known to it.
LEMMA FinalHere == PamInv /\ pm.pc # "create" => Final(pm)
<1> SUFFICES ASSUME PamInv, pm.pc # "create" PROVE Final(pm)
  OBVIOUS
<1>1. PamTypeOK /\ Places /\ Earned /\ Standing
  BY DEF PamInv
<1> QED
  BY <1>1 DEF Final, PamTypeOK, Places, Earned, Standing

LEMMA EofInv == PamInv /\ MonitorEof => PamInv'
BY EndsInv, FinalHere DEF MonitorEof

----------------------------------------------------------------------------
(* The monitor: keyboard-interactive.                                      *)

LEMMA StartInv == PamInv /\ start_pam => PamInv'
<1> SUFFICES ASSUME PamInv, start_pam PROVE PamInv'
  OBVIOUS
<1>1. pm.pc = "start" /\ kb.st = "idle" /\ UNCHANGED <<pset, kb>>
  BY DEF start_pam
<1>2. CASE Ends(pm)
  BY <1>1, <1>2, EndsInv, FinalHere
<1>3. CASE pm' = [pm EXCEPT !.pc = "idle", !.handle = TRUE] /\ UNCHANGED <<thr, toM, toT, lib, sigs>>
  <2>1. /\ PamTypeOK /\ Places /\ Open /\ Dialogue /\ Earned /\ Standing /\ PamSound
    BY DEF PamInv
  <2>2. /\ pm' \in PamMonitors /\ pm'.pc = "idle" /\ pm'.handle = TRUE /\ pm'.ctxt = pm.ctxt
        /\ pm'.cleanup = pm.cleanup /\ pm'.done = pm.done /\ pm'.authenticated = pm.authenticated
        /\ pm'.session = pm.session /\ pm'.cred = pm.cred /\ pm'.account = pm.account
        /\ pm'.pwchange = pm.pwchange /\ pm'.restricted = pm.restricted /\ pm'.by = pm.by
    BY <1>3, <2>1 DEF PamTypeOK, PamMonitors
  <2>3. PamTypeOK' /\ Places' /\ Open' /\ Dialogue'
    BY <1>1, <1>3, <2>1, <2>2 DEF PamTypeOK, Places, Open, Dialogue
  <2>4. Earned' /\ Standing' /\ PamSound'
    BY <1>1, <1>3, <2>1, <2>2 DEF Earned, Standing, Good, PamSound, Eligible
  <2> QED
    BY <2>3, <2>4 DEF PamInv
<1> QED
  BY <1>2, <1>3 DEF start_pam

LEMMA InitCtxInv == PamInv /\ sshpam_init_ctx => PamInv'
<1> SUFFICES ASSUME PamInv, sshpam_init_ctx PROVE PamInv'
  OBVIOUS
<1>1. /\ pm.pc = "idle" /\ kb.st = "idle" /\ pm.account # 0
      /\ pm' = [pm EXCEPT !.pc = "create", !.ctxt = TRUE, !.done = 0, !.authok = FALSE,
                          !.tstatus = "none", !.handler = TRUE]
      /\ thr' = [thr EXCEPT !.st = "alive", !.gen = @ + 1, !.phase = "auth", !.c = 1, !.i = 1,
                            !.wait = FALSE, !.bad = FALSE, !.account = pm.account,
                            !.pwchange = pm.pwchange]
      /\ toM' = <<>> /\ toT' = <<>>
      /\ UNCHANGED <<pset, kb, sigs, lib>>
  BY DEF sshpam_init_ctx
<1>2. /\ PamTypeOK /\ Places /\ Open /\ Earned /\ Standing /\ PamSound
  BY DEF PamInv
<1>3. /\ pm' \in PamMonitors /\ pm'.pc = "create" /\ pm'.handle = pm.handle /\ pm'.ctxt = TRUE
      /\ pm'.cleanup = pm.cleanup /\ pm'.done = 0 /\ pm'.authenticated = pm.authenticated
      /\ pm'.session = pm.session /\ pm'.cred = pm.cred /\ pm'.account = pm.account
      /\ pm'.pwchange = pm.pwchange /\ pm'.restricted = pm.restricted /\ pm'.by = pm.by
  BY <1>1, <1>2 DEF PamTypeOK, PamMonitors
<1>4. /\ thr' \in Threads /\ thr'.st = "alive" /\ thr'.phase = "auth" /\ thr'.wait = FALSE
      /\ thr'.account = pm.account /\ thr'.pwchange = pm.pwchange
  <2>1. pm.account \in {-1, 0, 1} /\ pm.pwchange \in BOOLEAN
    BY <1>2 DEF PamTypeOK, PamMonitors
  <2>2. thr \in Threads /\ thr.gen + 1 \in Nat
    BY <1>2 DEF PamTypeOK, Threads
  <2> QED
    BY <1>1, <2>1, <2>2 DEF Threads, PamPhases
<1>5. Len(toM') = 0 /\ toM' \in Seq(PamMessages) /\ toT' \in Seq(Replies)
  BY <1>1
<1>6. PamTypeOK' /\ Places' /\ Open'
  BY <1>1, <1>2, <1>3, <1>4, <1>5 DEF PamTypeOK, Places, Open
<1>7. Dialogue'
  BY <1>1, <1>4, <1>5 DEF Dialogue
<1>8. Earned' /\ Standing' /\ PamSound'
  BY <1>1, <1>2, <1>3, <1>4, <1>5 DEF Earned, Standing, Good, PamSound, Eligible
<1> QED
  BY <1>6, <1>7, <1>8 DEF PamInv

LEMMA InitCtxReturnsInv == PamInv /\ InitCtxReturns => PamInv'
<1> SUFFICES ASSUME PamInv, InitCtxReturns PROVE PamInv'
  OBVIOUS
<1>1. /\ PamTypeOK /\ Places /\ Open /\ Dialogue /\ Earned /\ Standing /\ PamSound
  BY DEF PamInv
<1>2. pm.pc = "create" /\ pset' = pset /\ kb.st \in {"idle", "gone"}
  BY <1>1 DEF InitCtxReturns, Places
<1>3. CASE kb.st = "gone"
  <2> DEFINE m == [pm EXCEPT !.cleanup = TRUE]
  <2>1. Ends(m) /\ kb' = kb
    BY <1>3 DEF InitCtxReturns
  <2>2. /\ m \in PamMonitors /\ m.handle = pm.handle /\ m.session = pm.session /\ m.cred = pm.cred
        /\ m.authenticated = pm.authenticated /\ m.by = pm.by /\ m.cleanup = TRUE
        /\ m.done = pm.done /\ m.account = pm.account /\ m.pwchange = pm.pwchange
        /\ m.restricted = pm.restricted
    BY <1>1 DEF PamTypeOK, PamMonitors
  <2> HIDE DEF m
  <2>3. Final(m)
    BY <1>1, <2>2 DEF Final, Earned, Standing
  <2> QED
    BY <1>2, <2>1, <2>3, EndsInv
<1>4. CASE kb.st # "gone"
  <2>1. /\ pm' = [pm EXCEPT !.pc = "idle", !.cleanup = TRUE]
        /\ kb' = [kb EXCEPT !.st = "query"]
        /\ UNCHANGED <<thr, toM, toT, lib, sigs>>
    BY <1>4 DEF InitCtxReturns
  <2>2. /\ pm' \in PamMonitors /\ pm'.pc = "idle" /\ pm'.handle = pm.handle /\ pm'.ctxt = pm.ctxt
        /\ pm'.cleanup = TRUE /\ pm'.done = pm.done /\ pm'.authenticated = pm.authenticated
        /\ pm'.session = pm.session /\ pm'.cred = pm.cred /\ pm'.account = pm.account
        /\ pm'.pwchange = pm.pwchange /\ pm'.restricted = pm.restricted /\ pm'.by = pm.by
    BY <1>1, <2>1 DEF PamTypeOK, PamMonitors
  <2>3. kb' \in Slaves /\ kb'.st = "query"
    BY <1>1, <2>1 DEF PamTypeOK, Slaves
  <2>4. PamTypeOK' /\ Places' /\ Open'
    BY <1>1, <1>2, <2>1, <2>2, <2>3 DEF PamTypeOK, Places, Open
  <2>5. Dialogue'
    BY <1>1, <1>2, <2>1, <2>3 DEF Dialogue, Eligible, Said, Calls, Prompt
  <2>6. Earned' /\ Standing' /\ PamSound'
    BY <1>1, <1>2, <2>1, <2>2 DEF Earned, Standing, Good, PamSound, Eligible
  <2> QED
    BY <2>4, <2>5, <2>6 DEF PamInv
<1> QED
  BY <1>3, <1>4

LEMMA PamQueryInv == PamInv /\ mm_answer_pam_query => PamInv'
<1> SUFFICES ASSUME PamInv, mm_answer_pam_query PROVE PamInv'
  OBVIOUS
<1>1. /\ PamTypeOK /\ Places /\ Open /\ Dialogue /\ Earned /\ Standing /\ PamSound
  BY DEF PamInv
<1>2. /\ pm.pc = "idle" /\ kb.st = "query"
      /\ pm' = [pm EXCEPT !.pc = "query", !.acc = FALSE, !.authok = FALSE]
      /\ kb' = [kb EXCEPT !.st = "wait"]
      /\ UNCHANGED <<pset, thr, toM, toT, sigs, lib>>
  BY DEF mm_answer_pam_query
<1>3. /\ pm' \in PamMonitors /\ pm'.pc = "query" /\ pm'.handle = pm.handle /\ pm'.ctxt = pm.ctxt
      /\ pm'.cleanup = pm.cleanup /\ pm'.done = pm.done /\ pm'.authenticated = pm.authenticated
      /\ pm'.session = pm.session /\ pm'.cred = pm.cred /\ pm'.account = pm.account
      /\ pm'.pwchange = pm.pwchange /\ pm'.restricted = pm.restricted /\ pm'.by = pm.by
  BY <1>1, <1>2 DEF PamTypeOK, PamMonitors
<1>4. kb' \in Slaves /\ kb'.st = "wait"
  BY <1>1, <1>2 DEF PamTypeOK, Slaves
<1>5. PamTypeOK' /\ Places' /\ Open'
  BY <1>1, <1>2, <1>3, <1>4 DEF PamTypeOK, Places, Open
<1>6. Dialogue'
  BY <1>1, <1>2, <1>4 DEF Dialogue, Eligible, Said, Calls, Prompt
<1>7. Earned' /\ Standing' /\ PamSound'
  BY <1>1, <1>2, <1>3 DEF Earned, Standing, Good, PamSound, Eligible
<1> QED
  BY <1>5, <1>6, <1>7 DEF PamInv

\* The monitor has read what it waited for and answers the query.
LEMMA AnswerInv ==
  ASSUME PamInv, pm.pc = "query", pset' = pset,
         NEW m, Final(m), m.ctxt = pm.ctxt, m.cleanup = pm.cleanup,
         NEW id \in Ids, NEW num \in {0, 1}, NEW ret \in {0, -1},
         Answer(m, id, num, ret),
         kb.st # "gone" =>
           /\ toM' \in Seq(PamMessages)
           /\ \A k \in 1..Len(toM') : \E j \in 1..Len(toM) : toM'[k] = toM[j]
           /\ thr.st = "alive" => ret = 0 /\ id = Prompt /\ thr.wait /\ toM' = <<>> /\ toT = <<>>
  PROVE  PamInv'
<1>1. /\ PamTypeOK /\ Places /\ Open /\ Dialogue /\ Earned /\ Standing /\ PamSound
  BY DEF PamInv
<1>2. CASE kb.st = "gone"
  <2>1. Ends(m) /\ kb' = kb
    BY <1>2 DEF Answer
  <2> QED
    BY <2>1, EndsInv
<1>3. CASE kb.st # "gone"
  <2>1. /\ pm' = [m EXCEPT !.pc = "idle", !.authok = ret = 0 /\ num = 0]
        /\ kb' = IF ret = 0 THEN [kb EXCEPT !.st = "info", !.id = id, !.num = num]
                 ELSE [kb EXCEPT !.st = "free"]
        /\ UNCHANGED <<thr, toT, lib, sigs>>
    BY <1>3 DEF Answer
  <2>2. /\ pm' \in PamMonitors /\ pm'.pc = "idle" /\ pm'.handle = pm.handle /\ pm'.ctxt = pm.ctxt
        /\ pm'.cleanup = pm.cleanup /\ pm'.done = m.done /\ pm'.authenticated = pm.authenticated
        /\ pm'.session = pm.session /\ pm'.cred = pm.cred /\ pm'.account = m.account
        /\ pm'.pwchange = m.pwchange /\ pm'.restricted = m.restricted /\ pm'.by = pm.by
    <3> DEFINE ok == ret = 0 /\ num = 0
    <3>1. ok \in BOOLEAN /\ pm' = [m EXCEPT !.pc = "idle", !.authok = ok]
      BY <2>1
    <3> HIDE DEF ok
    <3> QED
      BY <3>1 DEF Final, PamMonitors
  <2>3. /\ kb' \in Slaves /\ kb'.st \in {"info", "free"}
        /\ ret = 0 => kb'.id = id
    <3>1. kb \in Slaves
      BY <1>1 DEF PamTypeOK
    <3>2. CASE ret = 0
      BY <2>1, <3>1, <3>2 DEF Slaves
    <3>3. CASE ret # 0
      BY <2>1, <3>1, <3>3 DEF Slaves
    <3> QED
      BY <3>2, <3>3
  <2>4. PamTypeOK'
    BY <1>1, <1>3, <2>1, <2>2, <2>3 DEF PamTypeOK
  <2>5. Places' /\ Open'
    BY <1>1, <2>1, <2>2, <2>3 DEF Places, Open
  <2>6. Dialogue'
    <3> SUFFICES ASSUME thr.st = "alive" PROVE Dialogue'
      BY <2>1 DEF Dialogue
    <3>1. ret = 0 /\ id = Prompt /\ thr.wait /\ toM' = <<>> /\ toT = <<>> /\ kb'.id = id
      BY <1>3, <2>3
    <3>2. Prompt' = Prompt /\ (Said' <=> Said) /\ ~Said
      BY <1>1, <2>1, <3>1 DEF Prompt, Said, Calls, Dialogue
    <3>3. Len(toM') = 0
      BY <3>1
    <3> QED
      BY <2>1, <3>1, <3>2, <3>3 DEF Dialogue
  <2>7. Earned'
    BY <1>1, <1>3, <2>1, <2>2 DEF Earned, Final, Eligible
  <2>8. Standing'
    BY <1>1, <1>3, <2>1, <2>2 DEF Standing, Final, Good
  <2>9. PamSound'
    BY <1>1, <2>1, <2>2 DEF PamSound, Open, Eligible
  <2> QED
    BY <2>4, <2>5, <2>6, <2>7, <2>8, <2>9 DEF PamInv
<1> QED
  BY <1>2, <1>3

\* A message is taken out of the socket.
LEMMA TailFacts ==
  ASSUME PamInv, toM # <<>>
  PROVE  /\ Head(toM) = toM[1] /\ 1 \in 1..Len(toM) /\ Head(toM) \in PamMessages
         /\ Tail(toM) \in Seq(PamMessages)
         /\ \A k \in 1..Len(Tail(toM)) :
              k + 1 \in 1..Len(toM) /\ Tail(toM)[k] = toM[k + 1]
         /\ Len(toM) = 1 => Tail(toM) = <<>>
<1>1. toM \in Seq(PamMessages)
  BY DEF PamInv, PamTypeOK
<1>2. /\ Len(toM) \in Nat /\ Len(toM) # 0 /\ Len(Tail(toM)) = Len(toM) - 1
      /\ Tail(toM) \in Seq(PamMessages)
  BY <1>1
<1>3. \A k \in 1..Len(Tail(toM)) : k + 1 \in 1..Len(toM) /\ Tail(toM)[k] = toM[k + 1]
  BY <1>1, <1>2
<1> QED
  BY <1>1, <1>2, <1>3

LEMMA QueryInv == PamInv /\ sshpam_query => PamInv'
<1> SUFFICES ASSUME PamInv, sshpam_query PROVE PamInv'
  OBVIOUS
<1>1. /\ PamTypeOK /\ Places /\ Open /\ Dialogue /\ Earned /\ Standing /\ PamSound
  BY DEF PamInv
<1>2. pm.pc = "query" /\ pset' = pset /\ Final(pm)
  BY FinalHere DEF sshpam_query
<1>3. CASE toM = <<>>
  <2>1. thr.st # "alive" /\ Answer(pm, <<>>, 0, -1) /\ toM' = toM
    BY <1>3 DEF sshpam_query
  <2>2. <<>> \in Ids /\ 0 \in {0, 1} /\ -1 \in {0, -1}
    BY DEF Ids
  <2>3. toM' \in Seq(PamMessages) /\ Len(toM') = 0
    BY <1>3, <2>1
  <2> QED
    BY <1>2, <2>1, <2>2, <2>3, AnswerInv
<1>4. CASE toM # <<>>
  <2> DEFINE msg == Head(toM)
  <2>1. /\ msg = toM[1] /\ 1 \in 1..Len(toM) /\ msg \in PamMessages
        /\ Tail(toM) \in Seq(PamMessages)
        /\ \A k \in 1..Len(Tail(toM)) :
             k + 1 \in 1..Len(toM) /\ Tail(toM)[k] = toM[k + 1]
        /\ Len(toM) = 1 => Tail(toM) = <<>>
    BY <1>4, TailFacts
  <2>2. thr.st = "alive" =>
          /\ msg.t \in {"prompt", "info"}
          /\ msg.t = "prompt" => /\ msg.id = Prompt /\ thr.wait /\ toT = <<>>
                                 /\ Tail(toM) = <<>>
    BY <1>1, <1>4, <2>1 DEF Dialogue
  <2>3. CASE msg.t = "info"
    <3>1. /\ pm' = [pm EXCEPT !.acc = TRUE] /\ toM' = Tail(toM)
          /\ UNCHANGED <<thr, toT, kb, lib, sigs>>
      BY <1>4, <2>3 DEF sshpam_query
    <3>2. /\ pm' \in PamMonitors /\ pm'.pc = pm.pc /\ pm'.handle = pm.handle /\ pm'.ctxt = pm.ctxt
          /\ pm'.cleanup = pm.cleanup /\ pm'.done = pm.done /\ pm'.authenticated = pm.authenticated
          /\ pm'.session = pm.session /\ pm'.cred = pm.cred /\ pm'.account = pm.account
          /\ pm'.pwchange = pm.pwchange /\ pm'.restricted = pm.restricted /\ pm'.by = pm.by
      BY <1>1, <3>1 DEF PamTypeOK, PamMonitors
    <3> HIDE DEF msg
    <3>3. PamTypeOK' /\ Places' /\ Open'
      BY <1>1, <1>2, <2>1, <3>1, <3>2 DEF PamTypeOK, Places, Open
    <3>4. Dialogue'
      <4>1. thr.st = "alive" => toT = <<>> /\ kb.st # "info"
        BY <1>1, <1>4 DEF Dialogue
      <4>2. thr.st = "alive" => (thr.wait => ~Said)
        BY <1>1 DEF Dialogue
      <4>3. Len(toM) \in Nat /\ Len(toM') = Len(toM) - 1
        BY <1>1, <1>4, <3>1 DEF PamTypeOK
      <4>4. ASSUME thr.st = "alive", NEW k \in 1..Len(toM')
            PROVE  /\ toM'[k].t \in {"prompt", "info"}
                   /\ toM'[k].t = "prompt" => thr.wait /\ k = Len(toM') /\ toM'[k].id = Prompt
        <5>1. k + 1 \in 1..Len(toM) /\ toM'[k] = toM[k + 1]
          BY <2>1, <3>1
        <5>2. /\ toM[k + 1].t \in {"prompt", "info"}
              /\ toM[k + 1].t = "prompt" =>
                   thr.wait /\ k + 1 = Len(toM) /\ toM[k + 1].id = Prompt
          BY <1>1, <4>4, <5>1 DEF Dialogue
        <5> QED
          BY <4>3, <5>1, <5>2
      <4>5. Prompt' = Prompt /\ (Said' <=> Said)
        BY <1>2, <3>1 DEF Prompt, Said, Calls
      <4> QED
        BY <3>1, <4>1, <4>2, <4>4, <4>5 DEF Dialogue
    <3>5. Earned' /\ Standing' /\ PamSound'
      BY <1>1, <1>2, <2>1, <3>1, <3>2 DEF Earned, Standing, Good, PamSound, Eligible
    <3> QED
      BY <3>3, <3>4, <3>5 DEF PamInv
  <2>4. CASE msg.t = "success" /\ ~Eligible
    <3>1. Ends(pm) /\ kb' = kb
      BY <1>4, <2>4 DEF sshpam_query
    <3> QED
      BY <1>2, <3>1, EndsInv
  \* The other messages are answered with what the monitor has made of them.
  <2>5. ASSUME NEW m, Final(m), m.ctxt = pm.ctxt, m.cleanup = pm.cleanup,
               NEW id \in Ids, NEW num \in {0, 1}, NEW ret \in {0, -1},
               Answer(m, id, num, ret), kb.st # "gone" => toM' = Tail(toM),
               msg.t = "prompt" => ret = 0 /\ id = msg.id, msg.t # "info"
        PROVE  PamInv'
    <3>1. kb.st # "gone" =>
            /\ toM' \in Seq(PamMessages)
            /\ \A k \in 1..Len(toM') : \E j \in 1..Len(toM) : toM'[k] = toM[j]
            /\ thr.st = "alive" => ret = 0 /\ id = Prompt /\ thr.wait /\ toM' = <<>> /\ toT = <<>>
      BY <2>1, <2>2, <2>5
    <3> QED
      BY <1>2, <2>5, <3>1, AnswerInv
  <2>6. CASE msg.t = "prompt"
    <3>1. Answer(pm, msg.id, 1, 0) /\ (kb.st # "gone" => toM' = Tail(toM))
      BY <1>4, <2>6 DEF sshpam_query
    <3>2. msg.id \in Ids
      BY <2>1 DEF PamMessages
    <3> QED
      BY <1>2, <2>5, <2>6, <3>1, <3>2
  <2>7. CASE msg.t = "success" /\ Eligible
    <3> DEFINE m == [import_environments(pm, msg) EXCEPT !.done = 1]
    <3>1. Answer(m, <<>>, 0, 0) /\ (kb.st # "gone" => toM' = Tail(toM))
      BY <1>4, <2>7 DEF sshpam_query
    <3>2. msg.account \in {-1, 0, 1} /\ msg.pwchange \in BOOLEAN
      BY <2>1 DEF PamMessages
    <3>3. /\ m \in PamMonitors /\ m.handle = pm.handle /\ m.session = pm.session
          /\ m.cred = pm.cred /\ m.authenticated = pm.authenticated /\ m.by = pm.by
          /\ m.ctxt = pm.ctxt /\ m.cleanup = pm.cleanup /\ m.account = msg.account
          /\ m.pwchange = msg.pwchange /\ m.restricted = msg.pwchange
      <4>1. m = [pm EXCEPT !.account = msg.account, !.pwchange = msg.pwchange,
                           !.restricted = msg.pwchange, !.done = 1]
        BY <1>1 DEF import_environments, sshpam_password_change_required, PamTypeOK, PamMonitors
      <4> HIDE DEF m, msg
      <4> QED
        BY <1>1, <3>2, <4>1 DEF PamTypeOK, PamMonitors
    <3>4. /\ thr.gen \in lib.passed /\ msg.account = 1 /\ Good(msg.pwchange)
      BY <1>1, <2>1, <2>7 DEF Earned, Standing
    <3> HIDE DEF m
    <3>5. Final(m)
      BY <1>1, <1>2, <2>7, <3>3, <3>4 DEF Final, Good
    <3>6. <<>> \in Ids
      BY DEF Ids
    <3> QED
      BY <2>5, <2>7, <3>1, <3>3, <3>5, <3>6
  <2>8. CASE msg.t \in {"expired", "maxtries", "autherr"}
    <3> DEFINE m == CASE msg.t = "expired"  -> [pm EXCEPT !.account = 0, !.done = -1]
                      [] msg.t = "maxtries" -> [sshpam_set_maxtries_reached(pm) EXCEPT !.done = -1]
                      [] msg.t = "autherr"  -> [pm EXCEPT !.done = -1]
                      [] OTHER -> pm
               ret == IF pm.acc THEN 0 ELSE -1
    <3>1. Answer(m, <<>>, 0, ret) /\ (kb.st # "gone" => toM' = Tail(toM))
      BY <1>4, <2>8 DEF sshpam_query
    <3>2. /\ m \in PamMonitors /\ m.handle = pm.handle /\ m.session = pm.session
          /\ m.cred = pm.cred /\ m.authenticated = pm.authenticated /\ m.by = pm.by
          /\ m.ctxt = pm.ctxt /\ m.cleanup = pm.cleanup /\ m.account \in {pm.account, 0}
          /\ m.pwchange = pm.pwchange /\ m.restricted = pm.restricted /\ m.done = -1
      <4>1. pm \in PamMonitors
        BY <1>1 DEF PamTypeOK
      <4>2. CASE msg.t = "expired"
        <5>1. m = [pm EXCEPT !.account = 0, !.done = -1]
          BY <4>2
        <5> HIDE DEF m
        <5> QED
          BY <4>1, <5>1 DEF PamMonitors
      <4>3. CASE msg.t = "maxtries"
        <5>1. m = [[pm EXCEPT !.maxtries = TRUE] EXCEPT !.done = -1]
          BY <4>3 DEF sshpam_set_maxtries_reached
        <5> HIDE DEF m
        <5> QED
          BY <4>1, <5>1 DEF PamMonitors
      <4>4. CASE msg.t = "autherr"
        <5>1. m = [pm EXCEPT !.done = -1]
          BY <4>4
        <5> HIDE DEF m
        <5> QED
          BY <4>1, <5>1 DEF PamMonitors
      <4> QED
        BY <2>8, <4>2, <4>3, <4>4
    <3> HIDE DEF m
    <3>3. Final(m)
      BY <1>1, <1>2, <3>2 DEF Final
    <3>4. <<>> \in Ids /\ ret \in {0, -1}
      BY DEF Ids
    <3> HIDE DEF ret
    <3> QED
      BY <2>5, <2>8, <3>1, <3>2, <3>3, <3>4
  <2> QED
    <3>1. msg.t \in {"prompt", "info", "autherr", "maxtries", "expired", "success"}
      BY <2>1 DEF PamMessages
    <3> QED
      BY <2>3, <2>4, <2>6, <2>7, <2>8, <3>1
<1> QED
  BY <1>3, <1>4

\* The answer goes into the socket when the prompt on the screen is the one the
\* thread waits on.
LEMMA RespondInv ==
  ASSUME PamInv, NEW right \in BOOLEAN, sshpam_respond(right)
  PROVE  PamInv'
<1>1. /\ PamTypeOK /\ Places /\ Open /\ Dialogue /\ Earned /\ Standing /\ PamSound
  BY DEF PamInv
<1> DEFINE ret == CASE pm.done = 1 -> 0
                    [] pm.done = 0 -> IF kb.num = 1 /\ thr.st = "alive" THEN 1 ELSE -1
                    [] OTHER -> -1
           ok == ret = 0
           valid == ok /\ pset.valid
           reply == [to |-> kb.id, right |-> right /\ Eligible, junk |-> ~Eligible]
<1>2. /\ pm.pc = "idle" /\ kb.st = "info"
      /\ pm' = [pm EXCEPT !.authok = ok, !.authenticated = @ \/ ok, !.by = IF ok THEN thr.gen ELSE @]
      /\ kb' = [kb EXCEPT !.st = IF ret = 1 THEN "query" ELSE "free", !.ok = valid]
      /\ toT' = IF ret # 1 THEN toT ELSE Append(toT, reply)
      /\ UNCHANGED <<pset, thr, toM, sigs, lib>>
  BY DEF sshpam_respond
<1>3. /\ ok \in BOOLEAN /\ valid \in BOOLEAN
      /\ ok => pm.done = 1
      /\ ret # 1 => thr.st # "alive" \/ pm.done # 0 \/ kb.num # 1
      /\ ret = 1 => thr.st = "alive"
  OBVIOUS
<1>4. Eligible \in BOOLEAN
  BY <1>1, SetupFacts DEF PamTypeOK
<1>5. kb.id \in Ids /\ thr.gen \in Nat
  BY <1>1 DEF PamTypeOK, Slaves, Threads
<1>6. reply \in Replies /\ reply.to = kb.id /\ reply.junk = ~Eligible
  BY <1>4, <1>5 DEF Replies
<1> HIDE DEF ret, ok, valid, reply
<1>7. /\ pm' \in PamMonitors /\ pm'.pc = "idle" /\ pm'.handle = pm.handle /\ pm'.ctxt = pm.ctxt
      /\ pm'.cleanup = pm.cleanup /\ pm'.done = pm.done /\ pm'.session = pm.session
      /\ pm'.cred = pm.cred /\ pm'.account = pm.account /\ pm'.pwchange = pm.pwchange
      /\ pm'.restricted = pm.restricted
      /\ \/ ok /\ pm'.authenticated = TRUE /\ pm'.by = thr.gen
         \/ ~ok /\ pm'.authenticated = pm.authenticated /\ pm'.by = pm.by
  <2>1. CASE ok
    <3>1. pm' = [pm EXCEPT !.authok = TRUE, !.authenticated = TRUE, !.by = thr.gen]
      BY <1>2, <1>3, <2>1
    <3> QED
      BY <1>1, <1>2, <1>5, <2>1, <3>1 DEF PamTypeOK, PamMonitors
  <2>2. CASE ~ok
    <3>1. pm' = [pm EXCEPT !.authok = FALSE, !.authenticated = @, !.by = @]
      BY <1>1, <1>2, <1>3, <2>2 DEF PamTypeOK, PamMonitors
    <3> QED
      BY <1>1, <1>2, <1>5, <2>2, <3>1 DEF PamTypeOK, PamMonitors
  <2> QED
    BY <1>3, <2>1, <2>2
<1>8. kb' \in Slaves /\ kb'.st \in {"query", "free"}
  BY <1>1, <1>2, <1>3 DEF PamTypeOK, Slaves
<1>9. toT' \in Seq(Replies)
  BY <1>1, <1>2, <1>6 DEF PamTypeOK
<1>10. PamTypeOK' /\ Places' /\ Open'
  BY <1>1, <1>2, <1>7, <1>8, <1>9 DEF PamTypeOK, Places, Open
<1>11. Dialogue'
  <2> SUFFICES ASSUME thr.st = "alive" PROVE Dialogue'
    BY <1>2 DEF Dialogue
  <2>1. thr.wait /\ ~Said /\ toM = <<>> /\ toT = <<>> /\ kb.id = Prompt
    BY <1>1, <1>2 DEF Dialogue
  <2>2. Prompt' = Prompt /\ (Said' <=> Said) /\ (Eligible' <=> Eligible) /\ toM' = <<>> /\ thr' = thr
    BY <1>2, <2>1 DEF Prompt, Said, Calls, Eligible
  <2>3. Len(toM') = 0
    BY <2>2
  <2>4. CASE ret # 1
    BY <1>2, <1>8, <2>1, <2>2, <2>3, <2>4 DEF Dialogue
  <2>5. CASE ret = 1
    <3>1. Len(toT') = 1 /\ toT'[1] = reply
      BY <1>2, <1>6, <2>1, <2>5
    <3> QED
      BY <1>4, <1>6, <1>8, <2>1, <2>2, <2>3, <3>1 DEF Dialogue
  <2> QED
    BY <2>4, <2>5
<1>12. Earned' /\ Standing'
  BY <1>1, <1>2, <1>7 DEF Earned, Standing, Good, Eligible
<1>13. PamSound'
  <2>1. pm.done = 1 => thr.gen \in lib.passed /\ Eligible
    BY <1>1 DEF Earned
  <2> QED
    BY <1>1, <1>2, <1>3, <1>7, <2>1 DEF PamSound, Eligible
<1> QED
  BY <1>10, <1>11, <1>12, <1>13 DEF PamInv

LEMMA AbandonInv == PamInv /\ Abandon => PamInv'
<1> SUFFICES ASSUME PamInv, Abandon PROVE PamInv'
  OBVIOUS
<1>1. /\ PamTypeOK /\ Places /\ Open /\ Dialogue /\ Earned /\ Standing /\ PamSound
  BY DEF PamInv
<1>2. /\ kb.st = "info" /\ kb' = [kb EXCEPT !.st = "free"]
      /\ UNCHANGED <<pset, pm, thr, toM, toT, sigs, lib>>
  BY DEF Abandon
<1>3. kb' \in Slaves /\ kb'.st = "free"
  BY <1>1, <1>2 DEF PamTypeOK, Slaves
<1>4. PamTypeOK' /\ Places' /\ Open'
  BY <1>1, <1>2, <1>3 DEF PamTypeOK, Places, Open
<1>5. Dialogue'
  BY <1>1, <1>2, <1>3 DEF Dialogue, Eligible, Said, Calls, Prompt
<1>6. Earned' /\ Standing' /\ PamSound'
  BY <1>1, <1>2 DEF Earned, Standing, Good, PamSound, Eligible
<1> QED
  BY <1>4, <1>5, <1>6 DEF PamInv

LEMMA FreeCtxInv == PamInv /\ sshpam_free_ctx => PamInv'
<1> SUFFICES ASSUME PamInv, sshpam_free_ctx PROVE PamInv'
  OBVIOUS
<1>1. /\ PamTypeOK /\ Places /\ Open /\ Earned /\ Standing /\ PamSound
  BY DEF PamInv
<1> DEFINE e == sshpam_thread_cleanup(pm)
<1>2. /\ pm.pc = "idle" /\ kb.st = "free"
      /\ pm' = [e EXCEPT !.ctxt = FALSE, !.authok = FALSE,
                         !.pc = IF pm.authok THEN "account" ELSE "idle"]
      /\ thr' = ThreadAfterCleanup(pm)
      /\ toM' = <<>> /\ toT' = <<>>
      /\ kb' = [kb EXCEPT !.st = "idle"]
      /\ sigs' = (sigs /\ ~pm.cleanup)
      /\ UNCHANGED <<pset, lib>>
  BY DEF sshpam_free_ctx
<1>3. /\ e \in PamMonitors /\ e.handle = pm.handle /\ ~e.cleanup /\ e.done = pm.done
      /\ e.authenticated = pm.authenticated /\ e.session = pm.session /\ e.cred = pm.cred
      /\ e.account = pm.account /\ e.pwchange = pm.pwchange /\ e.restricted = pm.restricted
      /\ e.by = pm.by
  <2>1. pm \in PamMonitors
    BY <1>1 DEF PamTypeOK
  <2>2. CASE pm.cleanup
    <3>1. e = [pm EXCEPT !.cleanup = FALSE, !.handler = FALSE]
      BY <2>2 DEF sshpam_thread_cleanup
    <3> HIDE DEF e
    <3> QED
      BY <2>1, <3>1 DEF PamMonitors
  <2>3. CASE ~pm.cleanup
    BY <2>1, <2>3 DEF sshpam_thread_cleanup
  <2> QED
    BY <2>2, <2>3
<1> HIDE DEF e
<1>4. /\ pm' \in PamMonitors /\ pm'.pc \in {"account", "idle"} /\ pm'.handle = pm.handle
      /\ ~pm'.cleanup /\ pm'.done = pm.done /\ pm'.authenticated = pm.authenticated
      /\ pm'.session = pm.session /\ pm'.cred = pm.cred /\ pm'.account = pm.account
      /\ pm'.pwchange = pm.pwchange /\ pm'.restricted = pm.restricted /\ pm'.by = pm.by
  BY <1>2, <1>3 DEF PamMonitors
<1>5. /\ thr' \in Threads /\ thr'.st # "alive" /\ thr'.gen = thr.gen /\ thr'.phase = thr.phase
      /\ thr'.account = thr.account /\ thr'.pwchange = thr.pwchange
  <2>1. CASE pm.cleanup
    <3>1. thr' = Reaped
      BY <1>2, <2>1 DEF ThreadAfterCleanup
    <3> QED
      BY <1>1, <3>1, ReapedFacts DEF PamTypeOK
  <2>2. CASE ~pm.cleanup
    BY <1>1, <1>2, <2>2 DEF ThreadAfterCleanup, Places, PamTypeOK
  <2> QED
    BY <2>1, <2>2
<1>6. kb' \in Slaves /\ kb'.st = "idle"
  BY <1>1, <1>2 DEF PamTypeOK, Slaves
<1>7. Len(toM') = 0 /\ toM' \in Seq(PamMessages) /\ toT' \in Seq(Replies) /\ sigs' \in BOOLEAN
  BY <1>2
<1>8. PamTypeOK' /\ Places' /\ Open' /\ Dialogue'
  BY <1>1, <1>2, <1>4, <1>5, <1>6, <1>7 DEF PamTypeOK, Places, Open, Dialogue
<1>9. Earned' /\ Standing' /\ PamSound'
  BY <1>1, <1>2, <1>4, <1>5, <1>7 DEF Earned, Standing, Good, PamSound, Eligible
<1> QED
  BY <1>8, <1>9 DEF PamInv

----------------------------------------------------------------------------
(* The monitor: other methods, the account, the session.                   *)

\* The monitor takes note of something and goes on to pc, with the
\* conversation over or not begun.
LEMMA GoesOn ==
  ASSUME PamInv, pm' \in PamMonitors, ~pm.cleanup,
         pm'.pc \in {"idle", "account", "cred", "open"},
         pm.pc \in {"idle", "account", "cred"},
         pm'.handle = pm.handle, pm'.ctxt = pm.ctxt, pm'.cleanup = pm.cleanup,
         pm'.done = pm.done, pm'.authenticated = pm.authenticated, pm'.session = pm.session,
         pm'.by = pm.by,
         pm'.cred => pm'.handle /\ pm'.pc = "open",
         lib'.cred => pm'.cred,
         pm'.account = 1 => Good(pm'.pwchange /\ pm'.restricted),
         pm'.pc \in {"cred", "open"} => pm'.account = 1,
         kb' \in Slaves, kb.st \in {"idle", "gone"}, kb'.st \in {"idle", "gone"},
         sigs' \in BOOLEAN, lib' \in Seen, lib'.answers = lib.answers,
         lib'.passed = lib.passed, lib'.changed = lib.changed, lib'.session = lib.session,
         UNCHANGED <<pset, thr, toM, toT>>
  PROVE  PamInv'
<1>1. /\ PamTypeOK /\ Places /\ Open /\ Dialogue /\ Earned /\ Standing /\ PamSound
  BY DEF PamInv
<1>2. thr.st # "alive"
  BY <1>1 DEF Places
<1>3. PamTypeOK'
  BY <1>1 DEF PamTypeOK
<1>4. Places' /\ Open'
  BY <1>1, <1>2 DEF Places, Open
<1>5. Dialogue' /\ Earned'
  BY <1>1, <1>2 DEF Dialogue, Earned, Eligible
<1>6. Standing'
  BY <1>1 DEF Standing, Good
<1>7. PamSound'
  BY <1>1, <1>2 DEF PamSound, Open, Eligible
<1> QED
  BY <1>3, <1>4, <1>5, <1>6, <1>7 DEF PamInv

\* A method other than keyboard-interactive succeeded, or failed.
LEMMA MethodInv ==
  ASSUME PamInv, pm.pc = "idle", kb.st = "idle",
         \/ pm' = [pm EXCEPT !.pc = "account"] /\ kb' = [kb EXCEPT !.ok = TRUE]
         \/ pm' = pm /\ kb' = kb
         \/ pm' = [pm EXCEPT !.maxtries = TRUE] /\ kb' = kb,
         UNCHANGED <<pset, thr, toM, toT, sigs, lib>>
  PROVE  PamInv'
<1>1. /\ PamTypeOK /\ Places /\ Open /\ Standing
  BY DEF PamInv
<1>2. /\ pm' \in PamMonitors /\ pm'.pc \in {"idle", "account"} /\ pm'.handle = pm.handle
      /\ pm'.ctxt = pm.ctxt /\ pm'.cleanup = pm.cleanup /\ pm'.done = pm.done
      /\ pm'.authenticated = pm.authenticated /\ pm'.session = pm.session /\ pm'.by = pm.by
      /\ pm'.cred = pm.cred /\ pm'.account = pm.account /\ pm'.pwchange = pm.pwchange
      /\ pm'.restricted = pm.restricted
  <2>1. pm \in PamMonitors
    BY <1>1 DEF PamTypeOK
  <2>2. CASE pm' = [pm EXCEPT !.pc = "account"]
    BY <2>1, <2>2 DEF PamMonitors
  <2>3. CASE pm' = pm
    BY <2>1, <2>3
  <2>4. CASE pm' = [pm EXCEPT !.maxtries = TRUE]
    BY <2>1, <2>4 DEF PamMonitors
  <2> QED
    BY <2>2, <2>3, <2>4
<1>3. kb' \in Slaves /\ kb'.st = "idle"
  BY <1>1 DEF PamTypeOK, Slaves
<1>4. ~pm.cleanup /\ ~pm.cred /\ ~lib.cred
  BY <1>1 DEF Places, Open
<1>5. (pm'.account = 1 => Good(pm'.pwchange /\ pm'.restricted)) /\ sigs' \in BOOLEAN /\ lib' \in Seen
  BY <1>1, <1>2 DEF Standing, PamTypeOK
<1> QED
  BY <1>2, <1>3, <1>4, <1>5, GoesOn

LEMMA PasswdInv ==
  ASSUME PamInv, NEW right \in BOOLEAN, sshpam_auth_passwd(right)
  PROVE  PamInv'
BY MethodInv DEF sshpam_auth_passwd, sshpam_set_maxtries_reached

LEMMA OtherMethodInv == PamInv /\ OtherMethod => PamInv'
BY MethodInv DEF OtherMethod

\* What do_pam_account() finds.
LEMMA AccountFacts ==
  ASSUME PamInv
  PROVE  LET m == do_pam_account(pm)
         IN  /\ m \in PamMonitors /\ m.pc = pm.pc /\ m.handle = pm.handle
             /\ m.ctxt = pm.ctxt /\ m.cleanup = pm.cleanup /\ m.done = pm.done
             /\ m.authenticated = pm.authenticated /\ m.session = pm.session /\ m.by = pm.by
             /\ m.cred = pm.cred /\ m.account \in {0, 1}
             /\ m.account = 1 => Good(m.pwchange /\ m.restricted)
<1> DEFINE m == do_pam_account(pm)
<1>1. pm \in PamMonitors /\ Standing
  BY DEF PamInv, PamTypeOK
<1> SUFFICES /\ m \in PamMonitors /\ m.pc = pm.pc /\ m.handle = pm.handle
             /\ m.ctxt = pm.ctxt /\ m.cleanup = pm.cleanup /\ m.done = pm.done
             /\ m.authenticated = pm.authenticated /\ m.session = pm.session /\ m.by = pm.by
             /\ m.cred = pm.cred /\ m.account \in {0, 1}
             /\ m.account = 1 => Good(m.pwchange /\ m.restricted)
  OBVIOUS
<1>2. CASE pm.account # -1
  <2>1. m = pm
    BY <1>2 DEF do_pam_account
  <2> HIDE DEF m
  <2> QED
    BY <1>1, <1>2, <2>1 DEF PamMonitors, Standing
<1>3. CASE pm.account = -1 /\ pset.acct = "expired"
  <2>1. m = [pm EXCEPT !.account = 0]
    BY <1>3 DEF do_pam_account
  <2> HIDE DEF m
  <2> QED
    BY <1>1, <2>1 DEF PamMonitors
<1>4. CASE pm.account = -1 /\ pset.acct = "newtok"
  <2>1. m = [[pm EXCEPT !.pwchange = TRUE, !.restricted = TRUE] EXCEPT !.account = 1]
    BY <1>4 DEF do_pam_account, sshpam_password_change_required
  <2> HIDE DEF m
  <2> QED
    BY <1>1, <1>4, <2>1 DEF PamMonitors, Good
<1>5. CASE pm.account = -1 /\ pset.acct \notin {"expired", "newtok"}
  <2>1. m = [pm EXCEPT !.account = 1]
    BY <1>5 DEF do_pam_account
  <2> HIDE DEF m
  <2> QED
    BY <1>1, <1>5, <2>1 DEF PamMonitors, Good
<1> QED
  BY <1>2, <1>3, <1>4, <1>5

LEMMA AccountInv == PamInv /\ mm_answer_pam_account => PamInv'
<1> SUFFICES ASSUME PamInv, mm_answer_pam_account PROVE PamInv'
  OBVIOUS
<1>1. /\ PamTypeOK /\ Places /\ Open /\ Standing
  BY DEF PamInv
<1>2. pm.pc = "account" /\ kb.st = "idle" /\ pset' = pset
  BY DEF mm_answer_pam_account
<1>3. CASE ~kb.ok
  BY <1>2, <1>3, EndsInv, FinalHere DEF mm_answer_pam_account
<1>4. CASE kb.ok
  <2> DEFINE m == do_pam_account(pm)
  <2>1. /\ m \in PamMonitors /\ m.pc = pm.pc /\ m.handle = pm.handle
        /\ m.ctxt = pm.ctxt /\ m.cleanup = pm.cleanup /\ m.done = pm.done
        /\ m.authenticated = pm.authenticated /\ m.session = pm.session /\ m.by = pm.by
        /\ m.cred = pm.cred /\ m.account \in {0, 1}
        /\ m.account = 1 => Good(m.pwchange /\ m.restricted)
    BY AccountFacts
  <2>2. /\ \/ /\ m.account = 0 /\ pm' = [m EXCEPT !.pc = "idle"]
              /\ kb' = [kb EXCEPT !.st = "gone"] /\ sigs' = pm.handler
           \/ /\ m.account # 0 /\ pm' = [m EXCEPT !.pc = "cred"] /\ UNCHANGED <<kb, sigs>>
        /\ UNCHANGED <<thr, toM, toT, lib>>
    BY <1>4 DEF mm_answer_pam_account
  <2> HIDE DEF m
  <2>3. ~pm.cleanup /\ ~pm.cred /\ ~lib.cred /\ pm.handler \in BOOLEAN /\ sigs \in BOOLEAN
        /\ lib \in Seen /\ kb \in Slaves
    BY <1>1, <1>2 DEF Places, Open, PamTypeOK, PamMonitors
  <2>4. /\ pm' \in PamMonitors /\ pm'.pc \in {"idle", "cred"} /\ pm'.handle = pm.handle
        /\ pm'.ctxt = pm.ctxt /\ pm'.cleanup = pm.cleanup /\ pm'.done = pm.done
        /\ pm'.authenticated = pm.authenticated /\ pm'.session = pm.session /\ pm'.by = pm.by
        /\ pm'.cred = pm.cred /\ pm'.account = m.account /\ pm'.pwchange = m.pwchange
        /\ pm'.restricted = m.restricted /\ (pm'.pc = "cred" => m.account = 1)
    BY <2>1, <2>2 DEF PamMonitors
  <2>5. kb' \in Slaves /\ kb'.st \in {"idle", "gone"} /\ sigs' \in BOOLEAN
    BY <1>2, <2>2, <2>3 DEF Slaves
  <2>6. pm'.account = 1 => Good(pm'.pwchange /\ pm'.restricted)
    BY <2>1, <2>4
  <2> QED
    BY <1>2, <2>2, <2>3, <2>4, <2>5, <2>6, GoesOn
<1> QED
  BY <1>3, <1>4

LEMMA SetcredInv == PamInv /\ do_pam_setcred => PamInv'
<1> SUFFICES ASSUME PamInv, do_pam_setcred PROVE PamInv'
  OBVIOUS
<1>1. /\ PamTypeOK /\ Places /\ Open /\ Standing
  BY DEF PamInv
<1>2. pm.pc = "cred" /\ UNCHANGED <<pset, kb>>
  BY DEF do_pam_setcred
<1>3. CASE Ends(pm)
  BY <1>2, <1>3, EndsInv, FinalHere
<1>4. CASE /\ \/ pm' = [pm EXCEPT !.pc = "open", !.cred = TRUE] /\ lib' = [lib EXCEPT !.cred = TRUE]
              \/ pm' = [pm EXCEPT !.pc = "open"] /\ lib' = lib
           /\ UNCHANGED <<thr, toM, toT, sigs>>
  <2>1. ~pm.cleanup /\ pm.handle /\ pm.account = 1 /\ kb.st \in {"idle", "gone"}
        /\ sigs \in BOOLEAN /\ kb \in Slaves /\ ~pm.cred /\ ~lib.cred
    BY <1>1, <1>2 DEF Places, Open, Standing, PamTypeOK
  <2>2. /\ pm' \in PamMonitors /\ pm'.pc = "open" /\ pm'.handle = pm.handle
        /\ pm'.ctxt = pm.ctxt /\ pm'.cleanup = pm.cleanup /\ pm'.done = pm.done
        /\ pm'.authenticated = pm.authenticated /\ pm'.session = pm.session /\ pm'.by = pm.by
        /\ pm'.account = pm.account /\ pm'.pwchange = pm.pwchange /\ pm'.restricted = pm.restricted
    BY <1>1, <1>4 DEF PamTypeOK, PamMonitors
  <2>3. /\ lib' \in Seen /\ lib'.answers = lib.answers /\ lib'.passed = lib.passed
        /\ lib'.changed = lib.changed /\ lib'.session = lib.session
        /\ lib'.cred => pm'.cred
    BY <1>1, <1>4, <2>1 DEF PamTypeOK, PamMonitors, Seen
  <2>4. pm'.account = 1 => Good(pm'.pwchange /\ pm'.restricted)
    BY <1>1, <2>2 DEF Standing
  <2> QED
    BY <1>2, <1>4, <2>1, <2>2, <2>3, <2>4, GoesOn
<1> QED
  BY <1>3, <1>4 DEF do_pam_setcred

LEMMA SessionInv == PamInv /\ do_pam_session => PamInv'
<1> SUFFICES ASSUME PamInv, do_pam_session PROVE PamInv'
  OBVIOUS
<1>1. /\ PamTypeOK /\ Places /\ Open /\ Dialogue /\ Earned /\ Standing /\ PamSound
  BY DEF PamInv
<1>2. /\ pm.pc = "open" /\ UNCHANGED <<pset, thr, toM, toT, kb, sigs>>
      /\ \/ pm' = [pm EXCEPT !.pc = "session", !.session = TRUE] /\ lib' = [lib EXCEPT !.session = TRUE]
         \/ pm' = [pm EXCEPT !.pc = "session", !.restricted = TRUE] /\ lib' = lib
  BY DEF do_pam_session
<1>3. /\ pm' \in PamMonitors /\ pm'.pc = "session" /\ pm'.handle = pm.handle
      /\ pm'.ctxt = pm.ctxt /\ pm'.cleanup = pm.cleanup /\ pm'.done = pm.done
      /\ pm'.authenticated = pm.authenticated /\ pm'.by = pm.by /\ pm'.cred = pm.cred
      /\ pm'.account = pm.account /\ pm'.pwchange = pm.pwchange
      /\ pm.restricted => pm'.restricted
  BY <1>1, <1>2 DEF PamTypeOK, PamMonitors
<1>4. ~pm.cleanup /\ pm.handle /\ pm.account = 1 /\ kb.st \in {"idle", "gone"} /\ thr.st # "alive"
  BY <1>1, <1>2 DEF Places, Open, Standing
<1>5. /\ lib' \in Seen /\ lib'.answers = lib.answers /\ lib'.passed = lib.passed
      /\ lib'.changed = lib.changed /\ lib'.cred = lib.cred
      /\ lib'.session => pm'.session
  <2>1. ~lib.session /\ lib \in Seen
    BY <1>1, <1>2 DEF Open, PamTypeOK
  <2>2. pm \in PamMonitors
    BY <1>1 DEF PamTypeOK
  <2> QED
    BY <1>2, <2>1, <2>2 DEF PamMonitors, Seen
<1>6. PamTypeOK'
  BY <1>1, <1>2, <1>3, <1>5 DEF PamTypeOK
<1>7. Places' /\ Open'
  BY <1>1, <1>2, <1>3, <1>4, <1>5 DEF Places, Open
<1>8. Dialogue' /\ Earned'
  BY <1>1, <1>2, <1>3, <1>4, <1>5 DEF Dialogue, Earned, Eligible
<1>9. Standing'
  BY <1>1, <1>2, <1>3, <1>4, <1>5 DEF Standing, Good
<1>10. Good(pm.pwchange /\ pm.restricted)
  BY <1>1, <1>4 DEF Standing
<1>11. PamSound'
  BY <1>1, <1>2, <1>3, <1>5, <1>10 DEF PamSound, Eligible, Good
<1> QED
  BY <1>6, <1>7, <1>8, <1>9, <1>11 DEF PamInv

----------------------------------------------------------------------------
LEMMA PamInitInv == PamInit(AnySetup) => PamInv
<1> SUFFICES ASSUME PamInit(AnySetup) PROVE PamInv
  OBVIOUS
<1>1. pm \in PamMonitors
  BY DEF PamInit, PamMonitors
<1>2. thr \in Threads /\ kb \in Slaves
  BY DEF PamInit, Threads, PamPhases, Slaves, Ids
<1>3. /\ lib \in Seen /\ toM = <<>> /\ toT = <<>> /\ Len(toM) = 0
      /\ pset \in AnySetup /\ sigs \in BOOLEAN
  BY DEF PamInit, Seen
<1>4. PamTypeOK
  BY <1>1, <1>2, <1>3 DEF PamTypeOK
<1>5. Places /\ Open /\ Dialogue
  BY DEF PamInit, Places, Open, Dialogue
<1>6. Earned /\ Standing
  BY <1>3 DEF PamInit, Earned, Standing
<1>7. PamSound
  BY DEF PamInit, PamSound
<1> QED
  BY <1>4, <1>5, <1>6, <1>7 DEF PamInv

LEMMA PamNextInv == PamInv /\ [PamStep]_pamvars => PamInv'
<1> SUFFICES ASSUME PamInv, [PamStep]_pamvars PROVE PamInv'
  OBVIOUS
<1>1. CASE UNCHANGED pamvars
  BY <1>1 DEF pamvars, PamInv, PamTypeOK, Places, Open, Dialogue, Earned, Standing, Good,
              PamSound, Eligible, Prompt, Said, Calls
<1>2. CASE PamMonitor
  BY <1>2, HandlerInv, EofInv, InitCtxReturnsInv, PamQueryInv, QueryInv, FreeCtxInv, AccountInv,
     SetcredInv, SessionInv DEF PamMonitor
<1>3. CASE start_pam \/ sshpam_init_ctx \/ Abandon \/ OtherMethod \/ SlaveDies
  BY <1>3, StartInv, InitCtxInv, AbandonInv, OtherMethodInv, SlaveDiesInv
<1>4. CASE \E right \in BOOLEAN : sshpam_respond(right) \/ sshpam_auth_passwd(right)
  <2>1. PICK right \in BOOLEAN : sshpam_respond(right) \/ sshpam_auth_passwd(right)
    BY <1>4
  <2> QED
    BY <2>1, RespondInv, PasswdInv
<1>5. CASE sshpam_thread_conv \/ ThreadAnswered \/ sshpam_thread \/ ThreadSucceeds \/ ThreadCrash
  BY <1>5, ConvInv, AnsweredInv, ThreadInv, SucceedsInv, CrashInv
<1> QED
  BY <1>1, <1>2, <1>3, <1>4, <1>5 DEF PamStep

\* Between the modules, the monitor and the user one thing is under way at a
\* time, the monitor knows what runs and what is open, and what it believes was
\* earned by the thread it believes.
THEOREM PamInvariance == PamSpec => []PamInv
<1> QED
  BY PamInitInv, PamNextInv, PTL DEF PamSpec

\* Answers reach the prompts they are for; nobody is authenticated who did not
\* pass; no session opens on an expired account or with a password that is due
\* and neither changed nor forced; and the end of the monitor leaves nothing
\* behind (auth-pam.c), for any modules and any number of attempts.
THEOREM PamSafe == PamSpec => []PamSound
<1>1. PamInv => PamSound
  BY DEF PamInv
<1> QED
  BY <1>1, PamInvariance, PTL
=============================================================================
