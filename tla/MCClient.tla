------------------------------ MODULE MCClient ------------------------------
(***************************************************************************)
(* Four scenarios for TLC: ssh authenticates with the keys of an agent     *)
(* that another process may lock and empty ("login"); an agent with two    *)
(* ssh-adds that ask for everything ("agent"); the main loop of ssh with   *)
(* the sessions of other clients ("loop"); and an agent with the keys of   *)
(* smartcards in its helper process ("card").                              *)
(***************************************************************************)
EXTENDS ClientAuth, ClientLoop, Pkcs11

VARIABLE scenario
mcVars == <<vars, loopVars, cardVars, scenario>>

File(name, key) == [name |-> name, key |-> key]
Cert(k) == [k |-> k, cert |-> TRUE]

\* A key that is also in the agent, a certificate for it, a file without its
\* public half.
Base ==
    [files |-> <<File("f1", Plain("k1")), File("f2", NoKey)>>, certs |-> <<Cert("k1")>>,
     identities_only |-> TRUE, accepted |-> {"k1", "k2"},
     preferred |-> <<"hostbased", "publickey", "keyboard-interactive", "password">>,
     enabled |-> {"publickey", "password"}, prompts |-> 1, hostkeys |-> 0]

Usual ==
    {Base, [Base EXCEPT !.files = <<>>, !.certs = <<>>, !.identities_only = FALSE,
                        !.enabled = Methods, !.hostkeys = 1]}

Lists == {<<"publickey", "password">>, <<"hostbased", "publickey", "keyboard-interactive">>}

Id(k, death, c) == [key |-> k, death |-> death, confirm |-> FALSE, card |-> c]
Loaded == {<<Id("k1", 0, FALSE), Id("k2", 2, TRUE)>>}
Card == <<"k2">>

Lock(p) == [t |-> "LOCK", passwd |-> p]
Unlock(p) == [t |-> "UNLOCK", passwd |-> p]
Sign(k) == [t |-> "SIGN_REQUEST", key |-> k]
Delete(k) == [t |-> "REMOVE_IDENTITY", key |-> k]
Add(k, life, ask) == [t |-> "ADD_IDENTITY", key |-> k, life |-> life, confirm |-> ask]
AddCard(life) == [t |-> "ADD_SMARTCARD_KEY", life |-> life, confirm |-> FALSE]

Few == {Lock("p"), Delete("k1")}
All == {[t |-> "REQUEST_IDENTITIES"], [t |-> "REMOVE_ALL_IDENTITIES"],
        [t |-> "REMOVE_SMARTCARD_KEY"], Lock("p"), Unlock("p"), Unlock("q"),
        Add("k1", 0, TRUE), Add("k1", 2, FALSE), Add("k2", 1, FALSE), AddCard(1),
        Sign("k1"), Sign("k2")}

\* The agent of the second scenario starts empty.
Alone == INSTANCE Agent WITH Requests <- All, Tables <- {<<>>}, MaxTime <- 3, MaxRequests <- 2

(* The main loop. *)
Conf(types, pty, persist, alive, fork, rf, strict) ==
  [types |-> types, pty |-> pty, tty_forced |-> strict, no_shell |-> ~pty, persist |-> persist, alive |-> alive, fork |-> fork, rforwards |-> rf,
   exit_on_failure |-> strict]
MCLoopConfs == {Conf(3, TRUE, Never, TRUE, FALSE, 0, FALSE), Conf(1, TRUE, 1, FALSE, FALSE, 0, FALSE), Conf(0, TRUE, 2, TRUE, FALSE, 1, TRUE),
                Conf(0, FALSE, Never, TRUE, TRUE, 2, TRUE), Conf(0, FALSE, 0, TRUE, TRUE, 1, FALSE)}
Chunks == {<<"~">>, <<".">>, <<"n">>, <<"x", "~">>} \cup {<<"~", x>> : x \in {"~", "Z", "&", "C", "R", "#"}}
LoopStep ==
  \/ \E listening \in BOOLEAN : ssh_session2(listening)
  \/ \E ok \in BOOLEAN : ssh_confirm_remote_forward(ok)
  \/ \E s \in LoopSessions : client_channel_closed(s) \/ \E c \in Chunks : Types(s, c)
  \/ client_status_confirm \/ client_stop_mux \/ client_loop \/ EnterSelect
  \/ \E e \in {"timeout", "silent", "reply", "kex", "newkeys", "eof", "accept"} : client_wait_until_can_do_something(e)
  \/ client_process_net_input \/ client_loop_end
  \/ process_escapes \/ EscapesDone \/ Continued
  \/ signal_handler \/ window_change_handler \/ LoopTick

(* Tokens: one that needs a PIN, with a key that is on it twice, one that  *)
(* needs none, one that is not initialised.                                *)
Obj(class, id, key) == [class |-> class, id |-> id, key |-> key, empty |-> FALSE, sign |-> key = "k1"]
TokenOf(login, objs) == [login |-> login, init |-> TRUE, objs |-> objs]
PinToken == TokenOf(TRUE, <<Obj("cert", 1, "k1"), Obj("pub", 1, "k1"), Obj("prv", 1, "k1"), [Obj("pub", 2, "k3") EXCEPT !.empty = TRUE]>>)
FreeToken == TokenOf(FALSE, <<Obj("pub", 1, "k2"), Obj("prv", 1, "k2"), Obj("cert", 2, "k3")>>)
MCTokens == {PinToken, FreeToken}
MCSlots == {<<PinToken, FreeToken>>, <<[PinToken EXCEPT !.init = FALSE], PinToken>>}
CardStep ==
  \/ \E l \in Libraries, p \in Pins : AgentAddsProvider(l, p)
  \/ \E l \in Libraries : AgentDelsProvider(l)
  \/ \E k \in {"k1", "k2", "k3"} : AgentSigns(k)
  \/ recv_msg \/ process \/ HelperDies
  \/ \E l \in Libraries, s \in 1..2, t \in MCTokens : TokenChanged(l, s, t)

MCInit ==
    /\ scenario \in {"login", "agent", "loop", "card"}
    /\ ClientInit
    /\ CardInit(IF scenario = "card" THEN MCSlots ELSE {<<>>})
    /\ \/ scenario = "login" /\ AgentInit /\ LoopInit({Base})
       \/ /\ scenario = "agent" /\ Alone!AgentInit /\ LoopInit({Base})
          /\ options = Base
       \/ /\ scenario = "loop" /\ AgentInit /\ LoopInit(LoopConfs)
          /\ options = Base
       \/ /\ scenario = "card" /\ AgentInit /\ LoopInit({Base})
          /\ options = Base

MCNext ==
    /\ UNCHANGED scenario
    /\ \/ scenario = "login" /\ Next /\ UNCHANGED <<loopVars, cardVars>>
       \/ scenario = "agent" /\ Alone!AgentNext /\ UNCHANGED <<clientVars, loopVars, cardVars>>
       \/ scenario = "loop" /\ LoopStep /\ UNCHANGED <<vars, cardVars>>
       \/ scenario = "card" /\ CardStep /\ UNCHANGED <<vars, loopVars>>

\* Weak fairness of the two programs and of time, with the condition under which
\* each of them can take a step written out.
AgentCan ==
    agent.pc \in {"top", "pass"} \/ (agent.pc = "select" /\ (Readable # {} \/ Due))
TimeCan == now < (IF scenario = "agent" THEN 3 ELSE 2) /\ (agent.pc = "pass"
                       \/ (agent.pc = "select" /\ ~Due /\ Readable = {}))
ClientCan ==
    \/ cl.phase \in {"choose", "try"}
    \/ cl.phase \in {"listing", "signing"}
       /\ (sock[ssh].rep # None \/ sock[ssh].st = "closed")

\* The main loop goes on by itself unless it waits, which ends when a timeout is
\* due; time passes while it waits.
LoopCan ==
    \/ lp.pc \in {"top", "before", "after", "escapes", "ending"}
    \/ lp.pc = "select" /\ (lconf.alive \/ (lp.exit_time > 0 /\ lp.clock >= lp.exit_time))
TimePasses == lp.pc = "select" /\ lconf.persist > 0 /\ lp.clock < MaxClock

MCFairness ==
    /\ []<>~(scenario = "loop" /\ LoopCan) \/ []<><<lp' # lp>>_mcVars
    /\ <>[]~(scenario = "loop" /\ TimePasses) \/ []<><<lp.clock' # lp.clock>>_mcVars
    /\ []<>~(scenario \in {"login", "agent"} /\ AgentCan) \/ []<><<agent' # agent>>_mcVars
    /\ []<>~(scenario \in {"login", "agent"} /\ TimeCan) \/ []<><<now' # now>>_mcVars
    /\ []<>~(scenario \in {"login", "agent"} /\ ClientCan) \/ []<><<cl' # cl>>_mcVars

MCSpec == MCInit /\ [][MCNext]_mcVars /\ MCFairness

-----------------------------------------------------------------------------
(* ssh tries its keys as userauth_pubkey relies on, gives up last and uses  *)
(* the agent only for keys it was asked for (TriedAtEnd, GivesUpLast,       *)
(* AgentKeysAskedFor).                                                      *)
KeysTried == TriedAtEnd /\ GivesUpLast /\ AgentKeysAskedFor

(* The agent holds a key once, signs only while it may, changes nothing     *)
(* while it is locked, and forgets a key when its lifetime is over, locked  *)
(* or not (SignaturesSound, LockHolds, KeysExpire).                         *)
AgentSound ==
    /\ []NoDuplicates
    /\ SignaturesSound
    /\ LockHolds
    /\ scenario = "agent" => Alone!KeysExpire

(* The user's terminal is raw only while ssh runs in the foreground with   *)
(* its session: not after any of its ends, while it is suspended or asks   *)
(* for a command line, or when it has gone to the background; and then it  *)
(* is raw again (enter_raw_mode, leave_raw_mode, cleanup_exit).  Two        *)
(* exceptions: a ~& whose fork fails leaves the terminal as it is, and a   *)
(* session that is refused its pty has an ordinary terminal until ~Z or ~C *)
(* put it back into raw mode, which they do with or without a pty          *)
(* (client_status_confirm, client_suspend_self, process_cmdline).          *)
ForkFailed == ~lp.ports /\ ~lp.bg
TerminalKept ==
    scenario = "loop" =>
      /\ tty.raw => ~lp.bg /\ lp.pc \notin {"start", "stopped", "cmdline", "exited"}
      /\ lp.pty /\ Own \in lp.open /\ ~lp.bg /\ ~ForkFailed /\ ~lp.refused
           /\ lp.pc \notin {"start", "stopped", "cmdline"} => tty.raw
      /\ lp.refused /\ ~lp.resumed => ~tty.raw

(* The reference for escapes: the escape character at the start of a line, *)
(* and the character after it. *)
RECURSIVE Unescaped(_, _)
Unescaped(s, start) ==
  IF s = <<>> THEN <<>>
  ELSE IF start /\ Head(s) = "~"
       THEN IF Len(s) = 1 THEN <<>>
            ELSE IF s[2] \in Commands THEN Unescaped(SubSeq(s, 3, Len(s)), TRUE)
            ELSE (IF s[2] = "~" THEN <<"~">> ELSE <<"~", s[2]>>) \o Unescaped(SubSeq(s, 3, Len(s)), s[2] = Newline)
  ELSE <<Head(s)>> \o Unescaped(Tail(s), Head(s) = Newline)
(* What is typed in a session reaches the server, except for escapes at    *)
(* the start of a line, however the characters are read (process_escapes). *)
EscapesAtLineStart ==
    scenario = "loop" =>
      \A s \in LoopSessions :
        (s = lp.s => lp.rest = <<>>) /\ s \in lp.open /\ ~lp.bg /\ ~lp.quit => passed[s] = Unescaped(typed[s], TRUE)

(* A master that ControlPersist ends has had no client for the whole time, *)
(* counted from the last look at its channels, and ssh goes to the         *)
(* background only once (set_control_persist_exit_time, fork_postauth).    *)
PersistSound ==
    scenario = "loop" => /\ lp.why = "persist" => lp.clock >= lp.busy + lconf.persist
                         /\ lp.forks <= 1

(* Unless it is suspended, ssh ends after a signal, an idle master after   *)
(* its time, and the server gets to know the size of the terminal, also    *)
(* when it never finishes a key exchange: with ServerAliveInterval, without *)
(* which a signal that comes just before select() waits for the next event, *)
(* and a server that is silent is waited for (server_alive_check).         *)
Resting == lp.pc \in {"stopped", "cmdline", "exited"}
LoopEnds ==
    /\ (scenario = "loop" /\ lconf.alive /\ lp.signal) ~> Resting
    /\ (scenario = "loop" /\ lp.exit_time \in 1..MaxClock) ~> (Resting \/ lp.exit_time = 0)
    /\ (scenario = "loop" /\ lconf.alive /\ tty.told # tty.size) ~> (Resting \/ tty.told = tty.size \/ Own \notin lp.open)

(* ssh gets on by itself, before and after the user is authenticated        *)
(* (ClientProgress, LoopEnds).                                              *)
ClientEnds == (scenario = "login" => ClientProgress) /\ LoopEnds

(* What the loop keeps while escapes, signals, other clients and timeouts   *)
(* interleave (TerminalKept, EscapesAtLineStart, PersistSound).             *)
LoopSound == TerminalKept /\ EscapesAtLineStart /\ PersistSound

(* The helper's record of a provider is there while the provider is        *)
(* registered or a key refers to it, and no longer; a key in its list      *)
(* belongs to a provider that is registered, whose library is loaded once; *)
(* every key of a token that the agent lists is known to the helper while  *)
(* it lives; and a signature is by the key that was asked for, from the    *)
(* token its session was opened with, logged in if need be                 *)
(* (pkcs11_provider_unref, del_keys_by_name, pkcs11_rsa_private_encrypt).  *)
Holders(i) == Cardinality({j \in DOMAIN hp.keys : hp.keys[j].k.prov = i}) + IF provs[i].listed THEN 1 ELSE 0
CardKeysSound ==
  scenario = "card" =>
    /\ \A i \in DOMAIN provs :
         /\ provs[i].refs = Holders(i)
         /\ provs[i].freed <=> Holders(i) = 0
         /\ provs[i].valid <=> provs[i].listed
    /\ \A j \in DOMAIN hp.keys : LET p == provs[hp.keys[j].k.prov] IN p.listed /\ p.name = hp.keys[j].name
    /\ \A l \in Libraries : libs[l].init = Cardinality({i \in DOMAIN provs : provs[i].valid /\ provs[i].name = l})
    /\ p11.fd = "up" /\ p11.wait = Refused => \A k \in p11.keys : \E j \in DOMAIN hp.keys : hp.keys[j].k.key = k.key
    /\ p11.last # Refused =>
         (p11.last.ask.t = "sign" /\ p11.last.answer.ok => p11.last.answer.sig.by = p11.last.ask.key)
=============================================================================
