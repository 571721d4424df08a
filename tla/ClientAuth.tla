----------------------------- MODULE ClientAuth -----------------------------
(***************************************************************************)
(* User authentication in the client (sshconnect2.c), together with the    *)
(* agent it asks for keys and signatures (Agent) and with other clients of *)
(* that agent.  The server is any server: its answers are chosen freely    *)
(* among those the client has a handler for.                               *)
(***************************************************************************)
EXTENDS Agent

CONSTANTS
    ssh,          \* the client of the agent that is this ssh
    Options,      \* configurations of ssh, one is chosen in Init
    AuthLists,    \* lists of methods that the server may send
    MaxReplies    \* bound: answers of the server

VARIABLES
    options,      \* [files, certs, identities_only, accepted, preferred,
                  \*  enabled, prompts, hostkeys]
    cl,           \* the state of the client (Authctxt and static variables)
    replies,      \* answers the server has given
    seen          \* history: identities offered, keys the server said yes to

clientVars == <<options, cl, replies, seen>>
vars == <<agentVars, clientVars>>

NoKey == [k |-> "none", cert |-> FALSE]
Plain(k) == [k |-> k, cert |-> FALSE]
NoMethod == "no method"
Methods == {"hostbased", "publickey", "keyboard-interactive", "password"}

\* An identity: its key, NoKey if only the private half is in a file that is
\* still to be loaded; the file it comes from; whether the agent has it.
Identity(key, file, agt) == [key |-> key, file |-> file, agent |-> agt, tried |-> FALSE]

ClientInit ==
    /\ options \in Options
    /\ cl = [phase |-> "prepare", keys |-> <<>>, authlist |-> <<>>,
             supported |-> <<"nil">>, preferred |-> <<>>, current |-> NoMethod,
             disabled |-> {}, passwd |-> 0, kbdint |-> 0, info_req_seen |-> FALSE,
             hostkeys |-> options.hostkeys, pk_ok |-> FALSE, sent |-> NoMethod]
    /\ replies = 0
    /\ seen = [offered |-> {}, pk_ok |-> {}, signed |-> {}]

----------------------------------------------------------------------------
(* Choosing identities and methods.                                        *)

\* The order in which keys are tried: certificates of the configuration, keys of
\* the agent that are configured, other keys of the agent, other files; of these
\* the ones whose type is accepted.
pubkey_prepare(list) ==
    LET o == options
        certs == [i \in DOMAIN o.certs |-> Identity(o.certs[i], "certfile", FALSE)]
        inFile(k) == {i \in DOMAIN o.files : o.files[i].key = k}
        both == SelectSeq(list, LAMBDA k : inFile(Plain(k)) # {})
        others == SelectSeq(list, LAMBDA k : inFile(Plain(k)) = {})
        listed == [i \in DOMAIN both |->
                     Identity(Plain(both[i]),
                              o.files[CHOOSE j \in inFile(Plain(both[i])) : TRUE].name, TRUE)]
        unlisted == [i \in DOMAIN others |-> Identity(Plain(others[i]), "agent", TRUE)]
        rest == SelectSeq(o.files, LAMBDA f : f.key.k \notin ToSet(list))
        files == [i \in DOMAIN rest |-> Identity(rest[i].key, rest[i].name, FALSE)]
    IN  SelectSeq(certs \o listed
                  \o (IF o.identities_only THEN <<>> ELSE unlisted) \o files,
                  LAMBDA id : id.key = NoKey \/ id.key.k \in o.accepted)

authmethod_is_enabled(m) ==
    m \in options.enabled /\ m \notin cl.disabled

\* match_list: the first name of the one list that is on the other; the client
\* goes on behind it next time.
FirstMatch(pref, sup) ==
    LET hits == {i \in DOMAIN pref : pref[i] \in ToSet(sup)}
    IN  IF hits = {} THEN 0 ELSE CHOOSE i \in hits : \A j \in hits : i <= j

\* The next method for a list of the server: the current one as long as it is
\* enabled and the list is the same one, else the next preferred one that is.
authmethod_get(list) ==
    LET effective == IF list = <<>> THEN options.preferred ELSE list
        same == effective = cl.supported
        pref == IF same THEN cl.preferred ELSE options.preferred
        usable == SelectSeq(pref, authmethod_is_enabled)
        hit == FirstMatch(usable, effective)
    IN  IF same /\ cl.current # NoMethod /\ authmethod_is_enabled(cl.current)
        THEN [supported |-> effective, preferred |-> pref, current |-> cl.current]
        ELSE IF hit = 0
        THEN [supported |-> effective, preferred |-> <<>>, current |-> NoMethod]
        ELSE [supported |-> effective, current |-> usable[hit],
              preferred |-> SubSeq(pref, FirstMatch(pref, <<usable[hit]>>) + 1, Len(pref))]

\* userauth(): the list the server sent last is kept, and a method is tried.
userauth(c, list) == [c EXCEPT !.phase = "choose", !.authlist = list]
UserauthAgain(c) == [c EXCEPT !.phase = "choose"]
Wait(c, m) == [c EXCEPT !.phase = "wait", !.sent = m]

\* Mutant: the method stays enabled.
Disable_not(c, m) == [c EXCEPT !.phase = "choose"]
\* "we did not send a packet, disable method": for the rest of the connection.
Disable(c, m) == [c EXCEPT !.disabled = @ \cup {m}, !.phase = "choose"]

UnchangedClient == UNCHANGED <<options, replies>>
UnchangedAgent == UNCHANGED agentVars

----------------------------------------------------------------------------
(* ssh_userauth2: the keys of the agent are listed once, at the beginning. *)

\* The agent is asked for its keys, if there is one.
AskForKeys ==
    /\ cl.phase = "prepare"
    /\ \/ /\ ssh_request_reply(ssh, [t |-> "REQUEST_IDENTITIES"])
          /\ cl' = [cl EXCEPT !.phase = "listing"]
          /\ UNCHANGED <<idlist, locked, card, now, agent>>
       \/ /\ sock[ssh].st \in {"none", "closed"}          \* no agent
          /\ cl' = [cl EXCEPT !.keys = pubkey_prepare(<<>>), !.phase = "wait",
                              !.sent = "none"]
          /\ UnchangedAgent
    /\ UNCHANGED seen /\ UnchangedClient

\* The reply of the agent, or none because the agent is gone.
AgentAnswers(ok(_), then(_), otherwise) ==
    \/ /\ sock[ssh].rep # None /\ ok(sock[ssh].rep)
       /\ cl' = then(sock[ssh].rep)
       /\ sock' = [sock EXCEPT ![ssh].rep = None]
    \/ /\ sock[ssh].rep # None /\ ~ok(sock[ssh].rep)
       /\ cl' = otherwise
       /\ sock' = [sock EXCEPT ![ssh].rep = None]
    \/ /\ sock[ssh].rep = None /\ sock[ssh].st = "closed"
       /\ cl' = otherwise
       /\ sock' = [sock EXCEPT ![ssh].req = None]

\* The first request, with method none, goes out.
ssh_fetch_identitylist ==
    /\ cl.phase = "listing"
    /\ LET first(c) == Wait(c, "none")
       IN  AgentAnswers(LAMBDA r : r.t = "IDENTITIES" /\ r.keys # <<>>,
                        LAMBDA r : first([cl EXCEPT !.keys = pubkey_prepare(r.keys)]),
                        first([cl EXCEPT !.keys = pubkey_prepare(<<>>)]))
    /\ UNCHANGED <<idlist, locked, card, now, agent, seen>>
    /\ UnchangedClient

----------------------------------------------------------------------------
(* Trying a method.                                                        *)

ChooseMethod ==
    /\ cl.phase = "choose"
    /\ LET g == authmethod_get(cl.authlist)
       IN  cl' = [cl EXCEPT !.supported = g.supported, !.preferred = g.preferred,
                            !.current = g.current, !.pk_ok = FALSE,
                            !.phase = IF g.current = NoMethod THEN "denied" ELSE "try"]
    /\ UNCHANGED seen /\ UnchangedClient /\ UnchangedAgent

\* The next identity: one that was tried ends the method.  A public key is
\* offered; a private key in a file is loaded (or not) and signs at once.
userauth_pubkey ==
    /\ cl.phase = "try" /\ cl.current = "publickey"
    /\ IF cl.keys = <<>> \/ (cl.keys # <<>> /\ cl.keys[1].tried)
       THEN cl' = Disable(cl, "publickey") /\ UNCHANGED seen
       ELSE LET id == cl.keys[1]
                moved == [cl EXCEPT !.keys =
                            Append(Tail(cl.keys), [id EXCEPT !.tried = TRUE])]
            IN  \/ /\ id.key # NoKey
                   /\ cl' = Wait([moved EXCEPT !.pk_ok = TRUE], "publickey")
                   /\ seen' = [seen EXCEPT !.offered = @ \cup {id.file}]
                \/ /\ id.key = NoKey
                   /\ cl' = Wait(moved, "publickey")
                   /\ seen' = [seen EXCEPT !.offered = @ \cup {id.file}]
                \/ /\ id.key = NoKey                 \* no passphrase, no file
                   /\ cl' = moved
                   /\ seen' = [seen EXCEPT !.offered = @ \cup {id.file}]
    /\ UnchangedClient /\ UnchangedAgent

userauth_passwd ==
    /\ cl.phase = "try" /\ cl.current = "password"
    /\ cl' = IF cl.passwd >= options.prompts THEN Disable(cl, "password")
             ELSE Wait([cl EXCEPT !.passwd = @ + 1], "password")
    /\ UNCHANGED seen /\ UnchangedClient /\ UnchangedAgent

userauth_kbdint ==
    /\ cl.phase = "try" /\ cl.current = "keyboard-interactive"
    /\ cl' = IF cl.kbdint >= options.prompts \/ (cl.kbdint > 0 /\ ~cl.info_req_seen)
             THEN Disable(cl, "keyboard-interactive")
             ELSE Wait([cl EXCEPT !.kbdint = @ + 1], "keyboard-interactive")
    /\ UNCHANGED seen /\ UnchangedClient /\ UnchangedAgent

\* A host key is used up whether or not it signs; one that does not ends the
\* method.
userauth_hostbased ==
    /\ cl.phase = "try" /\ cl.current = "hostbased"
    /\ \/ cl.hostkeys = 0 /\ cl' = Disable(cl, "hostbased")
       \/ /\ cl.hostkeys > 0
          /\ \/ cl' = Wait([cl EXCEPT !.hostkeys = @ - 1], "hostbased")
             \/ cl' = Disable([cl EXCEPT !.hostkeys = @ - 1], "hostbased")
    /\ UNCHANGED seen /\ UnchangedClient /\ UnchangedAgent

----------------------------------------------------------------------------
(* Answers of the server.                                                  *)

Served == replies < MaxReplies /\ cl.phase = "wait" /\ replies' = replies + 1

\* Mutant: only the first identity is reset.
pubkey_reset_first(c) ==
    IF c.keys = <<>> THEN c
    ELSE [c EXCEPT !.keys = [i \in DOMAIN c.keys |->
             [c.keys[i] EXCEPT !.tried = IF i = Len(c.keys) THEN FALSE ELSE @]]]
pubkey_reset(c) ==
    [c EXCEPT !.keys = [i \in DOMAIN c.keys |-> [c.keys[i] EXCEPT !.tried = FALSE]]]

input_userauth_failure(list, partial) ==
    /\ Served
    /\ cl' = userauth(IF partial THEN pubkey_reset(cl) ELSE cl, list)
    /\ UNCHANGED <<options, seen>> /\ UnchangedAgent

input_userauth_success ==
    /\ Served
    /\ cl' = [cl EXCEPT !.phase = "authenticated"]
    /\ UNCHANGED <<options, seen>> /\ UnchangedAgent

\* The identity that signs for a certificate is one with the same key that is
\* not a certificate, if there is one.
Signer(i) ==
    LET plain == {j \in DOMAIN cl.keys : /\ cl.keys[j].key.k = cl.keys[i].key.k
                                         /\ ~cl.keys[j].key.cert}
    IN  IF cl.keys[i].key.cert /\ plain # {}
        THEN CHOOSE j \in plain : \A l \in plain : j <= l ELSE i

\* The server would accept a key: the last identity with that key signs, by the
\* agent if the key was there, else with the private key of its file.
input_userauth_pk_ok(key) ==
    /\ Served /\ cl.pk_ok                      \* the handler is registered
    /\ LET hits == {i \in DOMAIN cl.keys : cl.keys[i].key = key}
           i == CHOOSE j \in hits : \A l \in hits : l <= j
           s == cl.keys[Signer(i)]
       IN  /\ seen' = [seen EXCEPT !.pk_ok = @ \cup {key.k}]
           /\ \/ /\ hits # {} /\ s.agent /\ sock[ssh].st # "closed"
                 /\ ssh_request_reply(ssh, [t |-> "SIGN_REQUEST", key |-> s.key.k])
                 /\ cl' = [cl EXCEPT !.phase = "signing"]
              \/ /\ hits # {} /\ ~s.agent
                 /\ cl' = Wait(cl, "publickey")
                 /\ UNCHANGED sock
              \/ /\ \/ hits = {} \/ ~s.agent             \* no private key
                    \/ s.agent /\ sock[ssh].st = "closed"
                 /\ cl' = UserauthAgain(cl)
                 /\ UNCHANGED sock
    /\ UNCHANGED <<options, idlist, locked, card, now, agent>>

\* The signature of the agent, or a refusal: then another identity is tried.
identity_sign ==
    /\ cl.phase = "signing"
    /\ AgentAnswers(LAMBDA r : r.t = "SIGNATURE",
                    LAMBDA r : Wait(cl, "publickey"), UserauthAgain(cl))
    /\ seen' = IF cl'.phase = "wait"
               THEN [seen EXCEPT !.signed = @ \cup {sock[ssh].rep.key}] ELSE seen
    /\ UNCHANGED <<idlist, locked, card, now, agent>>
    /\ UnchangedClient

\* Prompts are answered; they make another try of the method possible.
input_userauth_info_req ==
    /\ Served /\ cl.sent = "keyboard-interactive"
    /\ cl' = [cl EXCEPT !.info_req_seen = TRUE]
    /\ UNCHANGED <<options, seen>> /\ UnchangedAgent

\* A new password is sent, or the user enters an end of file and nothing is.
input_userauth_passwd_changereq ==
    /\ Served /\ cl.sent = "password"
    /\ \/ UNCHANGED cl
       \/ cl' = [cl EXCEPT !.phase = "silent"]
    /\ UNCHANGED <<options, seen>> /\ UnchangedAgent

ServerAnswers ==
    \/ \E list \in AuthLists, partial \in BOOLEAN : input_userauth_failure(list, partial)
    \/ input_userauth_success
    \/ \E key \in {cl.keys[i].key : i \in DOMAIN cl.keys} : input_userauth_pk_ok(key)
    \/ input_userauth_info_req
    \/ input_userauth_passwd_changereq

ClientStep ==
    \/ AskForKeys \/ ssh_fetch_identitylist \/ ChooseMethod \/ userauth_pubkey
    \/ userauth_passwd \/ userauth_kbdint \/ userauth_hostbased \/ identity_sign

Others == Clients \ {ssh}

Init == AgentInit /\ ClientInit

Next ==
    \/ (AgentStep \/ Tick) /\ UNCHANGED clientVars
    \/ (\E c \in Clients : ssh_get_authentication_socket(c)) /\ UNCHANGED clientVars
    \/ (\E c \in Others : SshAdd(c) \/ GetReply(c)) /\ UNCHANGED clientVars
    \/ ClientStep
    \/ ServerAnswers

Spec == Init /\ [][Next]_vars

\* Both programs run, and time passes.  Nothing is assumed of the server, of the
\* user at the keyboard and of the other clients.
Fairness ==
    /\ WF_vars(AgentStep /\ UNCHANGED clientVars)
    /\ WF_vars(Tick /\ UNCHANGED clientVars)
    /\ WF_vars(ClientStep)

FairSpec == Spec /\ Fairness

----------------------------------------------------------------------------
\* What userauth_pubkey relies on when it stops at the first identity that was
\* tried: the identities that were tried are at the end of the queue, through
\* every refusal, reset and signature that fails.
TriedAtEnd ==
    \A i, j \in DOMAIN cl.keys : i < j /\ cl.keys[i].tried => cl.keys[j].tried

\* The client gives up on a list with publickey only after every identity it has
\* was offered; whatever the agent did in between (userauth, authmethod_get).
GivesUpLast ==
    cl.phase = "denied" /\ "publickey" \in ToSet(cl.authlist) \cap options.enabled
                        /\ "publickey" \in ToSet(options.preferred) =>
        \A i \in DOMAIN cl.keys : cl.keys[i].file \in seen.offered

\* The agent signs for this client only with keys that the server agreed to, and
\* with IdentitiesOnly only with keys of the configuration (pubkey_prepare,
\* input_userauth_pk_ok).
AgentKeysAskedFor ==
    /\ seen.signed \subseteq seen.pk_ok
    /\ options.identities_only =>
         \A k \in seen.signed : \E i \in DOMAIN options.files : options.files[i].key.k = k

\* The client never hangs by itself: it comes to wait for the server again, or
\* to an end, although agent and keys may go away at any moment.  It falls silent
\* only where input_userauth_passwd_changereq() bails out.
ClientProgress == cl.phase \in {"listing", "choose", "try", "signing"}
                  ~> cl.phase \in {"wait", "denied", "authenticated", "silent"}
=============================================================================
