-------------------------------- MODULE Agent --------------------------------
(***************************************************************************)
(* ssh-agent (ssh-agent.c): the table of identities, their lifetimes and   *)
(* confirmations, the lock, PKCS#11 providers, and the select loop that    *)
(* serves all clients and removes expired keys.  Clients send a request    *)
(* and wait for the reply (ssh_request_reply, authfd.c).                   *)
(*                                                                         *)
(* Time is a counter; 0 as a death means that a key never expires.  A      *)
(* select() that is due returns within the same unit of time; a pass over  *)
(* the sockets may take any time (the user is asked, a wrong password is   *)
(* delayed).                                                               *)
(***************************************************************************)
EXTENDS Naturals, Sequences, SequencesExt

CONSTANTS
    Clients,             \* processes of the user who runs the agent
    Requests,            \* the requests of ssh-add
    Tables,              \* tables of identities the agent may start from
    CardKeys,            \* the keys of the one PKCS#11 provider, in its order
    lifetime,            \* -t: the default lifetime, 0 for none
    MaxTime, MaxRequests \* bounds: time, requests of ssh-add

VARIABLES
    idlist,     \* sequence of [key, death, confirm, card]
    locked,     \* the password the agent is locked with, or NoPassword
    card,       \* the provider is registered
    now,
    agent,      \* [pc, ready, start]: where the loop is, what select() reported
    sock        \* client -> [st, req, rep, n]

agentVars == <<idlist, locked, card, now, agent, sock>>

NoPassword == "none"
None == [t |-> "NONE"]
Ok == [t |-> "SUCCESS"]
Fail == [t |-> "FAILURE"]

AgentInit ==
    /\ idlist \in Tables /\ locked = NoPassword /\ now = 1
    /\ card = (\E i \in DOMAIN idlist : idlist[i].card)
    /\ agent = [pc |-> "top", ready |-> {}, start |-> 1]
    /\ sock = [c \in Clients |-> [st |-> "none", req |-> None, rep |-> None, n |-> 0]]

----------------------------------------------------------------------------
(* What a request does to the table.                                       *)

lookup_identity(k) == {i \in DOMAIN idlist : idlist[i].key = k}
Without(keep(_)) == SelectSeq(idlist, keep)

\* The death of a key that is added now.
Death(life) ==
    IF life # 0 THEN now + life ELSE IF lifetime # 0 THEN now + lifetime ELSE 0

\* An answer: the reply and what becomes of the state.
Answer(rep) == [rep |-> rep, idlist |-> idlist, locked |-> locked, card |-> card]

process_request_identities ==
    Answer([t |-> "IDENTITIES", keys |-> [i \in DOMAIN idlist |-> idlist[i].key]])

\* The user is asked for a key with a confirmation constraint; yes is the answer.
confirm_key(id, yes) == id.confirm => yes

process_sign_request2(r, yes) ==
    IF \E i \in lookup_identity(r.key) : confirm_key(idlist[i], yes)
    THEN Answer([t |-> "SIGNATURE", key |-> r.key])
    ELSE Answer(Fail)

\* A key that is there gets the constraints of the new request.
process_add_identity(r) ==
    LET new == [key |-> r.key, death |-> Death(r.life), confirm |-> r.confirm,
                card |-> FALSE]
        old == lookup_identity(r.key)
    IN  [Answer(Ok) EXCEPT !.idlist =
            IF old = {} THEN Append(idlist, new)
            ELSE [i \in DOMAIN idlist |->
                    IF i \in old THEN [new EXCEPT !.card = idlist[i].card]
                    ELSE idlist[i]]]

process_remove_identity(r) ==
    IF lookup_identity(r.key) = {} THEN Answer(Fail)
    ELSE [Answer(Ok) EXCEPT !.idlist = Without(LAMBDA id : id.key # r.key)]

process_remove_all_identities == [Answer(Ok) EXCEPT !.idlist = <<>>]

\* Lock and unlock; a wrong password costs a delay, and nothing else.
process_lock_agent(r) ==
    IF locked # NoPassword /\ r.t = "UNLOCK" /\ r.passwd = locked
    THEN [Answer(Ok) EXCEPT !.locked = NoPassword]
    ELSE IF locked = NoPassword /\ r.t = "LOCK"
    THEN [Answer(Ok) EXCEPT !.locked = r.passwd]
    ELSE Answer(Fail)

\* The keys of the provider that are not there yet are added.  A provider that is
\* registered already yields no key; expiry and removal of keys do not
\* unregister it.
process_add_smartcard_key(r) ==
    LET fresh == SelectSeq(CardKeys, LAMBDA k : lookup_identity(k) = {})
        ids == [i \in DOMAIN fresh |-> [key |-> fresh[i], death |-> Death(r.life),
                                        confirm |-> r.confirm, card |-> TRUE]]
    IN  IF card THEN Answer(Fail)
        ELSE [Answer(IF fresh = <<>> THEN Fail ELSE Ok)
              EXCEPT !.idlist = idlist \o ids, !.card = TRUE]

process_remove_smartcard_key ==
    [Answer(IF card THEN Ok ELSE Fail) EXCEPT
        !.idlist = Without(LAMBDA id : ~id.card), !.card = FALSE]

\* A locked agent shows no keys and refuses everything but an unlock.
process_message(r, yes) ==
    IF locked # NoPassword /\ r.t # "UNLOCK"
    THEN Answer(IF r.t = "REQUEST_IDENTITIES" THEN [t |-> "IDENTITIES", keys |-> <<>>]
                ELSE Fail)
    ELSE CASE r.t = "REQUEST_IDENTITIES" -> process_request_identities
           [] r.t = "SIGN_REQUEST" -> process_sign_request2(r, yes)
           [] r.t = "ADD_IDENTITY" -> process_add_identity(r)
           [] r.t = "REMOVE_IDENTITY" -> process_remove_identity(r)
           [] r.t = "REMOVE_ALL_IDENTITIES" -> process_remove_all_identities
           [] r.t \in {"LOCK", "UNLOCK"} -> process_lock_agent(r)
           [] r.t = "ADD_SMARTCARD_KEY" -> process_add_smartcard_key(r)
           [] r.t = "REMOVE_SMARTCARD_KEY" -> process_remove_smartcard_key

----------------------------------------------------------------------------
(* The loop.                                                               *)

Expired(id) == id.death # 0 /\ now >= id.death
Deaths == {idlist[i].death : i \in DOMAIN idlist} \ {0}

\* Mutants: the last expiry counts; none does.
deadline_last == IF Deaths = {} THEN 0 ELSE CHOOSE d \in Deaths : \A e \in Deaths : d >= e
\* select() sleeps until the first key expires, for ever if there is none.
deadline == IF Deaths = {} THEN 0 ELSE CHOOSE d \in Deaths : \A e \in Deaths : d <= e
Due == deadline # 0 /\ now >= deadline

\* Expired keys are removed before select(), and only there.
reaper ==
    /\ agent.pc = "top"
    /\ idlist' = Without(LAMBDA id : ~Expired(id))
    /\ agent' = [agent EXCEPT !.pc = "select"]
    /\ UNCHANGED <<locked, card, now, sock>>

Readable ==
    {c \in Clients : sock[c].st = "connecting"
                     \/ (sock[c].st = "open" /\ sock[c].req # None)}

SelectReturns ==
    /\ agent.pc = "select"
    /\ Readable # {} \/ Due
    /\ agent' = [pc |-> IF Readable = {} THEN "top" ELSE "pass",
                 ready |-> Readable, start |-> now]
    /\ UNCHANGED <<idlist, locked, card, now, sock>>

\* One socket of the pass: a new connection is accepted, a request is read and
\* answered.  (A connection of another user is closed at once: no such client is
\* modelled.)
after_select(c) ==
    /\ agent.pc = "pass" /\ c \in agent.ready
    /\ agent' = [agent EXCEPT !.ready = @ \ {c},
                              !.pc = IF agent.ready = {c} THEN "top" ELSE "pass"]
    /\ \/ /\ sock[c].st = "connecting"
          /\ sock' = [sock EXCEPT ![c].st = "open"]
          /\ UNCHANGED <<idlist, locked, card>>
       \/ /\ sock[c].st = "open"
          /\ \E yes \in BOOLEAN :
               LET a == process_message(sock[c].req, yes)
               IN /\ idlist' = a.idlist /\ locked' = a.locked /\ card' = a.card
                  /\ sock' = [sock EXCEPT ![c].req = None, ![c].rep = a.rep]
       \/ /\ sock[c].st = "closed"                       \* read() finds the end
          /\ UNCHANGED <<idlist, locked, card, sock>>
    /\ UNCHANGED now

\* Time passes while select() sleeps or the pass is busy.
Tick ==
    /\ now < MaxTime
    /\ agent.pc = "pass" \/ (agent.pc = "select" /\ ~Due /\ Readable = {})
    /\ now' = now + 1
    /\ UNCHANGED <<idlist, locked, card, agent, sock>>

\* The parent of the agent is gone, or a signal ends it: the clients find their
\* sockets closed.
cleanup_exit ==
    /\ agent.pc = "top"
    /\ agent' = [agent EXCEPT !.pc = "gone"]
    /\ sock' = [c \in Clients |-> [sock[c] EXCEPT !.st = "closed"]]
    /\ idlist' = <<>>
    /\ UNCHANGED <<locked, card, now>>

AgentStep ==
    reaper \/ SelectReturns \/ cleanup_exit \/ \E c \in Clients : after_select(c)

----------------------------------------------------------------------------
(* Clients (authfd.c).                                                     *)

Idle(c) == sock[c].req = None /\ sock[c].rep = None

ssh_get_authentication_socket(c) ==
    /\ sock[c].st = "none" /\ agent.pc # "gone"
    /\ sock' = [sock EXCEPT ![c].st = "connecting"]
    /\ UNCHANGED <<idlist, locked, card, now, agent>>

ssh_request_reply(c, r) ==
    /\ sock[c].st \in {"connecting", "open"} /\ Idle(c)
    /\ sock' = [sock EXCEPT ![c].req = r]

\* ssh-add makes one request at a time (authfd.c, ssh-add.c).
SshAdd(c) ==
    /\ MapThenSumSet(LAMBDA d : sock[d].n, Clients) < MaxRequests
    /\ \E r \in Requests :
         /\ sock[c].st \in {"connecting", "open"} /\ Idle(c)
         /\ "life" \in DOMAIN r => now + r.life <= MaxTime
         /\ sock' = [sock EXCEPT ![c].req = r, ![c].n = @ + 1]
    /\ UNCHANGED <<idlist, locked, card, now, agent>>

GetReply(c) ==
    /\ sock[c].rep # None
    /\ sock' = [sock EXCEPT ![c].rep = None]
    /\ UNCHANGED <<idlist, locked, card, now, agent>>

AgentNext ==
    \/ AgentStep \/ Tick
    \/ \E c \in Clients : ssh_get_authentication_socket(c) \/ SshAdd(c) \/ GetReply(c)

----------------------------------------------------------------------------
\* The table never holds a key twice: every path that adds one looks it up first
\* (process_add_identity, process_add_smartcard_key).
NoDuplicates == \A i, j \in DOMAIN idlist : idlist[i].key = idlist[j].key => i = j

Signed(c) == sock'[c].rep.t = "SIGNATURE" /\ sock[c].rep # sock'[c].rep

\* No signature is made by a locked agent, or with a key whose lifetime had ended
\* when the pass began: the loop wakes up for every expiry, whatever other keys,
\* clients and locks there are (reaper, prepare_select).
\* Within a pass a key may outlive its lifetime.
SignaturesSound ==
    [][\A c \in Clients : Signed(c) =>
          /\ locked = NoPassword
          /\ \E i \in DOMAIN idlist :
                /\ idlist[i].key = sock'[c].rep.key
                /\ idlist[i].death # 0 => agent.start <= idlist[i].death]_agentVars

\* While the agent is locked its keys can only expire: nobody adds, removes or
\* lists any, until the password it was locked with is given.
LockHolds ==
    [][locked # NoPassword =>
         /\ agent'.pc # "gone" =>
              \A i \in DOMAIN idlist : ~Expired(idlist[i]) =>
                  \E j \in DOMAIN idlist' : idlist'[j] = idlist[i]
         /\ Len(idlist') <= Len(idlist)
         /\ locked' = NoPassword =>
              \E c \in Clients : sock[c].req.t = "UNLOCK" /\ sock[c].req.passwd = locked
         /\ \A c \in Clients :
              sock'[c].rep.t = "IDENTITIES" /\ sock[c].rep = None
              => sock'[c].rep.keys = <<>>]_agentVars

\* A key does not stay beyond its lifetime, locked or not, while no client
\* talks to the agent.
KeysExpire ==
    \A d \in 2 .. MaxTime :
        (\E i \in DOMAIN idlist : idlist[i].death = d)
        ~> ~(\E i \in DOMAIN idlist : idlist[i].death = d)
=============================================================================
