-------------------------- MODULE ProtocolProofs --------------------------
(***************************************************************************)
(* TLAPS proof that the two ends keep to the protocol of a channel          *)
(* (ProtocolKept), for every number of slots, window size and bound.        *)
(*                                                                          *)
(* The invariant, Lawful, speaks of both tables and of the messages under   *)
(* way.  All but the order is said of the sets of messages (Settled), so    *)
(* that one lemma per kind of step shows what it does to a table and a set; *)
(* the order on each wire is kept apart (InOrder).  A context is Tame when  *)
(* the channel has changed and sent only what its peer can take; there is   *)
(* one lemma per operator of Nchan and Channels for that, and one per       *)
(* action that puts the two together.                                       *)
(***************************************************************************)
EXTENDS ChannelsProofs

----------------------------------------------------------------------------
(* The invariant.                                                          *)

\* The answers to an open.
Answers == {"CONFIRM", "OPENFAIL"}
\* A channel that has not been answered, or has not answered.
Pending == {"OPENING", "CONNECTING"}
\* A channel that takes messages.
Reachable == {"OPENING", "LARVAL", "CONNECTING", "OPEN"}

\* A keepalive request may name a channel that is gone, and the client's answer to
\* one is about whatever channel has the number.
Real(m) == m.t \in MsgTypes \ {"KEEPALIVE"}
Solid(e, m) == Real(m) /\ m.t # "OPEN" /\ ~(e = "server" /\ m.t = "FAILURE")

\* What may follow a under way to e.
Before(e, a, b) ==
    Real(a) /\ Real(b) /\ a.inst = b.inst =>
        /\ a.t \notin {"CLOSE", "OPENFAIL"}
        /\ Solid(e, a) => b.t \notin Answers
        /\ a.t = "EOF" => b.t # "EXT"
        /\ a.t = "OPEN" => b.t # "OPEN"
\* The messages of the wire s to e come in an order the protocol allows.
InOrder(e, s) == \A j, l \in DOMAIN s : j < l => Before(e, s[j], s[l])

\* No channel has two slots of a table.
Unique(ch) ==
    \A e \in Endpoint : \A i, j \in Slots :
        ch[e][i].inst = ch[e][j].inst /\ ch[e][i].inst # 0 => i = j
\* Nobody speaks of a channel that was never opened.
Named(ch, ml, n) ==
    \A e \in Endpoint :
        /\ \A i \in Slots : ch[e][i].inst <= n
        /\ \A m \in ml[e] : m.t \in MsgTypes => m.inst <= n
\* A channel that is not open has no child, and one that is being opened has sent
\* and closed nothing.
Untouched(ch) ==
    \A e \in Endpoint, i \in Slots :
        /\ ch[e][i].type # "OPEN" => ch[e][i].pid = "none"
        /\ ch[e][i].type \in Pending =>
              /\ ch[e][i].flags = {} /\ ch[e][i].istate = "OPEN" /\ ch[e][i].ostate = "OPEN"
              /\ ch[e][i].self = i
\* A message finds the channel that it is about, and that channel still listens; an
\* answer finds one that waits for it.
Addressed(ch, ml) ==
    \A e \in Endpoint : \A m \in ml[e] :
        Solid(e, m) =>
            /\ m.id \in Slots /\ ch[e][m.id].inst = m.inst
            /\ ch[e][m.id].type \in Reachable /\ ~Has(ch[e][m.id], "CLOSE_RCVD")
            /\ m.t \in Answers => ch[e][m.id].type = "OPENING"
\* Messages for a channel that is being opened come with the answer to the open.
Announced(ch, ml) ==
    \A e \in Endpoint : \A m \in ml[e] :
        Solid(e, m) /\ ch[e][m.id].type = "OPENING" =>
            \E a \in ml[e] : a.t \in Answers /\ a.inst = m.inst
\* The channel c in slot i of p and the one it talks to.
Link(ch, ml, p, i) ==
    LET c == ch[p][i]
        d == ch[Peer(p)][c.remote_id]
    IN  /\ c.remote_id \in Slots /\ d.inst = c.inst
        /\ d.type \in Reachable /\ ~Has(d, "CLOSE_RCVD")
        /\ c.type = "CONNECTING" => d.type = "OPENING"
        /\ c.type # "CONNECTING" /\ d.type = "OPENING" =>
              \E a \in ml[Peer(p)] : a.t = "CONFIRM" /\ a.inst = c.inst
\* A channel that may still send.
Talks(c) == c.type \in {"LARVAL", "CONNECTING", "OPEN"} /\ ~Has(c, "CLOSE_SENT")
\* A channel that may still send has a peer that listens.
Linked(ch, ml) ==
    \A p \in Endpoint, i \in Slots : Talks(ch[p][i]) => Link(ch, ml, p, i)
\* A channel that is being opened has sent nothing.
Unanswered(ch, ml) ==
    \A p \in Endpoint, i \in Slots : \A m \in ml[Peer(p)] :
        ch[p][i].type \in Pending /\ Solid(Peer(p), m) => m.inst # ch[p][i].inst
\* Who has sent CLOSE or EOF knows it, and who refused an open has no channel.
Marked(ch, ml) ==
    \A p \in Endpoint, i \in Slots : \A m \in ml[Peer(p)] :
        /\ m.t = "CLOSE" /\ m.inst = ch[p][i].inst => Has(ch[p][i], "CLOSE_SENT")
        /\ m.t = "EOF" /\ m.inst = ch[p][i].inst => Has(ch[p][i], "EOF_SENT")
        /\ m.t = "OPENFAIL" => m.inst # ch[p][i].inst
\* An open under way is the only word of its channel, and the one who asked waits.
Asked(ch, ml) ==
    \A e \in Endpoint : \A m \in ml[e] :
        m.t = "OPEN" =>
            /\ m.who \in Slots /\ ch[Peer(e)][m.who].inst = m.inst
            /\ ch[Peer(e)][m.who].type = "OPENING"
            /\ \A i \in Slots : ch[e][i].inst # m.inst
            /\ \A a \in ml[Peer(e)] : Solid(Peer(e), a) => a.inst # m.inst
\* A confirmation names the slot of the channel that was made for it.
Confirming(ch, ml) ==
    \A e \in Endpoint : \A m \in ml[e] :
        m.t = "CONFIRM" =>
            /\ m.who \in Slots /\ ch[Peer(e)][m.who].inst = m.inst
            /\ ch[Peer(e)][m.who].type \in {"LARVAL", "OPEN"}
            /\ ~Has(ch[Peer(e)][m.who], "CLOSE_RCVD")
\* After an EOF there is no more extended data.
Finished(ch, ml) ==
    \A e \in Endpoint, i \in Slots :
        Has(ch[e][i], "EOF_RCVD") =>
            /\ \A m \in ml[e] : m.t = "EXT" => m.inst # ch[e][i].inst
            /\ \A k \in Slots :
                  ch[Peer(e)][k].inst = ch[e][i].inst => Has(ch[Peer(e)][k], "EOF_SENT")

\* The tables ch and the messages ml under way fit, when n channels were ever opened.
Settled(ch, ml, n) ==
    /\ Unique(ch) /\ Named(ch, ml, n) /\ Untouched(ch)
    /\ Addressed(ch, ml) /\ Announced(ch, ml) /\ Linked(ch, ml)
    /\ Unanswered(ch, ml) /\ Marked(ch, ml)
    /\ Asked(ch, ml) /\ Confirming(ch, ml) /\ Finished(ch, ml)

\* Tables, messages under way to each end, and the steps on them.
Tables == [Endpoint -> [Slots -> Channel \cup {FreeSlot}]]
Mails == [Endpoint -> SUBSET Message]
Put(ch, p, i, d) == [ch EXCEPT ![p][i] = d]
Deliver(ml, e, O) == [ml EXCEPT ![e] = @ \cup O]

----------------------------------------------------------------------------
(* Steps of one channel, on the sets of messages.                          *)

\* There are two ends.
LEMMA Peers ==
    ASSUME NEW p \in Endpoint
    PROVE  /\ Peer(p) \in Endpoint /\ Peer(p) # p /\ Peer(Peer(p)) = p
           /\ \A q \in Endpoint : q = p \/ q = Peer(p)
  BY DEF Endpoint, Peer

\* A slot is written.
LEMMA PutFacts ==
    ASSUME NEW ch \in Tables, NEW p \in Endpoint, NEW i \in Slots, NEW d \in Channel \cup {FreeSlot}
    PROVE  /\ Put(ch, p, i, d) \in Tables
           /\ Put(ch, p, i, d)[p][i] = d
           /\ \A j \in Slots : j # i => Put(ch, p, i, d)[p][j] = ch[p][j]
           /\ \A j \in Slots : Put(ch, p, i, d)[Peer(p)][j] = ch[Peer(p)][j]
  BY Peers DEF Put, Tables

\* Messages are sent, as sets.
LEMMA DeliverFacts ==
    ASSUME NEW ml \in Mails, NEW e \in Endpoint, NEW O \in SUBSET Message
    PROVE  /\ Deliver(ml, e, O) \in Mails
           /\ Deliver(ml, e, O)[e] = ml[e] \cup O
           /\ Deliver(ml, e, O)[Peer(e)] = ml[Peer(e)]
  BY Peers DEF Deliver, Mails

\* The types of what the invariant speaks of.
LEMMA TableFacts ==
    ASSUME NEW ch \in Tables, NEW ml \in Mails, NEW e \in Endpoint
    PROVE  /\ \A i \in Slots : /\ ch[e][i].inst \in Nat
                               /\ ch[e][i].inst = 0 <=> ch[e][i].type = "FREE"
                               /\ ch[e][i].type = "FREE" => ch[e][i].flags = {}
           /\ \A m \in ml[e] : /\ m.t \in MsgTypes \/ m.t \in {"GLOBAL", "REQFAIL"}
                              /\ m.t \in MsgTypes => m.inst \in Nat /\ m.inst # 0
  <1>1. \A c \in Channel : c.inst \in Nat /\ c.inst # 0 /\ c.type # "FREE"
    BY BoundsAssumption DEF Channel, Insts, ChanTypes
  <1>2. FreeSlot.inst = 0 /\ FreeSlot.type = "FREE" /\ FreeSlot.flags = {}
    BY DEF FreeSlot
  <1>3. \A m \in Message : /\ m.t \in MsgTypes \/ m.t \in {"GLOBAL", "REQFAIL"}
                           /\ m.t \in MsgTypes => m.inst \in Nat /\ m.inst # 0
    <2>1. \A m \in ChannelMessage : m.t \in MsgTypes /\ m.inst \in Nat /\ m.inst # 0
      BY BoundsAssumption DEF ChannelMessage, Insts
    <2>2. \A m \in GlobalMessage : m.t \in {"GLOBAL", "REQFAIL"}
      BY DEF GlobalMessage
    <2> QED  BY <2>1, <2>2 DEF Message, MsgTypes
  <1>4. \A i \in Slots : ch[e][i] \in Channel \cup {FreeSlot}
    BY DEF Tables
  <1>5. \A m \in ml[e] : m \in Message
    BY DEF Mails
  <1> QED  BY <1>1, <1>2, <1>3, <1>4, <1>5

\* A channel that moves from c to d and sends the messages of O.
Moves(ch, ml, p, i, d, O) ==
    LET c == ch[p][i]
        e == Peer(p)
    IN  /\ c.type # "FREE" /\ d \in Channel /\ O \in SUBSET Message
        /\ d.inst = c.inst /\ d.remote_id = c.remote_id
        /\ d.type = c.type \/ (c.type = "LARVAL" /\ d.type = "OPEN")
        /\ c.flags \subseteq d.flags
        /\ d.type # "OPEN" => d.pid = "none"
        /\ d.type \in Pending =>
              d.flags = {} /\ d.istate = "OPEN" /\ d.ostate = "OPEN" /\ d.self = c.self
        /\ Has(d, "CLOSE_RCVD") /\ ~Has(c, "CLOSE_RCVD") =>
              /\ \A m \in ml[p] : Solid(p, m) => m.inst # c.inst
              /\ \A k \in Slots : ch[e][k].inst = c.inst => Has(ch[e][k], "CLOSE_SENT")
        /\ Has(d, "EOF_RCVD") /\ ~Has(c, "EOF_RCVD") =>
              /\ \A m \in ml[p] : m.t = "EXT" => m.inst # c.inst
              /\ \A k \in Slots : ch[e][k].inst = c.inst => Has(ch[e][k], "EOF_SENT")
        /\ \A m \in O : /\ m.t \in MsgTypes \ {"OPEN", "CONFIRM", "OPENFAIL", "KEEPALIVE"}
                        /\ m.inst = c.inst /\ m.id = c.remote_id
                        /\ c.type \in Pending => ~Solid(e, m)
                        /\ ~Has(c, "CLOSE_SENT") /\ c.type # "ZOMBIE"
                        /\ m.t = "CLOSE" => Has(d, "CLOSE_SENT")
                        /\ m.t = "EOF" => Has(d, "EOF_SENT")
                        /\ m.t = "EXT" => ~Has(c, "EOF_SENT")

\* A channel that moves so leaves everything settled, and its messages come in order.
LEMMA MoveSettled ==
    ASSUME NEW ch \in Tables, NEW ml \in Mails, NEW n \in Nat, NEW p \in Endpoint, NEW i \in Slots,
           NEW d, NEW O, Settled(ch, ml, n), Moves(ch, ml, p, i, d, O)
    PROVE  /\ Settled(Put(ch, p, i, d), Deliver(ml, Peer(p), O), n)
           /\ \A a \in ml[Peer(p)], b \in O : Before(Peer(p), a, b)
  <1> DEFINE e == Peer(p)
             c == ch[p][i]
             X == Put(ch, p, i, d)
             N == Deliver(ml, e, O)
  <1>1. /\ e \in Endpoint /\ e # p /\ Peer(e) = p /\ e = Peer(p) /\ \A q \in Endpoint : q = p \/ q = e
    BY Peers
  <1>2. d \in Channel /\ O \in SUBSET Message /\ c.type # "FREE"
    BY DEF Moves
  <1>3. /\ X \in Tables /\ X[p][i] = d
        /\ \A j \in Slots : j # i => X[p][j] = ch[p][j]
        /\ \A j \in Slots : X[e][j] = ch[e][j]
    BY <1>2, PutFacts
  <1>4. N \in Mails /\ N[e] = ml[e] \cup O /\ N[p] = ml[p]
    BY <1>1, <1>2, DeliverFacts
  <1>5. /\ \A q \in Endpoint : \A j \in Slots : /\ ch[q][j].inst \in Nat
                                                /\ ch[q][j].inst = 0 <=> ch[q][j].type = "FREE"
                                                /\ ch[q][j].type = "FREE" => ch[q][j].flags = {}
        /\ \A q \in Endpoint : \A m \in ml[q] : m.t \in MsgTypes => m.inst \in Nat /\ m.inst # 0
    BY TableFacts
  <1> HIDE DEF X, N, e
  <1>6. /\ d.inst = c.inst /\ d.remote_id = c.remote_id
        /\ d.type = c.type \/ (c.type = "LARVAL" /\ d.type = "OPEN")
        /\ \A f : Has(c, f) => Has(d, f)
        /\ d.type # "OPEN" => d.pid = "none"
        /\ d.type \in Pending =>
              d.flags = {} /\ d.istate = "OPEN" /\ d.ostate = "OPEN" /\ d.self = c.self
    BY DEF Moves, Has
  <1>7. /\ Has(d, "CLOSE_RCVD") /\ ~Has(c, "CLOSE_RCVD") =>
              /\ \A m \in ml[p] : Solid(p, m) => m.inst # c.inst
              /\ \A k \in Slots : ch[e][k].inst = c.inst => Has(ch[e][k], "CLOSE_SENT")
        /\ Has(d, "EOF_RCVD") /\ ~Has(c, "EOF_RCVD") =>
              /\ \A m \in ml[p] : m.t = "EXT" => m.inst # c.inst
              /\ \A k \in Slots : ch[e][k].inst = c.inst => Has(ch[e][k], "EOF_SENT")
    BY DEF Moves, e
  <1>8. \A m \in O : /\ m.t \in MsgTypes \ {"OPEN", "CONFIRM", "OPENFAIL", "KEEPALIVE"}
                     /\ m.inst = c.inst /\ m.id = c.remote_id
                     /\ c.type \in Pending => ~Solid(e, m)
                     /\ ~Has(c, "CLOSE_SENT") /\ c.type # "ZOMBIE"
                     /\ m.t = "CLOSE" => Has(d, "CLOSE_SENT")
                     /\ m.t = "EOF" => Has(d, "EOF_SENT")
                     /\ m.t = "EXT" => ~Has(c, "EOF_SENT")
    BY DEF Moves, e
  <1>9. c.type \in {"OPENING", "LARVAL", "CONNECTING", "OPEN", "ZOMBIE"}
    <2>1. \A b \in Channel : b.type \in ChanTypes
      BY DEF Channel
    <2>2. c \in Channel \cup {FreeSlot} /\ FreeSlot.type = "FREE"
      BY DEF Tables, FreeSlot
    <2> QED  BY <1>2, <2>1, <2>2 DEF ChanTypes
  <1>10. /\ Unique(ch) /\ Named(ch, ml, n) /\ Untouched(ch) /\ Addressed(ch, ml) /\ Announced(ch, ml)
         /\ Linked(ch, ml) /\ Unanswered(ch, ml) /\ Marked(ch, ml)
         /\ Asked(ch, ml) /\ Confirming(ch, ml) /\ Finished(ch, ml)
    BY DEF Settled
  <1>11. \A m \in O : Solid(e, m) => c.type \in {"LARVAL", "OPEN"}
    BY <1>8, <1>9 DEF Pending
  <1> HIDE DEF c
  <1> USE <1>1
  <1>20. Unique(X)
    BY <1>3, <1>6, <1>10 DEF Unique, c
  <1>21. Named(X, N, n)
    BY <1>3, <1>4, <1>6, <1>8, <1>10 DEF Named, c
  <1>22. Untouched(X)
    BY <1>3, <1>6, <1>10 DEF Untouched, Pending, c
  <1>23. Addressed(X, N)
    <2>1. ASSUME NEW m \in ml[p], Solid(p, m)
          PROVE  /\ m.id \in Slots /\ X[p][m.id].inst = m.inst
                 /\ X[p][m.id].type \in Reachable /\ ~Has(X[p][m.id], "CLOSE_RCVD")
                 /\ m.t \in Answers => X[p][m.id].type = "OPENING"
      BY <1>3, <1>6, <1>7, <1>10, <2>1 DEF Addressed, Reachable, c
    <2>2. ASSUME NEW m \in ml[e], Solid(e, m)
          PROVE  /\ m.id \in Slots /\ X[e][m.id].inst = m.inst
                 /\ X[e][m.id].type \in Reachable /\ ~Has(X[e][m.id], "CLOSE_RCVD")
                 /\ m.t \in Answers => X[e][m.id].type = "OPENING"
      BY <1>3, <1>10, <2>2 DEF Addressed
    <2>3. ASSUME NEW m \in O, Solid(e, m)
          PROVE  /\ m.id \in Slots /\ X[e][m.id].inst = m.inst
                 /\ X[e][m.id].type \in Reachable /\ ~Has(X[e][m.id], "CLOSE_RCVD")
                 /\ m.t \in Answers => X[e][m.id].type = "OPENING"
      BY <1>3, <1>8, <1>10, <1>11, <2>3 DEF Linked, Link, Talks, Answers, c
    <2> QED  BY <1>4, <2>1, <2>2, <2>3 DEF Addressed
  <1>24. Announced(X, N)
    <2>1. ASSUME NEW m \in ml[p], Solid(p, m), X[p][m.id].type = "OPENING"
          PROVE  \E a \in N[p] : a.t \in Answers /\ a.inst = m.inst
      BY <1>3, <1>4, <1>6, <1>10, <2>1 DEF Addressed, Announced, c
    <2>2. ASSUME NEW m \in ml[e], Solid(e, m), X[e][m.id].type = "OPENING"
          PROVE  \E a \in N[e] : a.t \in Answers /\ a.inst = m.inst
      BY <1>3, <1>4, <1>10, <2>2 DEF Addressed, Announced
    <2>3. ASSUME NEW m \in O, Solid(e, m), X[e][m.id].type = "OPENING"
          PROVE  \E a \in N[e] : a.t \in Answers /\ a.inst = m.inst
      BY <1>3, <1>4, <1>8, <1>10, <1>11, <2>3 DEF Linked, Link, Talks, Answers, c
    <2> QED  BY <1>4, <2>1, <2>2, <2>3 DEF Announced
  <1>25. Unanswered(X, N)
    <2>1. ASSUME NEW j \in Slots, NEW m \in N[e], X[p][j].type \in Pending, Solid(e, m)
          PROVE  m.inst # X[p][j].inst
      BY <1>2, <1>3, <1>4, <1>5, <1>6, <1>8, <1>10, <2>1 DEF Unanswered, Unique, Pending, c
    <2>2. ASSUME NEW j \in Slots, NEW m \in N[p], X[e][j].type \in Pending, Solid(p, m)
          PROVE  m.inst # X[e][j].inst
      BY <1>3, <1>4, <1>10, <2>2 DEF Unanswered
    <2> QED  BY <2>1, <2>2 DEF Unanswered
  <1>26. Marked(X, N)
    <2>1. ASSUME NEW j \in Slots, NEW m \in N[e]
          PROVE  /\ m.t = "CLOSE" /\ m.inst = X[p][j].inst => Has(X[p][j], "CLOSE_SENT")
                 /\ m.t = "EOF" /\ m.inst = X[p][j].inst => Has(X[p][j], "EOF_SENT")
                 /\ m.t = "OPENFAIL" => m.inst # X[p][j].inst
      BY <1>2, <1>3, <1>4, <1>5, <1>6, <1>8, <1>10, <2>1 DEF Marked, Unique, c
    <2>2. ASSUME NEW j \in Slots, NEW m \in N[p]
          PROVE  /\ m.t = "CLOSE" /\ m.inst = X[e][j].inst => Has(X[e][j], "CLOSE_SENT")
                 /\ m.t = "EOF" /\ m.inst = X[e][j].inst => Has(X[e][j], "EOF_SENT")
                 /\ m.t = "OPENFAIL" => m.inst # X[e][j].inst
      BY <1>3, <1>4, <1>10 DEF Marked
    <2> QED  BY <2>1, <2>2 DEF Marked
  <1>27. Asked(X, N)
    <2>1. ASSUME NEW m \in N[p], m.t = "OPEN"
          PROVE  /\ m.who \in Slots /\ X[e][m.who].inst = m.inst
                 /\ X[e][m.who].type = "OPENING"
                 /\ \A j \in Slots : X[p][j].inst # m.inst
                 /\ \A a \in N[e] : Solid(e, a) => a.inst # m.inst
      BY <1>3, <1>4, <1>6, <1>8, <1>10, <2>1 DEF Asked, c
    <2>2. ASSUME NEW m \in N[e], m.t = "OPEN"
          PROVE  /\ m.who \in Slots /\ X[p][m.who].inst = m.inst
                 /\ X[p][m.who].type = "OPENING"
                 /\ \A j \in Slots : X[e][j].inst # m.inst
                 /\ \A a \in N[p] : Solid(p, a) => a.inst # m.inst
      BY <1>3, <1>4, <1>6, <1>8, <1>10, <2>2 DEF Asked, c
    <2> QED  BY <2>1, <2>2 DEF Asked
  <1>28. Confirming(X, N)
    <2>1. ASSUME NEW m \in N[p], m.t = "CONFIRM"
          PROVE  /\ m.who \in Slots /\ X[e][m.who].inst = m.inst
                 /\ X[e][m.who].type \in {"LARVAL", "OPEN"}
                 /\ ~Has(X[e][m.who], "CLOSE_RCVD")
      BY <1>3, <1>4, <1>10, <2>1 DEF Confirming
    <2>2. ASSUME NEW m \in N[e], m.t = "CONFIRM"
          PROVE  /\ m.who \in Slots /\ X[p][m.who].inst = m.inst
                 /\ X[p][m.who].type \in {"LARVAL", "OPEN"}
                 /\ ~Has(X[p][m.who], "CLOSE_RCVD")
      <3>1. m \in ml[e] /\ Solid(e, m)
        BY <1>4, <1>8, <2>2 DEF Solid, Real, MsgTypes
      <3>2. m.id \in Slots /\ ch[e][m.id].inst = m.inst /\ ch[e][m.id].type = "OPENING"
        BY <1>10, <2>2, <3>1 DEF Addressed, Answers
      <3>3. ~Has(ch[e][m.id], "CLOSE_SENT")
        BY <1>10, <3>2 DEF Untouched, Pending, Has
      <3>4. /\ m.who \in Slots /\ ch[p][m.who].inst = m.inst
            /\ ch[p][m.who].type \in {"LARVAL", "OPEN"} /\ ~Has(ch[p][m.who], "CLOSE_RCVD")
        BY <1>10, <2>2, <3>1 DEF Confirming
      <3> QED  BY <1>3, <1>6, <1>7, <3>2, <3>3, <3>4 DEF c
    <2> QED  BY <2>1, <2>2 DEF Confirming
  <1>29. Finished(X, N)
    <2>1. ASSUME NEW j \in Slots, Has(X[p][j], "EOF_RCVD")
          PROVE  /\ \A m \in N[p] : m.t = "EXT" => m.inst # X[p][j].inst
                 /\ \A k \in Slots : X[e][k].inst = X[p][j].inst => Has(X[e][k], "EOF_SENT")
      BY <1>3, <1>4, <1>6, <1>7, <1>10, <2>1 DEF Finished, c
    <2>2. ASSUME NEW j \in Slots, Has(X[e][j], "EOF_RCVD")
          PROVE  /\ \A m \in N[e] : m.t = "EXT" => m.inst # X[e][j].inst
                 /\ \A k \in Slots : X[p][k].inst = X[e][j].inst => Has(X[p][k], "EOF_SENT")
      BY <1>3, <1>4, <1>6, <1>8, <1>10, <2>2 DEF Finished, c
    <2> QED  BY <2>1, <2>2 DEF Finished
  <1>30. Linked(X, N)
    <2>1. ASSUME NEW j \in Slots, X[p][j].type \in {"LARVAL", "CONNECTING", "OPEN"},
                 ~Has(X[p][j], "CLOSE_SENT")
          PROVE  LET b == X[e][X[p][j].remote_id]
                 IN  /\ X[p][j].remote_id \in Slots /\ b.inst = X[p][j].inst
                     /\ b.type \in Reachable /\ ~Has(b, "CLOSE_RCVD")
                     /\ X[p][j].type = "CONNECTING" => b.type = "OPENING"
                     /\ X[p][j].type # "CONNECTING" /\ b.type = "OPENING" =>
                          \E a \in N[e] : a.t = "CONFIRM" /\ a.inst = X[p][j].inst
      <3> DEFINE b == ch[p][j]
                 r == b.remote_id
      <3>1. /\ X[p][j].remote_id = r /\ X[p][j].inst = b.inst
            /\ X[p][j].type = b.type \/ (b.type = "LARVAL" /\ X[p][j].type = "OPEN")
            /\ ~Has(b, "CLOSE_SENT")
        BY <1>3, <1>6, <2>1 DEF c
      <3>2. b.type \in {"LARVAL", "CONNECTING", "OPEN"}
        BY <2>1, <3>1
      <3>3. /\ r \in Slots /\ ch[e][r].inst = b.inst
            /\ ch[e][r].type \in Reachable /\ ~Has(ch[e][r], "CLOSE_RCVD")
            /\ b.type = "CONNECTING" => ch[e][r].type = "OPENING"
            /\ b.type # "CONNECTING" /\ ch[e][r].type = "OPENING" =>
                 \E a \in ml[e] : a.t = "CONFIRM" /\ a.inst = b.inst
        BY <1>10, <3>1, <3>2 DEF Linked, Link, Talks
      <3> HIDE DEF b, r
      <3> QED  BY <1>3, <1>4, <3>1, <3>2, <3>3
    <2>2. ASSUME NEW j \in Slots, X[e][j].type \in {"LARVAL", "CONNECTING", "OPEN"},
                 ~Has(X[e][j], "CLOSE_SENT")
          PROVE  LET b == X[p][X[e][j].remote_id]
                 IN  /\ X[e][j].remote_id \in Slots /\ b.inst = X[e][j].inst
                     /\ b.type \in Reachable /\ ~Has(b, "CLOSE_RCVD")
                     /\ X[e][j].type = "CONNECTING" => b.type = "OPENING"
                     /\ X[e][j].type # "CONNECTING" /\ b.type = "OPENING" =>
                          \E a \in N[p] : a.t = "CONFIRM" /\ a.inst = X[e][j].inst
      <3> DEFINE r == ch[e][j].remote_id
      <3>1. /\ r \in Slots /\ ch[p][r].inst = ch[e][j].inst
            /\ ch[p][r].type \in Reachable /\ ~Has(ch[p][r], "CLOSE_RCVD")
            /\ ch[e][j].type = "CONNECTING" => ch[p][r].type = "OPENING"
            /\ ch[e][j].type # "CONNECTING" /\ ch[p][r].type = "OPENING" =>
                 \E a \in ml[p] : a.t = "CONFIRM" /\ a.inst = ch[e][j].inst
        BY <1>3, <1>10, <2>2 DEF Linked, Link, Talks
      <3>2. X[e][j] = ch[e][j]
        BY <1>3
      <3>3. \A x : (\E a \in ml[p] : a.t = "CONFIRM" /\ a.inst = x) => \E a \in N[p] : a.t = "CONFIRM" /\ a.inst = x
        BY <1>4
      <3> HIDE DEF r
      <3>4. /\ X[p][r].inst = ch[p][r].inst /\ X[p][r].type \in Reachable /\ ~Has(X[p][r], "CLOSE_RCVD")
            /\ X[p][r].type = "OPENING" <=> ch[p][r].type = "OPENING"
        <4>1. CASE r = i
          <5>1. X[p][r] = d /\ ch[p][r] = c
            BY <1>3, <4>1 DEF c
          <5>2. ch[e][j].inst = c.inst /\ ~Has(ch[e][j], "CLOSE_SENT") /\ ~Has(c, "CLOSE_RCVD")
            BY <2>2, <3>1, <3>2, <5>1
          <5>3. ~Has(d, "CLOSE_RCVD")
            BY <1>7, <5>2
          <5>4. d.inst = c.inst /\ d.type \in Reachable /\ (d.type = "OPENING" <=> c.type = "OPENING")
            BY <1>6, <3>1, <5>1 DEF Reachable
          <5> QED  BY <5>1, <5>3, <5>4
        <4>2. CASE r # i  BY <1>3, <3>1, <4>2
        <4> QED  BY <4>1, <4>2
      <3>5. X[e][j].remote_id = r
        BY <3>2 DEF r
      <3> QED  BY <3>1, <3>2, <3>3, <3>4, <3>5
    <2> QED  BY <2>1, <2>2 DEF Linked, Link, Talks
  <1>31. \A a \in ml[e], b \in O : Before(e, a, b)
    BY <1>8, <1>10 DEF Marked, Before, Answers, c
  <1>32. Settled(X, N, n)
    BY <1>20, <1>21, <1>22, <1>23, <1>24, <1>25, <1>26, <1>27, <1>28, <1>29, <1>30 DEF Settled
  <1> QED  BY <1>31, <1>32 DEF X, N, e

\* The table X differs from ch in slot i of p, which is d.
Sets(ch, X, p, i, d) ==
    /\ X \in Tables /\ X[p][i] = d
    /\ \A j \in Slots : j # i => X[p][j] = ch[p][j]
    /\ \A j \in Slots : X[Peer(p)][j] = ch[Peer(p)][j]

\* Messages leave the wire: what a CONFIRM or an OPENFAIL promised must be gone too.
LEMMA DropSettled ==
    ASSUME NEW ch \in Tables, NEW ml \in Mails, NEW n \in Nat, NEW e \in Endpoint,
           NEW N \in Mails, N[e] \subseteq ml[e], N[Peer(e)] = ml[Peer(e)],
           \A a \in ml[e] \ N[e] :
              /\ a.t # "CONFIRM"
              /\ a.t = "OPENFAIL" => \A m \in N[e] : Solid(e, m) => m.inst # a.inst,
           Settled(ch, ml, n)
    PROVE  Settled(ch, N, n)
  <1>1. \A q \in Endpoint : N[q] \subseteq ml[q] /\ (q = e \/ N[q] = ml[q])
    BY Peers
  <1>2. \A q \in Endpoint : Peer(q) \in Endpoint
    BY Peers
  <1>3. /\ Unique(ch) /\ Named(ch, ml, n) /\ Untouched(ch) /\ Addressed(ch, ml) /\ Announced(ch, ml)
        /\ Linked(ch, ml) /\ Unanswered(ch, ml) /\ Marked(ch, ml)
        /\ Asked(ch, ml) /\ Confirming(ch, ml) /\ Finished(ch, ml)
    BY DEF Settled
  <1>4. Named(ch, N, n) /\ Addressed(ch, N) /\ Confirming(ch, N) /\ Finished(ch, N)
    BY <1>1, <1>2, <1>3 DEF Named, Addressed, Confirming, Finished
  <1>5. Unanswered(ch, N) /\ Marked(ch, N) /\ Asked(ch, N)
    BY <1>1, <1>2, <1>3 DEF Unanswered, Marked, Asked
  <1>6. Announced(ch, N)
    <2> SUFFICES ASSUME NEW q \in Endpoint, NEW m \in N[q], Solid(q, m), ch[q][m.id].type = "OPENING"
                 PROVE  \E a \in N[q] : a.t \in Answers /\ a.inst = m.inst
      BY DEF Announced
    <2>1. PICK a \in ml[q] : a.t \in Answers /\ a.inst = m.inst
      BY <1>1, <1>3 DEF Announced
    <2> QED  BY <1>1, <2>1 DEF Answers
  <1>7. Linked(ch, N)
    <2>1. \A q \in Endpoint : \A x : (\E a \in ml[q] : a.t = "CONFIRM" /\ a.inst = x)
                                     => \E a \in N[q] : a.t = "CONFIRM" /\ a.inst = x
      BY <1>1
    <2> QED  BY <1>2, <1>3, <2>1 DEF Linked, Link, Talks
  <1> QED  BY <1>3, <1>4, <1>5, <1>6, <1>7 DEF Settled

\* A channel is given up: it is dead, or both ends have sent their CLOSE.
LEMMA FreeSettled ==
    ASSUME NEW ch \in Tables, NEW ml \in Mails, NEW n \in Nat, NEW p \in Endpoint, NEW i \in Slots,
           NEW X, Sets(ch, X, p, i, FreeSlot), Settled(ch, ml, n),
           \/ ch[p][i].type = "ZOMBIE"
           \/ Has(ch[p][i], "CLOSE_SENT") /\ Has(ch[p][i], "CLOSE_RCVD")
    PROVE  Settled(X, ml, n)
  <1> DEFINE e == Peer(p)
             c == ch[p][i]
  <1>1. /\ e \in Endpoint /\ e # p /\ Peer(e) = p /\ e = Peer(p) /\ \A q \in Endpoint : q = p \/ q = e
    BY Peers
  <1>2. /\ X \in Tables /\ X[p][i] = FreeSlot
        /\ \A j \in Slots : j # i => X[p][j] = ch[p][j]
        /\ \A j \in Slots : X[e][j] = ch[e][j]
    BY DEF Sets
  <1>3. FreeSlot.type = "FREE" /\ FreeSlot.inst = 0 /\ FreeSlot.flags = {} /\ ~Has(FreeSlot, "EOF_RCVD")
        /\ FreeSlot.pid = "none"
    BY DEF FreeSlot, Has
  <1>4. /\ \A q \in Endpoint : \A j \in Slots : /\ ch[q][j].inst \in Nat
                                                /\ ch[q][j].inst = 0 <=> ch[q][j].type = "FREE"
                                                /\ ch[q][j].type = "FREE" => ch[q][j].flags = {}
        /\ \A q \in Endpoint : \A m \in ml[q] : m.t \in MsgTypes => m.inst \in Nat /\ m.inst # 0
    BY TableFacts
  <1>5. /\ Unique(ch) /\ Named(ch, ml, n) /\ Untouched(ch) /\ Addressed(ch, ml) /\ Announced(ch, ml)
        /\ Linked(ch, ml) /\ Unanswered(ch, ml) /\ Marked(ch, ml)
        /\ Asked(ch, ml) /\ Confirming(ch, ml) /\ Finished(ch, ml)
    BY DEF Settled
  <1>6. c.type # "OPENING" /\ (c.type \notin Reachable \/ Has(c, "CLOSE_RCVD"))
    BY <1>5 DEF Untouched, Pending, Reachable, Has
  <1>7. {"OPEN", "CLOSE", "EOF", "OPENFAIL", "CONFIRM", "EXT"} \subseteq MsgTypes
    BY DEF MsgTypes
  <1> HIDE DEF e, c
  <1> USE <1>1
  <1>10. Unique(X)
    BY <1>2, <1>3, <1>5 DEF Unique
  <1>11. Named(X, ml, n)
    BY <1>2, <1>3, <1>5 DEF Named
  <1>12. Untouched(X)
    BY <1>2, <1>3, <1>5 DEF Untouched, Pending
  <1>13. \A q \in Endpoint : \A m \in ml[q] : Solid(q, m) => m.id \in Slots /\ X[q][m.id] = ch[q][m.id]
    BY <1>2, <1>5, <1>6 DEF Addressed, c
  <1>14. Addressed(X, ml) /\ Announced(X, ml)
    BY <1>5, <1>13 DEF Addressed, Announced
  <1>15. Unanswered(X, ml)
    BY <1>2, <1>3, <1>5 DEF Unanswered, Pending
  <1>16. Marked(X, ml)
    BY <1>2, <1>3, <1>4, <1>5, <1>7 DEF Marked
  <1>17. Asked(X, ml)
    BY <1>2, <1>3, <1>4, <1>5, <1>6, <1>7 DEF Asked, c
  <1>18. Confirming(X, ml)
    BY <1>2, <1>5, <1>6 DEF Confirming, Reachable, c
  <1>19. Finished(X, ml)
    <2>1. \A q \in Endpoint : \A j \in Slots : Has(ch[q][j], "EOF_RCVD") => ch[q][j].inst # 0
      BY <1>4 DEF Has
    <2> QED  BY <1>2, <1>3, <1>5, <2>1 DEF Finished
  <1>20. Linked(X, ml)
    <2> SUFFICES ASSUME NEW q \in Endpoint, NEW j \in Slots, Talks(X[q][j])
                 PROVE  Link(X, ml, q, j)
      BY DEF Linked
    <2>1. X[q][j] = ch[q][j]
      BY <1>2, <1>3 DEF Talks
    <2> DEFINE r == ch[q][j].remote_id
               b == ch[Peer(q)][r]
    <2>2. /\ r \in Slots /\ b.inst = ch[q][j].inst
          /\ b.type \in Reachable /\ ~Has(b, "CLOSE_RCVD")
          /\ ch[q][j].type = "CONNECTING" => b.type = "OPENING"
          /\ ch[q][j].type # "CONNECTING" /\ b.type = "OPENING" =>
                \E a \in ml[Peer(q)] : a.t = "CONFIRM" /\ a.inst = ch[q][j].inst
      BY <1>5, <2>1 DEF Linked, Link, Talks
    <2>3. X[Peer(q)][r] = b
      BY <1>2, <1>6, <2>2 DEF c
    <2> QED  BY <2>1, <2>2, <2>3 DEF Link
  <1> QED  BY <1>10, <1>11, <1>12, <1>14, <1>15, <1>16, <1>17, <1>18, <1>19, <1>20 DEF Settled

\* An open that was refused: the channel is dead, and nobody speaks of it.
LEMMA BurySettled ==
    ASSUME NEW ch \in Tables, NEW ml \in Mails, NEW n \in Nat, NEW p \in Endpoint, NEW i \in Slots,
           NEW d \in Channel, NEW X, Sets(ch, X, p, i, d), Settled(ch, ml, n),
           ch[p][i].type = "OPENING", d.type = "ZOMBIE", d.inst = ch[p][i].inst, d.flags = ch[p][i].flags,
           d.pid = "none",
           \A m \in ml[p] : Solid(p, m) => m.inst # d.inst,
           \A m \in ml[Peer(p)] : m.t = "OPEN" => m.inst # d.inst,
           \A j \in Slots : ch[Peer(p)][j].inst # d.inst
    PROVE  Settled(X, ml, n)
  <1> DEFINE e == Peer(p)
             c == ch[p][i]
  <1>1. /\ e \in Endpoint /\ e # p /\ Peer(e) = p /\ e = Peer(p) /\ \A q \in Endpoint : q = p \/ q = e
    BY Peers
  <1>2. /\ X \in Tables /\ X[p][i] = d
        /\ \A j \in Slots : j # i => X[p][j] = ch[p][j]
        /\ \A j \in Slots : X[e][j] = ch[e][j]
    BY DEF Sets
  <1>4. /\ \A q \in Endpoint : \A j \in Slots : /\ ch[q][j].inst \in Nat
                                                /\ ch[q][j].inst = 0 <=> ch[q][j].type = "FREE"
                                                /\ ch[q][j].type = "FREE" => ch[q][j].flags = {}
        /\ \A q \in Endpoint : \A m \in ml[q] : m.t \in MsgTypes => m.inst \in Nat /\ m.inst # 0
    BY TableFacts
  <1>5. /\ Unique(ch) /\ Named(ch, ml, n) /\ Untouched(ch) /\ Addressed(ch, ml) /\ Announced(ch, ml)
        /\ Linked(ch, ml) /\ Unanswered(ch, ml) /\ Marked(ch, ml)
        /\ Asked(ch, ml) /\ Confirming(ch, ml) /\ Finished(ch, ml)
    BY DEF Settled
  <1>6. \A f : Has(d, f) <=> Has(c, f)
    BY DEF Has
  <1> HIDE DEF e, c
  <1> USE <1>1
  <1>10. Unique(X)
    BY <1>2, <1>5 DEF Unique, c
  <1>11. Named(X, ml, n)
    BY <1>2, <1>5 DEF Named, c
  <1>12. Untouched(X)
    BY <1>2, <1>5 DEF Untouched, Pending
  <1>21. \A q \in Endpoint : \A m \in ml[q] : Solid(q, m) => m.id \in Slots /\ X[q][m.id] = ch[q][m.id]
    BY <1>2, <1>5 DEF Addressed, c
  <1>13. Addressed(X, ml)
    BY <1>5, <1>21 DEF Addressed
  <1>14. Announced(X, ml)
    BY <1>5, <1>21 DEF Announced
  <1>15. Unanswered(X, ml)
    BY <1>2, <1>5 DEF Unanswered, Pending
  <1>16. Marked(X, ml)
    BY <1>2, <1>5, <1>6 DEF Marked, c
  <1>17. Asked(X, ml)
    BY <1>2, <1>5 DEF Asked, c
  <1>18. Confirming(X, ml)
    BY <1>2, <1>5 DEF Confirming, c
  <1>19. Finished(X, ml)
    BY <1>2, <1>5, <1>6 DEF Finished, c
  <1>20. Linked(X, ml)
    <2> SUFFICES ASSUME NEW q \in Endpoint, NEW j \in Slots, Talks(X[q][j])
                 PROVE  Link(X, ml, q, j)
      BY DEF Linked
    <2>1. X[q][j] = ch[q][j]
      BY <1>2 DEF Talks
    <2>2. Link(ch, ml, q, j)
      BY <1>5, <2>1 DEF Linked
    <2>3. ch[q][j].remote_id \in Slots /\ X[Peer(q)][ch[q][j].remote_id] = ch[Peer(q)][ch[q][j].remote_id]
      BY <1>2, <2>1, <2>2 DEF Link
    <2> QED  BY <2>1, <2>2, <2>3 DEF Link
  <1> QED  BY <1>10, <1>11, <1>12, <1>13, <1>14, <1>15, <1>16, <1>17, <1>18, <1>19, <1>20 DEF Settled

\* The answer to an open is yes: the channel is OPEN and knows its peer's.
LEMMA ConfirmSettled ==
    ASSUME NEW ch \in Tables, NEW ml \in Mails, NEW N \in Mails, NEW n \in Nat,
           NEW e \in Endpoint, NEW i \in Slots, NEW h \in ml[e],
           NEW d \in Channel, NEW X, Sets(ch, X, e, i, d), Settled(ch, ml, n),
           h.t = "CONFIRM", h.id = i, ch[e][i].type = "OPENING",
           d.type = "OPEN", d.inst = ch[e][i].inst, d.flags = ch[e][i].flags, d.remote_id = h.who,
           N[e] \subseteq ml[e], ml[e] \subseteq N[e] \cup {h}, N[Peer(e)] = ml[Peer(e)],
           \A m \in N[e] : m.t \in Answers => m.inst # h.inst
    PROVE  Settled(X, N, n)
  <1> DEFINE p == Peer(e)
             c == ch[e][i]
  <1>1. /\ p \in Endpoint /\ p # e /\ Peer(p) = e /\ p = Peer(e) /\ \A q \in Endpoint : q = e \/ q = p
    BY Peers
  <1>2. /\ X \in Tables /\ X[e][i] = d
        /\ \A j \in Slots : j # i => X[e][j] = ch[e][j]
        /\ \A j \in Slots : X[p][j] = ch[p][j]
    BY DEF Sets
  <1>4. /\ \A q \in Endpoint : \A j \in Slots : /\ ch[q][j].inst \in Nat
                                                /\ ch[q][j].inst = 0 <=> ch[q][j].type = "FREE"
                                                /\ ch[q][j].type = "FREE" => ch[q][j].flags = {}
        /\ \A q \in Endpoint : \A m \in ml[q] : m.t \in MsgTypes => m.inst \in Nat /\ m.inst # 0
    BY TableFacts
  <1>5. /\ Unique(ch) /\ Named(ch, ml, n) /\ Untouched(ch) /\ Addressed(ch, ml) /\ Announced(ch, ml)
        /\ Linked(ch, ml) /\ Unanswered(ch, ml) /\ Marked(ch, ml)
        /\ Asked(ch, ml) /\ Confirming(ch, ml) /\ Finished(ch, ml)
    BY DEF Settled
  <1>6. \A f : Has(d, f) <=> Has(c, f)
    BY DEF Has
  <1>7. {"OPEN", "CLOSE", "EOF", "OPENFAIL", "CONFIRM", "EXT"} \subseteq MsgTypes
    BY DEF MsgTypes
  <1>8. Solid(e, h) /\ h.inst = c.inst
    BY <1>5, <1>7 DEF Addressed, Solid, Real
  <1>9. /\ h.who \in Slots /\ ch[p][h.who].inst = h.inst
        /\ ch[p][h.who].type \in {"LARVAL", "OPEN"} /\ ~Has(ch[p][h.who], "CLOSE_RCVD")
    BY <1>5 DEF Confirming
  <1>22. \A q \in Endpoint : N[q] \subseteq ml[q]
    BY <1>1
  <1> HIDE DEF p, c
  <1> USE <1>1
  <1>10. Unique(X)
    BY <1>2, <1>5 DEF Unique, c
  <1>11. Named(X, N, n)
    BY <1>2, <1>5, <1>22 DEF Named, c
  <1>12. Untouched(X)
    BY <1>2, <1>5 DEF Untouched, Pending
  <1>13. Addressed(X, N)
    <2> SUFFICES ASSUME NEW q \in Endpoint, NEW m \in N[q], Solid(q, m)
                 PROVE  /\ m.id \in Slots /\ X[q][m.id].inst = m.inst
                        /\ X[q][m.id].type \in Reachable /\ ~Has(X[q][m.id], "CLOSE_RCVD")
                        /\ m.t \in Answers => X[q][m.id].type = "OPENING"
      BY DEF Addressed
    <2>1. /\ m.id \in Slots /\ ch[q][m.id].inst = m.inst
          /\ ch[q][m.id].type \in Reachable /\ ~Has(ch[q][m.id], "CLOSE_RCVD")
          /\ m.t \in Answers => ch[q][m.id].type = "OPENING"
      BY <1>5, <1>22 DEF Addressed
    <2> QED  BY <1>2, <1>6, <1>8, <2>1 DEF Reachable, c
  <1>14. Announced(X, N)
    <2> SUFFICES ASSUME NEW q \in Endpoint, NEW m \in N[q], Solid(q, m), X[q][m.id].type = "OPENING"
                 PROVE  \E a \in N[q] : a.t \in Answers /\ a.inst = m.inst
      BY DEF Announced
    <2>1. m.id \in Slots /\ ch[q][m.id].inst = m.inst /\ X[q][m.id] = ch[q][m.id]
      BY <1>2, <1>5, <1>22 DEF Addressed
    <2>2. PICK a \in ml[q] : a.t \in Answers /\ a.inst = m.inst
      BY <1>5, <1>22, <2>1 DEF Announced
    <2>3. CASE q = p
      BY <2>2, <2>3
    <2>4. CASE q = e
      <3>1. m.id # i
        BY <1>2, <2>4
      <3>2. m.inst # h.inst
        BY <1>4, <1>5, <1>8, <2>1, <2>4, <3>1 DEF Unique, c
      <3> QED  BY <2>2, <2>4, <3>2
    <2> QED  BY <2>3, <2>4
  <1>15. Unanswered(X, N)
    BY <1>2, <1>5, <1>22 DEF Unanswered, Pending
  <1>16. Marked(X, N)
    BY <1>2, <1>5, <1>6, <1>22 DEF Marked, c
  <1>17. Asked(X, N)
    BY <1>2, <1>5, <1>8, <1>22 DEF Asked, c
  <1>18. Confirming(X, N)
    BY <1>2, <1>5, <1>6, <1>22 DEF Confirming, c
  <1>19. Finished(X, N)
    BY <1>2, <1>5, <1>6, <1>22 DEF Finished, c
  <1>20. Linked(X, N)
    <2>1. Link(X, N, e, i)
      BY <1>2, <1>8, <1>9 DEF Link, Reachable, c
    <2>2. ASSUME NEW j \in Slots, j # i, Talks(X[e][j])
          PROVE  Link(X, N, e, j)
      <3>1. X[e][j] = ch[e][j] /\ Link(ch, ml, e, j)
        BY <1>2, <1>5, <2>2 DEF Linked
      <3> QED  BY <1>2, <3>1 DEF Link
    <2>3. ASSUME NEW j \in Slots, Talks(X[p][j])
          PROVE  Link(X, N, p, j)
      <3> DEFINE b == ch[p][j]
                 r == b.remote_id
      <3>1. X[p][j] = b /\ Link(ch, ml, p, j)
        BY <1>2, <1>5, <2>3 DEF Linked
      <3>2. /\ r \in Slots /\ ch[e][r].inst = b.inst
            /\ ch[e][r].type \in Reachable /\ ~Has(ch[e][r], "CLOSE_RCVD")
            /\ b.type = "CONNECTING" => ch[e][r].type = "OPENING"
            /\ b.type # "CONNECTING" /\ ch[e][r].type = "OPENING" =>
                  \E a \in ml[e] : a.t = "CONFIRM" /\ a.inst = b.inst
        BY <3>1 DEF Link
      <3>3. CASE r = i
        <4>1. b.inst = h.inst
          BY <1>8, <3>2, <3>3 DEF c
        <4>2. b.type # "CONNECTING"
          BY <1>5, <1>8, <4>1 DEF Unanswered, Pending
        <4> HIDE DEF b, r
        <4> QED  BY <1>2, <1>6, <1>8, <3>1, <3>2, <3>3, <4>1, <4>2 DEF Link, Reachable, r, c
      <3>4. CASE r # i
        <4>1. X[e][r] = ch[e][r] /\ ch[e][r].inst = b.inst
          BY <1>2, <3>2, <3>4
        <4>2. ch[e][r].type = "OPENING" => b.inst # h.inst
          BY <1>4, <1>5, <1>8, <3>2, <3>4 DEF Unique, c
        <4>3. b.type # "CONNECTING" /\ ch[e][r].type = "OPENING" =>
                  \E a \in N[e] : a.t = "CONFIRM" /\ a.inst = b.inst
          BY <3>2, <4>2
        <4> QED  BY <3>1, <3>2, <4>1, <4>3 DEF Link
      <3> QED  BY <3>3, <3>4
    <2> QED  BY <2>1, <2>2, <2>3 DEF Linked
  <1> QED  BY <1>10, <1>11, <1>12, <1>13, <1>14, <1>15, <1>16, <1>17, <1>18, <1>19, <1>20 DEF Settled

\* connect(2) has ended: the channel is OPEN or gone, and the peer is told so.
LEMMA ConnectSettled ==
    ASSUME NEW ch \in Tables, NEW ml \in Mails, NEW N \in Mails, NEW n \in Nat,
           NEW p \in Endpoint, NEW i \in Slots, NEW h \in Message,
           NEW d, NEW X, Sets(ch, X, p, i, d), Settled(ch, ml, n),
           ch[p][i].type = "CONNECTING", h.id = ch[p][i].remote_id, h.inst = ch[p][i].inst,
           \/ /\ h.t = "CONFIRM" /\ h.who = i /\ d.type \in {"LARVAL", "OPEN"}
              /\ d.inst = h.inst /\ d.flags = ch[p][i].flags /\ d.remote_id = h.id /\ d.pid = "none"
           \/ h.t = "OPENFAIL" /\ d = FreeSlot,
           N[p] = ml[p], N[Peer(p)] = ml[Peer(p)] \cup {h}
    PROVE  Settled(X, N, n) /\ \A a \in ml[Peer(p)] : Before(Peer(p), a, h)
  <1> DEFINE e == Peer(p)
             c == ch[p][i]
  <1>1. /\ e \in Endpoint /\ e # p /\ Peer(e) = p /\ e = Peer(p) /\ \A q \in Endpoint : q = p \/ q = e
    BY Peers
  <1>2. /\ X \in Tables /\ X[p][i] = d
        /\ \A j \in Slots : j # i => X[p][j] = ch[p][j]
        /\ \A j \in Slots : X[e][j] = ch[e][j]
    BY DEF Sets
  <1>4. /\ \A q \in Endpoint : \A j \in Slots : /\ ch[q][j].inst \in Nat
                                                /\ ch[q][j].inst = 0 <=> ch[q][j].type = "FREE"
                                                /\ ch[q][j].type = "FREE" => ch[q][j].flags = {}
        /\ \A q \in Endpoint : \A m \in ml[q] : m.t \in MsgTypes => m.inst \in Nat /\ m.inst # 0
    BY TableFacts
  <1>5. /\ Unique(ch) /\ Named(ch, ml, n) /\ Untouched(ch) /\ Addressed(ch, ml) /\ Announced(ch, ml)
        /\ Linked(ch, ml) /\ Unanswered(ch, ml) /\ Marked(ch, ml)
        /\ Asked(ch, ml) /\ Confirming(ch, ml) /\ Finished(ch, ml)
    BY DEF Settled
  <1>3. FreeSlot.type = "FREE" /\ FreeSlot.inst = 0 /\ FreeSlot.flags = {} /\ FreeSlot.pid = "none"
    BY DEF FreeSlot
  <1>32. c.flags = {}
    BY <1>5 DEF Untouched, Pending
  <1>6. /\ \A f : ~Has(d, f) /\ ~Has(c, f)
        /\ d.type \in {"LARVAL", "OPEN", "FREE"} /\ d.inst \in {0, h.inst} /\ d.pid = "none"
    BY <1>3, <1>32 DEF Has
  <1>33. /\ d.type # "FREE" => h.t = "CONFIRM" /\ h.who = i /\ d.inst = h.inst /\ d.remote_id = c.remote_id
         /\ h.t = "OPENFAIL" => d.inst = 0
    BY <1>3
  <1>7. {"OPEN", "CLOSE", "EOF", "OPENFAIL", "CONFIRM", "EXT"} \subseteq MsgTypes
    BY DEF MsgTypes
  <1>8. Solid(e, h) /\ h.inst = c.inst /\ h.inst \in Nat \ {0} /\ h.t \in Answers
    BY <1>4, <1>7 DEF Solid, Real, Answers
  <1> DEFINE r == c.remote_id
  <1>9. /\ r \in Slots /\ ch[e][r].inst = c.inst /\ ch[e][r].type = "OPENING"
        /\ ~Has(ch[e][r], "CLOSE_RCVD")
    BY <1>5, <1>6 DEF Linked, Link, Talks
  <1> HIDE DEF e, c, r
  <1> USE <1>1
  <1>22. \A q \in Endpoint : \A m \in N[q] : m \in ml[q] \/ (q = e /\ m = h)
    OBVIOUS
  <1>23. \A m \in ml[e] : Solid(e, m) => m.inst # h.inst
    BY <1>5, <1>8 DEF Unanswered, Pending, c
  <1>24. \A m \in ml[e] : m.t \in {"CLOSE", "OPENFAIL", "EOF"} => m.inst # h.inst
    BY <1>7, <1>23 DEF Solid, Real
  <1>10. Unique(X)
    BY <1>2, <1>5, <1>6, <1>8 DEF Unique, c
  <1>11. Named(X, N, n)
    BY <1>2, <1>5, <1>6, <1>8, <1>22 DEF Named, c
  <1>12. Untouched(X)
    BY <1>2, <1>5, <1>6 DEF Untouched, Pending
  <1>25. \A q \in Endpoint : \A m \in ml[q] : Solid(q, m) => m.inst # h.inst \/ q = p
    BY <1>23
  <1>26. \A m \in ml[p] : Solid(p, m) => m.inst # h.inst
    BY <1>5, <1>8, <1>9 DEF Unanswered, Pending, c
  <1>27. \A q \in Endpoint : \A m \in ml[q] : Solid(q, m) => m.id \in Slots /\ X[q][m.id] = ch[q][m.id]
    BY <1>2, <1>5, <1>8, <1>26 DEF Addressed, c
  <1>13. Addressed(X, N)
    <2> SUFFICES ASSUME NEW q \in Endpoint, NEW m \in N[q], Solid(q, m)
                 PROVE  /\ m.id \in Slots /\ X[q][m.id].inst = m.inst
                        /\ X[q][m.id].type \in Reachable /\ ~Has(X[q][m.id], "CLOSE_RCVD")
                        /\ m.t \in Answers => X[q][m.id].type = "OPENING"
      BY DEF Addressed
    <2>1. CASE m \in ml[q]
      BY <1>5, <1>27, <2>1 DEF Addressed
    <2>2. CASE q = e /\ m = h
      BY <1>2, <1>8, <1>9, <2>2 DEF Reachable, r, c
    <2> QED  BY <1>22, <2>1, <2>2
  <1>14. Announced(X, N)
    <2> SUFFICES ASSUME NEW q \in Endpoint, NEW m \in N[q], Solid(q, m), X[q][m.id].type = "OPENING"
                 PROVE  \E a \in N[q] : a.t \in Answers /\ a.inst = m.inst
      BY DEF Announced
    <2>1. CASE m \in ml[q]
      BY <1>5, <1>27, <2>1 DEF Announced
    <2>2. CASE q = e /\ m = h
      BY <1>8, <2>2
    <2> QED  BY <1>22, <2>1, <2>2
  <1>15. Unanswered(X, N)
    <2>1. ASSUME NEW j \in Slots, NEW m \in N[e], X[p][j].type \in Pending, Solid(e, m)
          PROVE  m.inst # X[p][j].inst
      BY <1>2, <1>5, <1>6, <1>8, <1>22, <2>1 DEF Unanswered, Unique, Pending, c
    <2>2. ASSUME NEW j \in Slots, NEW m \in N[p], X[e][j].type \in Pending, Solid(p, m)
          PROVE  m.inst # X[e][j].inst
      BY <1>2, <1>5, <2>2 DEF Unanswered
    <2> QED  BY <2>1, <2>2 DEF Unanswered
  <1>16. Marked(X, N)
    <2>1. ASSUME NEW j \in Slots, NEW m \in N[e]
          PROVE  /\ m.t = "CLOSE" /\ m.inst = X[p][j].inst => Has(X[p][j], "CLOSE_SENT")
                 /\ m.t = "EOF" /\ m.inst = X[p][j].inst => Has(X[p][j], "EOF_SENT")
                 /\ m.t = "OPENFAIL" => m.inst # X[p][j].inst
      <3>3. CASE m = h
        BY <1>2, <1>5, <1>8, <1>33, <3>3 DEF Unique, Answers, c
      <3>4. CASE m \in ml[e]
        BY <1>2, <1>4, <1>5, <1>6, <1>7, <1>24, <3>4 DEF Marked
      <3> QED  BY <1>22, <3>3, <3>4
    <2>2. ASSUME NEW j \in Slots, NEW m \in N[p]
          PROVE  /\ m.t = "CLOSE" /\ m.inst = X[e][j].inst => Has(X[e][j], "CLOSE_SENT")
                 /\ m.t = "EOF" /\ m.inst = X[e][j].inst => Has(X[e][j], "EOF_SENT")
                 /\ m.t = "OPENFAIL" => m.inst # X[e][j].inst
      BY <1>2, <1>5 DEF Marked
    <2> QED  BY <2>1, <2>2 DEF Marked
  <1>17. Asked(X, N)
    <2>1. ASSUME NEW m \in N[p], m.t = "OPEN"
          PROVE  /\ m.who \in Slots /\ X[e][m.who].inst = m.inst
                 /\ X[e][m.who].type = "OPENING"
                 /\ \A j \in Slots : X[p][j].inst # m.inst
                 /\ \A a \in N[e] : Solid(e, a) => a.inst # m.inst
      BY <1>2, <1>4, <1>5, <1>6, <1>7, <1>8, <1>22, <2>1 DEF Asked, c
    <2>2. ASSUME NEW m \in N[e], m.t = "OPEN"
          PROVE  /\ m.who \in Slots /\ X[p][m.who].inst = m.inst
                 /\ X[p][m.who].type = "OPENING"
                 /\ \A j \in Slots : X[e][j].inst # m.inst
                 /\ \A a \in N[p] : Solid(p, a) => a.inst # m.inst
      BY <1>2, <1>5, <1>8, <1>22, <2>2 DEF Asked, Answers
    <2> QED  BY <2>1, <2>2 DEF Asked
  <1>18. Confirming(X, N)
    <2>1. ASSUME NEW m \in N[p], m.t = "CONFIRM"
          PROVE  /\ m.who \in Slots /\ X[e][m.who].inst = m.inst
                 /\ X[e][m.who].type \in {"LARVAL", "OPEN"}
                 /\ ~Has(X[e][m.who], "CLOSE_RCVD")
      BY <1>2, <1>5, <2>1 DEF Confirming
    <2>2. ASSUME NEW m \in N[e], m.t = "CONFIRM"
          PROVE  /\ m.who \in Slots /\ X[p][m.who].inst = m.inst
                 /\ X[p][m.who].type \in {"LARVAL", "OPEN"}
                 /\ ~Has(X[p][m.who], "CLOSE_RCVD")
      BY <1>2, <1>5, <1>6, <1>22, <2>2 DEF Confirming
    <2> QED  BY <2>1, <2>2 DEF Confirming
  <1>19. Finished(X, N)
    <2>1. ASSUME NEW j \in Slots, Has(X[p][j], "EOF_RCVD")
          PROVE  /\ \A m \in N[p] : m.t = "EXT" => m.inst # X[p][j].inst
                 /\ \A k \in Slots : X[e][k].inst = X[p][j].inst => Has(X[e][k], "EOF_SENT")
      BY <1>2, <1>5, <1>6, <2>1 DEF Finished
    <2>2. ASSUME NEW j \in Slots, Has(X[e][j], "EOF_RCVD")
          PROVE  /\ \A m \in N[e] : m.t = "EXT" => m.inst # X[e][j].inst
                 /\ \A k \in Slots : X[p][k].inst = X[e][j].inst => Has(X[p][k], "EOF_SENT")
      <3>1. ch[e][j].inst # 0 /\ X[e][j] = ch[e][j]
        BY <1>2, <1>4, <2>2 DEF Has
      <3> QED  BY <1>2, <1>5, <1>6, <1>8, <1>22, <2>2, <3>1 DEF Finished, Answers, c
    <2> QED  BY <2>1, <2>2 DEF Finished
  <1>20. Linked(X, N)
    <2>1. ASSUME NEW j \in Slots, Talks(X[p][j])
          PROVE  Link(X, N, p, j)
      <3>1. CASE j = i
        <4>1. d.remote_id = r /\ d.inst = c.inst /\ h.t = "CONFIRM" /\ d.type # "CONNECTING"
          BY <1>2, <1>6, <1>8, <1>33, <2>1, <3>1 DEF Talks, r
        <4> QED  BY <1>2, <1>8, <1>9, <3>1, <4>1 DEF Link, Reachable
      <3>2. CASE j # i
        <4>1. X[p][j] = ch[p][j] /\ Link(ch, ml, p, j)
          BY <1>2, <1>5, <2>1, <3>2 DEF Linked
        <4> QED  BY <1>2, <4>1 DEF Link
      <3> QED  BY <3>1, <3>2
    <2>2. ASSUME NEW j \in Slots, Talks(X[e][j])
          PROVE  Link(X, N, e, j)
      <3>1. X[e][j] = ch[e][j] /\ Link(ch, ml, e, j)
        BY <1>2, <1>5, <2>2 DEF Linked
      <3>2. ch[e][j].remote_id \in Slots /\ ch[p][ch[e][j].remote_id].inst = ch[e][j].inst
        BY <3>1 DEF Link
      <3>3. j # r
        BY <1>9, <2>2, <3>1 DEF Talks
      <3>4. ch[e][j].inst # c.inst
        BY <1>4, <1>5, <1>8, <1>9, <3>3 DEF Unique
      <3>5. X[p][ch[e][j].remote_id] = ch[p][ch[e][j].remote_id]
        BY <1>2, <3>2, <3>4 DEF c
      <3> QED  BY <3>1, <3>2, <3>5 DEF Link
    <2> QED  BY <2>1, <2>2 DEF Linked
  <1>30. \A a \in ml[e] : Before(e, a, h)
    BY <1>8, <1>23, <1>24 DEF Before, Answers
  <1>31. Settled(X, N, n)
     BY <1>10, <1>11, <1>12, <1>13, <1>14, <1>15, <1>16, <1>17, <1>18, <1>19, <1>20 DEF Settled
  <1> QED  BY <1>30, <1>31 DEF e

\* A channel nobody has heard of is opened.
LEMMA OpenSettled ==
    ASSUME NEW ch \in Tables, NEW ml \in Mails, NEW N \in Mails, NEW n \in Nat,
           NEW p \in Endpoint, NEW i \in Slots, NEW h \in Message,
           NEW d, NEW X, Sets(ch, X, p, i, d), Settled(ch, ml, n),
           ch[p][i].type = "FREE", h.t = "OPEN", h.who = i, h.inst = n + 1,
           d.type = "OPENING", d.inst = n + 1, d.flags = {}, d.istate = "OPEN", d.ostate = "OPEN",
           d.self = i, d.pid = "none",
           N[p] = ml[p], N[Peer(p)] = ml[Peer(p)] \cup {h}
    PROVE  Settled(X, N, n + 1) /\ \A a \in ml[Peer(p)] : Before(Peer(p), a, h)
  <1> DEFINE e == Peer(p)
             c == ch[p][i]
  <1>1. /\ e \in Endpoint /\ e # p /\ Peer(e) = p /\ e = Peer(p) /\ \A q \in Endpoint : q = p \/ q = e
    BY Peers
  <1>2. /\ X \in Tables /\ X[p][i] = d
        /\ \A j \in Slots : j # i => X[p][j] = ch[p][j]
        /\ \A j \in Slots : X[e][j] = ch[e][j]
    BY DEF Sets
  <1>4. /\ \A q \in Endpoint : \A j \in Slots : /\ ch[q][j].inst \in Nat
                                                /\ ch[q][j].inst = 0 <=> ch[q][j].type = "FREE"
                                                /\ ch[q][j].type = "FREE" => ch[q][j].flags = {}
        /\ \A q \in Endpoint : \A m \in ml[q] : m.t \in MsgTypes => m.inst \in Nat /\ m.inst # 0
    BY TableFacts
  <1>5. /\ Unique(ch) /\ Named(ch, ml, n) /\ Untouched(ch) /\ Addressed(ch, ml) /\ Announced(ch, ml)
        /\ Linked(ch, ml) /\ Unanswered(ch, ml) /\ Marked(ch, ml)
        /\ Asked(ch, ml) /\ Confirming(ch, ml) /\ Finished(ch, ml)
    BY DEF Settled
  <1>6. \A f : ~Has(d, f)
    BY DEF Has
  <1>7. {"OPEN", "CLOSE", "EOF", "OPENFAIL", "CONFIRM", "EXT"} \subseteq MsgTypes
    BY DEF MsgTypes
  <1>8. ~Solid(e, h)
    BY DEF Solid
  <1> HIDE DEF e, c
  <1> USE <1>1
  <1>9. /\ \A q \in Endpoint : \A j \in Slots : ch[q][j].inst # n + 1 /\ ch[q][j].inst <= n + 1
        /\ \A q \in Endpoint : \A m \in ml[q] : m.t \in MsgTypes => m.inst # n + 1 /\ m.inst <= n + 1
    BY <1>4, <1>5 DEF Named
  <1>22. \A q \in Endpoint : \A m \in N[q] : m \in ml[q] \/ (q = e /\ m = h)
    OBVIOUS
  <1>23. \A q \in Endpoint : \A m \in N[q] : Solid(q, m) => m \in ml[q] /\ m.inst # n + 1
    BY <1>8, <1>9, <1>22 DEF Solid, Real
  <1>27. \A q \in Endpoint : \A m \in N[q] : Solid(q, m) => m.id \in Slots /\ X[q][m.id] = ch[q][m.id]
    BY <1>2, <1>5, <1>23 DEF Addressed, Reachable
  <1>10. Unique(X)
    BY <1>2, <1>5, <1>9 DEF Unique
  <1>11. Named(X, N, n + 1)
    BY <1>2, <1>9, <1>22 DEF Named
  <1>12. Untouched(X)
    BY <1>2, <1>5 DEF Untouched
  <1>13. Addressed(X, N)
    BY <1>5, <1>23, <1>27 DEF Addressed
  <1>14. Announced(X, N)
    <2>1. \A q \in Endpoint : ml[q] \subseteq N[q]
      OBVIOUS
    <2> QED  BY <1>5, <1>23, <1>27, <2>1 DEF Announced
  <1>15. Unanswered(X, N)
    BY <1>2, <1>5, <1>23 DEF Unanswered
  <1>16. Marked(X, N)
    <2>1. \A q \in Endpoint : \A m \in N[q] : m.t \in {"CLOSE", "EOF", "OPENFAIL"} => m \in ml[q] /\ m.inst # n + 1
      BY <1>7, <1>9, <1>22
    <2> QED  BY <1>2, <1>5, <2>1 DEF Marked
  <1>17. Asked(X, N)
    <2>1. ASSUME NEW m \in N[p], m.t = "OPEN"
          PROVE  /\ m.who \in Slots /\ X[e][m.who].inst = m.inst
                 /\ X[e][m.who].type = "OPENING"
                 /\ \A j \in Slots : X[p][j].inst # m.inst
                 /\ \A a \in N[e] : Solid(e, a) => a.inst # m.inst
      BY <1>2, <1>5, <1>7, <1>9, <1>23, <2>1 DEF Asked
    <2>2. ASSUME NEW m \in N[e], m.t = "OPEN"
          PROVE  /\ m.who \in Slots /\ X[p][m.who].inst = m.inst
                 /\ X[p][m.who].type = "OPENING"
                 /\ \A j \in Slots : X[e][j].inst # m.inst
                 /\ \A a \in N[p] : Solid(p, a) => a.inst # m.inst
      BY <1>2, <1>5, <1>9, <1>22, <1>23, <2>2 DEF Asked
    <2> QED  BY <2>1, <2>2 DEF Asked
  <1>18. Confirming(X, N)
    BY <1>2, <1>5, <1>22 DEF Confirming
  <1>19. Finished(X, N)
    BY <1>2, <1>5, <1>6, <1>9, <1>22 DEF Finished
  <1>20. Linked(X, N)
    <2> SUFFICES ASSUME NEW q \in Endpoint, NEW j \in Slots, Talks(X[q][j])
                 PROVE  Link(X, N, q, j)
      BY DEF Linked
    <2>1. X[q][j] = ch[q][j] /\ Link(ch, ml, q, j)
      BY <1>2, <1>5 DEF Linked, Talks
    <2>2. ch[q][j].remote_id \in Slots /\ X[Peer(q)][ch[q][j].remote_id] = ch[Peer(q)][ch[q][j].remote_id]
      BY <1>2, <2>1 DEF Link, Reachable
    <2> QED  BY <2>1, <2>2 DEF Link
  <1>30. \A a \in ml[e] : Before(e, a, h)
    BY <1>9 DEF Before, Real
  <1>31. Settled(X, N, n + 1)
     BY <1>10, <1>11, <1>12, <1>13, <1>14, <1>15, <1>16, <1>17, <1>18, <1>19, <1>20 DEF Settled
  <1> QED  BY <1>30, <1>31 DEF e

\* An open is accepted: the new channel waits for connect(2).
LEMMA AcceptSettled ==
    ASSUME NEW ch \in Tables, NEW ml \in Mails, NEW N \in Mails, NEW n \in Nat,
           NEW e \in Endpoint, NEW i \in Slots, NEW h \in ml[e],
           NEW d, NEW X, Sets(ch, X, e, i, d), Settled(ch, ml, n),
           h.t = "OPEN", ch[e][i].type = "FREE",
           d.type = "CONNECTING", d.inst = h.inst, d.flags = {}, d.remote_id = h.who,
           d.istate = "OPEN", d.ostate = "OPEN", d.self = i, d.pid = "none",
           N[e] \subseteq ml[e], ml[e] \subseteq N[e] \cup {h}, N[Peer(e)] = ml[Peer(e)],
           \A m \in N[e] : m.t = "OPEN" => m.inst # h.inst
    PROVE  Settled(X, N, n)
  <1> DEFINE p == Peer(e)
             c == ch[e][i]
  <1>1. /\ p \in Endpoint /\ p # e /\ Peer(p) = e /\ p = Peer(e) /\ \A q \in Endpoint : q = e \/ q = p
    BY Peers
  <1>2. /\ X \in Tables /\ X[e][i] = d
        /\ \A j \in Slots : j # i => X[e][j] = ch[e][j]
        /\ \A j \in Slots : X[p][j] = ch[p][j]
    BY DEF Sets
  <1>4. /\ \A q \in Endpoint : \A j \in Slots : /\ ch[q][j].inst \in Nat
                                                /\ ch[q][j].inst = 0 <=> ch[q][j].type = "FREE"
                                                /\ ch[q][j].type = "FREE" => ch[q][j].flags = {}
        /\ \A q \in Endpoint : \A m \in ml[q] : m.t \in MsgTypes => m.inst \in Nat /\ m.inst # 0
    BY TableFacts
  <1>5. /\ Unique(ch) /\ Named(ch, ml, n) /\ Untouched(ch) /\ Addressed(ch, ml) /\ Announced(ch, ml)
        /\ Linked(ch, ml) /\ Unanswered(ch, ml) /\ Marked(ch, ml)
        /\ Asked(ch, ml) /\ Confirming(ch, ml) /\ Finished(ch, ml)
    BY DEF Settled
  <1>6. \A f : ~Has(d, f)
    BY DEF Has
  <1>7. {"OPEN", "CLOSE", "EOF", "OPENFAIL", "CONFIRM", "EXT"} \subseteq MsgTypes
    BY DEF MsgTypes
  <1>8. /\ h.who \in Slots /\ ch[p][h.who].inst = h.inst /\ ch[p][h.who].type = "OPENING"
        /\ \A j \in Slots : ch[e][j].inst # h.inst
        /\ \A a \in ml[p] : Solid(p, a) => a.inst # h.inst
    BY <1>5 DEF Asked
  <1>9. ~Has(ch[p][h.who], "CLOSE_RCVD") /\ ~Has(ch[p][h.who], "EOF_RCVD")
    BY <1>1, <1>5, <1>8 DEF Untouched, Pending, Has
  <1>22. \A q \in Endpoint : N[q] \subseteq ml[q]
    BY <1>1
  <1> HIDE DEF p, c
  <1> USE <1>1
  <1>23. \A q \in Endpoint : \A m \in ml[q] : m.t \in {"CONFIRM", "OPENFAIL"} => m \in N[q]
    OBVIOUS
  <1>27. \A q \in Endpoint : \A m \in N[q] : Solid(q, m) => m.id \in Slots /\ X[q][m.id] = ch[q][m.id]
    BY <1>2, <1>5, <1>22 DEF Addressed, Reachable
  <1>10. Unique(X)
    BY <1>2, <1>5, <1>8 DEF Unique
  <1>11. Named(X, N, n)
    BY <1>2, <1>5, <1>7, <1>22 DEF Named
  <1>12. Untouched(X)
    BY <1>2, <1>5 DEF Untouched
  <1>13. Addressed(X, N)
    BY <1>5, <1>22, <1>27 DEF Addressed
  <1>14. Announced(X, N)
    <2> SUFFICES ASSUME NEW q \in Endpoint, NEW m \in N[q], Solid(q, m), X[q][m.id].type = "OPENING"
                 PROVE  \E a \in N[q] : a.t \in Answers /\ a.inst = m.inst
      BY DEF Announced
    <2>1. PICK a \in ml[q] : a.t \in Answers /\ a.inst = m.inst
      BY <1>5, <1>22, <1>27 DEF Announced
    <2> QED  BY <1>23, <2>1 DEF Answers
  <1>15. Unanswered(X, N)
    BY <1>2, <1>5, <1>8, <1>22 DEF Unanswered
  <1>16. Marked(X, N)
    <2>1. \A m \in ml[p] : m.t \in {"CLOSE", "EOF", "OPENFAIL"} => m.inst # h.inst
      BY <1>7, <1>8 DEF Solid, Real
    <2> QED  BY <1>2, <1>5, <1>22, <2>1 DEF Marked
  <1>17. Asked(X, N)
    <2>1. ASSUME NEW m \in N[p], m.t = "OPEN"
          PROVE  /\ m.who \in Slots /\ X[e][m.who].inst = m.inst
                 /\ X[e][m.who].type = "OPENING"
                 /\ \A j \in Slots : X[p][j].inst # m.inst
                 /\ \A a \in N[e] : Solid(e, a) => a.inst # m.inst
      BY <1>2, <1>5, <1>22, <2>1 DEF Asked
    <2>2. ASSUME NEW m \in N[e], m.t = "OPEN"
          PROVE  /\ m.who \in Slots /\ X[p][m.who].inst = m.inst
                 /\ X[p][m.who].type = "OPENING"
                 /\ \A j \in Slots : X[e][j].inst # m.inst
                 /\ \A a \in N[p] : Solid(p, a) => a.inst # m.inst
      BY <1>2, <1>5, <1>22, <2>2 DEF Asked
    <2> QED  BY <2>1, <2>2 DEF Asked
  <1>18. Confirming(X, N)
    BY <1>2, <1>5, <1>22 DEF Confirming
  <1>19. Finished(X, N)
    <2>1. ASSUME NEW j \in Slots, Has(X[p][j], "EOF_RCVD")
          PROVE  /\ \A m \in N[p] : m.t = "EXT" => m.inst # X[p][j].inst
                 /\ \A k \in Slots : X[e][k].inst = X[p][j].inst => Has(X[e][k], "EOF_SENT")
      <3>1. X[p][j] = ch[p][j] /\ ch[p][j].inst # 0
        BY <1>2, <1>4, <2>1 DEF Has
      <3>2. ch[p][j].inst # h.inst
        BY <1>5, <1>8, <1>9, <2>1, <3>1 DEF Unique
      <3> QED  BY <1>2, <1>5, <1>22, <2>1, <3>1, <3>2 DEF Finished
    <2>2. ASSUME NEW j \in Slots, Has(X[e][j], "EOF_RCVD")
          PROVE  /\ \A m \in N[e] : m.t = "EXT" => m.inst # X[e][j].inst
                 /\ \A k \in Slots : X[p][k].inst = X[e][j].inst => Has(X[p][k], "EOF_SENT")
      BY <1>2, <1>5, <1>6, <1>22, <2>2 DEF Finished
    <2> QED  BY <2>1, <2>2 DEF Finished
  <1>20. Linked(X, N)
    <2>1. Link(X, N, e, i)
      BY <1>2, <1>8, <1>9 DEF Link, Reachable
    <2>2. ASSUME NEW q \in Endpoint, NEW j \in Slots, Talks(X[q][j]), q # e \/ j # i
          PROVE  Link(X, N, q, j)
      <3>1. X[q][j] = ch[q][j] /\ Link(ch, ml, q, j)
        BY <1>2, <1>5, <2>2 DEF Linked
      <3>2. ch[q][j].remote_id \in Slots /\ X[Peer(q)][ch[q][j].remote_id] = ch[Peer(q)][ch[q][j].remote_id]
        BY <1>2, <3>1 DEF Link, Reachable
      <3> QED  BY <1>23, <3>1, <3>2 DEF Link
    <2> QED  BY <2>1, <2>2 DEF Linked
  <1> QED  BY <1>10, <1>11, <1>12, <1>13, <1>14, <1>15, <1>16, <1>17, <1>18, <1>19, <1>20 DEF Settled

\* An open is refused: nothing is kept of it but the answer.
LEMMA RefuseSettled ==
    ASSUME NEW ch \in Tables, NEW ml \in Mails, NEW N \in Mails, NEW n \in Nat,
           NEW e \in Endpoint, NEW h \in ml[e], NEW g \in Message, Settled(ch, ml, n),
           h.t = "OPEN", g.t = "OPENFAIL", g.id = h.who, g.inst = h.inst,
           N[e] \subseteq ml[e], ml[e] \subseteq N[e] \cup {h}, N[Peer(e)] = ml[Peer(e)] \cup {g},
           \A m \in N[e] : m.t = "OPEN" => m.inst # h.inst
    PROVE  Settled(ch, N, n) /\ \A a \in ml[Peer(e)] : Before(Peer(e), a, g)
  <1> DEFINE p == Peer(e)
  <1>1. /\ p \in Endpoint /\ p # e /\ Peer(p) = e /\ p = Peer(e) /\ \A q \in Endpoint : q = e \/ q = p
    BY Peers
  <1>4. /\ \A q \in Endpoint : \A j \in Slots : /\ ch[q][j].inst \in Nat
                                                /\ ch[q][j].inst = 0 <=> ch[q][j].type = "FREE"
                                                /\ ch[q][j].type = "FREE" => ch[q][j].flags = {}
        /\ \A q \in Endpoint : \A m \in ml[q] : m.t \in MsgTypes => m.inst \in Nat /\ m.inst # 0
    BY TableFacts
  <1>5. /\ Unique(ch) /\ Named(ch, ml, n) /\ Untouched(ch) /\ Addressed(ch, ml) /\ Announced(ch, ml)
        /\ Linked(ch, ml) /\ Unanswered(ch, ml) /\ Marked(ch, ml)
        /\ Asked(ch, ml) /\ Confirming(ch, ml) /\ Finished(ch, ml)
    BY DEF Settled
  <1>7. {"OPEN", "CLOSE", "EOF", "OPENFAIL", "CONFIRM", "EXT"} \subseteq MsgTypes
    BY DEF MsgTypes
  <1>8. /\ h.who \in Slots /\ ch[p][h.who].inst = h.inst /\ ch[p][h.who].type = "OPENING"
        /\ \A j \in Slots : ch[e][j].inst # h.inst
        /\ \A a \in ml[p] : Solid(p, a) => a.inst # h.inst
    BY <1>5 DEF Asked
  <1>9. ~Has(ch[p][h.who], "CLOSE_RCVD")
    BY <1>1, <1>5, <1>8 DEF Untouched, Pending, Has
  <1>22. \A q \in Endpoint : \A m \in N[q] : m \in ml[q] \/ (q = p /\ m = g)
    BY <1>1
  <1>6. Solid(p, g)
    BY <1>7 DEF Solid, Real
  <1> HIDE DEF p
  <1> USE <1>1
  <1>23. \A q \in Endpoint : \A m \in ml[q] : m.t \in {"CONFIRM", "OPENFAIL"} => m \in N[q]
    OBVIOUS
  <1>11. Named(ch, N, n)
    BY <1>5, <1>7, <1>22 DEF Named
  <1>13. Addressed(ch, N)
    BY <1>5, <1>8, <1>9, <1>22 DEF Addressed, Reachable
  <1>14. Announced(ch, N)
    <2> SUFFICES ASSUME NEW q \in Endpoint, NEW m \in N[q], Solid(q, m), ch[q][m.id].type = "OPENING"
                 PROVE  \E a \in N[q] : a.t \in Answers /\ a.inst = m.inst
      BY DEF Announced
    <2>1. CASE m \in ml[q]
      <3>1. PICK a \in ml[q] : a.t \in Answers /\ a.inst = m.inst
        BY <1>5, <2>1 DEF Announced
      <3> QED  BY <1>23, <3>1 DEF Answers
    <2>2. CASE q = p /\ m = g
      BY <2>2 DEF Answers
    <2> QED  BY <1>22, <2>1, <2>2
  <1>15. Unanswered(ch, N)
    BY <1>5, <1>8, <1>22 DEF Unanswered
  <1>16. Marked(ch, N)
    BY <1>5, <1>8, <1>22 DEF Marked
  <1>17. Asked(ch, N)
    <2>1. ASSUME NEW m \in N[p], m.t = "OPEN"
          PROVE  /\ m.who \in Slots /\ ch[e][m.who].inst = m.inst
                 /\ ch[e][m.who].type = "OPENING"
                 /\ \A j \in Slots : ch[p][j].inst # m.inst
                 /\ \A a \in N[e] : Solid(e, a) => a.inst # m.inst
      BY <1>5, <1>22, <2>1 DEF Asked
    <2>2. ASSUME NEW m \in N[e], m.t = "OPEN"
          PROVE  /\ m.who \in Slots /\ ch[p][m.who].inst = m.inst
                 /\ ch[p][m.who].type = "OPENING"
                 /\ \A j \in Slots : ch[e][j].inst # m.inst
                 /\ \A a \in N[p] : Solid(p, a) => a.inst # m.inst
      BY <1>5, <1>22, <2>2 DEF Asked
    <2> QED  BY <2>1, <2>2 DEF Asked
  <1>18. Confirming(ch, N)
    BY <1>5, <1>22 DEF Confirming
  <1>19. Finished(ch, N)
    BY <1>5, <1>22 DEF Finished
  <1>20. Linked(ch, N)
    <2> SUFFICES ASSUME NEW q \in Endpoint, NEW j \in Slots, Talks(ch[q][j])
                 PROVE  Link(ch, N, q, j)
      BY DEF Linked
    <2>1. Link(ch, ml, q, j)
      BY <1>5 DEF Linked
    <2> QED  BY <1>23, <2>1 DEF Link
  <1>30. \A a \in ml[p] : Before(p, a, g)
    <2> SUFFICES ASSUME NEW a \in ml[p], Real(a), a.inst = g.inst
                 PROVE  a.t \notin {"CLOSE", "OPENFAIL"} /\ ~Solid(p, a) /\ a.t # "OPEN"
      BY DEF Before
    <2>1. ~Solid(p, a)
      BY <1>8
    <2>2. a.t # "OPEN"
      BY <1>5, <1>8 DEF Asked
    <2> QED  BY <2>1, <2>2 DEF Solid
  <1>31. Settled(ch, N, n)
    BY <1>5, <1>11, <1>13, <1>14, <1>15, <1>16, <1>17, <1>18, <1>19, <1>20 DEF Settled
  <1> QED  BY <1>30, <1>31 DEF p

\* Keepalive requests, and the global one with its answer, concern no channel.
LEMMA NoiseSettled ==
    ASSUME NEW ch \in Tables, NEW ml \in Mails, NEW N \in Mails, NEW n \in Nat,
           NEW e \in Endpoint, NEW h \in Message, Settled(ch, ml, n),
           h.t \in {"KEEPALIVE", "GLOBAL", "REQFAIL"}, h.t = "KEEPALIVE" => h.inst <= n,
           N[e] = ml[e] \cup {h}, N[Peer(e)] = ml[Peer(e)]
    PROVE  Settled(ch, N, n) /\ \A a \in ml[e] : Before(e, a, h)
  <1> DEFINE p == Peer(e)
  <1>1. /\ p \in Endpoint /\ p # e /\ Peer(p) = e /\ p = Peer(e) /\ \A q \in Endpoint : q = e \/ q = p
    BY Peers
  <1>5. /\ Unique(ch) /\ Named(ch, ml, n) /\ Untouched(ch) /\ Addressed(ch, ml) /\ Announced(ch, ml)
        /\ Linked(ch, ml) /\ Unanswered(ch, ml) /\ Marked(ch, ml)
        /\ Asked(ch, ml) /\ Confirming(ch, ml) /\ Finished(ch, ml)
    BY DEF Settled
  <1>6. /\ ~Real(h)
        /\ h.t \in MsgTypes => h.inst <= n
        /\ h.t \notin {"OPEN", "CONFIRM", "OPENFAIL", "CLOSE", "EOF", "EXT"}
    BY DEF Real, MsgTypes
  <1>22. \A q \in Endpoint : \A m \in N[q] : m \in ml[q] \/ m = h
    BY <1>1
  <1>23. \A q \in Endpoint : ml[q] \subseteq N[q]
    BY <1>1
  <1> HIDE DEF p
  <1> USE <1>1
  <1>24. \A q \in Endpoint : \A m \in N[q] : Solid(q, m) => m \in ml[q]
    BY <1>6, <1>22 DEF Solid
  <1>11. Named(ch, N, n)
    BY <1>5, <1>6, <1>22 DEF Named
  <1>13. Addressed(ch, N)
    BY <1>5, <1>24 DEF Addressed
  <1>14. Announced(ch, N)
    BY <1>5, <1>23, <1>24 DEF Announced
  <1>15. Unanswered(ch, N)
    BY <1>5, <1>24 DEF Unanswered
  <1>16. Marked(ch, N)
    BY <1>5, <1>6, <1>22 DEF Marked
  <1>17. Asked(ch, N)
    BY <1>5, <1>6, <1>22, <1>24 DEF Asked
  <1>18. Confirming(ch, N)
    BY <1>5, <1>6, <1>22 DEF Confirming
  <1>19. Finished(ch, N)
    BY <1>5, <1>6, <1>22 DEF Finished
  <1>20. Linked(ch, N)
    BY <1>5, <1>23 DEF Linked, Link
  <1>30. \A a \in ml[e] : Before(e, a, h)
    BY <1>6 DEF Before
  <1>31. Settled(ch, N, n)
    BY <1>5, <1>11, <1>13, <1>14, <1>15, <1>16, <1>17, <1>18, <1>19, <1>20 DEF Settled
  <1> QED  BY <1>30, <1>31

----------------------------------------------------------------------------
(* The wires.                                                              *)

\* The wires, and what is on them.
Of(s) == {s[j] : j \in DOMAIN s}
Wires == [Endpoint -> Seq(Message)]
Box(w) == [q \in Endpoint |-> Of(w[q])]

\* The tables and the messages under way fit, and nothing is out of order.
Lawful(ch, w, n) == Settled(ch, Box(w), n) /\ \A q \in Endpoint : InOrder(q, w[q])

\* The first message and the rest.
LEMMA TailFacts ==
    ASSUME NEW s \in Seq(Message), s # <<>>, NEW e, InOrder(e, s)
    PROVE  /\ Tail(s) \in Seq(Message) /\ Head(s) \in Of(s) /\ Head(s) \in Message
           /\ Of(Tail(s)) \subseteq Of(s) /\ Of(s) \subseteq Of(Tail(s)) \cup {Head(s)}
           /\ InOrder(e, Tail(s)) /\ \A b \in Of(Tail(s)) : Before(e, Head(s), b)
  <1>1. /\ Len(s) \in Nat \ {0} /\ DOMAIN s = 1 .. Len(s) /\ Head(s) = s[1] /\ Head(s) \in Message
        /\ Tail(s) \in Seq(Message) /\ DOMAIN Tail(s) = 1 .. Len(s) - 1
        /\ \A j \in 1 .. Len(s) - 1 : Tail(s)[j] = s[j + 1]
    OBVIOUS
  <1> DEFINE t == Tail(s)
  <1> HIDE DEF t
  <1>2. /\ Len(s) \in Nat \ {0} /\ DOMAIN s = 1 .. Len(s) /\ Head(s) = s[1]
        /\ DOMAIN t = 1 .. Len(s) - 1 /\ \A j \in 1 .. Len(s) - 1 : t[j] = s[j + 1] /\ j + 1 \in 1 .. Len(s)
    BY <1>1 DEF t
  <1>3. Head(s) \in Of(s)
    BY <1>2 DEF Of
  <1>4. Of(t) \subseteq Of(s)
    BY <1>2 DEF Of
  <1>5. Of(s) \subseteq Of(t) \cup {Head(s)}
    <2> SUFFICES ASSUME NEW j \in DOMAIN s, s[j] # s[1]
                 PROVE  s[j] \in Of(t)
      BY <1>2 DEF Of
    <2>1. j - 1 \in DOMAIN t /\ t[j - 1] = s[(j - 1) + 1] /\ (j - 1) + 1 = j
      BY <1>2
    <2> QED  BY <2>1 DEF Of
  <1>6. InOrder(e, t)
    <2> SUFFICES ASSUME NEW j \in DOMAIN t, NEW l \in DOMAIN t, j < l
                 PROVE  Before(e, t[j], t[l])
      BY DEF InOrder
    <2>1. j + 1 \in DOMAIN s /\ l + 1 \in DOMAIN s /\ j + 1 < l + 1
      BY <1>2
    <2> QED  BY <1>2, <2>1 DEF InOrder
  <1>7. \A b \in Of(t) : Before(e, Head(s), b)
    <2> SUFFICES ASSUME NEW l \in DOMAIN t
                 PROVE  Before(e, s[1], t[l])
      BY <1>2 DEF Of
    <2>1. 1 \in DOMAIN s /\ l + 1 \in DOMAIN s /\ 1 < l + 1
      BY <1>2
    <2> QED  BY <1>2, <2>1 DEF InOrder
  <1> QED  BY <1>1, <1>3, <1>4, <1>5, <1>6, <1>7 DEF t

\* Messages are added at the end.
LEMMA ConcatFacts ==
    ASSUME NEW s \in Seq(Message), NEW t \in Seq(Message), NEW e
    PROVE  /\ s \o t \in Seq(Message) /\ Of(s \o t) = Of(s) \cup Of(t)
           /\ /\ InOrder(e, s) /\ InOrder(e, t)
              /\ \A a \in Of(s), b \in Of(t) : Before(e, a, b)
              => InOrder(e, s \o t)
  <1> DEFINE u == s \o t
  <1>1. /\ u \in Seq(Message) /\ Len(s) \in Nat /\ Len(t) \in Nat
        /\ DOMAIN u = 1 .. Len(s) + Len(t) /\ DOMAIN s = 1 .. Len(s) /\ DOMAIN t = 1 .. Len(t)
        /\ \A j \in 1 .. Len(s) + Len(t) : u[j] = IF j <= Len(s) THEN s[j] ELSE t[j - Len(s)]
    OBVIOUS
  <1> HIDE DEF u
  <1>2. \A j \in DOMAIN s : j \in DOMAIN u /\ u[j] = s[j]
    BY <1>1
  <1>3. \A j \in DOMAIN t : j + Len(s) \in DOMAIN u /\ u[j + Len(s)] = t[j]
    <2> SUFFICES ASSUME NEW j \in DOMAIN t
                 PROVE  j + Len(s) \in DOMAIN u /\ u[j + Len(s)] = t[j]
      OBVIOUS
    <2>1. j + Len(s) \in DOMAIN u /\ ~(j + Len(s) <= Len(s)) /\ (j + Len(s)) - Len(s) = j
      BY <1>1
    <2> QED  BY <1>1, <2>1
  <1>4. \A j \in DOMAIN u : \/ j \in DOMAIN s /\ u[j] = s[j]
                            \/ j - Len(s) \in DOMAIN t /\ u[j] = t[j - Len(s)] /\ j > Len(s)
    BY <1>1
  <1>5. Of(u) = Of(s) \cup Of(t)
    BY <1>2, <1>3, <1>4 DEF Of
  <1>6. ASSUME InOrder(e, s), InOrder(e, t), \A a \in Of(s), b \in Of(t) : Before(e, a, b)
        PROVE  InOrder(e, u)
    <2> SUFFICES ASSUME NEW j \in DOMAIN u, NEW l \in DOMAIN u, j < l
                 PROVE  Before(e, u[j], u[l])
      BY DEF InOrder
    <2>1. CASE l \in DOMAIN s /\ u[l] = s[l]
      <3>1. j \in DOMAIN s /\ u[j] = s[j]
        BY <1>1, <2>1
      <3> QED  BY <1>6, <2>1, <3>1 DEF InOrder
    <2>2. CASE l - Len(s) \in DOMAIN t /\ u[l] = t[l - Len(s)]
      <3>1. CASE j \in DOMAIN s /\ u[j] = s[j]
        BY <1>6, <2>2, <3>1 DEF Of
      <3>2. CASE j - Len(s) \in DOMAIN t /\ u[j] = t[j - Len(s)]
        <4>1. j - Len(s) < l - Len(s)
          BY <1>1
        <4> QED  BY <1>6, <2>2, <3>2, <4>1 DEF InOrder
      <3> QED  BY <1>4, <3>1, <3>2
    <2> QED  BY <1>4, <2>1, <2>2
  <1> QED  BY <1>1, <1>5, <1>6 DEF u

\* Messages are put on the wire to e, the first is taken, and each wire is in order.
Push(w, e, out) == [w EXCEPT ![e] = @ \o out]
Pop(w, e) == [w EXCEPT ![e] = Tail(@)]
Ordered(w) == \A q \in Endpoint : InOrder(q, w[q])

\* What is on the wires are messages.
LEMMA BoxFacts ==
    ASSUME NEW w \in Wires
    PROVE  Box(w) \in Mails /\ \A q \in Endpoint : Box(w)[q] = Of(w[q])
  <1>1. \A q \in Endpoint : Of(w[q]) \in SUBSET Message
    BY DEF Wires, Of
  <1> QED  BY <1>1 DEF Box, Mails

\* Messages are sent to e.
LEMMA PushFacts ==
    ASSUME NEW w \in Wires, NEW e \in Endpoint, NEW out \in Seq(Message)
    PROVE  /\ Push(w, e, out) \in Wires /\ Box(Push(w, e, out)) \in Mails
           /\ Of(out) \in SUBSET Message
           /\ Box(Push(w, e, out))[e] = Box(w)[e] \cup Of(out)
           /\ Box(Push(w, e, out))[Peer(e)] = Box(w)[Peer(e)]
           /\ Box(Push(w, e, out)) = Deliver(Box(w), e, Of(out))
           /\ /\ Ordered(w) /\ InOrder(e, out)
              /\ \A a \in Box(w)[e], b \in Of(out) : Before(e, a, b)
              => Ordered(Push(w, e, out))
  <1> DEFINE s == w[e]
             u == s \o out
             w1 == Push(w, e, out)
  <1>1. s \in Seq(Message) /\ Peer(e) \in Endpoint /\ Peer(e) # e
    BY Peers DEF Wires
  <1>2. /\ u \in Seq(Message) /\ Of(u) = Of(s) \cup Of(out)
        /\ /\ InOrder(e, s) /\ InOrder(e, out)
           /\ \A a \in Of(s), b \in Of(out) : Before(e, a, b)
           => InOrder(e, u)
    BY <1>1, ConcatFacts
  <1> HIDE DEF u
  <1>3. w1 \in Wires /\ w1[e] = u /\ \A q \in Endpoint : q # e => w1[q] = w[q]
    BY <1>2 DEF Push, Wires, u
  <1> HIDE DEF w1
  <1>4. /\ Box(w) \in Mails /\ \A q \in Endpoint : Box(w)[q] = Of(w[q])
        /\ Box(w1) \in Mails /\ \A q \in Endpoint : Box(w1)[q] = Of(w1[q])
    BY <1>3, BoxFacts
  <1>5. Of(out) \in SUBSET Message
    BY DEF Of
  <1>6. Box(w1) = Deliver(Box(w), e, Of(out))
    <2> DEFINE D == Deliver(Box(w), e, Of(out))
    <2>1. D \in Mails /\ D[e] = Box(w)[e] \cup Of(out) /\ D[Peer(e)] = Box(w)[Peer(e)]
      BY <1>4, <1>5, DeliverFacts
    <2> HIDE DEF D
    <2>4. \A q \in Endpoint : q = e \/ q = Peer(e)
      BY Peers
    <2>2. \A q \in Endpoint : Box(w1)[q] = D[q]
      BY <1>1, <1>2, <1>3, <1>4, <2>1, <2>4
    <2>3. Box(w1) = D
      BY <1>4, <2>1, <2>2 DEF Mails
    <2> QED  BY <2>3 DEF D
  <1>7. ASSUME Ordered(w), InOrder(e, out), \A a \in Box(w)[e], b \in Of(out) : Before(e, a, b)
        PROVE  Ordered(w1)
    <2>1. InOrder(e, u)
      BY <1>2, <1>4, <1>7 DEF Ordered
    <2> QED  BY <1>3, <1>7, <2>1 DEF Ordered
  <1> QED  BY <1>1, <1>2, <1>3, <1>4, <1>5, <1>6, <1>7 DEF w1

\* The first message for e is taken.
LEMMA PopFacts ==
    ASSUME NEW w \in Wires, NEW e \in Endpoint, w[e] # <<>>, Ordered(w)
    PROVE  /\ Pop(w, e) \in Wires /\ Box(Pop(w, e)) \in Mails /\ Ordered(Pop(w, e))
           /\ Head(w[e]) \in Message /\ Head(w[e]) \in Box(w)[e]
           /\ Box(Pop(w, e))[e] \subseteq Box(w)[e]
           /\ Box(w)[e] \subseteq Box(Pop(w, e))[e] \cup {Head(w[e])}
           /\ Box(Pop(w, e))[Peer(e)] = Box(w)[Peer(e)]
           /\ \A b \in Box(Pop(w, e))[e] : Before(e, Head(w[e]), b)
  <1> DEFINE s == w[e]
             t == Tail(s)
             w1 == Pop(w, e)
  <1>1. s \in Seq(Message) /\ InOrder(e, s) /\ Peer(e) \in Endpoint /\ Peer(e) # e
    BY Peers DEF Wires, Ordered
  <1>2. /\ t \in Seq(Message) /\ Head(s) \in Of(s) /\ Head(s) \in Message
        /\ Of(t) \subseteq Of(s) /\ Of(s) \subseteq Of(t) \cup {Head(s)}
        /\ InOrder(e, t) /\ \A b \in Of(t) : Before(e, Head(s), b)
    BY <1>1, TailFacts
  <1> HIDE DEF t
  <1>3. w1 \in Wires /\ w1[e] = t /\ \A q \in Endpoint : q # e => w1[q] = w[q]
    BY <1>2 DEF Pop, Wires, t
  <1> HIDE DEF w1
  <1>4. /\ Box(w) \in Mails /\ \A q \in Endpoint : Box(w)[q] = Of(w[q])
        /\ Box(w1) \in Mails /\ \A q \in Endpoint : Box(w1)[q] = Of(w1[q])
    BY <1>3, BoxFacts
  <1>5. Ordered(w1)
    BY <1>2, <1>3 DEF Ordered
  <1> QED  BY <1>1, <1>2, <1>3, <1>4, <1>5 DEF w1

\* A message that is not a confirmation is taken.
LEMMA PopLawful ==
    ASSUME NEW ch \in Tables, NEW w \in Wires, NEW n \in Nat, NEW e \in Endpoint,
           w[e] # <<>>, Lawful(ch, w, n), Head(w[e]).t # "CONFIRM"
    PROVE  Lawful(ch, Pop(w, e), n)
  <1> DEFINE w1 == Pop(w, e)
             h == Head(w[e])
  <1>1. Ordered(w) /\ Settled(ch, Box(w), n) /\ Box(w) \in Mails
    BY BoxFacts DEF Lawful, Ordered
  <1>2. /\ w1 \in Wires /\ Box(w1) \in Mails /\ Ordered(w1) /\ h \in Box(w)[e]
        /\ Box(w1)[e] \subseteq Box(w)[e] /\ Box(w)[e] \subseteq Box(w1)[e] \cup {h}
        /\ Box(w1)[Peer(e)] = Box(w)[Peer(e)]
        /\ \A b \in Box(w1)[e] : Before(e, h, b)
    BY <1>1, PopFacts
  <1>3. h.t # "CONFIRM"
    OBVIOUS
  <1> HIDE DEF w1, h
  <1>4. h.t = "OPENFAIL" => \A m \in Box(w1)[e] : Solid(e, m) => m.inst # h.inst
    BY <1>2 DEF Before, Solid, Real, MsgTypes
  <1>5. Settled(ch, Box(w1), n)
    <2>1. \A a \in Box(w)[e] \ Box(w1)[e] :
              /\ a.t # "CONFIRM"
              /\ a.t = "OPENFAIL" => \A m \in Box(w1)[e] : Solid(e, m) => m.inst # a.inst
      BY <1>2, <1>3, <1>4
    <2> QED  BY <1>1, <1>2, <2>1, DropSettled
  <1> QED  BY <1>2, <1>5 DEF Lawful, Ordered, w1

\* The channel a message is about, when it is taken.
LEMMA HeadLive ==
    ASSUME NEW ch \in Tables, NEW w \in Wires, NEW n \in Nat, NEW e \in Endpoint,
           w[e] # <<>>, Lawful(ch, w, n), Solid(e, Head(w[e]))
    PROVE  LET h == Head(w[e])
               c == ch[e][h.id]
           IN  /\ h.id \in Slots /\ c.inst = h.inst /\ c.type \in Reachable /\ ~Has(c, "CLOSE_RCVD")
               /\ h.t \in Answers => c.type = "OPENING"
               /\ h.t \notin Answers => c.type \in {"LARVAL", "OPEN"}
  <1> DEFINE h == Head(w[e])
             c == ch[e][h.id]
             ml == Box(w)
             w1 == Pop(w, e)
             p == Peer(e)
  <1>1. Ordered(w) /\ Settled(ch, ml, n) /\ ml \in Mails /\ Solid(e, h)
    BY BoxFacts DEF Lawful, Ordered
  <1>2. /\ h \in ml[e] /\ ml[e] \subseteq Box(w1)[e] \cup {h}
        /\ \A b \in Box(w1)[e] : Before(e, h, b)
    BY <1>1, PopFacts
  <1> HIDE DEF h, ml, w1
  <1>3. /\ h.id \in Slots /\ c.inst = h.inst /\ c.type \in Reachable /\ ~Has(c, "CLOSE_RCVD")
        /\ h.t \in Answers => c.type = "OPENING"
    BY <1>1, <1>2 DEF Settled, Addressed
  <1>4. ASSUME h.t \notin Answers
        PROVE  c.type # "OPENING"
    <2> SUFFICES ASSUME c.type = "OPENING"
                 PROVE  FALSE
      OBVIOUS
    <2>1. PICK a \in ml[e] : a.t \in Answers /\ a.inst = h.inst
      BY <1>1, <1>2 DEF Settled, Announced
    <2>2. a \in Box(w1)[e] /\ Real(a)
      BY <1>2, <1>4, <2>1 DEF Answers, Real, MsgTypes
    <2>3. Before(e, h, a)
      BY <1>2, <2>2
    <2> QED  BY <1>1, <2>1, <2>2, <2>3 DEF Before, Solid
  <1>5. c.type # "CONNECTING"
    <2> SUFFICES ASSUME c.type = "CONNECTING"
                 PROVE  FALSE
      OBVIOUS
    <2>1. ~Has(c, "CLOSE_SENT")
      BY <1>1, <1>3 DEF Settled, Untouched, Pending, Has
    <2>2. Link(ch, ml, e, h.id)
      BY <1>1, <1>3, <2>1 DEF Settled, Linked, Talks
    <2>3. c.remote_id \in Slots /\ ch[p][c.remote_id].inst = c.inst /\ ch[p][c.remote_id].type = "OPENING"
      BY <2>2 DEF Link
    <2>4. p \in Endpoint /\ Peer(p) = e
      BY Peers
    <2> QED  BY <1>1, <1>2, <1>3, <2>3, <2>4 DEF Settled, Unanswered, Pending
  <1> QED  BY <1>3, <1>4, <1>5 DEF Reachable, h

\* A channel moves and its messages are sent.
LEMMA MoveLawful ==
    ASSUME NEW ch \in Tables, NEW w \in Wires, NEW n \in Nat, NEW p \in Endpoint, NEW i \in Slots,
           NEW d, NEW out \in Seq(Message), Lawful(ch, w, n), InOrder(Peer(p), out),
           Moves(ch, Box(w), p, i, d, Of(out))
    PROVE  Lawful(Put(ch, p, i, d), Push(w, Peer(p), out), n)
  <1> DEFINE e == Peer(p)
             w1 == Push(w, e, out)
  <1>1. Ordered(w) /\ Settled(ch, Box(w), n) /\ Box(w) \in Mails /\ e \in Endpoint
    BY BoxFacts, Peers DEF Lawful, Ordered
  <1>2. /\ Settled(Put(ch, p, i, d), Deliver(Box(w), e, Of(out)), n)
        /\ \A a \in Box(w)[e], b \in Of(out) : Before(e, a, b)
    BY <1>1, MoveSettled
  <1>3. Box(w1) = Deliver(Box(w), e, Of(out)) /\ Ordered(w1)
    BY <1>1, <1>2, PushFacts
  <1> QED  BY <1>2, <1>3 DEF Lawful, Ordered

----------------------------------------------------------------------------
(* What the operators on a channel do to it and what they send.            *)

\* A message that a channel that was c may have sent by the time it is d.
Ours(c, d, m) ==
    /\ m.t \in MsgTypes \ {"OPEN", "CONFIRM", "OPENFAIL", "KEEPALIVE"}
    /\ m.inst = c.inst /\ m.id = c.remote_id /\ ~Has(c, "CLOSE_SENT")
    /\ m.t = "CLOSE" => Has(d, "CLOSE_SENT")
    /\ m.t = "EOF" => Has(d, "EOF_SENT")
    /\ m.t = "EXT" => ~Has(c, "EOF_SENT")
\* What a channel may send after a.
Follows(a, b) == a.t # "CLOSE" /\ (a.t = "EOF" => b.t # "EXT")

\* A step that began with channel c has come to the context k, and may have set
\* the flags of R that only a message sets.
Tame(c, k, R) ==
    /\ k.c.inst = c.inst /\ k.c.remote_id = c.remote_id
    /\ k.c.type = c.type \/ (c.type = "LARVAL" /\ k.c.type = "OPEN")
    /\ k.c.type # "OPEN" => k.c.pid = c.pid
    /\ c.flags \subseteq k.c.flags
    /\ k.c.flags \subseteq c.flags \cup {"CLOSE_SENT", "EOF_SENT"} \cup R
    /\ \A j \in DOMAIN k.out : Ours(c, k.c, k.out[j])
    /\ \A j, l \in DOMAIN k.out : j < l => Follows(k.out[j], k.out[l])

\* Nothing a peer could notice has changed.
Alike(k, z) ==
    /\ z.out = k.out /\ z.c.inst = k.c.inst /\ z.c.remote_id = k.c.remote_id
    /\ z.c.type = k.c.type /\ z.c.pid = k.c.pid /\ z.c.flags = k.c.flags

\* Nothing has happened yet.
LEMMA TameStart ==
    ASSUME NEW k, k.out = <<>>, NEW R
    PROVE  Tame(k.c, k, R)
  <1>1. DOMAIN k.out = {}
    OBVIOUS
  <1> QED  BY <1>1 DEF Tame

\* A step nobody notices.
LEMMA TameStill ==
    ASSUME NEW c, NEW k, NEW R, NEW z, Tame(c, k, R), Alike(k, z)
    PROVE  Tame(c, z, R)
  BY DEF Tame, Alike, Ours, Has

\* Two steps nobody notices.
LEMMA AlikeTrans ==
    ASSUME NEW k, NEW y, NEW z, Alike(k, y), Alike(y, z)
    PROVE  Alike(k, z)
  BY DEF Alike

\* One more message is sent.
LEMMA TameAppend ==
    ASSUME NEW c, NEW k \in Context, NEW R, NEW z, NEW m \in Message, Tame(c, k, R),
           z.out = Append(k.out, m), z.c.inst = k.c.inst, z.c.remote_id = k.c.remote_id,
           z.c.type = k.c.type, z.c.pid = k.c.pid,
           k.c.flags \subseteq z.c.flags, z.c.flags \subseteq k.c.flags \cup {"CLOSE_SENT", "EOF_SENT"},
           ~Has(k.c, "CLOSE_SENT"),
           m.t \in MsgTypes \ {"OPEN", "CONFIRM", "OPENFAIL", "KEEPALIVE"},
           m.inst = k.c.inst, m.id = k.c.remote_id,
           m.t = "CLOSE" => Has(z.c, "CLOSE_SENT"), m.t = "EOF" => Has(z.c, "EOF_SENT"),
           m.t = "EXT" => ~Has(k.c, "EOF_SENT")
    PROVE  Tame(c, z, R)
  <1>1. k.out \in Seq(Message)
    BY DEF Context
  <1> DEFINE s == k.out
             t == Append(s, m)
  <1>2. /\ Len(s) \in Nat /\ DOMAIN s = 1 .. Len(s) /\ DOMAIN t = 1 .. Len(s) + 1
        /\ t[Len(s) + 1] = m /\ \A j \in 1 .. Len(s) : t[j] = s[j]
    BY <1>1
  <1>3. z.out = t
    OBVIOUS
  <1> HIDE DEF t, s
  <1>4. /\ \A j \in DOMAIN s : Ours(c, k.c, s[j])
        /\ \A j, l \in DOMAIN s : j < l => Follows(s[j], s[l])
        /\ k.c.inst = c.inst /\ k.c.remote_id = c.remote_id
        /\ k.c.type = c.type \/ (c.type = "LARVAL" /\ k.c.type = "OPEN")
        /\ k.c.type # "OPEN" => k.c.pid = c.pid
        /\ c.flags \subseteq k.c.flags
        /\ k.c.flags \subseteq c.flags \cup {"CLOSE_SENT", "EOF_SENT"} \cup R
    BY DEF Tame, s
  <1>5. Ours(c, z.c, m)
    BY <1>4 DEF Ours, Has
  <1>6. \A j \in DOMAIN s : Ours(c, z.c, s[j]) /\ Follows(s[j], m)
    BY <1>4 DEF Ours, Has, Follows
  <1>7. \A j \in DOMAIN t : Ours(c, z.c, t[j])
    BY <1>2, <1>5, <1>6
  <1>8. \A j, l \in DOMAIN t : j < l => Follows(t[j], t[l])
    <2> SUFFICES ASSUME NEW j \in DOMAIN t, NEW l \in DOMAIN t, j < l
                 PROVE  Follows(t[j], t[l])
      OBVIOUS
    <2>1. j \in DOMAIN s /\ t[j] = s[j] /\ (l \in DOMAIN s \/ l = Len(s) + 1)
      BY <1>2
    <2> QED  BY <1>2, <1>4, <1>6, <2>1
  <1> QED  BY <1>3, <1>4, <1>7, <1>8 DEF Tame

\* A message about the channel, with a flag set after it or none.
LEMMA TameSend ==
    ASSUME NEW c, NEW k \in Context, NEW R, NEW t \in MsgTypes \ {"OPEN", "CONFIRM", "OPENFAIL", "KEEPALIVE"},
           NEW n \in Nat, Tame(c, k, R), ~Has(k.c, "CLOSE_SENT"), t \notin {"CLOSE", "EOF"},
           t = "EXT" => ~Has(k.c, "EOF_SENT")
    PROVE  Tame(c, Send(k, t, n), R)
  <1> DEFINE m == Msg(t, k.c, n)
             z == Send(k, t, n)
  <1>1. m \in Message /\ m.t = t /\ m.inst = k.c.inst /\ m.id = k.c.remote_id
    BY DEF Context, Channel, Message, ChannelMessage, Msg
  <1>2. z.c = k.c /\ z.out = Append(k.out, m)
    BY DEF Send, Context
  <1> HIDE DEF m, z
  <1> QED  BY <1>1, <1>2, TameAppend DEF z

\* EOF and CLOSE are sent and remembered.
LEMMA TameMark ==
    ASSUME NEW c, NEW k \in Context, NEW R, Tame(c, k, R), ~Has(k.c, "CLOSE_SENT")
    PROVE  /\ Tame(c, SetFlag(Send(k, "EOF", 0), "EOF_SENT"), R)
           /\ Tame(c, SetFlag(Send(k, "CLOSE", 0), "CLOSE_SENT"), R)
  <1>1. ASSUME NEW t \in {"EOF", "CLOSE"}, NEW f \in {"EOF_SENT", "CLOSE_SENT"},
               f = IF t = "EOF" THEN "EOF_SENT" ELSE "CLOSE_SENT"
        PROVE  Tame(c, SetFlag(Send(k, t, 0), f), R)
    <2> DEFINE m == Msg(t, k.c, 0)
               y == Send(k, t, 0)
               z == SetFlag(y, f)
    <2>1. m \in Message /\ m.t = t /\ m.inst = k.c.inst /\ m.id = k.c.remote_id
      BY DEF Context, Channel, Message, ChannelMessage, Msg, MsgTypes
    <2>2. y \in Context /\ y.c = k.c /\ y.out = Append(k.out, m)
      BY SendType DEF Send, Context, MsgTypes
    <2> HIDE DEF m, y
    <2>3. /\ z.out = y.out /\ z.c.inst = y.c.inst /\ z.c.remote_id = y.c.remote_id
          /\ z.c.type = y.c.type /\ z.c.pid = y.c.pid /\ z.c.flags = y.c.flags \cup {f}
      BY <2>2 DEF SetFlag, Context, Channel
    <2> HIDE DEF z
    <2>4. Tame(c, z, R)
      <3>1. m.t \in MsgTypes \ {"OPEN", "CONFIRM", "OPENFAIL", "KEEPALIVE"}
        BY <2>1 DEF MsgTypes
      <3> QED  BY <1>1, <2>1, <2>2, <2>3, <3>1, TameAppend DEF Has
    <2> QED  BY <2>4 DEF y, z
  <1>2. Tame(c, SetFlag(Send(k, "EOF", 0), "EOF_SENT"), R)
    BY <1>1
  <1>3. Tame(c, SetFlag(Send(k, "CLOSE", 0), "CLOSE_SENT"), R)
    BY <1>1
  <1> QED  BY <1>2, <1>3

\* A flag of R is set.
LEMMA TameFlag ==
    ASSUME NEW c, NEW k \in Context, NEW R, NEW f \in R, Tame(c, k, R)
    PROVE  Tame(c, SetFlag(k, f), R)
  <1> DEFINE z == SetFlag(k, f)
  <1>1. /\ z.out = k.out /\ z.c.inst = k.c.inst /\ z.c.remote_id = k.c.remote_id
        /\ z.c.type = k.c.type /\ z.c.pid = k.c.pid /\ z.c.flags = k.c.flags \cup {f}
    BY DEF SetFlag, Context, Channel
  <1> HIDE DEF z
  <1>2. Tame(c, z, R)
    BY <1>1 DEF Tame, Ours, Has
  <1> QED  BY <1>2 DEF z

\* The half states concern one end only.
LEMMA HalvesAlike ==
    ASSUME NEW k \in Context, NEW s \in HalfStates
    PROVE  /\ Alike(k, k) /\ Alike(k, SetIstate(k, s)) /\ Alike(k, SetOstate(k, s))
           /\ Alike(k, chan_shutdown_write(k))
  <1>1. Alike(k, SetIstate(k, s))
    BY DEF Context, Channel, SetIstate, Alike
  <1>2. Alike(k, SetOstate(k, s))
    BY DEF Context, Channel, SetOstate, Alike
  <1>3. Alike(k, chan_shutdown_write(k))
    BY DEF Context, Channel, chan_shutdown_write, Alike
  <1> QED  BY <1>1, <1>2, <1>3 DEF Alike

\* The local reader is done, or the peer does not want more.
LEMMA ReadEndAlike ==
    ASSUME NEW k \in Context
    PROVE  Alike(k, chan_read_failed(k)) /\ Alike(k, chan_rcvd_eow(k)) /\ Alike(k, chan_obuf_empty(k))
  <1>1. Alike(k, k) /\ Alike(k, SetIstate(k, "WAIT_DRAIN")) /\ Alike(k, SetIstate(k, "CLOSED"))
    BY HalvesAlike DEF HalfStates
  <1> DEFINE k1 == chan_shutdown_write(k)
  <1>2. k1 \in Context /\ Alike(k, k1)
    BY ShutdownFrame, HalvesAlike DEF HalfStates
  <1>3. chan_obuf_empty(k) \in {k, SetOstate(k1, "CLOSED")}
    BY DEF chan_obuf_empty
  <1> HIDE DEF k1
  <1>4. Alike(k1, SetOstate(k1, "CLOSED"))
    BY <1>2, HalvesAlike DEF HalfStates
  <1>5. Alike(k, SetOstate(k1, "CLOSED"))
    BY <1>2, <1>4, AlikeTrans
  <1>6. Alike(k, chan_obuf_empty(k))
    BY <1>1, <1>3, <1>5
  <1> QED  BY <1>1, <1>6 DEF chan_read_failed, chan_rcvd_eow

\* chan_send_eof2().
LEMMA SendEofTame ==
    ASSUME NEW c, NEW k \in Context, NEW R, Tame(c, k, R), ~Has(k.c, "CLOSE_SENT")
    PROVE  Tame(c, chan_send_eof2(k), R)
  BY TameMark DEF chan_send_eof2

\* chan_ibuf_empty() sends EOF at most.
LEMMA IbufEmptyTame ==
    ASSUME NEW c, NEW k \in Context, NEW R, Tame(c, k, R)
    PROVE  /\ Tame(c, chan_ibuf_empty(k), R)
           /\ Has(chan_ibuf_empty(k).c, "CLOSE_SENT") => Has(k.c, "CLOSE_SENT")
  <1> DEFINE k1 == IF Has(k.c, "CLOSE_SENT") THEN k ELSE chan_send_eof2(k)
  <1>1. k1 \in Context /\ Tame(c, k1, R) /\ (Has(k1.c, "CLOSE_SENT") => Has(k.c, "CLOSE_SENT"))
    BY SendEofTame, SendEofFrame DEF Has
  <1>2. chan_ibuf_empty(k) \in {k, SetIstate(k1, "CLOSED")}
    BY DEF chan_ibuf_empty
  <1> HIDE DEF k1
  <1>3. Alike(k1, SetIstate(k1, "CLOSED"))
    BY <1>1, HalvesAlike DEF HalfStates
  <1>4. Tame(c, SetIstate(k1, "CLOSED"), R)
    BY <1>1, <1>3, TameStill
  <1> QED  BY <1>1, <1>2, <1>3, <1>4 DEF Alike, Has

\* The peer's CLOSE.
LEMMA RcvdCloseTame ==
    ASSUME NEW c, NEW k \in Good, Tame(c, k, {"CLOSE_RCVD"})
    PROVE  Tame(c, chan_rcvd_close2(k), {"CLOSE_RCVD"})
  <1> DEFINE R == {"CLOSE_RCVD"}
             k1 == SetFlag(k, "CLOSE_RCVD")
             k2 == IF k1.c.ostate = "OPEN" THEN SetOstate(k1, "WAIT_DRAIN") ELSE k1
             k3 == IF k2.c.istate = "WAIT_DRAIN" THEN chan_send_eof2(k2) ELSE k2
             k4 == SetIstate(k3, "CLOSED")
             l2 == SetOstate(k1, "CLOSED")
             l3 == SetIstate(l2, "CLOSED")
  <1>1. k \in Context /\ HalfInv(k.c)
    BY DEF Good, ChanInv
  <1>2. /\ k1 \in Context /\ k1.c.flags = k.c.flags \cup {"CLOSE_RCVD"} /\ k1.c.istate = k.c.istate
        /\ Tame(c, k1, R)
    BY <1>1, SetFlagFrame, TameFlag DEF Flags
  <1> HIDE DEF k1, R
  <1>3. k2 \in Context /\ Alike(k1, k2) /\ k2.c.istate = k1.c.istate
    BY <1>2, SetOstateFrame, HalvesAlike DEF HalfStates
  <1>4. Tame(c, k2, R) /\ k2.c.flags = k1.c.flags
    BY <1>2, <1>3, TameStill DEF Alike
  <1> HIDE DEF k2
  <1>5. k3 \in Context /\ Tame(c, k3, R)
    <2>1. k2.c.istate = "WAIT_DRAIN" => ~Has(k2.c, "CLOSE_SENT")
      BY <1>1, <1>2, <1>3, <1>4 DEF HalfInv, Has, BothClosed
    <2> QED  BY <1>3, <1>4, <2>1, SendEofFrame, SendEofTame
  <1> HIDE DEF k3
  <1>6. Tame(c, k4, R)
    BY <1>5, HalvesAlike, TameStill DEF HalfStates
  <1>7. l2 \in Context /\ Alike(k1, l2)
    BY <1>2, SetOstateFrame, HalvesAlike DEF HalfStates
  <1>8. Tame(c, l2, R)
    BY <1>2, <1>7, TameStill
  <1> HIDE DEF l2
  <1>9. Tame(c, l3, R)
    BY <1>7, <1>8, HalvesAlike, TameStill DEF HalfStates
  <1>10. chan_rcvd_close2(k) \in {k4, l3}
    BY DEF chan_rcvd_close2, k1, k2, k3, k4, l2, l3
  <1> HIDE DEF k4, l3
  <1> QED  BY <1>6, <1>9, <1>10 DEF R

\* The peer's EOF.
LEMMA RcvdIeofTame ==
    ASSUME NEW c, NEW k \in Good, Tame(c, k, {"EOF_RCVD"})
    PROVE  Tame(c, chan_rcvd_ieof(k), {"EOF_RCVD"})
  <1> DEFINE R == {"EOF_RCVD"}
             k1 == SetFlag(k, "EOF_RCVD")
             k2 == chan_rcvd_eof2(k)
  <1>1. k \in Context /\ k2 \in Context
    BY RcvdEof DEF Good
  <1>2. k1 \in Context /\ Tame(c, k1, R)
    BY <1>1, SetFlagFrame, TameFlag DEF Flags
  <1>3. k2 \in {k1, SetOstate(k1, "WAIT_DRAIN")}
    BY DEF chan_rcvd_eof2
  <1> HIDE DEF k1, R
  <1>4. Tame(c, k2, R)
    <2>1. Tame(c, SetOstate(k1, "WAIT_DRAIN"), R)
      BY <1>2, HalvesAlike, TameStill DEF HalfStates
    <2> QED  BY <1>2, <1>3, <2>1
  <1>5. chan_rcvd_ieof(k) \in {k2, chan_obuf_empty(k2)}
    BY DEF chan_rcvd_ieof
  <1> HIDE DEF k2
  <1>6. Tame(c, chan_obuf_empty(k2), R)
    BY <1>1, <1>4, ReadEndAlike, TameStill
  <1> QED  BY <1>4, <1>5, <1>6 DEF R

\* The local writer failed.
LEMMA WriteFailedTame ==
    ASSUME NEW c, NEW k \in Good, NEW R, Tame(c, k, R)
    PROVE  Tame(c, chan_write_failed2(k), R)
  <1>1. k \in Context /\ HalfInv(k.c)
    BY DEF Good, ChanInv
  <1> DEFINE k0 == chan_shutdown_write(k)
             k1 == [k0 EXCEPT !.h.cut = TRUE]
             k2 == Send(k1, "EOW", 0)
  <1>2. k0 \in Context /\ Alike(k, k0)
    BY <1>1, ShutdownFrame, HalvesAlike DEF HalfStates
  <1> HIDE DEF k0
  <1>3. k1 \in Context /\ Alike(k0, k1)
    BY <1>2 DEF Context, History, Alike
  <1> HIDE DEF k1
  <1>4. Alike(k, k1) /\ Tame(c, k1, R)
    BY <1>2, <1>3, AlikeTrans, TameStill
  <1>5. CASE k.c.ostate \in {"OPEN", "WAIT_DRAIN"}
    <2>1. ~Has(k1.c, "CLOSE_SENT")
      BY <1>1, <1>4, <1>5 DEF HalfInv, BothClosed, Alike, Has
    <2>2. k2 \in Context /\ Tame(c, k2, R)
      BY <1>3, <1>4, <2>1, SendType, TameSend DEF MsgTypes
    <2>3. chan_write_failed2(k) \in {SetOstate(k1, "CLOSED"), SetOstate(k2, "CLOSED")}
      BY <1>5 DEF chan_write_failed2, chan_send_eow2, k1, k0
    <2> HIDE DEF k2
    <2>4. Tame(c, SetOstate(k1, "CLOSED"), R) /\ Tame(c, SetOstate(k2, "CLOSED"), R)
      BY <1>3, <1>4, <2>2, HalvesAlike, TameStill DEF HalfStates
    <2> QED  BY <2>3, <2>4
  <1>6. CASE k.c.ostate \notin {"OPEN", "WAIT_DRAIN"}
    BY <1>6 DEF chan_write_failed2
  <1> QED  BY <1>5, <1>6

\* chan_is_dead() sends the CLOSE or nothing.
LEMMA IsDeadTame ==
    ASSUME NEW c, NEW k \in Context, NEW R, NEW b \in BOOLEAN, Tame(c, k, R)
    PROVE  LET d == chan_is_dead(k, b)
           IN  /\ Tame(c, d.k, R)
               /\ k.c.type = "ZOMBIE" \/ ~BothClosed(k.c) => d.k = k
               /\ d.dead => k.c.type = "ZOMBIE" \/ (BothClosed(k.c) /\ Has(k.c, "CLOSE_RCVD"))
               /\ d.dead /\ b /\ k.c.type # "ZOMBIE" => Has(d.k.c, "CLOSE_SENT")
  <1> DEFINE d == chan_is_dead(k, b)
             k1 == chan_send_close2(k)
             sends == /\ b /\ k.c.type # "ZOMBIE"
                      /\ BothClosed(k.c) /\ ~Has(k.c, "CLOSE_SENT")
  <1>1. d.k = IF sends THEN k1 ELSE k
    BY DEF chan_is_dead
  <1>2. d.dead <=> \/ k.c.type = "ZOMBIE"
                   \/ /\ BothClosed(k.c) /\ Has(k.c, "CLOSE_RCVD")
                      /\ Has(d.k.c, "CLOSE_SENT") \/ ~b
    BY DEF chan_is_dead
  <1>3. Tame(c, k1, R)
    BY TameMark DEF chan_send_close2
  <1> HIDE DEF d, k1
  <1> QED  BY <1>1, <1>2, <1>3 DEF d

\* A channel is given up only when it is dead or both ends have sent CLOSE.
LEMMA CollectTame ==
    ASSUME NEW c, NEW k \in Good, NEW R, Tame(c, k, R)
    PROVE  LET g == channel_garbage_collect(k)
           IN  /\ Tame(c, g.k, R)
               /\ g.free => \/ k.c.type = "ZOMBIE"
                            \/ Has(g.k.c, "CLOSE_SENT") /\ Has(g.k.c, "CLOSE_RCVD")
               /\ k.c.type # "ZOMBIE" /\ ~BothClosed(k.c) => ~g.free /\ g.k = k
               /\ k.c.type = "ZOMBIE" => g.k.out = k.out
               /\ k.c.type = "ZOMBIE" /\ k.c.pid # "running" => g.free
  <1> DEFINE d  == chan_is_dead(k, k.c.detach_close)
             k1 == [d.k EXCEPT !.c = DetachUser(@)]
             g1 == chan_is_dead(k1, TRUE)
             g2 == chan_is_dead(k, TRUE)
             g == channel_garbage_collect(k)
             zombie == k.c.type = "ZOMBIE"
  <1>1. /\ k \in Context /\ HalfInv(k.c) /\ UserInv(k.c)
        /\ k.c.detach_user \in BOOLEAN /\ k.c.detach_close \in BOOLEAN
    BY DEF Good, ChanInv, Context, Channel
  <1>2. /\ d.k \in Context /\ d.k.c.istate = k.c.istate /\ d.k.c.ostate = k.c.ostate
        /\ k.c.flags \subseteq d.k.c.flags /\ SameRest(k.c, d.k.c)
    BY <1>1, IsDead
  <1>3. /\ Tame(c, d.k, R) /\ (zombie \/ ~BothClosed(k.c) => d.k = k)
        /\ d.dead => zombie \/ (BothClosed(k.c) /\ Has(k.c, "CLOSE_RCVD"))
    BY <1>1, IsDeadTame
  <1>4. CASE k.c.detach_user /\ ~d.dead
    <2>1. g = [k |-> d.k, free |-> FALSE]
      BY <1>4 DEF channel_garbage_collect
    <2>2. g.k = d.k /\ g.free = FALSE
      BY <2>1
    <2>3. ~zombie
      BY <1>4 DEF chan_is_dead
    <2> HIDE DEF d, g
    <2> QED  BY <1>3, <2>2, <2>3 DEF g
  <1>5. CASE k.c.detach_user /\ d.dead /\ d.k.c.pid = "running"
    <2>1. DetachUser(d.k.c) = d.k.c
      BY <1>5 DEF DetachUser
    <2>2. k1 = d.k /\ k1.c.detach_user
      BY <1>2, <1>5, <2>1 DEF Context, SameRest
    <2>3. g = [k |-> k1, free |-> FALSE]
      BY <1>5, <2>2 DEF channel_garbage_collect
    <2>4. g.k = d.k /\ g.free = FALSE
      BY <2>2, <2>3
    <2>5. k.c.pid = "running"
      BY <1>2, <1>5 DEF SameRest
    <2> HIDE DEF d, g
    <2> QED  BY <1>3, <1>5, <2>4, <2>5 DEF g
  <1>6. CASE k.c.detach_user /\ d.dead /\ d.k.c.pid # "running"
    <2> DEFINE c1 == [d.k.c EXCEPT !.detach_user = FALSE, !.detach_close = FALSE]
    <2>1. k1 = [d.k EXCEPT !.c = c1]
      BY <1>6 DEF DetachUser
    <2>2. d.k \in Context /\ d.k.c \in Channel
      BY <1>2 DEF Context
    <2>3. /\ c1 \in Channel /\ ~c1.detach_user /\ c1.type = d.k.c.type
          /\ c1.flags = d.k.c.flags /\ c1.istate = d.k.c.istate
          /\ c1.ostate = d.k.c.ostate /\ c1.pid = d.k.c.pid
          /\ c1.inst = d.k.c.inst /\ c1.remote_id = d.k.c.remote_id
      BY <2>2 DEF Channel
    <2> HIDE DEF c1
    <2>4. k1 \in Context /\ k1.c = c1 /\ k1.out = d.k.out
      BY <2>1, <2>2, <2>3 DEF Context
    <2>8. g.k = g1.k /\ g.free = g1.dead
      BY <1>6, <2>3, <2>4 DEF channel_garbage_collect
    <2> HIDE DEF k1, d
    <2>5. Alike(d.k, k1)
      BY <2>3, <2>4 DEF Alike
    <2>6. Tame(c, k1, R)
      BY <1>3, <2>5, TameStill
    <2>7. /\ Tame(c, g1.k, R) /\ (k1.c.type = "ZOMBIE" => g1.k = k1)
          /\ g1.dead /\ k1.c.type # "ZOMBIE" => Has(g1.k.c, "CLOSE_SENT")
      BY <2>4, <2>6, IsDeadTame
    <2>9. HalfInv(k1.c)
      <3>1. HalfInv(d.k.c)
        BY <1>1, IsDead DEF d
      <3> QED  BY <2>3, <2>4, <3>1 DEF HalfInv, Has, BothClosed
    <2>10. k1.c.flags \subseteq g1.k.c.flags /\ (k1.c.type = "ZOMBIE" => g1.dead)
      BY <2>4, <2>9, IsDead
    <2>11. k1.c.type = k.c.type /\ (Has(k.c, "CLOSE_RCVD") => Has(g1.k.c, "CLOSE_RCVD"))
      BY <1>2, <2>3, <2>4, <2>10 DEF SameRest, Has
    <2> HIDE DEF g1, g
    <2>12. Tame(c, g.k, R)
      BY <2>7, <2>8
    <2>13. zombie \/ (BothClosed(k.c) /\ Has(k.c, "CLOSE_RCVD"))
      BY <1>3, <1>6
    <2>14. g.free => zombie \/ (Has(g.k.c, "CLOSE_SENT") /\ Has(g.k.c, "CLOSE_RCVD"))
      BY <2>7, <2>8, <2>11, <2>13
    <2>15. zombie => g.k.out = k.out /\ g.free
      BY <1>3, <2>4, <2>7, <2>8, <2>10, <2>11
    <2> QED  BY <2>12, <2>13, <2>14, <2>15 DEF g
  <1>7. CASE ~k.c.detach_user
    <2>1. g.k = g2.k /\ g.free = g2.dead
      BY <1>7 DEF channel_garbage_collect
    <2>2. /\ Tame(c, g2.k, R) /\ (zombie \/ ~BothClosed(k.c) => g2.k = k)
          /\ g2.dead => zombie \/ (BothClosed(k.c) /\ Has(k.c, "CLOSE_RCVD"))
          /\ g2.dead /\ ~zombie => Has(g2.k.c, "CLOSE_SENT")
      BY <1>1, IsDeadTame
    <2>3. k.c.flags \subseteq g2.k.c.flags /\ (zombie => g2.dead)
      BY <1>1, IsDead
    <2> HIDE DEF g2, g
    <2>4. Tame(c, g.k, R)
      BY <2>1, <2>2
    <2>5. g.free => zombie \/ (Has(g.k.c, "CLOSE_SENT") /\ Has(g.k.c, "CLOSE_RCVD"))
      BY <2>1, <2>2, <2>3 DEF Has
    <2>6. ~zombie /\ ~BothClosed(k.c) => ~g.free /\ g.k = k
      BY <2>1, <2>2
    <2>7. zombie => g.k.out = k.out /\ g.free
      BY <2>1, <2>2, <2>3
    <2> QED  BY <2>4, <2>5, <2>6, <2>7 DEF g
  <1> QED  BY <1>1, <1>4, <1>5, <1>6, <1>7

\* Buffers, windows and histories concern one end only.
LEMMA DataAlike ==
    ASSUME NEW k \in Context, NEW r \in Int, NEW m \in ChannelMessage
    PROVE  /\ r >= 0 => Alike(k, channel_handle_rfd(k, r)) /\ Alike(k, channel_handle_wfd(k, r))
           /\ Alike(k, channel_handle_efd(k, r))
           /\ Alike(k, InputData(k, m)) /\ Alike(k, InputExtendedData(k, m))
           /\ Alike(k, [k EXCEPT !.c.remote_window = @ + m.n])
           /\ Alike(k, [k EXCEPT !.h.exit = TRUE])
           /\ Alike(k, [k EXCEPT !.c.confirms = @ - 1])
  <1>0. Alike(k, k)
    BY DEF Alike
  <1>1. r >= 0 => Alike(k, channel_handle_rfd(k, r))
    <2>1. Alike(k, [k EXCEPT !.c.input = @ + r, !.h.rd = @ + r])
      BY DEF Alike, Context, Channel
    <2> QED  BY <1>0, <2>1 DEF channel_handle_rfd
  <1>2. r >= 0 => Alike(k, channel_handle_wfd(k, r))
    <2>1. Alike(k, [k EXCEPT !.c.output = @ - r, !.c.local_consumed = @ + r, !.h.wr = @ + r])
      BY DEF Alike, Context, Channel
    <2> QED  BY <1>0, <2>1 DEF channel_handle_wfd
  <1>3. Alike(k, channel_handle_efd(k, r))
    <2>1. Alike(k, [k EXCEPT !.c.efd = FALSE, !.h.ecut = TRUE])
      BY DEF Alike, Context, Channel
    <2>2. Alike(k, [k EXCEPT !.c.extended = @ - r, !.c.local_consumed = @ + r, !.h.ewr = @ + r])
      BY DEF Alike, Context, Channel
    <2>3. Alike(k, [k EXCEPT !.c.efd = FALSE])
      BY DEF Alike, Context, Channel
    <2>4. Alike(k, [k EXCEPT !.c.extended = @ + r, !.h.erd = @ + r])
      BY DEF Alike, Context, Channel
    <2>5. channel_handle_efd(k, r) \in
             {k, [k EXCEPT !.c.efd = FALSE, !.h.ecut = TRUE],
              [k EXCEPT !.c.extended = @ - r, !.c.local_consumed = @ + r, !.h.ewr = @ + r],
              [k EXCEPT !.c.efd = FALSE], [k EXCEPT !.c.extended = @ + r, !.h.erd = @ + r]}
      BY DEF channel_handle_efd
    <2> QED  BY <1>0, <2>1, <2>2, <2>3, <2>4, <2>5
  <1>4. Alike(k, InputData(k, m))
    <2>1. Alike(k, [k EXCEPT !.c.local_window = @ - m.n, !.c.local_consumed = @ + m.n])
      BY DEF Alike, Context, Channel
    <2>2. Alike(k, [k EXCEPT !.c.local_window = @ - m.n, !.c.output = @ + m.n])
      BY DEF Alike, Context, Channel
    <2>3. InputData(k, m) \in
             {k, [k EXCEPT !.c.local_window = @ - m.n, !.c.local_consumed = @ + m.n],
              [k EXCEPT !.c.local_window = @ - m.n, !.c.output = @ + m.n]}
      BY DEF InputData
    <2> QED  BY <1>0, <2>1, <2>2, <2>3
  <1>5. Alike(k, InputExtendedData(k, m))
    <2>1. Alike(k, [k EXCEPT !.h.dropped = @ + m.n])
      BY DEF Alike, Context
    <2>2. Alike(k, [k EXCEPT !.c.local_window = @ - m.n, !.c.extended = @ + m.n])
      BY DEF Alike, Context, Channel
    <2> QED  BY <2>1, <2>2 DEF InputExtendedData
  <1>6. Alike(k, [k EXCEPT !.c.remote_window = @ + m.n])
    BY DEF Alike, Context, Channel
  <1>7. Alike(k, [k EXCEPT !.h.exit = TRUE])
    BY DEF Alike, Context
  <1>8. Alike(k, [k EXCEPT !.c.confirms = @ - 1])
    BY DEF Alike, Context, Channel
  <1> QED  BY <1>1, <1>2, <1>3, <1>4, <1>5, <1>6, <1>7, <1>8

\* A message is sent and buffers or windows change.
LEMMA SendAlikeTame ==
    ASSUME NEW c, NEW k \in Context, NEW R, NEW t \in MsgTypes \ {"OPEN", "CONFIRM", "OPENFAIL", "KEEPALIVE"},
           NEW n \in Nat, Tame(c, k, R), ~Has(k.c, "CLOSE_SENT"), t \notin {"CLOSE", "EOF"},
           t = "EXT" => ~Has(k.c, "EOF_SENT"), NEW z, Alike(Send(k, t, n), z)
    PROVE  Tame(c, z, R)
  <1>1. Tame(c, Send(k, t, n), R)
    BY TameSend
  <1> QED  BY <1>1, TameStill

\* channel_check_window().
LEMMA CheckWindowTame ==
    ASSUME NEW c, NEW k \in Good, NEW R, Tame(c, k, R)
    PROVE  Tame(c, channel_check_window(k), R)
  <1> DEFINE k1 == Send(k, "ADJUST", k.c.local_consumed)
             z == [k1 EXCEPT !.c.local_window = @ + k.c.local_consumed, !.c.local_consumed = 0]
  <1>1. k \in Context /\ k.c.local_consumed \in Nat
    BY Fields
  <1>2. k1 \in Context
    BY <1>1, SendType DEF MsgTypes
  <1>3. CASE NeedsAdjust(k.c)
    <2>1. channel_check_window(k) = z
      BY <1>3 DEF channel_check_window
    <2>2. Alike(k1, z)
      <3> HIDE DEF k1
      <3> QED  BY <1>2 DEF Alike, Context, Channel
    <2>3. ~Has(k.c, "CLOSE_SENT")
      BY <1>3 DEF NeedsAdjust
    <2> HIDE DEF z
    <2> QED  BY <1>1, <2>1, <2>2, <2>3, SendAlikeTame DEF MsgTypes
  <1>4. CASE ~NeedsAdjust(k.c)
    BY <1>4 DEF channel_check_window
  <1> QED  BY <1>3, <1>4

\* channel_post_open(): the reads and writes of one round.
LEMMA PostOpenTame ==
    ASSUME NEW c, NEW k \in Good, NEW R, Tame(c, k, R), NEW r \in Int, NEW w \in Int, NEW x \in Int,
           w <= k.c.output, k.c.extended_usage = "WRITE" => x <= k.c.extended
    PROVE  Tame(c, channel_post_open(k, r, w, x), R)
  <1> DEFINE k1 == channel_handle_rfd(k, r)
             k2 == channel_handle_wfd(k1, w)
             k3 == channel_handle_efd(k2, x)
  <1>1. k1 \in Good /\ k1.c.output = k.c.output /\ SameExt(k.c, k1.c)
    BY HandleRfd
  <1>2. Tame(c, k1, R)
    <2>1. k \in Context
      BY DEF Good
    <2>2. r >= 0 => Alike(k, k1)
      <3>1. \A q \in ChannelMessage : r >= 0 => Alike(k, k1)
        BY <2>1, DataAlike
      <3>2. \E q : q \in ChannelMessage
        <4>1. k.c \in Channel
          BY <2>1 DEF Context
        <4>2. Msg("EOW", k.c, 0) \in ChannelMessage
          BY <4>1 DEF Channel, ChannelMessage, Msg, MsgTypes
        <4> QED  BY <4>2
      <3> QED  BY <3>1, <3>2
    <2>3. r < 0 => k1 = chan_read_failed(k)
      BY DEF channel_handle_rfd
    <2>4. Alike(k, chan_read_failed(k))
      BY <2>1, ReadEndAlike
    <2> HIDE DEF k1
    <2>5. Alike(k, k1)
      BY <2>2, <2>3, <2>4
    <2> QED  BY <2>5, TameStill
  <1> HIDE DEF k1
  <1>3. k2 \in Good /\ SameExt(k1.c, k2.c)
    BY <1>1, HandleWfd
  <1>4. Tame(c, k2, R)
    <2>1. k1 \in Context
      BY <1>1 DEF Good
    <2>2. w >= 0 => Alike(k1, k2)
      <3>1. \A q \in ChannelMessage : w >= 0 => Alike(k1, k2)
        BY <2>1, DataAlike
      <3>2. \E q : q \in ChannelMessage
        <4>1. k1.c \in Channel
          BY <2>1 DEF Context
        <4>2. Msg("EOW", k1.c, 0) \in ChannelMessage
          BY <4>1 DEF Channel, ChannelMessage, Msg, MsgTypes
        <4> QED  BY <4>2
      <3> QED  BY <3>1, <3>2
    <2>3. w < 0 => k2 = chan_write_failed2(k1)
      BY DEF channel_handle_wfd
    <2>4. Tame(c, chan_write_failed2(k1), R)
      BY <1>1, <1>2, WriteFailedTame
    <2> HIDE DEF k2
    <2>5. w >= 0 => Tame(c, k2, R)
      BY <1>2, <2>2, TameStill
    <2> QED  BY <2>3, <2>4, <2>5
  <1> HIDE DEF k2
  <1>5. k3 \in Good
    BY <1>1, <1>3, HandleEfd DEF SameExt
  <1>6. Tame(c, k3, R)
    <2>1. k2 \in Context
      BY <1>3 DEF Good
    <2>2. Alike(k2, k3)
      <3>1. \A q \in ChannelMessage : Alike(k2, k3)
        BY <2>1, DataAlike
      <3>2. \E q : q \in ChannelMessage
        <4>1. k2.c \in Channel
          BY <2>1 DEF Context
        <4>2. Msg("EOW", k2.c, 0) \in ChannelMessage
          BY <4>1 DEF Channel, ChannelMessage, Msg, MsgTypes
        <4> QED  BY <4>2
      <3> QED  BY <3>1, <3>2
    <2> QED  BY <1>4, <2>2, TameStill
  <1> HIDE DEF k3
  <1>7. Tame(c, channel_check_window(k3), R)
    BY <1>5, <1>6, CheckWindowTame
  <1> QED  BY <1>7 DEF channel_post_open, k1, k2, k3

\* channel_output_poll() on a channel that has not sent its CLOSE.
LEMMA OutputTame ==
    ASSUME NEW c, NEW k \in Good, NEW R, Tame(c, k, R), ~Has(k.c, "CLOSE_SENT")
    PROVE  Tame(c, OutputExtended(OutputData(k)), R)
  <1> DEFINE k1 == OutputData(k)
             len == Min2(Min2(k.c.input, k.c.remote_window), MaxPacket)
             m1 == Min2(Min2(k1.c.extended, k1.c.remote_window), MaxPacket)
  <1>1. k \in Context /\ k1 \in Good
    BY OutputDataGood DEF Good
  <1>2. Tame(c, k1, R) /\ ~Has(k1.c, "CLOSE_SENT")
    <2>1. CASE k.c.istate \in {"OPEN", "WAIT_DRAIN"} /\ k.c.input > 0 /\ len > 0
      <3> DEFINE k2 == Send(k, "DATA", len)
      <3>1. len \in Nat
        BY <2>1, MinBounds, Fields
      <3>2. k1 = [k2 EXCEPT !.c.input = @ - len, !.c.remote_window = @ - len]
        BY <2>1 DEF OutputData
      <3> HIDE DEF len, k1
      <3>3. k2 \in Context /\ k2.c = k.c
        BY <1>1, <3>1, SendType DEF MsgTypes
      <3>4. Alike(k2, k1)
        <4> HIDE DEF k2
        <4> QED  BY <3>2, <3>3 DEF Alike, Context, Channel
      <3>5. Tame(c, k1, R)
        BY <1>1, <3>1, <3>4, SendAlikeTame DEF MsgTypes
      <3> HIDE DEF k2
      <3> QED  BY <3>3, <3>4, <3>5 DEF Alike, Has
    <2>2. CASE ~(k.c.istate \in {"OPEN", "WAIT_DRAIN"} /\ k.c.input > 0 /\ len > 0)
      <3>1. k1 \in {k, chan_ibuf_empty(k)}
        BY <2>2 DEF OutputData
      <3> HIDE DEF k1
      <3> QED  BY <1>1, <3>1, IbufEmptyTame
    <2> QED  BY <2>1, <2>2
  <1> HIDE DEF k1
  <1>3. k1 \in Context
    BY <1>1 DEF Good
  <1>4. CASE ~Has(k1.c, "EOF_SENT") /\ k1.c.extended_usage = "READ" /\ m1 > 0
    <2> DEFINE k2 == Send(k1, "EXT", m1)
               z == OutputExtended(k1)
    <2>1. m1 \in Nat
      BY <1>1, <1>4, MinBounds, Fields
    <2>2. z = [k2 EXCEPT !.c.extended = @ - m1, !.c.remote_window = @ - m1]
      BY <1>4 DEF OutputExtended
    <2> HIDE DEF m1, z
    <2>3. k2 \in Context /\ k2.c = k1.c
      BY <1>3, <2>1, SendType DEF MsgTypes
    <2>4. Alike(k2, z)
      <3> HIDE DEF k2
      <3> QED  BY <2>2, <2>3 DEF Alike, Context, Channel
    <2>5. Tame(c, z, R)
      BY <1>2, <1>3, <1>4, <2>1, <2>4, SendAlikeTame DEF MsgTypes
    <2> QED  BY <2>5 DEF z, k1
  <1>5. CASE ~(~Has(k1.c, "EOF_SENT") /\ k1.c.extended_usage = "READ" /\ m1 > 0)
    <2>1. OutputExtended(k1) = k1
      BY <1>5 DEF OutputExtended
    <2> QED  BY <1>2, <2>1 DEF k1
  <1> QED  BY <1>4, <1>5

\* Replies to requests.
LEMMA ReplyTame ==
    ASSUME NEW c, NEW k \in Context, NEW R, Tame(c, k, R), NEW b \in BOOLEAN
    PROVE  Tame(c, Reply(k, b), R)
  <1>1. CASE ~Has(k.c, "CLOSE_SENT")
    <2>1. Tame(c, Send(k, "SUCCESS", 0), R) /\ Tame(c, Send(k, "FAILURE", 0), R)
      BY <1>1, TameSend DEF MsgTypes
    <2> QED  BY <1>1, <2>1 DEF Reply
  <1>2. CASE Has(k.c, "CLOSE_SENT")
    BY <1>2 DEF Reply
  <1> QED  BY <1>1, <1>2

\* The shell is started.
LEMMA ShellStartedTame ==
    ASSUME NEW k \in Good, k.out = <<>>, NEW m \in ChannelMessage, k.c.type = "LARVAL", NEW R
    PROVE  Tame(k.c, ShellStarted(k, m), R)
  <1> DEFINE d0 == [k.c EXCEPT !.type = "OPEN", !.pid = "running"]
             d1 == [d0 EXCEPT !.local_window = WindowMax]
             d2 == [d1 EXCEPT !.extended_usage = "READ", !.efd = TRUE]
             g == [k.h EXCEPT !.ran = TRUE]
             k1 == With(k, d2, g)
             k2 == Send(k1, "ADJUST", WindowMax)
  <1>1. WindowMax \in Nat /\ WindowMax \in Int
    BY BoundsAssumption
  <1>2. k \in Context /\ k.c \in Channel /\ UserInv(k.c) /\ k.h \in History
    BY DEF Good, ChanInv, Context
  <1>3. /\ d0 \in Channel /\ d0.flags = k.c.flags /\ d0.type = "OPEN"
        /\ d0.inst = k.c.inst /\ d0.remote_id = k.c.remote_id
    BY <1>2 DEF Channel, ChanTypes
  <1>4. [k EXCEPT !.c.type = "OPEN", !.c.pid = "running",
                  !.c.local_window = WindowMax,
                  !.c.extended_usage = "READ", !.c.efd = TRUE,
                  !.h.ran = TRUE] = k1
    BY <1>2 DEF With, Context
  <1>5. g \in History
    BY <1>2, SetHistFlag
  <1> HIDE DEF d0, g
  <1>6. /\ d1 \in Channel /\ d1.flags = d0.flags /\ d1.type = d0.type
        /\ d1.inst = d0.inst /\ d1.remote_id = d0.remote_id
    BY <1>1, <1>3 DEF Channel
  <1> HIDE DEF d1
  <1>7. /\ d2 \in Channel /\ d2.flags = d1.flags /\ d2.type = d1.type
        /\ d2.inst = d1.inst /\ d2.remote_id = d1.remote_id
    BY <1>6 DEF Channel
  <1> HIDE DEF d2
  <1>8. k1 \in Context /\ k1.c = d2 /\ k1.out = <<>>
    BY <1>2, <1>5, <1>7 DEF Context, With
  <1> HIDE DEF k1
  <1>9. ShellStarted(k, m) = Reply(k2, TRUE)
    BY <1>4 DEF ShellStarted
  <1>10. Tame(k.c, k1, R)
    <2>1. DOMAIN k1.out = {}
      BY <1>8
    <2> QED  BY <1>3, <1>6, <1>7, <1>8, <2>1 DEF Tame
  <1>11. ~Has(k1.c, "CLOSE_SENT")
    BY <1>2, <1>3, <1>6, <1>7, <1>8 DEF UserInv, Has
  <1>12. k2 \in Context /\ Tame(k.c, k2, R)
    BY <1>1, <1>8, <1>10, <1>11, SendType, TameSend DEF MsgTypes
  <1> HIDE DEF k2
  <1> QED  BY <1>9, <1>12, ReplyTame

\* The exit status is sent and the output is closed.
LEMMA ExitTame ==
    ASSUME NEW k \in Good, k.out = <<>>, k.c.type = "OPEN", k.c.pid = "running", NEW R
    PROVE  LET k1 == Send(k, "EXIT", 0)
               k2 == [k1 EXCEPT !.c.pid = "exited", !.c.detach_user = TRUE, !.c.detach_close = TRUE]
               k3 == IF k2.c.ostate # "CLOSED" THEN chan_write_failed2(k2) ELSE k2
           IN  k3 \in Context /\ Tame(k.c, k3, R)
  <1> DEFINE k1 == Send(k, "EXIT", 0)
             d == [k1.c EXCEPT !.pid = "exited", !.detach_user = TRUE, !.detach_close = TRUE]
             k2 == WithC(k1, d)
             k3 == IF k2.c.ostate # "CLOSED" THEN chan_write_failed2(k2) ELSE k2
  <1>1. k \in Context /\ ~Has(k.c, "CLOSE_SENT")
    BY DEF Good, ChanInv, UserInv
  <1>2. k1 \in Good /\ k1.c = k.c
    BY <1>1, SendGood, SendType DEF MsgTypes
  <1>3. Tame(k.c, k1, R)
    <2>1. Tame(k.c, k, R)
      BY TameStart
    <2> QED  BY <1>1, <2>1, TameSend DEF MsgTypes
  <1>4. k1 \in Context /\ k1.c \in Channel /\ HalfInv(k1.c) /\ UserInv(k1.c)
    BY <1>2 DEF Good, ChanInv, Context
  <1> HIDE DEF k1
  <1>5. [k1 EXCEPT !.c.pid = "exited", !.c.detach_user = TRUE, !.c.detach_close = TRUE] = k2
    BY <1>4 DEF Context, WithC
  <1>6. /\ d \in Channel /\ d.istate = k1.c.istate /\ d.ostate = k1.c.ostate
        /\ d.flags = k1.c.flags /\ d.pid = "exited" /\ d.type = k1.c.type
        /\ d.local_window = k1.c.local_window /\ d.inst = k1.c.inst /\ d.remote_id = k1.c.remote_id
    BY <1>4 DEF Channel
  <1> HIDE DEF d
  <1>7. HalfInv(d) /\ UserInv(d)
    BY <1>2, <1>4, <1>6 DEF HalfInv, UserInv, Has, BothClosed
  <1>8. k2 \in Context /\ k2.c = d /\ k2.out = k1.out
    BY <1>4, <1>6 DEF Context, WithC
  <1>9. k2 \in Good
    BY <1>7, <1>8 DEF Good, ChanInv
  <1> HIDE DEF k2
  <1>10. Tame(k.c, k2, R)
    BY <1>2, <1>3, <1>6, <1>8 DEF Tame, Ours, Has
  <1>11. k3 \in Context /\ Tame(k.c, k3, R)
    <2>1. chan_write_failed2(k2) \in Good /\ Tame(k.c, chan_write_failed2(k2), R)
      BY <1>9, <1>10, WriteFailed, WriteFailedTame
    <2> QED  BY <1>8, <1>10, <2>1 DEF Good
  <1> HIDE DEF k3
  <1> QED  BY <1>5, <1>11 DEF k3, k1

\* The answer to a request of the client.
LEMMA StatusConfirmTame ==
    ASSUME NEW c, NEW k \in Good, NEW R, Tame(c, k, R), NEW m \in ChannelMessage
    PROVE  Tame(c, StatusConfirm(k, m), R)
  <1>1. CASE k.c.confirms = 0
    BY <1>1 DEF StatusConfirm
  <1>2. CASE k.c.confirms # 0
    <2> DEFINE d == [k.c EXCEPT !.confirms = k.c.confirms - 1]
               k1 == WithC(k, d)
               k0 == Complain(k1)
               k2 == chan_read_failed(k0)
    <2>1. k.c.confirms - 1 \in Nat /\ 0 \in Int /\ k \in Context
      BY <1>2, Fields
    <2>2. d \in Channel /\ Keeps(k.c, d) /\ k.h \in History
      BY <2>1, SetField, Fields
    <2>3. [k EXCEPT !.c.confirms = @ - 1] = k1
      BY Fields DEF Context, WithC
    <2> HIDE DEF d
    <2>4. k1 \in Good
      BY <2>2, UpdateKeeps
    <2>5. Tame(c, k1, R)
      <3>1. Alike(k, k1)
        BY <2>1, <2>3, DataAlike
      <3> QED  BY <3>1, TameStill
    <2>6. StatusConfirm(k, m) \in {k1, chan_write_failed2(k2)}
      BY <1>2, <2>3 DEF StatusConfirm
    <2> HIDE DEF k1
    <2>9. k0 \in Good /\ Tame(c, k0, R)
      <3>1. Alike(k1, [k1 EXCEPT !.c.extended = @ + Complaint, !.h.own = @ + Complaint])
        BY <2>4 DEF Good, Alike, Context, Channel
      <3>2. Alike(k1, k1)
        BY DEF Alike
      <3>3. Alike(k1, k0)
        BY <3>1, <3>2 DEF Complain
      <3> QED  BY <2>4, <2>5, <3>3, ComplainGood, TameStill
    <2> HIDE DEF k0
    <2>7. k2 \in Good /\ Tame(c, k2, R)
      <3>1. k0 \in Context
        BY <2>9 DEF Good
      <3> QED  BY <2>9, <3>1, ReadFailed, ReadEndAlike, TameStill
    <2> HIDE DEF k2
    <2>8. Tame(c, chan_write_failed2(k2), R)
      BY <2>7, WriteFailedTame
    <2> QED  BY <2>5, <2>6, <2>8
  <1> QED  BY <1>1, <1>2

----------------------------------------------------------------------------
(* Steps of one channel, on the wires.                                     *)

\* What a tame step is to the peer.
LEMMA TameMoves ==
    ASSUME NEW ch \in Tables, NEW ml, NEW p \in Endpoint, NEW i \in Slots, NEW k \in Context, NEW R,
           Untouched(ch), ch[p][i].type # "FREE", Tame(ch[p][i], k, R),
           \/ ch[p][i].type \notin Pending
           \/ k.c = ch[p][i] /\ \A j \in DOMAIN k.out : ~Solid(Peer(p), k.out[j]),
           ch[p][i].type = "ZOMBIE" => k.out = <<>>,
           "CLOSE_RCVD" \in R =>
              /\ \A m \in ml[p] : Solid(p, m) => m.inst # ch[p][i].inst
              /\ \A j \in Slots : ch[Peer(p)][j].inst = ch[p][i].inst => Has(ch[Peer(p)][j], "CLOSE_SENT"),
           "EOF_RCVD" \in R =>
              /\ \A m \in ml[p] : m.t = "EXT" => m.inst # ch[p][i].inst
              /\ \A j \in Slots : ch[Peer(p)][j].inst = ch[p][i].inst => Has(ch[Peer(p)][j], "EOF_SENT")
    PROVE  /\ Moves(ch, ml, p, i, k.c, Of(k.out)) /\ InOrder(Peer(p), k.out)
           /\ k.out \in Seq(Message) /\ k.c \in Channel
  <1> DEFINE c == ch[p][i]
             d == k.c
             s == k.out
             e == Peer(p)
  <1>1. d \in Channel /\ s \in Seq(Message)
    BY DEF Context
  <1>2. /\ d.inst = c.inst /\ d.remote_id = c.remote_id
        /\ d.type = c.type \/ (c.type = "LARVAL" /\ d.type = "OPEN")
        /\ d.type # "OPEN" => d.pid = c.pid
        /\ c.flags \subseteq d.flags
        /\ d.flags \subseteq c.flags \cup {"CLOSE_SENT", "EOF_SENT"} \cup R
        /\ \A j \in DOMAIN s : Ours(c, d, s[j])
        /\ \A j, l \in DOMAIN s : j < l => Follows(s[j], s[l])
    BY DEF Tame
  <1>3. /\ c.type # "OPEN" => c.pid = "none"
        /\ c.type \in Pending => c.flags = {} /\ c.istate = "OPEN" /\ c.ostate = "OPEN" /\ c.self = i
    BY DEF Untouched
  <1>4. d.type # "OPEN" => d.pid = "none"
    BY <1>2, <1>3
  <1>5. d.type \in Pending => d.flags = {} /\ d.istate = "OPEN" /\ d.ostate = "OPEN" /\ d.self = c.self
    BY <1>2, <1>3 DEF Pending
  <1>6. Has(d, "CLOSE_RCVD") /\ ~Has(c, "CLOSE_RCVD") => "CLOSE_RCVD" \in R
    BY <1>2 DEF Has
  <1>7. Has(d, "EOF_RCVD") /\ ~Has(c, "EOF_RCVD") => "EOF_RCVD" \in R
    BY <1>2 DEF Has
  <1>8. \A j \in DOMAIN s : /\ Ours(c, d, s[j]) /\ c.type # "ZOMBIE"
                            /\ c.type \in Pending => ~Solid(e, s[j])
    BY <1>2
  <1>9. Of(s) \in SUBSET Message
    BY <1>1 DEF Of
  <1>10. \A m \in Of(s) : /\ Ours(c, d, m) /\ c.type # "ZOMBIE"
                          /\ c.type \in Pending => ~Solid(e, m)
    BY <1>8 DEF Of
  <1>11. \A m \in Of(s) : /\ m.t \in MsgTypes \ {"OPEN", "CONFIRM", "OPENFAIL", "KEEPALIVE"}
                          /\ m.inst = c.inst /\ m.id = c.remote_id
                          /\ c.type \in Pending => ~Solid(e, m)
                          /\ ~Has(c, "CLOSE_SENT") /\ c.type # "ZOMBIE"
                          /\ m.t = "CLOSE" => Has(d, "CLOSE_SENT")
                          /\ m.t = "EOF" => Has(d, "EOF_SENT")
                          /\ m.t = "EXT" => ~Has(c, "EOF_SENT")
    BY <1>10 DEF Ours
  <1>12. InOrder(e, s)
    <2>1. \A j \in DOMAIN s : s[j].t \notin {"OPEN", "CONFIRM", "OPENFAIL"}
      BY <1>8 DEF Ours
    <2> HIDE DEF s
    <2> QED  BY <1>2, <2>1 DEF InOrder, Before, Follows, Answers
  <1> HIDE DEF d, s, e
  <1>13. Moves(ch, ml, p, i, d, Of(s))
    <2>1. /\ c.type # "FREE" /\ d \in Channel /\ Of(s) \in SUBSET Message
          /\ d.inst = c.inst /\ d.remote_id = c.remote_id
          /\ d.type = c.type \/ (c.type = "LARVAL" /\ d.type = "OPEN")
          /\ c.flags \subseteq d.flags
      BY <1>1, <1>2, <1>9
    <2> HIDE DEF c
    <2> QED  BY <1>4, <1>5, <1>6, <1>7, <1>11, <2>1 DEF Moves, c, e
  <1> QED  BY <1>1, <1>12, <1>13 DEF d, s, e

\* A channel step that ends with context k, and may release the slot.
LEMMA StepLawful ==
    ASSUME NEW ch \in Tables, NEW w \in Wires, NEW n \in Nat, NEW p \in Endpoint, NEW i \in Slots,
           NEW k \in Context, NEW R, NEW free,
           Lawful(ch, w, n), ch[p][i].type # "FREE", Tame(ch[p][i], k, R),
           \/ ch[p][i].type \notin Pending
           \/ k.c = ch[p][i] /\ \A j \in DOMAIN k.out : ~Solid(Peer(p), k.out[j]),
           ch[p][i].type = "ZOMBIE" => k.out = <<>>,
           "CLOSE_RCVD" \in R =>
              /\ \A m \in Box(w)[p] : Solid(p, m) => m.inst # ch[p][i].inst
              /\ \A j \in Slots : ch[Peer(p)][j].inst = ch[p][i].inst => Has(ch[Peer(p)][j], "CLOSE_SENT"),
           "EOF_RCVD" \in R =>
              /\ \A m \in Box(w)[p] : m.t = "EXT" => m.inst # ch[p][i].inst
              /\ \A j \in Slots : ch[Peer(p)][j].inst = ch[p][i].inst => Has(ch[Peer(p)][j], "EOF_SENT"),
           free => \/ ch[p][i].type = "ZOMBIE"
                   \/ Has(k.c, "CLOSE_SENT") /\ Has(k.c, "CLOSE_RCVD")
    PROVE  Lawful(Put(ch, p, i, IF free THEN FreeSlot ELSE k.c), Push(w, Peer(p), k.out), n)
  <1> DEFINE c == ch[p][i]
             d == k.c
             w1 == Push(w, Peer(p), k.out)
             X == Put(ch, p, i, d)
             Y == Put(ch, p, i, FreeSlot)
  <1>1. Untouched(ch)
    BY DEF Lawful, Settled
  <1>2. /\ Moves(ch, Box(w), p, i, d, Of(k.out)) /\ InOrder(Peer(p), k.out)
        /\ k.out \in Seq(Message) /\ d \in Channel
    BY <1>1, TameMoves
  <1>3. Lawful(X, w1, n)
    BY <1>2, MoveLawful
  <1>4. w1 \in Wires /\ Box(w1) \in Mails
    BY <1>2, PushFacts, Peers
  <1>5. CASE ~free
    BY <1>3, <1>5
  <1>6. CASE free
    <2>1. /\ X \in Tables /\ X[p][i] = d
          /\ \A j \in Slots : j # i => X[p][j] = ch[p][j]
          /\ \A j \in Slots : X[Peer(p)][j] = ch[Peer(p)][j]
      BY <1>2, PutFacts
    <2>2. /\ Y \in Tables /\ Y[p][i] = FreeSlot
          /\ \A j \in Slots : j # i => Y[p][j] = ch[p][j]
          /\ \A j \in Slots : Y[Peer(p)][j] = ch[Peer(p)][j]
      BY PutFacts
    <2> HIDE DEF X, Y, w1
    <2>3. Sets(X, Y, p, i, FreeSlot)
      BY <2>1, <2>2 DEF Sets
    <2>4. \/ X[p][i].type = "ZOMBIE"
          \/ Has(X[p][i], "CLOSE_SENT") /\ Has(X[p][i], "CLOSE_RCVD")
      BY <1>6, <2>1 DEF Tame
    <2>5. Settled(X, Box(w1), n)
      BY <1>3 DEF Lawful
    <2>6. Settled(Y, Box(w1), n)
      BY <1>4, <2>1, <2>3, <2>4, <2>5, FreeSettled
    <2>7. Lawful(Y, w1, n)
      BY <1>3, <2>6 DEF Lawful
    <2> QED  BY <1>6, <2>7 DEF Y, w1
  <1> QED  BY <1>5, <1>6

----------------------------------------------------------------------------
(* The actions.                                                            *)

\* What the type invariant says of the tables and wires.
LEMMA StateFacts ==
    ASSUME IInv
    PROVE  /\ channels \in Tables /\ wire \in Wires /\ opened \in Nat
           /\ \A e \in Endpoint, i \in Slots : channels[e][i].type # "FREE" => channels[e][i] \in Channel
  <1>1. channels \in Tables /\ wire \in Wires /\ opened \in Nat
    BY BoundsAssumption DEF IInv, TypeOK, Tables, Wires
  <1>2. FreeSlot.type = "FREE"
    BY DEF FreeSlot
  <1> QED  BY <1>1, <1>2 DEF Tables

\* The context a step begins with.
LEMMA CtxFacts ==
    ASSUME IInv, NEW e \in Endpoint, NEW i \in Slots, channels[e][i].type # "FREE"
    PROVE  /\ Ctx(e, i) \in Good /\ Ctx(e, i) \in Context
           /\ Ctx(e, i).c = channels[e][i] /\ Ctx(e, i).out = <<>>
  <1>1. Ctx(e, i) \in Good
    BY IInvParts, CtxGood
  <1>2. Ctx(e, i).c = channels[e][i] /\ Ctx(e, i).out = <<>>
    BY DEF Ctx
  <1> QED  BY <1>1, <1>2 DEF Good

\* A step of the main loop on slot i that ends with context k.
LEMMA LoopLawful ==
    ASSUME IInv, Lawful(channels, wire, opened), NEW e \in Endpoint, NEW i \in Slots,
           NEW k \in Context, NEW free, channels[e][i].type # "FREE", Tame(channels[e][i], k, {}),
           \/ channels[e][i].type \notin Pending
           \/ k.c = channels[e][i] /\ k.out = <<>>,
           channels[e][i].type = "ZOMBIE" => k.out = <<>>,
           free => \/ channels[e][i].type = "ZOMBIE"
                   \/ Has(k.c, "CLOSE_SENT") /\ Has(k.c, "CLOSE_RCVD"),
           Commit(e, i, k, free), Emit(e, k.out), opened' = opened
    PROVE  Lawful(channels', wire', opened')
  <1>1. channels' = Put(channels, e, i, IF free THEN FreeSlot ELSE k.c)
    BY DEF Commit, Put
  <1>2. wire' = Push(wire, Peer(e), k.out)
    BY DEF Emit, Push
  <1>3. \/ channels[e][i].type \notin Pending
        \/ k.c = channels[e][i] /\ \A j \in DOMAIN k.out : ~Solid(Peer(e), k.out[j])
    <2>1. k.out = <<>> => DOMAIN k.out = {}
      OBVIOUS
    <2> QED  BY <2>1
  <1>4. Lawful(Put(channels, e, i, IF free THEN FreeSlot ELSE k.c), Push(wire, Peer(e), k.out), opened)
    BY <1>3, StateFacts, StepLawful
  <1> QED  BY <1>1, <1>2, <1>4

\* The wires when e takes a message and answers with out.
LEMMA TakeWires ==
    ASSUME IInv, NEW e \in Endpoint, NEW out, TakeEmit(e, out)
    PROVE  wire' = Push(Pop(wire, e), Peer(e), out)
  BY StateFacts, Peers DEF TakeEmit, Push, Pop, Wires

\* A message that is not a confirmation is taken and dropped.
LEMMA DropLawful ==
    ASSUME IInv, Lawful(channels, wire, opened), NEW e \in Endpoint, wire[e] # <<>>,
           M(e).t # "CONFIRM", TakeEmit(e, <<>>), UNCHANGED <<channels, opened>>
    PROVE  Lawful(channels', wire', opened')
  <1> DEFINE w1 == Pop(wire, e)
  <1>1. Lawful(channels, w1, opened)
    BY StateFacts, PopLawful DEF M
  <1>2. w1 \in Wires
    BY StateFacts, PopFacts DEF Lawful, Ordered
  <1>3. wire' = Push(w1, Peer(e), <<>>)
    BY TakeWires
  <1> HIDE DEF w1
  <1>4. Push(w1, Peer(e), <<>>) = w1
    <2>1. w1[Peer(e)] \in Seq(Message) /\ Peer(e) \in Endpoint
      BY <1>2, Peers DEF Wires
    <2>2. w1[Peer(e)] \o <<>> = w1[Peer(e)]
      BY <2>1
    <2> QED  BY <1>2, <2>1, <2>2 DEF Push, Wires
  <1> QED  BY <1>1, <1>3, <1>4

\* The channel that the first message for e is about.
LEMMA HeadFound ==
    ASSUME IInv, Lawful(channels, wire, opened), NEW e \in Endpoint,
           NEW t \in MsgTypes \ {"OPEN", "KEEPALIVE"}, Head1(e, t), ~(e = "server" /\ t = "FAILURE")
    PROVE  /\ wire[e] # <<>> /\ M(e) \in ChannelMessage /\ M(e).t = t /\ Found(e, M(e).id)
           /\ M(e).id \in Slots /\ channels[e][M(e).id].inst = M(e).inst
           /\ channels[e][M(e).id].type # "FREE"
           /\ t \in Answers => channels[e][M(e).id].type = "OPENING"
           /\ t \notin Answers => channels[e][M(e).id].type \in {"LARVAL", "OPEN"}
           /\ t \notin Answers => channels[e][M(e).id].type \notin Pending \cup {"ZOMBIE"}
  <1>1. wire[e] # <<>> /\ M(e).t = t /\ M(e) = Head(wire[e])
    BY DEF Head1, M
  <1>2. M(e) \in ChannelMessage
    BY IInvParts, HeadType
  <1>3. Solid(e, M(e))
    BY <1>1 DEF Solid, Real
  <1>4. /\ M(e).id \in Slots /\ channels[e][M(e).id].inst = M(e).inst
        /\ channels[e][M(e).id].type \in Reachable
        /\ t \in Answers => channels[e][M(e).id].type = "OPENING"
        /\ t \notin Answers => channels[e][M(e).id].type \in {"LARVAL", "OPEN"}
    BY <1>1, <1>3, StateFacts, HeadLive
  <1> QED  BY <1>1, <1>2, <1>4 DEF Found, Reachable, Pending

\* A handler that takes a message for the channel in slot M(e).id.
LEMMA TakeLawful ==
    ASSUME IInv, Lawful(channels, wire, opened), NEW e \in Endpoint, wire[e] # <<>>,
           NEW i \in Slots, i = M(e).id, M(e).t # "CONFIRM",
           channels[e][i].type \notin {"FREE", "ZOMBIE"},
           NEW k \in Context, NEW R, Tame(channels[e][i], k, R),
           \/ channels[e][i].type \notin Pending
           \/ k.c = channels[e][i] /\ \A j \in DOMAIN k.out : ~Solid(Peer(e), k.out[j]),
           R # {} => channels[e][i].inst = M(e).inst,
           "CLOSE_RCVD" \in R => M(e).t = "CLOSE",
           "EOF_RCVD" \in R => M(e).t = "EOF",
           Commit(e, i, k, FALSE), TakeEmit(e, k.out), opened' = opened
    PROVE  Lawful(channels', wire', opened')
  <1> DEFINE w1 == Pop(wire, e)
             h == M(e)
             c == channels[e][i]
             p == Peer(e)
  <1>1. Lawful(channels, w1, opened)
    BY StateFacts, PopLawful DEF M
  <1>2. /\ w1 \in Wires /\ Box(wire) \in Mails /\ h \in Box(wire)[e]
        /\ \A b \in Box(w1)[e] : Before(e, h, b)
    BY StateFacts, PopFacts, BoxFacts DEF Lawful, Ordered, M
  <1>3. wire' = Push(w1, p, k.out)
    BY TakeWires
  <1>4. channels' = Put(channels, e, i, k.c)
    BY DEF Commit, Put
  <1>5. p \in Endpoint /\ Peer(p) = e
    BY Peers
  <1>6. \A j \in Slots : \A m \in Box(wire)[e] :
            /\ m.t = "CLOSE" /\ m.inst = channels[p][j].inst => Has(channels[p][j], "CLOSE_SENT")
            /\ m.t = "EOF" /\ m.inst = channels[p][j].inst => Has(channels[p][j], "EOF_SENT")
    BY <1>5 DEF Lawful, Settled, Marked
  <1>7. /\ R # {} => c.inst = h.inst
        /\ "CLOSE_RCVD" \in R => h.t = "CLOSE"
        /\ "EOF_RCVD" \in R => h.t = "EOF"
    OBVIOUS
  <1> HIDE DEF w1, h
  <1>8. "CLOSE_RCVD" \in R =>
              /\ \A m \in Box(w1)[e] : Solid(e, m) => m.inst # c.inst
              /\ \A j \in Slots : channels[p][j].inst = c.inst => Has(channels[p][j], "CLOSE_SENT")
    BY <1>2, <1>6, <1>7 DEF Before, Solid, Real, MsgTypes
  <1>9. "EOF_RCVD" \in R =>
              /\ \A m \in Box(w1)[e] : m.t = "EXT" => m.inst # c.inst
              /\ \A j \in Slots : channels[p][j].inst = c.inst => Has(channels[p][j], "EOF_SENT")
    BY <1>2, <1>6, <1>7 DEF Before, Real, MsgTypes
  <1>10. Lawful(Put(channels, e, i, IF FALSE THEN FreeSlot ELSE k.c), Push(w1, p, k.out), opened)
    BY <1>1, <1>2, <1>8, <1>9, StateFacts, StepLawful
  <1> QED  BY <1>3, <1>4, <1>10

\* channel_input_data().
LEMMA DataLawful ==
    ASSUME IInv, Lawful(channels, wire, opened), NEW e \in Endpoint, channel_input_data(e)
    PROVE  Lawful(channels', wire', opened') /\ down' = down
  <1> DEFINE k == Ctx(e, M(e).id)
             k1 == InputData(k, M(e))
  <1>0. e \in Endpoint
    OBVIOUS
  <1>1. Head1(e, "DATA")
    BY DEF channel_input_data, Handle
  <1>2. /\ wire[e] # <<>> /\ M(e) \in ChannelMessage /\ M(e).t = "DATA" /\ Found(e, M(e).id)
        /\ M(e).id \in Slots /\ channels[e][M(e).id].inst = M(e).inst
        /\ channels[e][M(e).id].type \notin Pending \cup {"ZOMBIE", "FREE"}
    BY <1>0, <1>1, HeadFound DEF MsgTypes, Answers
  <1>3. /\ Commit(e, M(e).id, k1, FALSE) /\ TakeEmit(e, k1.out)
        /\ UNCHANGED <<opened, sentAlive, down>>
    BY <1>1, <1>2 DEF channel_input_data, Handle
  <1>4. k \in Good /\ k \in Context /\ k.c = channels[e][M(e).id] /\ k.out = <<>>
    BY <1>0, <1>2, CtxFacts
  <1> HIDE DEF k
  <1>5. k1 \in Context /\ Tame(k.c, k1, {})
    <2>1. k1 \in Good
      BY <1>2, <1>4, InputDataGood
    <2>2. Alike(k, k1)
      <3>1. 0 \in Int
        OBVIOUS
      <3> QED  BY <1>2, <1>4, <3>1, DataAlike
    <2>3. Tame(k.c, k, {})
      BY <1>4, TameStart
    <2> HIDE DEF k1
    <2> QED  BY <2>1, <2>2, <2>3, TameStill DEF Good
  <1> HIDE DEF k1
  <1>6. Lawful(channels', wire', opened')
    BY <1>0, <1>2, <1>3, <1>4, <1>5, TakeLawful
  <1> QED  BY <1>3, <1>6

\* channel_input_extended_data(): no extended data follows an EOF.
LEMMA ExtendedLawful ==
    ASSUME IInv, Lawful(channels, wire, opened), NEW e \in Endpoint, channel_input_extended_data(e)
    PROVE  Lawful(channels', wire', opened') /\ down' = down
  <1> DEFINE k == Ctx(e, M(e).id)
             k1 == InputExtendedData(k, M(e))
  <1>0. e \in Endpoint
    OBVIOUS
  <1>1. Head1(e, "EXT")
    BY DEF channel_input_extended_data, Handle
  <1>2. /\ wire[e] # <<>> /\ M(e) \in ChannelMessage /\ M(e).t = "EXT" /\ Found(e, M(e).id)
        /\ M(e).id \in Slots /\ channels[e][M(e).id].inst = M(e).inst
        /\ channels[e][M(e).id].type \notin Pending \cup {"ZOMBIE", "FREE"}
    BY <1>0, <1>1, HeadFound DEF MsgTypes, Answers
  <1>7. ~Has(channels[e][M(e).id], "EOF_RCVD")
    <2>1. M(e) \in Box(wire)[e]
      BY <1>0, <1>2, StateFacts, PopFacts DEF Lawful, Ordered, M
    <2> QED  BY <1>0, <1>2, <2>1 DEF Lawful, Settled, Finished
  <1>3. /\ Commit(e, M(e).id, k1, FALSE) /\ TakeEmit(e, k1.out)
        /\ UNCHANGED <<opened, sentAlive, down>>
    BY <1>1, <1>2, <1>7 DEF channel_input_extended_data, Handle
  <1>4. k \in Good /\ k \in Context /\ k.c = channels[e][M(e).id] /\ k.out = <<>>
    BY <1>0, <1>2, CtxFacts
  <1> HIDE DEF k
  <1>5. k1 \in Context /\ Tame(k.c, k1, {})
    <2>1. k1 \in Good
      BY <1>2, <1>4, InputExtendedDataGood
    <2>2. Alike(k, k1)
      <3>1. 0 \in Int
        OBVIOUS
      <3> QED  BY <1>2, <1>4, <3>1, DataAlike
    <2>3. Tame(k.c, k, {})
      BY <1>4, TameStart
    <2> HIDE DEF k1
    <2> QED  BY <2>1, <2>2, <2>3, TameStill DEF Good
  <1> HIDE DEF k1
  <1>6. Lawful(channels', wire', opened')
    BY <1>0, <1>2, <1>3, <1>4, <1>5, TakeLawful
  <1> QED  BY <1>3, <1>6

\* channel_input_ieof().
LEMMA IeofLawful ==
    ASSUME IInv, Lawful(channels, wire, opened), NEW e \in Endpoint, channel_input_ieof(e)
    PROVE  Lawful(channels', wire', opened') /\ down' = down
  <1> DEFINE k == Ctx(e, M(e).id)
             k1 == chan_rcvd_ieof(k)
  <1>0. e \in Endpoint
    OBVIOUS
  <1>1. Head1(e, "EOF")
    BY DEF channel_input_ieof, Handle
  <1>2. /\ wire[e] # <<>> /\ M(e) \in ChannelMessage /\ M(e).t = "EOF" /\ Found(e, M(e).id)
        /\ M(e).id \in Slots /\ channels[e][M(e).id].inst = M(e).inst
        /\ channels[e][M(e).id].type \notin Pending \cup {"ZOMBIE", "FREE"}
    BY <1>0, <1>1, HeadFound DEF MsgTypes, Answers
  <1>3. /\ Commit(e, M(e).id, k1, FALSE) /\ TakeEmit(e, k1.out)
        /\ UNCHANGED <<opened, sentAlive, down>>
    BY <1>1, <1>2 DEF channel_input_ieof, Handle
  <1>4. k \in Good /\ k \in Context /\ k.c = channels[e][M(e).id] /\ k.out = <<>>
    BY <1>0, <1>2, CtxFacts
  <1> HIDE DEF k
  <1>5. k1 \in Context /\ Tame(k.c, k1, {"EOF_RCVD"})
    <2>1. k1 \in Good
      BY <1>2, <1>4, RcvdIeof
    <2>2. Tame(k.c, k, {"EOF_RCVD"})
      BY <1>4, TameStart
    <2> QED  BY <1>2, <1>4, <2>1, <2>2, RcvdIeofTame DEF Good
  <1> HIDE DEF k1
  <1>6. Lawful(channels', wire', opened')
    BY <1>0, <1>2, <1>3, <1>4, <1>5, TakeLawful
  <1> QED  BY <1>3, <1>6

\* channel_input_oclose().
LEMMA OcloseLawful ==
    ASSUME IInv, Lawful(channels, wire, opened), NEW e \in Endpoint, channel_input_oclose(e)
    PROVE  Lawful(channels', wire', opened') /\ down' = down
  <1> DEFINE k == Ctx(e, M(e).id)
             k1 == chan_rcvd_close2(k)
  <1>0. e \in Endpoint
    OBVIOUS
  <1>1. Head1(e, "CLOSE")
    BY DEF channel_input_oclose, Handle
  <1>2. /\ wire[e] # <<>> /\ M(e) \in ChannelMessage /\ M(e).t = "CLOSE" /\ Found(e, M(e).id)
        /\ M(e).id \in Slots /\ channels[e][M(e).id].inst = M(e).inst
        /\ channels[e][M(e).id].type \notin Pending \cup {"ZOMBIE", "FREE"}
    BY <1>0, <1>1, HeadFound DEF MsgTypes, Answers
  <1>3. /\ Commit(e, M(e).id, k1, FALSE) /\ TakeEmit(e, k1.out)
        /\ UNCHANGED <<opened, sentAlive, down>>
    BY <1>1, <1>2 DEF channel_input_oclose, Handle
  <1>4. k \in Good /\ k \in Context /\ k.c = channels[e][M(e).id] /\ k.out = <<>>
    BY <1>0, <1>2, CtxFacts
  <1> HIDE DEF k
  <1>5. k1 \in Context /\ Tame(k.c, k1, {"CLOSE_RCVD"})
    <2>1. k1 \in Good
      BY <1>2, <1>4, RcvdClose
    <2>2. Tame(k.c, k, {"CLOSE_RCVD"})
      BY <1>4, TameStart
    <2> QED  BY <1>2, <1>4, <2>1, <2>2, RcvdCloseTame DEF Good
  <1> HIDE DEF k1
  <1>6. Lawful(channels', wire', opened')
    BY <1>0, <1>2, <1>3, <1>4, <1>5, TakeLawful
  <1> QED  BY <1>3, <1>6

\* channel_input_window_adjust().
LEMMA AdjustLawful ==
    ASSUME IInv, Lawful(channels, wire, opened), NEW e \in Endpoint, channel_input_window_adjust(e)
    PROVE  Lawful(channels', wire', opened') /\ down' = down
  <1> DEFINE k == Ctx(e, M(e).id)
             k1 == [k EXCEPT !.c.remote_window = @ + M(e).n]
  <1>0. e \in Endpoint
    OBVIOUS
  <1>1. Head1(e, "ADJUST")
    BY DEF channel_input_window_adjust, Handle
  <1>2. /\ wire[e] # <<>> /\ M(e) \in ChannelMessage /\ M(e).t = "ADJUST" /\ Found(e, M(e).id)
        /\ M(e).id \in Slots /\ channels[e][M(e).id].inst = M(e).inst
        /\ channels[e][M(e).id].type \notin Pending \cup {"ZOMBIE", "FREE"}
    BY <1>0, <1>1, HeadFound DEF MsgTypes, Answers
  <1>3. /\ Commit(e, M(e).id, k1, FALSE) /\ TakeEmit(e, k1.out)
        /\ UNCHANGED <<opened, sentAlive, down>>
    BY <1>1, <1>2 DEF channel_input_window_adjust, Handle
  <1>4. k \in Good /\ k \in Context /\ k.c = channels[e][M(e).id] /\ k.out = <<>>
    BY <1>0, <1>2, CtxFacts
  <1> HIDE DEF k
  <1>5. k1 \in Context /\ Tame(k.c, k1, {})
    <2>1. k1 \in Good
      BY <1>2, <1>4, AdjustGood
    <2>2. Alike(k, k1)
      <3>1. 0 \in Int
        OBVIOUS
      <3> QED  BY <1>2, <1>4, <3>1, DataAlike
    <2>3. Tame(k.c, k, {})
      BY <1>4, TameStart
    <2> HIDE DEF k1
    <2> QED  BY <2>1, <2>2, <2>3, TameStill DEF Good
  <1> HIDE DEF k1
  <1>6. Lawful(channels', wire', opened')
    BY <1>0, <1>2, <1>3, <1>4, <1>5, TakeLawful
  <1> QED  BY <1>3, <1>6

\* An eow@openssh.com request.
LEMMA EowLawful ==
    ASSUME IInv, Lawful(channels, wire, opened), NEW e \in Endpoint, channel_req_eow(e)
    PROVE  Lawful(channels', wire', opened') /\ down' = down
  <1> DEFINE k == Ctx(e, M(e).id)
             k1 == chan_rcvd_eow(k)
  <1>0. e \in Endpoint
    OBVIOUS
  <1>1. Head1(e, "EOW")
    BY DEF channel_req_eow, Handle, Unknown
  <1>2. /\ wire[e] # <<>> /\ M(e) \in ChannelMessage /\ M(e).t = "EOW" /\ Found(e, M(e).id)
        /\ M(e).id \in Slots /\ channels[e][M(e).id].inst = M(e).inst
        /\ channels[e][M(e).id].type \notin Pending \cup {"ZOMBIE", "FREE"}
    BY <1>0, <1>1, HeadFound DEF MsgTypes, Answers
  <1>3. /\ Commit(e, M(e).id, k1, FALSE) /\ TakeEmit(e, k1.out)
        /\ UNCHANGED <<opened, sentAlive, down>>
    BY <1>1, <1>2 DEF channel_req_eow, Handle, Unknown
  <1>4. k \in Good /\ k \in Context /\ k.c = channels[e][M(e).id] /\ k.out = <<>>
    BY <1>0, <1>2, CtxFacts
  <1> HIDE DEF k
  <1>5. k1 \in Context /\ Tame(k.c, k1, {})
    <2>1. k1 \in Good
      BY <1>2, <1>4, RcvdEow
    <2>2. Alike(k, k1)
      BY <1>4, ReadEndAlike
    <2>3. Tame(k.c, k, {})
      BY <1>4, TameStart
    <2> HIDE DEF k1
    <2> QED  BY <2>1, <2>2, <2>3, TameStill DEF Good
  <1> HIDE DEF k1
  <1>6. Lawful(channels', wire', opened')
    BY <1>0, <1>2, <1>3, <1>4, <1>5, TakeLawful
  <1> QED  BY <1>3, <1>6

\* An exit-status request.
LEMMA ExitStatusLawful ==
    ASSUME IInv, Lawful(channels, wire, opened), channel_req_exit_status
    PROVE  Lawful(channels', wire', opened') /\ down' = down
  <1> DEFINE e == "client"
             k == Ctx(e, M(e).id)
             k1 == [k EXCEPT !.h.exit = TRUE]
  <1>0. e \in Endpoint
    BY DEF Endpoint
  <1>1. Head1(e, "EXIT")
    BY DEF channel_req_exit_status, Handle, Unknown
  <1>2. /\ wire[e] # <<>> /\ M(e) \in ChannelMessage /\ M(e).t = "EXIT" /\ Found(e, M(e).id)
        /\ M(e).id \in Slots /\ channels[e][M(e).id].inst = M(e).inst
        /\ channels[e][M(e).id].type \notin Pending \cup {"ZOMBIE", "FREE"}
    BY <1>0, <1>1, HeadFound DEF MsgTypes, Answers
  <1>3. /\ Commit(e, M(e).id, k1, FALSE) /\ TakeEmit(e, k1.out)
        /\ UNCHANGED <<opened, sentAlive, down>>
    BY <1>1, <1>2 DEF channel_req_exit_status, Handle, Unknown
  <1>4. k \in Good /\ k \in Context /\ k.c = channels[e][M(e).id] /\ k.out = <<>>
    BY <1>0, <1>2, CtxFacts
  <1> HIDE DEF k, e
  <1>5. k1 \in Context /\ Tame(k.c, k1, {})
    <2>1. k1 \in Good
      BY <1>2, <1>4, ExitGood
    <2>2. Alike(k, k1)
      <3>1. 0 \in Int
        OBVIOUS
      <3> QED  BY <1>2, <1>4, <3>1, DataAlike
    <2>3. Tame(k.c, k, {})
      BY <1>4, TameStart
    <2> HIDE DEF k1
    <2> QED  BY <2>1, <2>2, <2>3, TameStill DEF Good
  <1> HIDE DEF k1
  <1>6. Lawful(channels', wire', opened')
    BY <1>0, <1>2, <1>3, <1>4, <1>5, TakeLawful
  <1> QED  BY <1>3, <1>6

\* A keepalive request: the channel it names may be gone, or be another one that is
\* still opening; the answer is about no channel in particular.
LEMMA KeepaliveLawful ==
    ASSUME IInv, Lawful(channels, wire, opened), channel_req_keepalive
    PROVE  Lawful(channels', wire', opened') /\ down' = down
  <1> DEFINE e == "client"
             k == Ctx(e, M(e).id)
             k1 == Reply(k, FALSE)
  <1>0. e \in Endpoint /\ Peer(e) = "server"
    BY DEF Endpoint, Peer
  <1>1. Head1(e, "KEEPALIVE")
    BY DEF channel_req_keepalive, Handle, Unknown
  <1>2. wire[e] # <<>> /\ M(e) \in ChannelMessage /\ M(e).t = "KEEPALIVE"
    BY <1>0, <1>1, IInvParts, HeadType DEF MsgTypes
  <1>3. CASE Found(e, M(e).id)
    <2>1. /\ Commit(e, M(e).id, k1, FALSE) /\ TakeEmit(e, k1.out)
          /\ UNCHANGED <<opened, sentAlive, down>>
      BY <1>1, <1>3 DEF channel_req_keepalive, Handle
    <2>2. M(e).id \in Slots /\ channels[e][M(e).id].type \notin {"FREE", "ZOMBIE"}
      BY <1>3 DEF Found
    <2>3. k \in Good /\ k \in Context /\ k.c = channels[e][M(e).id] /\ k.out = <<>>
      BY <1>0, <2>2, CtxFacts
    <2> HIDE DEF k, e
    <2>4. k1 \in Good /\ Tame(k.c, k1, {})
      <3>1. Tame(k.c, k, {})
        BY <2>3, TameStart
      <3> QED  BY <2>3, <3>1, ReplyGood, ReplyTame
    <2>5. k1.c = k.c /\ \A j \in DOMAIN k1.out : k1.out[j].t = "FAILURE"
      <3> DEFINE m == Msg("FAILURE", k.c, 0)
      <3>1. k1 = k \/ k1 = Send(k, "FAILURE", 0)
        BY DEF Reply
      <3>2. m.t = "FAILURE" /\ Send(k, "FAILURE", 0).c = k.c /\ Send(k, "FAILURE", 0).out = Append(k.out, m)
        BY <2>3 DEF Msg, Send, Context
      <3> HIDE DEF m, k1
      <3>3. DOMAIN <<>> = {} /\ Append(<<>>, m) = <<m>> /\ DOMAIN <<m>> = {1} /\ <<m>>[1] = m
        OBVIOUS
      <3> QED  BY <2>3, <3>1, <3>2, <3>3
    <2> HIDE DEF k1
    <2>6. \A j \in DOMAIN k1.out : ~Solid(Peer(e), k1.out[j])
      BY <1>0, <2>5 DEF Solid
    <2>7. Lawful(channels', wire', opened')
      BY <1>0, <1>2, <2>1, <2>2, <2>3, <2>4, <2>5, <2>6, TakeLawful DEF Good
    <2> QED  BY <2>1, <2>7
  <1>4. CASE ~Found(e, M(e).id)
    <2>1. TakeEmit(e, <<>>) /\ UNCHANGED <<channels, opened, sentAlive, down, hist>>
      BY <1>1, <1>4 DEF channel_req_keepalive, Unknown
    <2> HIDE DEF e
    <2> QED  BY <1>0, <1>2, <2>1, DropLawful
  <1> QED  BY <1>3, <1>4

\* A shell request.
LEMMA ShellLawful ==
    ASSUME IInv, Lawful(channels, wire, opened), server_input_channel_req_shell
    PROVE  Lawful(channels', wire', opened') /\ down' = down
  <1> DEFINE e == "server"
             k == Ctx(e, M(e).id)
             k1 == ShellStarted(k, M(e))
             k2 == Reply(k, FALSE)
  <1>0. e \in Endpoint
    BY DEF Endpoint
  <1>1. Head1(e, "SHELL")
    BY DEF server_input_channel_req_shell, Handle
  <1>2. /\ wire[e] # <<>> /\ M(e) \in ChannelMessage /\ M(e).t = "SHELL" /\ Found(e, M(e).id)
        /\ M(e).id \in Slots /\ channels[e][M(e).id].inst = M(e).inst
        /\ channels[e][M(e).id].type \notin Pending \cup {"ZOMBIE", "FREE"}
    BY <1>0, <1>1, HeadFound DEF MsgTypes, Answers
  <1>3. \/ /\ channels[e][M(e).id].type = "LARVAL"
           /\ Commit(e, M(e).id, k1, FALSE) /\ TakeEmit(e, k1.out)
        \/ Commit(e, M(e).id, k2, FALSE) /\ TakeEmit(e, k2.out)
    BY <1>2 DEF server_input_channel_req_shell, Handle
  <1>4. UNCHANGED <<opened, sentAlive, down>>
    BY <1>2 DEF server_input_channel_req_shell, Handle
  <1>5. k \in Good /\ k \in Context /\ k.c = channels[e][M(e).id] /\ k.out = <<>>
    BY <1>0, <1>2, CtxFacts
  <1> HIDE DEF k, e
  <1>6. channels[e][M(e).id].type = "LARVAL" => k1 \in Context /\ Tame(k.c, k1, {})
    BY <1>2, <1>5, ShellStartedGood, ShellStartedTame DEF Good
  <1>7. k2 \in Context /\ Tame(k.c, k2, {})
    <2>1. Tame(k.c, k, {})
      BY <1>5, TameStart
    <2> QED  BY <1>5, <2>1, ReplyGood, ReplyTame DEF Good
  <1> HIDE DEF k1, k2
  <1>8. CASE /\ channels[e][M(e).id].type = "LARVAL"
             /\ Commit(e, M(e).id, k1, FALSE) /\ TakeEmit(e, k1.out)
    <2>1. Lawful(channels', wire', opened')
      BY <1>0, <1>2, <1>4, <1>5, <1>6, <1>8, TakeLawful
    <2> QED  BY <1>4, <2>1
  <1>9. CASE Commit(e, M(e).id, k2, FALSE) /\ TakeEmit(e, k2.out)
    <2>1. Lawful(channels', wire', opened')
      BY <1>0, <1>2, <1>4, <1>5, <1>7, <1>9, TakeLawful
    <2> QED  BY <1>4, <2>1
  <1> QED  BY <1>3, <1>8, <1>9

\* The answer to the client's request.
LEMMA StatusLawful ==
    ASSUME IInv, Lawful(channels, wire, opened), NEW t \in {"SUCCESS", "FAILURE"},
           channel_input_status_confirm(t)
    PROVE  Lawful(channels', wire', opened') /\ down' \in {down, "exit"}
  <1> DEFINE e == "client"
             k == Ctx(e, M(e).id)
             k1 == StatusConfirm(k, M(e))
  <1>0. e \in Endpoint /\ e # "server"
    BY DEF Endpoint
  <1>1. Head1(e, t)
    BY DEF channel_input_status_confirm
  <1>2. /\ wire[e] # <<>> /\ M(e) \in ChannelMessage /\ M(e).t = t /\ Found(e, M(e).id)
        /\ M(e).id \in Slots /\ channels[e][M(e).id].inst = M(e).inst
        /\ channels[e][M(e).id].type \notin Pending \cup {"ZOMBIE", "FREE"}
    <2>1. t \in MsgTypes \ {"OPEN", "KEEPALIVE"} /\ t \notin Answers
      BY DEF MsgTypes, Answers
    <2> HIDE DEF e
    <2> QED  BY <1>0, <1>1, <2>1, HeadFound
  <1>3. CASE t = "FAILURE" /\ ~channels[e][M(e).id].mux
    <2>1. packet_disconnect("exit")
      BY <1>2, <1>3 DEF channel_input_status_confirm
    <2> QED  BY <2>1 DEF packet_disconnect
  <1>4. CASE ~(t = "FAILURE" /\ ~channels[e][M(e).id].mux)
    <2>1. /\ Commit(e, M(e).id, k1, FALSE) /\ TakeEmit(e, k1.out)
          /\ UNCHANGED <<opened, sentAlive, down>>
      BY <1>2, <1>4 DEF channel_input_status_confirm, Handle
    <2>2. k \in Good /\ k \in Context /\ k.c = channels[e][M(e).id] /\ k.out = <<>>
      BY <1>0, <1>2, CtxFacts
    <2> HIDE DEF k, e
    <2>3. k1 \in Context /\ Tame(k.c, k1, {})
      <3>1. Tame(k.c, k, {})
        BY <2>2, TameStart
      <3> QED  BY <1>2, <2>2, <3>1, StatusConfirmGood, StatusConfirmTame DEF Good
    <2> HIDE DEF k1
    <2>4. Lawful(channels', wire', opened')
      BY <1>0, <1>2, <2>1, <2>2, <2>3, TakeLawful
    <2> QED  BY <2>1, <2>4
  <1> QED  BY <1>3, <1>4

\* server_input_keep_alive().
LEMMA KeepAliveReplyLawful ==
    ASSUME IInv, Lawful(channels, wire, opened), server_input_keep_alive
    PROVE  Lawful(channels', wire', opened') /\ down' = down
  <1>1. /\ wire["server"] # <<>> /\ TakeEmit("server", <<>>) /\ M("server").t # "CONFIRM"
        /\ UNCHANGED <<channels, opened, sentAlive, down, hist>>
    BY DEF server_input_keep_alive, Head1, M
  <1>2. "server" \in Endpoint
    BY DEF Endpoint
  <1> QED  BY <1>1, <1>2, DropLawful

\* channel_output_poll().
LEMMA OutputPollLawful ==
    ASSUME IInv, Lawful(channels, wire, opened), NEW e \in Endpoint, NEW i \in Slots,
           channel_output_poll(e, i)
    PROVE  Lawful(channels', wire', opened') /\ down' = down
  <1> DEFINE k == Ctx(e, i)
             k1 == OutputExtended(OutputData(k))
  <1>1. /\ channels[e][i].type = "OPEN" /\ ~Has(channels[e][i], "CLOSE_SENT")
        /\ Commit(e, i, k1, FALSE) /\ Emit(e, k1.out) /\ UNCHANGED <<opened, sentAlive, down>>
    BY DEF channel_output_poll
  <1>2. k \in Good /\ k \in Context /\ k.c = channels[e][i] /\ k.out = <<>>
    BY <1>1, CtxFacts
  <1> HIDE DEF k
  <1>3. k1 \in Context /\ Tame(k.c, k1, {})
    <2>1. Tame(k.c, k, {})
      BY <1>2, TameStart
    <2>2. k1 \in Good
      BY <1>2, OutputDataGood, OutputExtendedGood
    <2> QED  BY <1>1, <1>2, <2>1, <2>2, OutputTame DEF Good
  <1> HIDE DEF k1
  <1>4. Lawful(channels', wire', opened')
    BY <1>1, <1>2, <1>3, LoopLawful DEF Pending
  <1> QED  BY <1>1, <1>4

\* session_exit_message(): only an open channel has a child.
LEMMA SessionExitLawful ==
    ASSUME IInv, Lawful(channels, wire, opened), NEW i \in Slots, session_exit_message(i)
    PROVE  Lawful(channels', wire', opened') /\ down' = down
  <1> DEFINE e == "server"
             k == Ctx(e, i)
             k1 == Send(k, "EXIT", 0)
             k2 == [k1 EXCEPT !.c.pid = "exited", !.c.detach_user = TRUE, !.c.detach_close = TRUE]
             k3 == IF k2.c.ostate # "CLOSED" THEN chan_write_failed2(k2) ELSE k2
  <1>0. e \in Endpoint
    BY DEF Endpoint
  <1>1. /\ channels[e][i].pid = "running"
        /\ Commit(e, i, k3, FALSE) /\ Emit(e, k3.out) /\ UNCHANGED <<opened, sentAlive, down>>
    BY DEF session_exit_message
  <1>2. channels[e][i].type = "OPEN"
    BY <1>0, <1>1 DEF Lawful, Settled, Untouched
  <1>3. k \in Good /\ k \in Context /\ k.c = channels[e][i] /\ k.out = <<>>
    BY <1>0, <1>2, CtxFacts
  <1> HIDE DEF k, e
  <1>4. k3 \in Context /\ Tame(k.c, k3, {})
    BY <1>1, <1>2, <1>3, ExitTame
  <1> HIDE DEF k3
  <1>5. Lawful(channels', wire', opened')
    BY <1>0, <1>1, <1>2, <1>3, <1>4, LoopLawful DEF Pending
  <1> QED  BY <1>1, <1>5

\* A round of the main loop on one channel.
LEMMA HandlerLawful ==
    ASSUME IInv, Lawful(channels, wire, opened), NEW e \in Endpoint, NEW i \in Slots, channel_handler(e, i)
    PROVE  Lawful(channels', wire', opened') /\ down' = down
  <1> DEFINE c == channels[e][i]
             k == Ctx(e, i)
             k0 == channel_pre(k)
             pre == channel_garbage_collect(k0)
  <1>1. c.type # "FREE" /\ c.type # "CONNECTING" /\ UNCHANGED <<opened, sentAlive, down>>
    BY DEF channel_handler, Live
  <1>2. k \in Good /\ k \in Context /\ k.c = c /\ k.out = <<>>
    BY <1>1, CtxFacts
  <1>3. c.type \in Pending => c.istate = "OPEN"
    BY DEF Lawful, Settled, Untouched
  <1>4. \/ /\ pre.free \/ c.type # "OPEN"
           /\ Commit(e, i, pre.k, pre.free) /\ Emit(e, pre.k.out)
        \/ /\ ~pre.free /\ c.type = "OPEN"
           /\ \E r \in -1 .. MaxRead[e], w, x \in -1 .. WindowMax :
                 /\ MayWrite(pre.k.c, w) /\ MayErr(pre.k.c, pre.k.h, x)
                 /\ \E z \in {channel_post_open(pre.k, r, w, x)} :
                    \E post \in {channel_garbage_collect(z)} :
                       Commit(e, i, post.k, post.free) /\ Emit(e, post.k.out)
    BY DEF channel_handler
  <1>5. k0 \in Good /\ Tame(c, k0, {}) /\ k0.c.type = c.type /\ k0.out = <<>> /\ (c.type # "OPEN" => k0 = k)
    <2>1. k0 \in Good
      BY <1>2, Pre
    <2>2. k0 = k \/ (k0 = chan_obuf_empty(k) /\ c.type = "OPEN")
      BY <1>2 DEF channel_pre
    <2>3. Alike(k, k) /\ Alike(k, chan_obuf_empty(k))
      BY <1>2, ReadEndAlike DEF Alike
    <2> HIDE DEF k0
    <2>4. Alike(k, k0)
      BY <2>2, <2>3
    <2>5. Tame(c, k, {})
      BY <1>2, TameStart
    <2> QED  BY <1>2, <2>1, <2>2, <2>4, <2>5, TameStill DEF Alike
  <1> HIDE DEF k0, k
  <1>6. /\ pre.k \in Context /\ (~pre.free => pre.k \in Good)
        /\ Tame(c, pre.k, {})
        /\ pre.free => \/ c.type = "ZOMBIE"
                       \/ Has(pre.k.c, "CLOSE_SENT") /\ Has(pre.k.c, "CLOSE_RCVD")
        /\ c.type # "ZOMBIE" /\ ~BothClosed(k0.c) => pre.k = k0
        /\ c.type = "ZOMBIE" => pre.k.out = <<>>
    BY <1>5, GarbageCollect, CollectTame
  <1>7. CASE /\ pre.free \/ c.type # "OPEN"
             /\ Commit(e, i, pre.k, pre.free) /\ Emit(e, pre.k.out)
    <2> HIDE DEF pre
    <2>1. c.type \in Pending => pre.k.c = c /\ pre.k.out = <<>>
      BY <1>2, <1>3, <1>5, <1>6 DEF Pending, BothClosed
    <2>2. Lawful(channels', wire', opened')
      BY <1>1, <1>6, <1>7, <2>1, LoopLawful
    <2> QED  BY <1>1, <2>2
  <1>8. CASE /\ ~pre.free /\ c.type = "OPEN"
             /\ \E r \in -1 .. MaxRead[e], w, x \in -1 .. WindowMax :
                   /\ MayWrite(pre.k.c, w) /\ MayErr(pre.k.c, pre.k.h, x)
                   /\ \E z \in {channel_post_open(pre.k, r, w, x)} :
                      \E post \in {channel_garbage_collect(z)} :
                         Commit(e, i, post.k, post.free) /\ Emit(e, post.k.out)
    <2> HIDE DEF pre
    <2>1. PICK r \in -1 .. MaxRead[e], w \in -1 .. WindowMax, x \in -1 .. WindowMax :
             /\ MayWrite(pre.k.c, w) /\ MayErr(pre.k.c, pre.k.h, x)
             /\ \E z \in {channel_post_open(pre.k, r, w, x)} :
                \E post \in {channel_garbage_collect(z)} :
                   Commit(e, i, post.k, post.free) /\ Emit(e, post.k.out)
      BY <1>8
    <2> DEFINE z == channel_post_open(pre.k, r, w, x)
               post == channel_garbage_collect(z)
    <2>2. Commit(e, i, post.k, post.free) /\ Emit(e, post.k.out)
      BY <2>1
    <2>3. r \in Int /\ w \in Int /\ x \in Int
      BY BoundsAssumption
    <2>4. pre.k \in Good
      BY <1>6, <1>8
    <2>5. /\ pre.k.c.output \in Nat /\ pre.k.c.extended \in Nat
      BY <2>4, Fields
    <2>6. w <= pre.k.c.output
      BY <2>1, <2>3, <2>5 DEF MayWrite
    <2>7. pre.k.c.extended_usage = "WRITE" => x <= pre.k.c.extended
      BY <2>1, <2>3, <2>5 DEF MayErr
    <2>8. z \in Good
      BY <2>3, <2>4, <2>6, <2>7, PostOpen
    <2>9. Tame(c, z, {})
      BY <1>6, <2>3, <2>4, <2>6, <2>7, PostOpenTame
    <2>10. z.c.type = "OPEN"
      BY <1>8, <2>9 DEF Tame
    <2> HIDE DEF z
    <2>11. /\ post.k \in Context /\ Tame(c, post.k, {})
           /\ post.free => Has(post.k.c, "CLOSE_SENT") /\ Has(post.k.c, "CLOSE_RCVD")
      BY <2>8, <2>9, <2>10, GarbageCollect, CollectTame
    <2> HIDE DEF post
    <2>12. Lawful(channels', wire', opened')
      BY <1>1, <1>8, <2>2, <2>11, LoopLawful DEF Pending
    <2> QED  BY <1>1, <2>12
  <1> QED  BY <1>4, <1>7, <1>8

\* One message.
LEMMA SingleFacts ==
    ASSUME NEW h \in Message, NEW e
    PROVE  <<h>> \in Seq(Message) /\ Of(<<h>>) = {h} /\ InOrder(e, <<h>>)
  <1>1. DOMAIN <<h>> = {1} /\ <<h>>[1] = h
    OBVIOUS
  <1> QED  BY <1>1 DEF Of, InOrder

\* One message is sent and the tables become X.
LEMMA SingleLawful ==
    ASSUME NEW w \in Wires, NEW e \in Endpoint, NEW h \in Message, NEW X, NEW n, Ordered(w),
           Settled(X, Box(Push(w, e, <<h>>)), n), \A a \in Box(w)[e] : Before(e, a, h)
    PROVE  Lawful(X, Push(w, e, <<h>>), n)
  <1>1. <<h>> \in Seq(Message) /\ Of(<<h>>) = {h} /\ InOrder(e, <<h>>)
    BY SingleFacts
  <1>2. \A a \in Box(w)[e], b \in Of(<<h>>) : Before(e, a, b)
    BY <1>1
  <1>3. Ordered(Push(w, e, <<h>>))
    BY <1>1, <1>2, PushFacts
  <1> QED  BY <1>3 DEF Lawful, Ordered

\* The set of messages under way after one is sent.
LEMMA SingleBox ==
    ASSUME NEW w \in Wires, NEW e \in Endpoint, NEW h \in Message
    PROVE  LET N == Box(Push(w, e, <<h>>))
           IN  N \in Mails /\ N[e] = Box(w)[e] \cup {h} /\ N[Peer(e)] = Box(w)[Peer(e)]
  <1>1. <<h>> \in Seq(Message) /\ Of(<<h>>) = {h}
    BY SingleFacts
  <1> QED  BY <1>1, PushFacts

\* A message that is about no channel is sent to e.
LEMMA NoiseLawful ==
    ASSUME NEW ch \in Tables, NEW w \in Wires, NEW n \in Nat, NEW e \in Endpoint, NEW h \in Message,
           Lawful(ch, w, n), h.t \in {"KEEPALIVE", "GLOBAL", "REQFAIL"}, h.t = "KEEPALIVE" => h.inst <= n
    PROVE  Lawful(ch, Push(w, e, <<h>>), n)
  <1> DEFINE N == Box(Push(w, e, <<h>>))
  <1>1. Ordered(w) /\ Settled(ch, Box(w), n) /\ Box(w) \in Mails
    BY BoxFacts DEF Lawful, Ordered
  <1>2. N \in Mails /\ N[e] = Box(w)[e] \cup {h} /\ N[Peer(e)] = Box(w)[Peer(e)]
    BY SingleBox
  <1> HIDE DEF N
  <1>3. Settled(ch, N, n) /\ \A a \in Box(w)[e] : Before(e, a, h)
    BY <1>1, <1>2, NoiseSettled
  <1> QED  BY <1>1, <1>3, SingleLawful DEF N

\* The client's answer to a global keepalive request.
LEMMA GlobalRequestLawful ==
    ASSUME IInv, Lawful(channels, wire, opened), client_input_global_request
    PROVE  Lawful(channels', wire', opened') /\ down' = down
  <1> DEFINE e == "client"
             h == [t |-> "REQFAIL"]
             w1 == Pop(wire, e)
  <1>1. /\ wire[e] # <<>> /\ TakeEmit(e, <<h>>) /\ M(e).t = "GLOBAL"
        /\ UNCHANGED <<channels, opened, sentAlive, down, hist>>
    BY DEF client_input_global_request, Head1, M
  <1>2. e \in Endpoint
    BY DEF Endpoint
  <1>3. h \in Message /\ h.t = "REQFAIL"
    BY DEF Message, GlobalMessage
  <1> HIDE DEF e, h
  <1>4. Lawful(channels, w1, opened)
    BY <1>1, <1>2, StateFacts, PopLawful DEF M
  <1>5. w1 \in Wires
    BY <1>1, <1>2, StateFacts, PopFacts DEF Lawful, Ordered
  <1>6. wire' = Push(w1, Peer(e), <<h>>)
    BY <1>1, <1>2, TakeWires
  <1> HIDE DEF w1
  <1>7. Lawful(channels, Push(w1, Peer(e), <<h>>), opened)
    BY <1>2, <1>3, <1>4, <1>5, StateFacts, Peers, NoiseLawful
  <1> QED  BY <1>1, <1>6, <1>7

\* client_alive_check().
LEMMA AliveLawful ==
    ASSUME IInv, Lawful(channels, wire, opened), client_alive_check
    PROVE  Lawful(channels', wire', opened') /\ down' \in {down, "timeout"}
  <1>0. "client" \in Endpoint /\ "server" \in Endpoint
    BY DEF Endpoint
  <1>1. opened' = opened /\ (ClientGone \/ AliveRequest)
    BY DEF client_alive_check
  <1>2. CASE ClientGone
    BY <1>1, <1>2 DEF ClientGone
  <1>3. CASE AliveRequest
    <2>1. ASSUME NEW h \in Message, h.t \in {"KEEPALIVE", "GLOBAL", "REQFAIL"},
                 h.t = "KEEPALIVE" => h.inst <= opened,
                 wire' = [wire EXCEPT !["client"] = Append(@, h)]
          PROVE  Lawful(channels', wire', opened') /\ down' \in {down, "timeout"}
      <3>1. wire["client"] \in Seq(Message)
        BY <1>0, StateFacts DEF Wires
      <3>2. Append(wire["client"], h) = wire["client"] \o <<h>>
        BY <3>1, <2>1
      <3>3. wire' = Push(wire, "client", <<h>>)
        BY <2>1, <3>2 DEF Push
      <3>4. Lawful(channels, Push(wire, "client", <<h>>), opened)
        BY <1>0, <2>1, StateFacts, NoiseLawful
      <3> QED  BY <1>1, <1>3, <3>3, <3>4 DEF AliveRequest
    <2>2. CASE \E i \in Slots :
                 /\ IsFirstOpen(i)
                 /\ wire' = [wire EXCEPT !["client"] =
                       Append(@, Msg("KEEPALIVE", channels["server"][i], 1))]
      <3>1. PICK i \in Slots :
                 /\ channels["server"][i].type \in {"LARVAL", "OPEN"}
                 /\ wire' = [wire EXCEPT !["client"] =
                       Append(@, Msg("KEEPALIVE", channels["server"][i], 1))]
        BY <2>2 DEF IsFirstOpen, Suitable
      <3> DEFINE h == Msg("KEEPALIVE", channels["server"][i], 1)
      <3>2. channels["server"][i] \in Channel
        BY <1>0, <3>1, StateFacts
      <3>3. h \in Message /\ h.t = "KEEPALIVE" /\ h.inst = channels["server"][i].inst
        BY <3>2 DEF Channel, Message, ChannelMessage, Msg, MsgTypes
      <3>4. h.inst <= opened
        BY <1>0, <3>3 DEF Lawful, Settled, Named
      <3> HIDE DEF h
      <3> QED  BY <2>1, <3>1, <3>3, <3>4 DEF h
    <2>3. CASE wire' = [wire EXCEPT !["client"] = Append(@, [t |-> "GLOBAL"])]
      <3> DEFINE h == [t |-> "GLOBAL"]
      <3>1. h \in Message /\ h.t = "GLOBAL"
        BY DEF Message, GlobalMessage
      <3> HIDE DEF h
      <3> QED  BY <2>1, <2>3, <3>1 DEF h
    <2> QED  BY <1>3, <2>2, <2>3 DEF AliveRequest
  <1> QED  BY <1>1, <1>2, <1>3

\* A zombie that no child holds is given up at once.
LEMMA CollectZombie ==
    ASSUME NEW k \in Context, k.c.type = "ZOMBIE", k.c.pid # "running"
    PROVE  LET g == channel_garbage_collect(k)
           IN  g.free /\ g.k.out = k.out
  <1> DEFINE d == chan_is_dead(k, k.c.detach_close)
             k1 == [d.k EXCEPT !.c = DetachUser(@)]
             g == channel_garbage_collect(k)
  <1>1. d.k = k /\ d.dead
    BY DEF chan_is_dead
  <1> HIDE DEF d
  <1>2. DetachUser(k.c).type = "ZOMBIE" /\ ~DetachUser(k.c).detach_user
    BY DEF DetachUser, Context, Channel
  <1>3. k1.c = DetachUser(k.c) /\ k1.out = k.out
    BY <1>1 DEF Context
  <1> HIDE DEF k1
  <1>4. chan_is_dead(k1, TRUE).k = k1 /\ chan_is_dead(k1, TRUE).dead
    BY <1>2, <1>3 DEF chan_is_dead
  <1>5. chan_is_dead(k, TRUE).k = k /\ chan_is_dead(k, TRUE).dead
    BY DEF chan_is_dead
  <1>6. CASE k.c.detach_user
    <2> DEFINE x == chan_is_dead(k1, TRUE)
    <2>1. g = [k |-> x.k, free |-> x.dead]
      BY <1>1, <1>2, <1>3, <1>6 DEF channel_garbage_collect, d, k1
    <2> HIDE DEF x, g
    <2>2. g.k = x.k /\ g.free = x.dead
      BY <2>1
    <2>3. x.dead /\ x.k.out = k.out
      BY <1>3, <1>4 DEF x
    <2>4. g.free /\ g.k.out = k.out
      BY <2>2, <2>3
    <2> QED  BY <2>4 DEF g
  <1>7. CASE ~k.c.detach_user
    <2> DEFINE x == chan_is_dead(k, TRUE)
    <2>1. g = [k |-> x.k, free |-> x.dead]
      BY <1>7 DEF channel_garbage_collect
    <2> HIDE DEF x, g
    <2>2. g.k = x.k /\ g.free = x.dead
      BY <2>1
    <2>3. x.dead /\ x.k.out = k.out
      BY <1>5 DEF x
    <2>4. g.free /\ g.k.out = k.out
      BY <2>2, <2>3
    <2> QED  BY <2>4 DEF g
  <1> QED  BY <1>6, <1>7

\* channel_post_connecting(): the answer to the open, and the slot released when it is
\* a refusal.
LEMMA ConnectingLawful ==
    ASSUME IInv, Lawful(channels, wire, opened), NEW e \in Endpoint, NEW i \in Slots,
           channel_post_connecting(e, i)
    PROVE  Lawful(channels', wire', opened') /\ down' = down
  <1> DEFINE c == channels[e][i]
             k == Ctx(e, i)
             p == Peer(e)
             k1 == [k EXCEPT !.c.type = "OPEN"]
             s == Send(k, "OPENFAIL", 0)
             z == chan_mark_dead(s)
             g == channel_garbage_collect(z)
  <1>1. c.type = "CONNECTING" /\ UNCHANGED <<opened, sentAlive, down>>
    BY DEF channel_post_connecting
  <1>2. k \in Good /\ k \in Context /\ k.c = c /\ k.out = <<>> /\ c \in Channel
    BY <1>1, CtxFacts DEF Context
  <1>3. c.self = i /\ c.pid = "none" /\ c.local_window \in Nat
    <2>1. UserInv(c)
      BY <1>2 DEF Good, ChanInv
    <2> QED  BY <1>1, <2>1 DEF UserInv, Lawful, Settled, Untouched, Pending
  <1>4. \/ /\ Commit(e, i, k1, FALSE)
           /\ Emit(e, <<Msg("CONFIRM", k1.c, k1.c.local_window)>>)
        \/ Commit(e, i, g.k, g.free) /\ Emit(e, g.k.out)
    BY DEF channel_post_connecting
  <1>5. p \in Endpoint /\ Peer(p) = e
    BY Peers
  <1>6. /\ Ordered(wire) /\ Settled(channels, Box(wire), opened) /\ Box(wire) \in Mails
        /\ channels \in Tables /\ wire \in Wires /\ opened \in Nat
    BY StateFacts, BoxFacts DEF Lawful, Ordered
  <1>7. ASSUME NEW h \in Message, h.id = c.remote_id, h.inst = c.inst, NEW d \in Channel \cup {FreeSlot},
               \/ /\ h.t = "CONFIRM" /\ h.who = i /\ d.type \in {"LARVAL", "OPEN"}
                  /\ d.inst = h.inst /\ d.flags = c.flags /\ d.remote_id = h.id /\ d.pid = "none"
               \/ h.t = "OPENFAIL" /\ d = FreeSlot
        PROVE  Lawful(Put(channels, e, i, d), Push(wire, p, <<h>>), opened)
    <2> DEFINE X == Put(channels, e, i, d)
               N == Box(Push(wire, p, <<h>>))
    <2>1. Sets(channels, X, e, i, d)
      BY <1>6, PutFacts DEF Sets
    <2>2. N \in Mails /\ N[p] = Box(wire)[p] \cup {h} /\ N[e] = Box(wire)[e]
      BY <1>5, <1>6, SingleBox
    <2> HIDE DEF X, N
    <2>3. Settled(X, N, opened) /\ \A a \in Box(wire)[p] : Before(p, a, h)
      BY <1>1, <1>6, <1>7, <2>1, <2>2, ConnectSettled
    <2> QED  BY <1>5, <1>6, <2>3, SingleLawful DEF X, N
  <1> HIDE DEF k, p
  <1>8. CASE Commit(e, i, k1, FALSE) /\ Emit(e, <<Msg("CONFIRM", k1.c, k1.c.local_window)>>)
    <2> DEFINE d == [c EXCEPT !.type = "OPEN"]
               h == Msg("CONFIRM", d, d.local_window)
    <2>1. k1.c = d
      BY <1>2 DEF Context
    <2>2. /\ d \in Channel /\ d.type = "OPEN" /\ d.inst = c.inst /\ d.flags = c.flags /\ d.self = c.self
          /\ d.remote_id = c.remote_id /\ d.pid = c.pid /\ d.local_window = c.local_window
      BY <1>2 DEF Channel, ChanTypes
    <2> HIDE DEF k1, d
    <2>3. /\ h \in Message /\ h.t = "CONFIRM" /\ h.who = i /\ h.inst = c.inst /\ h.id = c.remote_id
      BY <1>3, <2>2 DEF Channel, Message, ChannelMessage, Msg, MsgTypes
    <2>4. channels' = Put(channels, e, i, d) /\ wire' = Push(wire, p, <<h>>)
      BY <1>8, <2>1 DEF Commit, Emit, Put, Push, p
    <2> HIDE DEF h
    <2>5. Lawful(Put(channels, e, i, d), Push(wire, p, <<h>>), opened)
      BY <1>3, <1>7, <2>2, <2>3
    <2> QED  BY <1>1, <2>4, <2>5
  <1>9. CASE Commit(e, i, g.k, g.free) /\ Emit(e, g.k.out)
    <2> DEFINE h == Msg("OPENFAIL", c, 0)
    <2>1. /\ h \in Message /\ h.t = "OPENFAIL" /\ h.inst = c.inst /\ h.id = c.remote_id
      BY <1>2 DEF Channel, Message, ChannelMessage, Msg, MsgTypes
    <2>2. s \in Good /\ s \in Context /\ s.c = c /\ s.out = <<h>>
      <3>1. s \in Good
        BY <1>2, SendGood DEF MsgTypes
      <3>2. s.c = c /\ s.out = Append(<<>>, h)
        BY <1>2 DEF Send, Context
      <3> HIDE DEF h, s
      <3> QED  BY <3>1, <3>2 DEF Good
    <2> HIDE DEF s
    <2>3. z \in Context /\ z.c.type = "ZOMBIE" /\ z.c.pid = c.pid /\ z.out = s.out
      <3>1. z \in Context
        BY <2>2, MarkDead DEF Good
      <3> QED  BY <2>2, <3>1 DEF chan_mark_dead, Context, Channel
    <2> HIDE DEF z, h
    <2>4. g.free /\ g.k.out = <<h>>
      BY <1>3, <2>2, <2>3, CollectZombie
    <2> HIDE DEF g
    <2>5. channels' = Put(channels, e, i, FreeSlot) /\ wire' = Push(wire, p, <<h>>)
      BY <1>9, <2>4 DEF Commit, Emit, Put, Push, p
    <2>6. Lawful(Put(channels, e, i, FreeSlot), Push(wire, p, <<h>>), opened)
      BY <1>7, <2>1
    <2> QED  BY <1>1, <2>5, <2>6
  <1> QED  BY <1>4, <1>8, <1>9

\* channel_send_open().
LEMMA SendOpenLawful ==
    ASSUME IInv, Lawful(channels, wire, opened), NEW kind \in Kinds, channel_send_open(kind[1], kind[2])
    PROVE  Lawful(channels', wire', opened') /\ down' = down
  <1> DEFINE e == kind[1]
             p == Peer(e)
             ses == kind[2] # "tcpip"
             mux == kind[2] = "mux"
             ctype == IF ses THEN "session" ELSE "tcpip"
             usage == IF ses THEN "WRITE" ELSE "IGNORE"
             new(i) == channel_new(ctype, "OPENING", i, WindowMax, usage, opened + 1)
             d(i) == [new(i) EXCEPT !.detach_user = ses, !.detach_close = mux, !.mux = mux]
             h(i) == Msg("OPEN", d(i), WindowMax)
  <1>1. e \in Endpoint /\ ctype \in {"session", "tcpip"} /\ usage \in {"IGNORE", "WRITE"}
    BY BoundsAssumption DEF Endpoint
  <1>2. opened' = opened + 1 /\ opened < MaxOpen /\ UNCHANGED <<sentAlive, down, hist>>
    BY DEF channel_send_open
  <1>3. opened + 1 \in Insts /\ WindowMax \in Nat
    BY <1>2, IInvParts, BoundsAssumption DEF RestInv, Insts
  <1>4. PICK i \in Slots : /\ IsNewSlot(e, i)
                           /\ channels' = [channels EXCEPT ![e][i] = d(i)]
                           /\ Emit(e, <<h(i)>>)
    BY DEF channel_send_open
  <1>5. channels[e][i].type = "FREE"
    BY <1>4 DEF IsNewSlot, Live
  <1>6. /\ new(i) \in Channel /\ new(i).flags = {} /\ new(i).type = "OPENING" /\ new(i).pid = "none"
        /\ new(i).self = i /\ new(i).inst = opened + 1
        /\ new(i).istate = "OPEN" /\ new(i).ostate = "OPEN"
    <2>1. "OPENING" \in ChanTypes
      BY DEF ChanTypes
    <2>2. new(i) = channel_new(ctype, "OPENING", i, WindowMax, usage, opened + 1)
      OBVIOUS
    <2>3. new(i).self = i /\ new(i).inst = opened + 1 /\ new(i).istate = "OPEN" /\ new(i).ostate = "OPEN"
      BY DEF channel_new
    <2> HIDE DEF usage, ctype, new
    <2> QED  BY <1>1, <1>3, <2>1, <2>2, <2>3, NewChannel
  <1> HIDE DEF new
  <1>7. /\ d(i) \in Channel /\ d(i).flags = {} /\ d(i).type = "OPENING" /\ d(i).pid = "none"
        /\ d(i).self = i /\ d(i).inst = opened + 1
        /\ d(i).istate = "OPEN" /\ d(i).ostate = "OPEN"
    <2>1. ses \in BOOLEAN /\ mux \in BOOLEAN
      OBVIOUS
    <2> HIDE DEF ses, mux
    <2> QED  BY <1>6, <2>1 DEF Channel
  <1> HIDE DEF d
  <1>8. h(i) \in Message /\ h(i).t = "OPEN" /\ h(i).who = i /\ h(i).inst = opened + 1
    BY <1>3, <1>7 DEF Channel, Message, ChannelMessage, Msg, MsgTypes
  <1>9. /\ Ordered(wire) /\ Settled(channels, Box(wire), opened) /\ Box(wire) \in Mails
        /\ channels \in Tables /\ wire \in Wires /\ opened \in Nat
    BY StateFacts, BoxFacts DEF Lawful, Ordered
  <1> DEFINE X == Put(channels, e, i, d(i))
             N == Box(Push(wire, p, <<h(i)>>))
  <1>10. channels' = X /\ wire' = Push(wire, p, <<h(i)>>)
    BY <1>4 DEF Emit, Put, Push
  <1> HIDE DEF h, e
  <1>11. p \in Endpoint /\ Peer(p) = e
    BY <1>1, Peers
  <1>12. Sets(channels, X, e, i, d(i))
    BY <1>1, <1>7, <1>9, PutFacts DEF Sets
  <1> HIDE DEF p
  <1>13. N \in Mails /\ N[p] = Box(wire)[p] \cup {h(i)} /\ N[e] = Box(wire)[e]
    BY <1>8, <1>9, <1>11, SingleBox
  <1> HIDE DEF X, N
  <1>14. Settled(X, N, opened + 1) /\ \A a \in Box(wire)[p] : Before(p, a, h(i))
    BY <1>1, <1>5, <1>7, <1>8, <1>9, <1>12, <1>13, OpenSettled DEF p
  <1>15. Lawful(X, Push(wire, p, <<h(i)>>), opened + 1)
    BY <1>8, <1>9, <1>11, <1>14, SingleLawful DEF N
  <1> QED  BY <1>2, <1>10, <1>15

\* Nothing is sent.
LEMMA PushNothing ==
    ASSUME NEW w \in Wires, NEW e \in Endpoint
    PROVE  Push(w, e, <<>>) = w
  <1>1. w[e] \in Seq(Message)
    BY DEF Wires
  <1>2. w[e] \o <<>> = w[e]
    BY <1>1
  <1> QED  BY <1>2 DEF Push, Wires

\* A slot is written twice.
LEMMA PutTwice ==
    ASSUME NEW ch \in Tables, NEW p \in Endpoint, NEW i \in Slots, NEW d \in Channel, NEW z \in Channel
    PROVE  Put(Put(ch, p, i, d), p, i, z) = Put(ch, p, i, z)
  BY DEF Put, Tables

\* The first message for e and the rest, in a lawful state.
LEMMA PopAll ==
    ASSUME IInv, Lawful(channels, wire, opened), NEW e \in Endpoint, wire[e] # <<>>
    PROVE  /\ channels \in Tables /\ wire \in Wires /\ opened \in Nat
           /\ Ordered(wire) /\ Settled(channels, Box(wire), opened) /\ Box(wire) \in Mails
           /\ Pop(wire, e) \in Wires /\ Box(Pop(wire, e)) \in Mails /\ Ordered(Pop(wire, e))
           /\ M(e) \in Message /\ M(e) \in Box(wire)[e]
           /\ Box(Pop(wire, e))[e] \subseteq Box(wire)[e]
           /\ Box(wire)[e] \subseteq Box(Pop(wire, e))[e] \cup {M(e)}
           /\ Box(Pop(wire, e))[Peer(e)] = Box(wire)[Peer(e)]
           /\ \A b \in Box(Pop(wire, e))[e] : Before(e, M(e), b)
  <1>1. /\ channels \in Tables /\ wire \in Wires /\ opened \in Nat /\ Box(wire) \in Mails
    BY StateFacts, BoxFacts
  <1>2. Ordered(wire) /\ Settled(channels, Box(wire), opened)
    BY DEF Lawful, Ordered
  <1>3. M(e) = Head(wire[e])
    BY DEF M
  <1> QED  BY <1>1, <1>2, <1>3, PopFacts

\* input_channel_open(): the channel is made, and a session is confirmed at once; or the
\* request is refused.
LEMMA InputOpenLawful ==
    ASSUME IInv, Lawful(channels, wire, opened), NEW e \in Endpoint, input_channel_open(e)
    PROVE  Lawful(channels', wire', opened') /\ down' = down
  <1> DEFINE m == M(e)
             p == Peer(e)
             w1 == Pop(wire, e)
             ses == m.ctype = "session"
  <1>1. m \in ChannelMessage /\ wire[e] # <<>> /\ m.t = "OPEN"
    BY IInvParts, HeadType DEF input_channel_open, MsgTypes
  <1>2. /\ m.ctype \in {"session", "tcpip"} /\ m.inst \in Insts
        /\ m.who \in Nat /\ m.n \in Nat /\ m.id \in Int
    BY <1>1 DEF ChannelMessage
  <1>3. UNCHANGED <<opened, sentAlive, down, hist>>
    BY DEF input_channel_open
  <1>4. p \in Endpoint /\ Peer(p) = e /\ p = Peer(e)
    BY Peers
  <1>5. /\ channels \in Tables /\ wire \in Wires /\ opened \in Nat
        /\ Ordered(wire) /\ Settled(channels, Box(wire), opened) /\ Box(wire) \in Mails
        /\ w1 \in Wires /\ Box(w1) \in Mails /\ Ordered(w1)
        /\ m \in Message /\ m \in Box(wire)[e]
        /\ Box(w1)[e] \subseteq Box(wire)[e] /\ Box(wire)[e] \subseteq Box(w1)[e] \cup {m}
        /\ Box(w1)[p] = Box(wire)[p]
        /\ \A b \in Box(w1)[e] : Before(e, m, b)
    BY <1>1, PopAll
  <1> DEFINE type == IF ses THEN "LARVAL" ELSE "CONNECTING"
             window == IF ses THEN 0 ELSE WindowMax
             new(i) == channel_new(m.ctype, type, i, window, "IGNORE", m.inst)
             d(i) == [new(i) EXCEPT !.remote_id = m.who, !.remote_window = m.n, !.detach_user = ses]
             h(i) == Msg("CONFIRM", d(i), 0)
             refusal == [m EXCEPT !.t = "OPENFAIL", !.id = m.who]
  <1>6. ASSUME NEW out, TakeEmit(e, out)
        PROVE  wire' = Push(w1, p, out)
    BY <1>6, TakeWires
  <1>7. \/ \E i \in Slots :
              /\ IsNewSlot(e, i) /\ channels' = [channels EXCEPT ![e][i] = d(i)]
              /\ TakeEmit(e, IF ses THEN <<h(i)>> ELSE <<>>)
        \/ UNCHANGED channels /\ TakeEmit(e, <<refusal>>)
    BY DEF input_channel_open
  <1>8. \A b \in Box(w1)[e] : b.t = "OPEN" => b.inst # m.inst
    <2> HIDE DEF m, w1
    <2> QED  BY <1>1, <1>5 DEF Before, Real, MsgTypes
  <1> HIDE DEF p, w1
  <1>9. CASE \E i \in Slots :
              /\ IsNewSlot(e, i) /\ channels' = [channels EXCEPT ![e][i] = d(i)]
              /\ TakeEmit(e, IF ses THEN <<h(i)>> ELSE <<>>)
    <2>1. PICK i \in Slots :
              /\ IsNewSlot(e, i) /\ channels' = [channels EXCEPT ![e][i] = d(i)]
              /\ TakeEmit(e, IF ses THEN <<h(i)>> ELSE <<>>)
      BY <1>9
    <2>2. channels[e][i].type = "FREE"
      BY <2>1 DEF IsNewSlot, Live
    <2>3. wire' = Push(w1, p, IF ses THEN <<h(i)>> ELSE <<>>)
      BY <1>6, <2>1
    <2>4. /\ new(i) \in Channel /\ new(i).flags = {} /\ new(i).pid = "none" /\ new(i).type = type
          /\ new(i).self = i /\ new(i).inst = m.inst /\ new(i).istate = "OPEN" /\ new(i).ostate = "OPEN"
      <3>1. type \in ChanTypes /\ window \in Nat
        BY BoundsAssumption DEF ChanTypes
      <3>2. /\ new(i).self = i /\ new(i).inst = m.inst
            /\ new(i).istate = "OPEN" /\ new(i).ostate = "OPEN"
        BY DEF channel_new
      <3>3. new(i) = channel_new(m.ctype, type, i, window, "IGNORE", m.inst)
        OBVIOUS
      <3> HIDE DEF type, window, new, m, ses
      <3> QED  BY <1>2, <3>1, <3>2, <3>3, NewChannel
    <2> HIDE DEF new
    <2>5. /\ d(i) \in Channel /\ d(i).flags = {} /\ d(i).pid = "none" /\ d(i).type = type
          /\ d(i).self = i /\ d(i).inst = m.inst /\ d(i).istate = "OPEN" /\ d(i).ostate = "OPEN"
          /\ d(i).remote_id = m.who
      <3>1. ses \in BOOLEAN /\ m.who \in Int /\ m.n \in Int
        BY <1>2
      <3> HIDE DEF ses, m, type
      <3> QED  BY <2>4, <3>1 DEF Channel
    <2> HIDE DEF d
    <2> DEFINE d0 == [d(i) EXCEPT !.type = "CONNECTING"]
               X0 == Put(channels, e, i, d0)
               X == Put(channels, e, i, d(i))
    <2>6. channels' = X
      BY <2>1 DEF Put
    <2>7. /\ d0 \in Channel /\ d0.flags = {} /\ d0.pid = "none" /\ d0.type = "CONNECTING"
          /\ d0.self = i /\ d0.inst = m.inst /\ d0.istate = "OPEN" /\ d0.ostate = "OPEN"
          /\ d0.remote_id = m.who
      <3> HIDE DEF m, type
      <3> QED  BY <2>5 DEF Channel, ChanTypes
    <2>8. ~ses => d0 = d(i)
      BY <2>5 DEF Channel
    <2> HIDE DEF d0
    <2>9. X0 \in Tables /\ X0[e][i] = d0 /\ Sets(channels, X0, e, i, d0)
      BY <1>5, <2>7, PutFacts DEF Sets
    <2>10. X = Put(X0, e, i, d(i))
      BY <1>5, <2>5, <2>7, PutTwice
    <2>11. Sets(X0, X, e, i, d(i))
      BY <2>5, <2>9, <2>10, PutFacts DEF Sets
    <2>12. ~ses => X = X0
      BY <2>8
    <2> HIDE DEF m, X, X0
    <2>13. Settled(X0, Box(w1), opened)
      BY <1>1, <1>4, <1>5, <1>8, <2>2, <2>7, <2>9, AcceptSettled
    <2>14. CASE ses
      <3> DEFINE N == Box(Push(w1, p, <<h(i)>>))
      <3>1. /\ h(i) \in Message /\ h(i).t = "CONFIRM" /\ h(i).who = i /\ h(i).inst = d(i).inst
            /\ h(i).id = d(i).remote_id
        BY <2>5 DEF Channel, Message, ChannelMessage, Msg, MsgTypes
      <3>2. wire' = Push(w1, p, <<h(i)>>)
        BY <2>3, <2>14
      <3>3. d(i).type = "LARVAL"
        BY <2>5, <2>14
      <3> HIDE DEF h, type, ses
      <3>4. N \in Mails /\ N[p] = Box(w1)[p] \cup {h(i)} /\ N[e] = Box(w1)[e]
        BY <1>4, <1>5, <3>1, SingleBox
      <3> HIDE DEF N
      <3>5. Settled(X, N, opened) /\ \A a \in Box(w1)[p] : Before(p, a, h(i))
        <4>1. /\ X0[e][i].type = "CONNECTING" /\ h(i).id = X0[e][i].remote_id /\ h(i).inst = X0[e][i].inst
              /\ h(i).t = "CONFIRM" /\ h(i).who = i /\ d(i).type \in {"LARVAL", "OPEN"}
              /\ d(i).inst = h(i).inst /\ d(i).flags = X0[e][i].flags /\ d(i).remote_id = h(i).id
              /\ d(i).pid = "none"
          BY <2>5, <2>7, <2>9, <3>1, <3>3
        <4>2. N[Peer(e)] = Box(w1)[Peer(e)] \cup {h(i)}
          BY <1>4, <3>4
        <4>3. Settled(X, N, opened) /\ \A a \in Box(w1)[Peer(e)] : Before(Peer(e), a, h(i))
          BY <1>5, <2>9, <2>11, <2>13, <3>1, <3>4, <4>1, <4>2, ConnectSettled
        <4> QED  BY <1>4, <4>3
      <3>6. Lawful(X, Push(w1, p, <<h(i)>>), opened)
        BY <1>4, <1>5, <3>1, <3>5, SingleLawful DEF N
      <3> QED  BY <1>3, <2>6, <3>2, <3>6
    <2>15. CASE ~ses
      <3>1. wire' = Push(w1, p, <<>>)
        BY <2>3, <2>15
      <3>2. wire' = w1
        BY <1>4, <1>5, <3>1, PushNothing
      <3>3. Settled(X, Box(w1), opened)
        BY <2>12, <2>13, <2>15
      <3>4. Lawful(X, w1, opened)
        BY <1>5, <3>3 DEF Lawful, Ordered
      <3> QED  BY <1>3, <2>6, <3>2, <3>4
    <2> QED  BY <2>14, <2>15
  <1>10. CASE UNCHANGED channels /\ TakeEmit(e, <<refusal>>)
    <2>1. wire' = Push(w1, p, <<refusal>>)
      BY <1>6, <1>10
    <2>2. /\ refusal \in Message /\ refusal.t = "OPENFAIL" /\ refusal.id = m.who /\ refusal.inst = m.inst
      <3>1. \A a \in ChannelMessage, n \in Int :
               /\ [a EXCEPT !.t = "OPENFAIL", !.id = n] \in Message
               /\ [a EXCEPT !.t = "OPENFAIL", !.id = n].t = "OPENFAIL"
               /\ [a EXCEPT !.t = "OPENFAIL", !.id = n].id = n
               /\ [a EXCEPT !.t = "OPENFAIL", !.id = n].inst = a.inst
        BY DEF Message, ChannelMessage, MsgTypes
      <3>2. m.who \in Int
        BY <1>2
      <3> HIDE DEF m
      <3> QED  BY <1>1, <3>1, <3>2
    <2> HIDE DEF refusal, m
    <2> DEFINE N == Box(Push(w1, p, <<refusal>>))
    <2>3. N \in Mails /\ N[p] = Box(w1)[p] \cup {refusal} /\ N[e] = Box(w1)[e]
      BY <1>4, <1>5, <2>2, SingleBox
    <2> HIDE DEF N
    <2>4. Settled(channels, N, opened) /\ \A a \in Box(wire)[p] : Before(p, a, refusal)
      BY <1>1, <1>4, <1>5, <1>8, <2>2, <2>3, RefuseSettled
    <2>5. Lawful(channels, Push(w1, p, <<refusal>>), opened)
      BY <1>4, <1>5, <2>2, <2>4, SingleLawful DEF N
    <2> QED  BY <1>3, <1>10, <2>1, <2>5
  <1> QED  BY <1>7, <1>9, <1>10

\* channel_input_open_failure().
LEMMA FailureLawful ==
    ASSUME IInv, Lawful(channels, wire, opened), NEW e \in Endpoint, channel_input_open_failure(e)
    PROVE  Lawful(channels', wire', opened') /\ down' = down
  <1> DEFINE k == Ctx(e, M(e).id)
             k1 == chan_mark_dead(k)
             h == M(e)
             i == h.id
             p == Peer(e)
             w1 == Pop(wire, e)
             c == channels[e][i]
  <1>1. Head1(e, "OPENFAIL")
    BY DEF channel_input_open_failure, Handle
  <1>2. /\ wire[e] # <<>> /\ h.t = "OPENFAIL" /\ Found(e, i) /\ i \in Slots /\ c.inst = h.inst
        /\ c.type = "OPENING"
    BY <1>1, HeadFound DEF MsgTypes, Answers
  <1>3. /\ Commit(e, i, k1, FALSE) /\ TakeEmit(e, k1.out) /\ UNCHANGED <<opened, sentAlive, down>>
    BY <1>1, <1>2 DEF channel_input_open_failure, Handle
  <1>4. k \in Good /\ k \in Context /\ k.c = c /\ k.out = <<>>
    BY <1>2, CtxFacts
  <1>5. /\ channels \in Tables /\ wire \in Wires /\ opened \in Nat
        /\ Settled(channels, Box(wire), opened) /\ Box(wire) \in Mails
        /\ w1 \in Wires /\ Box(w1) \in Mails /\ h \in Box(wire)[e]
        /\ Box(w1)[e] \subseteq Box(wire)[e] /\ Box(w1)[p] = Box(wire)[p]
        /\ \A b \in Box(w1)[e] : Before(e, h, b)
    BY <1>2, PopAll
  <1>6. Lawful(channels, w1, opened)
    BY <1>2, <1>5, PopLawful DEF M
  <1>7. p \in Endpoint /\ Peer(p) = e
    BY Peers
  <1> HIDE DEF k
  <1>8. /\ k1.c \in Channel /\ k1.c.type = "ZOMBIE" /\ k1.c.inst = c.inst /\ k1.c.flags = c.flags
        /\ k1.c.pid = c.pid /\ k1.out = <<>>
    <2>1. k1 \in Context
      BY <1>4, MarkDead DEF Good
    <2> QED  BY <1>4, <2>1 DEF chan_mark_dead, Context, Channel
  <1>9. wire' = Push(w1, p, k1.out) /\ channels' = Put(channels, e, i, k1.c)
    BY <1>3, TakeWires DEF Commit, Put
  <1> DEFINE X == Put(channels, e, i, k1.c)
  <1>10. wire' = w1
    BY <1>5, <1>7, <1>8, <1>9, PushNothing
  <1> HIDE DEF k1, w1, h
  <1>11. Sets(channels, X, e, i, k1.c)
    BY <1>2, <1>5, <1>8, PutFacts DEF Sets
  <1>12. c.pid = "none"
    BY <1>2, <1>5 DEF Settled, Untouched
  <1>13. \A m \in Box(w1)[e] : Solid(e, m) => m.inst # k1.c.inst
    BY <1>2, <1>5, <1>8 DEF Before, Solid, Real, MsgTypes
  <1>14. \A m \in Box(w1)[p] : m.t = "OPEN" => m.inst # k1.c.inst
    <2>1. Solid(e, h)
      BY <1>2 DEF Solid, Real, MsgTypes
    <2> QED  BY <1>2, <1>5, <1>7, <1>8, <2>1 DEF Settled, Asked
  <1>15. \A j \in Slots : channels[p][j].inst # k1.c.inst
    BY <1>2, <1>5, <1>7, <1>8 DEF Settled, Marked
  <1> HIDE DEF X
  <1>16. Settled(X, Box(w1), opened)
    <2>1. Settled(channels, Box(w1), opened)
      BY <1>6 DEF Lawful
    <2> QED  BY <1>2, <1>5, <1>8, <1>11, <1>12, <1>13, <1>14, <1>15, <2>1, BurySettled
  <1>17. Lawful(X, w1, opened)
    BY <1>6, <1>16 DEF Lawful
  <1> QED  BY <1>3, <1>9, <1>10, <1>17 DEF X

\* The open_confirm callback, once the channel is open.
LEMMA OpenConfirmedTame ==
    ASSUME NEW k \in Good, NEW m \in ChannelMessage, k.c.type = "OPENING", k.out = <<>>, k.c.flags = {}, NEW R
    PROVE  \E d \in Channel :
              /\ d.type = "OPEN" /\ d.inst = k.c.inst /\ d.flags = k.c.flags /\ d.remote_id = m.who
              /\ Tame(d, OpenConfirmed(k, m), R) /\ OpenConfirmed(k, m) \in Context
  <1> DEFINE d == [k.c EXCEPT !.remote_id = m.who, !.type = "OPEN", !.remote_window = m.n]
             k1 == WithC(k, d)
             k2 == Send(k1, "SHELL", 1)
             z == [k2 EXCEPT !.c.confirms = @ + 1]
  <1>1. m.who \in Int /\ m.n \in Int
    BY DEF ChannelMessage
  <1>2. k \in Context /\ k.c \in Channel
    BY DEF Good, Context
  <1>3. d \in Channel /\ d.flags = k.c.flags /\ d.inst = k.c.inst /\ d.type = "OPEN" /\ d.remote_id = m.who
    BY <1>1, <1>2 DEF Channel, ChanTypes
  <1>4. [k EXCEPT !.c.remote_id = m.who, !.c.type = "OPEN", !.c.remote_window = m.n] = k1
    BY <1>2 DEF WithC, Context
  <1>5. OpenConfirmed(k, m) \in {k1, z}
    BY <1>4 DEF OpenConfirmed
  <1> HIDE DEF d
  <1>6. k1 \in Context /\ k1.c = d /\ k1.out = <<>>
    BY <1>2, <1>3 DEF Context, WithC
  <1> HIDE DEF k1
  <1>7. Tame(d, k1, R)
    BY <1>6, TameStart
  <1>8. ~Has(k1.c, "CLOSE_SENT")
    BY <1>3, <1>6 DEF Has
  <1>9. Alike(k2, z)
    <2>1. k2 \in Context
      BY <1>6, SendType DEF MsgTypes
    <2> HIDE DEF k2
    <2> QED  BY <2>1 DEF Alike, Context, Channel
  <1>10. Tame(d, z, R)
    <2>1. "SHELL" \in MsgTypes \ {"OPEN", "CONFIRM", "OPENFAIL", "KEEPALIVE"} /\ 1 \in Nat
      BY DEF MsgTypes
    <2> HIDE DEF z
    <2> QED  BY <1>6, <1>7, <1>8, <1>9, <2>1, SendAlikeTame
  <1> HIDE DEF z
  <1>11. Tame(d, OpenConfirmed(k, m), R)
    BY <1>5, <1>7, <1>10
  <1>12. OpenConfirmed(k, m) \in Context
    BY OpenConfirmedGood DEF Good
  <1> QED  BY <1>3, <1>11, <1>12

\* channel_input_open_confirmation().
LEMMA ConfirmationLawful ==
    ASSUME IInv, Lawful(channels, wire, opened), NEW e \in Endpoint, channel_input_open_confirmation(e)
    PROVE  Lawful(channels', wire', opened') /\ down' = down
  <1> DEFINE k == Ctx(e, M(e).id)
             k1 == OpenConfirmed(k, M(e))
             h == M(e)
             i == h.id
             p == Peer(e)
             w1 == Pop(wire, e)
             c == channels[e][i]
  <1>1. Head1(e, "CONFIRM")
    BY DEF channel_input_open_confirmation, Handle
  <1>2. /\ wire[e] # <<>> /\ h \in ChannelMessage /\ h.t = "CONFIRM" /\ Found(e, i) /\ i \in Slots
        /\ c.inst = h.inst /\ c.type = "OPENING"
    BY <1>1, HeadFound DEF MsgTypes, Answers
  <1>3. /\ Commit(e, i, k1, FALSE) /\ TakeEmit(e, k1.out) /\ UNCHANGED <<opened, sentAlive, down>>
    BY <1>1, <1>2 DEF channel_input_open_confirmation, Handle
  <1>4. k \in Good /\ k.c = c /\ k.out = <<>>
    BY <1>2, CtxFacts
  <1>5. /\ channels \in Tables /\ wire \in Wires /\ opened \in Nat
        /\ Settled(channels, Box(wire), opened) /\ Box(wire) \in Mails
        /\ w1 \in Wires /\ Box(w1) \in Mails /\ Ordered(w1) /\ h \in Box(wire)[e]
        /\ Box(w1)[e] \subseteq Box(wire)[e] /\ Box(wire)[e] \subseteq Box(w1)[e] \cup {h}
        /\ Box(w1)[p] = Box(wire)[p]
        /\ \A b \in Box(w1)[e] : Before(e, h, b)
    BY <1>2, PopAll
  <1>6. c.flags = {}
    BY <1>2, <1>5 DEF Settled, Untouched, Pending
  <1>7. wire' = Push(w1, p, k1.out) /\ channels' = Put(channels, e, i, k1.c)
    BY <1>3, TakeWires DEF Commit, Put
  <1> HIDE DEF k
  <1>8. PICK d \in Channel :
            /\ d.type = "OPEN" /\ d.inst = k.c.inst /\ d.flags = k.c.flags /\ d.remote_id = h.who
            /\ Tame(d, k1, {}) /\ k1 \in Context
    BY <1>2, <1>4, <1>6, OpenConfirmedTame
  <1> HIDE DEF k1, w1, h
  <1> DEFINE X == Put(channels, e, i, d)
  <1>9. X \in Tables /\ X[e][i] = d /\ Sets(channels, X, e, i, d)
    BY <1>2, <1>5, PutFacts DEF Sets
  <1>10. Put(X, e, i, k1.c) = Put(channels, e, i, k1.c)
    <2>1. k1.c \in Channel
      BY <1>8 DEF Context
    <2> QED  BY <1>2, <1>5, <2>1, PutTwice
  <1> HIDE DEF X
  <1>11. \A m \in Box(w1)[e] : m.t \in Answers => m.inst # h.inst
    <2>1. Solid(e, h) /\ Real(h)
      BY <1>2 DEF Solid, Real, MsgTypes
    <2>2. \A m : m.t \in Answers => Real(m)
      BY DEF Answers, Real, MsgTypes
    <2> QED  BY <1>5, <2>1, <2>2 DEF Before
  <1>12. Settled(X, Box(w1), opened)
    BY <1>2, <1>4, <1>5, <1>8, <1>9, <1>11, ConfirmSettled
  <1>13. Lawful(X, w1, opened)
    BY <1>5, <1>12 DEF Lawful, Ordered
  <1>14. Lawful(Put(X, e, i, IF FALSE THEN FreeSlot ELSE k1.c), Push(w1, p, k1.out), opened)
    <2>1. /\ X[e][i].type # "FREE" /\ X[e][i].type # "ZOMBIE" /\ X[e][i].type \notin Pending
          /\ Tame(X[e][i], k1, {})
      BY <1>8, <1>9 DEF Pending
    <2> QED  BY <1>2, <1>5, <1>8, <1>9, <1>13, <2>1, StepLawful
  <1> QED  BY <1>3, <1>7, <1>10, <1>14

----------------------------------------------------------------------------
(* The theorem.                                                            *)

\* The inductive invariant.
ProtoInv == IInv /\ Lawful(channels, wire, opened) /\ NeverDisconnected

\* A message is taken, whatever it is.
LEMMA ReceiveLawful ==
    ASSUME IInv, Lawful(channels, wire, opened), NEW e \in Endpoint, Receive(e)
    PROVE  Lawful(channels', wire', opened') /\ down' = down
  BY InputOpenLawful, ConfirmationLawful, FailureLawful, DataLawful, ExtendedLawful,
     IeofLawful, OcloseLawful, AdjustLawful, EowLawful DEF Receive

\* The empty tables and wires are lawful.
LEMMA InitProto == Init => ProtoInv
  <1> SUFFICES ASSUME Init PROVE ProtoInv
    OBVIOUS
  <1>1. IInv
    BY InitInv
  <1>2. /\ FreeSlot.type = "FREE" /\ FreeSlot.inst = 0 /\ FreeSlot.flags = {} /\ FreeSlot.pid = "none"
    BY DEF FreeSlot
  <1>3. /\ \A e \in Endpoint, i \in Slots :
              /\ channels[e][i].type = "FREE" /\ channels[e][i].inst = 0
              /\ channels[e][i].flags = {} /\ channels[e][i].pid = "none"
        /\ opened = 0 /\ down = "none"
    BY <1>2 DEF Init
  <1>4. \A e \in Endpoint : DOMAIN wire[e] = {} /\ Box(wire)[e] = {}
    BY DEF Init, Box, Of
  <1>5. \A e \in Endpoint : Peer(e) \in Endpoint
    BY Peers
  <1>6. Settled(channels, Box(wire), opened)
    <2>1. Unique(channels) /\ Named(channels, Box(wire), opened) /\ Untouched(channels)
      BY <1>3, <1>4 DEF Unique, Named, Untouched, Pending
    <2>2. Addressed(channels, Box(wire)) /\ Announced(channels, Box(wire))
      BY <1>4 DEF Addressed, Announced
    <2>3. Linked(channels, Box(wire)) /\ Finished(channels, Box(wire))
      BY <1>3 DEF Linked, Talks, Finished, Has
    <2>4. Unanswered(channels, Box(wire)) /\ Marked(channels, Box(wire))
      BY <1>4, <1>5 DEF Unanswered, Marked
    <2>5. Asked(channels, Box(wire)) /\ Confirming(channels, Box(wire))
      BY <1>4 DEF Asked, Confirming
    <2> QED  BY <2>1, <2>2, <2>3, <2>4, <2>5 DEF Settled
  <1>7. \A e \in Endpoint : InOrder(e, wire[e])
    BY <1>4 DEF InOrder
  <1> QED  BY <1>1, <1>3, <1>6, <1>7 DEF ProtoInv, Lawful, NeverDisconnected

\* Every step keeps the invariant.
LEMMA NextProto == ProtoInv /\ [Next]_vars => ProtoInv'
  <1> SUFFICES ASSUME IInv, Lawful(channels, wire, opened), NeverDisconnected, [Next]_vars
               PROVE  Lawful(channels', wire', opened') /\ down' \in {down, "exit", "timeout"}
    <2>1. IInv /\ [Next]_vars => IInv'
      BY NextInv
    <2> QED  BY <2>1 DEF ProtoInv, NeverDisconnected
  <1>1. "client" \in Endpoint /\ "server" \in Endpoint
    BY DEF Endpoint
  <1>2. CASE \E kind \in Kinds : channel_send_open(kind[1], kind[2])
    BY <1>2, SendOpenLawful
  <1>3. CASE ClientReceive
    BY <1>1, <1>3, ReceiveLawful, ExitStatusLawful, KeepaliveLawful, StatusLawful, GlobalRequestLawful
    DEF ClientReceive
  <1>4. CASE ServerReceive
    BY <1>1, <1>4, ReceiveLawful, ShellLawful, KeepAliveReplyLawful DEF ServerReceive
  <1>5. CASE \E e \in Endpoint, i \in Slots :
               \/ channel_handler(e, i)
               \/ channel_post_connecting(e, i)
               \/ channel_output_poll(e, i)
    BY <1>5, HandlerLawful, ConnectingLawful, OutputPollLawful
  <1>6. CASE \E i \in Slots : session_exit_message(i)
    BY <1>6, SessionExitLawful
  <1>7. CASE client_alive_check
    BY <1>7, AliveLawful
  <1>8. CASE UNCHANGED vars
    BY <1>8 DEF vars
  <1> QED  BY <1>2, <1>3, <1>4, <1>5, <1>6, <1>7, <1>8 DEF Next

\* Lawful wires hold no misdirected message and nothing behind a CLOSE.
LEMMA ProtoMeans == ProtoInv => ProtocolKept
  <1> SUFFICES ASSUME ProtoInv PROVE ProtocolKept
    OBVIOUS
  <1>1. /\ Settled(channels, Box(wire), opened) /\ (\A e \in Endpoint : InOrder(e, wire[e]))
        /\ NeverDisconnected /\ wire \in Wires
    BY StateFacts DEF ProtoInv, Lawful
  <1>2. \A e \in Endpoint : \A j \in DOMAIN wire[e] :
            wire[e][j] \in Box(wire)[e] /\ wire[e][j] \in Message
    BY <1>1, BoxFacts DEF Of, Wires
  <1>3. \A m \in Message : m.t \in MsgTypes \cup {"GLOBAL", "REQFAIL"}
    BY DEF Message, ChannelMessage, GlobalMessage
  <1>4. NoMisdelivery
    <2> SUFFICES ASSUME NEW e \in Endpoint, NEW j \in DOMAIN wire[e],
                        wire[e][j].t \notin {"OPEN", "KEEPALIVE", "GLOBAL", "REQFAIL"},
                        ~(e = "server" /\ wire[e][j].t = "FAILURE")
                 PROVE  Found(e, wire[e][j].id) /\ channels[e][wire[e][j].id].inst = wire[e][j].inst
      BY DEF NoMisdelivery
    <2> DEFINE m == wire[e][j]
    <2>1. m \in Box(wire)[e] /\ m \in Message
      BY <1>2
    <2>2. Solid(e, m)
      BY <1>3, <2>1 DEF Solid, Real
    <2> HIDE DEF m
    <2>3. /\ m.id \in Slots /\ channels[e][m.id].inst = m.inst /\ channels[e][m.id].type \in Reachable
      BY <1>1, <2>1, <2>2 DEF Settled, Addressed
    <2> QED  BY <2>3 DEF Found, Reachable, m
  <1>5. CloseIsLast
    <2> SUFFICES ASSUME NEW e \in Endpoint, NEW j \in DOMAIN wire[e], NEW l \in DOMAIN wire[e],
                        wire[e][j].t = "CLOSE", j < l, wire[e][l].t \in MsgTypes,
                        wire[e][l].inst = wire[e][j].inst
                 PROVE  wire[e][l].t \in {"KEEPALIVE"}
      BY DEF CloseIsLast
    <2>1. Before(e, wire[e][j], wire[e][l])
      BY <1>1 DEF InOrder
    <2> QED  BY <2>1 DEF Before, Real, MsgTypes
  <1> QED  BY <1>1, <1>4, <1>5 DEF ProtocolKept

\* The two ends of a connection keep to the channel protocol: no message reaches a slot
\* that was freed or given to another channel, nothing follows a CLOSE, and none of the
\* packet_disconnect() calls of the channel handlers (channels.c) is reached.
THEOREM Protocol == Spec => []ProtocolKept
  <1>1. Init => ProtoInv
    BY InitProto
  <1>2. ProtoInv /\ [Next]_vars => ProtoInv'
    BY NextProto
  <1>3. ProtoInv => ProtocolKept
    BY ProtoMeans
  <1> QED  BY <1>1, <1>2, <1>3, PTL DEF Spec
============================================================================
