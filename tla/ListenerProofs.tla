--------------------------- MODULE ListenerProofs ---------------------------
(***************************************************************************)
(* TLAPS proofs about Listener, for every number of connections, every      *)
(* MaxStartups and every option: the count of unauthenticated connections   *)
(* is exact (StartupsExact).                                                *)
(*                                                                          *)
(* StartupsExact is not inductive.  A pipe that select() has reported must  *)
(* still be in the table, and still at its end, when the loop counts it     *)
(* out, although the processes of all connections run in between; a         *)
(* connection in the backlog must not be in the table yet, or it would      *)
(* enter it twice; and no connection may come from a listener that has not  *)
(* been started yet.  ListenInv adds this.                                  *)
(***************************************************************************)
EXTENDS Listener, FiniteSetTheorems, WellFoundedInduction, TLAPS

Phases == {"unborn", "backlog", "forked", "ident", "privsep", "forking", "auth",
           "waitpid", "session", "dead", "gone"}

Record ==
    [phase : Phases, net : {"none", "running", "exited"}, m_pid : BOOLEAN,
     pipe : SUBSET {"priv", "net"}, gen : Nat, alarm : BOOLEAN]

ListenTypeOK ==
    /\ pc \in {"top", "select", "pipes", "accept", "exited"}
    /\ startup_pipes \in [Slots -> Conns \cup {NoConn}]
    /\ startups \in Nat
    /\ fdset \in [pipes : SUBSET Slots, listening : BOOLEAN]
    /\ received \in SUBSET {"hup", "term"}
    /\ eintr \in BOOLEAN
    /\ backlog \in SUBSET Conns
    /\ generation \in Nat
    /\ conn \in [Conns -> Record]

Occupied == {i \in Slots : startup_pipes[i] # NoConn}

\* What the processes of a connection keep among themselves.
RecordInv(r) ==
    /\ r.phase \in {"unborn", "backlog"} =>
         r.net = "none" /\ r.pipe = {} /\ ~r.alarm
    /\ Unauthenticated(r) => "priv" \in r.pipe
    /\ r.net = "running" => "net" \in r.pipe

\* The connections: none is from a later listener, and the backlog holds the
\* ones that wait.
ConnInv ==
    \A c \in Conns :
        /\ RecordInv(conn[c])
        /\ conn[c].gen <= generation
        /\ c \in backlog => conn[c].phase = "backlog"

\* The table: a connection has one slot at most, and only after accept().
TableInv ==
    /\ \A i, j \in Slots :
         startup_pipes[i] = startup_pipes[j] /\ startup_pipes[i] # NoConn => i = j
    /\ \A i \in Slots : startup_pipes[i] # NoConn =>
         conn[startup_pipes[i]].phase \notin {"unborn", "backlog"}

\* What select() reported is still so when the listener acts upon it.
ReadyInv ==
    \A i \in fdset.pipes :
        startup_pipes[i] # NoConn /\ conn[startup_pipes[i]].pipe = {}

CountedInv ==
    \A c \in Conns :
        conn[c].gen = generation /\ pc # "exited" /\ conn[c].pipe # {} => Counted(c)

ListenInv ==
    /\ ListenTypeOK
    /\ startups = Cardinality(Occupied)
    /\ ConnInv
    /\ TableInv
    /\ ReadyInv
    /\ CountedInv

----------------------------------------------------------------------------
(* The table and its count.                                                *)

LEMMA SlotsFinite ==
    /\ IsFiniteSet(Slots)
    /\ Cardinality(Slots) = max_startups
<1>1. 0 \in Int /\ max_startups - 1 \in Int /\ max_startups \in Nat
  BY ListenAssumption
<1> QED
  BY <1>1, FS_Interval DEF Slots

\* A connection that drop_connection() lets through finds a free slot.
LEMMA SlotFree ==
    ASSUME startups = Cardinality(Occupied), FALSE \in drop_connection(startups),
           startups \in Nat
    PROVE  FreeSlots # {}
<1>1. DropPercent(startups) < 100
  BY DEF drop_connection
<1>2. startups < max_startups
  BY <1>1, ListenAssumption DEF DropPercent
<1>3. SUFFICES ASSUME FreeSlots = {} PROVE FALSE
  OBVIOUS
<1>4. Occupied = Slots
  BY <1>3 DEF Occupied, FreeSlots
<1> QED
  BY <1>2, <1>4, SlotsFinite, ListenAssumption

LEMMA FirstFreeIsFree ==
    ASSUME FreeSlots # {}
    PROVE  FirstFree \in FreeSlots
<1>1. FreeSlots \subseteq Nat
  BY ListenAssumption DEF FreeSlots, Slots
<1>2. PICK i \in FreeSlots :
          \A j \in FreeSlots : ~ (<<j, i>> \in OpToRel(<, Nat))
  BY <1>1, WFMin, NatLessThanWellFounded
<1>3. \A j \in FreeSlots : i <= j
  <2> SUFFICES ASSUME NEW j \in FreeSlots, j < i PROVE FALSE
    BY <1>1
  <2>1. i \in Nat /\ j \in Nat
    BY <1>1
  <2> QED
    BY <1>2, <2>1 DEF OpToRel
<1> QED
  BY <1>3 DEF FirstFree

----------------------------------------------------------------------------
(* The processes of a connection.                                          *)

Waiting(r) == r.phase \in {"unborn", "backlog"}

\* A process of a connection takes a step from r to q: it leaves nothing behind
\* that the listener would not see, and gains no pipe.
Moves(r, q) ==
    /\ q \in Record /\ RecordInv(q)
    /\ ~Waiting(r) /\ ~Waiting(q)
    /\ q.gen <= r.gen
    /\ q.pipe # {} => r.pipe # {} /\ q.gen = r.gen

LEMMA GoneType == /\ Gone \in Record /\ RecordInv(Gone) /\ ~Waiting(Gone)
                  /\ Gone.gen = 0 /\ Gone.pipe = {} /\ Gone.phase = "gone"
                  /\ Gone.net = "none" /\ Gone.alarm = FALSE
BY DEF Gone, NewConn, Record, RecordInv, Phases, Waiting, Unauthenticated

LEMMA DeadMoves ==
    ASSUME NEW r \in Record, RecordInv(r), ~Waiting(r)
    PROVE  Moves(r, Dead(r))
<1>1. CASE r.net # "running"
  BY <1>1, GoneType DEF Dead, Moves, Record
<1>2. CASE r.net = "running"
  <2>1. Dead(r) = [r EXCEPT !.phase = "dead", !.alarm = FALSE, !.pipe = @ \ {"priv"}]
    BY <1>2 DEF Dead
  <2>2. /\ Dead(r) \in Record /\ Dead(r).phase = "dead" /\ Dead(r).gen = r.gen
        /\ Dead(r).pipe = r.pipe \ {"priv"} /\ Dead(r).net = r.net
    BY <2>1 DEF Record, Phases
  <2> QED
    BY <1>2, <2>2 DEF Moves, RecordInv, Waiting, Unauthenticated, Record
<1> QED
  BY <1>1, <1>2

LEMMA NetDeadMoves ==
    ASSUME NEW r \in Record, RecordInv(r), ~Waiting(r)
    PROVE  Moves(r, NetDead(r))
<1>1. CASE r.phase = "dead"
  BY <1>1, GoneType DEF NetDead, Moves, Record
<1>2. CASE r.phase # "dead"
  <2>1. NetDead(r) = [r EXCEPT !.net = "exited", !.pipe = @ \ {"net"}]
    BY <1>2 DEF NetDead
  <2>2. /\ NetDead(r) \in Record /\ NetDead(r).phase = r.phase /\ NetDead(r).gen = r.gen
        /\ NetDead(r).pipe = r.pipe \ {"net"} /\ NetDead(r).net = "exited"
    BY <2>1 DEF Record
  <2> QED
    BY <1>2, <2>2 DEF Moves, RecordInv, Waiting, Unauthenticated, Record
<1> QED
  BY <1>1, <1>2

LEMMA MovesTrans ==
    ASSUME NEW r \in Record, NEW q \in Record, NEW p \in Record,
           Moves(r, q), Moves(q, p)
    PROVE  Moves(r, p)
BY DEF Moves, Record

\* Both processes die, or [priv] alone.
LEMMA BothDie ==
    ASSUME NEW r \in Record, RecordInv(r), ~Waiting(r), NEW kill \in BOOLEAN
    PROVE  Moves(r, Dead(IF kill THEN NetDead(r) ELSE r))
<1>1. Moves(r, NetDead(r))
  BY NetDeadMoves
<1>2. Moves(NetDead(r), Dead(NetDead(r)))
  BY <1>1, DeadMoves DEF Moves
<1>3. Moves(r, Dead(NetDead(r)))
  BY <1>1, <1>2, MovesTrans DEF Moves
<1> QED
  BY <1>3, DeadMoves

\* The processes of one connection disturb neither the table nor what select()
\* has reported.
LEMMA ProcessStep ==
    ASSUME ListenInv, NEW c \in Conns, NEW q, Moves(conn[c], q),
           conn' = [conn EXCEPT ![c] = q], UNCHANGED <<listener, backlog>>
    PROVE  ListenInv'
<1> USE DEF ListenInv
<1>1. /\ pc' = pc /\ startup_pipes' = startup_pipes /\ startups' = startups
      /\ fdset' = fdset /\ received' = received /\ eintr' = eintr
      /\ generation' = generation /\ backlog' = backlog
  BY DEF listener
<1>2. \A d \in Conns : conn'[d] = IF d = c THEN q ELSE conn[d]
  BY DEF ListenTypeOK
<1>3. ListenTypeOK'
  BY <1>1 DEF ListenTypeOK, Moves
<1>4. Occupied' = Occupied
  BY <1>1 DEF Occupied
<1>5. ConnInv'
  BY <1>1, <1>2 DEF ConnInv, Moves, Waiting, ListenTypeOK, Record
<1>6. TableInv'
  BY <1>1, <1>2 DEF TableInv, Moves, Waiting, ListenTypeOK
<1>7. ReadyInv'
  <2> SUFFICES ASSUME NEW i \in fdset.pipes
               PROVE  startup_pipes[i] # NoConn /\ conn'[startup_pipes[i]].pipe = {}
    BY <1>1 DEF ReadyInv
  <2>1. startup_pipes[i] # NoConn /\ startup_pipes[i] \in Conns
        /\ conn[startup_pipes[i]].pipe = {}
    BY DEF ReadyInv, ListenTypeOK
  <2> QED
    BY <2>1, <1>2 DEF Moves
<1>8. CountedInv'
  <2> SUFFICES ASSUME NEW d \in Conns, conn'[d].gen = generation, pc # "exited",
                      conn'[d].pipe # {}
               PROVE  Counted(d)'
    BY <1>1 DEF CountedInv
  <2>1. conn[d].gen = generation /\ conn[d].pipe # {}
    BY <1>2 DEF Moves
  <2> QED
    BY <1>1, <2>1 DEF CountedInv, Counted
<1> QED
  BY <1>1, <1>3, <1>4, <1>5, <1>6, <1>7, <1>8

LEMMA StartupStep ==
    ASSUME ListenInv, NEW c \in Conns, Startup(c)
    PROVE  ListenInv'
<1>1. /\ conn[c] \in Record /\ RecordInv(conn[c]) /\ ~Waiting(conn[c])
      /\ conn[c].phase = "forked"
  BY DEF ListenInv, ListenTypeOK, ConnInv, Startup, Waiting
<1>2. Moves(conn[c], [conn[c] EXCEPT !.phase = "ident", !.alarm = login_grace_time])
  <2> DEFINE q == [conn[c] EXCEPT !.phase = "ident", !.alarm = login_grace_time]
  <2>1. /\ q \in Record /\ q.phase = "ident" /\ q.net = conn[c].net
        /\ q.pipe = conn[c].pipe /\ q.gen = conn[c].gen
    BY <1>1, ListenAssumption DEF Record, Phases
  <2> HIDE DEF q
  <2>2. Moves(conn[c], q)
    BY <1>1, <2>1 DEF Moves, RecordInv, Waiting, Unauthenticated, Record
  <2> QED
    BY <2>2 DEF q
<1>3. Moves(conn[c], Dead(conn[c]))
  BY <1>1, DeadMoves
<1> QED
  BY <1>2, <1>3, ProcessStep DEF Startup

LEMMA IdentStep ==
    ASSUME ListenInv, NEW c \in Conns, sshd_exchange_identification(c)
    PROVE  ListenInv'
<1>1. /\ conn[c] \in Record /\ RecordInv(conn[c]) /\ ~Waiting(conn[c])
      /\ conn[c].phase = "ident" /\ conn \in [Conns -> Record]
  BY DEF ListenInv, ListenTypeOK, ConnInv, sshd_exchange_identification, Waiting
<1> DEFINE q == [conn[c] EXCEPT !.phase = IF use_privsep THEN "privsep" ELSE "auth"]
<1>2. Moves(conn[c], q)
  <2>1. /\ q \in Record /\ q.phase \in {"privsep", "auth"} /\ q.net = conn[c].net
        /\ q.pipe = conn[c].pipe /\ q.gen = conn[c].gen
    BY <1>1 DEF Record, Phases
  <2> HIDE DEF q
  <2> QED
    BY <1>1, <2>1 DEF Moves, RecordInv, Waiting, Unauthenticated, Record
<1>3. Moves(conn[c], Dead(conn[c]))
  BY <1>1, DeadMoves
<1>4. /\ conn' = [conn EXCEPT ![c] = Dead(conn[c])] \/ conn' = [conn EXCEPT ![c] = q]
      /\ UNCHANGED <<listener, backlog>>
  BY DEF sshd_exchange_identification
<1> HIDE DEF q
<1> QED
  BY <1>2, <1>3, <1>4, ProcessStep

LEMMA PreauthStep ==
    ASSUME ListenInv, NEW c \in Conns, privsep_preauth(c)
    PROVE  ListenInv'
<1>1. /\ conn[c] \in Record /\ RecordInv(conn[c]) /\ ~Waiting(conn[c])
      /\ conn[c].phase \in {"privsep", "forking"}
  BY DEF ListenInv, ListenTypeOK, ConnInv, privsep_preauth, Waiting
<1> DEFINE f == [conn[c] EXCEPT !.phase = "forking", !.net = "running",
                               !.pipe = @ \cup {"net"}]
           q == [conn[c] EXCEPT !.phase = "auth", !.m_pid = TRUE]
<1>2. Moves(conn[c], f)
  <2>1. /\ f \in Record /\ f.phase = "forking" /\ f.net = "running"
        /\ f.pipe = conn[c].pipe \cup {"net"} /\ f.gen = conn[c].gen
    BY <1>1 DEF Record, Phases
  <2> HIDE DEF f
  <2> QED
    BY <1>1, <2>1 DEF Moves, RecordInv, Waiting, Unauthenticated, Record
<1>3. Moves(conn[c], q)
  <2>1. /\ q \in Record /\ q.phase = "auth" /\ q.net = conn[c].net
        /\ q.pipe = conn[c].pipe /\ q.gen = conn[c].gen
    BY <1>1 DEF Record, Phases
  <2> HIDE DEF q
  <2> QED
    BY <1>1, <2>1 DEF Moves, RecordInv, Waiting, Unauthenticated, Record
<1>4. Moves(conn[c], Dead(conn[c]))
  BY <1>1, DeadMoves
<1>5. /\ \/ conn' = [conn EXCEPT ![c] = Dead(conn[c])]
         \/ conn' = [conn EXCEPT ![c] = f]
         \/ conn' = [conn EXCEPT ![c] = q]
      /\ UNCHANGED <<listener, backlog>>
  BY DEF privsep_preauth
<1> HIDE DEF f, q
<1> QED
  BY <1>2, <1>3, <1>4, <1>5, ProcessStep

LEMMA NetEndsStep ==
    ASSUME ListenInv, NEW c \in Conns, NetEnds(c)
    PROVE  ListenInv'
<1>1. /\ conn[c] \in Record /\ RecordInv(conn[c]) /\ ~Waiting(conn[c])
      /\ conn[c].net = "running"
  BY DEF ListenInv, ListenTypeOK, ConnInv, NetEnds, Waiting, RecordInv
<1>2. Moves(conn[c], NetDead(conn[c]))
  BY <1>1, NetDeadMoves
<1> DEFINE q == [NetDead(conn[c]) EXCEPT !.phase = "waitpid"]
<1>3. ASSUME conn[c].phase = "auth" PROVE Moves(conn[c], q)
  <2>1. NetDead(conn[c]) = [conn[c] EXCEPT !.net = "exited", !.pipe = @ \ {"net"}]
    BY <1>3 DEF NetDead
  <2>2. /\ NetDead(conn[c]) \in Record /\ NetDead(conn[c]).gen = conn[c].gen
        /\ NetDead(conn[c]).pipe = conn[c].pipe \ {"net"} /\ NetDead(conn[c]).net = "exited"
    BY <1>1, <2>1 DEF Record
  <2>3. /\ q \in Record /\ q.phase = "waitpid" /\ q.net = "exited"
        /\ q.pipe = conn[c].pipe \ {"net"} /\ q.gen = conn[c].gen
    BY <2>2 DEF Record, Phases
  <2> HIDE DEF q
  <2> QED
    BY <1>1, <1>3, <2>3 DEF Moves, RecordInv, Waiting, Unauthenticated, Record
<1>4. /\ \/ conn[c].phase = "auth" /\ conn' = [conn EXCEPT ![c] = q]
         \/ conn' = [conn EXCEPT ![c] = NetDead(conn[c])]
      /\ UNCHANGED <<listener, backlog>>
  BY DEF NetEnds
<1> HIDE DEF q
<1> QED
  BY <1>2, <1>3, <1>4, ProcessStep

LEMMA CleanupMoves ==
    ASSUME NEW r \in Record, RecordInv(r), ~Waiting(r)
    PROVE  Moves(r, cleanup_exit(r))
<1> DEFINE kill == r.net = "running" /\ r.m_pid
<1>1. kill \in BOOLEAN
  BY DEF Record
<1>2. cleanup_exit(r) = Dead(IF kill THEN NetDead(r) ELSE r)
  BY DEF cleanup_exit
<1> HIDE DEF kill
<1> QED
  BY <1>1, <1>2, BothDie

LEMMA ExitStep ==
    ASSUME ListenInv, NEW c \in Conns, monitor_read_eof(c) \/ Exit(c)
    PROVE  ListenInv'
<1>1. /\ conn[c] \in Record /\ RecordInv(conn[c]) /\ ~Waiting(conn[c])
  BY DEF ListenInv, ListenTypeOK, ConnInv, monitor_read_eof, Exit, Waiting
<1>2. /\ conn' = [conn EXCEPT ![c] = cleanup_exit(conn[c])]
      /\ UNCHANGED <<listener, backlog>>
  BY DEF monitor_read_eof, Exit
<1> QED
  BY <1>1, <1>2, CleanupMoves, ProcessStep

LEMMA AuthenticatedStep ==
    ASSUME ListenInv, NEW c \in Conns, Authenticated(c)
    PROVE  ListenInv'
<1>1. /\ conn[c] \in Record /\ RecordInv(conn[c]) /\ ~Waiting(conn[c])
      /\ Unauthenticated(conn[c])
  BY DEF ListenInv, ListenTypeOK, ConnInv, Authenticated, Waiting, Unauthenticated
<1> DEFINE q == [conn[c] EXCEPT !.phase = "session", !.alarm = FALSE,
                               !.pipe = @ \ {"priv"}, !.m_pid = FALSE, !.net = "none"]
<1>2. Moves(conn[c], q)
  <2>1. /\ q \in Record /\ q.phase = "session" /\ q.net = "none"
        /\ q.pipe = conn[c].pipe \ {"priv"} /\ q.gen = conn[c].gen
    BY <1>1 DEF Record, Phases
  <2> HIDE DEF q
  <2> QED
    BY <1>1, <2>1 DEF Moves, RecordInv, Waiting, Unauthenticated, Record
<1>3. conn' = [conn EXCEPT ![c] = q] /\ UNCHANGED <<listener, backlog>>
  BY DEF Authenticated
<1> HIDE DEF q
<1> QED
  BY <1>2, <1>3, ProcessStep

LEMMA AlarmStep ==
    ASSUME ListenInv, NEW c \in Conns, grace_alarm_handler(c)
    PROVE  ListenInv'
<1>1. /\ conn[c] \in Record /\ RecordInv(conn[c]) /\ ~Waiting(conn[c])
  BY DEF ListenInv, ListenTypeOK, ConnInv, grace_alarm_handler, Waiting, RecordInv
<1> DEFINE kill == /\ conn[c].net = "running"
                   /\ (use_privsep /\ conn[c].m_pid) \/ ~acquires_ctty
<1>2. kill \in BOOLEAN
  BY <1>1, ListenAssumption DEF Record
<1>3. /\ conn' = [conn EXCEPT ![c] = Dead(IF kill THEN NetDead(conn[c]) ELSE conn[c])]
      /\ UNCHANGED <<listener, backlog>>
  BY DEF grace_alarm_handler
<1> HIDE DEF kill
<1>4. Moves(conn[c], Dead(IF kill THEN NetDead(conn[c]) ELSE conn[c]))
  BY <1>1, <1>2, BothDie
<1> QED
  BY <1>3, <1>4, ProcessStep

----------------------------------------------------------------------------
(* The listener.                                                           *)

\* A client connects; its connection is new to the table and the backlog.
LEMMA ConnectStep ==
    ASSUME ListenInv, NEW c \in Conns, Connect(c)
    PROVE  ListenInv'
<1> USE DEF ListenInv
<1>1. /\ pc' = pc /\ startup_pipes' = startup_pipes /\ startups' = startups
      /\ fdset' = fdset /\ received' = received /\ eintr' = eintr
      /\ generation' = generation
  BY DEF Connect, listener
<1>2. /\ conn \in [Conns -> Record] /\ conn[c] \in Record /\ RecordInv(conn[c])
      /\ conn[c].phase = "unborn" /\ conn[c].pipe = {} /\ c \notin backlog
      /\ backlog \in SUBSET Conns
  BY DEF Connect, ListenTypeOK, ConnInv, RecordInv
<1>3. PICK q : /\ conn' = [conn EXCEPT ![c] = q] /\ q \in Record /\ RecordInv(q)
               /\ q.pipe = {} /\ q.gen <= generation
               /\ \/ q = Gone /\ backlog' = backlog
                  \/ q.phase = "backlog" /\ backlog' = backlog \cup {c}
  <2>1. CASE pc = "exited"
    <3>1. conn' = [conn EXCEPT ![c] = Gone] /\ backlog' = backlog
      BY <2>1 DEF Connect
    <3>2. Gone.gen <= generation
      BY GoneType DEF ListenTypeOK
    <3> QED
      BY <3>1, <3>2, GoneType
  <2>2. CASE pc # "exited"
    <3> DEFINE q == [conn[c] EXCEPT !.phase = "backlog"]
    <3>1. conn' = [conn EXCEPT ![c] = q] /\ backlog' = backlog \cup {c}
      BY <2>2 DEF Connect
    <3>2. q \in Record /\ q.phase = "backlog" /\ q.net = conn[c].net
          /\ q.pipe = conn[c].pipe /\ q.gen = conn[c].gen /\ q.alarm = conn[c].alarm
      BY <1>2 DEF Record, Phases
    <3> HIDE DEF q
    <3>3. RecordInv(q) /\ q.pipe = {}
      BY <1>2, <3>2 DEF RecordInv, Unauthenticated
    <3>4. q.gen <= generation
      BY <3>2 DEF ConnInv
    <3> QED
      BY <3>1, <3>2, <3>3, <3>4
  <2> QED
    BY <2>1, <2>2
<1>4. \A d \in Conns : conn'[d] = IF d = c THEN q ELSE conn[d]
  BY <1>2, <1>3
<1>5. \A i \in Slots : startup_pipes[i] # c
  BY <1>2, ListenAssumption DEF TableInv
<1>6. ListenTypeOK'
  BY <1>1, <1>2, <1>3 DEF ListenTypeOK
<1>7. Occupied' = Occupied
  BY <1>1 DEF Occupied
<1>8. ConnInv'
  BY <1>1, <1>2, <1>3, <1>4 DEF ConnInv
<1>9. TableInv'
  BY <1>1, <1>4, <1>5 DEF TableInv, ListenTypeOK
<1>10. ReadyInv'
  BY <1>1, <1>4, <1>5 DEF ReadyInv, ListenTypeOK
<1>11. CountedInv'
  BY <1>1, <1>3, <1>4 DEF CountedInv, Counted
<1> QED
  BY <1>1, <1>6, <1>7, <1>8, <1>9, <1>10, <1>11

LEMMA SignalStep ==
    ASSUME ListenInv, NEW s \in {"hup", "term"}, Signal(s)
    PROVE  ListenInv'
<1> USE DEF ListenInv
<1>1. /\ pc' = pc /\ startup_pipes' = startup_pipes /\ startups' = startups
      /\ fdset' = fdset /\ generation' = generation /\ backlog' = backlog
      /\ conn' = conn
  BY DEF Signal
<1>2. ListenTypeOK'
  BY <1>1 DEF ListenTypeOK, Signal
<1>3. Occupied' = Occupied /\ ConnInv' /\ TableInv' /\ ReadyInv' /\ CountedInv'
  BY <1>1 DEF Occupied, ConnInv, TableInv, ReadyInv, CountedInv, Counted
<1> QED
  BY <1>1, <1>2, <1>3

\* The connections of the backlog are lost.
LEMMA BacklogLost ==
    ASSUME ListenInv, NEW d \in Conns,
           conn' = [c \in Conns |-> IF c \in backlog THEN Gone ELSE conn[c]],
           backlog' = {}, generation' \in Nat, generation' >= generation
    PROVE  /\ conn'[d] = IF d \in backlog THEN Gone ELSE conn[d]
           /\ conn'[d] \in Record /\ RecordInv(conn'[d])
           /\ conn'[d].pipe = conn[d].pipe
           /\ conn'[d].gen <= generation'
           /\ ~Waiting(conn[d]) => ~Waiting(conn'[d])
<1>1. conn'[d] = IF d \in backlog THEN Gone ELSE conn[d]
  OBVIOUS
<1>2. /\ conn[d] \in Record /\ RecordInv(conn[d]) /\ conn[d].gen <= generation
      /\ d \in backlog => conn[d].phase = "backlog" /\ conn[d].pipe = {}
  BY DEF ListenInv, ListenTypeOK, ConnInv, RecordInv
<1>3. conn[d].gen <= generation'
  BY <1>2 DEF ListenInv, ListenTypeOK, Record
<1> QED
  BY <1>1, <1>2, <1>3, GoneType

\* The new listener starts with an empty table, and whatever is left of the old
\* one's connections is not its own.
LEMMA RestartStep ==
    ASSUME ListenInv, sighup_restart
    PROVE  ListenInv'
<1> USE DEF ListenInv
<1>1. /\ startup_pipes' = [i \in Slots |-> NoConn] /\ startups' = 0
      /\ fdset' = NothingReady /\ generation' = generation + 1 /\ backlog' = {}
      /\ conn' = [c \in Conns |-> IF c \in backlog THEN Gone ELSE conn[c]]
      /\ generation \in Nat
  BY DEF sighup_restart, ListenTypeOK
<1>2. \A d \in Conns : conn'[d] \in Record /\ RecordInv(conn'[d])
                        /\ conn'[d].gen <= generation'
  BY <1>1, BacklogLost
<1>3. ListenTypeOK'
  <2>1. fdset' \in [pipes : SUBSET Slots, listening : BOOLEAN]
    BY <1>1 DEF NothingReady
  <2>2. conn' \in [Conns -> Record]
    BY <1>1, <1>2
  <2>3. pc' \in {"top", "exited"} /\ received' = {} /\ eintr' = FALSE
    BY DEF sighup_restart
  <2>4. startup_pipes' \in [Slots -> Conns \cup {NoConn}] /\ startups' \in Nat
        /\ backlog' \in SUBSET Conns /\ generation' \in Nat
    BY <1>1
  <2> QED
    BY <2>1, <2>2, <2>3, <2>4 DEF ListenTypeOK
<1>4. startups' = Cardinality(Occupied)'
  <2>1. Occupied' = {}
    BY <1>1 DEF Occupied
  <2> QED
    BY <1>1, <2>1, FS_EmptySet
<1>5. ConnInv'
  BY <1>1, <1>2 DEF ConnInv
<1>6. TableInv' /\ ReadyInv'
  BY <1>1 DEF TableInv, ReadyInv, NothingReady
<1>7. CountedInv'
  <2> SUFFICES ASSUME NEW d \in Conns, conn'[d].gen = generation + 1 PROVE FALSE
    BY <1>1 DEF CountedInv
  <2>1. conn'[d] = IF d \in backlog THEN Gone ELSE conn[d]
    BY <1>1
  <2>2. conn[d].gen <= generation /\ conn[d].gen \in Nat
    BY DEF ConnInv, ListenTypeOK, Record
  <2> QED
    BY <1>1, <2>1, <2>2, GoneType
<1> QED
  BY <1>3, <1>4, <1>5, <1>6, <1>7

LEMMA LoopTopStep ==
    ASSUME ListenInv, LoopTop
    PROVE  ListenInv'
<1>1. CASE sighup_restart
  BY <1>1, RestartStep
<1>2. CASE /\ pc' = "select" /\ eintr' = FALSE /\ pc = "top"
           /\ UNCHANGED <<startup_pipes, startups, fdset, received, generation,
                          backlog, conn>>
  <2> USE DEF ListenInv
  <2>1. ListenTypeOK'
    BY <1>2 DEF ListenTypeOK
  <2>2. Occupied' = Occupied /\ ConnInv' /\ TableInv' /\ ReadyInv' /\ CountedInv'
    BY <1>2 DEF Occupied, ConnInv, TableInv, ReadyInv, CountedInv, Counted
  <2> QED
    BY <1>2, <2>1, <2>2
<1> QED
  BY <1>1, <1>2 DEF LoopTop

LEMMA SelectStep ==
    ASSUME ListenInv, Select
    PROVE  ListenInv'
<1> USE DEF ListenInv
<1> DEFINE lost == IF "term" \in received THEN backlog ELSE {}
<1>1. /\ startup_pipes' = startup_pipes /\ startups' = startups
      /\ received' = received /\ eintr' = FALSE /\ generation' = generation
      /\ pc = "select" /\ pc' \in {"exited", "top", "pipes"}
      /\ conn' = [c \in Conns |-> IF c \in lost THEN Gone ELSE conn[c]]
      /\ backlog' = backlog \ lost
      /\ generation \in Nat
  BY DEF Select, ListenTypeOK
<1>2. \A d \in Conns :
        /\ conn'[d] = IF d \in lost THEN Gone ELSE conn[d]
        /\ conn'[d] \in Record /\ RecordInv(conn'[d])
        /\ conn'[d].pipe = conn[d].pipe
        /\ conn'[d].pipe # {} => conn'[d].gen = conn[d].gen
        /\ conn'[d].gen <= generation
        /\ ~Waiting(conn[d]) => ~Waiting(conn'[d])
  <2> SUFFICES ASSUME NEW d \in Conns
               PROVE  /\ conn'[d] = IF d \in lost THEN Gone ELSE conn[d]
                      /\ conn'[d] \in Record /\ RecordInv(conn'[d])
                      /\ conn'[d].pipe = conn[d].pipe
                      /\ conn'[d].pipe # {} => conn'[d].gen = conn[d].gen
                      /\ conn'[d].gen <= generation
                      /\ ~Waiting(conn[d]) => ~Waiting(conn'[d])
    OBVIOUS
  <2>1. conn'[d] = IF d \in lost THEN Gone ELSE conn[d]
    BY <1>1
  <2>2. /\ conn[d] \in Record /\ RecordInv(conn[d]) /\ conn[d].gen <= generation
        /\ d \in backlog => conn[d].phase = "backlog" /\ conn[d].pipe = {}
    BY DEF ListenTypeOK, ConnInv, RecordInv
  <2>3. d \in lost => d \in backlog
    OBVIOUS
  <2> HIDE DEF lost, ListenInv
  <2>4. CASE d \in lost
    BY <1>1, <2>1, <2>2, <2>3, <2>4, GoneType
  <2>5. CASE d \notin lost
    BY <1>1, <2>1, <2>2, <2>5
  <2> QED
    BY <2>4, <2>5
<1>3. fdset' \in [pipes : SUBSET Slots, listening : BOOLEAN]
      /\ fdset'.pipes \subseteq AtEnd
  <2> HIDE DEF lost, ListenInv
  <2>1. AtEnd \subseteq Slots
    BY DEF AtEnd
  <2>2. PICK ready \in BOOLEAN : ready <=> backlog # {}
    OBVIOUS
  <2>3. fdset' = NothingReady \/ fdset' = [pipes |-> AtEnd, listening |-> ready]
    BY <2>2 DEF Select
  <2> HIDE DEF AtEnd
  <2>4. CASE fdset' = NothingReady
    BY <2>4 DEF NothingReady
  <2>5. CASE fdset' = [pipes |-> AtEnd, listening |-> ready]
    BY <2>1, <2>2, <2>5
  <2> QED
    BY <2>3, <2>4, <2>5
<1> HIDE DEF lost
<1>4. ListenTypeOK'
  BY <1>1, <1>2, <1>3 DEF ListenTypeOK
<1>5. Occupied' = Occupied
  BY <1>1 DEF Occupied
<1>6. ConnInv'
  BY <1>1, <1>2 DEF ConnInv
<1>7. TableInv'
  BY <1>1, <1>2 DEF TableInv, Waiting, ListenTypeOK
<1>8. ReadyInv'
  <2> SUFFICES ASSUME NEW i \in fdset'.pipes
               PROVE  startup_pipes[i] # NoConn /\ conn'[startup_pipes[i]].pipe = {}
    BY <1>1 DEF ReadyInv
  <2>1. startup_pipes[i] # NoConn /\ startup_pipes[i] \in Conns
        /\ conn[startup_pipes[i]].pipe = {}
    BY <1>3 DEF AtEnd, ListenTypeOK
  <2> QED
    BY <1>2, <2>1
<1>9. CountedInv'
  BY <1>1, <1>2 DEF CountedInv, Counted
<1> QED
  BY <1>1, <1>4, <1>5, <1>6, <1>7, <1>8, <1>9

\* Every pipe that select() reported is still in the table and at its end, so as
\* many slots become free as are subtracted, and none of a live connection.
LEMMA CountOutStep ==
    ASSUME ListenInv, CountOut
    PROVE  ListenInv'
<1> USE DEF ListenInv
<1>1. /\ startup_pipes' = [i \in Slots |-> IF i \in fdset.pipes THEN NoConn
                                            ELSE startup_pipes[i]]
      /\ startups' = startups - Cardinality(fdset.pipes)
      /\ pc = "pipes" /\ pc' \in {"accept", "top"} /\ fdset' = NothingReady
      /\ received' = received /\ eintr' = eintr /\ generation' = generation
      /\ backlog' = backlog /\ conn' = conn
  BY DEF CountOut
<1>2. fdset.pipes \subseteq Occupied
  BY DEF ReadyInv, Occupied, ListenTypeOK
<1>3. IsFiniteSet(Occupied) /\ Cardinality(Occupied) \in Nat
  <2>1. Occupied \in SUBSET Slots
    BY DEF Occupied
  <2> QED
    BY <2>1, SlotsFinite, FS_Subset, FS_CardinalityType
<1>4. /\ IsFiniteSet(fdset.pipes) /\ Cardinality(fdset.pipes) \in Nat
      /\ Cardinality(fdset.pipes) <= Cardinality(Occupied)
  BY <1>2, <1>3, FS_Subset, FS_CardinalityType
<1>5. Occupied' = Occupied \ fdset.pipes
  BY <1>1 DEF Occupied
<1>6. Occupied \cap fdset.pipes = fdset.pipes
  BY <1>2
<1>7. startups' = Cardinality(Occupied)' /\ startups' \in Nat
  <2>1. Cardinality(Occupied \ fdset.pipes)
          = Cardinality(Occupied) - Cardinality(Occupied \cap fdset.pipes)
    BY <1>3, FS_Difference
  <2>2. /\ startups' = Cardinality(Occupied \ fdset.pipes)
        /\ startups' = Cardinality(Occupied) - Cardinality(fdset.pipes)
    BY <1>1, <1>6, <2>1
  <2> QED
    BY <1>3, <1>4, <1>5, <2>2
<1>8. ListenTypeOK'
  <2>1. startup_pipes' \in [Slots -> Conns \cup {NoConn}]
    BY <1>1 DEF ListenTypeOK
  <2>2. fdset' \in [pipes : SUBSET Slots, listening : BOOLEAN]
    BY <1>1 DEF NothingReady
  <2> QED
    BY <1>1, <1>7, <2>1, <2>2 DEF ListenTypeOK
<1>9. ConnInv'
  BY <1>1 DEF ConnInv
<1>10. TableInv' /\ ReadyInv'
  BY <1>1 DEF TableInv, ReadyInv, NothingReady
<1>11. CountedInv'
  <2> SUFFICES ASSUME NEW c \in Conns, conn[c].gen = generation, conn[c].pipe # {}
               PROVE  Counted(c)'
    BY <1>1 DEF CountedInv
  <2>1. PICK i \in Slots : startup_pipes[i] = c
    BY <1>1 DEF CountedInv, Counted
  <2>2. i \notin fdset.pipes
    BY <2>1 DEF ReadyInv
  <2> QED
    BY <1>1, <2>1, <2>2 DEF Counted
<1> QED
  BY <1>7, <1>8, <1>9, <1>10, <1>11

\* A connection leaves the backlog without a process and without a slot.
LEMMA DroppedStep ==
    ASSUME ListenInv, pc' = "top", NEW c \in backlog, pc # "exited",
           backlog' = backlog \ {c}, conn' = [conn EXCEPT ![c] = Gone],
           UNCHANGED <<startup_pipes, startups, fdset, received, eintr, generation>>
    PROVE  ListenInv'
<1> USE DEF ListenInv
<1>1. /\ startup_pipes' = startup_pipes /\ startups' = startups /\ fdset' = fdset
      /\ received' = received /\ eintr' = eintr /\ generation' = generation
      /\ c \in Conns /\ generation \in Nat
  BY DEF ListenTypeOK
<1>2. \A d \in Conns : conn'[d] = IF d = c THEN Gone ELSE conn[d]
  BY DEF ListenTypeOK
<1>3. ListenTypeOK'
  BY <1>1, GoneType DEF ListenTypeOK
<1>4. Occupied' = Occupied
  BY <1>1 DEF Occupied
<1>5. ConnInv'
  BY <1>1, <1>2, GoneType DEF ConnInv
<1>6. TableInv'
  BY <1>1, <1>2, GoneType DEF TableInv, ListenTypeOK
<1>7. ReadyInv'
  BY <1>1, <1>2, GoneType DEF ReadyInv, ListenTypeOK
<1>8. CountedInv'
  BY <1>1, <1>2, GoneType DEF CountedInv, Counted
<1> QED
  BY <1>1, <1>3, <1>4, <1>5, <1>6, <1>7, <1>8

\* A connection gets a slot: there is a free one, and it is the only slot of this
\* connection.  fork() may have failed.
LEMMA TakenStep ==
    ASSUME ListenInv, pc' = "top", NEW c \in backlog, pc # "exited",
           FALSE \in drop_connection(startups), TakeSlot(c),
           backlog' = backlog \ {c},
           NEW q \in {Gone, [conn[c] EXCEPT !.phase = "forked", !.pipe = {"priv"},
                                            !.gen = generation]},
           conn' = [conn EXCEPT ![c] = q],
           UNCHANGED <<fdset, received, eintr, generation>>
    PROVE  ListenInv'
<1> USE DEF ListenInv
<1> DEFINE k == FirstFree
<1>1. /\ fdset' = fdset /\ received' = received /\ eintr' = eintr
      /\ generation' = generation /\ c \in Conns /\ c # NoConn
      /\ conn[c].phase = "backlog" /\ conn[c] \in Record /\ RecordInv(conn[c])
      /\ generation \in Nat /\ startups \in Nat
  BY ListenAssumption DEF ListenTypeOK, ConnInv
<1>2. k \in Slots /\ startup_pipes[k] = NoConn
  BY <1>1, SlotFree, FirstFreeIsFree DEF FreeSlots
<1>3. startup_pipes' = [startup_pipes EXCEPT ![k] = c] /\ startups' = startups + 1
  BY <1>1, SlotFree DEF TakeSlot
<1> HIDE DEF k
<1>4. /\ q \in Record /\ RecordInv(q) /\ ~Waiting(q) /\ q.gen <= generation
      /\ q.gen = generation \/ q.pipe = {}
  <2>1. CASE q = Gone
    BY <1>1, <2>1, GoneType
  <2>2. CASE q = [conn[c] EXCEPT !.phase = "forked", !.pipe = {"priv"}, !.gen = generation]
    <3>1. /\ q \in Record /\ q.phase = "forked" /\ q.pipe = {"priv"}
          /\ q.gen = generation /\ q.net = conn[c].net
      BY <1>1, <2>2 DEF Record, Phases
    <3> QED
      BY <1>1, <3>1 DEF RecordInv, Waiting, Unauthenticated
  <2> QED
    BY <2>1, <2>2
<1>5. \A d \in Conns : conn'[d] = IF d = c THEN q ELSE conn[d]
  BY DEF ListenTypeOK
<1>6. \A i \in Slots : startup_pipes'[i] = IF i = k THEN c ELSE startup_pipes[i]
  BY <1>3 DEF ListenTypeOK
<1>7. \A i \in Slots : startup_pipes[i] # c
  BY <1>1 DEF TableInv
<1>8. startups' = Cardinality(Occupied)'
  <2>1. Occupied' = Occupied \cup {k} /\ k \notin Occupied
    BY <1>1, <1>2, <1>6 DEF Occupied
  <2>2. IsFiniteSet(Occupied)
    <3>1. Occupied \in SUBSET Slots
      BY DEF Occupied
    <3> QED
      BY <3>1, SlotsFinite, FS_Subset
  <2> QED
    BY <1>3, <2>1, <2>2, FS_AddElement
<1>9. ListenTypeOK'
  <2>1. startup_pipes' \in [Slots -> Conns \cup {NoConn}]
    <3>1. startup_pipes \in [Slots -> Conns \cup {NoConn}]
      BY DEF ListenTypeOK
    <3> HIDE DEF ListenInv
    <3> QED
      BY <1>1, <1>3, <3>1
  <2>3. startups' \in Nat
    BY <1>1, <1>3
  <2>2. conn' \in [Conns -> Record]
    BY <1>4 DEF ListenTypeOK
  <2> QED
    BY <1>1, <2>1, <2>2, <2>3 DEF ListenTypeOK
<1>10. ConnInv'
  BY <1>1, <1>4, <1>5 DEF ConnInv
<1>11. TableInv'
  BY <1>1, <1>2, <1>4, <1>5, <1>6, <1>7 DEF TableInv, Waiting, ListenTypeOK
<1>12. ReadyInv'
  <2> SUFFICES ASSUME NEW i \in fdset.pipes
               PROVE  startup_pipes'[i] # NoConn /\ conn'[startup_pipes'[i]].pipe = {}
    BY <1>1 DEF ReadyInv
  <2>1. /\ i \in Slots /\ startup_pipes[i] \in Conns /\ startup_pipes[i] # NoConn
        /\ conn[startup_pipes[i]].pipe = {}
    BY DEF ReadyInv, ListenTypeOK
  <2> QED
    BY <1>2, <1>5, <1>6, <1>7, <2>1
<1>13. CountedInv'
  <2> SUFFICES ASSUME NEW d \in Conns, conn'[d].gen = generation, conn'[d].pipe # {}
               PROVE  \E i \in Slots : startup_pipes'[i] = d
    BY <1>1 DEF CountedInv, Counted
  <2>1. CASE d = c
    BY <1>2, <1>6, <2>1
  <2>2. CASE d # c
    <3>1. PICK i \in Slots : startup_pipes[i] = d
      BY <1>5, <2>2 DEF CountedInv, Counted
    <3>2. d # NoConn
      BY ListenAssumption
    <3> QED
      BY <1>2, <1>6, <3>1, <3>2
  <2> QED
    BY <2>1, <2>2
<1> QED
  BY <1>8, <1>9, <1>10, <1>11, <1>12, <1>13

LEMMA AcceptStep ==
    ASSUME ListenInv, Accept
    PROVE  ListenInv'
<1>1. pc = "accept" /\ pc' = "top" /\ UNCHANGED <<fdset, received, eintr, generation>>
  BY DEF Accept
<1>2. CASE UNCHANGED <<backlog, conn, startup_pipes, startups>>
  <2> USE DEF ListenInv
  <2>1. ListenTypeOK'
    BY <1>1, <1>2 DEF ListenTypeOK
  <2>2. Occupied' = Occupied /\ ConnInv' /\ TableInv' /\ ReadyInv' /\ CountedInv'
    BY <1>1, <1>2 DEF Occupied, ConnInv, TableInv, ReadyInv, CountedInv, Counted
  <2> QED
    BY <1>2, <2>1, <2>2
<1>3. CASE \E c \in backlog :
             /\ backlog' = backlog \ {c} /\ conn' = [conn EXCEPT ![c] = Gone]
             /\ UNCHANGED <<startup_pipes, startups>>
  BY <1>1, <1>3, DroppedStep
<1> DEFINE Born(c) == [conn[c] EXCEPT !.phase = "forked", !.pipe = {"priv"},
                                     !.gen = generation]
<1>4. CASE \E c \in backlog :
             /\ backlog' = backlog \ {c} /\ TakeSlot(c)
             /\ FALSE \in drop_connection(startups)
             /\ \E q \in {Gone, Born(c)} : conn' = [conn EXCEPT ![c] = q]
  BY <1>1, <1>4, TakenStep
<1> QED
  BY <1>2, <1>3, <1>4 DEF Accept

----------------------------------------------------------------------------
(* The theorems.                                                           *)

LEMMA ListenInitInv ==
    ASSUME ListenInit
    PROVE  ListenInv
<1>1. NewConn \in Record /\ RecordInv(NewConn) /\ NewConn.gen = 0 /\ NewConn.pipe = {}
  BY DEF NewConn, Record, RecordInv, Phases, Unauthenticated
<1>2. ListenTypeOK
  BY <1>1 DEF ListenInit, ListenTypeOK, NothingReady
<1>3. Occupied = {}
  BY DEF ListenInit, Occupied
<1>4. startups = Cardinality(Occupied)
  BY <1>3, FS_EmptySet DEF ListenInit
<1>5. ConnInv /\ TableInv /\ ReadyInv /\ CountedInv
  BY <1>1 DEF ListenInit, ConnInv, TableInv, ReadyInv, CountedInv, NothingReady
<1> QED
  BY <1>2, <1>4, <1>5 DEF ListenInv

LEMMA ListenNext ==
    ASSUME ListenInv, [ListenStep]_listenvars
    PROVE  ListenInv'
<1>1. CASE UNCHANGED listenvars
  <2>1. /\ pc' = pc /\ startup_pipes' = startup_pipes /\ startups' = startups
        /\ fdset' = fdset /\ received' = received /\ eintr' = eintr
        /\ generation' = generation /\ backlog' = backlog /\ conn' = conn
    BY <1>1 DEF listenvars, listener
  <2>2. ListenTypeOK'
    BY <2>1 DEF ListenTypeOK, ListenInv
  <2>3. Occupied' = Occupied /\ ConnInv' /\ TableInv' /\ ReadyInv' /\ CountedInv'
    BY <2>1 DEF Occupied, ConnInv, TableInv, ReadyInv, CountedInv, Counted, ListenInv
  <2> QED
    BY <2>1, <2>2, <2>3 DEF ListenInv
<1>2. CASE ListenerStep
  BY <1>2, LoopTopStep, SelectStep, CountOutStep, AcceptStep DEF ListenerStep
<1>3. ASSUME NEW s \in {"hup", "term"}, Signal(s) PROVE ListenInv'
  BY <1>3, SignalStep
<1>4. ASSUME NEW c \in Conns,
             \/ Connect(c) \/ Startup(c) \/ sshd_exchange_identification(c)
             \/ privsep_preauth(c) \/ NetEnds(c) \/ monitor_read_eof(c)
             \/ Authenticated(c) \/ Exit(c) \/ grace_alarm_handler(c)
      PROVE  ListenInv'
  BY <1>4, ConnectStep, StartupStep, IdentStep, PreauthStep, NetEndsStep, ExitStep,
     AuthenticatedStep, AlarmStep
<1> QED
  BY <1>1, <1>2, <1>3, <1>4 DEF ListenStep

\* The inductive invariant of the listener and its connections (sshd.c).
THEOREM ListenInvariance == ListenSpec => []ListenInv
<1> QED
  BY ListenInitInv, ListenNext, PTL DEF ListenSpec

\* The listening sshd counts the connections that are not authenticated exactly,
\* whatever MaxStartups is and however its loop, the signals and the processes of
\* the connections interleave (server_accept_loop, drop_connection).
THEOREM ListenStartups == ListenSpec => []StartupsExact
<1>1. ASSUME ListenInv PROVE StartupsExact
  <2> USE <1>1 DEF ListenInv
  <2>1. startups = Cardinality({i \in Slots : startup_pipes[i] # NoConn})
    BY DEF Occupied
  <2>2. FALSE \in drop_connection(startups) => FreeSlots # {}
    BY SlotFree DEF ListenTypeOK
  <2>3. \A c \in Conns :
          /\ conn[c].gen = generation /\ pc # "exited" /\ c \notin backlog
               => (conn[c].pipe # {} => Counted(c))
          /\ Unauthenticated(conn[c]) => "priv" \in conn[c].pipe
          /\ conn[c].net = "running" => "net" \in conn[c].pipe
    BY DEF ConnInv, RecordInv, CountedInv
  <2>4. \A i, j \in Slots :
          startup_pipes[i] = startup_pipes[j] /\ startup_pipes[i] # NoConn => i = j
    BY DEF TableInv
  <2> HIDE DEF ListenInv
  <2> QED
    BY <2>1, <2>2, <2>3, <2>4, Zenon DEF StartupsExact
<1> QED
  BY <1>1, ListenInvariance, PTL
=============================================================================
