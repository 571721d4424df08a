------------------------------ MODULE KeyScan ------------------------------
(***************************************************************************)
(* ssh-keyscan (ssh-keyscan.c): the host keys of many hosts, over as many  *)
(* connections at a time as there are descriptors for.  One connection for *)
(* each host and type of key; the table fdcon is indexed by descriptor,    *)
(* and the queue tq holds the connections in the order they time out.  A   *)
(* host is given as addresses to try in turn, and the names to print.      *)
(* Connecting, greetings and key exchanges end as they like.               *)
(***************************************************************************)
EXTENDS Integers, Sequences, SequencesExt, FiniteSets, FiniteSetsExt

CONSTANTS
  ScanHosts,      \* the hosts of the command line: records [addrs, names]
  KeyTypes,       \* the types asked for, in the order of do_host()
  MaxFd,          \* descriptors of the process: 1..MaxFd
  KeepFree,       \* those that connections leave free (10 in MAXCON)
  ScanTimeout,
  MaxScanTime     \* the last moment of the clock

VARIABLES fdcon, tq, ncon, openFds, jobs, scan, scanClock, keyLines, scanHist
scanVars == <<fdcon, tq, ncon, openFds, jobs, scan, scanClock, keyLines, scanHist>>

MAXCON == MaxFd - KeepFree
CS_UNUSED == [status |-> "unused"]
InUse == {s \in 1..MaxFd : fdcon[s].status # "unused"}
JobOf(c) == [names |-> c.names, type |-> c.type]

ScanInit(split) ==
  /\ fdcon = [s \in 1..MaxFd |-> CS_UNUSED] /\ tq = <<>> /\ ncon = 0 /\ openFds = {}
  /\ jobs = FlattenSeq([h \in DOMAIN ScanHosts |-> [t \in DOMAIN KeyTypes |-> [host |-> ScanHosts[h], type |-> KeyTypes[t]]]])
  /\ scan = [pc |-> "hosts", ready |-> {}, except |-> {}, now |-> 0, next |-> 0, split |-> split]
  /\ scanClock = 0 /\ keyLines = <<>>
  /\ scanHist = [fatal |-> "", starved |-> FALSE, tried |-> {}, refused |-> {}]

-----------------------------------------------------------------------------
(***************************************************************************)
(* The table.  A table is a record of everything below that one handler    *)
(* changes, so that conrecycle() can be put together from the others.      *)
(***************************************************************************)
Table == [con |-> fdcon, tq |-> tq, ncon |-> ncon, open |-> openFds, hist |-> scanHist]
SetTable(t) == fdcon' = t.con /\ tq' = t.tq /\ ncon' = t.ncon /\ openFds' = t.open /\ scanHist' = t.hist
Fatal(t, why) == [t EXCEPT !.hist.fatal = why]
Attempts(t, job, addrs) == [t EXCEPT !.hist.tried = @ \union {<<job, a>> : a \in addrs}]

\* How many of the addresses cannot be connected to before one can: all of them if there
\* is no descriptor for a socket.
Misses(t, addrs) == IF 1..MaxFd \subseteq t.open THEN {Len(addrs)} ELSE 0..Len(addrs)

conalloc(t, addrs, names, type, misses) ==
  LET job == [names |-> names, type |-> type]
      s == Min((1..MaxFd) \ t.open)
      t1 == Attempts(t, job, {addrs[i] : i \in 1..Min({misses + 1, Len(addrs)})})
  IN IF misses = Len(addrs) THEN [t1 EXCEPT !.hist.starved = @ \/ (addrs # <<>> /\ 1..MaxFd \subseteq t.open)]
     ELSE IF t.con[s].status # "unused" THEN Fatal(t1, "attempt to reuse fdno")
     ELSE [t1 EXCEPT !.con[s] = [status |-> "con", addr |-> addrs[misses + 1], namelist |-> SubSeq(addrs, misses + 2, Len(addrs)), names |-> names,
                                 type |-> type, tv |-> scanClock + ScanTimeout, cut |-> FALSE],
                     !.tq = Append(@, s), !.ncon = @ + 1, !.open = @ \union {s}]

confree(t, s) ==
  IF t.con[s].status = "unused" THEN Fatal(t, "attempt to free bad fdno")
  ELSE [t EXCEPT !.con[s] = CS_UNUSED, !.tq = SelectSeq(@, LAMBDA x : x # s), !.ncon = @ - 1, !.open = @ \ {s}]

contouch(t, s) ==
  [t EXCEPT !.con[s].tv = scanClock + ScanTimeout, !.tq = Append(SelectSeq(@, LAMBDA x : x # s), s)]

\* The next address of the same host takes over before the descriptor is given back.
conrecycle(t, s, misses) ==
  confree(conalloc(t, t.con[s].namelist, t.con[s].names, t.con[s].type, misses), s)

\* The host will not be asked again: not at another address either.
Refuse(t, s) == [confree(t, s) EXCEPT !.hist.refused = @ \union {JobOf(t.con[s])}]

-----------------------------------------------------------------------------
(* One descriptor that select() has reported. *)
ssh2_capable(version) == version \in {"1.99", "2.0"}
ssh1_capable(version) == version \in {"1.5", "1.99"}
Capable(type, version) == IF type = "rsa1" THEN ssh1_capable(version) ELSE ssh2_capable(version)

\* A line for all the names of the host, or one for each when they are hashed or carry a
\* port of their own.
keyprint(c) ==
  LET key == [addr |-> c.addr, type |-> c.type]
  IN keyLines \o IF scan.split THEN [i \in DOMAIN c.names |-> [names |-> <<c.names[i]>>, key |-> key]]
                 ELSE <<[names |-> c.names, key |-> key]>>

\* The key exchange up to the host key, where it always stops; and the packet of protocol
\* 1 with the key.
keygrab_ssh2(s) ==
  \E answered \in BOOLEAN :
    /\ keyLines' = IF answered THEN keyprint(fdcon[s]) ELSE keyLines
    /\ SetTable(IF answered THEN confree(Table, s) ELSE Refuse(Table, s))
keygrab_ssh1(s) ==
  \E wellFormed \in BOOLEAN :
    /\ keyLines' = IF wellFormed THEN keyprint(fdcon[s]) ELSE keyLines
    /\ SetTable(IF wellFormed THEN confree(Table, s) ELSE Refuse(Table, s))

\* The greeting.
congreet(s) ==
  \/ /\ \E misses \in Misses(Table, fdcon[s].namelist) : SetTable(conrecycle(Table, s, misses))     \* closed
     /\ UNCHANGED keyLines
  \/ \E version \in {"bad", "1.5", "1.99", "2.0"} :
       \/ /\ ~Capable(fdcon[s].type, version)
          /\ SetTable(Refuse(Table, s)) /\ UNCHANGED keyLines
       \/ /\ Capable(fdcon[s].type, version)
          /\ SetTable(Refuse(Table, s)) /\ UNCHANGED keyLines                                       \* write fails
       \/ Capable(fdcon[s].type, version) /\ fdcon[s].type # "rsa1" /\ keygrab_ssh2(s)
       \/ /\ Capable(fdcon[s].type, version) /\ fdcon[s].type = "rsa1"
          /\ SetTable(contouch([Table EXCEPT !.con[s].status = "size"], s)) /\ UNCHANGED keyLines

\* The packet of protocol 1: its length, and then the rest.  Less than all is read only
\* when the peer has closed.
ReadMore(s) ==
  \/ SetTable(Refuse(Table, s)) /\ UNCHANGED keyLines
  \/ /\ ~fdcon[s].cut
     /\ SetTable(contouch([Table EXCEPT !.con[s].cut = TRUE], s)) /\ UNCHANGED keyLines
  \/ /\ ~fdcon[s].cut /\ fdcon[s].status = "size"
     /\ SetTable(contouch([Table EXCEPT !.con[s].status = "keys"], s)) /\ UNCHANGED keyLines
  \/ ~fdcon[s].cut /\ fdcon[s].status = "keys" /\ keygrab_ssh1(s)

conread(s) == IF fdcon[s].status = "con" THEN congreet(s) ELSE ReadMore(s)

-----------------------------------------------------------------------------
(* The loop. *)

\* The hosts of the command line, while there is room; the results of earlier ones are
\* collected meanwhile, and the rest at the end.
do_host ==
  /\ scan.pc = "hosts" /\ jobs # <<>> /\ ncon < MAXCON
  /\ LET j == Head(jobs)
     IN \E misses \in Misses(Table, j.host.addrs) :
          SetTable(conalloc(Table, j.host.addrs, j.host.names, j.type, misses))
  /\ jobs' = Tail(jobs)
  /\ UNCHANGED <<scan, scanClock, keyLines>>

\* conloop(): the time is read here, and again nowhere in this round.
LoopBegin ==
  /\ scan.pc = "hosts" /\ IF jobs = <<>> THEN ncon > 0 ELSE ncon >= MAXCON
  /\ scan' = [scan EXCEPT !.pc = "select", !.now = scanClock]
  /\ UNCHANGED <<fdcon, tq, ncon, openFds, jobs, scanClock, keyLines, scanHist>>

Select ==
  /\ scan.pc = "select"
  /\ \E ready \in SUBSET InUse : \E except \in SUBSET (InUse \ ready) :      \* an exception comes first
       /\ ready \union except = {} => tq = <<>> \/ scanClock >= fdcon[Head(tq)].tv
       /\ scan' = [scan EXCEPT !.pc = "serve", !.ready = ready, !.except = except]
  /\ UNCHANGED <<fdcon, tq, ncon, openFds, jobs, scanClock, keyLines, scanHist>>

Reported == scan.ready \union scan.except
Serve ==
  /\ scan.pc = "serve" /\ Reported # {}
  /\ LET s == Min(Reported)
     IN /\ IF s \in scan.except THEN SetTable(Refuse(Table, s)) /\ UNCHANGED keyLines ELSE conread(s)
        /\ scan' = [scan EXCEPT !.ready = @ \ {s}, !.except = @ \ {s}]
  /\ UNCHANGED <<jobs, scanClock>>

ServeEnd ==
  /\ scan.pc = "serve" /\ Reported = {}
  /\ scan' = [scan EXCEPT !.pc = "expire", !.next = IF tq = <<>> THEN 0 ELSE Head(tq)]
  /\ UNCHANGED <<fdcon, tq, ncon, openFds, jobs, scanClock, keyLines, scanHist>>

\* TAILQ_NEXT is taken before the connection is recycled.
After(s) == LET i == CHOOSE j \in DOMAIN tq : tq[j] = s IN IF i = Len(tq) THEN 0 ELSE tq[i + 1]
TimedOut == scan.next # 0 /\ fdcon[scan.next].tv < scan.now
Expire ==
  /\ scan.pc = "expire" /\ TimedOut
  /\ \E misses \in Misses(Table, fdcon[scan.next].namelist) : SetTable(conrecycle(Table, scan.next, misses))
  /\ scan' = [scan EXCEPT !.next = After(scan.next)]
  /\ UNCHANGED <<jobs, scanClock, keyLines>>

LoopEnd ==
  /\ scan.pc = "expire" /\ ~TimedOut
  /\ scan' = [scan EXCEPT !.pc = "hosts", !.next = 0, !.now = 0]
  /\ UNCHANGED <<fdcon, tq, ncon, openFds, jobs, scanClock, keyLines, scanHist>>

ScanTick ==
  /\ scanClock < MaxScanTime /\ (jobs # <<>> \/ ncon > 0)
  /\ scanClock' = scanClock + 1
  /\ UNCHANGED <<fdcon, tq, ncon, openFds, jobs, scan, keyLines, scanHist>>

ScanNext == do_host \/ LoopBegin \/ Select \/ Serve \/ ServeEnd \/ Expire \/ LoopEnd \/ ScanTick

-----------------------------------------------------------------------------
(* What is asked for at all, and what has come of it. *)
ScanJobs == {[host |-> ScanHosts[h], type |-> KeyTypes[t]] : h \in DOMAIN ScanHosts, t \in DOMAIN KeyTypes}
PrintedFor(j, name) == {i \in DOMAIN keyLines : name \in ToSet(keyLines[i].names) /\ keyLines[i].key.type = j.type
                                                /\ keyLines[i].key.addr \in ToSet(j.host.addrs)}
JobName(j) == [names |-> j.host.names, type |-> j.type]
Pending(j) == j \in ToSet(jobs)
HeldBy(j) == {s \in InUse : JobOf(fdcon[s]) = JobName(j)}
Answered(j) == \A n \in ToSet(j.host.names) : Cardinality(PrintedFor(j, n)) = 1
GivenUp(j) == /\ \A n \in ToSet(j.host.names) : PrintedFor(j, n) = {}
              /\ \/ JobName(j) \in scanHist.refused
                 \/ \A a \in ToSet(j.host.addrs) : <<JobName(j), a>> \in scanHist.tried

(***************************************************************************)
(* Whichever descriptors become ready, fail, time out or are used again:   *)
(* the table, the queue, the counter and the open sockets agree and the    *)
(* queue is in the order of the timeouts, so that no fatal() of the table  *)
(* is reached; no address is passed over for want of a descriptor; and     *)
(* each key that was asked for is still to be asked for, or asked for on   *)
(* exactly one connection, or printed once for each name of its host, or   *)
(* was refused or sought at every address (ssh-keyscan.c).                 *)
(***************************************************************************)
ScanExact ==
  /\ scanHist.fatal = "" /\ ~scanHist.starved /\ ncon <= MAXCON
  /\ openFds = InUse /\ ToSet(tq) = InUse /\ Len(tq) = ncon /\ ncon = Cardinality(InUse)
  /\ \A i \in 1..(Len(tq) - 1) : fdcon[tq[i]].tv <= fdcon[tq[i + 1]].tv
  /\ Reported \subseteq InUse
  /\ \A j \in ScanJobs :
       IF Pending(j) THEN HeldBy(j) = {}
       ELSE IF HeldBy(j) # {} THEN Cardinality(HeldBy(j)) = 1 /\ \A n \in ToSet(j.host.names) : PrintedFor(j, n) = {}
       ELSE Answered(j) \/ GivenUp(j)
=============================================================================
