----------------------------- MODULE SftpProofs -----------------------------
(***************************************************************************)
(* TLAPS proof that the sftp client never meets a reply it did not ask for, *)
(* and that the server has every handle back between two commands           *)
(* (SftpSound), for all files, commands, buffer sizes and numbers of        *)
(* requests under way, replies in any order, short reads, failures and      *)
(* interrupts at any time.                                                  *)
(*                                                                          *)
(* The ids of the requests and of the replies under way are together those  *)
(* that the client waits for, each once (Flight).  That a close finds its   *)
(* handle needs what was asked for where the client waits (Asked), what the *)
(* server's table holds there (Table), and that what follows an upload      *)
(* ends with close (Purpose).                                               *)
(***************************************************************************)
EXTENDS SftpClient, SequenceTheorems, TLAPS

-----------------------------------------------------------------------------
(* The invariant.                                                          *)

\* Where the client waits for nothing, for one reply, or for several.
Quiet == {"idle", "next", "aborted", "dl_end", "ul_tail"}
Single == {"simple", "dl_stat", "dl_open", "dl_close", "dl_fail", "ul_stat", "ul_open", "ul_close",
           "ls_open", "ls", "ls_close"}
Streaming == {"dl", "ul", "ul_wait"}
\* Where it is in do_upload().
Uploading == {"ul_stat", "ul_open", "ul", "ul_wait", "ul_tail", "ul_close"}

\* The items of a sequence, and their ids.
Items(s) == {s[i] : i \in DOMAIN s}
Ids(s) == {s[i].id : i \in DOMAIN s}
\* The sequence s, of requests or replies, has the ids I, each once.
Carries(s, I) ==
  /\ s \in Seq(Items(s)) /\ Ids(s) = I
  /\ \A i, j \in DOMAIN s : s[i].id = s[j].id => i = j

\* What the client waits for.
Expected == Ids(t.reqs) \cup (IF pc \in Single THEN {msg_id - 1} ELSE {})
Flight ==
  /\ Carries(requests, Ids(requests)) /\ Carries(replies, Ids(replies))
  /\ Ids(requests) \cap Ids(replies) = {} /\ Ids(requests) \cup Ids(replies) = Expected

\* What is asked for, by where the client is.
Fits(q) ==
  /\ pc = "simple" => q.op \in Simple
  /\ pc \in {"dl_stat", "ul_stat"} => q.op = "stat"
  /\ pc \in {"dl_open", "ul_open"} => q.op = "open"
  /\ pc = "ls_open" => q.op = "opendir"
  /\ pc = "dl" => q.op = "read"
  /\ pc \in {"ul", "ul_wait"} => q.op = "write"
  /\ pc = "ls" => q.op = "readdir"
  /\ pc \in {"dl_close", "dl_fail", "ls_close"} => q.op = "close" /\ q.handle = t.handle
  /\ pc = "ul_close" => q.op = Head(t.tail) /\ q.handle = t.handle
\* So is everything under way.
Asked == \A i \in DOMAIN requests : Fits(requests[i])

\* The table of handles: nothing is open, or h is.
Shut == \/ handles = <<>> /\ unused = <<>>
        \/ /\ Len(handles) = 1 /\ handles \in Seq(Items(handles))
           /\ "use" \in DOMAIN handles[1] /\ handles[1].use = "unused" /\ unused = <<1>>
Holds(h) == /\ h = 1 /\ Len(handles) = 1 /\ handles \in Seq(Items(handles))
            /\ "use" \in DOMAIN handles[1] /\ handles[1].use \in {"file", "dir"} /\ unused = <<>>
\* The reply to open or opendir agrees with the table.
Granted(r) == (r.type = "status" /\ Shut) \/ (r.type = "handle" /\ Holds(r.handle))
\* What the table holds, by where the client is.
Table ==
  /\ pc \in {"idle", "next", "aborted", "simple", "dl_stat", "ul_stat"} => Shut
  /\ pc \in {"dl_open", "ul_open", "ls_open"} =>
       /\ replies = <<>> => Shut
       /\ \A i \in DOMAIN replies : Granted(replies[i])
  /\ pc \in {"dl", "dl_end", "ul", "ul_wait", "ul_tail", "ls"} => Holds(t.handle)
  /\ pc \in {"dl_close", "dl_fail", "ls_close"} =>
       IF requests = <<>> THEN Shut ELSE Holds(t.handle)
  /\ pc = "ul_close" =>
       IF requests = <<>> /\ Len(t.tail) = 1 THEN Shut ELSE Holds(t.handle)

\* The locals of the client.
Fields == {"handle", "reqs", "max", "tail", "id", "st"}
Places ==
  /\ pc \in Quiet \cup Single \cup Streaming
  /\ msg_id \in Int
  /\ Fields \subseteq DOMAIN t
  /\ Carries(t.reqs, Ids(t.reqs)) /\ t.max \in Int
  /\ pc \notin Streaming => t.reqs = <<>>
\* The ids in use are older than the next one; write requests have numbers of their own.
Numbers ==
  /\ pc = "dl" => \A x \in Ids(t.reqs) : x \in Int /\ x < msg_id
  /\ pc \in {"ul", "ul_wait"} => t.id \in Int /\ \A x \in Ids(t.reqs) : x \in Int /\ x <= t.id
\* What the client is at; the requests that follow an upload end with the only close.
Purpose ==
  /\ pc \notin {"idle", "aborted"} => command \in Commands
  /\ pc \in Uploading => command.op = "put"
  /\ pc \in {"ul_tail", "ul_close"} =>
       /\ t.tail \in Seq({"fsetstat", "fsync", "close"}) /\ t.tail # <<>>
       /\ \A i \in DOMAIN t.tail : t.tail[i] = "close" <=> i = Len(t.tail)

\* The inductive invariant.
SftpInv == Places /\ Numbers /\ Purpose /\ Flight /\ Asked /\ Table

-----------------------------------------------------------------------------
(* Sequences of requests and replies.                                      *)

\* Whatever s is a sequence of, it is one of its own items.
LEMMA ItemsOf ==
    ASSUME NEW S, NEW s \in Seq(S)
    PROVE  s \in Seq(Items(s)) /\ DOMAIN s = 1 .. Len(s) /\ Len(s) \in Nat
  BY DEF Items

\* The ids of s, given one by one.
LEMMA CarriesFacts ==
    ASSUME NEW s, NEW I, Carries(s, I)
    PROVE  /\ s \in Seq(Items(s)) /\ Len(s) \in Nat /\ DOMAIN s = 1 .. Len(s)
           /\ \A i \in 1 .. Len(s) : s[i].id \in I
           /\ \A x \in I : \E i \in 1 .. Len(s) : s[i].id = x
           /\ \A i, j \in 1 .. Len(s) : s[i].id = s[j].id => i = j
           /\ Ids(s) = I
  BY DEF Carries, Ids

\* The same, as a rule.
LEMMA CarriesRule ==
    ASSUME NEW S, NEW s \in Seq(S), NEW I,
           \A i \in 1 .. Len(s) : s[i].id \in I,
           \A x \in I : \E i \in 1 .. Len(s) : s[i].id = x,
           \A i, j \in 1 .. Len(s) : s[i].id = s[j].id => i = j
    PROVE  Carries(s, I) /\ Ids(s) = I
  <1>1. s \in Seq(Items(s)) /\ DOMAIN s = 1 .. Len(s)
    BY ItemsOf
  <1>2. Ids(s) = I
    BY <1>1 DEF Ids
  <1> QED  BY <1>1, <1>2 DEF Carries

\* The empty sequence.
LEMMA CarriesNone ==
    ASSUME NEW s
    PROVE  /\ Carries(<<>>, {}) /\ Ids(<<>>) = {}
           /\ Carries(s, {}) => s = <<>>
  <1>1. <<>> \in Seq({}) /\ Len(<<>>) = 0
    OBVIOUS
  <1>2. Carries(<<>>, {}) /\ Ids(<<>>) = {}
    BY <1>1 DEF Carries, Ids, Items
  <1>3. ASSUME Carries(s, {}) PROVE s = <<>>
    <2>1. s \in Seq(Items(s)) /\ Len(s) \in Nat /\ \A i \in 1 .. Len(s) : s[i].id \in {}
      BY <1>3, CarriesFacts
    <2>2. Len(s) = 0
      BY <2>1
    <2> QED  BY <2>1, <2>2
  <1> QED  BY <1>2, <1>3

\* A sequence of one.
LEMMA CarriesOne ==
    ASSUME NEW s, NEW x, Carries(s, {x})
    PROVE  Len(s) = 1 /\ s[1].id = x /\ DOMAIN s = {1} /\ s # <<>>
  <1> DEFINE J == {x}
  <1>0. Carries(s, J) /\ \A y : y \in J <=> y = x
    OBVIOUS
  <1> HIDE DEF J
  <1>1. /\ s \in Seq(Items(s)) /\ Len(s) \in Nat /\ DOMAIN s = 1 .. Len(s)
        /\ \A i \in 1 .. Len(s) : s[i].id = x
        /\ \E i \in 1 .. Len(s) : s[i].id = x
        /\ \A i, j \in 1 .. Len(s) : s[i].id = s[j].id => i = j
    BY <1>0, CarriesFacts
  <1>2. Len(s) = 1
    <2>1. Len(s) # 0
      BY <1>1
    <2>2. ASSUME Len(s) >= 2 PROVE FALSE
      <3>1. 1 \in 1 .. Len(s) /\ 2 \in 1 .. Len(s)
        BY <1>1, <2>2
      <3> QED  BY <1>1, <3>1
    <2> QED  BY <1>1, <2>1, <2>2
  <1> QED  BY <1>1, <1>2

\* The first is taken.
LEMMA CarriesTail ==
    ASSUME NEW s, NEW I, Carries(s, I), s # <<>>
    PROVE  /\ Head(s).id \in I /\ Head(s) = s[1] /\ Carries(Tail(s), I \ {Head(s).id})
           /\ \A i \in DOMAIN Tail(s) : i + 1 \in DOMAIN s /\ Tail(s)[i] = s[i + 1]
  <1> DEFINE u == Tail(s)
  <1>1. /\ s \in Seq(Items(s)) /\ Len(s) \in Nat /\ DOMAIN s = 1 .. Len(s)
        /\ \A i \in 1 .. Len(s) : s[i].id \in I
        /\ \A x \in I : \E i \in 1 .. Len(s) : s[i].id = x
        /\ \A i, j \in 1 .. Len(s) : s[i].id = s[j].id => i = j
    BY CarriesFacts
  <1>2. /\ u \in Seq(Items(s)) /\ Len(u) = Len(s) - 1 /\ Len(s) >= 1 /\ Head(s) = s[1]
        /\ DOMAIN u = 1 .. Len(s) - 1 /\ \A i \in 1 .. Len(s) - 1 : u[i] = s[i + 1]
    BY <1>1
  <1> HIDE DEF u
  <1>3. \A i \in 1 .. Len(u) : u[i].id \in I \ {s[1].id}
    BY <1>1, <1>2
  <1>4. ASSUME NEW x \in I \ {s[1].id} PROVE \E i \in 1 .. Len(u) : u[i].id = x
    <2>1. PICK i \in 1 .. Len(s) : s[i].id = x
      BY <1>1, <1>4
    <2>2. i # 1 /\ i - 1 \in 1 .. Len(u) /\ i - 1 + 1 = i
      BY <1>1, <1>2, <1>4, <2>1
    <2>3. u[i - 1] = s[i]
      BY <1>2, <2>2
    <2> QED  BY <2>1, <2>2, <2>3
  <1>5. \A i, j \in 1 .. Len(u) : u[i].id = u[j].id => i = j
    BY <1>1, <1>2
  <1>6. Carries(u, I \ {s[1].id})
    <2> DEFINE J == I \ {s[1].id}
    <2>1. \A i \in 1 .. Len(u) : u[i].id \in J
      BY <1>3
    <2>2. \A x \in J : \E i \in 1 .. Len(u) : u[i].id = x
      BY <1>4
    <2> HIDE DEF J
    <2>3. Carries(u, J)
      BY <1>2, <1>5, <2>1, <2>2, CarriesRule
    <2> QED  BY <2>3 DEF J
  <1> QED  BY <1>1, <1>2, <1>6 DEF u

\* One more at the end.
LEMMA CarriesAppend ==
    ASSUME NEW s, NEW I, Carries(s, I), NEW r, r.id \notin I
    PROVE  /\ Carries(Append(s, r), I \cup {r.id})
           /\ \A i \in DOMAIN Append(s, r) : (i \in DOMAIN s /\ Append(s, r)[i] = s[i]) \/ Append(s, r)[i] = r
           /\ Append(s, r) # <<>>
  <1> DEFINE u == Append(s, r)
             S == Items(s) \cup {r}
  <1>1. /\ s \in Seq(Items(s)) /\ Len(s) \in Nat /\ DOMAIN s = 1 .. Len(s)
        /\ \A i \in 1 .. Len(s) : s[i].id \in I
        /\ \A x \in I : \E i \in 1 .. Len(s) : s[i].id = x
        /\ \A i, j \in 1 .. Len(s) : s[i].id = s[j].id => i = j
    BY CarriesFacts
  <1>2. s \in Seq(S) /\ r \in S
    BY <1>1
  <1> HIDE DEF S
  <1>3. /\ u \in Seq(S) /\ Len(u) = Len(s) + 1 /\ DOMAIN u = 1 .. Len(s) + 1 /\ u # <<>>
        /\ u[Len(s) + 1] = r /\ \A i \in 1 .. Len(s) : u[i] = s[i]
    <2>1. /\ u \in Seq(S) /\ Len(u) = Len(s) + 1 /\ u # <<>>
          /\ u[Len(s) + 1] = r /\ \A i \in 1 .. Len(s) : u[i] = s[i]
      BY <1>2, AppendProperties
    <2> HIDE DEF u
    <2>2. DOMAIN u = 1 .. Len(s) + 1
      BY <1>1, <2>1
    <2> QED  BY <2>1, <2>2
  <1> HIDE DEF u
  <1>4. \A i \in 1 .. Len(u) : u[i].id \in I \cup {r.id}
    BY <1>1, <1>3
  <1>5. \A x \in I \cup {r.id} : \E i \in 1 .. Len(u) : u[i].id = x
    BY <1>1, <1>3
  <1>6. \A i, j \in 1 .. Len(u) : u[i].id = u[j].id => i = j
    BY <1>1, <1>3
  <1>7. Carries(u, I \cup {r.id})
    BY <1>3, <1>4, <1>5, <1>6, CarriesRule
  <1>8. \A i \in DOMAIN u : (i \in DOMAIN s /\ u[i] = s[i]) \/ u[i] = r
    BY <1>1, <1>3
  <1> QED  BY <1>3, <1>7, <1>8 DEF u

\* One is taken out.
LEMMA CarriesRemove ==
    ASSUME NEW s, NEW I, Carries(s, I), NEW k \in DOMAIN s
    PROVE  /\ s[k].id \in I /\ Carries(RemoveAt(s, k), I \ {s[k].id})
           /\ \A i \in DOMAIN RemoveAt(s, k) : \E j \in DOMAIN s : RemoveAt(s, k)[i] = s[j]
  <1> DEFINE u == RemoveAt(s, k)
             n == Len(s)
  <1>1. /\ s \in Seq(Items(s)) /\ n \in Nat /\ DOMAIN s = 1 .. n
        /\ \A i \in 1 .. n : s[i].id \in I
        /\ \A x \in I : \E i \in 1 .. n : s[i].id = x
        /\ \A i, j \in 1 .. n : s[i].id = s[j].id => i = j
    BY CarriesFacts
  <1>2. /\ u \in Seq(Items(s)) /\ Len(u) = n - 1
        /\ \A i \in 1 .. n - 1 : u[i] = IF i < k THEN s[i] ELSE s[i + 1]
    <2>1. k \in 1 .. n
      BY <1>1
    <2>2. u = SubSeq(s, 1, k - 1) \o SubSeq(s, k + 1, n)
      BY DEF RemoveAt
    <2> DEFINE a == SubSeq(s, 1, k - 1)
               b == SubSeq(s, k + 1, n)
    <2>3. /\ a \in Seq(Items(s)) /\ Len(a) = k - 1
          /\ \A i \in 1 .. k - 1 : a[i] = s[i]
      BY <1>1, <2>1
    <2>4. /\ b \in Seq(Items(s)) /\ Len(b) = n - k
          /\ \A i \in 1 .. n - k : b[i] = s[k + i]
      BY <1>1, <2>1
    <2>5. u = a \o b
      BY <2>2
    <2> HIDE DEF u, a, b, n
    <2>6. /\ u \in Seq(Items(s)) /\ Len(u) = Len(a) + Len(b)
          /\ \A i \in 1 .. Len(a) + Len(b) : u[i] = IF i <= Len(a) THEN a[i] ELSE b[i - Len(a)]
      BY <2>3, <2>4, <2>5
    <2>7. Len(u) = n - 1
      BY <1>1, <2>1, <2>3, <2>4, <2>6
    <2>8. ASSUME NEW i \in 1 .. n - 1 PROVE u[i] = IF i < k THEN s[i] ELSE s[i + 1]
      <3>1. i \in 1 .. Len(a) + Len(b)
        BY <1>1, <2>1, <2>3, <2>4
      <3>2. CASE i < k
        <4>1. i \in 1 .. k - 1 /\ i <= Len(a)
          BY <1>1, <2>1, <2>3, <3>2
        <4> QED  BY <2>3, <2>6, <3>1, <3>2, <4>1
      <3>3. CASE ~(i < k)
        <4>1. i - Len(a) \in 1 .. n - k /\ ~(i <= Len(a)) /\ k + (i - Len(a)) = i + 1
          BY <1>1, <2>1, <2>3, <3>3
        <4>2. b[i - Len(a)] = s[i + 1]
          BY <2>4, <4>1
        <4> QED  BY <2>6, <3>1, <3>3, <4>1, <4>2
      <3> QED  BY <3>2, <3>3
    <2> QED  BY <2>6, <2>7, <2>8
  <1> HIDE DEF u, n
  <1>3. k \in 1 .. n /\ DOMAIN u = 1 .. n - 1
    BY <1>1, <1>2
  <1>4. \A i \in 1 .. Len(u) : u[i].id \in I \ {s[k].id}
    BY <1>1, <1>2, <1>3
  <1>5. ASSUME NEW x \in I \ {s[k].id} PROVE \E i \in 1 .. Len(u) : u[i].id = x
    <2>1. PICK i \in 1 .. n : s[i].id = x
      BY <1>1, <1>5
    <2>2. CASE i < k
      <3>1. i \in 1 .. Len(u) /\ i \in 1 .. n - 1
        BY <1>1, <1>2, <1>3, <2>2
      <3>2. u[i] = s[i]
        BY <1>2, <2>2, <3>1
      <3> QED  BY <2>1, <3>1, <3>2
    <2>3. CASE i > k
      <3>1. i - 1 \in 1 .. Len(u) /\ ~(i - 1 < k) /\ i - 1 + 1 = i
        BY <1>1, <1>2, <1>3, <2>1, <2>3
      <3>2. u[i - 1] = s[i]
        BY <1>2, <3>1
      <3> QED  BY <2>1, <3>1, <3>2
    <2> QED  BY <1>3, <1>5, <2>1, <2>2, <2>3
  <1>6. \A i, j \in 1 .. Len(u) : u[i].id = u[j].id => i = j
    BY <1>1, <1>2, <1>3
  <1>7. Carries(u, I \ {s[k].id})
    BY <1>2, <1>4, <1>5, <1>6, CarriesRule
  <1>8. ASSUME NEW i \in DOMAIN u PROVE \E j \in DOMAIN s : u[i] = s[j]
    <2>1. i \in 1 .. n - 1 /\ i \in DOMAIN s /\ i + 1 \in DOMAIN s
      BY <1>1, <1>3
    <2>2. u[i] = s[i] \/ u[i] = s[i + 1]
      BY <1>2, <2>1
    <2> QED  BY <2>1, <2>2
  <1> QED  BY <1>1, <1>3, <1>7, <1>8 DEF u, n

\* One is replaced.
LEMMA CarriesReplace ==
    ASSUME NEW s, NEW I, Carries(s, I), NEW k \in DOMAIN s, NEW r, r.id \notin I
    PROVE  Carries([s EXCEPT ![k] = r], (I \ {s[k].id}) \cup {r.id})
  <1> DEFINE u == [s EXCEPT ![k] = r]
             S == Items(s) \cup {r}
  <1>1. /\ s \in Seq(Items(s)) /\ Len(s) \in Nat /\ DOMAIN s = 1 .. Len(s)
        /\ \A i \in 1 .. Len(s) : s[i].id \in I
        /\ \A x \in I : \E i \in 1 .. Len(s) : s[i].id = x
        /\ \A i, j \in 1 .. Len(s) : s[i].id = s[j].id => i = j
    BY CarriesFacts
  <1>2. s \in Seq(S) /\ r \in S
    BY <1>1
  <1> HIDE DEF S
  <1>3. /\ u \in Seq(S) /\ Len(u) = Len(s) /\ k \in 1 .. Len(s)
        /\ u[k] = r /\ \A i \in 1 .. Len(s) : i # k => u[i] = s[i]
    BY <1>1, <1>2
  <1> HIDE DEF u
  <1>4. \A i \in 1 .. Len(u) : u[i].id \in (I \ {s[k].id}) \cup {r.id}
    BY <1>1, <1>3
  <1>5. \A x \in (I \ {s[k].id}) \cup {r.id} : \E i \in 1 .. Len(u) : u[i].id = x
    BY <1>1, <1>3
  <1>6. \A i, j \in 1 .. Len(u) : u[i].id = u[j].id => i = j
    BY <1>1, <1>3
  <1> DEFINE J == (I \ {s[k].id}) \cup {r.id}
  <1>7. (\A i \in 1 .. Len(u) : u[i].id \in J) /\ (\A x \in J : \E i \in 1 .. Len(u) : u[i].id = x)
    BY <1>4, <1>5
  <1> HIDE DEF J
  <1>8. Carries(u, J)
    BY <1>3, <1>6, <1>7, CarriesRule
  <1> QED  BY <1>8 DEF u, J

\* Two sequences, one behind the other.
LEMMA CarriesConcat ==
    ASSUME NEW s, NEW I, Carries(s, I), NEW v, NEW J, Carries(v, J), I \cap J = {}
    PROVE  /\ Carries(s \o v, I \cup J)
           /\ \A i \in DOMAIN (s \o v) : \/ \E j \in DOMAIN s : (s \o v)[i] = s[j]
                                         \/ \E j \in DOMAIN v : (s \o v)[i] = v[j]
  <1> DEFINE u == s \o v
             S == Items(s) \cup Items(v)
             n == Len(s)
             m == Len(v)
  <1>1. /\ s \in Seq(Items(s)) /\ n \in Nat /\ DOMAIN s = 1 .. n
        /\ \A i \in 1 .. n : s[i].id \in I
        /\ \A x \in I : \E i \in 1 .. n : s[i].id = x
        /\ \A i, j \in 1 .. n : s[i].id = s[j].id => i = j
    BY CarriesFacts
  <1>2. /\ v \in Seq(Items(v)) /\ m \in Nat /\ DOMAIN v = 1 .. m
        /\ \A i \in 1 .. m : v[i].id \in J
        /\ \A x \in J : \E i \in 1 .. m : v[i].id = x
        /\ \A i, j \in 1 .. m : v[i].id = v[j].id => i = j
    BY CarriesFacts
  <1>3. s \in Seq(S) /\ v \in Seq(S)
    BY <1>1, <1>2
  <1> HIDE DEF S
  <1>4. /\ u \in Seq(S) /\ Len(u) = n + m /\ DOMAIN u = 1 .. n + m
        /\ \A i \in 1 .. n : u[i] = s[i]
        /\ \A i \in n + 1 .. n + m : u[i] = v[i - n] /\ i - n \in 1 .. m
        /\ \A i \in 1 .. m : u[n + i] = v[i] /\ n + i \in 1 .. n + m
    BY <1>1, <1>2, <1>3
  <1> HIDE DEF u, n, m
  <1>5. \A i \in 1 .. n + m : i \in 1 .. n \/ i \in n + 1 .. n + m
    BY <1>1, <1>2
  <1>6. \A i \in 1 .. Len(u) : u[i].id \in I \cup J
    BY <1>1, <1>2, <1>4, <1>5
  <1>7. ASSUME NEW x \in I \cup J PROVE \E i \in 1 .. Len(u) : u[i].id = x
    <2>1. CASE x \in I
      <3>1. PICK i \in 1 .. n : s[i].id = x
        BY <1>1, <2>1
      <3> QED  BY <1>1, <1>2, <1>4, <3>1
    <2>2. CASE x \in J
      <3>1. PICK i \in 1 .. m : v[i].id = x
        BY <1>2, <2>2
      <3>2. u[n + i] = v[i] /\ n + i \in 1 .. Len(u)
        BY <1>4
      <3> QED  BY <3>1, <3>2
    <2> QED  BY <2>1, <2>2
  <1>8. ASSUME NEW i \in 1 .. Len(u), NEW j \in 1 .. Len(u), u[i].id = u[j].id PROVE i = j
    <2>1. CASE i \in 1 .. n /\ j \in 1 .. n
      BY <1>1, <1>4, <1>8, <2>1
    <2>2. CASE i \in n + 1 .. n + m /\ j \in n + 1 .. n + m
      <3>1. i - n = j - n
        BY <1>2, <1>4, <1>8, <2>2
      <3> QED  BY <1>1, <3>1
    <2>3. CASE i \in 1 .. n /\ j \in n + 1 .. n + m
      BY <1>1, <1>2, <1>4, <1>8, <2>3
    <2>4. CASE j \in 1 .. n /\ i \in n + 1 .. n + m
      BY <1>1, <1>2, <1>4, <1>8, <2>4
    <2> QED  BY <1>4, <1>5, <2>1, <2>2, <2>3, <2>4
  <1>9. Carries(u, I \cup J)
    BY <1>4, <1>6, <1>7, <1>8, CarriesRule
  <1>10. \A i \in DOMAIN u : (\E j \in DOMAIN s : u[i] = s[j]) \/ (\E j \in DOMAIN v : u[i] = v[j])
    BY <1>1, <1>2, <1>4, <1>5
  <1> QED  BY <1>9, <1>10 DEF u

-----------------------------------------------------------------------------
(* Requests and replies under way.                                         *)

\* Nothing is under way when the client expects nothing.
LEMMA Resting ==
    ASSUME SftpInv, pc \in Quiet
    PROVE  requests = <<>> /\ replies = <<>> /\ t.reqs = <<>>
  <1>1. t.reqs = <<>> /\ pc \notin Single
    BY DEF SftpInv, Places, Quiet, Streaming, Single
  <1>2. Expected = {}
    BY <1>1, CarriesNone DEF Expected
  <1>3. Carries(requests, {}) /\ Carries(replies, {})
    <2>1. Ids(requests) = {} /\ Ids(replies) = {}
      BY <1>2 DEF SftpInv, Flight
    <2> QED  BY <2>1 DEF SftpInv, Flight
  <1> QED  BY <1>1, <1>3, CarriesNone

\* What arrives when one reply is expected is that reply, and nothing is left.
LEMMA Answered ==
    ASSUME SftpInv, pc \in Single, NEW i \in Arriving
    PROVE  /\ requests = <<>> /\ t.reqs = <<>> /\ replies # <<>> /\ i \in DOMAIN replies
           /\ replies[i].id = msg_id - 1 /\ RemoveAt(replies, i) = <<>>
  <1> DEFINE x == msg_id - 1
  <1>1. t.reqs = <<>>
    BY DEF SftpInv, Places, Streaming, Single
  <1>2. Expected = {x}
    BY <1>1, CarriesNone DEF Expected
  <1>3. /\ Carries(replies, Ids(replies)) /\ Carries(requests, Ids(requests))
        /\ Ids(requests) \cap Ids(replies) = {} /\ Ids(requests) \cup Ids(replies) = {x}
    BY <1>2 DEF SftpInv, Flight
  <1> HIDE DEF x
  <1>4. replies \in Seq(Items(replies)) /\ Len(replies) \in Nat /\ DOMAIN replies = 1 .. Len(replies)
    BY <1>3, CarriesFacts
  <1>5. i \in DOMAIN replies /\ replies # <<>>
    BY <1>4 DEF Arriving, SmallerOf
  <1>6. replies[i].id \in Ids(replies) /\ Carries(RemoveAt(replies, i), Ids(replies) \ {replies[i].id})
    BY <1>3, <1>5, CarriesRemove
  <1>7. Ids(replies) = {x} /\ replies[i].id = x /\ Ids(requests) = {} /\ Ids(replies) \ {replies[i].id} = {}
    BY <1>3, <1>6
  <1>8. requests = <<>> /\ RemoveAt(replies, i) = <<>>
    BY <1>3, <1>6, <1>7, CarriesNone
  <1> QED  BY <1>1, <1>5, <1>7, <1>8 DEF x

\* send_msg() numbers the requests.
LEMMA Numbered ==
    ASSUME NEW S, NEW qs \in Seq(S), NEW m \in Int, \A i \in DOMAIN qs : "id" \in DOMAIN qs[i]
    PROVE  /\ Carries([i \in 1 .. Len(qs) |-> [qs[i] EXCEPT !.id = m + i - 1]], m .. m + Len(qs) - 1)
           /\ DOMAIN [i \in 1 .. Len(qs) |-> [qs[i] EXCEPT !.id = m + i - 1]] = 1 .. Len(qs)
  <1> DEFINE u == [i \in 1 .. Len(qs) |-> [qs[i] EXCEPT !.id = m + i - 1]]
             T == {u[i] : i \in 1 .. Len(qs)}
             n == Len(qs)
             J == m .. m + n - 1
  <1>1. n \in Nat /\ DOMAIN qs = 1 .. n
    OBVIOUS
  <1>2. u \in Seq(T) /\ Len(u) = n /\ DOMAIN u = 1 .. n
    BY <1>1
  <1>3. \A i \in 1 .. n : u[i].id = m + i - 1
    BY <1>1
  <1> HIDE DEF u, T, n
  <1>4. \A i \in 1 .. Len(u) : u[i].id \in J
    BY <1>1, <1>2, <1>3
  <1>5. ASSUME NEW x \in J PROVE \E i \in 1 .. Len(u) : u[i].id = x
    <2>1. x - m + 1 \in 1 .. Len(u) /\ m + (x - m + 1) - 1 = x
      BY <1>1, <1>2
    <2>2. u[x - m + 1].id = x
      BY <1>2, <1>3, <2>1
    <2> QED  BY <2>1, <2>2
  <1>6. \A i, j \in 1 .. Len(u) : u[i].id = u[j].id => i = j
    BY <1>1, <1>2, <1>3
  <1> HIDE DEF J
  <1>7. Carries(u, J)
    BY <1>2, <1>4, <1>5, <1>6, CarriesRule
  <1> QED  BY <1>2, <1>7 DEF u, n, J

\* One request, when nothing is under way.
LEMMA AskedOne ==
    ASSUME NEW q, "id" \in DOMAIN q, requests = <<>>, msg_id \in Int, Ask1(q)
    PROVE  /\ msg_id' = msg_id + 1 /\ msg_id' \in Int /\ requests' # <<>>
           /\ Carries(requests', {msg_id' - 1})
           /\ \A i \in DOMAIN requests' : requests'[i] = [q EXCEPT !.id = msg_id]
  <1> DEFINE qs == <<q>>
             u == [i \in 1 .. Len(qs) |-> [qs[i] EXCEPT !.id = msg_id + i - 1]]
  <1>1. qs \in Seq({q}) /\ Len(qs) = 1 /\ qs[1] = q /\ DOMAIN qs = {1}
    OBVIOUS
  <1>2. requests' = <<>> \o u /\ msg_id' = msg_id + Len(qs)
    BY DEF Ask1, SendAll
  <1> HIDE DEF qs
  <1>3. Carries(u, msg_id .. msg_id + Len(qs) - 1) /\ DOMAIN u = 1 .. Len(qs)
    BY <1>1, Numbered
  <1>4. \A i \in DOMAIN u : u[i] = [q EXCEPT !.id = msg_id]
    BY <1>1, <1>3
  <1> HIDE DEF u
  <1>5. msg_id .. msg_id + Len(qs) - 1 = {msg_id}
    BY <1>1
  <1>6. Carries(u, {msg_id}) /\ u \in Seq(Items(u))
    BY <1>3, <1>5, CarriesFacts
  <1>7. <<>> \o u = u
    BY <1>6
  <1>8. u # <<>>
    BY <1>6, CarriesOne
  <1>9. requests' = u /\ msg_id' = msg_id + 1 /\ msg_id' \in Int /\ msg_id' - 1 = msg_id
    BY <1>1, <1>2, <1>7
  <1>10. Carries(requests', {msg_id' - 1})
    BY <1>6, <1>9
  <1> QED  BY <1>4, <1>8, <1>9, <1>10

\* A step of the client after which it waits for one reply, or for nothing.
LEMMA Calm ==
    ASSUME pc' \in Quiet \cup Single, msg_id' \in Int, Fields \subseteq DOMAIN t', t'.reqs = <<>>, t'.max \in Int,
           Purpose', replies' = <<>>,
           IF pc' \in Single THEN Carries(requests', {msg_id' - 1}) ELSE requests' = <<>>,
           Asked', Table'
    PROVE  SftpInv'
  <1>1. Carries(<<>>, {}) /\ Ids(<<>>) = {}
    BY CarriesNone
  <1>2. Carries(t'.reqs, Ids(t'.reqs)) /\ Ids(t'.reqs) = {}
    BY <1>1
  <1>3. Places'
    BY <1>2 DEF Places
  <1>4. Numbers'
    BY <1>2 DEF Numbers, Quiet, Single
  <1>5. Expected' = IF pc' \in Single THEN {msg_id' - 1} ELSE {}
    BY <1>2 DEF Expected
  <1>6. Ids(requests') = Expected' /\ Carries(requests', Expected')
    <2>1. CASE pc' \in Single
      BY <1>5, <2>1, CarriesFacts
    <2>2. CASE pc' \notin Single
      BY <1>1, <1>5, <2>2
    <2> QED  BY <2>1, <2>2
  <1>7. Carries(replies', Ids(replies')) /\ Ids(replies') = {}
    BY <1>1
  <1>8. Flight'
    BY <1>6, <1>7 DEF Flight
  <1> QED  BY <1>3, <1>4, <1>8 DEF SftpInv

\* The client does not touch the table.
LEMMA Untouched ==
    ASSUME ServerKeeps
    PROVE  (Shut <=> Shut') /\ \A h : Holds(h) <=> Holds(h)'
  BY DEF ServerKeeps, Shut, Holds

-----------------------------------------------------------------------------
(* The steps of the client: commands.                                      *)

\* What the client knows while it does not stream.
LEMMA Known ==
    ASSUME SftpInv
    PROVE  /\ msg_id \in Int /\ Fields \subseteq DOMAIN t /\ t.max \in Int /\ pc # "fatal"
           /\ pc \in {"idle", "next", "aborted", "simple", "dl_stat", "ul_stat"} => Shut
           /\ pc \notin {"idle", "aborted"} => command \in Commands
           /\ pc \in Uploading => command.op = "put"
  BY DEF SftpInv, Places, Purpose, Table, Quiet, Single, Streaming

\* parse_dispatch_command().
LEMMA CommandInv ==
    ASSUME SftpInv, NEW c \in Commands, Command(c)
    PROVE  SftpInv'
  <1>1. /\ pc = "idle" /\ command' = c /\ t' = t /\ replies' = replies /\ ServerKeeps
        /\ CASE c.op \in {"get", "put"} -> pc' = "next" /\ SendNone
             [] c.op \in {"ls", "getr"} -> pc' = "ls_open" /\ Ask1([op |-> "opendir", id |-> 0, name |-> c.name])
             [] OTHER -> pc' = "simple" /\ Ask1(c)
    BY DEF Command
  <1>2. requests = <<>> /\ replies = <<>> /\ t.reqs = <<>> /\ Shut /\ Shut'
    BY <1>1, Resting, Known, Untouched DEF Quiet
  <1>3. msg_id \in Int /\ Fields \subseteq DOMAIN t /\ t.max \in Int
    BY Known
  <1>4. /\ c.op \in {"get", "put", "ls", "getr"} \cup Simple
        /\ c.op \in Simple => {"op", "id"} \subseteq DOMAIN c
    BY SftpAssumption
  <1>5. CASE c.op \in {"get", "put"}
    <2>1. pc' = "next" /\ requests' = <<>> /\ msg_id' = msg_id
      BY <1>1, <1>2, <1>5 DEF SendNone
    <2>2. Purpose' /\ Asked' /\ Table'
      BY <1>1, <1>2, <2>1 DEF Purpose, Asked, Table, Uploading
    <2> QED  BY <1>1, <1>2, <1>3, <2>1, <2>2, Calm DEF Quiet, Single
  <1>6. CASE c.op \in {"ls", "getr"}
    <2> DEFINE q == [op |-> "opendir", id |-> 0, name |-> c.name]
    <2>1. pc' = "ls_open" /\ Ask1(q) /\ "id" \in DOMAIN q
      BY <1>1, <1>6
    <2>2. [q EXCEPT !.id = msg_id].op = "opendir"
      OBVIOUS
    <2> HIDE DEF q
    <2>3. /\ msg_id' \in Int /\ Carries(requests', {msg_id' - 1})
          /\ \A i \in DOMAIN requests' : requests'[i].op = "opendir"
      BY <1>2, <1>3, <2>1, <2>2, AskedOne
    <2>4. Purpose' /\ Asked' /\ Table'
      BY <1>1, <1>2, <2>1, <2>3 DEF Purpose, Asked, Fits, Table, Uploading
    <2> QED  BY <1>1, <1>2, <1>3, <2>1, <2>3, <2>4, Calm DEF Quiet, Single
  <1>7. CASE c.op \in Simple
    <2>0. c.op \notin {"get", "put"} /\ c.op \notin {"ls", "getr"}
      BY <1>7 DEF Simple
    <2>1. pc' = "simple" /\ Ask1(c)
      BY <1>1, <2>0
    <2>2. "id" \in DOMAIN c /\ "op" \in DOMAIN c
      BY <1>4, <1>7
    <2>3. [c EXCEPT !.id = msg_id].op \in Simple
      BY <1>7, <2>2
    <2>4. /\ msg_id' \in Int /\ Carries(requests', {msg_id' - 1})
          /\ \A i \in DOMAIN requests' : requests'[i].op \in Simple
      BY <1>2, <1>3, <2>1, <2>2, <2>3, AskedOne
    <2>5. Purpose' /\ Asked' /\ Table'
      BY <1>1, <1>2, <2>1, <2>4 DEF Purpose, Asked, Fits, Table, Uploading
    <2> QED  BY <1>1, <1>2, <1>3, <2>1, <2>4, <2>5, Calm DEF Quiet, Single
  <1> QED  BY <1>4, <1>5, <1>6, <1>7

\* The reply to a request of its own.
LEMMA SimpleReplyInv ==
    ASSUME SftpInv, SimpleReply
    PROVE  SftpInv'
  <1>1. PICK i \in Arriving :
          /\ Receive(i)
          /\ IF replies[i].id # msg_id - 1 THEN Fatal
             ELSE pc' = "next" /\ SendNone /\ UNCHANGED <<command, t>>
    BY DEF SimpleReply, Await
  <1>2. pc = "simple" /\ ServerKeeps
    BY DEF SimpleReply, Await
  <1>3. requests = <<>> /\ t.reqs = <<>> /\ replies[i].id = msg_id - 1 /\ RemoveAt(replies, i) = <<>>
    BY <1>2, Answered DEF Single
  <1>4. /\ pc' = "next" /\ requests' = <<>> /\ msg_id' = msg_id /\ replies' = <<>>
        /\ command' = command /\ t' = t
    BY <1>1, <1>3 DEF SendNone, Receive
  <1>5. msg_id \in Int /\ Fields \subseteq DOMAIN t /\ t.max \in Int /\ Shut /\ command \in Commands
    BY <1>2, Known
  <1>6. Shut'
    BY <1>2, <1>5, Untouched
  <1>7. Purpose' /\ Asked' /\ Table'
    BY <1>4, <1>5, <1>6 DEF Purpose, Asked, Table, Uploading
  <1> QED  BY <1>3, <1>4, <1>5, <1>7, Calm DEF Quiet, Single

\* The command is over.
LEMMA CommandEndsInv ==
    ASSUME SftpInv, CommandEnds
    PROVE  SftpInv'
  <1>1. /\ pc = "next" /\ pc' \in {"aborted", "idle"} /\ t' = t /\ replies' = replies
        /\ requests' = requests /\ msg_id' = msg_id /\ ServerKeeps
    BY DEF CommandEnds, SendNone
  <1>2. requests = <<>> /\ replies = <<>> /\ t.reqs = <<>> /\ Shut /\ Shut'
    BY <1>1, Resting, Known, Untouched DEF Quiet
  <1>3. msg_id \in Int /\ Fields \subseteq DOMAIN t /\ t.max \in Int
    BY Known
  <1>4. Purpose' /\ Asked' /\ Table'
    BY <1>1, <1>2 DEF Purpose, Asked, Table, Uploading
  <1> QED  BY <1>1, <1>2, <1>3, <1>4, Calm DEF Quiet, Single

\* SIGINT only sets a flag.
LEMMA InterruptInv ==
    ASSUME SftpInv, cmd_interrupt
    PROVE  SftpInv'
  BY DEF cmd_interrupt, serverVars, SftpInv, Places, Numbers, Purpose, Flight, Expected, Asked, Fits, Table,
         Granted, Shut, Holds

-----------------------------------------------------------------------------
(* The steps of the client: what they have in common.                      *)

\* The locals at the start of a transfer.
LEMMA Fresh ==
    ASSUME NEW a, NEW b, NEW c
    PROVE  /\ Fields \subseteq DOMAIN NoTransfer /\ NoTransfer.reqs = <<>> /\ NoTransfer.max = 0
           /\ Fields \subseteq DOMAIN [NoTransfer EXCEPT !.name = a, !.resume = b]
           /\ [NoTransfer EXCEPT !.name = a, !.resume = b].reqs = <<>>
           /\ [NoTransfer EXCEPT !.name = a, !.resume = b].max = 0
           /\ Fields \subseteq DOMAIN [NoTransfer EXCEPT !.name = a, !.resume = b, !.was = c]
           /\ [NoTransfer EXCEPT !.name = a, !.resume = b, !.was = c].reqs = <<>>
           /\ [NoTransfer EXCEPT !.name = a, !.resume = b, !.was = c].max = 0
           /\ Fields \subseteq DOMAIN [NoTransfer EXCEPT !.handle = a]
           /\ [NoTransfer EXCEPT !.handle = a].reqs = <<>>
           /\ [NoTransfer EXCEPT !.handle = a].max = 0
           /\ [NoTransfer EXCEPT !.handle = a].handle = a
  BY DEF NoTransfer, Fields

\* A transfer is over, and nothing is open or under way.
LEMMA Ended ==
    ASSUME SftpInv, ServerKeeps, pc' = "next", t' = NoTransfer, requests' = <<>>, replies' = <<>>,
           msg_id' = msg_id, command' = command, command \in Commands, Shut
    PROVE  SftpInv'
  <1>1. msg_id' \in Int /\ Fields \subseteq DOMAIN t' /\ t'.reqs = <<>> /\ t'.max \in Int
    BY Known, Fresh
  <1>2. Shut'
    BY Untouched
  <1>3. Purpose' /\ Asked' /\ Table'
    BY <1>2 DEF Purpose, Asked, Table, Uploading
  <1> QED  BY <1>1, <1>3, Calm DEF Quiet, Single

\* One request is sent, and its reply is waited for.
LEMMA Waits ==
    ASSUME SftpInv, requests = <<>>, replies' = <<>>, pc' \in Single, NEW q, "id" \in DOMAIN q, Ask1(q),
           Fields \subseteq DOMAIN t', t'.reqs = <<>>, t'.max \in Int, Purpose',
           NEW x, x = [q EXCEPT !.id = msg_id], Fits(x)', requests' # <<>> => Table'
    PROVE  SftpInv'
  <1>1. msg_id \in Int
    BY Known
  <1>2. /\ msg_id' \in Int /\ Carries(requests', {msg_id' - 1}) /\ requests' # <<>>
        /\ \A i \in DOMAIN requests' : requests'[i] = x
    BY <1>1, AskedOne
  <1>3. Asked'
    BY <1>2 DEF Asked
  <1> QED  BY <1>2, <1>3, Calm

\* The fields of the requests.
LEMMA Forms ==
    ASSUME NEW h, NEW n, NEW f, NEW k
    PROVE  /\ "id" \in DOMAIN Stat(n) /\ [Stat(n) EXCEPT !.id = k].op = "stat"
           /\ "id" \in DOMAIN Open(n, f) /\ [Open(n, f) EXCEPT !.id = k].op = "open"
           /\ "id" \in DOMAIN Close(h)
           /\ [Close(h) EXCEPT !.id = k].op = "close" /\ [Close(h) EXCEPT !.id = k].handle = h
           /\ "id" \in DOMAIN [op |-> "readdir", id |-> 0, handle |-> h]
           /\ [[op |-> "readdir", id |-> 0, handle |-> h] EXCEPT !.id = k].op = "readdir"
           /\ "id" \in DOMAIN [op |-> n, id |-> 0, handle |-> h]
           /\ [[op |-> n, id |-> 0, handle |-> h] EXCEPT !.id = k].op = n
           /\ [[op |-> n, id |-> 0, handle |-> h] EXCEPT !.id = k].handle = h
  BY DEF Stat, Open, Close

\* What the client waits for, where it waits for one reply.
LEMMA Awaited ==
    ASSUME SftpInv, pc \in Single, NEW i \in Arriving, Receive(i)
    PROVE  /\ requests = <<>> /\ t.reqs = <<>> /\ replies' = <<>> /\ replies # <<>> /\ i \in DOMAIN replies
           /\ replies[i].id = msg_id - 1
           /\ pc \in {"dl_open", "ul_open", "ls_open"} => Granted(replies[i])
           /\ pc \in {"dl_close", "dl_fail", "ls_close"} => Shut
           /\ pc = "ls" => Holds(t.handle)
           /\ pc = "ul_close" => IF Len(t.tail) = 1 THEN Shut ELSE Holds(t.handle)
  <1>1. /\ requests = <<>> /\ t.reqs = <<>> /\ replies # <<>> /\ i \in DOMAIN replies
        /\ replies[i].id = msg_id - 1 /\ RemoveAt(replies, i) = <<>>
    BY Answered
  <1>2. replies' = <<>>
    BY <1>1 DEF Receive
  <1> QED  BY <1>1, <1>2 DEF SftpInv, Table

-----------------------------------------------------------------------------
(* do_download().                                                          *)

\* The next file.
LEMMA GetNextInv ==
    ASSUME SftpInv, GetNext
    PROVE  SftpInv'
  <1> DEFINE q == Stat(Head(work))
  <1>x. PICK x : x = [q EXCEPT !.id = msg_id]
    OBVIOUS
  <1>1. /\ pc = "next" /\ pc' = "dl_stat" /\ Ask1(q) /\ replies' = replies /\ ServerKeeps
        /\ t' = [NoTransfer EXCEPT !.name = Head(work), !.resume = command.resume,
                                   !.was = local[Head(work)].data]
        /\ command' = command
    BY DEF GetNext
  <1>2. requests = <<>> /\ replies = <<>> /\ Shut /\ Shut' /\ command \in Commands
    BY <1>1, Resting, Known, Untouched DEF Quiet
  <1>3. Fields \subseteq DOMAIN t' /\ t'.reqs = <<>> /\ t'.max \in Int
    BY <1>1, Fresh
  <1>4. "id" \in DOMAIN q /\ x.op = "stat"
    BY <1>x, Forms
  <1> HIDE DEF q
  <1>5. Fits(x)' /\ Purpose' /\ Table'
    BY <1>1, <1>2, <1>4 DEF Fits, Purpose, Table, Uploading
  <1> QED  BY <1>1, <1>2, <1>3, <1>4, <1>5, <1>x, Waits DEF Single

\* stat.
LEMMA DownloadStatInv ==
    ASSUME SftpInv, DownloadStat
    PROVE  SftpInv'
  <1> DEFINE q == Open(t.name, {"read"})
  <1>x. PICK x : x = [q EXCEPT !.id = msg_id]
    OBVIOUS
  <1>1. PICK i \in Arriving :
          /\ Receive(i)
          /\ IF replies[i].id # msg_id - 1 THEN Fatal
             ELSE /\ IF Failed(replies[i]) \/ replies[i].kind # "file"
                     THEN TransferEnds(t.name, "failure", TRUE) /\ SendNone
                     ELSE t' = [t EXCEPT !.size = replies[i].size] /\ pc' = "dl_open" /\ Ask1(q)
                  /\ command' = command
    BY DEF DownloadStat, Await
  <1>2. pc = "dl_stat" /\ ServerKeeps
    BY DEF DownloadStat, Await
  <1>3. requests = <<>> /\ t.reqs = <<>> /\ replies' = <<>> /\ replies[i].id = msg_id - 1
    BY <1>1, <1>2, Awaited DEF Single
  <1>4. Shut /\ Shut' /\ command \in Commands /\ Fields \subseteq DOMAIN t /\ t.max \in Int
    BY <1>2, Known, Untouched
  <1>5. CASE TransferEnds(t.name, "failure", TRUE) /\ SendNone /\ command' = command
    BY <1>2, <1>3, <1>4, <1>5, Ended DEF TransferEnds, SendNone
  <1>6. CASE t' = [t EXCEPT !.size = replies[i].size] /\ pc' = "dl_open" /\ Ask1(q) /\ command' = command
    <2>1. Fields \subseteq DOMAIN t' /\ t'.reqs = <<>> /\ t'.max \in Int
      BY <1>3, <1>4, <1>6 DEF Fields
    <2>2. "id" \in DOMAIN q /\ x.op = "open"
      BY <1>x, Forms
    <2> HIDE DEF q
    <2>3. Fits(x)' /\ Purpose' /\ Table'
      BY <1>3, <1>4, <1>6, <2>2 DEF Fits, Purpose, Table, Uploading
    <2> QED  BY <1>3, <1>6, <2>1, <2>2, <2>3, <1>x, Waits DEF Single
  <1> QED  BY <1>1, <1>3, <1>5, <1>6

\* The loop is over: close.
LEMMA DownloadEndInv ==
    ASSUME SftpInv, DownloadEnd
    PROVE  SftpInv'
  <1> DEFINE q == Close(t.handle)
  <1>x. PICK x : x = [q EXCEPT !.id = msg_id]
    OBVIOUS
  <1>1. /\ pc = "dl_end" /\ pc' = "dl_close" /\ Ask1(q) /\ replies' = replies /\ ServerKeeps
        /\ t' = t /\ command' = command
    BY DEF DownloadEnd
  <1>2. requests = <<>> /\ replies = <<>> /\ t.reqs = <<>> /\ command \in Commands
    BY <1>1, Resting, Known DEF Quiet
  <1>3. Holds(t.handle) /\ Fields \subseteq DOMAIN t /\ t.max \in Int
    BY <1>1, Known DEF SftpInv, Table
  <1>4. Holds(t.handle)'
    BY <1>1, <1>3 DEF Holds, ServerKeeps
  <1>5. "id" \in DOMAIN q /\ x.op = "close" /\ x.handle = t.handle
    BY <1>x, Forms
  <1> HIDE DEF q
  <1>6. Fits(x)' /\ Purpose' /\ (requests' # <<>> => Table')
    BY <1>1, <1>2, <1>4, <1>5 DEF Fits, Purpose, Table, Uploading
  <1> QED  BY <1>1, <1>2, <1>3, <1>5, <1>6, <1>x, Waits DEF Single

\* The file is closed, or the refused one is.
LEMMA DownloadClosedInv ==
    ASSUME SftpInv, DownloadClosed \/ DownloadRefused
    PROVE  SftpInv'
  <1>1. PICK i \in Arriving :
          /\ Receive(i)
          /\ IF replies[i].id # msg_id - 1 THEN Fatal
             ELSE pc' = "next" /\ t' = NoTransfer /\ SendNone /\ command' = command
    BY DEF DownloadClosed, DownloadRefused, Await, TransferEnds
  <1>2. pc \in {"dl_close", "dl_fail"} /\ ServerKeeps
    BY DEF DownloadClosed, DownloadRefused, Await
  <1>3. requests = <<>> /\ replies' = <<>> /\ replies[i].id = msg_id - 1 /\ Shut
    BY <1>1, <1>2, Awaited DEF Single
  <1>4. command \in Commands
    BY <1>2, Known
  <1> QED  BY <1>1, <1>2, <1>3, <1>4, Ended DEF SendNone

-----------------------------------------------------------------------------
(* do_upload().                                                            *)

\* The next file.
LEMMA PutNextInv ==
    ASSUME SftpInv, PutNext
    PROVE  SftpInv'
  <1>1. /\ pc = "next" /\ replies' = replies /\ ServerKeeps /\ command' = command /\ command.op = "put"
        /\ \/ TransferEnds(Head(work), "failure", TRUE) /\ SendNone
           \/ /\ t' = [NoTransfer EXCEPT !.name = Head(work), !.resume = command.resume]
              /\ \/ pc' = "ul_stat" /\ Ask1(Stat(Head(work)))
                 \/ pc' = "ul_open" /\ Ask1(Open(Head(work), UploadFlags))
    BY DEF PutNext
  <1>2. requests = <<>> /\ replies = <<>> /\ Shut /\ Shut' /\ command \in Commands
    BY <1>1, Resting, Known, Untouched DEF Quiet
  <1>3. CASE TransferEnds(Head(work), "failure", TRUE) /\ SendNone
    BY <1>1, <1>2, <1>3, Ended DEF TransferEnds, SendNone
  <1>4. CASE t' = [NoTransfer EXCEPT !.name = Head(work), !.resume = command.resume]
    <2>1. Fields \subseteq DOMAIN t' /\ t'.reqs = <<>> /\ t'.max \in Int
      BY <1>4, Fresh
    <2>2. CASE pc' = "ul_stat" /\ Ask1(Stat(Head(work)))
      <3> DEFINE q == Stat(Head(work))
      <3>x. PICK x : x = [q EXCEPT !.id = msg_id]
        OBVIOUS
      <3>1. "id" \in DOMAIN q /\ x.op = "stat" /\ Ask1(q)
        BY <2>2, <3>x, Forms
      <3> HIDE DEF q
      <3>2. Fits(x)' /\ Purpose' /\ Table'
        BY <1>1, <1>2, <2>2, <3>1 DEF Fits, Purpose, Table, Uploading
      <3> QED  BY <1>1, <1>2, <2>1, <2>2, <3>1, <3>2, <3>x, Waits DEF Single
    <2>3. CASE pc' = "ul_open" /\ Ask1(Open(Head(work), UploadFlags))
      <3> DEFINE q == Open(Head(work), UploadFlags)
      <3>x. PICK x : x = [q EXCEPT !.id = msg_id]
        OBVIOUS
      <3>1. "id" \in DOMAIN q /\ x.op = "open" /\ Ask1(q)
        BY <2>3, <3>x, Forms
      <3> HIDE DEF q
      <3>2. Fits(x)' /\ Purpose' /\ Table'
        BY <1>1, <1>2, <2>3, <3>1 DEF Fits, Purpose, Table, Uploading
      <3> QED  BY <1>1, <1>2, <2>1, <2>3, <3>1, <3>2, <3>x, Waits DEF Single
    <2>4. CASE TransferEnds(Head(work), "failure", TRUE) /\ SendNone
      BY <1>3, <2>4
    <2> QED  BY <1>1, <2>2, <2>3, <2>4
  <1> QED  BY <1>1, <1>3, <1>4

\* stat, to resume.
LEMMA UploadStatInv ==
    ASSUME SftpInv, UploadStat
    PROVE  SftpInv'
  <1> DEFINE q == Open(t.name, UploadFlags)
  <1>x. PICK x : x = [q EXCEPT !.id = msg_id]
    OBVIOUS
  <1>1. PICK i \in Arriving :
          /\ Receive(i)
          /\ IF replies[i].id # msg_id - 1 THEN Fatal
             ELSE /\ \/ TransferEnds(t.name, "failure", TRUE) /\ SendNone
                     \/ /\ t' = [t EXCEPT !.off = replies[i].size, !.was = fs[Target(t.name)].data]
                        /\ pc' = "ul_open" /\ Ask1(q)
                  /\ command' = command
    BY DEF UploadStat, Await
  <1>2. pc = "ul_stat" /\ ServerKeeps
    BY DEF UploadStat, Await
  <1>3. requests = <<>> /\ t.reqs = <<>> /\ replies' = <<>> /\ replies[i].id = msg_id - 1
    BY <1>1, <1>2, Awaited DEF Single
  <1>4. /\ Shut /\ Shut' /\ command \in Commands /\ Fields \subseteq DOMAIN t /\ t.max \in Int
        /\ command.op = "put"
    BY <1>2, Known, Untouched DEF Uploading
  <1>5. CASE TransferEnds(t.name, "failure", TRUE) /\ SendNone /\ command' = command
    BY <1>2, <1>3, <1>4, <1>5, Ended DEF TransferEnds, SendNone
  <1>6. CASE /\ t' = [t EXCEPT !.off = replies[i].size, !.was = fs[Target(t.name)].data]
             /\ pc' = "ul_open" /\ Ask1(q) /\ command' = command
    <2>1. Fields \subseteq DOMAIN t' /\ t'.reqs = <<>> /\ t'.max \in Int
      BY <1>3, <1>4, <1>6 DEF Fields
    <2>2. "id" \in DOMAIN q /\ x.op = "open"
      BY <1>x, Forms
    <2> HIDE DEF q
    <2>3. Fits(x)' /\ Purpose' /\ Table'
      BY <1>3, <1>4, <1>6, <2>2 DEF Fits, Purpose, Table, Uploading
    <2> QED  BY <1>3, <1>6, <2>1, <2>2, <2>3, <1>x, Waits DEF Single
  <1> QED  BY <1>1, <1>3, <1>5, <1>6

-----------------------------------------------------------------------------
(* Several requests under way.                                             *)

\* What is expected is what is asked for or answered.
LEMMA Streamed ==
    ASSUME SftpInv, pc \in Streaming
    PROVE  /\ Carries(requests, Ids(requests)) /\ Carries(replies, Ids(replies))
           /\ Ids(requests) \cap Ids(replies) = {}
           /\ Carries(t.reqs, Ids(requests) \cup Ids(replies))
           /\ Ids(t.reqs) = Ids(requests) \cup Ids(replies)
  <1>1. Expected = Ids(t.reqs)
    BY DEF Expected, Streaming, Single
  <1> QED  BY <1>1 DEF SftpInv, Flight, Places

\* A step after which that is so again.
LEMMA Streams ==
    ASSUME pc' \in Streaming, msg_id' \in Int, Fields \subseteq DOMAIN t', t'.max \in Int,
           NEW A, NEW B, Carries(requests', A), Carries(replies', B), A \cap B = {},
           Carries(t'.reqs, A \cup B), Numbers', Purpose', Asked', Table'
    PROVE  SftpInv'
  <1> DEFINE J == A \cup B
  <1>1. Carries(t'.reqs, J)
    OBVIOUS
  <1>2. Ids(requests') = A /\ Ids(replies') = B
    BY CarriesFacts
  <1> HIDE DEF J
  <1>3. Ids(t'.reqs) = J
    BY <1>1, CarriesFacts
  <1>4. Expected' = J
    BY <1>3 DEF Expected, Streaming, Single
  <1>5. Flight'
    BY <1>2, <1>4 DEF Flight, J
  <1>6. Places'
    BY <1>1, <1>3 DEF Places
  <1> QED  BY <1>5, <1>6 DEF SftpInv

\* A reply that arrives is expected, and it leaves the others.
LEMMA Taken ==
    ASSUME SftpInv, pc \in Streaming, NEW i \in Arriving, Receive(i)
    PROVE  /\ i \in DOMAIN replies /\ replies[i].id \in Ids(replies)
           /\ replies[i].id \notin Ids(requests)
           /\ Carries(replies', Ids(replies) \ {replies[i].id})
           /\ \E j \in 1 .. Len(t.reqs) : t.reqs[j].id = replies[i].id
           /\ DOMAIN t.reqs = 1 .. Len(t.reqs)
  <1> DEFINE J == Ids(requests) \cup Ids(replies)
  <1>1. /\ Carries(replies, Ids(replies)) /\ Ids(requests) \cap Ids(replies) = {} /\ Carries(t.reqs, J)
    BY Streamed
  <1>2. replies \in Seq(Items(replies)) /\ Len(replies) \in Nat /\ DOMAIN replies = 1 .. Len(replies)
    BY <1>1, CarriesFacts
  <1>3. i \in DOMAIN replies
    BY <1>2 DEF Arriving, SmallerOf
  <1>4. replies[i].id \in Ids(replies) /\ Carries(RemoveAt(replies, i), Ids(replies) \ {replies[i].id})
    BY <1>1, <1>3, CarriesRemove
  <1>5. replies[i].id \in J
    BY <1>4
  <1> HIDE DEF J
  <1>6. (\E j \in 1 .. Len(t.reqs) : t.reqs[j].id = replies[i].id) /\ DOMAIN t.reqs = 1 .. Len(t.reqs)
    BY <1>1, <1>5, CarriesFacts
  <1> QED  BY <1>1, <1>3, <1>4, <1>6 DEF Receive

-----------------------------------------------------------------------------
(* do_upload(): the writes and what follows.                               *)

\* open.
LEMMA UploadOpenInv ==
    ASSUME SftpInv, UploadOpen
    PROVE  SftpInv'
  <1>1. PICK i \in Arriving :
          /\ Receive(i)
          /\ IF replies[i].id # msg_id - 1 THEN Fatal
             ELSE /\ IF replies[i].type = "status" THEN TransferEnds(t.name, "failure", TRUE)
                     ELSE /\ t' = [t EXCEPT !.handle = replies[i].handle, !.id = msg_id - 1,
                                            !.startid = msg_id, !.ackid = msg_id]
                          /\ pc' = "ul"
                  /\ SendNone /\ command' = command
    BY DEF UploadOpen, Await
  <1>2. pc = "ul_open" /\ ServerKeeps
    BY DEF UploadOpen, Await
  <1>3. /\ requests = <<>> /\ t.reqs = <<>> /\ replies' = <<>> /\ replies[i].id = msg_id - 1
        /\ Granted(replies[i])
    BY <1>1, <1>2, Awaited DEF Single
  <1>4. /\ command \in Commands /\ Fields \subseteq DOMAIN t /\ t.max \in Int /\ msg_id \in Int
        /\ command.op = "put"
    BY <1>2, Known DEF Uploading
  <1>5. requests' = <<>> /\ msg_id' = msg_id /\ command' = command
    BY <1>1, <1>3 DEF SendNone
  <1>6. CASE replies[i].type = "status"
    <2>1. Shut
      BY <1>3, <1>6 DEF Granted
    <2> QED  BY <1>1, <1>2, <1>3, <1>4, <1>5, <1>6, <2>1, Ended DEF TransferEnds
  <1>7. CASE replies[i].type # "status"
    <2>1. Holds(replies[i].handle) /\ pc' = "ul"
      BY <1>1, <1>3, <1>7 DEF Granted
    <2>2. t' = [t EXCEPT !.handle = replies[i].handle, !.id = msg_id - 1, !.startid = msg_id, !.ackid = msg_id]
      BY <1>1, <1>3, <1>7
    <2>3. /\ Fields \subseteq DOMAIN t' /\ t'.reqs = <<>> /\ t'.max \in Int
          /\ t'.handle = replies[i].handle /\ t'.id = msg_id - 1
      BY <1>3, <1>4, <2>2 DEF Fields
    <2>4. Holds(t.handle)'
      BY <1>2, <2>1, <2>3 DEF Holds, ServerKeeps
    <2>5. Carries(<<>>, {}) /\ Ids(<<>>) = {}
      BY CarriesNone
    <2>6. Numbers' /\ Purpose' /\ Asked' /\ Table'
      BY <1>4, <1>5, <2>1, <2>3, <2>4, <2>5 DEF Numbers, Purpose, Asked, Table, Uploading
    <2>7. Carries(t'.reqs, {} \cup {}) /\ Carries(requests', {}) /\ Carries(replies', {}) /\ {} \cap {} = {}
      BY <1>3, <1>5, <2>3, <2>5
    <2> QED  BY <1>4, <1>5, <2>1, <2>3, <2>6, <2>7, Streams DEF Streaming
  <1> QED  BY <1>6, <1>7

\* What follows the writes: the rest of a tail ends with close, and nothing else is.
LEMMA Tails ==
    ASSUME NEW s \in Seq({"fsetstat", "fsync"})
    PROVE  /\ s \o <<"close">> \in Seq({"fsetstat", "fsync", "close"}) /\ s \o <<"close">> # <<>>
           /\ \A i \in DOMAIN (s \o <<"close">>) :
                (s \o <<"close">>)[i] = "close" <=> i = Len(s \o <<"close">>)
  <1> DEFINE C == {"fsetstat", "fsync", "close"}
             u == s \o <<"close">>
  <1>1. s \in Seq(C) /\ <<"close">> \in Seq(C) /\ Len(s) \in Nat
    OBVIOUS
  <1>2. u \in Seq(C) /\ Len(u) = Len(s) + 1
    BY <1>1
  <1>3. \A i \in 1 .. Len(s) : u[i] = s[i] /\ s[i] \in {"fsetstat", "fsync"}
    BY <1>1
  <1>4. u[Len(s) + 1] = "close"
    BY <1>1
  <1> HIDE DEF u, C
  <1>5. DOMAIN u = 1 .. Len(s) + 1 /\ u # <<>>
    BY <1>1, <1>2
  <1>6. \A i \in DOMAIN u : u[i] = "close" <=> i = Len(u)
    BY <1>1, <1>2, <1>3, <1>4, <1>5
  <1> QED  BY <1>2, <1>5, <1>6 DEF u, C

\* One of them is done.
LEMMA TailOf ==
    ASSUME NEW s \in Seq({"fsetstat", "fsync", "close"}), s # <<>>,
           \A i \in DOMAIN s : s[i] = "close" <=> i = Len(s)
    PROVE  /\ ~(Len(s) > 1) <=> Len(s) = 1
           /\ Len(s) > 1 =>
                /\ Tail(s) \in Seq({"fsetstat", "fsync", "close"}) /\ Tail(s) # <<>>
                /\ \A i \in DOMAIN Tail(s) : Tail(s)[i] = "close" <=> i = Len(Tail(s))
  <1> DEFINE C == {"fsetstat", "fsync", "close"}
             u == Tail(s)
             n == Len(s)
  <1>1. n \in Nat /\ n # 0 /\ DOMAIN s = 1 .. n
    OBVIOUS
  <1>2. /\ u \in Seq(C) /\ Len(u) = n - 1
        /\ \A i \in 1 .. n - 1 : u[i] = s[i + 1]
    OBVIOUS
  <1> HIDE DEF u, C, n
  <1>3. DOMAIN u = 1 .. n - 1
    BY <1>1, <1>2
  <1>4. ASSUME n > 1 PROVE u # <<>>
    BY <1>1, <1>2, <1>4
  <1>5. \A i \in DOMAIN u : u[i] = "close" <=> i = Len(u)
    <2>1. \A i \in 1 .. n : s[i] = "close" <=> i = n
      BY <1>1 DEF n
    <2> QED  BY <1>1, <1>2, <1>3, <2>1
  <1>6. ~(n > 1) <=> n = 1
    BY <1>1
  <1> QED  BY <1>2, <1>4, <1>5, <1>6 DEF u, C, n

\* Which one is first.
LEMMA TailHead ==
    ASSUME NEW s \in Seq({"fsetstat", "fsync", "close"}), s # <<>>,
           \A i \in DOMAIN s : s[i] = "close" <=> i = Len(s)
    PROVE  /\ Len(s) = 1 => Head(s) = "close"
           /\ Len(s) # 1 => Head(s) \in {"fsetstat", "fsync"}
  <1>1. Len(s) \in Nat /\ Len(s) # 0 /\ DOMAIN s = 1 .. Len(s) /\ Head(s) = s[1]
    OBVIOUS
  <1>2. 1 \in DOMAIN s
    BY <1>1
  <1>3. s[1] \in {"fsetstat", "fsync", "close"}
    BY <1>1, <1>2
  <1> QED  BY <1>1, <1>2, <1>3

\* A write, or none.
LEMMA UploadSendInv ==
    ASSUME SftpInv, UploadSend
    PROVE  SftpInv'
  <1> DEFINE A == Ids(requests)
             B == Ids(replies)
             J == A \cup B
  <1>1. /\ pc = "ul" /\ replies' = replies /\ ServerKeeps /\ command' = command
    BY DEF UploadSend
  <1>2. /\ Carries(requests, A) /\ Carries(replies, B) /\ A \cap B = {} /\ Carries(t.reqs, J)
        /\ Ids(t.reqs) = J
    BY <1>1, Streamed DEF Streaming
  <1>3. /\ command \in Commands /\ Fields \subseteq DOMAIN t /\ t.max \in Int /\ msg_id \in Int
        /\ command.op = "put"
    BY <1>1, Known DEF Uploading
  <1>4. Holds(t.handle) /\ t.id \in Int /\ \A y \in Ids(t.reqs) : y \in Int /\ y <= t.id
    BY <1>1 DEF SftpInv, Table, Numbers
  <1>5. \A k \in DOMAIN requests : requests[k].op = "write"
    BY <1>1 DEF SftpInv, Asked, Fits
  <1>6. CASE pc' = "ul_wait" /\ SendNone /\ UNCHANGED t
    <2>1. requests' = requests /\ msg_id' = msg_id /\ t' = t /\ Holds(t.handle)'
      BY <1>1, <1>4, <1>6 DEF SendNone, Holds, ServerKeeps
    <2>2. Numbers' /\ Purpose' /\ Asked' /\ Table'
      BY <1>1, <1>3, <1>4, <1>5, <1>6, <2>1 DEF Numbers, Purpose, Asked, Fits, Table, Uploading
    <2> HIDE DEF A, B
    <2>3. Carries(requests', A) /\ Carries(replies', B) /\ Carries(t'.reqs, A \cup B)
      BY <1>1, <1>2, <2>1
    <2> QED  BY <1>2, <1>3, <1>6, <2>1, <2>2, <2>3, Streams DEF Streaming
  <1>7. CASE t.reqs = <<>> /\ t' = [t EXCEPT !.tail = command.tail \o <<"close">>] /\ pc' = "ul_tail" /\ SendNone
    <2>1. /\ Fields \subseteq DOMAIN t' /\ t'.reqs = <<>> /\ t'.max \in Int /\ t'.handle = t.handle
          /\ t'.tail = command.tail \o <<"close">>
      BY <1>3, <1>7 DEF Fields
    <2>2. requests' = requests /\ msg_id' = msg_id /\ Holds(t.handle)'
      BY <1>1, <1>4, <1>7, <2>1 DEF SendNone, Holds, ServerKeeps
    <2>3. J = {}
      BY <1>2, <1>7, CarriesNone
    <2>4. A = {} /\ B = {}
      BY <2>3
    <2>5. requests = <<>> /\ replies = <<>>
      <3> HIDE DEF A, B
      <3> QED  BY <1>2, <2>4, CarriesNone
    <2>6. command.tail \in Seq({"fsetstat", "fsync"})
      BY <1>3, SftpAssumption
    <2>7. /\ t'.tail \in Seq({"fsetstat", "fsync", "close"}) /\ t'.tail # <<>>
          /\ \A i \in DOMAIN t'.tail : t'.tail[i] = "close" <=> i = Len(t'.tail)
      BY <2>1, <2>6, Tails
    <2>8. Purpose' /\ Asked' /\ Table'
      BY <1>1, <1>3, <1>7, <2>2, <2>5, <2>7 DEF Purpose, Asked, Table
    <2> QED  BY <1>1, <1>3, <1>7, <2>1, <2>2, <2>5, <2>8, Calm DEF Quiet, Single
  <1>8. ASSUME NEW d, NEW off, NEW off2, NEW len, NEW w, NEW ack,
               w = [op |-> "write", id |-> t.id + 1, handle |-> t.handle, off |-> off, data |-> d],
               ack = [id |-> t.id + 1, off |-> off, len |-> len],
               t' = [t EXCEPT !.reqs = Append(@, ack), !.id = t.id + 1, !.off = off2],
               requests' = Append(requests, w), pc' \in {"ul", "ul_wait"}, msg_id' = msg_id
        PROVE  SftpInv'
    <2>1. w.id = t.id + 1 /\ w.op = "write" /\ ack.id = t.id + 1
      BY <1>8
    <2>2. t.id + 1 \notin J
      BY <1>2, <1>4
    <2>3. /\ Fields \subseteq DOMAIN t' /\ t'.reqs = Append(t.reqs, ack) /\ t'.max \in Int
          /\ t'.handle = t.handle /\ t'.id = t.id + 1
      BY <1>3, <1>8 DEF Fields
    <2>4. Holds(t.handle)'
      BY <1>1, <1>4, <2>3 DEF Holds, ServerKeeps
    <2>5. w.id \notin A /\ ack.id \notin J
      BY <2>1, <2>2
    <2> HIDE DEF A, B, J
    <2>6. /\ Carries(Append(requests, w), A \cup {w.id})
          /\ \A k \in DOMAIN Append(requests, w) :
               (k \in DOMAIN requests /\ Append(requests, w)[k] = requests[k]) \/ Append(requests, w)[k] = w
      BY <1>2, <2>5, CarriesAppend
    <2>7. Carries(Append(t.reqs, ack), J \cup {ack.id})
      BY <1>2, <2>5, CarriesAppend
    <2> DEFINE A2 == A \cup {t.id + 1}
               J2 == A2 \cup B
    <2>8. J \cup {ack.id} = J2 /\ A \cup {w.id} = A2
      BY <2>1 DEF J
    <2>9. A2 \cap B = {}
      BY <1>2, <2>2 DEF J
    <2>10. \A y \in J2 : y \in Int /\ y <= t.id + 1
      BY <1>2, <1>4 DEF J
    <2> HIDE DEF J2, A2
    <2>11. Carries(requests', A2) /\ Carries(replies', B) /\ Carries(t'.reqs, J2)
      BY <1>1, <1>2, <1>8, <2>3, <2>6, <2>7, <2>8
    <2>12. Ids(t'.reqs) = J2
      BY <2>11, CarriesFacts
    <2>13. \A k \in DOMAIN requests' : requests'[k].op = "write"
      BY <1>5, <1>8, <2>1, <2>6
    <2>14. Numbers'
      BY <1>4, <1>8, <2>3, <2>10, <2>12 DEF Numbers
    <2>15. Purpose' /\ Asked' /\ Table'
      BY <1>1, <1>3, <1>8, <2>4, <2>13 DEF Purpose, Asked, Fits, Table, Uploading
    <2>16. Carries(t'.reqs, A2 \cup B)
      BY <2>11 DEF J2
    <2> QED  BY <1>3, <1>8, <2>3, <2>9, <2>11, <2>14, <2>15, <2>16, Streams DEF Streaming
  <1>d. PICK d, len, w, ack :
          /\ w = [op |-> "write", id |-> t.id + 1, handle |-> t.handle, off |-> t.off, data |-> d]
          /\ ack = [id |-> t.id + 1, off |-> t.off, len |-> len]
          /\ len = IF interrupted \/ t.st # "ok" THEN 0 ELSE SmallerOf(BufLen, Len(local[t.name].data) - t.off)
          /\ d = SubSeq(local[t.name].data, t.off + 1, t.off + len)
    OBVIOUS
  <1>9. \/ pc' = "ul_wait" /\ SendNone /\ UNCHANGED t
        \/ t.reqs = <<>> /\ t' = [t EXCEPT !.tail = command.tail \o <<"close">>] /\ pc' = "ul_tail" /\ SendNone
        \/ /\ t' = [t EXCEPT !.reqs = Append(@, ack), !.id = t.id + 1, !.off = t.off + len]
           /\ requests' = Append(requests, w) /\ pc' \in {"ul", "ul_wait"} /\ msg_id' = msg_id
    BY <1>d DEF UploadSend
  <1>10. CASE /\ t' = [t EXCEPT !.reqs = Append(@, ack), !.id = t.id + 1, !.off = t.off + len]
              /\ requests' = Append(requests, w) /\ pc' \in {"ul", "ul_wait"} /\ msg_id' = msg_id
    <2> DEFINE off2 == t.off + len
    <2>1. t' = [t EXCEPT !.reqs = Append(@, ack), !.id = t.id + 1, !.off = off2]
      BY <1>10
    <2> HIDE DEF off2
    <2>2. requests' = Append(requests, w) /\ pc' \in {"ul", "ul_wait"} /\ msg_id' = msg_id
      BY <1>10
    <2>3. /\ w = [op |-> "write", id |-> t.id + 1, handle |-> t.handle, off |-> t.off, data |-> d]
          /\ ack = [id |-> t.id + 1, off |-> t.off, len |-> len]
      BY <1>d
    <2> QED  BY <1>8, <2>1, <2>2, <2>3
  <1> QED  BY <1>6, <1>7, <1>9, <1>10

\* A status arrived.
LEMMA UploadAckInv ==
    ASSUME SftpInv, UploadAck
    PROVE  SftpInv'
  <1> DEFINE A == Ids(requests)
             B == Ids(replies)
             J == A \cup B
  <1>1. PICK i \in Arriving :
          /\ Receive(i)
          /\ LET js == {j \in 1 .. Len(t.reqs) : t.reqs[j].id = replies[i].id}
             IN  IF js = {} THEN Fatal
                 ELSE /\ t' = [UploadStatus(replies[i].status) EXCEPT
                                 !.reqs = RemoveAt(@, CHOOSE j \in js : TRUE), !.ackid = @ + 1]
                      /\ pc' = "ul" /\ SendNone /\ command' = command
    BY DEF UploadAck
  <1>2. pc = "ul_wait" /\ ServerKeeps
    BY DEF UploadAck
  <1>3. /\ Carries(requests, A) /\ A \cap B = {} /\ Carries(t.reqs, J) /\ Ids(t.reqs) = J
    BY <1>2, Streamed DEF Streaming
  <1>4. /\ command \in Commands /\ Fields \subseteq DOMAIN t /\ t.max \in Int /\ msg_id \in Int
        /\ command.op = "put"
    BY <1>2, Known DEF Uploading
  <1>5. Holds(t.handle) /\ t.id \in Int /\ \A y \in Ids(t.reqs) : y \in Int /\ y <= t.id
    BY <1>2 DEF SftpInv, Table, Numbers
  <1>6. \A k \in DOMAIN requests : requests[k].op = "write"
    BY <1>2 DEF SftpInv, Asked, Fits
  <1>7. /\ replies[i].id \in B /\ replies[i].id \notin A /\ Carries(replies', B \ {replies[i].id})
        /\ \E j \in 1 .. Len(t.reqs) : t.reqs[j].id = replies[i].id
        /\ DOMAIN t.reqs = 1 .. Len(t.reqs)
    BY <1>1, <1>2, Taken DEF Streaming
  <1>8. PICK j \in 1 .. Len(t.reqs) :
          /\ t.reqs[j].id = replies[i].id
          /\ t' = [UploadStatus(replies[i].status) EXCEPT !.reqs = RemoveAt(@, j), !.ackid = @ + 1]
    <2> DEFINE js == {j \in 1 .. Len(t.reqs) : t.reqs[j].id = replies[i].id}
               c == CHOOSE j \in js : TRUE
    <2>1. c \in js
      BY <1>7
    <2>2. t' = [UploadStatus(replies[i].status) EXCEPT !.reqs = RemoveAt(@, c), !.ackid = @ + 1]
      BY <1>1, <1>7
    <2> HIDE DEF c
    <2> QED  BY <2>1, <2>2
  <1>9. pc' = "ul" /\ requests' = requests /\ msg_id' = msg_id /\ command' = command
    BY <1>1, <1>7 DEF SendNone
  <1>10. /\ Fields \subseteq DOMAIN t' /\ t'.reqs = RemoveAt(t.reqs, j) /\ t'.max \in Int
         /\ t'.handle = t.handle /\ t'.id = t.id
    BY <1>4, <1>8 DEF Fields, UploadStatus
  <1>11. Holds(t.handle)'
    BY <1>2, <1>5, <1>10 DEF Holds, ServerKeeps
  <1> DEFINE B2 == B \ {replies[i].id}
             J2 == A \cup B2
  <1>12. J \ {t.reqs[j].id} = J2 /\ A \cap B2 = {}
    BY <1>3, <1>7, <1>8
  <1> HIDE DEF J
  <1>13. Carries(RemoveAt(t.reqs, j), J \ {t.reqs[j].id})
    BY <1>3, <1>7, CarriesRemove
  <1>14. \A y \in J2 : y \in Int /\ y <= t.id
    BY <1>3, <1>5 DEF J
  <1>15. Carries(t'.reqs, J2)
    BY <1>10, <1>12, <1>13
  <1>16. Ids(t'.reqs) = J2
    <2> HIDE DEF J2
    <2> QED  BY <1>15, CarriesFacts
  <1>17. Numbers'
    BY <1>5, <1>9, <1>10, <1>14, <1>16 DEF Numbers
  <1>18. Purpose' /\ Asked' /\ Table'
    BY <1>4, <1>6, <1>9, <1>11 DEF Purpose, Asked, Fits, Table, Uploading
  <1>19. Carries(requests', A) /\ Carries(replies', B2) /\ Carries(t'.reqs, A \cup B2)
    BY <1>3, <1>7, <1>9, <1>15
  <1> HIDE DEF A, B2
  <1> QED  BY <1>4, <1>9, <1>10, <1>12, <1>17, <1>18, <1>19, Streams DEF Streaming

\* A request of the tail.
LEMMA UploadTailInv ==
    ASSUME SftpInv, UploadTail
    PROVE  SftpInv'
  <1> DEFINE q == [op |-> Head(t.tail), id |-> 0, handle |-> t.handle]
  <1>x. PICK x : x = [q EXCEPT !.id = msg_id]
    OBVIOUS
  <1>1. /\ pc = "ul_tail" /\ pc' = "ul_close" /\ Ask1(q) /\ replies' = replies /\ ServerKeeps
        /\ t' = t /\ command' = command
    BY DEF UploadTail
  <1>2. requests = <<>> /\ replies = <<>> /\ t.reqs = <<>> /\ command \in Commands /\ command.op = "put"
    BY <1>1, Resting, Known DEF Quiet, Uploading
  <1>3. /\ Holds(t.handle) /\ Fields \subseteq DOMAIN t /\ t.max \in Int
        /\ t.tail \in Seq({"fsetstat", "fsync", "close"}) /\ t.tail # <<>>
        /\ \A i \in DOMAIN t.tail : t.tail[i] = "close" <=> i = Len(t.tail)
    BY <1>1, Known DEF SftpInv, Table, Purpose
  <1>4. Holds(t.handle)'
    BY <1>1, <1>3 DEF Holds, ServerKeeps
  <1>5. "id" \in DOMAIN q /\ x.op = Head(t.tail) /\ x.handle = t.handle
    BY <1>x, Forms
  <1> HIDE DEF q
  <1>6. Fits(x)' /\ Purpose' /\ (requests' # <<>> => Table')
    BY <1>1, <1>2, <1>3, <1>4, <1>5 DEF Fits, Purpose, Table, Uploading
  <1> QED  BY <1>1, <1>2, <1>3, <1>5, <1>6, <1>x, Waits DEF Single

\* Its reply.
LEMMA UploadClosedInv ==
    ASSUME SftpInv, UploadClosed
    PROVE  SftpInv'
  <1>1. PICK i \in Arriving :
          /\ Receive(i)
          /\ IF replies[i].id # msg_id - 1 THEN Fatal
             ELSE /\ IF Len(t.tail) > 1
                     THEN t' = [t EXCEPT !.tail = Tail(@)] /\ pc' = "ul_tail"
                     ELSE pc' = "next" /\ t' = NoTransfer
                  /\ SendNone /\ command' = command
    BY DEF UploadClosed, Await, TransferEnds
  <1>2. pc = "ul_close" /\ ServerKeeps
    BY DEF UploadClosed, Await
  <1>3. /\ requests = <<>> /\ t.reqs = <<>> /\ replies' = <<>> /\ replies[i].id = msg_id - 1
        /\ IF Len(t.tail) = 1 THEN Shut ELSE Holds(t.handle)
    BY <1>1, <1>2, Awaited DEF Single
  <1>4. /\ command \in Commands /\ Fields \subseteq DOMAIN t /\ t.max \in Int /\ msg_id \in Int
        /\ command.op = "put"
    BY <1>2, Known DEF Uploading
  <1>5. /\ t.tail \in Seq({"fsetstat", "fsync", "close"}) /\ t.tail # <<>>
        /\ \A k \in DOMAIN t.tail : t.tail[k] = "close" <=> k = Len(t.tail)
    BY <1>2 DEF SftpInv, Purpose
  <1>6. requests' = <<>> /\ msg_id' = msg_id /\ command' = command
    BY <1>1, <1>3 DEF SendNone
  <1>7. CASE Len(t.tail) > 1
    <2>0. Len(t.tail) # 1
      BY <1>5, <1>7, TailOf
    <2>1. t' = [t EXCEPT !.tail = Tail(@)] /\ pc' = "ul_tail" /\ Holds(t.handle)
      BY <1>1, <1>3, <1>7, <2>0
    <2>2. /\ Fields \subseteq DOMAIN t' /\ t'.reqs = <<>> /\ t'.max \in Int /\ t'.handle = t.handle
          /\ t'.tail = Tail(t.tail)
      BY <1>3, <1>4, <2>1 DEF Fields
    <2>5. /\ t'.tail \in Seq({"fsetstat", "fsync", "close"}) /\ t'.tail # <<>>
          /\ \A k \in DOMAIN t'.tail : t'.tail[k] = "close" <=> k = Len(t'.tail)
      BY <1>5, <1>7, <2>2, TailOf
    <2>6. Holds(t.handle)'
      BY <1>2, <2>1, <2>2 DEF Holds, ServerKeeps
    <2>7. Purpose' /\ Asked' /\ Table'
      BY <1>4, <1>6, <2>1, <2>5, <2>6 DEF Purpose, Asked, Table
    <2> QED  BY <1>3, <1>4, <1>6, <2>1, <2>2, <2>7, Calm DEF Quiet, Single
  <1>8. CASE ~(Len(t.tail) > 1)
    <2>1. Len(t.tail) = 1
      BY <1>5, <1>8, TailOf
    <2> QED  BY <1>1, <1>2, <1>3, <1>4, <1>6, <1>8, <2>1, Ended
  <1> QED  BY <1>7, <1>8

-----------------------------------------------------------------------------
(* do_lsreaddir().                                                         *)

\* The next names are asked for, or the directory is closed.
LEMMA ReadDirInv ==
    ASSUME SftpInv, ServerKeeps, requests = <<>>, replies' = <<>>, NEW u, Fields \subseteq DOMAIN u,
           u.reqs = <<>>, u.max \in Int, Holds(u.handle), command \in Commands, command' = command,
           t' = u,
           \/ pc' = "ls_close" /\ Ask1(Close(u.handle))
           \/ pc' = "ls" /\ Ask1([op |-> "readdir", id |-> 0, handle |-> u.handle])
    PROVE  SftpInv'
  <1>1. Holds(t.handle)'
    BY DEF Holds, ServerKeeps
  <1>2. CASE pc' = "ls_close" /\ Ask1(Close(u.handle))
    <2> DEFINE q == Close(u.handle)
    <2>x. PICK x : x = [q EXCEPT !.id = msg_id]
      OBVIOUS
    <2>1. "id" \in DOMAIN q /\ x.op = "close" /\ x.handle = u.handle /\ Ask1(q)
      BY <1>2, <2>x, Forms
    <2> HIDE DEF q
    <2>2. Fits(x)' /\ Purpose' /\ (requests' # <<>> => Table')
      BY <1>1, <1>2, <2>1 DEF Fits, Purpose, Table, Uploading
    <2> QED  BY <1>2, <2>1, <2>2, <2>x, Waits DEF Single
  <1>3. CASE pc' = "ls" /\ Ask1([op |-> "readdir", id |-> 0, handle |-> u.handle])
    <2> DEFINE q == [op |-> "readdir", id |-> 0, handle |-> u.handle]
    <2>x. PICK x : x = [q EXCEPT !.id = msg_id]
      OBVIOUS
    <2>1. "id" \in DOMAIN q /\ x.op = "readdir" /\ Ask1(q)
      BY <1>3, <2>x, Forms
    <2> HIDE DEF q
    <2>2. Fits(x)' /\ Purpose' /\ (requests' # <<>> => Table')
      BY <1>1, <1>3, <2>1 DEF Fits, Purpose, Table, Uploading
    <2> QED  BY <1>3, <2>1, <2>2, <2>x, Waits DEF Single
  <1> QED  BY <1>2, <1>3

\* opendir.
LEMMA ListOpenInv ==
    ASSUME SftpInv, ListOpen
    PROVE  SftpInv'
  <1>1. PICK i \in Arriving :
          /\ Receive(i)
          /\ IF replies[i].id # msg_id - 1 THEN Fatal
             ELSE /\ IF replies[i].type = "status"
                     THEN TransferEnds(command.name, "failure", TRUE) /\ SendNone
                     ELSE ReadDirOr([NoTransfer EXCEPT !.handle = replies[i].handle])
                  /\ command' = command
    BY DEF ListOpen, Await
  <1>2. pc = "ls_open" /\ ServerKeeps
    BY DEF ListOpen, Await
  <1>3. /\ requests = <<>> /\ t.reqs = <<>> /\ replies' = <<>> /\ replies[i].id = msg_id - 1
        /\ Granted(replies[i])
    BY <1>1, <1>2, Awaited DEF Single
  <1>4. command \in Commands /\ command' = command
    BY <1>1, <1>2, <1>3, Known
  <1>5. CASE replies[i].type = "status"
    <2>1. Shut
      BY <1>3, <1>5 DEF Granted
    <2> QED  BY <1>1, <1>2, <1>3, <1>4, <1>5, <2>1, Ended DEF TransferEnds, SendNone
  <1>6. CASE replies[i].type # "status"
    <2> DEFINE u == [NoTransfer EXCEPT !.handle = replies[i].handle]
    <2>1. /\ Fields \subseteq DOMAIN u /\ u.reqs = <<>> /\ u.max \in Int /\ u.handle = replies[i].handle
      BY Fresh
    <2>2. /\ t' = u
          /\ \/ pc' = "ls_close" /\ Ask1(Close(u.handle))
             \/ pc' = "ls" /\ Ask1([op |-> "readdir", id |-> 0, handle |-> u.handle])
      BY <1>1, <1>3, <1>6 DEF ReadDirOr
    <2>3. Holds(u.handle)
      BY <1>3, <1>6, <2>1 DEF Granted
    <2> HIDE DEF u
    <2> QED  BY <1>2, <1>3, <1>4, <2>1, <2>2, <2>3, ReadDirInv
  <1> QED  BY <1>5, <1>6

\* readdir.
LEMMA ListReplyInv ==
    ASSUME SftpInv, ListReply
    PROVE  SftpInv'
  <1>1. PICK i \in Arriving :
          /\ Receive(i)
          /\ IF replies[i].id # msg_id - 1 THEN Fatal
             ELSE /\ IF replies[i].type = "status"
                     THEN /\ pc' = "ls_close" /\ Ask1(Close(t.handle))
                          /\ t' = [t EXCEPT !.rerr = replies[i].status # "eof"]
                     ELSE ReadDirOr([t EXCEPT !.names = @ \o replies[i].names])
                  /\ command' = command
    BY DEF ListReply, Await
  <1>2. pc = "ls" /\ ServerKeeps
    BY DEF ListReply, Await
  <1>3. /\ requests = <<>> /\ t.reqs = <<>> /\ replies' = <<>> /\ replies[i].id = msg_id - 1
        /\ Holds(t.handle)
    BY <1>1, <1>2, Awaited DEF Single
  <1>4. command \in Commands /\ command' = command /\ Fields \subseteq DOMAIN t /\ t.max \in Int
    BY <1>1, <1>2, <1>3, Known
  <1>5. PICK u : /\ Fields \subseteq DOMAIN u /\ u.reqs = <<>> /\ u.max \in Int /\ u.handle = t.handle
                 /\ t' = u
                 /\ \/ pc' = "ls_close" /\ Ask1(Close(u.handle))
                    \/ pc' = "ls" /\ Ask1([op |-> "readdir", id |-> 0, handle |-> u.handle])
    <2>1. CASE replies[i].type = "status"
      <3> DEFINE u == [t EXCEPT !.rerr = replies[i].status # "eof"]
      <3>1. /\ Fields \subseteq DOMAIN u /\ u.reqs = <<>> /\ u.max \in Int /\ u.handle = t.handle
        BY <1>3, <1>4 DEF Fields
      <3>2. t' = u /\ pc' = "ls_close" /\ Ask1(Close(t.handle))
        BY <1>1, <1>3, <2>1
      <3> HIDE DEF u
      <3> QED  BY <3>1, <3>2
    <2>2. CASE replies[i].type # "status"
      <3> DEFINE u == [t EXCEPT !.names = @ \o replies[i].names]
      <3>1. /\ Fields \subseteq DOMAIN u /\ u.reqs = <<>> /\ u.max \in Int /\ u.handle = t.handle
        BY <1>3, <1>4 DEF Fields
      <3>2. ReadDirOr(u)
        BY <1>1, <1>3, <2>2
      <3> HIDE DEF u
      <3> QED  BY <3>1, <3>2 DEF ReadDirOr
    <2> QED  BY <2>1, <2>2
  <1> QED  BY <1>2, <1>3, <1>4, <1>5, ReadDirInv

\* close.
LEMMA ListClosedInv ==
    ASSUME SftpInv, ListClosed
    PROVE  SftpInv'
  <1>1. PICK i \in Arriving :
          /\ Receive(i)
          /\ IF replies[i].id # msg_id - 1 THEN Fatal
             ELSE pc' = "next" /\ t' = NoTransfer /\ SendNone /\ command' = command
    BY DEF ListClosed, Await
  <1>2. pc = "ls_close" /\ ServerKeeps
    BY DEF ListClosed, Await
  <1>3. requests = <<>> /\ replies' = <<>> /\ replies[i].id = msg_id - 1 /\ Shut
    BY <1>1, <1>2, Awaited DEF Single
  <1>4. command \in Commands
    BY <1>2, Known
  <1> QED  BY <1>1, <1>2, <1>3, <1>4, Ended DEF SendNone

-----------------------------------------------------------------------------
(* do_download(): the reads.                                               *)

\* More requests, behind those under way.
LEMMA Sends ==
    ASSUME NEW S, NEW qs \in Seq(S), msg_id \in Int, SendAll(qs),
           \A i \in DOMAIN qs : "id" \in DOMAIN qs[i] /\ "op" \in DOMAIN qs[i] /\ qs[i].op = "read",
           NEW A, Carries(requests, A), \A x \in A : x \in Int /\ x < msg_id,
           \A k \in DOMAIN requests : requests[k].op = "read"
    PROVE  /\ Carries(requests', A \cup (msg_id .. msg_id + Len(qs) - 1))
           /\ msg_id' = msg_id + Len(qs) /\ msg_id' \in Int
           /\ \A k \in DOMAIN requests' : requests'[k].op = "read"
  <1> DEFINE u == [i \in 1 .. Len(qs) |-> [qs[i] EXCEPT !.id = msg_id + i - 1]]
             G == msg_id .. msg_id + Len(qs) - 1
  <1>1. requests' = requests \o u /\ msg_id' = msg_id + Len(qs)
    BY DEF SendAll
  <1>2. Carries(u, G) /\ DOMAIN u = 1 .. Len(qs)
    BY Numbered
  <1>3. DOMAIN qs = 1 .. Len(qs) /\ Len(qs) \in Nat
    OBVIOUS
  <1>4. \A k \in DOMAIN u : u[k].op = "read"
    BY <1>2, <1>3
  <1>5. A \cap G = {}
    BY <1>3
  <1> HIDE DEF u, G
  <1>6. /\ Carries(requests \o u, A \cup G)
        /\ \A i \in DOMAIN (requests \o u) : \/ \E j \in DOMAIN requests : (requests \o u)[i] = requests[j]
                                             \/ \E j \in DOMAIN u : (requests \o u)[i] = u[j]
    BY <1>2, <1>5, CarriesConcat
  <1>7. \A k \in DOMAIN requests' : requests'[k].op = "read"
    BY <1>1, <1>4, <1>6
  <1>8. msg_id' \in Int
    BY <1>1, <1>3
  <1> QED  BY <1>1, <1>6, <1>7, <1>8 DEF G

\* The loop is left.
LEMMA LoopLeft ==
    ASSUME SftpInv, ServerKeeps, command \in Commands, command' = command,
           NEW u, NEW S, NEW again \in Seq(S), t' = u, pc' = "dl_end", SendAll(again), u.reqs = <<>>,
           Fields \subseteq DOMAIN u, u.max \in Int, Holds(u.handle),
           NEW A, NEW B, Carries(requests, A), Carries(replies', B),
           Carries(u.reqs, (A \cup B) \cup (msg_id .. msg_id + Len(again) - 1))
    PROVE  SftpInv'
  <1> DEFINE G == msg_id .. msg_id + Len(again) - 1
             J == (A \cup B) \cup G
  <1>1. msg_id \in Int /\ Len(again) \in Nat
    BY Known
  <1>2. J = {}
    <2>1. Carries(u.reqs, J)
      OBVIOUS
    <2> HIDE DEF J
    <2> QED  BY <2>1, CarriesFacts, CarriesNone
  <1>3. A = {} /\ B = {} /\ G = {}
    BY <1>2
  <1>4. requests = <<>> /\ replies' = <<>>
    BY <1>3, CarriesNone
  <1>5. Len(again) = 0
    <2>1. ASSUME Len(again) # 0 PROVE msg_id \in G
      BY <1>1, <2>1
    <2> QED  BY <1>3, <2>1
  <1>6. again = <<>> /\ msg_id' = msg_id /\ requests' = <<>>
    <2>1. again = <<>>
      BY <1>5
    <2>2. [i \in 1 .. Len(again) |-> [again[i] EXCEPT !.id = msg_id + i - 1]] = <<>>
      BY <1>5
    <2>3. msg_id' = msg_id + 0 /\ requests' = <<>> \o <<>>
      BY <1>4, <1>5, <2>2 DEF SendAll
    <2> QED  BY <1>1, <2>1, <2>3
  <1>7. Holds(t.handle)'
    BY DEF Holds, ServerKeeps
  <1>8. Purpose' /\ Asked' /\ Table'
    BY <1>6, <1>7 DEF Purpose, Asked, Table, Uploading
  <1> QED  BY <1>1, <1>4, <1>6, <1>8, Calm DEF Quiet, Single

\* Requests numbered from m on.
LEMMA Series ==
    ASSUME NEW n \in Nat, NEW m \in Int, NEW R, NEW reqs, reqs \in Seq(R), Len(reqs) = n,
           \A i \in 1 .. n : reqs[i].id = m + i - 1
    PROVE  Carries(reqs, m .. m + n - 1)
  <1> DEFINE H == m .. m + n - 1
  <1>5. reqs \in Seq(R) /\ Len(reqs) = n
    OBVIOUS
  <1>6. \A i \in 1 .. Len(reqs) : reqs[i].id \in H
    BY <1>5
  <1>7. ASSUME NEW x \in H PROVE \E i \in 1 .. Len(reqs) : reqs[i].id = x
    <2>1. x - m + 1 \in 1 .. n /\ m + (x - m + 1) - 1 = x
      OBVIOUS
    <2>2. reqs[x - m + 1].id = x
      BY <2>1
    <2> QED  BY <1>5, <2>1, <2>2
  <1>8. \A i, j \in 1 .. Len(reqs) : reqs[i].id = reqs[j].id => i = j
    BY <1>5
  <1> HIDE DEF H
  <1>9. Carries(reqs, H)
    BY <1>5, <1>6, <1>7, <1>8, CarriesRule
  <1> QED  BY <1>9 DEF H

\* Two intervals, one behind the other.
LEMMA Adjacent ==
    ASSUME NEW a \in Int, NEW m \in Nat, NEW n \in Nat
    PROVE  /\ (a .. a + m - 1) \cup (a + m .. a + m + n - 1) = a .. a + m + n - 1
           /\ (a .. a + m - 1) \cap (a + m .. a + m + n - 1) = {}
  OBVIOUS

\* The loop goes on, with n more requests.
LEMMA LoopGoes ==
    ASSUME SftpInv, ServerKeeps, command \in Commands, command' = command,
           NEW u, NEW S, NEW again \in Seq(S), NEW n \in Nat, NEW max \in Int, NEW end,
           NEW R, NEW sent \in Seq(R), Len(sent) = n,
           \A i \in 1 .. n : "id" \in DOMAIN sent[i] /\ "op" \in DOMAIN sent[i] /\ sent[i].op = "read",
           NEW reqs, Carries(reqs, msg_id + Len(again) .. msg_id + Len(again) + n - 1),
           t' = [u EXCEPT !.max = max, !.off = end, !.reqs = @ \o reqs],
           pc' = "dl", SendAll(again \o sent),
           \A i \in DOMAIN again : "id" \in DOMAIN again[i] /\ "op" \in DOMAIN again[i] /\ again[i].op = "read",
           Fields \subseteq DOMAIN u, u.max \in Int, Holds(u.handle),
           NEW A, NEW B, Carries(requests, A), Carries(replies', B), A \cap B = {},
           \A x \in A \cup B : x \in Int /\ x < msg_id,
           \A k \in DOMAIN requests : requests[k].op = "read",
           Carries(u.reqs, (A \cup B) \cup (msg_id .. msg_id + Len(again) - 1))
    PROVE  SftpInv'
  <1> DEFINE m == Len(again)
             G == msg_id .. msg_id + m - 1
             H == msg_id + m .. msg_id + m + n - 1
             J == (A \cup B) \cup G
             qs == again \o sent
             A2 == A \cup (msg_id .. msg_id + Len(qs) - 1)
             J2 == A2 \cup B
  <1>1. msg_id \in Int /\ m \in Nat /\ DOMAIN again = 1 .. m
    BY Known
  <1> DEFINE T == S \cup R
  <1>2. DOMAIN sent = 1 .. n /\ sent \in Seq(T) /\ again \in Seq(T) /\ Len(sent) = n
    OBVIOUS
  <1>3. \A i \in 1 .. n : "id" \in DOMAIN sent[i] /\ "op" \in DOMAIN sent[i] /\ sent[i].op = "read"
    OBVIOUS
  <1> HIDE DEF T
  <1>4. /\ qs \in Seq(T) /\ Len(qs) = m + n /\ DOMAIN qs = 1 .. m + n
        /\ \A i \in 1 .. m : qs[i] = again[i]
        /\ \A i \in m + 1 .. m + n : qs[i] = sent[i - m] /\ i - m \in 1 .. n
    <2>1. /\ qs \in Seq(T) /\ Len(qs) = m + n
          /\ \A i \in 1 .. m + n : qs[i] = IF i <= m THEN again[i] ELSE sent[i - m]
      BY <1>1, <1>2, ConcatProperties
    <2> HIDE DEF qs, m
    <2>2. DOMAIN qs = 1 .. m + n
      BY <1>1, <2>1
    <2>3. ASSUME NEW i \in 1 .. m PROVE qs[i] = again[i]
      <3>1. i \in 1 .. m + n /\ i <= m
        BY <1>1
      <3> QED  BY <2>1, <3>1
    <2>4. ASSUME NEW i \in m + 1 .. m + n PROVE qs[i] = sent[i - m] /\ i - m \in 1 .. n
      <3>1. i \in 1 .. m + n /\ ~(i <= m) /\ i - m \in 1 .. n
        BY <1>1
      <3> QED  BY <2>1, <3>1
    <2> QED  BY <2>1, <2>2, <2>3, <2>4
  <1>5. SendAll(qs)
    OBVIOUS
  <1> HIDE DEF qs
  <1>6. \A i \in DOMAIN qs : "id" \in DOMAIN qs[i] /\ "op" \in DOMAIN qs[i] /\ qs[i].op = "read"
    <2> SUFFICES ASSUME NEW i \in 1 .. m + n
                 PROVE  "id" \in DOMAIN qs[i] /\ "op" \in DOMAIN qs[i] /\ qs[i].op = "read"
      BY <1>4
    <2>1. CASE i \in 1 .. m
      BY <1>1, <1>4, <2>1
    <2>2. CASE i \in m + 1 .. m + n
      BY <1>3, <1>4, <2>2
    <2> QED  BY <1>1, <2>1, <2>2
  <1>7. /\ Carries(requests', A2) /\ msg_id' = msg_id + Len(qs) /\ msg_id' \in Int
        /\ \A k \in DOMAIN requests' : requests'[k].op = "read"
    BY <1>1, <1>4, <1>5, <1>6, Sends
  <1>8. Carries(reqs, H)
    OBVIOUS
  <1>9. /\ Fields \subseteq DOMAIN t' /\ t'.reqs = u.reqs \o reqs /\ t'.max \in Int
        /\ t'.handle = u.handle
    BY DEF Fields
  <1>10. Carries(u.reqs, J)
    OBVIOUS
  <1> HIDE DEF m
  <1> DEFINE K == msg_id .. msg_id + Len(qs) - 1
  <1>11. J \cap H = {} /\ J \cup H = J2 /\ A2 \cap B = {}
    <2>1. G \cup H = K /\ G \cap H = {}
      <3>1. Len(qs) = m + n
        BY <1>4
      <3>2. K = msg_id .. msg_id + m + n - 1
        BY <1>1, <3>1
      <3> QED  BY <1>1, <3>2, Adjacent
    <2>2. \A x \in A \cup B : x \notin K
      BY <1>1
    <2>3. A2 = A \cup K
      OBVIOUS
    <2> HIDE DEF G, H, K, A2
    <2> QED  BY <2>1, <2>2, <2>3
  <1>12. \A x \in J2 : x \in Int /\ x < msg_id'
    <2>1. \A x \in K : x \in Int /\ x < msg_id'
      BY <1>1, <1>7
    <2>2. \A x \in A \cup B : x \in Int /\ x < msg_id'
      BY <1>1, <1>4, <1>7
    <2>3. J2 = (A \cup B) \cup K
      OBVIOUS
    <2> HIDE DEF K, J2
    <2> QED  BY <2>1, <2>2, <2>3
  <1> HIDE DEF J, H, A2
  <1>13. Carries(u.reqs \o reqs, J \cup H)
    BY <1>8, <1>10, <1>11, CarriesConcat
  <1>14. Carries(t'.reqs, J2)
    BY <1>9, <1>11, <1>13
  <1>15. Ids(t'.reqs) = J2
    <2> HIDE DEF J2
    <2> QED  BY <1>14, CarriesFacts
  <1>16. Numbers'
    BY <1>12, <1>15 DEF Numbers
  <1>17. Holds(t.handle)'
    BY <1>9 DEF Holds, ServerKeeps
  <1>18. Purpose' /\ Asked' /\ Table'
    BY <1>7, <1>17 DEF Purpose, Asked, Fits, Table, Uploading
  <1> QED  BY <1>7, <1>9, <1>11, <1>14, <1>16, <1>18, Streams DEF Streaming

\* Either way.
LEMMA LoopHeadInv ==
    ASSUME SftpInv, ServerKeeps, command \in Commands, command' = command,
           NEW u, NEW S, NEW again \in Seq(S), LoopHead(u, again),
           \A i \in DOMAIN again : "id" \in DOMAIN again[i] /\ "op" \in DOMAIN again[i] /\ again[i].op = "read",
           Fields \subseteq DOMAIN u, u.max \in Int, Holds(u.handle),
           NEW A, NEW B, Carries(requests, A), Carries(replies', B), A \cap B = {},
           \A x \in A \cup B : x \in Int /\ x < msg_id,
           \A k \in DOMAIN requests : requests[k].op = "read",
           Carries(u.reqs, (A \cup B) \cup (msg_id .. msg_id + Len(again) - 1))
    PROVE  SftpInv'
  <1> DEFINE max == IF interrupted THEN 0 ELSE u.max
             n == LargerOf(max - Len(u.reqs), 0)
             off == [i \in 1 .. n |-> u.off + (i - 1) * u.buflen]
             sent == [i \in 1 .. n |-> ReadRequest(u.handle, off[i], u.buflen)]
             reqs == [i \in 1 .. n |-> [id |-> msg_id + Len(again) + i - 1, off |-> off[i], len |-> u.buflen]]
             end == u.off + n * u.buflen
             J == (A \cup B) \cup (msg_id .. msg_id + Len(again) - 1)
  <1>1. CASE Drained(u)
    <2>1. u.reqs = <<>> /\ t' = u /\ pc' = "dl_end" /\ SendAll(again)
      BY <1>1 DEF LoopHead, Drained
    <2> QED  BY <2>1, LoopLeft
  <1>2. CASE ~Drained(u)
    <2>1. Len(u.reqs) \in Nat
      <3>1. Carries(u.reqs, J)
        OBVIOUS
      <3> HIDE DEF J
      <3> QED  BY <3>1, CarriesFacts
    <2>2. n \in Nat /\ max \in Int
      BY <2>1 DEF LargerOf
    <2>3. /\ t' = [u EXCEPT !.max = max, !.off = @ + n * u.buflen,
                            !.reqs = @ \o [i \in 1 .. n |-> [id |-> msg_id + Len(again) + i - 1,
                                                             off |-> u.off + (i - 1) * u.buflen, len |-> u.buflen]]]
          /\ pc' = "dl"
          /\ SendAll(again \o [i \in 1 .. n |-> ReadRequest(u.handle, u.off + (i - 1) * u.buflen, u.buflen)])
      BY <1>2 DEF LoopHead
    <2>4. t' = [u EXCEPT !.max = max, !.off = end, !.reqs = @ \o reqs]
      BY <2>3
    <2>5. SendAll(again \o sent)
      BY <2>3
    <2> DEFINE m == msg_id + Len(again)
               R == {reqs[i] : i \in 1 .. n}
               T == {sent[i] : i \in 1 .. n}
    <2>6. m \in Int
      BY Known
    <2>8. reqs \in [1 .. n -> R] /\ sent \in [1 .. n -> T]
      OBVIOUS
    <2>9. \A i \in 1 .. n : reqs[i].id = m + i - 1
      OBVIOUS
    <2>10. \A i \in 1 .. n : "id" \in DOMAIN sent[i] /\ "op" \in DOMAIN sent[i] /\ sent[i].op = "read"
      BY DEF ReadRequest
    <2> HIDE DEF m, n, off, sent, reqs, R, T
    <2>11. reqs \in Seq(R) /\ Len(reqs) = n /\ sent \in Seq(T) /\ Len(sent) = n
      BY <2>2, <2>8
    <2>13. Carries(reqs, m .. m + n - 1)
      BY <2>2, <2>6, <2>9, <2>11, Series
    <2>12. Carries(reqs, msg_id + Len(again) .. msg_id + Len(again) + n - 1)
      BY <2>13 DEF m
    <2>7. pc' = "dl"
      BY <2>3
    <2> HIDE DEF max, end
    <2> QED  BY <2>2, <2>4, <2>5, <2>7, <2>10, <2>11, <2>12, LoopGoes
  <1> QED  BY <1>1, <1>2

\* open.
LEMMA DownloadOpenInv ==
    ASSUME SftpInv, DownloadOpen
    PROVE  SftpInv'
  <1> DEFINE have == IF t.resume THEN Len(local[t.name].data) ELSE 0
             v == [t EXCEPT !.max = 1, !.buflen = BufLen, !.off = have, !.high = have]
  <1>1. PICK i \in Arriving :
          /\ Receive(i)
          /\ IF replies[i].id # msg_id - 1 THEN Fatal
             ELSE /\ IF replies[i].type = "status" THEN TransferEnds(t.name, "failure", TRUE) /\ SendNone
                     ELSE \/ RefuseResume(replies[i].handle)
                          \/ LoopHead([v EXCEPT !.handle = replies[i].handle], <<>>)
                  /\ command' = command
    BY DEF DownloadOpen, Await
  <1>2. pc = "dl_open" /\ ServerKeeps
    BY DEF DownloadOpen, Await
  <1>3. /\ requests = <<>> /\ t.reqs = <<>> /\ replies' = <<>> /\ replies[i].id = msg_id - 1
        /\ Granted(replies[i])
    BY <1>1, <1>2, Awaited DEF Single
  <1>4. /\ command \in Commands /\ Fields \subseteq DOMAIN t /\ t.max \in Int /\ msg_id \in Int
        /\ command' = command
    BY <1>1, <1>2, <1>3, Known
  <1> HIDE DEF have
  <1>5. CASE replies[i].type = "status"
    <2>1. Shut
      BY <1>3, <1>5 DEF Granted
    <2> QED  BY <1>1, <1>2, <1>3, <1>4, <1>5, <2>1, Ended DEF TransferEnds, SendNone
  <1>6. ASSUME replies[i].type # "status" PROVE Holds(replies[i].handle)
    BY <1>3, <1>6 DEF Granted
  <1>7. CASE replies[i].type # "status" /\ RefuseResume(replies[i].handle)
    <2> DEFINE q == Close(replies[i].handle)
    <2>x. PICK x : x = [q EXCEPT !.id = msg_id]
      OBVIOUS
    <2>1. t' = [t EXCEPT !.handle = replies[i].handle] /\ pc' = "dl_fail" /\ Ask1(q)
      BY <1>1, <1>3, <1>7 DEF RefuseResume
    <2>2. "id" \in DOMAIN q /\ x.op = "close" /\ x.handle = replies[i].handle
      BY <2>x, Forms
    <2> HIDE DEF q
    <2>3. Fields \subseteq DOMAIN t' /\ t'.reqs = <<>> /\ t'.max \in Int /\ t'.handle = replies[i].handle
      BY <1>3, <1>4, <2>1 DEF Fields
    <2>4. Holds(t.handle)'
      BY <1>2, <1>6, <1>7, <2>3 DEF Holds, ServerKeeps
    <2>5. Fits(x)' /\ Purpose' /\ (requests' # <<>> => Table')
      BY <1>4, <2>1, <2>2, <2>3, <2>4 DEF Fits, Purpose, Table, Uploading
    <2> QED  BY <1>3, <2>1, <2>2, <2>3, <2>5, <2>x, Waits DEF Single
  <1>8. CASE replies[i].type # "status" /\ LoopHead([v EXCEPT !.handle = replies[i].handle], <<>>)
    <2> DEFINE u == [v EXCEPT !.handle = replies[i].handle]
               none == <<>>
    <2>1. LoopHead(u, none)
      BY <1>1, <1>3, <1>8
    <2>2. Fields \subseteq DOMAIN u /\ u.max \in Int /\ u.handle = replies[i].handle /\ u.reqs = <<>>
      BY <1>3, <1>4 DEF Fields
    <2>3. Holds(u.handle)
      BY <1>6, <1>8, <2>2
    <2>4. none \in Seq({}) /\ Len(none) = 0 /\ DOMAIN none = {}
      OBVIOUS
    <2>5. Carries(<<>>, {})
      BY CarriesNone
    <2> HIDE DEF u, v, none
    <2>6. ({} \cup {}) \cup (msg_id .. msg_id + Len(none) - 1) = {} /\ {} \cap {} = {}
      BY <1>4, <2>4
    <2>7. /\ Carries(requests, {}) /\ Carries(replies', {})
          /\ Carries(u.reqs, ({} \cup {}) \cup (msg_id .. msg_id + Len(none) - 1))
      BY <1>3, <2>2, <2>5, <2>6
    <2>8. /\ \A k \in DOMAIN requests : requests[k].op = "read"
          /\ \A k \in DOMAIN none : "id" \in DOMAIN none[k] /\ "op" \in DOMAIN none[k] /\ none[k].op = "read"
      BY <1>3, <2>4
    <2> QED  BY <1>2, <1>4, <2>1, <2>2, <2>3, <2>4, <2>6, <2>7, <2>8, LoopHeadInv
  <1> QED  BY <1>1, <1>3, <1>5, <1>7, <1>8

\* The bookkeeping leaves the requests alone.
LEMMA Bookkeeping ==
    ASSUME NEW u, Fields \subseteq DOMAIN u, u.max \in Int, NEW req, NEW len, NEW wrote
    PROVE  /\ Fields \subseteq DOMAIN Advance(u, req, len, wrote) /\ Advance(u, req, len, wrote).max \in Int
           /\ Advance(u, req, len, wrote).reqs = u.reqs /\ Advance(u, req, len, wrote).handle = u.handle
           /\ Fields \subseteq DOMAIN Widen(u) /\ Widen(u).max \in Int
           /\ Widen(u).reqs = u.reqs /\ Widen(u).handle = u.handle
  <1>1. /\ Fields \subseteq DOMAIN Advance(u, req, len, wrote) /\ Advance(u, req, len, wrote).max \in Int
        /\ Advance(u, req, len, wrote).reqs = u.reqs /\ Advance(u, req, len, wrote).handle = u.handle
    BY DEF Advance, Fields
  <1>2. /\ Fields \subseteq DOMAIN Widen(u) /\ Widen(u).max \in Int
        /\ Widen(u).reqs = u.reqs /\ Widen(u).handle = u.handle
    BY DEF Widen, Fields
  <1> QED  BY <1>1, <1>2

\* A block or the end of the file arrived for request j.
LEMMA DownloadReplyInv ==
    ASSUME SftpInv, DownloadReply
    PROVE  SftpInv'
  <1> DEFINE A == Ids(requests)
             B == Ids(replies)
             J == A \cup B
  <1>1. PICK i \in Arriving :
          LET r == replies[i]
              js == {j \in 1 .. Len(t.reqs) : t.reqs[j].id = r.id}
              j == CHOOSE k \in js : TRUE
          IN  /\ Receive(i)
              /\ \/ js = {} /\ Fatal
                 \/ /\ js # {}
                    /\ LoopHead([t EXCEPT !.rerr = @ \/ r.status # "eof", !.max = 0,
                                          !.reqs = RemoveAt(@, j)], <<>>)
                    /\ command' = command
                 \/ /\ js # {}
                    /\ \E k \in 0 .. Len(r.data) : GotData(r, j, k = Len(r.data))
                    /\ command' = command
    BY DEF DownloadReply
  <1>2. pc = "dl" /\ ServerKeeps
    BY DEF DownloadReply
  <1>3. /\ Carries(requests, A) /\ A \cap B = {} /\ Carries(t.reqs, J) /\ Ids(t.reqs) = J
    BY <1>2, Streamed DEF Streaming
  <1>4. /\ command \in Commands /\ Fields \subseteq DOMAIN t /\ t.max \in Int /\ msg_id \in Int
    BY <1>2, Known
  <1>5. Holds(t.handle) /\ \A y \in Ids(t.reqs) : y \in Int /\ y < msg_id
    BY <1>2 DEF SftpInv, Table, Numbers
  <1>6. \A k \in DOMAIN requests : requests[k].op = "read"
    BY <1>2 DEF SftpInv, Asked, Fits
  <1>7. /\ replies[i].id \in B /\ replies[i].id \notin A /\ Carries(replies', B \ {replies[i].id})
        /\ \E j \in 1 .. Len(t.reqs) : t.reqs[j].id = replies[i].id
        /\ DOMAIN t.reqs = 1 .. Len(t.reqs)
    BY <1>1, <1>2, Taken DEF Streaming
  <1>8. PICK j \in 1 .. Len(t.reqs) :
          /\ t.reqs[j].id = replies[i].id /\ command' = command
          /\ \/ LoopHead([t EXCEPT !.rerr = @ \/ replies[i].status # "eof", !.max = 0,
                                   !.reqs = RemoveAt(@, j)], <<>>)
             \/ \E wrote : GotData(replies[i], j, wrote)
    <2> DEFINE js == {j \in 1 .. Len(t.reqs) : t.reqs[j].id = replies[i].id}
               c == CHOOSE k \in js : TRUE
    <2>1. c \in js
      BY <1>7
    <2>2. /\ command' = command
          /\ \/ LoopHead([t EXCEPT !.rerr = @ \/ replies[i].status # "eof", !.max = 0,
                                   !.reqs = RemoveAt(@, c)], <<>>)
             \/ \E k \in 0 .. Len(replies[i].data) : GotData(replies[i], c, k = Len(replies[i].data))
      BY <1>1, <1>7
    <2> HIDE DEF c
    <2> QED  BY <2>1, <2>2
  <1> DEFINE B2 == B \ {replies[i].id}
             none == <<>>
  <1>9. /\ J \ {t.reqs[j].id} = A \cup B2 /\ A \cap B2 = {} /\ (\A y \in A \cup B2 : y \in Int /\ y < msg_id)
        /\ msg_id \notin J /\ j \in DOMAIN t.reqs /\ Carries(replies', B2)
    BY <1>3, <1>5, <1>7, <1>8
  <1> HIDE DEF J, B2, A, B
  <1>10. Carries(RemoveAt(t.reqs, j), A \cup B2)
    BY <1>3, <1>9, CarriesRemove
  <1>11. /\ none \in Seq({}) /\ Len(none) = 0 /\ DOMAIN none = {}
    OBVIOUS
  <1> HIDE DEF none
  <1>12. ASSUME NEW u, Fields \subseteq DOMAIN u, u.max \in Int, u.handle = t.handle,
                u.reqs = RemoveAt(t.reqs, j), LoopHead(u, none)
         PROVE  SftpInv'
    <2>1. (A \cup B2) \cup (msg_id .. msg_id + Len(none) - 1) = A \cup B2
      BY <1>4, <1>11
    <2>2. Carries(u.reqs, (A \cup B2) \cup (msg_id .. msg_id + Len(none) - 1)) /\ Holds(u.handle)
      BY <1>5, <1>10, <1>12, <2>1
    <2>3. \A k \in DOMAIN none : "id" \in DOMAIN none[k] /\ "op" \in DOMAIN none[k] /\ none[k].op = "read"
      BY <1>11
    <2> QED  BY <1>2, <1>3, <1>4, <1>6, <1>8, <1>9, <1>11, <1>12, <2>2, <2>3, LoopHeadInv
  <1>13. CASE LoopHead([t EXCEPT !.rerr = @ \/ replies[i].status # "eof", !.max = 0,
                                 !.reqs = RemoveAt(@, j)], <<>>)
    <2> DEFINE u == [t EXCEPT !.rerr = @ \/ replies[i].status # "eof", !.max = 0, !.reqs = RemoveAt(@, j)]
    <2>1. /\ Fields \subseteq DOMAIN u /\ u.max \in Int /\ u.handle = t.handle
          /\ u.reqs = RemoveAt(t.reqs, j)
      BY <1>4 DEF Fields
    <2>2. LoopHead(u, none)
      BY <1>13 DEF none
    <2> HIDE DEF u
    <2> QED  BY <1>12, <2>1, <2>2
  <1>14. ASSUME NEW wrote, GotData(replies[i], j, wrote) PROVE SftpInv'
    <2> DEFINE req == t.reqs[j]
               len == Len(replies[i].data)
               v == [t EXCEPT !.bad = IF wrote THEN @ ELSE @ + 1]
               u == Advance(v, req, len, wrote)
               rest == [id |-> msg_id, off |-> req.off + len, len |-> req.len - len]
               short == [u EXCEPT !.reqs[j] = rest,
                                  !.buflen = IF len < @ THEN LargerOf(MinReadSize, len) ELSE @]
               full == [u EXCEPT !.reqs = RemoveAt(@, j)]
               again == <<ReadRequest(t.handle, rest.off, rest.len)>>
    <2>1. \/ LoopHead(Widen(full), none)
          \/ LoopHead(Widen(short), again)
      BY <1>14 DEF GotData, none
    <2>2. Fields \subseteq DOMAIN v /\ v.max \in Int /\ v.reqs = t.reqs /\ v.handle = t.handle
      BY <1>4 DEF Fields
    <2> HIDE DEF v
    <2>3. Fields \subseteq DOMAIN u /\ u.max \in Int /\ u.reqs = t.reqs /\ u.handle = t.handle
      BY <2>2 DEF Advance, Fields
    <2> HIDE DEF u
    <2>4. CASE LoopHead(Widen(full), none)
      <3>1. /\ Fields \subseteq DOMAIN full /\ full.max \in Int /\ full.reqs = RemoveAt(t.reqs, j)
            /\ full.handle = t.handle
        BY <2>3 DEF Fields
      <3> HIDE DEF full
      <3> DEFINE w == Widen(full)
      <3>2. /\ Fields \subseteq DOMAIN w /\ w.max \in Int /\ w.reqs = RemoveAt(t.reqs, j)
            /\ w.handle = t.handle
        BY <3>1, Bookkeeping
      <3>3. LoopHead(w, none)
        BY <2>4
      <3> HIDE DEF w
      <3> QED  BY <1>12, <3>2, <3>3
    <2>5. CASE LoopHead(Widen(short), again)
      <3>1. rest.id = msg_id
        OBVIOUS
      <3>2. /\ again \in Seq({again[1]}) /\ Len(again) = 1 /\ DOMAIN again = {1}
            /\ "id" \in DOMAIN again[1] /\ "op" \in DOMAIN again[1] /\ again[1].op = "read"
        BY DEF ReadRequest
      <3> HIDE DEF rest, again
      <3>3. /\ Fields \subseteq DOMAIN short /\ short.max \in Int /\ short.reqs = [t.reqs EXCEPT ![j] = rest]
            /\ short.handle = t.handle
        BY <2>3 DEF Fields
      <3> HIDE DEF short
      <3> DEFINE w == Widen(short)
      <3>4. /\ Fields \subseteq DOMAIN w /\ w.max \in Int /\ w.reqs = [t.reqs EXCEPT ![j] = rest]
            /\ w.handle = t.handle
        BY <3>3, Bookkeeping
      <3>5. LoopHead(w, again)
        BY <2>5
      <3> HIDE DEF w
      <3>6. Carries([t.reqs EXCEPT ![j] = rest], (J \ {t.reqs[j].id}) \cup {rest.id})
        BY <1>3, <1>9, <3>1, CarriesReplace
      <3>7. (J \ {t.reqs[j].id}) \cup {rest.id} = (A \cup B2) \cup (msg_id .. msg_id + Len(again) - 1)
        BY <1>4, <1>9, <3>1, <3>2
      <3>8. Carries(w.reqs, (A \cup B2) \cup (msg_id .. msg_id + Len(again) - 1)) /\ Holds(w.handle)
        BY <1>5, <3>4, <3>6, <3>7
      <3>9. \A k \in DOMAIN again : "id" \in DOMAIN again[k] /\ "op" \in DOMAIN again[k] /\ again[k].op = "read"
        BY <3>2
      <3> QED  BY <1>2, <1>3, <1>4, <1>6, <1>8, <1>9, <3>2, <3>4, <3>5, <3>8, <3>9, LoopHeadInv
    <2> QED  BY <2>1, <2>4, <2>5
  <1> QED  BY <1>8, <1>13, <1>14

-----------------------------------------------------------------------------
(* The server.                                                             *)

\* The requests that neither open nor close.
Keeping == {"read", "write", "stat", "fsetstat", "fsync", "readdir"} \cup Simple

\* A reply to q is sent.
Replies(q) == \E r : replies' = Append(replies, r) /\ r.id = q.id

\* What the handlers send is one.
LEMMA Sent ==
    ASSUME NEW q
    PROVE  /\ \A s : send_status(q.id, s) => Replies(q)
           /\ \A s : send_handle(q.id, s) => Replies(q)
           /\ \A s : send_data(q.id, s) => Replies(q)
           /\ \A s : send_names(q.id, s) => Replies(q)
           /\ \A s : send_attrib(q.id, s) => Replies(q)
           /\ Send([type |-> "version", id |-> q.id]) => Replies(q)
           /\ Send([type |-> "statvfs", id |-> q.id]) => Replies(q)
           /\ \A s : Send([type |-> "name", id |-> q.id, names |-> s]) => Replies(q)
  <1>1. ASSUME NEW r, r.id = q.id, Send(r) PROVE Replies(q)
    BY <1>1 DEF Replies, Send
  <1>2. ASSUME NEW s, send_status(q.id, s) PROVE Replies(q)
    <2>1. PICK r : r = [type |-> "status", id |-> q.id, status |-> s]  OBVIOUS
    <2>2. r.id = q.id /\ Send(r)
      BY <1>2, <2>1 DEF send_status
    <2> QED  BY <1>1, <2>2
  <1>3. ASSUME NEW s, send_handle(q.id, s) PROVE Replies(q)
    <2>1. PICK r : r = [type |-> "handle", id |-> q.id, handle |-> s]  OBVIOUS
    <2>2. r.id = q.id /\ Send(r)
      BY <1>3, <2>1 DEF send_handle
    <2> QED  BY <1>1, <2>2
  <1>4. ASSUME NEW s, send_data(q.id, s) PROVE Replies(q)
    <2>1. PICK r : r = [type |-> "data", id |-> q.id, data |-> s]  OBVIOUS
    <2>2. r.id = q.id /\ Send(r)
      BY <1>4, <2>1 DEF send_data
    <2> QED  BY <1>1, <2>2
  <1>5. ASSUME NEW s, Send([type |-> "name", id |-> q.id, names |-> s]) PROVE Replies(q)
    <2>1. PICK r : r = [type |-> "name", id |-> q.id, names |-> s]  OBVIOUS
    <2>2. r.id = q.id /\ Send(r)
      BY <1>5, <2>1
    <2> QED  BY <1>1, <2>2
  <1>6. ASSUME NEW s, send_names(q.id, s) PROVE Replies(q)
    BY <1>5, <1>6 DEF send_names
  <1>7. ASSUME NEW s, send_attrib(q.id, s) PROVE Replies(q)
    <2>1. PICK r : r = [type |-> "attrs", id |-> q.id, kind |-> s.type, size |-> Len(s.data)]  OBVIOUS
    <2>2. r.id = q.id /\ Send(r)
      BY <1>7, <2>1 DEF send_attrib
    <2> QED  BY <1>1, <2>2
  <1>8. ASSUME Send([type |-> "version", id |-> q.id]) PROVE Replies(q)
    <2>1. PICK r : r = [type |-> "version", id |-> q.id]  OBVIOUS
    <2>2. r.id = q.id /\ Send(r)
      BY <1>8, <2>1
    <2> QED  BY <1>1, <2>2
  <1>9. ASSUME Send([type |-> "statvfs", id |-> q.id]) PROVE Replies(q)
    <2>1. PICK r : r = [type |-> "statvfs", id |-> q.id]  OBVIOUS
    <2>2. r.id = q.id /\ Send(r)
      BY <1>9, <2>1
    <2> QED  BY <1>1, <2>2
  <1> QED  BY <1>2, <1>3, <1>4, <1>5, <1>6, <1>7, <1>8, <1>9

\* Each request gets one reply with its id.
LEMMA Replied ==
    ASSUME Process
    PROVE  Replies(Head(requests))
  <1> DEFINE q == Head(requests)
  <1>1. ~request_permitted(q) /\ send_status(q.id, "failure") => Replies(q)
    BY Sent
  <1>2. process_init(q) => Replies(q)
    BY Sent DEF process_init
  <1>3. process_open(q) => Replies(q)
    BY Sent DEF process_open
  <1>4. process_close(q) => Replies(q)
    BY Sent DEF process_close
  <1>5. process_read(q) => Replies(q)
    BY Sent DEF process_read
  <1>6. process_write(q) => Replies(q)
    BY Sent DEF process_write
  <1>7. process_do_stat(q) => Replies(q)
    BY Sent DEF process_do_stat
  <1>8. process_setstat(q) \/ process_fsetstat(q) \/ process_extended_fsync(q) => Replies(q)
    BY Sent DEF process_setstat, process_fsetstat, process_extended_fsync
  <1>9. process_opendir(q) => Replies(q)
    BY Sent DEF process_opendir
  <1>10. process_readdir(q) => Replies(q)
    BY Sent DEF process_readdir
  <1>11. \A ok, new : Ask(q, ok, new) => Replies(q)
    BY Sent DEF Ask
  <1>12. process_remove(q) \/ process_mkdir(q) \/ process_rmdir(q) => Replies(q)
    BY <1>11 DEF process_remove, process_mkdir, process_rmdir
  <1>13. process_rename(q) \/ process_extended_posix_rename(q) \/ process_symlink(q) => Replies(q)
    BY <1>11 DEF process_rename, process_extended_posix_rename, process_symlink
  <1>14. process_realpath(q) => Replies(q)
    BY Sent DEF process_realpath
  <1>15. process_extended_statvfs(q) => Replies(q)
    BY Sent DEF process_extended_statvfs
  <1> QED  BY <1>1, <1>2, <1>3, <1>4, <1>5, <1>6, <1>7, <1>8, <1>9, <1>10, <1>12, <1>13, <1>14, <1>15
           DEF Process

\* A table of one entry, which is changed.
LEMMA Entry ==
    ASSUME NEW s, s \in Seq(Items(s)), Len(s) = 1, NEW e
    PROVE  /\ [s EXCEPT ![1] = e] \in Seq(Items([s EXCEPT ![1] = e]))
           /\ Len([s EXCEPT ![1] = e]) = 1 /\ [s EXCEPT ![1] = e][1] = e
  <1> DEFINE S == Items(s) \cup {e}
             u == [s EXCEPT ![1] = e]
  <1>1. s \in Seq(S) /\ e \in S /\ 1 \in 1 .. Len(s) /\ DOMAIN s = 1 .. Len(s)
    OBVIOUS
  <1> HIDE DEF S
  <1>2. u \in Seq(S) /\ Len(u) = Len(s) /\ u[1] = e
    BY <1>1
  <1> HIDE DEF u
  <1>3. u \in Seq(Items(u))
    BY <1>2, ItemsOf
  <1> QED  BY <1>2, <1>3 DEF u

\* readdir changes it but for its use.
LEMMA EntryRead ==
    ASSUME NEW h, Holds(h), NEW l, handles' = [handles EXCEPT ![h].left = l], unused' = unused
    PROVE  Holds(h)'
  <1> DEFINE e == [handles[1] EXCEPT !.left = l]
             u == [handles EXCEPT ![1] = e]
  <1>1. /\ h = 1 /\ Len(handles) = 1 /\ handles \in Seq(Items(handles)) /\ unused = <<>>
        /\ "use" \in DOMAIN handles[1] /\ handles[1].use \in {"file", "dir"}
    BY DEF Holds
  <1>2. handles' = u
    BY <1>1
  <1>3. "use" \in DOMAIN e /\ e.use = handles[1].use
    BY <1>1
  <1> HIDE DEF e
  <1>4. u \in Seq(Items(u)) /\ Len(u) = 1 /\ u[1] = e
    BY <1>1, Entry
  <1> HIDE DEF u
  <1> QED  BY <1>1, <1>2, <1>3, <1>4 DEF Holds

\* The requests that neither open nor close leave the table as it is.
LEMMA Keeps ==
    ASSUME Process, Head(requests).op \in Keeping
    PROVE  (Shut => Shut') /\ \A h : Holds(h) => Holds(h)'
  <1> DEFINE q == Head(requests)
  <1>1. KeepTable => (Shut => Shut') /\ \A h : Holds(h) => Holds(h)'
    BY DEF KeepTable, Shut, Holds
  <1>2. ASSUME process_readdir(q) PROVE (Shut => Shut') /\ \A h : Holds(h) => Holds(h)'
    <2>1. CASE ~handle_is_ok(q.handle, "dir")
      BY <1>1, <1>2, <2>1 DEF process_readdir
    <2>2. CASE handle_is_ok(q.handle, "dir")
      <3>1. \/ KeepTable
            \/ unused' = unused /\ \E l : handles' = [handles EXCEPT ![q.handle].left = l]
        BY <1>2, <2>2 DEF process_readdir
      <3>2. q.handle \in 1 .. Len(handles) /\ handles[q.handle].use = "dir"
        BY <2>2 DEF handle_is_ok
      <3>3. ~Shut
        BY <3>2 DEF Shut
      <3>4. ASSUME NEW h, Holds(h), ~KeepTable PROVE Holds(h)'
        <4>1. q.handle = h
          BY <3>2, <3>4 DEF Holds
        <4> QED  BY <3>1, <3>4, <4>1, EntryRead
      <3> QED  BY <1>1, <3>3, <3>4
    <2> QED  BY <2>1, <2>2
  <1>3. \A ok, new : Ask(q, ok, new) => KeepTable
    BY DEF Ask
  <1>4. \/ process_read(q) \/ process_write(q) \/ process_do_stat(q) \/ process_setstat(q) \/ process_fsetstat(q)
        \/ process_realpath(q) \/ process_extended_fsync(q) \/ process_extended_statvfs(q)
        => KeepTable
    BY DEF process_read, process_write, process_do_stat, process_setstat, process_fsetstat, process_realpath,
           process_extended_fsync, process_extended_statvfs
  <1>5. \/ process_remove(q) \/ process_mkdir(q) \/ process_rmdir(q) \/ process_rename(q)
        \/ process_extended_posix_rename(q) \/ process_symlink(q)
        => KeepTable
    BY <1>3 DEF process_remove, process_mkdir, process_rmdir, process_rename, process_extended_posix_rename,
                process_symlink
  <1>6. q.op \notin {"init", "open", "close", "opendir"}
    BY DEF Keeping, Simple
  <1>7. KeepTable \/ process_readdir(q)
    BY <1>4, <1>5, <1>6 DEF Process
  <1> QED  BY <1>1, <1>2, <1>7

\* A handle is taken from a table where nothing is open.
LEMMA NewEntry ==
    ASSUME Shut, NEW use \in {"file", "dir"}, NEW n, NEW a, NEW l, handle_new(use, n, a, l)
    PROVE  NewHandle = 1 /\ Holds(1)'
  <1> DEFINE e == [use |-> use, name |-> n, append |-> a, left |-> l]
  <1>1. "use" \in DOMAIN e /\ e.use = use
    OBVIOUS
  <1>2. IF unused = <<>> THEN handles' = Append(handles, e) /\ unused' = <<>>
        ELSE handles' = [handles EXCEPT ![Head(unused)] = e] /\ unused' = Tail(unused)
    BY DEF handle_new
  <1> HIDE DEF e
  <1>3. CASE handles = <<>> /\ unused = <<>>
    <2> DEFINE u == <<e>>
    <2>1. NewHandle = 1
      BY <1>3 DEF NewHandle
    <2>2. handles' = u /\ unused' = <<>>
      BY <1>2, <1>3
    <2>3. u \in Seq({e}) /\ Len(u) = 1 /\ u[1] = e
      OBVIOUS
    <2> HIDE DEF u
    <2>4. u \in Seq(Items(u))
      BY <2>3, ItemsOf
    <2> QED  BY <1>1, <2>1, <2>2, <2>3, <2>4 DEF Holds
  <1>4. CASE Len(handles) = 1 /\ handles \in Seq(Items(handles)) /\ unused = <<1>>
    <2> DEFINE u == [handles EXCEPT ![1] = e]
    <2>1. unused # <<>> /\ Head(unused) = 1 /\ Tail(unused) = <<>>
      BY <1>4
    <2>2. NewHandle = 1 /\ handles' = u /\ unused' = <<>>
      BY <1>2, <2>1 DEF NewHandle
    <2>3. u \in Seq(Items(u)) /\ Len(u) = 1 /\ u[1] = e
      BY <1>4, Entry
    <2> HIDE DEF u
    <2> QED  BY <1>1, <2>2, <2>3 DEF Holds
  <1> QED  BY <1>3, <1>4 DEF Shut

\* open and opendir, when nothing is open: a status, or the handle.
LEMMA Opens ==
    ASSUME Process, Head(requests).op \in {"open", "opendir"}, Shut
    PROVE  \E r : replies' = Append(replies, r) /\ r.id = Head(requests).id /\ Granted(r)'
  <1> DEFINE q == Head(requests)
  <1>1. ASSUME send_status(q.id, "failure"), KeepTable
        PROVE  \E r : replies' = Append(replies, r) /\ r.id = q.id /\ Granted(r)'
    <2>1. PICK r : r = [type |-> "status", id |-> q.id, status |-> "failure"]
      OBVIOUS
    <2>2. replies' = Append(replies, r) /\ r.id = q.id /\ r.type = "status"
      BY <1>1, <2>1 DEF send_status, Send
    <2>3. Shut'
      BY <1>1 DEF KeepTable, Shut
    <2>4. Granted(r)'
      BY <2>2, <2>3 DEF Granted
    <2> QED  BY <2>2, <2>4
  <1>2. ASSUME NEW use \in {"file", "dir"}, NEW n, NEW a, NEW l, handle_new(use, n, a, l),
               send_handle(q.id, NewHandle)
        PROVE  \E r : replies' = Append(replies, r) /\ r.id = q.id /\ Granted(r)'
    <2>1. NewHandle = 1 /\ Holds(1)'
      BY <1>2, NewEntry
    <2>2. PICK r : r = [type |-> "handle", id |-> q.id, handle |-> 1]
      OBVIOUS
    <2>3. replies' = Append(replies, r) /\ r.id = q.id /\ r.type = "handle" /\ r.handle = 1
      BY <1>2, <2>1, <2>2 DEF send_handle, Send
    <2>4. Granted(r)'
      BY <2>1, <2>3 DEF Granted
    <2> QED  BY <2>3, <2>4
  <1>3. \/ send_status(q.id, "failure") /\ KeepTable
        \/ process_open(q)
        \/ process_opendir(q)
    BY DEF Process
  <1>4. CASE process_open(q)
    <2>1. \/ send_status(q.id, "failure") /\ KeepTable
          \/ /\ handle_new("file", Target(q.name), "append" \in q.flags, <<>>)
             /\ send_handle(q.id, NewHandle)
      BY <1>4 DEF process_open
    <2> QED  BY <1>1, <1>2, <2>1
  <1>5. CASE process_opendir(q)
    <2>1. /\ handle_new("dir", q.name, FALSE, SetToSeq({n \in Names : Exists(n)}))
          /\ send_handle(q.id, NewHandle)
      BY <1>5 DEF process_opendir
    <2> QED  BY <1>2, <2>1
  <1> QED  BY <1>1, <1>3, <1>4, <1>5

\* close of what is open.
LEMMA Closes ==
    ASSUME Process, Head(requests).op = "close", Holds(Head(requests).handle)
    PROVE  Shut'
  <1> DEFINE q == Head(requests)
             e == [handles[1] EXCEPT !.use = "unused"]
             u == [handles EXCEPT ![1] = e]
  <1>1. request_permitted(q)
    BY SftpAssumption DEF request_permitted, Writing
  <1>2. process_close(q)
    BY <1>1 DEF Process
  <1>3. /\ q.handle = 1 /\ Len(handles) = 1 /\ handles \in Seq(Items(handles)) /\ unused = <<>>
        /\ "use" \in DOMAIN handles[1] /\ handles[1].use \in {"file", "dir"}
    BY DEF Holds
  <1>4. handle_is_ok(q.handle, "file") \/ handle_is_ok(q.handle, "dir")
    BY <1>3 DEF handle_is_ok
  <1>5. handle_unused(1)
    BY <1>2, <1>3, <1>4 DEF process_close
  <1>6. handles' = u /\ unused' = <<1>>
    BY <1>3, <1>5 DEF handle_unused
  <1>7. "use" \in DOMAIN e /\ e.use = "unused"
    BY <1>3
  <1> HIDE DEF e
  <1>8. u \in Seq(Items(u)) /\ Len(u) = 1 /\ u[1] = e
    BY <1>3, Entry
  <1> HIDE DEF u
  <1> QED  BY <1>6, <1>7, <1>8 DEF Shut

\* The requests and replies after a step of the server.
LEMMA Moved ==
    ASSUME SftpInv, requests # <<>>, requests' = Tail(requests), UNCHANGED clientVars,
           NEW r, replies' = Append(replies, r), r.id = Head(requests).id
    PROVE  /\ Places' /\ Numbers' /\ Purpose' /\ Flight' /\ Asked'
           /\ replies' # <<>> /\ Fits(Head(requests))
           /\ \A i \in DOMAIN replies' : (i \in DOMAIN replies /\ replies'[i] = replies[i]) \/ replies'[i] = r
  <1> DEFINE A == Ids(requests)
             B == Ids(replies)
             A2 == A \ {r.id}
             B2 == B \cup {r.id}
  <1>1. /\ pc' = pc /\ msg_id' = msg_id /\ t' = t /\ command' = command
    BY DEF clientVars
  <1>2. Carries(requests, A) /\ Carries(replies, B) /\ A \cap B = {} /\ A \cup B = Expected
    BY DEF SftpInv, Flight
  <1> HIDE DEF A, B
  <1>3. /\ r.id \in A /\ Head(requests) = requests[1] /\ Carries(Tail(requests), A2)
        /\ \A i \in DOMAIN Tail(requests) : i + 1 \in DOMAIN requests /\ Tail(requests)[i] = requests[i + 1]
    BY <1>2, CarriesTail
  <1>4. r.id \notin B
    BY <1>2, <1>3
  <1>5. /\ Carries(replies', B2) /\ replies' # <<>>
        /\ \A i \in DOMAIN replies' : (i \in DOMAIN replies /\ replies'[i] = replies[i]) \/ replies'[i] = r
    BY <1>2, <1>4, CarriesAppend
  <1>6. Carries(requests', A2)
    BY <1>3
  <1>7. A2 \cap B2 = {} /\ A2 \cup B2 = Expected
    BY <1>2, <1>3
  <1> HIDE DEF A2, B2
  <1>8. Ids(requests') = A2 /\ Ids(replies') = B2
    BY <1>5, <1>6, CarriesFacts
  <1>9. Expected' = Expected
    BY <1>1 DEF Expected
  <1>10. Flight'
    BY <1>5, <1>6, <1>7, <1>8, <1>9 DEF Flight
  <1>11. Places' /\ Numbers' /\ Purpose'
    BY <1>1 DEF SftpInv, Places, Numbers, Purpose
  <1>12. \A i \in DOMAIN requests : Fits(requests[i])
    BY DEF SftpInv, Asked
  <1>13. \A i \in DOMAIN requests' : \E j \in DOMAIN requests : requests'[i] = requests[j]
    BY <1>3
  <1>14. Asked'
    <2> SUFFICES ASSUME NEW i \in DOMAIN requests' PROVE Fits(requests[i])'
      BY DEF Asked
    <2>1. PICK j \in DOMAIN requests : requests'[i] = requests[j]
      BY <1>13
    <2>2. Fits(requests[j])
      BY <1>12
    <2> QED  BY <1>1, <2>1, <2>2 DEF Fits
  <1>15. 1 \in DOMAIN requests
    <2>1. requests \in Seq(Items(requests)) /\ Len(requests) \in Nat /\ DOMAIN requests = 1 .. Len(requests)
      BY <1>2, CarriesFacts
    <2> QED  BY <2>1
  <1>16. Fits(Head(requests))
    BY <1>3, <1>12, <1>15
  <1> QED  BY <1>5, <1>10, <1>11, <1>14, <1>16

\* Where one reply is expected, the request is the only one.
LEMMA OnlyOne ==
    ASSUME SftpInv, pc \in Single, requests # <<>>
    PROVE  replies = <<>> /\ Tail(requests) = <<>>
  <1> DEFINE A == Ids(requests)
             B == Ids(replies)
             x == msg_id - 1
  <1>1. t.reqs = <<>>
    BY DEF SftpInv, Places, Streaming, Single
  <1>2. Expected = {x}
    BY <1>1, CarriesNone DEF Expected
  <1>3. Carries(requests, A) /\ Carries(replies, B) /\ A \cap B = {} /\ A \cup B = {x}
    BY <1>2 DEF SftpInv, Flight
  <1> HIDE DEF A, B, x
  <1>4. Head(requests).id \in A /\ Carries(Tail(requests), A \ {Head(requests).id})
    BY <1>3, CarriesTail
  <1>5. A \ {Head(requests).id} = {} /\ B = {}
    BY <1>3, <1>4
  <1> QED  BY <1>3, <1>4, <1>5, CarriesNone

\* process().
LEMMA ProcessInv ==
    ASSUME SftpInv, Process, UNCHANGED clientVars
    PROVE  SftpInv'
  <1> DEFINE q == Head(requests)
  <1>1. requests # <<>> /\ requests' = Tail(requests) /\ pc' = pc /\ t' = t
    BY DEF Process, clientVars
  <1>2. pc \in Single \cup Streaming
    BY <1>1, Resting DEF SftpInv, Places
  <1>3. PICK r : replies' = Append(replies, r) /\ r.id = q.id
    BY Replied DEF Replies
  <1>4. /\ Places' /\ Numbers' /\ Purpose' /\ Flight' /\ Asked'
        /\ replies' # <<>> /\ Fits(q)
        /\ \A i \in DOMAIN replies' : (i \in DOMAIN replies /\ replies'[i] = replies[i]) \/ replies'[i] = r
    BY <1>1, <1>3, Moved
  <1>5. pc \in Single => replies = <<>> /\ requests' = <<>>
    BY <1>1, OnlyOne
  <1> HIDE DEF q
  <1>6. CASE pc \in {"simple", "dl_stat", "ul_stat"}
    <2>1. q.op \in Keeping /\ Shut
      BY <1>4, <1>6, Known DEF Fits, Keeping
    <2>2. Shut'
      BY <2>1, Keeps DEF q
    <2> QED  BY <1>1, <1>4, <1>6, <2>2 DEF SftpInv, Table
  <1>7. CASE pc \in {"dl_open", "ul_open", "ls_open"}
    <2>1. q.op \in {"open", "opendir"} /\ Shut /\ replies = <<>>
      BY <1>4, <1>5, <1>7 DEF Fits, SftpInv, Table, Single
    <2>2. PICK s : replies' = Append(replies, s) /\ s.id = q.id /\ Granted(s)'
      BY <2>1, Opens DEF q
    <2>3. \A i \in DOMAIN replies' : (i \in DOMAIN replies /\ replies'[i] = replies[i]) \/ replies'[i] = s
      BY <1>1, <2>2, Moved DEF q
    <2>4. \A i \in DOMAIN replies' : replies'[i] = s
      BY <2>1, <2>3
    <2>5. Table'
      BY <1>1, <1>4, <1>7, <2>2, <2>4 DEF Table
    <2> QED  BY <1>4, <2>5 DEF SftpInv
  <1>8. CASE pc \in {"dl", "ul", "ul_wait", "ls"}
    <2>1. q.op \in Keeping /\ Holds(t.handle)
      BY <1>4, <1>8 DEF Fits, Keeping, SftpInv, Table
    <2>2. Holds(t.handle)'
      BY <1>1, <2>1, Keeps DEF q, Holds
    <2>3. Table'
      BY <1>1, <1>8, <2>2 DEF Table
    <2> QED  BY <1>4, <2>3 DEF SftpInv
  <1>9. CASE pc \in {"dl_close", "dl_fail", "ls_close"}
    <2>1. q.op = "close" /\ q.handle = t.handle /\ Holds(t.handle)
      BY <1>1, <1>4, <1>9 DEF Fits, SftpInv, Table
    <2>2. Shut'
      BY <2>1, Closes DEF q
    <2>3. Table'
      BY <1>1, <1>5, <1>9, <2>2 DEF Table, Single
    <2> QED  BY <1>4, <2>3 DEF SftpInv
  <1>10. CASE pc = "ul_close"
    <2>1. q.op = Head(t.tail) /\ q.handle = t.handle /\ Holds(t.handle)
      BY <1>1, <1>4, <1>10 DEF Fits, SftpInv, Table
    <2>2. /\ t.tail \in Seq({"fsetstat", "fsync", "close"}) /\ t.tail # <<>>
          /\ \A i \in DOMAIN t.tail : t.tail[i] = "close" <=> i = Len(t.tail)
      BY <1>10 DEF SftpInv, Purpose
    <2>3. /\ Len(t.tail) = 1 => Head(t.tail) = "close"
          /\ Len(t.tail) # 1 => Head(t.tail) \in {"fsetstat", "fsync"}
      BY <2>2, TailHead
    <2>4. CASE Len(t.tail) = 1
      <3>1. Shut'
        BY <2>1, <2>3, <2>4, Closes DEF q
      <3>2. Table'
        BY <1>1, <1>5, <1>10, <2>4, <3>1 DEF Table, Single
      <3> QED  BY <1>4, <3>2 DEF SftpInv
    <2>5. CASE Len(t.tail) # 1
      <3>1. q.op \in Keeping
        BY <2>1, <2>3, <2>5 DEF Keeping
      <3>2. Holds(t.handle)'
        BY <1>1, <2>1, <3>1, Keeps DEF q, Holds
      <3>3. Table'
        BY <1>1, <1>10, <2>5, <3>2 DEF Table
      <3> QED  BY <1>4, <3>3 DEF SftpInv
    <2> QED  BY <2>4, <2>5
  <1> QED  BY <1>2, <1>6, <1>7, <1>8, <1>9, <1>10 DEF Single, Streaming

-----------------------------------------------------------------------------
(* The theorem.                                                            *)

\* It holds at the start.
LEMMA SftpInitInv ==
    ASSUME NEW files, SftpInit(files)
    PROVE  SftpInv
  <1>1. /\ handles = <<>> /\ unused = <<>> /\ requests = <<>> /\ replies = <<>> /\ pc = "idle" /\ msg_id = 1
        /\ t = NoTransfer
    BY DEF SftpInit, ServerInit
  <1>2. Fields \subseteq DOMAIN t /\ t.reqs = <<>> /\ t.max = 0
    BY <1>1, Fresh
  <1>3. Carries(<<>>, {}) /\ Ids(<<>>) = {}
    BY CarriesNone
  <1>4. Places
    <2>1. Carries(t.reqs, Ids(t.reqs))
      BY <1>2, <1>3, Zenon
    <2>2. t.max \in Int
      BY <1>2
    <2> QED  BY <1>1, <1>2, <2>1, <2>2 DEF Places, Quiet, Streaming
  <1>5. Flight
    BY <1>1, <1>2, <1>3 DEF Flight, Expected, Single
  <1>6. Numbers /\ Purpose /\ Asked /\ Table
    BY <1>1 DEF Numbers, Purpose, Asked, Table, Shut, Uploading
  <1> QED  BY <1>4, <1>5, <1>6 DEF SftpInv

\* Every step keeps it.
LEMMA SftpNextInv ==
    ASSUME SftpInv, [SftpNext]_sftpVars
    PROVE  SftpInv'
  <1>1. CASE UNCHANGED sftpVars
    BY <1>1 DEF sftpVars, serverVars, clientVars, SftpInv, Places, Numbers, Purpose, Flight, Expected, Asked,
                Fits, Table, Granted, Shut, Holds
  <1>2. CASE cmd_interrupt
    BY <1>2, InterruptInv
  <1>3. CASE Process /\ UNCHANGED clientVars
    BY <1>3, ProcessInv
  <1>4. CASE ClientStep
    BY <1>4, CommandInv, SimpleReplyInv, CommandEndsInv, GetNextInv, DownloadStatInv, DownloadOpenInv,
       DownloadReplyInv, DownloadEndInv, DownloadClosedInv, PutNextInv, UploadStatInv, UploadOpenInv,
       UploadSendInv, UploadAckInv, UploadTailInv, UploadClosedInv, ListOpenInv, ListReplyInv, ListClosedInv
       DEF ClientStep
  <1> QED  BY <1>1, <1>2, <1>3, <1>4 DEF SftpNext

\* It says what is wanted.
LEMMA SftpInvSound ==
    ASSUME SftpInv
    PROVE  SftpSound
  <1>1. NoStrayReply
    BY Known DEF NoStrayReply
  <1>2. ASSUME pc \in {"idle", "aborted"}
        PROVE  /\ \A h \in 1 .. Len(handles) : handles[h].use = "unused"
               /\ Len(unused) = Len(handles) /\ ToSet(unused) = 1 .. Len(handles)
    <2>1. Shut
      BY <1>2, Known
    <2>2. CASE handles = <<>> /\ unused = <<>>
      BY <2>2 DEF ToSet
    <2>3. CASE Len(handles) = 1 /\ handles[1].use = "unused" /\ unused = <<1>>
      <3>1. DOMAIN unused = {1} /\ unused[1] = 1 /\ Len(unused) = 1
        BY <2>3
      <3>2. ToSet(unused) = {1}
        BY <3>1 DEF ToSet
      <3> QED  BY <2>3, <3>1, <3>2
    <2> QED  BY <2>1, <2>2, <2>3 DEF Shut
  <1>3. HandlesReturned
    BY <1>2 DEF HandlesReturned
  <1> QED  BY <1>1, <1>3 DEF SftpSound

\* Whatever the commands, the file system, the order of the replies, short reads, failures and
\* interrupts: the client never meets a reply it did not ask for, and between commands
\* the server has every handle back.
THEOREM SftpSafe == SftpSpec => []SftpSound
  <1>1. (\E files \in FileSystems : SftpInit(files)) => SftpInv
    BY SftpInitInv
  <1>2. SftpInv /\ [SftpNext]_sftpVars => SftpInv'
    BY SftpNextInv
  <1>3. SftpInv => SftpSound
    BY SftpInvSound
  <1> QED  BY <1>1, <1>2, <1>3, PTL DEF SftpSpec
=============================================================================
