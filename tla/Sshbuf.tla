------------------------------- MODULE Sshbuf -------------------------------
(***************************************************************************)
(* The buffers every packet, key and message is put together in (sshbuf.c, *)
(* sshbuf-getput-basic.c).  A buffer is a block of bytes of which the part *)
(* from off to size is its content; a child shows a part of its parent's   *)
(* block and keeps the parent alive, which cannot be written to meanwhile. *)
(* The abstract side, sbQueue, is the queue of bytes a buffer stands for.  *)
(* The length in front of a string takes one byte here.                    *)
(***************************************************************************)
EXTENDS Integers, Sequences, FiniteSets

CONSTANTS
  SSHBUF_SIZE_MAX, SSHBUF_SIZE_INIT, SSHBUF_SIZE_INC, SSHBUF_PACK_MIN,   \* scaled down
  Buffers,        \* the buffers of a program: 1..n
  MaxSizes,       \* sizes given to sshbuf_set_max_size
  MaxBufferOps    \* bound on the number of calls

VARIABLES
  bufs,      \* struct sshbuf and its block, or NoBuf
  sbQueue,   \* the content each buffer stands for
  sbAnswer,  \* whether the last call succeeded and whether it should have
  sbOps
sbVars == <<bufs, sbQueue, sbAnswer, sbOps>>

NoBuf == [refs |-> 0]
Unused == -1      \* a byte nobody has written
Alive(b) == bufs[b].refs > 0
sshbuf_check_sanity(x) == x.max <= SSHBUF_SIZE_MAX /\ x.alloc <= x.max /\ x.size <= x.alloc /\ x.off <= x.size
(* The program holds the buffer: it has not called sshbuf_free on it.  Any *)
(* call with a buffer that fails the check ends the program.               *)
Held(b) == Alive(b) /\ bufs[b].held /\ sshbuf_check_sanity(bufs[b])
Roundup(n, by) == ((n + by - 1) \div by) * by
Fits(d, n) == [i \in 1..n |-> IF i <= Len(d) THEN d[i] ELSE Unused]     \* realloc
LesserOf(a, b) == IF a < b THEN a ELSE b

sshbuf_new == [refs |-> 1, held |-> TRUE, alloc |-> SSHBUF_SIZE_INIT, size |-> 0, off |-> 0, max |-> SSHBUF_SIZE_MAX,
               ro |-> FALSE, parent |-> 0, base |-> 0, root |-> 0, d |-> Fits(<<>>, SSHBUF_SIZE_INIT)]
sshbuf_from(root, base, len) ==
  [refs |-> 1, held |-> TRUE, alloc |-> len, size |-> len, off |-> 0, max |-> len,
   ro |-> TRUE, parent |-> 0, base |-> base, root |-> root, d |-> <<>>]

(* What is in a buffer: the part of its own block, or of the block it was  *)
(* made to show, wherever that block is by now.                            *)
BlockOf(x) == IF x.ro THEN (IF bufs[x.root].refs > 0 THEN bufs[x.root].d ELSE <<>>) ELSE x.d
sshbuf_ptr(x) == BlockOf(x)
sshbuf_len(x) == x.size - x.off
Content(x) == [i \in 1..sshbuf_len(x) |->
                 IF x.base + x.off + i <= Len(sshbuf_ptr(x)) THEN sshbuf_ptr(x)[x.base + x.off + i] ELSE Unused]
Writable(x) == ~x.ro /\ x.refs = 1

-----------------------------------------------------------------------------
(* Making room. *)
Pack(x) == [x EXCEPT !.d = Fits(SubSeq(x.d, x.off + 1, x.size), x.alloc), !.size = x.size - x.off, !.off = 0]
sshbuf_maybe_pack(x, force) ==
  IF x.off = 0 \/ ~Writable(x) THEN x
  ELSE IF force \/ (x.off >= SSHBUF_PACK_MIN /\ x.off >= x.size \div 2) THEN Pack(x) ELSE x
sshbuf_check_reserve(x, len) == Writable(x) /\ len <= x.max /\ x.max - len >= x.size - x.off
(* Mutant: packed only when the block is full, not when the limit is near. *)
sshbuf_allocate_unpacked(x, len, memory) ==
  LET rlen == Roundup(len + x.size, SSHBUF_SIZE_INC)
      want == IF rlen > x.max THEN len + x.size ELSE rlen
  IN  IF ~sshbuf_check_reserve(x, len) THEN [ok |-> FALSE, x |-> x]
      ELSE IF len + x.size <= x.alloc THEN [ok |-> TRUE, x |-> x]
      ELSE IF ~memory THEN [ok |-> FALSE, x |-> x] ELSE [ok |-> TRUE, x |-> [x EXCEPT !.alloc = want, !.d = Fits(@, want)]]
sshbuf_allocate(x, len, memory) ==
  LET p    == sshbuf_maybe_pack(x, x.size + len > x.max)
      need == len + p.size - p.alloc
      rlen == Roundup(p.alloc + need, SSHBUF_SIZE_INC)
      want == IF rlen > p.max THEN p.alloc + need ELSE rlen
  IN  IF ~sshbuf_check_reserve(x, len) THEN [ok |-> FALSE, x |-> x]
      ELSE IF len + p.size <= p.alloc THEN [ok |-> TRUE, x |-> p]
      ELSE IF ~memory THEN [ok |-> FALSE, x |-> p]
      ELSE [ok |-> TRUE, x |-> [p EXCEPT !.alloc = want, !.d = Fits(@, want)]]
(* sshbuf_reserve, and what the caller writes there *)
sshbuf_reserve(x, bytes, memory) ==
  LET a == sshbuf_allocate(x, Len(bytes), memory)
      n == a.x.size
  IN  IF ~a.ok THEN a
      ELSE [ok |-> TRUE,
            x |-> [a.x EXCEPT !.size = n + Len(bytes),
                              !.d = [i \in DOMAIN @ |-> IF i > n /\ i <= n + Len(bytes) THEN bytes[i - n] ELSE @[i]]]]
sshbuf_consume(x, len) == IF len <= sshbuf_len(x) THEN [ok |-> TRUE, x |-> [x EXCEPT !.off = @ + len]] ELSE [ok |-> FALSE, x |-> x]
sshbuf_consume_end(x, len) == IF len <= sshbuf_len(x) THEN [ok |-> TRUE, x |-> [x EXCEPT !.size = @ - len]] ELSE [ok |-> FALSE, x |-> x]
sshbuf_reset(x, memory) ==
  IF ~Writable(x) THEN [x EXCEPT !.off = x.size]
  ELSE IF x.alloc # SSHBUF_SIZE_INIT /\ memory
  THEN [x EXCEPT !.off = 0, !.size = 0, !.alloc = SSHBUF_SIZE_INIT, !.d = Fits(<<>>, SSHBUF_SIZE_INIT)]
  ELSE [x EXCEPT !.off = 0, !.size = 0, !.d = Fits(<<>>, x.alloc)]
sshbuf_set_max_size(x, max, memory) ==
  LET p    == sshbuf_maybe_pack(x, max < x.size)
      rlen == LesserOf(max, IF p.size < SSHBUF_SIZE_INIT THEN SSHBUF_SIZE_INIT ELSE Roundup(p.size, SSHBUF_SIZE_INC))
      cut  == max < p.alloc /\ max > p.size
      q    == IF cut /\ memory THEN [p EXCEPT !.alloc = rlen, !.d = Fits(@, rlen)] ELSE p
  IN  CASE max = x.max -> [ok |-> TRUE, x |-> x]
        [] ~Writable(x) \/ max > SSHBUF_SIZE_MAX -> [ok |-> FALSE, x |-> x]
        [] OTHER -> IF (cut /\ ~memory) \/ max < q.alloc THEN [ok |-> FALSE, x |-> q] ELSE [ok |-> TRUE, x |-> [q EXCEPT !.max = max]]
(* sshbuf_peek_string_direct: the length of a whole string in front *)
NoString == -1
sshbuf_peek_string_direct(x) ==
  LET c == Content(x)
  IN  IF c = <<>> THEN NoString
      ELSE IF c[1] > SSHBUF_SIZE_MAX - 1 \/ Len(c) - 1 < c[1] THEN NoString ELSE c[1]

-----------------------------------------------------------------------------
(* The calls of a program.  should is what the queues say of the call.     *)
Answers(ok, should) == sbAnswer' = [ok |-> ok, should |-> should] /\ sbOps < MaxBufferOps /\ sbOps' = sbOps + 1
Room(b, n) == Writable(bufs[b]) /\ Len(sbQueue[b]) + n <= bufs[b].max
String(bytes) == <<Len(bytes)>> \o bytes
(* Freeing the child of a child drops the hold of the child on the buffer  *)
(* at the root (sshbuf.c:183).  The callers that have children of children *)
(* keep that buffer, and leave it alone, until all of them are gone.       *)
Showing(b) == {c \in Buffers : Alive(c) /\ bufs[c].root = b}
Steady(b) == \A c \in Showing(b) : bufs[c].parent # 0
MayNest(b) == bufs[b].ro => Held(bufs[b].root)
Stored(b, bytes, memory) ==
  LET r == sshbuf_reserve(bufs[b], bytes, memory)
  IN  /\ Steady(b)
      /\ bufs' = [bufs EXCEPT ![b] = r.x]
      /\ sbQueue' = IF r.ok THEN [sbQueue EXCEPT ![b] = @ \o bytes] ELSE sbQueue
      /\ Answers(r.ok, Room(b, Len(bytes)) /\ (memory \/ r.ok))

(* The place of a new buffer: the first that no other refers to. *)
FreshPlace(b) ==
  LET free == {x \in Buffers : ~Alive(x) /\ \A c \in Buffers : Alive(c) => bufs[c].root # x}
  IN  b \in free /\ \A x \in free : b <= x
BufferNew(b) ==
  /\ FreshPlace(b)
  /\ bufs' = [bufs EXCEPT ![b] = sshbuf_new] /\ sbQueue' = [sbQueue EXCEPT ![b] = <<>>]
  /\ Answers(TRUE, TRUE)
sshbuf_put(b, bytes, memory) == Held(b) /\ Stored(b, bytes, memory)
(* and sshbuf_put_u16, _u32, _u64: a number in as many bytes as it takes *)
sshbuf_put_u8(b, n, memory) == Held(b) /\ Stored(b, <<n>>, memory)
sshbuf_put_string(b, bytes, memory) == Held(b) /\ Stored(b, String(bytes), memory)
sshbuf_putb(b, v, memory) == Held(b) /\ Held(v) /\ b # v /\ Stored(b, Content(bufs[v]), memory)
sshbuf_put_stringb(b, v, memory) == Held(b) /\ Held(v) /\ b # v /\ Stored(b, String(Content(bufs[v])), memory)
Taken(b, r, n, back) ==
  /\ bufs' = [bufs EXCEPT ![b] = r.x]
  /\ sbQueue' = IF ~r.ok THEN sbQueue
                ELSE [sbQueue EXCEPT ![b] = IF back THEN SubSeq(@, 1, Len(@) - n) ELSE SubSeq(@, n + 1, Len(@))]
  /\ Answers(r.ok, n <= Len(sbQueue[b]))
(* sshbuf_get and sshbuf_get_u8, _u16, _u32, _u64 *)
sshbuf_get(b, n) == Held(b) /\ Taken(b, sshbuf_consume(bufs[b], n), n, FALSE)
BufferConsumeEnd(b, n) == Held(b) /\ Taken(b, sshbuf_consume_end(bufs[b], n), n, TRUE)
(* A string in front of the queue, by its own length. *)
QueueString(q) == q # <<>> /\ q[1] <= SSHBUF_SIZE_MAX - 1 /\ q[1] <= Len(q) - 1
(* sshbuf_get_string_direct, sshbuf_get_string *)
sshbuf_get_string(b) ==
  LET len == sshbuf_peek_string_direct(bufs[b])
      r   == IF len = NoString THEN [ok |-> FALSE, x |-> bufs[b]] ELSE sshbuf_consume(bufs[b], len + 1)
  IN  /\ Held(b)
      /\ bufs' = [bufs EXCEPT ![b] = r.x]
      /\ sbQueue' = IF r.ok THEN [sbQueue EXCEPT ![b] = SubSeq(@, @[1] + 2, Len(@))] ELSE sbQueue
      /\ Answers(r.ok, QueueString(sbQueue[b]))
(* sshbuf_get_cstring: a zero byte may only be the last *)
sshbuf_get_cstring(b) ==
  LET len == sshbuf_peek_string_direct(bufs[b])
      c   == Content(bufs[b])
      ok  == len # NoString /\ \A i \in 1..(len - 1) : c[i + 1] # 0
  IN  /\ Held(b)
      /\ bufs' = IF ok THEN [bufs EXCEPT ![b] = sshbuf_consume(@, len + 1).x] ELSE bufs
      /\ sbQueue' = IF ok THEN [sbQueue EXCEPT ![b] = SubSeq(@, @[1] + 2, Len(@))] ELSE sbQueue
      /\ Answers(ok, QueueString(sbQueue[b]) /\ \A i \in 2..sbQueue[b][1] : sbQueue[b][i] # 0)
(* The length is consumed before the room is made in v; a failure leaves   *)
(* the string's bytes in front.                                            *)
sshbuf_get_stringb(b, v, memory) ==
  LET len == sshbuf_peek_string_direct(bufs[b])
      str == SubSeq(Content(bufs[b]), 2, len + 1)
      r   == sshbuf_reserve(bufs[v], str, memory)
      cut(q, n) == SubSeq(q, n + 1, Len(q))
  IN  /\ Held(b) /\ Held(v) /\ b # v /\ Steady(v)
      /\ IF len = NoString THEN UNCHANGED <<bufs, sbQueue>> /\ Answers(FALSE, QueueString(sbQueue[b]))
         ELSE /\ bufs' = [bufs EXCEPT ![v] = r.x, ![b] = sshbuf_consume(@, IF r.ok THEN len + 1 ELSE 1).x]
              /\ sbQueue' = IF r.ok THEN [sbQueue EXCEPT ![v] = @ \o SubSeq(sbQueue[b], 2, len + 1), ![b] = cut(@, len + 1)]
                            ELSE [sbQueue EXCEPT ![b] = cut(@, 1)]
              /\ Answers(r.ok, QueueString(sbQueue[b]) /\ Room(v, sbQueue[b][1]) /\ (memory \/ r.ok))
BufferReset(b, memory) ==
  /\ Held(b) /\ Steady(b)
  /\ bufs' = [bufs EXCEPT ![b] = sshbuf_reset(@, memory)] /\ sbQueue' = [sbQueue EXCEPT ![b] = <<>>]
  /\ Answers(TRUE, TRUE)
(* A limit is set when the content fits in it, but the block is cut to it  *)
(* only when it is longer than the content, and longer than the content    *)
(* with what was consumed in front of it unless that is packed away first. *)
LimitAllowed(b, max) == max = bufs[b].max \/ (Writable(bufs[b]) /\ max \in Len(sbQueue[b])..SSHBUF_SIZE_MAX)
LimitTight(b, max) == max < bufs[b].alloc /\ max \in {Len(sbQueue[b]), bufs[b].size}
BufferSetMax(b, max, memory) ==
  LET r == sshbuf_set_max_size(bufs[b], max, memory)
  IN  /\ Held(b) /\ Steady(b) /\ bufs' = [bufs EXCEPT ![b] = r.x] /\ UNCHANGED sbQueue
      /\ Answers(r.ok, LimitAllowed(b, max) /\ ((memory /\ ~LimitTight(b, max)) \/ r.ok))
(* sshbuf_set_parent: a child of b at c *)
RootOf(b) == IF bufs[b].ro THEN bufs[b].root ELSE b
WithChild(b, c, child) == [bufs EXCEPT ![c] = [child EXCEPT !.parent = b], ![b].refs = @ + 1]
sshbuf_fromb(b, c) ==
  /\ Held(b) /\ MayNest(b) /\ FreshPlace(c)
  /\ bufs' = WithChild(b, c, sshbuf_from(RootOf(b), bufs[b].base + bufs[b].off, sshbuf_len(bufs[b])))
  /\ sbQueue' = [sbQueue EXCEPT ![c] = sbQueue[b]]
  /\ Answers(TRUE, TRUE)
sshbuf_froms(b, c) ==
  LET len == sshbuf_peek_string_direct(bufs[b])
      child == sshbuf_from(RootOf(b), bufs[b].base + bufs[b].off + 1, len)
  IN  /\ Held(b) /\ MayNest(b) /\ FreshPlace(c)
      /\ IF len = NoString THEN UNCHANGED <<bufs, sbQueue>> /\ Answers(FALSE, QueueString(sbQueue[b]))
         ELSE /\ bufs' = [WithChild(b, c, child) EXCEPT ![b].off = @ + len + 1]
              /\ sbQueue' = [sbQueue EXCEPT ![c] = SubSeq(sbQueue[b], 2, len + 1), ![b] = SubSeq(@, len + 2, Len(@))]
              /\ Answers(TRUE, QueueString(sbQueue[b]))
(* sshbuf_free: a child frees its parent first, the last reference frees.  *)
(* FreeOf(f, b) is f after the call.                                       *)
RECURSIVE FreeOf(_, _)
FreeOf(f, b) ==
  IF b = 0 THEN f
  ELSE LET g == FreeOf(f, IF f[b].refs > 0 THEN f[b].parent ELSE 0)
       IN  [g EXCEPT ![b] = IF @.refs = 1 THEN NoBuf ELSE [@ EXCEPT !.refs = @ - 1, !.parent = 0]]
sshbuf_free(b) ==
  /\ Held(b) /\ \A c \in Showing(b) : bufs[c].parent = b /\ bufs[c].refs = 1
  /\ LET f == FreeOf(bufs, b) IN bufs' = [f EXCEPT ![b] = IF @.refs > 0 THEN [@ EXCEPT !.held = FALSE] ELSE @]
  /\ sbQueue' = [sbQueue EXCEPT ![b] = <<>>]
  /\ Answers(TRUE, TRUE)

SbInit == /\ bufs = [b \in Buffers |-> NoBuf] /\ sbQueue = [b \in Buffers |-> <<>>]
          /\ sbAnswer = [ok |-> TRUE, should |-> TRUE] /\ sbOps = 0
=============================================================================
