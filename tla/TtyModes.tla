------------------------------ MODULE TtyModes ------------------------------
(***************************************************************************)
(* Terminal modes between two systems that do not agree on which modes     *)
(* exist or how a disabled character is written (ttymodes.c): the client   *)
(* encodes its termios in the pty request, the server applies it to the    *)
(* pty.  Protocol 2.  An item of the encoding is an opcode and a 32 bit    *)
(* argument; TTY_OP_END has none.                                          *)
(***************************************************************************)
EXTENDS Integers, Sequences, SequencesExt, FiniteSets

CONSTANTS
  Systems,      \* system -> [ops: opcodes it has, speeds, vdisable]
  Terminals,    \* system -> the termios its terminal may have
  ModeStrings   \* encodings of other implementations, with the length they declare

VARIABLES
  ttySides,     \* [client, server]: systems
  ttyLocal,     \* the client's termios
  ttyPty,       \* the server's termios
  ttyOld,       \* the server's termios before the request
  ttySent       \* [items, len] of the last request

ttyVars == <<ttySides, ttyLocal, ttyPty, ttyOld, ttySent>>

TTY_OP_ISPEED == 128
TTY_OP_OSPEED == 129
TTY_OP_ISPEED_PROTO1 == 192     \* understood in protocol 2 as well
TTY_OP_OSPEED_PROTO1 == 193
CS7 == 90
CS8 == 91

(* Opcodes of the special characters and of the flags, ttymodes.h           *)
TtyChars == 1 .. 18
TtyFlags == (30 .. 42) \cup (50 .. 62) \cup (70 .. 75) \cup (90 .. 93)

(* The bits of CSIZE a character size flag stands for: CS7 is one of the    *)
(* two bits of CS8                                                          *)
CsBits(op) == IF op = CS7 THEN {2} ELSE {1, 2}

speed_to_baud(sys, speed) == IF speed \in sys.speeds THEN speed ELSE 9600
baud_to_speed(sys, baud)  == IF baud \in sys.speeds THEN baud ELSE 9600

special_char_encode(sys, c) == IF c = sys.vdisable THEN 255 ELSE c

\* Mutant: the client's value for "disabled" taken for a character.
special_char_decode_raw(sys, c) == c
special_char_decode(sys, c) == IF c = 255 THEN sys.vdisable ELSE c

FlagOf(tio, op) ==
  IF op \in {CS7, CS8} THEN IF tio.csize \cap CsBits(op) # {} THEN 1 ELSE 0
  ELSE IF op \in tio.flags THEN 1 ELSE 0

Item(op, arg) == [op |-> op, arg |-> arg]
Bytes(items) == 5 * Len(items) + 1     \* with TTY_OP_END

(* tio is none when the client has no terminal or cannot read its modes     *)
tty_make_modes(sys, tio) ==
  IF tio.none THEN <<>>
  ELSE LET ops == SelectSeq([op \in 1 .. 93 |-> op], LAMBDA op : op \in sys.ops)
       IN  <<Item(TTY_OP_OSPEED, speed_to_baud(sys, tio.ospeed)),
             Item(TTY_OP_ISPEED, speed_to_baud(sys, tio.ispeed))>>
           \o [i \in DOMAIN ops |->
                 Item(ops[i], IF ops[i] \in TtyChars THEN special_char_encode(sys, tio.cc[ops[i]])
                              ELSE FlagOf(tio, ops[i]))]

(* One opcode and its argument                                              *)
Applied(sys, tio, it) ==
  CASE it.op \in {TTY_OP_ISPEED, TTY_OP_ISPEED_PROTO1} -> [tio EXCEPT !.ispeed = baud_to_speed(sys, it.arg)]
    [] it.op \in {TTY_OP_OSPEED, TTY_OP_OSPEED_PROTO1} -> [tio EXCEPT !.ospeed = baud_to_speed(sys, it.arg)]
    [] it.op \in sys.ops \cap TtyChars -> [tio EXCEPT !.cc[it.op] = special_char_decode(sys, it.arg)]
    [] it.op \in sys.ops \cap {CS7, CS8} ->
         [tio EXCEPT !.csize = IF it.arg # 0 THEN @ \cup CsBits(it.op) ELSE @ \ CsBits(it.op)]
    [] it.op \in sys.ops \cap TtyFlags ->
         [tio EXCEPT !.flags = IF it.arg # 0 THEN @ \cup {it.op} ELSE @ \ {it.op}]
    [] OTHER -> tio

(* Up to the first opcode of unknown size, or the end; nothing is set when  *)
(* the length that was declared is not what was read                        *)
tty_parse_modes(sys, tio, sent) ==
  LET undef == {i \in DOMAIN sent.items : sent.items[i].op \in (160 .. 255) \ {TTY_OP_ISPEED_PROTO1, TTY_OP_OSPEED_PROTO1}}
      upto  == IF undef = {} THEN Len(sent.items)
               ELSE (CHOOSE i \in undef : \A j \in undef : i <= j) - 1
      read  == SubSeq(sent.items, 1, upto)
  IN  IF sent.len = 0 \/ sent.len # Bytes(read) \/ tio.none THEN tio
      ELSE FoldLeft(LAMBDA t, it : Applied(sys, t, it), tio, read)

TtyInit(Sides) ==
  /\ ttySides \in Sides
  /\ ttyLocal \in Terminals[ttySides.client]
  /\ ttyPty \in Terminals[ttySides.server] /\ ttyOld = ttyPty
  /\ ttySent = [items |-> <<>>, len |-> 0]

TtyRequest(sent) ==
  /\ ttySent' = sent /\ ttyOld' = ttyPty
  /\ ttyPty' = tty_parse_modes(Systems[ttySides.server], ttyPty, sent)
  /\ UNCHANGED <<ttySides, ttyLocal>>

PtyRequest ==
  LET items == tty_make_modes(Systems[ttySides.client], ttyLocal)
  IN  ttySent.len = 0 /\ TtyRequest([items |-> items, len |-> Bytes(items)])

(* Any other implementation of the protocol                                 *)
ForeignRequest == ttySent.len = 0 /\ \E sent \in ModeStrings : TtyRequest(sent)

TtyStep == PtyRequest \/ ForeignRequest

-----------------------------------------------------------------------------
(* A character of the client, as the server has it                          *)
SameChar(a, b, op) ==
  LET c == ttyLocal.cc[op]
  IN  IF c \in {a.vdisable, 255} THEN ttyPty.cc[op] = b.vdisable ELSE ttyPty.cc[op] = c

(* What both systems have arrives as it was, a disabled character as a      *)
(* disabled one whatever the two call it, and what only one of them has     *)
(* leaves the pty alone; CSIZE arrives when it is CS5 or CS8                *)
(* (tty_make_modes, tty_parse_modes).  A string whose length does not add   *)
(* up, because an opcode stopped the parser or a count is wrong, changes    *)
(* nothing.                                                                 *)
ModesArrive ==
  LET a == Systems[ttySides.client]  b == Systems[ttySides.server]
      own == ttySent.items = tty_make_modes(a, ttyLocal) /\ ttySent.len = Bytes(ttySent.items)
      both == a.ops \cap b.ops
  IN  /\ own /\ ~ttyLocal.none /\ ~ttyOld.none =>
           /\ \A op \in both \cap TtyChars : SameChar(a, b, op)
           /\ \A op \in (both \cap TtyFlags) \ {CS7, CS8} :
                op \in ttyPty.flags <=> op \in ttyLocal.flags
           /\ ttyLocal.csize \in {{}, {1, 2}} /\ {CS7, CS8} \subseteq both =>
                ttyPty.csize = ttyLocal.csize
           /\ ttyLocal.ospeed \in a.speeds \cap b.speeds => ttyPty.ospeed = ttyLocal.ospeed
           /\ \A op \in b.ops \ a.ops :
                /\ op \in TtyChars => ttyPty.cc[op] = ttyOld.cc[op]
                /\ op \in TtyFlags \ {CS7, CS8} => (op \in ttyPty.flags <=> op \in ttyOld.flags)
      /\ ttySent.len # 0 /\ ttySent.len % 5 # 1 => ttyPty = ttyOld
=============================================================================
