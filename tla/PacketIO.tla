------------------------------ MODULE PacketIO ------------------------------
(***************************************************************************)
(* Packets as bytes (packet.c): one side pads, compresses and protects     *)
(* packets and writes them in pieces; the other reads pieces of any size   *)
(* and takes the packets out of its input buffer.  One module for the ways *)
(* a packet can be protected: nothing, a cipher with a MAC over the plain  *)
(* text ("cbc", "ctr"), a MAC over the cipher text ("etm"), authenticated  *)
(* encryption ("aead"), InterMAC chunks ("im"), and the packets of a       *)
(* multiplexing proxy ("mux").  The network may change a byte.             *)
(*                                                                         *)
(* A byte is the pair of its packet's number and its place in the packet,  *)
(* the place negative once the byte has been changed: a MAC fits exactly   *)
(* the bytes of the packet that is due.  The sizes are scaled down, their  *)
(* relations are those of the code.                                        *)
(***************************************************************************)
EXTENDS Integers, Sequences, SequencesExt, FiniteSets

CONSTANTS
  PioModes,        \* the kinds of protection to look at
  PioPackets,      \* the sequences of packets to send: records [type, size]
  LenField,        \* bytes of the packet length (4)
  Block,           \* the cipher's block size
  MinPad,          \* the least padding (4)
  MacLen,          \* bytes of a MAC or an authentication tag
  Chunk,           \* bytes of an InterMAC chunk
  PACKET_MAX_SIZE,
  MaxPiece,        \* the most bytes one read() or write() moves
  MaxChanges       \* bytes the network changes

VARIABLES pioMode, tx, rx, net
pioVars == <<pioMode, tx, rx, net>>

Ciphers == {"cbc", "ctr", "etm", "aead"}
Aadlen == IF pioMode \in {"etm", "aead"} THEN LenField ELSE 0
TagLen == IF pioMode \in Ciphers THEN MacLen ELSE 0

-----------------------------------------------------------------------------
\* Sending.

\* The padding: up to a multiple of the block size, at least MinPad, and on request
\* (extra_pad) up to a multiple of something larger.
PadLen(len, extra) ==
  LET rest == Block - (len % Block)
      pad == IF rest < MinPad THEN rest + Block ELSE rest
      wide == ((extra + Block - 1) \div Block) * Block
  IN IF extra = 0 THEN pad ELSE pad + wide - ((len + pad) % wide)

ImLength(size) == ((size + Chunk - 1) \div Chunk) * Chunk
\* All bytes of a packet with a payload of the given size.
WireLength(size, extra) ==
  LET len == LenField + 1 + size
  IN IF pioMode = "im" THEN ImLength(size)
     ELSE IF pioMode = "mux" THEN len
     ELSE len + PadLen(len - Aadlen, extra) + TagLen

BytesOf(i, n) == [j \in 1..n |-> <<i, j>>]

\* The streams of zlib, as how many packets have gone through them, counted from 1: 0
\* is a stream that has not started.  A packet is inflated by a stream that is where
\* the other one was when it was deflated.
compress_buffer(z) == IF z = 0 THEN 0 ELSE z + 1
uncompress_buffer(z, p) == z = p.squeezed
\* Compression starts with the success of the authentication.
Started(z, p) == IF p.type = "success" /\ pioMode # "mux" /\ z = 0 THEN 1 ELSE z

\* Only the messages of the connection protocol pass a multiplexing proxy.
Passes(p) == pioMode # "mux" \/ p.type = "data"

ssh_packet_send2_wrapped ==
  /\ tx.todo # <<>>
  /\ LET p == Head(tx.todo)
         n == Len(tx.sent) + 1
         len == WireLength(p.size, p.extra)
     IN tx' = [tx EXCEPT !.todo = Tail(@),
                         !.sent = IF Passes(p) THEN Append(@, [type |-> p.type, len |-> len, squeezed |-> tx.squeeze]) ELSE @,
                         !.output = IF Passes(p) THEN @ \o BytesOf(n, len) ELSE @,
                         !.squeeze = Started(IF Passes(p) THEN compress_buffer(@) ELSE @, p)]
  /\ UNCHANGED <<pioMode, rx, net>>

ssh_packet_write_poll ==
  /\ tx.output # <<>>
  /\ \E n \in 1..MaxPiece :
        /\ n <= Len(tx.output)
        /\ net' = [net EXCEPT !.wire = @ \o SubSeq(tx.output, 1, n)]
        /\ tx' = [tx EXCEPT !.output = SubSeq(@, n + 1, Len(@))]
  /\ UNCHANGED <<pioMode, rx>>

\* ssh_packet_write_wait(): the writer waits until all is written, then closes.
SenderEnds == /\ tx.todo = <<>> /\ tx.output = <<>> /\ ~net.closed
              /\ net' = [net EXCEPT !.closed = TRUE]
              /\ UNCHANGED <<pioMode, tx, rx>>

NetChange == /\ net.changes < MaxChanges /\ pioMode \in Ciphers \union {"im"} /\ net.wire # <<>>
             /\ \E k \in DOMAIN net.wire :
                  net' = [net EXCEPT !.wire = [@ EXCEPT ![k] = <<@[1], -@[2]>>], !.changes = @ + 1,
                                     !.bad = net.wire[k][1]]
             /\ UNCHANGED <<pioMode, tx, rx>>

-----------------------------------------------------------------------------
\* Receiving.

PacketFails(r, why) == [r EXCEPT !.err = why]

\* What a corrupt packet is answered with: at once, or for CBC when as much as a
\* packet of the largest size has come.
ssh_packet_stop_discard(r) == PacketFails(r, "mac")
\* Mutant: a corrupt packet is answered at once whatever the cipher.
ssh_packet_start_discard_now(r, discard) == PacketFails(r, "mac")
ssh_packet_start_discard(r, discard) ==
  IF pioMode # "cbc" THEN PacketFails(r, "mac")
  ELSE IF Len(r.input) >= discard THEN ssh_packet_stop_discard(r)
  ELSE [r EXCEPT !.discard = discard - Len(r.input), !.idle = TRUE]

ssh_packet_process_incoming(r, bytes) ==
  IF r.discard = 0 THEN [r EXCEPT !.input = @ \o bytes]
  ELSE IF Len(bytes) >= r.discard THEN ssh_packet_stop_discard(r)
  ELSE [r EXCEPT !.discard = @ - Len(bytes)]

\* The bytes of the packet that is due, all of them unchanged.
Due == tx.sent[rx.seqnr]
Genuine(bytes) == rx.seqnr <= Len(tx.sent) /\ bytes = BytesOf(rx.seqnr, Due.len)

\* The length in the first bytes of the packet that is due, or anything if they are
\* not (all of) what was sent.
Lengths(bytes) == IF rx.seqnr <= Len(tx.sent) /\ bytes = BytesOf(rx.seqnr, Len(bytes))
                  THEN {Due.len - TagLen - LenField} ELSE 0..(PACKET_MAX_SIZE + 1)
BadLength(n) == n < 1 + MinPad \/ n > PACKET_MAX_SIZE

Wait(r) == [r EXCEPT !.idle = TRUE]

\* A whole packet: the padding and the length are taken off, it is decompressed, and
\* given to the caller or dealt with here (IGNORE, DEBUG, UNIMPLEMENTED, DISCONNECT).
Deliver(r) ==
  LET p == tx.sent[r.seqnr]
      taken == [r EXCEPT !.packlen = 0, !.incoming = <<>>, !.seqnr = @ + 1, !.imDone = 0,
                        !.squeeze = Started(compress_buffer(@), p)]
  IN IF ~uncompress_buffer(r.squeeze, p) THEN PacketFails(r, "inflate")
     ELSE IF p.type = "disconnect" THEN PacketFails(taken, "disconnected")
     ELSE IF p.type = "ignore" THEN taken
     ELSE [taken EXCEPT !.got = Append(@, r.seqnr)]

\* Modes with the length in the clear or decrypted by itself.
PollAad(r, len) ==
  LET packlen == IF r.packlen = 0 THEN len ELSE r.packlen
      all == Aadlen + packlen + TagLen
      took == [r EXCEPT !.input = SubSeq(@, all + 1, Len(@))]
  IN IF r.packlen = 0 /\ Len(r.input) < LenField THEN Wait(r)
     ELSE IF r.packlen = 0 /\ BadLength(packlen) THEN PacketFails(r, "corrupt")
     ELSE IF packlen % Block # 0 THEN ssh_packet_start_discard([r EXCEPT !.packlen = packlen], PACKET_MAX_SIZE - Block)
     ELSE IF Len(r.input) < all THEN Wait([r EXCEPT !.packlen = packlen])
     ELSE IF ~Genuine(SubSeq(r.input, 1, all)) THEN PacketFails(r, "mac")
     ELSE Deliver(took)

\* Modes in which the length is in the first block.
PollBlock(r, len) ==
  LET first == r.packlen = 0
      packlen == IF first THEN len ELSE r.packlen
      need == (LenField + packlen - Block) % (256 * Block)
      after == IF first THEN [r EXCEPT !.incoming = SubSeq(r.input, 1, Block), !.packlen = packlen,
                                       !.input = SubSeq(@, Block + 1, Len(@))] ELSE r
      text == after.incoming \o SubSeq(after.input, 1, need)
      took == [after EXCEPT !.incoming = text, !.input = SubSeq(@, need + 1, Len(@))]
      done == [took EXCEPT !.input = SubSeq(@, TagLen + 1, Len(@))]
  IN IF first /\ Len(r.input) < Block THEN Wait(r)
     ELSE IF first /\ BadLength(packlen) THEN ssh_packet_start_discard(r, PACKET_MAX_SIZE)
     ELSE IF need % Block # 0 THEN ssh_packet_start_discard(after, PACKET_MAX_SIZE - Block)
     ELSE IF Len(after.input) < need + TagLen THEN Wait(after)
     ELSE IF TagLen > 0 /\ ~Genuine(text \o SubSeq(took.input, 1, TagLen))
          THEN ssh_packet_start_discard(took, PACKET_MAX_SIZE - need)
     ELSE Deliver(done)

\* InterMAC: im_decrypt() opens the whole chunks it has not seen, remembers how far it
\* is, and gives a message when its last chunk is open.
PollIntermac(r) ==
  LET seen == r.imDone
      last == Due.len
      whole == IF rx.seqnr > Len(tx.sent) THEN 0
               ELSE LET k == (Len(r.input) \div Chunk) * Chunk IN IF k > last THEN last ELSE k
      good == SubSeq(r.input, 1, whole) = BytesOf(rx.seqnr, whole)
      packlen == r.packlen + (whole - seen)
  IN IF whole = 0 \/ whole = seen THEN Wait(r)
     ELSE IF ~good THEN PacketFails(r, "mac")
     ELSE IF whole < last THEN Wait([r EXCEPT !.imDone = whole, !.packlen = packlen])
     ELSE Deliver([r EXCEPT !.input = SubSeq(@, packlen + 1, Len(@))])

ssh_packet_read_poll2_mux(r, len) ==
  LET packlen == IF r.packlen = 0 THEN len ELSE r.packlen
      need == LenField + packlen
  IN IF r.packlen = 0 /\ Len(r.input) < LenField + 1 THEN Wait(r)
     ELSE IF r.packlen = 0 /\ BadLength(packlen) THEN PacketFails(r, "corrupt")
     ELSE IF Len(r.input) < need THEN Wait([r EXCEPT !.packlen = packlen])
     ELSE Deliver([r EXCEPT !.input = SubSeq(@, need + 1, Len(@))])

LengthBytes == IF pioMode \in {"cbc", "ctr", "none"} THEN Block ELSE LenField
\* ssh_packet_read_poll_seqnr(), one packet of its loop.
ssh_packet_read_poll2 ==
  /\ ~rx.idle /\ rx.err = "none"
  /\ IF rx.discard > 0 THEN rx' = Wait(rx)
     ELSE IF pioMode = "im" THEN rx' = PollIntermac(rx)
     ELSE IF Len(rx.input) < LengthBytes /\ rx.packlen = 0 THEN rx' = Wait(rx)
     ELSE \E len \in IF rx.packlen = 0 THEN Lengths(SubSeq(rx.input, 1, LengthBytes)) ELSE {0} :
             rx' = IF pioMode = "mux" THEN ssh_packet_read_poll2_mux(rx, len)
                   ELSE IF Aadlen > 0 THEN PollAad(rx, len) ELSE PollBlock(rx, len)
  /\ UNCHANGED <<pioMode, tx, net>>

\* ssh_packet_read_seqnr(): nothing to take out, so wait for bytes.
ReadBytes ==
  /\ rx.idle /\ rx.err = "none" /\ net.wire # <<>>
  /\ \E n \in 1..MaxPiece :
        /\ n <= Len(net.wire)
        /\ rx' = ssh_packet_process_incoming([rx EXCEPT !.idle = FALSE, !.taken = @ + n], SubSeq(net.wire, 1, n))
        /\ net' = [net EXCEPT !.wire = SubSeq(@, n + 1, Len(@))]
  /\ UNCHANGED <<pioMode, tx>>

\* The end of the connection, or no byte for the time of packet_timeout_ms.
ReadFails ==
  /\ rx.idle /\ rx.err = "none" /\ net.wire = <<>>
  /\ rx' = PacketFails(rx, IF net.closed THEN "closed" ELSE "timeout")
  /\ UNCHANGED <<pioMode, tx, net>>

-----------------------------------------------------------------------------
PioInit == /\ pioMode \in PioModes
           /\ tx \in {[todo |-> ps, sent |-> <<>>, output |-> <<>>, squeeze |-> 0] : ps \in PioPackets}
           /\ rx = [input |-> <<>>, packlen |-> 0, incoming |-> <<>>, seqnr |-> 1, discard |-> 0, imDone |-> 0,
                    got |-> <<>>, squeeze |-> 0, idle |-> FALSE, err |-> "none", taken |-> 0]
           /\ net = [wire |-> <<>>, closed |-> FALSE, changes |-> 0, bad |-> 0]

PioNext == \/ ssh_packet_send2_wrapped \/ ssh_packet_write_poll \/ SenderEnds \/ NetChange
           \/ ssh_packet_read_poll2 \/ ReadBytes \/ ReadFails

-----------------------------------------------------------------------------
\* Where packet i starts in the stream, and where it ends.
Offset(i) == LET sum[k \in Nat] == IF k = 0 THEN 0 ELSE sum[k - 1] + tx.sent[k].len IN sum[i]
ForCaller(i) == tx.sent[i].type \notin {"ignore", "disconnect"}

\* Whatever the pieces the bytes are written and read in, and however the packets are
\* protected, the reader gets the packets it was sent, each once and in order: all
\* whose last byte has come, by the time it waits for more.  Once a byte was changed
\* on the way, neither that packet nor any later one is taken for genuine; with a CBC
\* cipher the reader does not show it has noticed before it has read as much as a
\* packet of the largest size.
PacketsWhole ==
  /\ rx.got = SelectSeq([i \in 1..(rx.seqnr - 1) |-> i], ForCaller)
  /\ rx.err # "inflate"
  /\ net.changes = 0 => rx.err \in {"none", "closed", "timeout", "disconnected"}
  /\ net.changes = 0 /\ rx.idle /\ rx.err = "none" =>
       \A i \in 1..Len(tx.sent) : Offset(i) <= rx.taken => i < rx.seqnr
  /\ net.bad > 0 => rx.seqnr <= net.bad
  /\ pioMode = "cbc" /\ rx.err = "mac" => rx.taken - Offset(net.bad - 1) >= PACKET_MAX_SIZE
=============================================================================
