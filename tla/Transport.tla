------------------------------ MODULE Transport ------------------------------
(***************************************************************************)
(* The SSH 2 binary packet protocol and its key exchange between a client  *)
(* and a server: sending, queueing and reading of packets (packet.c), key  *)
(* exchange and re-exchange (kex.c, kexdh*.c, kexgex*.c), the dispatch     *)
(* table (dispatch.c) as the phases of a connection install it             *)
(* (sshconnect2.c, auth2.c, clientloop.c, serverloop.c), and the transfer  *)
(* of the server's packet state from the process that authenticated the    *)
(* user to the one that serves it (privilege separation).                  *)
(*                                                                         *)
(* TCP carries frames in order and without loss, so the wire is one FIFO   *)
(* queue per direction.  Cryptography is ideal: a frame opens exactly      *)
(* under the key and the sequence number it was sealed with, and a key is  *)
(* what it is derived from, the exchange hash and the session id.          *)
(***************************************************************************)
EXTENDS Integers, Sequences, FiniteSets

CONSTANTS
    SeqMod,        \* 2^32: sequence and packet numbers are u_int32_t
    MaxPackets,    \* MAX_PACKETS, 2^31
    CipherBlocks,  \* max_blocks by the block size of the cipher
    RekeyBlocks,   \* rekey_limit / block_size, 0 when no limit is set
    ImBlocks,      \* max_blocks for InterMAC: 1 << (im_block_size*2)
    BlockSize,     \* the length of a packet rounded up to whole blocks, in bytes
    InterMac,      \* an InterMAC cipher was negotiated
    Compress,      \* zlib@openssh.com was negotiated
    Gex,           \* the key exchange is a DH group exchange
    Privsep,       \* the server separates privileges
    Interval,      \* a rekey_interval is configured
    MaxData,       \* packets each side sends once logged in (bound)
    MaxManual      \* rekeys the user of the client asks for (bound)

Endpoint == {"client", "server"}
Peer(e) == IF e = "client" THEN "server" ELSE "client"
Mode == {"in", "out"}

ASSUME TransportAssumption ==
    /\ SeqMod \in Nat \ {0} /\ MaxPackets \in Nat /\ BlockSize \in Nat \ {0}
    /\ CipherBlocks \in Nat \ {0} /\ RekeyBlocks \in Nat /\ ImBlocks \in Nat
    /\ InterMac \in BOOLEAN /\ Compress \in BOOLEAN /\ Gex \in BOOLEAN
    /\ Privsep \in BOOLEAN /\ Interval \in BOOLEAN
    /\ MaxData \in Nat /\ MaxManual \in Nat

\* SSH2_MSG_*: the packets of the transport layer, of user authentication,
\* and DATA for any packet of the connection layer.
KexMethodTypes == {"GEX_REQUEST", "GEX_GROUP", "DH_INIT", "DH_REPLY"}
TransportTypes ==
    KexMethodTypes \cup {"KEXINIT", "NEWKEYS", "EXT_INFO", "SERVICE_REQUEST",
                         "SERVICE_ACCEPT", "UNIMPLEMENTED"}
Types == TransportTypes \cup {"AUTH_REQUEST", "AUTH_SUCCESS", "DATA"}
Handlers == {"null", "unimplemented", "fatal", "input"}

ssh_packet_type_is_kex(t) ==
    /\ t \in TransportTypes
    /\ t \notin {"SERVICE_REQUEST", "SERVICE_ACCEPT", "EXT_INFO"}

\* A KEXINIT is told from others by its random cookie (a number), and says
\* whether it offers ext-info-c.
KexInits == [n : Nat, ext : BOOLEAN]

\* The exchange hash covers the KEXINIT buffers of both sides.
Hashes == [c : Seq(KexInits), s : Seq(KexInits)]
NoHash == [c |-> <<>>, s |-> <<>>]
\* Keys are derived from the hash and the session id; NoKey is a NULL
\* struct newkeys, Blank one that was allocated and has no key yet.
Keys == [h : Hashes, sid : Hashes, set : BOOLEAN]
NoKey == [h |-> NoHash, sid |-> NoHash, set |-> FALSE]
Blank == [h |-> NoHash, sid |-> NoHash, set |-> TRUE]

\* What a packet says: n numbers the DATA packets, i is the offer of a KEXINIT
\* and h the hash that a DH_REPLY signs.
Packets == [t : Types, n : Nat, i : KexInits, h : Hashes]
NoInit == [n |-> 0, ext |-> FALSE]
Pkt(t) == [t |-> t, n |-> 0, i |-> NoInit, h |-> NoHash]
DataPkt(n) == [Pkt("DATA") EXCEPT !.n = n]

\* A packet on the wire: sealed under a key with a sequence number,
\* compressed or not.
Frames == [p : Packets, key : Keys, seq : 0 .. SeqMod - 1, z : BOOLEAN]

VARIABLES
    st,      \* struct session_state, struct kex and dispatch table of each side
    wire,    \* wire[e]: frames on their way to e, oldest first
    sent,    \* sent[e]: DATA packets e was asked to send
    rcvd,    \* rcvd[e]: the DATA packet handed to e last
    manual,  \* rekeys the user asked for
    down     \* why a side gave the connection up, "none" while it is up

vars == <<st, wire, sent, rcvd, manual, down>>

\* ssh_alloc_session_state: no keys, and rekeying is set until the first
\* NEWKEYS is sent.
NewState ==
    [phase |-> "start", rekeying |-> TRUE, done |-> FALSE, initSent |-> FALSE,
     my |-> NoInit, peer |-> <<>>, pend |-> [m \in Mode |-> NoKey],
     key |-> [m \in Mode |-> NoKey], seq |-> [m \in Mode |-> 0],
     pkt |-> [m \in Mode |-> 0], blk |-> [m \in Mode |-> 0],
     comp |-> [m \in Mode |-> FALSE], auth |-> FALSE, extInfo |-> FALSE,
     disp |-> [t \in Types |-> "null"], queue |-> <<>>, expired |-> FALSE,
     sid |-> NoHash, used |-> 0]

Phases == {"start", "kex", "auth", "authdone", "loop"}
States ==
    [phase : Phases, rekeying : BOOLEAN, done : BOOLEAN, initSent : BOOLEAN,
     my : KexInits, peer : Seq(KexInits), pend : [Mode -> Keys],
     key : [Mode -> Keys], seq : [Mode -> 0 .. SeqMod - 1],
     pkt : [Mode -> 0 .. SeqMod - 1], blk : [Mode -> Nat],
     comp : [Mode -> BOOLEAN], auth : BOOLEAN, extInfo : BOOLEAN,
     disp : [Types -> Handlers], queue : Seq(Packets), expired : BOOLEAN,
     sid : Hashes, used : Nat]

Reasons == {"none", "mac", "inflate", "need_rekey", "no_newkeys", "twice",
            "null_handler", "fatal", "signature"}

TypeOK ==
    /\ st \in [Endpoint -> States]
    /\ wire \in [Endpoint -> Seq(Frames)]
    /\ sent \in [Endpoint -> 0 .. MaxData] /\ rcvd \in [Endpoint -> Nat]
    /\ manual \in 0 .. MaxManual /\ down \in Reasons

----------------------------------------------------------------------------
(***************************************************************************)
(* A handler runs to its end without interleaving.  It is a function on    *)
(* its context k: the state s of the endpoint, the frames out that it      *)
(* appended to the output buffer, and the error that ended it.             *)
(***************************************************************************)
Ctx(s) == [s |-> s, out |-> <<>>, err |-> "none"]
Ok(k) == k.err = "none"
Fail(k, why) == [k EXCEPT !.err = why]
SetHandler(k, t, h) == [k EXCEPT !.s.disp[t] = h]

ssh_packet_is_rekeying(s) == s.rekeying \/ ~s.done

\* The limit ssh_set_newkeys computes for either direction.
max_blocks ==
    IF InterMac THEN ImBlocks
    ELSE IF RekeyBlocks # 0 /\ RekeyBlocks < CipherBlocks THEN RekeyBlocks
    ELSE CipherBlocks

\* Mutant: the packet to be sent is not counted.
ssh_packet_need_rekeying_late(s, out_blocks) ==
    /\ s.auth /\ ~ssh_packet_is_rekeying(s) /\ \E m \in Mode : s.pkt[m] # 0
    /\ max_blocks # 0 /\ \E m \in Mode : s.blk[m] > max_blocks

\* out_blocks is what the packet to be sent adds.
ssh_packet_need_rekeying(s, out_blocks) ==
    /\ s.auth
    /\ ~ssh_packet_is_rekeying(s)
    /\ \E m \in Mode : s.pkt[m] # 0
    /\ \/ s.expired
       \/ \E m \in Mode : s.pkt[m] > MaxPackets
       \/ max_blocks # 0 /\ s.blk["out"] + out_blocks > max_blocks
       \/ max_blocks # 0 /\ s.blk["in"] > max_blocks

\* The pending keys of a direction come into use.  Packets and blocks are
\* counted afresh, sequence numbers go on.
ssh_set_newkeys(k, m) ==
    LET s == [k.s EXCEPT !.pkt[m] = 0, !.blk[m] = 0]
    IN  IF s.pend[m] = NoKey
        THEN [k EXCEPT !.s = s, !.err = "no_newkeys"]
        ELSE [k EXCEPT !.s = [s EXCEPT !.key[m] = s.pend[m],
                                       !.pend[m] = NoKey,
                                       !.comp[m] = Compress /\ s.auth,
                                       !.used = IF m = "out" THEN 0 ELSE @]]

ssh_packet_enable_delayed_compress(s) ==
    [s EXCEPT !.auth = TRUE,
              !.comp = [m \in Mode |-> @[m] \/ (Compress /\ s.key[m] # NoKey)]]

\* Seal one packet and append it to the output buffer.
Frame(s, p) == [p |-> p, key |-> s.key["out"], seq |-> s.seq["out"],
                z |-> s.comp["out"]]
CountOut(s, i) ==
    [s EXCEPT !.seq["out"] = (@ + i) % SeqMod, !.pkt["out"] = (@ + i) % SeqMod,
              !.blk["out"] = @ + i, !.used = @ + i]
\* Mutant: the wrap of the packet counter goes unnoticed.
PacketsNeverWrap(s) == FALSE
PacketsWrapped(s) == s.pkt["out"] = 0

ssh_packet_send2_wrapped(e, k, p) ==
    LET s  == CountOut(k.s, 1)
        k1 == [k EXCEPT !.s = s, !.out = Append(@, Frame(k.s, p))]
    IN  IF ~Ok(k) THEN k
        ELSE IF PacketsWrapped(s) THEN Fail(k1, "need_rekey")
        ELSE CASE p.t = "NEWKEYS" -> ssh_set_newkeys(k1, "out")
               [] p.t = "AUTH_SUCCESS" /\ e = "server" ->
                     [k1 EXCEPT !.s = ssh_packet_enable_delayed_compress(s)]
               [] OTHER -> k1

\* Mutant: sending KEXINIT does not set rekeying.
kex_send_kexinit_not_rekeying(e, k) ==
    LET i  == [n |-> k.s.my.n + 1, ext |-> e = "client" /\ k.s.extInfo]
        k1 == ssh_packet_send2_wrapped(e,
                  [k EXCEPT !.s.done = FALSE, !.s.my = i],
                  [Pkt("KEXINIT") EXCEPT !.i = i])
    IN  IF ~Ok(k) \/ k.s.initSent THEN k
        ELSE [k1 EXCEPT !.s.initSent = Ok(k1)]

\* kex_send_kexinit, with the part of ssh_packet_send2 that a KEXINIT takes.
kex_send_kexinit(e, k) ==
    LET i  == [n |-> k.s.my.n + 1, ext |-> e = "client" /\ k.s.extInfo]
        k1 == ssh_packet_send2_wrapped(e,
                  [k EXCEPT !.s.done = FALSE, !.s.my = i, !.s.rekeying = TRUE],
                  [Pkt("KEXINIT") EXCEPT !.i = i])
    IN  IF ~Ok(k) \/ k.s.initSent THEN k
        ELSE [k1 EXCEPT !.s.initSent = Ok(k1)]

kex_start_rekex(e, k) ==
    IF ~Ok(k) THEN k
    ELSE IF ~k.s.done THEN Fail(k, "twice")
    ELSE kex_send_kexinit(e, [k EXCEPT !.s.done = FALSE])

\* After NEWKEYS was sent the queue is sent, up to a packet that triggers a
\* rekey or the packet that exhausts the packet counter.
FlushQueue(e, k) ==
    LET s == k.s
        Stops(i) == ssh_packet_need_rekeying(CountOut(s, i), BlockSize)
        Wraps(i) == i # 0 /\ PacketsWrapped(CountOut(s, i))
        n == CHOOSE n \in 0 .. Len(s.queue) :
                /\ \A i \in 0 .. n - 1 : ~Stops(i) /\ ~Wraps(i)
                /\ n = Len(s.queue) \/ Stops(n) \/ Wraps(n)
        k1 == [k EXCEPT
                !.s = [CountOut(s, n) EXCEPT
                         !.queue = SubSeq(s.queue, n + 1, Len(s.queue))],
                !.out = @ \o [i \in 1 .. n |->
                                Frame(CountOut(s, i - 1), s.queue[i])]]
    IN  IF Wraps(n) THEN Fail(k1, "need_rekey")
        ELSE IF n < Len(s.queue) THEN kex_start_rekex(e, k1)
        ELSE k1

\* Mutant: the packet is inserted at the head.
EnqueueHead(k, p) == [k EXCEPT !.s.queue = <<p>> \o @]
\* TAILQ_INSERT_TAIL
Enqueue(k, p) == [k EXCEPT !.s.queue = Append(@, p)]

ssh_packet_send2(e, k, p) ==
    LET need == /\ ~ssh_packet_type_is_kex(p.t)
                /\ ssh_packet_need_rekeying(k.s, BlockSize)
        wait == k.s.rekeying /\ ~ssh_packet_type_is_kex(p.t)
        k1 == ssh_packet_send2_wrapped(e, k, p)
    IN  IF ~Ok(k) THEN k
        ELSE IF need THEN kex_start_rekex(e, Enqueue(k, p))
        ELSE IF wait THEN Enqueue(k, p)
        ELSE IF p.t = "NEWKEYS" /\ Ok(k1)
             THEN FlushQueue(e, [k1 EXCEPT !.s.rekeying = FALSE,
                                           !.s.expired = FALSE])
             ELSE k1

----------------------------------------------------------------------------
(***************************************************************************)
(* Key exchange (kex.c and the methods).                                   *)
(***************************************************************************)
kex_protocol_error(e, k) == ssh_packet_send2(e, k, Pkt("UNIMPLEMENTED"))

kex_reset_dispatch(k) ==
    [k EXCEPT !.s.disp =
        [t \in Types |-> IF t = "KEXINIT" THEN "input"
                         ELSE IF t \in TransportTypes THEN "unimplemented"
                         ELSE @[t]]]

kex_send_ext_info(e, k) == ssh_packet_send2(e, k, Pkt("EXT_INFO"))

kex_send_newkeys(e, k) ==
    LET k1 == ssh_packet_send2(e, kex_reset_dispatch(k), Pkt("NEWKEYS"))
        k2 == SetHandler(k1, "NEWKEYS", "input")
    IN  IF ~Ok(k1) THEN k1
        ELSE IF e = "server" /\ k.s.extInfo
             THEN kex_send_ext_info(e, k2)
             ELSE k2

\* Both directions get a newkeys structure; the server remembers whether the
\* first KEXINIT in its peer buffer offers ext-info-c.
kex_choose_conf(e, k) ==
    IF ~Ok(k) THEN k
    ELSE [k EXCEPT !.s.pend = [m \in Mode |-> Blank],
                   !.s.extInfo = IF e = "server" THEN Head(k.s.peer).ext ELSE @]

\* What each side hashes: its own KEXINIT and all that it buffered of the peer's.
KexHash(e, s) == IF e = "client" THEN [c |-> <<s.my>>, s |-> s.peer]
                                 ELSE [c |-> s.peer, s |-> <<s.my>>]

kex_derive_keys(k, h) ==
    [k EXCEPT !.s.pend =
        [m \in Mode |-> [h |-> h, sid |-> k.s.sid, set |-> TRUE]]]

\* The session id is the hash of the first exchange.
SaveSessionId(k, h) == [k EXCEPT !.s.sid = IF @ = NoHash THEN h ELSE @]

\* The first message of the method: kexdh_client, kexgex_client, or the
\* handler that waits for it, kexdh_server, kexgex_server.
StartMethod(e, k) ==
    LET first == IF Gex THEN "GEX_REQUEST" ELSE "DH_INIT"
        reply == IF Gex THEN "GEX_GROUP" ELSE "DH_REPLY"
    IN  IF ~Ok(k) THEN k
        ELSE IF e = "client"
             THEN SetHandler(ssh_packet_send2(e, k, Pkt(first)), reply, "input")
             ELSE SetHandler(k, first, "input")

kex_input_kexinit(e, k, p) ==
    LET k1 == [SetHandler(k, "KEXINIT", "null") EXCEPT
                 !.s.peer = Append(@, p.i)]
    IN  StartMethod(e, kex_choose_conf(e, kex_send_kexinit(e, k1)))

input_kex_dh_gex_request(e, k) ==
    SetHandler(ssh_packet_send2(e, k, Pkt("GEX_GROUP")), "DH_INIT", "input")

input_kex_dh_gex_group(e, k) ==
    SetHandler(SetHandler(ssh_packet_send2(e, k, Pkt("DH_INIT")),
                          "GEX_GROUP", "null"), "DH_REPLY", "input")

input_kex_dh_init(e, k) ==
    LET h  == KexHash(e, k.s)
        k1 == ssh_packet_send2(e, SaveSessionId(k, h),
                               [Pkt("DH_REPLY") EXCEPT !.h = h])
    IN  IF Ok(k1) THEN kex_send_newkeys(e, kex_derive_keys(k1, h)) ELSE k1

input_kex_dh(e, k, p) ==
    LET h == KexHash(e, k.s)
    IN  IF p.h # h THEN Fail(k, "signature")
        ELSE kex_send_newkeys(e, kex_derive_keys(SaveSessionId(k, h), h))

\* Mutant: only the first exchange is marked as done.
kex_input_newkeys_first_only(k) ==
    LET k1 == ssh_set_newkeys(SetHandler(k, "NEWKEYS", "unimplemented"), "in")
    IN  IF ~Ok(k1) THEN k1
        ELSE [k1 EXCEPT !.s.done = k.s.phase = "kex", !.s.peer = <<>>,
                        !.s.initSent = FALSE]

kex_input_newkeys(k) ==
    LET k1 == ssh_set_newkeys(SetHandler(k, "NEWKEYS", "unimplemented"), "in")
    IN  IF ~Ok(k1) THEN k1
        ELSE [k1 EXCEPT !.s.done = TRUE, !.s.peer = <<>>, !.s.initSent = FALSE]

kex_input_ext_info(k) == SetHandler(k, "EXT_INFO", "unimplemented")

----------------------------------------------------------------------------
(***************************************************************************)
(* User authentication and the connection layer, as far as they change the *)
(* packet state.                                                           *)
(***************************************************************************)
input_service_request(e, k) ==
    ssh_packet_send2(e, SetHandler(k, "AUTH_REQUEST", "input"),
                     Pkt("SERVICE_ACCEPT"))

input_userauth_service_accept(e, k) ==
    SetHandler(SetHandler(ssh_packet_send2(e, k, Pkt("AUTH_REQUEST")),
                          "EXT_INFO", "fatal"), "AUTH_SUCCESS", "input")

\* The request succeeds; authctxt->success ends the dispatch loop.
input_userauth_request(e, k) ==
    ssh_packet_send2(e, [k EXCEPT !.s.phase = "authdone"], Pkt("AUTH_SUCCESS"))

input_userauth_success(k) == [k EXCEPT !.s.phase = "authdone"]

\* The table of handlers, for a packet whose type has one of its own.
Input(e, k, p) ==
    CASE p.t = "KEXINIT"         -> kex_input_kexinit(e, k, p)
      [] p.t = "GEX_REQUEST"     -> input_kex_dh_gex_request(e, k)
      [] p.t = "GEX_GROUP"       -> input_kex_dh_gex_group(e, k)
      [] p.t = "DH_INIT"         -> input_kex_dh_init(e, k)
      [] p.t = "DH_REPLY"        -> input_kex_dh(e, k, p)
      [] p.t = "NEWKEYS"         -> kex_input_newkeys(k)
      [] p.t = "EXT_INFO"        -> kex_input_ext_info(k)
      [] p.t = "SERVICE_REQUEST" -> input_service_request(e, k)
      [] p.t = "SERVICE_ACCEPT"  -> input_userauth_service_accept(e, k)
      [] p.t = "AUTH_REQUEST"    -> input_userauth_request(e, k)
      [] p.t = "AUTH_SUCCESS"    -> input_userauth_success(k)
      [] OTHER                   -> k

\* ssh_dispatch_run, for one packet that ssh_packet_read_poll_seqnr returns;
\* the latter swallows UNIMPLEMENTED.
ssh_dispatch(e, k, p) ==
    IF ~Ok(k) \/ p.t = "UNIMPLEMENTED" THEN k
    ELSE CASE k.s.disp[p.t] = "null"          -> Fail(k, "null_handler")
           [] k.s.disp[p.t] = "fatal"         -> Fail(k, "fatal")
           [] k.s.disp[p.t] = "unimplemented" -> kex_protocol_error(e, k)
           [] k.s.disp[p.t] = "input"         -> Input(e, k, p)

\* Open the frame f, count it, and start a rekey if one is due.  InterMAC
\* counts the blocks it receives as blocks sent.
CountIn(s) ==
    LET m == IF InterMac THEN "out" ELSE "in"
    IN  [s EXCEPT !.seq["in"] = (@ + 1) % SeqMod,
                  !.pkt["in"] = (@ + 1) % SeqMod, !.blk[m] = @ + 1]

ssh_packet_read_poll2(e, s, f) ==
    LET s1 == CountIn(s)
        s2 == IF f.p.t = "AUTH_SUCCESS" /\ e = "client"
              THEN ssh_packet_enable_delayed_compress(s1) ELSE s1
    IN  IF f.key # s.key["in"] \/ f.seq # s.seq["in"] THEN Fail(Ctx(s), "mac")
        ELSE IF s1.pkt["in"] = 0 THEN Fail(Ctx(s1), "need_rekey")
        ELSE IF f.z # s.comp["in"] THEN Fail(Ctx(s1), "inflate")
        ELSE IF ssh_packet_need_rekeying(s2, 0)
             THEN kex_start_rekex(e, Ctx(s2))
             ELSE Ctx(s2)

\* The end of a handler at e: state, output buffer and error take effect.
Apply(e, k, w) ==
    /\ st' = [st EXCEPT ![e] = k.s]
    /\ wire' = [w EXCEPT ![Peer(e)] = @ \o k.out]
    /\ down' = k.err

----------------------------------------------------------------------------
(***************************************************************************)
(* The steps of the two programs.                                          *)
(***************************************************************************)
Init ==
    /\ st = [e \in Endpoint |-> [NewState EXCEPT !.extInfo = (e = "client")]]
    /\ wire = [e \in Endpoint |-> <<>>]
    /\ sent = [e \in Endpoint |-> 0] /\ rcvd = [e \in Endpoint |-> 0]
    /\ manual = 0 /\ down = "none"

\* kex_setup and the methods' callbacks: ssh_kex2, do_ssh2_kex.
CanSetup(e) == down = "none" /\ st[e].phase = "start"
kex_setup(e) ==
    /\ CanSetup(e)
    /\ Apply(e, kex_send_kexinit(e, kex_reset_dispatch(
                    Ctx([st[e] EXCEPT !.phase = "kex"]))), wire)
    /\ UNCHANGED <<sent, rcvd, manual>>

\* The dispatch loop of the phase is running and a packet has arrived.
CanRead(e) ==
    /\ down = "none" /\ wire[e] # <<>>
    /\ \/ st[e].phase = "kex" /\ ~st[e].done
       \/ st[e].phase \in {"auth", "loop"}

\* The dispatch loop of the first key exchange, or of authentication, is over.
KexOver(e) == down = "none" /\ st[e].phase = "kex" /\ st[e].done
AuthOver(e) == down = "none" /\ st[e].phase = "authdone"

\* One packet: read, decrypted and dispatched.
Read(e) ==
    LET f == Head(wire[e])
        k == ssh_packet_read_poll2(e, st[e], f)
        handed == /\ Ok(k) /\ f.p.t = "DATA"
                  /\ k.s.disp["DATA"] = "input"
    IN  /\ CanRead(e)
        /\ Apply(e, ssh_dispatch(e, k, f.p), [wire EXCEPT ![e] = Tail(@)])
        /\ rcvd' = [rcvd EXCEPT ![e] = IF handed THEN f.p.n ELSE @]
        /\ UNCHANGED <<sent, manual>>

\* The client after its first key exchange: ext-info-c leaves the proposal for
\* rekeying, and authentication starts.
ssh_userauth2 ==
    LET s == st["client"]
        k == ssh_packet_send2("client", Ctx([s EXCEPT !.extInfo = FALSE]),
                              Pkt("SERVICE_REQUEST"))
        d == [[t \in Types |-> "fatal"] EXCEPT !["EXT_INFO"] = "input",
                                               !["SERVICE_ACCEPT"] = "input"]
    IN  /\ KexOver("client")
        /\ Apply("client", [k EXCEPT !.s.phase = "auth", !.s.disp = d], wire)
        /\ UNCHANGED <<sent, rcvd, manual>>

do_authentication2 ==
    LET s == st["server"]
        d == [[t \in Types |-> "unimplemented"] EXCEPT
                !["SERVICE_REQUEST"] = "input"]
    IN  /\ KexOver("server")
        /\ Apply("server", Ctx([s EXCEPT !.phase = "auth", !.disp = d]), wire)
        /\ UNCHANGED <<sent, rcvd, manual>>

\* client_init_dispatch_20, server_init_dispatch.
LoopDispatch ==
    [[t \in Types |-> "unimplemented"] EXCEPT !["KEXINIT"] = "input",
                                              !["DATA"] = "input"]

client_loop ==
    LET s == st["client"]
    IN  /\ AuthOver("client")
        /\ Apply("client", Ctx([s EXCEPT !.phase = "loop",
                                         !.disp = LoopDispatch]), wire)
        /\ UNCHANGED <<sent, rcvd, manual>>

\* The state of the process that authenticated the user, as it is passed to
\* the one that serves it.  The queue of outgoing packets is not part of it.
kex_to_blob(s) == [sid |-> s.sid, my |-> s.my, peer |-> s.peer,
                   initSent |-> s.initSent]
ssh_packet_get_state(s) ==
    [kex |-> kex_to_blob(s), key |-> s.key, seq |-> s.seq, pkt |-> s.pkt,
     blk |-> s.blk]

kex_from_blob(s, b) ==
    [s EXCEPT !.sid = b.sid, !.my = b.my, !.peer = b.peer,
              !.initSent = b.initSent, !.done = TRUE]

ssh_packet_set_postauth(s) ==
    ssh_packet_enable_delayed_compress([s EXCEPT !.auth = TRUE,
                                                 !.rekeying = FALSE])

\* The state is restored over a new one: the counters are read first, then
\* reset when the keys are installed as if they were new.
ssh_packet_set_state(b) ==
    LET s == [kex_from_blob(NewState, b.kex) EXCEPT
                !.pend = b.key, !.seq = b.seq, !.pkt = b.pkt, !.blk = b.blk]
        k == ssh_set_newkeys(ssh_set_newkeys(Ctx(s), "in"), "out")
    IN  [k EXCEPT !.s = ssh_packet_set_postauth(k.s)]

\* The state of the server's main loop.  used counts the packets under the key
\* whichever process sends them.
privsep_postauth(s) ==
    LET k == ssh_packet_set_state(ssh_packet_get_state(s))
    IN  IF Privsep THEN [k EXCEPT !.s.used = s.used] ELSE Ctx(s)

server_loop2 ==
    LET k == privsep_postauth(st["server"])
    IN  /\ AuthOver("server")
        /\ Apply("server", [k EXCEPT !.s.phase = "loop",
                                     !.s.disp = LoopDispatch], wire)
        /\ UNCHANGED <<sent, rcvd, manual>>

\* The connection layer sends a packet.  Channels are served only while no
\* key exchange is under way, but handlers of received packets, exit
\* statuses of children and keepalives send at any time.
SendData(e) ==
    /\ down = "none" /\ st[e].phase = "loop" /\ sent[e] < MaxData
    /\ sent' = [sent EXCEPT ![e] = @ + 1]
    /\ Apply(e, ssh_packet_send2(e, Ctx(st[e]), DataPkt(sent[e] + 1)), wire)
    /\ UNCHANGED <<rcvd, manual>>

\* The escape ~R of the client: its loop starts a rekey unless one is under way.
ManualRekey ==
    LET s == st["client"]
    IN  /\ down = "none" /\ s.phase = "loop" /\ manual < MaxManual
        /\ ~ssh_packet_is_rekeying(s)
        /\ Apply("client", kex_start_rekex("client", Ctx(s)), wire)
        /\ manual' = manual + 1
        /\ UNCHANGED <<sent, rcvd>>

\* rekey_time + rekey_interval passes.
IntervalPasses(e) ==
    /\ Interval /\ down = "none" /\ st[e].phase # "start" /\ ~st[e].expired
    /\ st' = [st EXCEPT ![e].expired = TRUE]
    /\ UNCHANGED <<wire, sent, rcvd, manual, down>>

Next ==
    \/ \E e \in Endpoint : kex_setup(e) \/ Read(e) \/ SendData(e)
                           \/ IntervalPasses(e)
    \/ ssh_userauth2 \/ do_authentication2 \/ client_loop \/ server_loop2
    \/ ManualRekey

Spec == Init /\ [][Next]_vars

----------------------------------------------------------------------------
\* Between a KEXINIT and the NEWKEYS that follows it a side sends nothing but
\* packets of the key exchange, whoever wants to send what and whichever process
\* holds the connection ("During rekeying we can only send key exchange
\* messages.", ssh_packet_send2).
RekeySound ==
    \A e \in Endpoint : \A i, j \in DOMAIN wire[e] :
        i < j /\ wire[e][i].p.t = "KEXINIT" =>
            \/ ssh_packet_type_is_kex(wire[e][j].p.t)
            \/ \E l \in i + 1 .. j - 1 : wire[e][l].p.t = "NEWKEYS"

\* No sequence number is used twice under one key, although the numbers wrap
\* around, packets may be sent without limit until the peer's NEWKEYS comes, and
\* the transfer of the state to the user's process resets the packet counter
\* (ssh_packet_send2_wrapped, ssh_set_newkeys, ssh_packet_set_state).
NoNonceReuse == \A e \in Endpoint : st[e].used <= SeqMod

\* Outside a key exchange a side puts a packet on the wire only while the blocks
\* sent under the key stay within the configured RekeyLimit; one packet per
\* key is allowed in any case (ssh_packet_need_rekeying).
LimitHonoured ==
    [][\A e \in Endpoint :
          (/\ RekeyBlocks # 0 /\ st[e].auth /\ ~ssh_packet_is_rekeying(st[e])
           /\ sent'[e] # sent[e] /\ ~ssh_packet_is_rekeying(st'[e]))
          => st'[e].blk["out"] <= RekeyBlocks \/ st'[e].blk["out"] = 1]_vars

\* The numbers of the DATA packets on their way to e: those its peer was asked to
\* send and that were not handed to it.
InFlight(e) == [i \in 1 .. sent[Peer(e)] - rcvd[e] |-> rcvd[e] + i]

Stream == INSTANCE PacketStream WITH inflight <- [e \in Endpoint |-> InFlight(e)]

\* Each of them is on the wire or waits in the peer's queue.
NothingLost ==
    down = "none" =>
      \A e \in Endpoint : \A m \in rcvd[e] + 1 .. sent[Peer(e)] :
         \/ \E i \in DOMAIN wire[e] : wire[e][i].p.t = "DATA" /\ wire[e][i].p.n = m
         \/ \E i \in DOMAIN st[Peer(e)].queue :
               st[Peer(e)].queue[i].t = "DATA" /\ st[Peer(e)].queue[i].n = m

\* The transport implements the stream that the connection layer relies on: a
\* rekey that one side, both sides or the clock starts at any point neither
\* loses, duplicates nor reorders a packet (ssh_packet_send2, the queue of
\* outgoing packets).
ImplementsStream == Stream!Spec /\ []NothingLost
=============================================================================
