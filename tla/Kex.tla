-------------------------------- MODULE Kex --------------------------------
(***************************************************************************)
(* What a key exchange agrees on: the two ends choose algorithms from      *)
(* each other's proposals, run the method they chose, and derive the keys  *)
(* of both directions (kex.c, kexdh*.c, kexgex*.c, kexecdh*.c,             *)
(* kexc25519*.c, dh.c).  How the messages interleave with other traffic is *)
(* module Transport.  Public values, secrets and hashes are symbolic: a    *)
(* value is what it was computed from.  The client may be another          *)
(* implementation that guesses the method and sends its first message      *)
(* along with its proposal, or that asks for other group sizes.            *)
(***************************************************************************)
EXTENDS Integers, Sequences, FiniteSets

CONSTANTS
  ClientProposals, ServerProposals,   \* what either end may be configured with
  ClientRanges,      \* group sizes another client asks for: <<min, nbits, max>>
  ModuliFiles,       \* contents of the moduli file: sequences of lines
  TrustedHostKeys,   \* host keys the client accepts
  MaxExchanges       \* bound on the exchanges of a connection

VARIABLES
  kx,          \* per end: struct kex and the keys in use
  kexWire,     \* per end: the packets on their way to it
  kexConf      \* the connection's guess, group sizes, moduli file
kexVars == <<kx, kexWire, kexConf>>

KexEnds == {"client", "server"}
Far(e) == CHOOSE f \in KexEnds : f # e
Directions == {"ctos", "stoc"}
Nothing == <<>>

DH_GRP_MIN == 2048
DH_GRP_MAX == 8192
KEXINIT == 20
NEWKEYS == 21
KEXDH_INIT == 30      \* SSH2_MSG_KEX_ECDH_INIT too
KEXDH_REPLY == 31     \* SSH2_MSG_KEX_ECDH_REPLY and SSH2_MSG_KEX_DH_GEX_GROUP too
GEX_INIT == 32
GEX_REPLY == 33
GEX_REQUEST == 34

BiggerOf(a, b) == IF a > b THEN a ELSE b
SmallerOf(a, b) == IF a < b THEN a ELSE b

-----------------------------------------------------------------------------
(* The tables of algorithms, as far as the proposals use them. *)
kexalgs ==
  [dh14   |-> [type |-> "dh", hash |-> 256], dh18 |-> [type |-> "dh", hash |-> 512],
   gex    |-> [type |-> "gex", hash |-> 256], ecdh |-> [type |-> "ecdh", hash |-> 256],
   c25519 |-> [type |-> "c25519", hash |-> 256]]
ciphers ==
  [aes     |-> [block |-> 16, key |-> 16, iv |-> 0, auth |-> 0, flag |-> "", sec |-> 16],
   des3    |-> [block |-> 8, key |-> 24, iv |-> 0, auth |-> 0, flag |-> "", sec |-> 14],
   gcm     |-> [block |-> 16, key |-> 32, iv |-> 12, auth |-> 16, flag |-> "", sec |-> 32],
   chacha  |-> [block |-> 8, key |-> 64, iv |-> 0, auth |-> 16, flag |-> "CHACHAPOLY", sec |-> 64],
   im256   |-> [block |-> 256, key |-> 16, iv |-> 0, auth |-> 1, flag |-> "INTERMAC", sec |-> 16],
   im4096  |-> [block |-> 4096, key |-> 16, iv |-> 0, auth |-> 1, flag |-> "INTERMAC", sec |-> 16]]
cipher_ivlen(c) == IF c.iv # 0 \/ c.flag # "" THEN c.iv ELSE c.block
macs == [umac |-> 16, hmac |-> 64]      \* mac_setup: the length of the key
hostkeyalgs == [ed25519 |-> "ED25519", rsa2 |-> "RSA", rsa |-> "RSA"]   \* sshkey_type_from_name

-----------------------------------------------------------------------------
(* Lists of names (kex.c, match.c). *)
ListNames(list) == {list[i] : i \in DOMAIN list}
NoName == "none in common"
(* The client's first name that the server has as well *)
match_list(client, server) ==
  LET hit == {i \in DOMAIN client : client[i] \in ListNames(server)}
  IN  IF hit = {} THEN NoName ELSE client[CHOOSE i \in hit : \A j \in hit : i <= j]
kex_names_cat(a, b) ==
  LET add[i \in 0..Len(b)] == IF i = 0 THEN a
                              ELSE IF b[i] \in ListNames(add[i - 1]) THEN add[i - 1] ELSE Append(add[i - 1], b[i])
  IN  add[Len(b)]
match_filter_list(names, without) == SelectSeq(names, LAMBDA n : n \notin ListNames(without))
kex_names_valid(list) == list # <<>> /\ ListNames(list) \subseteq DOMAIN kexalgs
(* A KexAlgorithms line: [op |-> "" | "+" | "-", list]; none is <<>> *)
kex_assemble_names(def, conf) ==
  CASE conf.list = <<>> -> def
    [] conf.op = "+" -> kex_names_cat(def, conf.list)
    [] conf.op = "-" -> match_filter_list(def, conf.list)
    [] OTHER -> conf.list

-----------------------------------------------------------------------------
(* Choosing. *)
choose_enc(client, server) == match_list(client, server)
choose_mac(client, server) == match_list(client, server)
choose_comp(client, server) == match_list(client, server)
choose_kex(client, server) == match_list(client, server)
choose_hostkeyalg(client, server) == match_list(client, server)
(* One direction: an authenticating cipher needs no MAC. *)
ChooseMode(c, s, d) ==
  LET enc == choose_enc(c.enc[d], s.enc[d])
      mac == IF enc = NoName \/ ciphers[enc].auth # 0 THEN "implicit" ELSE choose_mac(c.mac[d], s.mac[d])
  IN  [enc |-> enc, mac |-> mac, comp |-> choose_comp(c.comp[d], s.comp[d])]
MacKeyLen(mode) == IF mode.mac = "implicit" THEN 0 ELSE macs[mode.mac]
ModeNeed(mode) ==
  LET c == ciphers[mode.enc]
  IN  BiggerOf(BiggerOf(c.key, c.block), BiggerOf(cipher_ivlen(c), MacKeyLen(mode)))
ModeDhNeed(mode) ==
  LET c == ciphers[mode.enc]
  IN  BiggerOf(BiggerOf(c.sec, c.block), BiggerOf(cipher_ivlen(c), MacKeyLen(mode)))
Over(f(_), modes) == BiggerOf(f(modes["ctos"]), f(modes["stoc"]))
(* Mutant: only the key exchange method is compared. *)
proposals_match_kex_only(my, peer) == my.kex[1] = peer.kex[1]
proposals_match(my, peer) == my.kex[1] = peer.kex[1] /\ my.hostkey[1] = peer.hostkey[1]
kex_choose_conf(server, my, peer) ==
  LET c     == IF server THEN peer ELSE my
      s     == IF server THEN my ELSE peer
      modes == [d \in Directions |-> ChooseMode(c, s, d)]
      alg   == choose_kex(c.kex, s.kex)
      hk    == choose_hostkeyalg(c.hostkey, s.hostkey)
      bad   == NoName \in {alg, hk} \cup UNION {{modes[d].enc, modes[d].mac, modes[d].comp} : d \in Directions}
  IN  IF bad THEN [ok |-> FALSE]
      ELSE [ok |-> TRUE, kex |-> alg, hostkey |-> hk, modes |-> modes,
            need |-> Over(ModeNeed, modes), dh_need |-> Over(ModeDhNeed, modes),
            skip |-> peer.follows /\ ~proposals_match(my, peer)]

-----------------------------------------------------------------------------
(* Groups.  A line of the moduli file has the fields of moduli(5) and the  *)
(* true length of its prime.                                               *)
Group(bits, id) == [bits |-> bits, id |-> id]
dh_new_group14 == Group(2048, "g14")
dh_new_group16 == Group(4096, "g16")
dh_new_group18 == Group(8192, "g18")
dh_new_group_fallback(max) ==
  IF max < 3072 THEN dh_new_group14 ELSE IF max < 6144 THEN dh_new_group16 ELSE dh_new_group18
dh_estimate(bits) ==
  IF bits <= 112 THEN 2048 ELSE IF bits <= 128 THEN 3072 ELSE IF bits <= 192 THEN 7680 ELSE 8192
parse_prime(l) == l.safe /\ l.tested /\ ~l.composite /\ l.tries > 0 /\ l.gen > 1 /\ l.bits = l.size + 1
InRange(l, min, max) == parse_prime(l) /\ l.size + 1 <= max /\ l.size + 1 >= min
(* The size choose_dh settles on, reading the lines once. *)
BestSize(file, min, wantbits, max) ==
  LET best[i \in 0..Len(file)] ==
        IF i = 0 THEN 0
        ELSE LET b == best[i - 1]
                 n == file[i].size + 1
             IN  IF InRange(file[i], min, max) /\ ((n > wantbits /\ n < b) \/ (n > b /\ b < wantbits)) THEN n ELSE b
  IN  best[Len(file)]
(* The groups it may return: any of the lines of that size.  A file that   *)
(* cannot be opened is <<>>.                                               *)
choose_dh(file, min, wantbits, max) ==
  LET best == BestSize(file, min, wantbits, max)
      hits == {i \in DOMAIN file : InRange(file[i], min, max) /\ file[i].size + 1 = best}
  IN  IF hits = {} THEN {dh_new_group_fallback(max)} ELSE {Group(file[i].bits, i) : i \in hits}
(* dh_gen_key: no key when the group is too small for what is needed *)
GroupSuffices(group, need) == 2 * need <= group.bits
FixedGroup(alg) == CASE alg = "dh14" -> dh_new_group14 [] alg = "dh18" -> dh_new_group18
                     [] OTHER -> Group(0, alg)      \* a curve

-----------------------------------------------------------------------------
(* Values. *)
Pub(e, n, group) == [by |-> e, n |-> n, group |-> group]
(* DH_compute_key, ECDH_compute_key, kexc25519_shared_key *)
SharedSecret(mine, theirs) ==
  IF mine.group = theirs.group THEN [group |-> mine.group, of |-> {<<mine.by, mine.n>>, <<theirs.by, theirs.n>>}]
  ELSE [group |-> mine.group, of |-> {<<mine.by, mine.n>>}]
ExchangeHash(alg, cinit, sinit, hostkey, cpub, spub, secret) ==
  [hash |-> kexalgs[alg].hash, c |-> cinit, s |-> sinit, key |-> hostkey, e |-> cpub, f |-> spub, k |-> secret]
kex_dh_hash(alg, x) == ExchangeHash(alg, x.cinit, x.sinit, x.key, x.cpub, x.spub, x.secret)
kex_ecdh_hash(alg, x) == ExchangeHash(alg, x.cinit, x.sinit, x.key, x.cpub, x.spub, x.secret)
kex_c25519_hash(alg, x) == ExchangeHash(alg, x.cinit, x.sinit, x.key, x.cpub, x.spub, x.secret)
kexgex_hash(alg, x, sizes, group) ==
  [hash |-> ExchangeHash(alg, x.cinit, x.sinit, x.key, x.cpub, x.spub, x.secret), sizes |-> sizes, group |-> group]
HashOf(st, x) ==
  LET alg == st.conf.kex
  IN  CASE kexalgs[alg].type = "dh" -> kex_dh_hash(alg, x)
        [] kexalgs[alg].type = "gex" -> kexgex_hash(alg, x, st.sizes, st.pub.group)
        [] kexalgs[alg].type = "ecdh" -> kex_ecdh_hash(alg, x)
        [] OTHER -> kex_c25519_hash(alg, x)
derive_key(id, need, hash, secret, sid) == [id |-> id, len |-> need, h |-> hash, k |-> secret, sid |-> sid]
(* kex_derive_keys: the keys of one direction *)
DirectionKeys(d, conf, hash, secret, sid) ==
  LET key(i) == derive_key(i, conf.need, hash, secret, sid)
  IN  [alg |-> conf.modes[d], iv |-> key(IF d = "ctos" THEN "A" ELSE "B"),
       key |-> key(IF d = "ctos" THEN "C" ELSE "D"), mac |-> key(IF d = "ctos" THEN "E" ELSE "F")]
OutDir(e) == IF e = "client" THEN "ctos" ELSE "stoc"

-----------------------------------------------------------------------------
(* The handlers: what becomes of an end and what it sends. *)
Did(st, out) == [st |-> st, out |-> out]
Aborts(st, why) == Did([st EXCEPT !.failed = why], <<>>)
Packet(t, body) == [t |-> t, body |-> body]
Proposal(e, st) == [st.my EXCEPT !.cookie = st.exchange]

kex_derive_keys(e, st, hash, secret) ==
  LET sid == IF st.sid = Nothing THEN hash ELSE st.sid
      dir(d) == DirectionKeys(d, st.conf, hash, secret, sid)
  IN  [st EXCEPT !.sid = sid, !.h = hash, !.pub = Nothing,
                 !.newkeys = [out |-> dir(OutDir(e)), in |-> dir(OutDir(Far(e)))]]
(* kex_send_newkeys: the dispatch table is reset, NEWKEYS is the last      *)
(* packet under the old keys                                               *)
NewKeysSent(e, st) == [st EXCEPT !.expect = {KEXINIT, NEWKEYS}]

kexdh_client(st, group) ==
  IF ~GroupSuffices(group, 8 * st.conf.need) THEN Aborts(st, "group")
  ELSE LET pub == Pub("client", st.gens, group)
       IN  Did([st EXCEPT !.gens = @ + 1, !.pub = pub, !.expect = @ \cup {KEXDH_REPLY}], <<Packet(KEXDH_INIT, pub)>>)
CurveInit(st) ==
  LET pub == Pub("client", st.gens, FixedGroup(st.conf.kex))
  IN  Did([st EXCEPT !.gens = @ + 1, !.pub = pub, !.expect = @ \cup {KEXDH_REPLY}], <<Packet(KEXDH_INIT, pub)>>)
kexecdh_client(st) == CurveInit(st)
kexc25519_client(st) == CurveInit(st)
kexgex_client(st) ==
  LET sizes == IF kexConf.range # Nothing THEN kexConf.range
               ELSE <<DH_GRP_MIN, dh_estimate(8 * st.conf.dh_need), DH_GRP_MAX>>
  IN  Did([st EXCEPT !.sizes = sizes, !.expect = @ \cup {KEXDH_REPLY}], <<Packet(GEX_REQUEST, sizes)>>)
StartsMethod(st) ==
  LET type == kexalgs[st.conf.kex].type
  IN  CASE type = "dh" -> kexdh_client(st, FixedGroup(st.conf.kex))
        [] type = "gex" -> kexgex_client(st)
        [] type = "ecdh" -> kexecdh_client(st)
        [] OTHER -> kexc25519_client(st)
kexdh_server(st) ==
  LET group == FixedGroup(st.conf.kex)
  IN  IF ~GroupSuffices(group, 8 * st.conf.need) THEN Aborts(st, "group")
      ELSE Did([st EXCEPT !.gens = @ + 1, !.pub = Pub("server", st.gens, group), !.expect = @ \cup {KEXDH_INIT}], <<>>)
kexecdh_server(st) == Did([st EXCEPT !.expect = @ \cup {KEXDH_INIT}], <<>>)
kexc25519_server(st) == Did([st EXCEPT !.expect = @ \cup {KEXDH_INIT}], <<>>)
kexgex_server(st) == Did([st EXCEPT !.expect = @ \cup {GEX_REQUEST}], <<>>)
AwaitsMethod(st) ==
  LET type == kexalgs[st.conf.kex].type
  IN  CASE type = "dh" -> kexdh_server(st) [] type = "gex" -> kexgex_server(st)
        [] type = "ecdh" -> kexecdh_server(st) [] OTHER -> kexc25519_server(st)

(* The first message another implementation sends ahead of the answer, for *)
(* the method its proposal has first (external).                           *)
GuessOf(st) == StartsMethod([st EXCEPT !.conf = [kex |-> st.my.kex[1], need |-> 0, dh_need |-> 16]])
(* RFC 4253, section 7: when it need not send it again (external) *)
GuessedRight(my, peer) == my.kex[1] = peer.kex[1] /\ my.hostkey[1] = peer.hostkey[1]
kex_send_kexinit(e, st) ==
  LET prop    == Proposal(e, st)
      guesses == e = "client" /\ prop.follows
      started == IF guesses THEN GuessOf(st) ELSE Did(st, <<>>)
  IN  Did([started.st EXCEPT !.sent = TRUE, !.done = FALSE], <<Packet(KEXINIT, prop)>> \o started.out)
kex_input_kexinit(e, st, peer) ==
  LET got   == [st EXCEPT !.peer = peer, !.expect = @ \ {KEXINIT}]
      own   == IF st.sent THEN Did(got, <<>>) ELSE kex_send_kexinit(e, [got EXCEPT !.exchange = @ + 1])
      conf  == kex_choose_conf(e = "server", own.st.my, peer)
      next  == [own.st EXCEPT !.conf = conf, !.skip = IF conf.skip THEN 1 ELSE @]
      right == e = "client" /\ own.st.my.follows /\ GuessedRight(own.st.my, peer)
      then  == CASE e = "server" -> AwaitsMethod(next)
                 [] right -> Did(next, <<>>)      \* its guess was right: the first message is under way
                 [] OTHER -> StartsMethod([next EXCEPT !.expect = @ \ {KEXDH_REPLY}])
  IN  IF ~conf.ok THEN Did([own.st EXCEPT !.failed = "no match"], own.out)
      ELSE Did(then.st, own.out \o then.out)

input_kex_dh_gex_request(st, sizes) ==
  LET min == BiggerOf(DH_GRP_MIN, sizes[1])
      max == SmallerOf(DH_GRP_MAX, sizes[3])
      nbits == SmallerOf(DH_GRP_MAX, BiggerOf(DH_GRP_MIN, sizes[2]))
      refused == sizes[3] < sizes[1] \/ sizes[2] < sizes[1] \/ sizes[3] < sizes[2] \/ sizes[3] < DH_GRP_MIN
      with(g) == IF ~GroupSuffices(g, 8 * st.conf.need) THEN Did([st EXCEPT !.failed = "group"], <<Packet(KEXDH_REPLY, g)>>)
                 ELSE Did([st EXCEPT !.gens = @ + 1, !.sizes = sizes, !.pub = Pub("server", st.gens, g),
                                           !.expect = @ \cup {GEX_INIT}],
                          <<Packet(KEXDH_REPLY, g)>>)
  IN  IF refused THEN {Aborts(st, "range")} ELSE {with(g) : g \in choose_dh(kexConf.moduli, min, nbits, max)}
input_kex_dh_gex_group(st, group) ==
  IF group.bits < st.sizes[1] \/ group.bits > st.sizes[3] THEN Aborts(st, "range")
  ELSE IF ~GroupSuffices(group, 8 * st.conf.need) THEN Aborts(st, "group")
  ELSE LET pub == Pub("client", st.gens, group)
       IN  Did([st EXCEPT !.gens = @ + 1, !.pub = pub, !.expect = (@ \ {KEXDH_REPLY}) \cup {GEX_REPLY}], <<Packet(GEX_INIT, pub)>>)

(* The host key of the agreed type signs the hash (sshd_hostkey_sign). *)
InitReceived(st, cpub, reply) ==
  LET type   == hostkeyalgs[st.conf.hostkey]
      secret == SharedSecret(st.pub, cpub)
      hash   == HashOf(st, [cinit |-> st.peer, sinit |-> Proposal("server", st), key |-> type, cpub |-> cpub, spub |-> st.pub, secret |-> secret])
      next   == kex_derive_keys("server", st, hash, secret)
  IN  Did(NewKeysSent("server", next),
          <<Packet(reply, [key |-> type, pub |-> st.pub, sig |-> [by |-> type, over |-> hash]]), Packet(NEWKEYS, Nothing)>>)
CurveKey(st) == [st EXCEPT !.gens = @ + 1, !.pub = Pub("server", st.gens, FixedGroup(st.conf.kex))]
input_kex_dh_init(st, cpub) == InitReceived(st, cpub, KEXDH_REPLY)
input_kex_dh_gex_init(st, cpub) == InitReceived(st, cpub, GEX_REPLY)
input_kex_ecdh_init(st, cpub) == InitReceived(CurveKey(st), cpub, KEXDH_REPLY)
input_kex_c25519_init(st, cpub) == InitReceived(CurveKey(st), cpub, KEXDH_REPLY)
ReplyReceived(st, m) ==
  LET secret == SharedSecret(st.pub, m.pub)
      hash   == HashOf(st, [cinit |-> Proposal("client", st), sinit |-> st.peer, key |-> m.key, cpub |-> st.pub, spub |-> m.pub, secret |-> secret])
  IN  CASE m.key # hostkeyalgs[st.conf.hostkey] -> Aborts(st, "type")
        [] m.key \notin TrustedHostKeys -> Aborts(st, "host key")
        [] m.sig # [by |-> m.key, over |-> hash] -> Aborts(st, "signature")
        [] OTHER -> Did(NewKeysSent("client", kex_derive_keys("client", st, hash, secret)), <<Packet(NEWKEYS, Nothing)>>)
input_kex_dh(st, m) == ReplyReceived(st, m)
input_kex_dh_gex_reply(st, m) == ReplyReceived(st, m)
input_kex_ecdh_reply(st, m) == ReplyReceived(st, m)
input_kex_c25519_reply(st, m) == ReplyReceived(st, m)
kex_input_newkeys(st) ==
  Did([st EXCEPT !.in = st.newkeys.in, !.done = TRUE, !.peer = Nothing, !.sent = FALSE, !.expect = @ \ {NEWKEYS}], <<>>)

HandlerOf(e, st, m) ==
  LET type == kexalgs[st.conf.kex].type
  IN  CASE m.t = KEXINIT -> {kex_input_kexinit(e, st, m.body)}
        [] m.t = NEWKEYS -> {kex_input_newkeys(st)}
        [] m.t = GEX_REQUEST -> input_kex_dh_gex_request(st, m.body)
        [] m.t = GEX_INIT -> {input_kex_dh_gex_init(st, m.body)}
        [] m.t = GEX_REPLY -> {input_kex_dh_gex_reply(st, m.body)}
        [] m.t = KEXDH_INIT -> {CASE type = "dh" -> input_kex_dh_init(st, m.body)
                                  [] type = "ecdh" -> input_kex_ecdh_init(st, m.body)
                                  [] OTHER -> input_kex_c25519_init(st, m.body)}
        [] OTHER -> {CASE type = "dh" -> input_kex_dh(st, m.body)
                       [] type = "gex" -> input_kex_dh_gex_group(st, m.body)
                       [] type = "ecdh" -> input_kex_ecdh_reply(st, m.body)
                       [] OTHER -> input_kex_c25519_reply(st, m.body)}

-----------------------------------------------------------------------------
(* Packets leave under the sender's keys; those after NEWKEYS, under the   *)
(* new ones (ssh_set_newkeys).                                             *)
Sealed(st, new, out) ==
  LET cut == {i \in DOMAIN out : out[i].t = NEWKEYS}
  IN  [i \in DOMAIN out |-> [p |-> out[i], under |-> IF \E j \in cut : j < i THEN new.newkeys.out ELSE st.out]]
KexSends(e, did) ==
  LET st  == did.st
      new == [st EXCEPT !.out = IF \E i \in DOMAIN did.out : did.out[i].t = NEWKEYS THEN st.newkeys.out ELSE @]
  IN  /\ kx' = [kx EXCEPT ![e] = new]
      /\ kexWire' = [f \in KexEnds |-> (IF f = Far(e) THEN kexWire[f] ELSE IF kexWire[f] = <<>> THEN <<>> ELSE Tail(kexWire[f]))
                                     \o (IF f = Far(e) THEN Sealed(kx[e], st, did.out) ELSE <<>>)]

(* kex_setup, kex_start_rekex: an end begins an exchange *)
KexStarts(e) ==
  /\ kx[e].done /\ kx[e].failed = "" /\ kx[e].exchange < MaxExchanges
  /\ LET did == kex_send_kexinit(e, [kx[e] EXCEPT !.exchange = @ + 1])
     IN  /\ kx' = [kx EXCEPT ![e] = did.st]
         /\ kexWire' = [kexWire EXCEPT ![Far(e)] = @ \o Sealed(kx[e], did.st, did.out)]
  /\ UNCHANGED kexConf
(* ssh_packet_read_poll, ssh_dispatch_run *)
KexReceives(e) ==
  /\ kexWire[e] # <<>> /\ kx[e].failed = ""
  /\ LET m  == Head(kexWire[e])
         st == kx[e]
     IN  CASE m.under # st.in -> KexSends(e, Aborts(st, "mac"))
           [] st.skip > 0 -> KexSends(e, Did([st EXCEPT !.skip = @ - 1], <<>>))
           [] m.p.t \notin st.expect -> KexSends(e, Did(st, <<>>))      \* kex_protocol_error
           [] OTHER -> \E did \in HandlerOf(e, st, m.p) : KexSends(e, did)
  /\ UNCHANGED kexConf

NewKex(my) ==
  [my |-> my, peer |-> Nothing, conf |-> [ok |-> FALSE], exchange |-> 0, gens |-> 0, sent |-> FALSE, done |-> TRUE, expect |-> {KEXINIT},
   skip |-> 0, pub |-> Nothing, sizes |-> Nothing, sid |-> Nothing, h |-> Nothing, newkeys |-> [in |-> Nothing, out |-> Nothing],
   in |-> Nothing, out |-> Nothing, failed |-> ""]
KexInit ==
  /\ kx \in {[e \in KexEnds |-> NewKex(IF e = "client" THEN c ELSE s)] : c \in ClientProposals, s \in ServerProposals}
  /\ kexWire = [e \in KexEnds |-> <<>>]
  /\ kexConf \in [range : ClientRanges \cup {Nothing}, moduli : ModuliFiles]
KexNext == \E e \in KexEnds : KexStarts(e) \/ KexReceives(e)

=============================================================================
