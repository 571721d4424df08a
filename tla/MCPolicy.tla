----------------------------- MODULE MCPolicy -----------------------------
(***************************************************************************)
(* Instances for TLC of the parts that keep keys in files, agree on keys   *)
(* and turn files into decisions, one scenario each.                       *)
(***************************************************************************)
EXTENDS Krl, KeyFiles, Access, Kex, Sshbuf, PacketIO, KeyScan,
        ClientConfig, ServerConfig, KnownHosts

VARIABLE scenario
-----------------------------------------------------------------------------
(* Revocation lists. *)
Cert(key, ca, serial, id) == [key |-> key, ca |-> ca, serial |-> serial, id |-> id]
Serials(lo, hi) == [kind |-> "serial", lo |-> lo, hi |-> hi]
KeyLine(kind, key) == [kind |-> kind, key |-> key]
MCSerialLines == {Serials(1, 1), Serials(2, 3), Serials(5, 7), Serials(4, 200), Serials(150, 151), Serials(300, 300),
                  Serials(302, 303), Serials(500, MaxSerial), Serials(MaxSerial, MaxSerial)}
MCOtherLines == {[kind |-> "id", id |-> "i"], KeyLine("key", Cert("k1", "c1", 7, "j")), KeyLine("sha1", PlainKey("c2")),
                 KeyLine("plain", Cert("k2", "c1", 5, "i")), KeyLine("plain", Cert("k2", "c2", 0, "j")), KeyLine("plain", PlainKey("k2")),
                 Serials(0, 3), Serials(3, 2)}
MCRevokeLines == (MCSerialLines \ {Serials(150, 151)}) \cup {[kind |-> "id", id |-> "i"], KeyLine("key", PlainKey("k1"))}
MCOfferedKeys == [key : {"k1", "k2"}, ca : {"c1", "c2"}, id : {"i", "j"}, serial : {0, 5, 8}]
                 \cup [key : {"k3"}, ca : {"c3"}, id : {"j"}, serial : {1, 2, 3, 4, 149, 152, 201, 299, 301, 304, 499, MaxSerial}]
                 \cup {PlainKey(k) : k \in {"k1", "k2", "c1", "c2"}}
NewLists == ({WildCA} \X [1..3 -> MCSerialLines]) \cup ({NoCA, "c1"} \X [1..2 -> MCOtherLines])
AddedTo == {WildCA, "c1"} \X [1..1 -> MCRevokeLines]
Sig(key, valid) == [type |-> "sig", key |-> key, valid |-> valid]
Foreign ==
  {<<[form |-> "krl", secs |-> <<[type |-> "sha1", body |-> {"k1"}]>> \o s], {<<NoCA, KeyLine("sha1", PlainKey("k1"))>>}>>
     : s \in [1..2 -> {Sig("k2", TRUE), Sig("k1", TRUE), Sig("k2", FALSE)}]}
  \cup {<<[form |-> "flat", keys |-> {"k1", "c2"}], {<<NoCA, KeyLine("sha1", PlainKey(k))>> : k \in {"k1", "c2"}}>>}

(* What ssh-keygen(1) says a line revokes. *)
ScopeCovers(ca, k) == ca = WildCA \/ ca = k.ca
RevokedBy(ca, line, k) ==
  CASE line.kind = "serial" -> is_cert(k) /\ ScopeCovers(ca, k) /\ k.serial \in (line.lo..line.hi) \ {0}
    [] line.kind = "id"     -> is_cert(k) /\ ScopeCovers(ca, k) /\ k.id = line.id
    [] line.kind \in {"key", "sha1"} -> line.key.key \in {k.key, k.ca}
    [] line.kind = "plain"  -> IF ~is_cert(line.key) THEN line.key.key \in {k.key, k.ca}
                               ELSE k.ca = line.key.ca /\ IF line.key.serial = 0 THEN k.id = line.key.id
                                                          ELSE k.serial = line.key.serial
(* sshd refuses a key as revoked exactly when a line of the specification  *)
(* files behind its revocation list covers the key or its CA, however the  *)
(* serials were merged, split into sections and written in between         *)
(* (krl.c), and when the list cannot be read.                              *)
RevocationExact ==
  scenario = "krl" /\ ~krlWriter.on /\ ~krlWriter.broken =>
    \A k \in OfferedKeys :
      auth_key_is_revoked(k) = \/ krlFile.form # "flat" /\ Failed(load_krl(krlFile))
                               \/ \E l \in krlLines : RevokedBy(l[1], l[2], k)

KrlStep ==
  \/ krlWrites = 0 /\ \E f \in NewLists : do_gen_krl(FALSE, f[1], f[2])
  \/ krlWrites > 0 /\ \E f \in AddedTo, updating \in BOOLEAN : do_gen_krl(updating, f[1], f[2])
  \/ KrlWritten \/ KrlWriteFails
  \/ \E f \in Foreign : KrlInstalled(f[1], f[2])

-----------------------------------------------------------------------------
(* Key files.  Key 9 is somebody else's. *)
MCHostKeyNames == <<<<"host", "ED25519">>>>
Fields == [kind |-> "user"]
OtherKey == sshkey_generate("ED25519", 0, 9)
CertLine(pub, signer) ==
  LET k == sshkey_to_certified(sshkey_generate("ED25519", 0, pub))
      c == sshkey_certify(k, OtherKey, Fields)
  IN  [form |-> "line", line |-> sshkey_write([c EXCEPT !.cert.blob.sig.by = signer])]
NoFiles == [f \in {} |-> Torn]
MCFound == {NoFiles} \cup {[f \in {<<"id", "cert">>} |-> CertLine(p, s)] : p \in {1, 9}, s \in {9, 8}}
                    \cup {[f \in {<<"id", "cert">>} |-> Torn]}

Undisturbed == scenario = "files" /\ keygen = Idle /\ faults = 0
(* Whatever was done to a key with ssh-keygen, in whichever format, its    *)
(* file gives back the key it was generated with, for the passphrase it    *)
(* was last given, and the public key file beside it is that of the same   *)
(* key (sshkey.c, authfile.c).                                             *)
KeyKept ==
  Undisturbed => \A x \in KeyNames : owner[x].pub # 0 =>
    LET k == sshkey_load_private(x, owner[x].pass)
        p == sshkey_load_public(x)
    IN  /\ disk[<<x, "prv">>].loose \/ (~IsErr(k) /\ k.prv /\ k.pub = owner[x].pub)
        /\ ~IsErr(p) /\ p.pub = owner[x].pub
(* A key that is loaded together with the certificate beside it is the key *)
(* the certificate is for, and the CA named in it signed it, whatever run  *)
(* of ssh-keygen was cut short in between                                  *)
(* (sshkey_load_private_cert).                                             *)
CertMatches ==
  scenario = "files" => \A x \in KeyNames, p \in Passphrases :
    LET c == sshkey_load_private_cert("UNSPEC", x, p)
    IN  ~IsErr(c) => /\ c.cert.blob.part.pub = c.pub /\ c.prv
                     /\ c.cert.blob.sig = [by |-> c.cert.ca.pub, over |-> c.cert.blob.part]

MCTypes == {<<"ED25519", 0>>, <<"ECDSA", 384>>}
FilesStep ==
  \/ \E t \in MCTypes, p \in Passphrases, new \in BOOLEAN, over \in BOOLEAN, n \in B64Lengths :
       GenerateKey("id", t[1], t[2], p, new, over, n)
  \/ \E n \in B64Lengths : do_gen_all_hostkeys(n)
  \/ \E old \in Passphrases, p \in Passphrases, new \in BOOLEAN, n \in B64Lengths :
       do_change_passphrase("id", old, p, new, n)
  \/ \E p \in Passphrases, new \in BOOLEAN, n \in B64Lengths : do_change_comment("id", p, new, n)
  \/ \E ca \in KeyNames, x \in KeyNames, p \in Passphrases : do_ca_sign(ca, p, x, Fields)
  \/ KeygenOpens \/ KeygenWrites \/ KeygenWriteFails \/ KeygenKilled
  \/ \E f \in KeyNames \X {"prv"} : Chmod(f)

-----------------------------------------------------------------------------
(* Who may log in. *)
Strings(alphabet, n) == UNION {[1..m -> alphabet] : m \in 0..n}
RECURSIVE Glob(_, _)
Glob(s, p) ==
  IF p = <<>> THEN s = <<>>
  ELSE IF Head(p) = "*" THEN \E i \in 0..Len(s) : Glob(Drop(s, i), Tail(p))
  ELSE s # <<>> /\ Head(p) \in {"?", Head(s)} /\ Glob(Tail(s), Tail(p))
(* Except that two stars at the end of a pattern stand for one character   *)
(* or more (match.c:88-92): a** does not match a, although ssh_config(5)   *)
(* says of each of them that it matches zero or more.                      *)
StarsAtEnd(p) == Len(p) >= 2 /\ p[Len(p)] = "*" /\ p[Len(p) - 1] = "*"
AsRead(p) == IF StarsAtEnd(p) THEN [p EXCEPT ![Len(p) - 1] = "?"] ELSE p
PatternsRight == \A s \in Strings({"a", "b"}, 3), p \in Strings({"a", "*", "?"}, 4) : match_pattern(s, p) = Glob(s, AsRead(p))

AddrFrom(af, bits) == Address(af, bits)
Addrs == {AddrFrom("v4", b) : b \in [1..2 -> {0, 1}]} \cup {AddrFrom("v6", <<1, 0, 0>>)}
Covers(e, a) ==
  IF IsNet(e) THEN e.af = a.af /\ \A i \in 1..(IF e.len = -1 THEN Width[e.af] ELSE e.len) : e.bits[i] = a.bits[i]
  ELSE Glob(Text(a), e.pat)
Entries == {[neg |-> n, af |-> "v4", bits |-> <<1, 0>>, len |-> l] : n \in BOOLEAN, l \in {-1, 1, 3}}
           \cup {[neg |-> n, af |-> "v6", bits |-> <<0, 0, 0>>, len |-> l] : n \in BOOLEAN, l \in {0, 1}}
           \cup {[neg |-> n, pat |-> q] : n \in BOOLEAN, q \in {<<"4", "*">>, <<"b">>, <<"?", "1">>, <<>>}}
HostLists == Strings(Entries, 2) \ {<<>>}
Listed(hn, a, list) ==
  LET hit(e) == Covers(e, a) \/ (~IsNet(e) /\ Glob(hn, e.pat))
      es     == {list[i] : i \in DOMAIN list}
  IN  (\E e \in es : hit(e) /\ ~e.neg) /\ ~\E e \in es : hit(e) /\ e.neg
UserPats == {[user |-> u] : u \in {<<"a">>, <<"*">>}} \cup {[user |-> <<"?">>, at |-> l] : l \in HostLists}
UserListed(pw, hn, a, pats) ==
  \E i \in DOMAIN pats : Glob(pw.name, pats[i].user) /\ (HasAt(pats[i]) => Listed(hn, a, pats[i].at))
InGroup(pw, pats) == \E i \in DOMAIN pw.groups, j \in DOMAIN pats : pw.groups[i] # <<>> /\ Glob(pw.groups[i], pats[j])
Accounts == [name : {<<"a">>, <<"a", "b">>}, groups : {<<<<"g">>, <<>>>>, <<<<>>>>}, shell : {"ok", "missing"}, locked : {FALSE}, exists : {TRUE}]
            \cup [name : {<<"a">>}, groups : {<<>>}, shell : {"ok"}, locked : {TRUE}, exists : BOOLEAN]
AccessConfs(users) ==
  [deny_users : users, allow_users : users, deny_groups : {<<>>, <<<<"g">>>>}, allow_groups : {<<>>, <<<<"?">>>>}, use_pam : {FALSE},
   chroot : {FALSE}]
(* sshd_config(5), AllowUsers and its relatives *)
MayLogIn(conf, pw, hn, a) ==
  /\ pw.exists /\ ~pw.locked /\ pw.shell = "ok"
  /\ ~UserListed(pw, hn, a, conf.deny_users)
  /\ conf.allow_users # <<>> => UserListed(pw, hn, a, conf.allow_users)
  /\ conf.deny_groups \o conf.allow_groups # <<>> => \E i \in DOMAIN pw.groups : pw.groups[i] # <<>>
  /\ ~InGroup(pw, conf.deny_groups)
  /\ conf.allow_groups # <<>> => InGroup(pw, conf.allow_groups)
UsersRight ==
  \A p \in {q \in UserPats : PatternValid(q)} :
    \A conf \in AccessConfs({<<>>, <<p>>}), pw \in Accounts, a \in Addrs :
      getpwnamallow(conf, pw, <<"b">>, a) = IF MayLogIn(conf, pw, <<"b">>, a) THEN "yes" ELSE "no"

TrustLine(neg, hosts, users) == [neg |-> neg, hosts |-> hosts, users |-> users]
RhostsFiles == {Absent} \cup [safe : BOOLEAN, lines : {<<TrustLine(TRUE, {"h"}, {"u"}), TrustLine(FALSE, {"h", "i"}, {})>>,
                                                      <<[junk |-> TRUE], TrustLine(FALSE, {"h"}, {"u"})>>}]
Trusts == [equiv : RhostsFiles, sequiv : {Absent}, shosts : RhostsFiles, rhosts : RhostsFiles, homeSafe : BOOLEAN, strict : {TRUE},
           ignore_rhosts : BOOLEAN, from_packet : {FALSE}]
HostKeysOnRecord == [sys : {{}, {[host |-> "h", key |-> "k", ca |-> FALSE, revoked |-> FALSE]}},
                     user : {{[host |-> "x", key |-> "k", ca |-> FALSE, revoked |-> FALSE]}}, userSafe : {TRUE}]
(* Whatever name the client gives for itself, host-based authentication    *)
(* takes a key that is on record for the name its address resolves to.     *)
HostbasedRight ==
  \A rh \in Trusts, hk \in HostKeysOnRecord, chost \in {"h", "x"}, cuser \in {"u", "v"}, root \in BOOLEAN :
    hostbased_key_allowed(rh, hk, [name |-> "v", root |-> root], cuser, chost, "h", "i", [key |-> "k", cert |-> FALSE, revoked |-> FALSE])
      => /\ \E e \in hk.sys : e.host = "h" /\ e.key = "k"
         /\ \/ ~root /\ Exists(rh.equiv)
            \/ ~rh.ignore_rhosts /\ rh.homeSafe /\ \E f \in {"shosts", "rhosts"} : Exists(rh[f]) /\ rh[f].safe
(* Wildcards, address lists and their negations, the four lists of users   *)
(* and groups and the hosts.equiv files decide as the manual pages say,    *)
(* but for the two stars of AsRead, and no list the server has read        *)
(* without complaint ends a login with fatal().                            *)
AccessExact == scenario = "access" => PatternsRight /\ UsersRight /\ HostbasedRight

-----------------------------------------------------------------------------
(* Authorized keys.  The user is a, and logs in from host b at address 10. *)
KeyOpt(o, v) == [o |-> o, v |-> v]
AkLine(key, ol) == [key |-> key, opts |-> ol]
Plain(key) == [key |-> key, cert |-> FALSE]
UserCert(key, ca, principals, critical, extensions) ==
  [key |-> key, cert |-> TRUE, ca |-> ca, kind |-> "user", valid |-> TRUE, principals |-> principals,
   critical |-> critical, extensions |-> extensions]
MCUserName == <<"a">>
MCRemoteHost == <<"b">>
MCRemoteAddr == Address("v4", <<1, 0>>)
Net(neg, bits, len) == [neg |-> neg, af |-> "v4", bits |-> bits, len |-> len]
HostPat(neg, pat) == [neg |-> neg, pat |-> pat]
ForceCmd(c) == KeyOpt("force-command", c)
MCUserKeys ==
  {Plain("k1"), Plain("k2"),
   UserCert("k1", "ca", {<<"a">>}, <<>>, {"pty"}), UserCert("k2", "ca", {<<"p">>}, <<ForceCmd("c1")>>, Flags),
   UserCert("k3", "ca", {<<"a">>, <<"p">>}, <<KeyOpt("source-address", <<Net(FALSE, <<1, 0>>, 1)>>), ForceCmd("c2")>>, {}),
   [UserCert("k3", "ca", {}, <<>>, Flags) EXCEPT !.valid = FALSE], UserCert("k4", "ca", {}, <<KeyOpt("other", "")>>, Flags)}
LinesA ==
  <<AkLine("k1", <<KeyOpt("from", <<Net(TRUE, <<1, 0>>, -1), HostPat(FALSE, <<"*">>)>>), KeyOpt("command", "c1")>>),
    AkLine("k1", <<KeyOpt("restrict", ""), KeyOpt("enable", "pty"), KeyOpt("environment", "e1")>>), AkLine("k2", <<KeyOpt("command", "c2"), KeyOpt("bad", "")>>)>>
LinesB ==
  <<[junk |-> TRUE], AkLine("ca", <<KeyOpt("cert-authority", ""), KeyOpt("command", "c2"), KeyOpt("tunnel", 3)>>),
    AkLine("ca", <<KeyOpt("cert-authority", ""), KeyOpt("principals", {<<"p">>}), KeyOpt("permitopen", "h:1")>>), AkLine("k2", <<KeyOpt("disable", "pty")>>)>>
File(safe, lines) == [safe |-> safe, lines |-> lines]
Command(safe, clean, lines) == [user |-> TRUE, safe |-> safe, clean |-> clean, lines |-> lines]
Named(name, ol) == [name |-> name, opts |-> ol]
PrincipalsA == <<Named(<<"p">>, <<KeyOpt("command", "c1"), KeyOpt("from", <<HostPat(TRUE, <<"b">>)>>)>>), Named(<<"p">>, <<KeyOpt("disable", "x11")>>)>>
PrincipalsB == <<Named(<<"a">>, <<KeyOpt("command", "c2")>>)>>
MCKeyConfigs ==
  {[permit_user_env |-> TRUE, local_forwarding |-> TRUE, strict_modes |-> TRUE, trusted_user_ca_keys |-> trust, revoked |-> rev,
    principals_file |-> pf, principals_command |-> pc, keys_command |-> kc, keys_files |-> kf] :
     trust \in {{}, {"ca"}}, rev \in {{}, {"k2"}}, pf \in {Absent, File(TRUE, PrincipalsA), File(FALSE, PrincipalsB)},
     pc \in {Absent, Command(TRUE, TRUE, PrincipalsB), Command(TRUE, FALSE, PrincipalsA)},
     kc \in {Absent, Command(TRUE, FALSE, LinesA), Command(TRUE, TRUE, LinesB)},
     kf \in {<<File(TRUE, LinesA), File(TRUE, LinesB)>>, <<File(FALSE, LinesB), File(TRUE, LinesA)>>, <<File(TRUE, LinesB)>>}}

(* What sshd(8) says a line's options are: the last word on each counts.   *)
LastWord(toks, words) == LET is == {i \in DOMAIN toks : toks[i].o \in words} IN IF is = {} THEN 0 ELSE CHOOSE i \in is : \A j \in is : j <= i
ValueOf(toks, o, default) == LET i == LastWord(toks, {o}) IN IF i = 0 THEN default ELSE toks[i].v
FlagOff(toks, f) ==
  LET is == {i \in DOMAIN toks : toks[i].o = "restrict" \/ (toks[i].o \in {"enable", "disable"} /\ toks[i].v = f)}
  IN  is # {} /\ toks[CHOOSE i \in is : \A j \in is : j <= i].o # "enable"
OptionsOf(toks) ==
  [no |-> {f \in Flags : FlagOff(toks, f)}, command |-> ValueOf(toks, "command", ""), tun |-> ValueOf(toks, "tunnel", -1),
   env |-> {toks[i].v : i \in {j \in DOMAIN toks : toks[j].o = "environment"}},
   opens |-> {toks[i].v : i \in {j \in DOMAIN toks : toks[j].o = "permitopen"}}]
UsableOptions(toks) == \A i \in DOMAIN toks : ~OptionDenies(toks[i])
Has(toks, o) == LastWord(toks, {o}) # 0
(* The grants of a certificate on top of those of a line. *)
WithCert(k, s) ==
  LET c == parse_option_list(k)
  IN  IF ~c.ok \/ (c.cmd # "" /\ s.command \notin {"", c.cmd}) THEN {}
      ELSE {[s EXCEPT !.no = @ \cup c.no, !.command = IF c.cmd = "" THEN @ ELSE c.cmd]}
LinesOf(f) == {f.lines[i] : i \in DOMAIN f.lines}
ReadableFiles == {f \in {keyConf.keys_files[i] : i \in DOMAIN keyConf.keys_files} : f.safe}
                 \cup {c \in {keyConf.keys_command} : Exists(c) /\ c.clean}
LineGrants(k) ==
  UNION {LET o == l.opts IN
         IF ~k.cert THEN (IF l.key = k.key /\ ~Has(o, "cert-authority") THEN {OptionsOf(o)} ELSE {})
         ELSE IF l.key = k.ca /\ Has(o, "cert-authority") /\ k.valid
                 /\ (IF Has(o, "principals") THEN ValueOf(o, "principals", {}) \cap k.principals # {}
                     ELSE k.principals = {} \/ UserName \in k.principals)
         THEN WithCert(k, OptionsOf(o)) ELSE {}
         : l \in {x \in UNION {LinesOf(f) : f \in ReadableFiles} : "junk" \notin DOMAIN x /\ UsableOptions(x.opts)}}
PrincipalSources == {f \in {keyConf.principals_file} : Exists(f) /\ f.safe} \cup {c \in {keyConf.principals_command} : Exists(c) /\ c.clean}
TrustGrants(k) ==
  IF ~k.cert THEN {} ELSE IF k.ca \notin keyConf.trusted_user_ca_keys \/ ~k.valid \/ k.principals = {} THEN {}
  ELSE IF Exists(keyConf.principals_file) \/ Exists(keyConf.principals_command)
  THEN UNION {WithCert(k, OptionsOf(l.opts)) : l \in {x \in UNION {LinesOf(f) : f \in PrincipalSources} : x.name \in k.principals /\ UsableOptions(x.opts)}}
  ELSE IF UserName \in k.principals THEN WithCert(k, OptionsOf(<<>>)) ELSE {}
Grants(k) == IF Revoked(k) THEN {} ELSE LineGrants(k) \cup TrustGrants(k)

InForce == [no |-> keyOpts.no, command |-> keyOpts.command, tun |-> keyOpts.tun, env |-> Range(keyOpts.env), opens |-> keyOpts.opens]
(* A certificate of a trusted authority, where no principals are listed,   *)
(* is the one key whose check clears nothing first (auth2-pubkey.c:879-924 *)
(* and auth-options.c:634-655).  It adds to what an earlier key left set,  *)
(* one whose signature was bad or the first of two that are asked for      *)
(* (monitor.c:1157-1159 keeps the options of an attempt).                  *)
OnTopOf(left, g) ==
  [no |-> left.no \cup g.no, command |-> IF g.command = "" THEN left.command ELSE g.command,
   tun |-> left.tun, env |-> Range(left.env), opens |-> left.opens]
AddsToLeftover(k) == k.cert /\ ~UsesPrincipals /\ leftover # auth_clear_options
(* A key that has just authenticated was granted access by some line or CA *)
(* of the server's files, and exactly the options it was granted with are  *)
(* in force, none that an earlier line, file, command or key had.  The one *)
(* exception is AddsToLeftover: there the environment, the tunnel, the     *)
(* permitted hosts and, if the certificate forces none, the command of the *)
(* earlier key are in force with it, and its flags are added.              *)
OptionsInForce ==
  [][loggedIn' # loggedIn =>
       \/ \E g \in Grants(heldKey.key) : InForce = g
       \/ AddsToLeftover(heldKey.key) /\ \E g \in Grants(heldKey.key) \cap TrustGrants(heldKey.key) : InForce = OnTopOf(leftover, g)]_akVars

AuthorizedStep ==
  \/ \E k \in UserKeys, a \in BOOLEAN : mm_answer_keyallowed(k, a)
  \/ \E good \in BOOLEAN : mm_answer_keyverify(good)

-----------------------------------------------------------------------------
(* Key exchange. *)
Both(x) == [d \in Directions |-> x]
Prop(kex, hostkey, enc, mac, comp, follows) ==
  [kex |-> kex, hostkey |-> hostkey, enc |-> enc, mac |-> mac, comp |-> comp, follows |-> follows, cookie |-> 0]
DefaultKex == <<"c25519", "gex", "dh14">>
KexLists == {l \in {kex_assemble_names(DefaultKex, c) :
               c \in {[op |-> "", list |-> <<>>], [op |-> "+", list |-> <<"gex", "dh18">>], [op |-> "-", list |-> <<"c25519", "ecdh">>],
                      [op |-> "", list |-> <<"dh18", "ecdh", "gex">>]}} : kex_names_valid(l)}
KeyAlgs == {<<"ed25519", "rsa2">>, <<"rsa", "rsa2">>}
Split(a, b) == [d \in Directions |-> IF d = "ctos" THEN a ELSE b]
CipherLists == {Both(<<"chacha", "aes">>), Split(<<"im256", "aes">>, <<"gcm", "des3">>), Both(<<"im4096">>)}
MCClientProposals ==
  {Prop(k, h, e, m, Both(<<"zlib", "none">>), f) : k \in KexLists, h \in KeyAlgs, e \in CipherLists,
                                                    m \in {Both(<<"umac", "hmac">>)}, f \in BOOLEAN}
MCServerProposals ==
  {Prop(k, h, e, Split(<<"hmac">>, <<"umac">>), Both(<<"none">>), FALSE) :
     k \in KexLists, h \in {<<"ed25519", "rsa2", "rsa">>, <<"rsa2">>},
     e \in {Both(<<"aes", "des3", "gcm", "chacha", "im256">>), Both(<<"im4096", "des3">>)}}
MCClientRanges == {<<1024, 3072, 4096>>, <<2048, 2048, 2050>>, <<3000, 3001, 3071>>, <<1024, 1024, 1024>>,
                   <<2048, 3072, 3500>>, <<4000, 4096, 7000>>, <<4096, 2048, 8192>>}
ModulusLine(bits) == [safe |-> TRUE, tested |-> TRUE, composite |-> FALSE, tries |-> 1, gen |-> 2, size |-> bits - 1, bits |-> bits]
MCModuliFiles ==
  {<<>>, <<ModulusLine(4096), ModulusLine(2048), ModulusLine(3072)>>, <<ModulusLine(3072), ModulusLine(8192), ModulusLine(8192)>>,
   <<ModulusLine(1024), [ModulusLine(4096) EXCEPT !.composite = TRUE], [ModulusLine(3072) EXCEPT !.bits = 3071]>>}

KexIdle == kx = <<>> /\ kexWire = <<>> /\ kexConf = <<>>

FirstShared(c, s) == SelectSeq(c, LAMBDA n : n \in Range(s))[1]
\* Ranges and moduli make a difference to the group exchange only.
RangesMatter ==
  LET shared == SelectSeq(kx["client"].my.kex, LAMBDA n : n \in Range(kx["server"].my.kex)) IN shared # <<>> /\ shared[1] = "gex"
KexCases == KexInit /\ (RangesMatter \/ kexConf = [range |-> Nothing, moduli |-> <<>>])
InCommon(f) == ListNames(kx["client"].my[f]) \cap ListNames(kx["server"].my[f]) # {}
InCommonBy(f, d) == ListNames(kx["client"].my[f][d]) \cap ListNames(kx["server"].my[f][d]) # {}
Agreeable ==
  /\ InCommon("kex") /\ InCommon("hostkey")
  /\ \A d \in Directions :
       /\ InCommonBy("enc", d) /\ InCommonBy("comp", d)
       /\ ciphers[FirstShared(kx["client"].my.enc[d], kx["server"].my.enc[d])].auth = 0 => InCommonBy("mac", d)
UsableLines(sizes) == {l \in ListNames(kexConf.moduli) : InRange(l, BiggerOf(sizes[1], 2048), SmallerOf(sizes[3], 8192))}
(* moduli(5) and RFC 4419: within the sizes asked for, and no smaller than *)
(* the preferred one if the file has a larger.  When the file has none in  *)
(* the range one of the three fixed groups stands in, and it may be        *)
(* outside of it: below the client's minimum, or above its maximum where   *)
(* dh_new_group_fallback takes 4096 bits for a maximum from 3072 on and    *)
(* 8192 bits for one from 6144 on.                                         *)
StandsInAbove(max) == max \in 3072..4095 \cup 6144..8191
GroupRight(sizes, group) ==
  LET usable == UsableLines(sizes)
  IN  IF usable = {}
      THEN group.bits \in {2048, 4096, 8192} /\ (group.bits <= sizes[3] \/ StandsInAbove(sizes[3]))
      ELSE /\ group.bits \in sizes[1]..sizes[3]
           /\ \E l \in usable : l.bits = group.bits
           /\ (\E l \in usable : l.bits >= sizes[2]) => group.bits >= sizes[2]
(* A range of sizes cannot be met: for the server, when it is none or all  *)
(* below 2048 bits; for the client, which refuses what it did not ask for, *)
(* when the file has no group in it and no fixed group of that range       *)
(* stands in.                                                              *)
RangeUnmet(e, r) ==
  IF e = "server" THEN ~(r[1] <= r[2] /\ r[2] <= r[3]) \/ r[3] < 2048
  ELSE UsableLines(r) = {} /\ ({2048, 4096, 8192} \cap r[1]..r[3] = {} \/ StandsInAbove(r[3]))
(* Why an exchange may fail: nothing in common; a host key the client does *)
(* not accept; another client's group sizes that cannot be met; or a       *)
(* Diffie-Hellman group that is too small for what the ciphers need, which *)
(* an InterMAC cipher with long chunks makes it.                           *)
FailsRightly(e) ==
  LET c == kx[e]
  IN  CASE c.failed = "no match" -> ~Agreeable
        [] c.failed = "host key" -> hostkeyalgs[c.conf.hostkey] \notin TrustedHostKeys
        [] c.failed = "range" -> kexConf.range # Nothing /\ RangeUnmet(e, kexConf.range)
        [] c.failed = "group" -> 16 * c.conf.need > 2048 /\ kexalgs[c.conf.kex].type \in {"dh", "gex"}
        [] OTHER -> FALSE
Mirrored(c, s) == c.in = s.out /\ c.out = s.in /\ c.h = s.h /\ c.sid = s.sid /\ c.conf.kex = s.conf.kex
(* When both ends are done with an exchange they have the same keys,       *)
(* mirrored, the same session id, which is the hash of the first exchange  *)
(* and of no later one, and the client's first algorithm that the server   *)
(* has for everything; a wrong guess disturbs nothing, nobody is left      *)
(* waiting, and an exchange fails only for a reason (kex_choose_conf,      *)
(* proposals_match, kex_derive_keys, choose_dh).                           *)
KexAgrees ==
  LET c == kx["client"]
      s == kx["server"]
  IN  scenario = "kex" =>
        /\ \A e \in KexEnds : kx[e].failed # "" => FailsRightly(e)
        /\ (\A e \in KexEnds : kexWire[e] = <<>> /\ kx[e].failed = "") => c.done /\ s.done /\ c.exchange = s.exchange
        /\ c.done /\ s.done /\ c.exchange = s.exchange /\ c.exchange > 0 =>
             /\ Mirrored(c, s)
             /\ c.in # c.out /\ c.in.key # c.out.key
             /\ c.exchange = 1 <=> c.sid = c.h
             /\ \A d \in Directions : c.conf.modes[d].enc = FirstShared(c.my.enc[d], s.my.enc[d])
             /\ c.conf.modes = s.conf.modes
        /\ s.pub # Nothing => (kexalgs[s.conf.kex].type = "gex" => GroupRight(s.sizes, s.pub.group))

-----------------------------------------------------------------------------
(* Buffers. *)
BufferBytes == {<<2, 0, 9>>, <<1, 1, 1, 1, 1>>}
BufferStep ==
  \/ \E b \in Buffers : BufferNew(b) \/ sshbuf_get_string(b) \/ sshbuf_get_cstring(b) \/ sshbuf_free(b)
  \/ \E b \in Buffers, n \in {1, 3} : sshbuf_get(b, n) \/ BufferConsumeEnd(b, n)
  \/ \E b \in Buffers, c \in Buffers : sshbuf_fromb(b, c) \/ sshbuf_froms(b, c)
  \/ \E b \in Buffers, memory \in BOOLEAN :
       \/ \E bytes \in BufferBytes : sshbuf_put(b, bytes, memory)
       \/ sshbuf_put_u8(b, 9, memory) \/ sshbuf_put_string(b, <<9>>, memory)
       \/ \E v \in Buffers : sshbuf_putb(b, v, memory) \/ sshbuf_put_stringb(b, v, memory) \/ sshbuf_get_stringb(b, v, memory)
       \/ BufferReset(b, memory)
       \/ \E max \in MaxSizes : BufferSetMax(b, max, memory)
(* Emptied while its limit was below the size it was first made with: the  *)
(* block is made that size again, above the limit (sshbuf_reset).          *)
ResetAboveLimit(x) == x.max < SSHBUF_SIZE_INIT /\ x.alloc = SSHBUF_SIZE_INIT /\ x.size = 0
(* However a buffer is filled, emptied, packed, grown, limited and shared, *)
(* it is the queue of bytes it stands for, also when the buffer it shows a *)
(* part of has been freed; a call succeeds exactly when the queue and its  *)
(* limit allow it, but for a limit just as long as the content             *)
(* (LimitTight); and no live buffer fails the check that raises SIGSEGV,   *)
(* except one with a limit below SSHBUF_SIZE_INIT that has been reset      *)
(* (sshbuf.c).                                                             *)
BuffersAreQueues ==
  scenario = "buffers" =>
    /\ \A b \in Buffers : Alive(b) => sshbuf_check_sanity(bufs[b]) \/ ResetAboveLimit(bufs[b])
    /\ \A b \in Buffers : Held(b) => Content(bufs[b]) = sbQueue[b]
    /\ sbAnswer.ok = sbAnswer.should

-----------------------------------------------------------------------------
(* Moduli. *)
MCOtherModuli == {<<[kind |-> "comment"], ModuliLine("other", 0, 7, 0), ModuliLine("safe", 107, 6, 2)>>}
MCScreens == [generator : {0, 2}, start : {0, 1}, num : {0, 3}]
ModIdle == /\ modBase = 0 /\ modFile = <<>> /\ modOpts = <<>> /\ modScreen = [pc |-> "idle"] /\ modCpt = 0
           /\ modOut = <<>> /\ modHist = [lost |-> {}, full |-> FALSE, n |-> 0]
MCStarts == {n \in 41..63 : n % 2 = 1}

-----------------------------------------------------------------------------
(* Packets as bytes. *)
Sized(type, size) == [type |-> type, size |-> size, extra |-> 0]
MCPioPackets == {<<Sized("data", 1), Sized("success", 2), Sized("data", 3)>>,
                 <<Sized("ignore", 1), [type |-> "data", size |-> 1, extra |-> 4], Sized("disconnect", 1)>>}
PioIdle == /\ pioMode = "none" /\ tx = [todo |-> <<>>, sent |-> <<>>]
           /\ rx = [got |-> <<>>, seqnr |-> 1, err |-> "idle", idle |-> FALSE] /\ net = [changes |-> 0, bad |-> 0]

-----------------------------------------------------------------------------
(* ssh-keyscan: three connections wanted, two at a time. *)
MCScanHosts == <<[addrs |-> <<"a", "b">>, names |-> <<"h", "h.x">>]>>
MCScanTypes == <<"rsa1", "rsa", "ed25519">>

-----------------------------------------------------------------------------
keysVars == <<krlVars, keyVars, akVars, kexVars, sbVars, modVars, pioVars, scanVars>>
policyVars == <<confVars, srvVars, khVars>>
vars == <<keysVars, policyVars, scenario>>

-----------------------------------------------------------------------------
(* ssh_config: what a file may hold. *)
Opt(kw, opt, arg) == [kw |-> kw, opt |-> opt, arg |-> arg]
Crit(attr, neg, arg) == [attr |-> attr, neg |-> neg, arg |-> arg]
Pat(neg, names) == [neg |-> neg, names |-> names]
PortA == Opt("once", "Port", "1")
PortB == Opt("once", "Port", "2")
HostLine(pats) == [kw |-> "Host", pats |-> pats]
MatchLineOf(crit) == [kw |-> "Match", crit |-> crit]
IncludeLine(fs) == [kw |-> "Include", files |-> fs]
UserLines == {PortA, PortB, HostLine(<<Pat(FALSE, {"h"})>>),
  HostLine(<<Pat(TRUE, {"h"}), Pat(FALSE, {"h", "h.x"})>>),
  MatchLineOf(<<Crit("canonical", FALSE, {}), Crit("all", FALSE, {})>>),
  MatchLineOf(<<Crit("host", TRUE, {"h.x"}), Crit("user", FALSE, {"me"})>>),
  IncludeLine(<<"gone", "inc">>)}
Extra == {Opt("time", "ConnectTimeout", "none"), Opt("proxy", "ProxyJump", "j"), Opt("proxy", "ProxyCommand", "c"),
          Opt("set", "IdentityFile", "k"), Opt("append", "SendEnv", "e"), Opt("array", "UserKnownHostsFile", <<"f">>),
          [kw |-> "unknown", arg |-> "x"], [kw |-> "syntax"], MatchLineOf(<<>>), Opt("latest", "IPQoS", "q"),
          Opt("mask", "StreamLocalBindMask", "m"),
          MatchLineOf(<<Crit("originalhost", FALSE, {"h"}), Crit("localuser", FALSE, {"me"}), Crit("exec", TRUE, TRUE)>>)}
Included == {<<HostLine(<<Pat(FALSE, {"h"})>>), PortB>>, <<HostLine(<<Pat(FALSE, {"other"})>>), PortB>>,
             <<PortB, Opt("proxy", "ProxyCommand", "none")>>, <<IncludeLine(<<"inc">>)>>, <<Opt("once", "IgnoreUnknown", "x")>>}
SystemFiles == {<<Opt("once", "Port", "3"), Opt("proxy", "ProxyJump", "s"), Opt("time", "ConnectTimeout", "9"),
                  Opt("latest", "IPQoS", "r"), Opt("set", "IdentityFile", "k")>>}
MCFilesOf(users) == [user : users, inc : Included, gone : {NoFile}, system : SystemFiles]
ForwardFields == {[text |-> "/p", path |-> TRUE, num |-> -1], [text |-> "0", path |-> FALSE, num |-> 0],
           [text |-> "80", path |-> FALSE, num |-> 80], [text |-> "host", path |-> FALSE, num |-> -1]}
Forward(fs, dynamic, remote) == [kw |-> "forward", opt |-> IF remote THEN "RemoteForward" ELSE "LocalForward",
                                 fields |-> fs, dynamic |-> dynamic, remote |-> remote]
Forwards == {Forward(fs, d, r) : fs \in UNION {[1..n -> ForwardFields] : n \in 1..4}, d \in BOOLEAN, r \in BOOLEAN}
MCConfigFiles == [user : {<<f>> : f \in Forwards}, inc : {NoFile}, gone : {NoFile}, system : SystemFiles] \union
                 MCFilesOf([1..3 -> UserLines] \union {<<a, b>> : a \in UserLines \union Extra, b \in Extra})
                 \union [user : {NoFile}, inc : {NoFile}, gone : {NoFile}, system : SystemFiles]
MCCommandLines == {<<Opt("once", "CanonicalizeHostname", m)>> : m \in {"yes", "always"}}
                  \union {<<>>, <<Opt("once", "Port", "0"), Opt("once", "User", "you")>>, <<HostLine(<<>>)>>,
                          <<Opt("once", "ClearAllForwardings", "yes")>>}
MCCanonical == [n \in {"h"} |-> "h.x"]

(***************************************************************************)
(* The manual's account of the same, by the text of the files alone: a     *)
(* line counts when its block applies, and, if its file is included, when  *)
(* the block of the Include line counts as well.                           *)
(***************************************************************************)
BlockApplies(line, name, canon) ==
  IF line.kw = "Host" THEN HostMatches(line.pats, name)
  ELSE MatchResult(line.crit, [HostName |-> IF canon THEN name ELSE Unset, User |-> opts["User"]], name, canon)

RECURSIVE Counting(_, _, _, _, _)
Counting(lines, outer, block, name, canon) ==
  IF lines = <<>> THEN <<>> ELSE
  LET line == Head(lines)
      rest(b) == Counting(Tail(lines), outer, b, name, canon)
  IN CASE line.kw \in {"Host", "Match"} -> rest(BlockApplies(line, name, canon))
       [] line.kw = "Include" ->
            FlattenSeq([i \in DOMAIN line.files |->
              IF files[line.files[i]] = NoFile THEN <<>>
              ELSE Counting(files[line.files[i]], outer /\ block, TRUE, name, canon)]) \o rest(block)
       [] OTHER -> (IF outer /\ block THEN <<line>> ELSE <<>>) \o rest(block)

InFiles(name, canon) ==
  Counting(IF files["user"] = NoFile THEN <<>> ELSE files["user"], TRUE, TRUE, name, canon)
  \o Counting(files["system"], TRUE, TRUE, name, canon)
Obtained == InFiles("h", FALSE) \o (IF pass = 2 THEN InFiles(host, TRUE) ELSE <<>>)
Values(lines, opt) == SelectSeq(lines, LAMBDA l : "opt" \in DOMAIN l /\ l.opt = opt)
FirstArg(lines, default) == IF lines = <<>> THEN default ELSE Head(lines).arg
LastArg(lines, default) == IF lines = <<>> THEN default ELSE lines[Len(lines)].arg

\* ssh_config(5): the first obtained value is used, whatever blocks, includes and the second
\* pass come in between; of ProxyCommand and ProxyJump the first keeps the other out; an
\* identity is offered once; SendEnv adds up.  Not so for three keywords: of IPQoS (and of
\* TunnelDevice, stored alike) the last obtained value is used, of StreamLocalBindMask the
\* last in any block, and ConnectTimeout none is no value, so that a later one counts
\* (process_config_line_depth).  (Port "0" and User are given on the command line only.)
FirstValueWins ==
  scenario = "ssh_config" /\ confPhase = "done" =>
    LET lines == Obtained
        proxy == Head(SelectSeq(lines, LAMBDA l : l.kw = "proxy"))
        timeouts == SelectSeq(Values(lines, "ConnectTimeout"), LAMBDA l : l.arg # "none")
        sent == Values(lines, "SendEnv")
    IN /\ opts["Port"] # "0" => opts["Port"] = FirstArg(Values(lines, "Port"), Unset)
       /\ opts["UserKnownHostsFile"] = FirstArg(Values(lines, "UserKnownHostsFile"), <<>>)
       /\ opts["SendEnv"] = [i \in DOMAIN sent |-> sent[i].arg]
       /\ IF proxy.opt = "ProxyJump"
          THEN opts["ProxyJump"] = proxy.arg /\ opts["ProxyCommand"] = "ssh -W"
          ELSE opts["ProxyJump"] = Unset /\ opts["ProxyCommand"] = IF proxy.arg = "none" THEN Unset ELSE proxy.arg
       /\ opts["IdentityFile"] = <<"k">>
       /\ opts["ConnectTimeout"] = FirstArg(timeouts, Unset)
       /\ opts["IPQoS"] = LastArg(Values(lines, "IPQoS"), Unset)
       /\ opts["StreamLocalBindMask"] = LastArg(Values(files["user"] \o files["system"], "StreamLocalBindMask"), "0177")

\* An accepted forwarding listens in one place, a socket path or a port that may be left to
\* the server only when it is remote, and leads to one place: a path, a host and port, or SOCKS.
ForwardsSound ==
  scenario = "ssh_config" /\ confPhase = "done" =>
    \A opt \in {"LocalForward", "RemoteForward"} : \A f \in ToSet(opts[opt]) :
      /\ \/ f.listen.path # "" /\ f.listen.host = "" /\ f.listen.port = PORT_STREAMLOCAL
         \/ f.listen.path = "" /\ f.listen.port \in (IF opt = "RemoteForward" THEN 0 ELSE 1)..65535
      /\ \/ f.connect.path # "" /\ f.connect.host = ""
         \/ f.connect.path = "" /\ f.connect.host # ""
            /\ (f.connect.host = "socks" \/ f.connect.port \in 1..65535)

-----------------------------------------------------------------------------
(* sshd_config *)
SrvOpt(kw, opt, arg) == [kw |-> kw, opt |-> opt, arg |-> arg]
SrvLines == {SrvOpt("once", "PasswordAuthentication", "no"), SrvOpt("once", "PasswordAuthentication", "maybe"),
  SrvOpt("forced", "ForceCommand", "none"), SrvOpt("forced", "ForceCommand", "true"),
  SrvOpt("append", "AllowUsers", <<"a">>), SrvOpt("append", "AllowUsers", <<"c">>), SrvOpt("array", "AuthorizedKeysFile", <<"f">>),
  SrvOpt("global", "Port", "23"), SrvOpt("permitopen", "PermitOpen", <<"p">>), SrvOpt("latest", "IPQoS", "q"), SrvOpt("latest", "IPQoS", "r"),
  MatchLineOf(<<Crit("all", FALSE, {})>>), MatchLineOf(<<Crit("user", FALSE, {"u"})>>),
  MatchLineOf(<<Crit("user", FALSE, {"u"}), Crit("address", FALSE, {"n"})>>), MatchLineOf(<<>>)}
Directives == {l \in SrvLines : l.kw # "Match"}
Matches == SrvLines \ Directives
MCServerFiles == {<<a, m, b, c>> : a \in {SrvOpt("once", "PasswordAuthentication", "no"), SrvOpt("forced", "ForceCommand", "true"),
                                          SrvOpt("permitopen", "PermitOpen", <<"g">>)},
                                   m \in Matches, b \in Directives, c \in SrvLines}
                 \union {<<a, m, b, n, c>> : a \in {SrvOpt("append", "AllowUsers", <<"b">>)}, m \in Matches, b \in Directives,
                                   n \in Matches, c \in Directives}
MCServerCommandLines == {<<>>, <<SrvOpt("once", "PasswordAuthentication", "cmd")>>, <<MatchLineOf(<<Crit("all", FALSE, {})>>)>>}
MCConnections == {[user |-> u, address |-> a] : u \in {"u", "v"}, a \in {"m", "n"}}

\* The block a line stands in: the last Match line before it, 0 for the main section.
MatchBlockOf(i) == LET ms == {j \in 1..i : cfgFile[j].kw = "Match"} IN IF ms = {} THEN 0 ELSE CHOOSE j \in ms : \A k \in ms : k <= j
Settings(opt, inBlock(_)) == {i \in DOMAIN cfgFile : cfgFile[i].kw # "Match" /\ cfgFile[i].opt = opt /\ inBlock(MatchBlockOf(i))}
FirstSetting(opt, inBlock(_)) ==                          \* <<>> when there is none
  LET is == Settings(opt, inBlock) IN IF is = {} THEN <<>> ELSE <<cfgFile[CHOOSE i \in is : \A k \in is : i <= k].arg>>
LastSetting(opt, inBlock(_)) ==
  LET is == Settings(opt, inBlock) IN IF is = {} THEN <<>> ELSE <<cfgFile[CHOOSE i \in is : \A k \in is : i >= k].arg>>
Satisfied(b) == b > 0 /\ ServerMatch(cfgFile[b].crit, connection)

\* sshd_config(5): the keywords of the satisfied Match blocks override the main section, of
\* several instances in them the first applies, "none" takes a forced command away, and the
\* child that talks to the client ends with the monitor's answers.  Not the first instance
\* applies for two kinds of keyword: of IPQoS (and of StreamLocalBindMask, stored alike) the
\* last does, and of AllowUsers (DenyUsers, AcceptEnv and the other lists) all satisfied
\* blocks together (process_server_config_line).
MatchOverrides ==
  scenario = "sshd_config" /\ srvPhase = "serving" =>
    LET main(b) == b = 0
        first(opt, default) == Head(FirstSetting(opt, Satisfied) \o FirstSetting(opt, main) \o <<default>>)
        last(opt, default) == Head(LastSetting(opt, Satisfied) \o LastSetting(opt, main) \o <<default>>)
        users(inBlock(_)) == UNION {ToSet(cfgFile[i].arg) : i \in Settings("AllowUsers", inBlock)}
        passwords == first("PasswordAuthentication", "yes")
    IN /\ options["PasswordAuthentication"] \in {"cmd", passwords}
       /\ FirstSetting("PasswordAuthentication", Satisfied) # <<>> => options["PasswordAuthentication"] = passwords
       /\ options["ForceCommand"] = IF first("ForceCommand", None) = "none" THEN None ELSE first("ForceCommand", None)
       /\ options["AuthorizedKeysFile"] = first("AuthorizedKeysFile", <<".ssh">>)
       /\ options["IPQoS"] = last("IPQoS", "lowdelay")
       /\ ToSet(options["AllowUsers"]) = IF users(Satisfied) # {} THEN users(Satisfied) ELSE users(main)
       /\ opens.list = first("PermitOpen", <<"any">>)
       /\ \A o \in DOMAIN options \ ForcedOptions : child[o] = options[o]

-----------------------------------------------------------------------------
(* known_hosts: the host h at address i, port 22 or 2222; K is its key, L another, C an authority. *)
Name(n, p) == <<n, p>>
KnownLine(marker, hosts, key) == [hashed |-> FALSE, marker |-> marker, hosts |-> hosts, key |-> key, bad |-> FALSE]
KnownLineSeq(p) ==
  <<KnownLine("none", {Name("h", p)}, "K"), KnownLine("none", {Name("h", p), Name("i", p)}, "L"),
    KnownLine("none", {Name("i", p)}, "L"), [KnownLine("none", {Name("h", 0)}, "K") EXCEPT !.hashed = TRUE],
    KnownLine("ca", {Name("h", p)}, "C"), KnownLine("revoked", {Name("h", p)}, "K"),
    KnownLine("revoked", {Name("h", p), Name("g", 0)}, "C"), KnownLine("none", {Name("g", 0)}, "G"),
    [KnownLine("none", {Name("h", p)}, "L") EXCEPT !.bad = TRUE], KnownLine("error", {Name("h", p)}, "K")>>
KnownLines(p) == ToSet(KnownLineSeq(p))
\* The order of two lines decides nothing, so each pair once; the last three, which say
\* nothing of the host, go with the first only.
PairsOf(ls) == {<<ls[1], ls[j]>> : j \in 8..10} \union UNION {{<<ls[i], ls[j]>> : j \in (i + 1)..7} : i \in 1..6}
MCHostFiles ==
  {[user |-> HostFile(ls), system |-> <<>>] : ls \in {<<>>} \union {<<a>> : a \in KnownLines(2222)} \union PairsOf(KnownLineSeq(2222))
                                              \union {<<a, KnownLine("none", {Name("i", 0)}, "K")>> : a \in KnownLines(0)}
                                              \union {<<KnownLine("revoked", {Name("h", 0)}, "C"), KnownLine("none", {Name("h", 0)}, "K")>>}}
  \union {[user |-> NoHostFile, system |-> <<l>>] : l \in KnownLines(2222)}
HostKey(k) == [pub |-> k, ca |-> "none"]
ServerOf(port, ks, certOK) ==
  [addresses |-> <<[ip |-> "i", local |-> FALSE, up |-> TRUE]>>, host |-> "h", port |-> port, keys |-> ks, dns |-> "none",
   certOK |-> certOK, revokedFile |-> "none", announces |-> {<<"K">>, <<"C", "K", "N">>}, holds |-> {"K", "N"}]
MCPeers ==
  {ServerOf(at[1], <<[pub |-> "K", ca |-> "C"], HostKey("K")>>, at[2]) : at \in {<<22, TRUE>>, <<2222, TRUE>>, <<2222, FALSE>>}}
  \union {[ServerOf(2222, <<HostKey("K"), HostKey("K")>>, TRUE) EXCEPT !.announces = {<<"K", "K">>, <<"N", "K">>}]}
  \union {[ServerOf(22, <<HostKey("K"), HostKey("L")>>, TRUE) EXCEPT !.revokedFile = r] : r \in {"revoked", "error", "no"}}
  \union {[ServerOf(22, <<HostKey("K"), HostKey("L")>>, TRUE) EXCEPT !.dns = "secure match",
             !.addresses = <<[ip |-> "j", local |-> FALSE, up |-> FALSE], [ip |-> "h", local |-> TRUE, up |-> TRUE]>>]}
MCOptions(strict, update) ==
  [strict |-> strict, checkHostIp |-> TRUE, hash |-> FALSE, alias |-> "none", proxy |-> "none", timeout |-> 0, keygen |-> "none", batch |-> FALSE, dns |-> 0,
   noHostAuthLocal |-> FALSE, exitOnForwardFailure |-> FALSE, risky |-> {"password", "forward"}, updateHostkeys |-> update]
MCHostOptions ==
  {[MCOptions(s, "yes") EXCEPT !.hash = (s = 0)] : s \in 0..2}
  \union {[MCOptions(2, "ask") EXCEPT !.hash = TRUE, !.checkHostIp = FALSE, !.noHostAuthLocal = TRUE],
          [MCOptions(2, "ask") EXCEPT !.batch = TRUE, !.alias = "h", !.dns = 1, !.keygen = "find"],
          [MCOptions(1, "no") EXCEPT !.timeout = 1, !.keygen = "delete"],
          [MCOptions(1, "no") EXCEPT !.timeout = 2, !.keygen = "hash"]}
  \union {[MCOptions(0, "no") EXCEPT !.proxy = p, !.exitOnForwardFailure = TRUE] : p \in {"command", "fdpass", "-"}}

\* Through a proxy, or with RevokedHostKeys, files of one line are enough.
KnownHostsCases == KnownHostsInit /\ (kopts.proxy # "none" \/ peer.revokedFile # "none" => Len(khFile.lines) <= 1)

\* The lines verify_host_key() saw, read by their meaning: who vouches for the key under a
\* name, who revokes it, and whether the name is known with other keys.
LineSays(marker, name, key) ==
  \E i \in DOMAIN verdict.lines : LET l == verdict.lines[i] IN l.marker = marker /\ ~l.bad /\ name \in l.hosts /\ l.key = key
Vouched(name) == LineSays("none", name, verdict.key.pub) \/ (peer.certOK /\ LineSays("ca", name, verdict.key.ca))
RevokedFor(name) == LineSays("revoked", name, verdict.key.pub) \/ LineSays("revoked", name, verdict.key.ca)
OtherKeys(name) == ~Vouched(name) /\ \E k \in {"K", "L"} : LineSays("none", name, k)

\* With strict checking only a host somebody vouches for is let in, under the name with the
\* port or, if that is unknown, without; a revoked or changed key only without strict checking,
\* and then with no password and no forwarding that the host could abuse.  Two exceptions, both
\* of certificates and of the look at the bare name: one that is vouched for there only is let
\* in although other keys are known for the name with the port; and where its authority is
\* revoked there, the certificate is given up and its plain key is looked up there again
\* (sshconnect.c:937-945 after the retry at 1224), as if the revocation were not.
PlainKeyAfterRevokedCert(bare) ==
  /\ IsCert(verdict.key) /\ LineSays("revoked", bare, verdict.key.ca)
  /\ LineSays("none", bare, verdict.key.pub) /\ ~LineSays("revoked", bare, verdict.key.pub)
HostKeyPolicy ==
  scenario = "known_hosts" /\ verdict.via = "files" =>
    LET name == HostString(peer.port)
        bare == HostString(0)
    IN /\ RevokedFor(name) \/ (OtherKeys(name) /\ ~(IsCert(verdict.key) /\ Vouched(bare))) =>
            kopts.strict = 0 /\ kopts.risky = {}
       /\ kopts.strict = 1 => \/ Vouched(name) \/ (Vouched(bare) /\ ~RevokedFor(bare))
                              \/ PlainKeyAfterRevokedCert(bare)

\* known_hosts survives a kill at any point.  An update takes away only plain lines of this
\* host and adds only keys the server was let in with, has proved to hold, or that stood there;
\* ssh-keygen -R takes all plain lines of the host and nothing else, and -H leaves what is known
\* as it is (as long as no line is hashed already).  Except that a file written short is put in
\* the place of the old one all the same (hostfile.c:526, 601, 620; ssh-keygen.c:1243, 1265):
\* any line may then be gone, but the file as it was stands beside it as known_hosts.old; an
\* update asked for before may put back a key whose line that took away.
Says(lines, marker, name, key) == \E l \in lines : l.marker = marker /\ name \in l.hosts /\ l.key = key
KnownHostsKept ==
  [][LET before == ToSet(khFile.lines)
         after == ToSet(khFile'.lines)
         mine(l) == l.marker = "none" /\ Name(peer.host, IF peer.port = 22 THEN 0 ELSE peer.port) \in l.hosts
         short == khPhase \in {"rename", "keygen rename"} /\ khTemp.cut
     IN /\ khFile.exists => khFile'.exists
        /\ khFile' # khFile /\ short => khOld = khFile
        /\ khPhase # "keygen rename" =>
             /\ short \/ \A l \in before \ after : l.marker = "none" /\ UpdateLine(l)
             /\ \A l \in after \ before : /\ l.marker = "none" /\ l.hosts \subseteq UpdateNames
                                          /\ l.key \in proved \union {verdict.key.pub} \/ FileHas(l.key) \/ khFile.cut
        /\ khPhase = "keygen rename" /\ khFile' # khFile /\ ~short =>
             /\ kopts.keygen = "delete" => after = {l \in before : ~mine(l)}
             /\ kopts.keygen = "hash" /\ (\A l \in before : ~l.hashed) =>
                  \A m \in {"none", "ca", "revoked"}, n \in UNION {l.hosts : l \in before \union after}, k \in {"K", "L", "C", "G"} :
                    Says(before, m, n, k) <=> Says(after, m, n, k)]_khVars

-----------------------------------------------------------------------------
ConfIdle == /\ files = [n \in {"user", "inc", "gone", "system"} |-> NoFile] /\ cmdline = <<>>
            /\ opts = InitialOptions /\ frames = <<>> /\ todo = <<>> /\ pass = 1
            /\ host = HostArg /\ confPhase = "idle"
ServerIdle == /\ cfgFile = <<>> /\ srvCmdline = <<>> /\ connection = NoConnection /\ srvLine = 1 /\ srvActive = TRUE
              /\ options = <<>> /\ mo = <<>> /\ child = <<>> /\ opens = <<>> /\ srvPhase = "idle"

KnownHostsIdle == /\ khFile = NoHostFile /\ khOld = NoHostFile /\ khTemp = NoHostFile /\ khSystem = <<>> /\ kopts = <<>>
                  /\ peer = <<>> /\ attempt = [n |-> 1, ai |-> 1, left |-> 0] /\ calls = <<>> /\ verdict = NoVerdict /\ prevKey = <<>>
                  /\ updates = <<>> /\ proved = {} /\ khCount = [rekeys |-> 0, updates |-> 0] /\ khPhase = "idle"

KeysIdle ==
  /\ SbInit /\ KrlInit /\ KexIdle /\ AkInit({Absent}) /\ KeyInit({NoFiles}) /\ ModIdle /\ PioIdle /\ ScanInit(FALSE)
PolicyIdle == ConfIdle /\ ServerIdle /\ KnownHostsIdle

Init ==
  \/ scenario \in {"krl", "access", "buffers"} /\ KeysIdle /\ PolicyIdle
  \/ /\ scenario \in {"files", "authorized", "kex", "moduli", "packets", "scan"}
     /\ SbInit /\ KrlInit /\ PolicyIdle
     /\ IF scenario = "kex" THEN KexCases ELSE KexIdle
     /\ AkInit(IF scenario = "authorized" THEN KeyConfigs ELSE {Absent})
     /\ KeyInit(IF scenario = "files" THEN MCFound ELSE {NoFiles})
     /\ IF scenario = "moduli" THEN ModInit ELSE ModIdle
     /\ IF scenario = "packets" THEN PioInit ELSE PioIdle
     /\ \E split \in {FALSE, scenario = "scan"} : ScanInit(split)
  \/ scenario = "ssh_config" /\ KeysIdle /\ ConfInit /\ ServerIdle /\ KnownHostsIdle
  \/ scenario = "sshd_config" /\ KeysIdle /\ ServerInit /\ ConfIdle /\ KnownHostsIdle
  \/ scenario = "known_hosts" /\ KeysIdle /\ KnownHostsCases /\ ConfIdle /\ ServerIdle

Next ==
  /\ UNCHANGED scenario
  /\ \/ /\ UNCHANGED policyVars
        /\ \/ scenario = "krl"   /\ KrlStep   /\ UNCHANGED <<keyVars, akVars, kexVars, sbVars, modVars, pioVars, scanVars>>
           \/ scenario = "files" /\ FilesStep /\ UNCHANGED <<krlVars, akVars, kexVars, sbVars, modVars, pioVars, scanVars>>
           \/ scenario = "authorized" /\ AuthorizedStep /\ UNCHANGED <<krlVars, keyVars, kexVars, sbVars, modVars, pioVars, scanVars>>
           \/ scenario = "kex" /\ KexNext /\ UNCHANGED <<krlVars, keyVars, akVars, sbVars, modVars, pioVars, scanVars>>
           \/ scenario = "buffers" /\ BufferStep /\ UNCHANGED <<krlVars, keyVars, akVars, kexVars, modVars, pioVars, scanVars>>
           \/ scenario = "moduli" /\ ModStep /\ UNCHANGED <<krlVars, keyVars, akVars, kexVars, sbVars, pioVars, scanVars>>
           \/ scenario = "packets" /\ PioNext /\ UNCHANGED <<krlVars, keyVars, akVars, kexVars, sbVars, modVars, scanVars>>
           \/ scenario = "scan" /\ ScanNext /\ UNCHANGED <<krlVars, keyVars, akVars, kexVars, sbVars, modVars, pioVars>>
     \/ /\ UNCHANGED keysVars
        /\ \/ scenario = "ssh_config" /\ ConfNext /\ UNCHANGED <<srvVars, khVars>>
           \/ scenario = "sshd_config" /\ ServerConfNext /\ UNCHANGED <<confVars, khVars>>
           \/ scenario = "known_hosts" /\ KnownHostsNext /\ UNCHANGED <<confVars, srvVars>>

Spec == Init /\ [][Next]_vars

-----------------------------------------------------------------------------
\* The two configuration files mean what their manual pages say (FirstValueWins,
\* ForwardsSound, MatchOverrides).
ConfigurationRight == FirstValueWins /\ ForwardsSound /\ MatchOverrides

\* Whom ssh lets in, what it makes of known_hosts afterwards, and the keys ssh-keyscan
\* collects for it (HostKeyPolicy, KnownHostsKept, ScanExact).
HostKeysSound == []HostKeyPolicy /\ KnownHostsKept /\ [](scenario = "scan" => ScanExact)

\* Access is granted as the server's files say, and only with what they grant it with
\* (AccessExact, OptionsInForce).
AccessSound == []AccessExact /\ OptionsInForce

\* Packets come through whole (PacketsWhole).
PacketsSound == scenario = "packets" => PacketsWhole

\* What is in a key file, and the certificate beside it (KeyKept, CertMatches).
KeyFilesSound == KeyKept /\ CertMatches
=============================================================================
