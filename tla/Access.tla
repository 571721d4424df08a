------------------------------- MODULE Access -------------------------------
(***************************************************************************)
(* Who may log in: wildcard patterns and address lists (match.c,           *)
(* addrmatch.c), groups (groupaccess.c), AllowUsers and its relatives      *)
(* (auth.c), hosts.equiv and .rhosts for host-based authentication         *)
(* (auth-rhosts.c, auth2-hostbased.c), and the keys a user may log in with *)
(* and what they allow (auth2-pubkey.c, auth-options.c), as the monitor    *)
(* runs them for the two questions a login with a key asks it, is the key  *)
(* allowed and is the signature good.                                      *)
(*                                                                         *)
(* A name is a sequence of one-letter strings.  An address is [af, bits]   *)
(* with the widths cut down to Width; its text is its bits after "4" or    *)
(* "6".  An entry of a list is [neg, pat], or [neg, af, bits, len] for     *)
(* address/length with len = -1 if it has no slash.                        *)
(*                                                                         *)
(* An option is [o |-> name] with its value in v.  A line of               *)
(* authorized_keys is [key, opts], or [junk]; one of a principals file is  *)
(* [name, opts].  The options of an accepted line are globals that stay    *)
(* set until something clears them.                                        *)
(***************************************************************************)
EXTENDS Integers, Sequences, FiniteSets, SequencesExt

CONSTANTS
  UserName, RemoteHost, RemoteAddr,
  UserKeys,         \* the keys and certificates a client may offer
  KeyConfigs,       \* the files and settings a server may have
  MaxQuestions      \* bound: questions to the monitor

VARIABLES
  keyConf,          \* the files and settings in force
  keyOpts,          \* the globals of auth-options.c
  prevKeys,         \* prev_userkeys
  heldKey,          \* the key the monitor has allowed, and holds for verify
  loggedIn,         \* the keys that have authenticated, in order
  leftover,         \* history: the options that were set when heldKey was asked about
  questions
akVars == <<keyConf, keyOpts, prevKeys, heldKey, loggedIn, leftover, questions>>

-----------------------------------------------------------------------------
(* Patterns, addresses and lists.                                          *)

Width == [v4 |-> 2, v6 |-> 3]
Drop(s, i) == SubSeq(s, i + 1, Len(s))

RECURSIVE match_pattern(_, _)
match_pattern(s, p) ==
  IF p = <<>> THEN s = <<>>
  ELSE IF Head(p) = "*" THEN
    LET q == Tail(p)
    IN  IF q = <<>> THEN TRUE
        ELSE IF Head(q) \notin {"?", "*"}
        THEN \E i \in 1..Len(s) : s[i] = Head(q) /\ match_pattern(Drop(s, i), Tail(q))
        ELSE \E i \in 1..Len(s) : match_pattern(Drop(s, i - 1), q)
  ELSE IF s = <<>> THEN FALSE
  ELSE Head(p) \in {"?", Head(s)} /\ match_pattern(Tail(s), Tail(p))

Text(a) == <<IF a.af = "v4" THEN "4" ELSE "6">> \o [i \in DOMAIN a.bits |-> IF a.bits[i] = 1 THEN "1" ELSE "0"]
IsNet(e) == "af" \in DOMAIN e
EntryText(e) == IF ~IsNet(e) THEN e.pat ELSE IF e.len = -1 THEN Text(e) ELSE Append(Text(e), "/")

(* Names are in lower case already, and no pattern has the 1024 bytes that *)
(* make the rest of its list match nothing.                                *)
match_pattern_list(s, list) ==
  LET hits == {i \in DOMAIN list : match_pattern(s, EntryText(list[i]))}
  IN  IF \E i \in hits : list[i].neg THEN -1 ELSE IF hits # {} THEN 1 ELSE 0
match_hostname(host, list) == match_pattern_list(host, list)

-----------------------------------------------------------------------------
addr_unicast_masklen(af) == Width[af]
masklen_valid(af, l) == l <= Width[af]
Address(af, f) == [af |-> af, bits |-> f]
addr_netmask(af, l) == Address(af, [i \in 1..Width[af] |-> IF i <= l THEN 1 ELSE 0])
addr_and(a, b) == Address(a.af, [i \in DOMAIN a.bits |-> a.bits[i] * b.bits[i]])
addr_invert(a) == Address(a.af, [i \in DOMAIN a.bits |-> 1 - a.bits[i]])
addr_hostmask(af, l) == addr_invert(addr_netmask(af, l))
addr_is_all0s(a) == \A i \in DOMAIN a.bits : a.bits[i] = 0
addr_host_is_all0s(a, l) == addr_is_all0s(addr_and(a, addr_hostmask(a.af, l)))
addr_cmp(a, b) == IF a = b THEN 0 ELSE 1

(* -1 is no address, -2 an inconsistent mask *)
addr_pton_cidr(e) ==
  IF ~IsNet(e) THEN [r |-> -1]
  ELSE LET l == IF e.len = -1 THEN addr_unicast_masklen(e.af) ELSE e.len
           a == Address(e.af, e.bits)
       IN  IF ~masklen_valid(e.af, l) THEN [r |-> -2]
           ELSE IF ~addr_host_is_all0s(a, l) THEN [r |-> -2]
           ELSE [r |-> 0, net |-> a, len |-> l]
addr_netmatch(host, net, l) ==
  IF host.af # net.af THEN -1 ELSE addr_cmp(addr_and(host, addr_netmask(host.af, l)), net)

NoAddress == [af |-> "none"]
EntryMatches(a, e) ==
  /\ a # NoAddress
  /\ LET c == addr_pton_cidr(e)
     IN  IF c.r = 0 THEN addr_netmatch(a, c.net, c.len) = 0 ELSE match_pattern(Text(a), e.pat)
(* The scan stops at the first bad entry or negated match. *)
BadEntry(e) == EntryText(e) = <<>> \/ addr_pton_cidr(e).r = -2
StopsAt(e, a) == IF BadEntry(e) THEN TRUE ELSE e.neg /\ EntryMatches(a, e)
FirstOf(is) == CHOOSE i \in is : \A j \in is : i <= j
AfterScan(stops, a, list) ==
  IF stops # {} THEN (IF BadEntry(list[FirstOf(stops)]) THEN -2 ELSE -1)
  ELSE IF \E i \in DOMAIN list : EntryMatches(a, list[i]) THEN 1 ELSE 0
addr_match_list(a, list) == AfterScan({i \in DOMAIN list : StopsAt(list[i], a)}, a, list)
(* Without wildcards and negation, for certificates. *)
addr_match_cidr_list(a, list) ==
  IF \E i \in DOMAIN list : addr_pton_cidr(list[i]).r # 0 THEN -1
  ELSE IF \E i \in DOMAIN list : EntryMatches(a, list[i]) THEN 1 ELSE 0

NoHost == <<>>
EitherMatches(mip, mhost) == IF mhost = -1 \/ (mhost = 0 /\ mip = 0) THEN 0 ELSE 1
AddressThenHost(mip, host, a, list) ==
  IF mip = -2 THEN -1
  ELSE IF host = NoHost \/ a = NoAddress \/ mip = -1 THEN 0
  ELSE EitherMatches(mip, match_hostname(host, list))
match_host_and_ip(host, a, list) == AddressThenHost(addr_match_list(a, list), host, a, list)

(* A pattern is [user] or [user, at], user@list *)
HasAt(p) == "at" \in DOMAIN p
match_user(user, host, a, p) ==
  IF ~HasAt(p) THEN (IF match_pattern(user, p.user) THEN 1 ELSE 0)
  ELSE IF ~match_pattern(user, p.user) THEN 0
  ELSE match_host_and_ip(host, a, p.at)
(* what servconf.c checks when it reads the pattern *)
PatternValid(p) == HasAt(p) => match_host_and_ip(NoHost, NoAddress, p.at) >= 0

-----------------------------------------------------------------------------
(* groups of which no name is found are left out *)
ga_init(pw) == SelectSeq(pw.groups, LAMBDA g : g # <<>>)
ga_match(groups, pats) == \E i \in DOMAIN groups, j \in DOMAIN pats : match_pattern(groups[i], pats[j])

FirstHit(rs) ==
  LET stops == {i \in DOMAIN rs : rs[i] # 0}
  IN  IF stops = {} THEN "no" ELSE IF rs[FirstOf(stops)] < 0 THEN "fatal" ELSE "yes"
ListedIn(pw, host, a, pats) == FirstHit([i \in DOMAIN pats |-> match_user(pw.name, host, a, pats[i])])

GroupsAllow(conf, groups) ==
  IF conf.deny_groups = <<>> /\ conf.allow_groups = <<>> THEN "yes"
  ELSE IF groups = <<>> \/ ga_match(groups, conf.deny_groups) THEN "no"
  ELSE IF conf.allow_groups # <<>> /\ ~ga_match(groups, conf.allow_groups) THEN "no"
  ELSE "yes"
ListsAllow(conf, deny, allow, groups) ==
  IF deny # "no" THEN (IF deny = "fatal" THEN "fatal" ELSE "no")
  ELSE IF conf.allow_users # <<>> /\ allow # "yes" THEN allow
  ELSE GroupsAllow(conf, groups)
allowed_user(conf, pw, host, a) ==
  IF ~conf.use_pam /\ pw.locked THEN "no"
  ELSE IF ~conf.chroot /\ pw.shell # "ok" THEN "no"
  ELSE ListsAllow(conf, ListedIn(pw, host, a, conf.deny_users), ListedIn(pw, host, a, conf.allow_users), ga_init(pw))
getpwnamallow(conf, pw, host, a) == IF ~pw.exists THEN "no" ELSE allowed_user(conf, pw, host, a)

-----------------------------------------------------------------------------
(* Files of hosts that are trusted: a line is [neg, hosts, users], users   *)
(* being {} where the line names none, or [junk].  A file is Absent or     *)
(* [safe, lines].                                                          *)
Absent == [absent |-> TRUE]
Exists(f) == f # Absent
check_rhosts_file(f, names, cuser, suser) ==
  Exists(f) /\
    LET l == f.lines
        matches(i) == /\ "junk" \notin DOMAIN l[i]
                      /\ names \cap l[i].hosts # {}
                      /\ cuser \in (IF l[i].users = {} THEN {suser} ELSE l[i].users)
        hit == {i \in DOMAIN l : matches(i)}
    IN  hit # {} /\ ~l[CHOOSE i \in hit : \A j \in hit : i <= j].neg
auth_rhosts2(rh, pw, cuser, names) ==
  /\ \E f \in {"shosts", "rhosts", "equiv", "sequiv"} : Exists(rh[f])
  /\ \/ ~pw.root /\ \E f \in {"equiv", "sequiv"} : check_rhosts_file(rh[f], names, cuser, pw.name)
     \/ /\ rh.homeSafe \/ ~rh.strict
        /\ \E f \in {"shosts", "rhosts"} :
             /\ Exists(rh[f])
             /\ rh[f].safe \/ ~rh.strict
             /\ ~rh.ignore_rhosts
             /\ check_rhosts_file(rh[f], names, cuser, pw.name)

(* A key is [key, revoked, cert]; a certificate also has a CA, a kind,     *)
(* whether it is valid now, and principals.                                *)
sshkey_cert_check_authority(k, kind, require, name) ==
  /\ k.kind = kind /\ k.valid
  /\ k.principals = {} => ~require
  /\ k.principals # {} /\ name # NoHost => name \in k.principals

(* The user's own known hosts count if others cannot write them. *)
check_key_in_hostfiles(hk, strict, k, name) ==
  LET known   == {e \in hk.sys \cup (IF strict /\ ~hk.userSafe THEN {} ELSE hk.user) : e.host = name}
      same(e) == e.ca = k.cert /\ e.key = (IF k.cert THEN k.ca ELSE k.key)
  IN  IF \E e \in known : e.revoked /\ e.key \in (IF k.cert THEN {k.key, k.ca} ELSE {k.key}) THEN "revoked"
      ELSE IF \E e \in known : ~e.revoked /\ same(e) THEN "ok"
      ELSE "new"
hostbased_key_allowed(rh, hk, pw, cuser, chost, resolved, ip, k) ==
  LET lookup == IF rh.from_packet THEN chost ELSE resolved
  IN  /\ ~k.revoked
      /\ auth_rhosts2(rh, pw, cuser, IF rh.from_packet THEN {chost} ELSE {resolved, ip})
      /\ k.cert => sshkey_cert_check_authority(k, "host", FALSE, lookup)
      /\ check_key_in_hostfiles(hk, rh.strict, k, lookup) = "ok"

-----------------------------------------------------------------------------
(* Keys and their options.                                                 *)
Flags == {"port", "agent", "x11", "pty", "rc"}
auth_clear_options ==
  [no |-> {}, ca |-> FALSE, command |-> "", env |-> <<>>, tun |-> -1, hasPrincipals |-> FALSE, principals |-> {},
   opens |-> {}]

SetOption(t, o) ==
  CASE t.o = "cert-authority" -> [o EXCEPT !.ca = TRUE]
    [] t.o = "restrict"       -> [o EXCEPT !.no = Flags]
    [] t.o = "enable"         -> [o EXCEPT !.no = @ \ {t.v}]
    [] t.o = "disable"        -> [o EXCEPT !.no = @ \cup {t.v}]
    [] t.o = "command"        -> [o EXCEPT !.command = t.v]
    [] t.o = "principals"     -> [o EXCEPT !.hasPrincipals = TRUE, !.principals = t.v]
    [] t.o = "environment"    -> IF keyConf.permit_user_env THEN [o EXCEPT !.env = <<t.v>> \o @] ELSE o
    [] t.o = "permitopen"     -> IF keyConf.local_forwarding THEN [o EXCEPT !.opens = @ \cup {t.v}] ELSE o
    [] t.o = "tunnel"         -> [o EXCEPT !.tun = t.v]
    [] OTHER                  -> o
OptionDenies(t) == t.o = "bad" \/ (t.o = "from" /\ match_host_and_ip(RemoteHost, RemoteAddr, t.v) # 1)
(* Access is denied at the first option that denies it; those before it    *)
(* stay set.                                                               *)
auth_parse_options(toks) ==
  LET denies == {i \in DOMAIN toks : OptionDenies(toks[i])}
      upto   == IF denies = {} THEN toks ELSE SubSeq(toks, 1, (CHOOSE i \in denies : \A j \in denies : i <= j) - 1)
  IN  [ok |-> denies = {}, opts |-> FoldLeft(LAMBDA o, t : SetOption(t, o), auth_clear_options, upto)]

(* A certificate's critical options, in order, and its extensions. *)
parse_option_list(k) ==
  LET crit  == k.critical
      named(n) == {i \in DOMAIN crit : crit[i].o = n}
      cmds  == named("force-command")
  IN  [ok  |-> /\ Cardinality(cmds) <= 1 /\ Cardinality(named("source-address")) <= 1
               /\ \A i \in named("source-address") : addr_match_cidr_list(RemoteAddr, crit[i].v) = 1
               /\ DOMAIN crit = cmds \cup named("source-address"),
       cmd |-> IF cmds = {} THEN "" ELSE crit[CHOOSE i \in cmds : TRUE].v,
       no  |-> Flags \ k.extensions]
ForcedCommand(c, o) == IF c.cmd = "" THEN o.command ELSE c.cmd
Replaced(c, o) ==
  IF ~c.ok THEN [ok |-> FALSE, opts |-> o]
  ELSE [ok |-> TRUE, opts |-> [o EXCEPT !.no = c.no, !.command = ForcedCommand(c, o)]]
AuthCertOptions_replaces(k, o) == Replaced(parse_option_list(k), o)
Merged(c, o) ==
  IF ~c.ok THEN [ok |-> FALSE, opts |-> o]
  ELSE IF c.cmd # "" /\ o.command # "" /\ c.cmd # o.command
  THEN [ok |-> FALSE, opts |-> [o EXCEPT !.no = @ \cup c.no]]
  ELSE [ok |-> TRUE, opts |-> [o EXCEPT !.no = @ \cup c.no, !.command = ForcedCommand(c, o)]]
auth_cert_options(k, o) == Merged(parse_option_list(k), o)

-----------------------------------------------------------------------------
match_principals_option(principals, k) == principals \cap k.principals # {}
process_principals(lines, k, o) ==
  FoldLeft(LAMBDA acc, l :
             IF acc.found \/ l.name \notin k.principals THEN acc
             ELSE LET p == auth_parse_options(l.opts) IN [found |-> p.ok, opts |-> p.opts],
           [found |-> FALSE, opts |-> o], lines)
(* with StrictModes, the file and the directories above it *)
auth_secure_path(f) == f.safe
auth_openfile(f) == Exists(f) /\ (keyConf.strict_modes => auth_secure_path(f))
match_principals_file(f, k, o) ==
  IF auth_openfile(f) THEN process_principals(f.lines, k, o) ELSE [found |-> FALSE, opts |-> o]
(* A command's output counts if the command can be run as its user and     *)
(* exits with status 0.                                                    *)
subprocess(c) == Exists(c) /\ c.user /\ c.safe
exited_cleanly(c) == c.clean
match_principals_command(c, k, o) ==
  IF ~subprocess(c) THEN [found |-> FALSE, opts |-> o]
  ELSE LET p == process_principals(c.lines, k, o) IN [p EXCEPT !.found = @ /\ exited_cleanly(c)]

UsesPrincipals == Exists(keyConf.principals_file) \/ Exists(keyConf.principals_command)
FileThenCommand(file, k) ==
  IF file.found THEN file ELSE match_principals_command(keyConf.principals_command, k, file.opts)
TrustedFor(p, k) ==
  IF \/ UsesPrincipals /\ ~p.found
     \/ ~sshkey_cert_check_authority(k, "user", TRUE, IF UsesPrincipals THEN NoHost ELSE UserName)
  THEN [ok |-> FALSE, opts |-> p.opts]
  ELSE auth_cert_options(k, p.opts)
user_cert_trusted_ca(k, o) ==
  IF ~k.cert \/ k.ca \notin keyConf.trusted_user_ca_keys THEN [ok |-> FALSE, opts |-> o]
  ELSE TrustedFor(FileThenCommand(match_principals_file(keyConf.principals_file, k, o), k), k)

LineVerdict(ok, opts) == [found |-> ok, opts |-> opts]
UserKeyLine(p) == LineVerdict(p.ok /\ ~p.opts.ca, p.opts)
AuthorityLine(p, k) ==
  IF /\ p.ok /\ p.opts.ca
     /\ p.opts.hasPrincipals => match_principals_option(p.opts.principals, k)
     /\ sshkey_cert_check_authority(k, "user", FALSE, IF p.opts.hasPrincipals THEN NoHost ELSE UserName)
  THEN LET c == auth_cert_options(k, p.opts) IN LineVerdict(c.ok, c.opts)
  ELSE LineVerdict(FALSE, p.opts)
AuthorizedLine(l, k) ==
  IF l.key # (IF k.cert THEN k.ca ELSE k.key) THEN LineVerdict(FALSE, auth_clear_options)
  ELSE IF k.cert THEN AuthorityLine(auth_parse_options(l.opts), k)
  ELSE UserKeyLine(auth_parse_options(l.opts))
check_authkeys_file(lines, k, o) ==
  FoldLeft(LAMBDA acc, l :
             IF acc.found THEN acc
             ELSE IF "junk" \in DOMAIN l THEN [found |-> FALSE, opts |-> auth_clear_options]
             ELSE AuthorizedLine(l, k),
           [found |-> FALSE, opts |-> o], lines)
user_key_allowed2(f, k, o) ==
  IF auth_openfile(f) THEN check_authkeys_file(f.lines, k, o) ELSE [found |-> FALSE, opts |-> o]
user_key_command_allowed2(c, k, o) ==
  IF ~subprocess(c) THEN [found |-> FALSE, opts |-> o]
  ELSE LET p == check_authkeys_file(c.lines, k, o) IN [p EXCEPT !.found = @ /\ exited_cleanly(c)]

Revoked(k) == k.key \in keyConf.revoked \/ (k.cert /\ k.ca \in keyConf.revoked)
CommandThenFiles(k, o) ==
  FoldLeft(LAMBDA acc, f : IF acc.found THEN acc ELSE user_key_allowed2(f, k, acc.opts),
           user_key_command_allowed2(keyConf.keys_command, k, o), keyConf.keys_files)
CaThenKeys(ca, k) == IF ca.ok THEN LineVerdict(TRUE, ca.opts) ELSE CommandThenFiles(k, ca.opts)
user_key_allowed(k, o) == IF Revoked(k) THEN LineVerdict(FALSE, o) ELSE CaThenKeys(user_cert_trusted_ca(k, o), k)

auth2_userkey_already_used(k) == \E p \in prevKeys : p.key = k.key
NoKey == [none |-> TRUE]

-----------------------------------------------------------------------------
(* A question about a key; attempt if a signature comes with it. *)
mm_answer_keyallowed(k, attempt) ==
  /\ questions < MaxQuestions
  /\ questions' = questions + 1
  /\ \E a \in {IF auth2_userkey_already_used(k) THEN LineVerdict(FALSE, keyOpts) ELSE user_key_allowed(k, keyOpts)} :
       /\ keyOpts' = IF ~attempt \/ ~a.found THEN auth_clear_options ELSE a.opts
       /\ heldKey' = IF a.found THEN [key |-> k, attempt |-> attempt] ELSE NoKey
  /\ leftover' = keyOpts
  /\ UNCHANGED <<keyConf, prevKeys, loggedIn>>

(* The signature is checked, which userauth_pubkey asks for only after it  *)
(* asked about the key for the attempt; a key that was used is not used    *)
(* again.  Two keys may be asked for (AuthenticationMethods).              *)
mm_answer_keyverify(good) ==
  /\ heldKey # NoKey /\ heldKey.attempt
  /\ heldKey' = NoKey
  /\ IF good
     THEN /\ prevKeys' = prevKeys \cup {heldKey.key}
          /\ loggedIn' = Append(loggedIn, heldKey.key)
     ELSE UNCHANGED <<prevKeys, loggedIn>>
  /\ UNCHANGED <<keyConf, keyOpts, leftover, questions>>

AkInit(confs) ==
  /\ keyConf \in confs
  /\ keyOpts = auth_clear_options
  /\ prevKeys = {} /\ heldKey = NoKey /\ loggedIn = <<>> /\ leftover = auth_clear_options /\ questions = 0
=============================================================================
