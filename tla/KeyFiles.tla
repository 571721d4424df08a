------------------------------ MODULE KeyFiles ------------------------------
(***************************************************************************)
(* Keys, their encodings and the files they are kept in: sshkey.c and      *)
(* authfile.c, with the ssh-keygen operations that write such files (a new *)
(* key, -A, -p, -c, -s) one open, write and close at a time.               *)
(*                                                                         *)
(* A key is [type, nid, pub, prv, cert]: pub stands for the public half,   *)
(* prv says whether the private half is there, and cert is NoCert or the   *)
(* fields a CA signs.  A blob is the record of the fields that are put on  *)
(* the wire.  A signature names its signer and what it signs.              *)
(*                                                                         *)
(* The last part is the other file ssh-keygen makes: the moduli (moduli.c). *)
(***************************************************************************)
EXTENDS Integers, Sequences, FiniteSets, SequencesExt, FiniteSetsExt

CONSTANTS
  KeyNames,       \* the private key files; x has x.pub and x-cert.pub beside it
  HostKeyNames,   \* those ssh-keygen -A makes, in order: <<name, type>>
  Passphrases,    \* with "" for none
  ShortPhrases,   \* those of 1 to 4 characters
  B64Lengths,     \* how long the base64 text of a key may be
  MaxKeys,        \* bound: keys that are generated
  MaxCommands,    \* bound: runs of ssh-keygen
  MaxFaults       \* bound: writes that fail, and crashes

NoCert == [none |-> TRUE]
Err(why) == [err |-> why]
IsErr(r) == "err" \in DOMAIN r

-----------------------------------------------------------------------------
(* The table of key types; RSA1 is not compiled in. *)
Row(name, short, type, nid, cert, sigonly) ==
  [name |-> name, short |-> short, type |-> type, nid |-> nid, cert |-> cert, sigonly |-> sigonly]
keytypes ==
  {Row("ssh-ed25519", "ED25519", "ED25519", 0, FALSE, FALSE), Row("ssh-ed25519-cert", "", "ED25519_CERT", 0, TRUE, FALSE),
   Row("ssh-rsa", "RSA", "RSA", 0, FALSE, FALSE), Row("rsa-sha2-256", "RSA", "RSA", 0, FALSE, TRUE),
   Row("ssh-rsa-cert", "", "RSA_CERT", 0, TRUE, FALSE),
   Row("ecdsa-256", "ECDSA", "ECDSA", 256, FALSE, FALSE), Row("ecdsa-384", "ECDSA", "ECDSA", 384, FALSE, FALSE),
   Row("ecdsa-256-cert", "", "ECDSA_CERT", 256, TRUE, FALSE), Row("ecdsa-384-cert", "", "ECDSA_CERT", 384, TRUE, FALSE)}
CertTypes == {r.type : r \in {x \in keytypes : x.cert}}
sshkey_type_is_cert(type) == type \in CertTypes
sshkey_type_plain(type) ==
  CASE type = "RSA_CERT" -> "RSA" [] type = "ECDSA_CERT" -> "ECDSA" [] type = "ED25519_CERT" -> "ED25519" [] OTHER -> type
CertTypeOf(type) == CHOOSE t \in CertTypes : sshkey_type_plain(t) = type
sshkey_type_is_valid_ca(type) == type \in {"RSA", "ECDSA", "ED25519"}
sshkey_ssh_name_from_type_nid(type, nid) ==
  (CHOOSE r \in keytypes : r.type = type /\ (r.nid = 0 \/ r.nid = nid) /\ ~r.sigonly).name
sshkey_ssh_name(k) == sshkey_ssh_name_from_type_nid(k.type, k.nid)
sshkey_type_from_name(name) ==
  LET rows == {r \in keytypes : r.name = name \/ (~r.cert /\ r.short = name)}
  IN  IF rows = {} THEN "UNSPEC" ELSE (CHOOSE r \in rows : TRUE).type
sshkey_ecdsa_nid_from_name(name) ==
  LET rows == {r \in keytypes : sshkey_type_plain(r.type) = "ECDSA" /\ r.name = name}
  IN  IF rows = {} THEN -1 ELSE (CHOOSE r \in rows : TRUE).nid

-----------------------------------------------------------------------------
(* Keys. *)
IsCertKey(k) == sshkey_type_is_cert(k.type)
sshkey_generate(type, nid, n) ==
  [type |-> type, nid |-> IF type = "ECDSA" THEN nid ELSE 0, pub |-> n, prv |-> TRUE, cert |-> NoCert]
sshkey_from_private(k) == [k EXCEPT !.prv = FALSE]
sshkey_equal_public(a, b) ==
  sshkey_type_plain(a.type) = sshkey_type_plain(b.type) /\ a.nid = b.nid /\ a.pub = b.pub
sshkey_to_certified(k) == [k EXCEPT !.type = CertTypeOf(@)]
sshkey_cert_copy(from, to) == [to EXCEPT !.cert = from.cert]

(* What a CA signs: everything before the signature. *)
SignedPart(name, k, fields, ca) == [name |-> name, nid |-> k.nid, pub |-> k.pub, fields |-> fields, ca |-> ca]
sshkey_sign(k, data) == [by |-> k.pub, over |-> data]
sshkey_verify(k, sig, data) == sig.by = k.pub /\ sig.over = data

to_blob(k) ==
  IF IsCertKey(k) THEN k.cert.blob
  ELSE [name |-> sshkey_ssh_name(k), nid |-> k.nid, pub |-> k.pub]
sshkey_certify(k, ca, fields) ==
  IF ~IsCertKey(k) \/ ~sshkey_type_is_valid_ca(ca.type) THEN Err("cannot certify")
  ELSE LET part == SignedPart(sshkey_ssh_name(k), k, fields, to_blob(ca))
       IN  [k EXCEPT !.cert = [blob |-> [part |-> part, sig |-> sshkey_sign(ca, part)], fields |-> fields, ca |-> to_blob(ca)]]

(* A plain blob, for a public key or for the CA inside a certificate. *)
PlainFromBlob(b) ==
  LET type == sshkey_type_from_name(b.name)
  IN  IF type = "UNSPEC" \/ sshkey_type_is_cert(type) THEN Err("type")
      ELSE IF type = "ECDSA" /\ b.nid # sshkey_ecdsa_nid_from_name(b.name) THEN Err("curve")
      ELSE [type |-> type, nid |-> b.nid, pub |-> b.pub, prv |-> FALSE, cert |-> NoCert]
SignedBy(ca, b, type) ==
  IF b.part.fields.kind \notin {"user", "host"} THEN Err("kind")
  ELSE IF IsErr(ca) THEN Err("ca")
  ELSE IF ~sshkey_type_is_valid_ca(ca.type) \/ ~sshkey_verify(ca, b.sig, b.part) THEN Err("signature")
  ELSE [type |-> type, nid |-> b.part.nid, pub |-> b.part.pub, prv |-> FALSE,
        cert |-> [blob |-> b, fields |-> b.part.fields, ca |-> b.part.ca]]
cert_parse(b, type) == SignedBy(PlainFromBlob(b.part.ca), b, type)
sshkey_from_blob(b) ==
  IF "part" \notin DOMAIN b THEN PlainFromBlob(b)
  ELSE LET type == sshkey_type_from_name(b.part.name)
       IN  IF ~sshkey_type_is_cert(type) THEN Err("type")
           ELSE IF type = "ECDSA_CERT" /\ b.part.nid # sshkey_ecdsa_nid_from_name(b.part.name) THEN Err("curve")
           ELSE cert_parse(b, type)

(* One line of a public key file. *)
sshkey_write(k) == [name |-> sshkey_ssh_name(k), blob |-> to_blob(k)]
ReadAs(type, name, k) ==
  IF type = "UNSPEC" THEN Err("format")
  ELSE IF IsErr(k) THEN k
  ELSE IF k.type # type THEN Err("type")
  ELSE IF sshkey_type_plain(type) = "ECDSA" /\ sshkey_ecdsa_nid_from_name(name) # k.nid THEN Err("curve")
  ELSE k
sshkey_read(line) == ReadAs(sshkey_type_from_name(line.name), line.name, sshkey_from_blob(line.blob))

-----------------------------------------------------------------------------
(* Private key files. *)
sshkey_private_serialize(k) ==
  [name |-> sshkey_ssh_name(k), pub |-> IF IsCertKey(k) THEN to_blob(k) ELSE [nid |-> k.nid, pub |-> k.pub], secret |-> k.pub]
WithSecret(k) == IF IsErr(k) THEN k ELSE [k EXCEPT !.prv = TRUE]
DeserializeAs(type, s) ==
  IF type = "UNSPEC" THEN Err("type")
  ELSE IF sshkey_type_is_cert(type) THEN WithSecret(sshkey_from_blob(s.pub))
  ELSE IF type = "ECDSA" /\ sshkey_ecdsa_nid_from_name(s.name) # s.pub.nid THEN Err("curve")
  ELSE [type |-> type, nid |-> s.pub.nid, pub |-> s.pub.pub, prv |-> TRUE, cert |-> NoCert]
sshkey_private_deserialize(s) == DeserializeAs(sshkey_type_from_name(s.name), s)

(* Line breaks go in after every 70th character, and one at the end unless *)
(* n % 70 = 69; the reader wants one before the end marker.                *)
BreakBeforeEnd(n) == n % 70 # 69
sshkey_private_to_blob2(k, pass, comment, n) ==
  [form |-> "new", cipher |-> IF pass = "" THEN "none" ELSE "aes256-cbc", kdf |-> IF pass = "" THEN "none" ELSE "bcrypt",
   pass |-> pass, nkeys |-> 1, body |-> sshkey_private_serialize(k), comment |-> comment, ended |-> BreakBeforeEnd(n)]
sshkey_parse_private2(b, pass) ==
  IF b.form # "new" \/ ~b.ended THEN Err("format")
  ELSE IF pass = "" /\ b.cipher # "none" THEN Err("passphrase")
  ELSE IF (b.kdf = "none" /\ b.cipher # "none") \/ b.nkeys # 1 THEN Err("format")
  ELSE IF b.cipher # "none" /\ pass # b.pass THEN Err("passphrase")    \* the check bytes differ
  ELSE sshkey_private_deserialize(b.body)

(* OpenSSL's own format, which keeps no comment. *)
sshkey_private_pem_to_blob(k, pass) ==
  IF pass \in ShortPhrases THEN Err("passphrase too short")
  ELSE [form |-> "pem", pass |-> pass, key |-> k]
sshkey_parse_private_pem_fileblob(b, type, pass) ==
  IF b.form # "pem" THEN Err("format")
  ELSE IF b.pass # "" /\ pass # b.pass THEN Err("passphrase")
  ELSE IF type \notin {"UNSPEC", b.key.type} THEN Err("format")
  ELSE b.key

sshkey_private_to_fileblob(k, pass, comment, new, n) ==
  CASE k.type = "ED25519"                  -> sshkey_private_to_blob2(k, pass, comment, n)
    [] k.type \in {"RSA", "ECDSA"} /\ new  -> sshkey_private_to_blob2(k, pass, comment, n)
    [] k.type \in {"RSA", "ECDSA"} /\ ~new -> sshkey_private_pem_to_blob(k, pass)
    [] OTHER                               -> Err("type")
NewOrPem(k, b, type, pass) ==
  IF k = Err("passphrase") \/ ~IsErr(k) THEN k ELSE sshkey_parse_private_pem_fileblob(b, type, pass)
sshkey_parse_private_fileblob_type(b, type, pass) ==
  CASE type \in {"RSA", "ECDSA"} -> sshkey_parse_private_pem_fileblob(b, type, pass)
    [] type = "ED25519"          -> sshkey_parse_private2(b, pass)
    [] type = "UNSPEC"           -> NewOrPem(sshkey_parse_private2(b, pass), b, type, pass)
    [] OTHER                     -> Err("type")
CommentOf(b) == IF b.form = "new" THEN b.comment ELSE ""

-----------------------------------------------------------------------------
VARIABLES
  disk,       \* <<name, "prv" | "pub" | "cert">> -> the file
  keygen,     \* the run of ssh-keygen that is under way
  owner,      \* history: the key that name should hold, and its passphrase
  generated,
  commands,
  faults
keyVars == <<disk, keygen, owner, generated, commands, faults>>

Gone == [form |-> "gone"]
Torn == [form |-> "torn"]        \* empty, or cut short
Here(f) == disk[f] # Gone
Idle == [pc |-> "idle", writes |-> <<>>]
Nobody == [pub |-> 0]

sshkey_perm_ok(f) == ~disk[f].loose
sshkey_load_private_type(type, name, pass) ==
  LET f == <<name, "prv">>
  IN  IF ~Here(f) THEN Err("system")
      ELSE IF ~sshkey_perm_ok(f) THEN Err("permissions")
      ELSE sshkey_parse_private_fileblob_type(disk[f].blob, type, pass)
sshkey_load_private(name, pass) == sshkey_load_private_type("UNSPEC", name, pass)
sshkey_try_load_public(f) ==
  IF ~Here(f) THEN Err("system")
  ELSE IF disk[f].blob.form # "line" THEN Err("format")
  ELSE sshkey_read(disk[f].blob.line)
(* A private key file is no public one, so it is always x.pub that counts. *)
sshkey_load_public(name) == sshkey_try_load_public(<<name, "pub">>)
sshkey_load_cert(name) == sshkey_try_load_public(<<name, "cert">>)
Certified(k, c, same) ==
  IF IsErr(k) THEN k ELSE IF IsErr(c) THEN c
  ELSE IF ~same THEN Err("mismatch")
  ELSE sshkey_cert_copy(c, sshkey_to_certified(k))
SamePublic(k, c) == IsErr(k) \/ IsErr(c) \/ sshkey_equal_public(k, c)
CertFor(k, c) == Certified(k, c, SamePublic(k, c))
sshkey_load_private_cert(type, name, pass) ==
  CertFor(sshkey_load_private_type(type, name, pass), sshkey_load_cert(name))
(* The passphrase is tried empty first. *)
Retried(k, name, pass) == IF k = Err("passphrase") THEN sshkey_load_private(name, pass) ELSE k
load_identity(name, pass) == Retried(sshkey_load_private(name, ""), name, pass)

-----------------------------------------------------------------------------
(* The steps of a run: writes is what it has yet to write, in order, each  *)
(* [file, blob]; a file that is already there keeps its mode.       *)
Write(f, blob) == [file |-> f, blob |-> blob]
Loose(f) == Here(f) /\ disk[f].loose
Starts(op, writes, own) ==
  /\ keygen' = [pc |-> "open", op |-> op, writes |-> writes, own |-> own]
  /\ commands' = commands + 1
  /\ UNCHANGED <<disk, owner, faults>>
CanRun == keygen = Idle /\ commands < MaxCommands
FinishesWith(writes) ==
  keygen' = IF writes = <<>> THEN Idle ELSE [keygen EXCEPT !.pc = "open", !.writes = writes]

PublicLine(k) == [form |-> "line", line |-> sshkey_write(sshkey_from_private(k))]

(* ssh-keygen -t type -f name; an existing file only if the user says so. *)
GenerateKey(name, type, nid, pass, new, overwrite, n) ==
  LET k == sshkey_generate(type, nid, generated + 1)
      b == sshkey_private_to_fileblob(k, pass, "c1", new, n)
  IN  /\ CanRun /\ generated < MaxKeys
      /\ Here(<<name, "prv">>) => overwrite
      /\ ~IsErr(b)
      /\ generated' = generated + 1
      /\ Starts("generate", <<Write(<<name, "prv">>, b), Write(<<name, "pub">>, PublicLine(k))>>,
                [name |-> name, pub |-> k.pub, pass |-> pass])

(* ssh-keygen -A: host keys that are missing; a failure skips to the next. *)
do_gen_all_hostkeys(n) ==
  LET missing == SelectSeq(HostKeyNames, LAMBDA h : ~Here(<<h[1], "prv">>))
      key(i)  == sshkey_generate(missing[i][2], 256, generated + i)
      pair(i) == <<Write(<<missing[i][1], "prv">>, sshkey_private_to_fileblob(key(i), "", "c1", FALSE, n)),
                   Write(<<missing[i][1], "pub">>, PublicLine(key(i)))>>
  IN  /\ CanRun /\ missing # <<>> /\ generated + Len(missing) <= MaxKeys
      /\ generated' = generated + Len(missing)
      /\ Starts("all", FlattenSeq([i \in 1..Len(missing) |-> pair(i)]),
                [i \in 1..Len(missing) |-> [name |-> missing[i][1], pub |-> generated + i, pass |-> ""]])

(* ssh-keygen -p *)
Rewrites(op, k, name, pass, writes) ==
  /\ CanRun /\ Here(<<name, "prv">>)
  /\ Starts(op, writes, [name |-> name, pub |-> k.pub, pass |-> pass])
  /\ UNCHANGED generated
do_change_passphrase(name, old, pass, new, n) ==
  \E k \in {load_identity(name, old)} :
    /\ ~IsErr(k)
    /\ \E b \in {sshkey_private_to_fileblob(k, pass, CommentOf(disk[<<name, "prv">>].blob), new, n)} :
         /\ ~IsErr(b)
         /\ Rewrites("passphrase", k, name, pass, <<Write(<<name, "prv">>, b)>>)

ChangesComment(name, typed, keep, own, new, n) ==
  \E k \in {load_identity(name, typed)} :
    /\ ~IsErr(k) /\ (k.type = "ED25519" \/ new)
    /\ \E b \in {sshkey_private_to_fileblob(k, keep, "c2", new, n)} :
         /\ ~IsErr(b)
         /\ Rewrites("comment", k, name, own, <<Write(<<name, "prv">>, b), Write(<<name, "pub">>, PublicLine(k))>>)
ChangeComment_typed(name, pass, new, n) == ChangesComment(name, pass, pass, owner[name].pass, new, n)
(* ssh-keygen -c; the file is rewritten with the passphrase it was read with. *)
do_change_comment(name, pass, new, n) ==
  \E keep \in {IF IsErr(sshkey_load_private(name, "")) THEN pass ELSE ""} : ChangesComment(name, pass, keep, keep, new, n)
(* ssh-keygen -s ca name *)
do_ca_sign(caname, pass, name, fields) ==
  \E ca \in {load_identity(caname, pass)}, k \in {sshkey_load_public(name)} :
    /\ CanRun
    /\ ~IsErr(ca) /\ ~IsErr(k) /\ k.type \in {"RSA", "ECDSA", "ED25519"}
    /\ \E c \in {sshkey_certify(sshkey_to_certified(k), ca, fields)} :
         /\ ~IsErr(c)
         /\ Starts("sign", <<Write(<<name, "cert">>, [form |-> "line", line |-> sshkey_write(c)])>>, Nobody)
    /\ UNCHANGED generated

-----------------------------------------------------------------------------
Owned(o, own) == IF "pub" \in DOMAIN own THEN [o EXCEPT ![own.name] = own] ELSE o
OwnAfter(f) ==
  IF keygen.op = "all"
  THEN LET i == CHOOSE j \in DOMAIN keygen.own : keygen.own[j].name = f[1] IN Owned(owner, keygen.own[i])
  ELSE IF keygen.op = "sign" THEN owner ELSE Owned(owner, keygen.own)
SkipRest(w) == IF keygen.op = "all" THEN SelectSeq(w, LAMBDA x : x.file[1] # w[1].file[1]) ELSE <<>>

(* open(O_CREAT | O_TRUNC) *)
KeygenOpens ==
  LET w == Head(keygen.writes)
  IN  /\ keygen.pc = "open"
      /\ disk' = [disk EXCEPT ![w.file] = [blob |-> Torn, loose |-> Loose(w.file)]]
      /\ keygen' = [keygen EXCEPT !.pc = "write"]
      /\ UNCHANGED <<owner, generated, commands, faults>>

KeygenWrites ==
  LET w == Head(keygen.writes)
  IN  /\ keygen.pc = "write"
      /\ disk' = [disk EXCEPT ![w.file].blob = w.blob]
      /\ owner' = IF w.file[2] = "prv" THEN OwnAfter(w.file) ELSE owner
      /\ FinishesWith(Tail(keygen.writes))
      /\ UNCHANGED <<generated, commands, faults>>

(* The write fails.  A private key file is removed again; a public one is  *)
(* left as it is.                                                          *)
KeygenWriteFails ==
  LET w == Head(keygen.writes)
  IN  /\ keygen.pc = "write" /\ faults < MaxFaults
      /\ faults' = faults + 1
      /\ disk' = IF w.file[2] = "prv" THEN [disk EXCEPT ![w.file] = Gone] ELSE disk
      /\ FinishesWith(SkipRest(keygen.writes))
      /\ UNCHANGED <<owner, generated, commands>>

KeygenKilled ==
  /\ keygen # Idle /\ faults < MaxFaults
  /\ faults' = faults + 1
  /\ keygen' = Idle
  /\ UNCHANGED <<disk, owner, generated, commands>>

(* The owner lets others read a file. *)
Chmod(f) ==
  /\ keygen = Idle /\ Here(f) /\ ~disk[f].loose
  /\ disk' = [disk EXCEPT ![f].loose = TRUE]
  /\ UNCHANGED <<keygen, owner, generated, commands, faults>>

FileNames == KeyNames \X {"prv", "pub", "cert"}
KeyInit(extra) ==
  /\ disk \in {[f \in FileNames |-> IF f \in DOMAIN e THEN [blob |-> e[f], loose |-> FALSE] ELSE Gone] : e \in extra}
  /\ keygen = Idle
  /\ owner = [x \in KeyNames |-> Nobody]
  /\ generated = 0 /\ commands = 0 /\ faults = 0

-----------------------------------------------------------------------------
(* ssh-keygen -G and -T (moduli.c): candidates for Diffie-Hellman groups   *)
(* are sieved from a start number and written to a file; the file is then  *)
(* screened line by line, for days, with a checkpoint from which a screen  *)
(* that was killed goes on.  Numbers are small, the sieve's limits         *)
(* (TINY_NUMBER, SMALL_MAXIMUM) are constants; Miller-Rabin is exact.      *)
CONSTANTS
  SieveStarts,     \* largebase: odd start numbers
  largebits,       \* odd numbers in the large sieve
  TINY_NUMBER, SMALL_MAXIMUM, QSIZE_MINIMUM,
  OtherLines,      \* lines an administrator may have added to a file
  Screens,         \* [generator, start, num]: -W, -j, -J
  MaxInterrupts    \* bound: kills and full disks

ASSUME SieveReach == SMALL_MAXIMUM <= (TINY_NUMBER + 1) * (TINY_NUMBER + 1)

VARIABLES
  modBase,   \* the start number of the candidate file
  modFile,   \* lines of the candidate file
  modOpts,   \* what the screen was asked for
  modScreen, \* the screening process
  modCpt,    \* the checkpoint file: a line number, 0 when there is none
  modOut,    \* the output, with the line each modulus came from
  modHist    \* [lost: lines under test at a kill, full: the disk was full, n]

modVars == <<modBase, modFile, modOpts, modScreen, modCpt, modOut, modHist>>

tinybits  == TINY_NUMBER \div 2
smallbits == TINY_NUMBER \div 2

Multiples(from, step, limit) == {u \in from .. limit - 1 : (u - from) % step = 0}

(* The entries of the large sieve, which stand for q = base + 2j, where s   *)
(* divides q or p = 2q + 1                                                  *)
sieve_large(base, s) ==
  LET r1 == base % s
      u1 == IF r1 = 0 THEN 0 ELSE s - r1
      q1 == IF u1 % 2 = 1 THEN u1 + s ELSE u1
      r2 == (2 * r1 + 1) % s
      u2 == IF r2 = 0 THEN 0 ELSE s - r2
      q2 == CHOOSE u \in {u2 + k * s : k \in 0 .. 3} :
              u % 4 = 0 /\ \A k \in 0 .. 3 : (u2 + k * s) % 4 = 0 => u <= u2 + k * s
  IN  (IF u1 < largebits * 2 THEN Multiples(q1 \div 2, s, largebits) ELSE {})
      \cup (IF u2 < largebits * 4 THEN Multiples(q2 \div 4, s, largebits) ELSE {})

(* Composite entries of TinySieve: entry i stands for 2i + 3                *)
TinySieve ==
  FoldLeft(LAMBDA marked, i : IF i \in marked THEN marked
                              ELSE marked \cup Multiples(i + 2 * i + 3, 2 * i + 3, tinybits),
           {}, [n \in 1 .. tinybits |-> n - 1])
TinyPrimes == {2 * i + 3 : i \in (0 .. tinybits - 1) \ TinySieve}

(* Entry i of a block of SmallSieve stands for 2i + smallbase               *)
SmallSieve(smallbase) ==
  UNION {LET r == smallbase % t
             s == IF r = 0 THEN 0 ELSE t - r
         IN  Multiples((IF s % 2 = 1 THEN s + t ELSE s) \div 2, t, smallbits) : t \in TinyPrimes}
SmallBases == {b \in TINY_NUMBER + 3 .. SMALL_MAXIMUM - TINY_NUMBER - 1 :
                 (b - (TINY_NUMBER + 3)) % TINY_NUMBER = 0}

SievePrimes ==
  TinyPrimes \cup UNION {{2 * i + b : i \in (0 .. smallbits - 1) \ SmallSieve(b)} : b \in SmallBases}

Log2(n) == CHOOSE k \in 0 .. 16 : 2^k <= n /\ n < 2^(k + 1)

ModuliLine(type, num, size, gen) == [kind |-> "number", type |-> type, num |-> num, size |-> size, gen |-> gen]

(* The lines gen_candidates() writes, ascending                             *)
gen_candidates(base) ==
  LET left == (0 .. largebits - 1) \ UNION {sieve_large(base, s) : s \in SievePrimes}
  IN  [i \in 1 .. Cardinality(left) |->
         LET q == base + 2 * SetToSortSeq(left, <)[i]
         IN  ModuliLine("sophie germain", q, Log2(q), 0)]

ModInit ==
  /\ modBase \in SieveStarts
  /\ modFile \in {gen_candidates(modBase)} \cup {gen_candidates(modBase) \o o : o \in OtherLines}
  /\ modOpts \in Screens
  /\ modScreen = [pc |-> "off", n |-> 0, last |-> 0, end |-> 0, p |-> 0, q |-> 0]
  /\ modCpt = 0 /\ modOut = <<>>
  /\ modHist = [lost |-> {}, full |-> FALSE, n |-> 0]

-----------------------------------------------------------------------------
IsPrime(n) == n > 1 /\ \A d \in 2 .. n - 1 : d * d <= n => n % d # 0

read_checkpoint == modCpt
count_lines == Len(modFile)

Guess(p) == CASE p % 24 = 11 -> 2 [] p % 24 # 11 /\ p % 12 = 5 -> 3
              [] OTHER -> IF p % 10 \in {3, 7} THEN 5 ELSE 0

(* prime_test() up to its loop                                              *)
ScreenStarts ==
  /\ modScreen.pc = "off"
  /\ LET last == Max({read_checkpoint, modOpts.start})
     IN  modScreen' = [pc |-> "read", n |-> 0, last |-> last, p |-> 0, q |-> 0,
                       end |-> IF modOpts.num = 0 THEN count_lines ELSE modOpts.start + modOpts.num]
  /\ UNCHANGED <<modBase, modFile, modOpts, modCpt, modOut, modHist>>

\* Mutant: the checkpoint counts from the line the screen started with.
write_checkpoint_relative(n) == modCpt' = n - modOpts.start /\ UNCHANGED modHist

(* Written before the line is tested; a full disk leaves the old one        *)
write_checkpoint(n) ==
  \/ modCpt' = n /\ UNCHANGED modHist
  \/ /\ modHist.n < MaxInterrupts
     /\ modHist' = [modHist EXCEPT !.full = TRUE, !.n = @ + 1] /\ UNCHANGED modCpt

(* The next line; those before the checkpoint or the start are skipped.     *)
(* The end of the work removes the checkpoint.                              *)
ReadCandidate ==
  /\ modScreen.pc = "read"
  /\ LET n == Max({modScreen.n, Min({modScreen.last, modScreen.end, Len(modFile)})}) + 1
     IN  IF n > Len(modFile) \/ n > modScreen.end
         THEN /\ modScreen' = [modScreen EXCEPT !.pc = "done"] /\ modCpt' = 0
              /\ UNCHANGED modHist
         ELSE /\ modScreen' = [modScreen EXCEPT !.n = n, !.pc = "test"]
              /\ write_checkpoint(n)
  /\ UNCHANGED <<modBase, modFile, modOpts, modOut>>

(* p and q of a line; a line of an unknown type leaves those of the last    *)
ModulusOf(l, m) ==
  CASE l.type = "sophie germain" -> [m EXCEPT !.q = l.num, !.p = 2 * l.num + 1]
    [] l.type = "safe" -> [m EXCEPT !.p = l.num, !.q = l.num \div 2]
    [] OTHER -> m

(* What the tests of one line say: the generator of the modulus, 0 for none *)
Screened(l, m) ==
  LET size == IF l.type = "sophie germain" THEN l.size + 1 ELSE l.size
      gen  == IF l.type = "sophie germain" \/ l.gen = 0 THEN Guess(m.p) ELSE l.gen
  IN  IF /\ m.p > 0 /\ Log2(m.p) = size /\ size >= QSIZE_MINIMUM
         /\ modOpts.generator \in {0, gen}
         /\ IsPrime(m.q) /\ IsPrime(m.p)
      THEN gen ELSE 0

prime_test ==
  /\ modScreen.pc = "test"
  /\ LET l == modFile[modScreen.n]
         m == IF l.kind = "number" THEN ModulusOf(l, modScreen) ELSE modScreen
         gen == IF l.kind = "number" THEN Screened(l, m) ELSE 0
     IN  \/ /\ modScreen' = [m EXCEPT !.pc = "read"]
            /\ modOut' = IF gen = 0 THEN modOut
                         ELSE Append(modOut, [line |-> modScreen.n, p |-> m.p, gen |-> gen])
            /\ UNCHANGED <<modCpt, modHist>>
         \/ /\ gen # 0 /\ modHist.n < MaxInterrupts       \* qfileout() fails
            /\ modScreen' = [modScreen EXCEPT !.pc = "off"] /\ modCpt' = 0
            /\ modHist' = [modHist EXCEPT !.full = TRUE, !.n = @ + 1]
            /\ UNCHANGED modOut
  /\ UNCHANGED <<modBase, modFile, modOpts>>

(* The screen is killed, to be started again later                          *)
Killed ==
  /\ modScreen.pc \in {"read", "test"} /\ modHist.n < MaxInterrupts
  /\ modHist' = [modHist EXCEPT !.n = @ + 1,
                   !.lost = IF modScreen.pc = "test" THEN @ \cup {modScreen.n} ELSE @]
  /\ modScreen' = [modScreen EXCEPT !.pc = "off"]
  /\ UNCHANGED <<modBase, modFile, modOpts, modCpt, modOut>>

ModStep == ScreenStarts \/ ReadCandidate \/ prime_test \/ Killed

-----------------------------------------------------------------------------
(* The sieve, in three stages with offsets of their own, keeps a candidate  *)
(* q exactly when neither q nor 2q + 1 has a small odd factor: none below   *)
(* the last, skipped block is missed and nothing else is thrown away        *)
(* (sieve_large, gen_candidates).  Screening writes only safe primes of the *)
(* wanted generator, one per line unless a disk was full, and when it has   *)
(* finished it has written every one between the two ends that was asked    *)
(* for (prime_test, write_checkpoint).  Two kinds of line are left out      *)
(* against ssh-keygen(1): a line that was under test when the screen was    *)
(* killed is skipped by the next, and -j n skips line n, at which it says   *)
(* the screening starts; -J m then ends with line n + m.                    *)
Divides(s, q) == q % s = 0 \/ (2 * q + 1) % s = 0
ModuliRight ==
  LET kept == {modFile[i].num : i \in {j \in DOMAIN modFile : modFile[j].kind = "number"
                                                           /\ modFile[j].type = "sophie germain"}}
      odd(limit) == {s \in 3 .. limit : s % 2 = 1}
      good(i) == /\ modFile[i].kind = "number"
                 /\ modFile[i].type = "sophie germain"
                 /\ IsPrime(modFile[i].num) /\ IsPrime(2 * modFile[i].num + 1)
                 /\ LET g == Guess(2 * modFile[i].num + 1) IN g # 0 /\ modOpts.generator \in {0, g}
      asked(i) == i >= modOpts.start /\ (modOpts.num # 0 => i <= modOpts.start + modOpts.num)
      skipped == modHist.lost \cup {modOpts.start}
      written == {modOut[k].line : k \in DOMAIN modOut}
  IN  /\ modScreen.pc = "off" =>
           \A j \in 0 .. largebits - 1 :
             LET q == modBase + 2 * j
             IN  /\ q \in kept => \A s \in odd(SMALL_MAXIMUM - 2 * TINY_NUMBER) : ~Divides(s, q)
                 /\ q \notin kept => \E s \in odd(SMALL_MAXIMUM) : Divides(s, q)
      /\ \A k \in DOMAIN modOut :
           /\ IsPrime(modOut[k].p) /\ IsPrime(modOut[k].p \div 2) /\ modOut[k].gen \in {2, 3, 5}
           /\ asked(modOut[k].line)
      /\ ~modHist.full => Cardinality(written) = Len(modOut)
      /\ modScreen.pc = "done" /\ ~modHist.full =>
           \A i \in DOMAIN modFile : good(i) /\ asked(i) => i \in written \cup skipped
=============================================================================
