-------------------------------- MODULE Krl --------------------------------
(***************************************************************************)
(* Key revocation lists: krl.c and bitmap.c, the ssh-keygen operations     *)
(* that write and read them (ssh-keygen -k, -u and -Q), and the check sshd *)
(* makes of every key offered to it (RevokedKeys).                         *)
(*                                                                         *)
(* A key is a record [key, ca, serial, id]; ca = NoCA for one that is not  *)
(* a certificate.  A list in memory is [keys, sha1s, certs]: the blobs     *)
(* revoked by value and by hash, and a sequence with, for every CA, the    *)
(* tree of serial ranges (a set of <<lo, hi>>) and the revoked key IDs.    *)
(* A file is absent, flat (one key per line, possibly none: an empty file  *)
(* is one), torn, or a list's sections.                                    *)
(***************************************************************************)
EXTENDS Integers, Sequences, FiniteSets, FiniteSetsExt, SequencesExt

CONSTANTS
  OfferedKeys,     \* the keys that are offered to sshd
  MaxSerial,       \* 2^64 - 1
  MAX_BIGNUM,      \* SSHBUF_MAX_BIGNUM, in bytes
  MaxKrlWrites     \* bound: how often the file is written

NoCA == "none"
WildCA == "*"
Fails == [failed |-> TRUE]
Failed(x) == x = Fails
is_cert(k) == k.ca # NoCA
PlainKey(name) == [key |-> name, ca |-> NoCA, serial |-> 0, id |-> ""]

VARIABLES
  krlFile,      \* the file RevokedKeys names
  krlWriter,    \* what ssh-keygen has yet to write to it, and whether it ever failed to
  krlLines,     \* history: <<CA, line>> of every line the file should cover
  krlWrites
krlVars == <<krlFile, krlWriter, krlLines, krlWrites>>

-----------------------------------------------------------------------------
(* Bitmaps: the set of the bits that are set. *)
bitmap_nbits(b) == IF b = {} THEN 0 ELSE 1 + Max(b)
bitmap_nbytes(b) == (bitmap_nbits(b) + 7) \div 8
bitmap_to_string(b) ==
  LET need == bitmap_nbytes(b)
  IN  [k \in 1..need |-> {j \in 0..7 : 8 * (need - k) + j \in b}]
bitmap_from_string(s) == UNION {{8 * (Len(s) - k) + j : j \in s[k]} : k \in DOMAIN s}

(* Both directions of the integer encoding; a byte is the set of its bits. *)
StripZeros(s) ==
  LET nz == {k \in DOMAIN s : s[k] # {}}
  IN  IF nz = {} THEN <<>> ELSE SubSeq(s, Min(nz), Len(s))
sshbuf_put_bignum2_bytes(s) ==
  LET t == StripZeros(s)
  IN  IF t # <<>> /\ 7 \in t[1] THEN <<{}>> \o t ELSE t
sshbuf_get_bignum2_bytes_direct(s) ==
  IF \/ s # <<>> /\ 7 \in s[1]
     \/ Len(s) > MAX_BIGNUM + 1
     \/ Len(s) = MAX_BIGNUM + 1 /\ s[1] # {}
  THEN Fails ELSE [bytes |-> StripZeros(s)]

-----------------------------------------------------------------------------
(* The list in memory. *)
ssh_krl_init == [keys |-> {}, sha1s |-> {}, certs |-> <<>>]

CaIndex(krl, ca) == {i \in DOMAIN krl.certs : krl.certs[i].ca = ca}
revoked_certs_for_ca_key(krl, ca) ==
  IF CaIndex(krl, ca) # {} THEN krl
  ELSE [krl EXCEPT !.certs = Append(@, [ca |-> ca, serials |-> {}, ids |-> {}])]

serial_cmp(a, b) ==
  IF a[2] >= b[1] /\ a[1] <= b[2] THEN 0 ELSE IF a[1] < b[1] THEN -1 ELSE 1
Least(a, b) == IF a < b THEN a ELSE b
Greatest(a, b) == IF a > b THEN a ELSE b
Hull(a, b) == <<Least(a[1], b[1]), Greatest(a[2], b[2])>>

(* The loops that coalesce a range with those before and after it: acc is  *)
(* the range, the tree, and whether the loop goes on.                      *)
Absorb(acc, crs, apart) ==
  IF ~acc.on \/ apart THEN [acc EXCEPT !.on = FALSE]
  ELSE [acc EXCEPT !.ers = Hull(@, crs), !.tree = @ \ {crs}]
AbsorbPred(acc, crs) == Absorb(acc, crs, acc.ers[1] # 0 /\ crs[2] < acc.ers[1] - 1)
AbsorbSucc(acc, crs) == Absorb(acc, crs, acc.ers[2] # MaxSerial /\ crs[1] > acc.ers[2] + 1)

Overlapping(tree, rs) == {e \in tree : serial_cmp(e, rs) = 0}
Downwards(tree, ers) == SetToSortSeq({e \in tree : e[1] < ers[1]}, LAMBDA a, b : a[1] > b[1])
Upwards(tree, ers) == SetToSortSeq({e \in tree : e[1] >= ers[1]}, LAMBDA a, b : a[1] < b[1])
WithRange(acc) == acc.tree \cup {acc.ers}
CoalesceUp(acc, ers) == WithRange(FoldLeft(AbsorbSucc, [acc EXCEPT !.on = TRUE], Upwards(acc.tree, ers)))
Coalesce(ers, rest) ==
  CoalesceUp(FoldLeft(AbsorbPred, [ers |-> ers, tree |-> rest, on |-> TRUE], Downwards(rest, ers)), ers)
InsertSerialRange_first(tree, lo, hi) ==
  IF Overlapping(tree, <<lo, hi>>) = {} THEN tree \cup {<<lo, hi>>}
  ELSE LET old == CHOOSE e \in Overlapping(tree, <<lo, hi>>) : TRUE
       IN  (tree \ {old}) \cup {<<Least(old[1], lo), old[2]>>}
InsertAmong(over, tree, rs) ==
  IF over = {} THEN Coalesce(rs, tree)
  ELSE LET old == CHOOSE e \in over : TRUE IN Coalesce(Hull(old, rs), tree \ {old})
insert_serial_range(tree, lo, hi) == InsertAmong(Overlapping(tree, <<lo, hi>>), tree, <<lo, hi>>)

InsertFor(krl, ca, lo, hi) == [krl EXCEPT !.certs[Min(CaIndex(krl, ca))].serials = insert_serial_range(@, lo, hi)]
ssh_krl_revoke_cert_by_serial_range(krl, ca, lo, hi) ==
  IF lo > hi \/ lo = 0 THEN Fails ELSE InsertFor(revoked_certs_for_ca_key(krl, ca), ca, lo, hi)
ssh_krl_revoke_cert_by_serial(krl, ca, serial) ==
  ssh_krl_revoke_cert_by_serial_range(krl, ca, serial, serial)

InsertId(krl, ca, id) == [krl EXCEPT !.certs[Min(CaIndex(krl, ca))].ids = @ \cup {id}]
ssh_krl_revoke_cert_by_key_id(krl, ca, id) == InsertId(revoked_certs_for_ca_key(krl, ca), ca, id)

(* The blob and the hash are both taken of the key without its certificate. *)
plain_key_blob(k) == k.key
ssh_krl_revoke_key_explicit(krl, k) == [krl EXCEPT !.keys = @ \cup {plain_key_blob(k)}]
ssh_krl_revoke_key_sha1(krl, k) == [krl EXCEPT !.sha1s = @ \cup {k.key}]
ssh_krl_revoke_key(krl, k) ==
  IF ~is_cert(k) THEN ssh_krl_revoke_key_sha1(krl, k)
  ELSE IF k.serial = 0 THEN ssh_krl_revoke_cert_by_key_id(krl, k.ca, k.id)
  ELSE ssh_krl_revoke_cert_by_serial(krl, k.ca, k.serial)

-----------------------------------------------------------------------------
(* Writing: the section type that costs least, then the sections. *)
Cheaper(new, old) == IF new.cost < old.cost THEN new ELSE old
Cost(state, bits) == [state |-> state, force |-> FALSE, cost |-> (bits + 7) \div 8]
choose_next_state(state, contig, final, last_gap, next_gap) ==
  LET tail   == IF final THEN 0 ELSE Least(next_gap, 72)
      header == IF final THEN 0 ELSE 72
  IN  Cheaper([Cost("bitmap", 72 + contig + tail) EXCEPT !.force = TRUE],
      Cheaper(Cost("list", (IF state = "list" THEN 0 ELSE 8) + 64 * contig + header),
      Cheaper(Cost("range", 8 + 128 + header),
              Cost("bitmap", (IF state = "bitmap" THEN 0 ELSE 72) + last_gap + contig + tail))))

(* acc: the section under way (its type, and the ranges, or the first      *)
(* serial and the bits, in it), what is finished, and the last serial.     *)
FinishSection(acc) ==
  IF acc.state = "" THEN acc.out
  ELSE Append(acc.out, [type |-> acc.state,
    body |-> IF acc.state = "bitmap"
             THEN <<acc.start, sshbuf_put_bignum2_bytes(bitmap_to_string(acc.bits))>> ELSE acc.sect])
BeginSection(acc, c, rs, ends, new) ==
  [acc EXCEPT !.out = IF ends THEN FinishSection(acc) ELSE @, !.state = c.state,
              !.sect = IF ends \/ new THEN <<>> ELSE @, !.bits = IF new THEN {} ELSE @,
              !.start = IF new THEN rs[1] ELSE @, !.last = rs[2]]
AddSerials(a, rs) ==
  CASE a.state = "list"   -> [a EXCEPT !.sect = @ \o [i \in 1..(1 + rs[2] - rs[1]) |-> rs[1] + i - 1]]
    [] a.state = "range"  -> [a EXCEPT !.sect = @ \o rs]
    [] a.state = "bitmap" -> [a EXCEPT !.bits = @ \cup {s - a.start : s \in rs[1]..rs[2]}]
InState(acc, rs, c) ==
  LET new == c.state # acc.state \/ c.force
  IN  AddSerials(BeginSection(acc, c, rs, acc.state # "" /\ (new \/ acc.state = "range"), new), rs)
SerialSection(acc, rs, next) ==
  InState(acc, rs, choose_next_state(acc.state, 1 + rs[2] - rs[1], next = <<>>,
                                     IF acc.state = "" THEN 0 ELSE rs[1] - acc.last,
                                     IF next = <<>> THEN 0 ELSE next[1] - rs[2]))
NoSection == [state |-> "", sect |-> <<>>, start |-> 0, bits |-> {}, last |-> 0, out |-> <<>>]
SerialSections(seq) ==
  FinishSection(FoldLeft(LAMBDA acc, i : SerialSection(acc, seq[i], IF i = Len(seq) THEN <<>> ELSE seq[i + 1]),
                         NoSection, [i \in 1..Len(seq) |-> i]))
revoked_certs_generate(rc) ==
  SerialSections(SetToSortSeq(rc.serials, LAMBDA a, b : a[1] < b[1]))
  \o (IF rc.ids = {} THEN <<>> ELSE <<[type |-> "id", body |-> rc.ids]>>)
ssh_krl_to_blob(krl) ==
  [i \in DOMAIN krl.certs |->
     [type |-> "certs", ca |-> krl.certs[i].ca, body |-> revoked_certs_generate(krl.certs[i])]]
  \o (IF krl.keys = {} THEN <<>> ELSE <<[type |-> "explicit", body |-> krl.keys]>>)
  \o (IF krl.sha1s = {} THEN <<>> ELSE <<[type |-> "sha1", body |-> krl.sha1s]>>)

-----------------------------------------------------------------------------
(* Reading. *)
RevokeSerials(krl, ca, serials) ==
  LET Add(k, s) == IF Failed(k) THEN k ELSE ssh_krl_revoke_cert_by_serial(k, ca, s)
  IN  FoldLeft(Add, krl, serials)
RevokeBits(krl, ca, start, bits) ==
  IF \E n \in 1..(bitmap_nbits(bits) - 1) : (start + n) % (MaxSerial + 1) = 0 THEN Fails
  ELSE RevokeSerials(krl, ca, SetToSortSeq({start + b : b \in bits}, <))
ParseBitmap(krl, ca, start, wire) ==
  LET bytes == sshbuf_get_bignum2_bytes_direct(wire)
  IN  IF Failed(bytes) THEN Fails ELSE RevokeBits(krl, ca, start, bitmap_from_string(bytes.bytes))
ParseSub(krl, ca, sub) ==
  CASE sub.type = "list"   -> RevokeSerials(krl, ca, sub.body)
    [] sub.type = "range"  -> IF Len(sub.body) # 2 THEN Fails
                              ELSE ssh_krl_revoke_cert_by_serial_range(krl, ca, sub.body[1], sub.body[2])
    [] sub.type = "bitmap" -> ParseBitmap(krl, ca, sub.body[1], sub.body[2])
    [] sub.type = "id"     -> FoldSet(LAMBDA id, k : ssh_krl_revoke_cert_by_key_id(k, ca, id), krl, sub.body)
parse_revoked_certs(krl, sect) ==
  LET Add(k, sub) == IF Failed(k) THEN k ELSE ParseSub(k, sect.ca, sub)
  IN  FoldLeft(Add, krl, sect.body)
ParseSection(krl, sect) ==
  CASE Failed(krl)            -> krl
    [] sect.type = "certs"    -> parse_revoked_certs(krl, sect)
    [] sect.type = "explicit" -> [krl EXCEPT !.keys = @ \cup sect.body]
    [] sect.type = "sha1"     -> [krl EXCEPT !.sha1s = @ \cup sect.body]
    [] sect.type = "sig"      -> krl

is_cert_revoked(k, rc) ==
  \/ k.id \in rc.ids
  \/ k.serial # 0 /\ \E e \in rc.serials : serial_cmp(e, <<k.serial, k.serial>>) = 0
is_key_revoked(krl, k) ==
  \/ k.key \in krl.sha1s
  \/ plain_key_blob(k) \in krl.keys
  \/ is_cert(k) /\ \E i \in CaIndex(krl, k.ca) \cup CaIndex(krl, WildCA) : is_cert_revoked(k, krl.certs[i])
ssh_krl_check_key(krl, k) ==
  is_key_revoked(krl, k) \/ (is_cert(k) /\ is_key_revoked(krl, PlainKey(k.ca)))

(* Signatures end the list; no key signs twice, and not all of them may be *)
(* revoked by the list they sign.  Nobody passes keys that are trusted to  *)
(* sign.                                                                   *)
SignaturesValid(secs) ==
  LET sigs == {i \in DOMAIN secs : secs[i].type = "sig"}
  IN  /\ \A i \in sigs : i = Len(secs) \/ i + 1 \in sigs
      /\ \A i \in sigs : secs[i].valid
      /\ \A i, j \in sigs : secs[i].key = secs[j].key => i = j
Signers(secs) == {secs[i].key : i \in {j \in DOMAIN secs : secs[j].type = "sig"}}
UnlessSignersRevoked(krl, signers) ==
  IF Failed(krl) THEN Fails
  ELSE IF signers # {} /\ \A s \in signers : ssh_krl_check_key(krl, PlainKey(s)) THEN Fails
  ELSE krl
ssh_krl_from_blob(secs) ==
  IF ~SignaturesValid(secs) THEN Fails
  ELSE UnlessSignersRevoked(FoldLeft(ParseSection, ssh_krl_init, secs), Signers(secs))

(* "bad magic", "error", or whether the key is revoked. *)
Verdict(revoked) == IF revoked THEN "revoked" ELSE "ok"
ListSays(krl, k) == IF Failed(krl) THEN "error" ELSE Verdict(ssh_krl_check_key(krl, k))
ssh_krl_file_contains_key(file, k) ==
  CASE file.form = "absent" -> "error"
    [] file.form = "flat"   -> "bad magic"
    [] file.form = "torn"   -> "error"
    [] file.form = "krl"    -> ListSays(ssh_krl_from_blob(file.secs), k)
sshkey_in_file(file, k) == k.key \in file.keys \/ (is_cert(k) /\ k.ca \in file.keys)
OrLines(r, file, k) == IF r # "bad magic" THEN r ELSE Verdict(sshkey_in_file(file, k))
sshkey_check_revoked(file, k) == OrLines(ssh_krl_file_contains_key(file, k), file, k)
auth_key_is_revoked(k) == sshkey_check_revoked(krlFile, k) # "ok"

-----------------------------------------------------------------------------
(* ssh-keygen *)
load_krl(file) == IF file.form = "krl" THEN ssh_krl_from_blob(file.secs) ELSE Fails

UpdateKrl(krl, ca, line) ==
  CASE Failed(krl) -> krl
    [] line.kind = "serial" -> IF ca = NoCA \/ line.hi < line.lo THEN Fails
                               ELSE ssh_krl_revoke_cert_by_serial_range(krl, ca, line.lo, line.hi)
    [] line.kind = "id"     -> IF ca = NoCA THEN Fails ELSE ssh_krl_revoke_cert_by_key_id(krl, ca, line.id)
    [] line.kind = "key"    -> ssh_krl_revoke_key_explicit(krl, line.key)
    [] line.kind = "sha1"   -> ssh_krl_revoke_key_sha1(krl, line.key)
    [] line.kind = "plain"  -> ssh_krl_revoke_key(krl, line.key)
update_krl_from_file(krl, ca, lines) == FoldLeft(LAMBDA k, l : UpdateKrl(k, ca, l), krl, lines)

NoWriter == [on |-> FALSE, broken |-> FALSE]
Covered(ca, lines) == {<<ca, lines[i]>> : i \in DOMAIN lines}

(* ssh-keygen -k [-u] [-s ca]: everything up to the open() that truncates. *)
do_gen_krl(updating, ca, lines) ==
  /\ ~krlWriter.on /\ krlWrites < MaxKrlWrites
  /\ krlWrites' = krlWrites + 1
  /\ \E krl \in {update_krl_from_file(IF updating THEN load_krl(krlFile) ELSE ssh_krl_init, ca, lines)} :
       IF Failed(krl) THEN UNCHANGED <<krlFile, krlWriter, krlLines>>
       ELSE /\ krlWriter' = [on |-> TRUE, broken |-> updating /\ krlWriter.broken, secs |-> ssh_krl_to_blob(krl)]
            /\ krlFile' = [form |-> "flat", keys |-> {}]
            /\ krlLines' = (IF updating THEN krlLines ELSE {}) \cup Covered(ca, lines)

KrlWritten ==
  /\ krlWriter.on
  /\ krlFile' = [form |-> "krl", secs |-> krlWriter.secs]
  /\ krlWriter' = [NoWriter EXCEPT !.broken = krlWriter.broken]
  /\ UNCHANGED <<krlLines, krlWrites>>

(* The disk fills, or the process is killed: some of it has been written,  *)
(* up to the end of a section (n of them) or not.                          *)
KrlWriteFails ==
  /\ krlWriter.on
  /\ \E n \in -1..(Len(krlWriter.secs) - 1), whole \in BOOLEAN :
       krlFile' = IF n = -1 THEN krlFile
                  ELSE IF whole THEN [form |-> "krl", secs |-> SubSeq(krlWriter.secs, 1, n)]
                  ELSE [form |-> "torn"]
  /\ krlWriter' = [NoWriter EXCEPT !.broken = TRUE]
  /\ UNCHANGED <<krlLines, krlWrites>>

(* An administrator puts a file there that was made elsewhere. *)
KrlInstalled(file, lines) ==
  /\ ~krlWriter.on /\ krlWrites = 0
  /\ krlFile' = file
  /\ krlLines' = lines
  /\ krlWrites' = 1
  /\ UNCHANGED krlWriter

KrlInit ==
  /\ krlFile = [form |-> "absent"]
  /\ krlWriter = NoWriter
  /\ krlLines = {}
  /\ krlWrites = 0
=============================================================================
