---------------------------- MODULE KnownHosts ----------------------------
(***************************************************************************)
(* How ssh decides whether it talks to the right host, and what it writes  *)
(* to known_hosts: the connection attempts and verify_host_key() of        *)
(* sshconnect.c, the lookup and the rewriting of the files of hostfile.c,  *)
(* and the host key update of clientloop.c (hostkeys-00@openssh.com), in   *)
(* which the server proves that it holds the keys it announces.            *)
(*                                                                         *)
(* A key is a record of its public part and, for a certificate, the        *)
(* authority; a line of a file a record of its marker, the names it stands *)
(* for, its public key, and whether it can be parsed.  What a name hashes  *)
(* to matches that name only, so a hashed line is one with a single name.  *)
(* check_host_key() calls itself once, without the port: "calls" is the    *)
(* stack.  Protocol 1 keys are left out.                                   *)
(***************************************************************************)
EXTENDS Integers, Sequences, SequencesExt

CONSTANTS
  HostFiles,      \* what the user's and the system's file may hold
  HostOptions,    \* the options in effect
  Peers,          \* the server: its address, port, keys, and what DNS says of it
  ConnectionAttempts, \* options.connection_attempts
  MaxRekeys, MaxUpdates  \* bounds: key exchanges after the first, host key announcements

VARIABLES khFile, khOld, khTemp, khSystem, kopts, peer, attempt, calls, verdict,
          prevKey, updates, proved, khCount, khPhase
khVars == <<khFile, khOld, khTemp, khSystem, kopts, peer, attempt, calls, verdict,
            prevKey, updates, proved, khCount, khPhase>>

\* "cut" marks a file that was written short: nobody looks at what fprintf() and fclose() say,
\* and what a full disk leaves is a first part of the lines (a line cut in two is not modelled).
NoHostFile == [exists |-> FALSE, lines |-> <<>>, cut |-> FALSE]
HostFile(lines) == [exists |-> TRUE, lines |-> lines, cut |-> FALSE]
Written(lines) == {[exists |-> TRUE, lines |-> SubSeq(lines, 1, n), cut |-> n < Len(lines)] : n \in 0..Len(lines)}
IsCert(k) == k.ca # "none"
PlainHostKey(k) == [k EXCEPT !.ca = "none"]

-----------------------------------------------------------------------------
(* Names and lines. *)

\* put_host_port(): the default port, and no port, leave the name alone.
put_host_port(name, port) == <<name, IF port = 22 THEN 0 ELSE port>>
Proxied == kopts.proxy # "none"
HostString(port) == IF kopts.alias # "none" THEN <<kopts.alias, 0>> ELSE put_host_port(peer.host, port)
IpString(port) == IF Proxied THEN <<"no hostip for proxy command", 0>> ELSE put_host_port(peer.addresses[attempt.ai].ip, port)

\* What hostkeys_foreach() finds for a name: an unusable marker hides a line, a key that
\* cannot be parsed makes it an invalid one, which record_hostkey() skips.
MatchesHost(line, name) == name \in line.hosts
UsableLine(line) == line.marker # "error" /\ ~line.bad
load_hostkeys(name) ==
  LET mine(l) == MatchesHost(l, name) /\ UsableLine(l) IN SelectSeq(khFile.lines \o khSystem, mine)

check_key_not_revoked(entries, k) ==
  ~\E i \in DOMAIN entries : entries[i].marker = "revoked" /\ entries[i].key \in {k.pub, k.ca}

\* The plain entries decide about a plain key, those of authorities about a certificate; a
\* revocation of either overrules both.
check_hostkeys_by_key_or_type(entries, k) ==
  LET plain == {i \in DOMAIN entries : entries[i].marker = "none"}
      authorities == {i \in DOMAIN entries : entries[i].marker = "ca"}
  IN CASE ~check_key_not_revoked(entries, k) -> "REVOKED"
       [] IsCert(k) -> IF \E i \in authorities : entries[i].key = k.ca THEN "OK" ELSE "NEW"
       [] \E i \in plain : entries[i].key = k.pub -> "OK"
       [] OTHER -> IF plain = {} THEN "NEW" ELSE "CHANGED"

\* Appending may fail; then the connection goes on without.  A line for the host may be there
\* without the one for its address, and an empty file is left where there was none.
HostLine1(name, k) == [hashed |-> kopts.hash, marker |-> "none", hosts |-> {name}, key |-> k.pub, bad |-> FALSE]
add_host_to_hostfile(lines) ==
  \/ UNCHANGED khFile
  \/ \E n \in 0..Len(lines) : khFile' = [khFile EXCEPT !.exists = TRUE, !.lines = @ \o SubSeq(lines, 1, n)]

-----------------------------------------------------------------------------
(* ssh_connect(): every address in turn, all of them again connection_attempts times, or a proxy. *)

NoVerdict == [via |-> "none"]
Phase(p) == khPhase' = p

KnownHostsInit ==
  /\ \E f \in HostFiles : khFile = f.user /\ khSystem = f.system
  /\ kopts \in HostOptions /\ peer \in Peers
  /\ khOld = NoHostFile /\ khTemp = NoHostFile
  /\ attempt = [n |-> 1, ai |-> 1, left |-> kopts.timeout]
  /\ calls = <<>> /\ verdict = NoVerdict /\ prevKey = <<>>
  /\ updates = <<>> /\ proved = {} /\ khCount = [rekeys |-> 0, updates |-> 0]
  /\ khPhase \in {"connecting"} \union IF kopts.keygen # "none" THEN {"keygen"} ELSE {}

Connecting == khPhase = "connecting"
ConnectVars == <<khFile, khOld, khTemp, khSystem, kopts, peer, calls, verdict, prevKey, updates, proved, khCount>>

\* The command runs with its input and output as the connection; only fork() and the pipes can fail.
ssh_proxy_connect == kopts.proxy = "command" /\ khPhase' \in {"banner", "exit"} /\ UNCHANGED attempt

\* The dialer has to pass a connected descriptor back before it ends.
ssh_proxy_fdpass_connect == kopts.proxy = "fdpass" /\ khPhase' \in {"banner", "exit"} /\ UNCHANGED attempt

\* A socket, bound to the address or the privileged port that is asked for; -1 if that fails.
ssh_create_socket == {0, -1}

\* What is left of the timeout is common to all addresses, but only a connection takes from
\* it: one that comes when it is used up counts as failed, and the next one has no timeout.
timeout_connect ==
  {[rc |-> -1, left |-> attempt.left]} \union
  IF ~peer.addresses[attempt.ai].up THEN {}
  ELSE IF attempt.left = 0 THEN {[rc |-> 0, left |-> 0]}
  ELSE {[rc |-> IF left > 0 THEN 0 ELSE -1, left |-> left] : left \in 0..attempt.left}

TryNext(left) ==
  IF attempt.ai < Len(peer.addresses)
  THEN attempt' = [attempt EXCEPT !.ai = @ + 1, !.left = left] /\ Phase("connecting")
  ELSE IF attempt.n < ConnectionAttempts
  THEN attempt' = [n |-> attempt.n + 1, ai |-> 1, left |-> left] /\ Phase("connecting")
  ELSE attempt' = [attempt EXCEPT !.left = left] /\ Phase("exit")

ssh_connect_direct ==
  /\ kopts.proxy = "none"
  /\ \E sock \in ssh_create_socket :
       IF sock = -1 THEN TryNext(attempt.left)
       ELSE \E c \in timeout_connect :
              IF c.rc = 0 THEN attempt' = [attempt EXCEPT !.left = c.left] /\ Phase("banner") ELSE TryNext(c.left)

\* "-": standard input and output are the connection.
ssh_connect ==
  /\ Connecting
  /\ \/ ssh_connect_direct \/ ssh_proxy_connect \/ ssh_proxy_fdpass_connect
     \/ kopts.proxy = "-" /\ Phase("banner") /\ UNCHANGED attempt
  /\ UNCHANGED ConnectVars

\* The versions agree, or the exchange fails or times out.
ssh_exchange_identification ==
  /\ khPhase = "banner" /\ khPhase' \in {"verify", "exit"}
  /\ UNCHANGED <<khFile, khOld, khTemp, khSystem, kopts, peer, attempt, calls, verdict, prevKey, updates, proved, khCount>>

-----------------------------------------------------------------------------
(* verify_host_key() *)

ServerKey == peer.keys[khCount.rekeys + 1]
CheckVars == <<khOld, khTemp, khSystem, peer, attempt, updates, proved, khCount>>

Accepted(via) == /\ verdict' = [via |-> via, key |-> ServerKey, lines |-> verdict.lines]
                 /\ prevKey' = ServerKey /\ Phase("connected")
Refused == verdict' = NoVerdict /\ UNCHANGED prevKey /\ Phase("exit")

\* check_host_key() is entered: accepted at once for localhost, if so configured; the address
\* is not checked for localhost, through a proxy, or when the name is the address.
Local == ~Proxied /\ peer.addresses[attempt.ai].local
LocalShortcut == kopts.noHostAuthLocal /\ Local /\ kopts.alias = "none"
check_host_ip(port) == kopts.checkHostIp /\ ~Local /\ ~Proxied /\ <<peer.host, 0>> # IpString(port)
NewCall(port, readonly, k) ==
  [port |-> port, readonly |-> readonly, key |-> k, useIp |-> ~IsCert(k) /\ check_host_ip(port),
   host |-> "NEW", ip |-> "NEW", trusted |-> FALSE, tried |-> FALSE, step |-> "lookup"]
Enter(port) == kopts' = [kopts EXCEPT !.checkHostIp = check_host_ip(port)]

verify_host_key ==
  /\ khPhase = "verify"
  /\ LET lines == khFile.lines \o khSystem
         decide(via) == verdict' = [via |-> via, key |-> ServerKey, lines |-> lines]
     IN \/ /\ prevKey = ServerKey
           /\ decide("cache") /\ Phase("connected") /\ UNCHANGED <<kopts, calls, prevKey>>
        \/ /\ prevKey # ServerKey /\ peer.revokedFile \in {"revoked", "error"}
           /\ Refused /\ UNCHANGED <<kopts, calls>>
        \/ /\ prevKey # ServerKey /\ peer.revokedFile \notin {"revoked", "error"}
           /\ IF kopts.dns = 1 /\ peer.dns = "secure match"
              THEN decide("dns") /\ prevKey' = ServerKey /\ Phase("connected") /\ UNCHANGED <<kopts, calls>>
              ELSE IF LocalShortcut
              THEN decide("localhost") /\ prevKey' = ServerKey /\ Phase("connected") /\ UNCHANGED <<kopts, calls>>
              ELSE /\ verdict' = [via |-> "checking", key |-> ServerKey, lines |-> lines]
                   /\ calls' = <<NewCall(peer.port, "RDRW", ServerKey)>> /\ Enter(peer.port)
                   /\ Phase("checking") /\ UNCHANGED prevKey
  /\ UNCHANGED khFile /\ UNCHANGED CheckVars

-----------------------------------------------------------------------------
(* check_host_key() *)
call == Last(calls)
SetCall(c) == calls' = [calls EXCEPT ![Len(calls)] = c]
At(step) == khPhase = "checking" /\ call.step = step
Go(c, step) == SetCall([c EXCEPT !.step = step]) /\ UNCHANGED <<verdict, prevKey, khPhase>>

\* Returning to the call without the port's caller, or to verify_host_key().
Return(ok) ==
  IF Len(calls) = 2
  THEN /\ calls' = <<[calls[1] EXCEPT !.tried = TRUE, !.step = IF ok THEN "address" ELSE "decide"]>>
       /\ UNCHANGED <<verdict, prevKey, khPhase>>
  ELSE calls' = <<>> /\ IF ok THEN Accepted("files") ELSE Refused

\* fail: a certificate is given up and its plain key tried from the start, without the port
\* too, unless it is revoked.
Fail ==
  IF IsCert(call.key) /\ call.host # "REVOKED"
  THEN Go([call EXCEPT !.key = PlainHostKey(call.key), !.tried = FALSE], "lookup")
  ELSE Return(FALSE)

LookUp ==
  /\ At("lookup")
  /\ LET host == check_hostkeys_by_key_or_type(load_hostkeys(HostString(call.port)), call.key)
         ip == IF call.useIp THEN check_hostkeys_by_key_or_type(load_hostkeys(IpString(call.port)), call.key) ELSE host
     IN Go([call EXCEPT !.host = host, !.ip = ip], "decide")
  /\ UNCHANGED <<khFile, kopts>> /\ UNCHANGED CheckVars

\* HOST_OK; the address is added to the file if it is new there.
HostOK ==
  /\ At("decide") /\ call.host = "OK"
  /\ IF IsCert(call.key) /\ ~peer.certOK
     THEN Fail /\ UNCHANGED khFile
     ELSE /\ IF kopts.checkHostIp /\ call.ip = "NEW" /\ call.readonly = "RDRW" /\ ~IsCert(call.key)
             THEN add_host_to_hostfile(<<HostLine1(IpString(call.port), call.key)>>) ELSE UNCHANGED khFile
          /\ Go([call EXCEPT !.trusted = TRUE], "address")
  /\ UNCHANGED kopts /\ UNCHANGED CheckVars

\* HOST_NEW: another port than the default is looked up without it first.
HostNewWithoutPort ==
  /\ At("decide") /\ call.host = "NEW" /\ ~call.tried
  /\ kopts.alias = "none" /\ call.port \notin {0, 22}
  /\ calls' = Append(calls, NewCall(0, "ROQUIET", call.key)) /\ Enter(0)
  /\ UNCHANGED <<khFile, verdict, prevKey, khPhase>> /\ UNCHANGED CheckVars

\* confirm(): batch mode answers no.
confirm(yes) == yes => ~kopts.batch

NewLines(c) ==
  LET host == HostString(c.port)
      ip == IpString(c.port)
  IN IF ~(kopts.checkHostIp /\ c.ip = "NEW") THEN <<HostLine1(host, c.key)>>
     ELSE IF kopts.hash THEN <<HostLine1(host, c.key), HostLine1(ip, c.key)>>
     ELSE <<[HostLine1(host, c.key) EXCEPT !.hosts = {host, ip}]>>

HostNew ==
  /\ At("decide") /\ call.host = "NEW"
  /\ call.tried \/ kopts.alias # "none" \/ call.port \in {0, 22}
  /\ \/ /\ call.readonly # "RDRW" \/ IsCert(call.key) \/ kopts.strict = 1
        /\ Fail /\ UNCHANGED khFile
     \/ /\ call.readonly = "RDRW" /\ ~IsCert(call.key) /\ kopts.strict # 1
        /\ \E yes \in BOOLEAN :
             /\ confirm(yes)
             /\ IF kopts.strict = 2 /\ ~yes THEN Fail /\ UNCHANGED khFile
                ELSE /\ add_host_to_hostfile(NewLines(call))
                     /\ Go([call EXCEPT !.trusted = (kopts.strict = 2)], "address")
  /\ UNCHANGED kopts /\ UNCHANGED CheckVars

\* continue_unsafe: nothing that a man in the middle could use stays on.
Unsafe ==
  /\ kopts' = [kopts EXCEPT !.risky = {}]
  /\ IF kopts.exitOnForwardFailure /\ kopts.risky # {}
     THEN calls' = <<>> /\ Refused
     ELSE Go(call, "address")

HostRevoked ==
  /\ At("decide") /\ call.host = "REVOKED"
  /\ IF kopts.strict # 0 THEN Fail /\ UNCHANGED kopts ELSE Unsafe
  /\ UNCHANGED khFile /\ UNCHANGED CheckVars

HostChanged ==
  /\ At("decide") /\ call.host = "CHANGED"
  /\ IF call.readonly = "ROQUIET" \/ kopts.strict # 0 THEN Fail /\ UNCHANGED kopts ELSE Unsafe
  /\ UNCHANGED khFile /\ UNCHANGED CheckVars

\* The name is right and the address is known with another key; a key that is neither known
\* nor confirmed is not the base of an update.
AddressCheck ==
  /\ At("address")
  /\ LET differs == kopts.checkHostIp /\ call.host # "CHANGED" /\ call.ip = "CHANGED"
         done == /\ kopts' = IF call.trusted THEN kopts ELSE [kopts EXCEPT !.updateHostkeys = "no"]
                 /\ Return(TRUE)
     IN IF ~differs THEN done
        ELSE CASE kopts.strict = 0 -> done
               [] kopts.strict = 1 -> Fail /\ UNCHANGED kopts
               [] OTHER -> \E yes \in BOOLEAN : confirm(yes) /\ IF yes THEN done ELSE Fail /\ UNCHANGED kopts
  /\ UNCHANGED khFile /\ UNCHANGED CheckVars

check_host_key == LookUp \/ HostOK \/ HostNewWithoutPort \/ HostNew \/ HostRevoked \/ HostChanged \/ AddressCheck

\* A later key exchange brings the host key once more.
KexAgain ==
  /\ khPhase = "connected" /\ khCount.rekeys < MaxRekeys
  /\ khCount' = [khCount EXCEPT !.rekeys = @ + 1] /\ Phase("verify")
  /\ UNCHANGED <<khFile, khOld, khTemp, khSystem, kopts, peer, attempt, calls, verdict, prevKey, updates, proved>>

-----------------------------------------------------------------------------
(* The host key update.  "updates" holds the contexts of the requests whose reply is awaited *)
(* (global_confirms), oldest first; the flag that the server has announced its keys is never *)
(* set, so it may do so again.                                                               *)

\* client_input_hostkeys(): the keys already in the user's file, whatever the marker of the
\* line, need no proof; lines with other keys make the file out of date.
UpdateNames == {HostString(peer.port)} \union IF kopts.checkHostIp THEN {IpString(peer.port)} ELSE {}
UpdateLine(l) == UsableLine(l) /\ l.hosts \intersect UpdateNames # {}
FileHas(k) == \E i \in DOMAIN khFile.lines : UpdateLine(khFile.lines[i]) /\ khFile.lines[i].key = k
OldKeys(ks) == {i \in DOMAIN khFile.lines : UpdateLine(khFile.lines[i]) /\ khFile.lines[i].key \notin ToSet(ks)}

UpdateVars == <<khSystem, peer, attempt, calls, verdict, prevKey>>

client_input_hostkeys ==
  /\ khPhase = "connected" /\ khCount.updates < MaxUpdates
  /\ khCount' = [khCount EXCEPT !.updates = @ + 1]
  /\ \E ks \in peer.announces :
       LET fresh == SelectSeq(ks, LAMBDA k : ~FileHas(k))
           idle == kopts.updateHostkeys = "no" \/ (kopts.updateHostkeys = "ask" /\ kopts.batch)
                   \/ ~IsInjective(ks) \/ ks = <<>> \/ ~khFile.exists
       IN CASE idle \/ (fresh = <<>> /\ OldKeys(ks) = {}) -> UNCHANGED <<updates, khTemp, khPhase>>
            [] ~idle /\ fresh = <<>> /\ OldKeys(ks) # {} ->
                 Phase("asking") /\ khTemp' = HostFile(ks) /\ UNCHANGED updates
            [] OTHER -> updates' = Append(updates, [keys |-> ks, fresh |-> fresh]) /\ UNCHANGED <<khTemp, khPhase>>
  /\ UNCHANGED <<khFile, khOld, kopts, proved>> /\ UNCHANGED UpdateVars

\* The reply to hostkeys-prove-00@openssh.com: a failure, or signatures, of which one that
\* does not verify ends the update.
client_global_hostkeys_private_confirm ==
  /\ khPhase = "connected" /\ updates # <<>>
  /\ updates' = Tail(updates)
  /\ \/ UNCHANGED <<proved, khTemp, khPhase>>
     \/ /\ ToSet(Head(updates).fresh) \subseteq peer.holds
        /\ proved' = proved \union ToSet(Head(updates).fresh)
        /\ khTemp' = HostFile(Head(updates).keys) /\ Phase("asking")
  /\ UNCHANGED <<khFile, khOld, kopts, khCount>> /\ UNCHANGED UpdateVars

\* update_known_hosts(): the user may be asked; a no turns further updates off.  (khTemp holds
\* the keys of the context until the temporary file is written.)
update_known_hosts ==
  /\ khPhase = "asking"
  /\ \/ /\ kopts.updateHostkeys # "no"
        /\ Phase("write temp") /\ UNCHANGED <<khTemp, kopts>>
     \/ /\ kopts.updateHostkeys = "ask" /\ kopts' = [kopts EXCEPT !.updateHostkeys = "no"]
        /\ khTemp' = NoHostFile /\ Phase("connected")
     \/ kopts.updateHostkeys = "no" /\ khTemp' = NoHostFile /\ Phase("connected") /\ UNCHANGED kopts
  /\ UNCHANGED <<khFile, khOld, updates, proved, khCount>> /\ UNCHANGED UpdateVars

-----------------------------------------------------------------------------
(* hostfile_replace_entries() *)

\* host_delete(): plain lines of the host with keys that are not to be added are dropped.
host_delete_marked(l, ks) == UpdateLine(l) /\ l.key \notin ToSet(ks)
host_delete(l, ks) == UpdateLine(l) /\ l.marker = "none" /\ l.key \notin ToSet(ks)
KeptLines(ks) == SelectSeq(khFile.lines, LAMBDA l : ~host_delete(l, ks))
SkipKey(k) == \E i \in DOMAIN khFile.lines : LET l == khFile.lines[i] IN UpdateLine(l) /\ l.marker = "none" /\ l.key = k
write_host_entry(k) ==
  [hashed |-> kopts.hash, marker |-> "none", key |-> k, bad |-> FALSE,
   hosts |-> IF kopts.hash THEN {HostString(peer.port)} ELSE UpdateNames]
NewEntries(ks) == LET added == SelectSeq(ks, LAMBDA k : ~SkipKey(k)) IN [i \in DOMAIN added |-> write_host_entry(added[i])]

ReplaceVars == <<kopts, updates, proved, khCount>>

\* Every failure that is noticed leaves the file, and takes the temporary one away.
GiveUpReplacing ==
  /\ khPhase \in {"write temp", "unlink old", "link old", "rename"}
  /\ khTemp' = NoHostFile /\ Phase("connected")
  /\ UNCHANGED <<khFile, khOld>> /\ UNCHANGED ReplaceVars /\ UNCHANGED UpdateVars

WriteTemp ==
  /\ khPhase = "write temp"
  /\ LET ks == khTemp.lines
         written == KeptLines(ks) \o NewEntries(ks)
     IN IF written = khFile.lines THEN khTemp' = NoHostFile /\ Phase("connected")
        ELSE khTemp' \in Written(written) /\ Phase("unlink old")
  /\ UNCHANGED <<khFile, khOld>> /\ UNCHANGED ReplaceVars /\ UNCHANGED UpdateVars

UnlinkOld ==
  /\ khPhase = "unlink old" /\ khOld' = NoHostFile /\ Phase("link old")
  /\ UNCHANGED <<khFile, khTemp>> /\ UNCHANGED ReplaceVars /\ UNCHANGED UpdateVars

LinkOld ==
  /\ khPhase = "link old" /\ khOld' = khFile /\ Phase("rename")
  /\ UNCHANGED <<khFile, khTemp>> /\ UNCHANGED ReplaceVars /\ UNCHANGED UpdateVars

RenameTemp ==
  /\ khPhase = "rename" /\ khFile' = khTemp /\ khTemp' = NoHostFile /\ Phase("connected")
  /\ UNCHANGED khOld /\ UNCHANGED ReplaceVars /\ UNCHANGED UpdateVars

hostfile_replace_entries == WriteTemp \/ UnlinkOld \/ LinkOld \/ RenameTemp \/ GiveUpReplacing

-----------------------------------------------------------------------------
(* ssh-keygen -H, -R and -F, before the connection. *)

KeygenName == IF kopts.keygen = "delete" THEN {put_host_port(peer.host, peer.port)} ELSE {}
KeygenVars == <<khSystem, kopts, peer, attempt, calls, verdict, prevKey, updates, proved, khCount>>
InvalidLine(l, truncated) == l.marker = "error" \/ (l.bad /\ truncated)

\* Each name of a plain line becomes a line with its hash.  -H is given no host, so that
\* nothing tells it of a line that it is hashed already: what stands there is hashed again,
\* and is the name of no host any more.
HashOfHash == <<"hash", 0>>
known_hosts_hash(l, truncated) ==
  IF l.marker # "none" \/ InvalidLine(l, truncated) THEN <<l>>
  ELSE LET names == SetToSeq(l.hosts)
           name(n) == IF l.hashed THEN HashOfHash ELSE n
       IN [i \in DOMAIN names |-> [l EXCEPT !.hosts = {name(names[i])}, !.hashed = TRUE]]

\* Plain lines of the host are left out, together with the other names they have.
Found(l, truncated) == ~InvalidLine(l, truncated) /\ l.hosts \intersect KeygenName # {}
known_hosts_find_delete(l, truncated) == IF Found(l, truncated) /\ l.marker = "none" THEN <<>> ELSE <<l>>

\* The file is written anew beside the old one; with an invalid line in it, or without the
\* host, nothing is replaced.  Looking for a host (-F) only prints.
KeygenWrite ==
  /\ khPhase = "keygen"
  /\ \E truncated \in BOOLEAN :
       LET lines == khFile.lines
           out(l) == IF kopts.keygen = "hash" THEN known_hosts_hash(l, truncated) ELSE known_hosts_find_delete(l, truncated)
           written == FlattenSeq([i \in DOMAIN lines |-> out(lines[i])])
           invalid == \E i \in DOMAIN lines : InvalidLine(lines[i], truncated)
           found == \E i \in DOMAIN lines : Found(lines[i], truncated) /\ lines[i].marker = "none"
       IN IF kopts.keygen = "find" \/ ~khFile.exists \/ invalid \/ (kopts.keygen = "delete" /\ ~found)
          THEN khPhase' \in {"connecting", "exit"} /\ UNCHANGED khTemp
          ELSE khTemp' \in Written(written) /\ Phase("keygen unlink")
  /\ UNCHANGED <<khFile, khOld>> /\ UNCHANGED KeygenVars

\* Where unlink() or link() fails the new file stays behind.
KeygenBackup ==
  /\ \/ khPhase = "keygen unlink" /\ khOld' = NoHostFile /\ Phase("keygen link")
     \/ khPhase = "keygen link" /\ khOld' = khFile /\ Phase("keygen rename")
     \/ khPhase \in {"keygen unlink", "keygen link"} /\ Phase("exit") /\ UNCHANGED khOld
  /\ UNCHANGED <<khFile, khTemp>> /\ UNCHANGED KeygenVars

KeygenRename ==
  /\ khPhase = "keygen rename" /\ khTemp' = NoHostFile
  /\ \/ khFile' = khTemp /\ Phase("connecting") /\ UNCHANGED khOld
     \/ khOld' = NoHostFile /\ Phase("exit") /\ UNCHANGED khFile
  /\ UNCHANGED KeygenVars

do_known_hosts == KeygenWrite \/ KeygenBackup \/ KeygenRename

\* The client is killed, wherever it is.
ClientKilled ==
  /\ khPhase # "exit" /\ Phase("exit")
  /\ UNCHANGED <<khFile, khOld, khTemp, khSystem, kopts, peer, attempt, calls, verdict, prevKey, updates, proved, khCount>>

KnownHostsNext ==
  \/ ssh_connect \/ ssh_exchange_identification \/ verify_host_key \/ check_host_key \/ KexAgain
  \/ client_input_hostkeys \/ client_global_hostkeys_private_confirm \/ update_known_hosts
  \/ hostfile_replace_entries \/ do_known_hosts \/ ClientKilled
=============================================================================
