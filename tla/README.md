# OpenSSH portable with InterMAC: TLA+ models

TLA+ models of this repository: the connection layer, the transport layer with its
key exchange and InterMAC, authentication on both sides, the listener, sessions,
connection sharing and forwarding, the agent, file transfer, and what is decided
from files (configuration, known hosts, authorized keys, revocation lists, keys).
TLC checks small instances of all of them; TLAPS proves the properties of
the channel tables, the transport, the server's authentication, PAM and the
listener for every instance. File and line numbers are those of `src/`.

## 1. The system and its parts

`ssh` and `sshd` talk over one TCP connection. From the bottom up:

| Part | State | Operations | Interaction | Hard about it | Correct when |
|---|---|---|---|---|---|
| packet layer (`packet.c`, `dispatch.c`, `cipher.c`, `mac.c`) | keys, counters and compression per direction, queue of outgoing packets, dispatch table | send, read, export and import of the state | everything above sends through it and is called by it | rekeys start at any packet; the state moves between processes; packets arrive in pieces, or changed | nothing is lost or reordered, only key exchange inside a key exchange, limits kept, no sequence number twice under a key |
| key exchange (`kex*.c`, `dh.c`) | both KEXINITs, flags, session id, new keys | KEXINIT, DH, group exchange, NEWKEYS, EXT_INFO | started by the peer, limits, the clock, the user | both sides at once; a wrong guess of the peer | both ends choose the same algorithms and derive the same keys, and the server signed what the client saw |
| InterMAC (`cipher.c`, `packet.c`, `kex.c`) | chunk state in an external library | open and seal chunks, its own limits | replaces cipher and MAC of the packet layer | chunks are opened before the packet is whole | as for the packet layer |
| authentication, server (`auth*.c`, `auth2*.c`) | `Authctxt`: attempts, failures, lists, used keys | one handler per request and method | asks the monitor for what needs privilege | two processes decide from a copy each | only who proved what the configuration asks for logs in; tries are limited |
| monitor (`monitor*.c`) | dispatch table with permissions, its own `Authctxt` | one handler per request | alternates with the child; later serves ptys | requests out of order; state that outlives a failure | monitor and child agree |
| PAM (`auth-pam.c`) | the conversation, the verdict on the account | init, query, respond, free, account, session | a process stands in for a thread | it dies at any point | an answer reaches its prompt; nobody gets in who did not pass; nothing stays open |
| listener (`sshd.c`) | startup pipes, count of unauthenticated children | accept, fork, drop, signals, restart | one process per connection | signals and alarms anywhere | the count is exact |
| channels (`channels.c`, `nchan.c`) | table of channels: half states, flags, buffers, windows, callbacks | open, data, adjust, EOF, EOW, close, free | handlers of the loops and of messages, callbacks of sessions | everything ends in any order on two sides | streams complete, windows agree, no message for the wrong channel, all slots given back |
| loops (`serverloop.c`, `clientloop.c`) | keepalives, pending confirmations, the terminal, timers | select, dispatch, escapes, signals | drive channels and packets | one loop for all of it | terminal restored, persistent master ends |
| sessions (`session.c`, `ttymodes.c`, `sshpty.c`) | tables in server process and monitor, ptys, X11 | requests, start, exit, close | hold a channel by a callback | slots, ptys and descriptors are reused | own terminal, own display, forced command kept |
| forwarding (`channels.c`, `ssh.c`, `serverloop.c`) | listeners, permitted opens, pending confirmations | request, grant, cancel, connect, SOCKS | global requests, answered in order | answers carry no name | a connection goes where its forward says |
| sharing (`mux.c`) | control channels, sessions of clients | hello, open, forward, stop, exit | adds channels to the master's table | clients die any time | every request answered, exits delivered |
| authentication, client (`sshconnect2.c`, `authfd.c`) | methods, list of keys | one handler per answer | asks the agent | partial success, agents that change | every key tried once, in order |
| agent (`ssh-agent.c`), PKCS#11 (`ssh-pkcs11*.c`) | identities, lifetimes, lock; providers and their helper | add, remove, list, sign, lock | several clients | expiry, a helper that dies | no signature that is not due |
| sftp (`sftp*.c`), scp (`scp.c`) | handles; requests under way | pipelined reads and writes | run in a session | answers in any order, failures half way | a file that is reported whole is whole |
| host keys (`sshconnect.c`, `hostfile.c`) | known hosts | check, add, update | before authentication and after it | several files, markers, ports | only a host the policy accepts |
| files and decisions (`readconf.c`, `servconf.c`, `auth2-pubkey.c`, `auth-options.c`, `match.c`, `addrmatch.c`, `krl.c`, `sshkey.c`, `authfile.c`, `moduli.c`, `ssh-keygen.c`, `ssh-keyscan.c`) | options, key options, revocations, keys | parse, match, merge, write | both programs and tools | first value, second pass, crashes while writing | as the manual pages say |
| buffers (`sshbuf*.c`) | offset, size, limit | put, get, consume | used everywhere | children share storage | a buffer is a queue |

`PROJECT.json` lists 36 parts with their files, what of each is modelled and what
is left out, and 40 hazards, each at its line with the properties that would
notice it.

## 2. Modules

A handler of the program is one operator, an action applies it and commits the
result, so every call a handler makes is part of its step. Definitions carry the
names of the functions; mutants of a definition stand just before it and are
used by no specification. In `Nchan`, `Channels`, `Transport`, `Monitor` and `Auth` a
handler is an operator on a context record: the state it may change and what it sends.

| Module | Models |
|---|---|
| `Nchan`, `Channels` | `nchan.c`; `channels.c`, the channel part of `session.c` and of the loops, for two endpoints with a FIFO each way |
| `Transport`, `PacketStream` | packets, key exchange, dispatch tables, phases of a connection and the move of the state to another process; and the abstract stream it promises |
| `PacketIO` | packets as bytes: padding, pieces, all modes of protection, changed bytes |
| `Kex` | negotiation, the methods, group exchange, derivation, guessed packets |
| `Monitor`, `Auth` | the monitor; the child that authenticates the user |
| `Pam` | the PAM device with its process, account, credentials and session |
| `Listener` | `sshd.c`: the select loop, startup pipes, signals, restart, grace alarm |
| `Session`, `TtyModes` | sessions in both processes, ptys, X11, programs; terminal modes on the wire |
| `Forwarding`, `Mux` | forwards in both directions, SOCKS, command line escapes; the master and its clients |
| `ClientAuth`, `Agent`, `Pkcs11` | `sshconnect2.c`; `ssh-agent.c`; tokens with the helper process |
| `ClientLoop` | `clientloop.c`: terminal, escapes, signals, background, ControlPersist |
| `SftpClient`, `SftpServer`, `SftpCommands`, `Scp` | `sftp-client.c`, `sftp-server.c`, `sftp.c`, `scp.c` |
| `ClientConfig`, `ServerConfig` | `readconf.c` and `ssh.c`; `servconf.c` |
| `KnownHosts`, `KeyScan` | connection attempts, host key checking and updates, rewriting of known_hosts; `ssh-keyscan.c` |
| `Access` | patterns, addresses, user and group lists, host-based trust; keys and their options |
| `Krl`, `KeyFiles`, `Sshbuf` | revocation lists; key files, certificates and moduli (`moduli.c`); buffers |
| `MC*` | instances for TLC, fairness, and the properties that combine components |
| `ChannelsProofs`, `ProtocolProofs`, `ListenerProofs`, `AuthProofs`, `AgreeProofs`, `PamProofs`, `TransportProofs`, `SftpProofs` | theorems |

Notes on the state of the larger ones, beyond the comment at the head of each module:

* **Channels.** `channels[e][i]` is slot `i` of the table of endpoint `e`; bytes are
  counted, not kept. `wire[e]` holds the messages on their way to `e`; `hist` is
  history (bytes read and written at each end, failures), `inst` names a
  channel over the reuse of its slot. The loop visits the channels one after the
  other; in the model they take turns in any order, which allows all that the loop
  does and more.
* **Transport.** `st[e]` is the packet and key exchange state of an endpoint; a
  frame on `wire[e]` carries the key, sequence number and compression it was sealed
  with. Cryptography is ideal. `RekeyBlocks`, `MaxPackets` and `SeqMod` stand for
  `rekey_limit`, 2^31 and 2^32; `MaxData` and `MaxManual` bound a behaviour.
  Authentication is one request. The elliptic curve exchanges have the control flow
  of the plain DH exchange. IGNORE, DEBUG and DISCONNECT are left out.
* **Monitor and Auth.** `options` is chosen in the initial state from `Configs`, a set of
  configurations together with the account; `mon` and `child` are the two
  processes, `hist` is what the client has really proved. A request and its
  answer are one function (`monitor_read`): the child waits for the answer. What PAM
  says is an input. Signatures are good or bad; the one part of the signed data
  that depends on the state, the style, is kept.
* **Composition.** `MCLogins`, `MCClient`, `MCServices`, `MCFiles`, `MCStartup`
  and `MCPolicy` put components side by side, each in scenarios of its own
  (`scenario`, fixed in the initial state), or let them interact: `ClientAuth` with
  `Agent`, `SftpClient` with `SftpServer`, `Mux` with `Forwarding`,
  `Auth` with `Monitor`.

External, modelled from how the code uses it and marked so in the map: PKCS#11
libraries, PAM modules, `libintermac` (it remembers the offset it stopped at),
the file system and `getaddrinfo()`.

## 3. Runs

Sizes are those of a complete search, times on two workers.

| Run | Instance | States | Time |
|---|---|---|---|
| `session` | one session opened by a multiplexing master (the kind with the most callbacks), window 2, one byte of stdin, stdout and stderr, a keepalive, failing writes | 489,000 | 55 s |
| `ends` | one session or forwarded connection, 2 bytes one way and 1 the other over a window of 2, fairness | 28,000 | 119 s |
| `reuse` | two slots and two channels of any kind from either side | 563,000 | 81 s |
| `rekey` | group exchange, compression, privilege separation, interval, limit of 3 blocks, 3 packets each way, one manual rekey, fairness | 105,000 | 83 s |
| `wrap` | counters modulo 8, up to 8 packets each way, plain DH | 585,000 | 23 s |
| `im_limit` (violation) | InterMAC with a limit of 2 blocks | | |
| `logins` | authentication in 17 configurations with `MaxAuthTries` 3; two sessions, two ptys, four channels, one failing call, requests again after a failure; terminal modes between systems that differ | 605,000 | 110 s |
| `client` | authentication with an agent another process changes, 3 answers of the server; agent with two ssh-adds; two libraries and a helper; the main loop with one other session | 696,000 | 190 s |
| `files` | 2 outstanding requests of 2 blocks, 2 commands, 2 faults; lines of up to 4 words; scp of files and a directory with two failures | 292,000 | 90 s |
| `services` | 8 scenarios with two control clients, remote, local and dynamic forwards, a free port, two families | 245,000 | 150 s |
| `startup` | three connections, `MaxStartups 1:30:2`, one restart; PAM with stacks of up to two calls and two conversations | 239,000 | 165 s |
| `policy` | 13 scenarios over sets of files and inputs | 2,472,000 | 140 s |

What they check:

* `session`: `SessionComplete` (no byte of stdin, stdout or stderr is lost at the end
  of a stream whose writer did not fail, the exit status arrives before the channel is
  gone), `SentFlagsMatchState`. `ends`: `WindowsAgree`, `ChannelsEnd` (buffers empty, every
  channel is given back). `reuse`: `ProtocolKept` (no message in flight meets a free
  slot or another channel, nothing follows a CLOSE, no `packet_disconnect()`).
* `rekey`: `RekeySound`, `ImplementsStream` (a refinement of `PacketStream`: order, each
  packet once), `LimitHonoured`, `TransportLive` (key exchanges end, packets
  arrive). `wrap`: `NoNonceReuse`.
* `logins`: `AuthSound` (who logs in has proved a list of methods in order, with
  different keys, as PermitRootLogin and PAM demand; wrong passwords limited),
  `Agreement` of monitor and child, `SessionsSound` (tables, terminals, X11 listeners),
  `Confined` (forced commands, chroot, environment), `ModesArrive`.
* `client`: `KeysTried`, `LoopSound` (terminal, escapes, ControlPersist), `CardKeysSound`,
  `AgentSound` (no key twice, no signature of a locked agent or with an expired key, keys
  expire), `ClientEnds`.
* `files`: `SftpSound` (no stray reply, handles returned), `TransfersWhole`,
  `ScpSound` (in step, errors known to both), `CommandsMeant`, `FilesEnd`.
* `services`: `ForwardsRight`, `MuxSound`, `SharingProgress`.
* `startup`: `StartupsExact`, `PamSound`, `StartupEnds`.
* `policy`: `RevocationExact`, `KeyFilesSound`, `KexAgrees`, `BuffersAreQueues`,
  `ConfigurationRight`, `ModuliRight`, `PacketsSound`, `HostKeysSound`, `AccessSound`: the
  code's way to a decision against a reference definition of the decision.

Every property has a mutant in `PROJECT.json`: a change of one definition such as a
dropped guard, a missing reset or a swapped order, under which TLC finds it violated.

**Bounds.** A window of 2 with packets up to 2 lets a window be full, partly used and
adjusted in parts. One channel is enough for what its two ends do to each other; two
slots and two channels for reuse: a message of one channel that meets the other.
Three packets each way under a limit of 3 blocks give a rekey by limit after the login,
packets in the queue and packets behind it. With `SeqMod` 8 the numbers wrap several
times. Two keys, a host key, right, wrong and empty passwords tell apart all
that the handlers do; three tries allow success after a failure of each kind. Three connections
with two startup slots reach the random drop, the full table and a slot that is used
again. Two requests under way at once, reads of three blocks or the last two of three writes, allow every
order of replies, a short read between them and a status that overwrites another. Address widths, key counts, serials and packet sizes are scaled
down with their relations kept; each is a named constant of a module or its cfg.

**Deadlock** is checked in `logins`, `services` and `startup`, where a step says that
a scenario is over. In the others an idle or closed connection, a finished scenario or
an exhausted bound stops, so `CHECK_DEADLOCK FALSE`; that they do not stop early is
what their liveness properties say.

**Fairness** is weak and only of what the programs do by themselves. Both loops run for
ever, dispatch every packet that is buffered and visit every channel in each round,
`connect()` ends and the child of a session exits (`MCChannels`); each side of the
transport reads what has arrived and goes on to its next phase (`MCTransport`); the agent,
the client and time go on (`MCClient`); client and server of sftp and both ends of scp go on
(`MCFiles`); the loops of master and server process what arrives (`MCServices`); the
listener, its children and the monitor go on, and the grace alarm fires (`Listener`, `Pam`). The
user, servers and modules that are external, new channels, failing
calls and the sending of data get none. `MCTransport` and `MCClient` write weak fairness as
`[]<>~guard \/ []<><<action>>_vars`, because `ENABLED` of a whole handler is
out of TLC's reach; the guards are exact.

## 4. Where code and documents differ

One is a run: `im_limit`, an InterMAC cipher ignores `RekeyLimit` (`packet.c:1047`),
although `ssh_config.5` makes no exception. The others were met while modelling;
the models do what the code does, and the properties say where an exception is made.

Channels and sessions

* `nchan.c:490`: `chan_shutdown_write()` clears an output buffer that was not written; its
  bytes are never credited, so the peer's window may stay shut (`ChannelsEnd` makes the
  exception; `WindowBudget` counts the bytes as leaked).
* `clientloop.c:843`, `channels.c:1891`: the client's own message about a refused request of a mux
  session goes through the buffer of the channel's stderr and is counted as consumed when it is
  written, although no window was charged for it: the peer gets credit for exactly these bytes
  more than the window (`WindowBudget`, history `own`).
* `serverloop.c:182`: the keepalive request may be sent on a channel that was
  already closed; the client does not answer it, and a live client can be counted as dead.
* `session.c:495-518`, `2088`, `1859`: a `do_exec_pty()` that fails has closed both ends of the pty and keeps
  their numbers, and the channel stays larval: another request for a program uses whatever pty
  has these numbers by then, and a window-change resizes it (`OwnTerminal`: `astray`; a window-change
  on a session whose channel has closed its end does the same).
* `clientloop.c:848-854` with `752` and `1020`: the session that is refused its pty goes on with an ordinary
  terminal, until `~Z` or `~C` puts it into raw mode (`TerminalKept`).
* `clientloop.c:1226` says of `~&` that no new connections are allowed; `channel_stop_listening()`
  (`channels.c:538-559`) leaves the control socket of a master open.
* `clientloop.c:157`: whether the last character was a newline is one static variable for
  all sessions, so an escape may be found in the middle of a line when two sessions are typed
  in (`ssh.1:227`); the run types in one (`OneTypist`).

Packets and key exchange

* `packet.c:1501`: the test of the limit in the loop that sends the queue after NEWKEYS is never
  true, since the key exchange is not yet done.
* `packet.c:2038`: after a bad MAC with CBC one block more is discarded than was announced.
* `dh.c:436-448`: when the moduli file has no group in the range a client asks for, one of three fixed
  groups stands in, of 4096 bits for a maximum from 3072 on and of 8192 bits for one from 6144
  on, above what was asked for, or below the minimum (`GroupRight`: `StandsInAbove`); OpenSSH's
  client refuses it.
* `sshbuf.c:218-222` against `sshbuf.h:100`: `sshbuf_reset()` makes the block SSHBUF_SIZE_INIT long whatever the
  limit is; a buffer with a smaller limit then fails the check that raises SIGSEGV
  (`ResetAboveLimit`). Outside of the tests nobody sets a limit.

Authentication and access

* `monitor.c:1161-1171` and `1333-1391`, `auth.c:378-382`: the forced command is cleared only before another public
  key is looked at. One that a key with a bad signature left behind lets root in by host under
  `PermitRootLogin forced-commands-only`, which `sshd_config.5:1197-1205` grants for public keys
  only (`RootPolicy` and the theorem `AuthSoundness` make this exception, by name).
* `auth2-pubkey.c:879-924` with `monitor.c:1157-1159`: a certificate of a trusted authority, where no principals are
  listed, is checked on top of the options an earlier key left set: environment, tunnel,
  permitted hosts and command of that key are in force with it (`AddsToLeftover`).
* `monitor.c:844`: an empty password as the first is "none" to the monitor and "password" to
  the child; with AuthenticationMethods the connection ends with the message that should not
  happen. `Agreement` names three more such places, none of which lets
  anybody in: another service, an abandoned conversation after a PAM message without
  a prompt, and lists with a restricted root login.
* `match.c:88-92`: two stars at the end of a pattern want one character or more, so `a**` does not
  match `a`, against `ssh_config.5:1690` (`AsRead`).

Forwarding and multiplexing

* `clientloop.c:1011`: a `-R` of the command line escape registers no confirmation,
  unlike a forward at startup: from then on every answer is taken for that of another request
  (`OrderMaintained`).
* `ssh.c:1540-1551`, `mux.c:626-628`, `channels.c:4122`: a refused remote forward with a fixed port stays in
  `permitted_opens` and is found first when another forward on that port is accepted: its
  connections go to the refused target. A connection made before a cancel was seen goes to the target of
  the forward that came instead (`ForwardsRight`).
* `mux.c:229` with `1242`: when the server refuses the pty of a session whose client has gone, the master
  calls `fatal()` and ends the sessions of all (`MuxSound`: `fatal_pty`).
* `readconf.c:364` with `mux.c:804` and `ssh.c:1666`: the contexts of the confirmations of forwards at
  startup are pointers into an array that a forward of a mux client may move. What they read is
  taken to be still there, what they write is lost (`ssh_freed`).

Files

* `sftp-client.c:1665-1668`, `1716`: each status of a write overwrites the one before, so an upload is reported
  as a success when an "ok" follows a failure (`UploadWhole`: `lost`).
* `sftp-client.c:1398-1402` with `sftp.c:671-674`: a download that fails locally returns 4, and `process_get()`
  tests for -1: a batch goes on, against `sftp.1:134-142` (`DownloadWhole`). A second failure of
  a local write is taken for a success (`bad`).
* `sftp.1:134` says which commands end a batch; the code ends it for others too.
* `sftp.c:1723`: completion inside quotes has odd cases, which `CommandsMeant` excludes by name.
* `scp.c:817-823`, `1106-1109`: `allocbuf()` fails after the sink agreed to a file: no data follows the
  record, or a second answer is sent while the data comes. `scp.c:1154-1169`: `ftruncate()`,
  `fchmod()` and `close()` each report their error, so that one file has two or three answers.
  `scp.c:1087-1093`: the times of a directory, which are set after its contents, are answered
  again if that fails. In these four ways the ends lose step (`InStep`).
* `moduli.c:622`: `-j n` skips line n, at which `ssh-keygen.1:359-360` says screening starts. `moduli.c:627`:
  the checkpoint is written before the line is tested, so a screen that goes on from it skips a
  line (`ssh-keygen.1:364`).
* `ssh-keygen.c:1090`: `-H` hashes lines again that are hashed already, against its comment.

Configuration and host keys

* `readconf.c:1458`, `1549`, `1632`, `884` against `ssh_config.5:62` (the first obtained value is used): of `IPQoS` and
  `TunnelDevice` the last is, of `StreamLocalBindMask` the last even from blocks that do not match, and
  `ConnectTimeout none` counts as not given (`FirstValueWins`).
* `servconf.c:1706`, `1831` and `1382-1394` against `sshd_config.5:1017-1020` (only the first instance in the Match blocks
  applies): of `IPQoS` and `StreamLocalBindMask` the last does, and lists such as `AllowUsers` add up over
  all blocks that are satisfied (`MatchOverrides`).
* `sshconnect.c:936`: with `StrictHostKeyChecking` and a certificate or a bare name a changed key is
  treated differently from what `ssh_config.5:1508` says. `sshconnect.c:937-945` after `1224`: where the authority is
  revoked under the name without the port, the certificate is given up and its plain key is
  looked up there again and accepted (`PlainKeyAfterRevokedCert`).
* `hostfile.c:526`, `601`, `620` and `ssh-keygen.c:1243`, `1265`: nobody looks at what `fprintf()` and `fclose()` return;
  a known_hosts that was written short takes the place of the old one, which stays as
  known_hosts.old (`KnownHostsKept`).
* `sshconnect.c:340`: once ConnectTimeout is used up, later addresses are tried without any.
* `ssh-keyscan.c` reads the greeting blocking, whatever `-T` says.

Assumptions of the models: in `SftpCommands` the cursor is at the end of the line, no
line ends in half an escape and quotes are not mixed in a word; InterMAC
instances have no privilege separation, since `cipher_get_keyiv()` exports nothing
of an InterMAC context.

## 5. Theorems

Everything below is proved for all values of the constants that satisfy the named
assumption. Each proof is operator by operator, as the code is: a lemma says what
a function preserves on a context, the lemma of a handler composes those of the functions it
calls, and the theorem has one step per action.

**Channels** (`ChannelsProofs`; `BoundsAssumption`: bounds are numbers, windows and packets not
empty). `Invariance`, `TypeCorrect`, and `SentFlags`: a channel that has sent CLOSE is closed
both ways and has no running child, one that has sent EOF reads no more. `TypeOK` is not
inductive: that a buffer stays a natural number depends on the state of the channel. `IInv` adds
on each slot that CLOSE_SENT goes with both halves closed and EOF_SENT with a closed
input, that a session whose child has not been collected is held by its callback and has not
sent CLOSE, and that a channel that is connecting has a window.

**The channel protocol** (`ProtocolProofs`, same assumption). `Protocol`: `ProtocolKept`, while slots are
used again by other channels no message reaches a channel it was not meant for, nothing
follows a CLOSE, and no `packet_disconnect()` of a channel handler is reached. None of this is
inductive: a slot may be freed only because the two CLOSEs prove that nothing is
under way any more, which is a fact about both tables and both wires. `ProtoInv` adds to `IInv`
what is true of them together, `Lawful`:

* `Settled`, of the tables and the sets of messages under way: no channel has two slots
  (`Unique`) and no message a channel that never was (`Named`); a message finds its channel,
  which has not received a CLOSE (`Addressed`), and behind the answer if that is still being
  opened (`Announced`); a channel that may send has a peer that listens (`Linked`); one that is
  being opened has sent nothing and has no state to lose (`Unanswered`, `Untouched`); CLOSE and EOF
  under way were noted by who sent them (`Marked`); an OPEN or a CONFIRM names a slot
  that waits for it (`Asked`, `Confirming`); no extended data follows an EOF (`Finished`);
* `InOrder`, of each wire: nothing about a channel follows its CLOSE or its refusal, and
  nothing precedes the answer to its OPEN.

One lemma per kind of step (a channel moves and sends, is given up, opened, accepted,
refused, confirmed) is about the sets only (`MoveSettled`, `FreeSettled`, ...), and others carry it to
the wires. `Tame` says of a context that the channel has changed and sent only what its peer
can take; each function of `nchan.c` and `channels.c` keeps it. The keepalive request and the
client's answer to it are the exceptions the code really has: they may name a channel that
is gone, or one that has its number now, and `Solid` says which messages they are.
TLC checked `ProtoInv` on the instance of `Reuse.cfg` before it was proved.

**Listener** (`ListenerProofs`; `ListenAssumption`). `ListenStartups`: `StartupsExact`, the counter
is the number of slots in use, each connection whose processes hold the pipe is counted
once, and an accepted connection finds a slot. Not inductive alone: a pipe that select()
reported must still be in the table, and at its end, when the loop counts it out, although all
processes run in between; a connection in the backlog must not be in the table yet.
`ListenInv` is the types, `startups` = the number of occupied slots, and an invariant
each of a connection, the table, the reported pipes and the pipe being counted.

**Authentication** (`AuthProofs`; `ConfigsAssumption`: the configurations are
configurations). `AuthSoundness`: `AuthSound`. `AuthInv` relates what the monitor knows, allows and
has counted to the history: what is missing from the lists has been proved in order with
different keys (the embedding of `Matched`, extended by each success), a key that may
be verified is allowed, a PAM context that is done was proved, guesses do not exceed
failures, and success means that everything was proved.

`MonitorChildAgreement` (`AgreeProofs`, same assumption): `Agreement`, the monitor and the child
decide alike between any two packets. The two copies differ inside a packet, so the invariant
(`AgreeInv`) speaks of the states between packets, and the proof follows a packet through them.
It starts `Steady`: same user, keys and lists, nobody authenticated, the monitor's name of the
method reset (`Idle`; without it a name left over would be entered into the lists), and what PAM
says only with `UsePAM` and for a user that both know. A method leaves it `Settled`: whatever the
child is about to accept, the monitor has accepted under the same name and with the same update
of the lists. `userauth_finish()` leaves it `Closed`: steady again, or both at the same end. A
context that PAM has finished while the client starts a new request is the `abandoned` one: the
monitor then counts what the child will never see. The premises of `Agreement` are where the two
programs really differ, and the proof uses each of them.
**PAM** (`PamProofs`; no assumption). `PamSafe`: `PamSound`. `PamInv` adds to it the
places of the monitor at which a thread may live and a SIGCHLD end it (`Places`), what has
to be undone (`Open`), that one thing is under way between modules and user (`Dialogue`),
and the way of the success message and of the account status through the socket (`Earned`,
`Standing`).

**Transport** (`TransportProofs`; `TransportAssumption`). Two invariants.

* `TransportInvariance`: `TInv`, the types of queue and counters, and while the connection is up
  for each side how its flags, counters, queue and dispatch table fit what is on the wire:
  after the last KEXINIT on the wire without a NEWKEYS the sender is rekeying. From it
  `RekeyOnlyKex` (`RekeySound`), `LimitKept` (`LimitHonoured` for every cipher but
  InterMAC, for which it is false, see `im_limit`), `NoncesFresh` (`NoNonceReuse`
  without privilege separation) and `ClientNoncesFresh` (of the client in any case). The
  transfer of the state clears `rekeying` without looking at it; that this is right needs `Phase`, that
  the server cannot be in a key exchange when authentication succeeds.
* `StreamRefinement`: `ImplementsStream`, that `Transport` implements `PacketStream` under the mapping
  `InFlight`, the interval of the numbers sent and not yet handed over, and that while the
  connection is up these packets are on the wire or in the queue. Its invariant `SInv`
  says that the numbered packets on the wire followed by those in the queue are
  that interval in order (`Rests`), that a side outside of a key exchange has an empty queue
  (`Tidy`), in which phase the handler of DATA is installed (`Place`), and that a client past its login
  finds a server past it. Every step is `Send`, `Deliver` or a stutter.

**sftp** (`SftpProofs`; `SftpAssumption`: the commands have the fields of their kind, and the server
does not refuse `close`: under `sftp-server -P close` it never gets a handle back). `SftpSafe`:
`SftpSound`, the client never meets a reply it did not ask for (the `fatal()` calls on an unknown id), and
between commands every handle is back on the server's free list. It is proved for `SftpSpec`, which starts
with any remote and local files, for any `BufLen`, `ReadMax` and `NumRequests`, with replies in any order,
short reads, failures at both ends and SIGINT between any two steps. `SftpInv` adds what each of the two
needs: the ids under way are those the client waits for, each once, whether in a request or a reply
(`Flight`, with `Numbers`: the ids in use are older than the next, and writes count for themselves while
`msg_id` stays behind); what may be asked for and what the table of handles holds at each place of
the client (`Asked`, `Table`), since a `close` returns the handle only if it names the one that is
open; and that the requests after an upload end with their only `close` (`Purpose`). Sequences are
handled through `Carries(s, I)`, the ids of `s` are `I`, each once: one lemma each for tail,
append, removal, replacement and concatenation. TLC checked `SftpInv` on the instance of `Files.cfg`
before it was proved.

Facts about minima and finite sets that would need induction are proved from `WFMin` and
`NatLessThanWellFounded`.

**Only model-checked**, and why:

* liveness (`ChannelsEnd`, `TransportLive`, `ClientEnds`, `FilesEnd`, `SharingProgress`, `StartupEnds`, and
  the part of `AgentSound` about expiry): fairness and `ENABLED` are out of the prover's reach;
* `NoNonceReuse` with privilege separation: the transfer resets the packet counters but not the record
  of used numbers, and the packets before login are bounded only by `MaxData` and the limits of
  an instance, not by an argument about arbitrary constants;
* what relates both ends of a channel through sums over the messages under way (`WindowsAgree`,
  `SessionComplete`): `UnderWay` is a fold, whose value for every sequence needs induction over data;
  * `BuffersAreQueues`, `ScpSound`, `AccessSound` and what shares a module with them: their operators are
  RECURSIVE; `EscapesAtLineStart`, `CardKeysSound`, `CommandsMeant`, `RevocationExact`: induction
  over sequences or folds;
* `SessionsSound`, `Confined`, `KeysTried`, `TransfersWhole`, `ForwardsRight`, `MuxSound`, `KexAgrees`,
  `PacketsSound`, `ConfigurationRight`, `HostKeysSound`, `KeyFilesSound`, `ModuliRight`, `ModesArrive`:
  not attempted yet.

## 6. Not modelled

Cryptographic primitives (ideal in all models), sandboxes and platform code, uid
switching, `atomicio()` and its relatives, the compatibility library, optional
authentication (GSSAPI, BSD auth, S/Key), audit and login records, the SSH 1 client, logging and
the text of messages, `ssh-add` and `ssh-keysign` as programs, the packet rewriting of the mux
proxy, X11 cookie substitution, tun and datagram channels. `PROJECT.json`
gives the reason for each.

Smaller cuts inside what is modelled: reading a detached terminal without waiting for
select() (`channels.c:1733`), `force_drain` (`channels.c:2836`), an exit by signal, which ends a channel as an exit
status does (`session.c:2257`), and a refused pty in `Channels` (it is in `ClientLoop`, `Mux` and `Session`); PAM modules
that change the user (`auth-pam.c:627`); keys of a token in the list of `ClientAuth` (`sshconnect2.c:1353`), which
`Pkcs11` models, and the skipping of RSA keys for old servers (`1431`); tunnels at startup (`ssh.c:1671`);
upper case and patterns of 1024 bytes in lists (`match.c:139`); directory
entries whose attributes do not decode (`sftp-client.c:605`); a line of known_hosts cut in two. `KeyKept` is about key
files of runs in which no call failed: a key file is truncated and written in place, and a
crash in between loses it in the code as in the model; what holds then is `CertMatches`.

## 7. Plan

1. Done: all components above modelled and checked; channels with their protocol, listener,
   authentication, PAM, transport and the sftp client with its server proved, with the refinement of
   the abstract stream.
2. Next: `Confined`, whose steps are few; the safety part of the agent (`NoDuplicates`,
   `SignaturesSound`, `LockHolds`), once removal from the list is written without an operator
   parameter; `DownloadWhole`, for which `SftpInv` has to say which blocks of the local file are
   written while reads are under way.
