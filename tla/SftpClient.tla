----------------------------- MODULE SftpClient -----------------------------
(***************************************************************************)
(* sftp.c and sftp-client.c: the commands of a batch or of a user, and the *)
(* transfers they are made of, against SftpServer.  The client is one      *)
(* process: a step of it is what happens between two calls of get_msg().   *)
(* SIGINT may arrive between any two steps and only sets `interrupted'.    *)
(* Reads and writes are pipelined: several requests are under way at once. *)
(***************************************************************************)
EXTENDS SftpServer

CONSTANTS Commands,    \* what the user may type
          MaxCommands, \* bound on the commands of one session
          Locals,      \* the local files there may be at the start
          BufLen,      \* conn->transfer_buflen, in blocks
          MinReadSize, \* MIN_READ_SIZE, in blocks
          NumRequests  \* conn->num_requests

\* The requests that a command may be made of, besides the transfers and listings.
Simple == {"remove", "mkdir", "rmdir", "lstat", "setstat", "realpath", "rename", "posix_rename",
           "symlink", "statvfs"}

\* The commands are those of sftp, and the server does not refuse to close (with -P close
\* it would keep every handle).
ASSUME SftpAssumption ==
  /\ "close" \notin Refused
  /\ \A c \in Commands :
       /\ c.op \in {"get", "put", "ls", "getr"} \cup Simple
       /\ c.op \in Simple => {"op", "id"} \subseteq DOMAIN c
       /\ c.op = "put" => c.tail \in Seq({"fsetstat", "fsync"})

VARIABLES pc,          \* where the client waits, or "idle", "aborted", "fatal"
          msg_id,      \* conn->msg_id
          command,     \* the command being carried out
          work,        \* its files still to be transferred (gl_pathv)
          err,         \* the command's err
          t,           \* the locals of the transfer under way
          local,       \* Names -> [type, data]
          interrupted, \* set by SIGINT
          last,        \* the transfer or listing that ended last: its result, whether
                       \* the command counts it as failed (told), a local write that
                       \* failed (werr), a failed status that was overwritten (lost), the
                       \* file written to, before (was), and the most local writes that
                       \* failed in one transfer so far (bad)
          count        \* commands so far

clientVars == <<pc, msg_id, command, work, err, t, local, interrupted, last, count>>
sftpVars == <<serverVars, clientVars>>

batchmode == TRUE

\* The locals of do_download(), do_upload() and do_lsreaddir().
NoTransfer == [name |-> "", resume |-> FALSE, handle |-> 0, reqs |-> <<>>, off |-> 0, high |-> 0,
               reordered |-> FALSE, max |-> 0, buflen |-> 0, size |-> 0, rerr |-> FALSE,
               werr |-> FALSE, st |-> "ok", startid |-> 0, id |-> 0, ackid |-> 0,
               tail |-> <<>>, names |-> <<>>, bad |-> 0, lost |-> FALSE, was |-> <<>>]
NoResult == [op |-> "none", name |-> "", st |-> "ok", told |-> FALSE, werr |-> FALSE, lost |-> FALSE,
             was |-> <<>>, names |-> <<>>, bad |-> 0]

Forget == [NoResult EXCEPT !.bad = last.bad]

SftpInit(files) ==
  /\ ServerInit(files)
  /\ pc = "idle" /\ msg_id = 1
  /\ command = [op |-> "none"] /\ work = <<>> /\ err = 0 /\ t = NoTransfer
  /\ local \in Locals /\ interrupted = FALSE /\ last = NoResult /\ count = 0

-----------------------------------------------------------------------------
(* Talking to the server.                                                  *)

\* send_msg() of requests qs, which take the ids from msg_id on
SendAll(qs) ==
  /\ requests' = requests \o [i \in 1 .. Len(qs) |-> [qs[i] EXCEPT !.id = msg_id + i - 1]]
  /\ msg_id' = msg_id + Len(qs)
Ask1(q) == SendAll(<<q>>)
SendNone == UNCHANGED <<requests, msg_id>>

\* get_msg(): the next reply, in whatever order the server answers
Arriving == 1 .. IF Reorder THEN Len(replies) ELSE SmallerOf(1, Len(replies))
Receive(i) == replies' = RemoveAt(replies, i)

ServerKeeps == UNCHANGED <<fs, handles, unused, readonly>>
Fatal == pc' = "fatal" /\ UNCHANGED <<requests, msg_id, command, work, err, t, local, interrupted,
                                     last, count, faults>>

\* get_status(), get_handle(), get_decode_stat(): the one reply expected is the
\* one to the request sent last.
Await(state, Then(_)) ==
  /\ pc = state
  /\ \E i \in Arriving :
       /\ Receive(i)
       /\ IF replies[i].id # msg_id - 1 THEN Fatal ELSE Then(replies[i])
  /\ ServerKeeps

Failed(r) == r.type = "status" /\ r.status # "ok"

\* The commands that are one request and its answer.
do_rm(n) == [op |-> "remove", id |-> 0, name |-> n]
do_mkdir(n) == [op |-> "mkdir", id |-> 0, name |-> n]
do_rmdir(n) == [op |-> "rmdir", id |-> 0, name |-> n]
do_lstat(n) == [op |-> "lstat", id |-> 0, name |-> n]
do_setstat(n) == [op |-> "setstat", id |-> 0, name |-> n]
do_realpath(n) == [op |-> "realpath", id |-> 0, name |-> n]
do_rename(n, to, legacy) == [op |-> IF legacy THEN "rename" ELSE "posix_rename", id |-> 0, name |-> n, to |-> to]
do_symlink(n, to) == [op |-> "symlink", id |-> 0, name |-> n, to |-> to]
do_statvfs(n) == [op |-> "statvfs", id |-> 0, name |-> n]

\* The requests transfers are made of.
Close(h) == [op |-> "close", id |-> 0, handle |-> h]
Stat(n) == [op |-> "stat", id |-> 0, name |-> n]
Open(n, flags) == [op |-> "open", id |-> 0, name |-> n, flags |-> flags]
ReadRequest(h, off, len) == [op |-> "read", id |-> 0, handle |-> h, off |-> off, len |-> len]

-----------------------------------------------------------------------------
(* Commands: interactive_loop() and parse_dispatch_command().              *)

\* the loops of process_get() and process_put(): the next file, unless the
\* user interrupted
Command(c) ==
  /\ pc = "idle" /\ count < MaxCommands
  /\ count' = count + 1
  /\ command' = c /\ err' = 0 /\ interrupted' = FALSE /\ last' = Forget
  /\ work' = IF c.op \in {"get", "put"} THEN c.files ELSE <<>>
  /\ CASE c.op \in {"get", "put"} -> pc' = "next" /\ SendNone
       [] c.op \in {"ls", "getr"} -> pc' = "ls_open" /\ Ask1([op |-> "opendir", id |-> 0, name |-> c.name])
       [] OTHER -> pc' = "simple" /\ Ask1(c)
  /\ UNCHANGED <<t, local, faults, replies>> /\ ServerKeeps

\* do_rm(), do_mkdir(), do_rename(), do_setstat(), do_realpath()...
SimpleReply ==
  LET Then(r) == /\ err' = IF Failed(r) THEN -1 ELSE 0
                 /\ pc' = "next"
                 /\ SendNone
                 /\ UNCHANGED <<command, work, t, local, interrupted, last, count, faults>>
  IN  Await("simple", Then)

\* An unignored error ends a batch.
CommandEnds ==
  /\ pc = "next" /\ (work = <<>> \/ interrupted)
  /\ pc' = IF batchmode /\ err # 0 /\ ~command.ignore THEN "aborted" ELSE "idle"
  /\ command' = [op |-> "none"] /\ work' = <<>>
  /\ UNCHANGED <<err, t, local, interrupted, last, count, faults, replies>> /\ SendNone /\ ServerKeeps

\* the handler of SIGINT
cmd_interrupt ==
  /\ pc \notin {"idle", "aborted", "fatal"} /\ ~interrupted
  /\ interrupted' = TRUE
  /\ UNCHANGED <<serverVars, pc, msg_id, command, work, err, t, local, last, count>>

\* what a transfer returned, and what process_get() and process_put() make of it
TransferEnds(name, st, failed) ==
  /\ pc' = "next"
  /\ last' = [op |-> command.op, name |-> name, st |-> st, told |-> failed, werr |-> t.werr,
              lost |-> t.lost, was |-> t.was, names |-> <<>>, bad |-> LargerOf(last.bad, t.bad)]
  /\ err' = IF failed THEN -1 ELSE err
  /\ t' = NoTransfer

-----------------------------------------------------------------------------
(* do_download().                                                          *)

GetNext ==
  /\ pc = "next" /\ work # <<>> /\ ~interrupted /\ command.op \in {"get", "getr"}
  /\ t' = [NoTransfer EXCEPT !.name = Head(work), !.resume = command.resume,
                             !.was = local[Head(work)].data]
  /\ work' = Tail(work) /\ last' = Forget
  /\ pc' = "dl_stat" /\ Ask1(Stat(Head(work)))
  /\ UNCHANGED <<command, err, local, interrupted, count, faults, replies>> /\ ServerKeeps

DownloadStat ==
  LET Then(r) ==
        /\ IF Failed(r) \/ r.kind # "file"
           THEN TransferEnds(t.name, "failure", TRUE) /\ SendNone
           ELSE /\ t' = [t EXCEPT !.size = r.size]
                /\ pc' = "dl_open" /\ Ask1(Open(t.name, {"read"}))
                /\ UNCHANGED <<last, err>>
        /\ UNCHANGED <<command, work, local, interrupted, count, faults>>
  IN  Await("dl_stat", Then)

\* The head of the loop and its requests: u is the transfer so far, again the
\* requests this step sends before it gets here.
Drained_break(u) == (u.reqs = <<>> /\ u.max = 0) \/ interrupted
Drained_max(u) == u.reqs = <<>> /\ u.max = 0
Drained(u) == u.reqs = <<>> /\ (u.max = 0 \/ interrupted)
LoopHead(u, again) ==
  LET max == IF interrupted THEN 0 ELSE u.max
      n == LargerOf(max - Len(u.reqs), 0)
      id(i) == msg_id + Len(again) + i - 1
      off(i) == u.off + (i - 1) * u.buflen
      sent == [i \in 1 .. n |-> ReadRequest(u.handle, off(i), u.buflen)]
      reqs == [i \in 1 .. n |-> [id |-> id(i), off |-> off(i), len |-> u.buflen]]
  IN  IF Drained(u)
      THEN /\ t' = u /\ pc' = "dl_end" /\ SendAll(again)
      ELSE /\ t' = [u EXCEPT !.max = max, !.off = @ + n * u.buflen, !.reqs = @ \o reqs]
           /\ pc' = "dl" /\ SendAll(again \o sent)

\* "local file is larger than remote"
RefuseResume(h) == t' = [t EXCEPT !.handle = h] /\ pc' = "dl_fail" /\ Ask1(Close(h)) /\ UNCHANGED <<last, err>>

\* Without resume the local file is cut to nothing; with it, the transfer
\* goes on where the file ends.  The local open() or fstat() may fail.
DownloadOpen ==
  LET have == IF t.resume THEN Len(local[t.name].data) ELSE 0
      u == [t EXCEPT !.max = 1, !.buflen = BufLen, !.off = have, !.high = have]
      Then(r) ==
        /\ IF r.type = "status"
           THEN TransferEnds(t.name, "failure", TRUE) /\ SendNone /\ UNCHANGED <<local, faults>>
           ELSE \/ Fault /\ RefuseResume(r.handle) /\ UNCHANGED local
                \/ /\ local' = [local EXCEPT ![t.name] = File(IF t.resume THEN @.data ELSE <<>>)]
                   /\ IF have > t.size
                      THEN RefuseResume(r.handle)
                      ELSE LoopHead([u EXCEPT !.handle = r.handle], <<>>) /\ UNCHANGED <<last, err>>
                   /\ UNCHANGED faults
        /\ UNCHANGED <<command, work, interrupted, count>>
  IN  Await("dl_open", Then)

\* The bookkeeping after a block was written, or not, at the offset of req.
Advance_last(u, req, len, wrote) ==
  IF ~wrote /\ ~u.werr THEN [u EXCEPT !.werr = TRUE, !.max = 0]
  ELSE [u EXCEPT !.high = LargerOf(@, req.off + len)]
Advance(u, req, len, wrote) ==
  IF ~wrote /\ ~u.werr THEN [u EXCEPT !.werr = TRUE, !.max = 0]
  ELSE IF ~u.reordered /\ req.off <= u.high THEN [u EXCEPT !.high = req.off + len]
  ELSE [u EXCEPT !.reordered = TRUE]

\* How many requests may be under way from now on.
Widen(u) ==
  IF u.max = 0 THEN u
  ELSE IF u.size > 0 /\ u.off > u.size THEN [u EXCEPT !.max = 1]
  ELSE IF u.max <= NumRequests THEN [u EXCEPT !.max = @ + 1] ELSE u

\* A block arrived; the missing rest of a short one is asked for again.
GotData(r, j, wrote) ==
  LET req == t.reqs[j]
      len == Len(r.data)
      u == Advance([t EXCEPT !.bad = IF wrote THEN @ ELSE @ + 1], req, len, wrote)
      rest == [id |-> msg_id, off |-> req.off + len, len |-> req.len - len]
      short == [u EXCEPT !.reqs[j] = rest,
                         !.buflen = IF len < @ THEN LargerOf(MinReadSize, len) ELSE @]
  IN  IF len = req.len
      THEN LoopHead(Widen([u EXCEPT !.reqs = RemoveAt(@, j)]), <<>>)
      ELSE LoopHead(Widen(short), <<ReadRequest(t.handle, rest.off, rest.len)>>)

DownloadReply ==
  /\ pc = "dl"
  /\ \E i \in Arriving :
       LET r == replies[i]
           js == {j \in 1 .. Len(t.reqs) : t.reqs[j].id = r.id}
           j == CHOOSE k \in js : TRUE
       IN  /\ Receive(i)
           /\ \/ js = {} /\ Fatal
              \/ /\ js # {} /\ r.type = "status"
                 /\ LoopHead([t EXCEPT !.rerr = @ \/ r.status # "eof", !.max = 0,
                                       !.reqs = RemoveAt(@, j)], <<>>)
                 /\ UNCHANGED <<command, work, err, local, interrupted, last, count, faults>>
              \/ /\ js # {} /\ r.type = "data"
                 /\ \E k \in 0 .. Len(r.data) :
                      /\ IF k = Len(r.data) THEN UNCHANGED faults ELSE Fault
                      /\ GotData(r, j, k = Len(r.data))
                      /\ local' = [local EXCEPT ![t.name].data =
                                     IF k = 0 THEN @ ELSE WriteAt(@, t.reqs[j].off, SubSeq(r.data, 1, k))]
                 /\ UNCHANGED <<command, work, err, interrupted, last, count>>
  /\ ServerKeeps

\* After the loop: cut the file where the data stops being contiguous, close.
DownloadEnd ==
  /\ pc = "dl_end"
  /\ local' = IF t.rerr \/ t.werr \/ interrupted
              THEN [local EXCEPT ![t.name].data = Truncate(@, t.high)] ELSE local
  /\ pc' = "dl_close" /\ Ask1(Close(t.handle))
  /\ UNCHANGED <<command, work, err, t, interrupted, last, count, faults, replies>> /\ ServerKeeps

\* do_download() returns -1 for a read error only; process_get() counts
\* nothing else as a failure.
DownloadClosed ==
  LET Then(r) ==
        /\ TransferEnds(t.name, IF t.rerr \/ t.werr \/ Failed(r) \/ interrupted THEN "failure" ELSE "ok",
                        t.rerr)
        /\ SendNone
        /\ UNCHANGED <<command, work, local, interrupted, count, faults>>
  IN  Await("dl_close", Then)

DownloadRefused ==
  LET Then(r) == /\ TransferEnds(t.name, "failure", TRUE) /\ SendNone
                 /\ UNCHANGED <<command, work, local, interrupted, count, faults>>
  IN  Await("dl_fail", Then)

-----------------------------------------------------------------------------
(* do_upload().                                                            *)

\* flags of the open request
UploadFlags == {"write", "creat"} \union IF command.resume THEN {"append"} ELSE {"trunc"}

PutNext ==
  /\ pc = "next" /\ work # <<>> /\ ~interrupted /\ command.op = "put"
  /\ work' = Tail(work)
  /\ IF local[Head(work)].type # "file"
     THEN TransferEnds(Head(work), "failure", TRUE) /\ SendNone
     ELSE /\ t' = [NoTransfer EXCEPT !.name = Head(work), !.resume = command.resume]
          /\ IF command.resume
             THEN pc' = "ul_stat" /\ Ask1(Stat(Head(work)))
             ELSE pc' = "ul_open" /\ Ask1(Open(Head(work), UploadFlags))
          /\ last' = Forget /\ UNCHANGED err
  /\ UNCHANGED <<command, local, interrupted, count, faults, replies>> /\ ServerKeeps

\* resume: the remote file must be there and shorter than the local one
UploadStat ==
  LET Then(r) ==
        /\ IF Failed(r) \/ r.size >= Len(local[t.name].data)
           THEN TransferEnds(t.name, "failure", TRUE) /\ SendNone
           ELSE /\ t' = [t EXCEPT !.off = r.size, !.was = fs[Target(t.name)].data]
                /\ pc' = "ul_open" /\ Ask1(Open(t.name, UploadFlags))
                /\ UNCHANGED <<last, err>>
        /\ UNCHANGED <<command, work, local, interrupted, count, faults>>
  IN  Await("ul_stat", Then)

\* The write requests take ids of their own, from that of the open request
\* on; msg_id stays behind.
UploadOpen ==
  LET Then(r) ==
        /\ IF r.type = "status"
           THEN TransferEnds(t.name, "failure", TRUE)
           ELSE /\ t' = [t EXCEPT !.handle = r.handle, !.id = msg_id - 1,
                                  !.startid = msg_id, !.ackid = msg_id]
                /\ pc' = "ul" /\ UNCHANGED <<last, err>>
        /\ SendNone
        /\ UNCHANGED <<command, work, local, interrupted, count, faults>>
  IN  Await("ul_open", Then)

\* One turn of the loop up to where it waits for a status, if it does.
UploadSend ==
  LET data == local[t.name].data
      len == IF interrupted \/ t.st # "ok" THEN 0 ELSE SmallerOf(BufLen, Len(data) - t.off)
      id == t.id + 1
      ack == [id |-> id, off |-> t.off, len |-> len]
  IN  /\ pc = "ul"
      /\ \/ /\ len = 0 /\ t.reqs # <<>>
            /\ pc' = "ul_wait" /\ SendNone /\ UNCHANGED t
         \/ /\ len = 0 /\ t.reqs = <<>>
            /\ t' = [t EXCEPT !.tail = command.tail \o <<"close">>]
            /\ pc' = "ul_tail" /\ SendNone
         \/ /\ len > 0
            /\ t' = [t EXCEPT !.reqs = Append(@, ack), !.id = id, !.off = @ + len]
            /\ requests' = Append(requests, [op |-> "write", id |-> id, handle |-> t.handle,
                              off |-> t.off, data |-> SubSeq(data, t.off + 1, t.off + len)])
            /\ pc' = IF id = t.startid \/ id - t.ackid >= NumRequests THEN "ul_wait" ELSE "ul"
            /\ UNCHANGED msg_id
      /\ UNCHANGED <<command, work, err, local, interrupted, last, count, faults, replies>>
      /\ ServerKeeps

\* Every status overwrites the one before, a failure too.
UploadStatus(st) == [t EXCEPT !.st = st, !.lost = @ \/ (t.st # "ok" /\ st = "ok")]
UploadAck ==
  /\ pc = "ul_wait"
  /\ \E i \in Arriving :
       LET r == replies[i]
           js == {j \in 1 .. Len(t.reqs) : t.reqs[j].id = r.id}
       IN  /\ Receive(i)
           /\ IF js = {} THEN Fatal
              ELSE /\ t' = [UploadStatus(r.status) EXCEPT
                               !.reqs = RemoveAt(@, CHOOSE j \in js : TRUE), !.ackid = @ + 1]
                   /\ pc' = "ul" /\ SendNone
                   /\ UNCHANGED <<command, work, err, local, interrupted, last, count, faults>>
  /\ ServerKeeps

\* do_fsetstat() and do_fsync() if asked for, do_close()
UploadTail ==
  /\ pc = "ul_tail"
  /\ Ask1([op |-> Head(t.tail), id |-> 0, handle |-> t.handle])
  /\ pc' = "ul_close"
  /\ UNCHANGED <<command, work, err, t, local, interrupted, last, count, faults, replies>>
  /\ ServerKeeps

UploadClosed ==
  LET Then(r) ==
        /\ IF Len(t.tail) > 1
           THEN /\ t' = [t EXCEPT !.tail = Tail(@)] /\ pc' = "ul_tail" /\ UNCHANGED <<last, err>>
           ELSE LET bad == t.st # "ok" \/ Failed(r)
                IN  TransferEnds(t.name, IF bad THEN "failure" ELSE "ok", bad)
        /\ SendNone
        /\ UNCHANGED <<command, work, local, interrupted, count, faults>>
  IN  Await("ul_close", Then)

-----------------------------------------------------------------------------
(* do_lsreaddir(): for ls, and for the entries of a recursive get.         *)

ReadDirOr(u) ==
  IF interrupted
  THEN pc' = "ls_close" /\ Ask1(Close(u.handle)) /\ t' = u
  ELSE pc' = "ls" /\ Ask1([op |-> "readdir", id |-> 0, handle |-> u.handle]) /\ t' = u

ListOpen ==
  LET Then(r) ==
        /\ IF r.type = "status"
           THEN TransferEnds(command.name, "failure", TRUE) /\ SendNone
           ELSE ReadDirOr([NoTransfer EXCEPT !.handle = r.handle]) /\ UNCHANGED <<last, err>>
        /\ UNCHANGED <<command, work, local, interrupted, count, faults>>
  IN  Await("ls_open", Then)

\* (An entry whose attributes do not decode ends the listing without a close;
\* sftp-server sends none.)
ListReply ==
  LET Then(r) ==
        /\ IF r.type = "status"
           THEN /\ pc' = "ls_close" /\ Ask1(Close(t.handle))
                /\ t' = [t EXCEPT !.rerr = r.status # "eof"]
           ELSE ReadDirOr([t EXCEPT !.names = @ \o r.names])
        /\ UNCHANGED <<command, work, err, local, interrupted, last, count, faults>>
  IN  Await("ls", Then)

\* No partial result after an error or an interrupt.
Listed == IF t.rerr \/ interrupted THEN <<>> ELSE t.names

\* download_dir_internal() then gets the entries that are regular files.
ListClosed ==
  LET Then(r) ==
        /\ pc' = "next" /\ t' = NoTransfer
        /\ last' = [op |-> "ls", name |-> command.name, st |-> IF t.rerr THEN "failure" ELSE "ok",
                    told |-> t.rerr, werr |-> FALSE, lost |-> FALSE, was |-> <<>>,
                    names |-> Listed, bad |-> last.bad]
        /\ err' = IF t.rerr THEN -1 ELSE err
        /\ work' = IF command.op = "getr"
                   THEN SelectSeq(Listed, LAMBDA n : fs[n].type = "file") ELSE <<>>
        /\ SendNone
        /\ UNCHANGED <<command, local, interrupted, count, faults>>
  IN  Await("ls_close", Then)

-----------------------------------------------------------------------------
ClientStep ==
  \/ \E c \in Commands : Command(c)
  \/ SimpleReply \/ CommandEnds
  \/ GetNext \/ DownloadStat \/ DownloadOpen \/ DownloadReply \/ DownloadEnd
  \/ DownloadClosed \/ DownloadRefused
  \/ PutNext \/ UploadStat \/ UploadOpen \/ UploadSend \/ UploadAck \/ UploadTail \/ UploadClosed
  \/ ListOpen \/ ListReply \/ ListClosed

SftpNext == ClientStep \/ cmd_interrupt \/ (Process /\ UNCHANGED clientVars)

\* The client and the server each go on while they can; the user need not
\* type or interrupt.
SftpFairness ==
  /\ WF_sftpVars(ClientStep /\ count' = count)
  /\ WF_sftpVars(Process /\ UNCHANGED clientVars)

-----------------------------------------------------------------------------
\* Any remote file system.
FileSystems == [Names -> [type : {"none", "file", "dir", "link"}, data : Seq(Nat \cup Names)]]
SftpSpec == (\E files \in FileSystems : SftpInit(files)) /\ [][SftpNext]_sftpVars

-----------------------------------------------------------------------------
(* Properties.                                                             *)

\* Every command ends: no transfer waits for a reply that does not come.
CommandsEnd == pc # "idle" ~> pc \in {"idle", "aborted"}

\* The client never finds a reply it did not expect (the fatal() calls on an
\* unknown or mismatched id): every transfer, however it ends, drains what it
\* asked for before the next request is made.
NoStrayReply == pc # "fatal"

Remote(n) == fs[Target(n)]
Prefix(d, whole) == Len(d) <= Len(whole) /\ d = SubSeq(whole, 1, Len(d))

\* What a download leaves in the local file is always the beginning of the
\* remote one, without holes, however it ended: a reget goes on from there.
\* (A download that is refused or cannot begin leaves the local file as it was.)
\* When it reports success it is all of it, and so it is when the command does
\* not count it as failed.  Two exceptions.  Once two local writes of one transfer
\* failed, the second failure is taken for a success, and when blocks arrive out of
\* order the file is then cut after data never written (bad).  And do_download()
\* returns SSH2_FX_FAILURE, which is 4, for a local write error or an interrupt, but
\* process_get() tests for -1: the file is cut short and a batch goes on, which
\* sftp(1) denies ("will abort if any of the following commands fail: get ...").
DownloadWhole ==
  (last.bad < 2 /\ last.op \in {"get", "getr"} /\ Remote(last.name).type = "file" /\ local[last.name].type = "file") =>
     /\ \/ Prefix(local[last.name].data, Remote(last.name).data)
        \/ last.told /\ local[last.name].data = last.was
     /\ last.st = "ok" \/ ~(last.told \/ last.werr \/ interrupted) =>
           local[last.name].data = Remote(last.name).data

\* An upload that reports success and was not interrupted leaves the remote file
\* equal to the local one, whatever failed; a resumed one when the remote file was
\* the beginning of the local one, which sftp(1) leaves to the user.  One exception:
\* of the writes under way when one fails, a later status "ok" overwrites the failure,
\* and do_upload() reports success for a file with a hole or without its end (lost).
UploadWhole ==
  (last.op = "put" /\ last.st = "ok" /\ ~interrupted /\ ~last.lost /\ Prefix(last.was, local[last.name].data)) =>
     Remote(last.name).data = local[last.name].data

\* A listing is the whole directory or, after an interrupt, nothing.
ListingWhole ==
  (last.op = "ls" /\ last.st = "ok") =>
     \/ last.names = <<>> /\ interrupted
     \/ ToSet(last.names) = {n \in Names : Exists(n)}

\* Between commands the server holds no handle open: each path through a
\* transfer closes what it opened, and every entry is on the free list once.
HandlesReturned ==
  pc \in {"idle", "aborted"} =>
     /\ \A h \in 1 .. Len(handles) : handles[h].use = "unused"
     /\ Len(unused) = Len(handles) /\ ToSet(unused) = 1 .. Len(handles)

\* The sftp client and its server stay in step and give back what they use
\* (NoStrayReply, HandlesReturned).
SftpSound == NoStrayReply /\ HandlesReturned
=============================================================================
