----------------------------- MODULE SftpServer -----------------------------
(***************************************************************************)
(* sftp-server.c: one process that takes requests from its input queue one *)
(* at a time, in order, and answers each.  It keeps a table of handles     *)
(* with a free list, and changes the file system the client works on.      *)
(* A file's data is a sequence of blocks; Hole is a block of zeros that    *)
(* nobody wrote.  Attributes (modes, times, owners) are left out.          *)
(*                                                                         *)
(* The client copes with servers that answer out of order and with less    *)
(* than was asked for; OpenSSH's own server does neither, so both are      *)
(* switched by Reorder and ShortReads.                                     *)
(***************************************************************************)
EXTENDS Integers, Sequences, FiniteSets, SequencesExt

CONSTANTS Names,       \* the paths of the remote file system
          ReadMax,     \* process_read(): the size of its buffer, in blocks
          Refused,     \* requests refused by -P and -p
          Reorder,     \* replies may overtake one another
          ShortReads,  \* a read may return less than there is
          MaxFaults    \* bound on failing reads and writes, at either end

VARIABLES fs,          \* Names -> [type, data]
          handles,     \* the table: a sequence of [use, name, append, left]
          unused,      \* the list that starts at first_unused_handle
          requests,    \* what the client sent and process() has not taken
          replies,     \* what send_msg() queued and the client has not read
          faults,      \* failures so far
          readonly     \* sftp-server -R

serverVars == <<fs, handles, unused, requests, replies, faults, readonly>>

Hole == 0
Absent == [type |-> "none", data |-> <<>>]
File(d) == [type |-> "file", data |-> d]
Directory == [type |-> "dir", data |-> <<>>]
Link(to) == [type |-> "link", data |-> <<to>>]

Exists(n) == fs[n].type # "none"
\* stat() follows a symbolic link, lstat() does not
Target(n) == IF fs[n].type = "link" THEN fs[n].data[1] ELSE n
SmallerOf(a, b) == IF a < b THEN a ELSE b
LargerOf(a, b) == IF a > b THEN a ELSE b

\* write() of w at offset off
WriteAt(d, off, w) ==
  [i \in 1 .. LargerOf(Len(d), off + Len(w)) |->
     IF i \in off + 1 .. off + Len(w) THEN w[i - off]
     ELSE IF i <= Len(d) THEN d[i] ELSE Hole]

\* ftruncate()
Truncate(d, n) == [i \in 1 .. n |-> IF i <= Len(d) THEN d[i] ELSE Hole]

ServerInit(files) ==
  /\ fs = files
  /\ handles = <<>> /\ unused = <<>>
  /\ requests = <<>> /\ replies = <<>>
  /\ faults = 0
  /\ readonly \in BOOLEAN

-----------------------------------------------------------------------------
(* Handles.                                                                *)

handle_is_ok(h, use) == h \in 1 .. Len(handles) /\ handles[h].use = use

\* the handle handle_new() returns
NewHandle == IF unused = <<>> THEN Len(handles) + 1 ELSE Head(unused)

\* A list that is empty gets the new last entry, which is then taken off it.
handle_new(use, name, append, left) ==
  LET e == [use |-> use, name |-> name, append |-> append, left |-> left]
  IN  IF unused = <<>>
      THEN handles' = Append(handles, e) /\ unused' = <<>>
      ELSE /\ handles' = [handles EXCEPT ![Head(unused)] = e]
           /\ unused' = Tail(unused)

handle_unused(h) ==
  /\ handles' = [handles EXCEPT ![h].use = "unused"]
  /\ unused' = <<h>> \o unused

-----------------------------------------------------------------------------
(* Replies.                                                                *)

Send(r) == replies' = Append(replies, r)
send_status(id, s) == Send([type |-> "status", id |-> id, status |-> s])
send_handle(id, h) == Send([type |-> "handle", id |-> id, handle |-> h])
send_data(id, d) == Send([type |-> "data", id |-> id, data |-> d])
send_names(id, names) == Send([type |-> "name", id |-> id, names |-> names])
send_attrib(id, f) ==
  Send([type |-> "attrs", id |-> id, kind |-> f.type, size |-> Len(f.data)])

\* errno_to_portable(): what the client tells apart
StatusOf(ok) == IF ok THEN "ok" ELSE "failure"
KeepTable == UNCHANGED <<handles, unused>>
Fault == faults < MaxFaults /\ faults' = faults + 1
NoFault == faults' = faults

-----------------------------------------------------------------------------
(* The handlers, of the request q.                                         *)

process_init(q) ==
  /\ Send([type |-> "version", id |-> q.id])
  /\ KeepTable /\ NoFault /\ UNCHANGED fs

process_open(q) ==
  LET n == Target(q.name)
      writes == "write" \in q.flags
      opens == /\ ~(readonly /\ writes)
               /\ fs[n].type \in IF "creat" \in q.flags THEN {"file", "none"}
                                                        ELSE {"file"}
  IN  /\ IF opens
         THEN /\ fs' = [fs EXCEPT ![n] =
                   IF @.type = "none" \/ "trunc" \in q.flags THEN File(<<>>) ELSE @]
              /\ handle_new("file", n, "append" \in q.flags, <<>>)
              /\ send_handle(q.id, NewHandle)
         ELSE send_status(q.id, "failure") /\ KeepTable /\ UNCHANGED fs
      /\ NoFault

process_close(q) ==
  /\ IF handle_is_ok(q.handle, "file") \/ handle_is_ok(q.handle, "dir")
     THEN handle_unused(q.handle) /\ send_status(q.id, "ok")
     ELSE KeepTable /\ send_status(q.id, "failure")
  /\ NoFault /\ UNCHANGED fs

process_read(q) ==
  LET d == fs[handles[q.handle].name].data
      n == SmallerOf(SmallerOf(q.len, ReadMax), Len(d) - q.off)
  IN  /\ \/ ~handle_is_ok(q.handle, "file") /\ send_status(q.id, "failure") /\ NoFault
         \/ /\ handle_is_ok(q.handle, "file")
            /\ \/ n <= 0 /\ send_status(q.id, "eof") /\ NoFault
               \/ \E k \in 1 .. n : /\ k = n \/ ShortReads
                                    /\ send_data(q.id, SubSeq(d, q.off + 1, q.off + k))
                                    /\ NoFault
               \/ Fault /\ send_status(q.id, "failure")
      /\ KeepTable /\ UNCHANGED fs

\* A file opened for append is written at its end whatever the offset says.
process_write(q) ==
  /\ \/ /\ handle_is_ok(q.handle, "file")
        /\ LET h == handles[q.handle]
               off == IF h.append THEN Len(fs[h.name].data) ELSE q.off
           IN  fs' = [fs EXCEPT ![h.name].data = WriteAt(@, off, q.data)]
        /\ send_status(q.id, "ok") /\ NoFault
     \/ /\ IF handle_is_ok(q.handle, "file") THEN Fault ELSE NoFault
        /\ send_status(q.id, "failure") /\ UNCHANGED fs
  /\ KeepTable

process_do_stat(q) ==
  LET n == IF q.op = "stat" THEN Target(q.name) ELSE q.name
  IN  /\ IF Exists(n) THEN send_attrib(q.id, fs[n]) ELSE send_status(q.id, "failure")
      /\ KeepTable /\ NoFault /\ UNCHANGED fs

process_setstat(q) ==
  /\ send_status(q.id, StatusOf(Exists(Target(q.name))))
  /\ KeepTable /\ NoFault /\ UNCHANGED fs

process_fsetstat(q) ==
  /\ send_status(q.id, StatusOf(handle_is_ok(q.handle, "file")))
  /\ KeepTable /\ NoFault /\ UNCHANGED fs

\* The one directory there is holds every name.
process_opendir(q) ==
  /\ handle_new("dir", q.name, FALSE, SetToSeq({n \in Names : Exists(n)}))
  /\ send_handle(q.id, NewHandle)
  /\ NoFault /\ UNCHANGED fs

\* Up to a batch of names at a time (100 in the code, one here); an entry
\* that went away since is skipped.
process_readdir(q) ==
  LET left == SelectSeq(handles[q.handle].left, Exists)
  IN  /\ IF ~handle_is_ok(q.handle, "dir")
         THEN send_status(q.id, "failure") /\ KeepTable
         ELSE IF left = <<>>
              THEN send_status(q.id, "eof") /\ KeepTable
              ELSE /\ send_names(q.id, <<Head(left)>>)
                   /\ handles' = [handles EXCEPT ![q.handle].left = Tail(left)]
                   /\ UNCHANGED unused
      /\ NoFault /\ UNCHANGED fs

\* Ask: the system call either does the work, or the status says it failed.
Ask(q, ok, new) ==
  /\ fs' = IF ok THEN new ELSE fs
  /\ send_status(q.id, StatusOf(ok))
  /\ KeepTable /\ NoFault

process_remove(q) == Ask(q, fs[q.name].type \in {"file", "link"}, [fs EXCEPT ![q.name] = Absent])
process_mkdir(q) == Ask(q, ~Exists(q.name), [fs EXCEPT ![q.name] = Directory])
process_rmdir(q) == Ask(q, fs[q.name].type = "dir", [fs EXCEPT ![q.name] = Absent])
process_realpath(q) == Send([type |-> "name", id |-> q.id, names |-> <<Target(q.name)>>])
                       /\ KeepTable /\ NoFault /\ UNCHANGED fs

Renamed(n, to) == IF n = to THEN fs ELSE [fs EXCEPT ![to] = fs[n], ![n] = Absent]

\* link() and unlink() for a file, so that nothing is overwritten; stat() and
\* rename() for anything else.
process_rename(q) ==
  Ask(q, /\ Exists(q.name)
         /\ IF fs[q.name].type = "file" THEN ~Exists(q.to) ELSE ~Exists(Target(q.to)),
      Renamed(q.name, q.to))

process_extended_posix_rename(q) ==
  Ask(q, /\ Exists(q.name)
         /\ (fs[q.name].type = "dir") => fs[q.to].type \in {"dir", "none"}
         /\ (fs[q.to].type = "dir") => fs[q.name].type = "dir",
      Renamed(q.name, q.to))

process_symlink(q) == Ask(q, ~Exists(q.name), [fs EXCEPT ![q.name] = Link(q.to)])

process_extended_fsync(q) ==
  /\ send_status(q.id, StatusOf(handle_is_ok(q.handle, "file")))
  /\ KeepTable /\ NoFault /\ UNCHANGED fs

process_extended_statvfs(q) ==
  /\ Send([type |-> "statvfs", id |-> q.id])
  /\ KeepTable /\ NoFault /\ UNCHANGED fs

\* what a read-only server refuses
Writing == {"write", "setstat", "fsetstat", "remove", "mkdir", "rmdir", "rename",
            "symlink", "posix_rename", "fsync"}
request_permitted(q) == ~(readonly /\ q.op \in Writing) /\ q.op \notin Refused

\* process(): one request
Process ==
  /\ requests # <<>>
  /\ requests' = Tail(requests)
  /\ UNCHANGED readonly
  /\ LET q == Head(requests)
     IN  \/ ~request_permitted(q) /\ send_status(q.id, "failure") /\ KeepTable
            /\ NoFault /\ UNCHANGED fs
         \/ /\ request_permitted(q)
            /\ \/ q.op = "init" /\ process_init(q)
               \/ q.op = "open" /\ process_open(q)
               \/ q.op = "close" /\ process_close(q)
               \/ q.op = "read" /\ process_read(q)
               \/ q.op = "write" /\ process_write(q)
               \/ q.op \in {"stat", "lstat"} /\ process_do_stat(q)
               \/ q.op = "setstat" /\ process_setstat(q)
               \/ q.op = "fsetstat" /\ process_fsetstat(q)
               \/ q.op = "opendir" /\ process_opendir(q)
               \/ q.op = "readdir" /\ process_readdir(q)
               \/ q.op = "remove" /\ process_remove(q)
               \/ q.op = "mkdir" /\ process_mkdir(q)
               \/ q.op = "rmdir" /\ process_rmdir(q)
               \/ q.op = "realpath" /\ process_realpath(q)
               \/ q.op = "rename" /\ process_rename(q)
               \/ q.op = "posix_rename" /\ process_extended_posix_rename(q)
               \/ q.op = "symlink" /\ process_symlink(q)
               \/ q.op = "fsync" /\ process_extended_fsync(q)
               \/ q.op = "statvfs" /\ process_extended_statvfs(q)
=============================================================================
