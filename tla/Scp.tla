-------------------------------- MODULE Scp --------------------------------
(***************************************************************************)
(* scp.c: source() and sink(), the two ends of a copy.  They share two     *)
(* byte streams and keep in step only by convention: which of them speaks  *)
(* next, and whether the next bytes are a control record, a file's data or *)
(* an answer, is nowhere on the wire.  An error is reported to the other   *)
(* end with a message of its own (run_err()) in place of the answer.       *)
(*                                                                         *)
(* A directory is flattened into its "D" entry, its contents and its "E".  *)
(* The data of a file is a sequence of blocks, one per turn of the loops.  *)
(***************************************************************************)
EXTENDS Integers, Sequences, FiniteSets, SequencesExt

CONSTANTS Argv,        \* what is copied: a sequence of [kind, name, data]
          PFlag,       \* -p
          MaxFailures  \* bound on failing system calls

VARIABLES so,          \* source(): pc, the work left, the block, haderr, errs
          si,          \* sink(): pc, the file, blocks to come, wrerr, setimes, depth, errs,
                       \* and the errors it reported for the file (said)
          down, up,    \* the streams from source to sink and back
          copies,      \* name -> what the sink has written
          failures,    \* failing calls so far
          slips        \* history: how an end answered twice, or kept quiet when it owes data

scpVars == <<so, si, down, up, copies, failures, slips>>

Files == {Argv[i].name : i \in {j \in 1 .. Len(Argv) : Argv[j].kind = "file"}}
Whole(n) == Argv[CHOOSE i \in 1 .. Len(Argv) : Argv[i].kind = "file" /\ Argv[i].name = n].data
Zero == 0

ScpInit ==
  /\ so = [pc |-> "start", work |-> Argv, i |-> 0, haderr |-> FALSE, errs |-> 0]
  /\ si = [pc |-> "start", name |-> "", size |-> 0, i |-> 0, wrerr |-> "no", setimes |-> 0, said |-> 0,
           dirs |-> <<>>, errs |-> 0]
  /\ down = <<>> /\ up = <<>>
  /\ copies = [n \in Files |-> <<>>]
  /\ failures = 0 /\ slips = {}

Ok == [k |-> "ok"]
Err == [k |-> "err"]
\* one system call that fails, or does not
Fails == failures < MaxFailures /\ failures' = failures + 1
Works == failures' = failures

-----------------------------------------------------------------------------
(* source() and rsource().                                                 *)

Item == Head(so.work)
\* what is left after the entry, all of it when it is a directory
RECURSIVE AfterDir(_, _)
AfterDir(w, depth) ==
  IF w = <<>> THEN <<>>
  ELSE LET d == CASE Head(w).kind = "dir" -> depth + 1
                  [] Head(w).kind = "end" -> depth - 1
                  [] OTHER -> depth
       IN  IF d = 0 THEN Tail(w) ELSE AfterDir(Tail(w), d)
Skip == AfterDir(so.work, 0)

Say(m) == down' = Append(down, m)
Quiet == UNCHANGED down
SinkKeeps == UNCHANGED <<si, copies>>
Regular == UNCHANGED slips
Slip(how) == slips' = slips \union {how}

\* The next entry: its record, after its times if they are to be kept, or an
\* error when it cannot be opened.
SourceEntry ==
  /\ so.pc = "entry" /\ so.work # <<>>
  /\ \/ /\ Item.kind = "end" /\ Say([k |-> "E"]) /\ Works
        /\ so' = [so EXCEPT !.pc = "ended"]
     \/ /\ Item.kind # "end" /\ Works
        /\ IF PFlag THEN Say([k |-> "T"]) /\ so' = [so EXCEPT !.pc = "timed"]
                    ELSE /\ Say([k |-> Item.kind, name |-> Item.name, size |-> Len(Item.data)])
                         /\ so' = [so EXCEPT !.pc = "named"]
     \/ /\ Item.kind # "end" /\ Fails
        /\ Say(Err) /\ so' = [so EXCEPT !.work = Skip, !.errs = @ + 1]
  /\ UNCHANGED up /\ SinkKeeps /\ Regular

SourceDone ==
  /\ so.pc = "entry" /\ so.work = <<>>
  /\ so' = [so EXCEPT !.pc = "done"]
  /\ Quiet /\ UNCHANGED <<up, failures>> /\ SinkKeeps /\ Regular

\* response(): 0, or -1 after an error
Answered(m) == [so EXCEPT !.errs = IF m = Ok THEN @ ELSE @ + 1]
response(state) == so.pc = state /\ up # <<>> /\ up' = Tail(up) /\ SinkKeeps

\* The answer to the sink's first byte, to the times, to a record, to the end
\* of a file and to the end of a directory.
SourceStarts ==
  response("start") /\ Quiet /\ Works /\ Regular /\ so' = [Answered(Head(up)) EXCEPT !.pc = "entry"]

SourceTimed ==
  /\ response("timed") /\ Works /\ Regular
  /\ IF Head(up) = Ok
     THEN /\ Say([k |-> Item.kind, name |-> Item.name, size |-> Len(Item.data)])
          /\ so' = [so EXCEPT !.pc = "named"]
     ELSE Quiet /\ so' = [Answered(Err) EXCEPT !.pc = "entry", !.work = Skip]

\* allocbuf() may fail once the sink waits for the data: none is sent, and the sink
\* takes the error message, and what follows it, for the file.
SourceNamed ==
  /\ response("named")
  /\ \/ /\ Quiet /\ Works /\ Regular
        /\ so' = IF Head(up) # Ok THEN [Answered(Err) EXCEPT !.pc = "entry", !.work = Skip]
                 ELSE IF Item.kind = "dir" THEN [so EXCEPT !.pc = "entry", !.work = Tail(@)]
                 ELSE [so EXCEPT !.pc = "data", !.i = 1, !.haderr = FALSE]
     \/ /\ Head(up) = Ok /\ Item.kind = "file" /\ Fails /\ Say(Err) /\ Slip("source_alloc")
        /\ so' = [so EXCEPT !.pc = "entry", !.work = Tail(@), !.errs = @ + 1]

\* A read that fails: zeros are sent for the rest, to stay in step.
MoreData_good == so.i <= Len(Item.data) /\ ~so.haderr
MoreData == so.i <= Len(Item.data)
SourceData ==
  /\ so.pc = "data" /\ MoreData
  /\ \E bad \in {so.haderr, TRUE} :
       /\ IF bad /\ ~so.haderr THEN Fails ELSE Works
       /\ Say([k |-> "data", b |-> IF bad THEN Zero ELSE Item.data[so.i]])
       /\ so' = [so EXCEPT !.i = @ + 1, !.haderr = bad]
  /\ UNCHANGED up /\ SinkKeeps /\ Regular

SourceTrailer ==
  /\ so.pc = "data" /\ ~MoreData
  /\ Say(IF so.haderr THEN Err ELSE Ok)
  /\ so' = [so EXCEPT !.pc = "sent", !.errs = IF so.haderr THEN @ + 1 ELSE @]
  /\ UNCHANGED <<up, failures>> /\ SinkKeeps /\ Regular

SourceSent ==
  /\ response("sent") /\ Quiet /\ Works /\ Regular
  /\ so' = [Answered(Head(up)) EXCEPT !.pc = "entry", !.work = Tail(@), !.i = 0, !.haderr = FALSE]

SourceEnded ==
  /\ response("ended") /\ Quiet /\ Works /\ Regular
  /\ so' = [Answered(Head(up)) EXCEPT !.pc = "entry", !.work = Tail(@)]

-----------------------------------------------------------------------------
(* sink().                                                                 *)

Reply(m) == up' = Append(up, m)
Silent == UNCHANGED up
SourceKeeps == UNCHANGED <<so>>

SinkStarts ==
  /\ si.pc = "start" /\ Reply(Ok)
  /\ si' = [si EXCEPT !.pc = "record"]
  /\ UNCHANGED <<down, copies, failures>> /\ SourceKeeps /\ Regular

Record(k) == si.pc = "record" /\ down # <<>> /\ Head(down).k = k /\ down' = Tail(down) /\ SourceKeeps

SinkError ==
  /\ Record("err") /\ Silent /\ UNCHANGED <<copies, failures>> /\ Regular
  /\ si' = [si EXCEPT !.errs = @ + 1]

SinkTimes ==
  /\ Record("T") /\ Reply(Ok) /\ UNCHANGED <<copies, failures>> /\ Regular
  /\ si' = [si EXCEPT !.setimes = 1]

\* mkdir() and the recursive call, which starts with an answer of its own and
\* has its own setimes; an error when it cannot be made
SinkDir ==
  /\ Record("dir") /\ UNCHANGED copies /\ Regular
  /\ \/ Works /\ Reply(Ok) /\ si' = [si EXCEPT !.dirs = <<si.setimes>> \o @, !.setimes = 0]
     \/ Fails /\ Reply(Err) /\ si' = [si EXCEPT !.errs = @ + 1]

\* The end of a directory is answered by the recursive call; its times are set
\* after it returns.
SinkEnd ==
  /\ Record("E") /\ UNCHANGED copies
  /\ IF si.dirs = <<>>
     THEN Works /\ Reply(Ok) /\ Regular /\ si' = [si EXCEPT !.pc = "done"]
     ELSE \/ /\ Works /\ Reply(Ok) /\ Regular
             /\ si' = [si EXCEPT !.dirs = Tail(@), !.setimes = 0]
          \/ /\ Head(si.dirs) = 1 /\ Fails
             /\ up' = up \o <<Ok, Err>> /\ Slip("dir_times")
             /\ si' = [si EXCEPT !.dirs = Tail(@), !.setimes = 0, !.errs = @ + 1]

\* open(), then the answer, then allocbuf(), whose failure is answered again while the
\* data is on its way.
SinkFile ==
  /\ Record("file") /\ UNCHANGED copies
  /\ \/ /\ Fails /\ up' = up \o <<Ok, Err>> /\ Slip("sink_alloc")
        /\ si' = [si EXCEPT !.errs = @ + 1]
     \/ /\ Works /\ Reply(Ok) /\ Regular
        /\ si' = [si EXCEPT !.pc = "data", !.name = Head(down).name, !.size = Head(down).size,
                            !.i = 0, !.wrerr = "no"]
     \/ Fails /\ Reply(Err) /\ Regular /\ si' = [si EXCEPT !.errs = @ + 1]

\* Anything else is no control record: "expected control record".
SinkScrewup ==
  /\ si.pc = "record" /\ down # <<>> /\ Head(down).k \in {"data", "ok"}
  /\ down' = Tail(down) /\ Reply(Err)
  /\ si' = [si EXCEPT !.pc = "lost", !.errs = @ + 1]
  /\ UNCHANGED <<copies, failures>> /\ SourceKeeps /\ Regular

\* After a failed write the data is still read; whatever bytes come next are
\* taken for it.
SinkData ==
  /\ si.pc = "data" /\ si.i < si.size /\ down # <<>>
  /\ down' = Tail(down)
  /\ IF Head(down).k # "data"
     THEN si' = [si EXCEPT !.pc = "lost"] /\ Works /\ UNCHANGED copies
     ELSE \/ /\ si.wrerr # "no" /\ Works /\ UNCHANGED copies
             /\ si' = [si EXCEPT !.i = @ + 1]
          \/ /\ si.wrerr = "no" /\ Works
             /\ copies' = [copies EXCEPT ![si.name] = Append(@, Head(down).b)]
             /\ si' = [si EXCEPT !.i = @ + 1]
          \/ /\ si.wrerr = "no" /\ Fails /\ UNCHANGED copies
             /\ si' = [si EXCEPT !.i = @ + 1, !.wrerr = "yes"]
  /\ Silent /\ SourceKeeps /\ Regular

\* ftruncate() if all was written, then fchmod(): each reports its error at once, and
\* fchmod() also after the other, or in place of the report a failed write is due.
SinkTruncate ==
  /\ si.pc = "data" /\ si.i = si.size
  /\ \E bad \in SUBSET {"ftruncate", "fchmod"} :
       LET n == Cardinality(bad)
       IN  /\ "ftruncate" \in bad => si.wrerr = "no"
           /\ failures + n <= MaxFailures /\ failures' = failures + n
           /\ up' = up \o [i \in 1 .. n |-> Err]
           /\ si' = [si EXCEPT !.pc = "close", !.wrerr = IF n = 0 THEN @ ELSE "displayed",
                               !.errs = @ + n, !.said = n]
           /\ IF n = 2 THEN Slip("file") ELSE Regular
  /\ UNCHANGED <<down, copies>> /\ SourceKeeps

\* close(), whose failure is reported again
SinkClose ==
  /\ si.pc = "close"
  /\ \/ Works /\ si' = [si EXCEPT !.pc = "trailer"]
     \/ Fails /\ si' = [si EXCEPT !.pc = "trailer", !.wrerr = "yes"]
  /\ Silent /\ UNCHANGED <<down, copies>> /\ SourceKeeps /\ Regular

\* The source's trailer, the times, and the answer.
SinkTrailer ==
  /\ si.pc = "trailer" /\ down # <<>> /\ down' = Tail(down)
  /\ LET m == Head(down)
         u == [si EXCEPT !.pc = "record", !.name = "", !.size = 0, !.i = 0, !.wrerr = "no", !.said = 0,
                         !.errs = IF m = Ok THEN @ ELSE @ + 1]
     IN  \/ si.wrerr = "no" /\ Works /\ Reply(Ok) /\ si' = [u EXCEPT !.setimes = 0] /\ Regular
         \/ /\ si.wrerr = "no" /\ si.setimes = 1 /\ Fails /\ Reply(Err) /\ Regular
            /\ si' = [u EXCEPT !.setimes = 0, !.errs = @ + 1]
         \/ /\ si.wrerr = "yes" /\ Works /\ Reply(Err) /\ si' = [u EXCEPT !.errs = @ + 1]
            /\ IF si.said > 0 THEN Slip("file") ELSE Regular
         \/ si.wrerr = "displayed" /\ Works /\ Silent /\ si' = u /\ Regular
  /\ UNCHANGED copies /\ SourceKeeps

\* the end of the stream
SinkDone ==
  /\ si.pc = "record" /\ down = <<>> /\ so.pc = "done"
  /\ si' = [si EXCEPT !.pc = "done"]
  /\ UNCHANGED <<down, up, copies, failures>> /\ SourceKeeps /\ Regular

SourceStep == SourceEntry \/ SourceDone \/ SourceStarts \/ SourceTimed \/ SourceNamed \/ SourceData
              \/ SourceTrailer \/ SourceSent \/ SourceEnded
SinkStep == SinkStarts \/ SinkError \/ SinkTimes \/ SinkDir \/ SinkEnd \/ SinkFile \/ SinkScrewup
            \/ SinkData \/ SinkTruncate \/ SinkClose \/ SinkTrailer \/ SinkDone
ScpNext == SourceStep \/ SinkStep

-----------------------------------------------------------------------------
(* Properties.                                                             *)

\* scp.c: "Keep writing after error to retain sync" and "Keep reading so we
\* stay sync'd up".  The sink never takes data for a control record or a
\* record for data, everything is answered exactly once (an answer is there when the
\* source waits for it, and none when it goes on), and at the end nothing is left
\* over, whatever calls fail.  Four exceptions, in which the ends lose step: allocbuf()
\* fails after the sink agreed to the file, in the source (no data follows) or in the
\* sink (a second answer, and data nobody reads); two of ftruncate(), fchmod() and
\* close() fail for one file, each reported by itself; and the times of a directory
\* cannot be set, after its end was answered.
InStep == slips = {} =>
          /\ si.pc # "lost"
          /\ Len(up) <= 1 /\ (so.pc = "entry" => up = <<>>)
          /\ (so.pc = "done" /\ si.pc = "done") => up = <<>> /\ down = <<>>

\* At the end a file that was not copied whole has made both ends count an
\* error, so both exit with a failure; also when an answer was given twice.
\* (A sink that reads something else for data or records, "lost", is not followed.)
ErrorsKnown ==
  (so.pc = "done" /\ si.pc = "done") =>
     ((\E n \in Files : copies[n] # Whole(n)) => so.errs > 0 /\ si.errs > 0)
=============================================================================
