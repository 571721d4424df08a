------------------------------ MODULE MCFiles ------------------------------
(***************************************************************************)
(* Three scenarios for TLC: sftp against its server, its command line, and  *)
(* scp.                                                                    *)
(***************************************************************************)
EXTENDS SftpClient, Scp, SftpCommands

VARIABLE scenario
mcVars == <<sftpVars, scpVars, cmdVars, scenario>>

MCNames == {"a", "b"}
MCRemote == [n \in MCNames |-> IF n = "a" THEN File(<<1, 2, 3>>) ELSE Absent]
\* The file to put takes three writes: the first is waited for, the others are under
\* way together.
LocalFiles(a) == [n \in MCNames |-> IF n = "a" THEN a ELSE File(<<5, 6, 7, 8, 9>>)]
MCLocals == {LocalFiles(Absent), LocalFiles(File(<<1, 2, 3, 4>>))}
Get(resume) == [op |-> "get", files |-> <<"a">>, resume |-> resume, ignore |-> FALSE]
Put(resume) == [op |-> "put", files |-> <<"b">>, resume |-> resume, ignore |-> FALSE,
                tail |-> <<"fsetstat", "fsync">>]
Listing(op) == [op |-> op, name |-> ".", resume |-> FALSE, ignore |-> FALSE]
Singles == {do_rm("a"), do_mkdir("a"), do_rmdir("a"), do_lstat("a"), do_setstat("a"), do_realpath("a"),
            do_rename("a", "b", TRUE), do_rename("a", "b", FALSE), do_symlink("b", "a"), do_statvfs("a")}
MCCommands == {Get(TRUE), Get(FALSE), Put(TRUE), Put(FALSE), Listing("ls"), Listing("getr")}
              \union {c @@ [ignore |-> TRUE] : c \in Singles}

Entry(kind, name, data) == [kind |-> kind, name |-> name, data |-> data]
MCArgv == <<Entry("dir", "d", <<>>), Entry("file", "x", <<1, 2>>), Entry("end", "d", <<>>),
            Entry("file", "y", <<3>>), Entry("file", "z", <<4, 5>>)>>

\* Names with what is special on the command line, some with a beginning in common.
MCEntries == {<<"a">>, <<"a", " ", "b">>, <<"a", "*", "b">>, <<"'", "\"", "x">>, <<"[", "#", "x">>,
              <<"?", "x">>, <<"d", "\\", "e">>, <<"d", " ", "f">>}
MCPwd == <<"/", "p">>
MCFolders == {<<"d", " ", "f">>}
\* A line: its command, its flags, its words, which of them are paths, how they are
\* typed, a leading dash, and whether the command refuses it.
Line(cmd, flags, names, paths, style, dash, wrong) ==
  [cmd |-> cmd, flags |-> flags, names |-> names, paths |-> paths, style |-> style, dash |-> dash, wrong |-> wrong]
Styles == {"plain", "'", "\""}
OnePath == {<<"g", "e", "t">>, <<"p", "u", "t">>, <<"r", "m">>, <<"r", "m", "d", "i", "r">>, <<"d", "f">>, <<"l", "s">>}
TwoPaths == {<<"g", "e", "t">>, <<"r", "e", "n">>, <<"l", "n">>, <<"s", "y", "m">>}
MCLines == {Line(c, <<>>, <<n>>, <<1>>, s, FALSE, FALSE) : c \in OnePath, n \in MCEntries, s \in Styles}
           \union {Line(c, <<>>, <<n, m>>, <<1, 2>>, s, FALSE, FALSE) :
                      c \in TwoPaths, n \in MCEntries, m \in {<<"a", "*", "b">>, <<"'", "\"", "x">>}, s \in Styles}
           \union {Line(c, <<f>>, <<<<"a">>>>, <<1>>, "plain", d, c = <<"d", "f">>) :
                      c \in {<<"g", "e", "t">>, <<"d", "f">>, <<"l", "s">>}, f \in {<<"-", "a">>}, d \in BOOLEAN}
           \union {Line(c, <<>>, <<<<"7", "0">>, n>>, <<2>>, s, FALSE, FALSE) :
                      c \in {<<"c", "h", "m">>}, n \in MCEntries, s \in Styles}
           \union {Line(c, <<>>, <<<<"a">>>>, <<>>, "plain", FALSE, TRUE) : c \in {<<"c", "h", "m">>, <<"r", "e", "n">>, <<"x">>}}
           \union {Line(c, <<>>, <<<<"*">>>>, <<1>>, "glob", FALSE, FALSE) : c \in OnePath}
           \union {Line(c, <<>>, <<<<"a">>>>, <<>>, "plain", FALSE, FALSE) :
                      c \in {<<"b", "y", "e">>, <<"l", "l", "s">>, <<"!">>}}

MCInit == /\ SftpInit(MCRemote) /\ ScpInit /\ CmdInit
          /\ scenario \in {"sftp", "scp", "line"}
          /\ scenario # "sftp" => ~readonly /\ local = LocalFiles(Absent)
          /\ scenario # "line" => ed.want = Line(<<"d", "f">>, <<>>, <<<<"a">>>>, <<1>>, "plain", FALSE, FALSE)

MCNext == /\ UNCHANGED scenario
          /\ \/ scenario = "sftp" /\ SftpNext /\ UNCHANGED <<scpVars, cmdVars>>
             \/ scenario = "scp" /\ ScpNext /\ UNCHANGED <<sftpVars, cmdVars>>
             \/ scenario = "line" /\ CmdNext /\ UNCHANGED <<sftpVars, scpVars>>

MCSpec == MCInit /\ [][MCNext]_mcVars /\ SftpFairness /\ WF_mcVars(scenario = "scp" /\ MCNext)

-----------------------------------------------------------------------------
\* What is copied or listed is whole, or the command has failed (DownloadWhole,
\* UploadWhole, ListingWhole).
TransfersWhole == DownloadWhole /\ UploadWhole /\ ListingWhole

\* The two ends of scp stay in step and both know of every error (InStep,
\* ErrorsKnown).
ScpSound == InStep /\ ErrorsKnown

\* Every command of sftp ends, and so does scp, unless its ends lost step in one of
\* the ways InStep names.
FilesEnd ==
  /\ CommandsEnd
  /\ scenario = "scp" ~> ((so.pc = "done" /\ si.pc = "done") \/ slips # {})
=============================================================================
