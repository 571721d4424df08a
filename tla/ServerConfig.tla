--------------------------- MODULE ServerConfig ---------------------------
(***************************************************************************)
(* How sshd gets the options of a connection (servconf.c): the -o options  *)
(* and the file at startup, with every Match block inactive, the defaults, *)
(* and, when the user is known, the file once more into an empty set of    *)
(* options, with the Match blocks only, which is then copied over the      *)
(* first (parse_server_match_config(), copy_set_server_options()).  With   *)
(* privilege separation the monitor does that and sends what it got to the *)
(* child, which copies it over its own (mm_getpwnamallow()).               *)
(*                                                                         *)
(* Keywords are represented by how they store their argument:              *)
(*   once    the first active value stays                                  *)
(*   latest  every active line overwrites (IPQoS, StreamLocalBindMask)     *)
(*   append  words of all active lines (AllowUsers, AcceptEnv, ...)        *)
(*   array   the words of the first active line (AuthorizedKeysFile, ...)  *)
(*   forced  once, copied only after authentication (ForceCommand, ...)    *)
(*   global  not allowed in a Match block                                  *)
(*   permitopen  the permission lists of channels.c, once per pass         *)
(***************************************************************************)
EXTENDS Naturals, Sequences, SequencesExt

CONSTANTS
  ServerFiles,        \* the contents sshd_config may have
  ServerCommandLines, \* the -o options that may be given
  Connections         \* the users and addresses connections come with

VARIABLES cfgFile, srvLine, srvCmdline, srvActive, options, mo, child, opens, connection, srvPhase
srvVars == <<cfgFile, srvLine, srvCmdline, srvActive, options, mo, child, opens, connection, srvPhase>>

None == "unset"
NoConnection == <<>>
OnceOptions == {"PasswordAuthentication", "Port"}
LatestOptions == {"IPQoS"}
AppendOptions == {"AllowUsers"}
ArrayOptions == {"AuthorizedKeysFile"}
ForcedOptions == {"ForceCommand"}
ServerScalars == OnceOptions \union LatestOptions \union ForcedOptions
ServerLists == AppendOptions \union ArrayOptions

initialize_server_options == [o \in ServerScalars |-> None] @@ [o \in ServerLists |-> <<>>]

OptionSet(o, name) == IF name \in ServerLists THEN o[name] # <<>> ELSE o[name] # None

\* A directive of the main section may not stand in a Match block.
GlobalOnly(line) == line.kw = "global"

\* match_cfg_line(): all criteria hold; without a connection only "all" does.
ServerCriterion(c, conn) ==
  \/ c.attr = "all"
  \/ c.attr \in DOMAIN conn /\ conn[c.attr] \in c.arg
ServerMatch(crit, conn) == \A i \in DOMAIN crit : ServerCriterion(crit[i], conn)
ServerMatchOK(crit) == crit # <<>> /\ \A i \in DOMAIN crit : crit[i].attr = "all" => Len(crit) = 1

ServerKeepFirst(o, line) == IF o[line.opt] = None THEN [o EXCEPT ![line.opt] = line.arg] ELSE o
ServerKeepLatest(o, line) == [o EXCEPT ![line.opt] = line.arg]
ServerAppend(o, line) == [o EXCEPT ![line.opt] = @ \o line.arg]
ServerArray(o, line) == [o EXCEPT ![line.opt] = IF @ = <<>> THEN line.arg ELSE @]

\* process_server_config_line() for a line that is active.
ServerStore(o, line) ==
  CASE line.kw \in {"once", "forced", "global"} -> ServerKeepFirst(o, line)
    [] line.kw = "latest" -> ServerKeepLatest(o, line)
    [] line.kw = "append" -> ServerAppend(o, line)
    [] line.kw = "array" -> ServerArray(o, line)
    [] OTHER -> o

\* PermitOpen keeps its list in channels.c; num_permitted_opens, -1 at the start of a pass,
\* says whether this pass has set it.
PermitOpen(line, perms) ==
  IF line.kw = "permitopen" /\ ~perms.set THEN [set |-> TRUE, list |-> line.arg] ELSE perms

ServerInit ==
  /\ cfgFile \in ServerFiles /\ srvCmdline \in ServerCommandLines /\ connection \in Connections
  /\ srvLine = 1 /\ srvActive = TRUE
  /\ options = initialize_server_options /\ mo = initialize_server_options
  /\ child = initialize_server_options
  /\ opens = [set |-> FALSE, list |-> <<"any">>]
  /\ srvPhase = "cmdline"

ServerFatal ==
  /\ srvPhase' = "fatal"
  /\ UNCHANGED <<cfgFile, srvLine, srvCmdline, srvActive, options, mo, child, opens, connection>>

\* -o: processed first, hence before the file for every option that keeps its first value.
ServerOption ==
  /\ srvPhase = "cmdline" /\ srvCmdline # <<>>
  /\ LET line == Head(srvCmdline) IN
     IF line.kw = "Match" THEN ServerFatal
     ELSE /\ options' = ServerStore(options, line)
          /\ opens' = PermitOpen(line, opens)
          /\ srvCmdline' = Tail(srvCmdline)
          /\ UNCHANGED <<cfgFile, srvLine, srvActive, mo, child, connection, srvPhase>>

\* parse_server_config(): active at startup, inactive up to the first Match for a connection.
parse_server_config ==
  /\ srvPhase = "cmdline" /\ srvCmdline = <<>>
  /\ srvPhase' = "global" /\ srvLine' = 1 /\ srvActive' = TRUE
  /\ UNCHANGED <<cfgFile, srvCmdline, options, mo, child, opens, connection>>

More == srvLine <= Len(cfgFile)
SrvLine == cfgFile[srvLine]

ServerMatchLine(conn) ==
  /\ More /\ SrvLine.kw = "Match"
  /\ IF ~ServerMatchOK(SrvLine.crit) THEN ServerFatal
     ELSE /\ srvActive' = ServerMatch(SrvLine.crit, conn)
          /\ srvLine' = srvLine + 1
          /\ UNCHANGED <<cfgFile, srvCmdline, options, mo, child, opens, connection, srvPhase>>

GlobalLine ==
  /\ srvPhase = "global"
  /\ \/ ServerMatchLine(NoConnection)
     \/ /\ More /\ SrvLine.kw # "Match"
        /\ IF ~srvActive /\ GlobalOnly(SrvLine) THEN ServerFatal
           ELSE /\ options' = IF srvActive THEN ServerStore(options, SrvLine) ELSE options
                /\ opens' = IF srvActive THEN PermitOpen(SrvLine, opens) ELSE opens
                /\ srvLine' = srvLine + 1
                /\ UNCHANGED <<cfgFile, srvCmdline, srvActive, mo, child, connection, srvPhase>>

ServerDefault(o) == CASE o = "PasswordAuthentication" -> "yes" [] o = "Port" -> "22"
                      [] o = "IPQoS" -> "lowdelay" [] o = "AuthorizedKeysFile" -> <<".ssh">>
                      [] o = "AllowUsers" -> <<>> [] OTHER -> None

\* fill_default_server_options(); the child is forked with these options.
fill_default_server_options ==
  /\ srvPhase = "global" /\ ~More
  /\ options' = [o \in DOMAIN options |->
                   IF OptionSet(options, o) THEN options[o] ELSE ServerDefault(o)]
  /\ child' = options'
  /\ srvPhase' = "listening"
  /\ UNCHANGED <<cfgFile, srvLine, srvCmdline, srvActive, mo, opens, connection>>

\* parse_server_match_config(): a fresh set of options.
parse_server_match_config ==
  /\ srvPhase = "listening"
  /\ srvPhase' = "match" /\ srvLine' = 1 /\ srvActive' = FALSE
  /\ mo' = initialize_server_options
  /\ opens' = [opens EXCEPT !.set = FALSE]
  /\ UNCHANGED <<cfgFile, srvCmdline, options, child, connection>>

\* Lines outside a satisfied Match block have been processed before; only what may stand
\* in a Match block is looked at again.
MatchLine ==
  /\ srvPhase = "match"
  /\ \/ ServerMatchLine(connection)
     \/ /\ More /\ SrvLine.kw # "Match"
        /\ mo' = IF srvActive THEN ServerStore(mo, SrvLine) ELSE mo
        /\ opens' = IF srvActive THEN PermitOpen(SrvLine, opens) ELSE opens
        /\ srvLine' = srvLine + 1
        /\ UNCHANGED <<cfgFile, srvCmdline, srvActive, options, child, connection, srvPhase>>

\* What a Match block may set: the options that M_CP_INTOPT and its like name.
Copied(preauth) == {"PasswordAuthentication"} \union LatestOptions \union ServerLists
                   \union (IF preauth THEN {} ELSE ForcedOptions)

\* An option that was not set keeps its value; "none" clears a forced command.
copy_set_server_options(dst, src, preauth) ==
  [o \in DOMAIN dst |->
     LET value == IF o \in Copied(preauth) /\ OptionSet(src, o) THEN src[o] ELSE dst[o]
     IN IF o \in ForcedOptions /\ ~preauth /\ value = "none" THEN None ELSE value]

CopyOptions ==
  /\ srvPhase = "match" /\ ~More
  /\ options' = copy_set_server_options(options, mo, FALSE)
  /\ srvPhase' = "copied"
  /\ UNCHANGED <<cfgFile, srvLine, srvCmdline, srvActive, mo, child, opens, connection>>

\* mm_getpwnamallow(): the child copies the options of the monitor over its own.
ChildCopy ==
  /\ srvPhase = "copied"
  /\ child' = copy_set_server_options(child, options, TRUE)
  /\ srvPhase' = "serving"
  /\ UNCHANGED <<cfgFile, srvLine, srvCmdline, srvActive, options, mo, opens, connection>>

ServerConfNext ==
  \/ ServerOption \/ parse_server_config \/ GlobalLine \/ fill_default_server_options
  \/ parse_server_match_config \/ MatchLine \/ CopyOptions \/ ChildCopy
=============================================================================
