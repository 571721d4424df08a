--------------------------- MODULE ClientConfig ---------------------------
(***************************************************************************)
(* How ssh puts its options together (readconf.c and the part of ssh.c's   *)
(* main() that drives it): the -o options of the command line, the user's  *)
(* and the system's configuration file with the files they include, the    *)
(* canonical host name, the files once more under that name, the defaults. *)
(*                                                                         *)
(* A line is a record.  Keywords are represented by the way they store     *)
(* their argument, which is all process_config_line_depth() tells apart    *)
(* once the argument is parsed:                                            *)
(*   once    the first active value stays (flags, numbers, strings)        *)
(*   time    as once, but "none" is stored as -1, the unset value          *)
(*   array   all words of the first active line (known hosts files)        *)
(*   set     appended unless already there (identities, certificates)      *)
(*   forward as set, for what parse_forward() makes of the fields          *)
(*   append  always appended (SendEnv)                                     *)
(*   latest  every active line overwrites (IPQoS, TunnelDevice)            *)
(*   mask    every line overwrites, active or not (StreamLocalBindMask)    *)
(***************************************************************************)
EXTENDS Integers, Sequences, SequencesExt

CONSTANTS
  ConfigFiles,    \* the contents the files may have: name -> sequence of lines, or NoFile
  CommandLines,   \* the -o options that may be given
  HostArg,        \* the host named on the command line
  Canonical,      \* the names canonicalisation finds: name -> full name
  LocalUser,
  READCONF_MAX_DEPTH

VARIABLES files, cmdline, opts, frames, todo, pass, host, confPhase
confVars == <<files, cmdline, opts, frames, todo, pass, host, confPhase>>

Unset == "unset"
NoFile == <<[kw |-> "absent"]>>
ScalarOptions == {"Port", "User", "HostName", "ConnectTimeout", "CanonicalizeHostname", "IgnoreUnknown",
                  "ClearAllForwardings", "ProxyCommand", "ProxyJump", "IPQoS", "StreamLocalBindMask"}
ListOptions == {"IdentityFile", "LocalForward", "RemoteForward", "SendEnv", "UserKnownHostsFile"}

InitialOptions == [o \in ScalarOptions |-> Unset] @@ [o \in ListOptions |-> <<>>]

\* add_identity_file() and add_local_forward() skip what is already there.
AddOnce(list, x) == IF Contains(list, x) THEN list ELSE Append(list, x)

\* parse_jump() and the ProxyCommand case: the one given first keeps the other out.
StoreProxy(o, line) ==
  IF o["ProxyCommand"] # Unset \/ o["ProxyJump"] # Unset THEN o
  ELSE IF line.opt = "ProxyJump"
       THEN [o EXCEPT !["ProxyJump"] = line.arg, !["ProxyCommand"] = "none"]
       ELSE [o EXCEPT !["ProxyCommand"] = line.arg]

KeepLatest(o, line) == [o EXCEPT ![line.opt] = line.arg]

KeepFirst(o, line) == IF o[line.opt] = Unset THEN KeepLatest(o, line) ELSE o

TimeValue(line) == [line EXCEPT !.arg = IF @ = "none" THEN Unset ELSE @]

(***************************************************************************)
(* parse_forward(): one to four fields, each a path, a number or a host.   *)
(* The record names the listening and the connecting end; NULL is "".      *)
(***************************************************************************)
PORT_STREAMLOCAL == -2
a2port(f) == IF f.num \in 0..65535 THEN f.num ELSE -1

ListensOnPath(fs) == fs[1].path /\ (Len(fs) \in {1, 3} \/ (Len(fs) = 2 /\ fs[2].path))
ConnectsToPath(fs) == (Len(fs) = 2 /\ fs[2].path) \/ (Len(fs) = 3 /\ ~fs[1].path /\ fs[3].path)
NamesListenHost(fs) == Len(fs) = 4 \/ (Len(fs) = 3 /\ ConnectsToPath(fs)) \/ (Len(fs) = 2 /\ ~fs[2].path)

ListenEnd(fs) ==
  IF ListensOnPath(fs) THEN [host |-> "", port |-> PORT_STREAMLOCAL, path |-> fs[1].text]
  ELSE IF NamesListenHost(fs) THEN [host |-> fs[1].text, port |-> a2port(fs[2]), path |-> ""]
  ELSE [host |-> "", port |-> a2port(fs[1]), path |-> ""]

ConnectEnd(fs) ==
  IF ConnectsToPath(fs) THEN [host |-> "", port |-> PORT_STREAMLOCAL, path |-> fs[Len(fs)].text]
  ELSE IF Len(fs) < 3 THEN [host |-> "socks", port |-> 0, path |-> ""]
  ELSE [host |-> fs[Len(fs) - 1].text, port |-> a2port(fs[Len(fs)]), path |-> ""]

parse_forward(fs, dynamicfwd, remotefwd) ==
  LET fwd == [listen |-> ListenEnd(fs), connect |-> ConnectEnd(fs)]
      ok == /\ IF dynamicfwd THEN Len(fs) \in {1, 2}
               ELSE /\ Len(fs) \in {3, 4} \/ fwd.connect.path # "" \/ fwd.listen.path # ""
                    /\ fwd.connect.port > 0 \/ fwd.connect.path # ""
            /\ fwd.listen.port >= 0 \/ fwd.listen.path # ""
            /\ remotefwd \/ fwd.listen.port # 0
  IN IF ok THEN <<fwd>> ELSE <<>>

StoreForward(o, line) ==
  [o EXCEPT ![line.opt] = AddOnce(@, Head(parse_forward(line.fields, line.dynamic, line.remote)))]

StoreArray(o, line) == [o EXCEPT ![line.opt] = IF @ = <<>> THEN line.arg ELSE @]

StoreSendEnv(o, line) == [o EXCEPT ![line.opt] = Append(@, line.arg)]

StoreOption(o, line) ==
  CASE line.kw = "once" -> KeepFirst(o, line)
    [] line.kw = "time" -> KeepFirst(o, TimeValue(line))
    [] line.kw = "array" -> StoreArray(o, line)
    [] line.kw = "set" -> [o EXCEPT ![line.opt] = AddOnce(@, line.arg)]
    [] line.kw = "forward" -> StoreForward(o, line)
    [] line.kw = "append" -> StoreSendEnv(o, line)
    [] line.kw \in {"latest", "mask"} -> KeepLatest(o, line)
    [] line.kw = "proxy" -> StoreProxy(o, line)

Applies(line, active) == active \/ line.kw = "mask"

(***************************************************************************)
(* Host: one of the patterns matches and no negated one does.  A pattern   *)
(* is the set of the names it matches.                                     *)
(***************************************************************************)
HostMatches(pats, name) ==
  /\ \E i \in DOMAIN pats : ~pats[i].neg /\ name \in pats[i].names
  /\ \A i \in DOMAIN pats : pats[i].neg => name \notin pats[i].names

\* The name Match host looks at: HostName as far as it is known.
MatchHost(o, name) == IF o["HostName"] # Unset THEN o["HostName"] ELSE name

Criterion(c, o, name, canon) ==
  CASE c.attr = "canonical" -> canon
    [] c.attr = "host" -> MatchHost(o, name) \in c.arg
    [] c.attr = "originalhost" -> HostArg \in c.arg
    [] c.attr = "user" -> (IF o["User"] = Unset THEN LocalUser ELSE o["User"]) \in c.arg
    [] c.attr = "localuser" -> LocalUser \in c.arg
    [] c.attr = "exec" -> c.arg                         \* the command's success
    [] c.attr = "all" -> TRUE

\* match_cfg_line(): every criterion, negated or not; "all" only at the end and after one other at most.
MatchOK(crit) == /\ crit # <<>>
                 /\ \A i \in DOMAIN crit : crit[i].attr = "all" => i = Len(crit) /\ i <= 2
MatchResult(crit, o, name, canon) ==
  \A i \in DOMAIN crit : Criterion(crit[i], o, name, canon) # crit[i].neg

(***************************************************************************)
(* A frame is one activation of read_config_file_depth(): what is left of  *)
(* the file, whether the current block is active, whether no block of it   *)
(* may match (it is included from an inactive block), the files an Include *)
(* line still has to read, and the bad lines counted.                      *)
(***************************************************************************)
ReadFrame(file, active, never) ==
  [left |-> files[file], active |-> active, never |-> never, include |-> <<>>, bad |-> 0]

Current == Head(frames)
SetCurrent(frame) == <<frame>> \o Tail(frames)
PastLine(frame) == [frame EXCEPT !.left = Tail(@)]

ConfInit ==
  /\ files \in ConfigFiles /\ cmdline \in CommandLines
  /\ opts = InitialOptions /\ frames = <<>> /\ todo = <<>> /\ pass = 1
  /\ host = HostArg /\ confPhase = "cmdline"

\* fatal() and the bad options read_config_file_depth() counts both end the program.
ConfigFatal == confPhase' = "fatal" /\ UNCHANGED <<files, cmdline, opts, frames, todo, pass, host>>

\* -o: a line with no block around it, where no block can be opened.
CommandLineOption ==
  /\ confPhase = "cmdline" /\ cmdline # <<>>
  /\ LET line == Head(cmdline) IN
     IF line.kw \in {"Host", "Match", "Include", "unknown", "syntax"} THEN ConfigFatal
     ELSE /\ opts' = StoreOption(opts, line)
          /\ cmdline' = Tail(cmdline)
          /\ UNCHANGED <<files, frames, todo, pass, host, confPhase>>

\* process_config_files(): the user's file, then the system's.
process_config_files == todo' = <<"user", "system">> /\ confPhase' = "files"

FirstPass ==
  /\ confPhase = "cmdline" /\ cmdline = <<>>
  /\ process_config_files
  /\ UNCHANGED <<files, cmdline, opts, frames, pass, host>>

OpenConfigFile ==
  /\ confPhase = "files" /\ frames = <<>> /\ todo # <<>>
  /\ todo' = Tail(todo)
  /\ frames' = IF files[Head(todo)] = NoFile THEN <<>> ELSE <<ReadFrame(Head(todo), TRUE, FALSE)>>
  /\ UNCHANGED <<files, cmdline, opts, pass, host, confPhase>>

\* The Include line's next file starts in the block it is included from.
OpenIncluded(frame, file) ==
  ReadFrame(file, frame.active, frame.never \/ ~frame.active)

ReadIncluded ==
  /\ confPhase = "files" /\ frames # <<>> /\ Current.include # <<>>
  /\ LET file == Head(Current.include)
         rest == SetCurrent([Current EXCEPT !.include = Tail(@)])
     IN IF files[file] = NoFile
        THEN frames' = rest /\ UNCHANGED <<files, cmdline, opts, todo, pass, host, confPhase>>
        ELSE IF Len(frames) > READCONF_MAX_DEPTH THEN ConfigFatal
        ELSE /\ frames' = <<OpenIncluded(Current, file)>> \o rest
             /\ UNCHANGED <<files, cmdline, opts, todo, pass, host, confPhase>>

\* process_config_line_depth()
ReadLine ==
  /\ confPhase = "files" /\ frames # <<>> /\ Current.include = <<>> /\ Current.left # <<>>
  /\ LET line == Head(Current.left)
         next == PastLine(Current)
     IN CASE line.kw = "syntax" \/ (line.kw = "Match" /\ ~MatchOK(line.crit)) -> ConfigFatal
          [] line.kw = "unknown" /\ opts["IgnoreUnknown"] # line.arg ->
               /\ frames' = SetCurrent([next EXCEPT !.bad = @ + 1])
               /\ UNCHANGED <<files, cmdline, opts, todo, pass, host, confPhase>>
          [] line.kw = "unknown" /\ opts["IgnoreUnknown"] = line.arg ->
               /\ frames' = SetCurrent(next)
               /\ UNCHANGED <<files, cmdline, opts, todo, pass, host, confPhase>>
          [] line.kw = "Host" ->
               /\ frames' = SetCurrent([next EXCEPT !.active = ~Current.never /\ HostMatches(line.pats, host)])
               /\ UNCHANGED <<files, cmdline, opts, todo, pass, host, confPhase>>
          [] line.kw = "Match" /\ MatchOK(line.crit) ->
               /\ frames' = SetCurrent([next EXCEPT
                    !.active = ~Current.never /\ MatchResult(line.crit, opts, host, pass = 2)])
               /\ UNCHANGED <<files, cmdline, opts, todo, pass, host, confPhase>>
          [] line.kw = "Include" ->
               /\ frames' = SetCurrent([next EXCEPT !.include = line.files])
               /\ UNCHANGED <<files, cmdline, opts, todo, pass, host, confPhase>>
          [] line.kw = "forward" /\ parse_forward(line.fields, line.dynamic, line.remote) = <<>> -> ConfigFatal
          [] OTHER ->
               /\ opts' = IF Applies(line, Current.active) THEN StoreOption(opts, line) ELSE opts
               /\ frames' = SetCurrent(next)
               /\ UNCHANGED <<files, cmdline, todo, pass, host, confPhase>>

\* The end of a file: the block of the including file is in force again.
LeaveFile_clobber(stack) ==
  IF Len(stack) = 1 THEN <<>> ELSE <<[stack[2] EXCEPT !.active = stack[1].active]>> \o Tail(Tail(stack))
LeaveFile(stack) == Tail(stack)

EndOfFile ==
  /\ confPhase = "files" /\ frames # <<>> /\ Current.include = <<>> /\ Current.left = <<>>
  /\ IF Current.bad > 0 THEN ConfigFatal
     ELSE frames' = LeaveFile(frames) /\ UNCHANGED <<files, cmdline, opts, todo, pass, host, confPhase>>

FilesRead == confPhase = "files" /\ frames = <<>> /\ todo = <<>>

\* A name a proxy will interpret is left alone unless CanonicalizeHostname is "always".
DirectHost == opts["ProxyCommand"] \in {Unset, "none"} /\ opts["ProxyJump"] = Unset

\* resolve_canonicalize() with CanonicalizeFallbackLocal: a name no suffix resolves stays.
CanonicalName(name) == IF name \in DOMAIN Canonical THEN Canonical[name] ELSE name

\* fill_default_options_for_canonicalization(), HostName, resolve_canonicalize() and, when
\* canonicalisation is on, the second pass with the options of the first kept.
Canonicalize ==
  /\ FilesRead /\ pass = 1
  /\ LET mode == IF opts["CanonicalizeHostname"] = Unset THEN "no" ELSE opts["CanonicalizeHostname"]
         named == MatchHost(opts, host)
         found == IF mode # "no" /\ (DirectHost \/ mode = "always") THEN CanonicalName(named) ELSE named
     IN /\ host' = found
        /\ IF mode = "no"
           THEN /\ confPhase' = "fill" /\ UNCHANGED <<todo, pass>>
                /\ opts' = [opts EXCEPT !["CanonicalizeHostname"] = mode]
           ELSE /\ process_config_files /\ pass' = 2
                /\ opts' = [opts EXCEPT !["HostName"] = found]
  /\ UNCHANGED <<files, cmdline, frames>>

SecondPassRead ==
  /\ FilesRead /\ pass = 2
  /\ confPhase' = "fill"
  /\ UNCHANGED <<files, cmdline, opts, frames, todo, pass, host>>

ClientDefaults == [o \in ScalarOptions |->
  CASE o = "Port" -> "22" [] o = "User" -> LocalUser [] o = "IPQoS" -> "lowdelay"
    [] o = "StreamLocalBindMask" -> "0177" [] o = "ClearAllForwardings" -> "no" [] OTHER -> Unset]

\* fill_default_options() and the ProxyJump step of main(), whose consistency check sees
\* the "none" of parse_jump() already cleared.
fill_default_options ==
  /\ confPhase = "fill"
  /\ opts' = LET filled == [o \in DOMAIN opts |->
                   IF o \in ScalarOptions /\ opts[o] = Unset THEN ClientDefaults[o] ELSE opts[o]]
             IN [filled EXCEPT
                   !["LocalForward"] = IF filled["ClearAllForwardings"] = "yes" THEN <<>> ELSE @,
                   !["RemoteForward"] = IF filled["ClearAllForwardings"] = "yes" THEN <<>> ELSE @,
                   !["ProxyCommand"] = IF filled["ProxyJump"] # Unset THEN "ssh -W"
                                       ELSE IF @ = "none" THEN Unset ELSE @]
  /\ confPhase' = "done"
  /\ UNCHANGED <<files, cmdline, frames, todo, pass, host>>

ConfNext ==
  \/ CommandLineOption \/ FirstPass \/ OpenConfigFile \/ ReadIncluded \/ ReadLine \/ EndOfFile
  \/ Canonicalize \/ SecondPassRead \/ fill_default_options
=============================================================================
