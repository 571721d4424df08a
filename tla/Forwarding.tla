----------------------------- MODULE Forwarding -----------------------------
(***************************************************************************)
(* Port forwarding: the requests ssh sends for -R, the listeners sshd opens *)
(* for them, the permitted_opens table that tells the client where a        *)
(* connection to one of those listeners goes, the listeners of -L and -D    *)
(* (SOCKS), the permissions the server applies to what they ask for, and    *)
(* the connection attempts over a host's addresses (channels.c, ssh.c,      *)
(* clientloop.c, serverloop.c).  Connections are kept up to the moment they *)
(* are open or refused; what flows in them is the business of Channels.     *)
(*                                                                          *)
(* A forward is [kind, lhost, lport, to]: kind is "local", "dynamic" or     *)
(* "remote", lport is a port, 0 (let the server choose) or Streamlocal, in  *)
(* which case lhost is a path.  NoHost is a bind address nobody gave.       *)
(***************************************************************************)
EXTENDS Integers, Sequences, FiniteSets, SequencesExt

CONSTANTS
  FreePorts,          \* the ports the server's kernel may choose for port 0
  Families,           \* the address families getaddrinfo() returns
  GatewayPorts,       \* GatewayPorts of the server: 0 no, 1 yes, 2 client
  AllowRemote, AllowLocal, \* AllowTcpForwarding of the server
  PermitOpen,         \* permitted_adm_opens: targets, {} when any
  ExitOnFailure,      \* ExitOnForwardFailure of the client
  MaxAddrs,           \* addresses a target resolves to
  MaxConns,           \* connections made in a behaviour
  MaxAlive,           \* keepalive requests sent in a behaviour
  MaxRequests,        \* entries of permitted_opens made in a behaviour
  SocksRequests       \* what programs behind a dynamic forward send

Streamlocal == 99999
NoHost == "<none>"
AnyTarget == "*"
Socks == "<socks>"  \* the target of a dynamic forward

VARIABLES
  permitted,    \* permitted_opens: [live, lhost, lport, to], with what became of the
                \* request (history): short, the server did not open all of it; cancelled;
                \* cmdline, made on the escape command line
  rforwards,    \* options.remote_forwards: [live, lhost, lport, to, alloc, handle]
  lforwards,    \* options.local_forwards
  confirms,     \* global_confirms: [cb, ref, ctx]
  local,        \* the client's port listeners: [addr, lport, to]
  remote,       \* the server's port listeners: [path, lport, af, for]
  up, down,     \* packets to the server, to the client
  conns,        \* connections: [via, to, ...], entry being where permitted_opens matched
  alive,        \* keepalive requests sent
  master        \* "up", "fatal" or "gone"

fwdvars == <<permitted, rforwards, lforwards, confirms, local, remote, up, down,
             conns, alive, master>>

(***************************************************************************)
(* The operators the two ends are built from                               *)
(***************************************************************************)
channel_rfwd_bind_host(h) ==
  CASE h = NoHost -> "localhost" [] h \in {"", "*"} -> "" [] OTHER -> h

(* Which address a listener binds to: "wild", "loop", or the one asked for *)
channel_fwd_bind_addr(h, client, gateway) ==
  CASE h = NoHost                       -> IF gateway # 0 THEN "wild" ELSE "loop"
    [] h # NoHost /\ (gateway # 0 \/ client) ->
         IF h \in {"", "*"} \/ (~client /\ gateway = 1) THEN "wild"
         ELSE IF h = "localhost" THEN "loop" ELSE h
    [] h = "127.0.0.1"                  -> h
    [] OTHER                            -> "loop"

open_match(allowed, to) == allowed = AnyTarget \/ allowed = to

ListenMatch_anyPort(p, h, port, translate) ==
  p.live /\ (IF translate THEN channel_rfwd_bind_host(p.lhost) = h ELSE p.lhost = h)

open_listen_match_tcpip(p, h, port, translate) ==
  /\ p.live
  /\ p.lport = port
  /\ IF translate THEN channel_rfwd_bind_host(p.lhost) = h
                  ELSE p.lhost = h

open_listen_match_streamlocal(p, path) ==
  p.live /\ p.lport = Streamlocal /\ p.lhost = path

First(s, Test(_)) == SelectInSeq(s, Test)

(* connect_next(): the attempts that may follow from the addresses left:   *)
(* one under way with fewer left, or none                                  *)
connect_next(left) ==
  {[ok |-> TRUE, left |-> n] : n \in {m \in 0..MaxAddrs : m < left}}
    \cup {[ok |-> FALSE, left |-> 0]}

(* connect_to_reason(): the name may not resolve                           *)
connect_to_reason == UNION {connect_next(n) : n \in 0..MaxAddrs}

ClearedPermission(p) == [p EXCEPT !.live = FALSE, !.lport = 0]

(***************************************************************************)
(* The client asks for a remote forward                                    *)
(***************************************************************************)
ForwardRequest(f, id) ==
  IF f.lport = Streamlocal
  THEN [t |-> "streamlocal-forward", host |-> f.lhost, port |-> Streamlocal, for |-> id]
  ELSE [t |-> "tcpip-forward", host |-> channel_rfwd_bind_host(f.lhost),
        port |-> f.lport, for |-> id]

(* channel_request_remote_forwarding(): send the request and assume that   *)
(* the server accepts it; its handle is the place in permitted_opens       *)
Permission(f, cmdline) ==
  [live |-> TRUE, lhost |-> f.lhost, lport |-> f.lport, to |-> f.to,
   short |-> FALSE, cancelled |-> FALSE, cmdline |-> cmdline]
channel_request_remote_forwarding(f, cmdline) ==
  /\ up' = Append(up, ForwardRequest(f, Len(permitted) + 1))
  /\ permitted' = Append(permitted, Permission(f, cmdline))

NewRemote(f, handle) == [live |-> TRUE, lhost |-> f.lhost, lport |-> f.lport, to |-> f.to,
                         alloc |-> 0, handle |-> handle]

client_register_global_confirm(queue, cb, ctx) ==
  IF queue # <<>> /\ Last(queue).cb = cb /\ Last(queue).ctx = ctx
  THEN [queue EXCEPT ![Len(queue)].ref = @ + 1]
  ELSE Append(queue, [cb |-> cb, ref |-> 1, ctx |-> ctx])

Configured(conf, kinds) == SelectSeq(conf, LAMBDA f : f.kind \in kinds)

(* A local listener for f; it does not open when one is already there      *)
LocalListener(f) ==
  [addr |-> IF f.lport = Streamlocal THEN f.lhost
            ELSE channel_fwd_bind_addr(f.lhost, TRUE, 0),
   lport |-> f.lport, to |-> f.to]

CanListenLocally(listeners, f) ==
  \A l \in listeners : <<l.addr, l.lport>> # <<LocalListener(f).addr, f.lport>>

LocalInit(fs) == FoldSeq(LAMBDA f, ls : IF CanListenLocally(ls, f)
                                        THEN ls \cup {LocalListener(f)} ELSE ls, {}, fs)

(* ssh_init_forwarding(): what the client has done before its loop starts, *)
(* with the forwards of its configuration (a tunnel is left out)           *)
FwdInit(conf) ==
  LET rf == Configured(conf, {"remote"}) IN
  /\ permitted = [i \in DOMAIN rf |-> Permission(rf[i], FALSE)]
  /\ rforwards = [i \in DOMAIN rf |-> NewRemote(rf[i], i)]
  /\ lforwards = Configured(conf, {"local", "dynamic"})
  /\ up = [i \in DOMAIN rf |-> ForwardRequest(rf[i], i)]
  /\ confirms = [i \in DOMAIN rf |-> [cb |-> "ssh", ref |-> 1, ctx |-> i]]
  /\ local = LocalInit(Configured(conf, {"local", "dynamic"}))
  /\ remote = {} /\ down = <<>> /\ conns = <<>> /\ alive = 0
  /\ master = "up"

(* channel_request_rforward_cancel(): the first live entry with that       *)
(* listening end; the actual port for a port the server chose              *)
CancelledEntry(h, port) ==
  First(permitted, LAMBDA p : IF port = Streamlocal
                              THEN open_listen_match_streamlocal(p, h)
                              ELSE open_listen_match_tcpip(p, h, port, FALSE))

channel_request_rforward_cancel(h, port) ==
  /\ CancelledEntry(h, port) # 0
  /\ up' = Append(up, [t |-> IF port = Streamlocal THEN "cancel-streamlocal" ELSE "cancel-tcpip",
                       host |-> IF port = Streamlocal THEN h ELSE channel_rfwd_bind_host(h),
                       port |-> port, for |-> 0])
  /\ permitted' = [permitted EXCEPT ![CancelledEntry(h, port)] =
                                      [ClearedPermission(@) EXCEPT !.cancelled = TRUE]]

channel_cancel_lport_listener(f) ==
  local' = {l \in local : \/ l.lport # f.lport
                          \/ f.lport # Streamlocal /\ l.to # f.to
                          \/ l.addr # LocalListener(f).addr}

(* server_alive_check() *)
server_alive_check ==
  /\ master = "up" /\ alive < MaxAlive
  /\ alive' = alive + 1
  /\ up' = Append(up, [t |-> "keepalive", host |-> "", port |-> 0, for |-> 0])
  /\ confirms' = client_register_global_confirm(confirms, "none", 0)
  /\ UNCHANGED <<permitted, rforwards, lforwards, local, remote, down, conns, master>>

(***************************************************************************)
(* The server                                                              *)
(***************************************************************************)
TakenPort(port, af) == \E l \in remote : l.lport = port /\ l.af = af

(* channel_setup_fwd_listener_tcpip(): the families that can be bound, all  *)
(* with the same port; other programs hold ports too, so any bind may fail  *)
ListenersFor(m) ==
  LET ports == IF m.port = 0 THEN FreePorts ELSE {m.port}
  IN {{[path |-> m.host, lport |-> port, af |-> af, for |-> m.for] : af \in bound} :
        port \in ports, bound \in SUBSET Families}

PossibleListeners(m) ==
  {ls \in ListenersFor(m) : \A l \in ls : ~TakenPort(l.lport, l.af)}

channel_setup_fwd_listener_streamlocal(m) ==
  {{}} \cup {{[path |-> m.host, lport |-> Streamlocal, af |-> "unix", for |-> m.for]} :
             x \in {y \in {0} : \A l \in remote : l.path # m.host \/ l.lport # Streamlocal}}

NewListeners(m) ==
  IF ~AllowRemote THEN {{}}
  ELSE IF m.port = Streamlocal THEN channel_setup_fwd_listener_streamlocal(m)
  ELSE PossibleListeners(m)

GlobalReply(ok, port, m) ==
  [t |-> IF ok THEN "success" ELSE "failure", port |-> port, for |-> m.for, req |-> m.t]

(* server_input_global_request(), the forward requests                     *)
ServerForwardRequest ==
  /\ up # <<>> /\ Head(up).t \in {"tcpip-forward", "streamlocal-forward"}
  /\ \E new \in NewListeners(Head(up)) :
       LET m == Head(up)
           chosen == IF m.port = 0 /\ new # {} THEN (CHOOSE l \in new : TRUE).lport ELSE 0
           whole == IF m.port = Streamlocal THEN 1 ELSE Cardinality(Families)
       IN /\ remote' = remote \cup new
          /\ down' = Append(down, GlobalReply(new # {}, chosen, m))
          /\ permitted' = [permitted EXCEPT ![m.for].short = Cardinality(new) < whole]
  /\ up' = Tail(up)
  /\ UNCHANGED <<rforwards, lforwards, confirms, local, conns, alive, master>>

(* channel_cancel_rport_listener(); a cancel asks for no reply             *)
ServerCancelRequest ==
  /\ up # <<>> /\ Head(up).t \in {"cancel-tcpip", "cancel-streamlocal"}
  /\ remote' = {l \in remote : l.path # Head(up).host \/ l.lport # Head(up).port}
  /\ up' = Tail(up)
  /\ UNCHANGED <<permitted, rforwards, lforwards, confirms, local, down, conns, alive, master>>

ServerKeepalive ==
  /\ up # <<>> /\ Head(up).t = "keepalive"
  /\ up' = Tail(up)
  /\ down' = Append(down, GlobalReply(FALSE, 0, Head(up)))
  /\ UNCHANGED <<permitted, rforwards, lforwards, confirms, local, remote, conns, alive, master>>

(* channel_post_port_listener() on the server and port_open_helper()       *)
RemoteAccept ==
  /\ Len(conns) < MaxConns
  /\ \E l \in remote :
       /\ conns' = Append(conns, [via |-> "remote", st |-> "opening", for |-> l.for, to |-> "", entry |-> 0,
                                  left |-> 0, socks |-> <<>>])
       /\ down' = Append(down, [t |-> "open", port |-> l.lport, host |-> l.path,
                                id |-> Len(conns) + 1])
  /\ UNCHANGED <<permitted, rforwards, lforwards, confirms, local, remote, up, alive, master>>

(***************************************************************************)
(* The client's loop                                                       *)
(***************************************************************************)
(* channel_update_permitted_opens(): newport, or -1 to invalidate       *)
channel_update_permitted_opens(idx, newport) ==
  permitted' = IF newport >= 0 THEN [permitted EXCEPT ![idx].lport = newport]
               ELSE [permitted EXCEPT ![idx] = ClearedPermission(@)]

NextConfirms == IF Head(confirms).ref > 1
                THEN [confirms EXCEPT ![1].ref = @ - 1] ELSE Tail(confirms)

IsReply(m) == m.t \in {"success", "failure"}

(* A reply nobody registered for is dropped                                *)
UnexpectedReply ==
  /\ master = "up" /\ down # <<>> /\ IsReply(Head(down)) /\ confirms = <<>>
  /\ down' = Tail(down)
  /\ UNCHANGED <<permitted, rforwards, lforwards, confirms, local, remote, up, conns, alive, master>>

PlaceholderReply ==
  /\ master = "up" /\ down # <<>> /\ IsReply(Head(down))
  /\ confirms # <<>> /\ Head(confirms).cb = "none"
  /\ confirms' = NextConfirms
  /\ down' = Tail(down)
  /\ UNCHANGED <<permitted, rforwards, lforwards, local, remote, up, conns, alive, master>>

(* ssh_confirm_remote_forward(); packet_get_int() ends the process when a  *)
(* reply without a port is taken for the answer to a dynamic forward.  Its *)
(* context is a pointer into options.remote_forwards.  Once the array was  *)
(* moved for another forward ("ssh_freed") it points to freed memory: what *)
(* it reads is taken to be still there, what it writes is lost.            *)
ssh_confirm_remote_forward ==
  /\ master = "up" /\ down # <<>> /\ IsReply(Head(down))
  /\ confirms # <<>> /\ Head(confirms).cb \in {"ssh", "ssh_freed"}
  /\ LET m == Head(down)
         i == Head(confirms).ctx
         f == rforwards[i]
         dynamic == f.lport = 0
     IN /\ IF dynamic THEN channel_update_permitted_opens(f.handle,
                             IF m.t = "success" THEN m.port ELSE -1)
                      ELSE UNCHANGED permitted
        /\ rforwards' = IF dynamic /\ m.t = "success" /\ Head(confirms).cb = "ssh"
                        THEN [rforwards EXCEPT ![i].alloc = m.port] ELSE rforwards
        /\ master' = IF \/ dynamic /\ m.t = "success" /\ m.port = 0
                        \/ m.t = "failure" /\ ExitOnFailure THEN "fatal" ELSE master
  /\ confirms' = NextConfirms
  /\ down' = Tail(down)
  /\ UNCHANGED <<lforwards, local, remote, up, conns, alive>>

(* client_request_forwarded_tcpip() / _streamlocal(): where a connection   *)
(* made to one of the server's listeners goes                              *)
ListenMatch(m) ==
  First(permitted, LAMBDA p : IF m.port = Streamlocal
                              THEN open_listen_match_streamlocal(p, m.host)
                              ELSE open_listen_match_tcpip(p, m.host, m.port, TRUE))

client_request_forwarded ==
  /\ master = "up" /\ down # <<>> /\ Head(down).t = "open"
  /\ LET m == Head(down)
         i == ListenMatch(m)
         Answer(r) == IF r.ok THEN "connecting" ELSE "failed"
     IN IF i = 0
        THEN conns' = [conns EXCEPT ![m.id].st = "failed"]
        ELSE \E r \in connect_to_reason :
               conns' = [conns EXCEPT ![m.id].st = Answer(r), ![m.id].left = r.left,
                                      ![m.id].to = permitted[i].to, ![m.id].entry = i]
  /\ down' = Tail(down)
  /\ UNCHANGED <<permitted, rforwards, lforwards, confirms, local, remote, up, alive, master>>
(***************************************************************************)
(* Connections of -L and -D: accepted by the client, made by the server    *)
(***************************************************************************)
(* channel_post_port_listener() on the client                              *)
LocalAccept ==
  /\ master = "up" /\ Len(conns) < MaxConns
  /\ \E l \in local :
       IF l.to = Socks
       THEN \E q \in SocksRequests :
              /\ conns' = Append(conns, [via |-> "local", st |-> "dynamic", for |-> 0, to |-> "", entry |-> 0,
                         left |-> 0, socks |-> [req |-> q, have |-> 0, sent |-> 0, auth |-> FALSE]])
              /\ UNCHANGED up
       ELSE /\ conns' = Append(conns, [via |-> "local", st |-> "opening", for |-> 0, to |-> l.to, entry |-> 0,
                                       left |-> 0, socks |-> <<>>])
            /\ up' = Append(up, [t |-> "direct", host |-> l.to, port |-> 0, for |-> Len(conns) + 1])
  /\ UNCHANGED <<permitted, rforwards, lforwards, confirms, local, remote, down, alive, master>>

(* A SOCKS request is [ver, methods, noauth, cmd, addr, names, to]: with    *)
(* version 5 a greeting of 2 + methods bytes precedes it.                   *)
Greeting(q) == IF q.ver = 5 THEN 2 + q.methods ELSE 0
SocksBytes(q) ==
  Greeting(q) + IF q.ver = 5 THEN 4 + q.addr + 2 + (IF q.names THEN 1 ELSE 0)
                ELSE 8 + 1 + (IF q.names THEN q.addr + 1 ELSE 0)

(* What a decoder makes of the bytes in the buffer: "more", "bad", "done",  *)
(* or "greeted" with the greeting consumed                                  *)
channel_decode_socks4(q, have) ==
  IF have < SocksBytes(q) THEN "more" ELSE IF q.cmd # 1 THEN "bad" ELSE "done"

channel_decode_socks5(q, have, auth) ==
  IF ~auth
  THEN IF have < Greeting(q) THEN "more" ELSE IF ~q.noauth THEN "bad" ELSE "greeted"
  ELSE IF have < 5 THEN "more"
       ELSE IF q.cmd # 1 THEN "bad"
       ELSE IF have < SocksBytes(q) - Greeting(q) THEN "more" ELSE "done"

SocksDecode(s) ==
  CASE s.have < 3    -> "more"
    [] s.have >= 3 /\ s.req.ver = 4 -> channel_decode_socks4(s.req, s.have)
    [] s.have >= 3 /\ s.req.ver = 5 -> channel_decode_socks5(s.req, s.have, s.auth)
    [] OTHER         -> "bad"

(* The program behind a dynamic forward sends some more of its request; a   *)
(* SOCKS5 client waits for the answer to its greeting                       *)
SocksInput(i) ==
  LET s == conns[i].socks IN
  /\ master = "up" /\ conns[i].st = "dynamic"
  /\ \E n \in 1..(SocksBytes(s.req) - s.sent) :
       /\ s.req.ver = 5 /\ ~s.auth => s.sent + n <= Greeting(s.req)
       /\ conns' = [conns EXCEPT ![i].socks.have = @ + n, ![i].socks.sent = @ + n]
  /\ UNCHANGED <<permitted, rforwards, lforwards, confirms, local, remote, up, down, alive, master>>

(* channel_pre_dynamic() *)
channel_pre_dynamic(i) ==
  LET s == conns[i].socks
      r == SocksDecode(s) IN
  /\ master = "up" /\ conns[i].st = "dynamic" /\ r # "more"
  /\ \/ /\ r = "bad"
        /\ conns' = [conns EXCEPT ![i].st = "failed"] /\ UNCHANGED up
     \/ /\ r = "greeted"
        /\ conns' = [conns EXCEPT ![i].socks.have = @ - Greeting(s.req), ![i].socks.auth = TRUE]
        /\ UNCHANGED up
     \/ /\ r = "done"
        /\ conns' = [conns EXCEPT ![i].st = "opening", ![i].to = s.req.to]
        /\ up' = Append(up, [t |-> "direct", host |-> s.req.to, port |-> 0, for |-> i])
  /\ UNCHANGED <<permitted, rforwards, lforwards, confirms, local, remote, down, alive, master>>

(* channel_connect_to_port() / channel_connect_to_path()                   *)
MayConnect(to) == PermitOpen = {} \/ \E a \in PermitOpen : open_match(a, to)

server_request_direct ==
  /\ up # <<>> /\ Head(up).t = "direct"
  /\ LET m == Head(up) IN
     IF AllowLocal /\ MayConnect(m.host)
     THEN \E r \in connect_to_reason :
            conns' = [conns EXCEPT ![m.for].st = IF r.ok THEN "connecting" ELSE "failed",
                                   ![m.for].left = r.left]
     ELSE conns' = [conns EXCEPT ![m.for].st = "refused"]
  /\ up' = Tail(up)
  /\ UNCHANGED <<permitted, rforwards, lforwards, confirms, local, remote, down, alive, master>>

(* channel_post_connecting(): connected, or the next address               *)
channel_post_connecting(i) ==
  /\ conns[i].st = "connecting"
  /\ conns[i].via = "remote" => master = "up"
  /\ \/ conns' = [conns EXCEPT ![i].st = "open"]
     \/ \E r \in connect_next(conns[i].left) :
          conns' = [conns EXCEPT ![i].st = IF r.ok THEN "connecting" ELSE "failed",
                                 ![i].left = r.left]
  /\ UNCHANGED <<permitted, rforwards, lforwards, confirms, local, remote, up, down, alive, master>>

(***************************************************************************)
(* The command line of the escape character (~C)                           *)
(***************************************************************************)
CmdlineLocal(f) ==
  /\ master = "up" /\ f.kind \in {"local", "dynamic"} /\ CanListenLocally(local, f)
  /\ local' = local \cup {LocalListener(f)}
  /\ UNCHANGED <<permitted, rforwards, lforwards, confirms, remote, up, down, conns, alive, master>>

CmdlineCancelLocal(f) ==
  /\ master = "up" /\ f.kind \in {"local", "dynamic"} /\ ~CanListenLocally(local, f)
  /\ channel_cancel_lport_listener(f)
  /\ UNCHANGED <<permitted, rforwards, lforwards, confirms, remote, up, down, conns, alive, master>>

(* process_cmdline() with -R: the request asks for a reply, but no confirm *)
(* is registered for it                                                    *)
CmdlineRemote(f) ==
  /\ master = "up" /\ f.kind = "remote" /\ f.lport # 0
  /\ Len(permitted) < MaxRequests
  /\ channel_request_remote_forwarding(f, TRUE)
  /\ UNCHANGED <<rforwards, lforwards, confirms, local, remote, down, conns, alive, master>>

CmdlineCancelRemote(f) ==
  /\ master = "up" /\ f.kind = "remote" /\ f.lport # 0
  /\ channel_request_rforward_cancel(f.lhost, f.lport)
  /\ UNCHANGED <<rforwards, lforwards, confirms, local, remote, down, conns, alive, master>>

ForwardConns == \E i \in DOMAIN conns : SocksInput(i) \/ channel_pre_dynamic(i) \/ channel_post_connecting(i)
=============================================================================
