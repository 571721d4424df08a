-------------------------------- MODULE Auth --------------------------------
(***************************************************************************)
(* User authentication in the unprivileged child of sshd (auth2.c and the  *)
(* method files auth2-*.c), which asks the monitor for everything that     *)
(* needs privilege (monitor_wrap.c).  The handler of a packet runs to its  *)
(* end, requests to the monitor included, so it is one function on the     *)
(* context x of module Monitor.                                            *)
(***************************************************************************)
EXTENDS Monitor

\* A child that has just been started.
NewChild ==
    [kex |-> FALSE, attempt |-> 0, failures |-> 0, valid |-> FALSE,
     service |-> FALSE, lists |-> NoLists, used |-> {}, forced |-> FALSE,
     none_enabled |-> TRUE, postponed |-> FALSE, success |-> FALSE,
     kbdint |-> FALSE, nreq |-> 0]

\* C: the configurations and accounts to start from.
AuthInit(C) ==
    /\ options \in C
    /\ mon = NewMonitor /\ child = NewChild
    /\ hist = [proved |-> <<>>, guesses |-> 0, abandoned |-> FALSE]
    /\ down = "none"

Ctx == [m |-> mon, c |-> child, h |-> hist, ans |-> FALSE, res |-> 0, ret |-> FALSE,
        err |-> "none"]
Apply(x) ==
    /\ mon' = x.m /\ child' = x.c /\ hist' = x.h /\ down' = x.err
    /\ UNCHANGED options

----------------------------------------------------------------------------
(* Requests to the monitor.                                                *)

mm_choose_dh(x) == monitor_read(x, "MODULI", mm_answer_moduli(x))
mm_key_sign(x) == monitor_read(x, "SIGN", mm_answer_sign(x))
mm_getpwnamallow(x) == monitor_read(x, "PWNAM", mm_answer_pwnamallow(x))
mm_auth2_read_banner(x) == monitor_read(x, "BANNER", mm_answer_auth2_read_banner(x))
mm_inform_authserv(x, style) ==
    monitor_read(x, "AUTHSERV", mm_answer_authserv(x, style))
mm_start_pam(x) == monitor_read(x, "PAM_START", mm_answer_pam_start(x))
mm_auth_password(x, p) ==
    monitor_read(x, "AUTHPASSWORD", mm_answer_authpassword(x, p))
mm_do_pam_account(x, acct) ==
    monitor_read(x, "PAM_ACCOUNT", mm_answer_pam_account(x, acct))
mm_sshpam_init_ctx(x) == monitor_read(x, "PAM_INIT_CTX", mm_answer_pam_init_ctx(x))
mm_sshpam_query(x, r) == monitor_read(x, "PAM_QUERY", mm_answer_pam_query(x, r))
mm_sshpam_respond(x, n) ==
    monitor_read(x, "PAM_RESPOND", mm_answer_pam_respond(x, n))
mm_sshpam_free_ctx(x) == monitor_read(x, "PAM_FREE_CTX", mm_answer_pam_free_ctx(x))
\* The child pretends to have the forced command that the monitor found.
TakeForced(y) == [y EXCEPT !.c.forced = y.m.forced]
mm_key_allowed(x, type, key, attempt) ==
    TakeForced(monitor_read(x, "KEYALLOWED",
                            mm_answer_keyallowed(x, type, key, attempt)))
mm_key_verify(x, key, good) ==
    monitor_read(x, "KEYVERIFY", mm_answer_keyverify(x, key, good))

----------------------------------------------------------------------------
(* Keyboard-interactive authentication with the device pam.                *)

\* kbdint_next_device(): the device is there, allowed by the lists, and has
\* not been tried in this conversation.
HasDevice(x) ==
    options.use_pam /\ auth2_method_allowed(x.c.lists, "keyboard-interactive", "pam")

\* kbdint_free() frees the context of the device.
auth2_challenge_stop(x) ==
    IF x.c.kbdint THEN [mm_sshpam_free_ctx(x) EXCEPT !.c.kbdint = FALSE] ELSE x

\* A query that succeeds becomes an INFO_REQUEST with one prompt or none.
InfoRequest(y, r) ==
    IF Ok(y) /\ y.ans
    THEN [y EXCEPT !.c.nreq = IF r = "prompt" THEN 1 ELSE 0, !.c.postponed = TRUE]
    ELSE y
send_userauth_info_request(x, r) == InfoRequest(mm_sshpam_query(x, r), r)

\* The conversation ends unless the client has been asked something.
StopUnlessAsked(x) == IF x.c.postponed THEN x ELSE auth2_challenge_stop(x)

ContextMade(y, r) ==
    IF ~Ok(y) \/ ~y.ans THEN y
    ELSE StopUnlessAsked(send_userauth_info_request([y EXCEPT !.c.kbdint = TRUE], r))
auth2_challenge(x, r) ==
    IF ~HasDevice(x) THEN x ELSE ContextMade(mm_sshpam_init_ctx(x), r)

----------------------------------------------------------------------------
(* The methods.  in is the packet: method, the password p, the key and its *)
(* signature sig ("absent" in a query), and what PAM will say.  The child's *)
(* result is x.ans.                                                        *)

Result(x, a) == [x EXCEPT !.ans = Ok(x) /\ a]

userauth_none(x) ==
    IF options.permit_empty /\ "password" \in options.enabled
    THEN mm_auth_password([x EXCEPT !.c.none_enabled = FALSE], "empty")
    ELSE Result([x EXCEPT !.c.none_enabled = FALSE], FALSE)

userauth_passwd(x, in) == mm_auth_password(x, in.p)

\* auth_clear_options() after a key that failed or was only asked about.
Clear(x) == [Result(x, FALSE) EXCEPT !.c.forced = FALSE]
KeyVerified(z, key) ==
    IF Ok(z) /\ z.ans THEN [z EXCEPT !.c.used = @ \cup {key}] ELSE Clear(z)
KeyAllowed(y, in) ==
    IF in.sig = "absent" THEN [Clear(y) EXCEPT !.c.postponed = Ok(y) /\ y.ans]
    ELSE IF ~Ok(y) \/ ~y.ans THEN Clear(y)
    ELSE KeyVerified(mm_key_verify(y, in.key, in.sig = "good"), in.key)
userauth_pubkey(x, in) ==
    IF ~x.c.valid \/ auth2_userkey_already_used(x.c.used, in.key)
    THEN Result(x, FALSE)
    ELSE KeyAllowed(mm_key_allowed(x, "user", in.key, in.sig # "absent"), in)

HostKeyAllowed(y, in) ==
    IF ~Ok(y) \/ ~y.ans THEN Result(y, FALSE)
    ELSE mm_key_verify(y, in.key, in.sig = "good")
userauth_hostbased(x, in) ==
    IF ~x.c.valid THEN Result(x, FALSE)
    ELSE HostKeyAllowed(mm_key_allowed(x, "host", in.key, FALSE), in)

userauth_kbdint(x, in) == Result(auth2_challenge(x, in.pam), FALSE)

userauth(x, in) ==
    CASE in.method = "none"      -> userauth_none(x)
      [] in.method = "password"  -> userauth_passwd(x, in)
      [] in.method = "publickey" -> userauth_pubkey(x, in)
      [] in.method = "hostbased" -> userauth_hostbased(x, in)
      [] OTHER                   -> userauth_kbdint(x, in)

authmethod_lookup(x, method) ==
    /\ IF method = "none" THEN x.c.none_enabled ELSE method \in options.enabled
    /\ auth2_method_allowed(x.c.lists, method, "")

\* "Allow initial try of "none" auth without failure penalty"
CountsAsFailure(x, method) == x.c.attempt > 1 \/ method # "none"

\* The FAILURE and the SUCCESS reply.
SendFailure(x, partial, method) ==
    LET n == IF ~partial /\ CountsAsFailure(x, method)
             THEN x.c.failures + 1 ELSE x.c.failures
        y == [x EXCEPT !.c.failures = n]
    IN  IF n >= options.max_authtries
        THEN Fatal(y, "Too many authentication failures") ELSE y

AccountAsked(y) ==
    IF ~Ok(y) THEN y
    ELSE IF options.use_pam /\ ~y.ans THEN Fatal(y, "denied by PAM account")
    ELSE [y EXCEPT !.c.success = TRUE]
SendSuccess(x, acct) ==
    AccountAsked(IF options.use_pam THEN mm_do_pam_account(x, acct) ELSE x)

\* Mutant: only the monitor looks at PermitRootLogin.
RootNeverDenied(x, method) == FALSE
\* "Special handling for root"
RootDenied(x, method) == options.root /\ ~auth_root_allowed(method, x.c.forced)

\* up is the outcome of auth2_update_methods_lists().
Finish(x, up, method, acct) ==
    IF ~up.found THEN Fatal(x, "method not in AuthenticationMethods")
    ELSE IF up.done THEN SendSuccess([x EXCEPT !.c.lists = up.lists], acct)
    ELSE SendFailure([x EXCEPT !.c.lists = up.lists], TRUE, method)

userauth_finish(x, method, sub, acct) ==
    IF ~Ok(x) THEN x
    ELSE IF x.ans /\ ~x.c.valid THEN Fatal(x, "authenticated invalid user")
    ELSE IF x.ans /\ x.c.postponed THEN Fatal(x, "authenticated and postponed")
    ELSE IF x.c.postponed THEN x
    ELSE IF ~x.ans \/ RootDenied(x, method) THEN SendFailure(x, FALSE, method)
    ELSE Finish(x, UpdateLists(x.c.lists, method, sub), method, acct)

----------------------------------------------------------------------------
(* Packets from the client.                                                *)

\* The key exchange needs a group and a signature.
Kex ==
    /\ down = "none" /\ ~child.kex
    /\ Apply(mm_key_sign(mm_choose_dh([Ctx EXCEPT !.c.kex = TRUE])))

\* The first request sets the context up on both sides.
UserKnown(x, in) ==
    [x EXCEPT !.c.valid = x.ans /\ in.service, !.c.service = in.service]
ListsSetUp(x) ==
    IF Ok(x) /\ options.lists # <<>> /\ DOMAIN auth2_setup_methods_lists = {}
    THEN Fatal(x, "no authentication methods enabled")
    ELSE [x EXCEPT !.c.lists = auth2_setup_methods_lists]
StartPam(x) == IF options.use_pam THEN mm_start_pam(x) ELSE x
ReadBanner(x) == IF options.banner THEN mm_auth2_read_banner(x) ELSE x
FirstRequest(x, in) ==
    ListsSetUp(ReadBanner(mm_inform_authserv(
      StartPam(UserKnown(mm_getpwnamallow(x), in)), in.style)))

LaterRequest(x, in) ==
    IF in.same /\ in.service = x.c.service THEN x
    ELSE Fatal(x, "Change of username or service not allowed")

\* A request ends the conversation that is under way.  attempt only matters as 0,
\* 1 and more.
BeginRequest(x) ==
    auth2_challenge_stop(
      [x EXCEPT !.c.attempt = IF @ = 2 THEN 2 ELSE @ + 1, !.c.postponed = FALSE,
                !.h.abandoned = @ \/ x.m.authok])
TryMethod(x, in) ==
    IF authmethod_lookup(x, in.method) /\ x.c.failures < options.max_authtries
    THEN userauth(x, in) ELSE Result(x, FALSE)
ServeRequest(x, in) ==
    IF ~Ok(x) THEN x ELSE userauth_finish(TryMethod(x, in), in.method, "", in.acct)
HandleRequest(x, in) == IF ~Ok(x) THEN x ELSE ServeRequest(BeginRequest(x), in)

input_userauth_request(in) ==
    /\ down = "none" /\ child.kex /\ ~child.success
    /\ Apply(HandleRequest(IF child.attempt = 0 THEN FirstRequest(Ctx, in)
                           ELSE LaterRequest(Ctx, in), in))

\* An answer with n responses; pam is what the PAM thread says next.
Judge(x, ok) == [x EXCEPT !.ans = ok]
Responded(x, pam, acct) ==
    IF ~Ok(x) THEN x
    ELSE IF x.res = 1
    THEN userauth_finish(Judge(StopUnlessAsked(send_userauth_info_request(x, pam)), FALSE),
                         "keyboard-interactive", "pam", acct)
    ELSE userauth_finish(Judge(StopUnlessAsked(x), x.res = 0 /\ x.c.valid),
                         "keyboard-interactive", "pam", acct)
input_userauth_info_response(n, pam, acct) ==
    /\ down = "none" /\ child.kbdint /\ ~child.success
    /\ Apply(IF n # child.nreq THEN Fatal(Ctx, "wrong number of replies")
             ELSE Responded(mm_sshpam_respond([Ctx EXCEPT !.c.postponed = FALSE], n),
                            pam, acct))

\* The child has finished; the monitor waits for KEYEXPORT, or for something
\* else.
mm_send_keystate ==
    /\ down = "none" /\ child.success /\ mon.phase # "postauth"
    /\ Apply(IF mon.phase = "keystate"
             THEN [Ctx EXCEPT !.m.phase = "postauth"]
             ELSE Fatal(Ctx, "unexpected request"))

\* What a client may put into a request, as far as its method looks at it.
Packets ==
    LET absent == {"absent"}
        quiet  == {"failure"}
        Body(method, P, K, S, R) == [method : {method}, p : P, key : K, sig : S, pam : R]
    IN  Body("none", {"empty"}, {""}, absent, quiet)
        \cup Body("password", {"right", "wrong", "empty"}, {""}, absent, quiet)
        \cup Body("publickey", {"empty"}, ClientKeys, {"absent", "good", "bad"}, quiet)
        \cup Body("hostbased", {"empty"}, ClientHostKeys, {"good", "bad"}, quiet)
        \cup Body("keyboard-interactive", {"empty"}, {""}, absent, PamResults)

\* The head of a request: the name and the service may change, and the name
\* may carry a style.
Heads == [same : BOOLEAN, service : BOOLEAN, style : BOOLEAN]

Request(b, h, acct) ==
    [method |-> b.method, p |-> b.p, key |-> b.key, sig |-> b.sig, pam |-> b.pam,
     same |-> h.same, service |-> h.service, style |-> h.style, acct |-> acct]

AuthStep ==
    \/ Kex
    \/ \E b \in Packets, h \in Heads, acct \in BOOLEAN :
          input_userauth_request(Request(b, h, acct))
    \/ \E n \in {0, 1}, pam \in PamResults, acct \in BOOLEAN :
          input_userauth_info_response(n, pam, acct)
    \/ mm_send_keystate

AuthSpec == AuthInit(Configs) /\ [][AuthStep]_authvars

----------------------------------------------------------------------------
LoggedIn == mon.phase = "postauth"

\* A method that was proved stands for the entry of a list.  An empty password is
\* the method none or password by the order of the calls (monitor.c names it by
\* its own count), so for an account without a password these are the same.
StandsFor(method, entry) ==
    \/ method = entry.m
    \/ options.no_password /\ {method, entry.m} \subseteq {"none", "password"}

\* The factors a client proved contain the entries of a list in their order,
\* and no key stands for two entries.
Satisfies(proved, list) ==
    \E f \in [DOMAIN list -> DOMAIN proved] :
        \A i, j \in DOMAIN list :
            /\ StandsFor(proved[f[i]].m, list[i])
            /\ i < j => f[i] < f[j]
            /\ i # j /\ list[i].m = "publickey" /\ list[j].m = "publickey"
                 => proved[f[i]].key # proved[f[j]].key

\* PermitRootLogin (sshd_config.5): any method, a key or a host, or a public key
\* whose line in authorized_keys names a command.  One exception: the monitor
\* clears the forced command only before it looks at another public key, so one
\* that a key with a bad signature left behind lets root in by host
\* (mm_answer_keyallowed, auth_root_allowed).
LastProved == hist.proved[Len(hist.proved)]
RootPolicy ==
    CASE options.root_login = "yes" -> TRUE
      [] options.root_login = "prohibit-password" ->
            LastProved.m \in {"publickey", "hostbased"}
      [] options.root_login = "forced-commands-only" ->
            \/ LastProved.m = "publickey" /\ LastProved.key \in options.forced
            \/ LastProved.m = "hostbased" /\ mon.forced
                 /\ options.keys \cap options.forced # {}
      [] OTHER -> FALSE

\* Whatever order of requests, refusals, queries and abandoned conversations
\* the client chooses, the user's process is started only for an existing
\* user of the ssh-connection service who has really proved every method of
\* some configured list in order, with different keys, as PermitRootLogin and
\* the PAM account check demand (monitor_child_preauth, userauth_finish).  And
\* no more than MaxAuthTries wrong passwords are ever tried, whatever other
\* methods, queries and abandoned conversations come in between.
AuthSound ==
    /\ hist.guesses <= options.max_authtries
    /\ LoggedIn =>
        /\ options.valid /\ child.service /\ child.success
        /\ IF options.lists = <<>> THEN hist.proved # <<>>
           ELSE \E i \in DOMAIN options.lists :
                    Satisfies(hist.proved, options.lists[i])
        /\ options.root => RootPolicy
        /\ options.use_pam => mon.account = "ok"

\* Monitor and child take the same decisions between two packets, each from its
\* own copy of the state: they agree on success, on the keys already used and
\* on what is left of the lists.  There are four exceptions.  A client that asks
\* for another service is an invalid user to the child only (the monitor gets
\* the service and does not look at it); and a keyboard-interactive conversation
\* that the client abandons after PAM has sent a message without a prompt counts
\* as proved for the monitor only.  And with AuthenticationMethods for a root
\* with a restricted login, the monitor updates its lists before it looks at
\* PermitRootLogin and the child after it, and the monitor counts an empty
\* password as another method than the child (auth_method in monitor.c).
Agreement ==
    down = "none" /\ child.service
    /\ (options.lists # <<>> => ~RootRestricted /\ ~options.no_password) =>
        /\ child.success <=> mon.phase \in {"keystate", "postauth"}
        /\ child.used = mon.used
        /\ child.lists # mon.lists \/ mon.phase = "account" => hist.abandoned
=============================================================================
