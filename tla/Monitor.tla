------------------------------ MODULE Monitor ------------------------------
(***************************************************************************)
(* The privileged monitor of sshd during authentication (monitor.c): the   *)
(* dispatch table with its permissions, one operator per request, and what *)
(* monitor_child_preauth() does after each of them, with the multiple      *)
(* authentication of auth2.c and the PAM device of auth-pam.c that run in  *)
(* the monitor.  BSD auth, S/Key, GSSAPI and audit are compile-time        *)
(* options that the model leaves out.                                      *)
(*                                                                         *)
(* The unprivileged child waits for the answer to a request before it does *)
(* anything else, and a request that has no answer is handled before the   *)
(* next one, so a request and its answer are one function on a context x:  *)
(* the monitor m, the child c, the history h, the answer ans (res where it *)
(* is a number), what the handler returns to the monitor's loop ret, and   *)
(* the error err that ended either process.                                                         *)
(***************************************************************************)
EXTENDS Integers, Sequences, FiniteSets

CONSTANTS
    Configs,         \* the configurations and accounts to consider, see Config
    ClientKeys,      \* keys the client may offer for the user
    ClientHostKeys   \* keys the client's host may sign with

Methods == {"none", "password", "publickey", "hostbased", "keyboard-interactive"}
\* An entry of an AuthenticationMethods list, "method" or "method:submethod";
\* the only submethod in the model is pam.
Entries == [m : Methods, sub : {"", "pam"}]

\* ServerOptions as far as authentication reads them, and the account: valid
\* is the outcome of getpwnamallow(), keys are the user's authorized keys,
\* forced the ones with a forced command, hostkeys the keys hosts may use.
Config ==
    [lists : Seq(Seq(Entries)), enabled : SUBSET Methods, max_authtries : Nat,
     use_pam : BOOLEAN, permit_empty : BOOLEAN, banner : BOOLEAN,
     root_login : {"yes", "prohibit-password", "forced-commands-only", "no"},
     valid : BOOLEAN, root : BOOLEAN, no_password : BOOLEAN,
     keys : SUBSET STRING, forced : SUBSET STRING, hostkeys : SUBSET STRING]

ASSUME ConfigsAssumption == Configs \subseteq Config

VARIABLES
    options,  \* the configuration and the account, from Configs
    mon,      \* the monitor
    child,    \* the unprivileged child
    hist,     \* what the client has really proved, and its wrong passwords
    down      \* why the connection ended, "none" while it is up

authvars == <<options, mon, child, hist, down>>

----------------------------------------------------------------------------
(* The dispatch table mon_dispatch_proto20.                                *)

Once == {"MODULI", "SIGN", "PWNAM", "AUTHSERV", "BANNER", "PAM_START",
         "PAM_INIT_CTX", "PAM_RESPOND", "PAM_FREE_CTX"}
AuthDecide == {"AUTHPASSWORD", "KEYVERIFY", "PAM_FREE_CTX"}
IsAuth == {"AUTHPASSWORD", "KEYALLOWED", "KEYVERIFY"}
Requests == Once \cup AuthDecide \cup IsAuth \cup {"PAM_ACCOUNT", "PAM_QUERY"}

Ok(x) == x.err = "none"
Fatal(x, why) == [x EXCEPT !.err = why]
monitor_permit(x, T) == [x EXCEPT !.m.permit = @ \cup T]
monitor_permit_authentications(x) == monitor_permit(x, AuthDecide \cup IsAuth)

NoKey == [k |-> "", type |-> "none"]
NoLists == [i \in {} |-> <<>>]

\* History only: the client has really proved something.
Proved(x, yes, m, key) ==
    [x EXCEPT !.h.proved = IF yes THEN Append(@, [m |-> m, key |-> key]) ELSE @]

\* A monitor that has just been started.
NewMonitor ==
    [phase |-> "preauth", permit |-> {"MODULI", "SIGN"}, attempt |-> 0,
     valid |-> FALSE, style |-> FALSE, lists |-> NoLists, key |-> NoKey, used |-> {},
     pam |-> "none", authok |-> FALSE, account |-> "unset", forced |-> FALSE,
     method |-> "unknown", sub |-> "", calls |-> 0]

----------------------------------------------------------------------------
(* Multiple required authentication (auth2.c).                             *)

\* Prune the lists with a disabled method; "none" is always enabled here.  A list
\* keeps its number in AuthenticationMethods.
auth2_methods_valid(list) ==
    \A j \in DOMAIN list : list[j].m \in options.enabled \cup {"none"}
auth2_setup_methods_lists ==
    [i \in {j \in DOMAIN options.lists : auth2_methods_valid(options.lists[j])} |->
       options.lists[i]]

list_starts_with(list, method, sub) ==
    IF list = <<>> \/ list[1].m # method THEN "none"
    ELSE IF list[1].sub = "" THEN "method"
    ELSE IF sub = "" THEN "partial"
    ELSE IF sub = list[1].sub THEN "both" ELSE "none"

auth2_method_allowed(lists, method, sub) ==
    \/ options.lists = <<>>
    \/ \E i \in DOMAIN lists : list_starts_with(lists[i], method, sub) # "none"

\* remove_method() on each list in turn, until one is complete.
Removable(list, method, sub) ==
    list_starts_with(list, method, sub) \in {"method", "both"}
auth2_update_methods_lists(lists, method, sub) ==
    LET hit  == {i \in DOMAIN lists : Removable(lists[i], method, sub)}
        full == {i \in hit : Len(lists[i]) = 1}
        Upto(i) == \A j \in full : i <= j
    IN  [found |-> hit # {}, done |-> full # {},
         lists |-> [i \in DOMAIN lists |->
                      IF i \in hit /\ Upto(i) THEN Tail(lists[i]) ELSE lists[i]]]

\* Nothing to update without AuthenticationMethods.
UpdateLists(lists, method, sub) ==
    IF options.lists = <<>> THEN [found |-> TRUE, done |-> TRUE, lists |-> lists]
    ELSE auth2_update_methods_lists(lists, method, sub)

RootRestricted == options.root /\ options.root_login # "yes"
auth_root_allowed(method, forced) ==
    \/ options.root_login = "yes"
    \/ options.root_login = "prohibit-password"
         /\ method \in {"publickey", "hostbased"}
    \/ options.root_login = "forced-commands-only" /\ forced

\* Mutant: a key may be presented again.
auth2_userkey_reused(used, key) == FALSE
auth2_userkey_already_used(used, key) == key \in used

----------------------------------------------------------------------------
(* The main loop.                                                          *)

\* The loop starts over with auth_method set to "unknown".  The monitor's own
\* count of failures only chooses a log level, and is left out.
NextRound(x) == [x EXCEPT !.m.method = "unknown", !.m.sub = ""]

\* The loop is left: the monitor waits for the key state of the child.
LeaveLoop(x) ==
    IF ~x.m.valid THEN Fatal(x, "authenticated invalid user")
    ELSE IF x.m.method = "unknown" THEN Fatal(x, "method name unknown")
    ELSE [x EXCEPT !.m.phase = "keystate"]

\* An iteration whose request authenticated, after the lists have been updated:
\* up is the outcome, trivial without AuthenticationMethods.
Authenticates(x, type, up) ==
    IF ~up.found THEN Fatal(x, "method not in AuthenticationMethods")
    ELSE IF ~up.done THEN NextRound([x EXCEPT !.m.lists = up.lists])
    ELSE IF type \notin AuthDecide THEN Fatal(x, "unexpected authentication")
    ELSE IF options.root /\ ~auth_root_allowed(x.m.method, x.m.forced)
         THEN NextRound([x EXCEPT !.m.lists = up.lists])
    ELSE IF options.use_pam
         THEN [x EXCEPT !.m.lists = up.lists, !.m.phase = "account"]
    ELSE LeaveLoop([x EXCEPT !.m.lists = up.lists])

\* What monitor_child_preauth() does when the handler of a request of this
\* type has returned.
monitor_child_preauth(x, type) ==
    IF ~Ok(x) THEN x
    ELSE IF ~x.ret THEN NextRound(x)
    ELSE Authenticates(x, type, UpdateLists(x.m.lists, x.m.method, x.m.sub))

\* The second half of an iteration that waited for PAM_ACCOUNT.
AccountChecked(x) ==
    IF ~Ok(x) THEN x
    ELSE IF x.ret THEN LeaveLoop([x EXCEPT !.m.phase = "preauth"])
    ELSE NextRound([x EXCEPT !.m.phase = "preauth"])

\* A request of this type reaches the monitor in x; y is what its handler
\* makes of x.  Out of the loop the monitor accepts one type only.
monitor_read(x, type, y) ==
    IF ~Ok(x) THEN x
    ELSE IF x.m.phase = "account"
         THEN IF type = "PAM_ACCOUNT" THEN AccountChecked(y)
              ELSE Fatal(x, "unexpected request")
    ELSE IF x.m.phase # "preauth" THEN Fatal(x, "unexpected request")
    ELSE IF type \notin x.m.permit THEN Fatal(x, "unpermitted request")
    ELSE monitor_child_preauth([y EXCEPT !.m.permit = @ \ ({type} \cap Once)], type)

Answer(x, a) == [x EXCEPT !.ans = a, !.ret = FALSE]

----------------------------------------------------------------------------
(* The handlers.                                                           *)

mm_answer_moduli(x) == Answer(x, TRUE)
mm_answer_sign(x) == Answer(monitor_permit(x, {"PWNAM"}), TRUE)

mm_answer_pwnamallow(x) ==
    IF x.m.attempt # 0 THEN Fatal(x, "multiple attempts for getpwnam")
    ELSE Answer(monitor_permit([x EXCEPT !.m.attempt = 1,
                                         !.m.valid = options.valid,
                                         !.m.lists = auth2_setup_methods_lists],
                    {"AUTHSERV", "BANNER"}
                      \cup (IF options.use_pam THEN {"PAM_START"} ELSE {})),
                options.valid)

mm_answer_auth2_read_banner(x) == Answer(x, TRUE)

mm_answer_authserv(x, style) ==
    Answer(monitor_permit_authentications([x EXCEPT !.m.style = style]), TRUE)

\* A password is right, wrong or empty.
PasswordRight(p) == p = IF options.no_password THEN "empty" ELSE "right"

auth_password(x, p) ==
    /\ x.m.valid /\ ~RootRestricted
    /\ p = "empty" => options.permit_empty
    /\ PasswordRight(p)

mm_answer_authpassword(x, p) ==
    LET ok == auth_password(x, p)
        y  == [x EXCEPT !.m.method = IF p = "empty" /\ x.m.calls = 0
                                     THEN "none" ELSE "password",
                        !.m.sub = "", !.m.calls = 1]
    IN  IF "password" \notin options.enabled THEN Fatal(x, "password not enabled")
        ELSE [Proved(y, PasswordRight(p), y.m.method, "") EXCEPT
                !.ans = ok, !.ret = ok,
                !.h.guesses = IF ok \/ p = "empty" THEN @ ELSE @ + 1]

mm_answer_pam_start(x) ==
    IF ~options.use_pam THEN Fatal(x, "UsePAM not set")
    ELSE Answer(monitor_permit(x, {"PAM_ACCOUNT"} \cup
                  (IF "keyboard-interactive" \in options.enabled
                   THEN {"PAM_INIT_CTX"} ELSE {})), TRUE)

\* pam_acct_mgmt() is asked once; acct is what it would say.
do_pam_account(x, acct) ==
    [x EXCEPT !.m.account = IF @ # "unset" THEN @
                            ELSE IF acct THEN "ok" ELSE "denied"]
mm_answer_pam_account(x, acct) ==
    LET y == do_pam_account(x, acct)
    IN  IF ~options.use_pam THEN Fatal(x, "PAM not enabled")
        ELSE [y EXCEPT !.ans = y.m.account = "ok", !.ret = y.m.account = "ok"]

\* The PAM device: a context talks until it is done, with success or failure.
sshpam_init_ctx(x) ==
    IF options.use_pam /\ x.m.account # "denied" THEN "talking" ELSE "none"

mm_answer_pam_init_ctx(x) ==
    LET ctx == sshpam_init_ctx(x)
        y   == [x EXCEPT !.m.pam = ctx, !.m.authok = FALSE]
    IN  IF "keyboard-interactive" \notin options.enabled
        THEN Fatal(x, "kbd-int not enabled")
        ELSE IF x.m.pam # "none" THEN Fatal(x, "already called")
        ELSE IF ctx = "none" THEN Answer(y, FALSE)
        ELSE Answer(monitor_permit(y, {"PAM_FREE_CTX", "PAM_QUERY"}), TRUE)

\* What the PAM thread sends next: a prompt, success (its account check has
\* passed as well), a failure or an expired account, with or without a text
\* for the user.  A failure with a text is shown to the user first: the query
\* returns 0 without a prompt.
PamResults == {"prompt", "success", "failure", "failure+text",
               "expired", "expired+text"}
sshpam_query(x, r) ==
    IF r = "success" /\ (~x.m.valid \/ RootRestricted)
    THEN Fatal(x, "PAM auth succeeded when it should have failed")
    ELSE [Proved(x, r = "success", "keyboard-interactive", "") EXCEPT
            !.m.pam = CASE r = "prompt" -> @ [] r = "success" -> "done"
                        [] OTHER -> "failed",
            !.m.account = CASE r = "success" -> "ok"
                            [] r \in {"expired", "expired+text"} -> "denied"
                            [] OTHER -> @]
QueryFails(r) == r \in {"failure", "expired"}

mm_answer_pam_query(x, r) ==
    LET y == sshpam_query(x, r)
    IN  IF x.m.pam = "none" THEN Fatal(x, "no context")
        ELSE IF ~Ok(y) THEN y
        ELSE Answer(monitor_permit([y EXCEPT
                       !.m.authok = ~QueryFails(r) /\ r # "prompt",
                       !.m.method = "keyboard-interactive", !.m.sub = "pam"],
                     {"PAM_RESPOND"}),
                    ~QueryFails(r))

\* 0: authenticated, 1: more to ask, -1: failed.
sshpam_respond(x, num) ==
    CASE x.m.pam = "done" -> 0
      [] x.m.pam = "talking" /\ num = 1 -> 1
      [] OTHER -> -1
mm_answer_pam_respond(x, num) ==
    LET r == sshpam_respond(x, num)
    IN  IF x.m.pam = "none" THEN Fatal(x, "no context")
        ELSE [x EXCEPT !.m.authok = r = 0, !.m.method = "keyboard-interactive",
                       !.m.sub = "pam", !.res = r, !.ret = FALSE]

mm_answer_pam_free_ctx(x) ==
    IF x.m.pam = "none" THEN Fatal(x, "no context")
    ELSE monitor_permit([x EXCEPT
           !.ret = x.m.authok, !.ans = TRUE, !.m.pam = "none", !.m.authok = FALSE,
           !.m.method = "keyboard-interactive", !.m.sub = "pam"],
         {"PAM_INIT_CTX"})

\* type is "user" or "host"; a key that is allowed is kept for KEYVERIFY.
mm_answer_keyallowed(x, type, key, attempt) ==
    LET on      == IF type = "user" THEN "publickey" ELSE "hostbased"
        allowed == /\ x.m.valid /\ on \in options.enabled
                   /\ IF type = "user"
                      THEN /\ ~auth2_userkey_already_used(x.m.used, key)
                           /\ key \in options.keys
                      ELSE key \in options.hostkeys
        forced  == IF x.m.valid /\ type = "user" /\ on \in options.enabled
                   THEN allowed /\ attempt /\ key \in options.forced
                   ELSE x.m.forced
    IN  Answer([x EXCEPT !.m.forced = forced,
                         !.m.method = IF x.m.valid THEN on ELSE @,
                         !.m.key = IF allowed THEN [k |-> key, type |-> type]
                                   ELSE NoKey],
               allowed)

\* The signed data names the user with the style; the child leaves the style
\* out for a host key.
ValidBlob(x) == x.m.key.type = "user" \/ ~x.m.style

mm_answer_keyverify(x, key, good) ==
    LET user   == x.m.key.type = "user"
        method == IF user THEN "publickey" ELSE "hostbased"
        theirs == key \in IF user THEN options.keys ELSE options.hostkeys
    IN  IF x.m.key.k # key THEN Fatal(x, "bad key, not previously allowed")
        ELSE IF ~ValidBlob(x) THEN Fatal(x, "bad signature data blob")
        ELSE [Proved(x, good /\ theirs, method, key) EXCEPT
                !.ans = good, !.ret = good, !.m.method = method, !.m.sub = "",
                !.m.key = NoKey,
                !.m.used = IF good /\ user THEN @ \cup {key} ELSE @]
=============================================================================
