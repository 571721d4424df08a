----------------------------- MODULE AuthProofs -----------------------------
(***************************************************************************)
(* Proof that AuthSound holds of AuthSpec, for every configuration, every  *)
(* account and every set of keys.                                          *)
(*                                                                         *)
(* The handlers are functions on contexts, so the proof goes operator by   *)
(* operator: Frame says what a request to the monitor leaves alone, then   *)
(* come the lemmas about what each request may change, about the lists of  *)
(* AuthenticationMethods, about the methods, about userauth_finish() and   *)
(* last about the handlers of the packets.                                 *)
(***************************************************************************)
EXTENDS Auth, TLAPS

MonFields ==
    {"phase", "permit", "attempt", "valid", "style", "lists", "key", "used", "pam",
     "authok", "account", "forced", "method", "sub", "calls"}
ChildFields ==
    {"kex", "attempt", "failures", "valid", "service", "lists", "used", "forced",
     "none_enabled", "postponed", "success", "kbdint", "nreq"}
Shape(x) ==
    /\ DOMAIN x = {"m", "c", "h", "ans", "res", "ret", "err"}
    /\ DOMAIN x.m = MonFields
    /\ DOMAIN x.c = ChildFields
    /\ DOMAIN x.h = {"proved", "guesses", "abandoned"}

\* What the loop of the monitor leaves alone.
Keeps(x, y) ==
    /\ Shape(y)
    /\ y.c = x.c /\ y.h = x.h /\ y.ans = x.ans /\ y.res = x.res
    /\ y.m.pam = x.m.pam /\ y.m.account = x.m.account
    /\ y.m.forced = x.m.forced /\ y.m.key = x.m.key
    /\ x.m.phase # "postauth" => y.m.phase # "postauth"

----------------------------------------------------------------------------
(* The loop of the monitor.                                                *)

LEMMA FatalKeeps ==
    ASSUME NEW x, NEW why, Shape(x), why # "none"
    PROVE  Keeps(x, Fatal(x, why)) /\ ~Ok(Fatal(x, why))
  BY DEF Shape, Keeps, Fatal, Ok, MonFields, ChildFields

LEMMA NextRoundKeeps ==
    ASSUME NEW x, Shape(x)
    PROVE  Keeps(x, NextRound(x)) /\ NextRound(x).err = x.err
  BY DEF Shape, Keeps, NextRound, MonFields, ChildFields

LEMMA LeaveLoopKeeps ==
    ASSUME NEW x, Shape(x)
    PROVE  Keeps(x, LeaveLoop(x))
  <1> DEFINE y == [x EXCEPT !.m.phase = "keystate"]
  <1>1. Keeps(x, y)
    BY DEF Shape, Keeps, MonFields, ChildFields
  <1> HIDE DEF y
  <1>2. LeaveLoop(x) \in {Fatal(x, "authenticated invalid user"), Fatal(x, "method name unknown"), y}
    BY DEF LeaveLoop, y
  <1> QED  BY <1>1, <1>2, FatalKeeps

LEMMA KeepsTrans ==
    ASSUME NEW x, NEW y, NEW z, Keeps(x, y), Keeps(y, z)
    PROVE  Keeps(x, z)
  BY DEF Keeps

LEMMA AuthenticatesKeeps ==
    ASSUME NEW x, NEW type, NEW up, Shape(x)
    PROVE  Keeps(x, Authenticates(x, type, up))
  <1> DEFINE y == [x EXCEPT !.m.lists = up.lists]
             z == [x EXCEPT !.m.lists = up.lists, !.m.phase = "account"]
  <1>1. Keeps(x, y) /\ Keeps(x, z)
    BY DEF Shape, Keeps, MonFields, ChildFields
  <1> HIDE DEF y, z
  <1>2. Shape(y)
    BY <1>1 DEF Keeps
  <1>3. Keeps(x, NextRound(y)) /\ Keeps(x, LeaveLoop(y))
    BY <1>1, <1>2, NextRoundKeeps, LeaveLoopKeeps, KeepsTrans
  <1>4. Authenticates(x, type, up) \in
          {Fatal(x, "method not in AuthenticationMethods"), Fatal(x, "unexpected authentication"),
           NextRound(y), LeaveLoop(y), z}
    BY DEF Authenticates, y, z
  <1> QED  BY <1>1, <1>3, <1>4, FatalKeeps

LEMMA LoopKeeps ==
    ASSUME NEW x, NEW type, Shape(x)
    PROVE  /\ Keeps(x, monitor_child_preauth(x, type))
           /\ Ok(monitor_child_preauth(x, type)) => Ok(x)
  <1>1. Keeps(x, x)
    BY DEF Keeps
  <1> QED  BY <1>1, NextRoundKeeps, AuthenticatesKeeps DEF monitor_child_preauth

LEMMA AccountCheckedKeeps ==
    ASSUME NEW x, Shape(x)
    PROVE  Keeps(x, AccountChecked(x)) /\ (Ok(AccountChecked(x)) => Ok(x))
  <1> DEFINE y == [x EXCEPT !.m.phase = "preauth"]
  <1>1. Keeps(x, y) /\ Keeps(x, x)
    BY DEF Shape, Keeps, MonFields, ChildFields
  <1> HIDE DEF y
  <1>2. Shape(y)
    BY <1>1 DEF Keeps
  <1>3. Keeps(x, NextRound(y)) /\ Keeps(x, LeaveLoop(y))
    BY <1>1, <1>2, NextRoundKeeps, LeaveLoopKeeps, KeepsTrans
  <1> QED  BY <1>1, <1>3 DEF AccountChecked, y

\* A request either ends the connection, with nothing but the error changed, or
\* leaves what its handler made of the context.
Stopped(x, z) == ~Ok(z) /\ Keeps(x, z)
LEMMA FatalStopped ==
    ASSUME NEW x, NEW why, Shape(x), why # "none"
    PROVE  Stopped(x, Fatal(x, why))
  BY FatalKeeps DEF Stopped

LEMMA MonitorRead ==
    ASSUME NEW x, NEW type, NEW y, Shape(x), Shape(y)
    PROVE  \/ Stopped(x, monitor_read(x, type, y))
           \/ /\ Ok(x) /\ Keeps(y, monitor_read(x, type, y))
              /\ Ok(monitor_read(x, type, y)) => Ok(y)
  <1> DEFINE z == [y EXCEPT !.m.permit = @ \ ({type} \cap Once)]
  <1>1. Keeps(y, z) /\ Keeps(x, x) /\ (Ok(z) => Ok(y))
    BY DEF Shape, Keeps, MonFields, ChildFields, Ok
  <1> HIDE DEF z
  <1>2. Shape(z)
    BY <1>1 DEF Keeps
  <1>3. Keeps(y, monitor_child_preauth(z, type)) /\ (Ok(monitor_child_preauth(z, type)) => Ok(y))
    BY <1>1, <1>2, LoopKeeps, KeepsTrans
  <1>4. CASE ~Ok(x)
    BY <1>1, <1>4 DEF monitor_read, Stopped
  <1>5. CASE Ok(x)
    <2>1. monitor_read(x, type, y) \in
            {AccountChecked(y), Fatal(x, "unexpected request"), Fatal(x, "unpermitted request"),
             monitor_child_preauth(z, type)}
      BY <1>5 DEF monitor_read, z
    <2>2. Keeps(y, AccountChecked(y)) /\ (Ok(AccountChecked(y)) => Ok(y))
      BY AccountCheckedKeeps
    <2>3. /\ Keeps(x, Fatal(x, "unexpected request")) /\ ~Ok(Fatal(x, "unexpected request"))
          /\ Keeps(x, Fatal(x, "unpermitted request")) /\ ~Ok(Fatal(x, "unpermitted request"))
      BY FatalKeeps
    <2> QED  BY <1>3, <1>5, <2>1, <2>2, <2>3 DEF Stopped
  <1> QED  BY <1>4, <1>5

----------------------------------------------------------------------------
(* The requests.                                                           *)

\* What all of them leave alone.
Frame(x, z) ==
    /\ Shape(z)
    /\ z.c = x.c
    /\ x.m.phase # "postauth" => z.m.phase # "postauth"
    /\ Ok(z) => Ok(x)

Quiet(x, z) ==
    /\ Frame(x, z)
    /\ z.h = x.h
    /\ z.m.pam = x.m.pam /\ z.m.account = x.m.account /\ z.m.forced = x.m.forced

LEMMA AnswerQuiet ==
    ASSUME NEW x, NEW y, NEW a, Quiet(x, y)
    PROVE  Quiet(x, Answer(y, a)) /\ Answer(y, a).ans = a
  BY DEF Quiet, Frame, Answer, Shape, MonFields, ChildFields, Ok

LEMMA QuietRequest ==
    ASSUME NEW x, NEW y, NEW type, Shape(x), Quiet(x, y)
    PROVE  /\ Quiet(x, monitor_read(x, type, y))
           /\ Ok(monitor_read(x, type, y)) =>
                monitor_read(x, type, y).ans = y.ans /\ monitor_read(x, type, y).m.key = y.m.key
  BY MonitorRead DEF Quiet, Frame, Stopped, Keeps

LEMMA PermitQuiet ==
    ASSUME NEW x, NEW y, NEW T, Quiet(x, y)
    PROVE  Quiet(x, monitor_permit(y, T))
  BY DEF Quiet, Frame, monitor_permit, Shape, MonFields, ChildFields, Ok

LEMMA FatalQuiet ==
    ASSUME NEW x, NEW why, Shape(x), why # "none"
    PROVE  Quiet(x, Fatal(x, why)) /\ ~Ok(Fatal(x, why))
  BY FatalKeeps DEF Quiet, Frame, Keeps

LEMMA SimpleRequests ==
    ASSUME NEW x, NEW style, Shape(x)
    PROVE  /\ Quiet(x, mm_choose_dh(x)) /\ Quiet(x, mm_key_sign(x))
           /\ Quiet(x, mm_auth2_read_banner(x)) /\ Quiet(x, mm_inform_authserv(x, style))
           /\ Quiet(x, mm_start_pam(x))
  <1>1. Quiet(x, x)
    BY DEF Quiet, Frame
  <1>2. Quiet(x, mm_answer_moduli(x)) /\ Quiet(x, mm_answer_auth2_read_banner(x))
    BY <1>1, AnswerQuiet DEF mm_answer_moduli, mm_answer_auth2_read_banner
  <1>3. Quiet(x, mm_answer_sign(x))
    BY <1>1, AnswerQuiet, PermitQuiet DEF mm_answer_sign
  <1>4. Quiet(x, mm_answer_authserv(x, style))
    <2> DEFINE y == [x EXCEPT !.m.style = style]
    <2>1. Quiet(x, y)
      BY DEF Quiet, Frame, Shape, MonFields, ChildFields, Ok
    <2> HIDE DEF y
    <2> QED  BY <2>1, AnswerQuiet, PermitQuiet DEF mm_answer_authserv, monitor_permit_authentications, y
  <1>5. Quiet(x, mm_answer_pam_start(x))
    BY <1>1, AnswerQuiet, PermitQuiet, FatalQuiet DEF mm_answer_pam_start
  <1> QED
    BY <1>2, <1>3, <1>4, <1>5, QuietRequest
       DEF mm_choose_dh, mm_key_sign, mm_auth2_read_banner, mm_inform_authserv, mm_start_pam

LEMMA GetpwnamRequest ==
    ASSUME NEW x, Shape(x)
    PROVE  /\ Quiet(x, mm_getpwnamallow(x))
           /\ Ok(mm_getpwnamallow(x)) => mm_getpwnamallow(x).ans = options.valid
  <1> DEFINE y == [x EXCEPT !.m.attempt = 1, !.m.valid = options.valid,
                            !.m.lists = auth2_setup_methods_lists]
             T == {"AUTHSERV", "BANNER"} \cup (IF options.use_pam THEN {"PAM_START"} ELSE {})
             z == mm_answer_pwnamallow(x)
  <1>1. Quiet(x, y)
    BY DEF Quiet, Frame, Shape, MonFields, ChildFields, Ok
  <1>2. z = Fatal(x, "multiple attempts for getpwnam") \/ z = Answer(monitor_permit(y, T), options.valid)
    BY DEF mm_answer_pwnamallow
  <1> HIDE DEF y, T, z
  <1>3. Quiet(x, z) /\ (Ok(z) => z.ans = options.valid)
    <2>1. Quiet(x, Answer(monitor_permit(y, T), options.valid))
          /\ Answer(monitor_permit(y, T), options.valid).ans = options.valid
      BY <1>1, AnswerQuiet, PermitQuiet
    <2>2. /\ Quiet(x, Fatal(x, "multiple attempts for getpwnam"))
          /\ ~Ok(Fatal(x, "multiple attempts for getpwnam"))
      BY FatalQuiet
    <2> QED  BY <1>2, <2>1, <2>2
  <1>4. Ok(monitor_read(x, "PWNAM", z)) => Ok(z)
    BY <1>3, MonitorRead DEF Quiet, Frame, Stopped
  <1> QED  BY <1>3, <1>4, QuietRequest DEF mm_getpwnamallow, z

\* The password is proved as "none" or "password"; one that the monitor accepts is
\* the right one, and one it does not accept is counted unless it is empty.
PasswordNames == {"none", "password"}
PasswordEffect(x, z, p) ==
    /\ Frame(x, z)
    /\ z.m.pam = x.m.pam /\ z.m.account = x.m.account /\ z.m.forced = x.m.forced
    /\ z.h.guesses = x.h.guesses \/ (p # "empty" /\ z.h.guesses = x.h.guesses + 1)
    /\ \/ z.h.proved = x.h.proved
       \/ \E n \in PasswordNames : z.h.proved = Append(x.h.proved, [m |-> n, key |-> ""])
    /\ Ok(z) /\ z.ans =>
         /\ z.h.guesses = x.h.guesses
         /\ p = "empty" => options.no_password
         /\ \E n \in PasswordNames :
              /\ z.h.proved = Append(x.h.proved, [m |-> n, key |-> ""])
              /\ options.no_password \/ n = "password"
         /\ ~RootRestricted

LEMMA PasswordRequest ==
    ASSUME NEW x, NEW p, Shape(x)
    PROVE  PasswordEffect(x, mm_auth_password(x, p), p)
  <1> DEFINE n == IF p = "empty" /\ x.m.calls = 0 THEN "none" ELSE "password"
             ok == auth_password(x, p)
             y == [x EXCEPT !.m.method = n, !.m.sub = "", !.m.calls = 1]
             w == Proved(y, PasswordRight(p), y.m.method, "")
             z == [w EXCEPT !.ans = ok, !.ret = ok,
                            !.h.guesses = IF ok \/ p = "empty" THEN @ ELSE @ + 1]
             r == mm_answer_authpassword(x, p)
  <1>1. /\ Shape(y) /\ y.c = x.c /\ y.h = x.h /\ y.m.phase = x.m.phase /\ y.err = x.err
        /\ y.m.pam = x.m.pam /\ y.m.account = x.m.account /\ y.m.forced = x.m.forced
        /\ y.m.method = n
    BY DEF Shape, MonFields, ChildFields
  <1>2. r = Fatal(x, "password not enabled") \/ r = z
    BY <1>1 DEF mm_answer_authpassword
  <1> HIDE DEF y
  <1>3. /\ Shape(w) /\ w.c = y.c /\ w.m = y.m /\ w.err = y.err
        /\ w.h.guesses = y.h.guesses
        /\ w.h.proved = IF PasswordRight(p) THEN Append(y.h.proved, [m |-> n, key |-> ""]) ELSE y.h.proved
    BY <1>1 DEF Shape, Proved
  <1> HIDE DEF w
  <1>4. /\ Shape(z) /\ z.c = w.c /\ z.m = w.m /\ z.err = w.err
        /\ z.h.proved = w.h.proved /\ z.ans = ok
        /\ z.h.guesses = IF ok \/ p = "empty" THEN w.h.guesses ELSE w.h.guesses + 1
    BY <1>3 DEF Shape
  <1> HIDE DEF z
  <1>5. ok => PasswordRight(p) /\ (options.no_password \/ p # "empty") /\ ~RootRestricted
    BY DEF auth_password, PasswordRight
  <1>6. n \in PasswordNames /\ (p # "empty" => n = "password")
    BY DEF PasswordNames
  <1> HIDE DEF n, ok
  <1>7. PasswordEffect(x, z, p)
    BY <1>1, <1>3, <1>4, <1>5, <1>6 DEF PasswordEffect, Frame, Ok
  <1>8. ASSUME NEW q, Stopped(x, q)
        PROVE  PasswordEffect(x, q, p)
    BY <1>8 DEF Stopped, Keeps, PasswordEffect, Frame
  <1>9. PasswordEffect(x, r, p)
    BY <1>2, <1>7, <1>8, FatalStopped
  <1>10. ASSUME NEW q, Keeps(r, q), Ok(x), Ok(q) => Ok(r)
         PROVE  PasswordEffect(x, q, p)
    BY <1>9, <1>10 DEF Keeps, PasswordEffect, Frame
  <1>11. Shape(r)
    BY <1>9 DEF PasswordEffect, Frame
  <1> HIDE DEF r
  <1> QED  BY <1>8, <1>10, <1>11, MonitorRead DEF mm_auth_password, r

\* A key that is allowed is one of the user's, or the host's, and is kept; the child
\* has a forced command if the monitor has one.
Theirs(type) == IF type = "user" THEN options.keys ELSE options.hostkeys
KeyAllowedEffect(x, z, type, key) ==
    /\ Shape(z)
    /\ z.c = [x.c EXCEPT !.forced = z.m.forced]
    /\ z.h = x.h /\ z.m.pam = x.m.pam /\ z.m.account = x.m.account
    /\ x.m.phase # "postauth" => z.m.phase # "postauth"
    /\ Ok(z) => Ok(x)
    /\ Ok(z) /\ z.ans => z.m.key = [k |-> key, type |-> type] /\ key \in Theirs(type)
    /\ Ok(z) /\ z.ans /\ type = "user" /\ z.m.forced => key \in options.forced
    /\ z.m.forced => x.m.forced \/ key \in options.keys \cap options.forced

LEMMA KeyAllowedRequest ==
    ASSUME NEW x, NEW type, NEW key, NEW attempt, Shape(x)
    PROVE  KeyAllowedEffect(x, mm_key_allowed(x, type, key, attempt), type, key)
  <1> DEFINE r == mm_answer_keyallowed(x, type, key, attempt)
             z == monitor_read(x, "KEYALLOWED", r)
  <1>1. /\ Shape(r) /\ r.c = x.c /\ r.h = x.h /\ r.m.pam = x.m.pam /\ r.m.account = x.m.account
        /\ r.m.phase = x.m.phase /\ r.err = x.err
        /\ r.ans => r.m.key = [k |-> key, type |-> type] /\ key \in Theirs(type)
        /\ r.ans /\ type = "user" /\ r.m.forced => key \in options.forced
        /\ r.m.forced => x.m.forced \/ key \in options.keys \cap options.forced
    <2> DEFINE on == IF type = "user" THEN "publickey" ELSE "hostbased"
               allowed == /\ x.m.valid /\ on \in options.enabled
                          /\ IF type = "user"
                             THEN /\ ~auth2_userkey_already_used(x.m.used, key)
                                  /\ key \in options.keys
                             ELSE key \in options.hostkeys
               forced == IF x.m.valid /\ type = "user" /\ on \in options.enabled
                         THEN allowed /\ attempt /\ key \in options.forced
                         ELSE x.m.forced
               y == [x EXCEPT !.m.forced = forced,
                              !.m.method = IF x.m.valid THEN on ELSE @,
                              !.m.key = IF allowed THEN [k |-> key, type |-> type] ELSE NoKey]
    <2>1. r = Answer(y, allowed)
      BY DEF mm_answer_keyallowed
    <2>2. /\ allowed => key \in Theirs(type)
          /\ allowed /\ type = "user" /\ forced => key \in options.forced
          /\ forced => x.m.forced \/ key \in options.keys \cap options.forced
      BY DEF Theirs
    <2> HIDE DEF forced, on, allowed
    <2>3. /\ Shape(y) /\ y.m.forced = forced /\ y.c = x.c /\ y.h = x.h /\ y.m.pam = x.m.pam /\ y.m.account = x.m.account
          /\ y.m.phase = x.m.phase /\ y.err = x.err
          /\ allowed => y.m.key = [k |-> key, type |-> type]
      BY DEF Shape, MonFields, ChildFields
    <2> HIDE DEF y, r
    <2> QED  BY <2>1, <2>2, <2>3 DEF Answer, Shape, MonFields, ChildFields
  <1> HIDE DEF r
  <1>2. Stopped(x, z) \/ (Keeps(r, z) /\ Ok(x))
    BY <1>1, MonitorRead
  <1> HIDE DEF z
  <1>3. Shape(z) /\ z.c = x.c /\ z.h = x.h
    BY <1>1, <1>2 DEF Stopped, Keeps
  <1>4. /\ TakeForced(z).m = z.m /\ TakeForced(z).h = z.h /\ TakeForced(z).ans = z.ans
        /\ TakeForced(z).err = z.err /\ Shape(TakeForced(z))
        /\ TakeForced(z).c = [x.c EXCEPT !.forced = z.m.forced]
    BY <1>3 DEF TakeForced, Shape, ChildFields
  <1>5. KeyAllowedEffect(x, TakeForced(z), type, key)
    BY <1>1, <1>2, <1>4 DEF KeyAllowedEffect, Stopped, Keeps, Ok
  <1> QED  BY <1>5 DEF mm_key_allowed, z, r

\* A good signature with a key that was allowed is proved.
MethodOf(type) == IF type = "user" THEN "publickey" ELSE "hostbased"
KeyVerifyEffect(x, z, key) ==
    /\ Frame(x, z)
    /\ z.m.pam = x.m.pam /\ z.m.account = x.m.account /\ z.m.forced = x.m.forced
    /\ z.h.guesses = x.h.guesses
    /\ \/ z.h.proved = x.h.proved
       \/ z.h.proved = Append(x.h.proved, [m |-> MethodOf(x.m.key.type), key |-> key])
    /\ Ok(z) /\ z.ans /\ key \in Theirs(x.m.key.type) =>
         z.h.proved = Append(x.h.proved, [m |-> MethodOf(x.m.key.type), key |-> key])

LEMMA KeyVerifyRequest ==
    ASSUME NEW x, NEW key, NEW good, Shape(x)
    PROVE  KeyVerifyEffect(x, mm_key_verify(x, key, good), key)
  <1> DEFINE method == MethodOf(x.m.key.type)
             user == x.m.key.type = "user"
             w == Proved(x, good /\ key \in Theirs(x.m.key.type), method, key)
             z == [w EXCEPT !.ans = good, !.ret = good, !.m.method = method, !.m.sub = "",
                            !.m.key = NoKey,
                            !.m.used = IF good /\ user THEN @ \cup {key} ELSE @]
             r == mm_answer_keyverify(x, key, good)
  <1>1. \/ r = Fatal(x, "bad key, not previously allowed")
        \/ r = Fatal(x, "bad signature data blob")
        \/ r = z
    BY DEF mm_answer_keyverify, MethodOf, Theirs
  <1>2. /\ Shape(w) /\ w.c = x.c /\ w.m = x.m /\ w.err = x.err /\ w.h.guesses = x.h.guesses
        /\ w.h.proved = IF good /\ key \in Theirs(x.m.key.type)
                        THEN Append(x.h.proved, [m |-> method, key |-> key]) ELSE x.h.proved
    BY DEF Shape, Proved
  <1> HIDE DEF w
  <1>3. /\ Shape(z) /\ z.c = w.c /\ z.h = w.h /\ z.err = w.err /\ z.ans = good
        /\ z.m.phase = x.m.phase
        /\ z.m.pam = x.m.pam /\ z.m.account = x.m.account /\ z.m.forced = x.m.forced
    BY <1>2 DEF Shape, MonFields, ChildFields
  <1> HIDE DEF z
  <1>4. KeyVerifyEffect(x, z, key)
    BY <1>2, <1>3 DEF KeyVerifyEffect, Frame, Ok
  <1>5. ASSUME NEW q, Stopped(x, q)
        PROVE  KeyVerifyEffect(x, q, key)
    BY <1>5 DEF Stopped, Keeps, KeyVerifyEffect, Frame
  <1>6. KeyVerifyEffect(x, r, key)
    BY <1>1, <1>4, <1>5, FatalStopped
  <1>7. ASSUME NEW q, Keeps(r, q), Ok(x), Ok(q) => Ok(r)
        PROVE  KeyVerifyEffect(x, q, key)
    BY <1>6, <1>7 DEF Keeps, KeyVerifyEffect, Frame
  <1>8. Shape(r)
    BY <1>6 DEF KeyVerifyEffect, Frame
  <1> HIDE DEF r
  <1> QED  BY <1>5, <1>7, <1>8, MonitorRead DEF mm_key_verify, r

----------------------------------------------------------------------------
(* The requests about PAM.                                                 *)

InitEffect(x, z) ==
    /\ Frame(x, z)
    /\ z.h = x.h /\ z.m.account = x.m.account /\ z.m.forced = x.m.forced
    /\ Ok(z) => z.m.pam = IF z.ans THEN "talking" ELSE "none"

LEMMA InitRequest ==
    ASSUME NEW x, Shape(x)
    PROVE  InitEffect(x, mm_sshpam_init_ctx(x))
  <1> DEFINE ctx == sshpam_init_ctx(x)
             y == [x EXCEPT !.m.pam = ctx, !.m.authok = FALSE]
             w == monitor_permit(y, {"PAM_FREE_CTX", "PAM_QUERY"})
             r == mm_answer_pam_init_ctx(x)
  <1>1. \/ r = Fatal(x, "kbd-int not enabled") \/ r = Fatal(x, "already called")
        \/ ctx = "none" /\ r = Answer(y, FALSE)
        \/ ctx = "talking" /\ r = Answer(w, TRUE)
    BY DEF mm_answer_pam_init_ctx, sshpam_init_ctx
  <1> HIDE DEF ctx
  <1>2. /\ Shape(y) /\ y.c = x.c /\ y.h = x.h /\ y.err = x.err /\ y.m.pam = ctx
        /\ y.m.phase = x.m.phase /\ y.m.account = x.m.account /\ y.m.forced = x.m.forced
    BY DEF Shape, MonFields, ChildFields
  <1> HIDE DEF y
  <1>3. /\ Shape(w) /\ w.c = y.c /\ w.h = y.h /\ w.err = y.err /\ w.m.pam = y.m.pam
        /\ w.m.phase = y.m.phase /\ w.m.account = y.m.account /\ w.m.forced = y.m.forced
    BY <1>2 DEF monitor_permit, Shape, MonFields, ChildFields
  <1> HIDE DEF w
  <1>4. InitEffect(x, Answer(y, FALSE)) \/ ctx # "none"
    BY <1>2 DEF Answer, InitEffect, Frame, Ok, Shape, MonFields, ChildFields
  <1>5. InitEffect(x, Answer(w, TRUE)) \/ ctx # "talking"
    BY <1>2, <1>3 DEF Answer, InitEffect, Frame, Ok, Shape, MonFields, ChildFields
  <1>6. ASSUME NEW q, Stopped(x, q)
        PROVE  InitEffect(x, q)
    BY <1>6 DEF Stopped, Keeps, InitEffect, Frame
  <1>7. InitEffect(x, r)
    BY <1>1, <1>4, <1>5, <1>6, FatalStopped
  <1>8. ASSUME NEW q, Keeps(r, q), Ok(x), Ok(q) => Ok(r)
        PROVE  InitEffect(x, q)
    BY <1>7, <1>8 DEF Keeps, InitEffect, Frame
  <1>9. Shape(r)
    BY <1>7 DEF InitEffect, Frame
  <1> HIDE DEF r
  <1> QED  BY <1>6, <1>8, <1>9, MonitorRead DEF mm_sshpam_init_ctx, r

\* Only an answer of PAM that is a success makes the context done, and it is proved.
Interactive == [m |-> "keyboard-interactive", key |-> ""]
QueryEffect(x, z) ==
    /\ Frame(x, z)
    /\ z.m.forced = x.m.forced /\ z.h.guesses = x.h.guesses
    /\ \/ z.m.pam \in {x.m.pam, "failed"} /\ z.h.proved = x.h.proved
       \/ z.m.pam = "done" /\ z.h.proved = Append(x.h.proved, Interactive) /\ ~RootRestricted

LEMMA QueryRequest ==
    ASSUME NEW x, NEW r, Shape(x)
    PROVE  QueryEffect(x, mm_sshpam_query(x, r))
  <1> DEFINE w == Proved(x, r = "success", "keyboard-interactive", "")
             y == [w EXCEPT !.m.pam = CASE r = "prompt" -> @ [] r = "success" -> "done"
                                        [] OTHER -> "failed",
                            !.m.account = CASE r = "success" -> "ok"
                                            [] r \in {"expired", "expired+text"} -> "denied"
                                            [] OTHER -> @]
             q == sshpam_query(x, r)
             z == [q EXCEPT !.m.authok = ~QueryFails(r) /\ r # "prompt",
                            !.m.method = "keyboard-interactive", !.m.sub = "pam"]
             v == monitor_permit(z, {"PAM_RESPOND"})
             u == Answer(v, ~QueryFails(r))
             a == mm_answer_pam_query(x, r)
  <1>1. ASSUME NEW p, Stopped(x, p)
        PROVE  QueryEffect(x, p)
    BY <1>1 DEF Stopped, Keeps, QueryEffect, Frame
  <1>2. /\ Shape(w) /\ w.c = x.c /\ w.m = x.m /\ w.err = x.err /\ w.h.guesses = x.h.guesses
        /\ w.h.proved = IF r = "success" THEN Append(x.h.proved, Interactive) ELSE x.h.proved
    BY DEF Shape, Proved, Interactive
  <1>3. \/ q = Fatal(x, "PAM auth succeeded when it should have failed")
        \/ q = y /\ (r = "success" => ~RootRestricted)
    BY DEF sshpam_query
  <1> HIDE DEF w
  <1>4. /\ Shape(y) /\ y.c = x.c /\ y.h = w.h /\ y.err = x.err
        /\ y.m.phase = x.m.phase /\ y.m.forced = x.m.forced
        /\ y.m.pam = CASE r = "prompt" -> x.m.pam [] r = "success" -> "done" [] OTHER -> "failed"
    BY <1>2 DEF Shape, MonFields, ChildFields
  <1> HIDE DEF y
  <1>5. (r = "success" => ~RootRestricted) => QueryEffect(x, y)
    BY <1>2, <1>4 DEF QueryEffect, Frame, Ok
  <1>6. QueryEffect(x, q)
    BY <1>1, <1>3, <1>5, FatalStopped
  <1>7. a = Fatal(x, "no context") \/ a = q \/ a = u
    BY DEF mm_answer_pam_query
  <1> HIDE DEF q
  <1>8. QueryEffect(x, z)
    BY <1>6 DEF QueryEffect, Frame, Shape, MonFields, ChildFields, Ok
  <1> HIDE DEF z
  <1>9. QueryEffect(x, v)
    BY <1>8 DEF QueryEffect, Frame, monitor_permit, Shape, MonFields, ChildFields, Ok
  <1> HIDE DEF v
  <1>10. QueryEffect(x, u)
    BY <1>9 DEF QueryEffect, Frame, Answer, Shape, MonFields, ChildFields, Ok
  <1> HIDE DEF u
  <1>11. QueryEffect(x, a)
    BY <1>1, <1>6, <1>7, <1>10, FatalStopped
  <1>12. ASSUME NEW p, Keeps(a, p), Ok(x), Ok(p) => Ok(a)
         PROVE  QueryEffect(x, p)
    BY <1>11, <1>12 DEF Keeps, QueryEffect, Frame
  <1>13. Shape(a)
    BY <1>11 DEF QueryEffect, Frame
  <1> HIDE DEF a
  <1> QED  BY <1>1, <1>12, <1>13, MonitorRead DEF mm_sshpam_query, a

RespondEffect(x, z) ==
    /\ Quiet(x, z)
    /\ Ok(z) => /\ z.res = 0 => x.m.pam = "done"
                /\ z.res = 1 => x.m.pam = "talking"

LEMMA RespondRequest ==
    ASSUME NEW x, NEW n, Shape(x)
    PROVE  RespondEffect(x, mm_sshpam_respond(x, n))
  <1> DEFINE d == sshpam_respond(x, n)
             y == [x EXCEPT !.m.authok = d = 0, !.m.method = "keyboard-interactive",
                            !.m.sub = "pam", !.res = d, !.ret = FALSE]
             r == mm_answer_pam_respond(x, n)
  <1>1. (d = 0 => x.m.pam = "done") /\ (d = 1 => x.m.pam = "talking")
    BY DEF sshpam_respond
  <1>2. r = Fatal(x, "no context") \/ r = y
    BY DEF mm_answer_pam_respond
  <1> HIDE DEF d
  <1>3. Quiet(x, y) /\ y.res = d
    BY DEF Quiet, Frame, Shape, MonFields, ChildFields, Ok
  <1> HIDE DEF y
  <1>4. ASSUME NEW q, Stopped(x, q)
        PROVE  RespondEffect(x, q)
    BY <1>4 DEF Stopped, Keeps, RespondEffect, Quiet, Frame
  <1>5. RespondEffect(x, y)
    BY <1>1, <1>3 DEF RespondEffect
  <1>6. RespondEffect(x, r)
    BY <1>2, <1>4, <1>5, FatalStopped
  <1>7. ASSUME NEW q, Keeps(r, q), Ok(x), Ok(q) => Ok(r)
        PROVE  RespondEffect(x, q)
    BY <1>6, <1>7 DEF Keeps, RespondEffect, Quiet, Frame
  <1>8. Shape(r)
    BY <1>6 DEF RespondEffect, Quiet, Frame
  <1> HIDE DEF r
  <1> QED  BY <1>4, <1>7, <1>8, MonitorRead DEF mm_sshpam_respond, r

FreeEffect(x, z) ==
    /\ Frame(x, z)
    /\ z.h = x.h /\ z.m.forced = x.m.forced
    /\ Ok(z) => z.m.pam = "none"

LEMMA FreeRequest ==
    ASSUME NEW x, Shape(x)
    PROVE  FreeEffect(x, mm_sshpam_free_ctx(x))
  <1> DEFINE y == [x EXCEPT !.ret = x.m.authok, !.ans = TRUE, !.m.pam = "none", !.m.authok = FALSE,
                            !.m.method = "keyboard-interactive", !.m.sub = "pam"]
             w == monitor_permit(y, {"PAM_INIT_CTX"})
             r == mm_answer_pam_free_ctx(x)
  <1>1. r = Fatal(x, "no context") \/ r = w
    BY DEF mm_answer_pam_free_ctx
  <1>2. FreeEffect(x, y) /\ y.m.pam = "none"
    BY DEF FreeEffect, Frame, Shape, MonFields, ChildFields, Ok
  <1> HIDE DEF y
  <1>3. FreeEffect(x, w)
    BY <1>2 DEF FreeEffect, Frame, monitor_permit, Shape, MonFields, ChildFields, Ok
  <1> HIDE DEF w
  <1>4. ASSUME NEW q, Stopped(x, q)
        PROVE  FreeEffect(x, q)
    BY <1>4 DEF Stopped, Keeps, FreeEffect, Frame
  <1>5. FreeEffect(x, r)
    BY <1>1, <1>3, <1>4, FatalStopped
  <1>6. ASSUME NEW q, Keeps(r, q), Ok(x), Ok(q) => Ok(r)
        PROVE  FreeEffect(x, q)
    BY <1>5, <1>6 DEF Keeps, FreeEffect, Frame
  <1>7. Shape(r)
    BY <1>5 DEF FreeEffect, Frame
  <1> HIDE DEF r
  <1> QED  BY <1>4, <1>6, <1>7, MonitorRead DEF mm_sshpam_free_ctx, r

AccountEffect(x, z) ==
    /\ Frame(x, z)
    /\ z.h = x.h /\ z.m.forced = x.m.forced
    /\ Ok(z) /\ z.ans => z.m.account = "ok"

LEMMA AccountRequest ==
    ASSUME NEW x, NEW acct, Shape(x)
    PROVE  AccountEffect(x, mm_do_pam_account(x, acct))
  <1> DEFINE y == do_pam_account(x, acct)
             ok == y.m.account = "ok"
             w == [y EXCEPT !.ans = ok, !.ret = ok]
             r == mm_answer_pam_account(x, acct)
  <1>1. r = Fatal(x, "PAM not enabled") \/ r = w
    BY DEF mm_answer_pam_account
  <1>2. Frame(x, y) /\ y.h = x.h /\ y.m.forced = x.m.forced
    BY DEF do_pam_account, Frame, Shape, MonFields, ChildFields, Ok
  <1> HIDE DEF y
  <1>3. AccountEffect(x, w)
    BY <1>2 DEF AccountEffect, Frame, Shape, Ok
  <1> HIDE DEF w
  <1>4. ASSUME NEW q, Stopped(x, q)
        PROVE  AccountEffect(x, q)
    BY <1>4 DEF Stopped, Keeps, AccountEffect, Frame
  <1>5. AccountEffect(x, r)
    BY <1>1, <1>3, <1>4, FatalStopped
  <1>6. ASSUME NEW q, Keeps(r, q), Ok(x), Ok(q) => Ok(r)
        PROVE  AccountEffect(x, q)
    BY <1>5, <1>6 DEF Keeps, AccountEffect, Frame
  <1>7. Shape(r)
    BY <1>5 DEF AccountEffect, Frame
  <1> HIDE DEF r
  <1> QED  BY <1>4, <1>6, <1>7, MonitorRead DEF mm_do_pam_account, r

----------------------------------------------------------------------------
(* The lists of AuthenticationMethods: what the child has removed from one *)
(* was proved, entry by entry, by the first n factors.                     *)

KeyNames == {""} \cup ClientKeys \cup ClientHostKeys
Factors == [m : Methods, key : KeyNames]
Stands(np, method, entry) == method = entry \/ (np /\ {method, entry} \subseteq PasswordNames)

Embeds(np, list, k, proved, used, n) ==
    \E f \in [1..k -> 1..n] :
        \A a, b \in 1..k :
            /\ Stands(np, proved[f[a]].m, list[a].m)
            /\ a < b => f[a] < f[b]
            /\ a # b /\ list[a].m = "publickey" /\ list[b].m = "publickey"
                 => proved[f[a]].key # proved[f[b]].key
            /\ list[a].m = "publickey" => proved[f[a]].key \in used

Suffix(l, s, k) ==
    /\ l \in Seq(Entries) /\ k \in 0..Len(s) /\ Len(l) = Len(s) - k
    /\ \A j \in 1..Len(l) : l[j] = s[k + j]

Matched(o, lists, proved, used, n) ==
    /\ DOMAIN lists \subseteq DOMAIN o.lists
    /\ \A i \in DOMAIN lists : \E k \in Nat :
         Suffix(lists[i], o.lists[i], k) /\ Embeds(o.no_password, o.lists[i], k, proved, used, n)

\* More factors, and more used keys, do no harm.
LEMMA EmbedsMore ==
    ASSUME NEW np, NEW list, NEW k \in Nat, NEW proved \in Seq(Factors), NEW q \in Seq(Factors),
           NEW used, NEW more, NEW n \in Nat, NEW n2 \in Nat,
           used \subseteq more, n <= n2, n <= Len(proved), n <= Len(q),
           \A i \in 1..n : q[i] = proved[i],
           Embeds(np, list, k, proved, used, n)
    PROVE  Embeds(np, list, k, q, more, n2)
  <1> PICK f \in [1..k -> 1..n] :
        \A a, b \in 1..k :
            /\ Stands(np, proved[f[a]].m, list[a].m)
            /\ a < b => f[a] < f[b]
            /\ a # b /\ list[a].m = "publickey" /\ list[b].m = "publickey"
                 => proved[f[a]].key # proved[f[b]].key
            /\ list[a].m = "publickey" => proved[f[a]].key \in used
    BY DEF Embeds
  <1>1. f \in [1..k -> 1..n2]
    OBVIOUS
  <1>2. \A a \in 1..k : q[f[a]] = proved[f[a]]
    OBVIOUS
  <1>3. \A a, b \in 1..k :
            /\ Stands(np, q[f[a]].m, list[a].m)
            /\ a < b => f[a] < f[b]
            /\ a # b /\ list[a].m = "publickey" /\ list[b].m = "publickey"
                 => q[f[a]].key # q[f[b]].key
            /\ list[a].m = "publickey" => q[f[a]].key \in more
    BY <1>2
  <1> QED  BY <1>1, <1>3 DEF Embeds

\* The last factor stands for the next entry of the list.
LEMMA EmbedsNext ==
    ASSUME NEW np, NEW list, NEW k \in Nat, NEW proved \in Seq(Factors), NEW used, NEW more,
           Len(proved) > 0, Embeds(np, list, k, proved, used, Len(proved) - 1),
           Stands(np, proved[Len(proved)].m, list[k + 1].m),
           used \subseteq more,
           list[k + 1].m = "publickey" =>
             proved[Len(proved)].key \in more /\ proved[Len(proved)].key \notin used
    PROVE  Embeds(np, list, k + 1, proved, more, Len(proved))
  <1> DEFINE L == Len(proved)
  <1> PICK f \in [1..k -> 1..(L - 1)] :
        \A a, b \in 1..k :
            /\ Stands(np, proved[f[a]].m, list[a].m)
            /\ a < b => f[a] < f[b]
            /\ a # b /\ list[a].m = "publickey" /\ list[b].m = "publickey"
                 => proved[f[a]].key # proved[f[b]].key
            /\ list[a].m = "publickey" => proved[f[a]].key \in used
    BY DEF Embeds
  <1> DEFINE g == [a \in 1..(k + 1) |-> IF a = k + 1 THEN L ELSE f[a]]
  <1>1. L \in Nat /\ L > 0
    OBVIOUS
  <1>2. g[k + 1] = L /\ \A a \in 1..k : g[a] = f[a] /\ f[a] \in 1..(L - 1)
    OBVIOUS
  <1>3. g \in [1..(k + 1) -> 1..L]
    BY <1>1, <1>2
  <1> HIDE DEF g, L
  <1>4. ASSUME NEW a \in 1..(k + 1), NEW b \in 1..(k + 1)
        PROVE  /\ Stands(np, proved[g[a]].m, list[a].m)
               /\ a < b => g[a] < g[b]
               /\ a # b /\ list[a].m = "publickey" /\ list[b].m = "publickey"
                    => proved[g[a]].key # proved[g[b]].key
               /\ list[a].m = "publickey" => proved[g[a]].key \in more
    <2>1. CASE a = k + 1
      BY <1>1, <1>2, <2>1 DEF L
    <2>2. CASE a \in 1..k /\ b = k + 1
      BY <1>1, <1>2, <2>2 DEF L
    <2>3. CASE a \in 1..k /\ b \in 1..k
      BY <1>1, <1>2, <2>3
    <2> QED  BY <2>1, <2>2, <2>3
  <1> QED  BY <1>3, <1>4 DEF Embeds, L

LEMMA MatchedMore ==
    ASSUME NEW o, NEW lists, NEW proved \in Seq(Factors), NEW q \in Seq(Factors), NEW used, NEW more,
           NEW n \in Nat, NEW n2 \in Nat, used \subseteq more, n <= n2, n <= Len(proved), n <= Len(q),
           \A i \in 1..n : q[i] = proved[i],
           Matched(o, lists, proved, used, n)
    PROVE  Matched(o, lists, q, more, n2)
  <1>1. ASSUME NEW i \in DOMAIN lists
        PROVE  \E k \in Nat : /\ Suffix(lists[i], o.lists[i], k)
                              /\ Embeds(o.no_password, o.lists[i], k, q, more, n2)
    <2>1. PICK k \in Nat : /\ Suffix(lists[i], o.lists[i], k)
                           /\ Embeds(o.no_password, o.lists[i], k, proved, used, n)
      BY DEF Matched
    <2>2. Embeds(o.no_password, o.lists[i], k, q, more, n2)
      BY <2>1, EmbedsMore
    <2> QED  BY <2>1, <2>2
  <1> QED  BY <1>1 DEF Matched

\* Another factor that no entry needs yet.
LEMMA MatchedAppend ==
    ASSUME NEW o, NEW lists, NEW proved \in Seq(Factors), NEW used, NEW e \in Factors,
           NEW n \in Nat, n <= Len(proved), Matched(o, lists, proved, used, n)
    PROVE  /\ Append(proved, e) \in Seq(Factors)
           /\ Len(Append(proved, e)) = Len(proved) + 1
           /\ Append(proved, e)[Len(proved) + 1] = e
           /\ Matched(o, lists, Append(proved, e), used, Len(proved))
           /\ Matched(o, lists, Append(proved, e), used, Len(proved) + 1)
  <1> DEFINE q == Append(proved, e)
  <1>1. /\ q \in Seq(Factors) /\ Len(q) = Len(proved) + 1 /\ q[Len(proved) + 1] = e
        /\ \A i \in 1..n : q[i] = proved[i]
    OBVIOUS
  <1> HIDE DEF q
  <1>2. Matched(o, lists, q, used, Len(proved)) /\ Matched(o, lists, q, used, Len(proved) + 1)
    BY <1>1, MatchedMore
  <1> QED  BY <1>1, <1>2 DEF q

\* The lists that the child starts with.
LEMMA MatchedSetup ==
    ASSUME options \in Config, NEW proved, NEW used, NEW n \in Nat
    PROVE  Matched(options, auth2_setup_methods_lists, proved, used, n)
  <1> DEFINE lists == auth2_setup_methods_lists
  <1>1. /\ DOMAIN lists \subseteq DOMAIN options.lists
        /\ \A i \in DOMAIN lists : lists[i] = options.lists[i]
    BY DEF auth2_setup_methods_lists
  <1>2. ASSUME NEW i \in DOMAIN options.lists
        PROVE  /\ Suffix(options.lists[i], options.lists[i], 0)
               /\ Embeds(options.no_password, options.lists[i], 0, proved, used, n)
    <2>1. options.lists[i] \in Seq(Entries)
      BY DEF Config
    <2>2. Suffix(options.lists[i], options.lists[i], 0)
      BY <2>1 DEF Suffix
    <2>3. \A a \in 1..0 : FALSE
      OBVIOUS
    <2>4. [a \in 1..0 |-> 1] \in [1..0 -> 1..n]
      BY <2>3
    <2>5. Embeds(options.no_password, options.lists[i], 0, proved, used, n)
      BY <2>3, <2>4, Zenon DEF Embeds
    <2> QED  BY <2>2, <2>5
  <1> HIDE DEF lists
  <1> QED  BY <1>1, <1>2 DEF Matched, lists

LEMMA MatchedNone ==
    ASSUME NEW o, NEW proved, NEW used, NEW n
    PROVE  Matched(o, NoLists, proved, used, n)
  BY DEF Matched, NoLists

\* The last factor is taken off the lists that begin with its method.
Proves(proved, method, used, more) ==
    /\ Len(proved) > 0 /\ used \subseteq more
    /\ Stands(options.no_password, proved[Len(proved)].m, method)
    /\ method = "publickey" => proved[Len(proved)].key \in more /\ proved[Len(proved)].key \notin used
Completed(o, proved, used) ==
    \E i \in DOMAIN o.lists :
        Embeds(o.no_password, o.lists[i], Len(o.lists[i]), proved, used, Len(proved))

LEMMA MatchedUpdate ==
    ASSUME options \in Config, NEW lists, NEW proved \in Seq(Factors), NEW used, NEW more,
           NEW method, NEW sub,
           Matched(options, lists, proved, used, Len(proved) - 1),
           Proves(proved, method, used, more)
    PROVE  LET up == auth2_update_methods_lists(lists, method, sub)
           IN  /\ Matched(options, up.lists, proved, more, Len(proved))
               /\ up.done => Completed(options, proved, more)
  <1> DEFINE up == auth2_update_methods_lists(lists, method, sub)
             np == options.no_password
             L == Len(proved)
  <1>1. ASSUME NEW i \in DOMAIN lists, NEW k \in Nat,
               Suffix(lists[i], options.lists[i], k), Embeds(np, options.lists[i], k, proved, used, L - 1),
               Removable(lists[i], method, sub)
        PROVE  /\ Suffix(Tail(lists[i]), options.lists[i], k + 1)
               /\ Embeds(np, options.lists[i], k + 1, proved, more, L)
    <2>1. lists[i] \in Seq(Entries) /\ lists[i] # <<>> /\ lists[i][1].m = method
      BY <1>1 DEF Removable, list_starts_with, Suffix
    <2>2. options.lists[i] \in Seq(Entries)
      BY DEF Config, Matched
    <2>3. Suffix(Tail(lists[i]), options.lists[i], k + 1)
      BY <1>1, <2>1, <2>2 DEF Suffix
    <2>4. options.lists[i][k + 1].m = method
      BY <1>1, <2>1 DEF Suffix
    <2>5. Embeds(np, options.lists[i], k + 1, proved, more, L)
      BY <1>1, <2>4, EmbedsNext DEF Proves
    <2> QED  BY <2>3, <2>5
  <1>2. ASSUME NEW i \in DOMAIN lists, NEW k \in Nat,
               Suffix(lists[i], options.lists[i], k), Embeds(np, options.lists[i], k, proved, used, L - 1)
        PROVE  Embeds(np, options.lists[i], k, proved, more, L)
    BY <1>2, EmbedsMore DEF Proves
  <1> DEFINE hit == {i \in DOMAIN lists : Removable(lists[i], method, sub)}
             full == {i \in hit : Len(lists[i]) = 1}
             Upto(i) == \A j \in full : i <= j
             new == [i \in DOMAIN lists |-> IF i \in hit /\ Upto(i) THEN Tail(lists[i]) ELSE lists[i]]
  <1>3. up.lists = new /\ up.done = (full # {})
    BY DEF auth2_update_methods_lists
  <1>4. ASSUME NEW i \in DOMAIN lists
        PROVE  \E k \in Nat : Suffix(new[i], options.lists[i], k) /\ Embeds(np, options.lists[i], k, proved, more, L)
    <2>1. PICK k \in Nat : Suffix(lists[i], options.lists[i], k) /\ Embeds(np, options.lists[i], k, proved, used, L - 1)
      BY DEF Matched
    <2>2. new[i] = lists[i] \/ (Removable(lists[i], method, sub) /\ new[i] = Tail(lists[i]))
      OBVIOUS
    <2> QED  BY <1>1, <1>2, <2>1, <2>2
  <1>5. DOMAIN new = DOMAIN lists
    OBVIOUS
  <1>6. Matched(options, new, proved, more, L)
    <2> HIDE DEF new
    <2> QED  BY <1>4, <1>5 DEF Matched
  <1>7. ASSUME full # {}
        PROVE  Completed(options, proved, more)
    <2>1. PICK i \in DOMAIN lists : Removable(lists[i], method, sub) /\ Len(lists[i]) = 1
      BY <1>7
    <2>2. PICK k \in Nat : Suffix(lists[i], options.lists[i], k) /\ Embeds(np, options.lists[i], k, proved, used, L - 1)
      BY DEF Matched
    <2>3. i \in DOMAIN options.lists /\ options.lists[i] \in Seq(Entries)
      BY DEF Config, Matched
    <2>4. k + 1 = Len(options.lists[i])
      BY <2>1, <2>2, <2>3 DEF Suffix
    <2> QED  BY <1>1, <2>1, <2>2, <2>3, <2>4 DEF Completed
  <1> QED  BY <1>3, <1>6, <1>7

----------------------------------------------------------------------------
(* The invariant, as predicates of the configuration o, the monitor m, the *)
(* child c and the history h.                                              *)

\* While the connection is up and the user is not logged in.  A PAM context that is
\* done stands for the last factor, which the child has not taken off its lists yet.
Counted(m, h) == IF m.pam = "done" THEN Len(h.proved) - 1 ELSE Len(h.proved)
Consistent(o, m, c, h) ==
    /\ h.proved \in Seq(Factors)
    /\ m.pam = "done" => /\ Len(h.proved) > 0
                         /\ h.proved[Len(h.proved)].m = "keyboard-interactive"
                         /\ ~(o.root /\ o.root_login # "yes")
    /\ m.forced => o.keys \cap o.forced # {}
    /\ m.pam # "none" => c.kbdint
    /\ c.forced => m.forced
    /\ c.valid => o.valid /\ c.service
    /\ c.failures \in Nat
Listed(o, m, c, h) == Matched(o, c.lists, h.proved, c.used, Counted(m, h))

\* What the client has done when the child says SUCCESS.
RootAllowed(o, m, h) ==
    LET last == h.proved[Len(h.proved)]
    IN  \/ o.root_login = "yes"
        \/ o.root_login = "prohibit-password" /\ last.m \in {"publickey", "hostbased"}
        \/ /\ o.root_login = "forced-commands-only"
           /\ \/ last.m = "publickey" /\ last.key \in o.forced
              \/ last.m = "hostbased" /\ m.forced /\ o.keys \cap o.forced # {}
Won(o, m, c, h) ==
    /\ o.valid /\ c.service
    /\ h.proved \in Seq(Factors) /\ Len(h.proved) > 0
    /\ o.lists # <<>> => Completed(o, h.proved, c.used)
    /\ o.root => RootAllowed(o, m, h)
    /\ o.use_pam => m.account = "ok"

\* The same of a context: before the answer to the client, and after it.
Limited(x) == x.h.guesses \in Nat /\ x.h.guesses <= options.max_authtries
Open(x) == Shape(x) /\ Limited(x) /\ x.m.phase # "postauth" /\ x.c.success = FALSE
Good(x) ==
    /\ Open(x)
    /\ Ok(x) => /\ Consistent(options, x.m, x.c, x.h)
                /\ Listed(options, x.m, x.c, x.h)
                /\ x.h.guesses <= x.c.failures
Final(x) ==
    /\ Shape(x) /\ Limited(x) /\ x.m.phase # "postauth"
    /\ x.c.success \in BOOLEAN
    /\ x.c.success => Won(options, x.m, x.c, x.h)
    /\ Ok(x) /\ ~x.c.success => /\ Consistent(options, x.m, x.c, x.h)
                                /\ Listed(options, x.m, x.c, x.h)
                                /\ x.h.guesses <= x.c.failures

\* What the conversation with PAM leaves alone in the child.
SameChild(c, d) ==
    /\ d.failures = c.failures /\ d.valid = c.valid /\ d.service = c.service
    /\ d.lists = c.lists /\ d.used = c.used /\ d.forced = c.forced /\ d.success = c.success
Within(x, y) ==
    /\ Shape(y) /\ SameChild(x.c, y.c)
    /\ x.m.phase # "postauth" => y.m.phase # "postauth"
    /\ y.m.forced = x.m.forced /\ y.h.guesses = x.h.guesses
    /\ Ok(y) => Ok(x)

LEMMA QuietWithin ==
    ASSUME NEW x, NEW y, Quiet(x, y)
    PROVE  Within(x, y)
  BY DEF Quiet, Frame, Within, SameChild

LEMMA QuietGood ==
    ASSUME NEW x, NEW y, Good(x), Quiet(x, y)
    PROVE  Good(y)
  BY DEF Good, Quiet, Frame, Open, Limited, Consistent, Listed, Counted

LEMMA FatalGood ==
    ASSUME NEW x, NEW why, Open(x), why # "none"
    PROVE  Good(Fatal(x, why)) /\ ~Ok(Fatal(x, why))
  BY FatalKeeps DEF Good, Open, Limited, Keeps

----------------------------------------------------------------------------
(* The conversation with PAM.                                              *)

StopEffect(x, y) ==
    /\ Within(x, y) /\ y.h = x.h /\ y.c.postponed = x.c.postponed
    /\ Ok(y) /\ (x.m.pam # "none" => x.c.kbdint) => y.m.pam = "none"

LEMMA StopLemma ==
    ASSUME NEW x, Shape(x)
    PROVE  StopEffect(x, auth2_challenge_stop(x))
  <1> DEFINE w == mm_sshpam_free_ctx(x)
             y == [w EXCEPT !.c.kbdint = FALSE]
  <1>1. CASE x.c.kbdint
    <2>1. FreeEffect(x, w)
      BY FreeRequest
    <2> HIDE DEF w
    <2>2. /\ Shape(y) /\ SameChild(w.c, y.c) /\ y.m = w.m /\ y.h = w.h /\ y.err = w.err
          /\ y.c.postponed = w.c.postponed
      BY <2>1 DEF FreeEffect, Frame, Shape, ChildFields, SameChild
    <2> HIDE DEF y
    <2>3. StopEffect(x, y)
      BY <2>1, <2>2 DEF StopEffect, FreeEffect, Frame, Within, SameChild, Ok
    <2> QED  BY <1>1, <2>3 DEF auth2_challenge_stop, w, y
  <1>2. CASE ~x.c.kbdint
    BY <1>2 DEF auth2_challenge_stop, StopEffect, Within, SameChild
  <1> QED  BY <1>1, <1>2

\* When the context is freed, every factor may be counted.
LEMMA CountAll ==
    ASSUME NEW o, NEW lists, NEW used, NEW m, NEW h, h.proved \in Seq(Factors),
           m.pam = "done" => Len(h.proved) > 0,
           Matched(o, lists, h.proved, used, Counted(m, h))
    PROVE  Matched(o, lists, h.proved, used, Len(h.proved))
  <1>1. Counted(m, h) \in Nat /\ Counted(m, h) <= Len(h.proved) /\ Len(h.proved) \in Nat
    BY DEF Counted
  <1> QED  BY <1>1, MatchedMore

LEMMA StopGood ==
    ASSUME NEW x, Good(x)
    PROVE  /\ Good(auth2_challenge_stop(x))
           /\ StopEffect(x, auth2_challenge_stop(x))
           /\ Ok(auth2_challenge_stop(x)) => auth2_challenge_stop(x).m.pam = "none"
  <1> DEFINE y == auth2_challenge_stop(x)
  <1>1. StopEffect(x, y)
    BY StopLemma DEF Good, Open
  <1> HIDE DEF y
  <1>2. Open(y)
    BY <1>1 DEF StopEffect, Good, Open, Limited, Within, SameChild
  <1>3. ASSUME Ok(y)
        PROVE  /\ Consistent(options, y.m, y.c, y.h) /\ Listed(options, y.m, y.c, y.h)
               /\ y.h.guesses <= y.c.failures /\ y.m.pam = "none"
    <2>1. /\ Ok(x) /\ Consistent(options, x.m, x.c, x.h) /\ Listed(options, x.m, x.c, x.h)
          /\ x.h.guesses <= x.c.failures
      BY <1>1, <1>3 DEF StopEffect, Within, Good
    <2>2. y.m.pam = "none"
      BY <1>1, <1>3, <2>1 DEF StopEffect, Consistent
    <2>3. Matched(options, x.c.lists, x.h.proved, x.c.used, Len(x.h.proved))
      BY <2>1, CountAll DEF Consistent, Listed
    <2>4. Listed(options, y.m, y.c, y.h)
      BY <1>1, <2>2, <2>3 DEF Listed, Counted, StopEffect, Within, SameChild
    <2>5. Consistent(options, y.m, y.c, y.h) /\ y.h.guesses <= y.c.failures
      BY <1>1, <2>1, <2>2 DEF Consistent, StopEffect, Within, SameChild
    <2> QED  BY <2>2, <2>4, <2>5
  <1> QED  BY <1>1, <1>2, <1>3 DEF Good, y

\* A part of the conversation that begins with a context that is not done: PAM may
\* succeed in it, and then the client has proved a factor.
Talked(x, y) ==
    /\ Within(x, y)
    /\ Ok(y) => /\ y.m.pam # "none" => y.c.kbdint
                /\ \/ y.m.pam # "done" /\ y.h.proved = x.h.proved
                   \/ y.h.proved = Append(x.h.proved, Interactive) /\ ~RootRestricted

LEMMA TalkedGood ==
    ASSUME NEW x, NEW y, Good(x), x.m.pam # "done", Talked(x, y)
    PROVE  Good(y)
  <1>1. Open(y)
    BY DEF Talked, Good, Open, Limited, Within, SameChild
  <1>2. ASSUME Ok(y)
        PROVE  /\ Consistent(options, y.m, y.c, y.h) /\ Listed(options, y.m, y.c, y.h)
               /\ y.h.guesses <= y.c.failures
    <2>1. /\ Ok(x) /\ Consistent(options, x.m, x.c, x.h)
          /\ Matched(options, x.c.lists, x.h.proved, x.c.used, Len(x.h.proved))
          /\ x.h.guesses <= x.c.failures
      BY <1>2 DEF Talked, Within, Good, Listed, Counted
    <2>2. x.h.proved \in Seq(Factors) /\ Len(x.h.proved) \in Nat
      BY <2>1 DEF Consistent
    <2>3. Interactive \in Factors
      BY DEF Interactive, Factors, KeyNames, Methods
    <2>4. y.h.guesses <= y.c.failures
      BY <2>1 DEF Talked, Within, SameChild
    <2>5. CASE y.m.pam # "done" /\ y.h.proved = x.h.proved
      BY <1>2, <2>1, <2>4, <2>5 DEF Talked, Within, SameChild, Consistent, Listed, Counted
    <2>6. CASE y.h.proved = Append(x.h.proved, Interactive) /\ ~RootRestricted
      <3>1. /\ y.h.proved \in Seq(Factors) /\ Len(y.h.proved) = Len(x.h.proved) + 1
            /\ y.h.proved[Len(y.h.proved)] = Interactive
            /\ Matched(options, x.c.lists, y.h.proved, x.c.used, Len(x.h.proved))
            /\ Matched(options, x.c.lists, y.h.proved, x.c.used, Len(x.h.proved) + 1)
        <4> DEFINE p == x.h.proved
        <4>1. /\ p \in Seq(Factors) /\ Len(p) \in Nat
              /\ Matched(options, x.c.lists, p, x.c.used, Len(p))
          BY <2>1, <2>2
        <4> HIDE DEF p
        <4>2. /\ Append(p, Interactive) \in Seq(Factors)
              /\ Len(Append(p, Interactive)) = Len(p) + 1
              /\ Append(p, Interactive)[Len(p) + 1] = Interactive
              /\ Matched(options, x.c.lists, Append(p, Interactive), x.c.used, Len(p))
              /\ Matched(options, x.c.lists, Append(p, Interactive), x.c.used, Len(p) + 1)
          BY <2>3, <4>1, MatchedAppend
        <4> QED  BY <2>6, <4>2 DEF p
      <3>2. Consistent(options, y.m, y.c, y.h)
        <4>1. Interactive.m = "keyboard-interactive"
          BY DEF Interactive
        <4>2. Len(y.h.proved) > 0
          BY <2>2, <3>1
        <4> QED  BY <1>2, <2>1, <2>6, <3>1, <4>1, <4>2
                 DEF Talked, Within, SameChild, Consistent, RootRestricted
      <3>3. Counted(y.m, y.h) = Len(x.h.proved) \/ Counted(y.m, y.h) = Len(x.h.proved) + 1
        BY <2>2, <3>1 DEF Counted
      <3>4. Listed(options, y.m, y.c, y.h)
        BY <3>1, <3>3 DEF Talked, Within, SameChild, Listed
      <3> QED  BY <2>4, <3>2, <3>4
    <2> QED  BY <1>2, <2>5, <2>6 DEF Talked
  <1> QED  BY <1>1, <1>2 DEF Good

\* A query, and the end of the conversation when it asks the client nothing.
LEMMA AskLemma ==
    ASSUME NEW x, NEW r, Shape(x), x.m.pam = "talking", x.c.kbdint
    PROVE  Talked(x, StopUnlessAsked(send_userauth_info_request(x, r)))
  <1> DEFINE q == mm_sshpam_query(x, r)
             i == [q EXCEPT !.c.nreq = IF r = "prompt" THEN 1 ELSE 0, !.c.postponed = TRUE]
             y == send_userauth_info_request(x, r)
             z == StopUnlessAsked(y)
  <1>1. QueryEffect(x, q)
    BY QueryRequest
  <1>2. y = i \/ y = q
    BY DEF send_userauth_info_request, InfoRequest
  <1> HIDE DEF q
  <1>3. /\ Shape(i) /\ SameChild(q.c, i.c) /\ i.c.kbdint = q.c.kbdint /\ i.m = q.m /\ i.h = q.h
        /\ i.err = q.err
    BY <1>1 DEF QueryEffect, Frame, Shape, ChildFields, SameChild
  <1> HIDE DEF i
  <1>4. /\ Within(x, y) /\ y.c.kbdint
        /\ \/ y.m.pam # "done" /\ y.h.proved = x.h.proved
           \/ y.m.pam = "done" /\ y.h.proved = Append(x.h.proved, Interactive) /\ ~RootRestricted
    BY <1>1, <1>2, <1>3 DEF QueryEffect, Frame, Within, SameChild, Ok
  <1> HIDE DEF y
  <1>5. z = y \/ z = auth2_challenge_stop(y)
    BY DEF StopUnlessAsked
  <1>6. StopEffect(y, auth2_challenge_stop(y))
    BY <1>4, StopLemma DEF Within
  <1>7. Talked(x, y)
    BY <1>4 DEF Talked
  <1>8. Talked(x, auth2_challenge_stop(y))
    BY <1>4, <1>6 DEF Talked, StopEffect, Within, SameChild
  <1> QED  BY <1>5, <1>7, <1>8 DEF y

LEMMA ChallengeLemma ==
    ASSUME NEW x, NEW r, Shape(x), x.m.pam = "none"
    PROVE  Talked(x, auth2_challenge(x, r))
  <1> DEFINE y == mm_sshpam_init_ctx(x)
             k == [y EXCEPT !.c.kbdint = TRUE]
             z == StopUnlessAsked(send_userauth_info_request(k, r))
             a == auth2_challenge(x, r)
  <1>1. InitEffect(x, y)
    BY InitRequest
  <1>2. a = x \/ (a = y /\ (~Ok(y) \/ ~y.ans)) \/ (a = z /\ Ok(y) /\ y.ans)
    BY DEF auth2_challenge, ContextMade
  <1> HIDE DEF y
  <1>3. Talked(x, x)
    BY DEF Talked, Within, SameChild
  <1>4. Talked(x, y) \/ (Ok(y) /\ y.ans)
    BY <1>1 DEF InitEffect, Frame, Talked, Within, SameChild
  <1>5. ASSUME Ok(y), y.ans
        PROVE  Talked(x, z)
    <2>1. /\ Shape(k) /\ SameChild(y.c, k.c) /\ k.c.kbdint /\ k.m = y.m /\ k.h = y.h /\ k.err = y.err
      BY <1>1 DEF InitEffect, Frame, Shape, ChildFields, SameChild
    <2> HIDE DEF k
    <2>2. k.m.pam = "talking" /\ Within(x, k) /\ k.h = x.h
      BY <1>1, <1>5, <2>1 DEF InitEffect, Frame, Within, SameChild, Ok
    <2>3. Talked(k, z)
      BY <2>1, <2>2, AskLemma
    <2> HIDE DEF z
    <2> QED  BY <2>2, <2>3 DEF Talked, Within, SameChild
  <1> QED  BY <1>2, <1>3, <1>4, <1>5

----------------------------------------------------------------------------
(* The methods.                                                            *)

\* The result of a method: when it says that the client is authenticated, the last
\* factor proves its method, and is not counted yet.  A wrong password is counted
\* before the failure is.
Ready(x, method) ==
    /\ x.m.pam # "done"
    /\ method \notin {"publickey", "hostbased"} => ~RootRestricted
    /\ method = "publickey" /\ x.m.forced => x.h.proved[Len(x.h.proved)].key \in options.forced
    /\ \E U : /\ Matched(options, x.c.lists, x.h.proved, U, Len(x.h.proved) - 1)
              /\ Proves(x.h.proved, method, U, x.c.used)
Tried(x, method) ==
    /\ Open(x)
    /\ Ok(x) => /\ Consistent(options, x.m, x.c, x.h)
                /\ ~x.ans => Listed(options, x.m, x.c, x.h)
                /\ x.ans => Ready(x, method)
                /\ \/ x.h.guesses <= x.c.failures
                   \/ /\ x.h.guesses <= x.c.failures + 1
                      /\ ~x.ans /\ ~x.c.postponed /\ method = "password"

LEMMA ResultLemma ==
    ASSUME NEW x, NEW method, Good(x)
    PROVE  Tried(Result(x, FALSE), method)
  <1> DEFINE y == Result(x, FALSE)
  <1>1. Shape(y) /\ y.m = x.m /\ y.c = x.c /\ y.h = x.h /\ y.err = x.err /\ y.ans = FALSE
    BY DEF Result, Good, Open, Shape
  <1> HIDE DEF y
  <1>2. Tried(y, method)
    BY <1>1 DEF Tried, Good, Open, Limited, Ok
  <1> QED  BY <1>2 DEF y

\* A factor is appended to the ones the child has counted.
LEMMA Factor ==
    ASSUME NEW x, NEW y, NEW e \in Factors, Consistent(options, x.m, x.c, x.h),
           Listed(options, x.m, x.c, x.h), x.m.pam # "done",
           y.h.proved = Append(x.h.proved, e), y.c.lists = x.c.lists
    PROVE  /\ y.h.proved \in Seq(Factors) /\ Len(y.h.proved) > 0
           /\ y.h.proved[Len(y.h.proved)] = e
           /\ Matched(options, y.c.lists, y.h.proved, x.c.used, Len(y.h.proved) - 1)
           /\ Matched(options, y.c.lists, y.h.proved, x.c.used, Len(y.h.proved))
  <1> DEFINE p == x.h.proved
             q == Append(p, e)
  <1>1. /\ p \in Seq(Factors) /\ Len(p) \in Nat
        /\ Matched(options, x.c.lists, p, x.c.used, Len(p))
    BY DEF Consistent, Listed, Counted
  <1> HIDE DEF p
  <1>2. /\ q \in Seq(Factors) /\ Len(q) = Len(p) + 1 /\ q[Len(p) + 1] = e
        /\ Matched(options, x.c.lists, q, x.c.used, Len(p))
        /\ Matched(options, x.c.lists, q, x.c.used, Len(p) + 1)
    BY <1>1, MatchedAppend
  <1>3. y.h.proved = q
    BY DEF p
  <1> HIDE DEF q
  <1>4. Len(q) > 0 /\ Len(q) - 1 = Len(p)
    BY <1>1, <1>2
  <1> QED  BY <1>2, <1>3, <1>4

LEMMA PasswordTried ==
    ASSUME options \in Config, NEW x, NEW p, NEW method, Good(x), Ok(x), x.m.pam = "none", ~x.c.postponed,
           x.c.failures < options.max_authtries,
           method = "password" \/ (method = "none" /\ p = "empty")
    PROVE  Tried(mm_auth_password(x, p), method)
  <1> DEFINE y == mm_auth_password(x, p)
  <1>1. PasswordEffect(x, y, p)
    BY PasswordRequest DEF Good, Open
  <1> HIDE DEF y
  <1>2. /\ Consistent(options, x.m, x.c, x.h) /\ Listed(options, x.m, x.c, x.h)
        /\ x.h.guesses \in Nat /\ x.c.failures \in Nat /\ options.max_authtries \in Nat
        /\ x.h.guesses <= x.c.failures
    BY DEF Good, Open, Limited, Consistent, Config
  <1>3. /\ y.h.guesses \in Nat /\ y.h.guesses <= x.c.failures + 1
        /\ y.h.guesses <= x.c.failures \/ method = "password"
        /\ y.h.guesses <= options.max_authtries
    <2>1. y.h.guesses = x.h.guesses \/ (p # "empty" /\ y.h.guesses = x.h.guesses + 1)
      BY <1>1 DEF PasswordEffect
    <2> QED  BY <1>2, <2>1
  <1>4. Open(y)
    BY <1>1, <1>3 DEF PasswordEffect, Frame, Good, Open, Limited
  <1>5. ASSUME NEW n \in PasswordNames
        PROVE  [m |-> n, key |-> ""] \in Factors
    BY <1>5 DEF PasswordNames, Factors, KeyNames, Methods
  <1>6. y.c = x.c /\ y.m.pam = "none" /\ y.m.forced = x.m.forced
    BY <1>1 DEF PasswordEffect, Frame
  <1>7. /\ y.h.proved \in Seq(Factors)
        /\ Matched(options, y.c.lists, y.h.proved, x.c.used, Len(y.h.proved))
    <2>1. CASE y.h.proved = x.h.proved
      BY <1>2, <1>6, <2>1 DEF Consistent, Listed, Counted
    <2>2. CASE y.h.proved # x.h.proved
      <3>1. PICK n \in PasswordNames : y.h.proved = Append(x.h.proved, [m |-> n, key |-> ""])
        BY <1>1, <2>2 DEF PasswordEffect
      <3> QED  BY <1>2, <1>5, <1>6, <3>1, Factor
    <2> QED  BY <2>1, <2>2
  <1>8. Consistent(options, y.m, y.c, y.h) /\ Listed(options, y.m, y.c, y.h)
    BY <1>2, <1>6, <1>7 DEF Consistent, Listed, Counted
  <1>9. ASSUME Ok(y), y.ans
        PROVE  Ready(y, method) /\ y.h.guesses <= y.c.failures
    <2>1. PICK n \in PasswordNames : /\ y.h.proved = Append(x.h.proved, [m |-> n, key |-> ""])
                                     /\ options.no_password \/ n = "password"
      BY <1>1, <1>9 DEF PasswordEffect
    <2>2. (p = "empty" => options.no_password) /\ y.h.guesses = x.h.guesses /\ ~RootRestricted
      BY <1>1, <1>9 DEF PasswordEffect
    <2> DEFINE e == [m |-> n, key |-> ""]
    <2>3. e \in Factors /\ e.m = n
      BY <1>5
    <2> HIDE DEF e
    <2>4. /\ y.h.proved \in Seq(Factors) /\ Len(y.h.proved) > 0
          /\ y.h.proved[Len(y.h.proved)] = e
          /\ Matched(options, y.c.lists, y.h.proved, x.c.used, Len(y.h.proved) - 1)
      BY <1>2, <1>6, <2>1, <2>3, Factor DEF e
    <2>5. Stands(options.no_password, n, method) /\ method # "publickey"
      BY <2>1, <2>2 DEF Stands, PasswordNames
    <2>6. Proves(y.h.proved, method, x.c.used, y.c.used)
      BY <1>6, <2>3, <2>4, <2>5 DEF Proves
    <2> QED  BY <1>2, <1>6, <2>2, <2>4, <2>5, <2>6 DEF Ready
  <1>10. y.h.guesses <= y.c.failures \/ (y.h.guesses <= y.c.failures + 1 /\ ~y.c.postponed /\ method = "password")
    BY <1>3, <1>6
  <1>11. Tried(y, method)
    BY <1>4, <1>8, <1>9, <1>10 DEF Tried
  <1> QED  BY <1>11 DEF y

\* A signature by a key that was allowed; the key may be used once.
LEMMA VerifyLemma ==
    ASSUME options \in Config, NEW x, NEW key \in KeyNames, NEW good, Good(x), Ok(x), x.m.pam = "none"
    PROVE  LET y == mm_key_verify(x, key, good)
               method == MethodOf(x.m.key.type)
           IN  /\ Good(y) /\ y.c = x.c /\ y.m.pam = "none" /\ y.m.forced = x.m.forced
               /\ Ok(y) /\ y.ans /\ key \in Theirs(x.m.key.type) =>
                    /\ Len(y.h.proved) > 0
                    /\ y.h.proved[Len(y.h.proved)] = [m |-> method, key |-> key]
                    /\ Matched(options, y.c.lists, y.h.proved, x.c.used, Len(y.h.proved) - 1)
  <1> DEFINE y == mm_key_verify(x, key, good)
             method == MethodOf(x.m.key.type)
             e == [m |-> method, key |-> key]
  <1>1. KeyVerifyEffect(x, y, key)
    BY KeyVerifyRequest DEF Good, Open
  <1>2. e \in Factors
    BY DEF MethodOf, Factors, Methods
  <1> HIDE DEF y
  <1>3. /\ y.c = x.c /\ y.m.pam = "none" /\ y.m.forced = x.m.forced /\ y.h.guesses = x.h.guesses
        /\ y.h.proved = x.h.proved \/ y.h.proved = Append(x.h.proved, e)
        /\ Ok(y) /\ y.ans /\ key \in Theirs(x.m.key.type) => y.h.proved = Append(x.h.proved, e)
    BY <1>1 DEF KeyVerifyEffect, Frame
  <1>4. Consistent(options, x.m, x.c, x.h) /\ Listed(options, x.m, x.c, x.h)
    BY DEF Good
  <1> HIDE DEF e
  <1>5. ASSUME y.h.proved = Append(x.h.proved, e)
        PROVE  /\ y.h.proved \in Seq(Factors) /\ Len(y.h.proved) > 0
               /\ y.h.proved[Len(y.h.proved)] = e
               /\ Matched(options, y.c.lists, y.h.proved, x.c.used, Len(y.h.proved) - 1)
               /\ Matched(options, y.c.lists, y.h.proved, x.c.used, Len(y.h.proved))
    BY <1>2, <1>3, <1>4, <1>5, Factor
  <1>6. /\ y.h.proved \in Seq(Factors)
        /\ Matched(options, y.c.lists, y.h.proved, x.c.used, Len(y.h.proved))
    BY <1>3, <1>4, <1>5 DEF Consistent, Listed, Counted
  <1>7. Consistent(options, y.m, y.c, y.h) /\ Listed(options, y.m, y.c, y.h)
    BY <1>3, <1>4, <1>6 DEF Consistent, Listed, Counted
  <1>8. Open(y)
    BY <1>1, <1>3 DEF KeyVerifyEffect, Frame, Good, Open, Limited
  <1>9. Good(y)
    BY <1>3, <1>7, <1>8 DEF Good
  <1> QED  BY <1>3, <1>5, <1>9 DEF e, y

LEMMA AllowedLemma ==
    ASSUME NEW x, NEW type, NEW key, NEW attempt, Good(x), Ok(x), x.m.pam = "none"
    PROVE  LET y == mm_key_allowed(x, type, key, attempt)
           IN  /\ Good(y) /\ y.m.pam = "none"
               /\ y.c.used = x.c.used /\ y.c.postponed = x.c.postponed
               /\ Ok(y) /\ y.ans => y.m.key = [k |-> key, type |-> type] /\ key \in Theirs(type)
               /\ Ok(y) /\ y.ans /\ type = "user" /\ y.m.forced => key \in options.forced
  <1> DEFINE y == mm_key_allowed(x, type, key, attempt)
  <1>1. KeyAllowedEffect(x, y, type, key)
    BY KeyAllowedRequest DEF Good, Open
  <1> HIDE DEF y
  <1>2. /\ y.c.used = x.c.used /\ y.c.postponed = x.c.postponed /\ y.c.lists = x.c.lists
        /\ y.c.failures = x.c.failures /\ y.c.valid = x.c.valid /\ y.c.service = x.c.service
        /\ y.c.success = x.c.success /\ y.c.kbdint = x.c.kbdint /\ y.c.forced = y.m.forced
    BY <1>1 DEF KeyAllowedEffect, Good, Open, Shape, ChildFields
  <1>3. Shape(y) /\ y.h = x.h /\ y.m.pam = "none" /\ y.m.phase # "postauth"
    BY <1>1 DEF KeyAllowedEffect, Good, Open
  <1>4. Consistent(options, x.m, x.c, x.h) => Consistent(options, y.m, y.c, y.h)
    BY <1>1, <1>2, <1>3 DEF KeyAllowedEffect, Consistent
  <1>5. Good(y)
    BY <1>1, <1>2, <1>3, <1>4 DEF KeyAllowedEffect, Good, Open, Limited, Listed, Counted
  <1> QED  BY <1>1, <1>2, <1>3, <1>5 DEF KeyAllowedEffect, y

\* A key that failed leaves no forced command in the child.
LEMMA ClearLemma ==
    ASSUME NEW x, NEW method, NEW b, Good(x)
    PROVE  Tried(Clear(x), method) /\ Tried([Clear(x) EXCEPT !.c.postponed = b], method)
  <1> DEFINE y == Clear(x)
             z == [y EXCEPT !.c.postponed = b]
  <1>1. /\ Shape(y) /\ y.m = x.m /\ y.h = x.h /\ y.err = x.err /\ y.ans = FALSE
        /\ SameChild([x.c EXCEPT !.forced = FALSE], y.c) /\ y.c.kbdint = x.c.kbdint /\ y.c.forced = FALSE
    BY DEF Clear, Result, Good, Open, Shape, ChildFields, SameChild
  <1>2. SameChild(x.c, [y.c EXCEPT !.forced = x.c.forced])
    BY <1>1 DEF SameChild, Good, Open, Shape, ChildFields
  <1> HIDE DEF y
  <1>3. /\ y.c.failures = x.c.failures /\ y.c.valid = x.c.valid /\ y.c.service = x.c.service
        /\ y.c.lists = x.c.lists /\ y.c.used = x.c.used /\ y.c.success = x.c.success
    BY <1>1, <1>2 DEF SameChild, Shape, ChildFields
  <1>4. Tried(y, method)
    BY <1>1, <1>3 DEF Tried, Good, Open, Limited, Consistent, Listed, Ok
  <1>5. /\ Shape(z) /\ z.m = y.m /\ z.h = y.h /\ z.err = y.err /\ z.ans = FALSE
        /\ SameChild(y.c, z.c) /\ z.c.kbdint = y.c.kbdint
    BY <1>1 DEF Shape, ChildFields, SameChild
  <1> HIDE DEF z
  <1>6. y.h.guesses <= y.c.failures \/ ~Ok(y)
    BY <1>1, <1>3 DEF Good, Ok
  <1>7. Tried(z, method)
    BY <1>1, <1>4, <1>5, <1>6 DEF Tried, Open, Limited, SameChild, Consistent, Listed, Ok
  <1> QED  BY <1>4, <1>7 DEF y, z

LEMMA PubkeyTried ==
    ASSUME options \in Config, NEW x, NEW in, in.key \in KeyNames, Good(x), Ok(x), x.m.pam = "none"
    PROVE  Tried(userauth_pubkey(x, in), "publickey")
  <1> DEFINE y == mm_key_allowed(x, "user", in.key, in.sig # "absent")
             z == mm_key_verify(y, in.key, in.sig = "good")
             u == [z EXCEPT !.c.used = @ \cup {in.key}]
             w == userauth_pubkey(x, in)
  <1>1. /\ Good(y) /\ y.m.pam = "none" /\ y.c.used = x.c.used
        /\ Ok(y) /\ y.ans => y.m.key = [k |-> in.key, type |-> "user"] /\ in.key \in Theirs("user")
        /\ Ok(y) /\ y.ans /\ y.m.forced => in.key \in options.forced
    BY AllowedLemma
  <1>2. \/ w = Result(x, FALSE) \/ w = Clear(y)
        \/ w = [Clear(y) EXCEPT !.c.postponed = Ok(y) /\ y.ans]
        \/ Ok(y) /\ y.ans /\ w = Clear(z)
        \/ Ok(y) /\ y.ans /\ Ok(z) /\ z.ans /\ in.key \notin x.c.used /\ w = u
    BY DEF userauth_pubkey, KeyAllowed, KeyVerified, auth2_userkey_already_used
  <1>3. Tried(Result(x, FALSE), "publickey")
    BY ResultLemma
  <1> HIDE DEF y
  <1>4. Tried(Clear(y), "publickey") /\ Tried([Clear(y) EXCEPT !.c.postponed = Ok(y) /\ y.ans], "publickey")
    BY <1>1, ClearLemma
  <1>5. ASSUME Ok(y), y.ans
        PROVE  /\ Good(z) /\ z.c = y.c /\ z.m.pam = "none" /\ z.m.forced = y.m.forced
               /\ Ok(z) /\ z.ans =>
                    /\ Len(z.h.proved) > 0
                    /\ z.h.proved[Len(z.h.proved)] = [m |-> "publickey", key |-> in.key]
                    /\ Matched(options, z.c.lists, z.h.proved, x.c.used, Len(z.h.proved) - 1)
    <2>1. y.m.key.type = "user" /\ in.key \in Theirs(y.m.key.type) /\ MethodOf(y.m.key.type) = "publickey"
      BY <1>1, <1>5 DEF MethodOf
    <2>2. LET method == MethodOf(y.m.key.type)
          IN  /\ Good(z) /\ z.c = y.c /\ z.m.pam = "none" /\ z.m.forced = y.m.forced
              /\ Ok(z) /\ z.ans /\ in.key \in Theirs(y.m.key.type) =>
                   /\ Len(z.h.proved) > 0
                   /\ z.h.proved[Len(z.h.proved)] = [m |-> method, key |-> in.key]
                   /\ Matched(options, z.c.lists, z.h.proved, y.c.used, Len(z.h.proved) - 1)
      BY <1>1, <1>5, VerifyLemma
    <2> HIDE DEF z
    <2> QED  BY <1>1, <2>1, <2>2
  <1> HIDE DEF z
  <1>6. ASSUME Ok(y), y.ans
        PROVE  Tried(Clear(z), "publickey")
    BY <1>5, <1>6, ClearLemma
  <1>7. ASSUME Ok(y), y.ans, Ok(z), z.ans, in.key \notin x.c.used
        PROVE  Tried(u, "publickey")
    <2>1. /\ Shape(u) /\ u.m = z.m /\ u.h = z.h /\ u.err = z.err /\ u.ans = z.ans
          /\ u.c.used = z.c.used \cup {in.key} /\ u.c.kbdint = z.c.kbdint
          /\ u.c.failures = z.c.failures /\ u.c.valid = z.c.valid /\ u.c.service = z.c.service
          /\ u.c.lists = z.c.lists /\ u.c.forced = z.c.forced /\ u.c.success = z.c.success
      BY <1>5, <1>7 DEF Good, Open, Shape, ChildFields
    <2> HIDE DEF u
    <2> DEFINE q == z.h.proved
               e == [m |-> "publickey", key |-> in.key]
    <2>2. /\ Len(q) > 0 /\ q[Len(q)] = e
          /\ Matched(options, z.c.lists, q, x.c.used, Len(q) - 1)
      BY <1>5, <1>7
    <2>3. e.m = "publickey" /\ e.key = in.key
      OBVIOUS
    <2> HIDE DEF q, e
    <2>4. Proves(q, "publickey", x.c.used, u.c.used)
      BY <1>1, <1>5, <1>7, <2>1, <2>2, <2>3 DEF Proves, Stands
    <2>5. u.m.forced => u.h.proved[Len(u.h.proved)].key \in options.forced
      BY <1>1, <1>5, <1>7, <2>1, <2>2, <2>3 DEF q
    <2>6. Ready(u, "publickey")
      BY <1>5, <1>7, <2>1, <2>2, <2>4, <2>5 DEF Ready, q
    <2>7. Open(u) /\ Consistent(options, u.m, u.c, u.h) /\ u.h.guesses <= u.c.failures
      BY <1>5, <1>7, <2>1 DEF Good, Open, Limited, Consistent
    <2> QED  BY <1>7, <2>1, <2>6, <2>7 DEF Tried
  <1> HIDE DEF u, w
  <1>8. Tried(w, "publickey")
    BY <1>2, <1>3, <1>4, <1>6, <1>7
  <1> QED  BY <1>8 DEF w

LEMMA HostbasedTried ==
    ASSUME options \in Config, NEW x, NEW in, in.key \in KeyNames, Good(x), Ok(x), x.m.pam = "none"
    PROVE  Tried(userauth_hostbased(x, in), "hostbased")
  <1> DEFINE y == mm_key_allowed(x, "host", in.key, FALSE)
             z == mm_key_verify(y, in.key, in.sig = "good")
             w == userauth_hostbased(x, in)
  <1>1. /\ Good(y) /\ y.m.pam = "none" /\ y.c.used = x.c.used
        /\ Ok(y) /\ y.ans => y.m.key = [k |-> in.key, type |-> "host"] /\ in.key \in Theirs("host")
    <2>1. ASSUME NEW a
          PROVE  LET v == mm_key_allowed(x, "host", in.key, a)
                 IN  /\ Good(v) /\ v.m.pam = "none" /\ v.c.used = x.c.used
                     /\ Ok(v) /\ v.ans => v.m.key = [k |-> in.key, type |-> "host"] /\ in.key \in Theirs("host")
      BY AllowedLemma
    <2> QED  BY <2>1, Zenon
  <1>2. w = Result(x, FALSE) \/ w = Result(y, FALSE) \/ (Ok(y) /\ y.ans /\ w = z)
    BY DEF userauth_hostbased, HostKeyAllowed
  <1>3. Tried(Result(x, FALSE), "hostbased")
    BY ResultLemma
  <1> HIDE DEF y
  <1>4. Tried(Result(y, FALSE), "hostbased")
    BY <1>1, ResultLemma
  <1>5. ASSUME Ok(y), y.ans
        PROVE  Tried(z, "hostbased")
    <2>1. y.m.key.type = "host" /\ in.key \in Theirs(y.m.key.type) /\ MethodOf(y.m.key.type) = "hostbased"
      BY <1>1, <1>5 DEF MethodOf
    <2>2. LET method == MethodOf(y.m.key.type)
          IN  /\ Good(z) /\ z.c = y.c /\ z.m.pam = "none" /\ z.m.forced = y.m.forced
              /\ Ok(z) /\ z.ans /\ in.key \in Theirs(y.m.key.type) =>
                   /\ Len(z.h.proved) > 0
                   /\ z.h.proved[Len(z.h.proved)] = [m |-> method, key |-> in.key]
                   /\ Matched(options, z.c.lists, z.h.proved, y.c.used, Len(z.h.proved) - 1)
      BY <1>1, <1>5, VerifyLemma
    <2> HIDE DEF z
    <2>3. ASSUME Ok(z), z.ans
          PROVE  Ready(z, "hostbased")
      <3>1. /\ Len(z.h.proved) > 0 /\ z.h.proved[Len(z.h.proved)].m = "hostbased"
            /\ Matched(options, z.c.lists, z.h.proved, y.c.used, Len(z.h.proved) - 1)
            /\ z.c = y.c /\ z.m.pam = "none"
        BY <2>1, <2>2, <2>3
      <3>2. Proves(z.h.proved, "hostbased", y.c.used, z.c.used)
        BY <3>1 DEF Proves, Stands
      <3> QED  BY <3>1, <3>2 DEF Ready
    <2> QED  BY <2>2, <2>3 DEF Tried, Good
  <1> HIDE DEF z, w
  <1>6. Tried(w, "hostbased")
    BY <1>2, <1>3, <1>4, <1>5
  <1> QED  BY <1>6 DEF w

LEMMA KbdintTried ==
    ASSUME NEW x, NEW in, NEW method, Good(x), Ok(x), x.m.pam = "none"
    PROVE  Tried(userauth_kbdint(x, in), method)
  <1>1. Talked(x, auth2_challenge(x, in.pam))
    BY ChallengeLemma DEF Good, Open
  <1>2. Good(auth2_challenge(x, in.pam))
    BY <1>1, TalkedGood
  <1> QED  BY <1>2, ResultLemma DEF userauth_kbdint

LEMMA NoneTried ==
    ASSUME options \in Config, NEW x, Good(x), Ok(x), x.m.pam = "none", ~x.c.postponed,
           x.c.failures < options.max_authtries
    PROVE  Tried(userauth_none(x), "none")
  <1> DEFINE y == [x EXCEPT !.c.none_enabled = FALSE]
  <1>1. /\ Shape(y) /\ y.m = x.m /\ y.h = x.h /\ y.err = x.err
        /\ SameChild(x.c, y.c) /\ y.c.kbdint = x.c.kbdint /\ y.c.postponed = x.c.postponed
    BY DEF Good, Open, Shape, ChildFields, SameChild
  <1>2. userauth_none(x) = mm_auth_password(y, "empty") \/ userauth_none(x) = Result(y, FALSE)
    BY DEF userauth_none
  <1> HIDE DEF y
  <1>3. Good(y) /\ Ok(y) /\ y.m.pam = "none" /\ ~y.c.postponed /\ y.c.failures < options.max_authtries
    BY <1>1 DEF Good, Open, Limited, Ok, Consistent, Listed, SameChild
  <1>4. Tried(mm_auth_password(y, "empty"), "none")
    BY <1>3, PasswordTried
  <1> QED  BY <1>2, <1>3, <1>4, ResultLemma

LEMMA TryLemma ==
    ASSUME options \in Config, NEW x, NEW in, in.key \in KeyNames, in.method \in Methods,
           Good(x), Ok(x), x.m.pam = "none", ~x.c.postponed
    PROVE  Tried(TryMethod(x, in), in.method)
  <1>1. CASE authmethod_lookup(x, in.method) /\ x.c.failures < options.max_authtries
    <2>1. TryMethod(x, in) = userauth(x, in)
      BY <1>1 DEF TryMethod
    <2>2. CASE in.method = "none"
      BY <1>1, <2>1, <2>2, NoneTried DEF userauth
    <2>3. CASE in.method = "password"
      BY <1>1, <2>1, <2>3, PasswordTried DEF userauth, userauth_passwd
    <2>4. CASE in.method = "publickey"
      BY <2>1, <2>4, PubkeyTried DEF userauth
    <2>5. CASE in.method = "hostbased"
      BY <2>1, <2>5, HostbasedTried DEF userauth
    <2>6. CASE in.method = "keyboard-interactive"
      BY <2>1, <2>6, KbdintTried DEF userauth
    <2> QED  BY <2>2, <2>3, <2>4, <2>5, <2>6 DEF Methods
  <1>2. CASE ~(authmethod_lookup(x, in.method) /\ x.c.failures < options.max_authtries)
    BY <1>2, ResultLemma DEF TryMethod
  <1> QED  BY <1>1, <1>2

----------------------------------------------------------------------------
(* userauth_finish().                                                      *)

LEMMA GoodFinal ==
    ASSUME NEW x, Good(x)
    PROVE  Final(x)
  BY DEF Good, Final, Open

LEMMA FatalFinal ==
    ASSUME NEW x, NEW why, Open(x), why # "none"
    PROVE  Final(Fatal(x, why))
  BY FatalGood, GoodFinal

LEMMA FailureFinal ==
    ASSUME NEW x, NEW partial, NEW method, Open(x), Ok(x),
           Consistent(options, x.m, x.c, x.h), Listed(options, x.m, x.c, x.h),
           \/ x.h.guesses <= x.c.failures
           \/ x.h.guesses <= x.c.failures + 1 /\ ~partial /\ method = "password"
    PROVE  Final(SendFailure(x, partial, method))
  <1> DEFINE n == IF ~partial /\ CountsAsFailure(x, method) THEN x.c.failures + 1 ELSE x.c.failures
             y == [x EXCEPT !.c.failures = n]
  <1>1. x.c.failures \in Nat /\ x.h.guesses \in Nat
    BY DEF Consistent, Open, Limited
  <1>2. n \in Nat /\ x.h.guesses <= n
    BY <1>1 DEF CountsAsFailure
  <1>3. \/ SendFailure(x, partial, method) = y
        \/ SendFailure(x, partial, method) = Fatal(y, "Too many authentication failures")
    BY DEF SendFailure
  <1> HIDE DEF n
  <1>4. /\ Shape(y) /\ y.m = x.m /\ y.h = x.h /\ y.err = x.err /\ y.c.failures = n
        /\ y.c.valid = x.c.valid /\ y.c.service = x.c.service /\ y.c.kbdint = x.c.kbdint
        /\ y.c.lists = x.c.lists /\ y.c.used = x.c.used /\ y.c.forced = x.c.forced
        /\ y.c.success = x.c.success
    BY DEF Open, Shape, ChildFields
  <1> HIDE DEF y
  <1>5. Good(y)
    BY <1>2, <1>4 DEF Good, Open, Limited, Consistent, Listed, Counted
  <1>6. Open(y)
    BY <1>5 DEF Good
  <1> QED  BY <1>3, <1>5, <1>6, GoodFinal, FatalFinal

\* All that Won says but for the account.
Earned(x) ==
    /\ options.valid /\ x.c.service
    /\ x.h.proved \in Seq(Factors) /\ Len(x.h.proved) > 0
    /\ options.lists # <<>> => Completed(options, x.h.proved, x.c.used)
    /\ options.root => RootAllowed(options, x.m, x.h)

LEMMA SuccessFinal ==
    ASSUME NEW x, NEW acct, Open(x), Ok(x), Earned(x)
    PROVE  Final(SendSuccess(x, acct))
  <1> DEFINE y == IF options.use_pam THEN mm_do_pam_account(x, acct) ELSE x
             z == [y EXCEPT !.c.success = TRUE]
             r == SendSuccess(x, acct)
  <1>1. /\ Open(y) /\ y.c = x.c /\ y.h = x.h /\ y.m.forced = x.m.forced
        /\ options.use_pam /\ Ok(y) /\ y.ans => y.m.account = "ok"
    <2>1. CASE options.use_pam
      <3>1. AccountEffect(x, mm_do_pam_account(x, acct))
        BY AccountRequest DEF Open
      <3> QED  BY <2>1, <3>1 DEF AccountEffect, Frame, Open, Limited
    <2>2. CASE ~options.use_pam
      BY <2>2
    <2> QED  BY <2>1, <2>2
  <1>2. \/ r = y /\ ~Ok(y)
        \/ r = Fatal(y, "denied by PAM account")
        \/ r = z /\ Ok(y) /\ (options.use_pam => y.ans)
    BY DEF SendSuccess, AccountAsked
  <1> HIDE DEF y
  <1>3. ~Ok(y) => Final(y)
    BY <1>1 DEF Final, Open
  <1>4. Final(Fatal(y, "denied by PAM account"))
    BY <1>1, FatalFinal
  <1>5. ASSUME Ok(y), options.use_pam => y.ans
        PROVE  Final(z)
    <2>1. /\ Shape(z) /\ z.m = y.m /\ z.h = y.h /\ z.c.success = TRUE
          /\ z.c.service = y.c.service /\ z.c.used = y.c.used
      BY <1>1 DEF Open, Shape, ChildFields
    <2> HIDE DEF z
    <2>2. Won(options, z.m, z.c, z.h)
      BY <1>1, <1>5, <2>1 DEF Won, Earned, RootAllowed
    <2> QED  BY <1>1, <2>1, <2>2 DEF Final, Open, Limited
  <1> HIDE DEF r, z
  <1>6. Final(r)
    BY <1>2, <1>3, <1>4, <1>5
  <1> QED  BY <1>6 DEF r

LEMMA FinishLemma ==
    ASSUME options \in Config, NEW x, NEW method \in Methods, NEW sub, NEW acct, Open(x), Ok(x),
           Consistent(options, x.m, x.c, x.h), Ready(x, method), x.c.valid,
           ~RootDenied(x, method), x.h.guesses <= x.c.failures
    PROVE  Final(Finish(x, UpdateLists(x.c.lists, method, sub), method, acct))
  <1> DEFINE up == UpdateLists(x.c.lists, method, sub)
             y == [x EXCEPT !.c.lists = up.lists]
             r == Finish(x, up, method, acct)
  <1>1. PICK U : /\ Matched(options, x.c.lists, x.h.proved, U, Len(x.h.proved) - 1)
                 /\ Proves(x.h.proved, method, U, x.c.used)
    BY DEF Ready
  <1>2. x.h.proved \in Seq(Factors) /\ Len(x.h.proved) \in Nat /\ Len(x.h.proved) > 0
    BY <1>1 DEF Consistent, Proves
  <1>3. Matched(options, x.c.lists, x.h.proved, x.c.used, Len(x.h.proved))
    <2>1. U \subseteq x.c.used /\ Len(x.h.proved) - 1 \in Nat
      BY <1>1, <1>2 DEF Proves
    <2> DEFINE p == x.h.proved
    <2>2. p \in Seq(Factors) /\ Matched(options, x.c.lists, p, U, Len(p) - 1) /\ Len(p) \in Nat
      BY <1>1, <1>2
    <2> HIDE DEF p
    <2>3. Len(p) - 1 \in Nat /\ Len(p) - 1 <= Len(p)
      BY <2>1, <2>2 DEF p
    <2>4. Matched(options, x.c.lists, p, x.c.used, Len(p))
      BY <2>1, <2>2, <2>3, MatchedMore
    <2> QED  BY <2>4 DEF p
  <1>4. /\ Matched(options, up.lists, x.h.proved, x.c.used, Len(x.h.proved))
        /\ up.done /\ options.lists # <<>> => Completed(options, x.h.proved, x.c.used)
    <2>1. CASE options.lists = <<>>
      BY <1>3, <2>1 DEF UpdateLists
    <2>2. CASE options.lists # <<>>
      BY <1>1, <1>2, <2>2, MatchedUpdate DEF UpdateLists
    <2> QED  BY <2>1, <2>2
  <1>5. \/ r = Fatal(x, "method not in AuthenticationMethods")
        \/ up.done /\ r = SendSuccess(y, acct)
        \/ r = SendFailure(y, TRUE, method)
    BY DEF Finish
  <1> HIDE DEF up
  <1>6. /\ Shape(y) /\ y.m = x.m /\ y.h = x.h /\ y.err = x.err /\ y.c.failures = x.c.failures
        /\ y.c.valid = x.c.valid /\ y.c.service = x.c.service /\ y.c.kbdint = x.c.kbdint
        /\ y.c.lists = up.lists /\ y.c.used = x.c.used /\ y.c.forced = x.c.forced
        /\ y.c.success = x.c.success
    BY DEF Open, Shape, ChildFields
  <1> HIDE DEF y
  <1>7. Open(y) /\ Ok(y) /\ Consistent(options, y.m, y.c, y.h) /\ y.h.guesses <= y.c.failures
    BY <1>6 DEF Open, Limited, Ok, Consistent
  <1>8. Listed(options, y.m, y.c, y.h)
    BY <1>4, <1>6 DEF Listed, Counted, Ready
  <1>9. ASSUME options.root
        PROVE  RootAllowed(options, y.m, y.h)
    <2>1. auth_root_allowed(method, x.c.forced)
      BY <1>9 DEF RootDenied
    <2>2. method \in {"publickey", "hostbased"} => x.h.proved[Len(x.h.proved)].m = method
      BY <1>1 DEF Proves, Stands, PasswordNames
    <2>3. x.c.forced => x.m.forced /\ options.keys \cap options.forced # {}
      BY DEF Consistent
    <2>4. /\ options.root_login = "yes" \/ method \in {"publickey", "hostbased"}
          /\ method = "publickey" /\ x.m.forced => x.h.proved[Len(x.h.proved)].key \in options.forced
      BY <1>9 DEF Ready, RootRestricted
    <2> QED  BY <1>6, <2>1, <2>2, <2>3, <2>4 DEF auth_root_allowed, RootAllowed
  <1>10. ASSUME up.done
         PROVE  Final(SendSuccess(y, acct))
    <2>1. Earned(y)
      BY <1>2, <1>4, <1>6, <1>9, <1>10 DEF Earned, Consistent
    <2> QED  BY <1>7, <2>1, SuccessFinal
  <1>11. \A partial : Final(SendFailure(y, partial, method))
    BY <1>7, <1>8, FailureFinal
  <1>12. Final(SendFailure(y, TRUE, method))
    BY <1>11, Zenon
  <1>13. Final(Fatal(x, "method not in AuthenticationMethods"))
    BY FatalFinal
  <1> HIDE DEF r
  <1>14. Final(r)
    BY <1>5, <1>10, <1>12, <1>13
  <1> QED  BY <1>14 DEF r, up

LEMMA UserauthFinish ==
    ASSUME options \in Config, NEW x, NEW method \in Methods, NEW sub, NEW acct, Tried(x, method)
    PROVE  Final(userauth_finish(x, method, sub, acct))
  <1> DEFINE r == userauth_finish(x, method, sub, acct)
             f == Finish(x, UpdateLists(x.c.lists, method, sub), method, acct)
  <1>1. CASE ~Ok(x)
    BY <1>1 DEF userauth_finish, Tried, Final, Open
  <1>2. CASE Ok(x)
    <2>1. Open(x) /\ Consistent(options, x.m, x.c, x.h)
      BY <1>2 DEF Tried
    <2>2. CASE x.ans
      <3>1. x.h.guesses <= x.c.failures /\ Ready(x, method)
        BY <1>2, <2>2 DEF Tried
      <3>2. Listed(options, x.m, x.c, x.h)
        <4>1. PICK U : /\ Matched(options, x.c.lists, x.h.proved, U, Len(x.h.proved) - 1)
                       /\ Proves(x.h.proved, method, U, x.c.used)
          BY <3>1 DEF Ready
        <4> DEFINE p == x.h.proved
        <4>2. /\ p \in Seq(Factors) /\ Matched(options, x.c.lists, p, U, Len(p) - 1)
              /\ U \subseteq x.c.used /\ Len(p) > 0
          BY <2>1, <4>1 DEF Consistent, Proves
        <4> HIDE DEF p
        <4>3. Len(p) - 1 \in Nat /\ Len(p) - 1 <= Len(p) /\ Len(p) \in Nat
          BY <4>2
        <4>4. Matched(options, x.c.lists, p, x.c.used, Len(p))
          BY <4>2, <4>3, MatchedMore
        <4> QED  BY <3>1, <4>4 DEF Listed, Counted, Ready, p
      <3>3. \A partial : Final(SendFailure(x, partial, method))
        BY <1>2, <2>1, <3>1, <3>2, FailureFinal
      <3>4. Final(SendFailure(x, FALSE, method))
        BY <3>3, Zenon
      <3>5. x.c.valid /\ ~RootDenied(x, method) => Final(f)
        BY <1>2, <2>1, <3>1, FinishLemma
      <3>6. /\ Final(Fatal(x, "authenticated invalid user"))
            /\ Final(Fatal(x, "authenticated and postponed"))
        BY <2>1, FatalFinal
      <3>7. \/ r = Fatal(x, "authenticated invalid user") \/ r = Fatal(x, "authenticated and postponed")
            \/ r = SendFailure(x, FALSE, method)
            \/ x.c.valid /\ ~RootDenied(x, method) /\ r = f
        BY <1>2, <2>2 DEF userauth_finish
      <3> HIDE DEF r, f
      <3>8. Final(r)
        BY <3>4, <3>5, <3>6, <3>7
      <3> QED  BY <3>8 DEF r
    <2>3. CASE ~x.ans /\ x.c.postponed
      BY <1>2, <2>3 DEF userauth_finish, Tried, Final, Open
    <2>4. CASE ~x.ans /\ ~x.c.postponed
      <3>1. /\ Listed(options, x.m, x.c, x.h)
            /\ \/ x.h.guesses <= x.c.failures
               \/ x.h.guesses <= x.c.failures + 1 /\ method = "password"
        BY <1>2, <2>4 DEF Tried
      <3>2. \A partial : ~partial => Final(SendFailure(x, partial, method))
        BY <1>2, <2>1, <3>1, FailureFinal
      <3>3. Final(SendFailure(x, FALSE, method))
        BY <3>2, Zenon
      <3> QED  BY <1>2, <2>4, <3>3 DEF userauth_finish
    <2> QED  BY <2>2, <2>3, <2>4
  <1> QED  BY <1>1, <1>2

----------------------------------------------------------------------------
(* The packets.                                                            *)

LEMMA BeginLemma ==
    ASSUME NEW x, Good(x)
    PROVE  LET y == BeginRequest(x)
           IN  Good(y) /\ (Ok(y) => y.m.pam = "none" /\ ~y.c.postponed)
  <1> DEFINE y == [x EXCEPT !.c.attempt = IF @ = 2 THEN 2 ELSE @ + 1, !.c.postponed = FALSE,
                            !.h.abandoned = @ \/ x.m.authok]
  <1>1. /\ Shape(y) /\ y.m = x.m /\ y.err = x.err /\ y.h.proved = x.h.proved
        /\ y.h.guesses = x.h.guesses /\ SameChild(x.c, y.c) /\ y.c.kbdint = x.c.kbdint
        /\ y.c.postponed = FALSE
    BY DEF Good, Open, Shape, ChildFields, SameChild
  <1>2. BeginRequest(x) = auth2_challenge_stop(y)
    BY DEF BeginRequest
  <1> HIDE DEF y
  <1>3. Good(y)
    BY <1>1 DEF Good, Open, Limited, SameChild, Consistent, Listed, Counted, Ok
  <1> QED  BY <1>1, <1>2, <1>3, StopGood DEF StopEffect

LEMMA HandleLemma ==
    ASSUME options \in Config, NEW x, NEW in, in.key \in KeyNames, in.method \in Methods, Good(x)
    PROVE  Final(HandleRequest(x, in))
  <1> DEFINE y == BeginRequest(x)
             z == TryMethod(y, in)
  <1>1. CASE ~Ok(x)
    BY <1>1, GoodFinal DEF HandleRequest
  <1>2. CASE Ok(x)
    <2>1. Good(y) /\ (Ok(y) => y.m.pam = "none" /\ ~y.c.postponed)
      BY BeginLemma
    <2>2. HandleRequest(x, in) = IF ~Ok(y) THEN y ELSE userauth_finish(z, in.method, "", in.acct)
      BY <1>2 DEF HandleRequest, ServeRequest
    <2> HIDE DEF y
    <2>3. Ok(y) => Tried(z, in.method)
      BY <2>1, TryLemma
    <2> HIDE DEF z
    <2> QED  BY <2>1, <2>2, <2>3, GoodFinal, UserauthFinish
  <1> QED  BY <1>1, <1>2

LEMMA FirstLemma ==
    ASSUME options \in Config, NEW x, NEW in, Good(x)
    PROVE  Good(FirstRequest(x, in))
  <1> DEFINE a == mm_getpwnamallow(x)
             b == UserKnown(a, in)
             c == StartPam(b)
             d == mm_inform_authserv(c, in.style)
             e == ReadBanner(d)
             f == [e EXCEPT !.c.lists = auth2_setup_methods_lists]
  <1>1. Good(a) /\ (Ok(a) => a.ans = options.valid)
    <2>1. Quiet(x, a) /\ (Ok(a) => a.ans = options.valid)
      BY GetpwnamRequest DEF Good, Open
    <2> QED  BY <2>1, QuietGood
  <1>2. \/ FirstRequest(x, in) = Fatal(e, "no authentication methods enabled")
        \/ FirstRequest(x, in) = f
    BY DEF FirstRequest, ListsSetUp
  <1> HIDE DEF a
  <1>3. Good(b)
    <2>1. /\ Shape(b) /\ b.m = a.m /\ b.h = a.h /\ b.err = a.err
          /\ b.c.valid = (a.ans /\ in.service) /\ b.c.service = in.service
          /\ b.c.failures = a.c.failures /\ b.c.lists = a.c.lists /\ b.c.used = a.c.used
          /\ b.c.forced = a.c.forced /\ b.c.success = a.c.success /\ b.c.kbdint = a.c.kbdint
      BY <1>1 DEF UserKnown, Good, Open, Shape, ChildFields
    <2> HIDE DEF b
    <2>2. Open(b)
      BY <1>1, <2>1 DEF Good, Open, Limited
    <2>3. Ok(b) => Consistent(options, b.m, b.c, b.h)
      BY <1>1, <2>1 DEF Good, Consistent, Ok
    <2>4. Ok(b) => Listed(options, b.m, b.c, b.h) /\ b.h.guesses <= b.c.failures
      BY <1>1, <2>1 DEF Good, Listed, Ok
    <2> QED  BY <2>2, <2>3, <2>4 DEF Good
  <1> HIDE DEF b
  <1>4. Good(c)
    BY <1>3, SimpleRequests, QuietGood DEF StartPam, Good, Open
  <1> HIDE DEF c
  <1>5. Good(d)
    BY <1>4, SimpleRequests, QuietGood DEF Good, Open
  <1> HIDE DEF d
  <1>6. Good(e)
    BY <1>5, SimpleRequests, QuietGood DEF ReadBanner, Good, Open
  <1> HIDE DEF e
  <1>7. Good(f)
    <2>1. /\ Shape(f) /\ f.m = e.m /\ f.h = e.h /\ f.err = e.err
          /\ f.c.valid = e.c.valid /\ f.c.service = e.c.service
          /\ f.c.failures = e.c.failures /\ f.c.lists = auth2_setup_methods_lists
          /\ f.c.forced = e.c.forced /\ f.c.success = e.c.success /\ f.c.kbdint = e.c.kbdint
      BY <1>6 DEF Good, Open, Shape, ChildFields
    <2> HIDE DEF f
    <2>2. Open(f)
      BY <1>6, <2>1 DEF Good, Open, Limited
    <2>3. Ok(f) => Consistent(options, f.m, f.c, f.h) /\ f.h.guesses <= f.c.failures
      BY <1>6, <2>1 DEF Good, Consistent, Ok
    <2>4. ASSUME Ok(f)
          PROVE  Listed(options, f.m, f.c, f.h)
      <3>1. Counted(f.m, f.h) \in Nat
        BY <2>3, <2>4 DEF Consistent, Counted
      <3> QED  BY <2>1, <3>1, MatchedSetup DEF Listed
    <2> QED  BY <2>2, <2>3, <2>4 DEF Good
  <1>8. Good(Fatal(e, "no authentication methods enabled"))
    BY <1>6, FatalGood DEF Good
  <1> QED  BY <1>2, <1>7, <1>8

\* An answer to a prompt.  Only a context that is done authenticates.
LEMMA RespondedLemma ==
    ASSUME options \in Config, NEW w, NEW n, NEW pam, NEW acct, Good(w), Ok(w), w.c.kbdint,
           ~w.c.postponed
    PROVE  Final(Responded(mm_sshpam_respond(w, n), pam, acct))
  <1> DEFINE x == mm_sshpam_respond(w, n)
             ki == "keyboard-interactive"
             s == StopUnlessAsked(send_userauth_info_request(x, pam))
             t == StopUnlessAsked(x)
             ok == x.res = 0 /\ x.c.valid
             r == Responded(x, pam, acct)
  <1>1. Quiet(w, x) /\ RespondEffect(w, x)
    BY RespondRequest DEF RespondEffect, Good, Open
  <1>2. Good(x)
    BY <1>1, QuietGood
  <1>3. /\ x.c = w.c /\ x.h = w.h /\ x.m.pam = w.m.pam
        /\ Ok(x) /\ x.res = 0 => x.m.pam = "done"
        /\ Ok(x) /\ x.res = 1 => x.m.pam = "talking"
    BY <1>1 DEF RespondEffect, Quiet, Frame
  <1>4. \/ r = x /\ ~Ok(x)
        \/ Ok(x) /\ x.res = 1 /\ r = userauth_finish(Judge(s, FALSE), ki, "pam", acct)
        \/ Ok(x) /\ r = userauth_finish(Judge(t, ok), ki, "pam", acct)
    BY DEF Responded
  <1>5. ki \in Methods
    BY DEF Methods
  <1> HIDE DEF x
  <1>6. ASSUME NEW y, Good(y)
        PROVE  Tried(Judge(y, FALSE), ki)
    <2> DEFINE v == Judge(y, FALSE)
    <2>1. Shape(v) /\ v.m = y.m /\ v.c = y.c /\ v.h = y.h /\ v.err = y.err /\ v.ans = FALSE
      BY <1>6 DEF Judge, Good, Open, Shape
    <2> HIDE DEF v
    <2>2. Tried(v, ki)
      BY <1>6, <2>1 DEF Tried, Good, Open, Limited, Ok
    <2> QED  BY <2>2 DEF v
  <1>7. ASSUME Ok(x), x.res = 1
        PROVE  Final(userauth_finish(Judge(s, FALSE), ki, "pam", acct))
    <2>1. Talked(x, s)
      BY <1>2, <1>3, <1>7, AskLemma DEF Good, Open
    <2>2. Good(s)
      BY <1>2, <1>3, <1>7, <2>1, TalkedGood
    <2>3. Tried(Judge(s, FALSE), ki)
      BY <1>6, <2>2
    <2> QED  BY <1>5, <2>3, UserauthFinish
  <1>8. ASSUME Ok(x)
        PROVE  Final(userauth_finish(Judge(t, ok), ki, "pam", acct))
    <2>1. /\ Good(t) /\ StopEffect(x, t) /\ (Ok(t) => t.m.pam = "none")
      BY <1>2, <1>3, StopGood DEF StopUnlessAsked
    <2> DEFINE v == Judge(t, ok)
    <2> HIDE DEF ok, t
    <2>2. Shape(v) /\ v.m = t.m /\ v.c = t.c /\ v.h = t.h /\ v.err = t.err /\ v.ans = ok
      BY <2>1 DEF Judge, Good, Open, Shape
    <2> HIDE DEF v
    <2>3. ASSUME Ok(v), v.ans
          PROVE  Ready(v, ki)
      <3>1. ok
        BY <2>2, <2>3
      <3>2. x.m.pam = "done" /\ Consistent(options, x.m, x.c, x.h) /\ Listed(options, x.m, x.c, x.h)
        BY <1>2, <1>3, <1>8, <3>1 DEF ok, Good
      <3>3. /\ Len(x.h.proved) > 0 /\ x.h.proved[Len(x.h.proved)].m = ki
            /\ Matched(options, x.c.lists, x.h.proved, x.c.used, Len(x.h.proved) - 1)
        BY <3>2 DEF Consistent, Listed, Counted
      <3>4. ~RootRestricted
        BY <3>2 DEF Consistent, RootRestricted
      <3>5. v.h = x.h /\ v.c.lists = x.c.lists /\ v.c.used = x.c.used /\ v.m.pam = "none"
        BY <2>1, <2>2, <2>3 DEF StopEffect, Within, SameChild, Ok
      <3>6. Proves(v.h.proved, ki, x.c.used, v.c.used)
        BY <3>3, <3>5 DEF Proves, Stands
      <3> QED  BY <3>3, <3>4, <3>5, <3>6 DEF Ready
    <2>4. Tried(v, ki)
      BY <2>1, <2>2, <2>3 DEF Tried, Good, Open, Limited, Ok
    <2> QED  BY <1>5, <2>4, UserauthFinish DEF v
  <1> HIDE DEF r, s, t, ok
  <1>9. Final(r)
    BY <1>2, <1>4, <1>7, <1>8, GoodFinal
  <1> QED  BY <1>9 DEF r, x

----------------------------------------------------------------------------
(* The specification.                                                      *)

StateOk(o, m, c, h, e) ==
    /\ DOMAIN m = MonFields /\ DOMAIN c = ChildFields /\ DOMAIN h = {"proved", "guesses", "abandoned"}
    /\ h.guesses \in Nat /\ h.guesses <= o.max_authtries
    /\ c.success \in BOOLEAN
    /\ m.phase = "postauth" => c.success
    /\ c.success => Won(o, m, c, h)
    /\ e = "none" /\ ~c.success =>
         Consistent(o, m, c, h) /\ Listed(o, m, c, h) /\ h.guesses <= c.failures
AuthInv == options \in Config /\ StateOk(options, mon, child, hist, down)

LEMMA FinalState ==
    ASSUME NEW x, options \in Config, Final(x), Apply(x)
    PROVE  AuthInv'
  <1>1. StateOk(options, x.m, x.c, x.h, x.err)
    BY DEF Final, StateOk, Shape, Limited, Ok
  <1>2. StateOk(options', mon', child', hist', down') /\ options' \in Config
    BY <1>1 DEF Apply
  <1> QED  BY <1>2 DEF AuthInv

LEMMA CtxFields ==
    /\ Ctx.m = mon /\ Ctx.c = child /\ Ctx.h = hist /\ Ctx.err = "none"
    /\ DOMAIN Ctx = {"m", "c", "h", "ans", "res", "ret", "err"}
  BY DEF Ctx

LEMMA CtxGood ==
    ASSUME AuthInv, down = "none", ~child.success
    PROVE  Good(Ctx) /\ Ok(Ctx)
  BY CtxFields DEF AuthInv, StateOk, Good, Open, Limited, Shape, Ok

LEMMA AuthInitLemma ==
    ASSUME AuthInit(Configs)
    PROVE  AuthInv
  <1>1. options \in Config /\ options.max_authtries \in Nat
    BY ConfigsAssumption DEF AuthInit, Config
  <1>2. /\ DOMAIN mon = MonFields /\ mon.phase = "preauth" /\ mon.pam = "none" /\ mon.forced = FALSE
    BY DEF AuthInit, NewMonitor, MonFields
  <1>3. /\ DOMAIN child = ChildFields /\ child.success = FALSE /\ child.forced = FALSE
        /\ child.valid = FALSE /\ child.failures = 0 /\ child.lists = NoLists
    BY DEF AuthInit, NewChild, ChildFields
  <1>4. /\ DOMAIN hist = {"proved", "guesses", "abandoned"} /\ hist.guesses = 0
        /\ hist.proved = <<>>
    BY DEF AuthInit
  <1>5. hist.proved \in Seq(Factors)
    BY <1>4
  <1>6. Consistent(options, mon, child, hist)
    BY <1>2, <1>3, <1>5 DEF Consistent
  <1>7. Listed(options, mon, child, hist)
    BY <1>3, MatchedNone DEF Listed
  <1>8. hist.guesses \in Nat /\ hist.guesses <= options.max_authtries /\ hist.guesses <= child.failures
    BY <1>1, <1>3, <1>4
  <1>9. ~child.success /\ child.success \in BOOLEAN /\ mon.phase # "postauth"
    BY <1>2, <1>3
  <1>10. StateOk(options, mon, child, hist, down)
    BY <1>2, <1>3, <1>4, <1>6, <1>7, <1>8, <1>9, Zenon DEF StateOk
  <1> QED  BY <1>1, <1>10 DEF AuthInv

LEMMA KexStep ==
    ASSUME AuthInv, Kex
    PROVE  AuthInv'
  <1> DEFINE k == [Ctx EXCEPT !.c.kex = TRUE]
             y == mm_choose_dh(k)
             z == mm_key_sign(y)
  <1>1. /\ Shape(k) /\ k.m = mon /\ k.h = hist /\ k.err = "none"
        /\ SameChild(child, k.c) /\ k.c.kbdint = child.kbdint
    BY CtxFields DEF AuthInv, StateOk, Shape, ChildFields, SameChild
  <1>2. Apply(z) /\ down = "none"
    BY DEF Kex
  <1> HIDE DEF k
  <1>3. Quiet(k, y)
    BY <1>1, SimpleRequests
  <1> HIDE DEF y
  <1>4. Quiet(y, z)
    BY <1>3, SimpleRequests DEF Quiet, Frame
  <1> HIDE DEF z
  <1>5. /\ Shape(z) /\ SameChild(child, z.c) /\ z.c.kbdint = child.kbdint /\ z.h = hist
        /\ z.m.pam = mon.pam /\ z.m.account = mon.account /\ z.m.forced = mon.forced
        /\ mon.phase # "postauth" => z.m.phase # "postauth"
    BY <1>1, <1>3, <1>4 DEF Quiet, Frame
  <1>6. StateOk(options, z.m, z.c, z.h, z.err)
    <2>1. StateOk(options, mon, child, hist, "none")
      BY <1>2 DEF AuthInv
    <2>2. Won(options, mon, child, hist) => Won(options, z.m, z.c, z.h)
      BY <1>5 DEF Won, RootAllowed, SameChild
    <2>3. Consistent(options, mon, child, hist) => Consistent(options, z.m, z.c, z.h)
      BY <1>5 DEF Consistent, SameChild
    <2>4. Listed(options, mon, child, hist) => Listed(options, z.m, z.c, z.h)
      BY <1>5 DEF Listed, Counted, SameChild
    <2> QED  BY <1>5, <2>1, <2>2, <2>3, <2>4 DEF StateOk, Shape, SameChild
  <1>7. StateOk(options', mon', child', hist', down') /\ options' \in Config
    BY <1>2, <1>6 DEF Apply, AuthInv
  <1> QED  BY <1>7 DEF AuthInv

LEMMA RequestStep ==
    ASSUME AuthInv, NEW b \in Packets, NEW h \in Heads, NEW acct \in BOOLEAN,
           input_userauth_request(Request(b, h, acct))
    PROVE  AuthInv'
  <1> DEFINE in == Request(b, h, acct)
             x == IF child.attempt = 0 THEN FirstRequest(Ctx, in) ELSE LaterRequest(Ctx, in)
  <1>1. b.method \in Methods /\ b.key \in KeyNames
    BY DEF Packets, Methods, KeyNames
  <1>2. in.method \in Methods /\ in.key \in KeyNames
    BY <1>1 DEF Request
  <1>3. down = "none" /\ ~child.success /\ Apply(HandleRequest(x, in))
    BY DEF input_userauth_request
  <1> HIDE DEF in
  <1>4. Good(Ctx) /\ Ok(Ctx) /\ options \in Config
    BY <1>3, CtxGood DEF AuthInv
  <1>5. Good(FirstRequest(Ctx, in))
    BY <1>4, FirstLemma
  <1>6. Good(LaterRequest(Ctx, in))
    BY <1>4, FatalGood DEF LaterRequest, Good
  <1>7. Good(x)
    BY <1>5, <1>6
  <1> HIDE DEF x
  <1>8. Final(HandleRequest(x, in))
    BY <1>2, <1>4, <1>7, HandleLemma
  <1> QED  BY <1>3, <1>4, <1>8, FinalState

LEMMA ResponseStep ==
    ASSUME AuthInv, NEW n, NEW pam, NEW acct, input_userauth_info_response(n, pam, acct)
    PROVE  AuthInv'
  <1> DEFINE w == [Ctx EXCEPT !.c.postponed = FALSE]
             f == Fatal(Ctx, "wrong number of replies")
             r == Responded(mm_sshpam_respond(w, n), pam, acct)
  <1>1. /\ down = "none" /\ ~child.success /\ child.kbdint
        /\ Apply(f) \/ Apply(r)
    BY DEF input_userauth_info_response
  <1>2. Good(Ctx) /\ Ok(Ctx) /\ options \in Config
    BY <1>1, CtxGood DEF AuthInv
  <1>3. Final(f)
    BY <1>2, FatalFinal DEF Good
  <1>4. /\ Shape(w) /\ w.m = mon /\ w.h = hist /\ w.err = "none"
        /\ SameChild(child, w.c) /\ w.c.kbdint = child.kbdint /\ w.c.postponed = FALSE
    BY <1>2, CtxFields DEF Good, Open, Shape, ChildFields, SameChild
  <1> HIDE DEF w
  <1>5. Good(w) /\ Ok(w)
    BY <1>2, <1>4, CtxFields DEF Good, Open, Limited, Ok, SameChild, Consistent, Listed, Counted
  <1>6. Final(r)
    BY <1>1, <1>2, <1>4, <1>5, RespondedLemma
  <1> HIDE DEF f, r
  <1> QED  BY <1>1, <1>2, <1>3, <1>6, FinalState

LEMMA KeystateStep ==
    ASSUME AuthInv, mm_send_keystate
    PROVE  AuthInv'
  <1> DEFINE p == [Ctx EXCEPT !.m.phase = "postauth"]
             f == Fatal(Ctx, "unexpected request")
  <1>1. /\ down = "none" /\ child.success /\ mon.phase # "postauth" /\ (Apply(p) \/ Apply(f))
    BY DEF mm_send_keystate
  <1>2. /\ p.c = child /\ p.h = hist /\ DOMAIN p.m = MonFields
        /\ p.m.forced = mon.forced /\ p.m.account = mon.account
    BY CtxFields DEF AuthInv, StateOk, MonFields
  <1>3. f.m = mon /\ f.c = child /\ f.h = hist
    BY CtxFields DEF Fatal
  <1>4. Won(options, p.m, p.c, p.h)
    BY <1>1, <1>2 DEF AuthInv, StateOk, Won, RootAllowed
  <1>5. StateOk(options, p.m, p.c, p.h, p.err)
    BY <1>1, <1>2, <1>4 DEF AuthInv, StateOk
  <1>6. StateOk(options, f.m, f.c, f.h, f.err)
    BY <1>1, <1>3 DEF AuthInv, StateOk
  <1> HIDE DEF p, f
  <1>7. StateOk(options', mon', child', hist', down') /\ options' \in Config
    BY <1>1, <1>5, <1>6 DEF Apply, AuthInv
  <1> QED  BY <1>7 DEF AuthInv

\* A list that was completed is satisfied by the factors.
LEMMA CompletedSatisfied ==
    ASSUME options \in Config, NEW proved \in Seq(Factors), NEW used,
           Completed(options, proved, used)
    PROVE  \E i \in DOMAIN options.lists : Satisfies(proved, options.lists[i])
  <1>1. PICK i \in DOMAIN options.lists :
          Embeds(options.no_password, options.lists[i], Len(options.lists[i]), proved, used, Len(proved))
    BY DEF Completed
  <1> DEFINE list == options.lists[i]
             k == Len(list)
  <1>2. list \in Seq(Entries) /\ DOMAIN list = 1..k /\ DOMAIN proved = 1..Len(proved)
    BY DEF Config
  <1> HIDE DEF list
  <1>3. PICK f \in [1..k -> 1..Len(proved)] :
          \A a, b \in 1..k :
            /\ Stands(options.no_password, proved[f[a]].m, list[a].m)
            /\ a < b => f[a] < f[b]
            /\ a # b /\ list[a].m = "publickey" /\ list[b].m = "publickey"
                 => proved[f[a]].key # proved[f[b]].key
            /\ list[a].m = "publickey" => proved[f[a]].key \in used
    BY <1>1 DEF Embeds, list
  <1>4. \A a \in 1..k : StandsFor(proved[f[a]].m, list[a])
    BY <1>3 DEF Stands, StandsFor, PasswordNames
  <1>5. Satisfies(proved, list)
    BY <1>2, <1>3, <1>4 DEF Satisfies
  <1> QED  BY <1>5 DEF list

\* Whatever the client sends, in whatever order, whatever PAM answers, and for every
\* configuration and account, the user's process is started only for a user who has
\* really proved the methods of some list of AuthenticationMethods, as PermitRootLogin
\* and PAM demand, and at most MaxAuthTries wrong passwords are tried: the child
\* (auth2.c) and the monitor (monitor.c) keep the invariant AuthInv.
THEOREM AuthInvariance == AuthSpec => []AuthInv
  <1>1. AuthInit(Configs) => AuthInv
    BY AuthInitLemma
  <1>2. AuthInv /\ [AuthStep]_authvars => AuthInv'
    <2> SUFFICES ASSUME AuthInv, [AuthStep]_authvars
                 PROVE  AuthInv'
      OBVIOUS
    <2>1. CASE Kex
      BY <2>1, KexStep
    <2>2. CASE \E b \in Packets, h \in Heads, acct \in BOOLEAN :
                 input_userauth_request(Request(b, h, acct))
      BY <2>2, RequestStep
    <2>3. CASE \E n \in {0, 1}, pam \in PamResults, acct \in BOOLEAN :
                 input_userauth_info_response(n, pam, acct)
      BY <2>3, ResponseStep
    <2>4. CASE mm_send_keystate
      BY <2>4, KeystateStep
    <2>5. CASE UNCHANGED authvars
      BY <2>5 DEF authvars, AuthInv
    <2> QED  BY <2>1, <2>2, <2>3, <2>4, <2>5 DEF AuthStep
  <1> QED  BY <1>1, <1>2, PTL DEF AuthSpec

\* AuthSound for every configuration: the login rules and the limit on guesses.
THEOREM AuthSoundness == AuthSpec => []AuthSound
  <1>1. AuthInv => AuthSound
    <2> SUFFICES ASSUME AuthInv PROVE AuthSound
      OBVIOUS
    <2>1. hist.guesses <= options.max_authtries
      BY DEF AuthInv, StateOk
    <2>2. ASSUME LoggedIn
          PROVE  /\ options.valid /\ child.service /\ child.success
                 /\ IF options.lists = <<>> THEN hist.proved # <<>>
                    ELSE \E i \in DOMAIN options.lists : Satisfies(hist.proved, options.lists[i])
                 /\ options.root => RootPolicy
                 /\ options.use_pam => mon.account = "ok"
      <3>1. child.success /\ Won(options, mon, child, hist) /\ options \in Config
        BY <2>2 DEF LoggedIn, AuthInv, StateOk
      <3>2. hist.proved # <<>>
        BY <3>1 DEF Won
      <3>3. options.lists # <<>> =>
              \E i \in DOMAIN options.lists : Satisfies(hist.proved, options.lists[i])
        BY <3>1, CompletedSatisfied DEF Won
      <3>4. options.root => RootPolicy
        BY <3>1 DEF Won, RootAllowed, RootPolicy, LastProved
      <3> QED  BY <3>1, <3>2, <3>3, <3>4 DEF Won
    <2> QED  BY <2>1, <2>2 DEF AuthSound
  <1> QED  BY <1>1, AuthInvariance, PTL
=============================================================================
