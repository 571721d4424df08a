---------------------------- MODULE AgreeProofs ----------------------------
(***************************************************************************)
(* Monitor and child authenticate the user twice, each from its own copy   *)
(* of the state: the proof that they come to the same decision.            *)
(*                                                                         *)
(* Between two packets the two are in a steady state (Steady): the same    *)
(* user, the same keys, the same lists, and the monitor has authenticated  *)
(* nobody, unless the client abandoned a conversation.  A method leaves    *)
(* them in a settled one (Settled): if the child is about to accept it,    *)
(* the monitor has accepted the same method and made the same update of    *)
(* its lists.  userauth_finish() then repeats the monitor's decision and   *)
(* leaves a closed state (Closed): steady again, or both are done.         *)
(***************************************************************************)
EXTENDS AuthProofs

\* What an iteration of the loop hands on of the context its handler made.
Carried(y, z) ==
    /\ Shape(z)
    /\ z.c = y.c /\ z.h = y.h /\ z.ans = y.ans /\ z.res = y.res
    /\ z.m.valid = y.m.valid /\ z.m.used = y.m.used /\ z.m.pam = y.m.pam
    /\ z.m.authok = y.m.authok /\ z.m.forced = y.m.forced /\ z.m.key = y.m.key

\* An iteration that does not authenticate.
Refused(y, z) ==
    /\ Carried(y, z)
    /\ z.m.phase = "preauth" /\ z.m.lists = y.m.lists /\ z.m.method = "unknown"

\* An iteration that authenticates with a method: where it leaves the monitor.
Verdict(up, denied) ==
    IF ~up.done \/ denied THEN "preauth" ELSE IF options.use_pam THEN "account" ELSE "keystate"
Accepted(y, z) ==
    LET up == UpdateLists(y.m.lists, y.m.method, y.m.sub)
        denied == options.root /\ ~auth_root_allowed(y.m.method, y.m.forced)
    IN  /\ Carried(y, z)
        /\ up.found /\ z.m.lists = up.lists /\ z.m.phase = Verdict(up, denied)
        /\ z.m.phase = "preauth" => z.m.method = "unknown"

\* The two ways out of an iteration of the monitor's loop.
LEMMA NextRoundFields ==
    ASSUME NEW x, Shape(x)
    PROVE  /\ Carried(x, NextRound(x)) /\ NextRound(x).m.phase = x.m.phase
           /\ NextRound(x).m.lists = x.m.lists /\ NextRound(x).m.method = "unknown"
           /\ NextRound(x).err = x.err
  BY DEF Shape, Carried, NextRound, MonFields, ChildFields

LEMMA LeaveLoopFields ==
    ASSUME NEW x, Shape(x), Ok(LeaveLoop(x))
    PROVE  /\ Carried(x, LeaveLoop(x)) /\ LeaveLoop(x).m.phase = "keystate"
           /\ LeaveLoop(x).m.lists = x.m.lists
  <1> DEFINE y == [x EXCEPT !.m.phase = "keystate"]
  <1>1. Carried(x, y) /\ y.m.phase = "keystate" /\ y.m.lists = x.m.lists
    BY DEF Shape, Carried, MonFields, ChildFields
  <1>2. LeaveLoop(x) \in {Fatal(x, "authenticated invalid user"), Fatal(x, "method name unknown"), y}
    BY DEF LeaveLoop
  <1> HIDE DEF y
  <1> QED  BY <1>1, <1>2, FatalKeeps

LEMMA AuthenticatesFields ==
    ASSUME NEW x, NEW type \in AuthDecide, Shape(x), x.m.phase = "preauth",
           Ok(Authenticates(x, type, UpdateLists(x.m.lists, x.m.method, x.m.sub)))
    PROVE  Accepted(x, Authenticates(x, type, UpdateLists(x.m.lists, x.m.method, x.m.sub)))
  <1> DEFINE up == UpdateLists(x.m.lists, x.m.method, x.m.sub)
             denied == options.root /\ ~auth_root_allowed(x.m.method, x.m.forced)
             y == [x EXCEPT !.m.lists = up.lists]
             z == [x EXCEPT !.m.lists = up.lists, !.m.phase = "account"]
             r == Authenticates(x, type, up)
  <1>1. \/ r = Fatal(x, "method not in AuthenticationMethods")
        \/ up.found /\ (~up.done \/ denied) /\ r = NextRound(y)
        \/ up.found /\ up.done /\ ~denied /\ options.use_pam /\ r = z
        \/ up.found /\ up.done /\ ~denied /\ ~options.use_pam /\ r = LeaveLoop(y)
    BY DEF Authenticates
  <1>2. Ok(r)
    OBVIOUS
  <1> HIDE DEF r, denied, up
  <1>3. Carried(x, y) /\ y.m.lists = up.lists /\ y.m.phase = "preauth"
    BY DEF Shape, Carried, MonFields, ChildFields
  <1>4. Carried(x, z) /\ z.m.lists = up.lists /\ z.m.phase = "account"
    BY DEF Shape, Carried, MonFields, ChildFields
  <1> HIDE DEF y, z
  <1>5. Shape(y)
    BY <1>3 DEF Carried
  <1>6. ASSUME up.found /\ (~up.done \/ denied) /\ r = NextRound(y)
        PROVE  Accepted(x, r)
    <2>1. /\ Carried(y, r) /\ r.m.phase = "preauth" /\ r.m.lists = up.lists
          /\ r.m.method = "unknown"
      BY <1>3, <1>5, <1>6, NextRoundFields
    <2> QED  BY <1>3, <1>6, <2>1 DEF Accepted, Carried, Verdict, up, denied
  <1>7. ASSUME up.found /\ up.done /\ ~denied /\ options.use_pam /\ r = z
        PROVE  Accepted(x, r)
    BY <1>4, <1>7 DEF Accepted, Verdict, up, denied
  <1>8. ASSUME up.found /\ up.done /\ ~denied /\ ~options.use_pam /\ r = LeaveLoop(y)
        PROVE  Accepted(x, r)
    <2>1. Carried(y, r) /\ r.m.phase = "keystate" /\ r.m.lists = up.lists
      BY <1>2, <1>3, <1>5, <1>8, LeaveLoopFields
    <2> QED  BY <1>3, <1>8, <2>1 DEF Accepted, Carried, Verdict, up, denied
  <1>9. r # Fatal(x, "method not in AuthenticationMethods")
    BY <1>2, FatalKeeps
  <1>10. Accepted(x, r)
    BY <1>1, <1>6, <1>7, <1>8, <1>9
  <1> QED  BY <1>10 DEF r, up

\* A request that the monitor answers, other than PAM_ACCOUNT.
LEMMA RefusedRead ==
    ASSUME NEW x, NEW type, NEW y, type # "PAM_ACCOUNT", Shape(x), Shape(y), ~y.ret,
           y.m.phase = x.m.phase, Ok(monitor_read(x, type, y))
    PROVE  Ok(x) /\ Ok(y) /\ x.m.phase = "preauth" /\ Refused(y, monitor_read(x, type, y))
  <1> DEFINE p == [y EXCEPT !.m.permit = @ \ ({type} \cap Once)]
             z == monitor_read(x, type, y)
  <1>1. Ok(x) /\ x.m.phase = "preauth" /\ z = monitor_child_preauth(p, type)
    BY FatalKeeps DEF monitor_read
  <1>2. /\ Carried(y, p) /\ p.m.phase = y.m.phase /\ p.m.lists = y.m.lists
        /\ p.ret = y.ret /\ p.err = y.err
    BY DEF Shape, Carried, MonFields, ChildFields
  <1> HIDE DEF p
  <1>3. Shape(p) /\ ~p.ret
    BY <1>2 DEF Carried
  <1>4. Ok(p) /\ z = NextRound(p)
    BY <1>1, <1>3 DEF monitor_child_preauth
  <1> HIDE DEF z
  <1>5. Refused(y, z)
    BY <1>1, <1>2, <1>3, <1>4, NextRoundFields DEF Refused, Carried
  <1>6. Ok(y)
    BY <1>2, <1>4 DEF Ok
  <1> QED  BY <1>1, <1>5, <1>6 DEF z

\* A request that the monitor answers and that authenticates.
LEMMA AcceptedRead ==
    ASSUME NEW x, NEW type \in AuthDecide, NEW y, Shape(x), Shape(y), y.ret,
           y.m.phase = x.m.phase, Ok(monitor_read(x, type, y))
    PROVE  Ok(x) /\ Ok(y) /\ x.m.phase = "preauth" /\ Accepted(y, monitor_read(x, type, y))
  <1> DEFINE p == [y EXCEPT !.m.permit = @ \ ({type} \cap Once)]
             up == UpdateLists(p.m.lists, p.m.method, p.m.sub)
             z == monitor_read(x, type, y)
  <1>1. Ok(x) /\ x.m.phase = "preauth" /\ z = monitor_child_preauth(p, type)
    BY FatalKeeps DEF monitor_read, AuthDecide
  <1>2. /\ Carried(y, p) /\ p.m.phase = y.m.phase /\ p.m.lists = y.m.lists
        /\ p.m.method = y.m.method /\ p.m.sub = y.m.sub
        /\ p.ret = y.ret /\ p.err = y.err
    BY DEF Shape, Carried, MonFields, ChildFields
  <1> HIDE DEF p
  <1>3. Shape(p) /\ p.ret
    BY <1>2 DEF Carried
  <1>4. Ok(p) /\ z = Authenticates(p, type, up)
    BY <1>1, <1>3 DEF monitor_child_preauth
  <1>5. Accepted(p, z)
    BY <1>1, <1>2, <1>3, <1>4, AuthenticatesFields
  <1> HIDE DEF z
  <1>6. Accepted(y, z)
    BY <1>2, <1>5 DEF Accepted, Carried
  <1>7. Ok(y)
    BY <1>2, <1>4 DEF Ok
  <1> QED  BY <1>1, <1>6, <1>7 DEF z

----------------------------------------------------------------------------
(* What monitor and child agree on while the client is not authenticated.  *)

\* The configurations for which they agree (see Agreement).
Plain == options.lists # <<>> => ~RootRestricted /\ ~options.no_password

Typed(lists) == \A i \in DOMAIN lists : lists[i] \in Seq(Entries)
Core(x) ==
    /\ x.c.valid = x.m.valid /\ x.c.success = FALSE
    /\ Typed(x.m.lists)
    /\ x.h.abandoned => options.use_pam
    /\ x.c.kbdint => options.use_pam
    /\ x.m.authok => options.use_pam
    /\ x.m.pam = "done" => x.m.valid /\ ~RootRestricted
\* Nothing is authenticated, unless the monitor counts a conversation that the
\* client abandoned.
Still(x) ==
    /\ x.m.phase \in {"preauth", "account"}
    /\ x.h.abandoned \/ (x.c.lists = x.m.lists /\ x.m.phase = "preauth")
Idle(x) == x.m.phase = "preauth" => x.m.method = "unknown"
SameKeys(x) == x.c.used = x.m.used
Steady(x) == Shape(x) /\ (Ok(x) => Core(x) /\ Still(x) /\ Idle(x) /\ SameKeys(x))

\* The monitor has authenticated the child's method, and left the loop if the child
\* is going to.
Agreed(x, method, sub) ==
    LET up == UpdateLists(x.c.lists, method, sub)
    IN  up.found /\ x.m.lists = up.lists /\ x.m.phase = Verdict(up, RootDenied(x, method))
Settled(x, method, sub) ==
    /\ Shape(x)
    /\ Ok(x) => /\ Core(x) /\ Idle(x) /\ SameKeys(x)
                /\ IF x.ans /\ ~x.h.abandoned THEN Agreed(x, method, sub) ELSE Still(x)

\* Updated lists are lists.
LEMMA UpdateTyped ==
    ASSUME NEW lists, NEW method, NEW sub, Typed(lists)
    PROVE  Typed(UpdateLists(lists, method, sub).lists)
  <1> DEFINE hit  == {i \in DOMAIN lists : Removable(lists[i], method, sub)}
             full == {i \in hit : Len(lists[i]) = 1}
             Upto(i) == \A j \in full : i <= j
             new == [i \in DOMAIN lists |->
                      IF i \in hit /\ Upto(i) THEN Tail(lists[i]) ELSE lists[i]]
  <1>1. UpdateLists(lists, method, sub).lists = lists \/ UpdateLists(lists, method, sub).lists = new
    BY DEF UpdateLists, auth2_update_methods_lists
  <1>2. ASSUME NEW i \in DOMAIN lists, i \in hit
        PROVE  Tail(lists[i]) \in Seq(Entries)
    <2>1. lists[i] \in Seq(Entries) /\ lists[i] # <<>>
      BY <1>2 DEF Typed, Removable, list_starts_with
    <2> QED  BY <2>1
  <1> HIDE DEF hit, full
  <1>3. Typed(new)
    BY <1>2 DEF Typed
  <1> HIDE DEF new
  <1> QED  BY <1>1, <1>3

\* A request always leaves a context.
LEMMA ReadShape ==
    ASSUME NEW x, NEW type, NEW y, Shape(x), Shape(y)
    PROVE  Shape(monitor_read(x, type, y)) /\ (Ok(monitor_read(x, type, y)) => Ok(x) /\ Ok(y))
  BY MonitorRead DEF Stopped, Keeps

\* A request that authenticates nobody, and one that does.
LEMMA RefusedSteady ==
    ASSUME NEW x, NEW type, NEW y, type # "PAM_ACCOUNT", Shape(x), Shape(y), ~y.ret,
           y.m.phase = x.m.phase,
           Ok(x) /\ Ok(y) /\ x.m.phase = "preauth" => Core(y) /\ Still(y) /\ SameKeys(y)
    PROVE  /\ Steady(monitor_read(x, type, y))
           /\ Ok(monitor_read(x, type, y)) =>
                /\ Ok(x) /\ Ok(y) /\ x.m.phase = "preauth"
                /\ Carried(y, monitor_read(x, type, y))
  <1> DEFINE z == monitor_read(x, type, y)
  <1>1. Shape(z) /\ (Ok(z) => Ok(x) /\ Ok(y))
    BY ReadShape
  <1>2. Ok(z) => x.m.phase = "preauth" /\ Refused(y, z)
    BY RefusedRead
  <1> HIDE DEF z
  <1>3. Ok(z) => Core(z) /\ Still(z) /\ Idle(z) /\ SameKeys(z)
    BY <1>1, <1>2 DEF Refused, Carried, Core, Still, Idle, SameKeys
  <1> QED  BY <1>1, <1>2, <1>3 DEF Steady, Refused, z

LEMMA AcceptedSettled ==
    ASSUME NEW x, NEW type \in AuthDecide, NEW y, NEW method, NEW sub,
           Shape(x), Shape(y), y.ret, y.m.phase = x.m.phase,
           Ok(x) /\ Ok(y) /\ x.m.phase = "preauth" => Core(y),
           Ok(y) /\ ~y.h.abandoned =>
             /\ UpdateLists(y.m.lists, y.m.method, y.m.sub) = UpdateLists(y.c.lists, method, sub)
             /\ RootDenied(y, method) <=> options.root /\ ~auth_root_allowed(y.m.method, y.m.forced)
    PROVE  LET z == monitor_read(x, type, y)
           IN  /\ Shape(z)
               /\ Ok(z) => /\ Carried(y, z) /\ Core(z) /\ Idle(z)
                           /\ y.h.abandoned => Still(z)
                           /\ ~y.h.abandoned => Agreed(z, method, sub)
  <1> DEFINE z == monitor_read(x, type, y)
             up == UpdateLists(y.m.lists, y.m.method, y.m.sub)
             uc == UpdateLists(y.c.lists, method, sub)
             denied == options.root /\ ~auth_root_allowed(y.m.method, y.m.forced)
  <1>1. Shape(z) /\ (Ok(z) => Ok(x) /\ Ok(y))
    BY ReadShape
  <1>2. Ok(z) => x.m.phase = "preauth" /\ Accepted(y, z)
    BY AcceptedRead
  <1> HIDE DEF z
  <1>3. ASSUME Ok(z)
        PROVE  /\ Carried(y, z) /\ Core(z) /\ Idle(z)
               /\ y.h.abandoned => Still(z)
               /\ ~y.h.abandoned => Agreed(z, method, sub)
    <2>1. /\ Carried(y, z) /\ up.found /\ z.m.lists = up.lists /\ z.m.phase = Verdict(up, denied)
          /\ Idle(z)
      BY <1>2, <1>3 DEF Accepted, Idle
    <2>2. Ok(x) /\ Ok(y) /\ x.m.phase = "preauth" /\ Core(y)
      BY <1>1, <1>2, <1>3
    <2>3. Typed(up.lists)
      BY <2>2, UpdateTyped DEF Core
    <2>4. Core(z)
      BY <2>1, <2>2, <2>3 DEF Core, Carried
    <2>5. ASSUME y.h.abandoned
          PROVE  Still(z)
      BY <2>1, <2>2, <2>5 DEF Still, Carried, Core, Verdict
    <2>6. ASSUME ~y.h.abandoned
          PROVE  Agreed(z, method, sub)
      <3>1. up = uc /\ (RootDenied(y, method) <=> denied)
        BY <2>2, <2>6
      <3>2. z.c = y.c
        BY <2>1 DEF Carried
      <3>3. RootDenied(z, method) <=> denied
        BY <3>1, <3>2 DEF RootDenied
      <3> HIDE DEF up, denied
      <3>4. Verdict(up, RootDenied(z, method)) = Verdict(up, denied)
        BY <3>3 DEF Verdict
      <3> QED  BY <2>1, <3>1, <3>2, <3>4 DEF Agreed
    <2> QED  BY <2>1, <2>4, <2>5, <2>6
  <1> QED  BY <1>1, <1>3 DEF z

----------------------------------------------------------------------------
(* The requests.                                                           *)

Same(x, z) ==
    /\ Shape(z)
    /\ z.c = x.c /\ z.h = x.h /\ z.m.phase = x.m.phase /\ z.m.lists = x.m.lists
    /\ z.m.valid = x.m.valid /\ z.m.used = x.m.used /\ z.m.pam = x.m.pam
    /\ z.m.authok = x.m.authok /\ z.m.forced = x.m.forced
Unmoved(x, z) ==
    /\ Shape(z)
    /\ Ok(z) => Ok(x) /\ Same(x, z) /\ x.m.phase = "preauth" /\ z.m.method = "unknown"

\* A handler that only answers leaves both sides as they are.
LEMMA SameRead ==
    ASSUME NEW x, NEW type, NEW y, type # "PAM_ACCOUNT", Shape(x), Shape(y),
           Ok(y) => Same(x, y) /\ ~y.ret
    PROVE  Unmoved(x, monitor_read(x, type, y))
  <1> DEFINE z == monitor_read(x, type, y)
  <1>1. Shape(z) /\ (Ok(z) => Ok(x) /\ Ok(y))
    BY ReadShape
  <1>2. ASSUME Ok(z)
        PROVE  Same(x, z) /\ x.m.phase = "preauth" /\ z.m.method = "unknown"
    <2>1. Same(x, y) /\ ~y.ret
      BY <1>1, <1>2
    <2>2. x.m.phase = "preauth" /\ Refused(y, z)
      BY <1>2, <2>1, RefusedRead DEF Same
    <2> HIDE DEF z
    <2> QED  BY <2>1, <2>2 DEF Same, Refused, Carried
  <1> HIDE DEF z
  <1>3. Unmoved(x, z)
    BY <1>1, <1>2 DEF Unmoved
  <1> QED  BY <1>3 DEF z

LEMMA UnmovedSteady ==
    ASSUME NEW x, NEW z, Steady(x), Unmoved(x, z)
    PROVE  Steady(z)
  BY DEF Steady, Unmoved, Same, Core, Still, Idle, SameKeys

LEMMA AnswerSame ==
    ASSUME NEW x, NEW y, NEW a, Same(x, y)
    PROVE  Same(x, Answer(y, a)) /\ ~Answer(y, a).ret
  BY DEF Same, Answer, Shape, MonFields, ChildFields

LEMMA PermitSame ==
    ASSUME NEW x, NEW y, NEW T, Same(x, y)
    PROVE  Same(x, monitor_permit(y, T))
  BY DEF Same, monitor_permit, Shape, MonFields, ChildFields

LEMMA SimpleUnmoved ==
    ASSUME NEW x, NEW style, Shape(x)
    PROVE  /\ Unmoved(x, mm_choose_dh(x)) /\ Unmoved(x, mm_key_sign(x))
           /\ Unmoved(x, mm_auth2_read_banner(x)) /\ Unmoved(x, mm_inform_authserv(x, style))
           /\ Unmoved(x, mm_start_pam(x))
  <1>1. Same(x, x)
    BY DEF Same
  <1>2. Same(x, mm_answer_moduli(x)) /\ ~mm_answer_moduli(x).ret
    BY <1>1, AnswerSame DEF mm_answer_moduli
  <1>3. Same(x, mm_answer_auth2_read_banner(x)) /\ ~mm_answer_auth2_read_banner(x).ret
    BY <1>1, AnswerSame DEF mm_answer_auth2_read_banner
  <1>4. Same(x, mm_answer_sign(x)) /\ ~mm_answer_sign(x).ret
    BY <1>1, AnswerSame, PermitSame DEF mm_answer_sign
  <1>5. Same(x, mm_answer_authserv(x, style)) /\ ~mm_answer_authserv(x, style).ret
    <2> DEFINE y == [x EXCEPT !.m.style = style]
    <2>1. Same(x, y)
      BY DEF Same, Shape, MonFields, ChildFields
    <2> HIDE DEF y
    <2> QED  BY <2>1, AnswerSame, PermitSame DEF mm_answer_authserv, monitor_permit_authentications, y
  <1> DEFINE s == mm_answer_pam_start(x)
  <1>6. Shape(s) /\ (Ok(s) => Same(x, s) /\ ~s.ret)
    <2> DEFINE T == {"PAM_ACCOUNT"} \cup
                      (IF "keyboard-interactive" \in options.enabled THEN {"PAM_INIT_CTX"} ELSE {})
               w == Answer(monitor_permit(x, T), TRUE)
    <2>1. s = Fatal(x, "UsePAM not set") \/ s = w
      BY DEF mm_answer_pam_start
    <2>2. Same(x, w) /\ ~w.ret
      BY <1>1, AnswerSame, PermitSame
    <2>3. Shape(Fatal(x, "UsePAM not set")) /\ ~Ok(Fatal(x, "UsePAM not set"))
      BY FatalKeeps DEF Keeps
    <2> HIDE DEF s, w
    <2> QED  BY <2>1, <2>2, <2>3 DEF Same
  <1> HIDE DEF s
  <1>7. Unmoved(x, mm_start_pam(x))
    BY <1>6, SameRead DEF mm_start_pam, s
  <1> QED
    BY <1>2, <1>3, <1>4, <1>5, <1>7, SameRead
       DEF mm_choose_dh, mm_key_sign, mm_auth2_read_banner, mm_inform_authserv, Same

\* The first request to the monitor looks the user up and sets the lists up.
LEMMA GetpwnamFields ==
    ASSUME NEW x, Shape(x)
    PROVE  LET z == mm_getpwnamallow(x)
           IN  /\ Shape(z)
               /\ Ok(z) => /\ Ok(x) /\ x.m.phase = "preauth" /\ z.m.phase = "preauth"
                           /\ z.c = x.c /\ z.h = x.h
                           /\ z.m.valid = options.valid /\ z.m.lists = auth2_setup_methods_lists
                           /\ z.m.used = x.m.used /\ z.m.pam = x.m.pam /\ z.m.authok = x.m.authok
                           /\ z.m.method = "unknown" /\ z.ans = options.valid
  <1> DEFINE y == [x EXCEPT !.m.attempt = 1, !.m.valid = options.valid,
                            !.m.lists = auth2_setup_methods_lists]
             T == {"AUTHSERV", "BANNER"} \cup (IF options.use_pam THEN {"PAM_START"} ELSE {})
             p == monitor_permit(y, T)
             w == Answer(p, options.valid)
             r == mm_answer_pwnamallow(x)
             z == mm_getpwnamallow(x)
  <1>1. r = Fatal(x, "multiple attempts for getpwnam") \/ r = w
    BY DEF mm_answer_pwnamallow
  <1>2. /\ Shape(y) /\ y.c = x.c /\ y.h = x.h /\ y.m.phase = x.m.phase /\ y.m.used = x.m.used
        /\ y.m.pam = x.m.pam /\ y.m.authok = x.m.authok /\ y.m.valid = options.valid
        /\ y.m.lists = auth2_setup_methods_lists
    BY DEF Shape, MonFields, ChildFields
  <1> HIDE DEF y, T
  <1>3. Same(y, y)
    BY <1>2 DEF Same
  <1>4. Same(y, w) /\ ~w.ret /\ w.ans = options.valid
    BY <1>3, AnswerSame, PermitSame DEF Answer, Same, Shape
  <1> HIDE DEF w
  <1>5. Shape(r) /\ (Ok(r) => r = w)
    BY <1>1, <1>4, FatalKeeps DEF Keeps, Same
  <1> HIDE DEF r
  <1>6. z = monitor_read(x, "PWNAM", r)
    BY DEF mm_getpwnamallow, r
  <1>7. Shape(z) /\ (Ok(z) => Ok(x) /\ Ok(r))
    BY <1>5, <1>6, ReadShape
  <1>8. ASSUME Ok(z)
        PROVE  x.m.phase = "preauth" /\ Refused(w, z)
    <2>1. r = w
      BY <1>5, <1>7, <1>8
    <2> QED  BY <1>2, <1>4, <1>5, <1>6, <1>8, <2>1, RefusedRead DEF Same
  <1> HIDE DEF z
  <1>9. Ok(z) => /\ Ok(x) /\ x.m.phase = "preauth" /\ z.m.phase = "preauth"
                 /\ z.c = x.c /\ z.h = x.h
                 /\ z.m.valid = options.valid /\ z.m.lists = auth2_setup_methods_lists
                 /\ z.m.used = x.m.used /\ z.m.pam = x.m.pam /\ z.m.authok = x.m.authok
                 /\ z.m.method = "unknown" /\ z.ans = options.valid
    BY <1>2, <1>4, <1>7, <1>8 DEF Same, Refused, Carried
  <1> QED  BY <1>7, <1>9 DEF z

LEMMA SteadySettled ==
    ASSUME NEW x, NEW method, NEW sub, Steady(x), Ok(x) => ~x.ans
    PROVE  Settled(x, method, sub)
  BY DEF Steady, Settled

LEMMA FatalSteady ==
    ASSUME NEW x, NEW why, Shape(x), why # "none"
    PROVE  Steady(Fatal(x, why)) /\ ~Ok(Fatal(x, why))
  BY FatalKeeps DEF Steady, Keeps

\* Without a restriction on root neither side refuses a method.
LEMMA NoRestriction ==
    ASSUME NEW x, NEW method, NEW n, NEW forced, ~RootRestricted
    PROVE  ~RootDenied(x, method) /\ ~(options.root /\ ~auth_root_allowed(n, forced))
  BY DEF RootRestricted, RootDenied, auth_root_allowed

\* A password: the two sides name an empty one differently, but then it is no entry
\* of a list.
LEMMA PasswordSettled ==
    ASSUME Plain, NEW x, NEW p, NEW method, Steady(x), Ok(x),
           method = "password" \/ (method = "none" /\ p = "empty")
    PROVE  /\ Settled(mm_auth_password(x, p), method, "")
           /\ mm_auth_password(x, p).c = x.c
  <1> DEFINE n == IF p = "empty" /\ x.m.calls = 0 THEN "none" ELSE "password"
             ok == auth_password(x, p)
             y == [x EXCEPT !.m.method = n, !.m.sub = "", !.m.calls = 1]
             w == Proved(y, PasswordRight(p), y.m.method, "")
             v == [w EXCEPT !.ans = ok, !.ret = ok,
                            !.h.guesses = IF ok \/ p = "empty" THEN @ ELSE @ + 1]
             r == mm_answer_authpassword(x, p)
             z == mm_auth_password(x, p)
  <1>1. Shape(x) /\ Core(x) /\ Still(x) /\ SameKeys(x)
    BY DEF Steady
  <1>2. r = Fatal(x, "password not enabled") \/ r = v
    BY DEF mm_answer_authpassword
  <1>3. Same(x, y) /\ y.m.method = n /\ y.m.sub = ""
    BY <1>1 DEF Same, Shape, MonFields, ChildFields
  <1> HIDE DEF y
  <1>4. Shape(w) /\ w.c = y.c /\ w.m = y.m /\ w.h.abandoned = y.h.abandoned
    BY <1>3 DEF Same, Shape, Proved
  <1> HIDE DEF w
  <1>5. Shape(v) /\ v.c = w.c /\ v.m = w.m /\ v.h.abandoned = w.h.abandoned
    BY <1>4 DEF Shape
  <1>a. (ok => v.ans /\ v.ret) /\ (~ok => ~v.ans /\ ~v.ret)
    <2>1. v.ans = ok /\ v.ret = ok
      BY <1>4 DEF Shape
    <2> QED  BY <2>1
  <1>6. ok => /\ ~RootRestricted
              /\ p = "empty" => options.no_password
    BY DEF auth_password, PasswordRight
  <1>7. p # "empty" => n = "password" /\ method = "password"
    OBVIOUS
  <1> HIDE DEF v, n, ok
  <1>8. /\ v.c = x.c /\ v.h.abandoned = x.h.abandoned
        /\ v.m.phase = x.m.phase /\ v.m.lists = x.m.lists /\ v.m.method = n /\ v.m.sub = ""
        /\ Core(v) /\ Still(v) /\ SameKeys(v)
    BY <1>1, <1>3, <1>4, <1>5 DEF Same, Core, Still, SameKeys
  <1>b. Shape(Fatal(x, "password not enabled")) /\ ~Ok(Fatal(x, "password not enabled"))
    BY <1>1, FatalKeeps DEF Keeps
  <1>9. Shape(r) /\ (Ok(r) => r = v)
    BY <1>2, <1>5, <1>b
  <1>10. Shape(z) /\ z.c = x.c
    <2>1. PasswordEffect(x, z, p)
      BY <1>1, PasswordRequest
    <2> QED  BY <2>1 DEF PasswordEffect, Frame
  <1>11. z = monitor_read(x, "AUTHPASSWORD", r)
    BY DEF mm_auth_password
  <1> HIDE DEF r
  <1>12. Shape(z) /\ z.c = x.c /\ (Ok(z) => Ok(x) /\ Ok(r) /\ r = v)
    BY <1>1, <1>9, <1>10, <1>11, ReadShape
  <1>13. ASSUME Ok(z), ~ok
         PROVE  Settled(z, method, "")
    <2>1. r = v /\ ~v.ret /\ ~v.ans
      BY <1>a, <1>12, <1>13
    <2>2. z = monitor_read(x, "AUTHPASSWORD", v)
      BY <1>11, <2>1
    <2> HIDE DEF z
    <2>3. Steady(z) /\ Carried(v, z)
      BY <1>1, <1>5, <1>8, <1>13, <2>1, <2>2, RefusedSteady
    <2>4. ~z.ans
      BY <2>1, <2>3 DEF Carried
    <2> QED  BY <2>3, <2>4, SteadySettled
  <1>14. ASSUME Ok(z), ok
         PROVE  Settled(z, method, "")
    <2>1. r = v /\ v.ret /\ v.ans
      BY <1>a, <1>12, <1>14
    <2>2. ~v.h.abandoned =>
            UpdateLists(v.m.lists, v.m.method, v.m.sub) = UpdateLists(v.c.lists, method, "")
      <3>1. ~v.h.abandoned => v.m.lists = v.c.lists
        BY <1>8 DEF Still
      <3>2. CASE p = "empty"
        BY <1>6, <1>14, <3>1, <3>2 DEF Plain, UpdateLists
      <3>3. CASE p # "empty"
        BY <1>7, <1>8, <3>1, <3>3
      <3> QED  BY <3>2, <3>3
    <2>3. RootDenied(v, method) <=> options.root /\ ~auth_root_allowed(v.m.method, v.m.forced)
      BY <1>6, <1>14, NoRestriction
    <2>4. "AUTHPASSWORD" \in AuthDecide
      BY DEF AuthDecide
    <2>5. LET q == monitor_read(x, "AUTHPASSWORD", v)
          IN  /\ Shape(q)
              /\ Ok(q) => /\ Carried(v, q) /\ Core(q) /\ Idle(q)
                          /\ v.h.abandoned => Still(q)
                          /\ ~v.h.abandoned => Agreed(q, method, "")
      BY <1>1, <1>5, <1>8, <2>1, <2>2, <2>3, <2>4, AcceptedSettled
    <2>6. z = monitor_read(x, "AUTHPASSWORD", v)
      BY <1>11, <2>1
    <2> HIDE DEF z
    <2>7. /\ Carried(v, z) /\ Core(z) /\ Idle(z)
          /\ v.h.abandoned => Still(z)
          /\ ~v.h.abandoned => Agreed(z, method, "")
      BY <1>14, <2>5, <2>6
    <2>8. z.h = v.h /\ z.ans /\ SameKeys(z)
      BY <1>8, <2>1, <2>7 DEF Carried, SameKeys
    <2> QED  BY <1>12, <2>7, <2>8 DEF Settled
  <1> HIDE DEF z
  <1>15. Settled(z, method, "")
    BY <1>12, <1>13, <1>14 DEF Settled
  <1> QED  BY <1>12, <1>15 DEF z

\* A key: the child has the forced command that the monitor has.
LEMMA KeyAllowedSteady ==
    ASSUME NEW x, NEW type, NEW key, NEW attempt, Steady(x), Ok(x)
    PROVE  LET z == mm_key_allowed(x, type, key, attempt)
           IN  /\ Steady(z)
               /\ Ok(z) => z.c.forced = z.m.forced /\ (z.ans => z.m.key.type = type)
  <1> DEFINE on == IF type = "user" THEN "publickey" ELSE "hostbased"
             allowed == /\ x.m.valid /\ on \in options.enabled
                        /\ IF type = "user"
                           THEN /\ ~auth2_userkey_already_used(x.m.used, key)
                                /\ key \in options.keys
                           ELSE key \in options.hostkeys
             forced == IF x.m.valid /\ type = "user" /\ on \in options.enabled
                       THEN allowed /\ attempt /\ key \in options.forced
                       ELSE x.m.forced
             y == [x EXCEPT !.m.forced = forced,
                            !.m.method = IF x.m.valid THEN on ELSE @,
                            !.m.key = IF allowed THEN [k |-> key, type |-> type] ELSE NoKey]
             r == mm_answer_keyallowed(x, type, key, attempt)
             q == monitor_read(x, "KEYALLOWED", r)
             z == mm_key_allowed(x, type, key, attempt)
  <1>1. Shape(x) /\ Core(x) /\ Still(x) /\ SameKeys(x)
    BY DEF Steady
  <1>2. r = Answer(y, allowed)
    BY DEF mm_answer_keyallowed
  <1>3. KeyAllowedEffect(x, z, type, key)
    BY <1>1, KeyAllowedRequest
  <1> HIDE DEF forced, on, allowed
  <1>4. /\ Shape(y) /\ y.c = x.c /\ y.h = x.h /\ y.m.phase = x.m.phase /\ y.m.lists = x.m.lists
        /\ y.m.valid = x.m.valid /\ y.m.used = x.m.used /\ y.m.pam = x.m.pam
        /\ y.m.authok = x.m.authok
    BY <1>1 DEF Shape, MonFields, ChildFields
  <1> HIDE DEF y, r
  <1>5. Shape(r) /\ r.c = y.c /\ r.h = y.h /\ r.m = y.m /\ ~r.ret
    BY <1>2, <1>4 DEF Answer, Shape, MonFields, ChildFields
  <1>6. Core(r) /\ Still(r) /\ SameKeys(r) /\ r.m.phase = x.m.phase
    BY <1>1, <1>4, <1>5 DEF Core, Still, SameKeys
  <1>7. Steady(q)
    BY <1>1, <1>5, <1>6, RefusedSteady
  <1>8. z = TakeForced(q)
    BY DEF mm_key_allowed, r
  <1> HIDE DEF q, z
  <1>9. /\ Shape(z) /\ z.m = q.m /\ z.h = q.h /\ z.err = q.err
        /\ z.c.forced = q.m.forced /\ z.c.used = q.c.used /\ z.c.valid = q.c.valid
        /\ z.c.success = q.c.success /\ z.c.kbdint = q.c.kbdint /\ z.c.lists = q.c.lists
    BY <1>7, <1>8 DEF Steady, TakeForced, Shape, ChildFields
  <1>10. Steady(z)
    BY <1>7, <1>9 DEF Steady, Core, Still, Idle, SameKeys, Ok
  <1>11. Ok(z) /\ z.ans => z.m.key.type = type
    BY <1>3 DEF KeyAllowedEffect
  <1> QED  BY <1>9, <1>10, <1>11 DEF z

\* A signature: both sides enter the key, the monitor before the child.
LEMMA KeyVerifySettled ==
    ASSUME NEW x, NEW type \in {"user", "host"}, NEW key, NEW good \in BOOLEAN, Steady(x), Ok(x),
           x.c.forced = x.m.forced, x.m.key.type = type
    PROVE  LET z == mm_key_verify(x, key, good)
               method == MethodOf(type)
           IN  /\ Shape(z) /\ z.c = x.c
               /\ Ok(z) => /\ z.ans = good
                           /\ ~good => Steady(z)
                           /\ good => /\ Core(z) /\ Idle(z)
                                      /\ z.m.used = IF type = "user" THEN x.m.used \cup {key}
                                                    ELSE x.m.used
                                      /\ z.h.abandoned => Still(z)
                                      /\ ~z.h.abandoned => Agreed(z, method, "")
  <1> DEFINE user == x.m.key.type = "user"
             method == IF user THEN "publickey" ELSE "hostbased"
             theirs == key \in IF user THEN options.keys ELSE options.hostkeys
             w == Proved(x, good /\ theirs, method, key)
             v == [w EXCEPT !.ans = good, !.ret = good, !.m.method = method, !.m.sub = "",
                            !.m.key = NoKey,
                            !.m.used = IF good /\ user THEN @ \cup {key} ELSE @]
             r == mm_answer_keyverify(x, key, good)
             z == mm_key_verify(x, key, good)
  <1>1. Shape(x) /\ Core(x) /\ Still(x) /\ SameKeys(x)
    BY DEF Steady
  <1>2. \/ r = Fatal(x, "bad key, not previously allowed")
        \/ r = Fatal(x, "bad signature data blob")
        \/ r = v
    BY DEF mm_answer_keyverify
  <1>3. Shape(w) /\ w.c = x.c /\ w.m = x.m /\ w.h.abandoned = x.h.abandoned
    BY <1>1 DEF Shape, Proved
  <1>4. method = MethodOf(type) /\ (user <=> type = "user")
    BY DEF MethodOf
  <1> HIDE DEF w, method, user
  <1>5. /\ Shape(v) /\ v.c = w.c /\ v.h = w.h /\ v.m.phase = w.m.phase /\ v.m.lists = w.m.lists
        /\ v.m.valid = w.m.valid /\ v.m.pam = w.m.pam /\ v.m.authok = w.m.authok
        /\ v.m.forced = w.m.forced /\ v.m.method = method /\ v.m.sub = ""
        /\ v.m.used = IF good /\ user THEN w.m.used \cup {key} ELSE w.m.used
    BY <1>3 DEF Shape, MonFields, ChildFields
  <1>6. v.ans = good /\ v.ret = good
    BY <1>3 DEF Shape
  <1> HIDE DEF v
  <1>7. /\ v.c = x.c /\ v.h.abandoned = x.h.abandoned /\ v.m.phase = x.m.phase
        /\ v.m.lists = x.m.lists /\ v.m.forced = x.m.forced
        /\ v.m.used = IF good /\ type = "user" THEN x.m.used \cup {key} ELSE x.m.used
    BY <1>3, <1>4, <1>5
  <1>8. Core(v) /\ Still(v) /\ (~good => SameKeys(v))
    BY <1>1, <1>3, <1>5, <1>7 DEF Core, Still, SameKeys
  <1>9. ASSUME NEW why, why # "none"
        PROVE  Shape(Fatal(x, why)) /\ ~Ok(Fatal(x, why))
    BY <1>1, <1>9, FatalKeeps DEF Keeps
  <1>10. Shape(r) /\ (Ok(r) => r = v)
    BY <1>2, <1>5, <1>9
  <1>11. Shape(z) /\ z.c = x.c
    <2>1. KeyVerifyEffect(x, z, key)
      BY <1>1, KeyVerifyRequest
    <2> QED  BY <2>1 DEF KeyVerifyEffect, Frame
  <1>12. z = monitor_read(x, "KEYVERIFY", r)
    BY DEF mm_key_verify
  <1> HIDE DEF r
  <1>13. Ok(z) => r = v
    BY <1>1, <1>10, <1>12, ReadShape
  <1> HIDE DEF z
  <1>14. ASSUME Ok(z), ~good
         PROVE  z.ans = good /\ Steady(z)
    <2>1. z = monitor_read(x, "KEYVERIFY", v) /\ ~v.ret
      BY <1>6, <1>12, <1>13, <1>14
    <2>2. Steady(z) /\ Carried(v, z)
      BY <1>1, <1>5, <1>7, <1>8, <1>14, <2>1, RefusedSteady
    <2> QED  BY <1>6, <2>2 DEF Carried
  <1>15. ASSUME Ok(z), good
         PROVE  /\ z.ans = good /\ Core(z) /\ Idle(z)
                /\ z.m.used = IF type = "user" THEN x.m.used \cup {key} ELSE x.m.used
                /\ z.h.abandoned => Still(z)
                /\ ~z.h.abandoned => Agreed(z, MethodOf(type), "")
    <2>1. z = monitor_read(x, "KEYVERIFY", v) /\ v.ret
      BY <1>6, <1>12, <1>13, <1>15
    <2>2. ~v.h.abandoned =>
            /\ UpdateLists(v.m.lists, v.m.method, v.m.sub) = UpdateLists(v.c.lists, method, "")
            /\ RootDenied(v, method) <=> options.root /\ ~auth_root_allowed(v.m.method, v.m.forced)
      <3>1. ~v.h.abandoned => v.m.lists = v.c.lists
        BY <1>8 DEF Still
      <3>2. v.c.forced = v.m.forced
        BY <1>7
      <3> QED  BY <1>5, <3>1, <3>2 DEF RootDenied
    <2>3. "KEYVERIFY" \in AuthDecide
      BY DEF AuthDecide
    <2>4. LET q == monitor_read(x, "KEYVERIFY", v)
          IN  /\ Shape(q)
              /\ Ok(q) => /\ Carried(v, q) /\ Core(q) /\ Idle(q)
                          /\ v.h.abandoned => Still(q)
                          /\ ~v.h.abandoned => Agreed(q, method, "")
      BY <1>1, <1>5, <1>7, <1>8, <2>1, <2>2, <2>3, AcceptedSettled
    <2>5. /\ Carried(v, z) /\ Core(z) /\ Idle(z)
          /\ v.h.abandoned => Still(z)
          /\ ~v.h.abandoned => Agreed(z, method, "")
      BY <1>15, <2>1, <2>4
    <2>6. z.h = v.h /\ z.ans = v.ans /\ z.m.used = v.m.used
      BY <2>5 DEF Carried
    <2> QED  BY <1>4, <1>6, <1>7, <1>15, <2>5, <2>6
  <1> QED  BY <1>11, <1>14, <1>15 DEF z

\* What the child does with a refusal.
LEMMA ResultSteady ==
    ASSUME NEW x, Steady(x)
    PROVE  Steady(Result(x, FALSE)) /\ ~Result(x, FALSE).ans
  <1> DEFINE y == Result(x, FALSE)
  <1>1. Shape(y) /\ y.m = x.m /\ y.c = x.c /\ y.h = x.h /\ y.err = x.err /\ y.ans = FALSE
    BY DEF Result, Steady, Shape
  <1> HIDE DEF y
  <1>2. Steady(y) /\ ~y.ans
    BY <1>1 DEF Steady, Core, Still, Idle, SameKeys, Ok
  <1> QED  BY <1>2 DEF y

LEMMA ClearSteady ==
    ASSUME NEW x, NEW b, Steady(x)
    PROVE  /\ Steady(Clear(x)) /\ ~Clear(x).ans
           /\ Steady([Clear(x) EXCEPT !.c.postponed = b]) /\ ~[Clear(x) EXCEPT !.c.postponed = b].ans
  <1> DEFINE e == Result(x, FALSE)
             y == Clear(x)
             z == [y EXCEPT !.c.postponed = b]
  <1>1. Steady(e) /\ ~e.ans /\ y = [e EXCEPT !.c.forced = FALSE]
    BY ResultSteady DEF Clear
  <1> HIDE DEF e, y
  <1>2. /\ Shape(y) /\ y.m = e.m /\ y.h = e.h /\ y.err = e.err /\ y.ans = e.ans
        /\ y.c.used = e.c.used /\ y.c.valid = e.c.valid
        /\ y.c.success = e.c.success /\ y.c.kbdint = e.c.kbdint /\ y.c.lists = e.c.lists
    BY <1>1 DEF Steady, Shape, ChildFields
  <1>3. Steady(y) /\ ~y.ans
    BY <1>1, <1>2 DEF Steady, Core, Still, Idle, SameKeys, Ok
  <1>4. /\ Shape(z) /\ z.m = y.m /\ z.h = y.h /\ z.err = y.err /\ z.ans = y.ans
        /\ z.c.used = y.c.used /\ z.c.valid = y.c.valid
        /\ z.c.success = y.c.success /\ z.c.kbdint = y.c.kbdint /\ z.c.lists = y.c.lists
    BY <1>3 DEF Steady, Shape, ChildFields
  <1> HIDE DEF z
  <1>5. Steady(z) /\ ~z.ans
    BY <1>3, <1>4 DEF Steady, Core, Still, Idle, SameKeys, Ok
  <1> QED  BY <1>3, <1>5 DEF y, z

\* The methods with keys.
LEMMA PubkeySettled ==
    ASSUME NEW x, NEW in, Steady(x), Ok(x)
    PROVE  Settled(userauth_pubkey(x, in), "publickey", "")
  <1> DEFINE att == in.sig # "absent"
             good == in.sig = "good"
             y == mm_key_allowed(x, "user", in.key, att)
             z == mm_key_verify(y, in.key, good)
             u == [z EXCEPT !.c.used = @ \cup {in.key}]
             b == Ok(y) /\ y.ans
             w == userauth_pubkey(x, in)
  <1>1. \/ w = Result(x, FALSE) \/ w = Clear(y)
        \/ w = [Clear(y) EXCEPT !.c.postponed = b]
        \/ Ok(y) /\ y.ans /\ ~(Ok(z) /\ z.ans) /\ w = Clear(z)
        \/ Ok(y) /\ y.ans /\ Ok(z) /\ z.ans /\ w = u
    BY DEF userauth_pubkey, KeyAllowed, KeyVerified
  <1>2. good \in BOOLEAN
    OBVIOUS
  <1> HIDE DEF att, good
  <1>3. Steady(y) /\ (Ok(y) => y.c.forced = y.m.forced /\ (y.ans => y.m.key.type = "user"))
    BY KeyAllowedSteady
  <1> HIDE DEF y, b, w
  <1>4. Settled(Result(x, FALSE), "publickey", "")
    BY ResultSteady, SteadySettled
  <1>5. Settled(Clear(y), "publickey", "") /\ Settled([Clear(y) EXCEPT !.c.postponed = b], "publickey", "")
    BY <1>3, ClearSteady, SteadySettled
  <1>6. ASSUME Ok(y), y.ans
        PROVE  /\ Shape(z) /\ z.c = y.c
               /\ Ok(z) => /\ z.ans = good
                           /\ ~good => Steady(z)
                           /\ good => /\ Core(z) /\ Idle(z) /\ z.m.used = y.m.used \cup {in.key}
                                      /\ z.h.abandoned => Still(z)
                                      /\ ~z.h.abandoned => Agreed(z, "publickey", "")
    <2>1. MethodOf("user") = "publickey"
      BY DEF MethodOf
    <2>2. LET method == MethodOf("user")
          IN  /\ Shape(z) /\ z.c = y.c
              /\ Ok(z) => /\ z.ans = good
                          /\ ~good => Steady(z)
                          /\ good => /\ Core(z) /\ Idle(z)
                                     /\ z.m.used = IF "user" = "user" THEN y.m.used \cup {in.key}
                                                   ELSE y.m.used
                                     /\ z.h.abandoned => Still(z)
                                     /\ ~z.h.abandoned => Agreed(z, method, "")
      BY <1>2, <1>3, <1>6, KeyVerifySettled
    <2> HIDE DEF z
    <2> QED  BY <2>1, <2>2
  <1> HIDE DEF z
  <1>7. ASSUME Ok(y), y.ans, ~(Ok(z) /\ z.ans)
        PROVE  Settled(Clear(z), "publickey", "")
    <2>1. Steady(z)
      BY <1>6, <1>7 DEF Steady
    <2> QED  BY <2>1, ClearSteady, SteadySettled
  <1>8. ASSUME Ok(y), y.ans, Ok(z), z.ans
        PROVE  Settled(u, "publickey", "")
    <2>1. good
      BY <1>2, <1>6, <1>8
    <2>2. /\ Core(z) /\ Idle(z) /\ z.m.used = y.m.used \cup {in.key}
          /\ z.h.abandoned => Still(z)
          /\ ~z.h.abandoned => Agreed(z, "publickey", "")
      BY <1>6, <1>8, <2>1
    <2>3. /\ Shape(u) /\ u.m = z.m /\ u.h = z.h /\ u.err = z.err /\ u.ans = z.ans
          /\ u.c.used = z.c.used \cup {in.key} /\ u.c.valid = z.c.valid /\ u.c.forced = z.c.forced
          /\ u.c.success = z.c.success /\ u.c.kbdint = z.c.kbdint /\ u.c.lists = z.c.lists
      BY <1>6, <1>8 DEF Shape, ChildFields
    <2> HIDE DEF u
    <2>4. SameKeys(u)
      BY <1>3, <1>6, <1>8, <2>2, <2>3 DEF Steady, SameKeys
    <2>5. Core(u) /\ Idle(u) /\ (u.h.abandoned => Still(u))
      BY <2>2, <2>3 DEF Core, Idle, Still
    <2>6. ~u.h.abandoned => Agreed(u, "publickey", "")
      BY <2>2, <2>3 DEF Agreed, RootDenied
    <2> QED  BY <1>8, <2>3, <2>4, <2>5, <2>6 DEF Settled
  <1> HIDE DEF u
  <1>9. Settled(w, "publickey", "")
    BY <1>1, <1>4, <1>5, <1>7, <1>8
  <1> QED  BY <1>9 DEF w

LEMMA HostbasedSettled ==
    ASSUME NEW x, NEW in, Steady(x), Ok(x)
    PROVE  Settled(userauth_hostbased(x, in), "hostbased", "")
  <1> DEFINE good == in.sig = "good"
             y == mm_key_allowed(x, "host", in.key, FALSE)
             z == mm_key_verify(y, in.key, good)
             w == userauth_hostbased(x, in)
  <1>1. w = Result(x, FALSE) \/ w = Result(y, FALSE) \/ (Ok(y) /\ y.ans /\ w = z)
    BY DEF userauth_hostbased, HostKeyAllowed
  <1>2. good \in BOOLEAN
    OBVIOUS
  <1> HIDE DEF good
  <1>3. Steady(y) /\ (Ok(y) => y.c.forced = y.m.forced /\ (y.ans => y.m.key.type = "host"))
    <2>1. ASSUME NEW a
          PROVE  LET v == mm_key_allowed(x, "host", in.key, a)
                 IN  /\ Steady(v)
                     /\ Ok(v) => v.c.forced = v.m.forced /\ (v.ans => v.m.key.type = "host")
      BY KeyAllowedSteady
    <2> QED  BY <2>1, Zenon
  <1> HIDE DEF y, w
  <1>4. Settled(Result(x, FALSE), "hostbased", "") /\ Settled(Result(y, FALSE), "hostbased", "")
    BY <1>3, ResultSteady, SteadySettled
  <1>5. ASSUME Ok(y), y.ans
        PROVE  Settled(z, "hostbased", "")
    <2>1. MethodOf("host") = "hostbased" /\ "host" # "user"
      BY DEF MethodOf
    <2>2. LET method == MethodOf("host")
          IN  /\ Shape(z) /\ z.c = y.c
              /\ Ok(z) => /\ z.ans = good
                          /\ ~good => Steady(z)
                          /\ good => /\ Core(z) /\ Idle(z)
                                     /\ z.m.used = IF "host" = "user" THEN y.m.used \cup {in.key}
                                                   ELSE y.m.used
                                     /\ z.h.abandoned => Still(z)
                                     /\ ~z.h.abandoned => Agreed(z, method, "")
      BY <1>2, <1>3, <1>5, KeyVerifySettled
    <2> HIDE DEF z
    <2>3. CASE Ok(z) /\ good
      <3>1. SameKeys(z)
        BY <1>3, <1>5, <2>1, <2>2, <2>3 DEF Steady, SameKeys
      <3>2. z.ans
        BY <2>2, <2>3
      <3> QED  BY <2>1, <2>2, <2>3, <3>1, <3>2 DEF Settled
    <2>4. CASE Ok(z) /\ ~good
      BY <2>2, <2>4, SteadySettled
    <2>5. CASE ~Ok(z)
      BY <2>2, <2>5 DEF Settled
    <2> QED  BY <1>2, <2>3, <2>4, <2>5
  <1> HIDE DEF z
  <1>6. Settled(w, "hostbased", "")
    BY <1>1, <1>4, <1>5
  <1> QED  BY <1>6 DEF w

----------------------------------------------------------------------------
(* The conversation with PAM.                                              *)

LEMMA InitSteady ==
    ASSUME NEW x, Steady(x), Ok(x)
    PROVE  Steady(mm_sshpam_init_ctx(x)) /\ mm_sshpam_init_ctx(x).c = x.c
  <1> DEFINE ctx == sshpam_init_ctx(x)
             y == [x EXCEPT !.m.pam = ctx, !.m.authok = FALSE]
             w == monitor_permit(y, {"PAM_FREE_CTX", "PAM_QUERY"})
             r == mm_answer_pam_init_ctx(x)
             z == mm_sshpam_init_ctx(x)
  <1>1. Shape(x) /\ Core(x) /\ Still(x) /\ SameKeys(x)
    BY DEF Steady
  <1>2. \/ r = Fatal(x, "kbd-int not enabled") \/ r = Fatal(x, "already called")
        \/ r = Answer(y, FALSE) \/ r = Answer(w, TRUE)
    BY DEF mm_answer_pam_init_ctx
  <1>3. ctx # "done"
    BY DEF sshpam_init_ctx
  <1> HIDE DEF ctx
  <1>4. /\ Shape(y) /\ y.c = x.c /\ y.h = x.h /\ y.m.phase = x.m.phase /\ y.m.lists = x.m.lists
        /\ y.m.valid = x.m.valid /\ y.m.used = x.m.used /\ y.m.pam = ctx /\ ~y.m.authok
    BY <1>1 DEF Shape, MonFields, ChildFields
  <1> HIDE DEF y
  <1>5. Same(y, y)
    BY <1>4 DEF Same
  <1>6. /\ Same(y, Answer(y, FALSE)) /\ ~Answer(y, FALSE).ret
        /\ Same(y, Answer(w, TRUE)) /\ ~Answer(w, TRUE).ret
    BY <1>5, AnswerSame, PermitSame
  <1> HIDE DEF w
  <1>7. ASSUME NEW why, why # "none"
        PROVE  Shape(Fatal(x, why)) /\ ~Ok(Fatal(x, why))
    BY <1>1, <1>7, FatalKeeps DEF Keeps
  <1>8. Shape(r) /\ (Ok(r) => Same(y, r) /\ ~r.ret)
    BY <1>2, <1>6, <1>7 DEF Same
  <1>9. Shape(z) /\ z.c = x.c
    <2>1. InitEffect(x, z)
      BY <1>1, InitRequest
    <2> QED  BY <2>1 DEF InitEffect, Frame
  <1>10. z = monitor_read(x, "PAM_INIT_CTX", r)
    BY DEF mm_sshpam_init_ctx
  <1> HIDE DEF r, z
  <1>11. Ok(z) => Ok(r)
    BY <1>1, <1>8, <1>10, ReadShape
  <1>12. ASSUME Ok(r)
         PROVE  Core(r) /\ Still(r) /\ SameKeys(r) /\ r.m.phase = x.m.phase
    BY <1>1, <1>3, <1>4, <1>8, <1>12 DEF Same, Core, Still, SameKeys
  <1>13. Ok(z) => Steady(z)
    BY <1>1, <1>8, <1>10, <1>11, <1>12, RefusedSteady
  <1> QED  BY <1>9, <1>13 DEF Steady, z

\* A query that fails leaves nothing that the monitor could count.
LEMMA QuerySteady ==
    ASSUME NEW x, NEW r, Steady(x), Ok(x), options.use_pam
    PROVE  LET z == mm_sshpam_query(x, r)
           IN  Steady(z) /\ z.c = x.c /\ (Ok(z) /\ ~z.ans => ~z.m.authok)
  <1> DEFINE w == Proved(x, r = "success", "keyboard-interactive", "")
             ctx == CASE r = "prompt" -> x.m.pam [] r = "success" -> "done" [] OTHER -> "failed"
             acc == CASE r = "success" -> "ok" [] r \in {"expired", "expired+text"} -> "denied"
                      [] OTHER -> x.m.account
             y == [w EXCEPT !.m.pam = ctx, !.m.account = acc]
             s == sshpam_query(x, r)
             more == ~QueryFails(r)
             auth == more /\ r # "prompt"
             k == [s EXCEPT !.m.authok = auth, !.m.method = "keyboard-interactive", !.m.sub = "pam"]
             v == monitor_permit(k, {"PAM_RESPOND"})
             u == Answer(v, more)
             a == mm_answer_pam_query(x, r)
             z == mm_sshpam_query(x, r)
  <1>1. Shape(x) /\ Core(x) /\ Still(x) /\ SameKeys(x)
    BY DEF Steady
  <1>2. Shape(w) /\ w.c = x.c /\ w.m = x.m /\ w.h.abandoned = x.h.abandoned
    BY <1>1 DEF Shape, Proved
  <1>3. \/ s = Fatal(x, "PAM auth succeeded when it should have failed")
        \/ s = y /\ (r = "success" => x.m.valid /\ ~RootRestricted)
    BY <1>2 DEF sshpam_query
  <1>4. a = Fatal(x, "no context") \/ (a = s /\ ~Ok(s)) \/ (a = u /\ Ok(s))
    BY DEF mm_answer_pam_query
  <1>5. ctx = "done" => r = "success" \/ x.m.pam = "done"
    OBVIOUS
  <1> HIDE DEF w, ctx, acc
  <1>6. /\ Shape(y) /\ y.c = w.c /\ y.h = w.h /\ y.m.phase = w.m.phase /\ y.m.lists = w.m.lists
        /\ y.m.valid = w.m.valid /\ y.m.used = w.m.used /\ y.m.pam = ctx
    BY <1>2 DEF Shape, MonFields, ChildFields
  <1> HIDE DEF y, s
  <1>7. Shape(s)
    BY <1>1, <1>3, <1>6, FatalKeeps DEF Keeps
  <1>8. ASSUME Ok(s)
        PROVE  s = y /\ (s.m.pam = "done" => x.m.valid /\ ~RootRestricted)
    <2>1. ~Ok(Fatal(x, "PAM auth succeeded when it should have failed"))
      BY <1>1, FatalKeeps
    <2> QED  BY <1>1, <1>3, <1>5, <1>6, <1>8, <2>1 DEF Core
  <1> HIDE DEF more
  <1>9. ~more => ~auth
    OBVIOUS
  <1> HIDE DEF auth
  <1>10. /\ Shape(k) /\ k.c = s.c /\ k.h = s.h /\ k.m.phase = s.m.phase /\ k.m.lists = s.m.lists
         /\ k.m.valid = s.m.valid /\ k.m.used = s.m.used /\ k.m.pam = s.m.pam /\ k.m.authok = auth
    BY <1>7 DEF Shape, MonFields, ChildFields
  <1> HIDE DEF k
  <1>11. Same(k, u) /\ ~u.ret /\ u.ans = more
    <2>1. Same(k, k)
      BY <1>10 DEF Same
    <2>2. Same(k, v)
      BY <2>1, PermitSame
    <2> HIDE DEF v
    <2>3. u.ans = more
      BY <2>2 DEF Answer, Same, Shape
    <2> QED  BY <2>2, <2>3, AnswerSame
  <1> HIDE DEF u
  <1>12. Shape(a) /\ (Ok(a) => a = u /\ Ok(s))
    <2>1. Shape(Fatal(x, "no context")) /\ ~Ok(Fatal(x, "no context"))
      BY <1>1, FatalKeeps DEF Keeps
    <2> QED  BY <1>4, <1>7, <1>11, <2>1 DEF Same
  <1>13. Shape(z) /\ z.c = x.c
    <2>1. QueryEffect(x, z)
      BY <1>1, QueryRequest
    <2> QED  BY <2>1 DEF QueryEffect, Frame
  <1>14. z = monitor_read(x, "PAM_QUERY", a)
    BY DEF mm_sshpam_query
  <1> HIDE DEF a, z
  <1>15. Ok(z) => Ok(a)
    BY <1>1, <1>12, <1>14, ReadShape
  <1>16. ASSUME Ok(a)
         PROVE  /\ Core(a) /\ Still(a) /\ SameKeys(a) /\ a.m.phase = x.m.phase /\ ~a.ret
                /\ a.ans \/ ~a.m.authok
    <2>1. a = u /\ Ok(s) /\ s = y /\ (s.m.pam = "done" => x.m.valid /\ ~RootRestricted)
      BY <1>8, <1>12, <1>16
    <2>2. /\ a.c = x.c /\ a.h.abandoned = x.h.abandoned /\ a.m.phase = x.m.phase
          /\ a.m.lists = x.m.lists /\ a.m.valid = x.m.valid /\ a.m.used = x.m.used
          /\ a.m.pam = s.m.pam /\ ~a.ret
      BY <1>2, <1>6, <1>10, <1>11, <2>1 DEF Same
    <2>3. a.ans \/ ~a.m.authok
      BY <1>9, <1>10, <1>11, <2>1 DEF Same
    <2>4. Core(a) /\ Still(a) /\ SameKeys(a)
      BY <1>1, <2>1, <2>2 DEF Core, Still, SameKeys
    <2> QED  BY <2>2, <2>3, <2>4
  <1>17. Ok(z) => Steady(z) /\ Carried(a, z)
    BY <1>1, <1>12, <1>14, <1>15, <1>16, RefusedSteady
  <1>18. Ok(z) /\ ~z.ans => ~z.m.authok
    BY <1>15, <1>16, <1>17 DEF Carried
  <1> QED  BY <1>13, <1>17, <1>18 DEF Steady, z

\* The user's answer: the monitor knows the verdict before the child does.
LEMMA RespondSteady ==
    ASSUME NEW x, NEW n, Steady(x), Ok(x), options.use_pam
    PROVE  LET z == mm_sshpam_respond(x, n)
           IN  /\ Steady(z) /\ z.c = x.c
               /\ Ok(z) => /\ z.m.authok <=> z.res = 0
                           /\ z.res = 0 => z.m.pam = "done"
  <1> DEFINE d == sshpam_respond(x, n)
             y == [x EXCEPT !.m.authok = d = 0, !.m.method = "keyboard-interactive",
                            !.m.sub = "pam", !.res = d, !.ret = FALSE]
             r == mm_answer_pam_respond(x, n)
             z == mm_sshpam_respond(x, n)
  <1>1. Shape(x) /\ Core(x) /\ Still(x) /\ SameKeys(x)
    BY DEF Steady
  <1>2. d = 0 => x.m.pam = "done"
    BY DEF sshpam_respond
  <1>3. r = Fatal(x, "no context") \/ r = y
    BY DEF mm_answer_pam_respond
  <1> HIDE DEF d
  <1>4. /\ Shape(y) /\ y.c = x.c /\ y.h = x.h /\ y.m.phase = x.m.phase /\ y.m.lists = x.m.lists
        /\ y.m.valid = x.m.valid /\ y.m.used = x.m.used /\ y.m.pam = x.m.pam
        /\ y.res = d /\ ~y.ret
    BY <1>1 DEF Shape, MonFields, ChildFields
  <1>5. y.m.authok <=> d = 0
    BY <1>1 DEF Shape, MonFields, ChildFields
  <1> HIDE DEF y
  <1>6. Shape(r) /\ (Ok(r) => r = y)
    BY <1>1, <1>3, <1>4, FatalKeeps DEF Keeps
  <1>7. Shape(z) /\ z.c = x.c
    <2>1. RespondEffect(x, z)
      BY <1>1, RespondRequest
    <2> QED  BY <2>1 DEF RespondEffect, Quiet, Frame
  <1>8. z = monitor_read(x, "PAM_RESPOND", r)
    BY DEF mm_sshpam_respond
  <1> HIDE DEF r, z
  <1>9. Ok(z) => r = y
    BY <1>1, <1>6, <1>8, ReadShape
  <1>10. Core(y) /\ Still(y) /\ SameKeys(y)
    BY <1>1, <1>4 DEF Core, Still, SameKeys
  <1>11. ASSUME Ok(z)
         PROVE  Steady(z) /\ Carried(y, z)
    <2>1. z = monitor_read(x, "PAM_RESPOND", y)
      BY <1>8, <1>9, <1>11
    <2> QED  BY <1>1, <1>4, <1>10, <1>11, <2>1, RefusedSteady
  <1>12. ASSUME Ok(z)
         PROVE  (z.m.authok <=> z.res = 0) /\ (z.res = 0 => z.m.pam = "done")
    <2>1. z.m.authok = y.m.authok /\ z.res = d /\ z.m.pam = x.m.pam
      BY <1>4, <1>11, <1>12 DEF Carried
    <2> QED  BY <1>2, <1>5, <2>1
  <1> QED  BY <1>7, <1>11, <1>12 DEF Steady, z

\* The end of a conversation: the monitor counts it when PAM has sent something
\* without a prompt.
Ended(x, z) ==
    /\ Shape(z)
    /\ Ok(z) => /\ Ok(x) /\ z.h = x.h /\ z.c.valid = x.c.valid
                /\ ~x.m.authok \/ x.h.abandoned => Steady(z)
                /\ x.m.authok /\ ~x.h.abandoned =>
                     /\ Core(z) /\ Idle(z) /\ SameKeys(z)
                     /\ Agreed(z, "keyboard-interactive", "pam")

\* The end of a conversation is where the monitor counts it.
LEMMA FreeEnded ==
    ASSUME NEW x, Steady(x), Ok(x), x.m.authok /\ ~x.h.abandoned => ~RootRestricted
    PROVE  Ended(x, mm_sshpam_free_ctx(x)) /\ mm_sshpam_free_ctx(x).c = x.c
  <1> DEFINE ki == "keyboard-interactive"
             y == [x EXCEPT !.ret = x.m.authok, !.ans = TRUE, !.m.pam = "none", !.m.authok = FALSE,
                            !.m.method = ki, !.m.sub = "pam"]
             w == monitor_permit(y, {"PAM_INIT_CTX"})
             r == mm_answer_pam_free_ctx(x)
             z == mm_sshpam_free_ctx(x)
  <1>1. Shape(x) /\ Core(x) /\ Still(x) /\ SameKeys(x)
    BY DEF Steady
  <1>2. r = Fatal(x, "no context") \/ r = w
    BY DEF mm_answer_pam_free_ctx
  <1>3. /\ Shape(y) /\ y.c = x.c /\ y.h = x.h /\ y.m.phase = x.m.phase /\ y.m.lists = x.m.lists
        /\ y.m.valid = x.m.valid /\ y.m.used = x.m.used /\ y.m.pam = "none" /\ ~y.m.authok
        /\ y.m.forced = x.m.forced /\ y.m.method = ki /\ y.m.sub = "pam" /\ y.ret = x.m.authok
    BY <1>1 DEF Shape, MonFields, ChildFields
  <1> HIDE DEF y, ki
  <1>4. /\ Shape(w) /\ w.c = y.c /\ w.h = y.h /\ w.m.phase = y.m.phase /\ w.m.lists = y.m.lists
        /\ w.m.valid = y.m.valid /\ w.m.used = y.m.used /\ w.m.pam = y.m.pam
        /\ w.m.authok = y.m.authok
        /\ w.m.forced = y.m.forced /\ w.m.method = y.m.method /\ w.m.sub = y.m.sub /\ w.ret = y.ret
    BY <1>3 DEF monitor_permit, Shape, MonFields, ChildFields
  <1> HIDE DEF w
  <1>5. Shape(r) /\ (Ok(r) => r = w)
    <2>1. Shape(Fatal(x, "no context")) /\ ~Ok(Fatal(x, "no context"))
      BY <1>1, FatalKeeps DEF Keeps
    <2> QED  BY <1>2, <1>4, <2>1
  <1>6. Shape(z) /\ z.c = x.c /\ z.h = x.h
    <2>1. FreeEffect(x, z)
      BY <1>1, FreeRequest
    <2> QED  BY <2>1 DEF FreeEffect, Frame
  <1>7. z = monitor_read(x, "PAM_FREE_CTX", r)
    BY DEF mm_sshpam_free_ctx
  <1> HIDE DEF r, z
  <1>8. Ok(z) => r = w
    BY <1>1, <1>5, <1>7, ReadShape
  <1>9. /\ Core(w) /\ Still(w) /\ SameKeys(w) /\ w.m.phase = x.m.phase
        /\ w.c = x.c /\ w.h = x.h /\ w.m.lists = x.m.lists /\ w.ret = x.m.authok
    BY <1>1, <1>3, <1>4 DEF Core, Still, SameKeys
  <1>10. ASSUME Ok(z), ~x.m.authok
         PROVE  Steady(z)
    <2>1. z = monitor_read(x, "PAM_FREE_CTX", w) /\ ~w.ret
      BY <1>7, <1>8, <1>9, <1>10
    <2> QED  BY <1>1, <1>4, <1>9, <2>1, RefusedSteady
  <1>11. ASSUME Ok(z), x.m.authok
         PROVE  /\ Core(z) /\ Idle(z) /\ SameKeys(z)
                /\ x.h.abandoned => Still(z)
                /\ ~x.h.abandoned => Agreed(z, ki, "pam")
    <2>1. z = monitor_read(x, "PAM_FREE_CTX", w) /\ w.ret
      BY <1>7, <1>8, <1>9, <1>11
    <2>2. "PAM_FREE_CTX" \in AuthDecide
      BY DEF AuthDecide
    <2>3. ~w.h.abandoned =>
            /\ UpdateLists(w.m.lists, w.m.method, w.m.sub) = UpdateLists(w.c.lists, ki, "pam")
            /\ RootDenied(w, ki) <=> options.root /\ ~auth_root_allowed(w.m.method, w.m.forced)
      <3>1. ~w.h.abandoned => w.m.lists = w.c.lists /\ ~RootRestricted
        BY <1>9, <1>11 DEF Still
      <3> QED  BY <1>3, <1>4, <3>1, NoRestriction
    <2>4. LET q == monitor_read(x, "PAM_FREE_CTX", w)
          IN  /\ Shape(q)
              /\ Ok(q) => /\ Carried(w, q) /\ Core(q) /\ Idle(q)
                          /\ w.h.abandoned => Still(q)
                          /\ ~w.h.abandoned => Agreed(q, ki, "pam")
      BY <1>1, <1>4, <1>9, <2>1, <2>2, <2>3, AcceptedSettled
    <2>5. /\ Carried(w, z) /\ Core(z) /\ Idle(z)
          /\ w.h.abandoned => Still(z)
          /\ ~w.h.abandoned => Agreed(z, ki, "pam")
      BY <1>11, <2>1, <2>4
    <2>6. SameKeys(z)
      BY <1>9, <2>5 DEF SameKeys, Carried
    <2> QED  BY <1>9, <2>5, <2>6
  <1>12. ASSUME Ok(z), x.m.authok, x.h.abandoned
         PROVE  Steady(z)
    BY <1>6, <1>11, <1>12 DEF Steady
  <1>13. Ended(x, z)
    BY <1>6, <1>10, <1>11, <1>12 DEF Ended, ki
  <1> QED  BY <1>6, <1>13 DEF z

LEMMA StopEnded ==
    ASSUME NEW x, Steady(x), x.m.authok /\ ~x.h.abandoned => ~RootRestricted /\ x.c.kbdint
    PROVE  Ended(x, auth2_challenge_stop(x))
  <1> DEFINE w == mm_sshpam_free_ctx(x)
             z == [w EXCEPT !.c.kbdint = FALSE]
             s == auth2_challenge_stop(x)
  <1>1. Shape(s) /\ (Ok(s) => Ok(x))
    BY StopLemma DEF StopEffect, Within, Steady
  <1>2. s = IF x.c.kbdint THEN z ELSE x
    BY DEF auth2_challenge_stop
  <1> HIDE DEF s
  <1>3. ASSUME Ok(s), ~x.c.kbdint
        PROVE  Ended(x, s)
    BY <1>1, <1>2, <1>3 DEF Ended
  <1>4. ASSUME Ok(s), x.c.kbdint
        PROVE  Ended(x, s)
    <2>1. Ended(x, w) /\ w.c = x.c
      BY <1>1, <1>4, FreeEnded
    <2> HIDE DEF w
    <2>2. s = z
      BY <1>2, <1>4
    <2>3. /\ Shape(z) /\ z.m = w.m /\ z.h = w.h /\ z.err = w.err /\ ~z.c.kbdint
          /\ z.c.used = w.c.used /\ z.c.valid = w.c.valid /\ z.c.forced = w.c.forced
          /\ z.c.success = w.c.success /\ z.c.lists = w.c.lists
      BY <2>1 DEF Ended, Shape, ChildFields
    <2> HIDE DEF z
    <2>4. Core(w) => Core(z)
      BY <2>3 DEF Core
    <2>5. (Still(w) => Still(z)) /\ (Idle(w) => Idle(z)) /\ (SameKeys(w) => SameKeys(z)) /\ (Ok(z) <=> Ok(w))
      BY <2>3 DEF Still, Idle, SameKeys, Ok
    <2>6. Steady(w) => Steady(z)
      BY <2>3, <2>4, <2>5 DEF Steady
    <2>7. Agreed(w, "keyboard-interactive", "pam") => Agreed(z, "keyboard-interactive", "pam")
      BY <2>3 DEF Agreed, RootDenied
    <2> QED  BY <2>1, <2>2, <2>3, <2>4, <2>5, <2>6, <2>7 DEF Ended
  <1>5. Ended(x, s)
    BY <1>1, <1>3, <1>4 DEF Ended
  <1> QED  BY <1>5 DEF s

LEMMA StopSteady ==
    ASSUME NEW x, Steady(x), Ok(x) /\ x.m.authok => x.h.abandoned
    PROVE  Steady(auth2_challenge_stop(x))
  <1> DEFINE s == auth2_challenge_stop(x)
  <1>1. Shape(s) /\ (Ok(s) => Ok(x))
    BY StopLemma DEF StopEffect, Within, Steady
  <1>2. Ok(s) => Ended(x, s)
    BY <1>1, StopEnded
  <1> HIDE DEF s
  <1>3. Steady(s)
    BY <1>1, <1>2 DEF Ended, Steady
  <1> QED  BY <1>3 DEF s

LEMMA AskSteady ==
    ASSUME NEW x, NEW r, Steady(x), Ok(x), options.use_pam
    PROVE  Steady(StopUnlessAsked(send_userauth_info_request(x, r)))
  <1> DEFINE q == mm_sshpam_query(x, r)
             i == [q EXCEPT !.c.nreq = IF r = "prompt" THEN 1 ELSE 0, !.c.postponed = TRUE]
             y == send_userauth_info_request(x, r)
  <1>1. Steady(q) /\ (Ok(q) /\ ~q.ans => ~q.m.authok)
    BY QuerySteady
  <1>2. (y = i /\ Ok(q) /\ q.ans) \/ (y = q /\ ~(Ok(q) /\ q.ans))
    BY DEF send_userauth_info_request, InfoRequest
  <1> HIDE DEF q
  <1>3. /\ Shape(i) /\ i.m = q.m /\ i.h = q.h /\ i.err = q.err /\ i.c.postponed = TRUE
        /\ i.c.used = q.c.used /\ i.c.valid = q.c.valid
        /\ i.c.success = q.c.success /\ i.c.kbdint = q.c.kbdint /\ i.c.lists = q.c.lists
    BY <1>1 DEF Steady, Shape, ChildFields
  <1> HIDE DEF i, y
  <1>4. Steady(i)
    BY <1>1, <1>3 DEF Steady, Core, Still, Idle, SameKeys, Ok
  <1>5. Steady(StopUnlessAsked(i))
    BY <1>3, <1>4 DEF StopUnlessAsked
  <1>6. ~(Ok(q) /\ q.ans) => Steady(StopUnlessAsked(q))
    BY <1>1, StopSteady DEF StopUnlessAsked
  <1>7. Steady(StopUnlessAsked(y))
    BY <1>2, <1>5, <1>6
  <1> QED  BY <1>7 DEF y

LEMMA ChallengeSteady ==
    ASSUME NEW x, NEW r, Steady(x), Ok(x)
    PROVE  Steady(auth2_challenge(x, r))
  <1> DEFINE y == mm_sshpam_init_ctx(x)
             k == [y EXCEPT !.c.kbdint = TRUE]
             z == StopUnlessAsked(send_userauth_info_request(k, r))
             a == auth2_challenge(x, r)
  <1>1. Steady(y)
    BY InitSteady
  <1>2. a = x \/ a = y \/ (a = z /\ Ok(y) /\ options.use_pam)
    BY DEF auth2_challenge, ContextMade, HasDevice
  <1> HIDE DEF y, a
  <1>3. ASSUME Ok(y), options.use_pam
        PROVE  Steady(z)
    <2>1. /\ Shape(k) /\ k.m = y.m /\ k.h = y.h /\ k.err = y.err /\ k.c.used = y.c.used
          /\ k.c.valid = y.c.valid /\ k.c.success = y.c.success /\ k.c.lists = y.c.lists
      BY <1>1 DEF Steady, Shape, ChildFields
    <2> HIDE DEF k
    <2>2. Steady(k) /\ Ok(k)
      BY <1>1, <1>3, <2>1 DEF Steady, Core, Still, Idle, SameKeys, Ok
    <2> QED  BY <1>3, <2>2, AskSteady
  <1> HIDE DEF z
  <1>4. Steady(a)
    BY <1>1, <1>2, <1>3
  <1> QED  BY <1>4 DEF a

----------------------------------------------------------------------------
(* The methods and userauth_finish().                                      *)

LEMMA TrySettled ==
    ASSUME Plain, NEW x, NEW in, in.method \in Methods, Steady(x), Ok(x)
    PROVE  Settled(TryMethod(x, in), in.method, "")
  <1>1. CASE authmethod_lookup(x, in.method) /\ x.c.failures < options.max_authtries
    <2>1. TryMethod(x, in) = userauth(x, in)
      BY <1>1 DEF TryMethod
    <2>2. CASE in.method = "none"
      <3> DEFINE y == [x EXCEPT !.c.none_enabled = FALSE]
      <3>1. /\ Shape(y) /\ y.m = x.m /\ y.h = x.h /\ y.err = x.err /\ y.c.used = x.c.used
            /\ y.c.valid = x.c.valid /\ y.c.success = x.c.success /\ y.c.lists = x.c.lists
            /\ y.c.kbdint = x.c.kbdint
        BY DEF Steady, Shape, ChildFields
      <3>2. userauth(x, in) = mm_auth_password(y, "empty") \/ userauth(x, in) = Result(y, FALSE)
        BY <2>2 DEF userauth, userauth_none
      <3> HIDE DEF y
      <3>3. Steady(y) /\ Ok(y)
        BY <3>1 DEF Steady, Core, Still, Idle, SameKeys, Ok
      <3>4. Settled(mm_auth_password(y, "empty"), "none", "")
        BY <3>3, PasswordSettled
      <3>5. Settled(Result(y, FALSE), "none", "")
        BY <3>3, ResultSteady, SteadySettled
      <3> QED  BY <2>1, <2>2, <3>2, <3>4, <3>5
    <2>3. CASE in.method = "password"
      BY <2>1, <2>3, PasswordSettled DEF userauth, userauth_passwd
    <2>4. CASE in.method = "publickey"
      BY <2>1, <2>4, PubkeySettled DEF userauth
    <2>5. CASE in.method = "hostbased"
      BY <2>1, <2>5, HostbasedSettled DEF userauth
    <2>6. CASE in.method = "keyboard-interactive"
      <3>1. Steady(auth2_challenge(x, in.pam))
        BY ChallengeSteady
      <3> QED  BY <2>1, <2>6, <3>1, ResultSteady, SteadySettled DEF userauth, userauth_kbdint
    <2> QED  BY <2>2, <2>3, <2>4, <2>5, <2>6 DEF Methods
  <1>2. CASE ~(authmethod_lookup(x, in.method) /\ x.c.failures < options.max_authtries)
    BY <1>2, ResultSteady, SteadySettled DEF TryMethod
  <1> QED  BY <1>1, <1>2

\* No entry of a list is called "unknown".
LEMMA UnknownNotFound ==
    ASSUME NEW lists, NEW sub, Typed(lists), options.lists # <<>>
    PROVE  ~UpdateLists(lists, "unknown", sub).found
  <1> DEFINE hit == {i \in DOMAIN lists : Removable(lists[i], "unknown", sub)}
  <1>1. UpdateLists(lists, "unknown", sub).found = (hit # {})
    BY DEF UpdateLists, auth2_update_methods_lists
  <1>2. ASSUME NEW i \in DOMAIN lists
        PROVE  ~Removable(lists[i], "unknown", sub)
    <2>1. lists[i] \in Seq(Entries)
      BY DEF Typed
    <2>2. lists[i] # <<>> => lists[i][1] \in Entries
      BY <2>1
    <2>3. lists[i] # <<>> => lists[i][1].m # "unknown"
      BY <2>2 DEF Entries, Methods
    <2> QED  BY <2>3 DEF Removable, list_starts_with
  <1>3. hit = {}
    BY <1>2
  <1> QED  BY <1>1, <1>3

\* The account is asked about only after the monitor has authenticated the user.
LEMMA AccountAgrees ==
    ASSUME NEW x, NEW acct, Shape(x), Ok(x), Idle(x), Typed(x.m.lists),
           x.m.phase \in {"preauth", "account"}
    PROVE  LET z == mm_do_pam_account(x, acct)
           IN  Ok(z) /\ z.ans =>
                 /\ z.m.phase = "keystate" /\ z.m.used = x.m.used /\ z.m.lists = x.m.lists
                 /\ z.c = x.c /\ z.h = x.h
  <1> DEFINE y == do_pam_account(x, acct)
             ok == y.m.account = "ok"
             w == [y EXCEPT !.ans = ok, !.ret = ok]
             r == mm_answer_pam_account(x, acct)
             z == mm_do_pam_account(x, acct)
             u == [w EXCEPT !.m.phase = "preauth"]
             p == [w EXCEPT !.m.permit = @ \ ({"PAM_ACCOUNT"} \cap Once)]
             up == UpdateLists(p.m.lists, p.m.method, p.m.sub)
  <1>1. r = Fatal(x, "PAM not enabled") \/ r = w
    BY DEF mm_answer_pam_account
  <1>2. /\ Shape(y) /\ y.c = x.c /\ y.h = x.h /\ y.m.phase = x.m.phase /\ y.m.lists = x.m.lists
        /\ y.m.used = x.m.used /\ y.m.method = x.m.method
    BY DEF do_pam_account, Shape, MonFields, ChildFields
  <1>3. ok \in BOOLEAN
    OBVIOUS
  <1> HIDE DEF y, ok
  <1>4. Shape(w) /\ w.c = y.c /\ w.h = y.h /\ w.m = y.m
    BY <1>2 DEF Shape
  <1>5. w.ans = ok /\ w.ret = ok
    BY <1>2 DEF Shape
  <1> HIDE DEF w
  <1>6. z = monitor_read(x, "PAM_ACCOUNT", r)
    BY DEF mm_do_pam_account
  <1>7. Shape(Fatal(x, "PAM not enabled")) /\ ~Ok(Fatal(x, "PAM not enabled"))
    BY FatalKeeps DEF Keeps
  <1> HIDE DEF r, z
  <1>8. Shape(r)
    BY <1>1, <1>4, <1>7
  <1>9. Ok(z) => r = w
    BY <1>1, <1>6, <1>7, <1>8, ReadShape
  <1>10. ASSUME Ok(z), z.ans
         PROVE  /\ z.m.phase = "keystate" /\ z.m.used = x.m.used /\ z.m.lists = x.m.lists
                /\ z.c = x.c /\ z.h = x.h
    <2>1. z = monitor_read(x, "PAM_ACCOUNT", w) /\ Ok(w)
      BY <1>4, <1>6, <1>9, <1>10, ReadShape
    <2>2. CASE x.m.phase = "account"
      <3>1. z = AccountChecked(w)
        BY <2>1, <2>2 DEF monitor_read
      <3>2. z = IF w.ret THEN LeaveLoop(u) ELSE NextRound(u)
        BY <2>1, <3>1 DEF AccountChecked
      <3>3. Carried(w, u) /\ u.m.lists = w.m.lists
        BY <1>4 DEF Shape, Carried, MonFields, ChildFields
      <3> HIDE DEF u
      <3>4. Shape(u)
        BY <3>3 DEF Carried
      <3>5. CASE w.ret
        <4>1. Carried(u, z) /\ z.m.phase = "keystate" /\ z.m.lists = u.m.lists
          BY <1>10, <3>2, <3>4, <3>5, LeaveLoopFields
        <4> QED  BY <1>2, <1>4, <3>3, <4>1 DEF Carried
      <3>6. CASE ~w.ret
        <4>1. Carried(u, z)
          BY <3>2, <3>4, <3>6, NextRoundFields
        <4>2. z.ans = ok /\ ~ok
          BY <1>5, <3>3, <3>6, <4>1 DEF Carried
        <4> QED  BY <1>10, <4>2
      <3> QED  BY <3>5, <3>6
    <2>3. CASE x.m.phase = "preauth"
      <3>1. z = monitor_child_preauth(p, "PAM_ACCOUNT")
        BY <1>10, <2>1, <2>3, FatalKeeps DEF monitor_read
      <3>2. /\ Carried(w, p) /\ p.m.lists = w.m.lists /\ p.m.method = w.m.method
            /\ p.ret = w.ret /\ p.err = w.err
        BY <1>4 DEF Shape, Carried, MonFields, ChildFields
      <3>3. z = IF ~p.ret THEN NextRound(p) ELSE Authenticates(p, "PAM_ACCOUNT", up)
        BY <2>1, <3>1, <3>2 DEF monitor_child_preauth, Ok
      <3> HIDE DEF p
      <3>4. Shape(p)
        BY <3>2 DEF Carried
      <3>5. CASE ~p.ret
        <4>1. Carried(p, z)
          BY <3>3, <3>4, <3>5, NextRoundFields
        <4>2. z.ans = ok /\ ~ok
          BY <1>5, <3>2, <3>5, <4>1 DEF Carried
        <4> QED  BY <1>10, <4>2
      <3>6. CASE p.ret
        <4>1. p.m.method = "unknown" /\ Typed(p.m.lists)
          BY <1>2, <1>4, <2>3, <3>2 DEF Idle
        <4>2. ~up.found \/ up.done
          BY <4>1, UnknownNotFound DEF UpdateLists
        <4>3. "PAM_ACCOUNT" \notin AuthDecide
          BY DEF AuthDecide
        <4>4. \/ z = Fatal(p, "method not in AuthenticationMethods")
              \/ z = Fatal(p, "unexpected authentication")
          BY <3>3, <3>6, <4>2, <4>3 DEF Authenticates
        <4> QED  BY <1>10, <3>4, <4>4, FatalKeeps
      <3> QED  BY <3>5, <3>6
    <2> QED  BY <2>2, <2>3
  <1> QED  BY <1>10 DEF z

\* What a packet leaves.
Joined(x) ==
    /\ x.m.phase \in {"keystate", "postauth"} /\ SameKeys(x)
    /\ x.h.abandoned \/ x.c.lists = x.m.lists
Closed(x) == Shape(x) /\ (Ok(x) => IF x.c.success THEN Joined(x) ELSE Steady(x))

\* The replies to the client.
LEMMA SteadyClosed ==
    ASSUME NEW x, Steady(x)
    PROVE  Closed(x)
  BY DEF Steady, Closed, Core

LEMMA FatalClosed ==
    ASSUME NEW x, NEW why, Shape(x), why # "none"
    PROVE  Closed(Fatal(x, why))
  BY FatalSteady, SteadyClosed

LEMMA FailureClosed ==
    ASSUME NEW x, NEW partial, NEW method, Steady(x)
    PROVE  Closed(SendFailure(x, partial, method))
  <1> DEFINE n == IF ~partial /\ CountsAsFailure(x, method) THEN x.c.failures + 1 ELSE x.c.failures
             y == [x EXCEPT !.c.failures = n]
  <1>1. \/ SendFailure(x, partial, method) = y
        \/ SendFailure(x, partial, method) = Fatal(y, "Too many authentication failures")
    BY DEF SendFailure
  <1> HIDE DEF n
  <1>2. /\ Shape(y) /\ y.m = x.m /\ y.h = x.h /\ y.err = x.err /\ y.c.used = x.c.used
        /\ y.c.valid = x.c.valid /\ y.c.success = x.c.success /\ y.c.lists = x.c.lists
        /\ y.c.kbdint = x.c.kbdint
    BY DEF Steady, Shape, ChildFields
  <1> HIDE DEF y
  <1>3. Steady(y)
    BY <1>2 DEF Steady, Core, Still, Idle, SameKeys, Ok
  <1> QED  BY <1>1, <1>2, <1>3, SteadyClosed, FatalClosed

LEMMA SuccessClosed ==
    ASSUME NEW x, NEW acct, Shape(x), Ok(x), Core(x), Idle(x), SameKeys(x),
           x.h.abandoned \/ x.c.lists = x.m.lists,
           IF options.use_pam THEN x.m.phase \in {"preauth", "account"} ELSE x.m.phase = "keystate"
    PROVE  Closed(SendSuccess(x, acct))
  <1> DEFINE y == IF options.use_pam THEN mm_do_pam_account(x, acct) ELSE x
             z == [y EXCEPT !.c.success = TRUE]
             r == SendSuccess(x, acct)
  <1>1. Shape(y)
    BY AccountRequest DEF AccountEffect, Frame
  <1>2. Ok(y) /\ (options.use_pam => y.ans) =>
          /\ y.m.phase = "keystate" /\ y.m.used = x.m.used /\ y.m.lists = x.m.lists
          /\ y.c = x.c /\ y.h = x.h
    BY AccountAgrees DEF Core
  <1>3. \/ r = y /\ ~Ok(y)
        \/ r = Fatal(y, "denied by PAM account")
        \/ r = z /\ Ok(y) /\ (options.use_pam => y.ans)
    BY DEF SendSuccess, AccountAsked
  <1> HIDE DEF y
  <1>4. /\ Shape(z) /\ z.m = y.m /\ z.h = y.h /\ z.c.success = TRUE
        /\ z.c.used = y.c.used /\ z.c.lists = y.c.lists
    BY <1>1 DEF Shape, ChildFields
  <1> HIDE DEF z
  <1>5. ASSUME Ok(y), options.use_pam => y.ans
        PROVE  Closed(z)
    <2>1. Joined(z)
      BY <1>2, <1>4, <1>5 DEF Joined, SameKeys
    <2> QED  BY <1>4, <2>1 DEF Closed
  <1>6. ~Ok(y) => Closed(y)
    BY <1>1 DEF Closed
  <1>7. Closed(Fatal(y, "denied by PAM account"))
    BY <1>1, FatalClosed
  <1> HIDE DEF r
  <1>8. Closed(r)
    BY <1>3, <1>5, <1>6, <1>7
  <1> QED  BY <1>8 DEF r

\* The child repeats the monitor's update of the lists.
LEMMA FinishClosed ==
    ASSUME NEW x, NEW method, NEW sub, NEW acct, Ok(x), x.ans, Settled(x, method, sub),
           ~RootDenied(x, method)
    PROVE  Closed(Finish(x, UpdateLists(x.c.lists, method, sub), method, acct))
  <1> DEFINE up == UpdateLists(x.c.lists, method, sub)
             y == [x EXCEPT !.c.lists = up.lists]
             r == Finish(x, up, method, acct)
  <1>1. Shape(x) /\ Core(x) /\ Idle(x) /\ SameKeys(x)
    BY DEF Settled
  <1>2. x.h.abandoned => Still(x) /\ options.use_pam
    BY <1>1 DEF Settled, Core
  <1>3. ~x.h.abandoned => /\ x.m.lists = up.lists
                          /\ x.m.phase = Verdict(up, RootDenied(x, method))
    BY DEF Settled, Agreed
  <1>4. \/ r = Fatal(x, "method not in AuthenticationMethods")
        \/ up.done /\ r = SendSuccess(y, acct)
        \/ ~up.done /\ r = SendFailure(y, TRUE, method)
    BY DEF Finish
  <1> HIDE DEF up
  <1>5. /\ Shape(y) /\ y.m = x.m /\ y.h = x.h /\ y.err = x.err /\ y.c.used = x.c.used
        /\ y.c.valid = x.c.valid /\ y.c.success = x.c.success /\ y.c.kbdint = x.c.kbdint
        /\ y.c.lists = up.lists
    BY <1>1 DEF Shape, ChildFields
  <1> HIDE DEF y
  <1>6. Core(y) /\ Idle(y) /\ SameKeys(y) /\ Ok(y)
    BY <1>1, <1>5 DEF Core, Idle, SameKeys, Ok
  <1>7. y.h.abandoned \/ y.c.lists = y.m.lists
    BY <1>3, <1>5
  <1>8. ASSUME up.done
        PROVE  Closed(SendSuccess(y, acct))
    <2>1. IF options.use_pam THEN y.m.phase \in {"preauth", "account"} ELSE y.m.phase = "keystate"
      BY <1>2, <1>3, <1>5, <1>8 DEF Still, Verdict
    <2> QED  BY <1>5, <1>6, <1>7, <2>1, SuccessClosed
  <1>9. ASSUME ~up.done
        PROVE  \A partial : Closed(SendFailure(y, partial, method))
    <2>1. Still(y)
      BY <1>2, <1>3, <1>5, <1>7, <1>9 DEF Still, Verdict
    <2>2. Steady(y)
      BY <1>5, <1>6, <2>1 DEF Steady
    <2> QED  BY <2>2, FailureClosed
  <1>10. ~up.done => Closed(SendFailure(y, TRUE, method))
    BY <1>9, Zenon
  <1>11. Closed(Fatal(x, "method not in AuthenticationMethods"))
    BY <1>1, FatalClosed
  <1> HIDE DEF r
  <1>12. Closed(r)
    BY <1>4, <1>8, <1>10, <1>11
  <1> QED  BY <1>12 DEF r, up

LEMMA UserauthClosed ==
    ASSUME Plain, NEW x, NEW method, NEW sub, NEW acct, Settled(x, method, sub)
    PROVE  Closed(userauth_finish(x, method, sub, acct))
  <1> DEFINE r == userauth_finish(x, method, sub, acct)
             f == Finish(x, UpdateLists(x.c.lists, method, sub), method, acct)
  <1>1. Shape(x)
    BY DEF Settled
  <1>2. ~Ok(x) => Closed(x)
    BY <1>1 DEF Closed
  <1>3. Closed(Fatal(x, "authenticated invalid user")) /\ Closed(Fatal(x, "authenticated and postponed"))
    BY <1>1, FatalClosed
  <1>4. Ok(x) /\ ~x.ans => Steady(x)
    BY DEF Settled, Steady
  <1>5. ASSUME Ok(x), x.ans, RootDenied(x, method)
        PROVE  Steady(x)
    <2>1. options.lists = <<>>
      BY <1>5 DEF Plain, RootRestricted, RootDenied, auth_root_allowed
    <2>2. UpdateLists(x.c.lists, method, sub).lists = x.c.lists
      BY <2>1 DEF UpdateLists
    <2>3. ~x.h.abandoned => x.c.lists = x.m.lists /\ x.m.phase = "preauth"
      BY <1>5, <2>2 DEF Settled, Agreed, Verdict
    <2>4. Still(x)
      BY <1>5, <2>3 DEF Settled, Still
    <2> QED  BY <1>5, <2>4 DEF Settled, Steady
  <1>6. Steady(x) => \A partial : Closed(SendFailure(x, partial, method))
    BY FailureClosed
  <1>7. Steady(x) => Closed(SendFailure(x, FALSE, method)) /\ Closed(x)
    BY <1>6, SteadyClosed, Zenon
  <1>8. Ok(x) /\ x.ans /\ ~RootDenied(x, method) => Closed(f)
    BY FinishClosed
  <1>9. \/ r = x /\ ~Ok(x)
        \/ r = Fatal(x, "authenticated invalid user") \/ r = Fatal(x, "authenticated and postponed")
        \/ r = x /\ Ok(x) /\ ~x.ans
        \/ r = SendFailure(x, FALSE, method) /\ Ok(x) /\ (~x.ans \/ (x.ans /\ RootDenied(x, method)))
        \/ r = f /\ Ok(x) /\ x.ans /\ ~RootDenied(x, method)
    BY DEF userauth_finish
  <1> HIDE DEF r, f
  <1>10. Closed(r)
    BY <1>2, <1>3, <1>4, <1>5, <1>7, <1>8, <1>9
  <1> QED  BY <1>10 DEF r

----------------------------------------------------------------------------
(* The packets.                                                            *)

LEMMA BeginSteady ==
    ASSUME NEW x, Steady(x)
    PROVE  Steady(BeginRequest(x))
  <1> DEFINE y == [x EXCEPT !.c.attempt = IF @ = 2 THEN 2 ELSE @ + 1, !.c.postponed = FALSE,
                            !.h.abandoned = @ \/ x.m.authok]
  <1>1. /\ Shape(y) /\ y.m = x.m /\ y.err = x.err /\ y.c.used = x.c.used
        /\ y.c.valid = x.c.valid /\ y.c.success = x.c.success /\ y.c.lists = x.c.lists
        /\ y.c.kbdint = x.c.kbdint
    BY DEF Steady, Shape, ChildFields
  <1>2. y.h.abandoned <=> x.h.abandoned \/ x.m.authok
    BY DEF Steady, Shape
  <1>3. BeginRequest(x) = auth2_challenge_stop(y)
    BY DEF BeginRequest
  <1> HIDE DEF y
  <1>4. Ok(x) => Core(y)
    BY <1>1, <1>2 DEF Steady, Core
  <1>5. Ok(x) => Still(y) /\ Idle(y) /\ SameKeys(y)
    BY <1>1, <1>2 DEF Steady, Still, Idle, SameKeys
  <1>6. Steady(y) /\ (y.m.authok => y.h.abandoned)
    BY <1>1, <1>2, <1>4, <1>5 DEF Steady, Ok
  <1> QED  BY <1>3, <1>6, StopSteady

\* A request, whichever method it asks for.
LEMMA HandleClosed ==
    ASSUME Plain, NEW x, NEW in, in.method \in Methods, Steady(x)
    PROVE  Closed(HandleRequest(x, in))
  <1> DEFINE y == BeginRequest(x)
             z == TryMethod(y, in)
  <1>1. CASE ~Ok(x)
    BY <1>1, SteadyClosed DEF HandleRequest
  <1>2. CASE Ok(x)
    <2>1. Steady(y)
      BY BeginSteady
    <2>2. HandleRequest(x, in) = IF ~Ok(y) THEN y ELSE userauth_finish(z, in.method, "", in.acct)
      BY <1>2 DEF HandleRequest, ServeRequest
    <2> HIDE DEF y
    <2>3. Ok(y) => Settled(z, in.method, "")
      BY <2>1, TrySettled
    <2> HIDE DEF z
    <2> QED  BY <2>1, <2>2, <2>3, SteadyClosed, UserauthClosed
  <1> QED  BY <1>1, <1>2

\* The first request sets the same lists up on both sides.
LEMMA FirstSteady ==
    ASSUME options \in Config, NEW x, NEW in, in.service, Steady(x), ~x.h.abandoned,
           x.m.pam = "none"
    PROVE  Steady(FirstRequest(x, in))
  <1> DEFINE a == mm_getpwnamallow(x)
             b == UserKnown(a, in)
             c == StartPam(b)
             d == mm_inform_authserv(c, in.style)
             e == ReadBanner(d)
             f == [e EXCEPT !.c.lists = auth2_setup_methods_lists]
  <1>1. /\ Shape(a)
        /\ Ok(a) => /\ Ok(x) /\ a.m.phase = "preauth" /\ a.c = x.c /\ a.h = x.h
                    /\ a.m.valid = options.valid /\ a.m.lists = auth2_setup_methods_lists
                    /\ a.m.used = x.m.used /\ a.m.pam = x.m.pam /\ a.m.authok = x.m.authok
                    /\ a.m.method = "unknown" /\ a.ans = options.valid
    BY GetpwnamFields DEF Steady
  <1>2. \/ FirstRequest(x, in) = Fatal(e, "no authentication methods enabled")
        \/ FirstRequest(x, in) = f
    BY DEF FirstRequest, ListsSetUp
  <1> HIDE DEF a
  <1>3. /\ Shape(b) /\ b.m = a.m /\ b.h = a.h /\ b.err = a.err
        /\ b.c.used = a.c.used /\ b.c.success = a.c.success /\ b.c.kbdint = a.c.kbdint
    BY <1>1 DEF UserKnown, Shape, ChildFields
  <1>4. Ok(a) => b.c.valid = options.valid
    <2>1. b.c.valid = (a.ans /\ in.service)
      BY <1>1 DEF UserKnown, Shape, ChildFields
    <2>2. options.valid \in BOOLEAN
      BY DEF Config
    <2> QED  BY <1>1, <2>1, <2>2
  <1> HIDE DEF b
  <1>5. Shape(c) /\ (Ok(c) => Ok(b) /\ Same(b, c) /\ (Idle(b) => Idle(c)))
    BY <1>3, SimpleUnmoved DEF StartPam, Unmoved, Same, Idle
  <1> HIDE DEF c
  <1>6. Shape(d) /\ (Ok(d) => Ok(c) /\ Same(c, d) /\ (Idle(c) => Idle(d)))
    BY <1>5, SimpleUnmoved DEF Unmoved, Same, Idle
  <1> HIDE DEF d
  <1>7. Shape(e) /\ (Ok(e) => Ok(d) /\ Same(d, e) /\ (Idle(d) => Idle(e)))
    BY <1>6, SimpleUnmoved DEF ReadBanner, Unmoved, Same, Idle
  <1> HIDE DEF e
  <1>8. Ok(e) => Ok(b) /\ Same(b, e) /\ (Idle(b) => Idle(e))
    BY <1>5, <1>6, <1>7 DEF Same
  <1>9. /\ Shape(f) /\ f.m = e.m /\ f.h = e.h /\ f.err = e.err /\ f.c.used = e.c.used
        /\ f.c.valid = e.c.valid /\ f.c.success = e.c.success /\ f.c.kbdint = e.c.kbdint
        /\ f.c.lists = auth2_setup_methods_lists
    BY <1>7 DEF Shape, ChildFields
  <1> HIDE DEF f
  <1>10. ASSUME Ok(f)
         PROVE  Core(f) /\ Still(f) /\ Idle(f) /\ SameKeys(f)
    <2>1. Ok(e) /\ Ok(b) /\ Ok(a) /\ Ok(x)
      BY <1>1, <1>3, <1>8, <1>9, <1>10 DEF Ok
    <2>2. Core(x) /\ SameKeys(x)
      BY <2>1 DEF Steady
    <2>3. /\ f.m.phase = "preauth" /\ f.h = x.h /\ f.m.valid = options.valid
          /\ f.m.lists = auth2_setup_methods_lists
          /\ f.m.used = x.m.used /\ f.m.pam = x.m.pam /\ f.m.authok = x.m.authok
          /\ f.c.used = x.c.used /\ f.c.valid = options.valid
          /\ f.c.success = x.c.success /\ f.c.kbdint = x.c.kbdint
      BY <1>1, <1>3, <1>4, <1>8, <1>9, <2>1 DEF Same
    <2>4. Idle(f)
      <3>1. Idle(b)
        BY <1>1, <1>3, <2>1 DEF Idle
      <3> QED  BY <1>8, <1>9, <2>1, <3>1 DEF Idle
    <2>5. Typed(auth2_setup_methods_lists)
      BY DEF Typed, auth2_setup_methods_lists, Config
    <2>6. Still(f) /\ SameKeys(f)
      BY <1>9, <2>2, <2>3 DEF Still, SameKeys
    <2>7. Core(f)
      BY <1>9, <2>2, <2>3, <2>5 DEF Core
    <2> QED  BY <2>4, <2>6, <2>7
  <1>11. Steady(f)
    BY <1>9, <1>10 DEF Steady
  <1>12. Steady(Fatal(e, "no authentication methods enabled"))
    BY <1>7, FatalSteady
  <1> QED  BY <1>2, <1>11, <1>12

\* An answer to a question of PAM.
LEMMA RespondedClosed ==
    ASSUME Plain, NEW w, NEW n, NEW pam, NEW acct, Steady(w), Ok(w), w.c.kbdint, ~w.c.postponed
    PROVE  Closed(Responded(mm_sshpam_respond(w, n), pam, acct))
  <1> DEFINE x == mm_sshpam_respond(w, n)
             ki == "keyboard-interactive"
             s == StopUnlessAsked(send_userauth_info_request(x, pam))
             t == auth2_challenge_stop(x)
             ok == x.res = 0 /\ x.c.valid
             r == Responded(x, pam, acct)
  <1>1. options.use_pam
    BY DEF Steady, Core
  <1>2. /\ Steady(x) /\ x.c = w.c
        /\ Ok(x) => (x.m.authok <=> x.res = 0) /\ (x.res = 0 => x.m.pam = "done")
    BY <1>1, RespondSteady
  <1>3. \/ r = x /\ ~Ok(x)
        \/ Ok(x) /\ r = userauth_finish(Judge(s, FALSE), ki, "pam", acct)
        \/ Ok(x) /\ r = userauth_finish(Judge(t, ok), ki, "pam", acct)
    BY <1>2 DEF Responded, StopUnlessAsked
  <1> HIDE DEF x
  <1>4. ASSUME NEW y, NEW b, Steady(y), ~b
        PROVE  Settled(Judge(y, b), ki, "pam")
    <2> DEFINE v == Judge(y, b)
    <2>1. Shape(v) /\ v.m = y.m /\ v.c = y.c /\ v.h = y.h /\ v.err = y.err /\ v.ans = b
      BY <1>4 DEF Judge, Steady, Shape
    <2> HIDE DEF v
    <2>2. Steady(v) /\ ~v.ans
      BY <1>4, <2>1 DEF Steady, Core, Still, Idle, SameKeys, Ok
    <2> QED  BY <2>2, SteadySettled DEF v
  <1>5. ASSUME Ok(x)
        PROVE  Settled(Judge(s, FALSE), ki, "pam")
    <2>1. Steady(s)
      BY <1>1, <1>2, <1>5, AskSteady
    <2> HIDE DEF s
    <2>2. \A b : ~b => Settled(Judge(s, b), ki, "pam")
      BY <1>4, <2>1
    <2> QED  BY <2>2, Zenon
  <1>6. ASSUME Ok(x)
        PROVE  Settled(Judge(t, ok), ki, "pam")
    <2>1. x.m.authok => x.m.valid /\ ~RootRestricted /\ x.c.valid = x.m.valid
      BY <1>2, <1>6 DEF Steady, Core
    <2>2. Ended(x, t)
      BY <1>2, <2>1, StopEnded
    <2> HIDE DEF t
    <2>3. x.m.authok <=> ok
      BY <1>2, <1>6, <2>1
    <2> HIDE DEF ok
    <2>4. CASE ~ok
      <3>1. Steady(t)
        BY <2>2, <2>3, <2>4 DEF Ended, Steady
      <3> QED  BY <1>4, <2>4, <3>1
    <2>5. CASE ok
      <3> DEFINE v == Judge(t, ok)
      <3>1. Shape(v) /\ v.m = t.m /\ v.c = t.c /\ v.h = t.h /\ v.err = t.err /\ v.ans = ok
        BY <2>2 DEF Judge, Ended, Shape
      <3> HIDE DEF v
      <3>2. Ok(v) => Ok(t)
        BY <3>1 DEF Ok
      <3>3. CASE x.h.abandoned
        <4>1. Ok(t) => Steady(t) /\ t.h = x.h
          BY <2>2, <3>3 DEF Ended
        <4>2. Ok(v) => Core(v) /\ Idle(v) /\ SameKeys(v) /\ Still(v) /\ v.h.abandoned
          BY <3>1, <3>2, <3>3, <4>1 DEF Steady, Core, Still, Idle, SameKeys, Ok
        <4> QED  BY <3>1, <4>2 DEF Settled, v
      <3>4. CASE ~x.h.abandoned
        <4>1. Ok(t) => /\ Core(t) /\ Idle(t) /\ SameKeys(t) /\ Agreed(t, ki, "pam")
                       /\ t.h = x.h
          BY <2>2, <2>3, <2>5, <3>4 DEF Ended
        <4>2. Ok(v) => Core(v) /\ Idle(v) /\ SameKeys(v)
          BY <3>1, <3>2, <4>1 DEF Core, Idle, SameKeys
        <4>3. Ok(v) => Agreed(v, ki, "pam") /\ ~v.h.abandoned
          BY <3>1, <3>2, <3>4, <4>1 DEF Agreed, RootDenied
        <4>4. v.ans
          BY <2>5, <3>1
        <4>5. Settled(v, ki, "pam")
          BY <3>1, <4>2, <4>3, <4>4 DEF Settled
        <4> QED  BY <4>5 DEF v
      <3> QED  BY <3>3, <3>4
    <2> QED  BY <2>4, <2>5
  <1>7. ~Ok(x) => Closed(x)
    BY <1>2, SteadyClosed
  <1>8. Ok(x) => /\ Closed(userauth_finish(Judge(s, FALSE), ki, "pam", acct))
                 /\ Closed(userauth_finish(Judge(t, ok), ki, "pam", acct))
    BY <1>5, <1>6, UserauthClosed
  <1> HIDE DEF r, s, t, ok
  <1>9. Closed(r)
    BY <1>3, <1>7, <1>8
  <1> QED  BY <1>9 DEF r, x

----------------------------------------------------------------------------
(* The number of requests and the service, which only the first sets.      *)

SameHead(x, y) == Shape(y) /\ y.c.attempt = x.c.attempt /\ y.c.service = x.c.service

\* No function but the first request and BeginRequest changes them.
LEMMA HeadStop ==
    ASSUME NEW x, Shape(x)
    PROVE  SameHead(x, auth2_challenge_stop(x))
  <1> DEFINE w == mm_sshpam_free_ctx(x)
             z == [w EXCEPT !.c.kbdint = FALSE]
  <1>1. Shape(w) /\ w.c = x.c
    BY FreeRequest DEF FreeEffect, Frame
  <1>2. auth2_challenge_stop(x) = z \/ auth2_challenge_stop(x) = x
    BY DEF auth2_challenge_stop
  <1> HIDE DEF w
  <1>3. SameHead(x, z)
    BY <1>1 DEF SameHead, Shape, ChildFields
  <1> HIDE DEF z
  <1> QED  BY <1>2, <1>3 DEF SameHead

LEMMA HeadAsk ==
    ASSUME NEW x, NEW r, Shape(x)
    PROVE  SameHead(x, StopUnlessAsked(send_userauth_info_request(x, r)))
  <1> DEFINE q == mm_sshpam_query(x, r)
             i == [q EXCEPT !.c.nreq = IF r = "prompt" THEN 1 ELSE 0, !.c.postponed = TRUE]
             y == send_userauth_info_request(x, r)
  <1>1. Shape(q) /\ q.c = x.c
    BY QueryRequest DEF QueryEffect, Frame
  <1>2. y = i \/ y = q
    BY DEF send_userauth_info_request, InfoRequest
  <1> HIDE DEF q
  <1>3. SameHead(x, i)
    BY <1>1 DEF SameHead, Shape, ChildFields
  <1> HIDE DEF i
  <1>4. SameHead(x, y)
    BY <1>1, <1>2, <1>3 DEF SameHead
  <1> HIDE DEF y
  <1>5. SameHead(y, auth2_challenge_stop(y))
    BY <1>4, HeadStop DEF SameHead
  <1>6. SameHead(x, StopUnlessAsked(y))
    BY <1>4, <1>5 DEF SameHead, StopUnlessAsked
  <1> QED  BY <1>6 DEF y

LEMMA HeadResult ==
    ASSUME NEW x, NEW b, Shape(x)
    PROVE  /\ SameHead(x, Result(x, FALSE)) /\ SameHead(x, Clear(x))
           /\ SameHead(x, [Clear(x) EXCEPT !.c.postponed = b])
           /\ SameHead(x, [x EXCEPT !.c.kbdint = TRUE])
           /\ SameHead(x, [x EXCEPT !.c.none_enabled = FALSE])
  <1> DEFINE e == Result(x, FALSE)
             c == Clear(x)
  <1>1. Shape(e) /\ e.c = x.c /\ c = [e EXCEPT !.c.forced = FALSE]
    BY DEF Result, Clear, Shape
  <1> HIDE DEF e, c
  <1>2. SameHead(x, c)
    BY <1>1 DEF SameHead, Shape, ChildFields
  <1>3. SameHead(x, [c EXCEPT !.c.postponed = b])
    BY <1>2 DEF SameHead, Shape, ChildFields
  <1>4. SameHead(x, [x EXCEPT !.c.kbdint = TRUE]) /\ SameHead(x, [x EXCEPT !.c.none_enabled = FALSE])
    BY DEF SameHead, Shape, ChildFields
  <1>5. SameHead(x, e)
    BY <1>1 DEF SameHead
  <1> QED  BY <1>2, <1>3, <1>4, <1>5 DEF e, c

LEMMA HeadTrans ==
    ASSUME NEW x, NEW y, NEW z, SameHead(x, y), SameHead(y, z)
    PROVE  SameHead(x, z)
  BY DEF SameHead

LEMMA HeadKeys ==
    ASSUME NEW x, NEW type, NEW key, NEW attempt, NEW good, Shape(x)
    PROVE  /\ SameHead(x, mm_key_allowed(x, type, key, attempt))
           /\ SameHead(x, mm_key_verify(x, key, good))
  <1>1. SameHead(x, mm_key_verify(x, key, good))
    BY KeyVerifyRequest DEF KeyVerifyEffect, Frame, SameHead
  <1> DEFINE z == mm_key_allowed(x, type, key, attempt)
  <1>2. KeyAllowedEffect(x, z, type, key)
    BY KeyAllowedRequest
  <1> HIDE DEF z
  <1>4. Shape(z) /\ z.c = [x.c EXCEPT !.forced = z.m.forced]
    BY <1>2 DEF KeyAllowedEffect
  <1>3. SameHead(x, z)
    BY <1>4 DEF SameHead, Shape, ChildFields
  <1> QED  BY <1>1, <1>3 DEF z

LEMMA HeadPubkey ==
    ASSUME NEW x, NEW in, Shape(x)
    PROVE  SameHead(x, userauth_pubkey(x, in))
  <1> DEFINE att == in.sig # "absent"
             good == in.sig = "good"
             y == mm_key_allowed(x, "user", in.key, att)
             z == mm_key_verify(y, in.key, good)
             u == [z EXCEPT !.c.used = @ \cup {in.key}]
             b == Ok(y) /\ y.ans
             w == userauth_pubkey(x, in)
  <1>1. \/ w = Result(x, FALSE) \/ w = Clear(y)
        \/ w = [Clear(y) EXCEPT !.c.postponed = b]
        \/ w = Clear(z) \/ w = u
    BY DEF userauth_pubkey, KeyAllowed, KeyVerified
  <1> HIDE DEF att, good
  <1>2. SameHead(x, y)
    BY HeadKeys
  <1> HIDE DEF y, b, w
  <1>3. Shape(y)
    BY <1>2 DEF SameHead
  <1>4. SameHead(x, z)
    BY <1>2, <1>3, HeadKeys, HeadTrans
  <1> HIDE DEF z
  <1>5. Shape(z)
    BY <1>4 DEF SameHead
  <1>6. SameHead(z, u)
    BY <1>5 DEF SameHead, Shape, ChildFields
  <1> HIDE DEF u
  <1>7. /\ SameHead(x, Result(x, FALSE)) /\ SameHead(x, Clear(y)) /\ SameHead(x, Clear(z)) /\ SameHead(x, u)
        /\ SameHead(x, [Clear(y) EXCEPT !.c.postponed = b])
    BY <1>2, <1>3, <1>4, <1>5, <1>6, HeadResult, HeadTrans
  <1>8. SameHead(x, w)
    BY <1>1, <1>7
  <1> QED  BY <1>8 DEF w

LEMMA HeadHostbased ==
    ASSUME NEW x, NEW in, Shape(x)
    PROVE  SameHead(x, userauth_hostbased(x, in))
  <1> DEFINE good == in.sig = "good"
             y == mm_key_allowed(x, "host", in.key, FALSE)
             z == mm_key_verify(y, in.key, good)
             w == userauth_hostbased(x, in)
  <1>1. w = Result(x, FALSE) \/ w = Result(y, FALSE) \/ w = z
    BY DEF userauth_hostbased, HostKeyAllowed
  <1> HIDE DEF good
  <1>2. SameHead(x, y)
    <2>1. \A a : SameHead(x, mm_key_allowed(x, "host", in.key, a))
      BY HeadKeys
    <2> QED  BY <2>1, Zenon
  <1> HIDE DEF y, w
  <1>3. Shape(y)
    BY <1>2 DEF SameHead
  <1>4. SameHead(x, z)
    BY <1>2, <1>3, HeadKeys, HeadTrans
  <1> HIDE DEF z
  <1>5. SameHead(x, Result(x, FALSE)) /\ SameHead(x, Result(y, FALSE))
    BY <1>2, <1>3, HeadResult, HeadTrans
  <1>6. SameHead(x, w)
    BY <1>1, <1>4, <1>5
  <1> QED  BY <1>6 DEF w

LEMMA HeadChallenge ==
    ASSUME NEW x, NEW r, Shape(x)
    PROVE  SameHead(x, auth2_challenge(x, r))
  <1> DEFINE y == mm_sshpam_init_ctx(x)
             k == [y EXCEPT !.c.kbdint = TRUE]
             z == StopUnlessAsked(send_userauth_info_request(k, r))
             a == auth2_challenge(x, r)
  <1>1. SameHead(x, y)
    BY InitRequest DEF InitEffect, Frame, SameHead
  <1>2. a = x \/ a = y \/ a = z
    BY DEF auth2_challenge, ContextMade
  <1> HIDE DEF y, a
  <1>3. SameHead(y, k)
    BY <1>1, HeadResult DEF SameHead
  <1> HIDE DEF k
  <1>4. SameHead(k, z)
    BY <1>3, HeadAsk DEF SameHead
  <1> HIDE DEF z
  <1>5. SameHead(x, a)
    BY <1>1, <1>2, <1>3, <1>4 DEF SameHead
  <1> QED  BY <1>5 DEF a

LEMMA HeadTry ==
    ASSUME NEW x, NEW in, in.method \in Methods, Shape(x)
    PROVE  SameHead(x, TryMethod(x, in))
  <1>1. \A y, p : Shape(y) => SameHead(y, mm_auth_password(y, p))
    BY PasswordRequest DEF PasswordEffect, Frame, SameHead
  <1>2. SameHead(x, Result(x, FALSE))
    BY HeadResult
  <1>3. CASE in.method = "none"
    <2> DEFINE y == [x EXCEPT !.c.none_enabled = FALSE]
    <2>1. userauth(x, in) = mm_auth_password(y, "empty") \/ userauth(x, in) = Result(y, FALSE)
      BY <1>3 DEF userauth, userauth_none
    <2>2. SameHead(x, y)
      BY HeadResult
    <2> HIDE DEF y
    <2>3. SameHead(y, mm_auth_password(y, "empty")) /\ SameHead(y, Result(y, FALSE))
      BY <1>1, <2>2, HeadResult DEF SameHead
    <2>4. SameHead(x, userauth(x, in))
      BY <2>1, <2>2, <2>3 DEF SameHead
    <2> QED  BY <1>2, <2>4 DEF TryMethod
  <1>4. CASE in.method = "password"
    BY <1>1, <1>2, <1>4 DEF TryMethod, userauth, userauth_passwd
  <1>5. CASE in.method = "publickey"
    BY <1>2, <1>5, HeadPubkey DEF TryMethod, userauth
  <1>6. CASE in.method = "hostbased"
    BY <1>2, <1>6, HeadHostbased DEF TryMethod, userauth
  <1>7. CASE in.method = "keyboard-interactive"
    <2> DEFINE a == auth2_challenge(x, in.pam)
    <2>1. SameHead(x, a)
      BY HeadChallenge
    <2>2. TryMethod(x, in) = Result(a, FALSE) \/ TryMethod(x, in) = Result(x, FALSE)
      BY <1>7 DEF TryMethod, userauth, userauth_kbdint
    <2> HIDE DEF a
    <2>3. SameHead(x, Result(a, FALSE))
      BY <2>1, HeadResult, HeadTrans DEF SameHead
    <2> QED  BY <1>2, <2>2, <2>3
  <1> QED  BY <1>3, <1>4, <1>5, <1>6, <1>7 DEF Methods

LEMMA HeadFatal ==
    ASSUME NEW x, NEW why, Shape(x), why # "none"
    PROVE  SameHead(x, Fatal(x, why))
  BY FatalKeeps DEF Keeps, SameHead

LEMMA HeadFailure ==
    ASSUME NEW x, NEW partial, NEW method, Shape(x)
    PROVE  SameHead(x, SendFailure(x, partial, method))
  <1> DEFINE n == IF ~partial /\ CountsAsFailure(x, method) THEN x.c.failures + 1 ELSE x.c.failures
             y == [x EXCEPT !.c.failures = n]
  <1>1. \/ SendFailure(x, partial, method) = y
        \/ SendFailure(x, partial, method) = Fatal(y, "Too many authentication failures")
    BY DEF SendFailure
  <1> HIDE DEF n
  <1>2. SameHead(x, y)
    BY DEF SameHead, Shape, ChildFields
  <1> HIDE DEF y
  <1>3. SameHead(x, Fatal(y, "Too many authentication failures"))
    BY <1>2, HeadFatal, HeadTrans DEF SameHead
  <1> QED  BY <1>1, <1>2, <1>3

LEMMA HeadSuccess ==
    ASSUME NEW x, NEW acct, Shape(x)
    PROVE  SameHead(x, SendSuccess(x, acct))
  <1> DEFINE y == IF options.use_pam THEN mm_do_pam_account(x, acct) ELSE x
             z == [y EXCEPT !.c.success = TRUE]
             r == SendSuccess(x, acct)
  <1>1. SameHead(x, y)
    BY AccountRequest DEF AccountEffect, Frame, SameHead
  <1>2. r = y \/ r = Fatal(y, "denied by PAM account") \/ r = z
    BY DEF SendSuccess, AccountAsked
  <1> HIDE DEF y, r
  <1>3. SameHead(x, z)
    BY <1>1 DEF SameHead, Shape, ChildFields
  <1> HIDE DEF z
  <1>4. SameHead(x, Fatal(y, "denied by PAM account"))
    BY <1>1, HeadFatal, HeadTrans DEF SameHead
  <1>5. SameHead(x, r)
    BY <1>1, <1>2, <1>3, <1>4
  <1> QED  BY <1>5 DEF r

LEMMA HeadFinish ==
    ASSUME NEW x, NEW method, NEW sub, NEW acct, Shape(x)
    PROVE  SameHead(x, userauth_finish(x, method, sub, acct))
  <1> DEFINE up == UpdateLists(x.c.lists, method, sub)
             y == [x EXCEPT !.c.lists = up.lists]
             r == userauth_finish(x, method, sub, acct)
  <1>1. r \in {x, Fatal(x, "authenticated invalid user"), Fatal(x, "authenticated and postponed"),
               Fatal(x, "method not in AuthenticationMethods"),
               SendFailure(x, FALSE, method), SendFailure(y, TRUE, method), SendSuccess(y, acct)}
    BY DEF userauth_finish, Finish
  <1> HIDE DEF up
  <1>2. SameHead(x, y)
    BY DEF SameHead, Shape, ChildFields
  <1> HIDE DEF y, r
  <1>3. \A partial : /\ SameHead(x, SendFailure(x, partial, method))
                     /\ SameHead(y, SendFailure(y, partial, method))
    BY <1>2, HeadFailure DEF SameHead
  <1>4. SameHead(x, SendFailure(x, FALSE, method)) /\ SameHead(y, SendFailure(y, TRUE, method))
    BY <1>3, Zenon
  <1>5. SameHead(x, SendFailure(y, TRUE, method)) /\ SameHead(x, SendSuccess(y, acct))
    BY <1>2, <1>4, HeadSuccess, HeadTrans DEF SameHead
  <1>6. /\ SameHead(x, Fatal(x, "authenticated invalid user"))
        /\ SameHead(x, Fatal(x, "authenticated and postponed"))
        /\ SameHead(x, Fatal(x, "method not in AuthenticationMethods")) /\ SameHead(x, x)
    BY HeadFatal DEF SameHead
  <1>7. SameHead(x, r)
    BY <1>1, <1>4, <1>5, <1>6
  <1> QED  BY <1>7 DEF r

LEMMA HeadBegin ==
    ASSUME NEW x, Shape(x)
    PROVE  LET z == BeginRequest(x)
           IN  /\ Shape(z) /\ z.c.service = x.c.service
               /\ z.c.attempt = IF x.c.attempt = 2 THEN 2 ELSE x.c.attempt + 1
  <1> DEFINE y == [x EXCEPT !.c.attempt = IF @ = 2 THEN 2 ELSE @ + 1, !.c.postponed = FALSE,
                            !.h.abandoned = @ \/ x.m.authok]
             z == BeginRequest(x)
  <1>1. /\ Shape(y) /\ y.c.service = x.c.service
        /\ y.c.attempt = IF x.c.attempt = 2 THEN 2 ELSE x.c.attempt + 1
    BY DEF Shape, ChildFields
  <1>2. z = auth2_challenge_stop(y)
    BY DEF BeginRequest
  <1> HIDE DEF y
  <1>3. SameHead(y, z)
    BY <1>1, <1>2, HeadStop
  <1> HIDE DEF z
  <1>4. /\ Shape(z) /\ z.c.service = x.c.service
        /\ z.c.attempt = IF x.c.attempt = 2 THEN 2 ELSE x.c.attempt + 1
    BY <1>1, <1>3 DEF SameHead
  <1> QED  BY <1>4 DEF z

LEMMA HeadHandle ==
    ASSUME NEW x, NEW in, in.method \in Methods, Shape(x), Ok(x)
    PROVE  LET z == HandleRequest(x, in)
           IN  /\ Shape(z) /\ z.c.service = x.c.service
               /\ z.c.attempt = IF x.c.attempt = 2 THEN 2 ELSE x.c.attempt + 1
  <1> DEFINE y == BeginRequest(x)
             t == TryMethod(y, in)
             u == userauth_finish(t, in.method, "", in.acct)
             z == HandleRequest(x, in)
  <1>1. z = y \/ z = u
    BY DEF HandleRequest, ServeRequest
  <1>2. /\ Shape(y) /\ y.c.service = x.c.service
        /\ y.c.attempt = IF x.c.attempt = 2 THEN 2 ELSE x.c.attempt + 1
    BY HeadBegin
  <1> HIDE DEF y, z
  <1>3. SameHead(y, t)
    BY <1>2, HeadTry
  <1> HIDE DEF t
  <1>4. SameHead(t, u)
    <2>1. Shape(t)
      BY <1>3 DEF SameHead
    <2>2. \A method, sub, acct : SameHead(t, userauth_finish(t, method, sub, acct))
      BY <2>1, HeadFinish
    <2> QED  BY <2>2, Zenon
  <1> HIDE DEF u
  <1>5. /\ Shape(z) /\ z.c.service = x.c.service
        /\ z.c.attempt = IF x.c.attempt = 2 THEN 2 ELSE x.c.attempt + 1
    BY <1>1, <1>2, <1>3, <1>4 DEF SameHead
  <1> QED  BY <1>5 DEF z

LEMMA HeadFirst ==
    ASSUME NEW x, NEW in, Shape(x)
    PROVE  LET z == FirstRequest(x, in)
           IN  /\ Shape(z) /\ z.c.attempt = x.c.attempt /\ z.c.service = in.service
  <1> DEFINE a == mm_getpwnamallow(x)
             b == UserKnown(a, in)
             c == StartPam(b)
             d == mm_inform_authserv(c, in.style)
             e == ReadBanner(d)
             f == [e EXCEPT !.c.lists = auth2_setup_methods_lists]
             z == FirstRequest(x, in)
  <1>1. Shape(a) /\ a.c.attempt = x.c.attempt
    BY GetpwnamRequest DEF Quiet, Frame
  <1>2. z = Fatal(e, "no authentication methods enabled") \/ z = f
    BY DEF FirstRequest, ListsSetUp
  <1> HIDE DEF a, z
  <1>3. Shape(b) /\ b.c.attempt = a.c.attempt /\ b.c.service = in.service
    BY <1>1 DEF UserKnown, Shape, ChildFields
  <1> HIDE DEF b
  <1>4. SameHead(b, c)
    BY <1>3, SimpleRequests DEF StartPam, Quiet, Frame, SameHead
  <1> HIDE DEF c
  <1>5. SameHead(c, d)
    BY <1>4, SimpleRequests DEF Quiet, Frame, SameHead
  <1> HIDE DEF d
  <1>6. SameHead(d, e)
    BY <1>5, SimpleRequests DEF ReadBanner, Quiet, Frame, SameHead
  <1> HIDE DEF e
  <1>7. SameHead(e, f)
    BY <1>6 DEF SameHead, Shape, ChildFields
  <1> HIDE DEF f
  <1>8. SameHead(e, Fatal(e, "no authentication methods enabled"))
    BY <1>6, HeadFatal DEF SameHead
  <1>9. Shape(z) /\ z.c.attempt = x.c.attempt /\ z.c.service = in.service
    BY <1>1, <1>2, <1>3, <1>4, <1>5, <1>6, <1>7, <1>8 DEF SameHead
  <1> QED  BY <1>9 DEF z

LEMMA HeadResponded ==
    ASSUME NEW w, NEW n, NEW pam, NEW acct, Shape(w)
    PROVE  SameHead(w, Responded(mm_sshpam_respond(w, n), pam, acct))
  <1> DEFINE x == mm_sshpam_respond(w, n)
             ki == "keyboard-interactive"
             s == StopUnlessAsked(send_userauth_info_request(x, pam))
             t == StopUnlessAsked(x)
             ok == x.res = 0 /\ x.c.valid
             r == Responded(x, pam, acct)
             u == Judge(s, FALSE)
             v == Judge(t, ok)
  <1>1. SameHead(w, x)
    BY RespondRequest DEF RespondEffect, Quiet, Frame, SameHead
  <1>2. r = x \/ r = userauth_finish(u, ki, "pam", acct) \/ r = userauth_finish(v, ki, "pam", acct)
    BY DEF Responded
  <1> HIDE DEF x, r, ok
  <1>3. SameHead(x, s) /\ SameHead(x, t)
    BY <1>1, HeadAsk, HeadStop DEF SameHead, StopUnlessAsked
  <1> HIDE DEF s, t
  <1>4. SameHead(s, u) /\ SameHead(t, v)
    BY <1>3 DEF Judge, SameHead, Shape
  <1> HIDE DEF u, v
  <1>5. /\ SameHead(u, userauth_finish(u, ki, "pam", acct))
        /\ SameHead(v, userauth_finish(v, ki, "pam", acct))
    BY <1>4, HeadFinish DEF SameHead
  <1>6. SameHead(w, r)
    BY <1>1, <1>2, <1>3, <1>4, <1>5 DEF SameHead
  <1> QED  BY <1>6 DEF r, x

----------------------------------------------------------------------------
(* The specification.                                                      *)

Fresh(x) == Steady(x) /\ x.m.pam = "none" /\ ~x.h.abandoned /\ ~x.c.kbdint
\* Between two packets; the first request fixes the service, and a client of another
\* one is an invalid user to the child only.
Between(x) ==
    /\ x.c.attempt \in 0..2
    /\ Plain /\ x.c.attempt = 0 => Fresh(x)
    /\ Plain /\ x.c.attempt # 0 /\ x.c.service => Closed(x)
AgreeInv == down = "none" => Between(Ctx)

\* The invariant looks at the two processes, not at the request that was served.
LEMMA BetweenFrame ==
    ASSUME NEW x, NEW y, Shape(x), Shape(y), Ok(x), Ok(y), y.m = x.m, y.c = x.c, y.h = x.h,
           Between(x)
    PROVE  Between(y)
  <1>1. Steady(x) => Steady(y)
    BY DEF Steady, Core, Still, Idle, SameKeys
  <1>2. Closed(x) => Closed(y)
    BY <1>1 DEF Closed, Joined, SameKeys
  <1>3. Fresh(x) => Fresh(y)
    BY <1>1 DEF Fresh
  <1> QED  BY <1>2, <1>3 DEF Between

LEMMA Landing ==
    ASSUME NEW z, Apply(z), Shape(z), Ok(z) => Between(z)
    PROVE  AgreeInv'
  <1> SUFFICES ASSUME down' = "none" PROVE Between(Ctx)'
    BY DEF AgreeInv
  <1> DEFINE y == [m |-> z.m, c |-> z.c, h |-> z.h, ans |-> FALSE, res |-> 0, ret |-> FALSE,
                   err |-> "none"]
  <1>1. /\ Ok(z) /\ options' = options /\ mon' = z.m /\ child' = z.c /\ hist' = z.h
    BY DEF Apply, Ok
  <1>2. Shape(y) /\ Ok(y) /\ y.m = z.m /\ y.c = z.c /\ y.h = z.h
    BY DEF Shape, Ok
  <1>3. Ctx' = y
    BY <1>1 DEF Ctx
  <1> HIDE DEF y
  <1>4. Between(y)
    BY <1>1, <1>2, BetweenFrame
  <1>5. Plain' = Plain /\ RootRestricted' = RootRestricted
    BY <1>1 DEF Plain, RootRestricted
  <1>6. Steady(Ctx)' = Steady(y)
    BY <1>1, <1>3, <1>5 DEF Steady, Core, Still, Idle, SameKeys, Shape, Typed, Ok
  <1>7. Closed(Ctx)' = Closed(y)
    BY <1>3, <1>6 DEF Closed, Joined, SameKeys, Shape, Ok
  <1>8. Fresh(Ctx)' = Fresh(y)
    BY <1>3, <1>6 DEF Fresh
  <1> QED  BY <1>3, <1>4, <1>5, <1>7, <1>8 DEF Between

\* The invariant holds at the start and after each packet.
LEMMA AgreeInit ==
    ASSUME AuthInit(Configs)
    PROVE  AgreeInv
  <1>1. /\ DOMAIN mon = MonFields /\ mon.phase = "preauth" /\ mon.pam = "none" /\ mon.valid = FALSE
        /\ mon.lists = NoLists /\ mon.used = {} /\ mon.authok = FALSE /\ mon.method = "unknown"
    BY DEF AuthInit, NewMonitor, MonFields
  <1>2. /\ DOMAIN child = ChildFields /\ child.attempt = 0 /\ child.valid = FALSE
        /\ child.success = FALSE /\ child.lists = NoLists /\ child.used = {} /\ child.kbdint = FALSE
    BY DEF AuthInit, NewChild, ChildFields
  <1>3. DOMAIN hist = {"proved", "guesses", "abandoned"} /\ hist.abandoned = FALSE
    BY DEF AuthInit
  <1>4. Shape(Ctx)
    BY <1>1, <1>2, <1>3, CtxFields DEF Shape
  <1>5. Typed(NoLists)
    BY DEF Typed, NoLists
  <1>6. Core(Ctx)
    BY <1>1, <1>2, <1>3, <1>5, CtxFields DEF Core
  <1>7. Still(Ctx) /\ Idle(Ctx) /\ SameKeys(Ctx)
    BY <1>1, <1>2, <1>3, CtxFields DEF Still, Idle, SameKeys
  <1>8. Fresh(Ctx)
    BY <1>1, <1>2, <1>3, <1>4, <1>6, <1>7, CtxFields DEF Fresh, Steady
  <1> QED  BY <1>2, <1>8, CtxFields DEF AgreeInv, Between

\* What the invariant says before a packet.
LEMMA CtxBetween ==
    ASSUME AuthInv, AgreeInv, down = "none"
    PROVE  Shape(Ctx) /\ Ok(Ctx) /\ Between(Ctx) /\ options \in Config
  BY CtxFields DEF AuthInv, StateOk, AgreeInv, Shape, Ok

LEMMA UnmovedBetween ==
    ASSUME NEW x, NEW z, Shape(x), Between(x), Unmoved(x, z), Ok(z)
    PROVE  Between(z)
  <1>1. Ok(x) /\ Same(x, z)
    BY DEF Unmoved
  <1>2. Steady(x) => Steady(z)
    BY UnmovedSteady
  <1>3. x.m.phase = "preauth" /\ z.m.phase = x.m.phase
    BY DEF Unmoved, Same
  <1>4. Closed(x) => Closed(z)
    BY <1>1, <1>2, <1>3 DEF Closed, Joined, Same
  <1>5. Fresh(x) => Fresh(z)
    BY <1>1, <1>2 DEF Fresh, Same
  <1> QED  BY <1>1, <1>4, <1>5 DEF Between, Same

LEMMA KexAgreed ==
    ASSUME AuthInv, AgreeInv, Kex
    PROVE  AgreeInv'
  <1> DEFINE k == [Ctx EXCEPT !.c.kex = TRUE]
             y == mm_choose_dh(k)
             z == mm_key_sign(y)
  <1>1. Apply(z) /\ down = "none"
    BY DEF Kex
  <1>2. Shape(Ctx) /\ Ok(Ctx) /\ Between(Ctx)
    BY <1>1, CtxBetween
  <1>3. /\ Shape(k) /\ Ok(k) /\ k.m = Ctx.m /\ k.h = Ctx.h /\ k.c.attempt = Ctx.c.attempt
        /\ k.c.service = Ctx.c.service /\ k.c.kbdint = Ctx.c.kbdint /\ k.c.lists = Ctx.c.lists
        /\ k.c.used = Ctx.c.used /\ k.c.success = Ctx.c.success /\ k.c.valid = Ctx.c.valid
    BY <1>2 DEF Shape, ChildFields, Ok
  <1> HIDE DEF k
  <1>4. Steady(Ctx) => Steady(k)
    BY <1>2, <1>3 DEF Steady, Core, Still, Idle, SameKeys
  <1>5. Closed(Ctx) => Closed(k)
    BY <1>2, <1>3, <1>4 DEF Closed, Joined, SameKeys
  <1>6. Fresh(Ctx) => Fresh(k)
    BY <1>3, <1>4 DEF Fresh
  <1>7. Between(k)
    BY <1>2, <1>3, <1>5, <1>6 DEF Between
  <1>8. Unmoved(k, y)
    BY <1>3, SimpleUnmoved
  <1> HIDE DEF y
  <1>9. Unmoved(y, z)
    BY <1>8, SimpleUnmoved DEF Unmoved
  <1> HIDE DEF z
  <1>10. Ok(z) => Between(z)
    BY <1>3, <1>7, <1>8, <1>9, UnmovedBetween DEF Unmoved
  <1> QED  BY <1>1, <1>9, <1>10, Landing DEF Unmoved

LEMMA RequestAgreed ==
    ASSUME AuthInv, AgreeInv, NEW b \in Packets, NEW h \in Heads, NEW acct \in BOOLEAN,
           input_userauth_request(Request(b, h, acct))
    PROVE  AgreeInv'
  <1> DEFINE in == Request(b, h, acct)
             f == FirstRequest(Ctx, in)
             l == LaterRequest(Ctx, in)
             x == IF child.attempt = 0 THEN f ELSE l
             z == HandleRequest(x, in)
  <1>1. in.method \in Methods /\ in.service \in BOOLEAN
    <2>1. b.method \in Methods
      BY DEF Packets, Methods
    <2>2. h.service \in BOOLEAN
      BY DEF Heads
    <2> QED  BY <2>1, <2>2 DEF Request
  <1>2. down = "none" /\ ~child.success /\ Apply(z)
    BY DEF input_userauth_request
  <1> HIDE DEF in
  <1>3. Shape(Ctx) /\ Ok(Ctx) /\ Between(Ctx) /\ options \in Config /\ Ctx.c = child
    BY <1>2, CtxBetween, CtxFields
  <1>4. Shape(f) /\ f.c.attempt = child.attempt /\ f.c.service = in.service
    BY <1>3, HeadFirst
  <1>5. SameHead(Ctx, l)
    BY <1>3, HeadFatal DEF LaterRequest, SameHead
  <1>6. Plain /\ child.attempt = 0 /\ in.service => Steady(f)
    BY <1>3, FirstSteady DEF Between, Fresh
  <1>7. Plain /\ child.attempt # 0 /\ child.service => Steady(l)
    <2>1. Plain /\ child.attempt # 0 /\ child.service => Steady(Ctx)
      BY <1>2, <1>3 DEF Between, Closed
    <2> QED  BY <1>3, <2>1, FatalSteady DEF LaterRequest
  <1>8. child.attempt \in 0..2
    BY <1>3 DEF Between
  <1> HIDE DEF f, l
  <1>9. Shape(x) /\ x.c.attempt = child.attempt
    BY <1>3, <1>4, <1>5 DEF SameHead
  <1>10. Plain /\ x.c.service => Steady(x)
    BY <1>1, <1>3, <1>4, <1>5, <1>6, <1>7 DEF SameHead
  <1> HIDE DEF x
  <1>11. Ok(x) => /\ Shape(z) /\ z.c.service = x.c.service
                  /\ z.c.attempt = IF x.c.attempt = 2 THEN 2 ELSE x.c.attempt + 1
    BY <1>1, <1>9, HeadHandle
  <1>12. ~Ok(x) => z = x
    BY DEF HandleRequest
  <1>13. Plain /\ x.c.service => Closed(z)
    BY <1>1, <1>10, HandleClosed
  <1> HIDE DEF z
  <1>14. Shape(z) /\ (Ok(z) => Ok(x))
    BY <1>9, <1>11, <1>12
  <1>15. Ok(z) => z.c.attempt \in 1..2
    BY <1>8, <1>9, <1>11, <1>14
  <1>16. Ok(z) => Between(z)
    BY <1>11, <1>13, <1>14, <1>15 DEF Between
  <1> QED  BY <1>2, <1>14, <1>16, Landing

LEMMA ResponseAgreed ==
    ASSUME AuthInv, AgreeInv, NEW n, NEW pam, NEW acct, input_userauth_info_response(n, pam, acct)
    PROVE  AgreeInv'
  <1> DEFINE w == [Ctx EXCEPT !.c.postponed = FALSE]
             f == Fatal(Ctx, "wrong number of replies")
             r == Responded(mm_sshpam_respond(w, n), pam, acct)
  <1>1. down = "none" /\ ~child.success /\ child.kbdint /\ (Apply(f) \/ Apply(r))
    BY DEF input_userauth_info_response
  <1>2. Shape(Ctx) /\ Ok(Ctx) /\ Between(Ctx) /\ options \in Config /\ Ctx.c = child
    BY <1>1, CtxBetween, CtxFields
  <1>3. Shape(f) /\ ~Ok(f)
    BY <1>2, FatalKeeps DEF Keeps
  <1>4. /\ Shape(w) /\ Ok(w) /\ w.m = Ctx.m /\ w.h = Ctx.h /\ w.c.attempt = Ctx.c.attempt
        /\ w.c.service = Ctx.c.service /\ w.c.kbdint = Ctx.c.kbdint /\ w.c.lists = Ctx.c.lists
        /\ w.c.used = Ctx.c.used /\ w.c.success = Ctx.c.success /\ w.c.valid = Ctx.c.valid
        /\ w.c.postponed = FALSE
    BY <1>2 DEF Shape, ChildFields, Ok
  <1> HIDE DEF w
  <1>5. SameHead(w, r)
    BY <1>4, HeadResponded
  <1>6. ASSUME Plain, child.service
        PROVE  child.attempt # 0 /\ Closed(r)
    <2>1. child.attempt # 0
      BY <1>1, <1>2, <1>6 DEF Between, Fresh
    <2>2. Steady(Ctx)
      BY <1>1, <1>2, <1>6, <2>1 DEF Between, Closed
    <2>3. Steady(w)
      BY <1>2, <1>4, <2>2 DEF Steady, Core, Still, Idle, SameKeys
    <2> QED  BY <1>1, <1>2, <1>4, <1>6, <2>1, <2>3, RespondedClosed
  <1>7. Plain => child.attempt # 0
    BY <1>1, <1>2 DEF Between, Fresh
  <1> HIDE DEF f, r
  <1>8. Between(r)
    BY <1>2, <1>4, <1>5, <1>6, <1>7 DEF SameHead, Between
  <1> QED  BY <1>1, <1>3, <1>5, <1>8, Landing DEF SameHead

LEMMA KeystateAgreed ==
    ASSUME AuthInv, AgreeInv, mm_send_keystate
    PROVE  AgreeInv'
  <1> DEFINE p == [Ctx EXCEPT !.m.phase = "postauth"]
             f == Fatal(Ctx, "unexpected request")
  <1>1. /\ down = "none" /\ child.success /\ (Apply(p) \/ Apply(f))
    BY DEF mm_send_keystate
  <1>2. Shape(Ctx) /\ Ok(Ctx) /\ Between(Ctx) /\ Ctx.c = child
    BY <1>1, CtxBetween, CtxFields
  <1>3. Shape(f) /\ ~Ok(f)
    BY <1>2, FatalKeeps DEF Keeps
  <1>4. /\ Shape(p) /\ Ok(p) /\ p.c = Ctx.c /\ p.h = Ctx.h /\ p.m.phase = "postauth"
        /\ p.m.used = Ctx.m.used /\ p.m.lists = Ctx.m.lists
    BY <1>2 DEF Shape, MonFields, Ok
  <1> HIDE DEF p, f
  <1>5. ~Steady(Ctx)
    BY <1>1, <1>2 DEF Steady, Core
  <1>6. Closed(Ctx) => Closed(p)
    BY <1>1, <1>2, <1>4 DEF Closed, Joined, SameKeys
  <1>7. Between(p)
    BY <1>2, <1>4, <1>5, <1>6 DEF Between, Fresh
  <1> QED  BY <1>1, <1>3, <1>4, <1>7, Landing

LEMMA StutterAgreed ==
    ASSUME AuthInv, AgreeInv, UNCHANGED authvars
    PROVE  AgreeInv'
  <1> SUFFICES ASSUME down' = "none" PROVE AgreeInv'
    BY DEF AgreeInv
  <1>1. Apply(Ctx) /\ down = "none"
    BY CtxFields DEF Apply, authvars
  <1> QED  BY <1>1, CtxBetween, Landing

\* Agreement for every configuration, account and client: the child (auth2.c) and the
\* monitor (monitor.c) decide alike between any two packets.
THEOREM MonitorChildAgreement == AuthSpec => []Agreement
  <1>1. AuthInit(Configs) => AgreeInv
    BY AgreeInit
  <1>2. AuthInv /\ AgreeInv /\ [AuthStep]_authvars => AgreeInv'
    <2> SUFFICES ASSUME AuthInv, AgreeInv, [AuthStep]_authvars
                 PROVE  AgreeInv'
      OBVIOUS
    <2>1. CASE Kex
      BY <2>1, KexAgreed
    <2>2. CASE \E b \in Packets, h \in Heads, acct \in BOOLEAN :
                 input_userauth_request(Request(b, h, acct))
      BY <2>2, RequestAgreed
    <2>3. CASE \E n \in {0, 1}, pam \in PamResults, acct \in BOOLEAN :
                 input_userauth_info_response(n, pam, acct)
      BY <2>3, ResponseAgreed
    <2>4. CASE mm_send_keystate
      BY <2>4, KeystateAgreed
    <2>5. CASE UNCHANGED authvars
      BY <2>5, StutterAgreed
    <2> QED  BY <2>1, <2>2, <2>3, <2>4, <2>5 DEF AuthStep
  <1>3. AuthInv /\ AgreeInv => Agreement
    <2> SUFFICES ASSUME AuthInv, AgreeInv, down = "none", child.service, Plain
                 PROVE  /\ child.success <=> mon.phase \in {"keystate", "postauth"}
                        /\ child.used = mon.used
                        /\ child.lists # mon.lists \/ mon.phase = "account" => hist.abandoned
      BY DEF Agreement, Plain
    <2>1. /\ Shape(Ctx) /\ Ok(Ctx) /\ Between(Ctx)
          /\ Ctx.c = child /\ Ctx.m = mon /\ Ctx.h = hist
      BY CtxBetween, CtxFields
    <2>2. Closed(Ctx)
      BY <2>1, SteadyClosed DEF Between, Fresh
    <2>3. CASE child.success
      BY <2>1, <2>2, <2>3 DEF Closed, Joined, SameKeys
    <2>4. CASE ~child.success
      <3>1. Steady(Ctx)
        BY <2>1, <2>2, <2>4 DEF Closed
      <3> QED  BY <2>1, <2>4, <3>1 DEF Steady, Still, SameKeys
    <2> QED  BY <2>3, <2>4
  <1> QED  BY <1>1, <1>2, <1>3, AuthInvariance, PTL DEF AuthSpec
=============================================================================
