-------------------------- MODULE TransportProofs --------------------------
(***************************************************************************)
(* Proofs about Transport, for every choice of its constants.              *)
(*                                                                         *)
(* A handler is a function on its context, so the argument follows the     *)
(* code: Good says of a context that what its handler has done so far is   *)
(* sound, and one lemma per function of packet.c and kex.c shows that the  *)
(* function preserves it.  Two facts about the wire carry the proof that   *)
(* only key exchange packets follow a KEXINIT: Clean, which is the         *)
(* property itself on one queue of frames, and Open, that the last KEXINIT *)
(* is not yet followed by a NEWKEYS, which implies the flag rekeying.      *)
(*                                                                         *)
(* The transfer of the server's packet state clears rekeying without       *)
(* looking at it.  That this is right needs to know that the server cannot *)
(* be in a key exchange when authentication succeeds: Phase says how, from *)
(* the dispatch tables that kex_setup, kex_reset_dispatch and              *)
(* do_authentication2 install.                                             *)
(***************************************************************************)
EXTENDS Transport, SequenceTheorems, WellFoundedInduction, TLAPS

\* The contexts of handlers.
Contexts == [s : States, out : Seq(Frames), err : Reasons]

\* In w nothing but key exchange packets comes between KEXINIT and NEWKEYS.
Clean(w) ==
    \A i, j \in DOMAIN w :
        i < j /\ w[i].p.t = "KEXINIT" =>
            \/ ssh_packet_type_is_kex(w[j].p.t)
            \/ \E l \in i + 1 .. j - 1 : w[l].p.t = "NEWKEYS"

\* A key exchange has been started in w and NEWKEYS has not been sent.
Open(w) ==
    \E i \in DOMAIN w :
        w[i].p.t = "KEXINIT" /\ \A l \in i + 1 .. Len(w) : w[l].p.t # "NEWKEYS"

\* Nothing but new keys resets the packet counter of e.
Counted(e) == e = "client" \/ ~Privsep

\* What relates the counters of the outgoing direction.
Counters(e, s) ==
    /\ ~InterMac /\ s.pkt["out"] = 0 => s.blk["out"] = 0
    /\ Counted(e) => s.used = s.pkt["out"]

LEMMA ModRange ==
    ASSUME NEW a \in Nat
    PROVE  a % SeqMod \in 0 .. SeqMod - 1
BY TransportAssumption

LEMMA ModNext ==
    ASSUME NEW a \in 0 .. SeqMod - 1, NEW i \in Nat, a + i <= SeqMod
    PROVE  (a + i) % SeqMod = IF a + i = SeqMod THEN 0 ELSE a + i
<1>1. a + i \in Nat /\ SeqMod \in Nat \ {0}
  BY TransportAssumption
<1>2. CASE a + i = SeqMod
  BY <1>1, <1>2
<1>3. CASE a + i < SeqMod
  BY <1>1, <1>3
<1> QED
  BY <1>1, <1>2, <1>3

\* What sending a packet leaves alone.
Kept(s, t) ==
    /\ t.phase = s.phase /\ t.my = s.my /\ t.peer = s.peer /\ t.extInfo = s.extInfo
    /\ t.disp = s.disp /\ t.queue = s.queue /\ t.expired = s.expired /\ t.sid = s.sid
    /\ t.rekeying = s.rekeying /\ t.done = s.done /\ t.initSent = s.initSent

LEMMA OutMode == "out" \in Mode /\ "in" \in Mode
BY DEF Mode

LEMMA CountFields ==
    ASSUME NEW s \in States
    PROVE  /\ \A m \in Mode : /\ s.seq[m] \in 0 .. SeqMod - 1
                              /\ s.pkt[m] \in 0 .. SeqMod - 1
                              /\ s.blk[m] \in Nat
           /\ s.used \in Nat /\ SeqMod \in Nat \ {0}
BY TransportAssumption DEF States

LEMMA CountOutType ==
    ASSUME NEW s \in States, NEW i \in Nat
    PROVE  /\ CountOut(s, i) \in States
           /\ CountOut(s, i).seq["out"] = (s.seq["out"] + i) % SeqMod
           /\ CountOut(s, i).pkt["out"] = (s.pkt["out"] + i) % SeqMod
           /\ CountOut(s, i).blk["out"] = s.blk["out"] + i
           /\ CountOut(s, i).used = s.used + i
           /\ CountOut(s, i).key = s.key /\ CountOut(s, i).comp = s.comp
           /\ CountOut(s, i).pend = s.pend /\ CountOut(s, i).auth = s.auth
           /\ Kept(s, CountOut(s, i))
<1>1. /\ (s.seq["out"] + i) % SeqMod \in 0 .. SeqMod - 1
      /\ (s.pkt["out"] + i) % SeqMod \in 0 .. SeqMod - 1
      /\ s.blk["out"] + i \in Nat /\ s.used + i \in Nat
  BY OutMode, CountFields, ModRange
<1> QED
  BY <1>1, OutMode DEF CountOut, States, Kept

LEMMA ConstantTypes ==
    /\ NoHash \in Hashes /\ NoKey \in Keys /\ Blank \in Keys /\ NoInit \in KexInits
    /\ \A t \in Types : Pkt(t) \in Packets /\ Pkt(t).t = t
<1>1. NoHash \in Hashes
  BY DEF NoHash, Hashes
<1>2. NoInit \in KexInits
  BY DEF NoInit, KexInits
<1> QED
  BY <1>1, <1>2 DEF NoKey, Blank, Keys, Pkt, Packets

LEMMA SetNewkeysType ==
    ASSUME NEW k \in Contexts, NEW m \in Mode, NEW r, r = ssh_set_newkeys(k, m)
    PROVE  /\ r \in Contexts /\ r.out = k.out /\ Kept(k.s, r.s)
           /\ r.err \in {k.err, "no_newkeys"}
           /\ r.s.pkt[m] = 0 /\ r.s.blk[m] = 0 /\ r.s.auth = k.s.auth
           /\ \A n \in Mode \ {m} : r.s.pkt[n] = k.s.pkt[n] /\ r.s.blk[n] = k.s.blk[n]
           /\ Ok(k) => r.s.used = IF m = "out" /\ Ok(r) THEN 0 ELSE k.s.used
<1> DEFINE s == [k.s EXCEPT !.pkt[m] = 0, !.blk[m] = 0]
           pkt == [k.s.pkt EXCEPT ![m] = 0]
           blk == [k.s.blk EXCEPT ![m] = 0]
<1>0. /\ pkt \in [Mode -> 0 .. SeqMod - 1] /\ blk \in [Mode -> Nat]
      /\ pkt[m] = 0 /\ blk[m] = 0
      /\ \A n \in Mode \ {m} : pkt[n] = k.s.pkt[n] /\ blk[n] = k.s.blk[n]
  BY TransportAssumption DEF Contexts, States
<1>a. s = [k.s EXCEPT !.pkt = pkt, !.blk = blk]
  OBVIOUS
<1> HIDE DEF pkt, blk
<1>1. /\ s \in States /\ Kept(k.s, s) /\ s.auth = k.s.auth /\ s.used = k.s.used
      /\ s.pend = k.s.pend /\ s.key = k.s.key /\ s.comp = k.s.comp
      /\ s.pkt = pkt /\ s.blk = blk
  BY <1>0, <1>a DEF Contexts, States, Kept
<1> HIDE DEF s
<1>2. CASE s.pend[m] = NoKey
  <2>1. r = [k EXCEPT !.s = s, !.err = "no_newkeys"]
    BY <1>2 DEF ssh_set_newkeys, s
  <2> QED
    BY <1>0, <1>1, <2>1 DEF Contexts, Reasons, Ok
<1>3. CASE s.pend[m] # NoKey
  <2> DEFINE q == [s EXCEPT !.key[m] = s.pend[m], !.pend[m] = NoKey,
                            !.comp[m] = Compress /\ s.auth,
                            !.used = IF m = "out" THEN 0 ELSE @]
             key == [s.key EXCEPT ![m] = s.pend[m]]
             pend == [s.pend EXCEPT ![m] = NoKey]
             comp == [s.comp EXCEPT ![m] = Compress /\ s.auth]
             used == IF m = "out" THEN 0 ELSE s.used
  <2>1. r = [k EXCEPT !.s = q]
    BY <1>3 DEF ssh_set_newkeys, s
  <2>2. q = [s EXCEPT !.key = key, !.pend = pend, !.comp = comp, !.used = used]
    OBVIOUS
  <2>b. (Compress /\ s.auth) \in BOOLEAN
    OBVIOUS
  <2>3. /\ key \in [Mode -> Keys] /\ pend \in [Mode -> Keys]
        /\ comp \in [Mode -> BOOLEAN] /\ used \in Nat
    BY <1>1, ConstantTypes, <2>b DEF States
  <2> HIDE DEF key, pend, comp, q
  <2>4. /\ q \in States /\ Kept(s, q) /\ q.pkt = s.pkt /\ q.blk = s.blk
        /\ q.used = used /\ q.auth = s.auth
    BY <1>1, <2>2, <2>3 DEF States, Kept
  <2>5. /\ r \in Contexts /\ r.s = q /\ r.out = k.out /\ r.err = k.err
    BY <2>1, <2>4 DEF Contexts
  <2> QED
    BY <1>0, <1>1, <2>4, <2>5 DEF Kept, Ok
<1> QED
  BY <1>2, <1>3
LEMMA DelayedCompressType ==
    ASSUME NEW s \in States, NEW t, t = ssh_packet_enable_delayed_compress(s)
    PROVE  /\ t \in States /\ Kept(s, t) /\ t.auth = TRUE
           /\ t.pkt = s.pkt /\ t.blk = s.blk /\ t.seq = s.seq /\ t.used = s.used
<1> DEFINE comp == [m \in Mode |-> s.comp[m] \/ (Compress /\ s.key[m] # NoKey)]
<1>1. t = [s EXCEPT !.auth = TRUE, !.comp = comp]
  BY DEF ssh_packet_enable_delayed_compress
<1>2. \A m \in Mode : (s.comp[m] \/ (Compress /\ s.key[m] # NoKey)) \in BOOLEAN
  OBVIOUS
<1>3. comp \in [Mode -> BOOLEAN]
  BY <1>2
<1> HIDE DEF comp
<1> QED
  BY <1>1, <1>3 DEF States, Kept

LEMMA FrameType ==
    ASSUME NEW s \in States, NEW p \in Packets
    PROVE  Frame(s, p) \in Frames /\ Frame(s, p).p = p
BY OutMode DEF Frame, Frames, States

-----------------------------------------------------------------------------
(* Sequences of frames.                                                    *)

LEMMA Assoc ==
    ASSUME NEW u \in Seq(Frames), NEW v \in Seq(Frames), NEW w \in Seq(Frames)
    PROVE  (u \o v) \o w = u \o (v \o w)
BY ConcatAssociative

LEMMA AppendOne ==
    ASSUME NEW w \in Seq(Frames), NEW f \in Frames, Clean(w),
           Open(w) => ssh_packet_type_is_kex(f.p.t)
    PROVE  /\ Append(w, f) \in Seq(Frames) /\ Clean(Append(w, f))
           /\ Open(Append(w, f)) =>
                f.p.t = "KEXINIT" \/ (Open(w) /\ f.p.t # "NEWKEYS")
<1> DEFINE v == Append(w, f)  n == Len(w)
<1>1. /\ v \in Seq(Frames) /\ Len(v) = n + 1 /\ v[n + 1] = f /\ n \in Nat
      /\ \A i \in 1 .. n : v[i] = w[i]
      /\ DOMAIN v = 1 .. n + 1 /\ DOMAIN w = 1 .. n
  OBVIOUS
<1> HIDE DEF v, n
<1>2. Clean(v)
  <2> SUFFICES ASSUME NEW i \in 1 .. n + 1, NEW j \in 1 .. n + 1, i < j,
                      v[i].p.t = "KEXINIT", ~ssh_packet_type_is_kex(v[j].p.t)
               PROVE  \E l \in i + 1 .. j - 1 : v[l].p.t = "NEWKEYS"
    BY <1>1 DEF Clean
  <2>1. i \in 1 .. n /\ w[i].p.t = "KEXINIT"
    BY <1>1
  <2>2. CASE j \in 1 .. n
    <3>1. i \in DOMAIN w /\ j \in DOMAIN w /\ w[j] = v[j]
      BY <1>1, <2>1, <2>2
    <3>2. PICK l \in i + 1 .. j - 1 : w[l].p.t = "NEWKEYS"
      BY <2>1, <3>1 DEF Clean
    <3> QED
      BY <1>1, <2>1, <2>2, <3>2
  <2>3. CASE j = n + 1
    <3>1. ~Open(w)
      BY <1>1, <2>3
    <3>2. PICK l \in i + 1 .. Len(w) : w[l].p.t = "NEWKEYS"
      BY <1>1, <2>1, <3>1 DEF Open
    <3> QED
      BY <1>1, <2>3, <3>2, <2>1 DEF n
  <2> QED
    BY <2>2, <2>3, <1>1
<1>3. ASSUME Open(v), f.p.t # "KEXINIT" PROVE Open(w) /\ f.p.t # "NEWKEYS"
  <2>1. PICK i \in 1 .. n + 1 :
             v[i].p.t = "KEXINIT" /\ \A l \in i + 1 .. n + 1 : v[l].p.t # "NEWKEYS"
    BY <1>1, <1>3 DEF Open
  <2>2. i \in 1 .. n
    BY <1>1, <2>1, <1>3
  <2>3. /\ w[i].p.t = "KEXINIT"
        /\ \A l \in i + 1 .. n : w[l].p.t # "NEWKEYS"
        /\ v[n + 1].p.t # "NEWKEYS"
    BY <1>1, <2>1, <2>2
  <2> QED
    BY <1>1, <2>2, <2>3 DEF Open, n
<1> QED
  BY <1>1, <1>2, <1>3 DEF v

LEMMA AppendMany ==
    ASSUME NEW w \in Seq(Frames), NEW g \in Seq(Frames), Clean(w), ~Open(w),
           \A i \in DOMAIN g : g[i].p.t # "KEXINIT"
    PROVE  w \o g \in Seq(Frames) /\ Clean(w \o g) /\ ~Open(w \o g)
<1> DEFINE v == w \o g  n == Len(w)
<1>1. /\ v \in Seq(Frames) /\ Len(v) = n + Len(g) /\ n \in Nat /\ Len(g) \in Nat
      /\ \A i \in 1 .. n : v[i] = w[i]
      /\ \A i \in 1 .. Len(v) : i > n => v[i] = g[i - n] /\ i - n \in DOMAIN g
      /\ DOMAIN v = 1 .. Len(v) /\ DOMAIN w = 1 .. n
  OBVIOUS
<1> HIDE DEF v
<1>2. \A i \in DOMAIN v : v[i].p.t = "KEXINIT" =>
          i \in 1 .. n /\ \E l \in i + 1 .. n : w[l].p.t = "NEWKEYS"
  BY <1>1 DEF Open
<1> HIDE DEF n
<1>3. ~Open(v)
  <2> SUFFICES ASSUME NEW i \in DOMAIN v, v[i].p.t = "KEXINIT"
               PROVE  \E l \in i + 1 .. Len(v) : v[l].p.t = "NEWKEYS"
    BY DEF Open
  <2>1. PICK l \in i + 1 .. n : w[l].p.t = "NEWKEYS"
    BY <1>2
  <2> QED
    BY <1>1, <2>1
<1>4. Clean(v)
  <2> SUFFICES ASSUME NEW i \in DOMAIN v, NEW j \in DOMAIN v, i < j,
                      v[i].p.t = "KEXINIT", ~ssh_packet_type_is_kex(v[j].p.t)
               PROVE  \E l \in i + 1 .. j - 1 : v[l].p.t = "NEWKEYS"
    BY DEF Clean
  <2>1. PICK l \in i + 1 .. n : w[l].p.t = "NEWKEYS"
    BY <1>2
  <2>2. CASE j \in 1 .. n
    <3>1. i \in DOMAIN w /\ j \in DOMAIN w /\ w[j] = v[j] /\ w[i] = v[i]
      BY <1>1, <1>2, <2>2
    <3>2. PICK m \in i + 1 .. j - 1 : w[m].p.t = "NEWKEYS"
      BY <3>1 DEF Clean
    <3> QED
      BY <1>1, <2>2, <3>1, <3>2
  <2>3. CASE j > n
    BY <1>1, <2>1, <2>3
  <2> QED
    BY <2>2, <2>3, <1>1
<1> QED
  BY <1>1, <1>3, <1>4 DEF v

LEMMA TailFits ==
    ASSUME NEW w \in Seq(Frames), w # <<>>, Clean(w)
    PROVE  /\ Tail(w) \in Seq(Frames) /\ Clean(Tail(w)) /\ (Open(Tail(w)) => Open(w))
<1> DEFINE v == Tail(w)  n == Len(v)
<1>1. /\ v \in Seq(Frames) /\ n \in Nat /\ Len(w) = n + 1
      /\ \A i \in 1 .. n : v[i] = w[i + 1]
      /\ DOMAIN v = 1 .. n /\ DOMAIN w = 1 .. n + 1
  OBVIOUS
<1> HIDE DEF v
<1>2. Clean(v)
  <2> SUFFICES ASSUME NEW i \in 1 .. n, NEW j \in 1 .. n, i < j,
                      v[i].p.t = "KEXINIT", ~ssh_packet_type_is_kex(v[j].p.t)
               PROVE  \E l \in i + 1 .. j - 1 : v[l].p.t = "NEWKEYS"
    BY <1>1 DEF Clean
  <2>1. PICK l \in (i + 1) + 1 .. (j + 1) - 1 : w[l].p.t = "NEWKEYS"
    <3>1. /\ i + 1 \in DOMAIN w /\ j + 1 \in DOMAIN w /\ i + 1 < j + 1
          /\ w[i + 1].p.t = "KEXINIT" /\ ~ssh_packet_type_is_kex(w[j + 1].p.t)
      BY <1>1
    <3> QED
      BY <3>1 DEF Clean
  <2>2. l - 1 \in i + 1 .. j - 1 /\ v[l - 1] = w[l]
    BY <1>1, <2>1
  <2> QED
    BY <2>1, <2>2
<1>3. ASSUME Open(v) PROVE Open(w)
  <2>1. PICK i \in 1 .. n :
             v[i].p.t = "KEXINIT" /\ \A l \in i + 1 .. n : v[l].p.t # "NEWKEYS"
    BY <1>1, <1>3 DEF Open
  <2>2. i + 1 \in DOMAIN w /\ w[i + 1].p.t = "KEXINIT"
    BY <1>1, <2>1
  <2>3. \A l \in (i + 1) + 1 .. n + 1 : w[l] = v[l - 1] /\ l - 1 \in i + 1 .. n
    BY <1>1
  <2>4. \A l \in (i + 1) + 1 .. n + 1 : w[l].p.t # "NEWKEYS"
    BY <2>1, <2>3
  <2> QED
    BY <1>1, <2>2, <2>4 DEF Open
<1> QED
  BY <1>1, <1>2, <1>3 DEF v
-----------------------------------------------------------------------------
(* Sending.                                                                *)

\* Only packets that are not of a key exchange wait in the queue.
Queued(s) == \A i \in DOMAIN s.queue : ~ssh_packet_type_is_kex(s.queue[i].t)
Used(e, s) == Counted(e) => s.used <= SeqMod

\* A handler of e has run so far without harm: w is what was on the wire from e
\* before, k its context.
Good(e, w, k) ==
    /\ k \in Contexts /\ Queued(k.s) /\ Used(e, k.s)
    /\ Clean(w \o k.out)
    /\ Ok(k) => Counters(e, k.s) /\ (Open(w \o k.out) => k.s.rekeying)

\* One more packet is counted.
LEMMA CountOne ==
    ASSUME NEW e \in Endpoint, NEW s \in States, Counters(e, s), NEW t, t = CountOut(s, 1)
    PROVE  /\ Used(e, t)
           /\ t.pkt["out"] # 0 => Counters(e, t)
<1>1. /\ s.pkt["out"] \in 0 .. SeqMod - 1 /\ SeqMod \in Nat \ {0} /\ s.used \in Nat
      /\ s.blk["out"] \in Nat
  BY OutMode, CountFields
<1>2. (s.pkt["out"] + 1) % SeqMod =
          IF s.pkt["out"] + 1 = SeqMod THEN 0 ELSE s.pkt["out"] + 1
  <2>1. 1 \in Nat /\ s.pkt["out"] + 1 <= SeqMod
    BY <1>1
  <2> QED
    BY <1>1, <2>1, ModNext
<1>3. t.pkt["out"] = (s.pkt["out"] + 1) % SeqMod /\ t.used = s.used + 1
  BY CountOutType
<1> QED
  BY <1>1, <1>2, <1>3 DEF Used, Counters

LEMMA Wrapped ==
    ASSUME NEW e \in Endpoint, NEW w \in Seq(Frames), NEW k, Good(e, w, k), Ok(k),
           NEW p \in Packets, Open(w \o k.out) => ssh_packet_type_is_kex(p.t),
           p.t = "KEXINIT" => k.s.rekeying,
           NEW r, r = ssh_packet_send2_wrapped(e, k, p)
    PROVE  /\ Good(e, w, r) /\ Kept(k.s, r.s)
           /\ p.t = "NEWKEYS" => ~Open(w \o r.out)
           /\ p.t # "AUTH_SUCCESS" => r.s.auth = k.s.auth
<1> DEFINE s == CountOut(k.s, 1)
           k1 == [k EXCEPT !.s = s, !.out = Append(@, Frame(k.s, p))]
<1>1. k \in Contexts /\ k.s \in States /\ k.out \in Seq(Frames) /\ k.err = "none"
      /\ k.s.auth \in BOOLEAN
  BY DEF Good, Contexts, Ok, States
<1>2. /\ s \in States /\ Kept(k.s, s) /\ s.auth = k.s.auth
  BY <1>1, CountOutType
<1>3. Used(e, s) /\ (s.pkt["out"] # 0 => Counters(e, s))
  BY <1>1, CountOne DEF Good
<1>4. Frame(k.s, p) \in Frames /\ Frame(k.s, p).p = p
  BY <1>1, FrameType
<1> HIDE DEF s
<1>5. /\ k1 \in Contexts /\ k1.s = s /\ k1.err = "none"
      /\ k1.out = Append(k.out, Frame(k.s, p)) /\ k1.out \in Seq(Frames)
  <2> DEFINE out == Append(k.out, Frame(k.s, p))
  <2>1. out \in Seq(Frames)
    BY <1>1, <1>4
  <2> HIDE DEF out
  <2>2. k1 = [k EXCEPT !.s = s, !.out = out]
    BY DEF out
  <2> QED
    BY <1>1, <1>2, <2>1, <2>2 DEF Contexts, out
<1>6. w \o k1.out = Append(w \o k.out, Frame(k.s, p)) /\ w \o k.out \in Seq(Frames)
  BY <1>1, <1>4, <1>5
<1>7. /\ Clean(w \o k1.out)
      /\ Open(w \o k1.out) => k.s.rekeying /\ p.t # "NEWKEYS"
  <2>1. /\ Clean(Append(w \o k.out, Frame(k.s, p)))
        /\ Open(Append(w \o k.out, Frame(k.s, p))) =>
              p.t = "KEXINIT" \/ (Open(w \o k.out) /\ p.t # "NEWKEYS")
    BY <1>4, <1>6, AppendOne DEF Good
  <2> QED
    BY <1>6, <2>1 DEF Good
<1>8. Queued(s)
  BY <1>2 DEF Good, Queued, Kept
<1> HIDE DEF k1
<1>9. CASE s.pkt["out"] = 0
  <2>1. r = [k1 EXCEPT !.err = "need_rekey"]
    BY <1>1, <1>9 DEF ssh_packet_send2_wrapped, PacketsWrapped, Fail, Ok, k1, s
  <2>2. /\ r \in Contexts /\ r.s = s /\ r.out = k1.out /\ ~Ok(r)
    BY <1>5, <2>1 DEF Contexts, Reasons, Ok
  <2> QED
    BY <1>2, <1>3, <1>7, <1>8, <2>2 DEF Good
<1>10. CASE s.pkt["out"] # 0 /\ p.t = "NEWKEYS"
  <2>1. r = ssh_set_newkeys(k1, "out")
    BY <1>1, <1>10 DEF ssh_packet_send2_wrapped, PacketsWrapped, Ok, k1, s
  <2>2. /\ r \in Contexts /\ r.out = k1.out /\ Kept(k1.s, r.s)
        /\ r.s.pkt["out"] = 0 /\ r.s.blk["out"] = 0 /\ r.s.auth = k1.s.auth
        /\ r.s.used = IF Ok(r) THEN 0 ELSE k1.s.used
    BY <1>5, <2>1, OutMode, SetNewkeysType DEF Ok
  <2>3. Queued(r.s) /\ Used(e, r.s) /\ (Ok(r) => Counters(e, r.s))
    BY <1>3, <1>5, <1>8, <2>2, TransportAssumption DEF Queued, Kept, Used, Counters
  <2>4. Kept(k.s, r.s)
    BY <1>2, <1>5, <2>2 DEF Kept
  <2> QED
    BY <1>2, <1>5, <1>7, <1>10, <2>2, <2>3, <2>4 DEF Good
<1>11. CASE s.pkt["out"] # 0 /\ p.t = "AUTH_SUCCESS" /\ e = "server"
  <2>1. r = [k1 EXCEPT !.s = ssh_packet_enable_delayed_compress(s)]
    BY <1>1, <1>11 DEF ssh_packet_send2_wrapped, PacketsWrapped, Ok, k1, s
  <2> DEFINE t == ssh_packet_enable_delayed_compress(s)
  <2>2. /\ t \in States /\ Kept(s, t) /\ t.auth = TRUE
        /\ t.pkt = s.pkt /\ t.blk = s.blk /\ t.used = s.used
    BY <1>2, DelayedCompressType
  <2> HIDE DEF t
  <2>3. /\ r \in Contexts /\ r.s = t /\ r.out = k1.out /\ r.err = "none"
    BY <1>5, <2>1, <2>2 DEF Contexts, t
  <2>4. Queued(t) /\ Used(e, t) /\ Counters(e, t) /\ Kept(k.s, t)
    BY <1>2, <1>3, <1>8, <1>11, <2>2 DEF Queued, Kept, Used, Counters
  <2>5. Ok(r)
    BY <2>3 DEF Ok
  <2>6. Good(e, w, r)
    BY <1>7, <2>3, <2>4 DEF Good, Kept
  <2> QED
    BY <1>1, <1>11, <2>2, <2>3, <2>4, <2>5, <2>6
<1>12. CASE s.pkt["out"] # 0 /\ p.t # "NEWKEYS" /\ ~(p.t = "AUTH_SUCCESS" /\ e = "server")
  <2>1. r = k1
    BY <1>1, <1>12 DEF ssh_packet_send2_wrapped, PacketsWrapped, Ok, k1, s
  <2>2. Good(e, w, r)
    BY <1>2, <1>3, <1>5, <1>7, <1>8, <1>12, <2>1 DEF Good, Kept
  <2> QED
    BY <1>1, <1>2, <1>5, <1>12, <2>1, <2>2
<1> QED
  BY <1>9, <1>10, <1>11, <1>12
\* What sending packets and starting a rekey leave alone.
Frozen(s, t) ==
    /\ t.phase = s.phase /\ t.disp = s.disp /\ t.peer = s.peer
    /\ t.extInfo = s.extInfo /\ t.sid = s.sid

LEMMA SendKexinit ==
    ASSUME NEW e \in Endpoint, NEW w \in Seq(Frames), NEW k, Good(e, w, k), Ok(k),
           NEW r, r = kex_send_kexinit(e, k)
    PROVE  /\ Good(e, w, r) /\ Frozen(k.s, r.s) /\ r.s.auth = k.s.auth
           /\ k.s.initSent => r = k
           /\ ~k.s.initSent => ~r.s.done
           /\ ~k.s.initSent /\ Ok(r) => r.s.rekeying /\ r.s.initSent
<1>1. CASE k.s.initSent
  BY <1>1 DEF kex_send_kexinit, Frozen
<1>2. CASE ~k.s.initSent
  <2> DEFINE i == [n |-> k.s.my.n + 1, ext |-> e = "client" /\ k.s.extInfo]
             j == [k EXCEPT !.s.done = FALSE, !.s.my = i, !.s.rekeying = TRUE]
             s == [k.s EXCEPT !.done = FALSE, !.my = i, !.rekeying = TRUE]
             p == [Pkt("KEXINIT") EXCEPT !.i = i]
             k1 == ssh_packet_send2_wrapped(e, j, p)
  <2>1. k \in Contexts /\ k.s \in States /\ k.out \in Seq(Frames) /\ k.err = "none"
    BY DEF Good, Contexts, Ok
  <2>2. i \in KexInits
    <3>1. k.s.my.n + 1 \in Nat
      BY <2>1 DEF States, KexInits
    <3>2. (e = "client" /\ k.s.extInfo) \in BOOLEAN
      OBVIOUS
    <3> QED
      BY <3>1, <3>2 DEF KexInits
  <2>3. r = [k1 EXCEPT !.s.initSent = Ok(k1)]
    BY <1>2 DEF kex_send_kexinit
  <2> HIDE DEF i
  <2>4. p \in Packets /\ p.t = "KEXINIT"
    BY <2>2, ConstantTypes DEF Packets, Types, TransportTypes
  <2>5. /\ s \in States /\ s.rekeying /\ ~s.done /\ s.auth = k.s.auth /\ Frozen(k.s, s)
        /\ s.pkt = k.s.pkt /\ s.blk = k.s.blk /\ s.used = k.s.used /\ s.queue = k.s.queue
    BY <2>1, <2>2 DEF States, Frozen
  <2>6. j = [k EXCEPT !.s = s]
    BY <2>1 DEF Contexts
  <2> HIDE DEF s, j, p
  <2>7. j \in Contexts /\ j.s = s /\ j.out = k.out /\ j.err = "none"
    BY <2>1, <2>5, <2>6 DEF Contexts
  <2>8. Good(e, w, j) /\ Ok(j)
    BY <2>5, <2>7 DEF Good, Queued, Used, Counters, Ok
  <2>9. /\ Good(e, w, k1) /\ Kept(j.s, k1.s) /\ k1.s.auth = j.s.auth
    <3>1. ssh_packet_type_is_kex(p.t)
      BY <2>4 DEF ssh_packet_type_is_kex, TransportTypes
    <3>2. p.t # "AUTH_SUCCESS"
      BY <2>4
    <3>3. j.s.rekeying /\ p \in Packets
      BY <2>4, <2>5, <2>7
    <3> HIDE DEF k1
    <3>4. k1 = ssh_packet_send2_wrapped(e, j, p)
      BY DEF k1
    <3>5. /\ Good(e, w, k1) /\ Kept(j.s, k1.s)
          /\ p.t # "AUTH_SUCCESS" => k1.s.auth = j.s.auth
      BY <2>8, <3>1, <3>3, <3>4, Wrapped
    <3> QED
      BY <3>2, <3>5
  <2> HIDE DEF k1
  <2>10. k1 \in Contexts /\ k1.s \in States
    BY <2>9 DEF Good, Contexts
  <2> DEFINE t == [k1.s EXCEPT !.initSent = Ok(k1)]
  <2>11. r = [k1 EXCEPT !.s = t]
    BY <2>3, <2>10 DEF Contexts
  <2>12. /\ t \in States /\ t.pkt = k1.s.pkt /\ t.blk = k1.s.blk /\ t.used = k1.s.used
         /\ t.queue = k1.s.queue /\ t.rekeying = k1.s.rekeying /\ t.done = k1.s.done
         /\ t.auth = k1.s.auth /\ Frozen(k1.s, t)
    <3>1. Ok(k1) \in BOOLEAN
      BY DEF Ok
    <3> QED
      BY <2>10, <3>1 DEF States, Frozen
  <2>13. t.initSent = Ok(k1)
    BY <2>10 DEF States
  <2> HIDE DEF t
  <2>14. r \in Contexts /\ r.s = t /\ r.out = k1.out /\ r.err = k1.err
    BY <2>10, <2>11, <2>12 DEF Contexts
  <2>15. Good(e, w, r)
    BY <2>9, <2>12, <2>14 DEF Good, Queued, Used, Counters, Ok
  <2>16. Frozen(k.s, t) /\ t.rekeying /\ ~t.done /\ t.auth = k.s.auth
    BY <2>5, <2>7, <2>9, <2>12 DEF Frozen, Kept
  <2>17. Ok(r) => t.initSent
    BY <2>13, <2>14 DEF Ok
  <2> QED
    BY <1>2, <2>14, <2>15, <2>16, <2>17
<1> QED
  BY <1>1, <1>2

LEMMA StartRekex ==
    ASSUME NEW e \in Endpoint, NEW w \in Seq(Frames), NEW k, Good(e, w, k), Ok(k),
           NEW r, r = kex_start_rekex(e, k)
    PROVE  Good(e, w, r) /\ Frozen(k.s, r.s) /\ r.s.auth = k.s.auth /\ ~r.s.done
<1>1. k \in Contexts /\ k.s \in States /\ k.err = "none"
  BY DEF Good, Contexts, Ok
<1>2. CASE ~k.s.done
  <2>1. r = [k EXCEPT !.err = "twice"]
    BY <1>2 DEF kex_start_rekex, Fail
  <2>2. r \in Contexts /\ r.s = k.s /\ r.out = k.out /\ ~Ok(r)
    BY <1>1, <2>1 DEF Contexts, Ok, Reasons
  <2> QED
    BY <1>2, <2>2 DEF Good, Frozen
<1>3. CASE k.s.done
  <2> DEFINE s == [k.s EXCEPT !.done = FALSE]
             j == [k EXCEPT !.s.done = FALSE]
  <2>1. j = [k EXCEPT !.s = s]
    BY <1>1 DEF Contexts
  <2>2. /\ s \in States /\ s.rekeying = k.s.rekeying /\ s.auth = k.s.auth /\ Frozen(k.s, s)
        /\ ~s.done
        /\ s.pkt = k.s.pkt /\ s.blk = k.s.blk /\ s.used = k.s.used /\ s.queue = k.s.queue
    BY <1>1 DEF States, Frozen
  <2>3. r = kex_send_kexinit(e, j)
    BY <1>3 DEF kex_start_rekex
  <2> HIDE DEF s, j
  <2>4. j \in Contexts /\ j.s = s /\ j.out = k.out /\ j.err = "none"
    BY <1>1, <2>1, <2>2 DEF Contexts
  <2>5. Good(e, w, j) /\ Ok(j)
    BY <2>2, <2>4 DEF Good, Queued, Used, Counters, Ok
  <2>6. Good(e, w, r) /\ Frozen(j.s, r.s) /\ r.s.auth = j.s.auth
        /\ (j.s.initSent => r = j) /\ (~j.s.initSent => ~r.s.done)
    BY <2>3, <2>5, SendKexinit
  <2> QED
    BY <2>2, <2>4, <2>6 DEF Frozen
<1> QED
  BY <1>2, <1>3
LEMMA Least ==
    ASSUME NEW S, S \subseteq Nat, S # {}
    PROVE  \E n \in S : \A i \in 0 .. n - 1 : i \notin S
<1>1. PICK n \in S : \A j \in S : ~ (<<j, n>> \in OpToRel(<, Nat))
  BY WFMin, NatLessThanWellFounded
<1>2. \A j \in S : ~ (j < n)
  BY <1>1 DEF OpToRel
<1>3. n \in Nat /\ \A i \in 0 .. n - 1 : i < n
  OBVIOUS
<1> QED
  BY <1>2, <1>3

\* The queue is sent up to a packet that cannot be sent: packets that are not of a
\* key exchange, when none is under way, counted without a wrap.
LEMMA Flush ==
    ASSUME NEW e \in Endpoint, NEW w \in Seq(Frames), NEW k, Good(e, w, k), Ok(k),
           ~Open(w \o k.out), NEW r, r = FlushQueue(e, k)
    PROVE  /\ Good(e, w, r) /\ Frozen(k.s, r.s) /\ r.s.auth = k.s.auth
           /\ ~k.s.auth /\ Ok(r) =>
                /\ r.s.rekeying = k.s.rekeying /\ r.s.done = k.s.done
                /\ r.s.initSent = k.s.initSent
<1> DEFINE s == k.s
           Stops(i) == ssh_packet_need_rekeying(CountOut(s, i), BlockSize)
           Wraps(i) == i # 0 /\ PacketsWrapped(CountOut(s, i))
           n == CHOOSE n \in 0 .. Len(s.queue) :
                   /\ \A i \in 0 .. n - 1 : ~Stops(i) /\ ~Wraps(i)
                   /\ n = Len(s.queue) \/ Stops(n) \/ Wraps(n)
           rest == SubSeq(s.queue, n + 1, Len(s.queue))
           frames == [i \in 1 .. n |-> Frame(CountOut(s, i - 1), s.queue[i])]
           s1 == [CountOut(s, n) EXCEPT !.queue = rest]
           k1 == [k EXCEPT !.s = s1, !.out = @ \o frames]
<1>1. /\ k \in Contexts /\ s \in States /\ k.out \in Seq(Frames) /\ k.err = "none"
      /\ s.queue \in Seq(Packets) /\ Len(s.queue) \in Nat
  BY DEF Good, Contexts, Ok, States
<1>2. r = IF Wraps(n) THEN Fail(k1, "need_rekey")
          ELSE IF n < Len(s.queue) THEN kex_start_rekex(e, k1)
          ELSE k1
  BY DEF FlushQueue
<1>3. /\ n \in 0 .. Len(s.queue)
      /\ \A i \in 0 .. n - 1 : ~Stops(i) /\ ~Wraps(i)
      /\ n = Len(s.queue) \/ Stops(n) \/ Wraps(n)
  <2> DEFINE S == {i \in 0 .. Len(s.queue) : i = Len(s.queue) \/ Stops(i) \/ Wraps(i)}
  <2> HIDE DEF Stops, Wraps
  <2>1. S \subseteq Nat /\ S # {}
    BY <1>1
  <2>2. PICK m \in S : \A i \in 0 .. m - 1 : i \notin S
    BY <2>1, Least
  <2>3. /\ m \in 0 .. Len(s.queue) /\ (m = Len(s.queue) \/ Stops(m) \/ Wraps(m))
        /\ \A i \in 0 .. m - 1 : ~Stops(i) /\ ~Wraps(i)
    BY <1>1, <2>2
  <2> QED
    BY <2>3
<1>n. n \in Nat
  BY <1>1, <1>3
<1> HIDE DEF n
<1>4. /\ rest \in Seq(Packets)
      /\ \A i \in DOMAIN rest : ~ssh_packet_type_is_kex(rest[i].t)
  <2>1. /\ rest \in Seq(Packets) /\ Len(rest) = Len(s.queue) - n
        /\ \A i \in 1 .. Len(rest) : rest[i] = s.queue[n + i] /\ n + i \in DOMAIN s.queue
    BY <1>1, <1>3
  <2> QED
    BY <2>1 DEF Good, Queued
<1>5. /\ frames \in Seq(Frames) /\ Len(frames) = n
      /\ \A i \in DOMAIN frames : frames[i].p.t # "KEXINIT"
  <2>1. ASSUME NEW i \in 1 .. n
        PROVE  /\ Frame(CountOut(s, i - 1), s.queue[i]) \in Frames
               /\ Frame(CountOut(s, i - 1), s.queue[i]).p.t # "KEXINIT"
    <3>1. i - 1 \in Nat /\ i \in DOMAIN s.queue /\ s.queue[i] \in Packets
      BY <1>1, <1>3
    <3>2. CountOut(s, i - 1) \in States
      BY <1>1, <3>1, CountOutType
    <3>3. s.queue[i].t # "KEXINIT"
      BY <3>1 DEF Good, Queued, ssh_packet_type_is_kex, TransportTypes
    <3> QED
      BY <3>1, <3>2, <3>3, FrameType
  <2> QED
    BY <1>3, <2>1
<1> HIDE DEF rest, frames
<1>6. /\ s1 \in States /\ s1.queue = rest /\ Frozen(s, s1) /\ s1.auth = s.auth
      /\ s1.rekeying = s.rekeying /\ s1.done = s.done /\ s1.initSent = s.initSent
      /\ s1.pkt["out"] = (s.pkt["out"] + n) % SeqMod
      /\ s1.blk["out"] = s.blk["out"] + n /\ s1.used = s.used + n
  <2> DEFINE t == CountOut(s, n)
  <2>1. /\ t \in States /\ Kept(s, t) /\ t.auth = s.auth
        /\ t.pkt["out"] = (s.pkt["out"] + n) % SeqMod
        /\ t.blk["out"] = s.blk["out"] + n /\ t.used = s.used + n
    BY <1>1, <1>n, CountOutType
  <2> HIDE DEF t
  <2>2. s1 = [t EXCEPT !.queue = rest]
    BY DEF t
  <2>3. s1 \in States /\ s1.queue = rest /\ s1.pkt = t.pkt /\ s1.blk = t.blk
        /\ s1.used = t.used /\ s1.auth = t.auth /\ Frozen(t, s1)
        /\ s1.rekeying = t.rekeying /\ s1.done = t.done /\ s1.initSent = t.initSent
    BY <1>4, <2>1, <2>2 DEF States, Frozen
  <2> QED
    BY <2>1, <2>3 DEF Frozen, Kept
<1> HIDE DEF s1
<1>7. Queued(s1)
  BY <1>4, <1>6 DEF Queued
<1>8. /\ Used(e, s1)
      /\ ~Wraps(n) => Counters(e, s1)
  <2>1. /\ s.pkt["out"] \in 0 .. SeqMod - 1 /\ SeqMod \in Nat \ {0} /\ s.used \in Nat
        /\ s.blk["out"] \in Nat /\ n \in Nat
    BY <1>1, <1>3, OutMode, CountFields
  <2>2. s.pkt["out"] + n <= SeqMod
    <3> SUFFICES ASSUME s.pkt["out"] + n > SeqMod PROVE FALSE
      BY <2>1
    <3> DEFINE m == SeqMod - s.pkt["out"]
    <3>1. m \in 0 .. n - 1 /\ m # 0 /\ m \in Nat /\ s.pkt["out"] + m = SeqMod
      BY <2>1
    <3>2. CountOut(s, m).pkt["out"] = (s.pkt["out"] + m) % SeqMod
      BY <1>1, <3>1, CountOutType
    <3>3. (s.pkt["out"] + m) % SeqMod = 0
      BY <2>1, <3>1, ModNext
    <3>4. Wraps(m)
      BY <3>1, <3>2, <3>3 DEF PacketsWrapped
    <3> QED
      BY <1>3, <3>1, <3>4
  <2>3. s1.pkt["out"] = IF s.pkt["out"] + n = SeqMod THEN 0 ELSE s.pkt["out"] + n
    BY <1>6, <2>1, <2>2, ModNext
  <2>4. ~Wraps(n) => n = 0 \/ s1.pkt["out"] # 0
    <3>1. CountOut(s, n).pkt["out"] = (s.pkt["out"] + n) % SeqMod
      BY <1>1, <2>1, CountOutType
    <3> QED
      BY <1>6, <3>1 DEF PacketsWrapped
  <2>5. Counters(e, s)
    BY DEF Good
  <2>6. s1.blk["out"] = s.blk["out"] + n /\ s1.used = s.used + n
    BY <1>6
  <2> HIDE DEF s, Wraps
  <2>7. Used(e, s1)
    BY <2>1, <2>2, <2>5, <2>6 DEF Used, Counters
  <2>8. ASSUME n = 0 \/ s1.pkt["out"] # 0 PROVE Counters(e, s1)
    <3>1. CASE n = 0
      BY <2>1, <2>3, <2>5, <2>6, <3>1 DEF Counters
    <3>2. CASE s1.pkt["out"] # 0
      BY <2>1, <2>3, <2>5, <2>6, <3>2 DEF Counters
    <3> QED
      BY <2>8, <3>1, <3>2
  <2> QED
    BY <2>4, <2>7, <2>8
<1>9. /\ w \o (k.out \o frames) = (w \o k.out) \o frames
      /\ k.out \o frames \in Seq(Frames) /\ w \o k.out \in Seq(Frames)
  <2>1. k.out \o frames \in Seq(Frames) /\ w \o k.out \in Seq(Frames)
    BY <1>1, <1>5
  <2>2. (w \o k.out) \o frames = w \o (k.out \o frames)
    <3>1. k.out \in Seq(Frames)
      BY <1>1
    <3>2. frames \in Seq(Frames)
      BY <1>5
    <3> QED
      BY <3>1, <3>2, Assoc, Zenon
  <2> QED
    BY <2>1, <2>2
<1>10. Clean(w \o (k.out \o frames)) /\ ~Open(w \o (k.out \o frames))
  BY <1>5, <1>9, AppendMany DEF Good
<1> DEFINE out == k.out \o frames
<1> HIDE DEF out
<1>11. k1 = [k EXCEPT !.s = s1, !.out = out]
  BY DEF out
<1>12. k1 \in Contexts /\ k1.s = s1 /\ k1.out = out /\ k1.err = "none"
  BY <1>1, <1>6, <1>9, <1>11 DEF Contexts, out
<1>13. Clean(w \o k1.out) /\ ~Open(w \o k1.out)
  BY <1>10, <1>12 DEF out
<1> HIDE DEF k1
<1>14. CASE Wraps(n)
  <2>1. r = [k1 EXCEPT !.err = "need_rekey"]
    BY <1>2, <1>14 DEF Fail
  <2>2. r \in Contexts /\ r.s = s1 /\ r.out = k1.out /\ ~Ok(r)
    BY <1>12, <2>1 DEF Contexts, Reasons, Ok
  <2> QED
    BY <1>6, <1>7, <1>8, <1>13, <2>2 DEF Good
<1>15. CASE ~Wraps(n)
  <2> HIDE DEF Wraps
  <2>1. Good(e, w, k1) /\ Ok(k1)
    BY <1>7, <1>8, <1>12, <1>13, <1>15 DEF Good, Ok
  <2>2. CASE n < Len(s.queue)
    <3>1. r = kex_start_rekex(e, k1)
      BY <1>2, <1>15, <2>2
    <3>2. Good(e, w, r) /\ Frozen(k1.s, r.s) /\ r.s.auth = k1.s.auth
      BY <2>1, <3>1, StartRekex
    <3>3. Stops(n)
      BY <1>3, <1>15, <2>2
    <3>4. s.auth
      <4>1. CountOut(s, n).auth
        BY <3>3 DEF ssh_packet_need_rekeying
      <4>2. CountOut(s, n).auth = s.auth
        BY <1>1, <1>n, CountOutType
      <4> QED
        BY <4>1, <4>2
    <3> QED
      BY <1>6, <1>12, <3>2, <3>4 DEF Frozen
  <2>3. CASE ~(n < Len(s.queue))
    BY <1>2, <1>6, <1>12, <1>15, <2>1, <2>3
  <2> QED
    BY <2>2, <2>3
<1> QED
  BY <1>14, <1>15
\* A packet is enqueued.
LEMMA EnqueueGood ==
    ASSUME NEW e \in Endpoint, NEW w \in Seq(Frames), NEW k, Good(e, w, k), Ok(k),
           NEW p \in Packets, ~ssh_packet_type_is_kex(p.t), NEW r, r = Enqueue(k, p)
    PROVE  /\ Good(e, w, r) /\ Ok(r) /\ Frozen(k.s, r.s) /\ r.s.auth = k.s.auth
           /\ r.s.rekeying = k.s.rekeying /\ r.s.done = k.s.done
           /\ r.s.initSent = k.s.initSent
<1> DEFINE q == Append(k.s.queue, p)
           s == [k.s EXCEPT !.queue = q]
<1>1. k \in Contexts /\ k.s \in States /\ k.err = "none" /\ k.s.queue \in Seq(Packets)
  BY DEF Good, Contexts, Ok, States
<1>2. /\ q \in Seq(Packets)
      /\ \A i \in DOMAIN q : ~ssh_packet_type_is_kex(q[i].t)
  <2>1. /\ q \in Seq(Packets) /\ DOMAIN q = 1 .. Len(k.s.queue) + 1
        /\ \A i \in DOMAIN q : q[i] = p \/ (i \in DOMAIN k.s.queue /\ q[i] = k.s.queue[i])
    BY <1>1
  <2> HIDE DEF q
  <2> QED
    BY <2>1 DEF Good, Queued
<1> HIDE DEF q
<1>3. r = [k EXCEPT !.s = s]
  BY <1>1 DEF Enqueue, Contexts, q
<1>4. /\ s \in States /\ s.queue = q /\ Frozen(k.s, s) /\ s.auth = k.s.auth
      /\ s.rekeying = k.s.rekeying /\ s.done = k.s.done /\ s.initSent = k.s.initSent
      /\ s.pkt = k.s.pkt /\ s.blk = k.s.blk /\ s.used = k.s.used
  BY <1>1, <1>2 DEF States, Frozen
<1> HIDE DEF s
<1>5. r \in Contexts /\ r.s = s /\ r.out = k.out /\ r.err = "none"
  BY <1>1, <1>3, <1>4 DEF Contexts
<1>6. Good(e, w, r) /\ Ok(r)
  BY <1>2, <1>4, <1>5 DEF Good, Queued, Used, Counters, Ok
<1> QED
  BY <1>4, <1>5, <1>6

LEMMA Send2 ==
    ASSUME NEW e \in Endpoint, NEW w \in Seq(Frames), NEW k, Good(e, w, k), Ok(k),
           NEW p \in Packets, p.t # "KEXINIT", NEW r, r = ssh_packet_send2(e, k, p)
    PROVE  /\ Good(e, w, r) /\ Frozen(k.s, r.s)
           /\ p.t # "AUTH_SUCCESS" => r.s.auth = k.s.auth
           /\ ~k.s.auth /\ Ok(r) =>
                /\ r.s.done = k.s.done /\ r.s.initSent = k.s.initSent
                /\ IF p.t = "NEWKEYS" THEN ~r.s.rekeying ELSE r.s.rekeying = k.s.rekeying
<1> DEFINE need == /\ ~ssh_packet_type_is_kex(p.t)
                   /\ ssh_packet_need_rekeying(k.s, BlockSize)
           wait == k.s.rekeying /\ ~ssh_packet_type_is_kex(p.t)
           k1 == ssh_packet_send2_wrapped(e, k, p)
           j == [k1 EXCEPT !.s.rekeying = FALSE, !.s.expired = FALSE]
<1>0. ssh_packet_type_is_kex("NEWKEYS")
  BY DEF ssh_packet_type_is_kex, TransportTypes
<1>1. r = IF need THEN kex_start_rekex(e, Enqueue(k, p))
          ELSE IF wait THEN Enqueue(k, p)
          ELSE IF p.t = "NEWKEYS" /\ Ok(k1) THEN FlushQueue(e, j) ELSE k1
  BY DEF ssh_packet_send2
<1>2. CASE need
  <2> DEFINE q == Enqueue(k, p)
  <2> HIDE DEF q
  <2>1. /\ Good(e, w, q) /\ Ok(q) /\ Frozen(k.s, q.s) /\ q.s.auth = k.s.auth
    BY <1>2, EnqueueGood DEF q
  <2>2. r = kex_start_rekex(e, q)
    BY <1>1, <1>2 DEF q
  <2>3. Good(e, w, r) /\ Frozen(q.s, r.s) /\ r.s.auth = q.s.auth
    BY <2>1, <2>2, StartRekex
  <2>4. k.s.auth
    BY <1>2 DEF ssh_packet_need_rekeying
  <2> QED
    BY <2>1, <2>3, <2>4 DEF Frozen
<1>3. CASE ~need /\ wait
  <2>1. r = Enqueue(k, p)
    BY <1>1, <1>3
  <2>2. p.t # "NEWKEYS"
    BY <1>0, <1>3
  <2>3. /\ Good(e, w, r) /\ Frozen(k.s, r.s) /\ r.s.auth = k.s.auth
        /\ r.s.rekeying = k.s.rekeying /\ r.s.done = k.s.done
        /\ r.s.initSent = k.s.initSent
    <3>1. ~ssh_packet_type_is_kex(p.t)
      BY <1>3
    <3> QED
      BY <2>1, <3>1, EnqueueGood
  <2> QED
    BY <2>2, <2>3
<1>4. CASE ~need /\ ~wait
  <2>1. Open(w \o k.out) => ssh_packet_type_is_kex(p.t)
    BY <1>4 DEF Good
  <2> HIDE DEF k1
  <2>2. /\ Good(e, w, k1) /\ Kept(k.s, k1.s)
        /\ p.t = "NEWKEYS" => ~Open(w \o k1.out)
        /\ p.t # "AUTH_SUCCESS" => k1.s.auth = k.s.auth
    BY <2>1, Wrapped DEF k1
  <2>3. CASE ~(p.t = "NEWKEYS" /\ Ok(k1))
    <3>1. r = k1
      BY <1>1, <1>4, <2>3
    <3> QED
      BY <2>2, <2>3, <3>1 DEF Frozen, Kept
  <2>4. CASE p.t = "NEWKEYS" /\ Ok(k1)
    <3> DEFINE t == [k1.s EXCEPT !.rekeying = FALSE, !.expired = FALSE]
    <3>1. k1 \in Contexts /\ k1.s \in States /\ k1.err = "none"
      BY <2>2, <2>4 DEF Good, Contexts, Ok
    <3>2. j = [k1 EXCEPT !.s = t]
      BY <3>1 DEF Contexts
    <3>3. /\ t \in States /\ ~t.rekeying /\ Frozen(k1.s, t) /\ t.auth = k1.s.auth
          /\ t.done = k1.s.done /\ t.initSent = k1.s.initSent /\ t.queue = k1.s.queue
          /\ t.pkt = k1.s.pkt /\ t.blk = k1.s.blk /\ t.used = k1.s.used
      BY <3>1 DEF States, Frozen
    <3> HIDE DEF t, j
    <3>4. j \in Contexts /\ j.s = t /\ j.out = k1.out /\ j.err = "none"
      BY <3>1, <3>2, <3>3 DEF Contexts
    <3>5. Good(e, w, j) /\ Ok(j) /\ ~Open(w \o j.out)
      BY <2>2, <2>4, <3>3, <3>4 DEF Good, Queued, Used, Counters, Ok
    <3>6. r = FlushQueue(e, j)
      BY <1>1, <1>4, <2>4
    <3>7. /\ Good(e, w, r) /\ Frozen(j.s, r.s) /\ r.s.auth = j.s.auth
          /\ ~j.s.auth /\ Ok(r) =>
                /\ r.s.rekeying = j.s.rekeying /\ r.s.done = j.s.done
                /\ r.s.initSent = j.s.initSent
      BY <3>5, <3>6, Flush
    <3>8. t.auth = k.s.auth /\ t.done = k.s.done /\ t.initSent = k.s.initSent
          /\ Frozen(k.s, t)
      BY <2>2, <2>4, <3>3 DEF Frozen, Kept
    <3> QED
      BY <2>4, <3>3, <3>4, <3>7, <3>8 DEF Frozen
  <2> QED
    BY <2>3, <2>4
<1> QED
  BY <1>2, <1>3, <1>4
-----------------------------------------------------------------------------
(* The handlers.                                                           *)

\* The state t differs from s in nothing that Good looks at.
Alike(s, t) ==
    /\ t.pkt["out"] = s.pkt["out"] /\ t.blk["out"] = s.blk["out"] /\ t.used = s.used
    /\ t.queue = s.queue /\ t.rekeying = s.rekeying

LEMMA GoodAlike ==
    ASSUME NEW e \in Endpoint, NEW w \in Seq(Frames), NEW k, Good(e, w, k),
           NEW r, r \in Contexts, r.out = k.out, r.err = k.err, Alike(k.s, r.s)
    PROVE  Good(e, w, r)
BY DEF Good, Alike, Queued, Used, Counters, Ok

\* The packets whose handlers take a connection from one phase to the next.
LoginTypes == {"SERVICE_REQUEST", "SERVICE_ACCEPT", "AUTH_REQUEST", "AUTH_SUCCESS"}

\* What is known of the server before its main loop: it does not rekey, and
\* once it has authenticated the user it is not in a key exchange.
Phase(e, s) ==
    e = "server" =>
      /\ s.phase \in {"start", "kex", "auth"} => ~s.auth
      /\ s.phase = "start" => ~s.initSent
      /\ s.phase = "kex" =>
            /\ s.done => ~s.rekeying
            /\ ~s.done => s.initSent
            /\ s.disp["NEWKEYS"] = "input" => ~s.rekeying
      /\ s.phase \in {"start", "kex", "loop"} =>
            \A t \in LoginTypes : s.disp[t] # "input"
      /\ s.phase = "auth" =>
            /\ ~s.rekeying
            /\ \A t \in Types \ {"SERVICE_REQUEST", "AUTH_REQUEST"} : s.disp[t] # "input"
      /\ s.phase = "authdone" => ~s.rekeying

\* A handler may run on k, and has done no harm.
Ready(e, w, k) ==
    /\ Good(e, w, k) /\ Ok(k) /\ Phase(e, k.s)
    /\ k.s.phase \in {"kex", "auth", "loop"}
    /\ e = "server" => k.s.phase # "kex" \/ ~k.s.done
Harmless(e, w, r) == Good(e, w, r) /\ (Ok(r) => Phase(e, r.s))

LEMMA TypesOf ==
    /\ TransportTypes \subseteq Types
    /\ {"KEXINIT", "NEWKEYS", "EXT_INFO", "SERVICE_REQUEST", "SERVICE_ACCEPT",
        "UNIMPLEMENTED", "GEX_REQUEST", "GEX_GROUP", "DH_INIT", "DH_REPLY"} = TransportTypes
    /\ {"AUTH_REQUEST", "AUTH_SUCCESS", "DATA"} \subseteq Types
    /\ LoginTypes \subseteq Types
BY DEF Types, TransportTypes, KexMethodTypes, LoginTypes

LEMMA SetHandlerType ==
    ASSUME NEW k \in Contexts, NEW t \in Types, NEW h \in Handlers,
           NEW r, r = SetHandler(k, t, h)
    PROVE  /\ r \in Contexts /\ r.out = k.out /\ r.err = k.err /\ Alike(k.s, r.s)
           /\ r.s.disp = [k.s.disp EXCEPT ![t] = h]
           /\ r.s.phase = k.s.phase /\ r.s.auth = k.s.auth /\ r.s.done = k.s.done
           /\ r.s.initSent = k.s.initSent /\ r.s.peer = k.s.peer /\ r.s.extInfo = k.s.extInfo
           /\ r.s.sid = k.s.sid /\ r.s.pend = k.s.pend
<1> DEFINE d == [k.s.disp EXCEPT ![t] = h]
           s == [k.s EXCEPT !.disp = d]
<1>1. k.s \in States /\ d \in [Types -> Handlers]
  BY DEF Contexts, States
<1>2. r = [k EXCEPT !.s = s]
  BY DEF SetHandler, Contexts
<1> HIDE DEF d
<1>3. /\ s \in States /\ Alike(k.s, s) /\ s.disp = d
      /\ s.phase = k.s.phase /\ s.auth = k.s.auth /\ s.done = k.s.done
      /\ s.initSent = k.s.initSent /\ s.peer = k.s.peer /\ s.extInfo = k.s.extInfo
      /\ s.sid = k.s.sid /\ s.pend = k.s.pend
  BY <1>1 DEF States, Alike
<1> HIDE DEF s
<1>4. r \in Contexts /\ r.s = s /\ r.out = k.out /\ r.err = k.err
  BY <1>2, <1>3 DEF Contexts
<1> QED
  BY <1>3, <1>4 DEF d

\* Setting a handler other than those that Phase is about.
LEMMA SetHandlerHarmless ==
    ASSUME NEW e \in Endpoint, NEW w \in Seq(Frames), NEW k, Harmless(e, w, k),
           NEW t \in Types, NEW h \in Handlers, NEW r, r = SetHandler(k, t, h),
           \/ h # "input"
           \/ t \notin {"NEWKEYS"} \cup LoginTypes /\ k.s.phase # "auth"
           \/ e = "client"
           \/ t = "AUTH_REQUEST" /\ k.s.phase = "auth"
    PROVE  Harmless(e, w, r) /\ r.s.phase = k.s.phase /\ r.err = k.err
<1>1. k \in Contexts
  BY DEF Harmless, Good
<1>2. /\ r \in Contexts /\ r.out = k.out /\ r.err = k.err /\ Alike(k.s, r.s)
      /\ r.s.disp = [k.s.disp EXCEPT ![t] = h]
      /\ r.s.phase = k.s.phase /\ r.s.auth = k.s.auth /\ r.s.done = k.s.done
      /\ r.s.initSent = k.s.initSent
  BY <1>1, SetHandlerType
<1>3. Good(e, w, r)
  BY <1>2, GoodAlike DEF Harmless
<1>4. k.s.disp \in [Types -> Handlers]
  BY <1>1 DEF Contexts, States
<1>5. \A u \in Types : r.s.disp[u] = IF u = t THEN h ELSE k.s.disp[u]
  BY <1>2, <1>4
<1>6. {"NEWKEYS"} \cup LoginTypes \subseteq Types
  BY TypesOf
<1>7. ASSUME Ok(r), e = "server" PROVE Phase(e, r.s)
  <2>1. Phase(e, k.s)
    BY <1>2, <1>7 DEF Harmless, Ok
  <2>2. r.s.rekeying = k.s.rekeying
    BY <1>2 DEF Alike
  <2>3. CASE h # "input"
    BY <1>2, <1>5, <1>6, <1>7, <2>1, <2>2, <2>3 DEF Phase
  <2>4. CASE t \notin {"NEWKEYS"} \cup LoginTypes /\ k.s.phase # "auth"
    BY <1>2, <1>5, <1>6, <1>7, <2>1, <2>2, <2>4 DEF Phase
  <2>5. CASE t = "AUTH_REQUEST" /\ k.s.phase = "auth"
    BY <1>2, <1>5, <1>6, <1>7, <2>1, <2>2, <2>5 DEF Phase
  <2> QED
    BY <1>7, <2>3, <2>4, <2>5
<1> QED
  BY <1>2, <1>3, <1>7 DEF Harmless, Phase

\* Sending a packet other than NEWKEYS and AUTH_SUCCESS.
LEMMA SendHarmless ==
    ASSUME NEW e \in Endpoint, NEW w \in Seq(Frames), NEW k, Good(e, w, k), Ok(k),
           Phase(e, k.s), k.s.phase # "authdone",
           NEW p \in Packets, p.t \notin {"KEXINIT", "NEWKEYS", "AUTH_SUCCESS"},
           NEW r, r = ssh_packet_send2(e, k, p)
    PROVE  Harmless(e, w, r) /\ Frozen(k.s, r.s)
<1>1. /\ Good(e, w, r) /\ Frozen(k.s, r.s) /\ r.s.auth = k.s.auth
      /\ ~k.s.auth /\ Ok(r) =>
            /\ r.s.done = k.s.done /\ r.s.initSent = k.s.initSent
            /\ r.s.rekeying = k.s.rekeying
  BY Send2
<1>2. ASSUME Ok(r), e = "server" PROVE Phase(e, r.s)
  <2>1. k \in Contexts /\ k.s.phase \in Phases
    BY DEF Good, Contexts, States
  <2>2. CASE k.s.phase \in {"start", "kex", "auth"}
    <3>1. ~k.s.auth
      BY <1>2, <2>2 DEF Phase
    <3> QED
      BY <1>1, <1>2, <2>2, <3>1 DEF Phase, Frozen
  <2>3. CASE k.s.phase = "loop"
    BY <1>1, <1>2, <2>3 DEF Phase, Frozen
  <2> QED
    BY <2>1, <2>2, <2>3 DEF Phases
<1> QED
  BY <1>1, <1>2 DEF Harmless, Phase
LEMMA PktTypes ==
    \A t \in Types : Pkt(t) \in Packets /\ Pkt(t).t = t
BY ConstantTypes

\* NEWKEYS is sent, and the key exchange is over on our side.
LEMMA SendNewkeysHarmless ==
    ASSUME NEW e \in Endpoint, NEW w \in Seq(Frames), NEW k, Good(e, w, k), Ok(k),
           Phase(e, k.s), e = "server" => k.s.phase \in {"kex", "loop"},
           k.s.phase # "authdone",
           NEW r, r = kex_send_newkeys(e, k)
    PROVE  Harmless(e, w, r)
<1> DEFINE d == [t \in Types |-> IF t = "KEXINIT" THEN "input"
                                 ELSE IF t \in TransportTypes THEN "unimplemented"
                                 ELSE k.s.disp[t]]
           s == [k.s EXCEPT !.disp = d]
           j == kex_reset_dispatch(k)
           k1 == ssh_packet_send2(e, j, Pkt("NEWKEYS"))
           k2 == SetHandler(k1, "NEWKEYS", "input")
<1>1. k \in Contexts /\ k.s \in States /\ k.err = "none" /\ k.s.disp \in [Types -> Handlers]
  BY DEF Good, Contexts, Ok, States
<1>2. /\ d \in [Types -> Handlers]
      /\ \A t \in LoginTypes : d[t] = k.s.disp[t] \/ d[t] # "input"
  BY <1>1, TypesOf DEF Handlers, LoginTypes
<1>3. j = [k EXCEPT !.s = s]
  BY <1>1 DEF kex_reset_dispatch, Contexts
<1> HIDE DEF d
<1>4. /\ s \in States /\ Alike(k.s, s) /\ s.disp = d /\ s.phase = k.s.phase
      /\ s.auth = k.s.auth /\ s.extInfo = k.s.extInfo
  BY <1>1, <1>2 DEF States, Alike
<1> HIDE DEF s, j
<1>5. j \in Contexts /\ j.s = s /\ j.out = k.out /\ j.err = k.err
  BY <1>1, <1>3, <1>4 DEF Contexts
<1>6. Good(e, w, j) /\ Ok(j)
  BY <1>1, <1>4, <1>5, GoodAlike DEF Ok
<1>7. Pkt("NEWKEYS") \in Packets /\ Pkt("NEWKEYS").t = "NEWKEYS"
      /\ Pkt("EXT_INFO") \in Packets /\ Pkt("EXT_INFO").t = "EXT_INFO"
  BY PktTypes, TypesOf
<1> HIDE DEF k1, k2
<1>8. /\ Good(e, w, k1) /\ Frozen(j.s, k1.s) /\ k1.s.auth = j.s.auth
      /\ ~j.s.auth /\ Ok(k1) => ~k1.s.rekeying
  <2>1. k1 = ssh_packet_send2(e, j, Pkt("NEWKEYS"))
    BY DEF k1
  <2> QED
    BY <1>6, <1>7, <2>1, Send2
<1>9. r = IF ~Ok(k1) THEN k1
          ELSE IF e = "server" /\ k.s.extInfo THEN kex_send_ext_info(e, k2) ELSE k2
  BY DEF kex_send_newkeys, k1, k2, j
<1>10. CASE ~Ok(k1)
  BY <1>8, <1>9, <1>10 DEF Harmless
<1>11. CASE Ok(k1)
  <2>1. k1 \in Contexts
    BY <1>8 DEF Good
  <2>2. "NEWKEYS" \in Types /\ "input" \in Handlers
    BY TypesOf DEF Handlers
  <2>3. /\ k2 \in Contexts /\ k2.out = k1.out /\ k2.err = k1.err /\ Alike(k1.s, k2.s)
        /\ k2.s.disp = [k1.s.disp EXCEPT !["NEWKEYS"] = "input"]
        /\ k2.s.phase = k1.s.phase /\ k2.s.auth = k1.s.auth
        /\ k2.s.done = k1.s.done /\ k2.s.initSent = k1.s.initSent
    BY <2>1, <2>2, SetHandlerType DEF k2
  <2>4. Good(e, w, k2) /\ Ok(k2)
    BY <1>8, <1>11, <2>3, GoodAlike DEF Ok
  <2>5. \A t \in LoginTypes : k2.s.disp[t] = k.s.disp[t] \/ k2.s.disp[t] # "input"
    <3>1. k1.s.disp = d
      BY <1>4, <1>5, <1>8 DEF Frozen
    <3>2. LoginTypes \subseteq Types /\ "NEWKEYS" \notin LoginTypes
      BY TypesOf DEF LoginTypes
    <3> QED
      BY <1>2, <2>3, <3>1, <3>2
  <2>6. k2.s.phase = k.s.phase
    BY <1>4, <1>5, <1>8, <2>3 DEF Frozen
  <2>7. e = "server" /\ k.s.phase = "kex" => ~k2.s.rekeying /\ ~k2.s.auth
    <3>1. e = "server" /\ k.s.phase = "kex" => ~k.s.auth
      BY DEF Phase
    <3>2. k2.s.rekeying = k1.s.rekeying /\ j.s.auth = k.s.auth
      BY <1>4, <1>5, <2>3 DEF Alike
    <3> QED
      BY <1>8, <1>11, <2>3, <3>1, <3>2
  <2>8. e = "server" /\ k.s.phase = "kex" => (~k2.s.done => k2.s.initSent)
    <3> SUFFICES ASSUME e = "server", k.s.phase = "kex", ~k2.s.done PROVE k2.s.initSent
      OBVIOUS
    <3>1. ~j.s.auth
      BY <1>4, <1>5 DEF Phase
    <3>2. k1.s.done = j.s.done /\ k1.s.initSent = j.s.initSent
      <4>1. k1 = ssh_packet_send2(e, j, Pkt("NEWKEYS"))
        BY DEF k1
      <4> QED
        BY <1>6, <1>7, <1>11, <3>1, <4>1, Send2
    <3>3. s.done = k.s.done /\ s.initSent = k.s.initSent
      BY <1>1 DEF s, States
    <3>4. k2.s.done = k1.s.done /\ k2.s.initSent = k1.s.initSent
      BY <2>3
    <3> QED
      BY <1>5, <3>2, <3>3, <3>4 DEF Phase
  <2>9. Phase(e, k2.s) /\ k2.s.phase # "authdone"
    BY <2>5, <2>6, <2>7, <2>8 DEF Phase
  <2>10. CASE ~(e = "server" /\ k.s.extInfo)
    BY <1>9, <1>11, <2>4, <2>9, <2>10 DEF Harmless
  <2>11. CASE e = "server" /\ k.s.extInfo
    <3>1. r = ssh_packet_send2(e, k2, Pkt("EXT_INFO"))
      BY <1>9, <1>11, <2>11 DEF kex_send_ext_info
    <3> QED
      BY <1>7, <2>4, <2>9, <3>1, SendHarmless
  <2> QED
    BY <2>10, <2>11
<1> QED
  BY <1>10, <1>11

\* A change of the state that neither Good nor Phase looks at.
Aside(s, t) ==
    /\ Alike(s, t) /\ t.phase = s.phase /\ t.disp = s.disp
    /\ t.auth = s.auth /\ t.done = s.done /\ t.initSent = s.initSent

LEMMA AsideHarmless ==
    ASSUME NEW e \in Endpoint, NEW w \in Seq(Frames), NEW k, Harmless(e, w, k),
           NEW r \in Contexts, r.out = k.out, r.err = k.err, Aside(k.s, r.s)
    PROVE  Harmless(e, w, r)
<1>1. Good(e, w, r)
  BY GoodAlike DEF Aside, Harmless
<1>2. ASSUME Ok(r) PROVE Phase(e, r.s)
  <2>1. Phase(e, k.s)
    BY <1>2 DEF Harmless, Ok
  <2>2. /\ r.s.phase = k.s.phase /\ r.s.disp = k.s.disp
        /\ r.s.auth = k.s.auth /\ r.s.done = k.s.done /\ r.s.initSent = k.s.initSent
        /\ r.s.rekeying = k.s.rekeying
    BY DEF Aside, Alike
  <2> QED
    BY <2>1, <2>2 DEF Phase
<1> QED
  BY <1>1, <1>2 DEF Harmless

\* The peer buffer.
LEMMA PeerGrows ==
    ASSUME NEW k \in Contexts, NEW i \in KexInits,
           NEW r, r = [k EXCEPT !.s.peer = Append(@, i)]
    PROVE  r \in Contexts /\ r.out = k.out /\ r.err = k.err /\ Aside(k.s, r.s)
           /\ r.s.peer # <<>>
<1> DEFINE q == Append(k.s.peer, i)
           s == [k.s EXCEPT !.peer = q]
<1>1. k.s \in States /\ k.s.peer \in Seq(KexInits)
  BY DEF Contexts, States
<1>2. q \in Seq(KexInits) /\ q # <<>>
  BY <1>1
<1>3. r = [k EXCEPT !.s = s]
  BY DEF Contexts
<1> HIDE DEF q
<1>4. s \in States /\ Aside(k.s, s) /\ s.peer = q
  BY <1>1, <1>2 DEF States, Aside, Alike
<1> HIDE DEF s
<1> QED
  BY <1>2, <1>3, <1>4 DEF Contexts

LEMMA ChooseConf ==
    ASSUME NEW e \in Endpoint, NEW k \in Contexts, k.s.peer # <<>>,
           NEW r, r = kex_choose_conf(e, k)
    PROVE  r \in Contexts /\ r.out = k.out /\ r.err = k.err /\ Aside(k.s, r.s)
<1>1. CASE ~Ok(k)
  BY <1>1 DEF kex_choose_conf, Aside, Alike
<1>2. CASE Ok(k)
  <2> DEFINE x == IF e = "server" THEN Head(k.s.peer).ext ELSE k.s.extInfo
             b == [m \in Mode |-> Blank]
             s == [k.s EXCEPT !.pend = b, !.extInfo = x]
  <2>1. k.s \in States /\ k.s.peer \in Seq(KexInits) /\ k.s.extInfo \in BOOLEAN
    BY DEF Contexts, States
  <2>2. Head(k.s.peer) \in KexInits
    BY <2>1
  <2>3. x \in BOOLEAN /\ b \in [Mode -> Keys]
    BY <2>1, <2>2, ConstantTypes DEF KexInits
  <2>4. r = [k EXCEPT !.s = s]
    BY <1>2 DEF kex_choose_conf, Contexts
  <2> HIDE DEF x, b
  <2>5. s \in States /\ Aside(k.s, s)
    BY <2>1, <2>3 DEF States, Aside, Alike
  <2> HIDE DEF s
  <2> QED
    BY <2>4, <2>5 DEF Contexts
<1> QED
  BY <1>1, <1>2

LEMMA StartMethodHarmless ==
    ASSUME NEW e \in Endpoint, NEW w \in Seq(Frames), NEW k, Harmless(e, w, k),
           k.s.phase # "authdone", e = "server" => k.s.phase # "auth",
           NEW r, r = StartMethod(e, k)
    PROVE  Harmless(e, w, r)
<1> DEFINE first == IF Gex THEN "GEX_REQUEST" ELSE "DH_INIT"
           reply == IF Gex THEN "GEX_GROUP" ELSE "DH_REPLY"
<1>1. /\ first \in Types /\ reply \in Types /\ "input" \in Handlers
      /\ first \notin {"NEWKEYS", "KEXINIT", "AUTH_SUCCESS"} \cup LoginTypes
      /\ Pkt(first) \in Packets /\ Pkt(first).t = first
  BY TypesOf, PktTypes DEF Handlers, LoginTypes
<1>2. r = IF ~Ok(k) THEN k
          ELSE IF e = "client"
               THEN SetHandler(ssh_packet_send2(e, k, Pkt(first)), reply, "input")
               ELSE SetHandler(k, first, "input")
  BY DEF StartMethod
<1> HIDE DEF first, reply
<1>3. CASE ~Ok(k)
  BY <1>2, <1>3
<1>4. CASE Ok(k) /\ e = "client"
  <2> DEFINE j == ssh_packet_send2(e, k, Pkt(first))
  <2> HIDE DEF j
  <2>1. j = ssh_packet_send2(e, k, Pkt(first))
    BY DEF j
  <2>2. Harmless(e, w, j)
    BY <1>1, <1>4, <2>1, SendHarmless DEF Harmless
  <2>3. r = SetHandler(j, reply, "input")
    BY <1>2, <1>4 DEF j
  <2> QED
    BY <1>1, <1>4, <2>2, <2>3, SetHandlerHarmless
<1>5. CASE Ok(k) /\ e # "client"
  <2>1. r = SetHandler(k, first, "input") /\ e = "server"
    BY <1>2, <1>5 DEF Endpoint
  <2> QED
    BY <1>1, <2>1, SetHandlerHarmless
<1> QED
  BY <1>3, <1>4, <1>5

LEMMA KexinitHarmless ==
    ASSUME NEW e \in Endpoint, NEW w \in Seq(Frames), NEW k, Ready(e, w, k),
           NEW p \in Packets, k.s.disp["KEXINIT"] = "input",
           NEW r, r = kex_input_kexinit(e, k, p)
    PROVE  Harmless(e, w, r)
<1> DEFINE k0 == SetHandler(k, "KEXINIT", "null")
           k1 == [k0 EXCEPT !.s.peer = Append(@, p.i)]
           k2 == kex_send_kexinit(e, k1)
           k3 == kex_choose_conf(e, k2)
<1> HIDE DEF k0, k1, k2, k3
<1>1. r = StartMethod(e, k3)
  BY DEF kex_input_kexinit, k0, k1, k2, k3
<1>2. /\ "KEXINIT" \in Types /\ "null" \in Handlers /\ p.i \in KexInits
      /\ k \in Contexts
  BY TypesOf DEF Handlers, Packets, Ready, Good
<1>3. /\ k0 \in Contexts /\ k0.out = k.out /\ k0.err = k.err
      /\ k0.s.phase = k.s.phase /\ k0.s.done = k.s.done
      /\ k0.s.initSent = k.s.initSent
  <2>1. k \in Contexts
    BY <1>2
  <2>2. "KEXINIT" \in Types /\ "null" \in Handlers
    BY <1>2
  <2>3. /\ k0 \in Contexts /\ k0.out = k.out /\ k0.err = k.err /\ Alike(k.s, k0.s)
        /\ k0.s.disp = [k.s.disp EXCEPT !["KEXINIT"] = "null"]
        /\ k0.s.phase = k.s.phase /\ k0.s.auth = k.s.auth
        /\ k0.s.done = k.s.done /\ k0.s.initSent = k.s.initSent
    BY <2>1, <2>2, SetHandlerType DEF k0
  <2> QED
    BY <2>3
<1>4. Harmless(e, w, k0)
  BY <1>2, SetHandlerHarmless DEF k0, Ready, Harmless
<1>5. k1 \in Contexts /\ k1.out = k0.out /\ k1.err = k0.err /\ Aside(k0.s, k1.s)
      /\ k1.s.peer # <<>>
  BY <1>2, <1>3, PeerGrows DEF k1
<1>6. Harmless(e, w, k1) /\ Ok(k1)
  BY <1>3, <1>4, <1>5, AsideHarmless DEF Ready, Ok
<1>7. /\ Good(e, w, k2) /\ Frozen(k1.s, k2.s) /\ (k1.s.initSent => k2 = k1)
  BY <1>6, SendKexinit DEF k2, Harmless
<1>8. /\ k1.s.phase = k.s.phase /\ k1.s.done = k.s.done /\ k1.s.initSent = k.s.initSent
  BY <1>3, <1>5 DEF Aside
<1>9. e = "server" => k.s.phase \in {"kex", "loop"}
  BY <1>2 DEF Ready, Phase
<1>10. Harmless(e, w, k2)
  <2> SUFFICES ASSUME Ok(k2), e = "server" PROVE Phase(e, k2.s)
    BY <1>7 DEF Harmless, Phase
  <2>1. Phase(e, k1.s)
    BY <1>6 DEF Harmless
  <2>2. CASE k.s.phase = "kex"
    <3>1. ~k.s.done /\ (~k.s.done => k.s.initSent)
      BY <2>2 DEF Ready, Phase
    <3> QED
      BY <1>7, <1>8, <2>1, <3>1
  <2>3. CASE k.s.phase = "loop"
    BY <1>7, <1>8, <2>1, <2>3 DEF Phase, Frozen
  <2> QED
    BY <1>9, <2>2, <2>3
<1>11. k3 \in Contexts /\ k3.out = k2.out /\ k3.err = k2.err /\ Aside(k2.s, k3.s)
  <2>1. k2 \in Contexts /\ k2.s.peer # <<>>
    BY <1>5, <1>7 DEF Good, Frozen
  <2> QED
    BY <2>1, ChooseConf DEF k3
<1>12. Harmless(e, w, k3)
  BY <1>10, <1>11, AsideHarmless
<1>13. k3.s.phase = k.s.phase
  BY <1>7, <1>8, <1>11 DEF Frozen, Aside
<1>14. k3.s.phase # "authdone" /\ (e = "server" => k3.s.phase # "auth")
  BY <1>9, <1>13 DEF Ready
<1> QED
  BY <1>1, <1>12, <1>14, StartMethodHarmless

\* A handler that sends one packet and then sets handlers.
LEMMA GexRequestHarmless ==
    ASSUME NEW e \in Endpoint, NEW w \in Seq(Frames), NEW k, Ready(e, w, k),
           k.s.disp["GEX_REQUEST"] = "input", NEW r, r = input_kex_dh_gex_request(e, k)
    PROVE  Harmless(e, w, r)
<1> DEFINE j == ssh_packet_send2(e, k, Pkt("GEX_GROUP"))
<1>1. /\ {"GEX_GROUP", "GEX_REQUEST", "DH_INIT"} \subseteq Types /\ "input" \in Handlers
      /\ Pkt("GEX_GROUP") \in Packets /\ Pkt("GEX_GROUP").t = "GEX_GROUP"
      /\ "DH_INIT" \notin {"NEWKEYS"} \cup LoginTypes
  BY TypesOf, PktTypes DEF Handlers, LoginTypes
<1>2. r = SetHandler(j, "DH_INIT", "input")
  BY DEF input_kex_dh_gex_request
<1>3. Good(e, w, k) /\ Ok(k) /\ Phase(e, k.s) /\ k.s.phase # "authdone"
  BY DEF Ready
<1> HIDE DEF j
<1>4. j = ssh_packet_send2(e, k, Pkt("GEX_GROUP"))
  BY DEF j
<1>5. Harmless(e, w, j) /\ Frozen(k.s, j.s)
  BY <1>1, <1>3, <1>4, SendHarmless
<1>6. e = "client" \/ k.s.phase # "auth"
  BY <1>1 DEF Ready, Phase, Endpoint
<1>7. j.s.phase = k.s.phase
  BY <1>5 DEF Frozen
<1> QED
  BY <1>1, <1>2, <1>5, <1>6, <1>7, SetHandlerHarmless

LEMMA GexGroupHarmless ==
    ASSUME NEW e \in Endpoint, NEW w \in Seq(Frames), NEW k, Ready(e, w, k),
           k.s.disp["GEX_GROUP"] = "input", NEW r, r = input_kex_dh_gex_group(e, k)
    PROVE  Harmless(e, w, r)
<1> DEFINE j == ssh_packet_send2(e, k, Pkt("DH_INIT"))
           i == SetHandler(j, "GEX_GROUP", "null")
<1>1. /\ {"GEX_GROUP", "DH_REPLY", "DH_INIT"} \subseteq Types
      /\ "input" \in Handlers /\ "null" \in Handlers
      /\ Pkt("DH_INIT") \in Packets /\ Pkt("DH_INIT").t = "DH_INIT"
      /\ "DH_REPLY" \notin {"NEWKEYS"} \cup LoginTypes
  BY TypesOf, PktTypes DEF Handlers, LoginTypes
<1>2. r = SetHandler(i, "DH_REPLY", "input")
  BY DEF input_kex_dh_gex_group
<1>3. Good(e, w, k) /\ Ok(k) /\ Phase(e, k.s) /\ k.s.phase # "authdone"
  BY DEF Ready
<1> HIDE DEF j, i
<1>4. j = ssh_packet_send2(e, k, Pkt("DH_INIT")) /\ i = SetHandler(j, "GEX_GROUP", "null")
  BY DEF j, i
<1>5. Harmless(e, w, j) /\ Frozen(k.s, j.s)
  BY <1>1, <1>3, <1>4, SendHarmless
<1>6. e = "client" \/ k.s.phase # "auth"
  BY <1>1 DEF Ready, Phase, Endpoint
<1>7. j.s.phase = k.s.phase
  BY <1>5 DEF Frozen
<1>8. Harmless(e, w, i) /\ i.s.phase = j.s.phase
  BY <1>1, <1>4, <1>5, SetHandlerHarmless
<1> QED
  BY <1>1, <1>2, <1>6, <1>7, <1>8, SetHandlerHarmless

LEMMA KexHashType ==
    ASSUME NEW e \in Endpoint, NEW s \in States
    PROVE  KexHash(e, s) \in Hashes
<1>1. s.my \in KexInits /\ s.peer \in Seq(KexInits)
  BY DEF States
<1>2. <<s.my>> \in Seq(KexInits)
  BY <1>1
<1> QED
  BY <1>1, <1>2 DEF KexHash, Hashes

LEMMA SessionId ==
    ASSUME NEW k \in Contexts, NEW h \in Hashes, NEW r, r = SaveSessionId(k, h)
    PROVE  r \in Contexts /\ r.out = k.out /\ r.err = k.err /\ Aside(k.s, r.s)
<1> DEFINE x == IF k.s.sid = NoHash THEN h ELSE k.s.sid
           s == [k.s EXCEPT !.sid = x]
<1>1. k.s \in States /\ x \in Hashes
  BY DEF Contexts, States
<1>2. r = [k EXCEPT !.s = s]
  BY DEF SaveSessionId, Contexts
<1> HIDE DEF x
<1>3. s \in States /\ Aside(k.s, s)
  BY <1>1 DEF States, Aside, Alike
<1> HIDE DEF s
<1> QED
  BY <1>2, <1>3 DEF Contexts

LEMMA DeriveKeys ==
    ASSUME NEW k \in Contexts, NEW h \in Hashes, NEW r, r = kex_derive_keys(k, h)
    PROVE  r \in Contexts /\ r.out = k.out /\ r.err = k.err /\ Aside(k.s, r.s)
<1> DEFINE x == [m \in Mode |-> [h |-> h, sid |-> k.s.sid, set |-> TRUE]]
           s == [k.s EXCEPT !.pend = x]
<1>1. k.s \in States /\ x \in [Mode -> Keys]
  BY DEF Contexts, States, Keys
<1>2. r = [k EXCEPT !.s = s]
  BY DEF kex_derive_keys, Contexts
<1> HIDE DEF x
<1>3. s \in States /\ Aside(k.s, s)
  BY <1>1 DEF States, Aside, Alike
<1> HIDE DEF s
<1> QED
  BY <1>2, <1>3 DEF Contexts

LEMMA DhInitHarmless ==
    ASSUME NEW e \in Endpoint, NEW w \in Seq(Frames), NEW k, Ready(e, w, k),
           k.s.disp["DH_INIT"] = "input", NEW r, r = input_kex_dh_init(e, k)
    PROVE  Harmless(e, w, r)
<1> DEFINE h == KexHash(e, k.s)
           p == [Pkt("DH_REPLY") EXCEPT !.h = h]
           j == SaveSessionId(k, h)
           k1 == ssh_packet_send2(e, j, p)
           k2 == kex_derive_keys(k1, h)
<1> HIDE DEF h, p, j, k1, k2
<1>1. r = IF Ok(k1) THEN kex_send_newkeys(e, k2) ELSE k1
  BY DEF input_kex_dh_init, h, p, j, k1, k2
<1>2. /\ Good(e, w, k) /\ Ok(k) /\ Phase(e, k.s) /\ k.s.phase # "authdone"
      /\ k \in Contexts /\ k.s \in States
  BY DEF Ready, Good, Contexts
<1>3. h \in Hashes
  BY <1>2, KexHashType DEF h
<1>4. {"DH_INIT", "DH_REPLY"} \subseteq Types
  BY TypesOf
<1>5. p \in Packets /\ p.t = "DH_REPLY"
  <2>1. Pkt("DH_REPLY") \in Packets /\ Pkt("DH_REPLY").t = "DH_REPLY"
    BY <1>4, PktTypes
  <2> QED
    BY <1>3, <2>1 DEF p, Packets
<1>6. j \in Contexts /\ j.out = k.out /\ j.err = k.err /\ Aside(k.s, j.s)
  BY <1>2, <1>3, SessionId DEF j
<1>7. Harmless(e, w, j) /\ Ok(j) /\ j.s.phase = k.s.phase
  <2>1. Harmless(e, w, k)
    BY <1>2 DEF Harmless
  <2>2. Harmless(e, w, j)
    BY <1>6, <2>1, AsideHarmless
  <2> QED
    BY <1>2, <1>6, <2>2 DEF Ok, Aside
<1>8. Harmless(e, w, k1) /\ Frozen(j.s, k1.s)
  <2>1. Good(e, w, j) /\ Phase(e, j.s) /\ j.s.phase # "authdone"
    BY <1>2, <1>7 DEF Harmless
  <2>2. k1 = ssh_packet_send2(e, j, p) /\ p.t \notin {"KEXINIT", "NEWKEYS", "AUTH_SUCCESS"}
    BY <1>5 DEF k1
  <2> QED
    BY <1>5, <1>7, <2>1, <2>2, SendHarmless
<1>9. CASE Ok(k1)
  <2>1. k2 \in Contexts /\ k2.out = k1.out /\ k2.err = k1.err /\ Aside(k1.s, k2.s)
    BY <1>3, <1>8, DeriveKeys DEF k2, Harmless, Good
  <2>2. Harmless(e, w, k2) /\ Ok(k2)
    BY <1>8, <1>9, <2>1, AsideHarmless DEF Ok
  <2>3. k2.s.phase = k.s.phase
    BY <1>7, <1>8, <2>1 DEF Frozen, Aside
  <2>4. e = "server" => k2.s.phase \in {"kex", "loop"}
    BY <1>4, <2>3 DEF Ready, Phase
  <2>5. Good(e, w, k2) /\ Phase(e, k2.s) /\ k2.s.phase # "authdone"
    BY <1>2, <2>2, <2>3 DEF Harmless
  <2> QED
    BY <1>1, <1>9, <2>2, <2>4, <2>5, SendNewkeysHarmless
<1>10. CASE ~Ok(k1)
  BY <1>1, <1>8, <1>10
<1> QED
  BY <1>9, <1>10

LEMMA DhReplyHarmless ==
    ASSUME NEW e \in Endpoint, NEW w \in Seq(Frames), NEW k, Ready(e, w, k),
           k.s.disp["DH_REPLY"] = "input", NEW p, NEW r, r = input_kex_dh(e, k, p)
    PROVE  Harmless(e, w, r)
<1> DEFINE h == KexHash(e, k.s)
           j == SaveSessionId(k, h)
           k2 == kex_derive_keys(j, h)
<1> HIDE DEF h, j, k2
<1>1. r = IF p.h # h THEN Fail(k, "signature") ELSE kex_send_newkeys(e, k2)
  BY DEF input_kex_dh, h, j, k2
<1>2. /\ Good(e, w, k) /\ Ok(k) /\ Phase(e, k.s) /\ k.s.phase # "authdone"
      /\ k \in Contexts /\ k.s \in States
  BY DEF Ready, Good, Contexts
<1>3. h \in Hashes
  BY <1>2, KexHashType DEF h
<1>4. "DH_REPLY" \in Types
  BY TypesOf
<1>5. CASE p.h # h
  <2>1. r = [k EXCEPT !.err = "signature"]
    BY <1>1, <1>5 DEF Fail
  <2>2. r \in Contexts /\ r.s = k.s /\ r.out = k.out /\ ~Ok(r)
    BY <1>2, <2>1 DEF Contexts, Reasons, Ok
  <2> QED
    BY <1>2, <2>2 DEF Good, Harmless
<1>6. CASE p.h = h
  <2>1. j \in Contexts /\ j.out = k.out /\ j.err = k.err /\ Aside(k.s, j.s)
    BY <1>2, <1>3, SessionId DEF j
  <2>2. k2 \in Contexts /\ k2.out = j.out /\ k2.err = j.err /\ Aside(j.s, k2.s)
    BY <1>3, <2>1, DeriveKeys DEF k2
  <2>3. Harmless(e, w, k)
    BY <1>2 DEF Harmless
  <2>4. Harmless(e, w, j)
    BY <2>1, <2>3, AsideHarmless
  <2>5. Harmless(e, w, k2) /\ Ok(k2) /\ k2.s.phase = k.s.phase
    <3>1. Harmless(e, w, k2)
      BY <2>2, <2>4, AsideHarmless
    <3> QED
      BY <1>2, <2>1, <2>2, <3>1 DEF Ok, Aside
  <2>6. e = "server" => k2.s.phase \in {"kex", "loop"}
    BY <1>4, <2>5 DEF Ready, Phase
  <2>7. Good(e, w, k2) /\ Phase(e, k2.s) /\ k2.s.phase # "authdone"
    BY <1>2, <2>5 DEF Harmless
  <2>8. r = kex_send_newkeys(e, k2)
    BY <1>1, <1>6
  <2> QED
    BY <2>5, <2>6, <2>7, <2>8, SendNewkeysHarmless
<1> QED
  BY <1>5, <1>6

LEMMA InputNewkeysHarmless ==
    ASSUME NEW e \in Endpoint, NEW w \in Seq(Frames), NEW k, Ready(e, w, k),
           k.s.disp["NEWKEYS"] = "input", NEW r, r = kex_input_newkeys(k)
    PROVE  Harmless(e, w, r)
<1> DEFINE j == SetHandler(k, "NEWKEYS", "unimplemented")
           k1 == ssh_set_newkeys(j, "in")
           s == [k1.s EXCEPT !.done = TRUE, !.peer = <<>>, !.initSent = FALSE]
<1> HIDE DEF j, k1
<1>1. r = IF ~Ok(k1) THEN k1
          ELSE [k1 EXCEPT !.s.done = TRUE, !.s.peer = <<>>, !.s.initSent = FALSE]
  BY DEF kex_input_newkeys, j, k1
<1>2. /\ Good(e, w, k) /\ Ok(k) /\ Phase(e, k.s) /\ k \in Contexts
  BY DEF Ready, Good
<1>3. "NEWKEYS" \in Types /\ "unimplemented" \in Handlers
      /\ LoginTypes \subseteq Types /\ "NEWKEYS" \notin LoginTypes
      /\ "NEWKEYS" \notin {"SERVICE_REQUEST", "AUTH_REQUEST"}
  BY TypesOf DEF Handlers, LoginTypes
<1>4. /\ j \in Contexts /\ j.out = k.out /\ j.err = k.err /\ Alike(k.s, j.s)
      /\ j.s.disp = [k.s.disp EXCEPT !["NEWKEYS"] = "unimplemented"]
      /\ j.s.phase = k.s.phase /\ j.s.auth = k.s.auth
  BY <1>2, <1>3, SetHandlerType DEF j
<1>5. Good(e, w, j) /\ Ok(j)
  BY <1>2, <1>4, GoodAlike DEF Ok
<1>6. /\ k1 \in Contexts /\ k1.out = j.out /\ Kept(j.s, k1.s) /\ k1.s.auth = j.s.auth
      /\ \A n \in Mode \ {"in"} : k1.s.pkt[n] = j.s.pkt[n] /\ k1.s.blk[n] = j.s.blk[n]
      /\ k1.s.used = j.s.used
  <2>1. k1 = ssh_set_newkeys(j, "in")
    BY DEF k1
  <2>2. /\ k1 \in Contexts /\ k1.out = j.out /\ Kept(j.s, k1.s) /\ k1.s.auth = j.s.auth
        /\ \A n \in Mode \ {"in"} : k1.s.pkt[n] = j.s.pkt[n] /\ k1.s.blk[n] = j.s.blk[n]
        /\ Ok(j) => k1.s.used = IF "in" = "out" /\ Ok(k1) THEN 0 ELSE j.s.used
    <3>1. /\ k1 \in Contexts /\ k1.out = j.out /\ Kept(j.s, k1.s)
          /\ k1.err \in {j.err, "no_newkeys"}
          /\ k1.s.pkt["in"] = 0 /\ k1.s.blk["in"] = 0 /\ k1.s.auth = j.s.auth
          /\ \A n \in Mode \ {"in"} : k1.s.pkt[n] = j.s.pkt[n] /\ k1.s.blk[n] = j.s.blk[n]
          /\ Ok(j) => k1.s.used = IF "in" = "out" /\ Ok(k1) THEN 0 ELSE j.s.used
      <4>1. "in" \in Mode
        BY OutMode
      <4>2. j \in Contexts
        BY <1>4
      <4> QED
        BY <2>1, <4>1, <4>2, SetNewkeysType
    <3> QED
      BY <3>1
  <2>3. k1.s.used = j.s.used
    <3>1. Ok(j) => k1.s.used = IF "in" = "out" /\ Ok(k1) THEN 0 ELSE j.s.used
      BY <2>2
    <3> QED
      BY <1>5, <3>1
  <2> QED
    BY <2>2, <2>3
<1>7. k1.s.pkt["out"] = j.s.pkt["out"] /\ k1.s.blk["out"] = j.s.blk["out"]
  BY <1>6, OutMode
<1>8. Good(e, w, k1)
  <2>1. Alike(j.s, k1.s)
    BY <1>6, <1>7 DEF Alike, Kept
  <2>2. Used(e, k1.s) /\ Queued(k1.s) /\ Counters(e, k1.s)
    BY <1>5, <2>1 DEF Good, Alike, Used, Queued, Counters
  <2> QED
    BY <1>5, <1>6, <2>1, <2>2 DEF Good, Alike
<1>9. CASE ~Ok(k1)
  BY <1>1, <1>8, <1>9 DEF Harmless
<1>10. CASE Ok(k1)
  <2>1. k1.s \in States /\ <<>> \in Seq(KexInits)
    BY <1>6 DEF Contexts
  <2>2. r = [k1 EXCEPT !.s = s]
    BY <1>1, <1>6, <1>10 DEF Contexts
  <2>3. /\ s \in States /\ Alike(k1.s, s) /\ s.done = TRUE
        /\ s.phase = k1.s.phase /\ s.auth = k1.s.auth /\ s.disp = k1.s.disp
    BY <2>1 DEF States, Alike
  <2> HIDE DEF s
  <2>4. r \in Contexts /\ r.s = s /\ r.out = k1.out /\ r.err = k1.err
    BY <1>6, <2>2, <2>3 DEF Contexts
  <2>5. Good(e, w, r)
    BY <1>8, <2>3, <2>4, GoodAlike
  <2>6. ASSUME e = "server" PROVE Phase(e, s)
    <3>1. k.s.disp \in [Types -> Handlers]
      BY <1>2 DEF Contexts, States
    <3>2. /\ s.disp["NEWKEYS"] = "unimplemented"
          /\ \A t \in LoginTypes : s.disp[t] = k.s.disp[t]
      BY <1>3, <1>4, <1>6, <2>3, <3>1 DEF Kept
    <3>3. s.phase = k.s.phase /\ s.auth = k.s.auth /\ s.rekeying = k.s.rekeying
      BY <1>4, <1>6, <2>3 DEF Kept, Alike
    <3>4. k.s.phase \in {"kex", "loop"}
      BY <1>3, <2>6 DEF Ready, Phase
    <3>5. k.s.phase = "kex" => ~s.rekeying /\ ~s.auth
      BY <1>2, <2>6, <3>3 DEF Phase
    <3>6. \A t \in LoginTypes : s.disp[t] # "input"
      BY <1>2, <2>6, <3>2, <3>4 DEF Phase
    <3> QED
      BY <2>3, <3>2, <3>3, <3>4, <3>5, <3>6 DEF Phase
  <2> QED
    BY <2>4, <2>5, <2>6 DEF Harmless, Phase
<1> QED
  BY <1>9, <1>10

LEMMA ServiceRequestHarmless ==
    ASSUME NEW e \in Endpoint, NEW w \in Seq(Frames), NEW k, Ready(e, w, k),
           k.s.disp["SERVICE_REQUEST"] = "input", NEW r, r = input_service_request(e, k)
    PROVE  Harmless(e, w, r)
<1> DEFINE j == SetHandler(k, "AUTH_REQUEST", "input")
<1> HIDE DEF j
<1>1. j = SetHandler(k, "AUTH_REQUEST", "input")
      /\ r = ssh_packet_send2(e, j, Pkt("SERVICE_ACCEPT"))
  BY DEF input_service_request, j
<1>2. /\ Good(e, w, k) /\ Ok(k) /\ Phase(e, k.s) /\ k \in Contexts
      /\ k.s.phase \in {"kex", "auth", "loop"} /\ Harmless(e, w, k)
  BY DEF Ready, Good, Harmless
<1>3. /\ {"SERVICE_REQUEST", "AUTH_REQUEST", "SERVICE_ACCEPT"} \subseteq Types
      /\ "input" \in Handlers
      /\ Pkt("SERVICE_ACCEPT") \in Packets /\ Pkt("SERVICE_ACCEPT").t = "SERVICE_ACCEPT"
  BY TypesOf, PktTypes DEF Handlers
<1>4. e = "client" \/ k.s.phase = "auth"
  BY <1>2 DEF Phase, Endpoint, LoginTypes
<1>5. Harmless(e, w, j) /\ j.s.phase = k.s.phase /\ j.err = k.err
  BY <1>1, <1>2, <1>3, <1>4, SetHandlerHarmless
<1>7. Good(e, w, j) /\ Ok(j) /\ Phase(e, j.s) /\ j.s.phase # "authdone"
  BY <1>2, <1>5 DEF Harmless, Ok
<1> QED
  BY <1>1, <1>3, <1>7, SendHarmless

LEMMA ServiceAcceptHarmless ==
    ASSUME NEW e \in Endpoint, NEW w \in Seq(Frames), NEW k, Ready(e, w, k),
           k.s.disp["SERVICE_ACCEPT"] = "input", NEW r,
           r = input_userauth_service_accept(e, k)
    PROVE  Harmless(e, w, r)
<1> DEFINE j == ssh_packet_send2(e, k, Pkt("AUTH_REQUEST"))
           i == SetHandler(j, "EXT_INFO", "fatal")
<1> HIDE DEF j, i
<1>1. j = ssh_packet_send2(e, k, Pkt("AUTH_REQUEST")) /\ i = SetHandler(j, "EXT_INFO", "fatal")
      /\ r = SetHandler(i, "AUTH_SUCCESS", "input")
  BY DEF input_userauth_service_accept, j, i
<1>2. /\ Good(e, w, k) /\ Ok(k) /\ Phase(e, k.s) /\ k.s.phase # "authdone"
  BY DEF Ready
<1>3. /\ {"SERVICE_ACCEPT", "AUTH_REQUEST", "AUTH_SUCCESS", "EXT_INFO"} \subseteq Types
      /\ "input" \in Handlers /\ "fatal" \in Handlers
      /\ Pkt("AUTH_REQUEST") \in Packets /\ Pkt("AUTH_REQUEST").t = "AUTH_REQUEST"
  BY TypesOf, PktTypes DEF Handlers
<1>4. e = "client"
  BY <1>2, <1>3 DEF Phase, Endpoint, LoginTypes, Ready
<1>5. Harmless(e, w, j) /\ Frozen(k.s, j.s)
  BY <1>1, <1>2, <1>3, SendHarmless
<1>6. Harmless(e, w, i) /\ i.s.phase = j.s.phase
  BY <1>1, <1>3, <1>5, SetHandlerHarmless
<1> QED
  BY <1>1, <1>3, <1>4, <1>6, SetHandlerHarmless

\* The server is done with authentication while no key exchange is under way.
LEMMA UserauthRequestHarmless ==
    ASSUME NEW e \in Endpoint, NEW w \in Seq(Frames), NEW k, Ready(e, w, k),
           k.s.disp["AUTH_REQUEST"] = "input", NEW r, r = input_userauth_request(e, k)
    PROVE  Harmless(e, w, r)
<1> DEFINE s == [k.s EXCEPT !.phase = "authdone"]
           j == [k EXCEPT !.s.phase = "authdone"]
<1>1. r = ssh_packet_send2(e, j, Pkt("AUTH_SUCCESS"))
  BY DEF input_userauth_request
<1>2. /\ Good(e, w, k) /\ Ok(k) /\ Phase(e, k.s) /\ k \in Contexts /\ k.s \in States
      /\ k.s.phase \in {"kex", "auth", "loop"}
  BY DEF Ready, Good, Contexts
<1>3. j = [k EXCEPT !.s = s]
  BY <1>2 DEF Contexts
<1>4. s \in States /\ Alike(k.s, s) /\ s.phase = "authdone" /\ s.auth = k.s.auth
  BY <1>2 DEF States, Alike, Phases
<1> HIDE DEF s, j
<1>5. j \in Contexts /\ j.s = s /\ j.out = k.out /\ j.err = k.err
  BY <1>2, <1>3, <1>4 DEF Contexts
<1>6. Good(e, w, j) /\ Ok(j)
  BY <1>2, <1>4, <1>5, GoodAlike DEF Ok
<1>7. Pkt("AUTH_SUCCESS") \in Packets /\ Pkt("AUTH_SUCCESS").t = "AUTH_SUCCESS"
  BY TypesOf, PktTypes
<1>8. /\ Good(e, w, r) /\ Frozen(j.s, r.s)
      /\ ~j.s.auth /\ Ok(r) => r.s.rekeying = j.s.rekeying
  BY <1>1, <1>6, <1>7, Send2
<1>9. ASSUME Ok(r), e = "server" PROVE Phase(e, r.s)
  <2>1. ~k.s.auth /\ ~k.s.rekeying
    BY <1>2, <1>9 DEF Phase, LoginTypes
  <2>2. ~r.s.rekeying
    BY <1>4, <1>5, <1>8, <1>9, <2>1 DEF Alike
  <2>3. r.s.phase = "authdone"
    BY <1>4, <1>5, <1>8 DEF Frozen
  <2> QED
    BY <2>2, <2>3 DEF Phase
<1> QED
  BY <1>8, <1>9 DEF Harmless, Phase

LEMMA UserauthSuccessHarmless ==
    ASSUME NEW e \in Endpoint, NEW w \in Seq(Frames), NEW k, Ready(e, w, k),
           k.s.disp["AUTH_SUCCESS"] = "input", NEW r, r = input_userauth_success(k)
    PROVE  Harmless(e, w, r)
<1> DEFINE s == [k.s EXCEPT !.phase = "authdone"]
<1>1. Good(e, w, k) /\ k \in Contexts /\ k.s \in States
  BY DEF Ready, Good, Contexts
<1>2. r = [k EXCEPT !.s = s]
  BY <1>1 DEF input_userauth_success, Contexts
<1>3. s \in States /\ Alike(k.s, s)
  BY <1>1 DEF States, Alike, Phases
<1> HIDE DEF s
<1>4. r \in Contexts /\ r.s = s /\ r.out = k.out /\ r.err = k.err
  BY <1>1, <1>2, <1>3 DEF Contexts
<1>5. Good(e, w, r)
  BY <1>1, <1>3, <1>4, GoodAlike
<1>6. e # "server"
  BY TypesOf DEF Ready, Phase, LoginTypes
<1> QED
  BY <1>5, <1>6 DEF Harmless, Phase

\* Every handler is harmless, and so is the dispatch of a packet.
LEMMA InputHarmless ==
    ASSUME NEW e \in Endpoint, NEW w \in Seq(Frames), NEW k, Ready(e, w, k),
           NEW p \in Packets, k.s.disp[p.t] = "input", NEW r, r = Input(e, k, p)
    PROVE  Harmless(e, w, r)
<1>1. CASE p.t = "KEXINIT"
  BY <1>1, KexinitHarmless DEF Input
<1>2. CASE p.t = "GEX_REQUEST"
  BY <1>2, GexRequestHarmless DEF Input
<1>3. CASE p.t = "GEX_GROUP"
  BY <1>3, GexGroupHarmless DEF Input
<1>4. CASE p.t = "DH_INIT"
  BY <1>4, DhInitHarmless DEF Input
<1>5. CASE p.t = "DH_REPLY"
  BY <1>5, DhReplyHarmless DEF Input
<1>6. CASE p.t = "NEWKEYS"
  BY <1>6, InputNewkeysHarmless DEF Input
<1>7. CASE p.t = "EXT_INFO"
  <2>1. r = SetHandler(k, "EXT_INFO", "unimplemented")
    BY <1>7 DEF Input, kex_input_ext_info
  <2>2. "EXT_INFO" \in Types /\ "unimplemented" \in Handlers /\ Harmless(e, w, k)
    BY TypesOf DEF Handlers, Ready, Harmless
  <2> QED
    BY <2>1, <2>2, SetHandlerHarmless
<1>8. CASE p.t = "SERVICE_REQUEST"
  BY <1>8, ServiceRequestHarmless DEF Input
<1>9. CASE p.t = "SERVICE_ACCEPT"
  BY <1>9, ServiceAcceptHarmless DEF Input
<1>10. CASE p.t = "AUTH_REQUEST"
  BY <1>10, UserauthRequestHarmless DEF Input
<1>11. CASE p.t = "AUTH_SUCCESS"
  BY <1>11, UserauthSuccessHarmless DEF Input
<1>12. CASE p.t \in {"UNIMPLEMENTED", "DATA"}
  <2>1. r = k
    BY <1>12 DEF Input
  <2> QED
    BY <2>1 DEF Ready, Harmless
<1>13. p.t \in Types
  BY DEF Packets
<1> QED
  BY <1>1, <1>2, <1>3, <1>4, <1>5, <1>6, <1>7, <1>8, <1>9, <1>10, <1>11, <1>12, <1>13
  DEF Types, TransportTypes, KexMethodTypes

LEMMA FailHarmless ==
    ASSUME NEW e \in Endpoint, NEW w \in Seq(Frames), NEW k, Good(e, w, k),
           NEW why \in Reasons \ {"none"}, NEW r, r = Fail(k, why)
    PROVE  Harmless(e, w, r) /\ ~Ok(r) /\ r.s = k.s
<1>1. k \in Contexts
  BY DEF Good
<1>2. r \in Contexts /\ r.s = k.s /\ r.out = k.out /\ r.err = why
  BY <1>1 DEF Fail, Contexts
<1> QED
  BY <1>2 DEF Good, Harmless, Ok

LEMMA DispatchHarmless ==
    ASSUME NEW e \in Endpoint, NEW w \in Seq(Frames), NEW k, Harmless(e, w, k),
           Ok(k) => Ready(e, w, k), NEW p \in Packets, NEW r, r = ssh_dispatch(e, k, p)
    PROVE  Harmless(e, w, r)
<1>1. CASE ~Ok(k) \/ p.t = "UNIMPLEMENTED"
  BY <1>1 DEF ssh_dispatch
<1>2. CASE Ok(k) /\ p.t # "UNIMPLEMENTED"
  <2>1. /\ Ready(e, w, k) /\ Good(e, w, k) /\ Phase(e, k.s) /\ k.s.phase # "authdone"
        /\ k.s.disp[p.t] \in Handlers
    BY <1>2 DEF Ready, Good, Contexts, States, Packets
  <2>2. CASE k.s.disp[p.t] = "null"
    <3>1. r = Fail(k, "null_handler") /\ "null_handler" \in Reasons \ {"none"}
      BY <1>2, <2>2 DEF ssh_dispatch, Reasons
    <3> QED
      BY <2>1, <3>1, FailHarmless
  <2>3. CASE k.s.disp[p.t] = "fatal"
    <3>1. r = Fail(k, "fatal") /\ "fatal" \in Reasons \ {"none"}
      BY <1>2, <2>3 DEF ssh_dispatch, Reasons
    <3> QED
      BY <2>1, <3>1, FailHarmless
  <2>4. CASE k.s.disp[p.t] = "unimplemented"
    <3>1. r = ssh_packet_send2(e, k, Pkt("UNIMPLEMENTED"))
      BY <1>2, <2>4 DEF ssh_dispatch, kex_protocol_error
    <3>2. Pkt("UNIMPLEMENTED") \in Packets /\ Pkt("UNIMPLEMENTED").t = "UNIMPLEMENTED"
      BY TypesOf, PktTypes
    <3> QED
      BY <1>2, <2>1, <3>1, <3>2, SendHarmless
  <2>5. CASE k.s.disp[p.t] = "input"
    <3>1. r = Input(e, k, p)
      BY <1>2, <2>5 DEF ssh_dispatch
    <3> QED
      BY <2>1, <2>5, <3>1, InputHarmless
  <2> QED
    BY <2>1, <2>2, <2>3, <2>4, <2>5 DEF Handlers
<1> QED
  BY <1>1, <1>2

\* The state s of e is sound, w being what is on the wire from e.
Sound(e, w, s) ==
    /\ s \in States /\ Queued(s) /\ Used(e, s) /\ Clean(w)
    /\ Counters(e, s) /\ Phase(e, s) /\ (Open(w) => s.rekeying)

LEMMA CtxGood ==
    ASSUME NEW e \in Endpoint, NEW w \in Seq(Frames), NEW s, Sound(e, w, s),
           NEW k, k = Ctx(s)
    PROVE  Good(e, w, k) /\ Ok(k) /\ k.s = s /\ Harmless(e, w, k) /\ k \in Contexts
<1>1. s \in States /\ w \o <<>> = w /\ <<>> \in Seq(Frames)
  BY DEF Sound
<1>2. k.s = s /\ k.out = <<>> /\ k.err = "none"
  BY DEF Ctx
<1>3. k \in Contexts
  BY <1>1 DEF Ctx, Contexts, Reasons
<1>4. w \o k.out = w
  BY <1>1, <1>2
<1>5. Good(e, w, k) /\ Ok(k)
  BY <1>2, <1>3, <1>4 DEF Good, Sound, Ok
<1> QED
  BY <1>2, <1>3, <1>5 DEF Harmless, Sound

LEMMA CountInType ==
    ASSUME NEW s \in States, NEW t, t = CountIn(s)
    PROVE  /\ t \in States /\ Kept(s, t) /\ t.auth = s.auth /\ t.used = s.used
           /\ t.pkt["out"] = s.pkt["out"]
           /\ ~InterMac => t.blk["out"] = s.blk["out"]
<1> DEFINE m == IF InterMac THEN "out" ELSE "in"
           seq == [s.seq EXCEPT !["in"] = (@ + 1) % SeqMod]
           pkt == [s.pkt EXCEPT !["in"] = (@ + 1) % SeqMod]
           blk == [s.blk EXCEPT ![m] = @ + 1]
<1>1. /\ (s.seq["in"] + 1) % SeqMod \in 0 .. SeqMod - 1
      /\ (s.pkt["in"] + 1) % SeqMod \in 0 .. SeqMod - 1
      /\ s.blk[m] + 1 \in Nat /\ m \in Mode
  BY OutMode, CountFields, ModRange
<1>2. /\ s.seq \in [Mode -> 0 .. SeqMod - 1] /\ s.pkt \in [Mode -> 0 .. SeqMod - 1]
      /\ s.blk \in [Mode -> Nat]
  BY DEF States
<1>3. /\ seq \in [Mode -> 0 .. SeqMod - 1] /\ pkt \in [Mode -> 0 .. SeqMod - 1]
      /\ blk \in [Mode -> Nat] /\ pkt["out"] = s.pkt["out"]
      /\ ~InterMac => blk["out"] = s.blk["out"]
  BY <1>1, <1>2, OutMode
<1>4. t = [s EXCEPT !.seq = seq, !.pkt = pkt, !.blk = blk]
  BY DEF CountIn
<1> HIDE DEF seq, pkt, blk, m
<1> QED
  BY <1>3, <1>4 DEF States, Kept

\* A packet is read: it is counted, and may start a rekey.
LEMMA ReadHarmless ==
    ASSUME NEW e \in Endpoint, NEW w \in Seq(Frames), NEW s, Sound(e, w, s),
           s.phase \in {"kex", "auth", "loop"}, e = "server" => s.phase # "kex" \/ ~s.done,
           NEW f \in Frames, NEW r, r = ssh_packet_read_poll2(e, s, f)
    PROVE  Harmless(e, w, r) /\ (Ok(r) => Ready(e, w, r))
<1> DEFINE s1 == CountIn(s)
           x == ssh_packet_enable_delayed_compress(s1)
           s2 == IF f.p.t = "AUTH_SUCCESS" /\ e = "client" THEN x ELSE s1
<1> HIDE DEF s1, s2, x
<1>1. r = IF f.key # s.key["in"] \/ f.seq # s.seq["in"] THEN Fail(Ctx(s), "mac")
          ELSE IF s1.pkt["in"] = 0 THEN Fail(Ctx(s1), "need_rekey")
          ELSE IF f.z # s.comp["in"] THEN Fail(Ctx(s1), "inflate")
          ELSE IF ssh_packet_need_rekeying(s2, 0) THEN kex_start_rekex(e, Ctx(s2))
          ELSE Ctx(s2)
  BY DEF ssh_packet_read_poll2, s1, s2, x
<1>2. /\ s1 \in States /\ Kept(s, s1) /\ s1.auth = s.auth /\ s1.used = s.used
      /\ s1.pkt["out"] = s.pkt["out"]
      /\ ~InterMac => s1.blk["out"] = s.blk["out"]
  BY CountInType DEF s1, Sound
<1>3. Sound(e, w, s1)
  <2>1. Queued(s1) /\ Used(e, s1) /\ Counters(e, s1) /\ (Open(w) => s1.rekeying)
    BY <1>2 DEF Sound, Queued, Used, Counters, Kept
  <2>2. Phase(e, s1)
    <3>1. /\ s1.phase = s.phase /\ s1.auth = s.auth /\ s1.disp = s.disp
          /\ s1.done = s.done /\ s1.initSent = s.initSent /\ s1.rekeying = s.rekeying
      BY <1>2 DEF Kept
    <3> QED
      BY <3>1 DEF Sound, Phase
  <2> QED
    BY <1>2, <2>1, <2>2 DEF Sound
<1>4. /\ Sound(e, w, s2) /\ s2.phase = s.phase /\ s2.done = s.done
      /\ e = "server" => s2.auth = s.auth
  <2>1. CASE f.p.t = "AUTH_SUCCESS" /\ e = "client"
    <3>1. s2 = x
      BY <2>1 DEF s2
    <3>2. /\ x \in States /\ Kept(s1, x) /\ x.pkt = s1.pkt /\ x.blk = s1.blk
          /\ x.used = s1.used
      BY <1>2, DelayedCompressType DEF x
    <3>3. Queued(x) /\ Used(e, x) /\ Counters(e, x) /\ (Open(w) => x.rekeying) /\ Phase(e, x)
      BY <1>3, <2>1, <3>2 DEF Sound, Queued, Used, Counters, Kept, Phase
    <3>4. x.phase = s.phase /\ x.done = s.done
      BY <1>2, <3>2 DEF Kept
    <3> QED
      BY <1>3, <2>1, <3>1, <3>2, <3>3, <3>4 DEF Sound
  <2>2. CASE ~(f.p.t = "AUTH_SUCCESS" /\ e = "client")
    <3>1. s2 = s1
      BY <2>2 DEF s2
    <3> QED
      BY <1>2, <1>3, <3>1 DEF Kept
  <2> QED
    BY <2>1, <2>2
<1>5. {"mac", "need_rekey", "inflate"} \subseteq Reasons \ {"none"}
  BY DEF Reasons
<1>6. CASE f.key # s.key["in"] \/ f.seq # s.seq["in"]
  <2>1. Good(e, w, Ctx(s))
    BY CtxGood
  <2> QED
    BY <1>1, <1>5, <1>6, <2>1, FailHarmless
<1>7. CASE ~(f.key # s.key["in"] \/ f.seq # s.seq["in"]) /\ s1.pkt["in"] = 0
  <2>1. Good(e, w, Ctx(s1))
    BY <1>3, CtxGood
  <2> QED
    BY <1>1, <1>5, <1>7, <2>1, FailHarmless
<1>8. CASE /\ ~(f.key # s.key["in"] \/ f.seq # s.seq["in"]) /\ s1.pkt["in"] # 0
           /\ f.z # s.comp["in"]
  <2>1. Good(e, w, Ctx(s1))
    BY <1>3, CtxGood
  <2> QED
    BY <1>1, <1>5, <1>8, <2>1, FailHarmless
<1>9. CASE /\ ~(f.key # s.key["in"] \/ f.seq # s.seq["in"]) /\ s1.pkt["in"] # 0
           /\ ~(f.z # s.comp["in"])
  <2> DEFINE k == Ctx(s2)
  <2> HIDE DEF k
  <2>1. Good(e, w, k) /\ Ok(k) /\ k.s = s2 /\ Harmless(e, w, k)
    BY <1>4, CtxGood DEF k
  <2>2. CASE ~ssh_packet_need_rekeying(s2, 0)
    <3>1. r = k
      BY <1>1, <1>9, <2>2 DEF k
    <3> QED
      BY <1>4, <2>1, <3>1 DEF Ready, Harmless
  <2>3. CASE ssh_packet_need_rekeying(s2, 0)
    <3>1. r = kex_start_rekex(e, k)
      BY <1>1, <1>9, <2>3 DEF k
    <3>2. Good(e, w, r) /\ Frozen(k.s, r.s)
      BY <2>1, <3>1, StartRekex
    <3>3. e = "server" => s.phase = "loop"
      <4>1. s2.auth
        BY <2>3 DEF ssh_packet_need_rekeying
      <4> QED
        BY <1>4, <4>1 DEF Sound, Phase
    <3>4. Phase(e, r.s)
      BY <1>4, <2>1, <3>2, <3>3 DEF Sound, Phase, Frozen
    <3>5. r.s.phase = s.phase
      BY <1>4, <2>1, <3>2 DEF Frozen
    <3> QED
      BY <3>2, <3>3, <3>4, <3>5 DEF Harmless, Ready
  <2> QED
    BY <2>2, <2>3
<1> QED
  BY <1>6, <1>7, <1>8, <1>9

-----------------------------------------------------------------------------
(* The invariant and the steps.                                            *)

\* While the connection is up every side is sound; after a failure what was sent
\* is still as it should be.
TInv ==
    /\ TypeOK
    /\ \A e \in Endpoint : Queued(st[e]) /\ Used(e, st[e]) /\ Clean(wire[e])
    /\ down = "none" =>
         \A e \in Endpoint : /\ Counters(e, st[e]) /\ Phase(e, st[e])
                             /\ Open(wire[Peer(e)]) => st[e].rekeying

LEMMA PeerFacts ==
    \A e \in Endpoint : Peer(e) \in Endpoint /\ Peer(e) # e /\ Peer(Peer(e)) = e
                        /\ \A f \in Endpoint : f = e \/ f = Peer(e)
BY DEF Endpoint, Peer

LEMMA SoundState ==
    ASSUME TInv, down = "none", NEW e \in Endpoint
    PROVE  /\ wire[Peer(e)] \in Seq(Frames) /\ Sound(e, wire[Peer(e)], st[e])
           /\ wire[e] \in Seq(Frames)
<1>1. wire \in [Endpoint -> Seq(Frames)] /\ st \in [Endpoint -> States]
  BY DEF TInv, TypeOK
<1> QED
  BY <1>1, PeerFacts DEF TInv, Sound

\* A harmless handler of e whose results take effect.
LEMMA ApplyInvariant ==
    ASSUME TInv, down = "none", NEW e \in Endpoint, NEW w \in [Endpoint -> Seq(Frames)],
           w[Peer(e)] = wire[Peer(e)], Clean(w[e]), Open(w[e]) => Open(wire[e]),
           NEW k, Harmless(e, wire[Peer(e)], k), Apply(e, k, w),
           sent' \in [Endpoint -> 0 .. MaxData], rcvd' \in [Endpoint -> Nat],
           manual' \in 0 .. MaxManual
    PROVE  TInv'
<1> DEFINE o == Peer(e)
<1>1. o \in Endpoint /\ o # e /\ Peer(o) = e /\ \A f \in Endpoint : f = e \/ f = o
  BY PeerFacts
<1> HIDE DEF o
<1>2. /\ k \in Contexts /\ k.s \in States /\ k.out \in Seq(Frames) /\ k.err \in Reasons
      /\ Good(e, wire[o], k)
  BY DEF Harmless, Good, Contexts, o
<1>3. /\ st' = [st EXCEPT ![e] = k.s] /\ wire' = [w EXCEPT ![o] = w[o] \o k.out]
      /\ down' = k.err
  BY DEF Apply, o
<1>4. /\ st \in [Endpoint -> States] /\ wire \in [Endpoint -> Seq(Frames)]
      /\ w[o] = wire[o]
  BY DEF TInv, TypeOK, o
<1>5. w[o] \o k.out \in Seq(Frames)
  BY <1>1, <1>2, <1>4
<1>6. /\ st' \in [Endpoint -> States] /\ wire' \in [Endpoint -> Seq(Frames)]
      /\ st'[e] = k.s /\ st'[o] = st[o] /\ wire'[o] = wire[o] \o k.out /\ wire'[e] = w[e]
  BY <1>1, <1>2, <1>3, <1>4, <1>5
<1>7. TypeOK'
  BY <1>2, <1>3, <1>6 DEF TypeOK
<1>8. /\ Queued(st'[e]) /\ Used(e, st'[e]) /\ Clean(wire'[o])
      /\ Queued(st'[o]) /\ Used(o, st'[o]) /\ Clean(wire'[e])
  BY <1>1, <1>2, <1>6 DEF TInv, Good
<1>9. ASSUME down' = "none"
      PROVE  /\ Counters(e, st'[e]) /\ Phase(e, st'[e]) /\ (Open(wire'[o]) => st'[e].rekeying)
             /\ Counters(o, st'[o]) /\ Phase(o, st'[o]) /\ (Open(wire'[e]) => st'[o].rekeying)
  <2>1. Ok(k)
    BY <1>3, <1>9 DEF Ok
  <2>2. /\ Counters(e, st'[e]) /\ Phase(e, st'[e]) /\ (Open(wire'[o]) => st'[e].rekeying)
    BY <1>2, <1>6, <2>1 DEF Harmless, Good
  <2>3. /\ Counters(o, st[o]) /\ Phase(o, st[o]) /\ (Open(wire[e]) => st[o].rekeying)
    BY <1>1 DEF TInv
  <2> QED
    BY <1>6, <2>2, <2>3
<1>10. \A f \in Endpoint : Queued(st'[f]) /\ Used(f, st'[f]) /\ Clean(wire'[f])
  BY <1>1, <1>8
<1>11. down' = "none" =>
         \A f \in Endpoint : /\ Counters(f, st'[f]) /\ Phase(f, st'[f])
                             /\ Open(wire'[Peer(f)]) => st'[f].rekeying
  <2>1. Peer(e) = o
    BY DEF o
  <2> QED
    BY <1>1, <1>9, <2>1
<1> QED
  BY <1>7, <1>10, <1>11 DEF TInv

\* The same when nothing was read.
LEMMA ApplySent ==
    ASSUME TInv, down = "none", NEW e \in Endpoint, NEW k, Harmless(e, wire[Peer(e)], k),
           Apply(e, k, wire),
           sent' \in [Endpoint -> 0 .. MaxData], rcvd' \in [Endpoint -> Nat],
           manual' \in 0 .. MaxManual
    PROVE  TInv'
<1>1. wire \in [Endpoint -> Seq(Frames)] /\ Clean(wire[e])
  BY DEF TInv, TypeOK
<1> QED
  BY <1>1, ApplyInvariant

LEMMA KeptVariables ==
    ASSUME TInv
    PROVE  /\ sent' = sent => sent' \in [Endpoint -> 0 .. MaxData]
           /\ rcvd' = rcvd => rcvd' \in [Endpoint -> Nat]
           /\ manual' = manual => manual' \in 0 .. MaxManual
BY DEF TInv, TypeOK

LEMMA NewStateType ==
    NewState \in States /\ NewState.queue = <<>>
<1>1. /\ [t \in Types |-> "null"] \in [Types -> Handlers] /\ NoInit \in KexInits
      /\ [m \in Mode |-> NoKey] \in [Mode -> Keys] /\ NoHash \in Hashes
      /\ [m \in Mode |-> FALSE] \in [Mode -> BOOLEAN]
      /\ [m \in Mode |-> 0] \in [Mode -> 0 .. SeqMod - 1]
      /\ [m \in Mode |-> 0] \in [Mode -> Nat]
  BY ConstantTypes, TransportAssumption DEF Handlers
<1>2. <<>> \in Seq(KexInits) /\ <<>> \in Seq(Packets)
  OBVIOUS
<1> QED
  BY <1>1, <1>2 DEF NewState, States, Phases

LEMMA InitInvariant ==
    Init => TInv
<1> SUFFICES ASSUME Init PROVE TInv
  OBVIOUS
<1> DEFINE s(e) == [NewState EXCEPT !.extInfo = (e = "client")]
<1>1. \A e \in Endpoint : /\ s(e) \in States /\ s(e).queue = <<>> /\ s(e).phase = "start"
                          /\ s(e).used = 0 /\ s(e).pkt["out"] = 0 /\ s(e).blk["out"] = 0
                          /\ \A t \in Types : s(e).disp[t] = "null"
  <2> TAKE e \in Endpoint
  <2>1. (e = "client") \in BOOLEAN
    OBVIOUS
  <2>2. s(e) \in States
    BY <2>1, NewStateType DEF States
  <2> QED
    BY <2>2, OutMode DEF NewState
<1>2. \A e \in Endpoint : s(e).auth = FALSE /\ s(e).initSent = FALSE
  BY DEF NewState
<1>3. \A e \in Endpoint : st[e] = s(e) /\ wire[e] = <<>>
  BY DEF Init
<1> HIDE DEF s
<1>4. TypeOK
  <2>1. st \in [Endpoint -> States]
    BY <1>1 DEF Init, s
  <2>2. <<>> \in Seq(Frames) /\ 0 \in 0 .. MaxData /\ 0 \in 0 .. MaxManual
    BY TransportAssumption
  <2> QED
    BY <2>1, <2>2 DEF Init, TypeOK, Reasons
<1>5. Clean(<<>>) /\ ~Open(<<>>)
  BY DEF Clean, Open
<1>6. \A e \in Endpoint : Queued(s(e)) /\ Used(e, s(e)) /\ Counters(e, s(e))
  BY <1>1, TransportAssumption DEF Queued, Used, Counters
<1>7. \A e \in Endpoint : Phase(e, s(e))
  BY <1>1, <1>2, TypesOf DEF Phase
<1>8. \A e \in Endpoint : wire[Peer(e)] = <<>>
  BY <1>3, PeerFacts
<1> QED
  BY <1>3, <1>4, <1>5, <1>6, <1>7, <1>8 DEF TInv

LEMMA SetupStep ==
    ASSUME TInv, NEW e \in Endpoint, kex_setup(e)
    PROVE  TInv'
<1> DEFINE w == wire[Peer(e)]
           s == [st[e] EXCEPT !.phase = "kex"]
           d == [t \in Types |-> IF t = "KEXINIT" THEN "input"
                                 ELSE IF t \in TransportTypes THEN "unimplemented"
                                 ELSE s.disp[t]]
           s1 == [s EXCEPT !.disp = d]
           j == kex_reset_dispatch(Ctx(s))
           r == kex_send_kexinit(e, j)
<1>1. /\ down = "none" /\ st[e].phase = "start" /\ Apply(e, r, wire)
      /\ sent' = sent /\ rcvd' = rcvd /\ manual' = manual
  BY DEF kex_setup, CanSetup
<1>2. w \in Seq(Frames) /\ Sound(e, w, st[e]) /\ st[e] \in States
  BY <1>1, SoundState DEF Sound
<1>3. /\ s \in States /\ Alike(st[e], s) /\ s.disp = st[e].disp /\ s.auth = st[e].auth
      /\ s.initSent = st[e].initSent /\ s.phase = "kex"
  BY <1>2 DEF States, Phases, Alike
<1> HIDE DEF w, s
<1>4. /\ d \in [Types -> Handlers] /\ d["NEWKEYS"] # "input"
      /\ \A t \in LoginTypes : d[t] = st[e].disp[t] \/ d[t] # "input"
  <2>1. s.disp \in [Types -> Handlers]
    BY <1>3 DEF States
  <2> QED
    BY <1>3, <2>1, TypesOf DEF Handlers, LoginTypes
<1>5. j = Ctx(s1)
  BY DEF kex_reset_dispatch, Ctx
<1> HIDE DEF d
<1>6. /\ s1 \in States /\ Alike(s, s1) /\ s1.disp = d /\ s1.auth = s.auth
      /\ s1.initSent = s.initSent /\ s1.phase = "kex"
  BY <1>3, <1>4 DEF States, Alike
<1> HIDE DEF s1, j
<1>7. Good(e, w, j) /\ Ok(j) /\ j.s = s1
  <2> DEFINE i == Ctx(st[e])
  <2> HIDE DEF i
  <2>1. Good(e, w, i) /\ Ok(i) /\ i.s = st[e] /\ i \in Contexts
    BY <1>2, CtxGood DEF i
  <2>2. i.out = <<>> /\ i.err = "none" /\ j.s = s1 /\ j.out = <<>> /\ j.err = "none"
    BY <1>5 DEF i, Ctx
  <2>3. j \in Contexts
    BY <1>5, <1>6 DEF Ctx, Contexts, Reasons
  <2>4. Alike(i.s, j.s)
    BY <1>3, <1>6, <2>1, <2>2 DEF Alike
  <2>5. Good(e, w, j)
    BY <1>2, <2>1, <2>2, <2>3, <2>4, GoodAlike
  <2> QED
    BY <2>2, <2>5 DEF Ok
<1> HIDE DEF r
<1>8. /\ Good(e, w, r) /\ Frozen(s1, r.s) /\ r.s.auth = s1.auth
      /\ ~s1.initSent => ~r.s.done
      /\ ~s1.initSent /\ Ok(r) => r.s.rekeying /\ r.s.initSent
  BY <1>2, <1>7, SendKexinit DEF r
<1>9. ASSUME Ok(r), e = "server" PROVE Phase(e, r.s)
  <2>1. ~st[e].auth /\ ~st[e].initSent /\ \A t \in LoginTypes : st[e].disp[t] # "input"
    BY <1>1, <1>2, <1>9 DEF Sound, Phase
  <2>2. ~r.s.done /\ r.s.initSent /\ ~r.s.auth
    BY <1>3, <1>6, <1>8, <1>9, <2>1
  <2>3. r.s.phase = "kex" /\ r.s.disp = d
    BY <1>6, <1>8 DEF Frozen
  <2> QED
    BY <1>4, <2>1, <2>2, <2>3 DEF Phase
<1>10. Harmless(e, w, r)
  BY <1>8, <1>9 DEF Harmless, Phase
<1> QED
  BY <1>1, <1>10, ApplySent, KeptVariables DEF w

LEMMA ReadStep ==
    ASSUME TInv, NEW e \in Endpoint, Read(e)
    PROVE  TInv'
<1> DEFINE f == Head(wire[e])
           w == [wire EXCEPT ![e] = Tail(@)]
           k == ssh_packet_read_poll2(e, st[e], f)
           r == ssh_dispatch(e, k, f.p)
<1>1. /\ down = "none" /\ wire[e] # <<>>
      /\ (st[e].phase = "kex" /\ ~st[e].done) \/ st[e].phase \in {"auth", "loop"}
      /\ Apply(e, r, w) /\ sent' = sent /\ manual' = manual
  BY DEF Read, CanRead
<1>2. /\ wire[Peer(e)] \in Seq(Frames) /\ Sound(e, wire[Peer(e)], st[e])
      /\ wire[e] \in Seq(Frames)
  BY <1>1, SoundState
<1>3. f \in Frames /\ f.p \in Packets /\ f.p.n \in Nat
  <2>1. f \in Frames
    BY <1>1, <1>2
  <2> QED
    BY <2>1 DEF Frames, Packets
<1>4. rcvd' \in [Endpoint -> Nat]
  <2> DEFINE handed == /\ Ok(k) /\ f.p.t = "DATA" /\ k.s.disp["DATA"] = "input"
  <2>1. rcvd' = [rcvd EXCEPT ![e] = IF handed THEN f.p.n ELSE @]
    BY DEF Read
  <2> HIDE DEF handed, f
  <2>2. rcvd \in [Endpoint -> Nat]
    BY DEF TInv, TypeOK
  <2> QED
    BY <1>3, <2>1, <2>2
<1> HIDE DEF f, k, r
<1>5. Harmless(e, wire[Peer(e)], k) /\ (Ok(k) => Ready(e, wire[Peer(e)], k))
  <2>1. st[e].phase \in {"kex", "auth", "loop"} /\ (st[e].phase # "kex" \/ ~st[e].done)
    BY <1>1
  <2> QED
    BY <1>2, <1>3, <2>1, ReadHarmless DEF k
<1>6. Harmless(e, wire[Peer(e)], r)
  BY <1>2, <1>3, <1>5, DispatchHarmless DEF r
<1>7. /\ w \in [Endpoint -> Seq(Frames)] /\ w[Peer(e)] = wire[Peer(e)]
      /\ Clean(w[e]) /\ (Open(w[e]) => Open(wire[e]))
  <2>1. wire \in [Endpoint -> Seq(Frames)] /\ Clean(wire[e])
    BY DEF TInv, TypeOK
  <2>2. /\ Tail(wire[e]) \in Seq(Frames) /\ Clean(Tail(wire[e]))
        /\ Open(Tail(wire[e])) => Open(wire[e])
    BY <1>1, <1>2, <2>1, TailFits
  <2> QED
    BY <2>1, <2>2, PeerFacts
<1> HIDE DEF w
<1> QED
  BY <1>1, <1>4, <1>6, <1>7, ApplyInvariant, KeptVariables

LEMMA DispatchTypes ==
    ASSUME NEW h \in Handlers, NEW t \in Types, NEW u \in Types
    PROVE  [[v \in Types |-> h] EXCEPT ![t] = "input", ![u] = "input"] \in [Types -> Handlers]
BY DEF Handlers

\* The end of the first key exchange or of authentication: phase and dispatch
\* table change.
Turn(k, x, d) == [k EXCEPT !.s.phase = x, !.s.disp = d]

LEMMA TurnPhase ==
    ASSUME NEW k \in Contexts, NEW x \in Phases, NEW d \in [Types -> Handlers],
           NEW r, r = Turn(k, x, d)
    PROVE  /\ r \in Contexts /\ r.out = k.out /\ r.err = k.err /\ Alike(k.s, r.s)
           /\ r.s.phase = x /\ r.s.disp = d /\ r.s.auth = k.s.auth
<1> DEFINE s == [k.s EXCEPT !.phase = x, !.disp = d]
<1>1. r = [k EXCEPT !.s = s]
  BY DEF Contexts, Turn
<1>2. k.s \in States
  BY DEF Contexts
<1>3. /\ s \in States /\ Alike(k.s, s) /\ s.phase = x /\ s.disp = d /\ s.auth = k.s.auth
  BY <1>2 DEF States, Alike
<1> HIDE DEF s
<1> QED
  BY <1>1, <1>3 DEF Contexts

LEMMA TurnCtx ==
    ASSUME NEW s \in States, NEW x, NEW d
    PROVE  Ctx([s EXCEPT !.phase = x, !.disp = d]) = Turn(Ctx(s), x, d)
<1> DEFINE t == [s EXCEPT !.phase = x, !.disp = d]
<1>1. [Ctx(s) EXCEPT !.s = t] = Ctx(t)
  BY DEF Ctx
<1>2. Turn(Ctx(s), x, d) = [Ctx(s) EXCEPT !.s = t]
  BY DEF Turn, Ctx, States
<1> QED
  BY <1>1, <1>2

LEMMA ClientAuthStep ==
    ASSUME TInv, ssh_userauth2
    PROVE  TInv'
<1> DEFINE e == "client"
           w == wire[Peer(e)]
           s == [st[e] EXCEPT !.extInfo = FALSE]
           k == ssh_packet_send2(e, Ctx(s), Pkt("SERVICE_REQUEST"))
           d == [[t \in Types |-> "fatal"] EXCEPT !["EXT_INFO"] = "input",
                                                  !["SERVICE_ACCEPT"] = "input"]
           r == [k EXCEPT !.s.phase = "auth", !.s.disp = d]
<1>1. /\ down = "none" /\ Apply(e, r, wire)
      /\ sent' = sent /\ rcvd' = rcvd /\ manual' = manual
  BY DEF ssh_userauth2, KexOver
<1>2. e \in Endpoint /\ e # "server"
  BY DEF Endpoint
<1> HIDE DEF e
<1>3. w \in Seq(Frames) /\ Sound(e, w, st[e])
  BY <1>1, <1>2, SoundState
<1>4. s \in States /\ Alike(st[e], s)
  BY <1>3 DEF Sound, States, Alike
<1> HIDE DEF s, w
<1>5. Sound(e, w, s)
  BY <1>2, <1>3, <1>4 DEF Sound, Alike, Queued, Used, Counters, Phase
<1>6. Good(e, w, Ctx(s)) /\ Ok(Ctx(s))
  BY <1>2, <1>3, <1>5, CtxGood
<1>7. Pkt("SERVICE_REQUEST") \in Packets /\ Pkt("SERVICE_REQUEST").t = "SERVICE_REQUEST"
  BY TypesOf, PktTypes
<1> HIDE DEF k
<1>8. Good(e, w, k) /\ k \in Contexts
  <2>1. Good(e, w, k)
    BY <1>2, <1>3, <1>6, <1>7, Send2 DEF k
  <2> QED
    BY <2>1 DEF Good
<1>9. d \in [Types -> Handlers] /\ "auth" \in Phases
  BY TypesOf, DispatchTypes DEF Handlers, Phases
<1> HIDE DEF d, r
<1>10. r \in Contexts /\ r.out = k.out /\ r.err = k.err /\ Alike(k.s, r.s)
  <2>1. r = Turn(k, "auth", d)
    BY DEF r, Turn
  <2> QED
    BY <1>8, <1>9, <2>1, TurnPhase
<1>11. Harmless(e, w, r)
  BY <1>2, <1>3, <1>8, <1>10, GoodAlike DEF Harmless, Phase
<1> QED
  BY <1>1, <1>2, <1>11, ApplySent, KeptVariables DEF w

LEMMA ServerAuthStep ==
    ASSUME TInv, do_authentication2
    PROVE  TInv'
<1> DEFINE e == "server"
           w == wire[Peer(e)]
           d == [[t \in Types |-> "unimplemented"] EXCEPT !["SERVICE_REQUEST"] = "input"]
           r == Ctx([st[e] EXCEPT !.phase = "auth", !.disp = d])
           k == Ctx(st[e])
<1>1. /\ down = "none" /\ Apply(e, r, wire) /\ st[e].phase = "kex" /\ st[e].done
      /\ sent' = sent /\ rcvd' = rcvd /\ manual' = manual
  BY DEF do_authentication2, KexOver
<1>2. e \in Endpoint /\ e = "server"
  BY DEF Endpoint
<1> HIDE DEF e
<1>3. w \in Seq(Frames) /\ Sound(e, w, st[e])
  BY <1>1, <1>2, SoundState
<1>4. /\ d \in [Types -> Handlers] /\ "auth" \in Phases
      /\ \A t \in Types \ {"SERVICE_REQUEST", "AUTH_REQUEST"} : d[t] # "input"
  BY TypesOf DEF Handlers, Phases
<1> HIDE DEF d
<1>5. r = Turn(k, "auth", d)
  BY <1>3, TurnCtx DEF Sound
<1> HIDE DEF r, k, w
<1>6. Good(e, w, k) /\ Ok(k) /\ k.s = st[e] /\ k \in Contexts
  BY <1>2, <1>3, CtxGood DEF k
<1>7. /\ r \in Contexts /\ r.out = k.out /\ r.err = k.err /\ Alike(k.s, r.s)
      /\ r.s.phase = "auth" /\ r.s.disp = d /\ r.s.auth = k.s.auth
  BY <1>4, <1>5, <1>6, TurnPhase
<1>8. Good(e, w, r)
  BY <1>2, <1>3, <1>6, <1>7, GoodAlike
<1>9. ~st[e].auth /\ ~st[e].rekeying
  BY <1>1, <1>2, <1>3 DEF Sound, Phase
<1>10. ~r.s.auth /\ ~r.s.rekeying
  BY <1>6, <1>7, <1>9 DEF Alike
<1>11. Harmless(e, w, r)
  BY <1>4, <1>7, <1>8, <1>10 DEF Harmless, Phase
<1> QED
  BY <1>1, <1>2, <1>11, ApplySent, KeptVariables DEF w

LEMMA LoopDispatchType ==
    /\ LoopDispatch \in [Types -> Handlers] /\ "loop" \in Phases
    /\ \A t \in LoginTypes : LoopDispatch[t] # "input"
BY TypesOf DEF LoopDispatch, Handlers, Phases, LoginTypes

LEMMA ClientLoopStep ==
    ASSUME TInv, client_loop
    PROVE  TInv'
<1> DEFINE e == "client"
           w == wire[Peer(e)]
           r == Ctx([st[e] EXCEPT !.phase = "loop", !.disp = LoopDispatch])
           k == Ctx(st[e])
<1>1. /\ down = "none" /\ Apply(e, r, wire)
      /\ sent' = sent /\ rcvd' = rcvd /\ manual' = manual
  BY DEF client_loop, AuthOver
<1>2. e \in Endpoint /\ e # "server"
  BY DEF Endpoint
<1> HIDE DEF e
<1>3. w \in Seq(Frames) /\ Sound(e, w, st[e])
  BY <1>1, <1>2, SoundState
<1>5. r = Turn(k, "loop", LoopDispatch)
  BY <1>3, TurnCtx DEF Sound
<1> HIDE DEF r, k, w
<1>6. Good(e, w, k) /\ Ok(k) /\ k.s = st[e] /\ k \in Contexts
  BY <1>2, <1>3, CtxGood DEF k
<1>7. /\ r \in Contexts /\ r.out = k.out /\ r.err = k.err /\ Alike(k.s, r.s)
      /\ r.s.phase = "loop" /\ r.s.disp = LoopDispatch /\ r.s.auth = k.s.auth
  BY <1>5, <1>6, LoopDispatchType, TurnPhase
<1>8. Harmless(e, w, r)
  BY <1>2, <1>3, <1>6, <1>7, GoodAlike DEF Harmless, Phase
<1> QED
  BY <1>1, <1>2, <1>8, ApplySent, KeptVariables DEF w

\* The transfer of the packet state: nothing is queued in the new process, and
\* its packets and blocks are counted from zero.
LEMMA Transferred ==
    ASSUME NEW s \in States, NEW k, k = ssh_packet_set_state(ssh_packet_get_state(s))
    PROVE  /\ k \in Contexts /\ k.out = <<>> /\ k.s.queue = <<>>
           /\ k.s.blk["out"] = 0 /\ k.s.initSent = s.initSent
<1> DEFINE b == ssh_packet_get_state(s)
           t == [kex_from_blob(NewState, b.kex) EXCEPT
                   !.pend = b.key, !.seq = b.seq, !.pkt = b.pkt, !.blk = b.blk]
           k0 == Ctx(t)
           k1 == ssh_set_newkeys(k0, "in")
           k2 == ssh_set_newkeys(k1, "out")
           u == [k2.s EXCEPT !.auth = TRUE, !.rekeying = FALSE]
           v == ssh_packet_enable_delayed_compress(u)
<1>1. t = [NewState EXCEPT !.sid = s.sid, !.my = s.my, !.peer = s.peer,
                           !.initSent = s.initSent, !.done = TRUE,
                           !.pend = s.key, !.seq = s.seq, !.pkt = s.pkt, !.blk = s.blk]
  BY DEF ssh_packet_get_state, kex_to_blob, kex_from_blob, NewState
<1>2. k = [k2 EXCEPT !.s = v]
  BY DEF ssh_packet_set_state, ssh_packet_set_postauth
<1> HIDE DEF t
<1>3. t \in States /\ t.queue = <<>> /\ t.initSent = s.initSent
  BY <1>1, NewStateType DEF States
<1>4. k0 \in Contexts /\ k0.s = t /\ k0.out = <<>>
  BY <1>3 DEF Ctx, Contexts, Reasons
<1> HIDE DEF k0, k1, k2
<1>5. k1 \in Contexts /\ k1.out = k0.out /\ Kept(k0.s, k1.s)
  BY <1>4, OutMode, SetNewkeysType DEF k1
<1>6. k2 \in Contexts /\ k2.out = k1.out /\ Kept(k1.s, k2.s) /\ k2.s.blk["out"] = 0
  BY <1>5, OutMode, SetNewkeysType DEF k2
<1>7. k2.s \in States /\ k2.out = <<>> /\ k2.s.queue = <<>> /\ k2.s.initSent = s.initSent
  BY <1>3, <1>4, <1>5, <1>6 DEF Contexts, Kept
<1>8. u \in States /\ u.queue = <<>> /\ u.blk["out"] = 0 /\ u.initSent = s.initSent
  BY <1>6, <1>7 DEF States
<1> HIDE DEF u, v
<1>9. v \in States /\ v.queue = <<>> /\ v.blk["out"] = 0 /\ v.initSent = s.initSent
  <2>1. v \in States /\ Kept(u, v) /\ v.blk = u.blk
    BY <1>8, DelayedCompressType DEF v
  <2> QED
    BY <1>8, <2>1 DEF Kept
<1>10. k.s = v /\ k \in Contexts /\ k.out = <<>>
  BY <1>2, <1>6, <1>7, <1>9 DEF Contexts
<1> QED
  BY <1>9, <1>10

LEMMA ServerLoopStep ==
    ASSUME TInv, server_loop2
    PROVE  TInv'
<1> DEFINE e == "server"
           w == wire[Peer(e)]
           j == privsep_postauth(st[e])
           r == [j EXCEPT !.s.phase = "loop", !.s.disp = LoopDispatch]
<1>1. /\ down = "none" /\ Apply(e, r, wire) /\ st[e].phase = "authdone"
      /\ sent' = sent /\ rcvd' = rcvd /\ manual' = manual
  BY DEF server_loop2, AuthOver
<1>2. e \in Endpoint /\ e = "server"
  BY DEF Endpoint
<1> HIDE DEF e
<1>3. w \in Seq(Frames) /\ Sound(e, w, st[e]) /\ st[e] \in States
  BY <1>1, <1>2, SoundState DEF Sound
<1>4. r = Turn(j, "loop", LoopDispatch)
  BY DEF Turn
<1> HIDE DEF r, w
<1>5. Good(e, w, j)
  <2>1. CASE ~Privsep
    <3>1. j = Ctx(st[e])
      BY <2>1 DEF privsep_postauth
    <3> QED
      BY <1>2, <1>3, <3>1, CtxGood
  <2>2. CASE Privsep
    <3> DEFINE k == ssh_packet_set_state(ssh_packet_get_state(st[e]))
               q == [k.s EXCEPT !.used = st[e].used]
    <3>1. j = [k EXCEPT !.s.used = st[e].used]
      BY <2>2 DEF privsep_postauth
    <3> HIDE DEF k, j
    <3>2. k \in Contexts /\ k.out = <<>> /\ k.s.queue = <<>> /\ k.s.blk["out"] = 0
      BY <1>3, Transferred DEF k
    <3>3. j = [k EXCEPT !.s = q]
      BY <3>1, <3>2 DEF Contexts
    <3>4. q \in States /\ q.queue = <<>> /\ q.blk["out"] = 0
      <4>1. k.s \in States /\ st[e].used \in Nat
        BY <1>3, <3>2 DEF Contexts, States
      <4> QED
        BY <3>2, <4>1 DEF States
    <3> HIDE DEF q
    <3>5. j \in Contexts /\ j.s = q /\ j.out = <<>>
      BY <3>2, <3>3, <3>4 DEF Contexts
    <3>6. w \o j.out = w
      BY <1>3, <3>5
    <3>7. Clean(w) /\ ~Open(w)
      BY <1>1, <1>2, <1>3 DEF Sound, Phase
    <3>8. Queued(q) /\ Used(e, q) /\ Counters(e, q)
      BY <1>2, <2>2, <3>4 DEF Queued, Used, Counters, Counted
    <3> QED
      BY <3>5, <3>6, <3>7, <3>8 DEF Good
  <2> QED
    BY <2>1, <2>2
<1> HIDE DEF j
<1>6. /\ r \in Contexts /\ r.out = j.out /\ r.err = j.err /\ Alike(j.s, r.s)
      /\ r.s.phase = "loop" /\ r.s.disp = LoopDispatch /\ r.s.auth = j.s.auth
  <2>1. j \in Contexts
    BY <1>5 DEF Good
  <2> QED
    BY <1>4, <2>1, LoopDispatchType, TurnPhase
<1>7. Good(e, w, r)
  BY <1>2, <1>3, <1>5, <1>6, GoodAlike
<1>8. Harmless(e, w, r)
  BY <1>6, <1>7, LoopDispatchType DEF Harmless, Phase
<1> QED
  BY <1>1, <1>2, <1>8, ApplySent, KeptVariables DEF w

LEMMA DataPktType ==
    ASSUME NEW n \in Nat
    PROVE  DataPkt(n) \in Packets /\ DataPkt(n).t = "DATA"
<1>1. Pkt("DATA") \in Packets /\ Pkt("DATA").t = "DATA"
  BY TypesOf, PktTypes
<1> QED
  BY <1>1 DEF DataPkt, Packets

LEMMA SendDataStep ==
    ASSUME TInv, NEW e \in Endpoint, SendData(e)
    PROVE  TInv'
<1> DEFINE w == wire[Peer(e)]
           k == Ctx(st[e])
           n == sent[e] + 1
           r == ssh_packet_send2(e, k, DataPkt(n))
<1>1. /\ down = "none" /\ st[e].phase = "loop" /\ sent[e] < MaxData
      /\ sent' = [sent EXCEPT ![e] = @ + 1] /\ Apply(e, r, wire)
      /\ rcvd' = rcvd /\ manual' = manual
  BY DEF SendData
<1>2. sent' \in [Endpoint -> 0 .. MaxData] /\ n \in Nat
  <2>1. sent \in [Endpoint -> 0 .. MaxData] /\ MaxData \in Nat
    BY TransportAssumption DEF TInv, TypeOK
  <2> QED
    BY <1>1, <2>1
<1>3. w \in Seq(Frames) /\ Sound(e, w, st[e]) /\ Phase(e, st[e])
  BY <1>1, SoundState DEF Sound
<1> HIDE DEF w, k, n, r
<1>4. Good(e, w, k) /\ Ok(k) /\ k.s = st[e]
  BY <1>3, CtxGood DEF k
<1>5. DataPkt(n) \in Packets /\ DataPkt(n).t = "DATA"
  BY <1>2, DataPktType
<1>6. Harmless(e, w, r)
  <2>1. r = ssh_packet_send2(e, k, DataPkt(n)) /\ k.s.phase # "authdone" /\ Phase(e, k.s)
    BY <1>1, <1>3, <1>4 DEF r
  <2> QED
    BY <1>3, <1>4, <1>5, <2>1, SendHarmless
<1> QED
  BY <1>1, <1>2, <1>6, ApplySent, KeptVariables DEF w

LEMMA ManualRekeyStep ==
    ASSUME TInv, ManualRekey
    PROVE  TInv'
<1> DEFINE e == "client"
           w == wire[Peer(e)]
           k == Ctx(st[e])
           r == kex_start_rekex(e, k)
<1>1. /\ down = "none" /\ manual < MaxManual /\ Apply(e, r, wire)
      /\ sent' = sent /\ rcvd' = rcvd /\ manual' = manual + 1
  BY DEF ManualRekey
<1>2. e \in Endpoint /\ e # "server"
  BY DEF Endpoint
<1>3. manual' \in 0 .. MaxManual
  BY <1>1, TransportAssumption DEF TInv, TypeOK
<1> HIDE DEF e
<1>4. w \in Seq(Frames) /\ Sound(e, w, st[e])
  BY <1>1, <1>2, SoundState
<1> HIDE DEF w, k, r
<1>5. Good(e, w, k) /\ Ok(k)
  BY <1>2, <1>4, CtxGood DEF k
<1>6. Good(e, w, r)
  BY <1>2, <1>4, <1>5, StartRekex DEF r
<1>7. Harmless(e, w, r)
  BY <1>2, <1>6 DEF Harmless, Phase
<1> QED
  BY <1>1, <1>2, <1>3, <1>7, ApplySent, KeptVariables DEF w

LEMMA IntervalStep ==
    ASSUME TInv, NEW e \in Endpoint, IntervalPasses(e)
    PROVE  TInv'
<1> DEFINE w == wire[Peer(e)]
           s == [st[e] EXCEPT !.expired = TRUE]
           k == Ctx(st[e])
           r == Ctx(s)
<1>1. /\ down = "none" /\ st' = [st EXCEPT ![e].expired = TRUE] /\ wire' = wire
      /\ sent' = sent /\ rcvd' = rcvd /\ manual' = manual /\ down' = down
  BY DEF IntervalPasses
<1>2. w \in Seq(Frames) /\ Sound(e, w, st[e]) /\ st[e] \in States
      /\ wire \in [Endpoint -> Seq(Frames)]
  BY <1>1, SoundState DEF Sound, TInv, TypeOK
<1>3. s \in States /\ Aside(st[e], s)
  BY <1>2 DEF States, Aside, Alike
<1>4. /\ k.s = st[e] /\ k.out = <<>> /\ k.err = "none"
      /\ r.s = s /\ r.out = <<>> /\ r.err = "none"
  BY DEF Ctx
<1>5. Apply(e, r, wire)
  <2>1. st' = [st EXCEPT ![e] = s]
    BY <1>1
  <2>2. [wire EXCEPT ![Peer(e)] = @ \o <<>>] = wire
    BY <1>2, PeerFacts
  <2> QED
    BY <1>1, <1>4, <2>1, <2>2 DEF Apply
<1> HIDE DEF w, s, k
<1>6. Harmless(e, w, k)
  BY <1>2, CtxGood DEF k
<1>7. r \in Contexts
  BY <1>3 DEF Ctx, Contexts, Reasons
<1> HIDE DEF r
<1>8. Harmless(e, w, r)
  BY <1>2, <1>3, <1>4, <1>6, <1>7, AsideHarmless
<1> QED
  BY <1>1, <1>5, <1>8, ApplySent, KeptVariables DEF w

LEMMA NextInvariant ==
    TInv /\ [Next]_vars => TInv'
<1> SUFFICES ASSUME TInv, [Next]_vars PROVE TInv'
  OBVIOUS
<1>1. CASE UNCHANGED vars
  BY <1>1 DEF vars, TInv, TypeOK
<1>2. CASE Next
  BY <1>2, SetupStep, ReadStep, SendDataStep, IntervalStep, ClientAuthStep,
     ServerAuthStep, ClientLoopStep, ServerLoopStep, ManualRekeyStep DEF Next
<1> QED
  BY <1>1, <1>2

-----------------------------------------------------------------------------
\* The invariant holds in every behaviour: whatever packets arrive in whatever
\* order, the handlers of packet.c, kex.c and the phases above them keep counters,
\* queue, dispatch table and rekeying flag consistent with what is on the wire.
THEOREM TransportInvariance == Spec => []TInv
<1>1. Init => TInv
  BY InitInvariant
<1>2. TInv /\ [Next]_vars => TInv'
  BY NextInvariant
<1> QED
  BY <1>1, <1>2, PTL DEF Spec

\* Every variable stays in its type, and no handler is left with a state outside
\* of struct session_state's ranges.
THEOREM TransportTyped == Spec => []TypeOK
<1>1. TInv => TypeOK
  BY DEF TInv
<1> QED
  BY <1>1, TransportInvariance, PTL

\* Between its KEXINIT and its NEWKEYS neither side sends anything but packets of
\* the key exchange, for every cipher, limit, method and number of rekeys, with
\* privilege separation and without ("During rekeying we can only send key
\* exchange messages.", ssh_packet_send2).
THEOREM RekeyOnlyKex == Spec => []RekeySound
<1>1. TInv => RekeySound
  BY DEF TInv, Clean, RekeySound
<1> QED
  BY <1>1, TransportInvariance, PTL

\* One process sends at most 2^32 packets under a key, so no sequence number is
\* used twice under it: ssh_packet_send2_wrapped gives up when the packet counter
\* wraps, and the counter is reset only with the key.  With privilege separation
\* the counter is also reset in the transfer, which is why the theorem leaves
\* that case to the run.
THEOREM NoncesFresh == ~Privsep => (Spec => []NoNonceReuse)
<1> SUFFICES ASSUME ~Privsep PROVE Spec => []NoNonceReuse
  OBVIOUS
<1>1. TInv => NoNonceReuse
  BY DEF TInv, Used, Counted, NoNonceReuse
<1> QED
  BY <1>1, TransportInvariance, PTL

\* The client is never the one whose counter is reset, privilege separation or not.
THEOREM ClientNoncesFresh == Spec => [](st["client"].used <= SeqMod)
<1>1. TInv => st["client"].used <= SeqMod
  BY DEF TInv, Used, Counted, Endpoint
<1> QED
  BY <1>1, TransportInvariance, PTL

LEMMA MaxBlocks ==
    ASSUME ~InterMac, RekeyBlocks # 0
    PROVE  max_blocks \in Nat \ {0} /\ max_blocks <= RekeyBlocks
BY TransportAssumption DEF max_blocks

\* A packet that is sent outside of a key exchange, and starts none, is one that the
\* limit allows.
LEMMA WithinLimit ==
    ASSUME ~InterMac, RekeyBlocks # 0, NEW e \in Endpoint, NEW w \in Seq(Frames),
           NEW s, Sound(e, w, s), s.auth, ~ssh_packet_is_rekeying(s),
           NEW n \in Nat, NEW r, r = ssh_packet_send2(e, Ctx(s), DataPkt(n)),
           ~ssh_packet_is_rekeying(r.s)
    PROVE  r.s.blk["out"] <= RekeyBlocks \/ r.s.blk["out"] = 1
<1> DEFINE k == Ctx(s)
           p == DataPkt(n)
           need == ssh_packet_need_rekeying(s, BlockSize)
           t == CountOut(s, 1)
           k1 == [k EXCEPT !.s = t, !.out = Append(@, Frame(s, p))]
<1>1. k.s = s /\ k.out = <<>> /\ k.err = "none" /\ Good(e, w, k) /\ Ok(k) /\ s \in States
  BY CtxGood DEF Ctx, Sound
<1>2. p \in Packets /\ p.t = "DATA" /\ ~ssh_packet_type_is_kex(p.t)
  BY DataPktType DEF ssh_packet_type_is_kex, TransportTypes, KexMethodTypes
<1>3. ~s.rekeying /\ s.done
  BY DEF ssh_packet_is_rekeying
<1> HIDE DEF p, k
<1>4. r = IF need THEN kex_start_rekex(e, Enqueue(k, p)) ELSE ssh_packet_send2_wrapped(e, k, p)
  BY <1>1, <1>2, <1>3 DEF ssh_packet_send2, k, p
<1>5. ~need
  <2> SUFFICES ASSUME need PROVE FALSE
    OBVIOUS
  <2> DEFINE q == Enqueue(k, p)
  <2> HIDE DEF q, need
  <2>1. Good(e, w, q) /\ Ok(q)
    BY <1>1, <1>2, EnqueueGood DEF q
  <2>2. r = kex_start_rekex(e, q)
    BY <1>4 DEF q
  <2>3. ~r.s.done
    BY <2>1, <2>2, StartRekex
  <2> QED
    BY <2>3 DEF ssh_packet_is_rekeying
<1> HIDE DEF t
<1>6. r.s = t
  <2>1. r = IF PacketsWrapped(t) THEN Fail(k1, "need_rekey") ELSE k1
    BY <1>1, <1>2, <1>4, <1>5 DEF ssh_packet_send2_wrapped, t
  <2>2. k1.s = t /\ Fail(k1, "need_rekey").s = t
    <3>1. k \in Contexts
      BY <1>1 DEF Good
    <3>2. k1.s = t
      BY <3>1 DEF Contexts
    <3> QED
      BY <3>1, <3>2 DEF Fail, Contexts
  <2> QED
    BY <2>1, <2>2
<1>7. t.blk["out"] = s.blk["out"] + 1 /\ s.blk["out"] \in Nat
  BY <1>1, CountOutType, CountFields, OutMode DEF t
<1>8. max_blocks \in Nat \ {0} /\ max_blocks <= RekeyBlocks /\ RekeyBlocks \in Nat
      /\ BlockSize \in Nat \ {0}
  BY MaxBlocks, TransportAssumption
<1>9. CASE s.pkt["out"] = 0
  BY <1>6, <1>7, <1>9 DEF Sound, Counters
<1>10. CASE s.pkt["out"] # 0
  <2>1. s.blk["out"] + BlockSize <= max_blocks
    BY <1>5, <1>7, <1>8, <1>10, OutMode DEF ssh_packet_need_rekeying
  <2> QED
    BY <1>6, <1>7, <1>8, <2>1
<1> QED
  BY <1>9, <1>10

\* Outside of a key exchange no cipher but InterMAC lets a side exceed the
\* configured RekeyLimit by even one packet, whatever the limit and the length of
\* the packets; for InterMAC the run im_limit shows that it does not hold.
THEOREM LimitKept == ~InterMac => (Spec => LimitHonoured)
<1> SUFFICES ASSUME ~InterMac PROVE Spec => LimitHonoured
  OBVIOUS
<1> DEFINE A(e) ==
      (/\ RekeyBlocks # 0 /\ st[e].auth /\ ~ssh_packet_is_rekeying(st[e])
       /\ sent'[e] # sent[e] /\ ~ssh_packet_is_rekeying(st'[e]))
      => st'[e].blk["out"] <= RekeyBlocks \/ st'[e].blk["out"] = 1
<1>1. TInv /\ [Next]_vars => [\A e \in Endpoint : A(e)]_vars
  <2> SUFFICES ASSUME TInv, Next, NEW e \in Endpoint,
                      RekeyBlocks # 0, st[e].auth, ~ssh_packet_is_rekeying(st[e]),
                      sent'[e] # sent[e], ~ssh_packet_is_rekeying(st'[e])
               PROVE  st'[e].blk["out"] <= RekeyBlocks \/ st'[e].blk["out"] = 1
    OBVIOUS
  <2>1. SendData(e)
    <3>1. sent' # sent
      OBVIOUS
    <3>2. PICK f \in Endpoint : SendData(f)
      BY <3>1 DEF Next, kex_setup, Read, IntervalPasses, ssh_userauth2, do_authentication2,
         client_loop, server_loop2, ManualRekey
    <3>3. f = e
      BY <3>2 DEF SendData, TInv, TypeOK
    <3> QED
      BY <3>2, <3>3
  <2> DEFINE w == wire[Peer(e)]
             n == sent[e] + 1
             r == ssh_packet_send2(e, Ctx(st[e]), DataPkt(n))
  <2>2. down = "none" /\ Apply(e, r, wire)
    BY <2>1 DEF SendData
  <2>3. w \in Seq(Frames) /\ Sound(e, w, st[e]) /\ n \in Nat
    BY <2>2, SoundState DEF TInv, TypeOK
  <2> HIDE DEF w, n, r
  <2>4. st'[e] = r.s
    BY <2>2 DEF Apply, TInv, TypeOK
  <2> QED
    BY <2>3, <2>4, WithinLimit DEF r
<1> QED
  BY <1>1, TransportInvariance, PTL DEF Spec, LimitHonoured

-----------------------------------------------------------------------------
(* The stream of DATA packets.                                             *)

\* lo and hi: the last DATA packet that was handed over and the last that was to
\* be sent; granted: whether AUTH_SUCCESS may have been sent.
Bounds == [lo : Nat, hi : Nat, granted : BOOLEAN]
Data(p) == p.t = "DATA"
Success(p) == p.t = "AUTH_SUCCESS"

\* The DATA packets that are neither handed over nor lost are those in the frames w
\* and in the queue q behind them, each once and in order.
Flow(w, q, b) ==
    /\ b.lo <= b.hi
    /\ \A i \in DOMAIN w : Data(w[i].p) => w[i].p.n \in b.lo + 1 .. b.hi
    /\ \A i \in DOMAIN q : Data(q[i]) => q[i].n \in b.lo + 1 .. b.hi
    /\ \A m \in b.lo + 1 .. b.hi :
          \/ \E i \in DOMAIN w : Data(w[i].p) /\ w[i].p.n = m
          \/ \E i \in DOMAIN q : Data(q[i]) /\ q[i].n = m
    /\ \A i, j \in DOMAIN w :
          i < j /\ Data(w[i].p) /\ Data(w[j].p) => w[i].p.n < w[j].p.n
    /\ \A i, j \in DOMAIN q : i < j /\ Data(q[i]) /\ Data(q[j]) => q[i].n < q[j].n
    /\ \A i \in DOMAIN w : \A j \in DOMAIN q :
          Data(w[i].p) /\ Data(q[j]) => w[i].p.n < q[j].n
    /\ ~b.granted => /\ \A i \in DOMAIN w : ~Success(w[i].p)
                     /\ \A i \in DOMAIN q : ~Success(q[i])

\* The stream when the packet p has been sent.
After(p, b) == IF Data(p) THEN [b EXCEPT !.hi = @ + 1] ELSE b

LEMMA AfterType ==
    ASSUME NEW b \in Bounds, NEW p
    PROVE  /\ b.lo \in Nat /\ b.hi \in Nat /\ After(p, b) \in Bounds
           /\ Data(p) => After(p, b).lo = b.lo /\ After(p, b).hi = b.hi + 1
           /\ ~Data(p) => After(p, b) = b
           /\ After(p, b).granted = b.granted
BY DEF After, Bounds

LEMMA FlowAppend ==
    ASSUME NEW w \in Seq(Frames), NEW q \in Seq(Packets), NEW b \in Bounds, Flow(w, q, b),
           NEW f \in Frames, Data(f.p) => q = <<>> /\ f.p.n = b.hi + 1,
           Success(f.p) => b.granted,
           NEW c, c = After(f.p, b)
    PROVE  Flow(Append(w, f), q, c)
<1> DEFINE v == Append(w, f)  n == Len(w)
<1>1. /\ Len(v) = n + 1 /\ v[n + 1] = f /\ n \in Nat
      /\ \A i \in 1 .. n : v[i] = w[i]
      /\ DOMAIN v = 1 .. n + 1 /\ DOMAIN w = 1 .. n
  OBVIOUS
<1>2. /\ b.lo \in Nat /\ b.hi \in Nat
      /\ Data(f.p) => c.lo = b.lo /\ c.hi = b.hi + 1
      /\ ~Data(f.p) => c = b
  BY AfterType
<1> HIDE DEF v, n
<1>3. /\ \A i \in 1 .. n : Data(w[i].p) => w[i].p.n \in b.lo + 1 .. b.hi
      /\ \A i \in DOMAIN q : Data(q[i]) => q[i].n \in b.lo + 1 .. b.hi
      /\ b.lo <= b.hi
  BY <1>1 DEF Flow
<1>4. /\ c.lo = b.lo /\ c.hi \in {b.hi, b.hi + 1} /\ (c.hi # b.hi => Data(f.p))
      /\ Data(f.p) => c.hi = b.hi + 1 /\ f.p.n = c.hi /\ DOMAIN q = {}
  BY <1>2
<1>5. /\ \A i \in DOMAIN v : Data(v[i].p) => v[i].p.n \in c.lo + 1 .. c.hi
      /\ \A i \in DOMAIN q : Data(q[i]) => q[i].n \in c.lo + 1 .. c.hi
      /\ c.lo <= c.hi
  BY <1>1, <1>2, <1>3, <1>4
<1>6. ASSUME NEW m \in c.lo + 1 .. c.hi
      PROVE  \/ \E i \in DOMAIN v : Data(v[i].p) /\ v[i].p.n = m
             \/ \E i \in DOMAIN q : Data(q[i]) /\ q[i].n = m
  <2>1. CASE m \in b.lo + 1 .. b.hi
    <3>1. \/ \E i \in 1 .. n : Data(w[i].p) /\ w[i].p.n = m
          \/ \E i \in DOMAIN q : Data(q[i]) /\ q[i].n = m
      BY <1>1, <2>1 DEF Flow
    <3> QED
      BY <1>1, <3>1
  <2>2. CASE m \notin b.lo + 1 .. b.hi
    <3>1. Data(f.p) /\ m = f.p.n
      BY <1>2, <1>3, <1>4, <2>2
    <3> QED
      BY <1>1, <3>1
  <2> QED
    BY <2>1, <2>2
<1>7. \A i, j \in DOMAIN v :
          i < j /\ Data(v[i].p) /\ Data(v[j].p) => v[i].p.n < v[j].p.n
  <2> SUFFICES ASSUME NEW i \in DOMAIN v, NEW j \in DOMAIN v, i < j,
                      Data(v[i].p), Data(v[j].p)
               PROVE  v[i].p.n < v[j].p.n
    OBVIOUS
  <2>1. i \in 1 .. n /\ v[i] = w[i]
    BY <1>1
  <2>2. CASE j = n + 1
    BY <1>1, <1>2, <1>3, <1>4, <2>1, <2>2
  <2>3. CASE j \in 1 .. n
    BY <1>1, <2>1, <2>3 DEF Flow
  <2> QED
    BY <1>1, <2>2, <2>3
<1>8. \A i, j \in DOMAIN q : i < j /\ Data(q[i]) /\ Data(q[j]) => q[i].n < q[j].n
  BY DEF Flow
<1>9. \A i \in DOMAIN v : \A j \in DOMAIN q :
          Data(v[i].p) /\ Data(q[j]) => v[i].p.n < q[j].n
  <2> SUFFICES ASSUME NEW i \in DOMAIN v, NEW j \in DOMAIN q, Data(v[i].p), Data(q[j])
               PROVE  v[i].p.n < q[j].n
    OBVIOUS
  <2>1. i \in 1 .. n /\ v[i] = w[i]
    BY <1>1, <1>4
  <2> QED
    BY <1>1, <2>1 DEF Flow
<1>10. ~c.granted => /\ \A i \in DOMAIN v : ~Success(v[i].p)
                     /\ \A i \in DOMAIN q : ~Success(q[i])
  <2>1. c.granted = b.granted
    BY AfterType
  <2> QED
    BY <1>1, <2>1 DEF Flow
<1> QED
  BY <1>5, <1>6, <1>7, <1>8, <1>9, <1>10 DEF Flow, v

LEMMA FlowEnqueue ==
    ASSUME NEW w \in Seq(Frames), NEW q \in Seq(Packets), NEW b \in Bounds, Flow(w, q, b),
           NEW p \in Packets, Data(p) => p.n = b.hi + 1, Success(p) => b.granted,
           NEW c, c = After(p, b)
    PROVE  Flow(w, Append(q, p), c)
<1> DEFINE v == Append(q, p)  n == Len(q)
<1>1. /\ Len(v) = n + 1 /\ v[n + 1] = p /\ n \in Nat
      /\ \A i \in 1 .. n : v[i] = q[i]
      /\ DOMAIN v = 1 .. n + 1 /\ DOMAIN q = 1 .. n
  OBVIOUS
<1>2. /\ b.lo \in Nat /\ b.hi \in Nat
      /\ Data(p) => c.lo = b.lo /\ c.hi = b.hi + 1
      /\ ~Data(p) => c = b
  BY AfterType
<1> HIDE DEF v, n
<1>3. /\ \A i \in DOMAIN w : Data(w[i].p) => w[i].p.n \in b.lo + 1 .. b.hi
      /\ \A i \in 1 .. n : Data(q[i]) => q[i].n \in b.lo + 1 .. b.hi
      /\ b.lo <= b.hi
  BY <1>1 DEF Flow
<1>4. /\ c.lo = b.lo /\ c.hi \in {b.hi, b.hi + 1} /\ (c.hi # b.hi => Data(p))
      /\ Data(p) => c.hi = b.hi + 1 /\ p.n = c.hi
  BY <1>2
<1>5. /\ \A i \in DOMAIN w : Data(w[i].p) => w[i].p.n \in c.lo + 1 .. c.hi
      /\ \A i \in DOMAIN v : Data(v[i]) => v[i].n \in c.lo + 1 .. c.hi
      /\ c.lo <= c.hi
  BY <1>1, <1>2, <1>3, <1>4
<1>6. ASSUME NEW m \in c.lo + 1 .. c.hi
      PROVE  \/ \E i \in DOMAIN w : Data(w[i].p) /\ w[i].p.n = m
             \/ \E i \in DOMAIN v : Data(v[i]) /\ v[i].n = m
  <2>1. CASE m \in b.lo + 1 .. b.hi
    <3>1. \/ \E i \in DOMAIN w : Data(w[i].p) /\ w[i].p.n = m
          \/ \E i \in 1 .. n : Data(q[i]) /\ q[i].n = m
      BY <1>1, <2>1 DEF Flow
    <3> QED
      BY <1>1, <3>1
  <2>2. CASE m \notin b.lo + 1 .. b.hi
    <3>1. Data(p) /\ m = p.n
      BY <1>2, <1>3, <1>4, <2>2
    <3> QED
      BY <1>1, <3>1
  <2> QED
    BY <2>1, <2>2
<1>7. \A i, j \in DOMAIN v : i < j /\ Data(v[i]) /\ Data(v[j]) => v[i].n < v[j].n
  <2> SUFFICES ASSUME NEW i \in DOMAIN v, NEW j \in DOMAIN v, i < j, Data(v[i]), Data(v[j])
               PROVE  v[i].n < v[j].n
    OBVIOUS
  <2>1. i \in 1 .. n /\ v[i] = q[i]
    BY <1>1
  <2>2. CASE j = n + 1
    BY <1>1, <1>2, <1>3, <1>4, <2>1, <2>2
  <2>3. CASE j \in 1 .. n
    BY <1>1, <2>1, <2>3 DEF Flow
  <2> QED
    BY <1>1, <2>2, <2>3
<1>8. \A i, j \in DOMAIN w :
          i < j /\ Data(w[i].p) /\ Data(w[j].p) => w[i].p.n < w[j].p.n
  BY DEF Flow
<1>9. \A i \in DOMAIN w : \A j \in DOMAIN v :
          Data(w[i].p) /\ Data(v[j]) => w[i].p.n < v[j].n
  <2> SUFFICES ASSUME NEW i \in DOMAIN w, NEW j \in DOMAIN v, Data(w[i].p), Data(v[j])
               PROVE  w[i].p.n < v[j].n
    OBVIOUS
  <2>1. CASE j = n + 1
    BY <1>1, <1>2, <1>3, <1>4, <2>1
  <2>2. CASE j \in 1 .. n
    BY <1>1, <2>2 DEF Flow
  <2> QED
    BY <1>1, <2>1, <2>2
<1>10. ~c.granted => /\ \A i \in DOMAIN w : ~Success(w[i].p)
                     /\ \A i \in DOMAIN v : ~Success(v[i])
  <2>1. c.granted = b.granted
    BY AfterType
  <2> QED
    BY <1>1, <2>1 DEF Flow
<1> QED
  BY <1>5, <1>6, <1>7, <1>8, <1>9, <1>10 DEF Flow, v

LEMMA Concat ==
    ASSUME NEW w \in Seq(Frames), NEW g \in Seq(Frames)
    PROVE  /\ Len(w \o g) = Len(w) + Len(g) /\ Len(w) \in Nat
           /\ DOMAIN (w \o g) = 1 .. Len(w \o g) /\ DOMAIN w = 1 .. Len(w)
           /\ \A i \in 1 .. Len(w) : (w \o g)[i] = w[i]
           /\ \A i \in 1 .. Len(w \o g) : i > Len(w) => (w \o g)[i] = g[i - Len(w)]
OBVIOUS

\* The first n packets of the queue move to the wire.
LEMMA FlowFlush ==
    ASSUME NEW w \in Seq(Frames), NEW q \in Seq(Packets), NEW b, Flow(w, q, b),
           NEW n \in 0 .. Len(q), NEW g \in Seq(Frames), Len(g) = n,
           \A i \in 1 .. n : g[i].p = q[i],
           NEW rest, rest = SubSeq(q, n + 1, Len(q))
    PROVE  Flow(w \o g, rest, b)
<1> DEFINE v == w \o g  l == Len(w)
<1>1. /\ DOMAIN v = 1 .. l + n /\ DOMAIN w = 1 .. l /\ l \in Nat /\ n \in Nat
      /\ \A i \in 1 .. l : v[i] = w[i]
      /\ \A i \in 1 .. n : v[l + i] = g[i]
      /\ DOMAIN q = 1 .. Len(q) /\ Len(q) \in Nat
  <2>1. /\ Len(v) = l + Len(g) /\ l \in Nat /\ DOMAIN v = 1 .. Len(v)
        /\ DOMAIN w = 1 .. l /\ \A i \in 1 .. l : v[i] = w[i]
    BY Concat
  <2>2. \A i \in 1 .. Len(v) : i > l => v[i] = g[i - l]
    BY Concat
  <2>3. Len(q) \in Nat /\ DOMAIN q = 1 .. Len(q)
    OBVIOUS
  <2> HIDE DEF v, l
  <2>4. ASSUME NEW i \in 1 .. n PROVE v[l + i] = g[i]
    <3>1. l + i \in 1 .. Len(v) /\ l + i > l /\ (l + i) - l = i
      BY <2>1, <2>3
    <3> QED
      BY <2>2, <3>1
  <2> QED
    BY <2>1, <2>3, <2>4
<1>2. /\ DOMAIN rest = 1 .. Len(q) - n
      /\ \A i \in 1 .. Len(q) - n : rest[i] = q[n + i] /\ n + i \in DOMAIN q
  OBVIOUS
<1> HIDE DEF v, l
<1>3. \A i \in DOMAIN v : \/ i \in DOMAIN w /\ v[i] = w[i]
                          \/ i - l \in 1 .. n /\ i - l \in DOMAIN q /\ v[i].p = q[i - l]
  <2> TAKE i \in DOMAIN v
  <2>1. CASE i <= l
    BY <1>1, <2>1
  <2>2. CASE i > l
    <3>1. i - l \in 1 .. n /\ l + (i - l) = i
      BY <1>1, <2>2
    <3> QED
      BY <1>1, <3>1
  <2> QED
    BY <1>1, <2>1, <2>2
<1>4. /\ \A i \in DOMAIN v : Data(v[i].p) => v[i].p.n \in b.lo + 1 .. b.hi
      /\ \A i \in DOMAIN rest : Data(rest[i]) => rest[i].n \in b.lo + 1 .. b.hi
      /\ b.lo <= b.hi
  BY <1>2, <1>3 DEF Flow
<1>5. ASSUME NEW m \in b.lo + 1 .. b.hi
      PROVE  \/ \E i \in DOMAIN v : Data(v[i].p) /\ v[i].p.n = m
             \/ \E i \in DOMAIN rest : Data(rest[i]) /\ rest[i].n = m
  <2>1. CASE \E i \in DOMAIN w : Data(w[i].p) /\ w[i].p.n = m
    BY <1>1, <2>1
  <2>2. CASE \E i \in DOMAIN q : Data(q[i]) /\ q[i].n = m
    <3>1. PICK i \in DOMAIN q : Data(q[i]) /\ q[i].n = m
      BY <2>2
    <3>2. CASE i <= n
      <4>1. i \in 1 .. n /\ l + i \in DOMAIN v
        BY <1>1, <3>2
      <4>2. v[l + i].p = q[i]
        BY <1>1, <4>1
      <4> QED
        BY <3>1, <4>1, <4>2
    <3>3. CASE i > n
      <4>1. i - n \in 1 .. Len(q) - n /\ n + (i - n) = i
        BY <1>1, <3>3
      <4>2. i - n \in DOMAIN rest /\ rest[i - n] = q[i]
        BY <1>2, <4>1
      <4> QED
        BY <3>1, <4>2
    <3> QED
      BY <1>1, <3>2, <3>3
  <2> QED
    BY <2>1, <2>2 DEF Flow
<1>6. \A i, j \in DOMAIN v :
          i < j /\ Data(v[i].p) /\ Data(v[j].p) => v[i].p.n < v[j].p.n
  <2> SUFFICES ASSUME NEW i \in DOMAIN v, NEW j \in DOMAIN v, i < j,
                      Data(v[i].p), Data(v[j].p)
               PROVE  v[i].p.n < v[j].p.n
    OBVIOUS
  <2>1. CASE j <= l
    <3>1. i \in DOMAIN w /\ j \in DOMAIN w /\ v[i] = w[i] /\ v[j] = w[j]
      BY <1>1, <2>1
    <3> QED
      BY <3>1 DEF Flow
  <2>2. CASE i <= l /\ j > l
    <3>1. i \in DOMAIN w /\ v[i] = w[i]
      BY <1>1, <2>2
    <3>2. j - l \in DOMAIN q /\ v[j].p = q[j - l]
      BY <1>1, <1>3, <2>2
    <3> QED
      BY <3>1, <3>2 DEF Flow
  <2>3. CASE i > l
    <3>1. /\ i - l \in DOMAIN q /\ v[i].p = q[i - l] /\ j - l \in DOMAIN q
          /\ v[j].p = q[j - l] /\ i - l < j - l
      BY <1>1, <1>3, <2>3
    <3> QED
      BY <3>1 DEF Flow
  <2> QED
    BY <1>1, <2>1, <2>2, <2>3
<1>7. \A i, j \in DOMAIN rest :
          i < j /\ Data(rest[i]) /\ Data(rest[j]) => rest[i].n < rest[j].n
  <2> SUFFICES ASSUME NEW i \in DOMAIN rest, NEW j \in DOMAIN rest, i < j,
                      Data(rest[i]), Data(rest[j])
               PROVE  rest[i].n < rest[j].n
    OBVIOUS
  <2>0. i \in Int /\ j \in Int /\ n \in Int
    BY <1>1, <1>2
  <2>1. /\ n + i \in DOMAIN q /\ n + j \in DOMAIN q /\ n + i < n + j
        /\ rest[i] = q[n + i] /\ rest[j] = q[n + j]
    BY <1>2, <2>0
  <2> QED
    BY <2>1 DEF Flow
<1>8. \A i \in DOMAIN v : \A j \in DOMAIN rest :
          Data(v[i].p) /\ Data(rest[j]) => v[i].p.n < rest[j].n
  <2> SUFFICES ASSUME NEW i \in DOMAIN v, NEW j \in DOMAIN rest, Data(v[i].p), Data(rest[j])
               PROVE  v[i].p.n < rest[j].n
    OBVIOUS
  <2>1. n + j \in DOMAIN q /\ rest[j] = q[n + j] /\ j \in Nat \ {0}
    BY <1>1, <1>2
  <2>2. CASE i \in DOMAIN w /\ v[i] = w[i]
    BY <2>1, <2>2 DEF Flow
  <2>3. CASE i - l \in 1 .. n /\ i - l \in DOMAIN q /\ v[i].p = q[i - l]
    <3>1. i - l < n + j
      BY <1>1, <2>1, <2>3
    <3> QED
      BY <2>1, <2>3, <3>1 DEF Flow
  <2> QED
    BY <1>3, <2>2, <2>3
<1>9. ~b.granted => /\ \A i \in DOMAIN v : ~Success(v[i].p)
                    /\ \A i \in DOMAIN rest : ~Success(rest[i])
  BY <1>2, <1>3 DEF Flow
<1> QED
  BY <1>4, <1>5, <1>6, <1>7, <1>8, <1>9 DEF Flow, v

\* The oldest frame is taken from the wire; a DATA packet in it is the next one.
LEMMA FlowTail ==
    ASSUME NEW w \in Seq(Frames), w # <<>>, NEW q \in Seq(Packets), NEW b \in Bounds,
           Flow(w, q, b), NEW p, p = Head(w).p
    PROVE  /\ ~Data(p) => Flow(Tail(w), q, b)
           /\ Data(p) => /\ p.n = b.lo + 1 /\ p.n <= b.hi
                         /\ Flow(Tail(w), q, [b EXCEPT !.lo = @ + 1])
<1> DEFINE v == Tail(w)  n == Len(v)
           c == IF Data(p) THEN [b EXCEPT !.lo = @ + 1] ELSE b
<1>1. /\ n \in Nat /\ Len(w) = n + 1 /\ p = w[1].p
      /\ \A i \in 1 .. n : v[i] = w[i + 1]
      /\ DOMAIN v = 1 .. n /\ DOMAIN w = 1 .. n + 1
  OBVIOUS
<1> HIDE DEF v, n
<1>2. b.lo \in Nat /\ b.hi \in Nat /\ b.lo <= b.hi
  BY DEF Flow, Bounds
<1>3. /\ c.hi = b.hi /\ (Data(p) => c.lo = b.lo + 1) /\ (~Data(p) => c.lo = b.lo)
      /\ c.granted = b.granted
  BY <1>2 DEF Bounds
<1>4. \A i \in DOMAIN w : \/ i = 1 /\ w[i].p = p
                          \/ i - 1 \in DOMAIN v /\ w[i] = v[i - 1]
  <2> TAKE i \in DOMAIN w
  <2>1. CASE i # 1
    <3>1. i - 1 \in 1 .. n /\ (i - 1) + 1 = i
      BY <1>1, <2>1
    <3> QED
      BY <1>1, <3>1
  <2> QED
    BY <1>1, <2>1
<1>5. \A i \in DOMAIN v : i + 1 \in DOMAIN w /\ v[i] = w[i + 1] /\ 1 < i + 1 /\ 1 \in DOMAIN w
  BY <1>1
<1>6. ASSUME Data(p) PROVE p.n = b.lo + 1 /\ p.n <= b.hi
  <2>1. p.n \in b.lo + 1 .. b.hi /\ 1 \in DOMAIN w
    BY <1>1, <1>6 DEF Flow
  <2>2. b.lo + 1 \in b.lo + 1 .. b.hi
    BY <1>2, <2>1
  <2>3. CASE \E i \in DOMAIN w : Data(w[i].p) /\ w[i].p.n = b.lo + 1
    <3>1. PICK i \in DOMAIN w : Data(w[i].p) /\ w[i].p.n = b.lo + 1
      BY <2>3
    <3>2. CASE i = 1
      BY <1>1, <2>1, <3>1, <3>2
    <3>3. CASE i # 1
      <4>1. 1 < i
        BY <1>1, <3>3
      <4>2. p.n < b.lo + 1
        BY <1>1, <1>6, <2>1, <3>1, <4>1 DEF Flow
      <4> QED
        BY <1>2, <2>1, <4>2
    <3> QED
      BY <3>2, <3>3
  <2>4. CASE \E i \in DOMAIN q : Data(q[i]) /\ q[i].n = b.lo + 1
    <3>1. p.n < b.lo + 1
      BY <1>1, <1>6, <2>1, <2>4 DEF Flow
    <3> QED
      BY <1>2, <2>1, <3>1
  <2> QED
    BY <2>2, <2>3, <2>4 DEF Flow
<1> HIDE DEF c
<1>7. /\ \A i \in DOMAIN v : Data(v[i].p) => v[i].p.n \in c.lo + 1 .. c.hi
      /\ \A i \in DOMAIN q : Data(q[i]) => q[i].n \in c.lo + 1 .. c.hi
      /\ c.lo <= c.hi
  <2>1. /\ \A i \in DOMAIN v : Data(v[i].p) => v[i].p.n \in b.lo + 1 .. b.hi
        /\ \A i \in DOMAIN q : Data(q[i]) => q[i].n \in b.lo + 1 .. b.hi
    BY <1>5 DEF Flow
  <2>2. CASE ~Data(p)
    BY <1>2, <1>3, <2>1, <2>2
  <2>3. CASE Data(p)
    <3>1. \A i \in DOMAIN v : Data(v[i].p) => p.n < v[i].p.n
      BY <1>1, <1>5, <2>3 DEF Flow
    <3>2. \A i \in DOMAIN q : Data(q[i]) => p.n < q[i].n
      BY <1>1, <2>3 DEF Flow
    <3> QED
      BY <1>2, <1>3, <1>6, <2>1, <2>3, <3>1, <3>2
  <2> QED
    BY <2>2, <2>3
<1>8. ASSUME NEW m \in c.lo + 1 .. c.hi
      PROVE  \/ \E i \in DOMAIN v : Data(v[i].p) /\ v[i].p.n = m
             \/ \E i \in DOMAIN q : Data(q[i]) /\ q[i].n = m
  <2>1. m \in b.lo + 1 .. b.hi /\ (Data(p) => m # p.n)
    BY <1>2, <1>3, <1>6
  <2>2. CASE \E i \in DOMAIN w : Data(w[i].p) /\ w[i].p.n = m
    BY <1>4, <2>1, <2>2
  <2>3. CASE \E i \in DOMAIN q : Data(q[i]) /\ q[i].n = m
    BY <2>3
  <2> QED
    BY <2>1, <2>2, <2>3 DEF Flow
<1>9. \A i, j \in DOMAIN v :
          i < j /\ Data(v[i].p) /\ Data(v[j].p) => v[i].p.n < v[j].p.n
  <2> SUFFICES ASSUME NEW i \in DOMAIN v, NEW j \in DOMAIN v, i < j,
                      Data(v[i].p), Data(v[j].p)
               PROVE  v[i].p.n < v[j].p.n
    OBVIOUS
  <2>1. i + 1 \in DOMAIN w /\ j + 1 \in DOMAIN w /\ i + 1 < j + 1
        /\ v[i] = w[i + 1] /\ v[j] = w[j + 1]
    BY <1>1
  <2> QED
    BY <2>1 DEF Flow
<1>10. \A i, j \in DOMAIN q : i < j /\ Data(q[i]) /\ Data(q[j]) => q[i].n < q[j].n
  BY DEF Flow
<1>11. \A i \in DOMAIN v : \A j \in DOMAIN q :
          Data(v[i].p) /\ Data(q[j]) => v[i].p.n < q[j].n
  BY <1>5 DEF Flow
<1>12. ~c.granted => /\ \A i \in DOMAIN v : ~Success(v[i].p)
                     /\ \A i \in DOMAIN q : ~Success(q[i])
  BY <1>3, <1>5 DEF Flow
<1>13. Flow(v, q, c)
  BY <1>7, <1>8, <1>9, <1>10, <1>11, <1>12 DEF Flow
<1> QED
  BY <1>6, <1>13 DEF c, v

-----------------------------------------------------------------------------
(* Sending within the stream.                                              *)

\* Between two handlers: a key exchange that is over has not been started anew,
\* and packets wait in the queue only during one.
Tidy(s) ==
    /\ s.done => ~s.initSent
    /\ s.rekeying \/ s.queue = <<>>

LEMMA WrappedStream ==
    ASSUME NEW e \in Endpoint, NEW w \in Seq(Frames), NEW b \in Bounds,
           NEW k \in Contexts, Ok(k), Flow(w \o k.out, k.s.queue, b),
           NEW p \in Packets, Data(p) => k.s.queue = <<>> /\ p.n = b.hi + 1,
           Success(p) => b.granted, NEW c, c = After(p, b),
           NEW r, r = ssh_packet_send2_wrapped(e, k, p)
    PROVE  r \in Contexts /\ Kept(k.s, r.s) /\ Flow(w \o r.out, r.s.queue, c)
<1> DEFINE s == CountOut(k.s, 1)
           f == Frame(k.s, p)
           out == Append(k.out, f)
           k1 == [k EXCEPT !.s = s, !.out = out]
<1>1. /\ k.s \in States /\ k.out \in Seq(Frames) /\ k.err = "none"
      /\ k.s.queue \in Seq(Packets)
  BY DEF Contexts, Ok, States
<1>2. s \in States /\ Kept(k.s, s)
  BY <1>1, CountOutType
<1>3. f \in Frames /\ f.p = p
  BY <1>1, FrameType
<1>4. r = IF s.pkt["out"] = 0 THEN [k1 EXCEPT !.err = "need_rekey"]
          ELSE IF p.t = "NEWKEYS" THEN ssh_set_newkeys(k1, "out")
          ELSE IF p.t = "AUTH_SUCCESS" /\ e = "server"
               THEN [k1 EXCEPT !.s = ssh_packet_enable_delayed_compress(s)]
          ELSE k1
  BY <1>1 DEF ssh_packet_send2_wrapped, PacketsWrapped, Fail, Ok
<1> HIDE DEF s, f
<1>5. out \in Seq(Frames)
  BY <1>1, <1>3
<1>6. w \o k.out \in Seq(Frames) /\ w \o out = Append(w \o k.out, f)
  BY <1>1, <1>3
<1>7. Flow(Append(w \o k.out, f), k.s.queue, c)
  <2>1. w \o k.out \in Seq(Frames)
    BY <1>6
  <2>2. Data(f.p) => k.s.queue = <<>> /\ f.p.n = b.hi + 1
    BY <1>3
  <2>3. (Success(f.p) => b.granted) /\ c = After(f.p, b)
    BY <1>3
  <2> QED
    BY <1>1, <1>3, <2>1, <2>2, <2>3, FlowAppend
<1>8. Flow(w \o out, k.s.queue, c)
  BY <1>6, <1>7
<1> HIDE DEF out
<1>9. k1 \in Contexts /\ k1.s = s /\ k1.err = "none" /\ k1.out = out
  BY <1>1, <1>2, <1>5 DEF Contexts
<1> HIDE DEF k1
<1>10. r \in Contexts /\ r.out = out /\ Kept(s, r.s)
  <2>1. CASE s.pkt["out"] = 0
    <3>1. r = [k1 EXCEPT !.err = "need_rekey"]
      BY <1>4, <2>1
    <3>2. r \in Contexts /\ r.s = s /\ r.out = out
      BY <1>9, <3>1 DEF Contexts, Reasons
    <3> QED
      BY <3>2 DEF Kept
  <2>2. CASE s.pkt["out"] # 0 /\ p.t = "NEWKEYS"
    <3>1. r = ssh_set_newkeys(k1, "out")
      BY <1>4, <2>2
    <3> QED
      BY <1>9, <3>1, OutMode, SetNewkeysType
  <2>3. CASE s.pkt["out"] # 0 /\ p.t = "AUTH_SUCCESS" /\ e = "server"
    <3> DEFINE t == ssh_packet_enable_delayed_compress(s)
    <3>1. t \in States /\ Kept(s, t)
      BY <1>2, DelayedCompressType
    <3>2. r = [k1 EXCEPT !.s = t]
      BY <1>4, <2>3
    <3> HIDE DEF t
    <3>3. r \in Contexts /\ r.s = t /\ r.out = out
      BY <1>9, <3>1, <3>2 DEF Contexts
    <3> QED
      BY <3>1, <3>3
  <2>4. CASE s.pkt["out"] # 0 /\ p.t # "NEWKEYS" /\ ~(p.t = "AUTH_SUCCESS" /\ e = "server")
    <3>1. r = k1
      BY <1>4, <2>4
    <3> QED
      BY <1>9, <3>1 DEF Kept
  <2> QED
    BY <2>1, <2>2, <2>3, <2>4
<1>11. Kept(k.s, r.s) /\ r.s.queue = k.s.queue
  BY <1>2, <1>10 DEF Kept
<1> QED
  BY <1>8, <1>10, <1>11

LEMMA KexinitStream ==
    ASSUME NEW e \in Endpoint, NEW w \in Seq(Frames), NEW b \in Bounds,
           NEW k \in Contexts, Flow(w \o k.out, k.s.queue, b),
           NEW r, r = kex_send_kexinit(e, k)
    PROVE  /\ r \in Contexts /\ Frozen(k.s, r.s) /\ Flow(w \o r.out, r.s.queue, b)
           /\ k.s.initSent \/ ~Ok(k) => r = k
           /\ ~k.s.initSent /\ Ok(r) => r.s.rekeying /\ ~r.s.done
<1>1. CASE k.s.initSent \/ ~Ok(k)
  BY <1>1 DEF kex_send_kexinit, Frozen
<1>2. CASE ~k.s.initSent /\ Ok(k)
  <2> DEFINE i == [n |-> k.s.my.n + 1, ext |-> e = "client" /\ k.s.extInfo]
             j == [k EXCEPT !.s.done = FALSE, !.s.my = i, !.s.rekeying = TRUE]
             s == [k.s EXCEPT !.done = FALSE, !.my = i, !.rekeying = TRUE]
             p == [Pkt("KEXINIT") EXCEPT !.i = i]
             k1 == ssh_packet_send2_wrapped(e, j, p)
  <2>1. k.s \in States /\ k.out \in Seq(Frames) /\ k.err = "none"
    BY <1>2 DEF Contexts, Ok
  <2>2. i \in KexInits
    <3>1. k.s.my.n + 1 \in Nat
      BY <2>1 DEF States, KexInits
    <3>2. (e = "client" /\ k.s.extInfo) \in BOOLEAN
      OBVIOUS
    <3> QED
      BY <3>1, <3>2 DEF KexInits
  <2>3. r = [k1 EXCEPT !.s.initSent = Ok(k1)]
    BY <1>2 DEF kex_send_kexinit
  <2> HIDE DEF i
  <2>4. p \in Packets /\ p.t = "KEXINIT"
    BY <2>2, ConstantTypes DEF Packets, Types, TransportTypes
  <2>5. /\ s \in States /\ s.rekeying /\ ~s.done /\ Frozen(k.s, s) /\ s.queue = k.s.queue
    BY <2>1, <2>2 DEF States, Frozen
  <2>6. j = [k EXCEPT !.s = s]
    BY <2>1 DEF Contexts
  <2> HIDE DEF s, j, p
  <2>7. j \in Contexts /\ j.s = s /\ j.out = k.out /\ j.err = "none"
    BY <2>1, <2>5, <2>6 DEF Contexts
  <2>8. Ok(j) /\ Flow(w \o j.out, j.s.queue, b)
    BY <2>5, <2>7 DEF Ok
  <2>9. k1 \in Contexts /\ Kept(j.s, k1.s) /\ Flow(w \o k1.out, k1.s.queue, b)
    <3>1. ~Data(p) /\ ~Success(p)
      BY <2>4 DEF Data, Success
    <3>2. b = After(p, b)
      BY <3>1 DEF After
    <3> HIDE DEF k1
    <3>3. k1 = ssh_packet_send2_wrapped(e, j, p)
      BY DEF k1
    <3> QED
      BY <2>4, <2>7, <2>8, <3>1, <3>2, <3>3, WrappedStream
  <2> HIDE DEF k1
  <2> DEFINE t == [k1.s EXCEPT !.initSent = Ok(k1)]
  <2>10. r = [k1 EXCEPT !.s = t]
    BY <2>3, <2>9 DEF Contexts
  <2>11. /\ t \in States /\ t.queue = k1.s.queue /\ t.rekeying = k1.s.rekeying
         /\ t.done = k1.s.done /\ Frozen(k1.s, t)
    <3>1. Ok(k1) \in BOOLEAN /\ k1.s \in States
      BY <2>9 DEF Ok, Contexts
    <3> QED
      BY <3>1 DEF States, Frozen
  <2> HIDE DEF t
  <2>12. r \in Contexts /\ r.s = t /\ r.out = k1.out
    BY <2>9, <2>10, <2>11 DEF Contexts
  <2>13. Frozen(k.s, t) /\ t.rekeying /\ ~t.done
    BY <2>5, <2>7, <2>9, <2>11 DEF Frozen, Kept
  <2> QED
    BY <1>2, <2>9, <2>11, <2>12, <2>13
<1> QED
  BY <1>1, <1>2

LEMMA RekexStream ==
    ASSUME NEW e \in Endpoint, NEW w \in Seq(Frames), NEW b \in Bounds,
           NEW k \in Contexts, Flow(w \o k.out, k.s.queue, b),
           k.s.done => ~k.s.initSent, NEW r, r = kex_start_rekex(e, k)
    PROVE  /\ r \in Contexts /\ Frozen(k.s, r.s) /\ Flow(w \o r.out, r.s.queue, b)
           /\ Ok(r) => Tidy(r.s)
<1>1. k.s \in States
  BY DEF Contexts
<1>2. CASE ~Ok(k)
  BY <1>2 DEF kex_start_rekex, Frozen
<1>3. CASE Ok(k) /\ ~k.s.done
  <2>1. r = [k EXCEPT !.err = "twice"]
    BY <1>3 DEF kex_start_rekex, Fail
  <2>2. r \in Contexts /\ r.s = k.s /\ r.out = k.out /\ ~Ok(r)
    BY <1>1, <2>1 DEF Contexts, Ok, Reasons
  <2> QED
    BY <2>2 DEF Frozen
<1>4. CASE Ok(k) /\ k.s.done
  <2> DEFINE s == [k.s EXCEPT !.done = FALSE]
             j == [k EXCEPT !.s = s]
  <2>1. r = kex_send_kexinit(e, [k EXCEPT !.s.done = FALSE])
    BY <1>4 DEF kex_start_rekex
  <2>2. [k EXCEPT !.s.done = FALSE] = j
    BY DEF Contexts
  <2>3. /\ s \in States /\ s.queue = k.s.queue /\ s.initSent = k.s.initSent
        /\ Frozen(k.s, s)
    BY <1>1 DEF States, Frozen
  <2> HIDE DEF s
  <2>4. j \in Contexts /\ j.s = s /\ j.out = k.out
    BY <2>3 DEF Contexts
  <2> HIDE DEF j
  <2>5. /\ r \in Contexts /\ Frozen(j.s, r.s) /\ Flow(w \o r.out, r.s.queue, b)
        /\ ~j.s.initSent /\ Ok(r) => r.s.rekeying /\ ~r.s.done
    <3>1. j \in Contexts /\ Flow(w \o j.out, j.s.queue, b)
      BY <2>3, <2>4
    <3>2. r = kex_send_kexinit(e, j)
      BY <2>1, <2>2
    <3> QED
      BY <3>1, <3>2, KexinitStream
  <2>6. Frozen(k.s, r.s)
    BY <2>3, <2>4, <2>5 DEF Frozen
  <2> QED
    BY <1>4, <2>3, <2>4, <2>5, <2>6 DEF Tidy
<1> QED
  BY <1>2, <1>3, <1>4

\* The queue is sent up to a packet that cannot be sent.
LEMMA FlushStream ==
    ASSUME NEW e \in Endpoint, NEW w \in Seq(Frames), NEW b \in Bounds,
           NEW k \in Contexts, Ok(k), Flow(w \o k.out, k.s.queue, b),
           k.s.done => ~k.s.initSent, NEW r, r = FlushQueue(e, k)
    PROVE  /\ r \in Contexts /\ Frozen(k.s, r.s) /\ Flow(w \o r.out, r.s.queue, b)
           /\ Ok(r) => Tidy(r.s)
<1> DEFINE s == k.s
           Stops(i) == ssh_packet_need_rekeying(CountOut(s, i), BlockSize)
           Wraps(i) == i # 0 /\ PacketsWrapped(CountOut(s, i))
           n == CHOOSE n \in 0 .. Len(s.queue) :
                   /\ \A i \in 0 .. n - 1 : ~Stops(i) /\ ~Wraps(i)
                   /\ n = Len(s.queue) \/ Stops(n) \/ Wraps(n)
           rest == SubSeq(s.queue, n + 1, Len(s.queue))
           frames == [i \in 1 .. n |-> Frame(CountOut(s, i - 1), s.queue[i])]
           out == k.out \o frames
           s1 == [CountOut(s, n) EXCEPT !.queue = rest]
           k1 == [k EXCEPT !.s = s1, !.out = out]
<1>1. /\ s \in States /\ k.out \in Seq(Frames) /\ k.err = "none"
      /\ s.queue \in Seq(Packets) /\ Len(s.queue) \in Nat
  BY DEF Contexts, Ok, States
<1>2. r = IF Wraps(n) THEN Fail(k1, "need_rekey")
          ELSE IF n < Len(s.queue) THEN kex_start_rekex(e, k1)
          ELSE k1
  BY DEF FlushQueue
<1>3. n \in 0 .. Len(s.queue)
  <2> DEFINE S == {i \in 0 .. Len(s.queue) : i = Len(s.queue) \/ Stops(i) \/ Wraps(i)}
  <2> HIDE DEF Stops, Wraps
  <2>1. S \subseteq Nat /\ S # {}
    BY <1>1
  <2>2. PICK m \in S : \A i \in 0 .. m - 1 : i \notin S
    BY <2>1, Least
  <2>3. /\ m \in 0 .. Len(s.queue) /\ (m = Len(s.queue) \/ Stops(m) \/ Wraps(m))
        /\ \A i \in 0 .. m - 1 : ~Stops(i) /\ ~Wraps(i)
    BY <1>1, <2>2
  <2> QED
    BY <2>3
<1>4. n \in Nat /\ n <= Len(s.queue)
  BY <1>1, <1>3
<1> HIDE DEF n, Wraps, Stops
<1>5. rest \in Seq(Packets) /\ (n = Len(s.queue) => rest = <<>>)
  <2>1. /\ rest \in Seq(Packets) /\ Len(rest) = Len(s.queue) - n
    BY <1>1, <1>3
  <2> HIDE DEF rest
  <2>2. ASSUME n = Len(s.queue) PROVE rest = <<>>
    <3>1. Len(rest) = 0
      BY <1>4, <2>1, <2>2
    <3> QED
      BY <2>1, <3>1, EmptySeq
  <2> QED
    BY <2>1, <2>2
<1>6. /\ frames \in Seq(Frames) /\ Len(frames) = n
      /\ \A i \in 1 .. n : frames[i].p = s.queue[i]
  <2>1. ASSUME NEW i \in 1 .. n
        PROVE  /\ Frame(CountOut(s, i - 1), s.queue[i]) \in Frames
               /\ Frame(CountOut(s, i - 1), s.queue[i]).p = s.queue[i]
    <3>1. i - 1 \in Nat /\ s.queue[i] \in Packets
      BY <1>1, <1>3
    <3>2. CountOut(s, i - 1) \in States
      BY <1>1, <3>1, CountOutType
    <3> QED
      BY <3>1, <3>2, FrameType
  <2> QED
    BY <1>3, <2>1
<1>7. rest = SubSeq(s.queue, n + 1, Len(s.queue))
  OBVIOUS
<1> HIDE DEF rest, frames
<1>8. /\ s1 \in States /\ s1.queue = rest /\ Frozen(s, s1)
      /\ s1.done = s.done /\ s1.initSent = s.initSent
  <2> DEFINE t == CountOut(s, n)
  <2>1. t \in States /\ Kept(s, t)
    BY <1>1, <1>4, CountOutType
  <2> HIDE DEF t
  <2>2. s1 = [t EXCEPT !.queue = rest]
    BY DEF t
  <2>3. s1 \in States /\ s1.queue = rest /\ Frozen(t, s1)
        /\ s1.done = t.done /\ s1.initSent = t.initSent
    BY <1>5, <2>1, <2>2 DEF States, Frozen
  <2> QED
    BY <2>1, <2>3 DEF Frozen, Kept
<1>9. w \o k.out \in Seq(Frames) /\ out \in Seq(Frames)
  BY <1>1, <1>6
<1>10. w \o out = (w \o k.out) \o frames
  <2>1. k.out \in Seq(Frames) /\ frames \in Seq(Frames)
    BY <1>1, <1>6
  <2>2. (w \o k.out) \o frames = w \o (k.out \o frames)
    BY <2>1, Assoc, Zenon
  <2> QED
    BY <2>2
<1>11. Flow((w \o k.out) \o frames, rest, b)
  BY <1>1, <1>3, <1>6, <1>7, <1>9, FlowFlush
<1> HIDE DEF s1, out
<1>12. k1 \in Contexts /\ k1.s = s1 /\ k1.out = out /\ k1.err = "none"
  BY <1>1, <1>8, <1>9 DEF Contexts
<1> HIDE DEF k1
<1>13. Flow(w \o k1.out, k1.s.queue, b)
  BY <1>8, <1>10, <1>11, <1>12
<1>14. CASE Wraps(n)
  <2>1. r = [k1 EXCEPT !.err = "need_rekey"]
    BY <1>2, <1>14 DEF Fail
  <2>2. r \in Contexts /\ r.s = s1 /\ r.out = k1.out /\ ~Ok(r)
    BY <1>12, <2>1 DEF Contexts, Reasons, Ok
  <2> QED
    BY <1>8, <1>12, <1>13, <2>2
<1>15. CASE ~Wraps(n) /\ n < Len(s.queue)
  <2>1. r = kex_start_rekex(e, k1)
    BY <1>2, <1>15
  <2>2. k1.s.done => ~k1.s.initSent
    BY <1>8, <1>12
  <2>3. /\ r \in Contexts /\ Frozen(k1.s, r.s) /\ Flow(w \o r.out, r.s.queue, b)
        /\ Ok(r) => Tidy(r.s)
    BY <1>12, <1>13, <2>1, <2>2, RekexStream
  <2> QED
    BY <1>8, <1>12, <2>3 DEF Frozen
<1>16. CASE ~Wraps(n) /\ ~(n < Len(s.queue))
  <2>1. r = k1 /\ n = Len(s.queue)
    BY <1>1, <1>2, <1>4, <1>16
  <2>2. Tidy(r.s)
    BY <1>5, <1>8, <1>12, <2>1 DEF Tidy
  <2> QED
    BY <1>8, <1>12, <1>13, <2>1, <2>2
<1> QED
  BY <1>14, <1>15, <1>16

\* A handler has neither lost nor reordered a DATA packet so far.
Streams(w, b, k) ==
    /\ k \in Contexts /\ Flow(w \o k.out, k.s.queue, b)
    /\ Ok(k) => Tidy(k.s)

LEMMA EnqueueStream ==
    ASSUME NEW w \in Seq(Frames), NEW b \in Bounds, NEW k, Streams(w, b, k), Ok(k),
           NEW p \in Packets, Data(p) => p.n = b.hi + 1, Success(p) => b.granted,
           NEW c, c = After(p, b), NEW r, r = Enqueue(k, p)
    PROVE  /\ r \in Contexts /\ Ok(r) /\ Flow(w \o r.out, r.s.queue, c) /\ Frozen(k.s, r.s)
           /\ r.s.done => ~r.s.initSent
           /\ r.s.rekeying = k.s.rekeying
<1> DEFINE q == Append(k.s.queue, p)
           s == [k.s EXCEPT !.queue = q]
<1>1. /\ k \in Contexts /\ k.s \in States /\ k.err = "none" /\ k.s.queue \in Seq(Packets)
      /\ w \o k.out \in Seq(Frames)
  BY DEF Streams, Contexts, Ok, States
<1>2. q \in Seq(Packets)
  BY <1>1
<1>3. Flow(w \o k.out, q, c)
  BY <1>1, FlowEnqueue DEF Streams
<1> HIDE DEF q
<1>4. r = [k EXCEPT !.s = s]
  BY <1>1 DEF Enqueue, Contexts, q
<1>5. /\ s \in States /\ s.queue = q /\ Frozen(k.s, s)
      /\ s.rekeying = k.s.rekeying /\ s.done = k.s.done /\ s.initSent = k.s.initSent
  BY <1>1, <1>2 DEF States, Frozen
<1> HIDE DEF s
<1>6. r \in Contexts /\ r.s = s /\ r.out = k.out /\ r.err = "none"
  BY <1>1, <1>4, <1>5 DEF Contexts
<1>7. k.s.done => ~k.s.initSent
  BY DEF Streams, Tidy
<1> QED
  BY <1>3, <1>5, <1>6, <1>7 DEF Ok

LEMMA Send2Stream ==
    ASSUME NEW e \in Endpoint, NEW w \in Seq(Frames), NEW b \in Bounds,
           NEW k, Streams(w, b, k), NEW p \in Packets, p.t # "KEXINIT",
           Data(p) => Ok(k) /\ p.n = b.hi + 1, Success(p) => b.granted,
           NEW c, c = After(p, b), NEW r, r = ssh_packet_send2(e, k, p)
    PROVE  Streams(w, c, r) /\ Frozen(k.s, r.s)
<1> DEFINE need == /\ ~ssh_packet_type_is_kex(p.t)
                   /\ ssh_packet_need_rekeying(k.s, BlockSize)
           wait == k.s.rekeying /\ ~ssh_packet_type_is_kex(p.t)
           k1 == ssh_packet_send2_wrapped(e, k, p)
           j == [k1 EXCEPT !.s.rekeying = FALSE, !.s.expired = FALSE]
<1>0. ssh_packet_type_is_kex("NEWKEYS") /\ ~ssh_packet_type_is_kex("DATA")
  BY DEF ssh_packet_type_is_kex, TransportTypes, KexMethodTypes
<1>1. CASE ~Ok(k)
  <2>1. r = k /\ c = b
    BY <1>1, AfterType DEF ssh_packet_send2
  <2> QED
    BY <2>1 DEF Frozen
<1>2. ASSUME Ok(k)
      PROVE  r = IF need THEN kex_start_rekex(e, Enqueue(k, p))
                 ELSE IF wait THEN Enqueue(k, p)
                 ELSE IF p.t = "NEWKEYS" /\ Ok(k1) THEN FlushQueue(e, j) ELSE k1
  BY <1>2 DEF ssh_packet_send2
<1>c. c \in Bounds
  BY AfterType
<1> HIDE DEF need, wait, k1, j
<1>3. CASE Ok(k) /\ (need \/ wait)
  <2> DEFINE q == Enqueue(k, p)
  <2> HIDE DEF q
  <2>1. q = Enqueue(k, p)
    BY DEF q
  <2>2. /\ q \in Contexts /\ Ok(q) /\ Flow(w \o q.out, q.s.queue, c) /\ Frozen(k.s, q.s)
        /\ q.s.done => ~q.s.initSent
        /\ q.s.rekeying = k.s.rekeying
    BY <1>3, <2>1, EnqueueStream
  <2>3. CASE need
    <3>1. r = kex_start_rekex(e, q)
      BY <1>2, <1>3, <2>1, <2>3
    <3>2. /\ r \in Contexts /\ Frozen(q.s, r.s) /\ Flow(w \o r.out, r.s.queue, c)
          /\ Ok(r) => Tidy(r.s)
      BY <1>c, <2>2, <3>1, RekexStream
    <3> QED
      BY <2>2, <3>2 DEF Streams, Frozen
  <2>4. CASE ~need
    <3>1. r = q
      BY <1>2, <1>3, <2>1, <2>4
    <3>2. Tidy(q.s)
      BY <1>3, <2>2, <2>4 DEF Tidy, wait
    <3> QED
      BY <2>2, <3>1, <3>2 DEF Streams
  <2> QED
    BY <2>3, <2>4
<1>4. CASE Ok(k) /\ ~need /\ ~wait
  <2>1. k \in Contexts /\ Flow(w \o k.out, k.s.queue, b) /\ Tidy(k.s)
    BY <1>4 DEF Streams
  <2>2. Data(p) => k.s.queue = <<>> /\ p.n = b.hi + 1
    BY <1>0, <1>4, <2>1 DEF wait, Tidy, Data
  <2>3. k1 = ssh_packet_send2_wrapped(e, k, p)
    BY DEF k1
  <2>4. k1 \in Contexts /\ Kept(k.s, k1.s) /\ Flow(w \o k1.out, k1.s.queue, c)
    BY <1>4, <2>1, <2>2, <2>3, WrappedStream
  <2>5. CASE ~(p.t = "NEWKEYS" /\ Ok(k1))
    <3>1. r = k1
      BY <1>2, <1>4, <2>5
    <3>2. Tidy(k1.s) /\ Frozen(k.s, k1.s)
      BY <2>1, <2>4 DEF Tidy, Kept, Frozen
    <3> QED
      BY <2>4, <3>1, <3>2 DEF Streams
  <2>6. CASE p.t = "NEWKEYS" /\ Ok(k1)
    <3> DEFINE t == [k1.s EXCEPT !.rekeying = FALSE, !.expired = FALSE]
    <3>1. k1 \in Contexts /\ k1.s \in States /\ k1.err = "none"
      BY <2>4, <2>6 DEF Contexts, Ok
    <3>2. j = [k1 EXCEPT !.s = t]
      BY <3>1 DEF Contexts, j
    <3>3. /\ t \in States /\ Frozen(k1.s, t) /\ t.queue = k1.s.queue
          /\ t.done = k1.s.done /\ t.initSent = k1.s.initSent
      BY <3>1 DEF States, Frozen
    <3> HIDE DEF t
    <3>4. j \in Contexts /\ j.s = t /\ j.out = k1.out /\ j.err = "none"
      BY <3>1, <3>2, <3>3 DEF Contexts
    <3>5. Ok(j) /\ Flow(w \o j.out, j.s.queue, c)
      BY <2>4, <3>3, <3>4 DEF Ok
    <3>6. j.s.done => ~j.s.initSent
      BY <2>1, <2>4, <3>3, <3>4 DEF Tidy, Kept
    <3>7. r = FlushQueue(e, j)
      BY <1>2, <1>4, <2>6
    <3>8. /\ r \in Contexts /\ Frozen(j.s, r.s) /\ Flow(w \o r.out, r.s.queue, c)
          /\ Ok(r) => Tidy(r.s)
      BY <1>c, <3>4, <3>5, <3>6, <3>7, FlushStream
    <3>9. Frozen(k.s, r.s)
      BY <2>4, <3>3, <3>4, <3>8 DEF Frozen, Kept
    <3> QED
      BY <3>8, <3>9 DEF Streams
  <2> QED
    BY <2>5, <2>6
<1> QED
  BY <1>1, <1>3, <1>4

\* Packets that are neither DATA nor AUTH_SUCCESS leave the stream as it is.
LEMMA SendPlain ==
    ASSUME NEW e \in Endpoint, NEW w \in Seq(Frames), NEW b \in Bounds,
           NEW k, Streams(w, b, k), NEW p \in Packets,
           p.t \notin {"KEXINIT", "DATA", "AUTH_SUCCESS"},
           NEW r, r = ssh_packet_send2(e, k, p)
    PROVE  Streams(w, b, r) /\ Frozen(k.s, r.s)
<1>1. ~Data(p) /\ ~Success(p) /\ p.t # "KEXINIT"
  BY DEF Data, Success
<1>2. b = After(p, b)
  BY <1>1 DEF After
<1> QED
  BY <1>1, <1>2, Send2Stream

-----------------------------------------------------------------------------
(* The handlers within the stream.                                         *)

\* The handlers of a key exchange change neither the phase nor the handler of
\* DATA, and install none that takes part in a login.
Steady(s, t) ==
    /\ t.phase = s.phase /\ t.disp["DATA"] = s.disp["DATA"]
    /\ \A x \in LoginTypes : t.disp[x] \in {s.disp[x], "unimplemented"}

LEMMA FrozenSteady ==
    ASSUME NEW s, NEW t, Frozen(s, t) PROVE Steady(s, t)
BY DEF Frozen, Steady

LEMMA SteadyTwice ==
    ASSUME NEW s, NEW t, NEW u, Steady(s, t), Steady(t, u) PROVE Steady(s, u)
BY DEF Steady

LEMMA AsideStream ==
    ASSUME NEW w, NEW b, NEW k, Streams(w, b, k),
           NEW r \in Contexts, r.out = k.out, r.err = k.err, Aside(k.s, r.s)
    PROVE  Streams(w, b, r) /\ Steady(k.s, r.s)
<1>1. /\ r.s.queue = k.s.queue /\ r.s.rekeying = k.s.rekeying
      /\ r.s.done = k.s.done /\ r.s.initSent = k.s.initSent
      /\ r.s.phase = k.s.phase /\ r.s.disp = k.s.disp
  BY DEF Aside, Alike
<1> QED
  BY <1>1 DEF Streams, Tidy, Steady, Ok

LEMMA SetHandlerStream ==
    ASSUME NEW w, NEW b, NEW k, Streams(w, b, k),
           NEW t \in Types, NEW h \in Handlers, NEW r, r = SetHandler(k, t, h)
    PROVE  /\ Streams(w, b, r)
           /\ r.s.phase = k.s.phase /\ r.s.disp = [k.s.disp EXCEPT ![t] = h]
           /\ k.s.disp \in [Types -> Handlers]
           /\ t \notin LoginTypes \cup {"DATA"} => Steady(k.s, r.s)
<1>1. k \in Contexts /\ k.s.disp \in [Types -> Handlers]
  BY DEF Streams, Contexts, States
<1>2. /\ r \in Contexts /\ r.out = k.out /\ r.err = k.err /\ Alike(k.s, r.s)
      /\ r.s.disp = [k.s.disp EXCEPT ![t] = h]
      /\ r.s.phase = k.s.phase /\ r.s.auth = k.s.auth /\ r.s.done = k.s.done
      /\ r.s.initSent = k.s.initSent /\ r.s.peer = k.s.peer /\ r.s.extInfo = k.s.extInfo
      /\ r.s.sid = k.s.sid /\ r.s.pend = k.s.pend
  BY <1>1, SetHandlerType
<1>3. Streams(w, b, r)
  BY <1>2 DEF Streams, Tidy, Alike, Ok
<1>4. ASSUME t \notin LoginTypes \cup {"DATA"} PROVE Steady(k.s, r.s)
  BY <1>1, <1>2, <1>4, TypesOf DEF Steady
<1> QED
  BY <1>1, <1>2, <1>3, <1>4

LEMMA SetKexHandler ==
    ASSUME NEW w, NEW b, NEW k, Streams(w, b, k),
           NEW t \in Types, NEW h \in Handlers, NEW r, r = SetHandler(k, t, h),
           t \notin LoginTypes \cup {"DATA"}
    PROVE  Streams(w, b, r) /\ Steady(k.s, r.s)
BY SetHandlerStream

LEMMA ResetDispatchStream ==
    ASSUME NEW w, NEW b, NEW k, Streams(w, b, k), NEW r, r = kex_reset_dispatch(k)
    PROVE  Streams(w, b, r) /\ Steady(k.s, r.s) /\ r.s.extInfo = k.s.extInfo
<1> DEFINE d == [t \in Types |-> IF t = "KEXINIT" THEN "input"
                                 ELSE IF t \in TransportTypes THEN "unimplemented"
                                 ELSE k.s.disp[t]]
           s == [k.s EXCEPT !.disp = d]
<1>1. k \in Contexts /\ k.s \in States /\ k.s.disp \in [Types -> Handlers]
  BY DEF Streams, Contexts, States
<1>2. d \in [Types -> Handlers]
  BY <1>1 DEF Handlers
<1>3. /\ d["DATA"] = k.s.disp["DATA"]
      /\ \A x \in LoginTypes : d[x] \in {k.s.disp[x], "unimplemented"}
  BY <1>1, TypesOf DEF LoginTypes
<1> HIDE DEF d
<1>4. r = [k EXCEPT !.s = s]
  BY <1>1 DEF kex_reset_dispatch, Contexts, d
<1>5. /\ s \in States /\ s.disp = d /\ s.phase = k.s.phase /\ s.queue = k.s.queue
      /\ s.rekeying = k.s.rekeying /\ s.done = k.s.done /\ s.initSent = k.s.initSent
      /\ s.extInfo = k.s.extInfo
  BY <1>1, <1>2 DEF States
<1> HIDE DEF s
<1>6. r \in Contexts /\ r.s = s /\ r.out = k.out /\ r.err = k.err
  BY <1>1, <1>4, <1>5 DEF Contexts
<1> QED
  BY <1>3, <1>5, <1>6 DEF Streams, Tidy, Steady, Ok

LEMMA SendKexinitStream ==
    ASSUME NEW e \in Endpoint, NEW w \in Seq(Frames), NEW b \in Bounds,
           NEW k, Streams(w, b, k), NEW r, r = kex_send_kexinit(e, k)
    PROVE  Streams(w, b, r) /\ Frozen(k.s, r.s)
<1>1. k \in Contexts /\ Flow(w \o k.out, k.s.queue, b)
  BY DEF Streams
<1>2. /\ r \in Contexts /\ Frozen(k.s, r.s) /\ Flow(w \o r.out, r.s.queue, b)
      /\ k.s.initSent \/ ~Ok(k) => r = k
      /\ ~k.s.initSent /\ Ok(r) => r.s.rekeying /\ ~r.s.done
  BY <1>1, KexinitStream
<1>3. Ok(r) => Tidy(r.s)
  <2>1. CASE k.s.initSent \/ ~Ok(k)
    BY <1>2, <2>1 DEF Streams
  <2>2. CASE ~k.s.initSent
    BY <1>2, <2>2 DEF Tidy
  <2> QED
    BY <2>1, <2>2
<1> QED
  BY <1>2, <1>3 DEF Streams

LEMMA SendNewkeysStream ==
    ASSUME NEW e \in Endpoint, NEW w \in Seq(Frames), NEW b \in Bounds,
           NEW k, Streams(w, b, k), NEW r, r = kex_send_newkeys(e, k)
    PROVE  Streams(w, b, r) /\ Steady(k.s, r.s)
<1> DEFINE j == kex_reset_dispatch(k)
           k1 == ssh_packet_send2(e, j, Pkt("NEWKEYS"))
           k2 == SetHandler(k1, "NEWKEYS", "input")
           k3 == ssh_packet_send2(e, k2, Pkt("EXT_INFO"))
<1>1. /\ {"NEWKEYS", "EXT_INFO"} \subseteq Types /\ "input" \in Handlers
      /\ Pkt("NEWKEYS") \in Packets /\ Pkt("NEWKEYS").t = "NEWKEYS"
      /\ Pkt("EXT_INFO") \in Packets /\ Pkt("EXT_INFO").t = "EXT_INFO"
      /\ "NEWKEYS" \notin LoginTypes \cup {"DATA"}
  BY TypesOf, PktTypes DEF Handlers, LoginTypes
<1>2. r = IF ~Ok(k1) THEN k1 ELSE IF e = "server" /\ k.s.extInfo THEN k3 ELSE k2
  BY DEF kex_send_newkeys, kex_send_ext_info
<1> HIDE DEF j, k1, k2, k3
<1>3. Streams(w, b, j) /\ Steady(k.s, j.s)
  BY ResetDispatchStream DEF j
<1>4. Streams(w, b, k1) /\ Steady(j.s, k1.s)
  <2>1. Streams(w, b, k1) /\ Frozen(j.s, k1.s)
    BY <1>1, <1>3, SendPlain DEF k1
  <2> QED
    BY <2>1, FrozenSteady
<1>5. Streams(w, b, k2) /\ Steady(k1.s, k2.s)
  <2>1. "NEWKEYS" \in Types /\ "input" \in Handlers
    BY <1>1
  <2> QED
    BY <1>1, <1>4, <2>1, SetKexHandler DEF k2
<1>6. Streams(w, b, k3) /\ Steady(k2.s, k3.s)
  <2>1. Streams(w, b, k3) /\ Frozen(k2.s, k3.s)
    BY <1>1, <1>5, SendPlain DEF k3
  <2> QED
    BY <2>1, FrozenSteady
<1>7. Steady(k.s, k1.s) /\ Steady(k.s, k2.s) /\ Steady(k.s, k3.s)
  BY <1>3, <1>4, <1>5, <1>6, SteadyTwice
<1> QED
  BY <1>2, <1>4, <1>5, <1>6, <1>7

LEMMA StartMethodStream ==
    ASSUME NEW e \in Endpoint, NEW w \in Seq(Frames), NEW b \in Bounds,
           NEW k, Streams(w, b, k), NEW r, r = StartMethod(e, k)
    PROVE  Streams(w, b, r) /\ Steady(k.s, r.s)
<1> DEFINE first == IF Gex THEN "GEX_REQUEST" ELSE "DH_INIT"
           reply == IF Gex THEN "GEX_GROUP" ELSE "DH_REPLY"
           j == ssh_packet_send2(e, k, Pkt(first))
<1>1. /\ first \in Types /\ reply \in Types /\ "input" \in Handlers
      /\ first \notin {"NEWKEYS", "KEXINIT", "AUTH_SUCCESS", "DATA"} \cup LoginTypes
      /\ reply \notin {"DATA"} \cup LoginTypes
      /\ Pkt(first) \in Packets /\ Pkt(first).t = first
  BY TypesOf, PktTypes DEF Handlers, LoginTypes
<1>2. r = IF ~Ok(k) THEN k
          ELSE IF e = "client" THEN SetHandler(j, reply, "input")
          ELSE SetHandler(k, first, "input")
  BY DEF StartMethod
<1> HIDE DEF first, reply, j
<1>3. CASE ~Ok(k)
  BY <1>2, <1>3 DEF Steady
<1>4. CASE Ok(k) /\ e = "client"
  <2>1. r = SetHandler(j, reply, "input")
    BY <1>2, <1>4
  <2>2. Streams(w, b, j) /\ Frozen(k.s, j.s)
    BY <1>1, SendPlain DEF j
  <2>3. Streams(w, b, r) /\ Steady(j.s, r.s)
    BY <1>1, <2>1, <2>2, SetKexHandler
  <2> QED
    BY <2>2, <2>3, FrozenSteady, SteadyTwice
<1>5. CASE Ok(k) /\ e # "client"
  <2>1. r = SetHandler(k, first, "input")
    BY <1>2, <1>5
  <2> QED
    BY <1>1, <2>1, SetKexHandler
<1> QED
  BY <1>3, <1>4, <1>5

LEMMA InputKexinitStream ==
    ASSUME NEW e \in Endpoint, NEW w \in Seq(Frames), NEW b \in Bounds,
           NEW k, Streams(w, b, k), NEW p \in Packets,
           NEW r, r = kex_input_kexinit(e, k, p)
    PROVE  Streams(w, b, r) /\ Steady(k.s, r.s)
<1> DEFINE k0 == SetHandler(k, "KEXINIT", "null")
           k1 == [k0 EXCEPT !.s.peer = Append(@, p.i)]
           k2 == kex_send_kexinit(e, k1)
           k3 == kex_choose_conf(e, k2)
<1> HIDE DEF k0, k1, k2, k3
<1>1. r = StartMethod(e, k3)
  BY DEF kex_input_kexinit, k0, k1, k2, k3
<1>2. /\ "KEXINIT" \in Types /\ "null" \in Handlers /\ p.i \in KexInits
      /\ "KEXINIT" \notin LoginTypes \cup {"DATA"}
  BY TypesOf DEF Handlers, Packets, LoginTypes
<1>3. Streams(w, b, k0) /\ Steady(k.s, k0.s)
  BY <1>2, SetKexHandler DEF k0
<1>4. k0 \in Contexts
  BY <1>3 DEF Streams
<1>5. k1 \in Contexts /\ k1.out = k0.out /\ k1.err = k0.err /\ Aside(k0.s, k1.s)
      /\ k1.s.peer # <<>>
  BY <1>2, <1>4, PeerGrows DEF k1
<1>6. Streams(w, b, k1) /\ Steady(k0.s, k1.s)
  BY <1>3, <1>5, AsideStream
<1>7. Streams(w, b, k2) /\ Frozen(k1.s, k2.s)
  BY <1>6, SendKexinitStream DEF k2
<1>8. k3 \in Contexts /\ k3.out = k2.out /\ k3.err = k2.err /\ Aside(k2.s, k3.s)
  <2>1. k2 \in Contexts /\ k2.s.peer # <<>>
    BY <1>5, <1>7 DEF Streams, Frozen
  <2> QED
    BY <2>1, ChooseConf DEF k3
<1>9. Streams(w, b, k3) /\ Steady(k2.s, k3.s)
  BY <1>7, <1>8, AsideStream
<1>10. Streams(w, b, r) /\ Steady(k3.s, r.s)
  BY <1>1, <1>9, StartMethodStream
<1>11. Steady(k1.s, k2.s)
  BY <1>7, FrozenSteady
<1>12. Steady(k.s, k1.s) /\ Steady(k1.s, k3.s)
  BY <1>3, <1>6, <1>9, <1>11, SteadyTwice
<1>13. Steady(k.s, k3.s)
  BY <1>12, SteadyTwice
<1> QED
  BY <1>10, <1>13, SteadyTwice

LEMMA GexRequestStream ==
    ASSUME NEW e \in Endpoint, NEW w \in Seq(Frames), NEW b \in Bounds,
           NEW k, Streams(w, b, k), NEW r, r = input_kex_dh_gex_request(e, k)
    PROVE  Streams(w, b, r) /\ Steady(k.s, r.s)
<1> DEFINE j == ssh_packet_send2(e, k, Pkt("GEX_GROUP"))
<1>1. /\ {"GEX_GROUP", "DH_INIT"} \subseteq Types /\ "input" \in Handlers
      /\ Pkt("GEX_GROUP") \in Packets /\ Pkt("GEX_GROUP").t = "GEX_GROUP"
      /\ "DH_INIT" \notin LoginTypes \cup {"DATA"}
  BY TypesOf, PktTypes DEF Handlers, LoginTypes
<1>2. r = SetHandler(j, "DH_INIT", "input")
  BY DEF input_kex_dh_gex_request
<1> HIDE DEF j
<1>3. Streams(w, b, j) /\ Frozen(k.s, j.s)
  BY <1>1, SendPlain DEF j
<1>4. "DH_INIT" \in Types
  BY <1>1
<1>5. Streams(w, b, r) /\ Steady(j.s, r.s)
  BY <1>1, <1>2, <1>3, <1>4, SetKexHandler
<1> QED
  BY <1>3, <1>5, FrozenSteady, SteadyTwice

LEMMA GexGroupStream ==
    ASSUME NEW e \in Endpoint, NEW w \in Seq(Frames), NEW b \in Bounds,
           NEW k, Streams(w, b, k), NEW r, r = input_kex_dh_gex_group(e, k)
    PROVE  Streams(w, b, r) /\ Steady(k.s, r.s)
<1> DEFINE j == ssh_packet_send2(e, k, Pkt("DH_INIT"))
           i == SetHandler(j, "GEX_GROUP", "null")
<1>1. /\ "GEX_GROUP" \in Types /\ "DH_REPLY" \in Types
      /\ "input" \in Handlers /\ "null" \in Handlers
      /\ Pkt("DH_INIT") \in Packets /\ Pkt("DH_INIT").t = "DH_INIT"
      /\ {"DH_REPLY", "GEX_GROUP"} \cap (LoginTypes \cup {"DATA"}) = {}
  BY TypesOf, PktTypes DEF Handlers, LoginTypes
<1>2. r = SetHandler(i, "DH_REPLY", "input")
  BY DEF input_kex_dh_gex_group
<1> HIDE DEF j, i
<1>3. Streams(w, b, j) /\ Frozen(k.s, j.s)
  BY <1>1, SendPlain DEF j
<1>4. Streams(w, b, i) /\ Steady(j.s, i.s)
  BY <1>1, <1>3, SetKexHandler DEF i
<1>5. Streams(w, b, r) /\ Steady(i.s, r.s)
  BY <1>1, <1>2, <1>4, SetKexHandler
<1>6. Steady(k.s, j.s)
  BY <1>3, FrozenSteady
<1>7. Steady(k.s, i.s)
  BY <1>4, <1>6, SteadyTwice
<1> QED
  BY <1>5, <1>7, SteadyTwice

LEMMA DhInitStream ==
    ASSUME NEW e \in Endpoint, NEW w \in Seq(Frames), NEW b \in Bounds,
           NEW k, Streams(w, b, k), NEW r, r = input_kex_dh_init(e, k)
    PROVE  Streams(w, b, r) /\ Steady(k.s, r.s)
<1> DEFINE h == KexHash(e, k.s)
           p == [Pkt("DH_REPLY") EXCEPT !.h = h]
           j == SaveSessionId(k, h)
           k1 == ssh_packet_send2(e, j, p)
           k2 == kex_derive_keys(k1, h)
<1> HIDE DEF h, p, j, k1, k2
<1>1. r = IF Ok(k1) THEN kex_send_newkeys(e, k2) ELSE k1
  BY DEF input_kex_dh_init, h, p, j, k1, k2
<1>2. k \in Contexts /\ h \in Hashes
  <2>1. k \in Contexts /\ k.s \in States
    BY DEF Streams, Contexts
  <2> QED
    BY <2>1, KexHashType DEF h
<1>3. p \in Packets /\ p.t = "DH_REPLY"
  BY <1>2, ConstantTypes, TypesOf DEF p, Packets
<1>4. j \in Contexts /\ j.out = k.out /\ j.err = k.err /\ Aside(k.s, j.s)
  BY <1>2, SessionId DEF j
<1>5. Streams(w, b, j) /\ Steady(k.s, j.s)
  BY <1>4, AsideStream
<1>6. Streams(w, b, k1) /\ Frozen(j.s, k1.s)
  BY <1>3, <1>5, SendPlain DEF k1
<1>7. k1 \in Contexts
  BY <1>6 DEF Streams
<1>8. k2 \in Contexts /\ k2.out = k1.out /\ k2.err = k1.err /\ Aside(k1.s, k2.s)
  BY <1>2, <1>7, DeriveKeys DEF k2
<1>9. Streams(w, b, k2) /\ Steady(k1.s, k2.s)
  BY <1>6, <1>8, AsideStream
<1>10. Steady(j.s, k1.s)
  BY <1>6, FrozenSteady
<1>11. Steady(k.s, k1.s)
  BY <1>5, <1>10, SteadyTwice
<1>12. Steady(k.s, k2.s)
  BY <1>9, <1>11, SteadyTwice
<1>13. CASE Ok(k1)
  <2>1. r = kex_send_newkeys(e, k2)
    BY <1>1, <1>13
  <2>2. Streams(w, b, r) /\ Steady(k2.s, r.s)
    BY <1>9, <2>1, SendNewkeysStream
  <2> QED
    BY <1>12, <2>2, SteadyTwice
<1> QED
  BY <1>1, <1>6, <1>11, <1>13

LEMMA DhReplyStream ==
    ASSUME NEW e \in Endpoint, NEW w \in Seq(Frames), NEW b \in Bounds,
           NEW k, Streams(w, b, k), NEW p, NEW r, r = input_kex_dh(e, k, p)
    PROVE  Streams(w, b, r) /\ Steady(k.s, r.s)
<1> DEFINE h == KexHash(e, k.s)
           j == SaveSessionId(k, h)
           k2 == kex_derive_keys(j, h)
<1> HIDE DEF h, j, k2
<1>1. r = IF p.h # h THEN Fail(k, "signature") ELSE kex_send_newkeys(e, k2)
  BY DEF input_kex_dh, h, j, k2
<1>2. k \in Contexts /\ h \in Hashes
  <2>1. k \in Contexts /\ k.s \in States
    BY DEF Streams, Contexts
  <2> QED
    BY <2>1, KexHashType DEF h
<1>3. CASE p.h # h
  <2>1. r = [k EXCEPT !.err = "signature"]
    BY <1>1, <1>3 DEF Fail
  <2>2. r \in Contexts /\ r.s = k.s /\ r.out = k.out /\ ~Ok(r)
    BY <1>2, <2>1 DEF Contexts, Reasons, Ok
  <2> QED
    BY <2>2 DEF Streams, Steady
<1>4. CASE p.h = h
  <2>1. j \in Contexts /\ j.out = k.out /\ j.err = k.err /\ Aside(k.s, j.s)
    BY <1>2, SessionId DEF j
  <2>2. Streams(w, b, j) /\ Steady(k.s, j.s)
    BY <2>1, AsideStream
  <2>3. k2 \in Contexts /\ k2.out = j.out /\ k2.err = j.err /\ Aside(j.s, k2.s)
    BY <1>2, <2>1, DeriveKeys DEF k2
  <2>4. Streams(w, b, k2) /\ Steady(j.s, k2.s)
    BY <2>2, <2>3, AsideStream
  <2>5. r = kex_send_newkeys(e, k2)
    BY <1>1, <1>4
  <2>6. Streams(w, b, r) /\ Steady(k2.s, r.s)
    BY <2>4, <2>5, SendNewkeysStream
  <2>7. Steady(k.s, k2.s)
    BY <2>2, <2>4, SteadyTwice
  <2> QED
    BY <2>6, <2>7, SteadyTwice
<1> QED
  BY <1>3, <1>4

LEMMA InputNewkeysStream ==
    ASSUME NEW w \in Seq(Frames), NEW b \in Bounds, NEW k, Streams(w, b, k),
           NEW r, r = kex_input_newkeys(k)
    PROVE  Streams(w, b, r) /\ Steady(k.s, r.s)
<1> DEFINE j == SetHandler(k, "NEWKEYS", "unimplemented")
           k1 == ssh_set_newkeys(j, "in")
           s == [k1.s EXCEPT !.done = TRUE, !.peer = <<>>, !.initSent = FALSE]
<1>1. r = IF ~Ok(k1) THEN k1
          ELSE [k1 EXCEPT !.s.done = TRUE, !.s.peer = <<>>, !.s.initSent = FALSE]
  BY DEF kex_input_newkeys
<1> HIDE DEF j, k1
<1>2. Streams(w, b, j) /\ Steady(k.s, j.s)
  <2>1. /\ "NEWKEYS" \in Types /\ "unimplemented" \in Handlers
        /\ "NEWKEYS" \notin LoginTypes \cup {"DATA"}
    BY TypesOf DEF Handlers, LoginTypes
  <2> QED
    BY <2>1, SetKexHandler DEF j
<1>3. /\ k1 \in Contexts /\ k1.out = j.out /\ Kept(j.s, k1.s)
      /\ k1.err \in {j.err, "no_newkeys"}
  <2>1. j \in Contexts /\ "in" \in Mode
    BY <1>2, OutMode DEF Streams
  <2>2. k1 = ssh_set_newkeys(j, "in")
    BY DEF k1
  <2> QED
    BY <2>1, <2>2, SetNewkeysType
<1>4. Streams(w, b, k1) /\ Steady(j.s, k1.s)
  <2>1. Ok(k1) => Ok(j)
    BY <1>3 DEF Ok
  <2> QED
    BY <1>2, <1>3, <2>1 DEF Streams, Tidy, Kept, Steady
<1>5. Steady(k.s, k1.s)
  BY <1>2, <1>4, SteadyTwice
<1>6. CASE Ok(k1)
  <2>1. r = [k1 EXCEPT !.s = s]
    BY <1>1, <1>3, <1>6 DEF Contexts
  <2>2. /\ s \in States /\ ~s.initSent /\ s.queue = k1.s.queue /\ s.rekeying = k1.s.rekeying
        /\ s.phase = k1.s.phase /\ s.disp = k1.s.disp
    <3>1. k1.s \in States /\ <<>> \in Seq(KexInits)
      BY <1>3 DEF Contexts
    <3> QED
      BY <3>1 DEF States
  <2> HIDE DEF s
  <2>3. r \in Contexts /\ r.s = s /\ r.out = k1.out /\ r.err = k1.err
    BY <1>3, <2>1, <2>2 DEF Contexts
  <2>4. Tidy(k1.s)
    BY <1>4, <1>6 DEF Streams
  <2>5. Tidy(s) /\ Steady(k1.s, s)
    BY <2>2, <2>4 DEF Tidy, Steady
  <2>6. Steady(k.s, s)
    BY <1>5, <2>5, SteadyTwice
  <2> QED
    BY <1>4, <2>2, <2>3, <2>5, <2>6 DEF Streams
<1>7. CASE ~Ok(k1)
  BY <1>1, <1>4, <1>5, <1>7
<1> QED
  BY <1>6, <1>7

-----------------------------------------------------------------------------
(* Logins within the stream.                                               *)

\* The server has been asked to grant the login, and may have said so.
Granted(e, s) == e = "client" \/ s.phase \in {"authdone", "loop"}
Span(e, l, h, s) == [lo |-> l, hi |-> h, granted |-> Granted(e, s)]

\* The handlers that the phases install: DATA is taken in the main loop only, and
\* where it could come too early it ends the connection; the client grants no
\* login, and learns of one only while it waits for it.
Place(e, s) ==
    /\ s.phase \in {"start", "kex"} => s.disp["DATA"] = "null"
    /\ s.phase = "loop" => s.disp["DATA"] = "input"
    /\ e = "client" =>
         /\ s.phase = "auth" => s.disp["DATA"] = "fatal"
         /\ s.phase # "authdone" =>
              s.disp["SERVICE_REQUEST"] # "input" /\ s.disp["AUTH_REQUEST"] # "input"
         /\ s.phase \in {"start", "kex", "loop"} =>
              s.disp["SERVICE_ACCEPT"] # "input" /\ s.disp["AUTH_SUCCESS"] # "input"
Done(e, s) == e = "server" /\ s.phase \in {"auth", "authdone"} => s.done

\* A handler of e has kept the stream from l to h, and may be left.
Fits(e, w, l, h, k) ==
    /\ Streams(w, Span(e, l, h, k.s), k) /\ Place(e, k.s)
    /\ Ok(k) => Done(e, k.s)

LEMMA SpanType ==
    ASSUME NEW e, NEW l \in Nat, NEW h \in Nat, NEW s
    PROVE  /\ Span(e, l, h, s) \in Bounds
           /\ Span(e, l, h, s).lo = l /\ Span(e, l, h, s).hi = h
           /\ Granted(e, s) => Span(e, l, h, s).granted
BY DEF Span, Bounds, Granted

LEMMA SpanSame ==
    ASSUME NEW e, NEW l, NEW h, NEW s, NEW t, t.phase = s.phase
    PROVE  Span(e, l, h, t) = Span(e, l, h, s)
BY DEF Span, Granted

LEMMA SteadyPlace ==
    ASSUME NEW e, NEW s, NEW t, Place(e, s), Steady(s, t)
    PROVE  Place(e, t)
BY DEF Place, Steady, LoginTypes

LEMMA SteadyFits ==
    ASSUME NEW e, NEW w, NEW l, NEW h, NEW k, Fits(e, w, l, h, k),
           NEW r, Streams(w, Span(e, l, h, k.s), r), Steady(k.s, r.s),
           Ok(r) => Done(e, r.s)
    PROVE  Fits(e, w, l, h, r) /\ r.s.phase = k.s.phase
<1>1. r.s.phase = k.s.phase
  BY DEF Steady
<1>2. Span(e, l, h, r.s) = Span(e, l, h, k.s)
  BY <1>1, SpanSame
<1> QED
  BY <1>1, <1>2, SteadyPlace DEF Fits

LEMMA GrantMore ==
    ASSUME NEW w, NEW b \in Bounds, NEW c \in Bounds, NEW k, Streams(w, b, k),
           c.lo = b.lo, c.hi = b.hi, b.granted => c.granted
    PROVE  Streams(w, c, k)
BY DEF Streams, Flow

\* A packet that takes no part in the login, or in the stream, is sent.
LEMMA PlainFits ==
    ASSUME NEW e \in Endpoint, NEW w \in Seq(Frames), NEW l \in Nat, NEW h \in Nat,
           NEW k, Fits(e, w, l, h, k), Good(e, w, k), Ok(k), Phase(e, k.s),
           k.s.phase # "authdone", NEW p \in Packets,
           p.t \notin {"KEXINIT", "DATA", "AUTH_SUCCESS"},
           NEW r, r = ssh_packet_send2(e, k, p)
    PROVE  Fits(e, w, l, h, r) /\ Frozen(k.s, r.s)
<1>1. Span(e, l, h, k.s) \in Bounds
  BY SpanType
<1>2. Streams(w, Span(e, l, h, k.s), k) /\ Done(e, k.s)
  BY DEF Fits
<1>3. Streams(w, Span(e, l, h, k.s), r) /\ Frozen(k.s, r.s)
  BY <1>1, <1>2, SendPlain
<1>4. ~k.s.auth /\ Ok(r) => r.s.done = k.s.done
  <2>1. p.t # "KEXINIT"
    OBVIOUS
  <2>2. /\ Good(e, w, r) /\ Frozen(k.s, r.s)
        /\ p.t # "AUTH_SUCCESS" => r.s.auth = k.s.auth
        /\ ~k.s.auth /\ Ok(r) =>
                /\ r.s.done = k.s.done /\ r.s.initSent = k.s.initSent
                /\ IF p.t = "NEWKEYS" THEN ~r.s.rekeying ELSE r.s.rekeying = k.s.rekeying
    BY <2>1, Send2
  <2> QED
    BY <2>2
<1>5. Ok(r) => Done(e, r.s)
  <2>1. r.s.phase = k.s.phase
    BY <1>3 DEF Frozen
  <2>2. e = "server" /\ k.s.phase = "auth" => ~k.s.auth
    BY DEF Phase
  <2> QED
    BY <1>2, <1>4, <2>1, <2>2 DEF Done
<1>6. Steady(k.s, r.s)
  BY <1>3, FrozenSteady
<1> QED
  BY <1>3, <1>5, <1>6, SteadyFits

\* What a handler may do to the phase: a login is granted by a request that the
\* server takes, and known to the client by AUTH_SUCCESS.
Turned(e, s, t, p) ==
    \/ t.phase = s.phase
    \/ /\ s.phase = "auth" /\ t.phase = "authdone"
       /\ e = "client" => Success(p)

LEMMA KexFits ==
    ASSUME NEW e \in Endpoint, NEW w \in Seq(Frames), NEW l \in Nat, NEW h \in Nat,
           NEW k, Fits(e, w, l, h, k), Ready(e, w, k), NEW p \in Packets,
           p.t \notin LoginTypes, k.s.disp[p.t] = "input", NEW r, r = Input(e, k, p)
    PROVE  Fits(e, w, l, h, r) /\ Turned(e, k.s, r.s, p)
<1> DEFINE b == Span(e, l, h, k.s)
<1>1. b \in Bounds /\ Streams(w, b, k)
  BY SpanType DEF Fits
<1> HIDE DEF b
<1>2. p.t \in Types
  BY DEF Packets
<1>3. Streams(w, b, r) /\ Steady(k.s, r.s)
  <2>1. CASE p.t = "KEXINIT"
    BY <1>1, <2>1, InputKexinitStream DEF Input
  <2>2. CASE p.t = "GEX_REQUEST"
    BY <1>1, <2>2, GexRequestStream DEF Input
  <2>3. CASE p.t = "GEX_GROUP"
    BY <1>1, <2>3, GexGroupStream DEF Input
  <2>4. CASE p.t = "DH_INIT"
    BY <1>1, <2>4, DhInitStream DEF Input
  <2>5. CASE p.t = "DH_REPLY"
    BY <1>1, <2>5, DhReplyStream DEF Input
  <2>6. CASE p.t = "NEWKEYS"
    BY <1>1, <2>6, InputNewkeysStream DEF Input
  <2>7. CASE p.t = "EXT_INFO"
    <3>1. r = SetHandler(k, "EXT_INFO", "unimplemented")
      BY <2>7 DEF Input, kex_input_ext_info
    <3>2. "EXT_INFO" \in Types
      BY TypesOf
    <3>3. "unimplemented" \in Handlers
      BY DEF Handlers
    <3>4. "EXT_INFO" \notin LoginTypes \cup {"DATA"}
      BY DEF LoginTypes
    <3> QED
      BY <1>1, <3>1, <3>2, <3>3, <3>4, SetKexHandler
  <2>8. CASE p.t \in {"UNIMPLEMENTED", "DATA"}
    <3>1. r = k
      BY <2>8 DEF Input
    <3> QED
      BY <1>1, <3>1 DEF Steady
  <2> QED
    BY <1>2, <2>1, <2>2, <2>3, <2>4, <2>5, <2>6, <2>7, <2>8
    DEF Types, TransportTypes, KexMethodTypes, LoginTypes
<1>4. Done(e, r.s)
  <2>1. r.s.phase = k.s.phase
    BY <1>3 DEF Steady
  <2>2. e = "server" => k.s.phase \notin {"auth", "authdone"}
    BY <1>2 DEF Ready, Phase, LoginTypes
  <2> QED
    BY <2>1, <2>2 DEF Done
<1> QED
  BY <1>3, <1>4, SteadyFits DEF Turned, b

LEMMA ServiceRequestFits ==
    ASSUME NEW e \in Endpoint, NEW w \in Seq(Frames), NEW l \in Nat, NEW h \in Nat,
           NEW k, Fits(e, w, l, h, k), Ready(e, w, k), NEW p,
           k.s.disp["SERVICE_REQUEST"] = "input", NEW r, r = input_service_request(e, k)
    PROVE  Fits(e, w, l, h, r) /\ Turned(e, k.s, r.s, p)
<1> DEFINE b == Span(e, l, h, k.s)
           j == SetHandler(k, "AUTH_REQUEST", "input")
<1>1. b \in Bounds /\ Streams(w, b, k)
  BY SpanType DEF Fits
<1>2. r = ssh_packet_send2(e, j, Pkt("SERVICE_ACCEPT"))
  BY DEF input_service_request
<1> HIDE DEF b, j
<1>3. e = "server" /\ k.s.phase = "auth" /\ Done(e, k.s) /\ Ok(k) /\ Good(e, w, k)
  BY DEF Fits, Ready, Place, Phase, LoginTypes, Endpoint, Done
<1>4. "AUTH_REQUEST" \in Types
  BY TypesOf
<1>5. "input" \in Handlers
  BY DEF Handlers
<1>6. /\ Streams(w, b, j)
      /\ j.s.phase = k.s.phase /\ j.s.disp = [k.s.disp EXCEPT !["AUTH_REQUEST"] = "input"]
      /\ k.s.disp \in [Types -> Handlers]
  BY <1>1, <1>4, <1>5, SetHandlerStream DEF j
<1>7. k \in Contexts
  BY <1>1 DEF Streams
<1>8. /\ j \in Contexts /\ j.out = k.out /\ j.err = k.err /\ Alike(k.s, j.s)
      /\ j.s.disp = [k.s.disp EXCEPT !["AUTH_REQUEST"] = "input"]
      /\ j.s.phase = k.s.phase /\ j.s.auth = k.s.auth /\ j.s.done = k.s.done
      /\ j.s.initSent = k.s.initSent /\ j.s.peer = k.s.peer /\ j.s.extInfo = k.s.extInfo
      /\ j.s.sid = k.s.sid /\ j.s.pend = k.s.pend
  BY <1>4, <1>5, <1>7, SetHandlerType DEF j
<1>9. Fits(e, w, l, h, j)
  <2>1. Done(e, j.s)
    BY <1>3, <1>8 DEF Done
  <2>2. Span(e, l, h, j.s) = b
    BY <1>8, SpanSame DEF b
  <2>3. Place(e, j.s)
    BY <1>3, <1>8 DEF Place
  <2> QED
    BY <1>6, <2>1, <2>2, <2>3 DEF Fits
<1>10. Good(e, w, j) /\ Ok(j)
  BY <1>3, <1>8, GoodAlike DEF Ok
<1>11. Phase(e, j.s)
  <2>1. Harmless(e, w, k)
    BY DEF Ready, Harmless
  <2>2. Harmless(e, w, j)
    BY <1>3, <1>4, <1>5, <2>1, SetHandlerHarmless DEF j
  <2> QED
    BY <1>10, <2>2 DEF Harmless
<1>12. Fits(e, w, l, h, r) /\ Frozen(j.s, r.s)
  <2>1. /\ Pkt("SERVICE_ACCEPT") \in Packets
        /\ Pkt("SERVICE_ACCEPT").t \notin {"KEXINIT", "DATA", "AUTH_SUCCESS"}
    BY TypesOf, PktTypes
  <2> QED
    BY <1>2, <1>3, <1>8, <1>9, <1>10, <1>11, <2>1, PlainFits
<1> QED
  BY <1>8, <1>12 DEF Frozen, Turned

LEMMA ServiceAcceptFits ==
    ASSUME NEW e \in Endpoint, NEW w \in Seq(Frames), NEW l \in Nat, NEW h \in Nat,
           NEW k, Fits(e, w, l, h, k), Ready(e, w, k), NEW p,
           k.s.disp["SERVICE_ACCEPT"] = "input", NEW r,
           r = input_userauth_service_accept(e, k)
    PROVE  Fits(e, w, l, h, r) /\ Turned(e, k.s, r.s, p)
<1> DEFINE b == Span(e, l, h, k.s)
           j == ssh_packet_send2(e, k, Pkt("AUTH_REQUEST"))
           i == SetHandler(j, "EXT_INFO", "fatal")
<1>1. b \in Bounds /\ Streams(w, b, k)
  BY SpanType DEF Fits
<1>2. r = SetHandler(i, "AUTH_SUCCESS", "input")
  BY DEF input_userauth_service_accept
<1> HIDE DEF b, j, i
<1>3. e = "client" /\ k.s.phase = "auth" /\ Place(e, k.s)
  <2>1. "SERVICE_ACCEPT" \in Types \ {"SERVICE_REQUEST", "AUTH_REQUEST"}
    BY TypesOf
  <2> QED
    BY <2>1 DEF Fits, Ready, Place, Phase, LoginTypes, Endpoint
<1>4. Streams(w, b, j) /\ Frozen(k.s, j.s)
  <2>1. /\ Pkt("AUTH_REQUEST") \in Packets
        /\ Pkt("AUTH_REQUEST").t \notin {"KEXINIT", "DATA", "AUTH_SUCCESS"}
    BY TypesOf, PktTypes
  <2> QED
    BY <1>1, <2>1, SendPlain DEF j
<1>5. "EXT_INFO" \in Types /\ "AUTH_SUCCESS" \in Types
  BY TypesOf
<1>6. "input" \in Handlers /\ "fatal" \in Handlers
  BY DEF Handlers
<1>7. /\ Streams(w, b, i)
      /\ i.s.phase = j.s.phase /\ i.s.disp = [j.s.disp EXCEPT !["EXT_INFO"] = "fatal"]
      /\ j.s.disp \in [Types -> Handlers]
  BY <1>4, <1>5, <1>6, SetHandlerStream DEF i
<1>8. /\ Streams(w, b, r)
      /\ r.s.phase = i.s.phase /\ r.s.disp = [i.s.disp EXCEPT !["AUTH_SUCCESS"] = "input"]
      /\ i.s.disp \in [Types -> Handlers]
  <2>1. "AUTH_SUCCESS" \in Types
    BY <1>5
  <2>2. "input" \in Handlers
    BY <1>6
  <2>3. Streams(w, b, i)
    BY <1>7
  <2> QED
    BY <1>2, <2>1, <2>2, <2>3, SetHandlerStream
<1>9. r.s.phase = k.s.phase /\ j.s.disp = k.s.disp
  BY <1>4, <1>7, <1>8 DEF Frozen
<1>10. \A t \in {"DATA", "SERVICE_REQUEST", "AUTH_REQUEST"} : r.s.disp[t] = k.s.disp[t]
  <2>1. {"DATA", "SERVICE_REQUEST", "AUTH_REQUEST"} \subseteq Types
    BY TypesOf
  <2> QED
    BY <1>7, <1>8, <1>9, <2>1
<1>11. Place(e, r.s)
  BY <1>3, <1>9, <1>10 DEF Place
<1>12. Span(e, l, h, r.s) = b
  BY <1>9, SpanSame DEF b
<1>13. Done(e, r.s)
  BY <1>3 DEF Done
<1> QED
  BY <1>8, <1>9, <1>11, <1>12, <1>13 DEF Fits, Turned

LEMMA Admitted ==
    ASSUME NEW k \in Contexts, NEW r, r = [k EXCEPT !.s.phase = "authdone"]
    PROVE  /\ r \in Contexts /\ r.out = k.out /\ r.err = k.err /\ Alike(k.s, r.s)
           /\ r.s.phase = "authdone" /\ r.s.disp = k.s.disp
           /\ r.s.auth = k.s.auth /\ r.s.done = k.s.done /\ r.s.initSent = k.s.initSent
<1> DEFINE s == [k.s EXCEPT !.phase = "authdone"]
<1>1. k.s \in States /\ "authdone" \in Phases
  BY DEF Contexts, Phases
<1>2. r = [k EXCEPT !.s = s]
  BY DEF Contexts
<1>3. /\ s \in States /\ Alike(k.s, s) /\ s.phase = "authdone" /\ s.disp = k.s.disp
      /\ s.auth = k.s.auth /\ s.done = k.s.done /\ s.initSent = k.s.initSent
  BY <1>1 DEF States, Alike
<1> HIDE DEF s
<1> QED
  BY <1>2, <1>3 DEF Contexts

LEMMA AdmittedStream ==
    ASSUME NEW w, NEW b, NEW k, Streams(w, b, k),
           NEW r, r = [k EXCEPT !.s.phase = "authdone"]
    PROVE  Streams(w, b, r)
<1>1. k \in Contexts
  BY DEF Streams
<1>2. /\ r \in Contexts /\ r.out = k.out /\ r.err = k.err /\ Alike(k.s, r.s)
      /\ r.s.phase = "authdone" /\ r.s.disp = k.s.disp
      /\ r.s.auth = k.s.auth /\ r.s.done = k.s.done /\ r.s.initSent = k.s.initSent
  BY <1>1, Admitted
<1> QED
  BY <1>2 DEF Streams, Tidy, Alike, Ok

LEMMA UserauthRequestFits ==
    ASSUME NEW e \in Endpoint, NEW w \in Seq(Frames), NEW l \in Nat, NEW h \in Nat,
           NEW k, Fits(e, w, l, h, k), Ready(e, w, k), NEW p,
           k.s.disp["AUTH_REQUEST"] = "input", NEW r, r = input_userauth_request(e, k)
    PROVE  Fits(e, w, l, h, r) /\ Turned(e, k.s, r.s, p)
<1> DEFINE b == Span(e, l, h, k.s)
           j == [k EXCEPT !.s.phase = "authdone"]
           c == Span(e, l, h, j.s)
<1>1. b \in Bounds /\ Streams(w, b, k) /\ c \in Bounds
      /\ b.lo = l /\ b.hi = h /\ c.lo = l /\ c.hi = h
  BY SpanType DEF Fits
<1>2. r = ssh_packet_send2(e, j, Pkt("AUTH_SUCCESS"))
  BY DEF input_userauth_request
<1>3. e = "server" /\ k.s.phase = "auth" /\ k.s.done /\ Ok(k) /\ Good(e, w, k) /\ ~k.s.auth
  BY DEF Fits, Ready, Place, Phase, LoginTypes, Endpoint, Done
<1>4. k \in Contexts
  BY <1>1 DEF Streams
<1>5. /\ j \in Contexts /\ j.out = k.out /\ j.err = k.err /\ Alike(k.s, j.s)
      /\ j.s.phase = "authdone" /\ j.s.disp = k.s.disp
      /\ j.s.auth = k.s.auth /\ j.s.done = k.s.done /\ j.s.initSent = k.s.initSent
  BY <1>4, Admitted
<1>6. Streams(w, b, j)
  BY <1>1, AdmittedStream
<1> HIDE DEF b, j
<1>7. c.granted
  BY <1>5, SpanType DEF Granted
<1> HIDE DEF c
<1>8. Streams(w, c, j)
  BY <1>1, <1>6, <1>7, GrantMore
<1>9. /\ Pkt("AUTH_SUCCESS") \in Packets /\ Pkt("AUTH_SUCCESS").t = "AUTH_SUCCESS"
      /\ ~Data(Pkt("AUTH_SUCCESS")) /\ Pkt("AUTH_SUCCESS").t # "KEXINIT"
  BY TypesOf, PktTypes DEF Data
<1>10. c = After(Pkt("AUTH_SUCCESS"), c)
  BY <1>9 DEF After
<1>11. Streams(w, c, r) /\ Frozen(j.s, r.s)
  BY <1>1, <1>2, <1>7, <1>8, <1>9, <1>10, Send2Stream
<1>12. Good(e, w, j) /\ Ok(j)
  BY <1>3, <1>5, GoodAlike DEF Ok
<1>13. Ok(r) => r.s.done
  <2>1. /\ Good(e, w, r) /\ Frozen(j.s, r.s)
        /\ Pkt("AUTH_SUCCESS").t # "AUTH_SUCCESS" => r.s.auth = j.s.auth
        /\ ~j.s.auth /\ Ok(r) =>
                /\ r.s.done = j.s.done /\ r.s.initSent = j.s.initSent
                /\ IF Pkt("AUTH_SUCCESS").t = "NEWKEYS" THEN ~r.s.rekeying
                   ELSE r.s.rekeying = j.s.rekeying
    BY <1>2, <1>9, <1>12, Send2
  <2>2. ~j.s.auth /\ j.s.done
    BY <1>3, <1>5
  <2> QED
    BY <2>1, <2>2
<1>14. r.s.phase = "authdone"
  BY <1>5, <1>11 DEF Frozen
<1>15. Span(e, l, h, r.s) = c
  BY <1>5, <1>14, SpanSame DEF c
<1>16. Place(e, r.s)
  BY <1>3, <1>14 DEF Place
<1> QED
  BY <1>3, <1>11, <1>13, <1>14, <1>15, <1>16 DEF Fits, Turned, Done

LEMMA UserauthSuccessFits ==
    ASSUME NEW e \in Endpoint, NEW w \in Seq(Frames), NEW l \in Nat, NEW h \in Nat,
           NEW k, Fits(e, w, l, h, k), Ready(e, w, k), NEW p, Success(p),
           k.s.disp["AUTH_SUCCESS"] = "input", NEW r, r = input_userauth_success(k)
    PROVE  Fits(e, w, l, h, r) /\ Turned(e, k.s, r.s, p)
<1> DEFINE b == Span(e, l, h, k.s)
<1>1. Streams(w, b, k)
  BY DEF Fits
<1>2. r = [k EXCEPT !.s.phase = "authdone"]
  BY DEF input_userauth_success
<1>3. e = "client" /\ k.s.phase = "auth"
  <2>1. "AUTH_SUCCESS" \in Types \ {"SERVICE_REQUEST", "AUTH_REQUEST"}
    BY TypesOf
  <2> QED
    BY <2>1 DEF Fits, Ready, Place, Phase, LoginTypes, Endpoint
<1>4. k \in Contexts
  BY <1>1 DEF Streams
<1>5. Streams(w, b, r)
  BY <1>1, <1>2, AdmittedStream
<1>6. r.s.phase = "authdone"
  BY <1>2, <1>4, Admitted
<1>7. Span(e, l, h, r.s) = b
  BY <1>3 DEF Span, Granted
<1>8. Place(e, r.s) /\ Done(e, r.s)
  BY <1>3, <1>6 DEF Place, Done
<1> QED
  BY <1>3, <1>5, <1>6, <1>7, <1>8 DEF Fits, Turned

LEMMA InputFits ==
    ASSUME NEW e \in Endpoint, NEW w \in Seq(Frames), NEW l \in Nat, NEW h \in Nat,
           NEW k, Fits(e, w, l, h, k), Ready(e, w, k), NEW p \in Packets,
           k.s.disp[p.t] = "input", NEW r, r = Input(e, k, p)
    PROVE  Fits(e, w, l, h, r) /\ Turned(e, k.s, r.s, p)
<1>1. CASE p.t \notin LoginTypes
  BY <1>1, KexFits
<1>2. CASE p.t = "SERVICE_REQUEST"
  BY <1>2, ServiceRequestFits DEF Input
<1>3. CASE p.t = "SERVICE_ACCEPT"
  BY <1>3, ServiceAcceptFits DEF Input
<1>4. CASE p.t = "AUTH_REQUEST"
  BY <1>4, UserauthRequestFits DEF Input
<1>5. CASE p.t = "AUTH_SUCCESS"
  BY <1>5, UserauthSuccessFits DEF Input, Success
<1> QED
  BY <1>1, <1>2, <1>3, <1>4, <1>5 DEF LoginTypes

LEMMA FailFits ==
    ASSUME NEW e, NEW w, NEW l, NEW h, NEW k, Fits(e, w, l, h, k),
           NEW why \in Reasons \ {"none"}, NEW r, r = Fail(k, why)
    PROVE  Fits(e, w, l, h, r) /\ r.s = k.s /\ ~Ok(r)
<1>1. k \in Contexts
  BY DEF Fits, Streams
<1>2. r = [k EXCEPT !.err = why]
  BY DEF Fail
<1>3. r \in Contexts /\ r.s = k.s /\ r.out = k.out /\ ~Ok(r)
  BY <1>1, <1>2 DEF Contexts, Ok
<1> QED
  BY <1>3 DEF Fits, Streams

LEMMA DispatchFits ==
    ASSUME NEW e \in Endpoint, NEW w \in Seq(Frames), NEW l \in Nat, NEW h \in Nat,
           NEW k, Fits(e, w, l, h, k), Ok(k) => Ready(e, w, k), NEW p \in Packets,
           NEW r, r = ssh_dispatch(e, k, p)
    PROVE  /\ Fits(e, w, l, h, r) /\ Turned(e, k.s, r.s, p)
           /\ Ok(r) => Ok(k)
           /\ Ok(r) /\ Data(p) => k.s.disp["DATA"] \notin {"null", "fatal"}
<1>1. CASE ~Ok(k) \/ p.t = "UNIMPLEMENTED"
  <2>1. r = k
    BY <1>1 DEF ssh_dispatch
  <2> QED
    BY <1>1, <2>1 DEF Turned, Data
<1>2. CASE Ok(k) /\ p.t # "UNIMPLEMENTED"
  <2>1. Ready(e, w, k) /\ Good(e, w, k) /\ Phase(e, k.s) /\ k.s.phase # "authdone"
    BY <1>2 DEF Ready
  <2>2. k.s.disp[p.t] \in Handlers
    BY <2>1 DEF Good, Contexts, States, Packets
  <2>3. CASE k.s.disp[p.t] = "null"
    <3>1. r = Fail(k, "null_handler")
      BY <1>2, <2>3 DEF ssh_dispatch
    <3>2. "null_handler" \in Reasons \ {"none"}
      BY DEF Reasons
    <3>3. Fits(e, w, l, h, r) /\ r.s = k.s /\ ~Ok(r)
      BY <3>1, <3>2, FailFits
    <3> QED
      BY <3>3 DEF Turned
  <2>4. CASE k.s.disp[p.t] = "fatal"
    <3>1. r = Fail(k, "fatal")
      BY <1>2, <2>4 DEF ssh_dispatch
    <3>2. "fatal" \in Reasons \ {"none"}
      BY DEF Reasons
    <3>3. Fits(e, w, l, h, r) /\ r.s = k.s /\ ~Ok(r)
      BY <3>1, <3>2, FailFits
    <3> QED
      BY <3>3 DEF Turned
  <2>5. CASE k.s.disp[p.t] = "unimplemented"
    <3>1. r = ssh_packet_send2(e, k, Pkt("UNIMPLEMENTED"))
      BY <1>2, <2>5 DEF ssh_dispatch, kex_protocol_error
    <3>2. /\ Pkt("UNIMPLEMENTED") \in Packets
          /\ Pkt("UNIMPLEMENTED").t \notin {"KEXINIT", "DATA", "AUTH_SUCCESS"}
      BY TypesOf, PktTypes
    <3>3. Fits(e, w, l, h, r) /\ Frozen(k.s, r.s)
      BY <1>2, <2>1, <3>1, <3>2, PlainFits
    <3> QED
      BY <1>2, <2>5, <3>3 DEF Turned, Frozen, Data
  <2>6. CASE k.s.disp[p.t] = "input"
    <3>1. r = Input(e, k, p)
      BY <1>2, <2>6 DEF ssh_dispatch
    <3>2. Fits(e, w, l, h, r) /\ Turned(e, k.s, r.s, p)
      BY <2>1, <2>6, <3>1, InputFits
    <3> QED
      BY <1>2, <2>6, <3>2 DEF Data
  <2> QED
    BY <2>2, <2>3, <2>4, <2>5, <2>6 DEF Handlers
<1> QED
  BY <1>1, <1>2

\* The state s of e between two handlers.
Rests(e, w, l, h, s) ==
    /\ s \in States /\ Flow(w, s.queue, Span(e, l, h, s)) /\ Tidy(s)
    /\ Place(e, s) /\ Done(e, s)

LEMMA CtxFits ==
    ASSUME NEW e, NEW w \in Seq(Frames), NEW l, NEW h, NEW s, Rests(e, w, l, h, s),
           NEW k, k = Ctx(s)
    PROVE  Fits(e, w, l, h, k) /\ k.s = s /\ k.out = <<>> /\ Ok(k)
<1>1. k \in Contexts /\ k.s = s /\ k.out = <<>> /\ Ok(k)
  BY DEF Ctx, Rests, Contexts, Reasons, Ok
<1>2. w \o k.out = w
  BY <1>1, Concat
<1> QED
  BY <1>1, <1>2 DEF Rests, Fits, Streams

LEMMA KeptRests ==
    ASSUME NEW e, NEW w, NEW l, NEW h, NEW s, Rests(e, w, l, h, s),
           NEW t \in States, Kept(s, t)
    PROVE  Rests(e, w, l, h, t)
<1>1. /\ t.phase = s.phase /\ t.disp = s.disp /\ t.queue = s.queue
      /\ t.rekeying = s.rekeying /\ t.done = s.done /\ t.initSent = s.initSent
  BY DEF Kept
<1>2. Span(e, l, h, t) = Span(e, l, h, s)
  BY <1>1, SpanSame
<1>3. Place(e, t) /\ Done(e, t) /\ Tidy(t)
  BY <1>1 DEF Rests, Place, Done, Tidy
<1> QED
  BY <1>1, <1>2, <1>3 DEF Rests

LEMMA RekexFits ==
    ASSUME NEW e \in Endpoint, NEW w \in Seq(Frames), NEW l \in Nat, NEW h \in Nat,
           NEW s, Rests(e, w, l, h, s), e = "server" => s.phase \notin {"auth", "authdone"},
           NEW r, r = kex_start_rekex(e, Ctx(s))
    PROVE  Fits(e, w, l, h, r) /\ Frozen(s, r.s)
<1> DEFINE k == Ctx(s)  b == Span(e, l, h, s)
<1>1. Fits(e, w, l, h, k) /\ k.s = s /\ Ok(k)
  BY CtxFits
<1>2. b \in Bounds
  BY SpanType
<1>3. Streams(w, b, k)
  BY <1>1 DEF Fits
<1> HIDE DEF k, b
<1>4. k \in Contexts /\ Flow(w \o k.out, k.s.queue, b)
  BY <1>3 DEF Streams
<1>5. k.s.done => ~k.s.initSent
  BY <1>1, <1>3 DEF Streams, Tidy
<1>6. r = kex_start_rekex(e, k)
  BY DEF k
<1>7. /\ r \in Contexts /\ Frozen(k.s, r.s) /\ Flow(w \o r.out, r.s.queue, b)
      /\ Ok(r) => Tidy(r.s)
  BY <1>2, <1>4, <1>5, <1>6, RekexStream
<1>8. Streams(w, Span(e, l, h, k.s), r)
  BY <1>1, <1>7 DEF Streams, b
<1>9. Steady(k.s, r.s)
  BY <1>7, FrozenSteady
<1>10. Done(e, r.s)
  BY <1>1, <1>7 DEF Done, Frozen
<1>11. Fits(e, w, l, h, r)
  BY <1>1, <1>8, <1>9, <1>10, SteadyFits
<1> QED
  BY <1>1, <1>7, <1>11

LEMMA ReadFits ==
    ASSUME NEW e \in Endpoint, NEW w \in Seq(Frames), NEW l \in Nat, NEW h \in Nat,
           NEW s, Rests(e, w, l, h, s), Phase(e, s), s.phase \in {"kex", "auth", "loop"},
           NEW f \in Frames, NEW r, r = ssh_packet_read_poll2(e, s, f)
    PROVE  Fits(e, w, l, h, r) /\ r.s.phase = s.phase /\ r.s.disp = s.disp
<1> DEFINE s1 == CountIn(s)
           client == f.p.t = "AUTH_SUCCESS" /\ e = "client"
           s2 == IF client THEN ssh_packet_enable_delayed_compress(s1) ELSE s1
<1>1. s \in States
  BY DEF Rests
<1>2. s1 \in States /\ Kept(s, s1) /\ s1.auth = s.auth
  BY <1>1, CountInType
<1> HIDE DEF s1
<1>3. Rests(e, w, l, h, s1)
  BY <1>2, KeptRests
<1>4. /\ s2 \in States /\ Kept(s1, s2)
      /\ ~client => s2.auth = s.auth
  <2>1. CASE client
    <3>1. s2 = ssh_packet_enable_delayed_compress(s1)
      BY <2>1
    <3> QED
      BY <1>2, <2>1, <3>1, DelayedCompressType
  <2>2. CASE ~client
    BY <1>2, <2>2 DEF Kept
  <2> QED
    BY <2>1, <2>2
<1>5. /\ \/ r = Fail(Ctx(s), "mac") \/ r = Fail(Ctx(s1), "need_rekey")
         \/ r = Fail(Ctx(s1), "inflate")
         \/ ssh_packet_need_rekeying(s2, 0) /\ r = kex_start_rekex(e, Ctx(s2))
         \/ r = Ctx(s2)
  BY DEF ssh_packet_read_poll2, s1
<1> HIDE DEF s2
<1>6. Rests(e, w, l, h, s2)
  BY <1>3, <1>4, KeptRests
<1>7. /\ s1.phase = s.phase /\ s1.disp = s.disp
      /\ s2.phase = s.phase /\ s2.disp = s.disp
  BY <1>2, <1>4 DEF Kept
<1>8. CASE r = Fail(Ctx(s), "mac")
  <2>1. Fits(e, w, l, h, Ctx(s)) /\ Ctx(s).s = s
    BY CtxFits
  <2>2. "mac" \in Reasons \ {"none"}
    BY DEF Reasons
  <2>3. Fits(e, w, l, h, r) /\ r.s = Ctx(s).s
    BY <1>8, <2>1, <2>2, FailFits
  <2> QED
    BY <2>1, <2>3
<1>9. CASE r = Fail(Ctx(s1), "need_rekey") \/ r = Fail(Ctx(s1), "inflate")
  <2>1. Fits(e, w, l, h, Ctx(s1)) /\ Ctx(s1).s = s1
    BY <1>3, CtxFits
  <2>2. "need_rekey" \in Reasons \ {"none"} /\ "inflate" \in Reasons \ {"none"}
    BY DEF Reasons
  <2>3. Fits(e, w, l, h, r) /\ r.s = Ctx(s1).s
    BY <1>9, <2>1, <2>2, FailFits
  <2> QED
    BY <1>7, <2>1, <2>3
<1>10. CASE ssh_packet_need_rekeying(s2, 0) /\ r = kex_start_rekex(e, Ctx(s2))
  <2>1. s2.auth
    BY <1>10 DEF ssh_packet_need_rekeying
  <2>2. e = "server" => s2.phase \notin {"auth", "authdone"}
    <3>1. ASSUME e = "server" PROVE s.auth
      BY <1>4, <2>1, <3>1
    <3>2. e = "server" /\ s.phase = "auth" => ~s.auth
      BY DEF Phase
    <3> QED
      BY <1>7, <3>1, <3>2
  <2>3. Fits(e, w, l, h, r) /\ Frozen(s2, r.s)
    BY <1>6, <1>10, <2>2, RekexFits
  <2> QED
    BY <1>7, <2>3 DEF Frozen
<1>11. CASE r = Ctx(s2)
  BY <1>6, <1>7, <1>11, CtxFits
<1> QED
  BY <1>5, <1>8, <1>9, <1>10, <1>11

-----------------------------------------------------------------------------
(* The invariant of the stream.                                            *)

Past(s) == s.phase \in {"authdone", "loop"}

SInv ==
    down = "none" =>
      /\ \A e \in Endpoint :
            /\ Rests(e, wire[Peer(e)], rcvd[Peer(e)], sent[e], st[e])
            /\ sent[e] > 0 => st[e].phase = "loop"
      /\ Past(st["client"]) => Past(st["server"])

LEMMA ApplyRests ==
    ASSUME TInv, SInv, down = "none", NEW e \in Endpoint,
           NEW w \in [Endpoint -> Seq(Frames)], w[Peer(e)] = wire[Peer(e)], NEW k,
           Fits(e, wire[Peer(e)], rcvd[Peer(e)], sent'[e], k), Apply(e, k, w),
           sent'[Peer(e)] = sent[Peer(e)], rcvd'[Peer(e)] = rcvd[Peer(e)],
           Ok(k) => /\ Rests(Peer(e), w[e], rcvd'[e], sent[Peer(e)], st[Peer(e)])
                    /\ sent'[e] > 0 => k.s.phase = "loop"
                    /\ e = "client" /\ Past(k.s) => Past(st["server"])
                    /\ e = "server" /\ Past(st["server"]) => Past(k.s)
    PROVE  SInv'
<1> SUFFICES ASSUME down' = "none"
             PROVE  /\ \A x \in Endpoint :
                          /\ Rests(x, wire'[Peer(x)], rcvd'[Peer(x)], sent'[x], st'[x])
                          /\ sent'[x] > 0 => st'[x].phase = "loop"
                    /\ Past(st'["client"]) => Past(st'["server"])
  BY DEF SInv
<1>1. /\ Peer(e) \in Endpoint /\ Peer(e) # e /\ Peer(Peer(e)) = e
      /\ \A f \in Endpoint : f = e \/ f = Peer(e)
  BY PeerFacts
<1>2. Ok(k)
  BY DEF Apply, Ok
<1>3. st'[e] = k.s /\ st'[Peer(e)] = st[Peer(e)]
  BY <1>1 DEF Apply, TInv, TypeOK
<1>4. wire'[Peer(e)] = wire[Peer(e)] \o k.out /\ wire'[e] = w[e]
  BY <1>1 DEF Apply
<1>5. Rests(e, wire'[Peer(e)], rcvd'[Peer(e)], sent'[e], st'[e])
  BY <1>2, <1>3, <1>4 DEF Fits, Rests, Streams, Contexts
<1>6. Rests(Peer(e), wire'[e], rcvd'[e], sent'[Peer(e)], st'[Peer(e)])
  BY <1>2, <1>3, <1>4
<1>7. sent[Peer(e)] > 0 => st[Peer(e)].phase = "loop"
  BY <1>1 DEF SInv
<1>8. \A x \in Endpoint :
         /\ Rests(x, wire'[Peer(x)], rcvd'[Peer(x)], sent'[x], st'[x])
         /\ sent'[x] > 0 => st'[x].phase = "loop"
  BY <1>1, <1>2, <1>3, <1>5, <1>6, <1>7
<1>9. Past(st'["client"]) => Past(st'["server"])
  <2>1. Past(st["client"]) => Past(st["server"])
    BY DEF SInv
  <2>2. CASE e = "client"
    <3>1. st'["client"] = k.s /\ st'["server"] = st["server"]
      BY <1>3, <2>2 DEF Peer
    <3> QED
      BY <1>2, <2>2, <3>1
  <2>3. CASE e = "server"
    <3>1. st'["server"] = k.s /\ st'["client"] = st["client"]
      BY <1>3, <2>3 DEF Peer
    <3> QED
      BY <1>2, <2>1, <2>3, <3>1
  <2> QED
    BY <2>2, <2>3 DEF Endpoint
<1> QED
  BY <1>8, <1>9

\* The same when e reads nothing.
LEMMA ApplySentRests ==
    ASSUME TInv, SInv, down = "none", NEW e \in Endpoint, NEW k,
           Fits(e, wire[Peer(e)], rcvd[Peer(e)], sent'[e], k), Apply(e, k, wire),
           sent'[Peer(e)] = sent[Peer(e)], rcvd' = rcvd,
           Ok(k) => /\ sent'[e] > 0 => k.s.phase = "loop"
                    /\ e = "client" /\ Past(k.s) => Past(st["server"])
                    /\ e = "server" /\ Past(st["server"]) => Past(k.s)
    PROVE  SInv'
<1>1. Peer(e) \in Endpoint /\ Peer(Peer(e)) = e
  BY PeerFacts
<1>2. wire \in [Endpoint -> Seq(Frames)]
  BY DEF TInv, TypeOK
<1>3. Rests(Peer(e), wire[e], rcvd'[e], sent[Peer(e)], st[Peer(e)])
  BY <1>1 DEF SInv
<1> QED
  BY <1>2, <1>3, ApplyRests

LEMMA InitStream ==
    Init => SInv
<1> SUFFICES ASSUME Init PROVE SInv
  OBVIOUS
<1>1. TInv
  BY InitInvariant
<1>2. \A e \in Endpoint :
         /\ st[e] \in States /\ wire[Peer(e)] = <<>> /\ rcvd[Peer(e)] = 0 /\ sent[e] = 0
  BY <1>1, PeerFacts DEF TInv, TypeOK, Init
<1>3. \A e \in Endpoint : /\ st[e].phase = "start" /\ st[e].queue = <<>> /\ ~st[e].done
                          /\ st[e].disp = [t \in Types |-> "null"]
  BY NewStateType DEF Init, NewState, States
<1>4. ASSUME NEW e \in Endpoint
      PROVE  Rests(e, wire[Peer(e)], rcvd[Peer(e)], sent[e], st[e])
  <2>1. Flow(<<>>, <<>>, Span(e, 0, 0, st[e]))
    <3>1. Span(e, 0, 0, st[e]).lo = 0 /\ Span(e, 0, 0, st[e]).hi = 0
      BY SpanType
    <3> QED
      BY <3>1 DEF Flow
  <2>2. {"DATA"} \cup LoginTypes \subseteq Types
    BY TypesOf
  <2>3. Place(e, st[e])
    BY <1>3, <2>2 DEF Place, LoginTypes
  <2>4. Tidy(st[e]) /\ Done(e, st[e])
    BY <1>3 DEF Tidy, Done
  <2> QED
    BY <1>2, <1>3, <2>1, <2>3, <2>4 DEF Rests
<1> QED
  BY <1>2, <1>3, <1>4 DEF SInv, Past, Endpoint

LEMMA TurnFits ==
    ASSUME NEW e \in Endpoint, NEW w \in Seq(Frames), NEW l \in Nat, NEW h \in Nat,
           NEW k, Fits(e, w, l, h, k), NEW x \in Phases, NEW d \in [Types -> Handlers],
           NEW r, r = Turn(k, x, d), Place(e, r.s),
           e = "server" /\ Past(k.s) => x \in {"authdone", "loop"},
           e = "server" /\ x \in {"auth", "authdone"} => k.s.done
    PROVE  Fits(e, w, l, h, r) /\ r.s.phase = x /\ r.err = k.err
<1> DEFINE b == Span(e, l, h, k.s)
           s == [k.s EXCEPT !.phase = x, !.disp = d]
<1>1. Streams(w, b, k) /\ k \in Contexts /\ k.s \in States
  BY DEF Fits, Streams, Contexts
<1>2. r = [k EXCEPT !.s = s]
  BY <1>1 DEF Turn, Contexts
<1>3. /\ s \in States /\ s.phase = x /\ s.queue = k.s.queue /\ s.rekeying = k.s.rekeying
      /\ s.done = k.s.done /\ s.initSent = k.s.initSent
  BY <1>1 DEF States
<1> HIDE DEF s
<1>4. r \in Contexts /\ r.s = s /\ r.out = k.out /\ r.err = k.err
  BY <1>1, <1>2, <1>3 DEF Contexts
<1>5. Streams(w, b, r)
  BY <1>1, <1>3, <1>4 DEF Streams, Tidy, Ok
<1>6. Streams(w, Span(e, l, h, s), r)
  <2> DEFINE c == Span(e, l, h, s)
  <2>1. b \in Bounds /\ c \in Bounds /\ c.lo = b.lo /\ c.hi = b.hi
    BY SpanType
  <2>2. b.granted => c.granted
    BY <1>3 DEF Span, Granted, Past, Endpoint
  <2> HIDE DEF b, c
  <2>3. Streams(w, c, r)
    BY <1>5, <2>1, <2>2, GrantMore
  <2> QED
    BY <2>3 DEF c
<1>7. Done(e, s)
  BY <1>3 DEF Done
<1> QED
  BY <1>3, <1>4, <1>6, <1>7 DEF Fits

\* What is known where a step of e begins.
LEMMA Begins ==
    ASSUME TInv, SInv, down = "none", NEW e \in Endpoint
    PROVE  /\ wire[Peer(e)] \in Seq(Frames) /\ wire[e] \in Seq(Frames)
           /\ rcvd[Peer(e)] \in Nat /\ sent[e] \in Nat /\ st[e] \in States
           /\ rcvd[Peer(e)] <= sent[e]
           /\ Sound(e, wire[Peer(e)], st[e]) /\ Phase(e, st[e])
           /\ Rests(e, wire[Peer(e)], rcvd[Peer(e)], sent[e], st[e])
<1>1. /\ wire[Peer(e)] \in Seq(Frames) /\ Sound(e, wire[Peer(e)], st[e])
      /\ wire[e] \in Seq(Frames)
  BY SoundState
<1>2. Rests(e, wire[Peer(e)], rcvd[Peer(e)], sent[e], st[e])
  BY DEF SInv
<1>3. rcvd[Peer(e)] \in Nat /\ sent[e] \in Nat /\ st[e] \in States
  BY PeerFacts, TransportAssumption DEF TInv, TypeOK
<1>4. rcvd[Peer(e)] <= sent[e]
  BY <1>2, <1>3, SpanType DEF Rests, Flow
<1> QED
  BY <1>1, <1>2, <1>3, <1>4 DEF Sound

LEMMA SetupRests ==
    ASSUME TInv, SInv, NEW e \in Endpoint, kex_setup(e)
    PROVE  SInv'
<1> DEFINE w == wire[Peer(e)]  l == rcvd[Peer(e)]  h == sent[e]
           s == [st[e] EXCEPT !.phase = "kex"]
           i == Ctx(s)
           j == kex_reset_dispatch(i)
           r == kex_send_kexinit(e, j)
           b == Span(e, l, h, s)
<1>1. /\ down = "none" /\ st[e].phase = "start" /\ Apply(e, r, wire)
      /\ sent' = sent /\ rcvd' = rcvd
  BY DEF kex_setup, CanSetup
<1>2. /\ w \in Seq(Frames) /\ l \in Nat /\ h \in Nat /\ st[e] \in States
      /\ Rests(e, w, l, h, st[e])
  BY <1>1, Begins
<1>3. /\ s \in States /\ s.phase = "kex" /\ s.disp = st[e].disp /\ s.queue = st[e].queue
      /\ s.rekeying = st[e].rekeying /\ s.done = st[e].done /\ s.initSent = st[e].initSent
  BY <1>2 DEF States, Phases
<1>4. ~(sent[e] > 0) /\ ~Past(st[e])
  BY <1>1 DEF SInv, Past
<1> HIDE DEF w, l, h, s
<1>5. Rests(e, w, l, h, s)
  <2>1. Place(e, s) /\ Done(e, s) /\ Tidy(s)
    BY <1>1, <1>2, <1>3 DEF Rests, Place, Done, Tidy
  <2>2. Span(e, l, h, s) = Span(e, l, h, st[e])
    BY <1>1, <1>3 DEF Span, Granted
  <2> QED
    BY <1>2, <1>3, <2>1, <2>2 DEF Rests
<1>6. Fits(e, w, l, h, i) /\ i.s = s
  BY <1>2, <1>5, CtxFits
<1> HIDE DEF i, j, r
<1>7. b \in Bounds /\ Streams(w, b, i)
  BY <1>2, <1>6, SpanType DEF Fits
<1> HIDE DEF b
<1>8. Streams(w, b, j) /\ Steady(s, j.s)
  BY <1>6, <1>7, ResetDispatchStream DEF j
<1>9. Streams(w, b, r) /\ Frozen(j.s, r.s)
  BY <1>2, <1>7, <1>8, SendKexinitStream DEF r
<1>10. Steady(s, r.s)
  BY <1>8, <1>9, FrozenSteady, SteadyTwice
<1>11. r.s.phase = "kex"
  BY <1>3, <1>10 DEF Steady
<1>12. Fits(e, w, l, h, r)
  <2>1. Done(e, r.s)
    BY <1>11 DEF Done
  <2> QED
    BY <1>6, <1>9, <1>10, <2>1, SteadyFits DEF b
<1>13. Fits(e, wire[Peer(e)], rcvd[Peer(e)], sent'[e], r)
  BY <1>1, <1>12 DEF w, l, h
<1> QED
  BY <1>1, <1>4, <1>11, <1>13, ApplySentRests DEF Past

LEMMA ClientAuthRests ==
    ASSUME TInv, SInv, ssh_userauth2
    PROVE  SInv'
<1> DEFINE e == "client"
           w == wire[Peer(e)]  l == rcvd[Peer(e)]  h == sent[e]
           s == [st[e] EXCEPT !.extInfo = FALSE]
           j == Ctx(s)
           k == ssh_packet_send2(e, j, Pkt("SERVICE_REQUEST"))
           d == [[t \in Types |-> "fatal"] EXCEPT !["EXT_INFO"] = "input",
                                                  !["SERVICE_ACCEPT"] = "input"]
           r == [k EXCEPT !.s.phase = "auth", !.s.disp = d]
           b == Span(e, l, h, s)
<1>1. /\ down = "none" /\ Apply(e, r, wire) /\ sent' = sent /\ rcvd' = rcvd
      /\ st[e].phase = "kex"
  BY DEF ssh_userauth2, KexOver
<1>2. e \in Endpoint /\ e # "server"
  BY DEF Endpoint
<1> HIDE DEF e
<1>3. /\ w \in Seq(Frames) /\ l \in Nat /\ h \in Nat /\ st[e] \in States
      /\ Rests(e, w, l, h, st[e])
  BY <1>1, <1>2, Begins
<1>4. /\ s \in States /\ s.phase = st[e].phase /\ s.disp = st[e].disp
      /\ s.queue = st[e].queue
      /\ s.rekeying = st[e].rekeying /\ s.done = st[e].done /\ s.initSent = st[e].initSent
  BY <1>3 DEF States
<1>5. ~(sent[e] > 0) /\ ~Past(st[e])
  BY <1>1, <1>2 DEF SInv, Past
<1>6. /\ d \in [Types -> Handlers] /\ "auth" \in Phases /\ d["DATA"] = "fatal"
      /\ d["SERVICE_REQUEST"] # "input" /\ d["AUTH_REQUEST"] # "input"
  BY TypesOf, DispatchTypes DEF Handlers, Phases
<1>7. r = Turn(k, "auth", d)
  BY DEF Turn
<1> HIDE DEF w, l, h, s, k, d, r
<1>8. Rests(e, w, l, h, s)
  <2>1. Place(e, s) /\ Done(e, s) /\ Tidy(s)
    BY <1>3, <1>4 DEF Rests, Place, Done, Tidy
  <2>2. Span(e, l, h, s) = Span(e, l, h, st[e])
    BY <1>4, SpanSame
  <2> QED
    BY <1>3, <1>4, <2>1, <2>2 DEF Rests
<1>9. Fits(e, w, l, h, j) /\ j.s = s
  BY <1>3, <1>8, CtxFits
<1> HIDE DEF j
<1>10. b \in Bounds /\ Streams(w, b, j)
  BY <1>3, <1>9, SpanType DEF Fits
<1> HIDE DEF b
<1>11. Streams(w, b, k) /\ Frozen(s, k.s)
  <2>1. /\ Pkt("SERVICE_REQUEST") \in Packets
        /\ Pkt("SERVICE_REQUEST").t \notin {"KEXINIT", "DATA", "AUTH_SUCCESS"}
    BY TypesOf, PktTypes
  <2> QED
    BY <1>2, <1>3, <1>9, <1>10, <2>1, SendPlain DEF k
<1>12. Fits(e, w, l, h, k)
  <2>1. Done(e, k.s) /\ Steady(s, k.s)
    BY <1>2, <1>11, FrozenSteady DEF Done
  <2> QED
    BY <1>9, <1>11, <2>1, SteadyFits DEF b
<1>13. k \in Contexts
  BY <1>12 DEF Fits, Streams
<1>14. /\ r \in Contexts /\ r.out = k.out /\ r.err = k.err /\ Alike(k.s, r.s)
       /\ r.s.phase = "auth" /\ r.s.disp = d /\ r.s.auth = k.s.auth
  BY <1>6, <1>7, <1>13, TurnPhase
<1>15. Place(e, r.s)
  BY <1>6, <1>14 DEF Place
<1>16. Fits(e, w, l, h, r)
  BY <1>2, <1>3, <1>6, <1>7, <1>12, <1>15, TurnFits
<1>17. Fits(e, wire[Peer(e)], rcvd[Peer(e)], sent'[e], r) /\ ~Past(r.s)
  BY <1>1, <1>14, <1>16 DEF w, l, h, Past
<1> QED
  BY <1>1, <1>2, <1>5, <1>17, ApplySentRests

LEMMA ServerAuthRests ==
    ASSUME TInv, SInv, do_authentication2
    PROVE  SInv'
<1> DEFINE e == "server"
           w == wire[Peer(e)]  l == rcvd[Peer(e)]  h == sent[e]
           d == [[t \in Types |-> "unimplemented"] EXCEPT !["SERVICE_REQUEST"] = "input"]
           r == Ctx([st[e] EXCEPT !.phase = "auth", !.disp = d])
           k == Ctx(st[e])
<1>1. /\ down = "none" /\ Apply(e, r, wire) /\ sent' = sent /\ rcvd' = rcvd
      /\ st[e].phase = "kex" /\ st[e].done
  BY DEF do_authentication2, KexOver
<1>2. e \in Endpoint /\ e = "server"
  BY DEF Endpoint
<1> HIDE DEF e
<1>3. /\ w \in Seq(Frames) /\ l \in Nat /\ h \in Nat /\ st[e] \in States
      /\ Rests(e, w, l, h, st[e])
  BY <1>1, <1>2, Begins
<1>4. d \in [Types -> Handlers] /\ "auth" \in Phases
  BY TypesOf DEF Handlers, Phases
<1> HIDE DEF d
<1>5. r = Turn(k, "auth", d)
  BY <1>3, TurnCtx
<1>6. ~(sent[e] > 0) /\ ~Past(st[e])
  BY <1>1, <1>2 DEF SInv, Past
<1> HIDE DEF w, l, h, r
<1>7. Fits(e, w, l, h, k) /\ k.s = st[e]
  BY <1>3, CtxFits
<1> HIDE DEF k
<1>8. k \in Contexts
  BY <1>7 DEF Fits, Streams
<1>9. /\ r \in Contexts /\ r.out = k.out /\ r.err = k.err /\ Alike(k.s, r.s)
      /\ r.s.phase = "auth" /\ r.s.disp = d /\ r.s.auth = k.s.auth
  BY <1>4, <1>5, <1>8, TurnPhase
<1>10. Place(e, r.s)
  BY <1>2, <1>9 DEF Place
<1>11. Fits(e, w, l, h, r)
  BY <1>1, <1>2, <1>3, <1>4, <1>5, <1>6, <1>7, <1>10, TurnFits
<1>12. Fits(e, wire[Peer(e)], rcvd[Peer(e)], sent'[e], r) /\ ~Past(st["server"])
  BY <1>1, <1>2, <1>6, <1>11 DEF w, l, h
<1> QED
  BY <1>1, <1>2, <1>6, <1>12, ApplySentRests

LEMMA LoopPlace ==
    ASSUME NEW e, NEW s, s.phase = "loop", s.disp = LoopDispatch
    PROVE  Place(e, s)
<1>1. LoopDispatch["DATA"] = "input" /\ \A t \in LoginTypes : LoopDispatch[t] # "input"
  BY LoopDispatchType, TypesOf DEF LoopDispatch
<1> QED
  BY <1>1 DEF Place, LoginTypes

LEMMA ClientLoopRests ==
    ASSUME TInv, SInv, client_loop
    PROVE  SInv'
<1> DEFINE e == "client"
           w == wire[Peer(e)]  l == rcvd[Peer(e)]  h == sent[e]
           r == Ctx([st[e] EXCEPT !.phase = "loop", !.disp = LoopDispatch])
           k == Ctx(st[e])
<1>1. /\ down = "none" /\ Apply(e, r, wire) /\ sent' = sent /\ rcvd' = rcvd
      /\ st[e].phase = "authdone"
  BY DEF client_loop, AuthOver
<1>2. e \in Endpoint /\ e = "client" /\ e # "server"
  BY DEF Endpoint
<1> HIDE DEF e
<1>3. /\ w \in Seq(Frames) /\ l \in Nat /\ h \in Nat /\ st[e] \in States
      /\ Rests(e, w, l, h, st[e])
  BY <1>1, <1>2, Begins
<1>4. r = Turn(k, "loop", LoopDispatch)
  BY <1>3, TurnCtx
<1>5. Past(st["server"])
  BY <1>1, <1>2 DEF SInv, Past
<1> HIDE DEF w, l, h, r
<1>6. Fits(e, w, l, h, k) /\ k.s = st[e]
  BY <1>3, CtxFits
<1> HIDE DEF k
<1>7. k \in Contexts
  BY <1>6 DEF Fits, Streams
<1>8. /\ r \in Contexts /\ r.out = k.out /\ r.err = k.err /\ Alike(k.s, r.s)
      /\ r.s.phase = "loop" /\ r.s.disp = LoopDispatch /\ r.s.auth = k.s.auth
  BY <1>4, <1>7, LoopDispatchType, TurnPhase
<1>9. Place(e, r.s)
  BY <1>8, LoopPlace
<1>10. Fits(e, w, l, h, r)
  BY <1>2, <1>3, <1>4, <1>6, <1>9, LoopDispatchType, TurnFits
<1>11. Fits(e, wire[Peer(e)], rcvd[Peer(e)], sent'[e], r)
  BY <1>1, <1>10 DEF w, l, h
<1> QED
  BY <1>1, <1>2, <1>5, <1>8, <1>11, ApplySentRests

LEMMA ServerLoopRests ==
    ASSUME TInv, SInv, server_loop2
    PROVE  SInv'
<1> DEFINE e == "server"
           w == wire[Peer(e)]  l == rcvd[Peer(e)]  h == sent[e]
           j == privsep_postauth(st[e])
           r == [j EXCEPT !.s.phase = "loop", !.s.disp = LoopDispatch]
<1>1. /\ down = "none" /\ Apply(e, r, wire) /\ sent' = sent /\ rcvd' = rcvd
      /\ st[e].phase = "authdone"
  BY DEF server_loop2, AuthOver
<1>2. e \in Endpoint /\ e = "server"
  BY DEF Endpoint
<1> HIDE DEF e
<1>3. /\ w \in Seq(Frames) /\ l \in Nat /\ h \in Nat /\ st[e] \in States
      /\ Rests(e, w, l, h, st[e]) /\ Phase(e, st[e])
  BY <1>1, <1>2, Begins
<1>4. r = Turn(j, "loop", LoopDispatch)
  BY DEF Turn
<1>5. ~(sent[e] > 0)
  BY <1>1, <1>2 DEF SInv
<1> HIDE DEF w, l, h, r, j
<1>6. st[e].queue = <<>> /\ st[e].done /\ ~st[e].initSent
  BY <1>1, <1>2, <1>3 DEF Rests, Tidy, Done, Phase
<1>7. CASE ~Privsep
  <2>1. j = Ctx(st[e])
    BY <1>7 DEF privsep_postauth, j
  <2>2. Fits(e, w, l, h, j) /\ j.s = st[e]
    BY <1>3, <2>1, CtxFits
  <2>3. j \in Contexts
    BY <2>2 DEF Fits, Streams
  <2>4. /\ r \in Contexts /\ r.out = j.out /\ r.err = j.err /\ Alike(j.s, r.s)
        /\ r.s.phase = "loop" /\ r.s.disp = LoopDispatch /\ r.s.auth = j.s.auth
    BY <1>4, <2>3, LoopDispatchType, TurnPhase
  <2>5. Place(e, r.s)
    BY <2>4, LoopPlace
  <2>6. Fits(e, w, l, h, r)
    BY <1>2, <1>3, <1>4, <2>2, <2>5, LoopDispatchType, TurnFits
  <2> QED
    BY <1>1, <1>2, <1>5, <2>4, <2>6, ApplySentRests DEF w, l, h, Past
<1>8. CASE Privsep
  <2> DEFINE k == ssh_packet_set_state(ssh_packet_get_state(st[e]))
             q == [k.s EXCEPT !.used = st[e].used]
             s == [q EXCEPT !.phase = "loop", !.disp = LoopDispatch]
  <2>1. j = [k EXCEPT !.s.used = st[e].used]
    BY <1>8 DEF privsep_postauth, j
  <2> HIDE DEF k
  <2>2. k \in Contexts /\ k.out = <<>> /\ k.s.queue = <<>> /\ k.s.initSent = st[e].initSent
    BY <1>3, Transferred DEF k
  <2>3. j = [k EXCEPT !.s = q]
    BY <2>1, <2>2 DEF Contexts
  <2>4. q \in States /\ q.queue = <<>> /\ q.initSent = k.s.initSent
    <3>1. k.s \in States /\ st[e].used \in Nat
      BY <1>3, <2>2 DEF Contexts, States
    <3> QED
      BY <2>2, <3>1 DEF States
  <2> HIDE DEF q
  <2>5. j \in Contexts /\ j.s = q /\ j.out = <<>>
    BY <2>2, <2>3, <2>4 DEF Contexts
  <2>6. r = [j EXCEPT !.s = s]
    BY <1>4, <2>5 DEF Turn, Contexts
  <2>7. /\ s \in States /\ s.phase = "loop" /\ s.disp = LoopDispatch /\ s.queue = <<>>
        /\ s.initSent = q.initSent
    BY <2>4, LoopDispatchType DEF States
  <2> HIDE DEF s
  <2>8. r \in Contexts /\ r.s = s /\ r.out = <<>>
    BY <2>5, <2>6, <2>7 DEF Contexts
  <2>9. Tidy(s) /\ Place(e, s) /\ Done(e, s)
    <3>1. ~s.initSent
      BY <1>6, <2>2, <2>4, <2>7
    <3> QED
      BY <2>7, <3>1, LoopPlace DEF Tidy, Done
  <2>10. w \o r.out = w
    BY <1>3, <2>8
  <2>11. Flow(w, s.queue, Span(e, l, h, s))
    <3>1. Span(e, l, h, s) = Span(e, l, h, st[e])
      BY <1>1, <2>7 DEF Span, Granted
    <3> QED
      BY <1>3, <1>6, <2>7, <3>1 DEF Rests
  <2>12. Fits(e, w, l, h, r)
    BY <2>8, <2>9, <2>10, <2>11 DEF Fits, Streams
  <2> QED
    BY <1>1, <1>2, <1>5, <2>7, <2>8, <2>12, ApplySentRests DEF w, l, h, Past
<1> QED
  BY <1>7, <1>8

LEMMA SendDataRests ==
    ASSUME TInv, SInv, NEW e \in Endpoint, SendData(e)
    PROVE  SInv'
<1> DEFINE w == wire[Peer(e)]  l == rcvd[Peer(e)]  h == sent[e]  n == h + 1
           k == Ctx(st[e])
           p == DataPkt(n)
           r == ssh_packet_send2(e, k, p)
           b == Span(e, l, h, st[e])
           c == Span(e, l, n, st[e])
<1>1. /\ down = "none" /\ st[e].phase = "loop" /\ Apply(e, r, wire)
      /\ sent' = [sent EXCEPT ![e] = @ + 1] /\ rcvd' = rcvd
  BY DEF SendData
<1>2. /\ w \in Seq(Frames) /\ l \in Nat /\ h \in Nat /\ st[e] \in States
      /\ Rests(e, w, l, h, st[e])
  BY <1>1, Begins
<1>3. sent'[e] = n /\ sent'[Peer(e)] = sent[Peer(e)] /\ n \in Nat
  BY <1>1, <1>2, PeerFacts DEF TInv, TypeOK
<1>4. p \in Packets /\ p.t = "DATA" /\ p.n = n
  <2>1. p \in Packets /\ p.t = "DATA"
    BY <1>3, DataPktType
  <2>2. p.n = n
    BY DEF DataPkt, Pkt
  <2> QED
    BY <2>1, <2>2
<1>5. b \in Bounds /\ b.hi = h /\ c = After(p, b)
  <2>1. b \in Bounds /\ b.hi = h
    BY <1>2, SpanType
  <2>2. c = After(p, b)
    BY <1>4 DEF After, Data, Span
  <2> QED
    BY <2>1, <2>2
<1> HIDE DEF w, l, h, n, p, r
<1>6. Fits(e, w, l, h, k) /\ k.s = st[e] /\ Ok(k)
  BY <1>2, CtxFits
<1> HIDE DEF k
<1>7. Streams(w, b, k)
  BY <1>6 DEF Fits
<1> HIDE DEF b, c
<1>8. Data(p) /\ ~Success(p) /\ p.t # "KEXINIT" /\ p.n = b.hi + 1
  BY <1>4, <1>5 DEF Data, Success, n
<1>9. Streams(w, c, r) /\ Frozen(k.s, r.s)
  BY <1>2, <1>4, <1>5, <1>6, <1>7, <1>8, Send2Stream DEF r
<1>10. r.s.phase = "loop" /\ r.s.disp = st[e].disp
  BY <1>1, <1>6, <1>9 DEF Frozen
<1>11. Fits(e, w, l, n, r)
  <2>1. Span(e, l, n, r.s) = c
    BY <1>1, <1>10, SpanSame DEF c
  <2>2. Place(e, r.s)
    BY <1>1, <1>2, <1>10 DEF Rests, Place
  <2> QED
    BY <1>9, <1>10, <2>1, <2>2 DEF Fits, Done
<1> QED
  BY <1>1, <1>3, <1>10, <1>11, ApplySentRests DEF w, l, Past, SInv

LEMMA ManualRekeyRests ==
    ASSUME TInv, SInv, ManualRekey
    PROVE  SInv'
<1> DEFINE e == "client"
           w == wire[Peer(e)]  l == rcvd[Peer(e)]  h == sent[e]
           r == kex_start_rekex(e, Ctx(st[e]))
<1>1. /\ down = "none" /\ Apply(e, r, wire) /\ sent' = sent /\ rcvd' = rcvd
      /\ st[e].phase = "loop"
  BY DEF ManualRekey
<1>2. e \in Endpoint /\ e # "server" /\ e = "client"
  BY DEF Endpoint
<1> HIDE DEF e
<1>3. /\ w \in Seq(Frames) /\ l \in Nat /\ h \in Nat /\ Rests(e, w, l, h, st[e])
  BY <1>1, <1>2, Begins
<1>4. Past(st["server"])
  BY <1>1, <1>2 DEF SInv, Past
<1> HIDE DEF w, l, h
<1>5. Fits(e, w, l, h, r) /\ Frozen(st[e], r.s)
  BY <1>2, <1>3, RekexFits
<1> HIDE DEF r
<1>6. r.s.phase = "loop"
  BY <1>1, <1>5 DEF Frozen
<1> QED
  BY <1>1, <1>2, <1>4, <1>5, <1>6, ApplySentRests DEF w, l, h

LEMMA IntervalRests ==
    ASSUME TInv, SInv, NEW e \in Endpoint, IntervalPasses(e)
    PROVE  SInv'
<1> DEFINE s == [st[e] EXCEPT !.expired = TRUE]
<1>1. /\ down = "none" /\ st' = [st EXCEPT ![e].expired = TRUE] /\ wire' = wire
      /\ sent' = sent /\ rcvd' = rcvd /\ down' = down
  BY DEF IntervalPasses
<1>2. /\ st[e] \in States /\ Rests(e, wire[Peer(e)], rcvd[Peer(e)], sent[e], st[e])
      /\ st \in [Endpoint -> States]
  BY <1>1, Begins DEF TInv, TypeOK
<1>3. st' = [st EXCEPT ![e] = s]
  BY <1>1
<1>4. /\ s \in States /\ s.phase = st[e].phase /\ s.disp = st[e].disp
      /\ s.queue = st[e].queue
      /\ s.rekeying = st[e].rekeying /\ s.done = st[e].done /\ s.initSent = st[e].initSent
  BY <1>2 DEF States
<1> HIDE DEF s
<1>5. Rests(e, wire[Peer(e)], rcvd[Peer(e)], sent[e], s)
  <2>1. Place(e, s) /\ Done(e, s) /\ Tidy(s)
    BY <1>2, <1>4 DEF Rests, Place, Done, Tidy
  <2>2. Span(e, rcvd[Peer(e)], sent[e], s) = Span(e, rcvd[Peer(e)], sent[e], st[e])
    BY <1>4, SpanSame
  <2> QED
    BY <1>2, <1>4, <2>1, <2>2 DEF Rests
<1>6. \A x \in Endpoint : /\ st'[x].phase = st[x].phase
                          /\ st'[x] = IF x = e THEN s ELSE st[x]
  BY <1>2, <1>3, <1>4
<1>7. \A x \in Endpoint :
         /\ Rests(x, wire'[Peer(x)], rcvd'[Peer(x)], sent'[x], st'[x])
         /\ sent'[x] > 0 => st'[x].phase = "loop"
  BY <1>1, <1>5, <1>6 DEF SInv
<1>8. Past(st'["client"]) => Past(st'["server"])
  BY <1>1, <1>6 DEF SInv, Past, Endpoint
<1> QED
  BY <1>7, <1>8 DEF SInv

LEMMA ReadRests ==
    ASSUME TInv, SInv, NEW e \in Endpoint, Read(e)
    PROVE  /\ SInv'
           /\ \/ rcvd' = rcvd
              \/ /\ rcvd' = [rcvd EXCEPT ![e] = rcvd[e] + 1]
                 /\ rcvd[e] + 1 <= sent[Peer(e)]
<1> DEFINE o == Peer(e)
           f == Head(wire[e])
           v == [wire EXCEPT ![e] = Tail(@)]
           w == wire[o]  l == rcvd[o]  h == sent[e]
           k == ssh_packet_read_poll2(e, st[e], f)
           r == ssh_dispatch(e, k, f.p)
           handed == Ok(k) /\ f.p.t = "DATA" /\ k.s.disp["DATA"] = "input"
<1>1. /\ down = "none" /\ wire[e] # <<>>
      /\ (st[e].phase = "kex" /\ ~st[e].done) \/ st[e].phase \in {"auth", "loop"}
      /\ Apply(e, r, v) /\ sent' = sent
      /\ rcvd' = [rcvd EXCEPT ![e] = IF handed THEN f.p.n ELSE @]
  BY DEF Read, CanRead
<1>2. o \in Endpoint /\ Peer(o) = e /\ o # e /\ (e = "client" => o = "server")
      /\ (e = "server" => o = "client")
  BY PeerFacts DEF o, Peer
<1> HIDE DEF o
<1>3. /\ w \in Seq(Frames) /\ l \in Nat /\ h \in Nat /\ st[e] \in States
      /\ Rests(e, w, l, h, st[e]) /\ Sound(e, w, st[e]) /\ Phase(e, st[e])
      /\ wire[e] \in Seq(Frames)
  BY <1>1, Begins DEF o
<1>4. /\ rcvd[e] \in Nat /\ sent[o] \in Nat /\ st[o] \in States
      /\ Rests(o, wire[e], rcvd[e], sent[o], st[o])
  BY <1>1, <1>2, Begins
<1>5. f \in Frames /\ f.p \in Packets
  <2>1. f \in Frames
    BY <1>1, <1>3
  <2> QED
    BY <2>1 DEF Frames
<1>6. /\ v \in [Endpoint -> Seq(Frames)] /\ v[o] = wire[o] /\ v[e] = Tail(wire[e])
  <2>1. wire \in [Endpoint -> Seq(Frames)]
    BY DEF TInv, TypeOK
  <2>2. Tail(wire[e]) \in Seq(Frames)
    BY <1>1, <1>3
  <2> QED
    BY <1>2, <2>1, <2>2
<1> HIDE DEF f, v, w, l, h, k, r, handed
<1>7. Fits(e, w, l, h, k) /\ k.s.phase = st[e].phase /\ k.s.disp = st[e].disp
  <2>1. st[e].phase \in {"kex", "auth", "loop"}
    BY <1>1
  <2>2. Rests(e, w, l, h, st[e]) /\ Phase(e, st[e])
    BY <1>3
  <2>3. w \in Seq(Frames) /\ l \in Nat /\ h \in Nat
    BY <1>3
  <2>4. k = ssh_packet_read_poll2(e, st[e], f)
    BY DEF k
  <2> HIDE DEF k
  <2> DEFINE s == st[e]
  <2>5. /\ Rests(e, w, l, h, s) /\ Phase(e, s) /\ s.phase \in {"kex", "auth", "loop"}
        /\ k = ssh_packet_read_poll2(e, s, f)
    BY <2>1, <2>2, <2>4
  <2> HIDE DEF s
  <2>6. Fits(e, w, l, h, k) /\ k.s.phase = s.phase /\ k.s.disp = s.disp
    BY <1>5, <2>3, <2>5, ReadFits
  <2> QED
    BY <2>6 DEF s
<1>8. Ok(k) => Ready(e, w, k)
  <2>1. st[e].phase \in {"kex", "auth", "loop"} /\ (st[e].phase # "kex" \/ ~st[e].done)
    BY <1>1
  <2> QED
    BY <1>3, <1>5, <2>1, ReadHarmless DEF k
<1>9. /\ Fits(e, w, l, h, r) /\ Turned(e, k.s, r.s, f.p)
      /\ Ok(r) => Ok(k)
      /\ Ok(r) /\ Data(f.p) => k.s.disp["DATA"] \notin {"null", "fatal"}
  BY <1>3, <1>5, <1>7, <1>8, DispatchFits DEF r
<1> DEFINE b == Span(o, rcvd[e], sent[o], st[o])
<1>10. /\ b \in Bounds /\ b.lo = rcvd[e] /\ b.hi = sent[o] /\ st[o].queue \in Seq(Packets)
       /\ Flow(wire[e], st[o].queue, b)
  BY <1>4, SpanType DEF Rests, States
<1>11. /\ ~Data(f.p) => Flow(Tail(wire[e]), st[o].queue, b)
       /\ Data(f.p) => /\ f.p.n = b.lo + 1 /\ f.p.n <= b.hi
                       /\ Flow(Tail(wire[e]), st[o].queue, [b EXCEPT !.lo = @ + 1])
  <2> HIDE DEF b
  <2>1. f.p = Head(wire[e]).p
    BY DEF f
  <2> QED
    BY <1>1, <1>3, <1>10, <2>1, FlowTail
<1>12. Success(f.p) => b.granted
  <2>1. 1 \in DOMAIN wire[e] /\ wire[e][1] = f
    BY <1>1, <1>3 DEF f
  <2> QED
    BY <1>10, <2>1 DEF Flow
<1>13. \/ rcvd' = rcvd /\ ~handed
       \/ /\ handed /\ rcvd' = [rcvd EXCEPT ![e] = rcvd[e] + 1]
          /\ rcvd[e] + 1 <= sent[o]
  <2>1. rcvd \in [Endpoint -> Nat]
    BY DEF TInv, TypeOK
  <2>2. CASE handed
    BY <1>1, <1>10, <1>11, <2>2 DEF handed, Data
  <2>3. CASE ~handed
    BY <1>1, <2>1, <2>3
  <2> QED
    BY <2>2, <2>3
<1>14. ASSUME Ok(r), Data(f.p) PROVE handed
  <2>1. 0 < sent[o]
    BY <1>4, <1>10, <1>11, <1>14
  <2>2. st[o].phase = "loop"
    BY <1>1, <1>2, <1>4, <2>1 DEF SInv
  <2>3. e = "server" => Past(st[e])
    BY <1>1, <1>2, <2>2 DEF SInv, Past
  <2>4. Place(e, st[e]) /\ st[e].disp["DATA"] \notin {"null", "fatal"} /\ Ok(k)
    BY <1>3, <1>7, <1>9, <1>14 DEF Rests
  <2>5. st[e].phase = "loop"
    BY <1>1, <2>3, <2>4 DEF Place, Past, Endpoint
  <2> QED
    BY <1>7, <1>14, <2>4, <2>5 DEF Place, handed, Data
<1>15. ASSUME Ok(r) PROVE Rests(o, v[e], rcvd'[e], sent[o], st[o])
  <2>1. CASE Data(f.p)
    <3>1. rcvd'[e] = rcvd[e] + 1
      <4>1. rcvd \in [Endpoint -> Nat]
        BY DEF TInv, TypeOK
      <4> QED
        BY <1>13, <1>14, <1>15, <2>1, <4>1
    <3>2. Span(o, rcvd'[e], sent[o], st[o]) = [b EXCEPT !.lo = @ + 1]
      BY <3>1 DEF Span
    <3> QED
      BY <1>4, <1>6, <1>11, <2>1, <3>2 DEF Rests
  <2>2. CASE ~Data(f.p)
    <3>1. rcvd'[e] = rcvd[e]
      BY <1>13, <2>2 DEF handed, Data
    <3> QED
      BY <1>4, <1>6, <1>11, <2>2, <3>1 DEF Rests
  <2> QED
    BY <2>1, <2>2
<1>16. rcvd'[o] = rcvd[o] /\ sent'[e] = sent[e] /\ sent'[o] = sent[o]
  <2>1. rcvd \in [Endpoint -> Nat]
    BY DEF TInv, TypeOK
  <2> QED
    BY <1>1, <1>2, <1>13, <2>1
<1>17. sent[e] > 0 => r.s.phase = "loop"
  <2>1. sent[e] > 0 => st[e].phase = "loop"
    BY <1>1 DEF SInv
  <2> QED
    BY <1>7, <1>9, <2>1 DEF Turned
<1>18. e = "client" /\ Past(r.s) => Past(st["server"])
  <2>1. SUFFICES ASSUME e = "client", Past(r.s) PROVE Past(st["server"])
    OBVIOUS
  <2>2. CASE r.s.phase = k.s.phase
    BY <1>1, <1>7, <2>1, <2>2 DEF SInv, Past
  <2>3. CASE Success(f.p)
    <3>1. b.granted /\ o = "server"
      BY <1>2, <1>12, <2>1, <2>3
    <3> QED
      BY <3>1 DEF Span, Granted, Past
  <2> QED
    BY <1>9, <2>1, <2>2, <2>3 DEF Turned
<1>19. e = "server" /\ Past(st["server"]) => Past(r.s)
  BY <1>7, <1>9 DEF Turned, Past
<1>20. SInv'
  BY <1>1, <1>6, <1>9, <1>15, <1>16, <1>17, <1>18, <1>19, ApplyRests DEF w, l, h, o
<1> QED
  BY <1>13, <1>20 DEF o

-----------------------------------------------------------------------------
(* Every step is a step of the stream, or none.                            *)

LEMMA IntervalAppend ==
    ASSUME NEW a \in Nat, NEW b \in Nat, a <= b
    PROVE  Append([i \in 1 .. b - a |-> a + i], b + 1) = [i \in 1 .. (b + 1) - a |-> a + i]
OBVIOUS

LEMMA TailOf ==
    ASSUME NEW q \in Seq(Nat), q # <<>>
    PROVE  /\ Tail(q) \in Seq(Nat) /\ Len(Tail(q)) = Len(q) - 1
           /\ \A i \in 1 .. Len(q) - 1 : Tail(q)[i] = q[i + 1]
OBVIOUS

LEMMA IntervalTail ==
    ASSUME NEW a \in Nat, NEW b \in Nat, a + 1 <= b,
           NEW q, q = [i \in 1 .. b - a |-> a + i]
    PROVE  /\ q # <<>> /\ Head(q) = a + 1
           /\ Tail(q) = [i \in 1 .. b - (a + 1) |-> (a + 1) + i]
<1>1. q \in Seq(Nat) /\ Len(q) = b - a /\ Len(q) > 0
  OBVIOUS
<1>2. q[1] = a + 1
  OBVIOUS
<1>3. q # <<>> /\ Head(q) = q[1]
  BY <1>1
<1>4. /\ Tail(q) \in Seq(Nat) /\ Len(Tail(q)) = b - (a + 1)
      /\ \A i \in 1 .. b - (a + 1) : Tail(q)[i] = q[i + 1]
  <2>1. Len(q) - 1 = b - (a + 1)
    BY <1>1
  <2> QED
    BY <1>1, <1>3, <2>1, TailOf
<1>5. \A i \in 1 .. b - (a + 1) : q[i + 1] = (a + 1) + i
  OBVIOUS
<1> QED
  BY <1>2, <1>3, <1>4, <1>5

LEMMA SendRefines ==
    ASSUME TInv, SInv, NEW e \in Endpoint, SendData(e)
    PROVE  Stream!Send(e)
<1> DEFINE o == Peer(e)
<1>1. /\ down = "none" /\ sent' = [sent EXCEPT ![e] = @ + 1] /\ rcvd' = rcvd
  BY DEF SendData
<1>2. o \in Endpoint /\ o # e /\ Peer(o) = e /\ \A x \in Endpoint : x = e \/ x = o
  BY PeerFacts
<1>3. rcvd[o] \in Nat /\ sent[e] \in Nat /\ rcvd[o] <= sent[e]
  BY <1>1, Begins
<1>4. sent'[e] = sent[e] + 1 /\ sent'[o] = sent[o]
  BY <1>1, <1>2 DEF TInv, TypeOK
<1> HIDE DEF o
<1>5. InFlight(o)' = Append(InFlight(o), sent[e] + 1)
  <2>1. InFlight(o) = [i \in 1 .. sent[e] - rcvd[o] |-> rcvd[o] + i]
    BY <1>2 DEF InFlight
  <2>2. InFlight(o)' = [i \in 1 .. (sent[e] + 1) - rcvd[o] |-> rcvd[o] + i]
    BY <1>1, <1>2, <1>4 DEF InFlight
  <2>3. Append([i \in 1 .. sent[e] - rcvd[o] |-> rcvd[o] + i], sent[e] + 1)
        = [i \in 1 .. (sent[e] + 1) - rcvd[o] |-> rcvd[o] + i]
    BY <1>3, IntervalAppend
  <2> QED
    BY <2>1, <2>2, <2>3
<1>6. InFlight(e)' = InFlight(e)
  BY <1>1, <1>4 DEF InFlight, o
<1>7. [x \in Endpoint |-> InFlight(x)]'
      = [[x \in Endpoint |-> InFlight(x)] EXCEPT ![o] = Append(@, sent[e] + 1)]
  BY <1>2, <1>5, <1>6
<1> QED
  BY <1>1, <1>7 DEF Stream!Send, o

LEMMA ReadRefines ==
    ASSUME TInv, SInv, NEW e \in Endpoint, Read(e)
    PROVE  Stream!Deliver(e) \/ UNCHANGED <<sent, rcvd>>
<1> DEFINE o == Peer(e)
<1>1. down = "none" /\ sent' = sent
  BY DEF Read, CanRead
<1>2. o \in Endpoint /\ o # e /\ Peer(o) = e /\ \A x \in Endpoint : x = e \/ x = o
  BY PeerFacts
<1>3. rcvd[e] \in Nat /\ sent[o] \in Nat
  BY <1>1, <1>2, Begins
<1>4. CASE rcvd' = rcvd
  BY <1>1, <1>4
<1>5. CASE rcvd' = [rcvd EXCEPT ![e] = rcvd[e] + 1] /\ rcvd[e] + 1 <= sent[o]
  <2>1. rcvd'[e] = rcvd[e] + 1 /\ rcvd'[o] = rcvd[o]
    BY <1>2, <1>5 DEF TInv, TypeOK
  <2> HIDE DEF o
  <2>2. /\ InFlight(e) # <<>> /\ Head(InFlight(e)) = rcvd[e] + 1
        /\ Tail(InFlight(e)) = [i \in 1 .. sent[o] - (rcvd[e] + 1) |-> (rcvd[e] + 1) + i]
    <3>1. InFlight(e) = [i \in 1 .. sent[o] - rcvd[e] |-> rcvd[e] + i]
      BY DEF InFlight, o
    <3> QED
      BY <1>3, <1>5, <3>1, IntervalTail
  <2>3. InFlight(e)' = Tail(InFlight(e))
    BY <1>1, <2>1, <2>2 DEF InFlight, o
  <2>4. InFlight(o)' = InFlight(o)
    BY <1>1, <2>1 DEF InFlight
  <2>5. [x \in Endpoint |-> InFlight(x)]'
        = [[x \in Endpoint |-> InFlight(x)] EXCEPT ![e] = Tail(@)]
    BY <1>2, <2>3, <2>4
  <2> QED
    BY <1>1, <1>5, <2>2, <2>5 DEF Stream!Deliver
<1> QED
  BY <1>4, <1>5, ReadRests DEF o

LEMMA NextRefines ==
    ASSUME TInv, SInv, [Next]_vars
    PROVE  SInv' /\ [Stream!Next]_Stream!vars
<1>1. ASSUME UNCHANGED <<sent, rcvd>> PROVE UNCHANGED Stream!vars
  BY <1>1 DEF Stream!vars, InFlight
<1>2. ASSUME NEW e \in Endpoint, kex_setup(e) PROVE SInv' /\ UNCHANGED <<sent, rcvd>>
  BY <1>2, SetupRests DEF kex_setup
<1>3. ASSUME NEW e \in Endpoint, Read(e) PROVE SInv' /\ [Stream!Next]_Stream!vars
  <2>1. SInv'
    BY <1>3, ReadRests
  <2>2. Stream!Deliver(e) \/ UNCHANGED <<sent, rcvd>>
    BY <1>3, ReadRefines
  <2> QED
    BY <1>1, <2>1, <2>2 DEF Stream!Next
<1>4. ASSUME NEW e \in Endpoint, SendData(e) PROVE SInv' /\ [Stream!Next]_Stream!vars
  <2>1. SInv'
    BY <1>4, SendDataRests
  <2>2. Stream!Send(e)
    BY <1>4, SendRefines
  <2> QED
    BY <2>1, <2>2 DEF Stream!Next
<1>5. ASSUME NEW e \in Endpoint, IntervalPasses(e) PROVE SInv' /\ UNCHANGED <<sent, rcvd>>
  BY <1>5, IntervalRests DEF IntervalPasses
<1>6. ASSUME ssh_userauth2 PROVE SInv' /\ UNCHANGED <<sent, rcvd>>
  BY <1>6, ClientAuthRests DEF ssh_userauth2
<1>7. ASSUME do_authentication2 PROVE SInv' /\ UNCHANGED <<sent, rcvd>>
  BY <1>7, ServerAuthRests DEF do_authentication2
<1>8. ASSUME client_loop PROVE SInv' /\ UNCHANGED <<sent, rcvd>>
  BY <1>8, ClientLoopRests DEF client_loop
<1>9. ASSUME server_loop2 PROVE SInv' /\ UNCHANGED <<sent, rcvd>>
  BY <1>9, ServerLoopRests DEF server_loop2
<1>10. ASSUME ManualRekey PROVE SInv' /\ UNCHANGED <<sent, rcvd>>
  BY <1>10, ManualRekeyRests DEF ManualRekey
<1>11. ASSUME UNCHANGED vars PROVE SInv' /\ UNCHANGED <<sent, rcvd>>
  BY <1>11 DEF vars, SInv
<1> QED
  BY <1>1, <1>2, <1>3, <1>4, <1>5, <1>6, <1>7, <1>8, <1>9, <1>10, <1>11 DEF Next

LEMMA InitRefines ==
    ASSUME Init PROVE Stream!Init
<1>1. \A e \in Endpoint : InFlight(e) = <<>>
  BY PeerFacts DEF Init, InFlight
<1> QED
  BY <1>1 DEF Init, Stream!Init

LEMMA StreamWhole ==
    ASSUME TInv, SInv PROVE NothingLost
<1> SUFFICES ASSUME down = "none", NEW e \in Endpoint,
                    NEW m \in rcvd[e] + 1 .. sent[Peer(e)]
             PROVE  \/ \E i \in DOMAIN wire[e] :
                          wire[e][i].p.t = "DATA" /\ wire[e][i].p.n = m
                    \/ \E i \in DOMAIN st[Peer(e)].queue :
                          st[Peer(e)].queue[i].t = "DATA" /\ st[Peer(e)].queue[i].n = m
  BY DEF NothingLost
<1> DEFINE o == Peer(e)
           b == Span(o, rcvd[e], sent[o], st[o])
<1>1. o \in Endpoint /\ Peer(o) = e
  BY PeerFacts
<1>2. rcvd[e] \in Nat /\ sent[o] \in Nat /\ Rests(o, wire[e], rcvd[e], sent[o], st[o])
  BY <1>1, Begins
<1> HIDE DEF o
<1>3. b.lo = rcvd[e] /\ b.hi = sent[o] /\ Flow(wire[e], st[o].queue, b)
  BY <1>2, SpanType DEF Rests
<1> HIDE DEF b
<1>4. m \in b.lo + 1 .. b.hi
  BY <1>3 DEF o
<1>5. \/ \E i \in DOMAIN wire[e] : Data(wire[e][i].p) /\ wire[e][i].p.n = m
      \/ \E i \in DOMAIN st[o].queue : Data(st[o].queue[i]) /\ st[o].queue[i].n = m
  BY <1>3, <1>4 DEF Flow
<1> QED
  BY <1>5 DEF Data, o

\* For any limits, clocks and orders of events, with or without privilege separation,
\* InterMAC or compression: the packets that the connection layer of one side sends
\* are handed to the other in order and each once, and none is lost while the
\* connection is up, however many key exchanges come in between (ssh_packet_send2,
\* ssh_packet_read_poll2, kex_start_rekex and the transfer of the packet state).
THEOREM StreamRefinement == Spec => ImplementsStream
<1>1. Init => Stream!Init
  BY InitRefines
<1>2. Init => SInv
  BY InitStream
<1>3. TInv /\ SInv /\ [Next]_vars => SInv' /\ [Stream!Next]_Stream!vars
  BY NextRefines
<1>4. TInv /\ SInv => NothingLost
  BY StreamWhole
<1>5. Spec => []TInv
  BY TransportInvariance
<1>6. Spec => []SInv
  BY <1>2, <1>3, <1>5, PTL DEF Spec
<1>7. Spec => [][Stream!Next]_Stream!vars
  BY <1>3, <1>5, <1>6, PTL DEF Spec
<1>8. Spec => []NothingLost
  BY <1>4, <1>5, <1>6, PTL
<1>9. Spec => Stream!Init
  BY <1>1 DEF Spec
<1> QED
  BY <1>7, <1>8, <1>9 DEF ImplementsStream, Stream!Spec
=============================================================================
