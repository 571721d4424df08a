------------------------------- MODULE Pkcs11 -------------------------------
(***************************************************************************)
(* Keys on tokens: the agent's end (ssh-pkcs11-client.c), the helper       *)
(* process that loads the provider's library (ssh-pkcs11-helper.c), and    *)
(* the providers, slots and wrapped keys in it (ssh-pkcs11.c).  The        *)
(* libraries and tokens are external: a library is initialised or not, a   *)
(* slot holds a token, whose sessions end when it is taken out.            *)
(***************************************************************************)
EXTENDS Integers, Sequences, FiniteSets, SequencesExt

CONSTANTS
  Libraries,      \* names of providers whose library can be loaded
  Pins,           \* PINs given with a provider; GoodPin is right
  GoodPin,
  MaxCardCalls,   \* bound on the agent's requests
  MaxSwaps        \* bound on the tokens changed and on the helper's deaths

VARIABLES
  p11,      \* the agent: its end of the socket, its keys, the request it waits for
  hp,        \* the helper: input, output, the list of its keys
  provs,     \* the helper's struct pkcs11_provider's, in the order of their allocation
  libs,      \* external: library -> initialised, and its slots
  cardCount  \* requests and swaps so far
cardVars == <<p11, hp, provs, libs, cardCount>>

NoPin == "no pin"
Refused == [ok |-> FALSE]
NoSig == [by |-> "none"]
CardInit(slots) ==
  /\ p11 = [fd |-> "none", keys |-> {}, wait |-> Refused, last |-> Refused]
  /\ hp = [in |-> <<>>, out |-> <<>>, keys |-> <<>>]
  /\ provs = <<>>
  /\ libs \in [Libraries -> [init : {0}, slots : slots, gen : {<<0, 0>>}]]
  /\ cardCount = [calls |-> 0, swaps |-> 0]

-----------------------------------------------------------------------------
(* Providers. *)
Registered(p) == p.listed
pkcs11_provider_lookup(ps, name) == {i \in DOMAIN ps : ps[i].name = name /\ Registered(ps[i])}
pkcs11_provider_unref(ps, i) == [ps EXCEPT ![i].refs = @ - 1, ![i].freed = ps[i].refs <= 1]
pkcs11_provider_finalize(ps, i) == IF ps[i].valid THEN [ps EXCEPT ![i].valid = FALSE, ![i].slots = <<>>] ELSE ps
pkcs11_rsa_finish(ps, key) == pkcs11_provider_unref(ps, key.prov)
del_provider(ps, i) == pkcs11_provider_unref(pkcs11_provider_finalize([ps EXCEPT ![i].listed = FALSE], i), i)

(* One slot: a session, logged in if a PIN was given, or none. *)
NoSession == -1
pkcs11_open_session(token, gen, pin) ==
  IF (pin # NoPin /\ token.login /\ pin = "") \/ (token.login /\ pin # NoPin /\ pin # GoodPin)
  THEN [token |-> token, session |-> NoSession, logged_in |-> FALSE]
  ELSE [token |-> token, session |-> gen, logged_in |-> token.login /\ pin # NoPin]
pkcs11_key_included(keys, key) == \E i \in DOMAIN keys : keys[i].key = key
pkcs11_rsa_wrap(prov, slot, obj) == [key |-> obj.key, prov |-> prov, slot |-> slot, id |-> obj.id]
(* Objects of one class; acc is the keys so far and the references taken.  *)
pkcs11_fetch_keys_filter(acc, objs, class, prov, slot) ==
  FoldLeft(LAMBDA a, o : IF o.class # class \/ o.empty \/ pkcs11_key_included(a, o.key) THEN a
                         ELSE Append(a, pkcs11_rsa_wrap(prov, slot, o)),
           acc, objs)
pkcs11_fetch_keys(acc, objs, prov, slot) ==
  pkcs11_fetch_keys_filter(pkcs11_fetch_keys_filter(acc, objs, "pub", prov, slot), objs, "cert", prov, slot)
pkcs11_add_provider(ps, name, pin) ==
  LET id    == Len(ps) + 1
      lib   == libs[name]
      slots == [i \in DOMAIN lib.slots |->
                  IF lib.slots[i].init THEN pkcs11_open_session(lib.slots[i], lib.gen[i], pin)
                  ELSE [token |-> lib.slots[i], session |-> NoSession, logged_in |-> FALSE]]
      keys  == FoldLeft(LAMBDA a, i : IF slots[i].session = NoSession THEN a ELSE pkcs11_fetch_keys(a, slots[i].token.objs, id, i),
                        <<>>, [i \in DOMAIN slots |-> i])
      p     == [name |-> name, listed |-> TRUE, valid |-> TRUE, refs |-> Len(keys) + 1, freed |-> FALSE, slots |-> slots]
  IN  IF pkcs11_provider_lookup(ps, name) # {} \/ name \notin Libraries THEN [keys |-> <<>>, ps |-> ps]
      ELSE IF lib.init > 0 \/ keys = <<>> THEN [keys |-> <<>>, ps |-> ps]     \* finalised again, nothing is kept
      ELSE [keys |-> keys, ps |-> Append(ps, p)]
(* An object with CKA_SIGN is looked for first. *)
pkcs11_find(key, slot, filter) ==
  LET hits == {j \in DOMAIN slot.token.objs : LET o == slot.token.objs[j] IN o.class = "prv" /\ o.id = key.id /\ (filter = 3 => o.sign)}
  IN  IF hits = {} THEN Refused ELSE [ok |-> TRUE, key |-> slot.token.objs[CHOOSE j \in hits : \A k \in hits : j <= k].key]
PrivateKey(key, slot) == IF pkcs11_find(key, slot, 3).ok THEN pkcs11_find(key, slot, 3) ELSE pkcs11_find(key, slot, 2)
(* The helper is never interactive: without a login there is no signature. *)
pkcs11_rsa_private_encrypt(ps, key) ==
  IF ~ps[key.prov].valid THEN NoSig
  ELSE LET slot == ps[key.prov].slots[key.slot]
           obj  == PrivateKey(key, slot)
       IN  IF slot.token.login /\ ~slot.logged_in THEN NoSig
           ELSE IF slot.session # libs[ps[key.prov].name].gen[key.slot] \/ ~obj.ok THEN NoSig     \* C_FindObjectsInit fails
           ELSE [by |-> obj.key]

-----------------------------------------------------------------------------
(* The helper. *)
(* Mutant: the keys stay in the list. *)
del_keys_by_name_kept(h, ps, name) == [keys |-> h.keys, ps |-> ps]
del_keys_by_name(h, ps, name) ==
  LET gone == {i \in DOMAIN h.keys : h.keys[i].name = name}
  IN  [keys |-> SelectSeq(h.keys, LAMBDA k : k.name # name),
       ps |-> FoldLeft(LAMBDA a, i : IF i \in gone THEN pkcs11_rsa_finish(a, h.keys[i].k) ELSE a, ps, [i \in DOMAIN h.keys |-> i])]
lookup_key(key) == SelectSeq(hp.keys, LAMBDA k : k.k.key = key)
Replies(rest, keys, answer) == hp' = [in |-> rest, out |-> Append(hp.out, answer), keys |-> keys]
process_add(m, rest) ==
  LET r == pkcs11_add_provider(provs, m.name, m.pin)
  IN  /\ provs' = r.ps
      /\ Replies(rest, hp.keys \o [i \in DOMAIN r.keys |-> [k |-> r.keys[i], name |-> m.name]],
                 IF r.keys = <<>> THEN Refused ELSE [ok |-> TRUE, keys |-> {k.key : k \in ToSet(r.keys)}])
      /\ libs' = IF r.keys = <<>> THEN libs ELSE [libs EXCEPT ![m.name].init = @ + 1]
      /\ UNCHANGED <<p11, cardCount>>
process_del(m, rest) ==
  LET d  == del_keys_by_name(hp, provs, m.name)
      ps == pkcs11_provider_lookup(d.ps, m.name)
  IN  /\ provs' = IF ps = {} THEN d.ps ELSE del_provider(d.ps, CHOOSE i \in ps : TRUE)
      /\ libs' = IF ps = {} THEN libs ELSE [libs EXCEPT ![m.name].init = @ - 1]
      /\ Replies(rest, d.keys, [ok |-> ps # {}])
      /\ UNCHANGED <<p11, cardCount>>
process_sign(m, rest) ==
  LET found == lookup_key(m.key)
      sig   == IF found = <<>> THEN NoSig ELSE pkcs11_rsa_private_encrypt(provs, Head(found).k)
  IN  /\ Replies(rest, hp.keys, IF sig = NoSig THEN Refused ELSE [ok |-> TRUE, sig |-> sig])
      /\ UNCHANGED <<provs, libs, p11, cardCount>>
process ==
  /\ p11.fd = "up" /\ hp.in # <<>>
  /\ LET m == Head(hp.in)
     IN  CASE m.t = "add"  -> process_add(m, Tail(hp.in))
           [] m.t = "del"  -> process_del(m, Tail(hp.in))
           [] m.t = "sign" -> process_sign(m, Tail(hp.in))
(* External: the library takes the helper down with it. *)
HelperDies ==
  /\ p11.fd = "up" /\ cardCount.swaps < MaxSwaps /\ cardCount' = [cardCount EXCEPT !.swaps = @ + 1]
  /\ p11' = [p11 EXCEPT !.fd = "dead"]
  /\ hp' = [in |-> <<>>, out |-> <<>>, keys |-> <<>>] /\ provs' = <<>>
  /\ libs' = [l \in Libraries |-> [libs[l] EXCEPT !.init = 0]]
(* External: a token is exchanged for another, or taken out and put back.  *)
TokenChanged(name, slot, token) ==
  /\ cardCount.swaps < MaxSwaps /\ cardCount' = [cardCount EXCEPT !.swaps = @ + 1]
  /\ slot \in DOMAIN libs[name].slots
  /\ libs' = [libs EXCEPT ![name].slots[slot] = token, ![name].gen[slot] = @ + 1]
  /\ UNCHANGED <<p11, hp, provs>>

-----------------------------------------------------------------------------
(* The agent: one request at a time, for which it waits.  The helper is    *)
(* started once; when it has died the socket stays, and every request to   *)
(* it fails.                                                               *)
send_msg(m) ==
  /\ p11.wait = Refused /\ cardCount.calls < MaxCardCalls /\ cardCount' = [cardCount EXCEPT !.calls = @ + 1]
  /\ p11' = [p11 EXCEPT !.wait = m, !.fd = IF @ = "none" /\ m.t = "add" THEN "up" ELSE @]     \* pkcs11_start_helper
  /\ hp' = IF p11'.fd = "up" THEN [hp EXCEPT !.in = Append(@, m)] ELSE hp
  /\ UNCHANGED <<provs, libs>>
AgentAddsProvider(name, pin) == send_msg([t |-> "add", name |-> name, pin |-> pin, ok |-> FALSE])
AgentDelsProvider(name) == send_msg([t |-> "del", name |-> name, ok |-> FALSE])
AgentSigns(key) == (\E k \in p11.keys : k.key = key) /\ send_msg([t |-> "sign", key |-> key, ok |-> FALSE])
(* recv_msg, and what the agent does with the answer: the keys it does not *)
(* have yet are added, those of a removed provider go.                     *)
recv_msg ==
  LET m == p11.wait
      a == IF hp.out # <<>> THEN Head(hp.out) ELSE Refused
      had == {k.key : k \in p11.keys}
  IN  /\ m # Refused /\ (hp.out # <<>> \/ p11.fd # "up")
      /\ hp' = [hp EXCEPT !.out = IF @ = <<>> THEN @ ELSE Tail(@)]
      /\ p11' = [p11 EXCEPT !.wait = Refused, !.last = [ask |-> m, answer |-> a],
                  !.keys = IF m.t = "add" /\ a.ok THEN @ \cup {[key |-> k, name |-> m.name] : k \in a.keys \ had}
                           ELSE IF m.t = "del" THEN {k \in @ : k.name # m.name} ELSE @]
      /\ UNCHANGED <<provs, libs, cardCount>>
=============================================================================
