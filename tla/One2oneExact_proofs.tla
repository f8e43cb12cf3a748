------------------------ MODULE One2oneExact_proofs ------------------------
(***************************************************************************)
(* The keys that the reader of a message puts aside are exactly those of   *)
(* the sealed messages it passes over, so that every one of them can still *)
(* be opened, up to the limit of the list.                                 *)
(***************************************************************************)
EXTENDS One2oneCount_proofs, FiniteSetTheorems

-----------------------------------------------------------------------------
(***************************************************************************)
(* The invariant.                                                          *)
(***************************************************************************)
ExactInv == LedgerInv /\ SkippedKeysExact

LEMMA InitExact == Init => ExactInv
<1> SUFFICES ASSUME Init PROVE ExactInv
  BY Zenon
<1>1. /\ session[Alice] = initialise_as_alice /\ session[Bob] = initialise_as_bob
      /\ \A d \in Device : Sealed(d) = {}
  BY DeviceAssumption, Zenon DEF Init, Device, Idle, Sealed
<1>2. \A d \in Device : SkippedKeys(session[d]) = {} /\ Peer(d) \in Device
  BY <1>1 DEF Device, SkippedKeys, initialise_as_alice, initialise_as_bob, Peer
<1> QED BY <1>1, <1>2, InitLedger, Zenon DEF ExactInv, SkippedKeysExact

Matches(r, used, in, dropped) ==
  \A k : k \in SkippedKeys(r) <=>
           /\ k \in used /\ Passed(r, k)
           /\ \A msg \in in : k # KeyOf(msg)
           /\ k \notin dropped

LEMMA ExactNow ==
  SkippedKeysExact <=>
    \A d \in Device : Matches(session[d], Keys(Peer(d)), received[d], pruned[d])
<1>1. ASSUME NEW d \in Device
      PROVE  SkippedKeys(session[d]) =
               {k \in {KeyOf(msg) : msg \in Sealed(Peer(d))} : Passed(session[d], k)}
                 \ ({KeyOf(msg) : msg \in received[d]} \cup pruned[d])
             <=> Matches(session[d], Keys(Peer(d)), received[d], pruned[d])
  BY Zenon DEF Matches, Keys
<1> QED BY <1>1, Zenon DEF SkippedKeysExact

LEMMA ExactNext ==
  ASSUME \A d \in Device : Matches(session'[d], Keys(Peer(d))', received'[d], pruned'[d])
  PROVE  SkippedKeysExact'
<1> SUFFICES ASSUME NEW d \in Device
             PROVE  SkippedKeys(session[d])' =
                      ({k \in {KeyOf(msg) : msg \in Sealed(Peer(d))} : Passed(session[d], k)}
                         \ ({KeyOf(msg) : msg \in received[d]} \cup pruned[d]))'
  BY Zenon DEF SkippedKeysExact
<1>1. SkippedKeys(session[d])' = SkippedKeys(session'[d])
  BY Zenon DEF SkippedKeys
<1>2. \A k : Passed(session[d], k)' <=> Passed(session'[d], k)
  BY Zenon DEF Passed, Older
<1>3. Keys(Peer(d))' = {KeyOf(msg) : msg \in Sealed(Peer(d))'}
  BY Zenon DEF Keys, KeyOf
<1>4. Matches(session'[d], Keys(Peer(d))', received'[d], pruned'[d])
  BY Zenon
<1>5. SkippedKeys(session'[d]) =
        {k \in Keys(Peer(d))' : Passed(session'[d], k)}
          \ ({KeyOf(msg) : msg \in received'[d]} \cup pruned'[d])
  BY <1>4, Zenon DEF Matches
<1> QED BY <1>1, <1>2, <1>3, <1>5, Zenon DEF KeyOf

(* A key that the writer is about to use has not been passed. *)
LEMMA HeadNotPassed ==
  ASSUME OnceInv, KeysInv, CountInv, NEW d \in Device, ~Busy(d)
  PROVE  ~Passed(session[Peer(d)], session[d].sender_chain)
<1> DEFINE W == session[d].root_sequence
           I == session[d].sender_chain.index
           r == session[Peer(d)]
<1>1. /\ W \in Nat /\ I \in Nat /\ Peer(d) \in Device
      /\ W = r.root_sequence + 1 \/ r.root_sequence = W + 1
  BY SessionKnown, PeerKnown, Zenon
<1>2. r \in RatchetState /\ r.root_sequence \in Nat /\ r.receiver_chain.index \in Nat
  BY <1>1, SessionKnown, Zenon
<1>3. Labelled(r) /\ session[d].sender_chain = KeyAt(W, I)
  BY <1>1, Zenon DEF KeysInv, Labelled
<1>4. PICK N \in [Nat -> Nat], B \in [Nat -> Nat] : Counts(d, N, B) /\ Tally(Peer(d), N, B)
  BY Zenon DEF CountInv
<1>5. N[W] = I
  BY <1>4, Zenon DEF Counts, HeadCount
<1>6. r.root_sequence = W + 1 => r.receiver_chain.index <= I
  <2> SUFFICES ASSUME r.root_sequence = W + 1 PROVE r.receiver_chain.index <= I
    BY Zenon
  <2>1. r.root_sequence # 0 /\ r.root_sequence - 1 = W
    BY <1>1, SMTT(20)
  <2>2. r.receiver_chain.index <= N[r.root_sequence - 1]
    BY <1>4, <2>1, Zenon DEF Tally
  <2> QED BY <1>5, <2>1, <2>2, Zenon
<1>7. Passed(r, KeyAt(W, I)) <=>
        /\ r.root_sequence # 0
        /\ W < r.root_sequence - 1 \/ (W = r.root_sequence - 1 /\ I < r.receiver_chain.index)
  BY <1>1, <1>2, <1>3, PassedAt, ZenonT(40)
<1> HIDE DEF W, I, r
<1>8. ~Passed(r, KeyAt(W, I))
  BY <1>1, <1>2, <1>6, <1>7, SMTT(20)
<1> QED BY <1>3, <1>8, Zenon DEF r

LEMMA SealsExact ==
  ASSUME ExactInv, NEW d \in Device, Seals(d)
  PROVE  SkippedKeysExact'
<1>0. OnceInv /\ KeysInv /\ CountInv /\ SkippedKeysExact
  BY Zenon DEF ExactInv, LedgerInv
<1> DEFINE K == session[d].sender_chain
<1>1. /\ \A e \in Device : e # d => Keys(e)' = Keys(e)
      /\ Keys(d)' = Keys(d) \cup {K}
  <2>1. KeyOf(e2ee_msg(d, session[d])) = K
    BY NewMsg, Zenon
  <2>2. Sealed(d)' = Sealed(d) \cup {e2ee_msg(d, session[d])}
    BY Zenon DEF Seals, SealsOnly
  <2>3. \A e \in Device : e # d => Sealed(e)' = Sealed(e)
    BY Zenon DEF Seals, SealsOnly
  <2>4. Keys(d)' = {KeyOf(m) : m \in Sealed(d)'}
    BY Zenon DEF Keys, KeyOf
  <2>5. \A e \in Device : e # d => Keys(e)' = Keys(e)
    BY <2>3, Zenon DEF Keys, KeyOf
  <2> QED BY <2>1, <2>2, <2>4, <2>5, SMTT(20) DEF Keys
<1>2. session' = session /\ received' = received /\ pruned' = pruned
  BY Zenon DEF Seals
<1>3. ~Passed(session[Peer(d)], K)
  BY <1>0, HeadNotPassed, Zenon DEF Seals
<1> HIDE DEF K
<1>4. ASSUME NEW r \in Device PROVE Matches(session'[r], Keys(Peer(r))', received'[r], pruned'[r])
  <2>1. Matches(session[r], Keys(Peer(r)), received[r], pruned[r])
    BY <1>0, ExactNow, Zenon
  <2>2. \A k : k \in SkippedKeys(session[r]) <=>
                /\ k \in Keys(Peer(r))' /\ Passed(session[r], k)
                /\ \A msg \in received[r] : k # KeyOf(msg)
                /\ k \notin pruned[r]
    <3>1. CASE Peer(r) = d
      <4>1. r = Peer(d)
        BY <1>0, <3>1, PeerKnown, Zenon
      <4> QED BY <1>1, <1>3, <2>1, <3>1, <4>1, ZenonT(40) DEF Matches
    <3>2. CASE Peer(r) # d
      <4>1. Keys(Peer(r))' = Keys(Peer(r))
        BY <1>0, <1>1, <3>2, PeerKnown, ZenonT(40)
      <4> QED BY <2>1, <4>1, Zenon DEF Matches
    <3> QED BY <3>1, <3>2, Zenon
  <2> QED BY <1>2, <2>2, Zenon DEF Matches
<1> QED BY <1>4, ExactNext, Zenon

LEMMA StoresExact ==
  ASSUME ExactInv, NEW d \in Device, Stores(d)
  PROVE  SkippedKeysExact'
<1>0. OnceInv /\ SkippedKeysExact /\ session \in [Device -> RatchetState]
  BY Zenon DEF ExactInv, LedgerInv, OnceInv, RootsInv, ReplayInv, TypedInv, TypeOK
<1>1. \A e \in Device : Sealed(e)' = Sealed(e)
  BY Zenon DEF Stores, SealsOnly
<1>2. \A e \in Device : /\ session'[e].skipped_msg_key_list = session[e].skipped_msg_key_list
                        /\ session'[e].receiver_chain = session[e].receiver_chain
  <2>1. /\ encrypt_ratchet(session[d]).skipped_msg_key_list = session[d].skipped_msg_key_list
        /\ encrypt_ratchet(session[d]).receiver_chain = session[d].receiver_chain
    BY <1>0, Zenon DEF encrypt_ratchet, RatchetState
  <2> QED BY <1>0, <2>1, Zenon DEF Stores
<1>3. received' = received /\ pruned' = pruned
  BY Zenon DEF Stores
<1>4. ASSUME NEW r \in Device PROVE Matches(session'[r], Keys(Peer(r))', received'[r], pruned'[r])
  <2>1. Matches(session[r], Keys(Peer(r)), received[r], pruned[r])
    BY <1>0, ExactNow, Zenon
  <2>2. Keys(Peer(r))' = Keys(Peer(r))
    BY <1>0, <1>1, PeerKnown, Zenon DEF Keys, KeyOf, Peer
  <2> QED BY <1>2, <1>3, <2>1, <2>2, SMTT(20) DEF Matches, SkippedKeys, Passed
<1> QED BY <1>4, ExactNext, Zenon

LEMMA ReadsExact ==
  ASSUME ExactInv, NEW d \in Device, NEW msg \in server, Reads(d, msg)
  PROVE  SkippedKeysExact'
<1>0. /\ OnceInv /\ KeysInv /\ CountInv /\ SkippedKeysExact
      /\ session \in [Device -> RatchetState]
      /\ received \in [Device -> SUBSET Msg] /\ pruned \in [Device -> SUBSET ChainKey]
      /\ PastInv
  BY Zenon DEF ExactInv, LedgerInv, OnceInv, RootsInv, ReplayInv, TypedInv, TypeOK
<1> DEFINE R == session[d]
           p == msg.payload
           q == decrypt_ratchet(R, p)
           P == PrunedKeys(R, p)
<1>1. /\ session'[d] = q /\ received'[d] = received[d] \cup {msg}
      /\ pruned'[d] = pruned[d] \cup P
      /\ \A r \in Device : r # d => /\ session'[r] = session[r] /\ received'[r] = received[r]
                                    /\ pruned'[r] = pruned[r]
  BY <1>0, Zenon DEF Reads
<1>2. \A e \in Device : Keys(e)' = Keys(e)
  BY Zenon DEF Reads, SealsOnly, Keys, KeyOf
<1>3. Peer(d) \in Device /\ Peer(Peer(d)) = d /\ R \in RatchetState /\ RatchetInv(R)
  BY <1>0, PeerKnown, SessionKnown, Zenon
<1>4. /\ p.sealed_with \notin SkippedKeys(q)
      /\ \A k : k # p.sealed_with =>
           (k \in SkippedKeys(q) <=> k \in (SkippedKeys(R) \cup Aside(R, p)) \ P)
  <2>1. p \in Payload /\ PayloadInv(p) /\ decrypt_ratchet_ok(R, p)
    BY <1>0, ReadKnown, Zenon DEF Reads
  <2> QED BY <1>3, <2>1, DecryptKeys, Zenon
<1>5. \A k \in ChainKey : Passed(R, k) => Passed(q, k)
  BY <1>0, ReadKnown, Zenon DEF Consumed, Passed
<1>6. PICK N \in [Nat -> Nat], B \in [Nat -> Nat] : Counts(Peer(d), N, B) /\ Tally(d, N, B)
  BY <1>0, <1>3, Zenon DEF CountInv
<1>7. \A k : k # KeyOf(msg) =>
        (k \in Aside(R, p) <=> k \in Keys(Peer(d)) /\ Passed(q, k) /\ ~Passed(R, k))
  BY <1>0, <1>6, AsideExact, Zenon
<1>8. Matches(R, Keys(Peer(d)), received[d], pruned[d])
  BY <1>0, ExactNow, Zenon
<1>9. /\ \A m \in received[d] : Passed(R, KeyOf(m))
      /\ \A k \in pruned[d] : Passed(R, k)
  BY <1>0, Zenon DEF PastInv, Gone, Oldest, Passed
<1>10. KeyOf(msg) = p.sealed_with
  BY Zenon DEF KeyOf
<1>11. SkippedKeys(R) \subseteq ChainKey
  BY <1>3, SkippedKeysRange, ZenonT(40)
<1>12. ASSUME NEW k
       PROVE  k \in SkippedKeys(q) <=>
                /\ k \in Keys(Peer(d)) /\ Passed(q, k)
                /\ \A m \in received[d] \cup {msg} : k # KeyOf(m)
                /\ k \notin pruned[d] \cup P
  <2> HIDE DEF R, p, q, P
  <2>1. CASE k = KeyOf(msg)
    BY <1>4, <1>10, <2>1, Zenon
  <2>2. CASE k # KeyOf(msg)
    <3>1. k \in SkippedKeys(q) <=> (k \in SkippedKeys(R) \/ k \in Aside(R, p)) /\ k \notin P
      BY <1>4, <1>10, <2>2, Zenon
    <3>2. CASE Passed(R, k)
      <4>1. k \notin Aside(R, p)
        BY <1>7, <2>2, <3>2, ZenonT(40)
      <4>2. k \in SkippedKeys(R) <=>
              /\ k \in Keys(Peer(d))
              /\ \A m \in received[d] : k # KeyOf(m)
              /\ k \notin pruned[d]
        BY <1>8, <3>2, Zenon DEF Matches
      <4>3. k \in SkippedKeys(R) => Passed(q, k)
        BY <1>5, <1>11, <3>2, Zenon
      <4>4. k \in Keys(Peer(d)) /\ (\A m \in received[d] : k # KeyOf(m)) /\ k \notin pruned[d]
              => Passed(q, k)
        BY <4>2, <4>3, Zenon
      <4> QED BY <2>2, <3>1, <4>1, <4>2, <4>4, ZenonT(40)
    <3>3. CASE ~Passed(R, k)
      <4>1. k \notin SkippedKeys(R)
        BY <1>8, <3>3, Zenon DEF Matches
      <4>2. k \notin pruned[d] /\ \A m \in received[d] : k # KeyOf(m)
        BY <1>9, <3>3, Zenon
      <4> QED BY <1>7, <2>2, <3>1, <3>3, <4>1, <4>2, ZenonT(40)
    <3> QED BY <3>2, <3>3, ZenonT(40)
  <2> QED BY <2>1, <2>2, Zenon
<1>13. Matches(session'[d], Keys(Peer(d))', received'[d], pruned'[d])
  <2> HIDE DEF R, q, P
  <2>1. Keys(Peer(d))' = Keys(Peer(d))
    BY <1>2, <1>3, Zenon DEF Peer
  <2> QED BY <1>1, <1>12, <2>1, SMTT(20) DEF Matches
<1>14. ASSUME NEW r \in Device, r # d PROVE Matches(session'[r], Keys(Peer(r))', received'[r], pruned'[r])
  <2>1. Matches(session[r], Keys(Peer(r)), received[r], pruned[r])
    BY <1>0, ExactNow, Zenon
  <2>2. Keys(Peer(r))' = Keys(Peer(r))
    BY <1>0, <1>2, PeerKnown, Zenon DEF Peer
  <2> QED BY <1>1, <1>14, <2>1, <2>2, ZenonT(40)
<1>15. \A r \in Device : Matches(session'[r], Keys(Peer(r))', received'[r], pruned'[r])
  BY <1>13, <1>14, Zenon
<1> QED BY <1>15, ExactNext, Zenon

LEMMA NextExact ==
  ASSUME Serialised, ~Crashing, ExactInv, [Next]_vars
  PROVE  ExactInv'
<1>0. OnceInv /\ SkippedKeysExact /\ LedgerInv
  BY Zenon DEF ExactInv, LedgerInv
<1>1. LedgerInv'
  BY <1>0, NextLedger, Zenon
<1>2. ASSUME Quiet PROVE SkippedKeysExact'
  <2>1. ASSUME NEW r \in Device PROVE Matches(session'[r], Keys(Peer(r))', received'[r], pruned'[r])
    <3>1. Matches(session[r], Keys(Peer(r)), received[r], pruned[r])
      BY <1>0, ExactNow, Zenon
    <3>2. Keys(Peer(r))' = Keys(Peer(r))
      BY <1>0, <1>2, PeerKnown, Zenon DEF Quiet, Keys, KeyOf, Peer
    <3> QED BY <1>2, <3>1, <3>2, ZenonT(40) DEF Quiet
  <2> QED BY <2>1, ExactNext, Zenon
<1>3. SkippedKeysExact'
  BY <1>0, <1>2, Steps, SealsExact, StoresExact, ReadsExact, ZenonT(40)
<1> QED BY <1>1, <1>3, Zenon DEF ExactInv

(* For any number of messages, however late, repeated or reordered they come:
   decrypt_ratchet keeps the key of a sealed message exactly when its chain has
   moved past it, it has not come in, and the limit has not dropped it. *)
THEOREM SkippedExact ==
  ASSUME Serialised, ~Crashing
  PROVE  Spec => []SkippedKeysExact
<1>1. Init => ExactInv
  BY InitExact, Zenon
<1>2. ExactInv /\ [Next]_vars => ExactInv'
  BY NextExact, Zenon
<1>3. ExactInv => SkippedKeysExact
  BY Zenon DEF ExactInv
<1> QED BY <1>1, <1>2, <1>3, PTL DEF Spec

-----------------------------------------------------------------------------
(***************************************************************************)
(* What is sealed can be opened.                                           *)
(***************************************************************************)
(* The keys between two places of a chain, and their number. *)
Span(c, a, b) == {KeyAt(c, x) : x \in a..(b - 1)}

LEMMA SpanSize ==
  ASSUME NEW c \in Nat, NEW a \in Nat, NEW b \in Nat, a <= b
  PROVE  Cardinality(Span(c, a, b)) = b - a
<1> DEFINE I == a..(b - 1)
           T == Span(c, a, b)
<1>1. IsFiniteSet(I) /\ Cardinality(I) = b - a
  <2>1. PICK z \in Int : z = b - 1
    BY SMTT(20)
  <2>2. IsFiniteSet(a..z) /\ Cardinality(a..z) = IF a > z THEN 0 ELSE z - a + 1
    BY FS_Interval, SMTT(20)
  <2> QED BY <2>1, <2>2, SMTT(20)
<1>2. PICK f : f = [x \in I |-> KeyAt(c, x)]
  BY Zenon
<1>3. f \in [I -> T] /\ \A t \in T : \E x \in I : f[x] = t
  BY <1>2, Zenon DEF Span
<1>4. \A x, y \in I : f[x] = f[y] => x = y
  BY <1>2, Zenon DEF KeyAt
<1> HIDE DEF I, T
<1>5. f \in Bijection(I, T)
  BY <1>3, <1>4, Zenon DEF Bijection, Injection, Surjection, IsInjective
<1>6. Cardinality(T) = Cardinality(I)
  BY <1>1, <1>5, FS_Bijection, Zenon DEF ExistsBijection
<1> QED BY <1>1, <1>6, ZenonT(40) DEF T

(* The keys between the reader and msg. *)
Ahead(d, msg) ==
  {k \in Keys(Peer(d)) : ~Passed(session[d], k) /\ Older(k, KeyOf(msg))}

LEMMA NearSpan ==
  ASSUME NEW d, NEW msg, Near(d, msg), NEW c \in Nat, NEW a \in Nat, NEW b \in Nat, a <= b,
         \A k : k \in Ahead(d, msg) /\ k.ratchet_key = c <=> k \in Span(c, a, b)
  PROVE  b - a <= MAX_SKIPPED_MESSAGE_KEY_NODES
<1>1. CASE a = b
  BY <1>1, MaxSkippedAssumption, SMTT(20)
<1>2. CASE a # b
  <2>1. a \in a..(b - 1)
    BY <1>2, SMTT(20)
  <2>2. KeyAt(c, a) \in Span(c, a, b)
    BY <2>1, Zenon DEF Span
  <2>3. KeyAt(c, a) \in Ahead(d, msg) /\ KeyAt(c, a).ratchet_key = c
    BY <2>2, Zenon
  <2>4. c \in {k.ratchet_key : k \in Ahead(d, msg)}
    BY <2>3, Zenon
  <2>5. {k \in Ahead(d, msg) : k.ratchet_key = c} = Span(c, a, b)
    BY Zenon
  <2>6. \A f \in {k.ratchet_key : k \in Ahead(d, msg)} :
          Cardinality({k \in Ahead(d, msg) : k.ratchet_key = f}) <= MAX_SKIPPED_MESSAGE_KEY_NODES
    BY Zenon DEF Near, Ahead, Keys
  <2>7. Cardinality(Span(c, a, b)) <= MAX_SKIPPED_MESSAGE_KEY_NODES
    BY <2>4, <2>5, <2>6, ZenonT(40)
  <2> QED BY <2>7, SpanSize, Zenon
<1> QED BY <1>1, <1>2, Zenon

(* A key that was passed over and neither used nor dropped is in the list. *)
LEMMA OpensSkipped ==
  ASSUME ExactInv, NEW d \in Device, NEW msg \in Sealed(Peer(d)),
         msg \notin received[d], KeyOf(msg) \notin pruned[d],
         Passed(session[d], KeyOf(msg))
  PROVE  skipped_hits(session[d], msg.payload) # {}
<1>0. OnceInv /\ KeysInv /\ SkippedKeysExact /\ PastInv /\ KeyUsedOnce
  BY Zenon DEF ExactInv, LedgerInv, OnceInv, RootsInv, ReplayInv
<1> DEFINE R == session[d]
           p == msg.payload
<1>1. Peer(d) \in Device /\ R \in RatchetState
  BY <1>0, PeerKnown, SessionKnown, ZenonT(40)
<1>2. ASSUME NEW x \in received[d], KeyOf(x) = KeyOf(msg) PROVE FALSE
  <2>1. x \in Sealed(Peer(d))
    BY <1>0, Zenon DEF PastInv, Sealed
  <2>2. interrupted[Peer(d)] = {}
    BY <1>1, Zenon DEF ExactInv, LedgerInv
  <2>3. x = msg
    BY <1>0, <1>1, <1>2, <2>1, <2>2, ZenonT(40) DEF KeyUsedOnce
  <2> QED BY <2>3, Zenon
<1>3. Matches(R, Keys(Peer(d)), received[d], pruned[d])
  BY <1>0, ExactNow, Zenon
<1>4. KeyOf(msg) \in Keys(Peer(d))
  BY Zenon DEF Keys
<1>5. KeyOf(msg) \in SkippedKeys(R)
  BY <1>2, <1>3, <1>4, Zenon DEF Matches
<1>6. PICK h \in DOMAIN R.skipped_msg_key_list : R.skipped_msg_key_list[h] = KeyOf(msg)
  BY <1>5, Zenon DEF SkippedKeys
<1>7. /\ p.root_sequence \in Nat /\ p.sequence \in Nat /\ PayloadInv(p)
      /\ KeyOf(msg) = KeyAt(p.root_sequence, p.sequence)
  BY <1>0, <1>1, SealedKnown, ZenonT(40) DEF KeysInv
<1>8. KeyOf(msg).index = p.sequence /\ KeyOf(msg).ratchet_key = p.ratchet_key
  BY <1>7, KeyAtTyped, SMTT(20) DEF PayloadInv
<1>9. verify_and_decrypt(KeyOf(msg), p)
  BY Zenon DEF verify_and_decrypt, KeyOf
<1>10. h \in skipped_hits(R, p)
  BY <1>6, <1>8, <1>9, ZenonT(40) DEF skipped_hits
<1> QED BY <1>10, Zenon

(* What opening a message on a chain takes, in terms of the ledger. *)
LEMMA OpensOnChain ==
  ASSUME NEW c \in Nat, NEW i \in Nat, NEW j \in Nat, i <= j,
         NEW p \in Payload, p.sequence = j, p.sealed_with = KeyAt(c, j)
  PROVE  /\ is_valid_chain_key(KeyAt(c, i))
         /\ verify_and_decrypt_for_existing_chain(KeyAt(c, i), p)
<1>1. is_valid_chain_key(KeyAt(c, i))
  <2>1. KeyAt(c, i).ratchet_key = c /\ NoChainKey.ratchet_key = -1
    BY KeyAtTyped, Zenon DEF NoChainKey
  <2> QED BY <2>1, SMTT(20) DEF is_valid_chain_key
<1>2. KeyAt(c, i).index = i
  BY KeyAtTyped, Zenon
<1>3. [KeyAt(c, i) EXCEPT !.index = j] = KeyAt(c, j)
  BY SMTT(20) DEF KeyAt
<1> QED BY <1>1, <1>2, <1>3, ZenonT(40) DEF verify_and_decrypt_for_existing_chain, verify_and_decrypt

LEMMA ExactOpens ==
  ASSUME ExactInv, NEW d \in Device, NEW msg \in Sealed(Peer(d)),
         msg \notin received[d], KeyOf(msg) \notin pruned[d], Near(d, msg)
  PROVE  decrypt_ratchet_ok(session[d], msg.payload)
<1>0. OnceInv /\ KeysInv /\ CountInv
  BY Zenon DEF ExactInv, LedgerInv
<1> DEFINE e == Peer(d)
           R == session[d]
           p == msg.payload
           w == R.root_sequence
           i == R.receiver_chain.index
           c == p.root_sequence
           j == p.sequence
           MAX == MAX_SKIPPED_MESSAGE_KEY_NODES
<1>1. /\ R \in RatchetState /\ w \in Nat /\ i \in Nat /\ w % 2 = Side(d)
      /\ e \in Device /\ Peer(e) = d /\ Side(d) \in {0, 1} /\ Side(e) = 1 - Side(d)
      /\ w = session[e].root_sequence + 1 \/ session[e].root_sequence = w + 1
  BY <1>0, SessionKnown, PeerKnown, Zenon
<1>2. PICK N \in [Nat -> Nat], B \in [Nat -> Nat] : Counts(e, N, B) /\ Tally(d, N, B)
  BY <1>0, <1>1, ZenonT(40) DEF CountInv
<1>3. /\ p \in Payload /\ PayloadInv(p) /\ c \in Nat /\ j \in Nat
      /\ c <= session[e].root_sequence /\ c % 2 = Side(e)
      /\ session[e].root_sequence \in Nat
  BY <1>0, <1>1, SealedKnown, SessionKnown, ZenonT(40)
<1>4. p.ratchet_key = c /\ KeyOf(msg) = KeyAt(c, j) /\ p.sealed_with = KeyAt(c, j)
  BY <1>0, <1>1, <1>3, ZenonT(40) DEF KeysInv, PayloadInv, KeyOf
<1>5. /\ j < N[c] /\ N[c] \in Nat /\ B[c] \in Nat
      /\ p.sending_message_sequence = B[c] + j + 1
  BY <1>2, <1>3, Zenon DEF Counts, MsgCount
<1>6. /\ Labelled(R) /\ R.root_key = w
      /\ w # 0 => R.receiver_chain = KeyAt(w - 1, i)
      /\ w # 0 => R.receiver_chain.ratchet_key = w - 1
  <2>1. Labelled(R) /\ R.root_key = w /\ (w # 0 => R.receiver_chain = KeyAt(w - 1, i))
    BY <1>0, Zenon DEF KeysInv, Labelled
  <2> QED BY <2>1, SMTT(20) DEF KeyAt
<1>7. w # 0 => i <= N[w - 1]
  BY <1>2, Zenon DEF Tally
<1>8. \A f, x \in Nat :
        Passed(R, KeyAt(f, x)) <=> w # 0 /\ (f < w - 1 \/ (f = w - 1 /\ x < i))
  BY <1>1, <1>6, PassedAt, Zenon
<1>9. \A f, x \in Nat : Older(KeyAt(f, x), KeyOf(msg)) <=> f < c \/ (f = c /\ x < j)
  <2> SUFFICES ASSUME NEW f \in Nat, NEW x \in Nat
               PROVE  Older(KeyAt(f, x), KeyAt(c, j)) <=> f < c \/ (f = c /\ x < j)
    BY <1>4, Zenon
  <2>1. KeyAt(f, x).ratchet_key = f /\ KeyAt(f, x).index = x
        /\ KeyAt(c, j).ratchet_key = c /\ KeyAt(c, j).index = j
    BY Zenon DEF KeyAt
  <2> QED BY <2>1, Zenon DEF Older
<1>10. /\ \A k \in Keys(e) : \E f, x \in Nat : k = KeyAt(f, x) /\ x < N[f]
       /\ \A f, x \in Nat : x < N[f] => KeyAt(f, x) \in Keys(e)
  <2>1. /\ \A l \in Keys(e) : \E f, x \in Nat :
              /\ l = KeyAt(f, x) /\ f % 2 = Side(e)
              /\ f <= session[e].root_sequence /\ x < N[f]
        /\ \A f, x \in Nat : x < N[f] => KeyAt(f, x) \in Keys(e)
    BY <1>0, <1>1, <1>2, KeysCounted, ZenonT(40)
  <2> QED BY <2>1, Zenon
<1>11. c # w /\ c <= w + 1
  BY <1>1, <1>3, SMTT(20)
<1>12. w = 0 => p.sending_message_sequence >= j
  BY <1>3, <1>5, SMTT(20)
(* The keys ahead on one chain. *)
<1>13. ASSUME NEW f \in Nat, NEW a \in Nat, NEW b \in Nat, a <= b,
              \A x \in Nat : (/\ x < N[f] /\ ~Passed(R, KeyAt(f, x))
                              /\ Older(KeyAt(f, x), KeyOf(msg))) <=> a <= x /\ x < b
       PROVE  b - a <= MAX
  <2>1. ASSUME NEW k, k \in Ahead(d, msg), k.ratchet_key = f PROVE k \in Span(f, a, b)
    <3>1. k \in Keys(e) /\ ~Passed(R, k) /\ Older(k, KeyOf(msg))
      BY <2>1, Zenon DEF Ahead
    <3>2. PICK g \in Nat, x \in Nat : k = KeyAt(g, x) /\ x < N[g]
      BY <1>10, <3>1, ZenonT(40)
    <3>3. g = f
      BY <2>1, <3>2, KeyAtTyped, ZenonT(40)
    <3>4. a <= x /\ x < b
      BY <1>13, <3>1, <3>2, <3>3, ZenonT(40)
    <3>5. x \in a..(b - 1)
      BY <3>4, SMTT(20)
    <3> QED BY <3>2, <3>3, <3>5, ZenonT(40) DEF Span
  <2>2. ASSUME NEW k \in Span(f, a, b) PROVE k \in Ahead(d, msg) /\ k.ratchet_key = f
    <3>1. PICK x \in a..(b - 1) : k = KeyAt(f, x)
      BY Zenon DEF Span
    <3>2. x \in Nat /\ a <= x /\ x < b
      BY <3>1, SMTT(20)
    <3>3. x < N[f] /\ ~Passed(R, KeyAt(f, x)) /\ Older(KeyAt(f, x), KeyOf(msg))
      BY <1>13, <3>2, Zenon
    <3>4. KeyAt(f, x) \in Keys(e)
      BY <1>10, <3>2, <3>3, Zenon
    <3>5. k.ratchet_key = f
      BY <3>1, <3>2, KeyAtTyped, ZenonT(40)
    <3> QED BY <3>1, <3>3, <3>4, <3>5, ZenonT(40) DEF Ahead
  <2> HIDE DEF MAX
  <2> QED BY <1>13, <2>1, <2>2, NearSpan, ZenonT(40) DEF MAX
<1>T. w \in Nat /\ i \in Nat /\ c \in Nat /\ j \in Nat
  BY <1>1, <1>3, Zenon
<1>P. p \in Payload /\ p.sequence = j /\ p.sealed_with = KeyAt(c, j)
  BY <1>3, <1>4, Zenon
<1> HIDE DEF e, R, p, w, i, c, j, MAX
<1> SUFFICES decrypt_ratchet_ok(R, p)
  BY Zenon DEF R, p
<1>14. CASE c < w - 1 \/ (c = w - 1 /\ j < i)
  <2>1. w # 0
    BY <1>1, <1>3, <1>14, SMTT(20)
  <2>2. Passed(R, KeyOf(msg))
    BY <1>3, <1>4, <1>8, <1>14, <2>1, ZenonT(40)
  <2>3. skipped_hits(R, p) # {}
    BY <2>2, OpensSkipped, Zenon DEF R, p
  <2>4. is_skipped(R, p)
    <3>1. c = w - 1 => on_current_chain(R, p)
      BY <1>4, <1>6, <2>1, Zenon DEF on_current_chain, c, w
    <3> QED BY <1>1, <1>3, <1>14, <3>1, Zenon DEF is_skipped, c, w, i, j
  <2>5. ~is_new_chain(R, p)
    BY <1>1, <1>3, <2>4, OneKind, Zenon
  <2> QED BY <1>12, <2>1, <2>3, <2>4, <2>5, ZenonT(40) DEF decrypt_ratchet_ok, opens, w
<1>15. CASE c = w - 1 /\ i <= j
  <2>1. w # 0 /\ w - 1 \in Nat
    BY <1>1, <1>3, <1>15, SMTT(20)
  <2>2. is_existing_chain(R, p)
    BY <1>4, <1>6, <1>15, <2>1, ZenonT(40) DEF is_existing_chain, on_current_chain, c, w, i, j
  <2>3. ~is_new_chain(R, p)
    BY <1>1, <1>3, <2>2, OneKind, ZenonT(40)
  <2>4. verify_and_decrypt_for_existing_chain(R.receiver_chain, p)
    <3>1. R.receiver_chain = KeyAt(c, i)
      BY <1>6, <1>15, <2>1, ZenonT(40)
    <3>2. verify_and_decrypt_for_existing_chain(KeyAt(c, i), p)
      BY <1>T, <1>P, <1>15, OpensOnChain, ZenonT(40)
    <3> QED BY <3>1, <3>2, Zenon
  <2>5. j - i <= MAX
    <3>1. ASSUME NEW x \in Nat
          PROVE  (/\ x < N[c] /\ ~Passed(R, KeyAt(c, x))
                  /\ Older(KeyAt(c, x), KeyOf(msg))) <=> i <= x /\ x < j
      <4>1. Passed(R, KeyAt(c, x)) <=> x < i
        BY <1>T, <1>8, <1>15, <2>1, SMTT(20)
      <4>2. Older(KeyAt(c, x), KeyOf(msg)) <=> x < j
        BY <1>T, <1>9, SMTT(20)
      <4> QED BY <1>1, <1>3, <1>5, <4>1, <4>2, SMTT(20)
    <3> QED BY <1>1, <1>3, <1>13, <1>15, <3>1, ZenonT(40)
  <2>6. skipped_in_chain(with_chain(R, p), p) = j - i
    BY <2>3, Zenon DEF skipped_in_chain, with_chain, i, j
  <2> QED BY <1>12, <2>1, <2>2, <2>3, <2>4, <2>5, <2>6, ZenonT(40) DEF decrypt_ratchet_ok, opens, w, MAX
<1>16. CASE c = w + 1
  <2>1. is_new_chain(R, p) /\ c # 0
    BY <1>1, <1>16, SMTT(20) DEF is_new_chain, c, w
  <2>2. create_chain_key(R.root_key, p.ratchet_key) = KeyAt(c, 0)
    BY <1>1, <1>4, <1>6, <1>16, SMTT(20) DEF create_chain_key, KeyAt, RootOf
  <2>3. verify_and_decrypt_for_new_chain(R, p)
    <3>0. 0 \in Nat /\ 0 <= j
      BY <1>T, SMTT(20)
    <3>1. verify_and_decrypt_for_existing_chain(KeyAt(c, 0), p)
      BY <1>T, <1>P, <3>0, OpensOnChain, ZenonT(40)
    <3> QED BY <2>1, <2>2, <3>1, ZenonT(40) DEF verify_and_decrypt_for_new_chain, c
  <2>4. j - 0 <= MAX
    <3>0. PICK z \in Nat : z = 0
      BY Zenon
    <3>1. ASSUME NEW x \in Nat
          PROVE  (/\ x < N[c] /\ ~Passed(R, KeyAt(c, x))
                  /\ Older(KeyAt(c, x), KeyOf(msg))) <=> z <= x /\ x < j
      <4>1. ~Passed(R, KeyAt(c, x))
        BY <1>1, <1>3, <1>8, <1>16, SMTT(20)
      <4>2. Older(KeyAt(c, x), KeyOf(msg)) <=> x < j
        BY <1>T, <1>9, SMTT(20)
      <4> QED BY <1>T, <1>5, <3>0, <4>1, <4>2, SMTT(20)
    <3>2. z <= j
      BY <1>T, <3>0, SMTT(20)
    <3>3. j - z <= MAX
      BY <1>T, <1>13, <3>1, <3>2, ZenonT(40)
    <3> QED BY <3>0, <3>3, ZenonT(40)
  <2>5. skipped_in_chain(with_chain(R, p), p) = j - 0
    <3>1. with_chain(R, p).receiver_chain = KeyAt(c, 0)
      <4>1. with_chain(R, p) = start_new_chains(R, p)
        BY <2>1, Zenon DEF with_chain
      <4>2. start_new_chains(R, p).receiver_chain = create_chain_key(R.root_key, p.ratchet_key)
        BY <1>1, Zenon DEF start_new_chains, save_skipped_keys, RatchetState
      <4> QED BY <2>2, <4>1, <4>2, ZenonT(40)
    <3>2. KeyAt(c, 0).index = 0
      BY Zenon DEF KeyAt
    <3> QED BY <1>P, <3>1, <3>2, ZenonT(40) DEF skipped_in_chain
  <2>6. skipped_in_previous_chain(R, p) = IF w = 0 THEN 0 ELSE N[w - 1] - i
    BY <1>0, <1>2, <2>1, SkipExact, ZenonT(40) DEF R, p, w, i, e
  <2>7. previous_chain_ok(R, p)
    <3>1. CASE w = 0
      BY <2>6, <3>1, MaxSkippedAssumption, SMTT(20) DEF previous_chain_ok
    <3>2. CASE w # 0
      <4>1. PICK f \in Nat : f = w - 1
        BY <1>1, <3>2, SMTT(20)
      <4>2. ASSUME NEW x \in Nat
            PROVE  (/\ x < N[f] /\ ~Passed(R, KeyAt(f, x))
                    /\ Older(KeyAt(f, x), KeyOf(msg))) <=> i <= x /\ x < N[f]
        <5>1. Passed(R, KeyAt(f, x)) <=> x < i
          BY <1>T, <1>8, <3>2, <4>1, SMTT(20)
        <5>2. Older(KeyAt(f, x), KeyOf(msg))
          BY <1>1, <1>3, <1>9, <1>16, <4>1, SMTT(20)
        <5> QED BY <1>1, <5>1, <5>2, SMTT(20)
      <4>3. N[f] \in Nat /\ i <= N[f]
        BY <1>7, <3>2, <4>1, ZenonT(40)
      <4>4. N[f] - i <= MAX
        BY <1>1, <1>13, <4>2, <4>3, ZenonT(40)
      <4>5. is_valid_chain_key(R.receiver_chain)
        <5>1. R.receiver_chain.ratchet_key # -1
          BY <1>1, <1>6, <3>2, SMTT(20)
        <5> QED BY <5>1, SMTT(20) DEF is_valid_chain_key, NoChainKey
      <4> QED BY <2>6, <3>2, <4>1, <4>4, <4>5, ZenonT(40) DEF previous_chain_ok, MAX
    <3> QED BY <3>1, <3>2, ZenonT(40)
  <2> QED BY <1>12, <2>1, <2>3, <2>4, <2>5, <2>7, ZenonT(40) DEF decrypt_ratchet_ok, opens, MAX, w, j
<1> QED BY <1>1, <1>3, <1>11, <1>14, <1>15, <1>16, SMTT(20)

(* Every sealed message that has not come in can be opened now, whatever came
   before it and in whatever order, as long as decrypt_ratchet has not dropped
   its key and need not keep more than the limit of keys on one chain. *)
THEOREM AlwaysDecryptable ==
  ASSUME Serialised, ~Crashing
  PROVE  Spec => []StaysDecryptable
<1>1. Init => ExactInv
  BY InitExact, Zenon
<1>2. ExactInv /\ [Next]_vars => ExactInv'
  BY NextExact, Zenon
<1>3. ExactInv => StaysDecryptable
  BY ExactOpens, Zenon DEF StaysDecryptable
<1> QED BY <1>1, <1>2, <1>3, PTL DEF Spec
=============================================================================
