------------------------ MODULE One2oneCount_proofs ------------------------
(***************************************************************************)
(* The counters of encrypt_ratchet and decrypt_ratchet: what a session has *)
(* sent and received agrees with the keys its writer has used.  Devices do *)
(* not stop in the middle of a send here: a key used twice is counted once.*)
(***************************************************************************)
EXTENDS One2oneMsg_proofs

(* The message keys of a device by chain and place. *)
RootOf(c) == IF c = 0 THEN 0 ELSE c - 1

KeyAt(c, i) == [root |-> RootOf(c), ratchet_key |-> c, index |-> i]

-----------------------------------------------------------------------------
(***************************************************************************)
(* The ledger of a writer: N counts the keys it has used on each of its    *)
(* chains and B those of the chains before.                                *)
(***************************************************************************)
Keys(e) == {KeyOf(m) : m \in Sealed(e)}

Labelled(r) ==
  /\ r.root_key = r.root_sequence
  /\ r.sender_chain = KeyAt(r.root_sequence, r.sender_chain.index)
  /\ r.receiver_chain = IF r.root_sequence = 0 THEN NoChainKey
                        ELSE KeyAt(r.root_sequence - 1, r.receiver_chain.index)

KeysInv ==
  /\ \A d \in Device : Labelled(session[d])
  /\ \A d \in Device : \A m \in Sealed(d) :
       KeyOf(m) = KeyAt(m.payload.root_sequence, m.payload.sequence)

Busy(e) == \E t \in Thread : sending[e][t].active

(* The counters of e's messages agree with the ledger. *)
MsgCount(e, N, B) ==
  \A m \in Sealed(e) :
    /\ m.payload.sequence < N[m.payload.root_sequence]
    /\ m.payload.sending_message_sequence =
         B[m.payload.root_sequence] + m.payload.sequence + 1

KeyCount(e, N) == \A c, i \in Nat : i < N[c] => KeyAt(c, i) \in Keys(e)

ChainCount(e, N, B) ==
  /\ \A c \in Nat : c % 2 = Side(e) /\ c < session[e].root_sequence =>
       B[c + 2] = B[c] + N[c]
  /\ \A c, f \in Nat :
       c % 2 = Side(e) /\ f % 2 = Side(e) /\ c < f /\ f <= session[e].root_sequence =>
         B[c] + N[c] <= B[f]

(* So do those of its session. *)
HeadCount(e, N, B) ==
  /\ session[e].sending_message_sequence =
       B[session[e].root_sequence] + session[e].sender_chain.index
  /\ N[session[e].root_sequence] =
       IF Busy(e) THEN session[e].sender_chain.index + 1 ELSE session[e].sender_chain.index

Counts(e, N, B) ==
  /\ B[Side(e)] = 0
  /\ MsgCount(e, N, B)
  /\ KeyCount(e, N)
  /\ ChainCount(e, N, B)
  /\ HeadCount(e, N, B)

(* So does the total of the reader d. *)
Tally(d, N, B) ==
  IF session[d].root_sequence = 0
    THEN session[d].received_message_sequence = 0
    ELSE LET c == session[d].root_sequence - 1
         IN  /\ session[d].received_message_sequence = B[c] + session[d].receiver_chain.index
             /\ session[d].receiver_chain.index <= N[c]

CountInv ==
  \A e \in Device : \E N, B \in [Nat -> Nat] : Counts(e, N, B) /\ Tally(Peer(e), N, B)

LedgerInv ==
  /\ OnceInv
  /\ \A d \in Device : interrupted[d] = {}
  /\ KeysInv
  /\ CountInv

LEMMA InitLedger == Init => LedgerInv
<1> SUFFICES ASSUME Init PROVE LedgerInv
  BY Zenon
<1>1. OnceInv /\ \A d \in Device : interrupted[d] = {}
  BY InitOnce, Zenon DEF Init
<1>2. \A d \in Device : Sealed(d) = {} /\ Keys(d) = {} /\ ~Busy(d)
  BY Zenon DEF Init, Idle, Sealed, Keys, Busy
<1>3. /\ session[Alice] = initialise_as_alice /\ session[Bob] = initialise_as_bob
      /\ Peer(Alice) = Bob /\ Peer(Bob) = Alice /\ Side(Alice) = 1 /\ Side(Bob) = 0
  BY DeviceAssumption, Zenon DEF Init, Device, Peer, Side
<1>4. Labelled(initialise_as_alice) /\ Labelled(initialise_as_bob)
  BY DEF Labelled, initialise_as_alice, initialise_as_bob, create_chain_key, KeyAt, RootOf
<1>5. KeysInv
  BY <1>2, <1>3, <1>4, Zenon DEF KeysInv, Device
<1>6. CountInv
  <2> DEFINE Z == [c \in Nat |-> 0]
  <2>1. Z \in [Nat -> Nat] /\ \A c \in Nat : Z[c] = 0
    BY Zenon
  <2> HIDE DEF Z
  <2>2. ASSUME NEW e \in Device PROVE Counts(e, Z, Z)
    <3>1. session[e].root_sequence = Side(e) /\ Side(e) \in Nat
          /\ session[e].sending_message_sequence = 0
          /\ session[e].sender_chain.index = 0
      BY <1>3 DEF Device, initialise_as_alice, initialise_as_bob, create_chain_key
    <3>2. \A c \in Nat : c % 2 = Side(e) => c >= Side(e)
      BY <1>3 DEF Device
    <3> QED BY <3>1, <3>2, <2>1, <1>2 DEF Counts, MsgCount, KeyCount, ChainCount, HeadCount
  <2>3. ASSUME NEW d \in Device PROVE Tally(d, Z, Z)
    BY <1>3, <2>1 DEF Device, Tally, initialise_as_alice, initialise_as_bob, create_chain_key
  <2>4. \A e \in Device : Peer(e) \in Device
    BY Zenon DEF Peer, Device
  <2> QED BY <2>1, <2>2, <2>3, <2>4, Zenon DEF CountInv
<1> QED BY <1>1, <1>5, <1>6, Zenon DEF LedgerInv

-----------------------------------------------------------------------------
(***************************************************************************)
(* The steps, as the sealed messages and the sessions see them.            *)
(***************************************************************************)
SealsOnly(d, new) ==
  \A e \in Device : Sealed(e)' = IF e = d THEN Sealed(e) \cup new ELSE Sealed(e)

(* The dispatch of a send of d. *)
Seals(d) ==
  /\ SealsOnly(d, {e2ee_msg(d, session[d])})
  /\ ~Busy(d) /\ Busy(d)'
  /\ \A e \in Device : e # d => Busy(e)' = Busy(e)
  /\ UNCHANGED <<session, received, pruned>>

(* Its response. *)
Stores(d) ==
  /\ SealsOnly(d, {})
  /\ Busy(d) /\ ~Busy(d)'
  /\ \A e \in Device : e # d => Busy(e)' = Busy(e)
  /\ session' = [session EXCEPT ![d] = encrypt_ratchet(session[d])]
  /\ UNCHANGED <<received, pruned>>

(* A message that d opens. *)
Reads(d, msg) ==
  /\ msg \in server
  /\ msg.from = Peer(d)
  /\ decrypt_ratchet_ok(session[d], msg.payload)
  /\ SealsOnly(d, {})
  /\ ~Busy(d)
  /\ \A e \in Device : Busy(e)' = Busy(e)
  /\ session' = [session EXCEPT ![d] = decrypt_ratchet(session[d], msg.payload)]
  /\ received' = [received EXCEPT ![d] = @ \cup {msg}]
  /\ pruned' = [pruned EXCEPT ![d] = @ \cup PrunedKeys(session[d], msg.payload)]

(* Anything else. *)
Quiet ==
  /\ \A e \in Device : Sealed(e)' = Sealed(e) /\ Busy(e)' = Busy(e)
  /\ UNCHANGED <<session, received, pruned>>

LEMMA Steps ==
  ASSUME Serialised, ~Crashing, OnceInv, [Next]_vars
  PROVE  /\ interrupted' = interrupted
         /\ \/ \E d \in Device : Seals(d) \/ Stores(d)
            \/ \E d \in Device, msg \in server : Reads(d, msg)
            \/ Quiet
<1> DEFINE Kinds == /\ interrupted' = interrupted
                    /\ \/ \E d \in Device : Seals(d) \/ Stores(d)
                       \/ \E d \in Device, msg \in server : Reads(d, msg)
                       \/ Quiet
<1>0. TypeOK /\ SendInv /\ FromInv
  BY Zenon DEF OnceInv, RootsInv, ReplayInv, TypedInv
<1>1. ASSUME NEW d \in Device, NEW t \in Thread, NEW reaches \in BOOLEAN,
             send_one2one_msg_dispatch(d, t, reaches)
      PROVE  Kinds
  <2> DEFINE m == e2ee_msg(d, session[d])
  <2>1. /\ UNCHANGED <<session, pending, received, pruned, interrupted>>
        /\ server' = IF reaches THEN server \cup {m} ELSE server
        /\ \A u \in Thread : ~sending[d][u].active
    BY <1>1, Zenon DEF send_one2one_msg_dispatch, MayRun
  <2>2. /\ sending'[d][t].active /\ sending'[d][t].msg = m
        /\ \A e \in Device : \A u \in Thread :
              (e # d \/ u # t) => sending'[e][u] = sending[e][u]
    BY <1>1, <1>0, Zenon DEF send_one2one_msg_dispatch, TypeOK
  <2>3. m.from = d
    BY Zenon DEF e2ee_msg
  <2>4. SealsOnly(d, {m})
    <3> HIDE DEF m
    <3>1. ASSUME NEW e \in Device PROVE Sealed(e)' = IF e = d THEN Sealed(e) \cup {m} ELSE Sealed(e)
      <4>1. CASE e = d
        BY <4>1, <2>1, <2>2, <2>3, SMTT(20) DEF Sealed
      <4>2. CASE e # d
        BY <4>2, <2>1, <2>2, <2>3, SMTT(20) DEF Sealed
      <4> QED BY <4>1, <4>2, Zenon
    <3> QED BY <3>1, Zenon DEF SealsOnly
  <2>5. ~Busy(d) /\ Busy(d)' /\ \A e \in Device : e # d => Busy(e)' = Busy(e)
    BY <2>1, <2>2, Zenon DEF Busy
  <2> QED BY <2>1, <2>4, <2>5, Zenon DEF Seals
<1>2. ASSUME NEW d \in Device, NEW t \in Thread, NEW ok \in BOOLEAN,
             send_one2one_msg_response(d, t, ok)
      PROVE  Kinds
  <2> DEFINE m == sending[d][t].msg
  <2>1. /\ sending[d][t].active /\ m.from = d /\ (ok => m \in server)
        /\ sending[d][t].ratchet = encrypt_ratchet(session[d])
        /\ \A u \in Thread : sending[d][u].active => u = t
    BY <1>2, <1>0, Zenon DEF send_one2one_msg_response, FromInv, SendInv
  <2>2. /\ session' = [session EXCEPT ![d] = encrypt_ratchet(session[d])]
        /\ UNCHANGED <<server, received, pruned, interrupted>>
    BY <1>2, <2>1, Zenon DEF send_one2one_msg_response
  <2>3. \A e \in Device : \A u \in Thread :
          sending'[e][u] = IF e = d /\ u = t THEN Idle ELSE sending[e][u]
    BY <1>2, <1>0, Zenon DEF send_one2one_msg_response, TypeOK
  <2>4. \A e \in Device : pending'[e] = IF e = d /\ ~ok THEN pending[e] \cup {m} ELSE pending[e]
    BY <1>2, <1>0, Zenon DEF send_one2one_msg_response, TypeOK
  <2> HIDE DEF m
  <2>5. ASSUME NEW e \in Device PROVE Sealed(e)' = Sealed(e)
    <3>1. CASE e = d
      <4>1. m \in Sealed(d)
        BY <2>1, Zenon DEF Sealed, m
      <4>2. m \in Sealed(d)'
        BY <2>1, <2>2, <2>4, Zenon DEF Sealed
      <4>3. ASSUME NEW x \in Sealed(d)' PROVE x \in Sealed(d)
        <5>1. CASE x \in server /\ x.from = d
          BY <5>1, Zenon DEF Sealed
        <5>2. CASE x \in pending'[d]
          BY <5>2, <4>1, <2>4, Zenon DEF Sealed
        <5>3. ASSUME NEW u \in Thread, sending'[d][u].active, x = sending'[d][u].msg
              PROVE  x \in Sealed(d)
          BY <5>3, <2>1, <2>3 DEF Idle
        <5> QED BY <4>3, <5>1, <5>2, <5>3, <2>2, Zenon DEF Sealed
      <4>4. ASSUME NEW x \in Sealed(d) PROVE x \in Sealed(d)'
        <5>1. CASE x \in server /\ x.from = d
          BY <5>1, <2>2, Zenon DEF Sealed
        <5>2. CASE x \in pending[d]
          BY <5>2, <2>4, Zenon DEF Sealed
        <5>3. ASSUME NEW u \in Thread, sending[d][u].active, x = sending[d][u].msg
              PROVE  x \in Sealed(d)'
          <6>1. x = m
            BY <5>3, <2>1, Zenon DEF m
          <6> QED BY <6>1, <4>2, Zenon
        <5> QED BY <4>4, <5>1, <5>2, <5>3, Zenon DEF Sealed
      <4> QED BY <3>1, <4>3, <4>4
    <3>2. CASE e # d
      <4>1. pending'[e] = pending[e] /\ \A u \in Thread : sending'[e][u] = sending[e][u]
        BY <3>2, <2>3, <2>4, Zenon
      <4> QED BY <4>1, <2>2, Zenon DEF Sealed
    <3> QED BY <3>1, <3>2, Zenon
  <2>6. SealsOnly(d, {})
    BY <2>5, Zenon DEF SealsOnly
  <2>7. Busy(d) /\ ~Busy(d)' /\ \A e \in Device : e # d => Busy(e)' = Busy(e)
    BY <2>1, <2>3 DEF Busy, Idle
  <2> QED BY <2>2, <2>6, <2>7, Zenon DEF Stores
<1>3. ASSUME NEW d \in Device, NEW msg \in pending[d],
             NEW reaches \in BOOLEAN, NEW ok \in BOOLEAN,
             resend_pending_request(d, msg, reaches, ok)
      PROVE  Kinds
  <2>1. /\ server' = IF reaches THEN server \cup {msg} ELSE server
        /\ ok => reaches
        /\ \A e \in Device : pending'[e] = IF e = d /\ ok THEN pending[e] \ {msg} ELSE pending[e]
        /\ UNCHANGED <<session, sending, received, pruned, interrupted>>
        /\ msg.from = d
    BY <1>3, <1>0, Zenon DEF resend_pending_request, TypeOK, FromInv
  <2>2. ASSUME NEW e \in Device PROVE Sealed(e)' = Sealed(e)
    <3>1. CASE e = d
      BY <3>1, <2>1, Zenon DEF Sealed
    <3>2. CASE e # d
      BY <3>2, <2>1, Zenon DEF Sealed
    <3> QED BY <3>1, <3>2, Zenon
  <2>3. \A e \in Device : Busy(e)' = Busy(e)
    BY <2>1, Zenon DEF Busy
  <2> QED BY <2>1, <2>2, <2>3, Zenon DEF Quiet
<1>4. ASSUME NEW d \in Device, NEW msg \in server, consume_one2one_msg(d, msg)
      PROVE  Kinds
  <2>1. /\ msg.from = Peer(d)
        /\ decrypt_ratchet_ok(session[d], msg.payload)
        /\ session' = [session EXCEPT ![d] = decrypt_ratchet(session[d], msg.payload)]
        /\ received' = [received EXCEPT ![d] = @ \cup {msg}]
        /\ pruned' = [pruned EXCEPT ![d] = @ \cup PrunedKeys(session[d], msg.payload)]
        /\ UNCHANGED <<sending, pending, server, interrupted>>
        /\ ~Busy(d)
    BY <1>4, Zenon DEF consume_one2one_msg, MayRun, Busy
  <2>2. \A e \in Device : Sealed(e)' = Sealed(e) /\ Busy(e)' = Busy(e)
    BY <2>1, Zenon DEF Sealed, Busy
  <2> QED BY <2>1, <2>2, Zenon DEF Reads, SealsOnly
<1>5. ASSUME NEW d \in Device, Crash(d) PROVE Kinds
  BY <1>5, Zenon DEF Crash
<1>6. ASSUME UNCHANGED vars PROVE Kinds
  BY <1>6, Zenon DEF vars, Quiet, Sealed, Busy
<1> QED BY <1>1, <1>2, <1>3, <1>4, <1>5, <1>6, Zenon DEF Next, consume_one2one_msg_failed

-----------------------------------------------------------------------------
(***************************************************************************)
(* The labels of the keys.                                                 *)
(***************************************************************************)
LEMMA KeyAtTyped ==
  ASSUME NEW c \in Nat, NEW i \in Nat
  PROVE  /\ KeyAt(c, i) \in ChainKey
         /\ KeyAt(c, i).ratchet_key = c /\ KeyAt(c, i).index = i /\ KeyAt(c, i).root = RootOf(c)
BY DEF KeyAt, RootOf, ChainKey

LEMMA SessionKnown ==
  ASSUME OnceInv, NEW d \in Device
  PROVE  /\ session[d] \in RatchetState /\ RatchetInv(session[d])
         /\ session[d].root_sequence \in Nat /\ session[d].root_key \in Nat
         /\ session[d].root_sequence % 2 = Side(d)
         /\ session[d].sender_chain \in ChainKey /\ session[d].sender_chain.index \in Nat
         /\ session[d].receiver_chain \in ChainKey /\ session[d].receiver_chain.index \in Nat
         /\ session[d].sending_message_sequence \in Nat
         /\ session[d].received_message_sequence \in Nat
<1>1. /\ session[d] \in RatchetState /\ RatchetInv(session[d])
      /\ session[d].root_sequence % 2 = Side(d)
  BY Zenon DEF OnceInv, RootsInv, ReplayInv, TypedInv, TypeOK, LabelInv, StepsInv
<1> QED BY <1>1, Zenon DEF RatchetState, ChainKey

LEMMA PeerKnown ==
  ASSUME OnceInv, NEW d \in Device
  PROVE  /\ Peer(d) \in Device /\ Peer(d) # d /\ Peer(Peer(d)) = d
         /\ \A e \in Device : e = d \/ e = Peer(d)
         /\ Side(d) \in {0, 1} /\ Side(Peer(d)) = 1 - Side(d)
         /\ \/ session[d].root_sequence = session[Peer(d)].root_sequence + 1
            \/ session[Peer(d)].root_sequence = session[d].root_sequence + 1
<1>1. \/ session[Alice].root_sequence = session[Bob].root_sequence + 1
      \/ session[Bob].root_sequence = session[Alice].root_sequence + 1
  BY Zenon DEF OnceInv, RootsInv, StepsInv
<1> QED BY <1>1, DeviceAssumption DEF Peer, Device, Side

LEMMA SealedKnown ==
  ASSUME OnceInv, NEW d \in Device, NEW m \in Sealed(d)
  PROVE  /\ m \in Msg /\ m.from = d /\ m.payload \in Payload
         /\ PayloadInv(m.payload)
         /\ m.payload.root_sequence \in Nat /\ m.payload.sequence \in Nat
         /\ m.payload.sending_message_sequence \in Nat
         /\ m.payload.root_sequence <= session[d].root_sequence
         /\ m.payload.root_sequence % 2 = Side(d)
<1>1. m \in Msg /\ m.from = d
  BY SealedTyped, Zenon DEF OnceInv
<1>2. LabelInv /\ StepsInv
  BY Zenon DEF OnceInv, RootsInv, ReplayInv, TypedInv
<1>3. PayloadInv(m.payload) /\ NotAhead(m)
  BY <1>2, Zenon DEF Sealed, LabelInv, StepsInv
<1> QED BY <1>1, <1>3, Zenon DEF Msg, Payload, NotAhead

LEMMA EncryptLabelled ==
  ASSUME NEW r \in RatchetState, Labelled(r)
  PROVE  Labelled(encrypt_ratchet(r))
<1>1. r.sender_chain = KeyAt(r.root_sequence, r.sender_chain.index)
  BY Zenon DEF Labelled
<1>2. /\ encrypt_ratchet(r).sender_chain = [r.sender_chain EXCEPT !.index = r.sender_chain.index + 1]
      /\ encrypt_ratchet(r).root_key = r.root_key
      /\ encrypt_ratchet(r).root_sequence = r.root_sequence
      /\ encrypt_ratchet(r).receiver_chain = r.receiver_chain
  BY Zenon DEF encrypt_ratchet, advance_chain_key, RatchetState, ChainKey
<1>3. encrypt_ratchet(r).sender_chain = KeyAt(r.root_sequence, r.sender_chain.index + 1)
  BY <1>1, <1>2 DEF KeyAt
<1>4. encrypt_ratchet(r).sender_chain.index = r.sender_chain.index + 1
  BY <1>3 DEF KeyAt
<1> QED BY <1>2, <1>3, <1>4, Zenon DEF Labelled

LEMMA DecryptLabelled ==
  ASSUME NEW r \in RatchetState, NEW p \in Payload, PayloadInv(p), RatchetInv(r),
         decrypt_ratchet_ok(r, p), Labelled(r)
  PROVE  Labelled(decrypt_ratchet(r, p))
<1> DEFINE q == decrypt_ratchet(r, p)
<1>1. Stepped(r, p, q)
  BY DecryptKeys, Zenon
<1>2. r.root_sequence \in Nat /\ p.root_sequence \in Nat /\ p.sequence \in Nat
      /\ p.ratchet_key = p.root_sequence
  BY Zenon DEF RatchetState, Payload, PayloadInv
<1> HIDE DEF q
<1>3. CASE is_skipped(r, p)
  <2>1. ~is_new_chain(r, p)
    BY <1>3, OneKind, Zenon
  <2> QED BY <1>1, <1>3, <2>1, Zenon DEF Stepped, Labelled, q
<1>4. CASE is_existing_chain(r, p)
  <2>1. ~is_new_chain(r, p) /\ r.root_sequence # 0
    BY <1>2, <1>4, OneKind DEF is_existing_chain, on_current_chain
  <2>2. r.receiver_chain = KeyAt(r.root_sequence - 1, r.receiver_chain.index)
    BY <2>1, Zenon DEF Labelled
  <2>3. q.receiver_chain = [r.receiver_chain EXCEPT !.index = p.sequence + 1]
    BY <1>1, <1>4, Zenon DEF Stepped
  <2>4. q.receiver_chain = KeyAt(r.root_sequence - 1, p.sequence + 1)
    BY <2>2, <2>3 DEF KeyAt
  <2>5. q.receiver_chain.index = p.sequence + 1
    BY <2>4 DEF KeyAt
  <2> QED BY <1>1, <2>1, <2>4, <2>5, Zenon DEF Stepped, Labelled, q
<1>5. CASE is_new_chain(r, p)
  <2>1. p.ratchet_key = r.root_sequence + 1 /\ r.root_key = r.root_sequence
    BY <1>2, <1>5, Zenon DEF is_new_chain, Labelled
  <2>2. /\ q.receiver_chain =
             [create_chain_key(r.root_key, p.ratchet_key) EXCEPT !.index = p.sequence + 1]
        /\ q.sender_chain = create_chain_key(p.ratchet_key, p.ratchet_key + 1)
        /\ q.root_key = p.ratchet_key + 1
        /\ q.root_sequence = r.root_sequence + 2
    BY <1>1, <1>5, Zenon DEF Stepped
  <2>3. q.receiver_chain = KeyAt(r.root_sequence + 1, p.sequence + 1)
    BY <1>2, <2>1, <2>2 DEF KeyAt, RootOf, create_chain_key
  <2>4. q.sender_chain = KeyAt(r.root_sequence + 2, 0)
    BY <1>2, <2>1, <2>2 DEF KeyAt, RootOf, create_chain_key
  <2>5. q.receiver_chain.index = p.sequence + 1 /\ q.sender_chain.index = 0
    BY <2>3, <2>4 DEF KeyAt
  <2>6. q.root_key = q.root_sequence /\ q.root_sequence # 0
        /\ q.root_sequence - 1 = r.root_sequence + 1
    BY <1>2, <2>1, <2>2
  <2> QED BY <2>2, <2>3, <2>4, <2>5, <2>6, Zenon DEF Labelled, q
<1> QED BY <1>3, <1>4, <1>5, Zenon DEF decrypt_ratchet_ok, opens

(* The payload of a message that a device reads. *)
LEMMA ReadKnown ==
  ASSUME OnceInv, NEW d \in Device, NEW msg \in server, Reads(d, msg)
  PROVE  /\ msg \in Sealed(Peer(d))
         /\ msg.payload \in Payload /\ PayloadInv(msg.payload)
         /\ Consumed(session[d], msg.payload, decrypt_ratchet(session[d], msg.payload),
                     PrunedKeys(session[d], msg.payload))
<1>1. msg \in Sealed(Peer(d)) /\ decrypt_ratchet_ok(session[d], msg.payload)
  BY Zenon DEF Reads, Sealed
<1>2. msg.payload \in Payload /\ PayloadInv(msg.payload)
  BY <1>1, PeerKnown, SealedKnown, Zenon
<1> QED BY <1>1, <1>2, SessionKnown, DecryptConsumes, Zenon

(* The message that a device seals. *)
LEMMA NewMsg ==
  ASSUME NEW d
  PROVE  LET m == e2ee_msg(d, session[d])
         IN  /\ KeyOf(m) = session[d].sender_chain
             /\ m.payload.root_sequence = session[d].root_sequence
             /\ m.payload.sequence = session[d].sender_chain.index
             /\ m.payload.sending_message_sequence = session[d].sending_message_sequence + 1
BY Zenon DEF e2ee_msg, KeyOf, encrypted_payload

LEMMA NextKeys ==
  ASSUME Serialised, ~Crashing, LedgerInv, [Next]_vars
  PROVE  KeysInv'
<1>0. OnceInv /\ KeysInv /\ session \in [Device -> RatchetState]
  BY Zenon DEF LedgerInv, OnceInv, RootsInv, ReplayInv, TypedInv, TypeOK
<1> SUFFICES /\ \A d \in Device : Labelled(session'[d])
             /\ \A d \in Device : \A m \in Sealed(d)' :
                  KeyOf(m) = KeyAt(m.payload.root_sequence, m.payload.sequence)
  BY Zenon DEF KeysInv, Labelled, KeyOf, KeyAt, RootOf
<1>1. ASSUME NEW d \in Device, Seals(d)
      PROVE  /\ \A e \in Device : Labelled(session'[e])
             /\ \A e \in Device : \A m \in Sealed(e)' :
                  KeyOf(m) = KeyAt(m.payload.root_sequence, m.payload.sequence)
  <2> DEFINE x == e2ee_msg(d, session[d])
  <2>1. KeyOf(x) = KeyAt(x.payload.root_sequence, x.payload.sequence)
    BY <1>0, NewMsg, Zenon DEF KeysInv, Labelled
  <2>2. \A e \in Device : \A m \in Sealed(e)' : m \in Sealed(e) \/ m = x
    BY <1>1, Zenon DEF Seals, SealsOnly
  <2>3. session' = session
    BY <1>1, Zenon DEF Seals
  <2> HIDE DEF x
  <2> QED BY <2>1, <2>2, <2>3, <1>0, Zenon DEF KeysInv
<1>2. ASSUME NEW d \in Device, Stores(d)
      PROVE  /\ \A e \in Device : Labelled(session'[e])
             /\ \A e \in Device : \A m \in Sealed(e)' :
                  KeyOf(m) = KeyAt(m.payload.root_sequence, m.payload.sequence)
  <2>1. Labelled(encrypt_ratchet(session[d]))
    BY <1>0, EncryptLabelled, Zenon DEF KeysInv
  <2>2. \A e \in Device : session'[e] = session[e] \/ session'[e] = encrypt_ratchet(session[d])
    BY <1>0, <1>2, Zenon DEF Stores
  <2>3. \A e \in Device : Sealed(e)' = Sealed(e)
    BY <1>2, Zenon DEF Stores, SealsOnly
  <2>4. \A e \in Device : Labelled(session'[e])
    BY <2>1, <2>2, <1>0, Zenon DEF KeysInv
  <2> QED BY <2>3, <2>4, <1>0, Zenon DEF KeysInv
<1>3. ASSUME NEW d \in Device, NEW msg \in server, Reads(d, msg)
      PROVE  /\ \A e \in Device : Labelled(session'[e])
             /\ \A e \in Device : \A m \in Sealed(e)' :
                  KeyOf(m) = KeyAt(m.payload.root_sequence, m.payload.sequence)
  <2> DEFINE q == decrypt_ratchet(session[d], msg.payload)
  <2>1. Labelled(q)
    BY <1>0, <1>3, ReadKnown, SessionKnown, DecryptLabelled, Zenon DEF KeysInv, Reads
  <2> HIDE DEF q
  <2>2. \A e \in Device : session'[e] = session[e] \/ session'[e] = q
    BY <1>0, <1>3, Zenon DEF Reads, q
  <2>3. \A e \in Device : Sealed(e)' = Sealed(e)
    BY <1>3, Zenon DEF Reads, SealsOnly
  <2>4. \A e \in Device : Labelled(session'[e])
    BY <2>1, <2>2, <1>0, Zenon DEF KeysInv
  <2> QED BY <2>3, <2>4, <1>0, Zenon DEF KeysInv
<1>4. ASSUME Quiet
      PROVE  /\ \A e \in Device : Labelled(session'[e])
             /\ \A e \in Device : \A m \in Sealed(e)' :
                  KeyOf(m) = KeyAt(m.payload.root_sequence, m.payload.sequence)
  BY <1>0, <1>4, Zenon DEF Quiet, KeysInv
<1> QED BY <1>0, <1>1, <1>2, <1>3, <1>4, Steps, Zenon

-----------------------------------------------------------------------------
(***************************************************************************)
(* The ledgers.                                                            *)
(***************************************************************************)
LEMMA Parity ==
  \A c, r \in Nat : c % 2 = r % 2 => (c # r + 1 /\ (c < r + 2 => c <= r))
OBVIOUS

LEMMA CountsSame ==
  ASSUME NEW e, NEW N, NEW B, Counts(e, N, B),
         Sealed(e)' = Sealed(e), Busy(e)' = Busy(e),
         session'[e].root_sequence = session[e].root_sequence,
         session'[e].sender_chain = session[e].sender_chain,
         session'[e].sending_message_sequence = session[e].sending_message_sequence
  PROVE  Counts(e, N, B)'
<1>1. Keys(e)' = Keys(e)
  BY Zenon DEF Keys, KeyOf
<1>2. MsgCount(e, N, B)'
  BY Zenon DEF Counts, MsgCount
<1>3. KeyCount(e, N)'
  BY <1>1, Zenon DEF Counts, KeyCount, KeyAt, RootOf
<1>4. ChainCount(e, N, B)'
  BY Zenon DEF Counts, ChainCount, Side
<1>5. HeadCount(e, N, B)'
  BY Zenon DEF Counts, HeadCount
<1> QED BY <1>2, <1>3, <1>4, <1>5, Zenon DEF Counts, Side

LEMMA TallySame ==
  ASSUME NEW d, NEW N, NEW B, Tally(d, N, B),
         session'[d].root_sequence = session[d].root_sequence,
         session'[d].receiver_chain = session[d].receiver_chain,
         session'[d].received_message_sequence = session[d].received_message_sequence
  PROVE  Tally(d, N, B)'
BY Zenon DEF Tally

(* The dispatch of a send uses one more key of the current chain. *)
LEMMA SealsCount ==
  ASSUME LedgerInv, NEW d \in Device, Seals(d)
  PROVE  CountInv'
<1>0. OnceInv /\ KeysInv /\ CountInv
  BY Zenon DEF LedgerInv
<1> SUFFICES ASSUME NEW e \in Device
             PROVE  \E N, B \in [Nat -> Nat] : Counts(e, N, B)' /\ Tally(Peer(e), N, B)'
  BY Zenon DEF CountInv, Peer
<1>1. PICK N \in [Nat -> Nat], B \in [Nat -> Nat] : Counts(e, N, B) /\ Tally(Peer(e), N, B)
  BY <1>0, Zenon DEF CountInv
<1>2. session' = session
  BY Zenon DEF Seals
<1>3. CASE e # d
  <2>1. Sealed(e)' = Sealed(e) /\ Busy(e)' = Busy(e)
    BY <1>3, Zenon DEF Seals, SealsOnly
  <2>2. Counts(e, N, B)' /\ Tally(Peer(e), N, B)'
    BY <1>1, <1>2, <2>1, CountsSame, TallySame, Zenon
  <2> QED BY <2>2, Zenon
<1>4. CASE e = d
  <2> DEFINE x == e2ee_msg(d, session[d])
             c0 == session[d].root_sequence
             i0 == session[d].sender_chain.index
  <2>1. /\ c0 \in Nat /\ i0 \in Nat /\ session[d].sending_message_sequence \in Nat
        /\ session[d].sender_chain = KeyAt(c0, i0)
        /\ Side(d) \in {0, 1}
    BY <1>0, SessionKnown, PeerKnown, Zenon DEF KeysInv, Labelled
  <2>2. ~Busy(d) /\ Busy(d)' /\ Sealed(d)' = Sealed(d) \cup {x}
    BY Zenon DEF Seals, SealsOnly
  <2>3. /\ KeyOf(x) = KeyAt(c0, i0)
        /\ x.payload.root_sequence = c0
        /\ x.payload.sequence = i0
        /\ x.payload.sending_message_sequence = session[d].sending_message_sequence + 1
    BY <2>1, NewMsg, Zenon
  <2>4. \A m \in Sealed(d) : m.payload.root_sequence \in Nat /\ m.payload.sequence \in Nat
    BY <1>0, SealedKnown, Zenon
  <2> HIDE DEF x
  <2>5. /\ Counts(d, N, B) /\ N[c0] = i0
        /\ session[d].sending_message_sequence = B[c0] + i0
    BY <1>1, <1>4, <2>2, Zenon DEF Counts, HeadCount
  <2>6. PICK N1 \in [Nat -> Nat] :
          /\ N1[c0] = i0 + 1
          /\ \A c \in Nat : c # c0 => N1[c] = N[c]
          /\ \A c \in Nat : N[c] <= N1[c] /\ N[c] \in Nat /\ N1[c] \in Nat /\ B[c] \in Nat
    <3> DEFINE M == [N EXCEPT ![c0] = i0 + 1]
    <3>1. /\ M \in [Nat -> Nat] /\ M[c0] = i0 + 1
          /\ \A c \in Nat : c # c0 => M[c] = N[c]
          /\ \A c \in Nat : N[c] <= M[c] /\ N[c] \in Nat /\ M[c] \in Nat /\ B[c] \in Nat
      BY <2>1, <2>5
    <3> QED BY <3>1, Zenon
  <2>7. MsgCount(d, N1, B)'
    <3>1. /\ x.payload.sequence < N1[x.payload.root_sequence]
          /\ x.payload.sending_message_sequence =
               B[x.payload.root_sequence] + x.payload.sequence + 1
      <4>1. i0 < i0 + 1 /\ (B[c0] + i0) + 1 = B[c0] + i0 + 1
        BY <2>1
      <4> QED BY <4>1, <2>3, <2>5, <2>6, Zenon
    <3>2. ASSUME NEW m \in Sealed(d) PROVE
          /\ m.payload.sequence < N1[m.payload.root_sequence]
          /\ m.payload.sending_message_sequence =
               B[m.payload.root_sequence] + m.payload.sequence + 1
      <4>1. /\ m.payload.sequence < N[m.payload.root_sequence]
            /\ m.payload.sending_message_sequence =
                 B[m.payload.root_sequence] + m.payload.sequence + 1
        BY <2>5, Zenon DEF Counts, MsgCount
      <4>2. N[m.payload.root_sequence] <= N1[m.payload.root_sequence]
            /\ N[m.payload.root_sequence] \in Nat /\ N1[m.payload.root_sequence] \in Nat
        BY <2>4, <2>6, Zenon
      <4> QED BY <4>1, <4>2, <2>4, SMTT(20)
    <3> QED BY <3>1, <3>2, <2>2, Zenon DEF MsgCount
  <2>8. KeyCount(d, N1)'
    <3> SUFFICES ASSUME NEW c \in Nat, NEW i \in Nat, i < N1[c] PROVE KeyAt(c, i) \in Keys(d)'
      BY Zenon DEF KeyCount, KeyAt, RootOf
    <3>1. Keys(d)' = Keys(d) \cup {KeyOf(x)}
      BY <2>2, Zenon DEF Keys, KeyOf
    <3>2. CASE i < N[c]
      BY <3>1, <3>2, <2>5, Zenon DEF Counts, KeyCount
    <3>3. CASE ~(i < N[c])
      <4>1. c = c0 /\ i = i0
        <5>1. c = c0
          BY <3>3, <2>6, Zenon
        <5> QED BY <5>1, <3>3, <2>1, <2>5, <2>6, SMTT(20)
      <4> QED BY <4>1, <3>1, <2>3, Zenon
    <3> QED BY <3>2, <3>3, Zenon
  <2>9. ChainCount(d, N1, B)'
    <3>1. \A c \in Nat : c < c0 => N1[c] = N[c]
      BY <2>1, <2>6, SMTT(20)
    <3>2. ASSUME NEW c \in Nat, NEW f \in Nat, c < f, f <= c0 PROVE N1[c] = N[c]
      BY <3>2, <3>1, <2>1
    <3>3. session'[d].root_sequence = c0
      BY <1>2, Zenon
    <3> HIDE DEF c0
    <3>4. /\ \A c \in Nat : c % 2 = Side(d) /\ c < c0 => B[c + 2] = B[c] + N[c]
          /\ \A c, f \in Nat : c % 2 = Side(d) /\ f % 2 = Side(d) /\ c < f /\ f <= c0 =>
               B[c] + N[c] <= B[f]
      BY <2>5, Zenon DEF Counts, ChainCount, c0
    <3>5. /\ \A c \in Nat : c % 2 = Side(d) /\ c < c0 => B[c + 2] = B[c] + N1[c]
          /\ \A c, f \in Nat : c % 2 = Side(d) /\ f % 2 = Side(d) /\ c < f /\ f <= c0 =>
               B[c] + N1[c] <= B[f]
      BY <3>1, <3>2, <3>4, Zenon
    <3> QED BY <3>3, <3>5, Zenon DEF ChainCount, Side
  <2>10. HeadCount(d, N1, B)'
    BY <1>2, <2>2, <2>5, <2>6, Zenon DEF HeadCount
  <2>11. Counts(d, N1, B)'
    BY <2>5, <2>7, <2>8, <2>9, <2>10, Zenon DEF Counts, Side
  <2>12. Tally(Peer(d), N1, B)'
    <3> DEFINE R == session[Peer(d)]
               c == R.root_sequence - 1
    <3>1. Tally(Peer(d), N, B) /\ R.root_sequence \in Nat /\ R.receiver_chain.index \in Nat
      BY <1>0, <1>1, <1>4, PeerKnown, SessionKnown, Zenon
    <3>2. CASE R.root_sequence = 0
      BY <3>1, <3>2, <1>2, Zenon DEF Tally, Peer
    <3>3. CASE R.root_sequence # 0
      <4>1. c \in Nat
        BY <3>1, <3>3
      <4>2. N[c] <= N1[c] /\ N[c] \in Nat /\ N1[c] \in Nat
        BY <4>1, <2>6, Zenon
      <4>3. R.received_message_sequence = B[c] + R.receiver_chain.index
            /\ R.receiver_chain.index <= N[c]
        BY <3>1, <3>3, Zenon DEF Tally
      <4>4. R.receiver_chain.index <= N1[c]
        BY <3>1, <4>2, <4>3
      <4> QED BY <3>3, <4>3, <4>4, <1>2, Zenon DEF Tally, Peer
    <3> QED BY <3>2, <3>3, Zenon
  <2> QED BY <2>6, <2>11, <2>12, <1>4, Zenon
<1> QED BY <1>3, <1>4, Zenon

(* Its response moves the chain past that key. *)
LEMMA StoresCount ==
  ASSUME LedgerInv, NEW d \in Device, Stores(d)
  PROVE  CountInv'
<1>0. OnceInv /\ KeysInv /\ CountInv /\ session \in [Device -> RatchetState]
  BY Zenon DEF LedgerInv, OnceInv, RootsInv, ReplayInv, TypedInv, TypeOK
<1> SUFFICES ASSUME NEW e \in Device
             PROVE  \E N, B \in [Nat -> Nat] : Counts(e, N, B)' /\ Tally(Peer(e), N, B)'
  BY Zenon DEF CountInv, Peer
<1>1. PICK N \in [Nat -> Nat], B \in [Nat -> Nat] : Counts(e, N, B) /\ Tally(Peer(e), N, B)
  BY <1>0, Zenon DEF CountInv
<1> DEFINE q == encrypt_ratchet(session[d])
<1>2. /\ session[d] \in RatchetState
      /\ session[d].root_sequence \in Nat /\ session[d].sender_chain.index \in Nat
      /\ session[d].sending_message_sequence \in Nat
  BY <1>0, SessionKnown, Zenon
<1>3. /\ q.root_sequence = session[d].root_sequence
      /\ q.receiver_chain = session[d].receiver_chain
      /\ q.received_message_sequence = session[d].received_message_sequence
      /\ q.sender_chain.index = session[d].sender_chain.index + 1
      /\ q.sending_message_sequence = session[d].sending_message_sequence + 1
  BY <1>2, Zenon DEF encrypt_ratchet, advance_chain_key, RatchetState, ChainKey
<1>4. \A f \in Device : session'[f] = IF f = d THEN q ELSE session[f]
  BY <1>0, Zenon DEF Stores
<1>5. \A f \in Device : Sealed(f)' = Sealed(f)
  BY Zenon DEF Stores, SealsOnly
<1> HIDE DEF q
<1>6. Peer(e) \in Device /\ Peer(e) # e
  BY <1>0, PeerKnown, Zenon
<1>7. Tally(Peer(e), N, B)'
  <2>1. /\ session'[Peer(e)].root_sequence = session[Peer(e)].root_sequence
        /\ session'[Peer(e)].receiver_chain = session[Peer(e)].receiver_chain
        /\ session'[Peer(e)].received_message_sequence = session[Peer(e)].received_message_sequence
    BY <1>3, <1>4, <1>6, Zenon
  <2> QED BY <2>1, <1>1, TallySame, Zenon
<1>8. Counts(e, N, B)'
  <2>1. CASE e # d
    <3>1. Busy(e)' = Busy(e) /\ session'[e] = session[e]
      BY <2>1, <1>4, Zenon DEF Stores
    <3> QED BY <3>1, <1>1, <1>5, CountsSame, Zenon
  <2>2. CASE e = d
    <3>1. Keys(d)' = Keys(d)
      BY <1>5, Zenon DEF Keys, KeyOf
    <3>2. /\ session'[d].root_sequence = session[d].root_sequence
          /\ session'[d].sender_chain.index = session[d].sender_chain.index + 1
          /\ session'[d].sending_message_sequence = session[d].sending_message_sequence + 1
      BY <1>3, <1>4, Zenon
    <3>3. Busy(d) /\ ~Busy(d)'
      BY Zenon DEF Stores
    <3>4. HeadCount(d, N, B)'
      <4> DEFINE c == session[d].root_sequence
                 i == session[d].sender_chain.index
      <4>1. session[d].sending_message_sequence = B[c] + i /\ N[c] = i + 1
        BY <1>1, <2>2, <3>3, Zenon DEF Counts, HeadCount
      <4>2. (B[c] + i) + 1 = B[c] + (i + 1)
        BY <1>2
      <4> QED BY <3>2, <3>3, <4>1, <4>2, Zenon DEF HeadCount
    <3>5. MsgCount(d, N, B)' /\ KeyCount(d, N)'
      BY <1>1, <1>5, <2>2, <3>1, Zenon DEF Counts, MsgCount, KeyCount, KeyAt, RootOf
    <3>6. ChainCount(d, N, B)'
      BY <1>1, <2>2, <3>2, Zenon DEF Counts, ChainCount, Side
    <3> QED BY <1>1, <2>2, <3>4, <3>5, <3>6, Zenon DEF Counts, Side
  <2> QED BY <2>1, <2>2, Zenon
<1> QED BY <1>7, <1>8, Zenon

(* What the ledger of its writer says of a message that d reads. *)
LEMMA ReadCounted ==
  ASSUME OnceInv, NEW d \in Device, NEW msg \in server, Reads(d, msg),
         NEW N \in [Nat -> Nat], NEW B \in [Nat -> Nat], Counts(Peer(d), N, B)
  PROVE  LET p == msg.payload
         IN  /\ p \in Payload /\ p.root_sequence \in Nat /\ p.sequence \in Nat
             /\ p.root_sequence % 2 = Side(Peer(d))
             /\ p.root_sequence <= session[Peer(d)].root_sequence
             /\ p.sequence < N[p.root_sequence]
             /\ p.sending_message_sequence = B[p.root_sequence] + p.sequence + 1
<1>1. msg \in Sealed(Peer(d)) /\ Peer(d) \in Device
  BY ReadKnown, PeerKnown, Zenon
<1>2. /\ msg.payload.sequence < N[msg.payload.root_sequence]
      /\ msg.payload.sending_message_sequence =
           B[msg.payload.root_sequence] + msg.payload.sequence + 1
  BY <1>1, Zenon DEF Counts, MsgCount
<1> QED BY <1>1, <1>2, SealedKnown, Zenon

(* The total of the reader keeps up with the ledger of the writer. *)
LEMMA ReadsTally ==
  ASSUME OnceInv, NEW d \in Device, NEW msg \in server, Reads(d, msg),
         NEW N \in [Nat -> Nat], NEW B \in [Nat -> Nat],
         Counts(Peer(d), N, B), Tally(d, N, B)
  PROVE  Tally(d, N, B)'
<1> DEFINE e == Peer(d)
           R == session[d]
           p == msg.payload
           q == decrypt_ratchet(R, p)
           w == R.root_sequence
           i == R.receiver_chain.index
           c == p.root_sequence
           j == p.sequence
<1>1. /\ p \in Payload /\ c \in Nat /\ j \in Nat /\ c % 2 = Side(e)
      /\ c <= session[e].root_sequence /\ j < N[c]
      /\ p.sending_message_sequence = B[c] + j + 1
  BY ReadCounted, Zenon
<1>2. /\ Stepped(R, p, q)
      /\ q.received_message_sequence =
           IF p.sending_message_sequence > R.received_message_sequence
             THEN p.sending_message_sequence ELSE R.received_message_sequence
  <2>1. R \in RatchetState /\ RatchetInv(R) /\ PayloadInv(p) /\ decrypt_ratchet_ok(R, p)
    BY ReadKnown, SessionKnown, Zenon DEF Reads
  <2> QED BY <1>1, <2>1, DecryptKeys, Zenon
<1>3. session'[d] = q
  <2>1. session \in [Device -> RatchetState]
    BY Zenon DEF OnceInv, RootsInv, ReplayInv, TypedInv, TypeOK
  <2> QED BY <2>1, Zenon DEF Reads
<1>4. /\ R \in RatchetState /\ w \in Nat /\ i \in Nat /\ w % 2 = Side(d)
      /\ Side(d) \in {0, 1} /\ Side(e) = 1 - Side(d)
      /\ w = session[e].root_sequence + 1 \/ session[e].root_sequence = w + 1
      /\ session[e].root_sequence \in Nat /\ session[e].root_sequence % 2 = Side(e)
  BY SessionKnown, PeerKnown, Zenon
<1>5. \A x \in Nat : B[x] \in Nat /\ N[x] \in Nat
  BY Zenon
<1>6. \A x, f \in Nat :
        x % 2 = Side(e) /\ f % 2 = Side(e) /\ x < f /\ f <= session[e].root_sequence =>
          B[x] + N[x] <= B[f]
  BY Zenon DEF Counts, ChainCount
<1>7. /\ w = 0 => R.received_message_sequence = 0
      /\ w # 0 => R.received_message_sequence = B[w - 1] + i /\ i <= N[w - 1]
  BY Zenon DEF Tally
<1>8. w # 0 => w - 1 \in Nat /\ (w - 1) % 2 = Side(e) /\ w - 1 <= session[e].root_sequence
  BY <1>4, SMTT(20)
<1> HIDE DEF q
<1>9. SUFFICES IF q.root_sequence = 0 THEN q.received_message_sequence = 0
               ELSE /\ q.received_message_sequence =
                         B[q.root_sequence - 1] + q.receiver_chain.index
                    /\ q.receiver_chain.index <= N[q.root_sequence - 1]
  BY <1>3, Zenon DEF Tally
<1> DEFINE T == R.received_message_sequence
           M == p.sending_message_sequence
           S == session[e].root_sequence
<1>10. /\ w \in Nat /\ i \in Nat /\ c \in Nat /\ j \in Nat /\ S \in Nat
       /\ c <= S /\ j < N[c] /\ M = B[c] + j + 1
       /\ w = 0 => T = 0
       /\ w # 0 => T = B[w - 1] + i /\ i <= N[w - 1] /\ w - 1 \in Nat
       /\ q.received_message_sequence = IF M > T THEN M ELSE T
  BY <1>1, <1>2, <1>4, <1>7, <1>8, Zenon
<1>11. w # 0 /\ c < w - 1 => B[c] + N[c] <= B[w - 1]
  BY <1>1, <1>6, <1>8, Zenon
<1>12. w # 0 /\ c = w + 1 => B[w - 1] + N[w - 1] <= B[c]
  <2>1. ASSUME w # 0, c = w + 1 PROVE w - 1 < c
    BY <2>1, <1>4
  <2> QED BY <2>1, <1>1, <1>6, <1>8, Zenon
<1>13. CASE is_skipped(R, p)
  <2>1. ~is_new_chain(R, p)
    BY <1>1, <1>4, <1>13, OneKind, Zenon
  <2>2. q.root_sequence = w /\ q.receiver_chain.index = i
    BY <1>2, <1>13, <2>1, Zenon DEF Stepped
  <2>3. w # 0 /\ (c < w - 1 \/ (c = w - 1 /\ i > j))
    <3>1. c < w - 1 \/ (c = w - 1 /\ i > j)
      BY <1>13, Zenon DEF is_skipped, on_current_chain
    <3> HIDE DEF c, w, i, j
    <3> QED BY <3>1, <1>10
  <2> HIDE DEF e, R, p, w, i, c, j, T, M, S
  <2>4. /\ B[c] \in Nat /\ N[c] \in Nat /\ B[w - 1] \in Nat /\ N[w - 1] \in Nat
    BY <1>5, <1>10, <2>3, Zenon
  <2>5. M <= T
    BY <1>10, <1>11, <2>3, <2>4, SMTT(20)
  <2>6. q.received_message_sequence = T
    BY <1>10, <2>3, <2>4, <2>5
  <2> QED BY <2>2, <2>3, <2>6, <1>10, Zenon
<1>14. CASE is_existing_chain(R, p)
  <2>1. ~is_new_chain(R, p)
    BY <1>1, <1>4, <1>14, OneKind, Zenon
  <2>2. w # 0 /\ c = w - 1 /\ i <= j
    BY <1>1, <1>4, <1>14 DEF is_existing_chain, on_current_chain
  <2>3. q.root_sequence = w
        /\ q.receiver_chain = [R.receiver_chain EXCEPT !.index = j + 1]
    BY <1>2, <1>14, <2>1, Zenon DEF Stepped
  <2>4. q.receiver_chain.index = j + 1
    BY <2>3, <1>4, Zenon DEF RatchetState, ChainKey
  <2> HIDE DEF e, R, p, w, i, c, j, T, M, S
  <2>5. B[c] \in Nat /\ N[c] \in Nat
    BY <1>5, <1>10, Zenon
  <2>6. q.received_message_sequence = B[c] + (j + 1) /\ j + 1 <= N[c]
    BY <1>10, <2>2, <2>5
  <2> QED BY <2>2, <2>3, <2>4, <2>6, Zenon
<1>15. CASE is_new_chain(R, p)
  <2>1. c = w + 1
    BY <1>15, Zenon DEF is_new_chain
  <2>2. /\ q.root_sequence = w + 2
        /\ q.receiver_chain = [create_chain_key(R.root_key, p.ratchet_key) EXCEPT !.index = j + 1]
    BY <1>2, <1>15, Zenon DEF Stepped
  <2>3. q.receiver_chain.index = j + 1
    BY <2>2, Zenon DEF create_chain_key
  <2> HIDE DEF e, R, p, w, i, c, j, T, M, S
  <2>4. B[c] \in Nat /\ N[c] \in Nat /\ (w # 0 => B[w - 1] \in Nat /\ N[w - 1] \in Nat)
    BY <1>5, <1>10, Zenon
  <2>5. T <= B[c] /\ T \in Nat
    BY <1>10, <1>12, <2>1, <2>4, SMTT(20)
  <2>6. q.received_message_sequence = B[c] + (j + 1) /\ j + 1 <= N[c]
    BY <1>10, <2>4, <2>5, SMTT(20)
  <2>7. q.root_sequence # 0 /\ q.root_sequence - 1 = c
    BY <1>10, <2>1, <2>2, SMTT(20)
  <2> QED BY <2>3, <2>6, <2>7, Zenon
<1> QED BY <1>13, <1>14, <1>15, Zenon DEF Reads, decrypt_ratchet_ok, opens

(* A chain that its device has not started has no keys. *)
LEMMA NoKeysAhead ==
  ASSUME OnceInv, KeysInv, NEW d \in Device, NEW N \in [Nat -> Nat], NEW B,
         Counts(d, N, B), NEW c \in Nat, c > session[d].root_sequence
  PROVE  N[c] = 0
<1> SUFFICES ASSUME N[c] # 0 PROVE FALSE
  BY Zenon
<1>1. KeyAt(c, 0) \in Keys(d)
  <2>1. 0 < N[c]
    OBVIOUS
  <2> QED BY <2>1 DEF Counts, KeyCount
<1>2. PICK m \in Sealed(d) : KeyOf(m) = KeyAt(c, 0)
  BY <1>1, Zenon DEF Keys
<1>3. /\ m.payload.root_sequence \in Nat /\ m.payload.sequence \in Nat
      /\ m.payload.root_sequence <= session[d].root_sequence
      /\ KeyOf(m) = KeyAt(m.payload.root_sequence, m.payload.sequence)
  BY SealedKnown, Zenon DEF KeysInv
<1>4. m.payload.root_sequence = c
  <2>1. KeyAt(c, 0) = KeyAt(m.payload.root_sequence, m.payload.sequence)
    BY <1>2, <1>3, Zenon
  <2> QED BY <2>1, Zenon DEF KeyAt
<1> QED BY <1>3, <1>4, SessionKnown

(* When the reader starts a new chain of its own, the ledger gets a new page. *)
LEMMA ReadsChains ==
  ASSUME OnceInv, KeysInv, NEW d \in Device, NEW msg \in server, Reads(d, msg),
         NEW N \in [Nat -> Nat], NEW B \in [Nat -> Nat],
         Counts(d, N, B), Tally(Peer(d), N, B)
  PROVE  \E C \in [Nat -> Nat] : Counts(d, N, C)' /\ Tally(Peer(d), N, C)'
<1> DEFINE p == msg.payload
           q == decrypt_ratchet(session[d], p)
           w == session[d].root_sequence
<1>1. Stepped(session[d], p, q)
  BY ReadKnown, SessionKnown, DecryptKeys, Zenon DEF Reads
<1>2. session'[d] = q /\ \A e \in Device : e # d => session'[e] = session[e]
  <2>1. session \in [Device -> RatchetState]
    BY Zenon DEF OnceInv, RootsInv, ReplayInv, TypedInv, TypeOK
  <2> QED BY <2>1, Zenon DEF Reads
<1>3. Sealed(d)' = Sealed(d) /\ Busy(d)' = Busy(d) /\ ~Busy(d)
  BY Zenon DEF Reads, SealsOnly
<1>4. /\ w \in Nat /\ w % 2 = Side(d) /\ Side(d) \in {0, 1}
      /\ Peer(d) \in Device /\ Peer(d) # d
      /\ session[Peer(d)].root_sequence \in Nat
      /\ session[Peer(d)].root_sequence <= w + 1
  <2>1. /\ w \in Nat /\ w % 2 = Side(d) /\ Side(d) \in {0, 1}
        /\ Peer(d) \in Device /\ Peer(d) # d
        /\ \/ w = session[Peer(d)].root_sequence + 1
           \/ session[Peer(d)].root_sequence = w + 1
    BY SessionKnown, PeerKnown, Zenon
  <2>2. session[Peer(d)].root_sequence \in Nat
    BY <2>1, SessionKnown, Zenon
  <2>3. session[Peer(d)].root_sequence <= w + 1
    BY <2>1, <2>2
  <2> QED BY <2>1, <2>2, <2>3, Zenon
<1> HIDE DEF q
<1>5. CASE ~is_new_chain(session[d], p)
  <2>1. /\ q.root_sequence = w /\ q.sender_chain = session[d].sender_chain
        /\ q.sending_message_sequence = session[d].sending_message_sequence
    BY <1>1, <1>5, Zenon DEF Stepped
  <2>2. Counts(d, N, B)'
    BY <1>2, <1>3, <2>1, CountsSame, Zenon
  <2>3. Tally(Peer(d), N, B)'
    BY <1>2, <1>4, TallySame, Zenon
  <2> QED BY <2>2, <2>3, Zenon
<1>6. CASE is_new_chain(session[d], p)
  <2>1. /\ q.root_sequence = w + 2
        /\ q.sender_chain = create_chain_key(p.ratchet_key, p.ratchet_key + 1)
        /\ q.sending_message_sequence = session[d].sending_message_sequence
    BY <1>1, <1>6, Zenon DEF Stepped
  <2>2. q.sender_chain.index = 0
    BY <2>1 DEF create_chain_key
  <2>3. /\ session[d].sending_message_sequence = B[w] + N[w]
        /\ B[w] \in Nat /\ N[w] \in Nat
    BY <1>3, <1>4, Zenon DEF Counts, HeadCount
  <2>4. PICK C \in [Nat -> Nat] :
          C[w + 2] = B[w] + N[w] /\ \A c \in Nat : c # w + 2 => C[c] = B[c]
    <3> DEFINE D == [B EXCEPT ![w + 2] = B[w] + N[w]]
    <3>1. D \in [Nat -> Nat] /\ D[w + 2] = B[w] + N[w]
          /\ \A c \in Nat : c # w + 2 => D[c] = B[c]
      BY <1>4, <2>3, SMTT(20)
    <3> QED BY <3>1, Zenon
  <2>5. N[w + 2] = 0
    BY <1>4, NoKeysAhead, SMTT(20)
  <2>6. MsgCount(d, N, C)'
    <3> SUFFICES ASSUME NEW m \in Sealed(d)
                 PROVE  /\ m.payload.sequence < N[m.payload.root_sequence]
                        /\ m.payload.sending_message_sequence =
                             C[m.payload.root_sequence] + m.payload.sequence + 1
      BY <1>3, Zenon DEF MsgCount
    <3>1. m.payload.root_sequence \in Nat /\ m.payload.root_sequence <= w
      BY SealedKnown, Zenon
    <3>2. C[m.payload.root_sequence] = B[m.payload.root_sequence]
      BY <3>1, <2>4, <1>4
    <3> QED BY <3>2, Zenon DEF Counts, MsgCount
  <2>7. KeyCount(d, N)'
    BY <1>3, Zenon DEF Counts, KeyCount, Keys, KeyOf, KeyAt, RootOf
  <2>8. ChainCount(d, N, C)'
    <3>0. \A c \in Nat : B[c] \in Nat /\ N[c] \in Nat
      BY Zenon
    <3>1. \A c \in Nat : c <= w => C[c] = B[c]
      BY <2>4, <1>4
    <3> HIDE DEF w
    <3>2. /\ \A c \in Nat : c % 2 = Side(d) /\ c < w => B[c + 2] = B[c] + N[c]
          /\ \A c, f \in Nat : c % 2 = Side(d) /\ f % 2 = Side(d) /\ c < f /\ f <= w =>
               B[c] + N[c] <= B[f]
      BY Zenon DEF Counts, ChainCount, w
    <3>3. ASSUME NEW c \in Nat, c % 2 = Side(d), c < w + 2 PROVE C[c + 2] = C[c] + N[c]
      <4>1. c <= w
        BY <3>3, <1>4, Parity, Zenon
      <4>2. CASE c = w
        BY <4>1, <4>2, <3>1, <2>4, Zenon
      <4>3. CASE c < w
        <5>1. c + 2 \in Nat /\ c + 2 # w + 2
          BY <4>3, <1>4
        <5>2. C[c + 2] = B[c + 2]
          BY <5>1, <2>4, Zenon
        <5> QED BY <5>2, <4>1, <4>3, <3>1, <3>2, <3>3, Zenon
      <4> QED BY <4>1, <4>2, <4>3, <1>4, SMTT(20)
    <3>4. ASSUME NEW c \in Nat, NEW f \in Nat, c % 2 = Side(d), f % 2 = Side(d),
                 c < f, f <= w + 2
          PROVE  C[c] + N[c] <= C[f]
      <4>1. c <= w
        <5>1. c < w + 2
          BY <3>4, <1>4
        <5> QED BY <5>1, <3>4, <1>4, Parity, Zenon
      <4>2. CASE f <= w
        BY <4>1, <4>2, <3>1, <3>2, <3>4, Zenon
      <4>3. CASE ~(f <= w)
        <5>1. f = w + 2
          <6>1. ~(f < w + 2)
            BY <4>3, <3>4, <1>4, Parity, Zenon
          <6> QED BY <6>1, <3>4, <1>4, SMTT(20)
        <5>2. B[c] + N[c] <= B[w] + N[w]
          <6>1. CASE c = w
            BY <6>1, <3>0, SMTT(20)
          <6>2. CASE c < w
            <7>0. w <= w
              BY <1>4
            <7>1. B[c] + N[c] <= B[w]
              BY <6>2, <7>0, <3>2, <3>4, <1>4, Zenon
            <7> QED BY <7>1, <3>0, <1>4, SMTT(20)
          <6> QED BY <6>1, <6>2, <4>1, <1>4, SMTT(20)
        <5> QED BY <5>1, <5>2, <4>1, <3>1, <2>4, Zenon
      <4> QED BY <4>2, <4>3, Zenon
    <3>5. session'[d].root_sequence = w + 2
      BY <1>2, <2>1, Zenon
    <3> QED BY <3>3, <3>4, <3>5, Zenon DEF ChainCount, Side
  <2>9. HeadCount(d, N, C)'
    BY <1>2, <1>3, <2>1, <2>2, <2>3, <2>4, <2>5, SMTT(20) DEF HeadCount
  <2>10. C[Side(d)] = 0
    BY <2>4, <1>4, SMTT(20) DEF Counts
  <2>11. Counts(d, N, C)'
    BY <2>6, <2>7, <2>8, <2>9, <2>10, Zenon DEF Counts, Side
  <2>12. Tally(Peer(d), N, C)'
    <3> DEFINE R == session[Peer(d)]
    <3>1. session'[Peer(d)] = R
      BY <1>2, <1>4, Zenon
    <3>2. CASE R.root_sequence = 0
      BY <3>1, <3>2, SMTT(20) DEF Tally, Peer
    <3>3. CASE R.root_sequence # 0
      <4>1. R.root_sequence - 1 \in Nat /\ R.root_sequence - 1 # w + 2
        BY <3>3, <1>4
      <4>2. C[R.root_sequence - 1] = B[R.root_sequence - 1]
        BY <4>1, <2>4, Zenon
      <4> QED BY <3>1, <3>3, <4>2, SMTT(20) DEF Tally, Peer
    <3> QED BY <3>2, <3>3, Zenon
  <2> QED BY <2>11, <2>12, Zenon
<1> QED BY <1>5, <1>6, Zenon

LEMMA NextCount ==
  ASSUME Serialised, ~Crashing, LedgerInv, [Next]_vars
  PROVE  CountInv'
<1>0. OnceInv /\ KeysInv /\ CountInv /\ session \in [Device -> RatchetState]
  BY Zenon DEF LedgerInv, OnceInv, RootsInv, ReplayInv, TypedInv, TypeOK
<1>1. ASSUME NEW d \in Device, NEW msg \in server, Reads(d, msg) PROVE CountInv'
  <2> SUFFICES ASSUME NEW e \in Device
               PROVE  \E N, B \in [Nat -> Nat] : Counts(e, N, B)' /\ Tally(Peer(e), N, B)'
    BY Zenon DEF CountInv, Peer
  <2>1. PICK N \in [Nat -> Nat], B \in [Nat -> Nat] : Counts(e, N, B) /\ Tally(Peer(e), N, B)
    BY <1>0, Zenon DEF CountInv
  <2>2. CASE e = d
    <3>1. \E C \in [Nat -> Nat] : Counts(d, N, C)' /\ Tally(Peer(d), N, C)'
      BY <1>0, <1>1, <2>1, <2>2, ReadsChains, Zenon
    <3> QED BY <2>2, <3>1, Zenon
  <2>3. CASE e # d
    <3>1. e = Peer(d) /\ Peer(e) = d
      BY <2>3, <1>0, PeerKnown, Zenon
    <3>2. Sealed(e)' = Sealed(e) /\ Busy(e)' = Busy(e) /\ session'[e] = session[e]
      BY <1>0, <1>1, <2>3, Zenon DEF Reads, SealsOnly
    <3>3. Counts(e, N, B)'
      BY <2>1, <3>2, CountsSame, Zenon
    <3>4. Tally(d, N, B)'
      BY <1>0, <1>1, <2>1, <3>1, ReadsTally, Zenon
    <3> QED BY <3>1, <3>3, <3>4, Zenon DEF Peer
  <2> QED BY <2>2, <2>3, Zenon
<1>2. ASSUME Quiet PROVE CountInv'
  <2> SUFFICES ASSUME NEW e \in Device
               PROVE  \E N, B \in [Nat -> Nat] : Counts(e, N, B)' /\ Tally(Peer(e), N, B)'
    BY Zenon DEF CountInv, Peer
  <2>1. PICK N \in [Nat -> Nat], B \in [Nat -> Nat] : Counts(e, N, B) /\ Tally(Peer(e), N, B)
    BY <1>0, Zenon DEF CountInv
  <2>2. Counts(e, N, B)'
    BY <1>2, <2>1, CountsSame, Zenon DEF Quiet
  <2>3. Tally(Peer(e), N, B)'
    BY <1>2, <2>1, TallySame, Zenon DEF Quiet
  <2> QED BY <2>2, <2>3, Zenon
<1> QED BY <1>0, <1>1, <1>2, Steps, SealsCount, StoresCount, Zenon

LEMMA NextLedger ==
  ASSUME Serialised, ~Crashing, LedgerInv, [Next]_vars
  PROVE  LedgerInv'
<1>0. OnceInv /\ \A d \in Device : interrupted[d] = {}
  BY Zenon DEF LedgerInv
<1>1. OnceInv'
  BY <1>0, NextOnce, Zenon
<1>2. \A d \in Device : interrupted'[d] = {}
  BY <1>0, Steps, Zenon
<1> QED BY <1>1, <1>2, NextKeys, NextCount, Zenon DEF LedgerInv

-----------------------------------------------------------------------------
(***************************************************************************)
(* The keys put aside are those of the messages passed over.               *)
(***************************************************************************)
LEMMA KeysCounted ==
  ASSUME OnceInv, KeysInv, NEW e \in Device, NEW N, NEW B, Counts(e, N, B)
  PROVE  /\ \A k \in Keys(e) : \E c, i \in Nat :
              /\ k = KeyAt(c, i) /\ c % 2 = Side(e)
              /\ c <= session[e].root_sequence /\ i < N[c]
         /\ \A c, i \in Nat : i < N[c] => KeyAt(c, i) \in Keys(e)
<1>1. ASSUME NEW k \in Keys(e)
      PROVE  \E c, i \in Nat : /\ k = KeyAt(c, i) /\ c % 2 = Side(e)
                               /\ c <= session[e].root_sequence /\ i < N[c]
  <2>1. PICK m \in Sealed(e) : k = KeyOf(m)
    BY Zenon DEF Keys
  <2>2. /\ m.payload.root_sequence \in Nat /\ m.payload.sequence \in Nat
        /\ m.payload.root_sequence <= session[e].root_sequence
        /\ m.payload.root_sequence % 2 = Side(e)
    BY SealedKnown, Zenon
  <2>3. k = KeyAt(m.payload.root_sequence, m.payload.sequence)
    BY <2>1, Zenon DEF KeysInv
  <2>4. m.payload.sequence < N[m.payload.root_sequence]
    BY Zenon DEF Counts, MsgCount
  <2> QED BY <2>2, <2>3, <2>4, Zenon
<1>2. KeyCount(e, N)
  BY Zenon DEF Counts
<1> QED BY <1>1, <1>2, Zenon DEF KeyCount

LEMMA GatheredAt ==
  ASSUME NEW c \in Nat, NEW i \in Nat, NEW n \in Nat, NEW k
  PROVE  k \in Gathered(KeyAt(c, i), n) <=>
           \E x \in Nat : k = KeyAt(c, x) /\ i <= x /\ x < i + n
<1>1. ASSUME k \in Gathered(KeyAt(c, i), n)
      PROVE  \E x \in Nat : k = KeyAt(c, x) /\ i <= x /\ x < i + n
  <2>1. /\ k \in ChainKey /\ k.root = RootOf(c) /\ k.ratchet_key = c
        /\ i <= k.index /\ k.index < i + n
    BY <1>1, KeyAtTyped, ZenonT(40) DEF Gathered
  <2>2. k.index \in Nat
    BY <2>1, Zenon DEF ChainKey
  <2>3. k = KeyAt(c, k.index)
    BY <2>1, <2>2, KeyAtTyped, SameKey
  <2> QED BY <2>1, <2>2, <2>3, Zenon
<1>2. ASSUME NEW x \in Nat, k = KeyAt(c, x), i <= x, x < i + n
      PROVE  k \in Gathered(KeyAt(c, i), n)
  BY <1>2, KeyAtTyped DEF Gathered
<1> QED BY <1>1, <1>2, Zenon

LEMMA PassedAt ==
  ASSUME NEW r \in RatchetState, Labelled(r), NEW c \in Nat, NEW i \in Nat
  PROVE  Passed(r, KeyAt(c, i)) <=>
           /\ r.root_sequence # 0
           /\ c < r.root_sequence - 1 \/ (c = r.root_sequence - 1 /\ i < r.receiver_chain.index)
<1>1. r.root_sequence \in Nat /\ r.receiver_chain.index \in Nat
  BY Zenon DEF RatchetState, ChainKey
<1>2. KeyAt(c, i).ratchet_key = c /\ KeyAt(c, i).index = i
  BY KeyAtTyped, Zenon
<1>3. CASE r.root_sequence = 0
  <2>1. r.receiver_chain.ratchet_key = -1 /\ r.receiver_chain.index = 0
    BY <1>3 DEF Labelled, NoChainKey
  <2> QED BY <1>2, <1>3, <2>1, SMTT(20) DEF Passed, Older
<1>4. CASE r.root_sequence # 0
  <2>1. r.receiver_chain.ratchet_key = r.root_sequence - 1
    <3>1. r.receiver_chain = KeyAt(r.root_sequence - 1, r.receiver_chain.index)
      BY <1>4, Zenon DEF Labelled
    <3> QED BY <3>1 DEF KeyAt
  <2> QED BY <1>2, <1>4, <2>1, Zenon DEF Passed, Older
<1> QED BY <1>3, <1>4, Zenon

(* Where the receiver chain of d stands after it reads msg. *)
LEMMA ReadsPast ==
  ASSUME OnceInv, KeysInv, NEW d \in Device, NEW msg \in server, Reads(d, msg)
  PROVE  LET R == session[d]
             p == msg.payload
             q == decrypt_ratchet(R, p)
         IN  /\ q \in RatchetState /\ Labelled(q)
             /\ is_skipped(R, p) => q.receiver_chain = R.receiver_chain
             /\ is_existing_chain(R, p) => /\ R.root_sequence # 0
                                           /\ p.root_sequence = R.root_sequence - 1
                                           /\ R.receiver_chain.index <= p.sequence
                                           /\ q.root_sequence = R.root_sequence
                                           /\ q.receiver_chain.index = p.sequence + 1
             /\ is_new_chain(R, p) => /\ p.root_sequence = R.root_sequence + 1
                                      /\ q.root_sequence = R.root_sequence + 2
                                      /\ q.receiver_chain.index = p.sequence + 1
             /\ is_skipped(R, p) \/ is_existing_chain(R, p) \/ is_new_chain(R, p)
<1> DEFINE R == session[d]
           p == msg.payload
           q == decrypt_ratchet(R, p)
<1>1. /\ p \in Payload /\ PayloadInv(p) /\ decrypt_ratchet_ok(R, p)
      /\ R \in RatchetState /\ RatchetInv(R) /\ Labelled(R)
  BY ReadKnown, SessionKnown, Zenon DEF Reads, KeysInv
<1>2. q \in RatchetState
  BY ReadKnown, Zenon DEF Consumed
<1>3. Labelled(q)
  BY <1>1, DecryptLabelled, Zenon
<1>4. Stepped(R, p, q)
  BY <1>1, DecryptKeys, Zenon
<1>5. /\ R.root_sequence \in Nat /\ R.receiver_chain \in ChainKey
      /\ p.root_sequence \in Nat /\ p.sequence \in Nat
  BY <1>1, Zenon DEF RatchetState, Payload
<1> HIDE DEF R, p, q
<1>6. ASSUME is_existing_chain(R, p)
      PROVE  /\ R.root_sequence # 0
             /\ p.root_sequence = R.root_sequence - 1
             /\ R.receiver_chain.index <= p.sequence
             /\ q.root_sequence = R.root_sequence
             /\ q.receiver_chain.index = p.sequence + 1
  <2>1. ~is_new_chain(R, p)
    BY <1>1, <1>6, OneKind, Zenon
  <2>2. q.receiver_chain = [R.receiver_chain EXCEPT !.index = p.sequence + 1]
    BY <1>4, <1>6, Zenon DEF Stepped
  <2>3. q.receiver_chain.index = p.sequence + 1
    BY <1>5, <2>2, Zenon DEF ChainKey
  <2> QED BY <1>4, <1>5, <1>6, <2>1, <2>3, SMTT(20) DEF Stepped, is_existing_chain, on_current_chain
<1>7. ASSUME is_new_chain(R, p)
      PROVE  /\ p.root_sequence = R.root_sequence + 1
             /\ q.root_sequence = R.root_sequence + 2
             /\ q.receiver_chain.index = p.sequence + 1
  <2>1. q.receiver_chain = [create_chain_key(R.root_key, p.ratchet_key) EXCEPT !.index = p.sequence + 1]
    BY <1>4, <1>7, Zenon DEF Stepped
  <2>2. q.receiver_chain.index = p.sequence + 1
    BY <2>1, Zenon DEF create_chain_key
  <2> QED BY <1>4, <1>7, <2>2, Zenon DEF Stepped, is_new_chain
<1>8. is_skipped(R, p) \/ is_existing_chain(R, p) \/ is_new_chain(R, p)
  BY <1>1, Zenon DEF decrypt_ratchet_ok, opens
<1>9. is_skipped(R, p) => q.receiver_chain = R.receiver_chain
  BY <1>4, Zenon DEF Stepped
<1> QED BY <1>2, <1>3, <1>6, <1>7, <1>8, <1>9, Zenon DEF R, p, q

(* skipped_in_previous_chain finds what is left of the chain before. *)
LEMMA SkipExact ==
  ASSUME OnceInv, KeysInv, NEW d \in Device, NEW msg \in Sealed(Peer(d)),
         is_new_chain(session[d], msg.payload),
         NEW N \in [Nat -> Nat], NEW B \in [Nat -> Nat],
         Counts(Peer(d), N, B), Tally(d, N, B)
  PROVE  LET R == session[d]
         IN  skipped_in_previous_chain(R, msg.payload) =
               IF R.root_sequence = 0 THEN 0
               ELSE N[R.root_sequence - 1] - R.receiver_chain.index
<1> DEFINE e == Peer(d)
           R == session[d]
           p == msg.payload
           w == R.root_sequence
           i == R.receiver_chain.index
           j == p.sequence
           T == R.received_message_sequence
           M == p.sending_message_sequence
           S == session[e].root_sequence
<1>1. /\ w \in Nat /\ i \in Nat /\ T \in Nat /\ w % 2 = Side(d)
      /\ e \in Device /\ Side(d) \in {0, 1} /\ Side(e) = 1 - Side(d)
  BY SessionKnown, PeerKnown, Zenon
<1>2. /\ p.root_sequence \in Nat /\ j \in Nat /\ p.root_sequence <= S
      /\ p.root_sequence % 2 = Side(e)
  BY <1>1, SealedKnown, Zenon
<1>3. S \in Nat
  BY <1>1, SessionKnown, Zenon
<1>4. p.root_sequence = w + 1
  BY Zenon DEF is_new_chain
<1>5. M = B[w + 1] + j + 1
  BY <1>4, Zenon DEF Counts, MsgCount
<1>6. /\ w = 0 => T = 0
      /\ w # 0 => T = B[w - 1] + i /\ i <= N[w - 1]
  BY Zenon DEF Tally
<1>7. CASE w = 0
  <2>1. Side(e) = 1 /\ w + 1 = 1
    BY <1>1, <1>7, SMTT(20)
  <2>2. M = j + 1
    BY <2>1, <1>2, <1>5 DEF Counts
  <2> QED BY <2>2, <1>2, <1>6, <1>7, SMTT(20) DEF skipped_in_previous_chain
<1>8. CASE w # 0
  <2>1. w - 1 \in Nat /\ (w - 1) % 2 = Side(e) /\ w - 1 < S /\ (w - 1) + 2 = w + 1
    BY <1>1, <1>2, <1>3, <1>4, <1>8, SMTT(20)
  <2>2. B[w + 1] = B[w - 1] + N[w - 1]
    BY <2>1, Zenon DEF Counts, ChainCount
  <2>3. B[w - 1] \in Nat /\ N[w - 1] \in Nat
    BY <2>1, Zenon
  <2>4. skipped_in_previous_chain(R, p) = IF M > T + j + 1 THEN M - (T + j + 1) ELSE 0
    BY Zenon DEF skipped_in_previous_chain
  <2>5. M = B[w - 1] + N[w - 1] + j + 1 /\ T = B[w - 1] + i /\ i <= N[w - 1] /\ i \in Nat /\ j \in Nat
    BY <1>1, <1>2, <1>5, <1>6, <1>8, <2>2, Zenon
  <2> HIDE DEF e, R, p, w, i, j, T, M, S
  <2>6. skipped_in_previous_chain(R, p) = N[w - 1] - i
    BY <2>3, <2>4, <2>5
  <2> QED BY <2>6, <1>8, Zenon DEF R, w, i, p
<1> QED BY <1>7, <1>8, Zenon

LEMMA AsideAt ==
  ASSUME OnceInv, KeysInv, NEW d \in Device, NEW msg \in Sealed(Peer(d)),
         NEW N \in [Nat -> Nat], NEW B \in [Nat -> Nat],
         Counts(Peer(d), N, B), Tally(d, N, B), NEW k
  PROVE  LET R == session[d]
             p == msg.payload
             w == R.root_sequence
             i == R.receiver_chain.index
             j == p.sequence
         IN  /\ is_skipped(R, p) => k \notin Aside(R, p)
             /\ is_existing_chain(R, p) =>
                  (k \in Aside(R, p) <=> \E x \in Nat : k = KeyAt(w - 1, x) /\ i <= x /\ x < j)
             /\ is_new_chain(R, p) =>
                  (k \in Aside(R, p) <=>
                     \/ w # 0 /\ \E x \in Nat : k = KeyAt(w - 1, x) /\ i <= x /\ x < N[w - 1]
                     \/ \E x \in Nat : k = KeyAt(w + 1, x) /\ x < j)
<1> DEFINE R == session[d]
           p == msg.payload
           w == R.root_sequence
           i == R.receiver_chain.index
           j == p.sequence
<1>1. /\ R \in RatchetState /\ w \in Nat /\ i \in Nat /\ Peer(d) \in Device
      /\ R.receiver_chain \in ChainKey
  BY SessionKnown, PeerKnown, Zenon
<1>2. p \in Payload /\ PayloadInv(p) /\ j \in Nat /\ p.root_sequence \in Nat
      /\ p.ratchet_key = p.root_sequence
  <2>1. p \in Payload /\ PayloadInv(p) /\ j \in Nat /\ p.root_sequence \in Nat
    BY <1>1, SealedKnown, Zenon
  <2> QED BY <2>1, Zenon DEF PayloadInv
<1>3. /\ R.root_key = w
      /\ w = 0 => R.receiver_chain = NoChainKey
      /\ w # 0 => R.receiver_chain = KeyAt(w - 1, i)
  BY Zenon DEF KeysInv, Labelled
<1>4. CASE is_skipped(R, p)
  <2>1. ~is_existing_chain(R, p) /\ ~is_new_chain(R, p)
    BY <1>1, <1>2, <1>4, OneKind, Zenon
  <2> QED BY <1>4, <2>1, Zenon DEF Aside
<1>5. CASE is_existing_chain(R, p)
  <2>1. ~is_skipped(R, p) /\ ~is_new_chain(R, p)
    BY <1>1, <1>2, <1>5, OneKind, Zenon
  <2>2. w # 0 /\ i <= j
    BY <1>1, <1>2, <1>5, SMTT(20) DEF is_existing_chain, on_current_chain
  <2>3. Aside(R, p) = Gathered(KeyAt(w - 1, i), j - i)
    BY <1>3, <2>1, <2>2, Zenon DEF Aside
  <2>4. w - 1 \in Nat /\ j - i \in Nat /\ i + (j - i) = j
    BY <1>1, <1>2, <2>2, SMTT(20)
  <2>5. k \in Aside(R, p) <=> \E x \in Nat : k = KeyAt(w - 1, x) /\ i <= x /\ x < j
    <3> HIDE DEF R, p, w, i, j
    <3>1. PICK c \in Nat, n \in Nat : c = w - 1 /\ n = j - i
      BY <2>4, Zenon
    <3>2. k \in Gathered(KeyAt(c, i), n) <=> \E x \in Nat : k = KeyAt(c, x) /\ i <= x /\ x < i + n
      BY <1>1, GatheredAt, Zenon
    <3> QED BY <2>3, <2>4, <3>1, <3>2, Zenon
  <2> QED BY <1>5, <2>1, <2>5, Zenon
<1>6. CASE is_new_chain(R, p)
  <2>1. ~is_skipped(R, p) /\ ~is_existing_chain(R, p)
    BY <1>1, <1>2, <1>6, OneKind, Zenon
  <2> DEFINE n == skipped_in_previous_chain(R, p)
  <2>2. n = IF w = 0 THEN 0 ELSE N[w - 1] - i
    BY <1>6, SkipExact, Zenon
  <2>3. p.ratchet_key = w + 1
    BY <1>2, <1>6, Zenon DEF is_new_chain
  <2>4. create_chain_key(R.root_key, p.ratchet_key) = KeyAt(w + 1, 0)
    BY <1>1, <1>3, <2>3, SMTT(20) DEF create_chain_key, KeyAt, RootOf
  <2>5. Aside(R, p) = Gathered(R.receiver_chain, n) \cup Gathered(KeyAt(w + 1, 0), j)
    BY <1>6, <2>1, <2>4, Zenon DEF Aside
  <2>6. w # 0 => i <= N[w - 1]
    BY Zenon DEF Tally
  <2> HIDE DEF R, p, w, i, j, n
  <2>7. k \in Gathered(KeyAt(w + 1, 0), j) <=> \E x \in Nat : k = KeyAt(w + 1, x) /\ x < j
    <3>1. PICK c \in Nat : c = w + 1
      BY <1>1
    <3>2. k \in Gathered(KeyAt(c, 0), j) <=> \E x \in Nat : k = KeyAt(c, x) /\ 0 <= x /\ x < 0 + j
      BY <1>2, GatheredAt, Zenon
    <3> QED BY <1>2, <3>1, <3>2, SMTT(20)
  <2>8. k \in Gathered(R.receiver_chain, n) <=>
          w # 0 /\ \E x \in Nat : k = KeyAt(w - 1, x) /\ i <= x /\ x < N[w - 1]
    <3>1. CASE w = 0
      <4>1. n = 0
        BY <2>2, <3>1, Zenon
      <4>2. k \notin Gathered(R.receiver_chain, n)
        BY <1>1, <4>1, SMTT(20) DEF Gathered, ChainKey
      <4> QED BY <3>1, <4>2, Zenon
    <3>2. CASE w # 0
      <4>1. w - 1 \in Nat
        BY <1>1, <3>2
      <4>2. N[w - 1] \in Nat
        BY <4>1, Zenon
      <4>3. n \in Nat /\ i + n = N[w - 1]
        BY <1>1, <2>2, <2>6, <3>2, <4>2, SMTT(20)
      <4>4. PICK c \in Nat : c = w - 1
        BY <4>1, Zenon
      <4>5. k \in Gathered(KeyAt(c, i), n) <=> \E x \in Nat : k = KeyAt(c, x) /\ i <= x /\ x < i + n
        BY <1>1, <4>3, GatheredAt, Zenon
      <4> QED BY <1>3, <3>2, <4>3, <4>4, <4>5, ZenonT(40)
    <3> QED BY <3>1, <3>2, Zenon
  <2>9. k \in Aside(R, p) <=>
          \/ w # 0 /\ \E x \in Nat : k = KeyAt(w - 1, x) /\ i <= x /\ x < N[w - 1]
          \/ \E x \in Nat : k = KeyAt(w + 1, x) /\ x < j
    BY <2>5, <2>7, <2>8, Zenon
  <2> QED BY <1>6, <2>1, <2>9, Zenon DEF R, p, w, i, j
<1> QED BY <1>4, <1>5, <1>6, Zenon

LEMMA AsideExact ==
  ASSUME OnceInv, KeysInv, NEW d \in Device, NEW msg \in server, Reads(d, msg),
         NEW N \in [Nat -> Nat], NEW B \in [Nat -> Nat],
         Counts(Peer(d), N, B), Tally(d, N, B), NEW k, k # KeyOf(msg)
  PROVE  k \in Aside(session[d], msg.payload) <=>
           /\ k \in Keys(Peer(d))
           /\ Passed(decrypt_ratchet(session[d], msg.payload), k)
           /\ ~Passed(session[d], k)
<1> DEFINE e == Peer(d)
           R == session[d]
           p == msg.payload
           q == decrypt_ratchet(R, p)
           w == R.root_sequence
           i == R.receiver_chain.index
           c == p.root_sequence
           j == p.sequence
           S == session[e].root_sequence
<1>1. /\ R \in RatchetState /\ w \in Nat /\ i \in Nat /\ w % 2 = Side(d)
      /\ e \in Device /\ Side(d) \in {0, 1} /\ Side(e) = 1 - Side(d)
  BY SessionKnown, PeerKnown, Zenon
<1>2. msg \in Sealed(e)
  BY ReadKnown, Zenon
<1>3. c \in Nat /\ j \in Nat /\ j < N[c]
  BY ReadCounted, Zenon
<1>4. k # KeyAt(c, j)
  BY <1>1, <1>2, Zenon DEF KeysInv
<1>5. /\ q \in RatchetState /\ Labelled(q) /\ Labelled(R)
      /\ is_skipped(R, p) => q.receiver_chain = R.receiver_chain
      /\ is_existing_chain(R, p) =>
           /\ w # 0 /\ c = w - 1 /\ i <= j
           /\ q.root_sequence = w /\ q.receiver_chain.index = j + 1
      /\ is_new_chain(R, p) =>
           c = w + 1 /\ q.root_sequence = w + 2 /\ q.receiver_chain.index = j + 1
      /\ is_skipped(R, p) \/ is_existing_chain(R, p) \/ is_new_chain(R, p)
  BY ReadsPast, Zenon DEF KeysInv
<1>6. /\ k \in Keys(e) => \E f, x \in Nat : k = KeyAt(f, x) /\ f % 2 = Side(e) /\ x < N[f]
      /\ \A f, x \in Nat : x < N[f] => KeyAt(f, x) \in Keys(e)
  <2>1. /\ \A l \in Keys(e) : \E f, x \in Nat :
              /\ l = KeyAt(f, x) /\ f % 2 = Side(e)
              /\ f <= session[e].root_sequence /\ x < N[f]
        /\ \A f, x \in Nat : x < N[f] => KeyAt(f, x) \in Keys(e)
    BY <1>1, KeysCounted, Zenon
  <2> QED BY <2>1, Zenon
<1>7. /\ is_skipped(R, p) => k \notin Aside(R, p)
      /\ is_existing_chain(R, p) =>
           (k \in Aside(R, p) <=> \E x \in Nat : k = KeyAt(w - 1, x) /\ i <= x /\ x < j)
      /\ is_new_chain(R, p) =>
           (k \in Aside(R, p) <=>
              \/ w # 0 /\ \E x \in Nat : k = KeyAt(w - 1, x) /\ i <= x /\ x < N[w - 1]
              \/ \E x \in Nat : k = KeyAt(w + 1, x) /\ x < j)
  BY <1>2, AsideAt, Zenon
<1>8. \A f, x \in Nat :
        /\ Passed(R, KeyAt(f, x)) <=> w # 0 /\ (f < w - 1 \/ (f = w - 1 /\ x < i))
        /\ Passed(q, KeyAt(f, x)) <=>
             /\ q.root_sequence # 0
             /\ \/ f < q.root_sequence - 1
                \/ (f = q.root_sequence - 1 /\ x < q.receiver_chain.index)
  BY <1>1, <1>5, PassedAt, Zenon
<1> HIDE DEF e, R, p, q, w, i, c, j, S
<1> SUFFICES k \in Aside(R, p) <=> k \in Keys(e) /\ Passed(q, k) /\ ~Passed(R, k)
  BY Zenon DEF e, R, p, q
<1>9. CASE is_skipped(R, p)
  <2>1. Passed(q, k) = Passed(R, k)
    BY <1>5, <1>9, Zenon DEF Passed
  <2> QED BY <1>7, <1>9, <2>1, Zenon
<1>10. CASE is_existing_chain(R, p)
  <2>1. /\ w # 0 /\ c = w - 1 /\ i <= j /\ w - 1 \in Nat
        /\ q.root_sequence = w /\ q.receiver_chain.index = j + 1
    BY <1>1, <1>5, <1>10, SMTT(20)
  <2>2. ASSUME NEW x \in Nat, k = KeyAt(w - 1, x), i <= x, x < j
        PROVE  k \in Keys(e) /\ Passed(q, k) /\ ~Passed(R, k)
    <3>1. N[w - 1] \in Nat
      BY <2>1, Zenon
    <3>2. x < N[w - 1]
      BY <2>1, <2>2, <3>1, <1>3, SMTT(20)
    <3>3. k \in Keys(e)
      BY <1>6, <2>1, <2>2, <3>2, Zenon
    <3>4. Passed(q, k) /\ ~Passed(R, k)
      <4>1. PICK f \in Nat : f = w - 1
        BY <2>1, Zenon
      <4>2. k = KeyAt(f, x)
        BY <4>1, <2>2, Zenon
      <4>3. Passed(q, KeyAt(f, x)) /\ ~Passed(R, KeyAt(f, x))
        <5>1. /\ Passed(R, KeyAt(f, x)) <=> w # 0 /\ (f < w - 1 \/ (f = w - 1 /\ x < i))
              /\ Passed(q, KeyAt(f, x)) <=>
                   /\ q.root_sequence # 0
                   /\ \/ f < q.root_sequence - 1
                      \/ (f = q.root_sequence - 1 /\ x < q.receiver_chain.index)
          BY <1>8, <2>2, <4>1, Zenon
        <5> QED BY <5>1, <1>1, <1>3, <2>1, <2>2, <4>1, SMTT(20)
      <4> QED BY <4>2, <4>3, Zenon
    <3> QED BY <3>3, <3>4, Zenon
  <2>3. ASSUME k \in Keys(e), Passed(q, k), ~Passed(R, k)
        PROVE  \E x \in Nat : k = KeyAt(w - 1, x) /\ i <= x /\ x < j
    <3>1. PICK f \in Nat, x \in Nat : k = KeyAt(f, x)
      BY <1>6, <2>3, Zenon
    <3>2. f = w - 1 /\ i <= x /\ x < j + 1
      BY <1>1, <1>3, <1>8, <2>1, <2>3, <3>1, SMTT(20)
    <3>3. x # j
      BY <1>4, <2>1, <3>1, <3>2, Zenon
    <3>4. x < j
      BY <1>3, <3>2, <3>3, SMTT(20)
    <3> QED BY <3>1, <3>2, <3>4, Zenon
  <2> QED BY <1>7, <1>10, <2>2, <2>3, ZenonT(40)
<1>11. CASE is_new_chain(R, p)
  <2>1. /\ c = w + 1 /\ q.root_sequence = w + 2 /\ q.receiver_chain.index = j + 1
        /\ w + 1 \in Nat /\ (w # 0 => w - 1 \in Nat)
    BY <1>1, <1>5, <1>11, SMTT(20)
  <2>0. /\ w \in Nat /\ i \in Nat /\ j \in Nat
        /\ \A f, x \in Nat : Passed(q, KeyAt(f, x)) <=> f < w + 1 \/ (f = w + 1 /\ x < j + 1)
        /\ \A f, x \in Nat :
             Passed(R, KeyAt(f, x)) <=> w # 0 /\ (f < w - 1 \/ (f = w - 1 /\ x < i))
    <3>1. w \in Nat /\ w + 2 # 0 /\ (w + 2) - 1 = w + 1
      BY <1>1
    <3> QED BY <1>1, <1>3, <1>8, <2>1, <3>1, Zenon
  <2>2. ASSUME w # 0, NEW x \in Nat, k = KeyAt(w - 1, x), i <= x, x < N[w - 1]
        PROVE  k \in Keys(e) /\ Passed(q, k) /\ ~Passed(R, k)
    <3>1. PICK f \in Nat : f = w - 1
      BY <2>1, <2>2, Zenon
    <3>2. k = KeyAt(f, x) /\ x < N[f]
      BY <3>1, <2>2, Zenon
    <3>3. Passed(q, KeyAt(f, x)) /\ ~Passed(R, KeyAt(f, x))
      BY <2>0, <2>2, <3>1, SMTT(20)
    <3> QED BY <1>6, <3>2, <3>3, Zenon
  <2>3. ASSUME NEW x \in Nat, k = KeyAt(w + 1, x), x < j
        PROVE  k \in Keys(e) /\ Passed(q, k) /\ ~Passed(R, k)
    <3>1. PICK f \in Nat : f = w + 1
      BY <2>1, Zenon
    <3>2. N[f] \in Nat
      BY Zenon
    <3>3. k = KeyAt(f, x) /\ x < N[f]
      BY <1>3, <2>1, <2>3, <3>1, <3>2, SMTT(20)
    <3>4. Passed(q, KeyAt(f, x)) /\ ~Passed(R, KeyAt(f, x))
      BY <2>0, <2>3, <3>1, SMTT(20)
    <3> QED BY <1>6, <3>3, <3>4, Zenon
  <2>4. ASSUME k \in Keys(e), Passed(q, k), ~Passed(R, k)
        PROVE  \/ w # 0 /\ \E x \in Nat : k = KeyAt(w - 1, x) /\ i <= x /\ x < N[w - 1]
               \/ \E x \in Nat : k = KeyAt(w + 1, x) /\ x < j
    <3>1. PICK f \in Nat, x \in Nat : k = KeyAt(f, x) /\ f % 2 = Side(e) /\ x < N[f]
      BY <1>6, <2>4, Zenon
    <3>2. f # w
      BY <1>1, <3>1, SMTT(20)
    <3>3. /\ f < w + 1 \/ (f = w + 1 /\ x < j + 1)
          /\ w # 0 => ~(f < w - 1) /\ (f = w - 1 => i <= x)
      <4>1. Passed(q, KeyAt(f, x)) /\ ~Passed(R, KeyAt(f, x))
        BY <2>4, <3>1, Zenon
      <4> QED BY <2>0, <4>1, SMTT(20)
    <3>4. CASE f = w + 1
      <4>1. x # j
        BY <1>4, <2>1, <3>1, <3>4, Zenon
      <4>2. x < j
        BY <1>1, <1>3, <3>3, <3>4, <4>1, SMTT(20)
      <4> QED BY <3>1, <3>4, <4>2, Zenon
    <3>5. CASE f # w + 1
      <4>1. w # 0 /\ f = w - 1 /\ i <= x
        BY <1>1, <3>2, <3>3, <3>5, SMTT(20)
      <4> QED BY <3>1, <4>1, Zenon
    <3> QED BY <3>4, <3>5, Zenon
  <2> QED BY <1>7, <1>11, <2>2, <2>3, <2>4, ZenonT(40)
<1> QED BY <1>5, <1>9, <1>10, <1>11, Zenon
=============================================================================
