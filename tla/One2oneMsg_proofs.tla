------------------------- MODULE One2oneMsg_proofs -------------------------
(***************************************************************************)
(* Proofs about One2oneMsg, for any limit of the key list, any number of   *)
(* messages and any set of sending threads that the application            *)
(* serialises.                                                             *)
(***************************************************************************)
EXTENDS One2oneMsg, Ratchet_proofs

-----------------------------------------------------------------------------
(***************************************************************************)
(* Type correctness.  It needs the labels: the receiver chain of a ratchet *)
(* is one root step behind it, so the list a payload extends is sorted.    *)
(***************************************************************************)
LabelInv ==
  /\ \A d \in Device : RatchetInv(session[d])
  /\ \A d \in Device : \A t \in Thread : sending[d][t].active =>
       /\ RatchetInv(sending[d][t].ratchet)
       /\ Len(sending[d][t].ratchet.skipped_msg_key_list) <= MAX_SKIPPED_MESSAGE_KEY_NODES
       /\ PayloadInv(sending[d][t].msg.payload)
  /\ \A d \in Device : \A msg \in pending[d] : PayloadInv(msg.payload)
  /\ \A msg \in server : PayloadInv(msg.payload)

TypedInv == TypeOK /\ LabelInv

LEMMA InitTyped == Init => TypedInv
<1> SUFFICES ASSUME Init PROVE TypedInv
  BY Zenon
<1>1. NoChainKey \in ChainKey /\ \A r, k \in Nat : create_chain_key(r, k) \in ChainKey
  BY DEF NoChainKey, create_chain_key, ChainKey
<1>2. << >> \in Seq(ChainKey) /\ Len(<< >>) = 0
  OBVIOUS
<1>3. /\ initialise_as_bob \in RatchetState
      /\ initialise_as_alice \in RatchetState
  BY <1>1, <1>2, Zenon DEF initialise_as_bob, initialise_as_alice, RatchetState
<1>4. /\ initialise_as_bob.skipped_msg_key_list = << >>
      /\ initialise_as_alice.skipped_msg_key_list = << >>
  BY Zenon DEF initialise_as_bob, initialise_as_alice
<1>5. RatchetInv(initialise_as_bob) /\ RatchetInv(initialise_as_alice)
  <2>1. Sorted(<< >>) /\ \A k : AllOlder(<< >>, k) /\ SameSide(<< >>, k)
    BY <1>2 DEF Sorted, AllOlder, SameSide
  <2> QED BY <2>1, <1>4 DEF RatchetInv, initialise_as_bob, initialise_as_alice,
                            create_chain_key, NoChainKey
<1>6. TypeOK
  <2>1. session \in [Device -> RatchetState]
    BY <1>3, Zenon DEF Init
  <2>2. \A d \in Device : Len(session[d].skipped_msg_key_list) <= MAX_SKIPPED_MESSAGE_KEY_NODES
    BY <1>2, <1>4, MaxSkippedAssumption DEF Init
  <2>3. sending \in [Device -> [Thread -> Sending]]
    BY Zenon DEF Init, Sending
  <2>4. composed \in [Device -> Nat] /\ pending \in [Device -> SUBSET Msg]
        /\ server \in SUBSET Msg /\ received \in [Device -> SUBSET Msg]
        /\ handed \in [Device -> Nat]
        /\ pruned \in [Device -> SUBSET ChainKey]
        /\ interrupted \in [Device -> SUBSET Nat]
    BY Zenon DEF Init
  <2> QED BY <2>1, <2>2, <2>3, <2>4, Zenon DEF TypeOK
<1>7. LabelInv
  <2>1. \A d \in Device : RatchetInv(session[d])
    BY <1>5, Zenon DEF Init
  <2>2. \A d \in Device : \A t \in Thread : ~sending[d][t].active
    BY Zenon DEF Init, Idle
  <2> QED BY <2>1, <2>2, Zenon DEF LabelInv, Init
<1> QED BY <1>6, <1>7, Zenon DEF TypedInv

(* The message a send is about to dispatch. *)
LEMMA NextMsg ==
  ASSUME TypedInv, NEW d \in Device
  PROVE  /\ e2ee_msg(d, session[d]) \in Msg
         /\ PayloadInv(e2ee_msg(d, session[d]).payload)
         /\ e2ee_msg(d, session[d]).from = d
         /\ e2ee_msg(d, session[d]).payload = encrypted_payload(session[d])
<1>1. session[d] \in RatchetState /\ RatchetInv(session[d]) /\ composed[d] \in Nat
  BY Zenon DEF TypedInv, TypeOK, LabelInv
<1>2. encrypted_payload(session[d]) \in Payload /\ PayloadInv(encrypted_payload(session[d]))
  BY <1>1, EncryptProps, Zenon
<1> QED BY <1>1, <1>2 DEF e2ee_msg, Msg

(* What a consumed message does to the session of its reader. *)
LEMMA ConsumeProps ==
  ASSUME TypedInv, NEW d \in Device, NEW msg \in server,
         decrypt_ratchet_ok(session[d], msg.payload)
  PROVE  Consumed(session[d], msg.payload, decrypt_ratchet(session[d], msg.payload),
                  PrunedKeys(session[d], msg.payload))
<1>1. session[d] \in RatchetState /\ RatchetInv(session[d])
      /\ msg.payload \in Payload /\ PayloadInv(msg.payload)
  BY Zenon DEF TypedInv, TypeOK, LabelInv, Msg
<1> QED BY <1>1, DecryptConsumes, Zenon

LEMMA NextTyped == TypedInv /\ [Next]_vars => TypedInv'
<1> SUFFICES ASSUME TypedInv, [Next]_vars PROVE TypedInv'
  BY Zenon
<1> USE DEF TypedInv
<1>1. ASSUME NEW d \in Device, NEW t \in Thread, NEW reaches \in BOOLEAN,
             send_one2one_msg_dispatch(d, t, reaches)
      PROVE  TypedInv'
  <2> DEFINE m == e2ee_msg(d, session[d])
             q == encrypt_ratchet(session[d])
             n == [active |-> TRUE, ratchet |-> q, msg |-> m]
  <2>1. m \in Msg /\ PayloadInv(m.payload)
    BY NextMsg, Zenon
  <2>2. session[d] \in RatchetState /\ RatchetInv(session[d])
        /\ Len(session[d].skipped_msg_key_list) <= MAX_SKIPPED_MESSAGE_KEY_NODES
    BY Zenon DEF TypeOK, LabelInv
  <2>3. q \in RatchetState /\ RatchetInv(q)
        /\ Len(q.skipped_msg_key_list) <= MAX_SKIPPED_MESSAGE_KEY_NODES
    BY <2>2, EncryptProps, Zenon
  <2> HIDE DEF m, q
  <2>4. n \in Sending /\ n.ratchet = q /\ n.msg = m
    BY <2>1, <2>3, Zenon DEF Sending
  <2>5. /\ sending' = [sending EXCEPT ![d][t] = n]
        /\ server' = IF reaches THEN server \cup {m} ELSE server
        /\ composed' = [composed EXCEPT ![d] = @ + 1]
        /\ UNCHANGED <<session, pending, received, handed, pruned, interrupted>>
    BY <1>1, Zenon DEF send_one2one_msg_dispatch, m, q
  <2> HIDE DEF n
  <2>6. server' \in SUBSET Msg /\ composed' \in [Device -> Nat]
    BY <2>1, <2>5 DEF TypeOK
  <2>7. sending' \in [Device -> [Thread -> Sending]]
    BY <2>4, <2>5, Zenon DEF TypeOK
  <2>8. TypeOK'
    BY <2>5, <2>6, <2>7, Zenon DEF TypeOK
  <2>9. ASSUME NEW e \in Device, NEW u \in Thread
        PROVE  sending'[e][u] = IF e = d /\ u = t THEN n ELSE sending[e][u]
    BY <2>5, Zenon DEF TypeOK
  <2>10. LabelInv'
    BY <2>1, <2>3, <2>4, <2>5, <2>9 DEF LabelInv
  <2> QED BY <2>8, <2>10, Zenon
<1>2. ASSUME NEW d \in Device, NEW t \in Thread, NEW ok \in BOOLEAN,
             send_one2one_msg_response(d, t, ok)
      PROVE  TypedInv'
  <2> DEFINE q == sending[d][t].ratchet
             m == sending[d][t].msg
  <2>1. sending[d][t] \in Sending /\ sending[d][t].active
    BY <1>2, Zenon DEF send_one2one_msg_response, TypeOK
  <2>2. q \in RatchetState /\ m \in Msg
    <3>1. sending[d][t] # Idle
      BY <2>1 DEF Idle
    <3> QED BY <2>1, <3>1, Zenon DEF Sending
  <2>3. RatchetInv(q) /\ PayloadInv(m.payload)
        /\ Len(q.skipped_msg_key_list) <= MAX_SKIPPED_MESSAGE_KEY_NODES
    BY <2>1, Zenon DEF LabelInv
  <2>4. /\ session' = [session EXCEPT ![d] = q]
        /\ pending' = [pending EXCEPT ![d] = IF ok THEN @ ELSE @ \cup {m}]
        /\ sending' = [sending EXCEPT ![d][t] = Idle]
        /\ UNCHANGED <<composed, server, received, handed, pruned, interrupted>>
    BY <1>2, Zenon DEF send_one2one_msg_response
  <2> HIDE DEF q, m
  <2>5. session' \in [Device -> RatchetState] /\ pending' \in [Device -> SUBSET Msg]
    BY <2>2, <2>4, Zenon DEF TypeOK
  <2>6. sending' \in [Device -> [Thread -> Sending]]
    BY <2>4, Zenon DEF TypeOK, Sending
  <2>7. \A e \in Device : session'[e] = IF e = d THEN q ELSE session[e]
    BY <2>4, Zenon DEF TypeOK
  <2>8. \A e \in Device : \A u \in Thread :
          sending'[e][u] = IF e = d /\ u = t THEN Idle ELSE sending[e][u]
    BY <2>4, Zenon DEF TypeOK
  <2>9. TypeOK'
    BY <2>3, <2>4, <2>5, <2>6, <2>7, Zenon DEF TypeOK
  <2>10. \A e \in Device : \A x \in pending'[e] : x \in pending[e] \/ x = m
    BY <2>4, Zenon DEF TypeOK
  <2>11. LabelInv'
    BY <2>3, <2>4, <2>7, <2>8, <2>10 DEF LabelInv, Idle
  <2> QED BY <2>9, <2>11, Zenon
<1>3. ASSUME NEW d \in Device, NEW msg \in pending[d],
             NEW reaches \in BOOLEAN, NEW ok \in BOOLEAN,
             resend_pending_request(d, msg, reaches, ok)
      PROVE  TypedInv'
  <2>1. /\ server' = IF reaches THEN server \cup {msg} ELSE server
        /\ pending' = [pending EXCEPT ![d] = IF ok THEN @ \ {msg} ELSE @]
        /\ UNCHANGED <<session, sending, composed, received, handed, pruned, interrupted>>
    BY <1>3, Zenon DEF resend_pending_request
  <2>2. msg \in Msg /\ PayloadInv(msg.payload)
    BY Zenon DEF TypeOK, LabelInv
  <2>3. pending' \in [Device -> SUBSET Msg] /\ server' \in SUBSET Msg
        /\ \A e \in Device : pending'[e] \subseteq pending[e]
    BY <2>1, <2>2, Zenon DEF TypeOK
  <2>4. TypeOK'
    BY <2>1, <2>3, Zenon DEF TypeOK
  <2>5. LabelInv'
    BY <2>1, <2>2, <2>3, Zenon DEF LabelInv
  <2> QED BY <2>4, <2>5, Zenon
<1>4. ASSUME NEW d \in Device, NEW msg \in server, consume_one2one_msg(d, msg)
      PROVE  TypedInv'
  <2> DEFINE q == decrypt_ratchet(session[d], msg.payload)
             P == PrunedKeys(session[d], msg.payload)
  <2>1. /\ session' = [session EXCEPT ![d] = q]
        /\ received' = [received EXCEPT ![d] = @ \cup {msg}]
        /\ handed' = [handed EXCEPT ![d] = @ + 1]
        /\ pruned' = [pruned EXCEPT ![d] = @ \cup P]
        /\ UNCHANGED <<sending, composed, pending, server, interrupted>>
    BY <1>4, Zenon DEF consume_one2one_msg
  <2>2. Consumed(session[d], msg.payload, q, P)
    BY <1>4, ConsumeProps, Zenon DEF consume_one2one_msg
  <2> HIDE DEF q, P
  <2>3. q \in RatchetState /\ RatchetInv(q) /\ P \subseteq ChainKey
        /\ Len(q.skipped_msg_key_list) <= MAX_SKIPPED_MESSAGE_KEY_NODES
    BY <2>2, Zenon DEF Consumed
  <2>4. msg \in Msg
    BY Zenon DEF TypeOK
  <2>5. session' \in [Device -> RatchetState]
        /\ received' \in [Device -> SUBSET Msg]
        /\ handed' \in [Device -> Nat]
        /\ pruned' \in [Device -> SUBSET ChainKey]
    BY <2>1, <2>3, <2>4 DEF TypeOK
  <2>6. \A e \in Device : session'[e] = IF e = d THEN q ELSE session[e]
    BY <2>1, Zenon DEF TypeOK
  <2>7. TypeOK'
    BY <2>1, <2>3, <2>5, <2>6, Zenon DEF TypeOK
  <2>8. LabelInv'
    BY <2>1, <2>3, <2>6, Zenon DEF LabelInv
  <2> QED BY <2>7, <2>8, Zenon
<1>5. ASSUME NEW d \in Device, Crash(d) PROVE TypedInv'
  <2>1. /\ sending' = [sending EXCEPT ![d] = [t \in Thread |-> Idle]]
        /\ UNCHANGED <<session, composed, pending, server, received, handed, pruned>>
    BY <1>5, Zenon DEF Crash
  <2>2. sending' \in [Device -> [Thread -> Sending]]
    BY <2>1, Zenon DEF TypeOK, Sending
  <2>3. \A e \in Device : \A u \in Thread :
          sending'[e][u] = IF e = d THEN Idle ELSE sending[e][u]
    BY <2>1, Zenon DEF TypeOK
  <2> DEFINE P == {sending[d][t].msg.plaintext : t \in {u \in Thread : sending[d][u].active}}
  <2>6. P \subseteq Nat
    <3> SUFFICES ASSUME NEW t \in Thread, sending[d][t].active
                 PROVE  sending[d][t].msg.plaintext \in Nat
      BY Zenon
    <3>1. sending[d][t] \in Sending /\ sending[d][t] # Idle
      BY DEF TypeOK, Idle
    <3>2. sending[d][t].msg \in Msg
      BY <3>1, Zenon DEF Sending
    <3> QED BY <3>2, Zenon DEF Msg
  <2>7. interrupted' = [interrupted EXCEPT ![d] = @ \cup P]
    BY <1>5, Zenon DEF Crash
  <2> HIDE DEF P
  <2>8. interrupted' \in [Device -> SUBSET Nat]
    BY <2>6, <2>7, Zenon DEF TypeOK
  <2>4. TypeOK'
    BY <2>1, <2>2, <2>8, Zenon DEF TypeOK
  <2>5. LabelInv'
    BY <2>1, <2>3 DEF LabelInv, Idle
  <2> QED BY <2>4, <2>5, Zenon
<1>6. ASSUME UNCHANGED vars PROVE TypedInv'
  BY <1>6, Zenon DEF vars, TypeOK, LabelInv
<1> QED BY <1>1, <1>2, <1>3, <1>4, <1>5, <1>6, Zenon DEF Next, consume_one2one_msg_failed

LEMMA AlwaysTyped == Spec => []TypedInv
BY InitTyped, NextTyped, PTL DEF Spec

(* The stored state of a session keeps its types and its key list stays
   within the limit, with any number of threads, serialised or not, and
   through crashes. *)
THEOREM TypeCorrect == Spec => []TypeOK
<1>1. TypedInv => TypeOK
  BY Zenon DEF TypedInv
<1> QED BY <1>1, AlwaysTyped, PTL

-----------------------------------------------------------------------------
(***************************************************************************)
(* Replay.  With the operations of a device serialised, the ratchet a send *)
(* stores is the one it loaded, moved by encrypt_ratchet only; so nothing  *)
(* brings back a key that the receiving side has let go.                   *)
(***************************************************************************)
SendInv ==
  \A d \in Device : \A t \in Thread : sending[d][t].active =>
    /\ sending[d][t].ratchet = encrypt_ratchet(session[d])
    /\ \A u \in Thread : sending[d][u].active => u = t

PastInv ==
  \A d \in Device :
    /\ received[d] \subseteq server
    /\ \A msg \in received[d] : msg.from = Peer(d) /\ Gone(KeyOf(msg), session[d])
    /\ \A k \in pruned[d] : Oldest(k, session[d])

ReplayInv == TypedInv /\ SendInv /\ PastInv

LEMMA InitReplay == Init => ReplayInv
<1> SUFFICES ASSUME Init PROVE ReplayInv
  BY Zenon
<1>1. SendInv
  BY Zenon DEF Init, SendInv, Idle
<1>2. PastInv
  BY Zenon DEF Init, PastInv
<1> QED BY <1>1, <1>2, InitTyped, Zenon DEF ReplayInv

LEMMA NextReplay == Serialised /\ ReplayInv /\ [Next]_vars => ReplayInv'
<1> SUFFICES ASSUME Serialised, ReplayInv, [Next]_vars PROVE SendInv' /\ PastInv'
  BY NextTyped, Zenon DEF ReplayInv
<1> USE DEF ReplayInv
<1>0. TypedInv /\ TypeOK /\ \A d \in Device : session[d] \in RatchetState /\ RatchetInv(session[d])
  BY Zenon DEF TypedInv, TypeOK, LabelInv
<1>1. ASSUME NEW d \in Device, NEW t \in Thread, NEW reaches \in BOOLEAN,
             send_one2one_msg_dispatch(d, t, reaches)
      PROVE  SendInv' /\ PastInv'
  <2> DEFINE n == [active |-> TRUE, ratchet |-> encrypt_ratchet(session[d]),
                   msg |-> e2ee_msg(d, session[d])]
  <2>1. /\ sending' = [sending EXCEPT ![d][t] = n]
        /\ server \subseteq server'
        /\ UNCHANGED <<session, received, pruned>>
        /\ \A u \in Thread : ~sending[d][u].active
    BY <1>1, Zenon DEF send_one2one_msg_dispatch, MayRun
  <2>2. n.ratchet = encrypt_ratchet(session[d])
    BY Zenon
  <2> HIDE DEF n
  <2>3. \A e \in Device : \A u \in Thread :
          sending'[e][u] = IF e = d /\ u = t THEN n ELSE sending[e][u]
    BY <2>1, <1>0, Zenon DEF TypeOK
  <2>4. SendInv'
    BY <2>1, <2>2, <2>3 DEF SendInv
  <2>5. PastInv'
    BY <2>1, Zenon DEF PastInv
  <2> QED BY <2>4, <2>5, Zenon
<1>2. ASSUME NEW d \in Device, NEW t \in Thread, NEW ok \in BOOLEAN,
             send_one2one_msg_response(d, t, ok)
      PROVE  SendInv' /\ PastInv'
  <2> DEFINE q == encrypt_ratchet(session[d])
  <2>1. /\ session' = [session EXCEPT ![d] = q]
        /\ sending' = [sending EXCEPT ![d][t] = Idle]
        /\ UNCHANGED <<server, received, pruned>>
        /\ \A u \in Thread : sending[d][u].active => u = t
    BY <1>2, Zenon DEF send_one2one_msg_response, SendInv
  <2>2. q.receiver_chain = session[d].receiver_chain
        /\ q.skipped_msg_key_list = session[d].skipped_msg_key_list
    BY <1>0, EncryptProps, Zenon
  <2> HIDE DEF q
  <2>3. \A e \in Device : session'[e] = IF e = d THEN q ELSE session[e]
    BY <2>1, <1>0, Zenon DEF TypeOK
  <2>4. \A e \in Device : \A u \in Thread :
          sending'[e][u] = IF e = d /\ u = t THEN Idle ELSE sending[e][u]
    BY <2>1, <1>0, Zenon DEF TypeOK
  <2>5. SendInv'
    <3> SUFFICES ASSUME NEW e \in Device, NEW u \in Thread, sending'[e][u].active
                 PROVE  /\ sending'[e][u].ratchet = encrypt_ratchet(session'[e])
                        /\ \A v \in Thread : sending'[e][v].active => v = u
      BY Zenon DEF SendInv
    <3>1. e # d /\ sending'[e] = sending[e]
      BY <2>1, <2>4, <1>0 DEF Idle, TypeOK
    <3> QED BY <3>1, <2>3, Zenon DEF SendInv
  <2>6. \A e \in Device : \A k :
          (Gone(k, session[e]) => Gone(k, session'[e]))
          /\ (Oldest(k, session[e]) => Oldest(k, session'[e]))
    BY <2>2, <2>3, ZenonT(40) DEF Gone, Oldest, SkippedKeys
  <2>7. PastInv'
    BY <2>1, <2>6, Zenon DEF PastInv
  <2> QED BY <2>5, <2>7, Zenon
<1>3. ASSUME NEW d \in Device, NEW msg \in pending[d],
             NEW reaches \in BOOLEAN, NEW ok \in BOOLEAN,
             resend_pending_request(d, msg, reaches, ok)
      PROVE  SendInv' /\ PastInv'
  <2>1. server \subseteq server' /\ UNCHANGED <<session, sending, received, pruned>>
    BY <1>3, Zenon DEF resend_pending_request
  <2> QED BY <2>1, Zenon DEF SendInv, PastInv
<1>4. ASSUME NEW d \in Device, NEW msg \in server, consume_one2one_msg(d, msg)
      PROVE  SendInv' /\ PastInv'
  <2> DEFINE q == decrypt_ratchet(session[d], msg.payload)
             P == PrunedKeys(session[d], msg.payload)
  <2>1. /\ session' = [session EXCEPT ![d] = q]
        /\ received' = [received EXCEPT ![d] = @ \cup {msg}]
        /\ pruned' = [pruned EXCEPT ![d] = @ \cup P]
        /\ UNCHANGED <<sending, server>>
        /\ msg.from = Peer(d)
        /\ \A u \in Thread : ~sending[d][u].active
    BY <1>4, Zenon DEF consume_one2one_msg, MayRun
  <2>2. Consumed(session[d], msg.payload, q, P) /\ msg.payload \in Payload
    BY <1>4, <1>0, ConsumeProps, Zenon DEF consume_one2one_msg, TypeOK, Msg
  <2>3. /\ Gone(KeyOf(msg), q)
        /\ \A k \in ChainKey : Gone(k, session[d]) => Gone(k, q)
        /\ \A k \in ChainKey : Oldest(k, session[d]) => Oldest(k, q)
        /\ \A k \in P : Oldest(k, q)
    BY <2>2, <1>0, ConsumedKeeps DEF KeyOf
  <2> HIDE DEF q, P
  <2>4. \A e \in Device :
          /\ session'[e] = IF e = d THEN q ELSE session[e]
          /\ received'[e] = IF e = d THEN received[e] \cup {msg} ELSE received[e]
          /\ pruned'[e] = IF e = d THEN pruned[e] \cup P ELSE pruned[e]
    BY <2>1, <1>0, Zenon DEF TypeOK
  <2>5. SendInv'
    BY <2>1, <2>4 DEF SendInv
  <2>6. \A e \in Device : (\A x \in received[e] : KeyOf(x) \in ChainKey)
                          /\ \A k \in pruned[e] : k \in ChainKey
    BY <1>0, SMTT(30) DEF TypeOK, KeyOf, Msg, Payload
  <2>7. PastInv'
    <3> SUFFICES ASSUME NEW e \in Device
                 PROVE  /\ received'[e] \subseteq server
                        /\ \A x \in received'[e] : x.from = Peer(e) /\ Gone(KeyOf(x), session'[e])
                        /\ \A k \in pruned'[e] : Oldest(k, session'[e])
      BY <2>1, Zenon DEF PastInv
    <3>1. CASE e = d
      <4>1. ASSUME NEW x \in received'[d] PROVE x.from = Peer(d) /\ Gone(KeyOf(x), q)
        <5>1. CASE x = msg
          BY <5>1, <2>1, <2>3, Zenon
        <5>2. CASE x \in received[d]
          BY <5>2, <2>3, <2>6, Zenon DEF PastInv
        <5> QED BY <4>1, <5>1, <5>2, <2>4, Zenon
      <4>2. received'[d] \subseteq server /\ \A k \in pruned'[d] : Oldest(k, q)
        BY <2>3, <2>4, <2>6, Zenon DEF PastInv
      <4>3. session'[d] = q
        BY <2>4, Zenon
      <4> QED BY <3>1, <4>1, <4>2, <4>3, Zenon
    <3>2. CASE e # d
      BY <3>2, <2>4, Zenon DEF PastInv
    <3> QED BY <3>1, <3>2, Zenon
  <2> QED BY <2>5, <2>7, Zenon
<1>5. ASSUME NEW d \in Device, Crash(d) PROVE SendInv' /\ PastInv'
  <2>1. /\ sending' = [sending EXCEPT ![d] = [t \in Thread |-> Idle]]
        /\ UNCHANGED <<session, server, received, pruned>>
    BY <1>5, Zenon DEF Crash
  <2>2. \A e \in Device : \A u \in Thread :
          sending'[e][u] = IF e = d THEN Idle ELSE sending[e][u]
    BY <2>1, <1>0, Zenon DEF TypeOK
  <2> QED BY <2>1, <2>2 DEF SendInv, PastInv, Idle
<1>6. ASSUME UNCHANGED vars PROVE SendInv' /\ PastInv'
  BY <1>6, Zenon DEF vars, SendInv, PastInv
<1> QED BY <1>1, <1>2, <1>3, <1>4, <1>5, <1>6, Zenon DEF Next, consume_one2one_msg_failed

LEMMA ReplayImplies == ReplayInv => NoReplay /\ OldestPruned
<1> SUFFICES ASSUME ReplayInv PROVE NoReplay /\ OldestPruned
  BY Zenon
<1>1. ASSUME NEW d \in Device, NEW msg \in received[d]
      PROVE  ~decrypt_ratchet_ok(session[d], msg.payload)
  <2>1. /\ session[d] \in RatchetState /\ RatchetInv(session[d])
        /\ msg.payload \in Payload /\ PayloadInv(msg.payload)
    BY Zenon DEF ReplayInv, PastInv, TypedInv, TypeOK, LabelInv, Msg
  <2>2. Gone(msg.payload.sealed_with, session[d])
    BY Zenon DEF ReplayInv, PastInv, KeyOf
  <2> QED BY <2>1, <2>2, PassedIsShut, Zenon DEF Gone
<1>2. OldestPruned
  BY Zenon DEF ReplayInv, PastInv, Oldest, OldestPruned
<1> QED BY <1>1, <1>2, Zenon DEF NoReplay

(* A message whose plaintext went to the application is never decrypted again,
   for any limit, any number of messages, and through crashes, provided that
   the application serialises the operations of a device. *)
THEOREM ReplaySafe == ASSUME Serialised PROVE Spec => []NoReplay
<1>1. Serialised
  BY Zenon
<1>2. ReplayInv /\ [Next]_vars => ReplayInv'
  BY <1>1, NextReplay, Zenon
<1> QED BY <1>2, InitReplay, ReplayImplies, PTL DEF Spec

(* The limit of the list drops the oldest keys: none that is kept is older
   than one that was dropped. *)
THEOREM PruningSafe == ASSUME Serialised PROVE Spec => []OldestPruned
<1>1. Serialised
  BY Zenon
<1>2. ReplayInv /\ [Next]_vars => ReplayInv'
  BY <1>1, NextReplay, Zenon
<1> QED BY <1>2, InitReplay, ReplayImplies, PTL DEF Spec

-----------------------------------------------------------------------------
(* A consumed message is new to its reader, so the session is a channel that
   delivers what was sent, and at most once. *)
LEMMA StepRefines == Serialised /\ ReplayInv /\ [Next]_vars => [Channel!Next]_<<server, received, handed>>
<1> SUFFICES ASSUME Serialised, ReplayInv, [Next]_vars,
                    ~UNCHANGED <<server, received, handed>>
             PROVE  Channel!Next
  BY Zenon
<1>1. ASSUME NEW d \in Device, NEW t \in Thread, NEW reaches \in BOOLEAN,
             send_one2one_msg_dispatch(d, t, reaches)
      PROVE  Channel!Next
  BY <1>1, Zenon DEF send_one2one_msg_dispatch, Channel!Next, Channel!Take
<1>2. ASSUME NEW d \in Device, NEW t \in Thread, NEW ok \in BOOLEAN,
             send_one2one_msg_response(d, t, ok)
      PROVE  Channel!Next
  BY <1>2, Zenon DEF send_one2one_msg_response
<1>3. ASSUME NEW d \in Device, NEW msg \in pending[d],
             NEW reaches \in BOOLEAN, NEW ok \in BOOLEAN,
             resend_pending_request(d, msg, reaches, ok)
      PROVE  Channel!Next
  BY <1>3, Zenon DEF resend_pending_request, Channel!Next, Channel!Take
<1>4. ASSUME NEW d \in Device, NEW msg \in server, consume_one2one_msg(d, msg)
      PROVE  Channel!Next
  <2>1. decrypt_ratchet_ok(session[d], msg.payload) /\ msg.from = Peer(d)
        /\ received' = [received EXCEPT ![d] = @ \cup {msg}] /\ server' = server
        /\ handed' = [handed EXCEPT ![d] = @ + 1]
    BY <1>4, Zenon DEF consume_one2one_msg
  <2>2. msg \notin received[d]
    BY <2>1, ReplayImplies, Zenon DEF NoReplay
  <2>3. msg.from # d
    BY <2>1, DeviceAssumption DEF Peer, Device
  <2>4. Channel!Deliver(d)
    BY <2>1, <2>2, <2>3, Zenon DEF Channel!Deliver
  <2> QED BY <2>4, Zenon DEF Channel!Next
<1>5. ASSUME NEW d \in Device, Crash(d) PROVE Channel!Next
  BY <1>5, Zenon DEF Crash
<1> QED BY <1>1, <1>2, <1>3, <1>4, <1>5, Zenon DEF Next, consume_one2one_msg_failed, vars

(* A serialised session implements the channel of MsgChannel. *)
THEOREM ChannelRefined == ASSUME Serialised PROVE Spec => ImplementsChannel
<1>1. Serialised
  BY Zenon
<1>2. ReplayInv /\ [Next]_vars => ReplayInv'
  BY <1>1, NextReplay, Zenon
<1>3. ReplayInv /\ [Next]_vars => [Channel!Next]_<<server, received, handed>>
  BY <1>1, StepRefines, Zenon
<1>4. Init => Channel!Init
  BY Zenon DEF Init, Channel!Init
<1> QED BY <1>2, <1>3, <1>4, InitReplay, PTL DEF Spec, ImplementsChannel, Channel!Spec

-----------------------------------------------------------------------------
(***************************************************************************)
(* Root sequences.  The two ends are always exactly one root step apart,   *)
(* the inviter on the odd ones, and no message is ahead of its writer.     *)
(***************************************************************************)
Side(d) == IF d = Alice THEN 1 ELSE 0

FromInv ==
  /\ \A d \in Device : \A msg \in pending[d] : msg.from = d
  /\ \A d \in Device : \A t \in Thread :
       sending[d][t].active => sending[d][t].msg.from = d

NotAhead(msg) ==
  /\ msg.payload.root_sequence <= session[msg.from].root_sequence
  /\ msg.payload.root_sequence % 2 = Side(msg.from)

StepsInv ==
  /\ \A d \in Device : session[d].root_sequence % 2 = Side(d)
  /\ \/ session[Alice].root_sequence = session[Bob].root_sequence + 1
     \/ session[Bob].root_sequence = session[Alice].root_sequence + 1
  /\ \A msg \in server : NotAhead(msg)
  /\ \A d \in Device : \A msg \in pending[d] : NotAhead(msg)
  /\ \A d \in Device : \A t \in Thread :
       sending[d][t].active => NotAhead(sending[d][t].msg)

RootsInv == ReplayInv /\ FromInv /\ StepsInv

LEMMA InitRoots == Init => RootsInv
<1> SUFFICES ASSUME Init PROVE RootsInv
  BY Zenon
<1>1. session[Alice].root_sequence = 1 /\ session[Bob].root_sequence = 0
  BY DeviceAssumption, Zenon DEF Init, Device, initialise_as_alice, initialise_as_bob
<1>2. \A d \in Device : \A t \in Thread : ~sending[d][t].active
  BY Zenon DEF Init, Idle
<1>3. FromInv
  BY <1>2, Zenon DEF Init, FromInv
<1>4. \A d \in Device : session[d].root_sequence % 2 = Side(d)
  BY <1>1, DeviceAssumption DEF Device, Side
<1>5. StepsInv
  BY <1>1, <1>2, <1>4 DEF Init, StepsInv
<1> QED BY <1>3, <1>5, InitReplay, Zenon DEF RootsInv

(* Steps that leave the root sequences alone and add no new message but one of
   the device that takes the step, made under its current root sequence. *)
LEMMA SameRoots ==
  ASSUME RootsInv,
         \A e \in Device : session'[e].root_sequence = session[e].root_sequence,
         NEW d \in Device, NEW m, m.from = d,
         m.payload.root_sequence <= session[d].root_sequence,
         m.payload.root_sequence % 2 = Side(d),
         \A msg \in server' : msg \in server \/ msg = m,
         \A e \in Device : \A msg \in pending'[e] : msg \in pending[e] \/ (e = d /\ msg = m),
         \A e \in Device : \A t \in Thread : sending'[e][t].active =>
            sending'[e][t] = sending[e][t] \/ (e = d /\ sending'[e][t].msg = m)
  PROVE  FromInv' /\ StepsInv'
<1>1. FromInv /\ StepsInv
  BY Zenon DEF RootsInv
<1>2. Alice \in Device /\ Bob \in Device
  BY Zenon DEF Device
<1>3. \A msg : msg.from \in Device /\ NotAhead(msg) => NotAhead(msg)'
  BY Zenon DEF NotAhead
<1>4. NotAhead(m)'
  BY Zenon DEF NotAhead
<1>5. \A msg \in server : msg.from \in Device
  BY Zenon DEF RootsInv, ReplayInv, TypedInv, TypeOK, Msg
<1>6. FromInv'
  BY <1>1 DEF FromInv
<1>7. \A msg \in server' : NotAhead(msg)'
  BY <1>1, <1>3, <1>4, <1>5, Zenon DEF StepsInv
<1>8. \A e \in Device : \A msg \in pending'[e] : NotAhead(msg)'
  BY <1>1, <1>3, <1>4 DEF StepsInv, FromInv
<1>9. ASSUME NEW e \in Device, NEW t \in Thread, sending'[e][t].active
      PROVE  NotAhead(sending[e][t].msg)'
  <2>1. CASE sending'[e][t] = sending[e][t]
    <3>1. sending[e][t].msg.from = e /\ NotAhead(sending[e][t].msg)
      BY <1>1, <1>9, <2>1, Zenon DEF StepsInv, FromInv
    <3> QED BY <2>1, <3>1, Zenon DEF NotAhead
  <2>2. CASE e = d /\ sending'[e][t].msg = m
    BY <2>2, Zenon DEF NotAhead
  <2> QED BY <1>9, <2>1, <2>2, Zenon
<1> QED BY <1>1, <1>2, <1>6, <1>7, <1>8, <1>9, Zenon DEF StepsInv

LEMMA NextRoots == Serialised /\ RootsInv /\ [Next]_vars => RootsInv'
<1> SUFFICES ASSUME Serialised, RootsInv, [Next]_vars PROVE FromInv' /\ StepsInv'
  BY NextReplay, Zenon DEF RootsInv
<1>0. /\ TypedInv /\ TypeOK /\ SendInv /\ FromInv /\ StepsInv
      /\ \A d \in Device : session[d] \in RatchetState /\ RatchetInv(session[d])
      /\ \A d \in Device : session[d].root_sequence \in Nat
  BY Zenon DEF RootsInv, ReplayInv, TypedInv, TypeOK, LabelInv, RatchetState
<1>1. ASSUME NEW d \in Device, NEW t \in Thread, NEW reaches \in BOOLEAN,
             send_one2one_msg_dispatch(d, t, reaches)
      PROVE  FromInv' /\ StepsInv'
  <2> DEFINE m == e2ee_msg(d, session[d])
  <2>1. m.from = d /\ m.payload.root_sequence = session[d].root_sequence
    BY <1>0, NextMsg, EncryptProps, Zenon
  <2>2. m.payload.root_sequence <= session[d].root_sequence
        /\ m.payload.root_sequence % 2 = Side(d)
    BY <2>1, <1>0 DEF StepsInv
  <2>3. /\ \A msg \in server' : msg \in server \/ msg = m
        /\ UNCHANGED <<session, pending>>
    BY <1>1, Zenon DEF send_one2one_msg_dispatch
  <2>4. \A e \in Device : \A u \in Thread :
          sending'[e][u] = sending[e][u] \/ (e = d /\ sending'[e][u].msg = m)
    BY <1>1, <1>0, Zenon DEF send_one2one_msg_dispatch, TypeOK
  <2> HIDE DEF m
  <2> QED BY <2>1, <2>2, <2>3, <2>4, SameRoots, SMTT(20)
<1>2. ASSUME NEW d \in Device, NEW t \in Thread, NEW ok \in BOOLEAN,
             send_one2one_msg_response(d, t, ok)
      PROVE  FromInv' /\ StepsInv'
  <2> DEFINE m == sending[d][t].msg
             q == encrypt_ratchet(session[d])
  <2>1. sending[d][t].active /\ m.from = d /\ NotAhead(m)
    BY <1>2, <1>0, Zenon DEF send_one2one_msg_response, FromInv, StepsInv
  <2>2. m.payload.root_sequence <= session[d].root_sequence
        /\ m.payload.root_sequence % 2 = Side(d)
    BY <2>1, Zenon DEF NotAhead
  <2>3. q.root_sequence = session[d].root_sequence /\ session' = [session EXCEPT ![d] = q]
    BY <1>2, <2>1, <1>0, EncryptProps, Zenon DEF send_one2one_msg_response, SendInv
  <2> HIDE DEF q
  <2>4. \A e \in Device : session'[e].root_sequence = session[e].root_sequence
    BY <2>3, <1>0, Zenon DEF TypeOK
  <2>5. \A e \in Device : \A u \in Thread :
          sending'[e][u].active => sending'[e][u] = sending[e][u]
    BY <1>2, <1>0, Zenon DEF send_one2one_msg_response, TypeOK, Idle
  <2>6. /\ \A e \in Device : \A msg \in pending'[e] : msg \in pending[e] \/ (e = d /\ msg = m)
        /\ server' = server
    BY <1>2, <1>0, Zenon DEF send_one2one_msg_response, TypeOK
  <2> HIDE DEF m
  <2> QED BY <2>1, <2>2, <2>4, <2>5, <2>6, SameRoots, SMTT(20)
<1>3. ASSUME NEW d \in Device, NEW msg \in pending[d],
             NEW reaches \in BOOLEAN, NEW ok \in BOOLEAN,
             resend_pending_request(d, msg, reaches, ok)
      PROVE  FromInv' /\ StepsInv'
  <2>1. msg.from = d /\ NotAhead(msg)
    BY <1>0, Zenon DEF FromInv, StepsInv
  <2>2. msg.payload.root_sequence <= session[d].root_sequence
        /\ msg.payload.root_sequence % 2 = Side(d)
    BY <2>1, Zenon DEF NotAhead
  <2>3. /\ \A x \in server' : x \in server \/ x = msg
        /\ \A e \in Device : pending'[e] \subseteq pending[e]
        /\ UNCHANGED <<session, sending>>
    BY <1>3, <1>0, Zenon DEF resend_pending_request, TypeOK
  <2> QED BY <2>1, <2>2, <2>3, SameRoots, Zenon
<1>4. ASSUME NEW d \in Device, NEW msg \in server, consume_one2one_msg(d, msg)
      PROVE  FromInv' /\ StepsInv'
  <2> DEFINE r == session[d]
             p == msg.payload
             q == decrypt_ratchet(r, p)
             x == Peer(d)
  <2>1. /\ session' = [session EXCEPT ![d] = q]
        /\ UNCHANGED <<sending, server, pending>>
        /\ decrypt_ratchet_ok(r, p)
        /\ msg.from = x
    BY <1>4, Zenon DEF consume_one2one_msg
  <2>2. /\ x \in Device /\ x # d /\ Side(x) = 1 - Side(d)
        /\ \A e \in Device : e = d \/ e = x
        /\ ((d = Alice /\ x = Bob) \/ (d = Bob /\ x = Alice)) /\ Side(d) \in {0, 1}
    BY DeviceAssumption DEF Peer, Device, Side
  <2>3. p \in Payload /\ p.root_sequence \in Nat /\ NotAhead(msg)
    BY <1>0, Zenon DEF StepsInv, TypeOK, Msg, Payload
  <2>4. p.root_sequence <= session[x].root_sequence
    BY <2>1, <2>3, Zenon DEF NotAhead
  <2>5. q.root_sequence = IF p.root_sequence = r.root_sequence + 1
                            THEN r.root_sequence + 2 ELSE r.root_sequence
    BY <1>0, <2>1, <2>3, DecryptRoot, Zenon DEF is_new_chain
  <2>6. r.root_sequence = session[x].root_sequence + 1
        \/ session[x].root_sequence = r.root_sequence + 1
    BY <1>0, <2>2, Zenon DEF StepsInv
  <2> HIDE DEF q, x
  <2>7. session'[d] = q /\ session'[x] = session[x]
    BY <2>1, <2>2, <1>0, Zenon DEF TypeOK
  <2>8. /\ q.root_sequence = session[x].root_sequence + 1
           \/ session[x].root_sequence = q.root_sequence + 1
        /\ q.root_sequence >= r.root_sequence
        /\ q.root_sequence % 2 = r.root_sequence % 2
    BY <2>2, <2>3, <2>4, <2>5, <2>6, <1>0
  <2>9. \A m : m.from \in Device /\ m.payload.root_sequence \in Nat /\ NotAhead(m) => NotAhead(m)'
    <3> SUFFICES ASSUME NEW m, m.from \in Device, m.payload.root_sequence \in Nat, NotAhead(m)
                 PROVE  m.payload.root_sequence <= session'[m.from].root_sequence
      BY Zenon DEF NotAhead
    <3>1. m.payload.root_sequence <= session[m.from].root_sequence
      BY Zenon DEF NotAhead
    <3>2. q.root_sequence \in Nat
      BY <2>5, <1>0
    <3>3. CASE m.from = d
      BY <3>1, <3>2, <3>3, <2>7, <2>8, <1>0, SMTT(20)
    <3>4. CASE m.from = x
      BY <3>1, <3>4, <2>7, Zenon
    <3> QED BY <3>3, <3>4, <2>2, Zenon
  <2>10. /\ \A m \in server : m.from \in Device /\ m.payload.root_sequence \in Nat
         /\ \A e \in Device : \A m \in pending[e] : m.from \in Device /\ m.payload.root_sequence \in Nat
         /\ \A e \in Device : \A t \in Thread : sending[e][t].active =>
              sending[e][t].msg.from \in Device /\ sending[e][t].msg.payload.root_sequence \in Nat
    <3>1. \A m \in Msg : m.from \in Device /\ m.payload.root_sequence \in Nat
      BY Zenon DEF Msg, Payload
    <3>2. ASSUME NEW e \in Device, NEW t \in Thread, sending[e][t].active
          PROVE  sending[e][t].msg \in Msg
      <4>1. sending[e][t] \in Sending /\ sending[e][t] # Idle
        BY <3>2, <1>0 DEF TypeOK, Idle
      <4> QED BY <4>1, ZenonT(30) DEF Sending
    <3> QED BY <3>1, <3>2, <1>0, Zenon DEF TypeOK
  <2>11. FromInv'
    BY <2>1, <1>0, Zenon DEF FromInv
  <2>12. \A e \in Device : session'[e].root_sequence % 2 = Side(e)
    BY <2>2, <2>7, <2>8, <1>0, Zenon DEF StepsInv
  <2>13. \/ session'[Alice].root_sequence = session'[Bob].root_sequence + 1
         \/ session'[Bob].root_sequence = session'[Alice].root_sequence + 1
    BY <2>2, <2>7, <2>8, Zenon
  <2>14. StepsInv'
    <3>1. \A m \in server' : NotAhead(m)'
      BY <2>1, <2>9, <2>10, <1>0, Zenon DEF StepsInv
    <3>2. \A e \in Device : \A m \in pending'[e] : NotAhead(m)'
      BY <2>1, <2>9, <2>10, <1>0, SMTT(30) DEF StepsInv
    <3>3. ASSUME NEW e \in Device, NEW t \in Thread, sending'[e][t].active
          PROVE  NotAhead(sending[e][t].msg)'
      <4>1. sending' = sending /\ NotAhead(sending[e][t].msg)
        BY <3>3, <2>1, <1>0, Zenon DEF StepsInv
      <4>2. NotAhead(sending[e][t].msg) => \A m : m = sending[e][t].msg => NotAhead(m)'
        BY <3>3, <4>1, <2>9, <2>10, SMTT(30)
      <4> QED BY <4>1, <4>2, Zenon DEF NotAhead
    <3> QED BY <3>1, <3>2, <3>3, <2>12, <2>13, Zenon DEF StepsInv
  <2> QED BY <2>11, <2>14, Zenon
<1>5. ASSUME NEW d \in Device, Crash(d) PROVE FromInv' /\ StepsInv'
  <2>1. /\ UNCHANGED <<session, server, pending>>
        /\ \A e \in Device : \A u \in Thread :
              sending'[e][u].active => sending'[e][u] = sending[e][u]
    BY <1>5, <1>0, Zenon DEF Crash, TypeOK, Idle
  <2> QED BY <2>1, <1>0, SMTT(30) DEF FromInv, StepsInv, NotAhead
<1>6. ASSUME UNCHANGED vars PROVE FromInv' /\ StepsInv'
  BY <1>6, <1>0, Zenon DEF vars, FromInv, StepsInv, NotAhead
<1> QED BY <1>1, <1>2, <1>3, <1>4, <1>5, <1>6, Zenon DEF Next, consume_one2one_msg_failed

LEMMA RootsImplies == RootsInv => RootsAlternate
<1> SUFFICES ASSUME RootsInv, NEW d \in Device, NEW msg \in server, msg.from = Peer(d)
             PROVE  /\ msg.payload.root_sequence # session[d].root_sequence
                    /\ msg.payload.root_sequence > session[d].root_sequence =>
                         msg.payload.root_sequence = session[d].root_sequence + 1
  BY Zenon DEF RootsAlternate
<1> DEFINE x == Peer(d)
<1>1. Side(x) # Side(d) /\ ((d = Alice /\ x = Bob) \/ (d = Bob /\ x = Alice)) /\ x \in Device
  BY DeviceAssumption DEF Peer, Device, Side
<1>2. /\ session[d].root_sequence \in Nat /\ session[x].root_sequence \in Nat
      /\ msg.payload.root_sequence \in Nat
  BY <1>1, Zenon DEF RootsInv, ReplayInv, TypedInv, TypeOK, RatchetState, Msg, Payload
<1>3. /\ msg.payload.root_sequence <= session[x].root_sequence
      /\ msg.payload.root_sequence % 2 = Side(x)
      /\ session[d].root_sequence % 2 = Side(d)
  BY <1>1, Zenon DEF RootsInv, StepsInv, NotAhead
<1>4. session[d].root_sequence = session[x].root_sequence + 1
      \/ session[x].root_sequence = session[d].root_sequence + 1
  BY <1>1, Zenon DEF RootsInv, StepsInv
<1>5. msg.payload.root_sequence # session[d].root_sequence
  BY <1>1, <1>3, Zenon
<1> QED BY <1>2, <1>3, <1>4, <1>5

(* What decrypt_ratchet's comments say of the root sequence of an incoming
   payload holds of a session whose device serialises its operations. *)
THEOREM RootsSafe == ASSUME Serialised PROVE Spec => []RootsAlternate
<1>1. Serialised
  BY Zenon
<1>2. RootsInv /\ [Next]_vars => RootsInv'
  BY <1>1, NextRoots, Zenon
<1> QED BY <1>2, InitRoots, RootsImplies, PTL DEF Spec

-----------------------------------------------------------------------------
(***************************************************************************)
(* Message keys.  The keys of all sealed messages of a device are behind   *)
(* its sender chain, but for the one of the send in progress, which is the *)
(* head of the chain, and those whose send was interrupted by a stop.      *)
(***************************************************************************)
BehindInv ==
  \A d \in Device : \A m \in Sealed(d) :
    \/ m.plaintext \in interrupted[d]
    \/ Older(KeyOf(m), session[d].sender_chain)
    \/ /\ KeyOf(m) = session[d].sender_chain
       /\ \E t \in Thread : sending[d][t].active /\ sending[d][t].msg = m

OnceInv == RootsInv /\ BehindInv /\ KeyUsedOnce

LEMMA InitOnce == Init => OnceInv
<1> SUFFICES ASSUME Init PROVE OnceInv
  BY Zenon
<1>1. \A d \in Device : Sealed(d) = {}
  BY Zenon DEF Init, Idle, Sealed
<1> QED BY <1>1, InitRoots, Zenon DEF OnceInv, BehindInv, KeyUsedOnce

(* The keys of a device's messages are chain keys. *)
LEMMA SealedTyped ==
  ASSUME RootsInv, NEW d \in Device, NEW m \in Sealed(d)
  PROVE  m \in Msg /\ m.from = d /\ KeyOf(m) \in ChainKey
<1>1. TypeOK /\ FromInv
  BY Zenon DEF RootsInv, ReplayInv, TypedInv
<1>2. m \in Msg /\ m.from = d
  <2>1. CASE m \in server /\ m.from = d
    BY <2>1, <1>1, Zenon DEF TypeOK
  <2>2. CASE m \in pending[d]
    BY <2>2, <1>1, Zenon DEF TypeOK, FromInv
  <2>3. ASSUME NEW t \in Thread, sending[d][t].active, m = sending[d][t].msg
        PROVE  m \in Msg /\ m.from = d
    <3>1. sending[d][t] \in Sending /\ sending[d][t] # Idle
      BY <2>3, <1>1 DEF TypeOK, Idle
    <3> QED BY <2>3, <3>1, <1>1, Zenon DEF Sending, FromInv
  <2> QED BY <2>1, <2>2, <2>3, Zenon DEF Sealed
<1> QED BY <1>2, Zenon DEF KeyOf, Msg, Payload

(* A step that seals nothing, and moves no sender chain back. *)
LEMMA SealsNothing ==
  ASSUME OnceInv,
         \A e \in Device : Sealed(e)' \subseteq Sealed(e),
         \A e \in Device : \A m \in Sealed(e)' :
            Older(KeyOf(m), session[e].sender_chain) =>
              Older(KeyOf(m), session'[e].sender_chain),
         \A e \in Device : \A t \in Thread : sending[e][t].active =>
            \/ /\ sending'[e][t] = sending[e][t]
               /\ session'[e].sender_chain = session[e].sender_chain
            \/ Older(session[e].sender_chain, session'[e].sender_chain)
            \/ sending[e][t].msg.plaintext \in interrupted'[e],
         \A e \in Device : interrupted[e] \subseteq interrupted'[e]
  PROVE  BehindInv' /\ KeyUsedOnce'
<1>1. KeyUsedOnce'
  BY Zenon DEF OnceInv, KeyUsedOnce, KeyOf
<1>2. ASSUME NEW e \in Device, NEW m \in Sealed(e)'
      PROVE  \/ m.plaintext \in interrupted'[e]
             \/ Older(KeyOf(m), session'[e].sender_chain)
             \/ /\ KeyOf(m) = session'[e].sender_chain
                /\ \E t \in Thread : sending'[e][t].active /\ sending'[e][t].msg = m
  <2>1. CASE Older(KeyOf(m), session[e].sender_chain)
    BY <2>1, Zenon
  <2>2. ASSUME NEW t \in Thread, sending[e][t].active, sending[e][t].msg = m,
               KeyOf(m) = session[e].sender_chain
        PROVE  \/ m.plaintext \in interrupted'[e]
               \/ Older(KeyOf(m), session'[e].sender_chain)
               \/ /\ KeyOf(m) = session'[e].sender_chain
                  /\ \E u \in Thread : sending'[e][u].active /\ sending'[e][u].msg = m
    BY <2>2, Zenon
  <2> QED BY <2>1, <2>2, Zenon DEF OnceInv, BehindInv
<1> QED BY <1>1, <1>2, Zenon DEF BehindInv, KeyOf

LEMMA NextOnce == Serialised /\ OnceInv /\ [Next]_vars => OnceInv'
<1> SUFFICES ASSUME Serialised, OnceInv, [Next]_vars
             PROVE  BehindInv' /\ KeyUsedOnce'
  BY NextRoots, Zenon DEF OnceInv
<1>0. /\ RootsInv /\ TypedInv /\ TypeOK /\ SendInv /\ FromInv
      /\ \A d \in Device : session[d] \in RatchetState /\ RatchetInv(session[d])
      /\ \A d \in Device : session[d].root_sequence \in Nat /\ session[d].sender_chain \in ChainKey
  BY Zenon DEF OnceInv, RootsInv, ReplayInv, TypedInv, TypeOK, LabelInv, RatchetState
<1>1. ASSUME NEW d \in Device, NEW t \in Thread, NEW reaches \in BOOLEAN,
             send_one2one_msg_dispatch(d, t, reaches)
      PROVE  BehindInv' /\ KeyUsedOnce'
  <2> DEFINE m == e2ee_msg(d, session[d])
  <2>1. m.from = d /\ KeyOf(m) = session[d].sender_chain
    <3>1. m.from = d /\ m.payload = encrypted_payload(session[d])
      BY <1>0, NextMsg, Zenon
    <3>2. encrypted_payload(session[d]).sealed_with = session[d].sender_chain
      BY Zenon DEF encrypted_payload
    <3> QED BY <3>1, <3>2, Zenon DEF KeyOf
  <2>2. /\ \A x \in server' : x \in server \/ x = m
        /\ UNCHANGED <<session, pending, interrupted>>
        /\ \A u \in Thread : ~sending[d][u].active
    BY <1>1, Zenon DEF send_one2one_msg_dispatch, MayRun
  <2>3. /\ sending'[d][t].active /\ sending'[d][t].msg = m
        /\ \A e \in Device : \A u \in Thread :
              (e # d \/ u # t) => sending'[e][u] = sending[e][u]
    BY <1>1, <1>0, Zenon DEF send_one2one_msg_dispatch, TypeOK
  <2> HIDE DEF m
  <2>4. \A e \in Device : \A x \in Sealed(e)' : x \in Sealed(e) \/ (e = d /\ x = m)
    BY <2>1, <2>2, <2>3 DEF Sealed
  <2>5. \A x \in Sealed(d) :
          x.plaintext \in interrupted[d] \/ Older(KeyOf(x), session[d].sender_chain)
    BY <2>2, Zenon DEF OnceInv, BehindInv
  <2>6. \A x \in Sealed(d) : x.plaintext \in interrupted[d] \/ KeyOf(x) # KeyOf(m)
    BY <2>1, <2>5, <1>0 DEF Older, ChainKey
  <2>7. ASSUME NEW e \in Device, NEW x \in Sealed(e)', NEW y \in Sealed(e)', KeyOf(x) = KeyOf(y)
        PROVE  \/ x = y
               \/ x.plaintext \in interrupted'[e] \/ y.plaintext \in interrupted'[e]
    BY <2>2, <2>4, <2>6, <2>7, Zenon DEF OnceInv, KeyUsedOnce
  <2>8. ASSUME NEW e \in Device, NEW x \in Sealed(e)'
        PROVE  \/ x.plaintext \in interrupted'[e]
               \/ Older(KeyOf(x), session'[e].sender_chain)
               \/ /\ KeyOf(x) = session'[e].sender_chain
                  /\ \E u \in Thread : sending'[e][u].active /\ sending'[e][u].msg = x
    <3>1. CASE e = d
      BY <3>1, <2>1, <2>2, <2>3, <2>4, <2>5, ZenonT(40)
    <3>2. CASE e # d
      BY <3>2, <2>2, <2>3, <2>4 DEF OnceInv, BehindInv
    <3> QED BY <3>1, <3>2, Zenon
  <2> QED BY <2>7, <2>8, Zenon DEF BehindInv, KeyUsedOnce, KeyOf
<1>2. ASSUME NEW d \in Device, NEW t \in Thread, NEW ok \in BOOLEAN,
             send_one2one_msg_response(d, t, ok)
      PROVE  BehindInv' /\ KeyUsedOnce'
  <2> DEFINE m == sending[d][t].msg
             c == session[d].sender_chain
  <2>1. /\ sending[d][t].active /\ m.from = d
        /\ sending[d][t].ratchet = encrypt_ratchet(session[d])
        /\ \A u \in Thread : sending[d][u].active => u = t
    BY <1>2, <1>0, Zenon DEF send_one2one_msg_response, FromInv, SendInv
  <2>2. \A e \in Device : session'[e] = IF e = d THEN encrypt_ratchet(session[d]) ELSE session[e]
    BY <1>2, <2>1, <1>0, Zenon DEF send_one2one_msg_response, TypeOK
  <2>3. encrypt_ratchet(session[d]).sender_chain = advance_chain_key(c, 1)
    BY <1>0, Zenon DEF encrypt_ratchet, RatchetState
  <2>4. /\ advance_chain_key(c, 1).ratchet_key = c.ratchet_key
        /\ advance_chain_key(c, 1).index = c.index + 1
        /\ c.ratchet_key \in Int /\ c.index \in Nat
    BY <1>0, AdvanceProps, Zenon DEF ChainKey
  <2>5. \A e \in Device : \A u \in Thread :
          sending'[e][u] = IF e = d /\ u = t THEN Idle ELSE sending[e][u]
    BY <1>2, <1>0, Zenon DEF send_one2one_msg_response, TypeOK
  <2>6. \A e \in Device : \A x \in pending'[e] : x \in pending[e] \/ (e = d /\ x = m)
    BY <1>2, <1>0, Zenon DEF send_one2one_msg_response, TypeOK
  <2>7. server' = server /\ interrupted' = interrupted
    BY <1>2, Zenon DEF send_one2one_msg_response
  <2>8. m \in Sealed(d)
    BY <2>1, Zenon DEF Sealed
  <2>9. \A e \in Device : Sealed(e)' \subseteq Sealed(e)
    <3> HIDE DEF m
    <3> QED BY <2>5, <2>6, <2>7, <2>8, SMTT(20) DEF Sealed, Idle
  <2>10. Older(c, session'[d].sender_chain)
    BY <2>2, <2>3, <2>4 DEF Older
  <2>11. ASSUME NEW e \in Device, NEW x \in Sealed(e)', Older(KeyOf(x), session[e].sender_chain)
         PROVE  Older(KeyOf(x), session'[e].sender_chain)
    <3>1. KeyOf(x) \in ChainKey
      BY <1>0, <2>9, SealedTyped, Zenon
    <3>2. CASE e = d
      <4> DEFINE n == session'[d].sender_chain
      <4>1. Older(KeyOf(x), c) /\ n.ratchet_key = c.ratchet_key /\ n.index = c.index + 1
        BY <2>11, <3>2, <2>2, <2>3, <2>4, Zenon
      <4> HIDE DEF n, c
      <4>2. Older(KeyOf(x), n)
        BY <3>1, <4>1, <2>4 DEF Older, ChainKey
      <4> QED BY <3>2, <4>2, Zenon DEF n
    <3>3. CASE e # d
      BY <3>3, <2>2, <2>11, Zenon
    <3> QED BY <3>2, <3>3, Zenon
  <2>12. \A e \in Device : \A u \in Thread : sending[e][u].active =>
           \/ /\ sending'[e][u] = sending[e][u]
              /\ session'[e].sender_chain = session[e].sender_chain
           \/ Older(session[e].sender_chain, session'[e].sender_chain)
    BY <2>2, <2>5, <2>10, Zenon
  <2> QED BY <2>7, <2>9, <2>11, <2>12, SealsNothing, Zenon
<1>3. ASSUME NEW d \in Device, NEW msg \in pending[d],
             NEW reaches \in BOOLEAN, NEW ok \in BOOLEAN,
             resend_pending_request(d, msg, reaches, ok)
      PROVE  BehindInv' /\ KeyUsedOnce'
  <2>1. /\ \A x \in server' : x \in server \/ x = msg
        /\ \A e \in Device : pending'[e] \subseteq pending[e]
        /\ UNCHANGED <<session, sending, interrupted>>
    BY <1>3, <1>0, Zenon DEF resend_pending_request, TypeOK
  <2>2. msg.from = d
    BY <1>0, Zenon DEF FromInv
  <2>3. \A e \in Device : Sealed(e)' \subseteq Sealed(e)
    BY <2>1, <2>2, Zenon DEF Sealed
  <2> QED BY <2>1, <2>3, SealsNothing, Zenon
<1>4. ASSUME NEW d \in Device, NEW msg \in server, consume_one2one_msg(d, msg)
      PROVE  BehindInv' /\ KeyUsedOnce'
  <2> DEFINE r == session[d]
             p == msg.payload
             q == decrypt_ratchet(r, p)
  <2>1. /\ session' = [session EXCEPT ![d] = q]
        /\ UNCHANGED <<sending, server, pending, interrupted>>
        /\ decrypt_ratchet_ok(r, p)
        /\ \A u \in Thread : ~sending[d][u].active
    BY <1>4, Zenon DEF consume_one2one_msg, MayRun
  <2>2. p \in Payload /\ Consumed(r, p, q, PrunedKeys(r, p))
    BY <1>4, <1>0, <2>1, ConsumeProps, Zenon DEF TypeOK, Msg
  <2>3. q.sender_chain = r.sender_chain \/ q.sender_chain.ratchet_key > r.sender_chain.ratchet_key
    <3>1. CASE is_new_chain(r, p)
      <4>1. q.root_sequence = r.root_sequence + 2
        BY <3>1, <1>0, <2>1, <2>2, DecryptRoot, Zenon
      <4>2. q.sender_chain.ratchet_key = q.root_sequence /\ r.sender_chain.ratchet_key = r.root_sequence
        BY <1>0, <2>2, Zenon DEF Consumed, RatchetInv
      <4> QED BY <4>1, <4>2, <1>0
    <3>2. CASE ~is_new_chain(r, p)
      BY <3>2, <1>0, <2>1, <2>2, DecryptSender, Zenon
    <3> QED BY <3>1, <3>2, Zenon
  <2> HIDE DEF q
  <2>4. \A e \in Device : session'[e] = IF e = d THEN q ELSE session[e]
    BY <2>1, <1>0, Zenon DEF TypeOK
  <2>5. \A e \in Device : Sealed(e)' \subseteq Sealed(e)
    BY <2>1, Zenon DEF Sealed
  <2>6. q.sender_chain \in ChainKey
    BY <2>2, Zenon DEF Consumed, RatchetState
  <2>7. ASSUME NEW e \in Device, NEW x \in Sealed(e)', Older(KeyOf(x), session[e].sender_chain)
        PROVE  Older(KeyOf(x), session'[e].sender_chain)
    <3>1. KeyOf(x) \in ChainKey
      BY <1>0, <2>5, SealedTyped, Zenon
    <3>2. CASE e = d
      <4>1. Older(KeyOf(x), r.sender_chain) /\ r.sender_chain \in ChainKey
        BY <2>7, <3>2, <1>0, Zenon
      <4> HIDE DEF r
      <4>2. Older(KeyOf(x), q.sender_chain)
        BY <3>1, <4>1, <2>3, <2>6 DEF Older, ChainKey
      <4> QED BY <3>2, <4>2, <2>4, Zenon
    <3>3. CASE e # d
      BY <3>3, <2>4, <2>7, Zenon
    <3> QED BY <3>2, <3>3, Zenon
  <2>8. \A e \in Device : \A u \in Thread : sending[e][u].active =>
          sending'[e][u] = sending[e][u] /\ session'[e].sender_chain = session[e].sender_chain
    BY <2>1, <2>4, Zenon
  <2> QED BY <2>1, <2>5, <2>7, <2>8, SealsNothing, Zenon
<1>5. ASSUME NEW d \in Device, Crash(d) PROVE BehindInv' /\ KeyUsedOnce'
  <2>1. UNCHANGED <<session, pending, server>>
    BY <1>5, Zenon DEF Crash
  <2>2. \A e \in Device : \A u \in Thread :
          sending'[e][u] = IF e = d THEN Idle ELSE sending[e][u]
    BY <1>5, <1>0, Zenon DEF Crash, TypeOK
  <2>3. /\ \A e \in Device : interrupted[e] \subseteq interrupted'[e]
        /\ \A u \in Thread : sending[d][u].active =>
              sending[d][u].msg.plaintext \in interrupted'[d]
    BY <1>5, <1>0, Zenon DEF Crash, TypeOK
  <2>4. \A e \in Device : Sealed(e)' \subseteq Sealed(e)
    BY <2>1, <2>2 DEF Sealed, Idle
  <2>5. \A e \in Device : \A u \in Thread : sending[e][u].active =>
          \/ /\ sending'[e][u] = sending[e][u]
             /\ session'[e].sender_chain = session[e].sender_chain
          \/ sending[e][u].msg.plaintext \in interrupted'[e]
    BY <2>1, <2>2, <2>3, Zenon
  <2> QED BY <2>1, <2>3, <2>4, <2>5, SealsNothing, Zenon
<1>6. ASSUME UNCHANGED vars PROVE BehindInv' /\ KeyUsedOnce'
  <2>1. UNCHANGED <<session, sending, pending, server, interrupted>>
    BY <1>6, Zenon DEF vars
  <2>2. \A e \in Device : Sealed(e)' = Sealed(e)
    BY <2>1, Zenon DEF Sealed
  <2> QED BY <2>1, <2>2, SealsNothing, Zenon
<1> QED BY <1>1, <1>2, <1>3, <1>4, <1>5, <1>6, Zenon DEF Next, consume_one2one_msg_failed

(* No two plaintexts are sealed with one message key, provided that the
   application serialises the operations of a device: however often the device
   stops between the dispatch of a message and the store of its session, only
   the plaintext of such a send shares its key with another. *)
THEOREM KeysUsedOnce == ASSUME Serialised PROVE Spec => []KeyUsedOnce
<1>1. Serialised
  BY Zenon
<1>2. OnceInv /\ [Next]_vars => OnceInv'
  BY <1>1, NextOnce, Zenon
<1>3. OnceInv => KeyUsedOnce
  BY Zenon DEF OnceInv
<1> QED BY <1>2, <1>3, InitOnce, PTL DEF Spec

-----------------------------------------------------------------------------
(***************************************************************************)
(* Forward secrecy.  The two chains of a session, and the keys it has put  *)
(* aside, are told apart by the parity of their ratchet keys: a session    *)
(* can make a key of its peer only on the receiving side, which has let it *)
(* go, and one of its own only on the sender chain, which is past it.      *)
(***************************************************************************)
LEMMA OnceSecret == OnceInv => ForwardSecrecy
<1> SUFFICES ASSUME OnceInv, NEW d \in Device, NEW msg \in received[d]
             PROVE  /\ ~Derivable(session[d], KeyOf(msg))
                    /\ \/ \E t \in Thread : sending[Peer(d)][t].active
                       \/ msg.plaintext \in interrupted[Peer(d)]
                       \/ ~Derivable(session[Peer(d)], KeyOf(msg))
  BY Zenon DEF ForwardSecrecy
<1> DEFINE e == Peer(d)
           k == KeyOf(msg)
<1>1. e \in Device /\ Side(e) = 1 - Side(d) /\ Side(d) \in {0, 1}
  BY DeviceAssumption DEF Peer, Device, Side
<1>2. /\ RootsInv /\ BehindInv /\ TypeOK /\ LabelInv /\ StepsInv
      /\ msg \in server /\ msg.from = e /\ Gone(k, session[d])
  BY Zenon DEF OnceInv, RootsInv, ReplayInv, TypedInv, PastInv
<1>3. /\ msg \in Msg /\ PayloadInv(msg.payload) /\ NotAhead(msg)
      /\ k \in ChainKey
  BY <1>2, Zenon DEF TypeOK, LabelInv, StepsInv, KeyOf, Msg, Payload
<1>4. k.ratchet_key % 2 = Side(e) /\ k.ratchet_key \in Int /\ k.index \in Nat
  BY <1>2, <1>3, Zenon DEF PayloadInv, NotAhead, KeyOf, ChainKey
<1>5. \A f \in Device :
        /\ session[f] \in RatchetState /\ RatchetInv(session[f])
        /\ session[f].root_sequence \in Nat
        /\ session[f].root_sequence % 2 = Side(f)
        /\ session[f].sender_chain.ratchet_key = session[f].root_sequence
        /\ session[f].receiver_chain.ratchet_key = session[f].root_sequence - 1
  BY <1>2, Zenon DEF TypeOK, LabelInv, StepsInv, RatchetInv, RatchetState
<1> HIDE DEF e, k
<1>6. ~Derivable(session[d], k)
  <2>1. k \notin SkippedKeys(session[d]) /\ Older(k, session[d].receiver_chain)
    BY <1>2, Zenon DEF Gone
  <2>2. ~OnChain(session[d].receiver_chain, k)
    <3>1. session[d].receiver_chain \in ChainKey
      BY <1>5, Zenon DEF RatchetState
    <3> QED BY <2>1, <3>1, <1>4 DEF Older, OnChain, ChainKey
  <2>3. ~OnChain(session[d].sender_chain, k)
    BY <1>1, <1>4, <1>5 DEF OnChain
  <2> QED BY <2>1, <2>2, <2>3, Zenon DEF Derivable
<1>7. ASSUME \A t \in Thread : ~sending[e][t].active, msg.plaintext \notin interrupted[e]
      PROVE  ~Derivable(session[e], k)
  <2>1. msg \in Sealed(e)
    BY <1>2, Zenon DEF Sealed
  <2>2. Older(k, session[e].sender_chain)
    BY <2>1, <1>1, <1>2, <1>7, Zenon DEF BehindInv, k
  <2>3. ~OnChain(session[e].sender_chain, k)
    <3>1. session[e].sender_chain \in ChainKey
      BY <1>1, <1>5, Zenon DEF RatchetState
    <3> QED BY <2>2, <3>1, <1>4 DEF Older, OnChain, ChainKey
  <2>4. session[e].receiver_chain.ratchet_key % 2 # Side(e)
    BY <1>1, <1>5
  <2>5. ~OnChain(session[e].receiver_chain, k)
    BY <2>4, <1>4, Zenon DEF OnChain
  <2>6. ASSUME NEW l \in SkippedKeys(session[e]) PROVE l # k
    <3> DEFINE r == session[e]
    <3>1. r \in RatchetState /\ SameSide(r.skipped_msg_key_list, r.receiver_chain)
      BY <1>1, <1>5, Zenon DEF RatchetInv
    <3>2. PICK i \in 1..Len(r.skipped_msg_key_list) : l = r.skipped_msg_key_list[i]
      BY <3>1, SkippedKeysRange, Zenon
    <3>3. l.ratchet_key % 2 = r.receiver_chain.ratchet_key % 2
      BY <3>1, <3>2, Zenon DEF SameSide
    <3> QED BY <3>3, <2>4, <1>4, Zenon
  <2> QED BY <2>3, <2>5, <2>6, Zenon DEF Derivable
<1> QED BY <1>6, <1>7, Zenon DEF e, k

(* A key that opened a message is gone from both ends: no later state of the
   reader's session, and none of the writer's once the send was stored, can
   make it again. *)
THEOREM ForwardSecret == ASSUME Serialised PROVE Spec => []ForwardSecrecy
<1>1. Serialised
  BY Zenon
<1>2. OnceInv /\ [Next]_vars => OnceInv'
  BY <1>1, NextOnce, Zenon
<1> QED BY <1>2, InitOnce, OnceSecret, PTL DEF Spec
=============================================================================
