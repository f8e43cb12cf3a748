--------------------------- MODULE Session_proofs ---------------------------
(***************************************************************************)
(* Theorems about Session, for every number of invitations, plaintexts and *)
(* ticks of the clock.                                                     *)
(***************************************************************************)
EXTENDS Session, Sequences, TLAPS

(***************************************************************************)
(* Types.  The sets below grow with the sessions made, the encapsulations  *)
(* made and the messages handed over.                                      *)
(***************************************************************************)
Plaintext == Nat \X Nat

InviteMsg(d, n) ==
  [type : {"invite"}, session_id : 1..n, from : {d}, invite_t : 1..MaxClock]

AcceptMsg(d, n) == [type : {"accept"}, session_id : 1..n, from : {d}]

One2oneMsg(d, n, c) ==
  [type : {"one2one"}, session_id : 1..n, from : {d}, plaintext : Plaintext,
   root_sequence : Nat, encaps : 0..c]

Msg(d, n, c) == InviteMsg(d, n) \cup AcceptMsg(d, n) \cup One2oneMsg(d, n, c)

Request(d, n) == {[type |-> "bundle"]} \cup InviteMsg(d, n) \cup AcceptMsg(d, n)

SessionRec(c, opened) ==
  [inviter : Device, responded : BOOLEAN, invite_t : 1..MaxClock,
   encaps : 0..c, root_sequence : Nat, opened : SUBSET opened]

Kept == [to : Device \cup {NoDevice}, plaintext : Plaintext]

Domains ==
  /\ DOMAIN session = Device /\ DOMAIN inviting = Device
  /\ DOMAIN pending_request = Device /\ DOMAIN pending_plaintext = Device
  /\ DOMAIN proto_msg = Device /\ DOMAIN composed = Device /\ DOMAIN handed = Device

Counters ==
  /\ clock \in 1..MaxClock /\ n_sessions \in 0..MaxInvites /\ encapsulations \in Nat
  /\ \A d \in Device : composed[d] \in 0..MaxMsgs

SessionsTyped ==
  \A d \in Device :
    /\ DOMAIN session[d] \subseteq 1..n_sessions
    /\ \A id \in DOMAIN session[d] :
         session[d][id] \in SessionRec(encapsulations, handed[d])

InvitingTyped ==
  \A d \in Device :
    \/ inviting[d] = NoInvite
    \/ /\ inviting[d].session_id \in 1..n_sessions
       /\ inviting[d].msg \in InviteMsg(d, n_sessions)
       /\ inviting[d].msg.session_id = inviting[d].session_id
       /\ inviting[d].outcome \in Outcome

MsgsTyped ==
  \A d \in Device : proto_msg[d] \subseteq Msg(Peer(d), n_sessions, encapsulations)

HandedTyped ==
  \A d \in Device : handed[d] \subseteq One2oneMsg(Peer(d), n_sessions, encapsulations)

RequestsTyped ==
  \A d \in Device : pending_request[d] \subseteq Request(d, n_sessions)

KeptTyped == \A d \in Device : pending_plaintext[d] \subseteq Kept

TypedInv ==
  /\ Domains /\ Counters /\ SessionsTyped /\ InvitingTyped /\ MsgsTyped
  /\ HandedTyped /\ RequestsTyped /\ KeptTyped

-----------------------------------------------------------------------------
(* There are two devices, each the other's peer. *)
LEMMA PeerFacts ==
  ASSUME NEW d \in Device
  PROVE  Peer(d) \in Device /\ Peer(d) # d /\ Peer(Peer(d)) = d /\ Device = {d, Peer(d)}
<1>1. \E e \in Device : e # d
  BY SessionAssumption, Zenon
<1>2. Peer(d) \in Device /\ Peer(d) # d
  BY <1>1, Zenon DEF Peer
<1>3. \E e \in Device : e # Peer(d)
  BY SessionAssumption, Zenon
<1>4. Peer(Peer(d)) \in Device /\ Peer(Peer(d)) # Peer(d)
  BY <1>3, Zenon DEF Peer
<1> QED
  BY <1>2, <1>4, SessionAssumption

(* The types grow with what they are counted by. *)
LEMMA TypesGrow ==
  ASSUME NEW d, NEW n \in Nat, NEW m \in Nat, n <= m, NEW c \in Nat, NEW b \in Nat, c <= b
  PROVE  /\ InviteMsg(d, n) \subseteq InviteMsg(d, m)
         /\ AcceptMsg(d, n) \subseteq AcceptMsg(d, m)
         /\ One2oneMsg(d, n, c) \subseteq One2oneMsg(d, m, b)
         /\ Msg(d, n, c) \subseteq Msg(d, m, b)
         /\ Request(d, n) \subseteq Request(d, m)
<1>1. 1..n \subseteq 1..m /\ 0..c \subseteq 0..b
  OBVIOUS
<1>2. InviteMsg(d, n) \subseteq InviteMsg(d, m)
  BY <1>1, Zenon DEF InviteMsg
<1>3. AcceptMsg(d, n) \subseteq AcceptMsg(d, m)
  BY <1>1, Zenon DEF AcceptMsg
<1>4. One2oneMsg(d, n, c) \subseteq One2oneMsg(d, m, b)
  BY <1>1, Zenon DEF One2oneMsg
<1> QED
  BY <1>2, <1>3, <1>4, Zenon DEF Msg, Request

LEMMA RecordsGrow ==
  ASSUME NEW c \in Nat, NEW b \in Nat, c <= b, NEW S, NEW R, S \subseteq R
  PROVE  SessionRec(c, S) \subseteq SessionRec(b, R)
  BY DEF SessionRec

LEMMA InitTyped == Init => TypedInv
<1> SUFFICES ASSUME Init PROVE TypedInv
  BY Zenon
<1>1. Domains /\ Counters
  BY SessionAssumption DEF Init, Domains, Counters
<1>2. \A d \in Device : DOMAIN session[d] = {}
  <2>1. << >> \in Seq({})
    OBVIOUS
  <2>2. DOMAIN << >> = {}
    BY <2>1
  <2> QED
    BY <2>2, Zenon DEF Init
<1>3. SessionsTyped
  BY <1>2, Zenon DEF SessionsTyped
<1>4. InvitingTyped /\ MsgsTyped /\ HandedTyped /\ RequestsTyped /\ KeptTyped
  BY Zenon DEF Init, InvitingTyped, MsgsTyped, HandedTyped, RequestsTyped, KeptTyped
<1> QED
  BY <1>1, <1>3, <1>4, Zenon DEF TypedInv

(* The session of an invitation and its message. *)
LEMMA OutboundTyped ==
  ASSUME TypedInv, NEW d \in Device, NEW now \in clock..MaxClock, NEW outcome \in Outcome,
         new_outbound_session(d, now, outcome), UNCHANGED <<encapsulations, handed>>
  PROVE  /\ DOMAIN session' = Device /\ DOMAIN inviting' = Device /\ DOMAIN proto_msg' = Device
         /\ n_sessions' \in 0..MaxInvites /\ n_sessions' = n_sessions + 1
         /\ clock' \in 1..MaxClock
         /\ SessionsTyped' /\ InvitingTyped' /\ MsgsTyped' /\ HandedTyped'
<1> DEFINE id  == n_sessions + 1
           msg == invite_msg(d, id, now)
<1>1. /\ n_sessions < MaxInvites /\ n_sessions' = id /\ clock' = now
      /\ session' = [session EXCEPT ![d] = With(@, id, outbound_session(d, now))]
      /\ proto_msg' = IF Reaches(outcome) THEN Posted(Peer(d), {msg}) ELSE proto_msg
      /\ inviting' = [inviting EXCEPT ![d] =
                        [session_id |-> id, msg |-> msg, outcome |-> outcome,
                         outbound_session |-> outbound_session(d, now)]]
  BY Zenon DEF new_outbound_session
<1>2. n_sessions \in Nat /\ encapsulations \in Nat /\ clock \in 1..MaxClock /\ now \in 1..MaxClock
  BY SessionAssumption DEF TypedInv, Counters
<1>3. n_sessions' \in 0..MaxInvites /\ clock' \in 1..MaxClock /\ id \in 1..id /\ id \in Nat
  BY <1>1, <1>2, SessionAssumption
<1>4. DOMAIN session' = Device /\ DOMAIN inviting' = Device /\ DOMAIN proto_msg' = Device
  BY <1>1, Zenon DEF TypedInv, Domains, Posted
<1>5. msg \in InviteMsg(d, id)
  BY <1>2, <1>3, Zenon DEF invite_msg, InviteMsg
<1>6. \A e \in Device : /\ InviteMsg(e, n_sessions) \subseteq InviteMsg(e, id)
                        /\ Msg(e, n_sessions, encapsulations) \subseteq Msg(e, id, encapsulations)
                        /\ One2oneMsg(e, n_sessions, encapsulations)
                             \subseteq One2oneMsg(e, id, encapsulations)
  <2> SUFFICES ASSUME NEW e \in Device
               PROVE  /\ InviteMsg(e, n_sessions) \subseteq InviteMsg(e, id)
                      /\ Msg(e, n_sessions, encapsulations) \subseteq Msg(e, id, encapsulations)
                      /\ One2oneMsg(e, n_sessions, encapsulations)
                           \subseteq One2oneMsg(e, id, encapsulations)
    BY Zenon
  <2>1. n_sessions <= id /\ encapsulations <= encapsulations
    BY <1>2
  <2> QED
    BY <1>2, <1>3, <2>1, TypesGrow, Zenon
<1>7. SessionsTyped'
  <2>1. outbound_session(d, now) \in SessionRec(encapsulations, handed[d])
    BY <1>2 DEF outbound_session, SessionRec
  <2> SUFFICES ASSUME NEW e \in Device
               PROVE  /\ DOMAIN session'[e] \subseteq 1..id
                      /\ \A i \in DOMAIN session'[e] :
                           session'[e][i] \in SessionRec(encapsulations, handed[e])
    BY <1>1, Zenon DEF SessionsTyped
  <2>2. /\ DOMAIN session[e] \subseteq 1..id
        /\ \A i \in DOMAIN session[e] :
             session[e][i] \in SessionRec(encapsulations, handed[e])
    BY <1>2 DEF TypedInv, SessionsTyped
  <2>3. CASE e # d
    BY <1>1, <2>2, <2>3, Zenon DEF TypedInv, Domains
  <2>4. CASE e = d
    <3> DEFINE table == With(session[d], id, outbound_session(d, now))
    <3>1. session'[e] = table
      BY <1>1, <2>4, Zenon DEF TypedInv, Domains
    <3>2. /\ DOMAIN table = DOMAIN session[d] \cup {id}
          /\ table[id] = outbound_session(d, now)
          /\ \A i \in DOMAIN session[d] : i # id => table[i] = session[d][i]
      BY Zenon DEF With
    <3> HIDE DEF table, id
    <3> QED
      BY <1>3, <2>1, <2>2, <2>4, <3>1, <3>2, Zenon
  <2> QED
    BY <2>3, <2>4, Zenon
<1>8. InvitingTyped'
  <2> SUFFICES ASSUME NEW e \in Device
               PROVE  \/ inviting'[e] = NoInvite
                      \/ /\ inviting'[e].session_id \in 1..id
                         /\ inviting'[e].msg \in InviteMsg(e, id)
                         /\ inviting'[e].msg.session_id = inviting'[e].session_id
                         /\ inviting'[e].outcome \in Outcome
    BY <1>1, Zenon DEF InvitingTyped
  <2>1. CASE e # d
    BY <1>1, <1>2, <1>6, <2>1 DEF TypedInv, Domains, InvitingTyped
  <2>2. CASE e = d
    <3>1. msg.session_id = id
      BY Zenon DEF invite_msg
    <3> HIDE DEF msg, id
    <3> QED
      BY <1>1, <1>3, <1>5, <2>2, <3>1, Zenon DEF TypedInv, Domains
  <2> QED
    BY <2>1, <2>2, Zenon
<1>9. MsgsTyped'
  <2>1. Peer(d) \in Device /\ Peer(Peer(d)) = d
    BY PeerFacts, Zenon
  <2>2. msg \in Msg(Peer(Peer(d)), id, encapsulations)
    BY <1>5, <2>1, Zenon DEF Msg
  <2> HIDE DEF msg, id
  <2> QED
    BY <1>1, <1>6, <2>1, <2>2, PeerFacts DEF TypedInv, Domains, MsgsTyped, Posted
<1>10. HandedTyped'
  BY <1>1, <1>6, PeerFacts, Zenon DEF TypedInv, HandedTyped
<1> QED
  BY <1>1, <1>3, <1>4, <1>7, <1>8, <1>9, <1>10, Zenon

LEMMA InviteTyped ==
  ASSUME TypedInv, NEW d \in Device, NEW now \in clock..MaxClock, NEW outcome \in Outcome,
         invite(d, now, outcome)
  PROVE  TypedInv'
<1>1. /\ new_outbound_session(d, now, outcome)
      /\ UNCHANGED <<encapsulations, pending_request, pending_plaintext, composed, handed>>
  BY Zenon DEF invite
<1>2. /\ DOMAIN session' = Device /\ DOMAIN inviting' = Device /\ DOMAIN proto_msg' = Device
      /\ n_sessions' \in 0..MaxInvites /\ n_sessions' = n_sessions + 1
      /\ clock' \in 1..MaxClock
      /\ SessionsTyped' /\ InvitingTyped' /\ MsgsTyped' /\ HandedTyped'
  BY <1>1, OutboundTyped, Zenon
<1>3. Domains' /\ Counters' /\ KeptTyped'
  BY <1>1, <1>2, Zenon DEF TypedInv, Domains, Counters, KeptTyped
<1>4. RequestsTyped'
  <2>1. n_sessions \in Nat /\ n_sessions' \in Nat /\ n_sessions <= n_sessions' /\ 0 <= 0
    BY <1>2 DEF TypedInv, Counters
  <2>2. \A e \in Device : Request(e, n_sessions) \subseteq Request(e, n_sessions')
    BY <2>1, TypesGrow, Zenon
  <2> QED
    BY <1>1, <2>2, Zenon DEF TypedInv, RequestsTyped
<1> QED
  BY <1>2, <1>3, <1>4, Zenon DEF TypedInv

LEMMA BundleFailedTyped ==
  ASSUME TypedInv, NEW d \in Device, get_pre_key_bundle_failed(d)
  PROVE  TypedInv'
<1>1. /\ pending_request' = [pending_request EXCEPT ![d] = @ \cup {[type |-> "bundle"]}]
      /\ UNCHANGED <<session, inviting, clock, n_sessions, encapsulations,
                     pending_plaintext, proto_msg, composed, handed>>
  BY Zenon DEF get_pre_key_bundle_failed
<1>2. Domains' /\ Counters' /\ SessionsTyped' /\ InvitingTyped' /\ MsgsTyped' /\ HandedTyped'
        /\ KeptTyped'
  BY <1>1, Zenon DEF TypedInv, Domains, Counters, SessionsTyped, InvitingTyped, MsgsTyped, HandedTyped,
              KeptTyped
<1>3. RequestsTyped'
  BY <1>1, Zenon DEF TypedInv, Domains, RequestsTyped, Request
<1> QED
  BY <1>2, <1>3, Zenon DEF TypedInv

LEMMA ResendBundleTyped ==
  ASSUME TypedInv, NEW d \in Device, NEW now \in clock..MaxClock, NEW outcome \in Outcome,
         resend_get_pre_key_bundle(d, now, outcome)
  PROVE  TypedInv'
<1>1. /\ pending_request' = [pending_request EXCEPT ![d] = @ \ {[type |-> "bundle"]}]
      /\ UNCHANGED <<encapsulations, pending_plaintext, composed, handed>>
  BY Zenon DEF resend_get_pre_key_bundle
<1>2. /\ DOMAIN session' = Device /\ DOMAIN inviting' = Device /\ DOMAIN proto_msg' = Device
      /\ n_sessions' \in 0..MaxInvites /\ n_sessions <= n_sessions'
      /\ clock' \in 1..MaxClock
      /\ SessionsTyped' /\ InvitingTyped' /\ MsgsTyped' /\ HandedTyped'
  <2>1. CASE new_outbound_session(d, now, outcome)
    <3>1. /\ DOMAIN session' = Device /\ DOMAIN inviting' = Device /\ DOMAIN proto_msg' = Device
          /\ n_sessions' \in 0..MaxInvites /\ n_sessions' = n_sessions + 1
          /\ clock' \in 1..MaxClock
          /\ SessionsTyped' /\ InvitingTyped' /\ MsgsTyped' /\ HandedTyped'
      BY <1>1, <2>1, OutboundTyped, Zenon
    <3>2. n_sessions \in Nat
      BY DEF TypedInv, Counters
    <3> QED
      BY <3>1, <3>2
  <2>2. CASE UNCHANGED <<n_sessions, clock, session, proto_msg, inviting>>
    BY <1>1, <2>2 DEF TypedInv, Domains, Counters, SessionsTyped, InvitingTyped, MsgsTyped,
                      HandedTyped
  <2> QED
    BY <2>1, <2>2, Zenon DEF resend_get_pre_key_bundle
<1>3. Domains' /\ Counters' /\ KeptTyped'
  BY <1>1, <1>2, Zenon DEF TypedInv, Domains, Counters, KeptTyped
<1>4. RequestsTyped'
  <2>1. n_sessions \in Nat /\ n_sessions' \in Nat /\ 0 <= 0
    BY <1>2 DEF TypedInv, Counters
  <2>2. \A e \in Device : Request(e, n_sessions) \subseteq Request(e, n_sessions')
    BY <1>2, <2>1, TypesGrow, Zenon
  <2> QED
    BY <1>1, <2>2, Zenon DEF TypedInv, Domains, RequestsTyped
<1> QED
  BY <1>2, <1>3, <1>4, Zenon DEF TypedInv

(* One session of a device is written. *)
LEMMA UpdateTyped ==
  ASSUME TypedInv, NEW d \in Device, NEW id \in DOMAIN session[d], NEW s,
         n_sessions' = n_sessions, encapsulations' \in Nat, encapsulations <= encapsulations',
         handed' = handed, s \in SessionRec(encapsulations', handed[d]),
         session' = [session EXCEPT ![d][id] = s]
  PROVE  DOMAIN session' = Device /\ SessionsTyped'
<1>1. DOMAIN session' = Device
  BY Zenon DEF TypedInv, Domains
<1>2. SessionsTyped'
  <2> SUFFICES ASSUME NEW e \in Device
               PROVE  /\ DOMAIN session'[e] \subseteq 1..n_sessions
                      /\ \A i \in DOMAIN session'[e] :
                           session'[e][i] \in SessionRec(encapsulations', handed[e])
    BY Zenon DEF SessionsTyped
  <2>1. SessionRec(encapsulations, handed[e]) \subseteq SessionRec(encapsulations', handed[e])
    BY RecordsGrow, Zenon DEF TypedInv, Counters
  <2>2. /\ DOMAIN session[e] \subseteq 1..n_sessions
        /\ \A i \in DOMAIN session[e] :
             session[e][i] \in SessionRec(encapsulations', handed[e])
    BY <2>1, Zenon DEF TypedInv, SessionsTyped
  <2>3. CASE e # d
    <3>1. session'[e] = session[e]
      BY <2>3, Zenon DEF TypedInv, Domains
    <3> QED
      BY <2>2, <3>1, Zenon
  <2>4. CASE e = d
    <3>1. session'[e] = [session[d] EXCEPT ![id] = s]
      BY <2>4, Zenon DEF TypedInv, Domains
    <3> QED
      BY <2>2, <2>4, <3>1, Zenon
  <2> QED
    BY <2>3, <2>4, Zenon
<1> QED
  BY <1>1, <1>2, Zenon

(* A message for a device comes to the server. *)
LEMMA PostedTyped ==
  ASSUME TypedInv, NEW d \in Device, NEW msgs, UNCHANGED <<n_sessions, encapsulations>>,
         msgs \subseteq Msg(Peer(d), n_sessions, encapsulations),
         \/ proto_msg' = Posted(d, msgs)
         \/ proto_msg' = proto_msg
  PROVE  DOMAIN proto_msg' = Device /\ MsgsTyped'
  BY Zenon DEF TypedInv, Domains, MsgsTyped, Posted

(* A request is kept, or not. *)
LEMMA KeptOnFailure ==
  ASSUME NEW S, NEW request, NEW outcome
  PROVE  kept_on_failure(S, request, outcome) \subseteq S \cup {request}
  BY Zenon DEF kept_on_failure

LEMMA KeepingTyped ==
  ASSUME TypedInv, NEW d \in Device, NEW request \in Request(d, n_sessions), NEW S, NEW outcome,
         S \subseteq pending_request[d], n_sessions' = n_sessions,
         pending_request' = [pending_request EXCEPT ![d] = kept_on_failure(S, request, outcome)]
  PROVE  DOMAIN pending_request' = Device /\ RequestsTyped'
  BY KeptOnFailure DEF TypedInv, Domains, RequestsTyped

LEMMA ReinviteTyped ==
  ASSUME TypedInv, NEW d \in Device, NEW now \in clock..MaxClock, NEW outcome \in Outcome,
         NEW id \in DOMAIN session[d], reinvite(d, id, now, outcome)
  PROVE  TypedInv'
<1> DEFINE msg == invite_msg(d, id, now)
           s   == [session[d][id] EXCEPT !.invite_t = now]
<1>1. /\ clock' = now
      /\ session' = [session EXCEPT ![d][id] = s]
      /\ proto_msg' = IF Reaches(outcome) THEN Posted(Peer(d), {msg}) ELSE proto_msg
      /\ inviting' = [inviting EXCEPT ![d] = [session_id |-> id, msg |-> msg,
                                             outcome |-> outcome, outbound_session |-> s]]
      /\ UNCHANGED <<n_sessions, encapsulations, pending_request, pending_plaintext,
                     composed, handed>>
  BY Zenon DEF reinvite
<1>2. now \in 1..MaxClock /\ id \in 1..n_sessions /\ n_sessions \in Nat
  BY SessionAssumption DEF TypedInv, Counters, SessionsTyped
<1>3. s \in SessionRec(encapsulations, handed[d])
  <2>1. session[d][id] \in SessionRec(encapsulations, handed[d])
    BY Zenon DEF TypedInv, SessionsTyped
  <2> QED
    BY <1>2, <2>1, Zenon DEF SessionRec
<1>4. msg \in InviteMsg(d, n_sessions) /\ msg.session_id = id
  BY <1>2, Zenon DEF invite_msg, InviteMsg
<1> HIDE DEF msg, s
<1>5. DOMAIN session' = Device /\ SessionsTyped'
  <2>1. encapsulations' \in Nat /\ encapsulations <= encapsulations'
    BY <1>1 DEF TypedInv, Counters
  <2> QED
    BY <1>1, <1>3, <2>1, UpdateTyped, Zenon
<1>6. DOMAIN proto_msg' = Device /\ MsgsTyped'
  <2>1. {msg} \subseteq Msg(Peer(Peer(d)), n_sessions, encapsulations) /\ Peer(d) \in Device
    BY <1>4, PeerFacts, Zenon DEF Msg
  <2> QED
    BY <1>1, <2>1, PostedTyped, Zenon
<1>7. DOMAIN inviting' = Device /\ InvitingTyped'
  BY <1>1, <1>2, <1>4, Zenon DEF TypedInv, Domains, InvitingTyped
<1>8. Counters' /\ HandedTyped' /\ RequestsTyped' /\ KeptTyped'
  BY <1>1, <1>2, Zenon DEF TypedInv, Counters, HandedTyped, RequestsTyped, KeptTyped
<1>9. Domains'
  BY <1>1, <1>5, <1>6, <1>7, Zenon DEF TypedInv, Domains
<1> QED
  BY <1>5, <1>6, <1>7, <1>8, <1>9, Zenon DEF TypedInv

LEMMA InviteResponseTyped ==
  ASSUME TypedInv, NEW d \in Device, consume_invite_response(d)
  PROVE  TypedInv'
<1> DEFINE i    == inviting[d]
           held == i.session_id \in DOMAIN session[d]
<1>1. /\ i # NoInvite
      /\ session' = IF i.outcome = "ok" /\ held
                    THEN [session EXCEPT ![d][i.session_id] = answered_session(d, i)]
                    ELSE session
      /\ pending_request' = [pending_request EXCEPT ![d] =
           kept_on_failure(@, i.msg, IF i.outcome = "ok" /\ ~held THEN "lost" ELSE i.outcome)]
      /\ inviting' = [inviting EXCEPT ![d] = NoInvite]
      /\ UNCHANGED <<clock, n_sessions, encapsulations, pending_plaintext, proto_msg,
                     composed, handed>>
  BY Zenon DEF consume_invite_response
<1>2. i.msg \in InviteMsg(d, n_sessions)
  BY <1>1, Zenon DEF TypedInv, InvitingTyped
<1>3. DOMAIN session' = Device /\ SessionsTyped'
  <2>1. CASE i.outcome = "ok" /\ held
    <3>1. session[d][i.session_id] \in SessionRec(encapsulations, handed[d])
      BY <2>1, Zenon DEF TypedInv, SessionsTyped
    <3>2. answered_session(d, i) \in SessionRec(encapsulations, handed[d])
      BY <1>2, <3>1, Zenon DEF answered_session, SessionRec, InviteMsg
    <3>3. encapsulations' \in Nat /\ encapsulations <= encapsulations'
      BY <1>1 DEF TypedInv, Counters
    <3>4. session' = [session EXCEPT ![d][i.session_id] = answered_session(d, i)]
      BY <1>1, <2>1, Zenon
    <3> QED
      BY <1>1, <2>1, <3>2, <3>3, <3>4, UpdateTyped, Zenon
  <2>2. CASE ~(i.outcome = "ok" /\ held)
    BY <1>1, <2>2, Zenon DEF TypedInv, Domains, SessionsTyped
  <2> QED
    BY <2>1, <2>2, Zenon
<1>4. DOMAIN pending_request' = Device /\ RequestsTyped'
  <2>1. i.msg \in Request(d, n_sessions)
    BY <1>2, Zenon DEF Request
  <2> QED
    BY <1>1, <2>1, KeepingTyped, Zenon
<1>5. DOMAIN inviting' = Device /\ InvitingTyped'
  BY <1>1, Zenon DEF TypedInv, Domains, InvitingTyped
<1>6. Counters' /\ MsgsTyped' /\ HandedTyped' /\ KeptTyped'
  BY <1>1, Zenon DEF TypedInv, Counters, MsgsTyped, HandedTyped, KeptTyped
<1>7. Domains'
  BY <1>1, <1>3, <1>4, <1>5, Zenon DEF TypedInv, Domains
<1> QED
  BY <1>3, <1>4, <1>5, <1>6, <1>7, Zenon DEF TypedInv

LEMMA ResendInviteTyped ==
  ASSUME TypedInv, NEW d \in Device, NEW msg \in pending_request[d], NEW outcome \in Outcome,
         resend_invite(d, msg, outcome)
  PROVE  TypedInv'
<1> DEFINE held == msg.session_id \in DOMAIN session[d]
<1>1. /\ msg.type = "invite"
      /\ proto_msg' = IF Reaches(outcome) THEN Posted(Peer(d), {msg}) ELSE proto_msg
      /\ session' = IF outcome = "ok" /\ held
                    THEN [session EXCEPT ![d][msg.session_id].invite_t = msg.invite_t]
                    ELSE session
      /\ pending_request' = [pending_request EXCEPT ![d] = kept_on_failure(@ \ {msg}, msg,
                               IF outcome = "ok" /\ ~held THEN "lost" ELSE outcome)]
      /\ UNCHANGED <<inviting, clock, n_sessions, encapsulations, pending_plaintext,
                     composed, handed>>
  BY Zenon DEF resend_invite
<1>2. msg \in InviteMsg(d, n_sessions)
  BY <1>1 DEF TypedInv, RequestsTyped, Request, AcceptMsg
<1>3. DOMAIN session' = Device /\ SessionsTyped'
  <2>1. CASE outcome = "ok" /\ held
    <3> DEFINE s == [session[d][msg.session_id] EXCEPT !.invite_t = msg.invite_t]
    <3>1. session[d][msg.session_id] \in SessionRec(encapsulations, handed[d])
      BY <2>1, Zenon DEF TypedInv, SessionsTyped
    <3>2. s \in SessionRec(encapsulations, handed[d])
      BY <1>2, <3>1, Zenon DEF SessionRec, InviteMsg
    <3>3. encapsulations' \in Nat /\ encapsulations <= encapsulations'
      BY <1>1 DEF TypedInv, Counters
    <3>4. session' = [session EXCEPT ![d][msg.session_id] = s]
      BY <1>1, <2>1, Zenon
    <3> HIDE DEF s
    <3> QED
      BY <1>1, <2>1, <3>2, <3>3, <3>4, UpdateTyped, Zenon
  <2>2. CASE ~(outcome = "ok" /\ held)
    BY <1>1, <2>2, Zenon DEF TypedInv, Domains, SessionsTyped
  <2> QED
    BY <2>1, <2>2, Zenon
<1>4. DOMAIN pending_request' = Device /\ RequestsTyped'
  <2>1. msg \in Request(d, n_sessions) /\ pending_request[d] \ {msg} \subseteq pending_request[d]
    BY <1>2, Zenon DEF Request
  <2> QED
    BY <1>1, <2>1, KeepingTyped, Zenon
<1>5. DOMAIN proto_msg' = Device /\ MsgsTyped'
  <2>1. {msg} \subseteq Msg(Peer(Peer(d)), n_sessions, encapsulations) /\ Peer(d) \in Device
    BY <1>2, PeerFacts, Zenon DEF Msg
  <2> QED
    BY <1>1, <2>1, PostedTyped, Zenon
<1>6. Counters' /\ InvitingTyped' /\ HandedTyped' /\ KeptTyped'
  BY <1>1, Zenon DEF TypedInv, Counters, InvitingTyped, HandedTyped, KeptTyped
<1>7. Domains'
  BY <1>1, <1>3, <1>4, <1>5, Zenon DEF TypedInv, Domains
<1> QED
  BY <1>3, <1>4, <1>5, <1>6, <1>7, Zenon DEF TypedInv

LEMMA ResendAcceptTyped ==
  ASSUME TypedInv, NEW d \in Device, NEW msg \in pending_request[d], NEW outcome \in Outcome,
         resend_accept(d, msg, outcome)
  PROVE  TypedInv'
<1>1. /\ msg.type = "accept"
      /\ proto_msg' = IF Reaches(outcome) THEN Posted(Peer(d), {msg}) ELSE proto_msg
      /\ pending_request' = [pending_request EXCEPT ![d] =
                               kept_on_failure(@ \ {msg}, msg, outcome)]
      /\ UNCHANGED <<session, inviting, clock, n_sessions, encapsulations,
                     pending_plaintext, composed, handed>>
  BY Zenon DEF resend_accept
<1>2. msg \in AcceptMsg(d, n_sessions)
  BY <1>1 DEF TypedInv, RequestsTyped, Request, InviteMsg
<1>3. DOMAIN pending_request' = Device /\ RequestsTyped'
  <2>1. msg \in Request(d, n_sessions) /\ pending_request[d] \ {msg} \subseteq pending_request[d]
    BY <1>2, Zenon DEF Request
  <2> QED
    BY <1>1, <2>1, KeepingTyped, Zenon
<1>4. DOMAIN proto_msg' = Device /\ MsgsTyped'
  <2>1. {msg} \subseteq Msg(Peer(Peer(d)), n_sessions, encapsulations) /\ Peer(d) \in Device
    BY <1>2, PeerFacts, Zenon DEF Msg
  <2> QED
    BY <1>1, <2>1, PostedTyped, Zenon
<1>5. Counters' /\ SessionsTyped' /\ InvitingTyped' /\ HandedTyped' /\ KeptTyped'
  BY <1>1, Zenon DEF TypedInv, Counters, SessionsTyped, InvitingTyped, HandedTyped, KeptTyped
<1>6. Domains'
  BY <1>1, <1>3, <1>4, Zenon DEF TypedInv, Domains
<1> QED
  BY <1>3, <1>4, <1>5, <1>6, Zenon DEF TypedInv

(* A message of a type is one of the messages of that type. *)
LEMMA MsgOfType ==
  ASSUME TypedInv, NEW d \in Device, NEW msg \in proto_msg[d]
  PROVE  /\ msg.type = "invite" => msg \in InviteMsg(Peer(d), n_sessions)
         /\ msg.type = "accept" => msg \in AcceptMsg(Peer(d), n_sessions)
         /\ msg.type = "one2one" => msg \in One2oneMsg(Peer(d), n_sessions, encapsulations)
         /\ msg.type \in {"invite", "accept", "one2one"}
         /\ msg.from = Peer(d) /\ msg.session_id \in 1..n_sessions
  BY Zenon DEF TypedInv, MsgsTyped, Msg, InviteMsg, AcceptMsg, One2oneMsg

LEMMA InviteMsgTyped ==
  ASSUME TypedInv, NEW d \in Device, NEW msg \in proto_msg[d], NEW outcome \in Outcome,
         NEW again \in BOOLEAN, consume_invite_msg(d, msg, outcome, again)
  PROVE  TypedInv'
<1> DEFINE accept == accept_msg(d, msg.session_id)
           queue  == Processed(d, msg, again)
           id     == msg.session_id
<1>1. /\ msg.type = "invite"
      /\ session' = [session EXCEPT ![d] = With(@, id, inbound_session(msg))]
      /\ proto_msg' = [queue EXCEPT ![msg.from] =
                         IF Reaches(outcome) THEN @ \cup {accept} ELSE @]
      /\ pending_request' = [pending_request EXCEPT ![d] =
                               kept_on_failure(@, accept, outcome)]
      /\ UNCHANGED <<inviting, clock, n_sessions, encapsulations, pending_plaintext,
                     composed, handed>>
  BY Zenon DEF consume_invite_msg, Delivered
<1>2. msg \in InviteMsg(Peer(d), n_sessions) /\ id \in 1..n_sessions /\ msg.from = Peer(d)
  BY <1>1, MsgOfType, Zenon
<1>3. accept \in AcceptMsg(d, n_sessions)
  BY <1>2, Zenon DEF accept_msg, AcceptMsg
<1>4. inbound_session(msg) \in SessionRec(encapsulations, handed[d])
  <2>1. Peer(d) \in Device /\ encapsulations \in Nat
    BY PeerFacts, Zenon DEF TypedInv, Counters
  <2> QED
    BY <1>2, <2>1 DEF inbound_session, SessionRec, InviteMsg
<1>5. DOMAIN session' = Device /\ SessionsTyped'
  <2>1. DOMAIN session' = Device
    BY <1>1, Zenon DEF TypedInv, Domains
  <2> DEFINE table == With(session[d], id, inbound_session(msg))
  <2>2. /\ DOMAIN table = DOMAIN session[d] \cup {id}
        /\ table[id] = inbound_session(msg)
        /\ \A i \in DOMAIN session[d] : i # id => table[i] = session[d][i]
    BY Zenon DEF With
  <2>3. session'[d] = table /\ \A e \in Device : e # d => session'[e] = session[e]
    BY <1>1, Zenon DEF TypedInv, Domains
  <2> HIDE DEF table, id
  <2>4. SessionsTyped'
    BY <1>1, <1>2, <1>4, <2>2, <2>3 DEF TypedInv, SessionsTyped
  <2> QED
    BY <2>1, <2>4, Zenon
<1>6. DOMAIN proto_msg' = Device /\ MsgsTyped'
  <2>1. DOMAIN queue = Device /\ \A e \in Device : queue[e] \subseteq proto_msg[e]
    BY Zenon DEF Processed, TypedInv, Domains
  <2>2. accept \in Msg(d, n_sessions, encapsulations)
    BY <1>3, Zenon DEF Msg
  <2>3. Peer(d) \in Device /\ Peer(Peer(d)) = d
    BY PeerFacts, Zenon
  <2> HIDE DEF queue, accept
  <2> QED
    BY <1>1, <1>2, <2>1, <2>2, <2>3, Zenon DEF TypedInv, MsgsTyped
<1>7. DOMAIN pending_request' = Device /\ RequestsTyped'
  <2>1. accept \in Request(d, n_sessions)
    BY <1>3, Zenon DEF Request
  <2> HIDE DEF accept
  <2> QED
    BY <1>1, <2>1, KeepingTyped, Zenon
<1>8. Counters' /\ InvitingTyped' /\ HandedTyped' /\ KeptTyped'
  BY <1>1, Zenon DEF TypedInv, Counters, InvitingTyped, HandedTyped, KeptTyped
<1>9. Domains'
  BY <1>1, <1>5, <1>6, <1>7, Zenon DEF TypedInv, Domains
<1> QED
  BY <1>5, <1>6, <1>7, <1>8, <1>9, Zenon DEF TypedInv

LEMMA AcceptMsgTyped ==
  ASSUME TypedInv, NEW d \in Device, NEW msg \in proto_msg[d], NEW again \in BOOLEAN,
         consume_accept_msg(d, msg, again)
  PROVE  TypedInv'
<1> DEFINE id    == msg.session_id
           done  == complete_outbound_session(session[d][id])
           kept  == load_pending_plaintext_data(d, msg.from)
           queue == Processed(d, msg, again)
           sent  == {one2one_msg(d, id, done, p.plaintext) : p \in kept}
<1>1. /\ msg.type = "accept" /\ id \in DOMAIN session[d]
      /\ session' = [session EXCEPT ![d][id] = done]
      /\ encapsulations' = encapsulations + 1
      /\ pending_plaintext' = [pending_plaintext EXCEPT ![d] = @ \ kept]
      /\ proto_msg' = [queue EXCEPT ![msg.from] = @ \cup sent]
      /\ UNCHANGED <<inviting, clock, n_sessions, pending_request, composed, handed>>
  BY Zenon DEF consume_accept_msg, Delivered, is_valid_uncompleted_session
<1>2. id \in 1..n_sessions /\ msg.from = Peer(d)
  BY MsgOfType, Zenon
<1>3. /\ n_sessions \in Nat /\ encapsulations \in Nat /\ encapsulations' \in Nat
      /\ encapsulations <= encapsulations' /\ n_sessions <= n_sessions
      /\ encapsulations + 1 \in 0..encapsulations'
  BY <1>1 DEF TypedInv, Counters
<1>4. done \in SessionRec(encapsulations', handed[d])
  <2>1. session[d][id] \in SessionRec(encapsulations, handed[d])
    BY <1>1, Zenon DEF TypedInv, SessionsTyped
  <2> QED
    BY <1>3, <2>1, Zenon DEF complete_outbound_session, SessionRec
<1>5. DOMAIN session' = Device /\ SessionsTyped'
  <2> HIDE DEF done, id
  <2> QED
    BY <1>1, <1>3, <1>4, UpdateTyped, Zenon
<1>6. \A e \in Device :
        /\ Msg(e, n_sessions, encapsulations) \subseteq Msg(e, n_sessions, encapsulations')
        /\ One2oneMsg(e, n_sessions, encapsulations)
             \subseteq One2oneMsg(e, n_sessions, encapsulations')
  BY <1>3, TypesGrow, Zenon
<1>7. sent \subseteq One2oneMsg(d, n_sessions, encapsulations')
  <2>1. kept \subseteq Kept
    BY Zenon DEF load_pending_plaintext_data, TypedInv, KeptTyped
  <2>2. done.root_sequence \in Nat /\ done.encaps \in 0..encapsulations'
    BY <1>4, Zenon DEF SessionRec
  <2> HIDE DEF kept, done, id
  <2> SUFFICES ASSUME NEW p \in kept
               PROVE  one2one_msg(d, id, done, p.plaintext)
                        \in One2oneMsg(d, n_sessions, encapsulations')
    BY Zenon
  <2>3. p.plaintext \in Plaintext
    BY <2>1, Zenon DEF Kept
  <2> QED
    BY <1>2, <2>2, <2>3, Zenon DEF one2one_msg, One2oneMsg
<1>8. DOMAIN proto_msg' = Device /\ MsgsTyped'
  <2>1. DOMAIN queue = Device /\ \A e \in Device : queue[e] \subseteq proto_msg[e]
    BY Zenon DEF Processed, TypedInv, Domains
  <2>2. sent \subseteq Msg(d, n_sessions, encapsulations')
    BY <1>7, Zenon DEF Msg
  <2>3. Peer(d) \in Device /\ Peer(Peer(d)) = d /\ \A e \in Device : Peer(e) \in Device
    BY PeerFacts, Zenon
  <2> HIDE DEF queue, sent
  <2> QED
    BY <1>1, <1>2, <1>6, <2>1, <2>2, <2>3, Zenon DEF TypedInv, MsgsTyped
<1>9. HandedTyped'
  BY <1>1, <1>6, PeerFacts, Zenon DEF TypedInv, HandedTyped
<1>10. Counters' /\ InvitingTyped' /\ RequestsTyped'
  BY <1>1, <1>3, Zenon DEF TypedInv, Counters, InvitingTyped, RequestsTyped
<1>11. DOMAIN pending_plaintext' = Device /\ KeptTyped'
  <2> HIDE DEF kept
  <2> QED
    BY <1>1, Zenon DEF TypedInv, Domains, KeptTyped
<1>12. Domains'
  BY <1>1, <1>5, <1>8, <1>11, Zenon DEF TypedInv, Domains
<1> QED
  BY <1>5, <1>8, <1>9, <1>10, <1>11, <1>12, Zenon DEF TypedInv

LEMMA SendTyped ==
  ASSUME TypedInv, NEW d \in Device, send_one2one_msg(d)
  PROVE  TypedInv'
<1> DEFINE p     == composed[d] + 1
           ready == {id \in DOMAIN session[d] : session[d][id].responded}
           kept  == {[to |-> Peer(d), plaintext |-> <<p, id>>] : id \in DOMAIN session[d] \ ready}
           none  == {[to |-> NoDevice, plaintext |-> <<p, 0>>]}
           sent  == {one2one_msg(d, id, session[d][id], <<p, 0>>) : id \in ready}
<1>1. /\ composed[d] < MaxMsgs
      /\ composed' = [composed EXCEPT ![d] = p]
      /\ proto_msg' = Posted(Peer(d), sent)
      /\ pending_plaintext' = [pending_plaintext EXCEPT ![d] =
                                 @ \cup (IF session[d] = << >> THEN none ELSE kept)]
      /\ UNCHANGED <<session, inviting, clock, n_sessions, encapsulations,
                     pending_request, handed>>
  BY Zenon DEF send_one2one_msg
<1>2. p \in Nat /\ DOMAIN composed' = Device /\ Counters'
  BY <1>1, SessionAssumption, SMTT(20) DEF TypedInv, Domains, Counters
<1>3. n_sessions \in Nat /\ DOMAIN session[d] \subseteq 1..n_sessions
  BY DEF TypedInv, Counters, SessionsTyped
<1>4. sent \subseteq One2oneMsg(d, n_sessions, encapsulations)
  <2> SUFFICES ASSUME NEW id \in DOMAIN session[d]
               PROVE  one2one_msg(d, id, session[d][id], <<p, 0>>)
                        \in One2oneMsg(d, n_sessions, encapsulations)
    BY Zenon
  <2>1. session[d][id] \in SessionRec(encapsulations, handed[d]) /\ id \in 1..n_sessions
    BY Zenon DEF TypedInv, SessionsTyped
  <2>2. <<p, 0>> \in Plaintext
    BY <1>2, Zenon DEF Plaintext
  <2> HIDE DEF p
  <2> QED
    BY <2>1, <2>2, Zenon DEF one2one_msg, One2oneMsg, SessionRec
<1>5. DOMAIN proto_msg' = Device /\ MsgsTyped'
  <2>1. sent \subseteq Msg(Peer(Peer(d)), n_sessions, encapsulations) /\ Peer(d) \in Device
    BY <1>4, PeerFacts, Zenon DEF Msg
  <2> HIDE DEF sent
  <2> QED
    BY <1>1, <2>1, PostedTyped, Zenon
<1>6. DOMAIN pending_plaintext' = Device /\ KeptTyped'
  <2>1. none \subseteq Kept
    BY <1>2 DEF Kept, Plaintext
  <2>2. kept \subseteq Kept
    <3>1. Peer(d) \in Device
      BY PeerFacts, Zenon
    <3>2. \A id \in DOMAIN session[d] : <<p, id>> \in Plaintext
      BY <1>2, <1>3 DEF Plaintext
    <3> HIDE DEF p
    <3> QED
      BY <3>1, <3>2 DEF Kept
  <2> HIDE DEF none, kept
  <2> QED
    BY <1>1, <2>1, <2>2, Zenon DEF TypedInv, Domains, KeptTyped
<1>7. SessionsTyped' /\ InvitingTyped' /\ HandedTyped' /\ RequestsTyped'
  BY <1>1, Zenon DEF TypedInv, SessionsTyped, InvitingTyped, HandedTyped, RequestsTyped
<1>8. Domains'
  BY <1>1, <1>2, <1>5, <1>6, Zenon DEF TypedInv, Domains
<1> QED
  BY <1>2, <1>5, <1>6, <1>7, <1>8, Zenon DEF TypedInv

LEMMA One2oneTyped ==
  ASSUME TypedInv, NEW d \in Device, NEW msg \in proto_msg[d], NEW again \in BOOLEAN,
         consume_one2one_msg(d, msg, again)
  PROVE  TypedInv'
<1> DEFINE id    == msg.session_id
           s     == decrypt_ratchet(session[d][id], msg)
           old   == {i \in DOMAIN With(session[d], id, s) :
                       With(session[d], id, s)[i].invite_t < s.invite_t - OLD_SESSION_TIME}
<1>1. /\ msg.type = "one2one" /\ id \in DOMAIN session[d]
      /\ session' = [session EXCEPT ![d] = unload_old_session(With(@, id, s), s.invite_t)]
      /\ proto_msg' = Processed(d, msg, again)
      /\ handed' = [handed EXCEPT ![d] = @ \cup {msg}]
      /\ UNCHANGED <<inviting, clock, n_sessions, encapsulations, pending_request,
                     pending_plaintext, composed>>
  BY Zenon DEF consume_one2one_msg, Delivered, Opens
<1>2. msg \in One2oneMsg(Peer(d), n_sessions, encapsulations)
  BY <1>1, MsgOfType, Zenon
<1>3. /\ DOMAIN handed' = Device /\ handed'[d] = handed[d] \cup {msg}
      /\ \A e \in Device : e # d => handed'[e] = handed[e]
  BY <1>1, Zenon DEF TypedInv, Domains
<1>4. \A e \in Device :
        SessionRec(encapsulations, handed[e]) \subseteq SessionRec(encapsulations, handed'[e])
  <2>1. encapsulations \in Nat /\ encapsulations <= encapsulations
    BY DEF TypedInv, Counters
  <2>2. \A e \in Device : handed[e] \subseteq handed'[e]
    BY <1>3, Zenon
  <2> QED
    BY <2>1, <2>2, RecordsGrow, Zenon
<1>5. s \in SessionRec(encapsulations, handed'[d])
  <2>1. session[d][id] \in SessionRec(encapsulations, handed[d])
    BY <1>1, Zenon DEF TypedInv, SessionsTyped
  <2>2. msg.encaps \in 0..encapsulations /\ msg.root_sequence \in Nat
    BY <1>2, Zenon DEF One2oneMsg
  <2> DEFINE t == session[d][id]
             c == IF t.encaps = 0 THEN msg.encaps ELSE t.encaps
             r == IF msg.root_sequence = t.root_sequence + 1 THEN t.root_sequence + 2
                  ELSE t.root_sequence
  <2>3. c \in 0..encapsulations /\ r \in Nat
    BY <2>1, <2>2 DEF SessionRec
  <2>4. t.opened \cup {msg} \subseteq handed'[d]
    BY <1>3, <2>1, Zenon DEF SessionRec
  <2>5. s = [t EXCEPT !.opened = t.opened \cup {msg}, !.encaps = c, !.root_sequence = r]
    BY Zenon DEF decrypt_ratchet
  <2> HIDE DEF c, r, t, s
  <2>6. t \in SessionRec(encapsulations, handed[d])
    BY <2>1, Zenon DEF t
  <2> QED
    BY <2>3, <2>4, <2>5, <2>6, Zenon DEF SessionRec
<1>6. /\ DOMAIN session' = Device /\ \A e \in Device : e # d => session'[e] = session[e]
      /\ DOMAIN session'[d] \subseteq DOMAIN session[d]
      /\ \A i \in DOMAIN session'[d] : session'[d][i] = IF i = id THEN s ELSE session[d][i]
  <2> DEFINE table == With(session[d], id, s)
  <2>1. /\ DOMAIN table = DOMAIN session[d]
        /\ \A i \in DOMAIN table : table[i] = IF i = id THEN s ELSE session[d][i]
    BY <1>1, Zenon DEF With
  <2>2. /\ DOMAIN session' = Device /\ \A e \in Device : e # d => session'[e] = session[e]
        /\ session'[d] = unload_old_session(table, s.invite_t)
    BY <1>1, Zenon DEF TypedInv, Domains
  <2> HIDE DEF table, s
  <2> QED
    BY <2>1, <2>2 DEF unload_old_session, Without
<1>7. SessionsTyped'
  <2> HIDE DEF s
  <2> SUFFICES ASSUME NEW e \in Device
               PROVE  /\ DOMAIN session'[e] \subseteq 1..n_sessions
                      /\ \A i \in DOMAIN session'[e] :
                           session'[e][i] \in SessionRec(encapsulations, handed'[e])
    BY <1>1, Zenon DEF SessionsTyped
  <2>1. /\ DOMAIN session[e] \subseteq 1..n_sessions
        /\ \A i \in DOMAIN session[e] :
             session[e][i] \in SessionRec(encapsulations, handed'[e])
    BY <1>4, Zenon DEF TypedInv, SessionsTyped
  <2>2. CASE e = d
    BY <1>5, <1>6, <2>1, <2>2, Zenon
  <2>3. CASE e # d
    BY <1>6, <2>1, <2>3, Zenon
  <2> QED
    BY <2>2, <2>3, Zenon
<1>8. DOMAIN proto_msg' = Device /\ MsgsTyped'
  BY <1>1, Zenon DEF TypedInv, Domains, MsgsTyped, Processed
<1>9. HandedTyped'
  BY <1>1, <1>2, <1>3, Zenon DEF TypedInv, HandedTyped
<1>10. Counters' /\ InvitingTyped' /\ RequestsTyped' /\ KeptTyped'
  BY <1>1, Zenon DEF TypedInv, Counters, InvitingTyped, RequestsTyped, KeptTyped
<1>11. Domains'
  BY <1>1, <1>3, <1>6, <1>8, Zenon DEF TypedInv, Domains
<1> QED
  BY <1>7, <1>8, <1>9, <1>10, <1>11, Zenon DEF TypedInv

LEMMA InVainTyped ==
  ASSUME TypedInv, NEW d \in Device, NEW msg \in proto_msg[d], consume_in_vain(d, msg)
  PROVE  TypedInv'
<1>1. /\ proto_msg' = [proto_msg EXCEPT ![d] = @ \ {msg}]
      /\ UNCHANGED <<session, inviting, clock, n_sessions, encapsulations, pending_request,
                     pending_plaintext, composed, handed>>
  BY Zenon DEF consume_in_vain, Processed
<1>2. Domains' /\ MsgsTyped'
  BY <1>1, Zenon DEF TypedInv, Domains, MsgsTyped
<1>3. Counters' /\ SessionsTyped' /\ InvitingTyped' /\ HandedTyped' /\ RequestsTyped' /\ KeptTyped'
  BY <1>1, Zenon DEF TypedInv, Counters, SessionsTyped, InvitingTyped, HandedTyped, RequestsTyped,
              KeptTyped
<1> QED
  BY <1>2, <1>3, Zenon DEF TypedInv

(* The steps, one by one. *)
LEMMA NextCases ==
  ASSUME Next
  PROVE  \E d \in Device :
           \/ \E now \in clock..MaxClock, o \in Outcome : invite(d, now, o)
           \/ \E now \in clock..MaxClock, o \in Outcome : resend_get_pre_key_bundle(d, now, o)
           \/ \E now \in clock..MaxClock, o \in Outcome : \E id \in DOMAIN session[d] :
                reinvite(d, id, now, o)
           \/ get_pre_key_bundle_failed(d)
           \/ consume_invite_response(d)
           \/ \E msg \in proto_msg[d], o \in Outcome, again \in BOOLEAN :
                consume_invite_msg(d, msg, o, again)
           \/ \E msg \in proto_msg[d], again \in BOOLEAN : consume_accept_msg(d, msg, again)
           \/ send_one2one_msg(d)
           \/ \E msg \in proto_msg[d], again \in BOOLEAN : consume_one2one_msg(d, msg, again)
           \/ \E msg \in proto_msg[d] : consume_in_vain(d, msg)
           \/ \E msg \in pending_request[d], o \in Outcome : resend_invite(d, msg, o)
           \/ \E msg \in pending_request[d], o \in Outcome : resend_accept(d, msg, o)
  BY Zenon DEF Next

LEMMA NextTyped == TypedInv /\ [Next]_vars => TypedInv'
<1> SUFFICES ASSUME TypedInv, [Next]_vars PROVE TypedInv'
  BY Zenon
<1>1. CASE Next
  BY <1>1, NextCases, InviteTyped, ResendBundleTyped, ReinviteTyped, BundleFailedTyped,
     InviteResponseTyped, InviteMsgTyped, AcceptMsgTyped, SendTyped, One2oneTyped, InVainTyped,
     ResendInviteTyped, ResendAcceptTyped, Zenon
<1>2. CASE UNCHANGED vars
  BY <1>2, Zenon DEF vars, TypedInv, Domains, Counters, SessionsTyped, InvitingTyped, MsgsTyped,
              HandedTyped, RequestsTyped, KeptTyped
<1> QED
  BY <1>1, <1>2, Zenon

LEMMA TypedAlways == Spec => []TypedInv
  BY InitTyped, NextTyped, PTL DEF Spec

LEMMA TypedIsOK == TypedInv => TypeOK
<1> SUFFICES ASSUME TypedInv PROVE TypeOK
  BY Zenon
<1>1. /\ clock \in 1..MaxClock /\ n_sessions \in 0..MaxInvites
      /\ \A d \in Device : composed[d] \in 0..MaxMsgs
  BY Zenon DEF TypedInv, Counters
<1>2. \A d \in Device : \A id \in DOMAIN session[d] : session[d][id] \in SessionType
  <2> SUFFICES ASSUME NEW d \in Device, NEW id \in DOMAIN session[d]
               PROVE  session[d][id] \in SessionType
    BY Zenon
  <2>1. session[d][id] \in SessionRec(encapsulations, handed[d])
    BY Zenon DEF TypedInv, SessionsTyped
  <2>2. handed[d] \subseteq UNION {proto_msg[e] \cup handed[e] : e \in Device}
    OBVIOUS
  <2> QED
    BY <2>1, <2>2, Zenon DEF SessionRec, SessionType
<1>3. \A d \in Device : inviting[d].session_id \in 0..n_sessions
  <2>1. NoInvite.session_id \in 0..n_sessions /\ 1..n_sessions \subseteq 0..n_sessions
    BY <1>1 DEF NoInvite
  <2> QED
    BY <2>1, Zenon DEF TypedInv, InvitingTyped
<1>4. \A d \in Device : \A m \in proto_msg[d] : m.from = Peer(d) /\ m.session_id \in 1..n_sessions
  BY MsgOfType, Zenon
<1>5. \A d \in Device : DOMAIN session[d] \subseteq 1..n_sessions
  BY Zenon DEF TypedInv, SessionsTyped
<1> QED
  BY <1>1, <1>2, <1>3, <1>4, <1>5, Zenon DEF TypeOK

(* Types of the tables, the queues and the calls in progress, for any number of
   invitations, plaintexts and ticks, whatever requests and answers are lost and
   whatever is delivered again. *)
THEOREM TypeCorrect == Spec => []TypeOK
  BY TypedAlways, TypedIsOK, PTL

-----------------------------------------------------------------------------
(***************************************************************************)
(* Completion.                                                             *)
(***************************************************************************)
(* What is completed stays so, or goes. *)
StaysCompleted ==
  \A d \in Device : \A id \in DOMAIN session[d] \cap DOMAIN session'[d] :
    session[d][id].responded => session'[d][id].responded

KeepsCompleted(table, old) ==
  \A i \in DOMAIN table \cap DOMAIN old : old[i].responded => table[i].responded

LEMMA WrittenStays ==
  ASSUME TypedInv, NEW d \in Device, NEW table, session' = [session EXCEPT ![d] = table],
         KeepsCompleted(table, session[d])
  PROVE  StaysCompleted
<1>1. session'[d] = table /\ \A e \in Device : e # d => session'[e] = session[e]
  BY Zenon DEF TypedInv, Domains
<1> QED
  BY <1>1, Zenon DEF StaysCompleted, KeepsCompleted

LEMMA UpdateStays ==
  ASSUME TypedInv, NEW d \in Device, NEW id \in DOMAIN session[d], NEW s,
         session' = [session EXCEPT ![d][id] = s],
         session[d][id].responded => s.responded
  PROVE  StaysCompleted
<1> DEFINE table == [session[d] EXCEPT ![id] = s]
<1>1. session' = [session EXCEPT ![d] = table]
  BY Zenon DEF TypedInv, Domains
<1>2. KeepsCompleted(table, session[d])
  BY Zenon DEF KeepsCompleted
<1> HIDE DEF table
<1> QED
  BY <1>1, <1>2, WrittenStays, Zenon

LEMMA NewStays ==
  ASSUME TypedInv, NEW d \in Device, NEW id, NEW s, id \notin DOMAIN session[d],
         session' = [session EXCEPT ![d] = With(@, id, s)]
  PROVE  StaysCompleted
<1> DEFINE table == With(session[d], id, s)
<1>1. session' = [session EXCEPT ![d] = table]
  BY Zenon
<1>2. KeepsCompleted(table, session[d])
  BY Zenon DEF With, KeepsCompleted
<1> HIDE DEF table
<1> QED
  BY <1>1, <1>2, WrittenStays, Zenon

LEMMA OutboundStays ==
  ASSUME TypedInv, NEW d \in Device, NEW now, NEW outcome, new_outbound_session(d, now, outcome)
  PROVE  StaysCompleted
<1> DEFINE id == n_sessions + 1
<1>1. session' = [session EXCEPT ![d] = With(@, id, outbound_session(d, now))]
  BY Zenon DEF new_outbound_session
<1>2. id \notin DOMAIN session[d]
  BY DEF TypedInv, Counters, SessionsTyped
<1> HIDE DEF id
<1> QED
  BY <1>1, <1>2, NewStays, Zenon

LEMMA StepStays == TypedInv /\ [Next]_vars => [StaysCompleted]_vars
<1> SUFFICES ASSUME TypedInv, Next PROVE StaysCompleted
  BY Zenon
<1>1. PICK d \in Device :
           \/ \E now \in clock..MaxClock, o \in Outcome : invite(d, now, o)
           \/ \E now \in clock..MaxClock, o \in Outcome : resend_get_pre_key_bundle(d, now, o)
           \/ \E now \in clock..MaxClock, o \in Outcome : \E id \in DOMAIN session[d] :
                reinvite(d, id, now, o)
           \/ get_pre_key_bundle_failed(d)
           \/ consume_invite_response(d)
           \/ \E msg \in proto_msg[d], o \in Outcome, again \in BOOLEAN :
                consume_invite_msg(d, msg, o, again)
           \/ \E msg \in proto_msg[d], again \in BOOLEAN : consume_accept_msg(d, msg, again)
           \/ send_one2one_msg(d)
           \/ \E msg \in proto_msg[d], again \in BOOLEAN : consume_one2one_msg(d, msg, again)
           \/ \E msg \in proto_msg[d] : consume_in_vain(d, msg)
           \/ \E msg \in pending_request[d], o \in Outcome : resend_invite(d, msg, o)
           \/ \E msg \in pending_request[d], o \in Outcome : resend_accept(d, msg, o)
  BY NextCases, Zenon
<1>2. CASE \E now \in clock..MaxClock, o \in Outcome : invite(d, now, o)
  BY <1>2, OutboundStays, Zenon DEF invite
<1>3. CASE \E now \in clock..MaxClock, o \in Outcome : resend_get_pre_key_bundle(d, now, o)
  <2> PICK now \in clock..MaxClock, o \in Outcome : resend_get_pre_key_bundle(d, now, o)
    BY <1>3, Zenon
  <2>1. new_outbound_session(d, now, o) \/ session' = session
    BY Zenon DEF resend_get_pre_key_bundle
  <2>2. session' = session => StaysCompleted
    BY Zenon DEF StaysCompleted
  <2> QED
    BY <2>1, <2>2, OutboundStays, Zenon
<1>4. CASE \E now \in clock..MaxClock, o \in Outcome : \E id \in DOMAIN session[d] :
             reinvite(d, id, now, o)
  <2> PICK now \in clock..MaxClock, o \in Outcome, id \in DOMAIN session[d] :
             reinvite(d, id, now, o)
    BY <1>4, Zenon
  <2> DEFINE s == [session[d][id] EXCEPT !.invite_t = now]
  <2>1. session' = [session EXCEPT ![d][id] = s] /\ ~session[d][id].responded
    BY Zenon DEF reinvite
  <2> HIDE DEF s
  <2> QED
    BY <2>1, UpdateStays, Zenon
<1>5. CASE consume_invite_response(d)
  <2> DEFINE i == inviting[d]
  <2>1. CASE i.session_id \in DOMAIN session[d] /\ i.outcome = "ok"
    <3>1. session' = [session EXCEPT ![d][i.session_id] = answered_session(d, i)]
      BY <1>5, <2>1, Zenon DEF consume_invite_response
    <3>2. session[d][i.session_id] \in SessionRec(encapsulations, handed[d])
      BY <2>1, Zenon DEF TypedInv, SessionsTyped
    <3>3. session[d][i.session_id].responded => answered_session(d, i).responded
      BY <3>2, Zenon DEF answered_session, SessionRec
    <3> QED
      BY <2>1, <3>1, <3>3, UpdateStays, Zenon
  <2>2. CASE ~(i.session_id \in DOMAIN session[d] /\ i.outcome = "ok")
    BY <1>5, <2>2, Zenon DEF consume_invite_response, StaysCompleted
  <2> QED
    BY <2>1, <2>2, Zenon
<1>6. CASE \E msg \in proto_msg[d], o \in Outcome, again \in BOOLEAN :
             consume_invite_msg(d, msg, o, again)
  <2> PICK msg \in proto_msg[d], o \in Outcome, again \in BOOLEAN :
             consume_invite_msg(d, msg, o, again)
    BY <1>6, Zenon
  <2>1. /\ msg.session_id \notin DOMAIN session[d]
        /\ session' = [session EXCEPT ![d] = With(@, msg.session_id, inbound_session(msg))]
    BY Zenon DEF consume_invite_msg, session_id_unused
  <2> QED
    BY <2>1, NewStays, Zenon
<1>7. CASE \E msg \in proto_msg[d], again \in BOOLEAN : consume_accept_msg(d, msg, again)
  <2> PICK msg \in proto_msg[d], again \in BOOLEAN : consume_accept_msg(d, msg, again)
    BY <1>7, Zenon
  <2> DEFINE id == msg.session_id
             s  == complete_outbound_session(session[d][id])
  <2>1. id \in DOMAIN session[d] /\ session' = [session EXCEPT ![d][id] = s]
    BY Zenon DEF consume_accept_msg, is_valid_uncompleted_session
  <2>2. session[d][id] \in SessionRec(encapsulations, handed[d])
    BY <2>1, Zenon DEF TypedInv, SessionsTyped
  <2>3. s.responded
    BY <2>2, Zenon DEF complete_outbound_session, SessionRec
  <2> HIDE DEF s, id
  <2> QED
    BY <2>1, <2>3, UpdateStays, Zenon
<1>8. CASE \E msg \in proto_msg[d], again \in BOOLEAN : consume_one2one_msg(d, msg, again)
  <2> PICK msg \in proto_msg[d], again \in BOOLEAN : consume_one2one_msg(d, msg, again)
    BY <1>8, Zenon
  <2> DEFINE id == msg.session_id
             s  == decrypt_ratchet(session[d][id], msg)
             table == unload_old_session(With(session[d], id, s), s.invite_t)
  <2>1. /\ id \in DOMAIN session[d] /\ session[d][id].responded
        /\ session' = [session EXCEPT ![d] = table]
    BY Zenon DEF consume_one2one_msg, Opens, decrypt_ratchet_ok
  <2>2. session[d][id] \in SessionRec(encapsulations, handed[d])
    BY <2>1, Zenon DEF TypedInv, SessionsTyped
  <2>3. s.responded
    BY <2>1, <2>2, Zenon DEF decrypt_ratchet, SessionRec
  <2> HIDE DEF s
  <2>4. \A i \in DOMAIN table : table[i] = IF i = id THEN s ELSE session[d][i]
    BY Zenon DEF unload_old_session, Without, With
  <2>5. KeepsCompleted(table, session[d])
    <3> HIDE DEF id, table
    <3> QED
      BY <2>3, <2>4, Zenon DEF KeepsCompleted
  <2> HIDE DEF id, table
  <2> QED
    BY <2>1, <2>5, WrittenStays, Zenon
<1>9. CASE \E msg \in pending_request[d], o \in Outcome : resend_invite(d, msg, o)
  <2> PICK msg \in pending_request[d], o \in Outcome : resend_invite(d, msg, o)
    BY <1>9, Zenon
  <2> DEFINE id == msg.session_id
             s  == [session[d][id] EXCEPT !.invite_t = msg.invite_t]
  <2>1. CASE id \in DOMAIN session[d] /\ o = "ok"
    <3>1. session' = [session EXCEPT ![d][id] = s]
      BY <2>1, Zenon DEF resend_invite
    <3>2. session[d][id] \in SessionRec(encapsulations, handed[d])
      BY <2>1, Zenon DEF TypedInv, SessionsTyped
    <3>3. session[d][id].responded => s.responded
      BY <3>2, Zenon DEF SessionRec
    <3> HIDE DEF s, id
    <3> QED
      BY <2>1, <3>1, <3>3, UpdateStays, Zenon
  <2>2. CASE ~(id \in DOMAIN session[d] /\ o = "ok")
    BY <2>2, Zenon DEF resend_invite, StaysCompleted
  <2> QED
    BY <2>1, <2>2, Zenon
<1>10. CASE \/ get_pre_key_bundle_failed(d) \/ send_one2one_msg(d)
            \/ \E msg \in proto_msg[d] : consume_in_vain(d, msg)
            \/ \E msg \in pending_request[d], o \in Outcome : resend_accept(d, msg, o)
  <2>1. session' = session
    BY <1>10, Zenon DEF get_pre_key_bundle_failed, send_one2one_msg, consume_in_vain, resend_accept
  <2> QED
    BY <2>1, Zenon DEF StaysCompleted
<1> QED
  BY <1>1, <1>2, <1>3, <1>4, <1>5, <1>6, <1>7, <1>8, <1>9, <1>10, Zenon

(* A completed session stays completed as long as it is kept: the answer to the
   invitation, which consume_invite_response may handle long after the accept,
   a resent invitation, and an invitation delivered again leave it so. *)
THEOREM CompletionKept == Spec => CompletionStays
<1>1. TypedInv /\ [Next]_vars =>
        [\A d \in Device : \A id \in DOMAIN session[d] \cap DOMAIN session'[d] :
           session[d][id].responded => session'[d][id].responded]_vars
  BY StepStays, Zenon DEF StaysCompleted
<1> QED
  BY <1>1, TypedAlways, PTL DEF Spec, CompletionStays

-----------------------------------------------------------------------------
(***************************************************************************)
(* Steps that leave the ends of the sessions alone, but for their times.   *)
(***************************************************************************)
SameEnds ==
  \A d \in Device :
    /\ DOMAIN session'[d] = DOMAIN session[d]
    /\ \A id \in DOMAIN session[d] :
         /\ session'[d][id].inviter = session[d][id].inviter
         /\ session'[d][id].responded = session[d][id].responded
         /\ session'[d][id].encaps = session[d][id].encaps
         /\ session'[d][id].opened = session[d][id].opened

LEMMA RetimedSame ==
  ASSUME TypedInv, NEW d \in Device, NEW id \in DOMAIN session[d], NEW t,
         session' = [session EXCEPT ![d][id] = [session[d][id] EXCEPT !.invite_t = t]]
  PROVE  SameEnds
<1> DEFINE s == [session[d][id] EXCEPT !.invite_t = t]
<1>1. session[d][id] \in SessionRec(encapsulations, handed[d])
  BY Zenon DEF TypedInv, SessionsTyped
<1>2. /\ s.inviter = session[d][id].inviter /\ s.responded = session[d][id].responded
      /\ s.encaps = session[d][id].encaps /\ s.opened = session[d][id].opened
  BY <1>1, Zenon DEF SessionRec
<1>3. \A e \in Device : e # d => session'[e] = session[e]
  BY Zenon DEF TypedInv, Domains
<1>4. session'[d] = [session[d] EXCEPT ![id] = s]
  BY Zenon DEF TypedInv, Domains
<1> HIDE DEF s
<1> QED
  BY <1>2, <1>3, <1>4 DEF SameEnds

(***************************************************************************)
(* Steps that write a session.                                             *)
(***************************************************************************)
Wrote(d, id, s) ==
  /\ \A e \in Device : e # d => session'[e] = session[e]
  /\ DOMAIN session'[d] = DOMAIN session[d] \cup {id}
  /\ session'[d][id] = s
  /\ \A i \in DOMAIN session[d] : i # id => session'[d][i] = session[d][i]

(* The sessions of d's own invitations. *)
Owns(d, id) == id \in DOMAIN session[d] /\ session[d][id].inviter = d

LEMMA NewWrites ==
  ASSUME TypedInv, NEW d \in Device, NEW id, NEW s,
         session' = [session EXCEPT ![d] = With(@, id, s)]
  PROVE  Wrote(d, id, s)
<1> DEFINE table == With(session[d], id, s)
<1>1. session'[d] = table /\ \A e \in Device : e # d => session'[e] = session[e]
  BY Zenon DEF TypedInv, Domains
<1>2. /\ DOMAIN table = DOMAIN session[d] \cup {id}
      /\ table[id] = s
      /\ \A i \in DOMAIN session[d] : i # id => table[i] = session[d][i]
  BY Zenon DEF With
<1> HIDE DEF table
<1> QED
  BY <1>1, <1>2, Zenon DEF Wrote

LEMMA UpdateWrites ==
  ASSUME TypedInv, NEW d \in Device, NEW id \in DOMAIN session[d], NEW s,
         session' = [session EXCEPT ![d][id] = s]
  PROVE  Wrote(d, id, s)
<1>1. \A e \in Device : e # d => session'[e] = session[e]
  BY Zenon DEF TypedInv, Domains
<1>2. session'[d] = [session[d] EXCEPT ![id] = s]
  BY Zenon DEF TypedInv, Domains
<1> QED
  BY <1>1, <1>2, Zenon DEF Wrote

(* An owner stays the owner. *)
LEMMA OwnsWritten ==
  ASSUME TypedInv, NEW d \in Device, NEW id, NEW s, Wrote(d, id, s),
         id \in DOMAIN session[d] => s.inviter = session[d][id].inviter
  PROVE  \A e \in Device : \A i :
           Owns(e, i)' <=> Owns(e, i) \/ (e = d /\ i = id /\ s.inviter = d)
  BY Zenon DEF Wrote, Owns
=============================================================================
