------------------------ MODULE SessionLeft_proofs -------------------------
(***************************************************************************)
(* A session is left, however old sessions are removed, when invitations   *)
(* are not repeated with another time and the server never answers that    *)
(* the other device is not there.                                          *)
(***************************************************************************)
EXTENDS Session_proofs

TimesKept == Reinviter = {} /\ "not_found" \notin Outcome

(* Nothing was handed over yet, so that nothing was removed: *)
Nobody == \A d \in Device : handed[d] = {}

(* every session has one owner, and is completed on the other side; *)
OneOwner ==
  /\ \A id \in 1..n_sessions : \E d \in Device : Owns(d, id)
  /\ \A d \in Device : \A id \in DOMAIN session[d] :
       /\ session[d][id].inviter # d => session[d][id].responded
       /\ Owns(d, id) => ~Owns(Peer(d), id)

(* a session the other side has is completed, or the accept is to come; *)
Accepting ==
  \A d \in Device : \A id \in DOMAIN session[Peer(d)] :
    Owns(d, id) =>
      \/ session[d][id].responded
      \/ \E m \in proto_msg[d] \cup pending_request[Peer(d)] :
           m.type = "accept" /\ m.session_id = id

(* and for one it has not, the invitation is to come. *)
Inviting ==
  \A d \in Device : \A id \in DOMAIN session[d] :
    Owns(d, id) /\ id \notin DOMAIN session[Peer(d)] =>
      \/ /\ inviting[d] # NoInvite
         /\ inviting[d].session_id = id /\ inviting[d].outcome # "ok"
      \/ \E m \in proto_msg[Peer(d)] \cup pending_request[d] :
           m.type = "invite" /\ m.session_id = id

UnderWay == Nobody => OneOwner /\ Accepting /\ Inviting

(* T has the time of every session. *)
SessionsDated(T) ==
  \A d \in Device : \A id \in DOMAIN session[d] : session[d][id].invite_t = T[id]

Dated(T) ==
  SessionsDated(T) /\ \A d \in Device :
    /\ inviting[d] # NoInvite => inviting[d].msg.invite_t = T[inviting[d].session_id]
    /\ \A m \in proto_msg[d] : m.type = "invite" => m.invite_t = T[m.session_id]
    /\ \A m \in pending_request[d] : m.type = "invite" => m.invite_t = T[m.session_id]

Has(d, id) == id \in DOMAIN session[d] /\ session[d][id].responded

(* d has the session, or has used one that is newer by more than a day. *)
HasOrNewer(T, d, id) ==
  Has(d, id) \/ \E m \in handed[d] : T[m.session_id] > T[id] + OLD_SESSION_TIME

(* Of the sessions that were used, one is the newest. *)
Newest(T) ==
  ~Nobody => \E d \in Device : \E m \in handed[d] : \A e \in Device : \A k \in handed[e] :
               T[k.session_id] <= T[m.session_id]

(* Every session that was used, both sides have, or have used a newer one. *)
Used(T) ==
  Newest(T) /\ \A d \in Device :
    /\ \A m \in handed[d] : HasOrNewer(T, d, m.session_id)
    /\ \A m \in handed[d] : HasOrNewer(T, Peer(d), m.session_id)
    /\ \A m \in proto_msg[d] : m.type = "one2one" => HasOrNewer(T, Peer(d), m.session_id)

LeftInv ==
  UnderWay /\ \E T \in [1..n_sessions -> 1..MaxClock] : Dated(T) /\ Used(T)

LEMMA InitLeft == Init => LeftInv
<1> SUFFICES ASSUME Init PROVE LeftInv
  BY Zenon
<1>1. \A d \in Device : DOMAIN session[d] = {}
  <2>1. << >> \in Seq({})
    OBVIOUS
  <2>2. DOMAIN << >> = {}
    BY <2>1
  <2> QED
    BY <2>2, Zenon DEF Init
<1>2. \A d \in Device : /\ proto_msg[d] = {} /\ pending_request[d] = {} /\ handed[d] = {}
                        /\ inviting[d] = NoInvite /\ Peer(d) \in Device
  BY PeerFacts, Zenon DEF Init
<1>3. n_sessions = 0
  BY Zenon DEF Init
<1>4. UnderWay
  BY <1>1, <1>2, <1>3 DEF UnderWay, OneOwner, Accepting, Inviting
<1> DEFINE T == [i \in 1..n_sessions |-> 1]
<1>5. T \in [1..n_sessions -> 1..MaxClock]
  BY SessionAssumption
<1>6. Dated(T) /\ Used(T)
  BY <1>1, <1>2, Zenon DEF Dated, SessionsDated, Used, Newest, Nobody
<1> QED
  BY <1>4, <1>5, <1>6, Zenon DEF LeftInv

(***************************************************************************)
(* What was used stays, or goes for a newer one.                           *)
(***************************************************************************)
Keeps(T) ==
  \A d \in Device :
    /\ handed[d] \subseteq handed'[d]
    /\ \A id : Has(d, id) => HasOrNewer(T, d, id)'

LEMMA StillUsed ==
  ASSUME NEW T, Used(T), Keeps(T), Newest(T)',
         \A e \in Device : \A m \in handed'[e] :
           \/ m \in handed[e]
           \/ Has(e, m.session_id)' /\ m \in proto_msg[e] /\ m.type = "one2one",
         \A e \in Device : \A m \in proto_msg'[e] :
           m.type = "one2one" => m \in proto_msg[e] \/ Has(Peer(e), m.session_id)'
  PROVE  Used(T)'
<1>1. \A e \in Device : Peer(e) \in Device
  BY PeerFacts, Zenon
<1>2. \A e \in Device : \A id : HasOrNewer(T, e, id) => HasOrNewer(T, e, id)'
  BY Zenon DEF Keeps, HasOrNewer
<1>3. \A e \in Device : \A id : Has(e, id)' => HasOrNewer(T, e, id)'
  BY Zenon DEF HasOrNewer
<1> SUFFICES ASSUME NEW e \in Device
             PROVE  /\ \A m \in handed'[e] : HasOrNewer(T, e, m.session_id)'
                    /\ \A m \in handed'[e] : HasOrNewer(T, Peer(e), m.session_id)'
                    /\ \A m \in proto_msg'[e] :
                         m.type = "one2one" => HasOrNewer(T, Peer(e), m.session_id)'
  BY Zenon DEF Used
<1>4. /\ \A m \in handed[e] : HasOrNewer(T, e, m.session_id)
      /\ \A m \in handed[e] : HasOrNewer(T, Peer(e), m.session_id)
      /\ \A m \in proto_msg[e] : m.type = "one2one" => HasOrNewer(T, Peer(e), m.session_id)
  BY Zenon DEF Used
<1> QED
  BY <1>1, <1>2, <1>3, <1>4, Zenon

(* Tables that grow, with what is completed still completed. *)
Grows == \A d \in Device : DOMAIN session[d] \subseteq DOMAIN session'[d]

LEMMA GrowingKeeps ==
  ASSUME NEW T, Grows, StaysCompleted, handed' = handed
  PROVE  Keeps(T)
<1>1. \A e \in Device : \A id : Has(e, id) => Has(e, id)'
  BY Zenon DEF Grows, StaysCompleted, Has
<1> QED
  BY <1>1, Zenon DEF Keeps, HasOrNewer

(* A step that hands nothing over: what is left to show. *)
LEMMA LeftStep ==
  ASSUME TypedInv, Next, LeftInv, NEW T \in [1..n_sessions -> 1..MaxClock], Used(T),
         n_sessions' = n_sessions, handed' = handed, Grows, Dated(T)',
         \A e \in Device : \A m \in proto_msg'[e] :
           m.type = "one2one" => m \in proto_msg[e] \/ Has(Peer(e), m.session_id)',
         Nobody => (OneOwner /\ Accepting /\ Inviting)'
  PROVE  LeftInv'
<1>1. StaysCompleted \/ UNCHANGED vars
  BY StepStays, Zenon
<1>2. Keeps(T)
  BY <1>1, GrowingKeeps, Zenon DEF vars, Keeps, Has, HasOrNewer
<1>3. Used(T)'
  <2>1. Newest(T)'
    BY Zenon DEF Used, Newest, Nobody
  <2> QED
    BY <1>2, <2>1, StillUsed, Zenon
<1>4. UnderWay'
  BY Zenon DEF UnderWay, Nobody
<1> QED
  BY <1>3, <1>4, Zenon DEF LeftInv

(* Accepts and invitations that are still needed stay, or change place. *)
AcceptsStay ==
  \A d \in Device : \A m \in proto_msg[d] \cup pending_request[Peer(d)] :
    m.type = "accept" /\ Owns(d, m.session_id) =>
      m \in proto_msg'[d] \cup pending_request'[Peer(d)]

InvitesStay ==
  \A d \in Device :
    /\ \A m \in proto_msg[Peer(d)] \cup pending_request[d] :
         m.type = "invite" /\ m.session_id \notin DOMAIN session[Peer(d)] =>
           m \in proto_msg'[Peer(d)] \cup pending_request'[d]
    /\ inviting[d] # NoInvite /\ inviting[d].outcome # "ok" =>
         \/ inviting'[d] = inviting[d]
         \/ \E m \in pending_request'[d] :
              m.type = "invite" /\ m.session_id = inviting[d].session_id

LEMMA QuietUnderWay ==
  ASSUME SameEnds, n_sessions' = n_sessions, AcceptsStay, InvitesStay,
         OneOwner, Accepting, Inviting
  PROVE  (OneOwner /\ Accepting /\ Inviting)'
<1>1. \A d \in Device : Peer(d) \in Device
  BY PeerFacts, Zenon
<1>2. \A d \in Device : \A id : Owns(d, id)' <=> Owns(d, id)
  BY Zenon DEF SameEnds, Owns
<1>3. \A d \in Device : \A id : Owns(d, id) => id \in DOMAIN session[d]
  BY Zenon DEF Owns
<1>4. OneOwner'
  BY <1>1, <1>2 DEF OneOwner, SameEnds
<1>5. Accepting'
  <2> SUFFICES ASSUME NEW d \in Device, NEW id \in DOMAIN session'[Peer(d)], Owns(d, id)
               PROVE  \/ session'[d][id].responded
                      \/ \E m \in proto_msg'[d] \cup pending_request'[Peer(d)] :
                           m.type = "accept" /\ m.session_id = id
    BY <1>2, Zenon DEF Accepting
  <2>1. \/ session[d][id].responded
        \/ \E m \in proto_msg[d] \cup pending_request[Peer(d)] :
             m.type = "accept" /\ m.session_id = id
    BY <1>1, Zenon DEF Accepting, SameEnds
  <2> QED
    BY <1>3, <2>1, Zenon DEF SameEnds, AcceptsStay
<1>6. Inviting'
  <2> SUFFICES ASSUME NEW d \in Device, NEW id, Owns(d, id), id \notin DOMAIN session'[Peer(d)]
               PROVE  \/ /\ inviting'[d] # NoInvite
                         /\ inviting'[d].session_id = id /\ inviting'[d].outcome # "ok"
                      \/ \E m \in proto_msg'[Peer(d)] \cup pending_request'[d] :
                           m.type = "invite" /\ m.session_id = id
    BY <1>2 DEF Inviting
  <2>1. id \in DOMAIN session[d] /\ id \notin DOMAIN session[Peer(d)]
    BY <1>1, <1>3, Zenon DEF SameEnds
  <2>2. \/ /\ inviting[d] # NoInvite
           /\ inviting[d].session_id = id /\ inviting[d].outcome # "ok"
        \/ \E m \in proto_msg[Peer(d)] \cup pending_request[d] :
             m.type = "invite" /\ m.session_id = id
    BY <2>1, Zenon DEF Inviting
  <2> QED
    BY <2>1, <2>2, Zenon DEF InvitesStay
<1> QED
  BY <1>4, <1>5, <1>6, Zenon

LEMMA SameGrows == SameEnds => Grows
  BY Zenon DEF SameEnds, Grows

(* Requests for a bundle come and go, or a message goes that is not needed. *)
LEMMA NothingNewLeft ==
  ASSUME TypedInv, Next, LeftInv, UNCHANGED <<session, inviting, n_sessions, handed>>,
         \A e \in Device : proto_msg'[e] \subseteq proto_msg[e],
         \A e \in Device : pending_request'[e] \subseteq pending_request[e] \cup {[type |-> "bundle"]},
         AcceptsStay, InvitesStay
  PROVE  LeftInv'
<1>1. SameEnds /\ Grows
  BY SameGrows, Zenon DEF SameEnds
<1>2. PICK T \in [1..n_sessions -> 1..MaxClock] : Dated(T) /\ Used(T)
  BY Zenon DEF LeftInv
<1>3. \A e \in Device : \A m \in pending_request'[e] : m.type = "invite" => m \in pending_request[e]
  BY [type |-> "bundle"].type = "bundle", Zenon
<1>4. Dated(T)'
  BY <1>2, <1>3, Zenon DEF Dated, SessionsDated
<1>5. Nobody => (OneOwner /\ Accepting /\ Inviting)'
  BY <1>1, QuietUnderWay, Zenon DEF LeftInv, UnderWay
<1>6. \A e \in Device : \A m \in proto_msg'[e] :
        m.type = "one2one" => m \in proto_msg[e] \/ Has(Peer(e), m.session_id)'
  BY Zenon
<1> QED
  BY <1>1, <1>2, <1>4, <1>5, <1>6, LeftStep, Zenon

LEMMA BundleFailedLeft ==
  ASSUME TypedInv, Next, LeftInv, NEW d \in Device, get_pre_key_bundle_failed(d)
  PROVE  LeftInv'
<1>1. /\ pending_request' = [pending_request EXCEPT ![d] = @ \cup {[type |-> "bundle"]}]
      /\ UNCHANGED <<session, inviting, n_sessions, proto_msg, handed>>
  BY Zenon DEF get_pre_key_bundle_failed
<1>2. \A e \in Device :
        /\ pending_request'[e] \subseteq pending_request[e] \cup {[type |-> "bundle"]}
        /\ pending_request[e] \subseteq pending_request'[e]
  BY <1>1, Zenon DEF TypedInv, Domains
<1>3. AcceptsStay /\ InvitesStay
  BY <1>1, <1>2, PeerFacts, Zenon DEF AcceptsStay, InvitesStay
<1> QED
  BY <1>1, <1>2, <1>3, NothingNewLeft, Zenon

LEMMA InVainLeft ==
  ASSUME TypedInv, Next, LeftInv, NEW d \in Device, NEW msg \in proto_msg[d],
         consume_in_vain(d, msg)
  PROVE  LeftInv'
<1>1. /\ proto_msg' = [proto_msg EXCEPT ![d] = @ \ {msg}]
      /\ UNCHANGED <<session, inviting, n_sessions, pending_request, handed>>
      /\ msg.type = "invite" => msg.session_id \in DOMAIN session[d]
      /\ msg.type = "accept" => ~Owns(d, msg.session_id)
  BY Zenon DEF consume_in_vain, Processed, session_id_unused, is_valid_uncompleted_session, Owns
<1>2. \A e \in Device :
        /\ proto_msg'[e] \subseteq proto_msg[e]
        /\ \A m \in proto_msg[e] : m \in proto_msg'[e] \/ (e = d /\ m = msg)
  BY <1>1, Zenon DEF TypedInv, Domains
<1>3. AcceptsStay /\ InvitesStay
  BY <1>1, <1>2, PeerFacts, Zenon DEF AcceptsStay, InvitesStay
<1> QED
  BY <1>1, <1>2, <1>3, NothingNewLeft, Zenon

LEMMA SendLeft ==
  ASSUME TypedInv, Next, LeftInv, NEW d \in Device, send_one2one_msg(d)
  PROVE  LeftInv'
<1> DEFINE p     == composed[d] + 1
           ready == {id \in DOMAIN session[d] : session[d][id].responded}
           new   == {one2one_msg(d, id, session[d][id], <<p, 0>>) : id \in ready}
<1>1. /\ proto_msg' = Posted(Peer(d), new)
      /\ UNCHANGED <<session, inviting, n_sessions, pending_request, handed>>
  BY Zenon DEF send_one2one_msg
<1>2. \A m \in new : m.type = "one2one" /\ Has(d, m.session_id)'
  BY <1>1 DEF one2one_msg, Has
<1>3. SameEnds /\ Grows
  BY <1>1, SameGrows, Zenon DEF SameEnds
<1>4. \A e \in Device : Peer(e) \in Device /\ Peer(Peer(e)) = e
  BY PeerFacts, Zenon
<1> HIDE DEF new
<1>5. /\ \A e \in Device : \A m \in proto_msg'[e] : m \in proto_msg[e] \/ (e = Peer(d) /\ m \in new)
      /\ \A e \in Device : proto_msg[e] \subseteq proto_msg'[e]
  BY <1>1, Zenon DEF Posted, TypedInv, Domains
<1>6. PICK T \in [1..n_sessions -> 1..MaxClock] : Dated(T) /\ Used(T)
  BY Zenon DEF LeftInv
<1>7. Dated(T)'
  BY <1>1, <1>2, <1>5, <1>6, ZenonT(40) DEF Dated, SessionsDated
<1>8. AcceptsStay /\ InvitesStay
  BY <1>1, <1>4, <1>5, Zenon DEF AcceptsStay, InvitesStay
<1>9. Nobody => (OneOwner /\ Accepting /\ Inviting)'
  BY <1>1, <1>3, <1>8, QuietUnderWay, Zenon DEF LeftInv, UnderWay
<1>10. \A e \in Device : \A m \in proto_msg'[e] :
         m.type = "one2one" => m \in proto_msg[e] \/ Has(Peer(e), m.session_id)'
  BY <1>2, <1>4, <1>5
<1> QED
  BY <1>1, <1>3, <1>6, <1>7, <1>9, <1>10, LeftStep, Zenon

(* A session is written again with the time it has. *)
LEMMA RetimedDated ==
  ASSUME TypedInv, NEW d \in Device, NEW id \in DOMAIN session[d], NEW T, NEW t, t = T[id],
         SessionsDated(T),
         session' = [session EXCEPT ![d][id] = [session[d][id] EXCEPT !.invite_t = t]]
  PROVE  SessionsDated(T)'
<1> DEFINE s == [session[d][id] EXCEPT !.invite_t = t]
<1>1. session[d][id] \in SessionRec(encapsulations, handed[d])
  BY Zenon DEF TypedInv, SessionsTyped
<1>2. s.invite_t = T[id]
  BY <1>1, Zenon DEF SessionRec
<1> HIDE DEF s
<1>3. Wrote(d, id, s)
  BY UpdateWrites, Zenon DEF s
<1> QED
  BY <1>2, <1>3 DEF Wrote, SessionsDated

LEMMA InviteResponseLeft ==
  ASSUME TimesKept, TypedInv, Next, LeftInv, NEW d \in Device, consume_invite_response(d)
  PROVE  LeftInv'
<1> DEFINE i    == inviting[d]
           held == i.session_id \in DOMAIN session[d]
           o    == IF i.outcome = "ok" /\ ~held THEN "lost" ELSE i.outcome
<1>1. /\ i # NoInvite
      /\ session' = IF i.outcome = "ok" /\ held
                    THEN [session EXCEPT ![d][i.session_id] = answered_session(d, i)]
                    ELSE session
      /\ pending_request' = [pending_request EXCEPT ![d] = kept_on_failure(@, i.msg, o)]
      /\ inviting' = [inviting EXCEPT ![d] = NoInvite]
      /\ UNCHANGED <<n_sessions, proto_msg, handed>>
  BY Zenon DEF consume_invite_response
<1>2. /\ i.msg \in InviteMsg(d, n_sessions) /\ i.msg.session_id = i.session_id
      /\ i.outcome \in Outcome
  BY <1>1, Zenon DEF TypedInv, InvitingTyped
<1>3. i.msg.type = "invite" /\ (i.outcome # "ok" => o \notin {"ok", "not_found"})
  BY <1>2, Zenon DEF InviteMsg, TimesKept
<1>4. PICK T \in [1..n_sessions -> 1..MaxClock] : Dated(T) /\ Used(T)
  BY Zenon DEF LeftInv
<1>5. i.msg.invite_t = T[i.session_id]
  BY <1>1, <1>4, Zenon DEF Dated
<1>6. SameEnds /\ SessionsDated(T)'
  <2>1. SessionsDated(T)
    BY <1>4, Zenon DEF Dated
  <2>2. CASE i.outcome = "ok" /\ held
    <3>1. session' = [session EXCEPT ![d][i.session_id] =
                        [session[d][i.session_id] EXCEPT !.invite_t = i.msg.invite_t]]
      BY <1>1, <2>2, Zenon DEF answered_session
    <3> HIDE DEF i
    <3> QED
      BY <1>5, <2>1, <2>2, <3>1, RetimedSame, RetimedDated, Zenon
  <2>3. CASE ~(i.outcome = "ok" /\ held)
    BY <1>1, <2>1, <2>3, Zenon DEF SameEnds, SessionsDated
  <2> QED
    BY <2>2, <2>3, Zenon
<1> HIDE DEF o
<1>7. /\ \A e \in Device : e # d => pending_request'[e] = pending_request[e]
      /\ pending_request'[d] = kept_on_failure(pending_request[d], i.msg, o)
      /\ inviting'[d] = NoInvite /\ \A e \in Device : e # d => inviting'[e] = inviting[e]
  BY <1>1, Zenon DEF TypedInv, Domains
<1>8. /\ \A e \in Device : pending_request[e] \subseteq pending_request'[e]
      /\ \A e \in Device : \A m \in pending_request'[e] :
           m \in pending_request[e] \/ (e = d /\ m = i.msg)
      /\ i.outcome # "ok" => i.msg \in pending_request'[d]
  BY <1>3, <1>7, Zenon DEF kept_on_failure
<1>9. Dated(T)'
  BY <1>1, <1>2, <1>4, <1>5, <1>6, <1>7, <1>8 DEF Dated
<1>10. AcceptsStay /\ InvitesStay
  BY <1>1, <1>2, <1>3, <1>7, <1>8, PeerFacts, Zenon DEF AcceptsStay, InvitesStay
<1>11. Nobody => (OneOwner /\ Accepting /\ Inviting)'
  BY <1>1, <1>6, <1>10, QuietUnderWay, Zenon DEF LeftInv, UnderWay
<1>12. Grows
  BY <1>6, SameGrows, Zenon
<1> QED
  BY <1>1, <1>4, <1>9, <1>11, <1>12, LeftStep, Zenon

LEMMA ResendInviteLeft ==
  ASSUME TimesKept, TypedInv, Next, LeftInv, NEW d \in Device, NEW msg \in pending_request[d],
         NEW outcome \in Outcome, resend_invite(d, msg, outcome)
  PROVE  LeftInv'
<1> DEFINE id   == msg.session_id
           held == id \in DOMAIN session[d]
           o    == IF outcome = "ok" /\ ~held THEN "lost" ELSE outcome
<1>1. /\ msg.type = "invite"
      /\ session' = IF outcome = "ok" /\ held
                    THEN [session EXCEPT ![d][id] = [session[d][id] EXCEPT !.invite_t = msg.invite_t]]
                    ELSE session
      /\ pending_request' = [pending_request EXCEPT ![d] = kept_on_failure(@ \ {msg}, msg, o)]
      /\ proto_msg' = IF Reaches(outcome) THEN Posted(Peer(d), {msg}) ELSE proto_msg
      /\ UNCHANGED <<inviting, n_sessions, handed>>
  BY Zenon DEF resend_invite
<1>2. PICK T \in [1..n_sessions -> 1..MaxClock] : Dated(T) /\ Used(T)
  BY Zenon DEF LeftInv
<1>3. msg.invite_t = T[id]
  BY <1>1, <1>2, Zenon DEF Dated
<1>4. SameEnds /\ SessionsDated(T)'
  <2>1. SessionsDated(T)
    BY <1>2, Zenon DEF Dated
  <2>2. CASE outcome = "ok" /\ held
    <3>1. session' = [session EXCEPT ![d][id] = [session[d][id] EXCEPT !.invite_t = msg.invite_t]]
      BY <1>1, <2>2, Zenon
    <3> HIDE DEF id
    <3> QED
      BY <1>3, <2>1, <2>2, <3>1, RetimedSame, RetimedDated, Zenon
  <2>3. CASE ~(outcome = "ok" /\ held)
    BY <1>1, <2>1, <2>3, Zenon DEF SameEnds, SessionsDated
  <2> QED
    BY <2>2, <2>3, Zenon
<1>5. \A e \in Device : Peer(e) \in Device /\ (Peer(e) = Peer(d) => e = d)
  BY PeerFacts
<1>6. o \in {"ok", "not_found"} => Reaches(outcome)
  BY Zenon DEF Reaches, TimesKept
<1> HIDE DEF o
<1>7. /\ \A e \in Device : e # d => pending_request'[e] = pending_request[e]
      /\ pending_request'[d] = kept_on_failure(pending_request[d] \ {msg}, msg, o)
      /\ \A e \in Device : proto_msg[e] \subseteq proto_msg'[e]
      /\ \A e \in Device : \A m \in proto_msg'[e] : m \in proto_msg[e] \/ (e = Peer(d) /\ m = msg)
      /\ Reaches(outcome) => msg \in proto_msg'[Peer(d)]
  BY <1>1, <1>5, Zenon DEF Posted, TypedInv, Domains
<1>8. /\ \A e \in Device : pending_request'[e] \subseteq pending_request[e]
      /\ \A e \in Device : \A m \in pending_request[e] :
           m \in pending_request'[e] \/ (e = d /\ m = msg)
      /\ msg \in pending_request'[d] \/ msg \in proto_msg'[Peer(d)]
  BY <1>6, <1>7, Zenon DEF kept_on_failure
<1>9. Dated(T)'
  <2>1. \A e \in Device :
          inviting'[e] # NoInvite => inviting'[e].msg.invite_t = T[inviting'[e].session_id]
    BY <1>1, <1>2, Zenon DEF Dated
  <2>2. \A e \in Device : \A m \in proto_msg'[e] : m.type = "invite" => m.invite_t = T[m.session_id]
    BY <1>2, <1>3, <1>7 DEF Dated
  <2>3. \A e \in Device : \A m \in pending_request'[e] :
          m.type = "invite" => m.invite_t = T[m.session_id]
    BY <1>2, <1>8, Zenon DEF Dated
  <2> QED
    BY <1>4, <2>1, <2>2, <2>3, Zenon DEF Dated
<1>10. AcceptsStay
  BY <1>1, <1>5, <1>7, <1>8, Zenon DEF AcceptsStay
<1>11. InvitesStay
  BY <1>1, <1>5, <1>7, <1>8, ZenonT(40) DEF InvitesStay
<1>12. Nobody => (OneOwner /\ Accepting /\ Inviting)'
  BY <1>1, <1>4, <1>10, <1>11, QuietUnderWay, Zenon DEF LeftInv, UnderWay
<1>13. \A e \in Device : \A m \in proto_msg'[e] :
         m.type = "one2one" => m \in proto_msg[e] \/ Has(Peer(e), m.session_id)'
  BY <1>1, <1>7, Zenon
<1>14. Grows
  BY <1>4, SameGrows, Zenon
<1> QED
  BY <1>1, <1>2, <1>9, <1>12, <1>13, <1>14, LeftStep, Zenon

LEMMA ResendAcceptLeft ==
  ASSUME TimesKept, TypedInv, Next, LeftInv, NEW d \in Device, NEW msg \in pending_request[d],
         NEW outcome \in Outcome, resend_accept(d, msg, outcome)
  PROVE  LeftInv'
<1>1. /\ msg.type = "accept"
      /\ proto_msg' = IF Reaches(outcome) THEN Posted(Peer(d), {msg}) ELSE proto_msg
      /\ pending_request' = [pending_request EXCEPT ![d] = kept_on_failure(@ \ {msg}, msg, outcome)]
      /\ UNCHANGED <<session, inviting, n_sessions, handed>>
  BY Zenon DEF resend_accept
<1>2. PICK T \in [1..n_sessions -> 1..MaxClock] : Dated(T) /\ Used(T)
  BY Zenon DEF LeftInv
<1>3. SameEnds /\ Grows
  BY <1>1, SameGrows, Zenon DEF SameEnds
<1>4. \A e \in Device : Peer(e) \in Device /\ (Peer(e) = d => e = Peer(d))
  BY PeerFacts, Zenon
<1>5. outcome \in {"ok", "not_found"} => Reaches(outcome)
  BY Zenon DEF Reaches, TimesKept
<1>6. /\ \A e \in Device : e # d => pending_request'[e] = pending_request[e]
      /\ pending_request'[d] = kept_on_failure(pending_request[d] \ {msg}, msg, outcome)
      /\ \A e \in Device : proto_msg[e] \subseteq proto_msg'[e]
      /\ \A e \in Device : \A m \in proto_msg'[e] : m \in proto_msg[e] \/ (e = Peer(d) /\ m = msg)
      /\ Reaches(outcome) => msg \in proto_msg'[Peer(d)]
  BY <1>1, <1>4, Zenon DEF Posted, TypedInv, Domains
<1>7. /\ \A e \in Device : pending_request'[e] \subseteq pending_request[e]
      /\ \A e \in Device : \A m \in pending_request[e] :
           m \in pending_request'[e] \/ (e = d /\ m = msg)
      /\ msg \in pending_request'[d] \/ msg \in proto_msg'[Peer(d)]
  BY <1>5, <1>6, Zenon DEF kept_on_failure
<1>8. Dated(T)'
  <2>1. \A e \in Device :
          inviting'[e] # NoInvite => inviting'[e].msg.invite_t = T[inviting'[e].session_id]
    BY <1>1, <1>2, Zenon DEF Dated
  <2>2. \A e \in Device : \A m \in proto_msg'[e] : m.type = "invite" => m.invite_t = T[m.session_id]
    BY <1>1, <1>2, <1>6, ZenonT(40) DEF Dated
  <2>3. \A e \in Device : \A m \in pending_request'[e] :
          m.type = "invite" => m.invite_t = T[m.session_id]
    BY <1>2, <1>7, Zenon DEF Dated
  <2>4. SessionsDated(T)'
    BY <1>1, <1>2, Zenon DEF Dated, SessionsDated
  <2> QED
    BY <2>1, <2>2, <2>3, <2>4, Zenon DEF Dated
<1>9. AcceptsStay
  BY <1>4, <1>6, <1>7, Zenon DEF AcceptsStay
<1>10. InvitesStay
  BY <1>1, <1>4, <1>6, <1>7, Zenon DEF InvitesStay
<1>11. Nobody => (OneOwner /\ Accepting /\ Inviting)'
  BY <1>1, <1>3, <1>9, <1>10, QuietUnderWay, Zenon DEF LeftInv, UnderWay
<1>12. \A e \in Device : \A m \in proto_msg'[e] :
         m.type = "one2one" => m \in proto_msg[e] \/ Has(Peer(e), m.session_id)'
  BY <1>1, <1>6, Zenon
<1> QED
  BY <1>1, <1>2, <1>3, <1>8, <1>11, <1>12, LeftStep, Zenon

(* A new session of d's own: its invitation is to come. *)
LEMMA OutboundLeft ==
  ASSUME TypedInv, LeftInv, NEW d \in Device, NEW now \in clock..MaxClock, NEW outcome \in Outcome,
         inviting[d] = NoInvite, new_outbound_session(d, now, outcome), handed' = handed,
         \A e \in Device : pending_request'[e] \subseteq pending_request[e],
         \A e \in Device : \A m \in pending_request[e] :
           m \in pending_request'[e] \/ m.type = "bundle"
  PROVE  LeftInv'
<1> DEFINE n   == n_sessions
           id  == n + 1
           msg == invite_msg(d, id, now)
           s   == outbound_session(d, now)
<1>1. /\ n_sessions' = id
      /\ session' = [session EXCEPT ![d] = With(@, id, s)]
      /\ proto_msg' = IF Reaches(outcome) THEN Posted(Peer(d), {msg}) ELSE proto_msg
      /\ \A e \in Device : e # d => inviting'[e] = inviting[e]
      /\ inviting'[d].session_id = id /\ inviting'[d].msg = msg /\ inviting'[d].outcome = outcome
  BY Zenon DEF new_outbound_session, TypedInv, Domains
<1>2. n \in Nat /\ id \in Nat /\ id # 0 /\ id \notin 1..n /\ 1..id = 1..n \cup {id}
      /\ now \in 1..MaxClock
  BY SessionAssumption DEF TypedInv, Counters
<1>3. /\ s.inviter = d /\ s.encaps = 0 /\ s.invite_t = now
      /\ msg.type = "invite" /\ msg.session_id = id /\ msg.invite_t = now
  BY Zenon DEF outbound_session, invite_msg
<1>4. \A e \in Device : Peer(e) \in Device /\ (Peer(e) = Peer(d) => e = d) /\ Peer(e) # e
  BY PeerFacts
<1>5. inviting'[d] # NoInvite
  <2>1. NoInvite.session_id = 0
    BY Zenon DEF NoInvite
  <2> HIDE DEF id
  <2> QED
    BY <1>1, <1>2, <2>1, Zenon
<1> HIDE DEF n, id, msg, s
<1>6. /\ \A e \in Device : DOMAIN session[e] \subseteq 1..n
      /\ \A e \in Device : \A m \in proto_msg[e] : m.session_id \in 1..n
      /\ \A e \in Device : \A m \in pending_request[e] :
           m.type = "invite" => m.session_id \in 1..n
      /\ \A e \in Device : \A m \in handed[e] : m.session_id \in 1..n
      /\ \A e \in Device : inviting[e] # NoInvite => inviting[e].session_id \in 1..n
  <2>1. \A e \in Device : \A m \in pending_request[e] :
          m.type = "invite" => m.session_id \in 1..n
    BY [type |-> "bundle"].type = "bundle", Zenon
       DEF n, TypedInv, RequestsTyped, Request, InviteMsg, AcceptMsg
  <2>2. \A e \in Device : \A m \in handed[e] : m.session_id \in 1..n
    BY Zenon DEF n, TypedInv, HandedTyped, One2oneMsg
  <2>3. \A e \in Device : inviting[e] # NoInvite => inviting[e].session_id \in 1..n
    BY Zenon DEF n, TypedInv, InvitingTyped
  <2> QED
    BY <2>1, <2>2, <2>3, MsgOfType, Zenon DEF n, TypedInv, SessionsTyped
<1>7. Wrote(d, id, s)
  BY <1>1, NewWrites, Zenon
<1>8. \A e \in Device : \A i : Owns(e, i)' <=> Owns(e, i) \/ (e = d /\ i = id)
  <2>1. id \notin DOMAIN session[d]
    BY <1>2, <1>6, Zenon
  <2> QED
    BY <1>3, <1>7, <2>1, OwnsWritten
<1>9. \A e \in Device :
        /\ \A i \in DOMAIN session'[e] : i \in DOMAIN session[e] \/ (e = d /\ i = id)
        /\ \A i \in DOMAIN session[e] :
             i # id /\ i \in DOMAIN session'[e] /\ session'[e][i] = session[e][i]
  BY <1>2, <1>6, <1>7, Zenon DEF Wrote
<1>10. session'[d][id] = s /\ id \in DOMAIN session'[d]
  BY <1>7, Zenon DEF Wrote
<1>11. /\ \A e \in Device : \A m \in proto_msg'[e] : m \in proto_msg[e] \/ (e = Peer(d) /\ m = msg)
       /\ \A e \in Device : proto_msg[e] \subseteq proto_msg'[e]
       /\ outcome = "ok" => msg \in proto_msg'[Peer(d)]
  BY <1>1, <1>4, Zenon DEF Posted, Reaches, TypedInv, Domains
<1>12. \A e \in Device : \A i : Owns(e, i) => i \in DOMAIN session[e]
  BY Zenon DEF Owns
<1>13. PICK T \in [1..n -> 1..MaxClock] : Dated(T) /\ Used(T)
  BY Zenon DEF LeftInv, n
<1>14. PICK R \in [1..id -> 1..MaxClock] : R[id] = now /\ \A i \in 1..n : R[i] = T[i]
  <2> DEFINE Q == [i \in 1..id |-> IF i = id THEN now ELSE T[i]]
  <2>1. Q \in [1..id -> 1..MaxClock]
    BY <1>2, <1>13, Zenon
  <2>2. Q[id] = now /\ \A i \in 1..n : Q[i] = T[i]
    BY <1>2, Zenon
  <2> QED
    BY <2>1, <2>2, Zenon
<1>15. Dated(R)'
  <2>1. SessionsDated(R)'
    BY <1>3, <1>6, <1>9, <1>10, <1>13, <1>14, SMTT(20) DEF Dated, SessionsDated
  <2>2. \A e \in Device :
          inviting'[e] # NoInvite => inviting'[e].msg.invite_t = R[inviting'[e].session_id]
    BY <1>1, <1>3, <1>6, <1>13, <1>14, SMTT(20) DEF Dated
  <2>3. \A e \in Device : \A m \in proto_msg'[e] : m.type = "invite" => m.invite_t = R[m.session_id]
    BY <1>3, <1>6, <1>11, <1>13, <1>14 DEF Dated
  <2>4. \A e \in Device : \A m \in pending_request'[e] :
          m.type = "invite" => m.invite_t = R[m.session_id]
    BY <1>6, <1>13, <1>14, Zenon DEF Dated
  <2> QED
    BY <2>1, <2>2, <2>3, <2>4, Zenon DEF Dated
<1>16. Used(R)
  <2>1. \A e \in Device : \A i \in 1..n : HasOrNewer(T, e, i) => HasOrNewer(R, e, i)
    BY <1>6, <1>14, Zenon DEF HasOrNewer
  <2>2. Newest(R)
    BY <1>6, <1>13, <1>14, Zenon DEF Used, Newest
  <2> QED
    BY <1>4, <1>6, <1>13, <2>1, <2>2, Zenon DEF Used
<1>17. Keeps(R)
  <2>1. Grows /\ StaysCompleted
    BY <1>9, Zenon DEF Grows, StaysCompleted
  <2> QED
    BY <2>1, GrowingKeeps, Zenon
<1>18. Used(R)'
  <2>1. \A e \in Device : \A m \in proto_msg'[e] : m.type = "one2one" => m \in proto_msg[e]
    BY <1>3, <1>11, Zenon
  <2>2. Newest(R)'
    BY <1>16, Zenon DEF Used, Newest, Nobody
  <2> QED
    BY <1>16, <1>17, <2>1, <2>2, StillUsed, Zenon
<1>19. ASSUME OneOwner, Accepting, Inviting PROVE (OneOwner /\ Accepting /\ Inviting)'
  <2>1. OneOwner'
    <3>1. \A i \in 1..id : \E e \in Device : Owns(e, i)'
      <4>1. \A i \in 1..n : \E e \in Device : Owns(e, i)
        BY <1>19, Zenon DEF OneOwner, n
      <4> QED
        BY <1>2, <1>8, <4>1, Zenon
    <3>2. ASSUME NEW e \in Device, NEW i \in DOMAIN session'[e]
          PROVE  /\ session'[e][i].inviter # e => session'[e][i].responded
                 /\ Owns(e, i)' => ~Owns(Peer(e), i)'
      <4>1. CASE i \in DOMAIN session[e]
        BY <1>4, <1>8, <1>9, <1>19, <4>1, ZenonT(40) DEF OneOwner
      <4>2. CASE e = d /\ i = id
        BY <1>3, <1>4, <1>8, <1>9, <1>10, <1>12, <4>2
      <4> QED
        BY <1>9, <3>2, <4>1, <4>2, Zenon
    <3> QED
      BY <1>1, <3>1, <3>2, Zenon DEF OneOwner
  <2>2. Accepting'
    <3> SUFFICES ASSUME NEW e \in Device, NEW i \in DOMAIN session'[Peer(e)], Owns(e, i)'
                 PROVE  \/ session'[e][i].responded
                        \/ \E m \in proto_msg'[e] \cup pending_request'[Peer(e)] :
                             m.type = "accept" /\ m.session_id = i
      BY Zenon DEF Accepting
    <3>1. i \in DOMAIN session[Peer(e)] /\ Owns(e, i)
      <4>1. ~(Peer(e) = d /\ i = id)
        BY <1>4, <1>8, <1>9, <1>12, Zenon
      <4> QED
        BY <1>4, <1>8, <1>9, <4>1, Zenon
    <3>2. \/ session[e][i].responded
          \/ \E m \in proto_msg[e] \cup pending_request[Peer(e)] :
               m.type = "accept" /\ m.session_id = i
      BY <1>19, <3>1, Zenon DEF Accepting
    <3> QED
      BY <1>4, <1>9, <1>11, <1>12, <3>1, <3>2, Zenon
  <2>3. Inviting'
    <3> SUFFICES ASSUME NEW e \in Device, NEW i, Owns(e, i)', i \notin DOMAIN session'[Peer(e)]
                 PROVE  \/ /\ inviting'[e] # NoInvite
                           /\ inviting'[e].session_id = i /\ inviting'[e].outcome # "ok"
                        \/ \E m \in proto_msg'[Peer(e)] \cup pending_request'[e] :
                             m.type = "invite" /\ m.session_id = i
      BY DEF Inviting
    <3>1. CASE e = d /\ i = id
      BY <1>1, <1>3, <1>5, <1>11, <3>1, Zenon
    <3>2. CASE Owns(e, i)
      <4>1. i \in DOMAIN session[e] /\ i \notin DOMAIN session[Peer(e)]
        BY <1>4, <1>9, <1>12, <3>2, Zenon
      <4>2. \/ /\ inviting[e] # NoInvite
               /\ inviting[e].session_id = i /\ inviting[e].outcome # "ok"
            \/ \E m \in proto_msg[Peer(e)] \cup pending_request[e] :
                 m.type = "invite" /\ m.session_id = i
        BY <1>19, <3>2, <4>1 DEF Inviting
      <4> QED
        BY <1>1, <1>4, <1>11, <4>2, Zenon
    <3> QED
      BY <1>8, <3>1, <3>2, Zenon
  <2> QED
    BY <2>1, <2>2, <2>3, Zenon
<1>20. UnderWay'
  BY <1>19, Zenon DEF LeftInv, UnderWay, Nobody
<1> QED
  BY <1>1, <1>14, <1>15, <1>18, <1>20, Zenon DEF LeftInv

LEMMA InviteLeft ==
  ASSUME TypedInv, LeftInv, NEW d \in Device, NEW now \in clock..MaxClock,
         NEW outcome \in Outcome, invite(d, now, outcome)
  PROVE  LeftInv'
<1>1. /\ new_outbound_session(d, now, outcome)
      /\ handed' = handed /\ inviting[d] = NoInvite /\ pending_request' = pending_request
  BY Zenon DEF invite
<1> QED
  BY <1>1, OutboundLeft, Zenon

LEMMA ResendBundleLeft ==
  ASSUME TimesKept, TypedInv, LeftInv, NEW d \in Device, NEW now \in clock..MaxClock,
         NEW outcome \in Outcome, resend_get_pre_key_bundle(d, now, outcome)
  PROVE  LeftInv'
<1>1. /\ new_outbound_session(d, now, outcome)
      /\ handed' = handed /\ inviting[d] = NoInvite
      /\ pending_request' = [pending_request EXCEPT ![d] = @ \ {[type |-> "bundle"]}]
  BY Zenon DEF resend_get_pre_key_bundle, TimesKept
<1>2. \A e \in Device :
        /\ pending_request'[e] \subseteq pending_request[e]
        /\ \A m \in pending_request[e] : m \in pending_request'[e] \/ m.type = "bundle"
  BY <1>1, [type |-> "bundle"].type = "bundle", Zenon DEF TypedInv, Domains
<1> QED
  BY <1>1, <1>2, OutboundLeft, Zenon

(* The invitation came: now the accept is to come. *)
LEMMA InviteMsgLeft ==
  ASSUME TimesKept, TypedInv, Next, LeftInv, NEW d \in Device, NEW msg \in proto_msg[d],
         NEW outcome \in Outcome, NEW again \in BOOLEAN,
         consume_invite_msg(d, msg, outcome, again)
  PROVE  LeftInv'
<1> DEFINE id     == msg.session_id
           accept == accept_msg(d, id)
           queue  == Processed(d, msg, again)
           s      == inbound_session(msg)
<1>1. /\ msg.type = "invite" /\ id \notin DOMAIN session[d]
      /\ session' = [session EXCEPT ![d] = With(@, id, s)]
      /\ proto_msg' = [queue EXCEPT ![msg.from] =
                         IF Reaches(outcome) THEN @ \cup {accept} ELSE @]
      /\ pending_request' = [pending_request EXCEPT ![d] = kept_on_failure(@, accept, outcome)]
      /\ inviting' = inviting /\ handed' = handed /\ n_sessions' = n_sessions
  BY Zenon DEF consume_invite_msg, Delivered, session_id_unused
<1>2. /\ msg.from = Peer(d) /\ accept.type = "accept" /\ accept.session_id = id
      /\ s.inviter = Peer(d) /\ s.responded /\ s.invite_t = msg.invite_t
  BY MsgOfType, Zenon DEF accept_msg, inbound_session
<1>3. \A e \in Device : Peer(e) \in Device /\ Peer(e) # e /\ Peer(Peer(e)) = e
                        /\ (Peer(e) = Peer(d) => e = d) /\ (Peer(e) = d => e = Peer(d))
  BY PeerFacts
<1>4. /\ \A e \in Device : \A m \in proto_msg'[e] :
           m \in proto_msg[e] \/ (e = Peer(d) /\ m = accept)
      /\ \A e \in Device : \A m \in proto_msg[e] : m \in proto_msg'[e] \/ (e = d /\ m = msg)
      /\ \A e \in Device : \A m \in pending_request'[e] :
           m \in pending_request[e] \/ (e = d /\ m = accept)
      /\ \A e \in Device : pending_request[e] \subseteq pending_request'[e]
      /\ accept \in proto_msg'[Peer(d)] \cup pending_request'[d]
  <2>1. /\ DOMAIN queue = Device /\ \A e \in Device : queue[e] \subseteq proto_msg[e]
        /\ \A e \in Device : \A m \in proto_msg[e] : m \in queue[e] \/ (e = d /\ m = msg)
    BY Zenon DEF Processed, TypedInv, Domains
  <2>2. outcome # "not_found" /\ (outcome = "ok" => Reaches(outcome))
    BY Zenon DEF Reaches, TimesKept
  <2> HIDE DEF queue, accept
  <2>3. /\ \A e \in Device : \A m \in proto_msg'[e] : m \in proto_msg[e] \/ (e = Peer(d) /\ m = accept)
        /\ \A e \in Device : \A m \in proto_msg[e] : m \in proto_msg'[e] \/ (e = d /\ m = msg)
        /\ outcome = "ok" => accept \in proto_msg'[Peer(d)]
    BY <1>1, <1>2, <1>3, <2>1, <2>2, ZenonT(40)
  <2>4. /\ \A e \in Device : \A m \in pending_request'[e] :
             m \in pending_request[e] \/ (e = d /\ m = accept)
        /\ \A e \in Device : pending_request[e] \subseteq pending_request'[e]
        /\ outcome # "ok" => accept \in pending_request'[d]
    BY <1>1, <2>2, Zenon DEF kept_on_failure, TypedInv, Domains
  <2> QED
    BY <2>3, <2>4, Zenon
<1> HIDE DEF id, accept, s
<1>5. Wrote(d, id, s)
  BY <1>1, NewWrites, Zenon
<1>6. \A e \in Device : \A i : Owns(e, i)' <=> Owns(e, i)
  BY <1>1, <1>2, <1>3, <1>5, OwnsWritten
<1>7. \A e \in Device :
        /\ \A i \in DOMAIN session'[e] : i \in DOMAIN session[e] \/ (e = d /\ i = id)
        /\ \A i \in DOMAIN session[e] : i \in DOMAIN session'[e] /\ session'[e][i] = session[e][i]
  BY <1>1, <1>5, Zenon DEF Wrote
<1>8. session'[d][id] = s /\ id \in DOMAIN session'[d]
  BY <1>5, Zenon DEF Wrote
<1>9. \A e \in Device : \A i : Owns(e, i) => i \in DOMAIN session[e]
  BY Zenon DEF Owns
<1>10. PICK T \in [1..n_sessions -> 1..MaxClock] : Dated(T) /\ Used(T)
  BY Zenon DEF LeftInv
<1>11. Dated(T)'
  <2>1. s.invite_t = T[id]
    BY <1>1, <1>2, <1>10, Zenon DEF Dated, id
  <2>2. SessionsDated(T)'
    BY <1>7, <1>8, <1>10, <2>1 DEF Dated, SessionsDated
  <2>3. \A e \in Device :
          /\ \A m \in proto_msg'[e] : m.type = "invite" => m \in proto_msg[e]
          /\ \A m \in pending_request'[e] : m.type = "invite" => m \in pending_request[e]
    BY <1>2, <1>4, Zenon
  <2> QED
    BY <1>1, <1>10, <2>2, <2>3, Zenon DEF Dated
<1>12. ASSUME OneOwner, Accepting, Inviting PROVE (OneOwner /\ Accepting /\ Inviting)'
  <2>1. OneOwner'
    <3>1. ASSUME NEW e \in Device, NEW i \in DOMAIN session'[e]
          PROVE  /\ session'[e][i].inviter # e => session'[e][i].responded
                 /\ Owns(e, i) => ~Owns(Peer(e), i)
      <4>1. CASE i \in DOMAIN session[e]
        <5>1. session'[e][i] = session[e][i]
          BY <1>7, <4>1, Zenon
        <5> QED
          BY <1>12, <4>1, <5>1, Zenon DEF OneOwner
      <4>2. CASE e = d /\ i = id
        BY <1>1, <1>2, <1>8, <1>9, <4>2, Zenon
      <4> QED
        BY <1>7, <3>1, <4>1, <4>2, Zenon
    <3> QED
      BY <1>1, <1>3, <1>6, <1>12, <3>1, Zenon DEF OneOwner
  <2>2. Accepting'
    <3> SUFFICES ASSUME NEW e \in Device, NEW i \in DOMAIN session'[Peer(e)], Owns(e, i)
                 PROVE  \/ session'[e][i].responded
                        \/ \E m \in proto_msg'[e] \cup pending_request'[Peer(e)] :
                             m.type = "accept" /\ m.session_id = i
      BY <1>6, Zenon DEF Accepting
    <3>1. CASE i \in DOMAIN session[Peer(e)]
      <4>1. \/ session[e][i].responded
            \/ \E m \in proto_msg[e] \cup pending_request[Peer(e)] :
                 m.type = "accept" /\ m.session_id = i
        BY <1>12, <3>1, Zenon DEF Accepting
      <4> QED
        BY <1>1, <1>3, <1>4, <1>7, <1>9, <4>1, Zenon
    <3>2. CASE e = Peer(d) /\ i = id
      BY <1>2, <1>3, <1>4, <3>2, Zenon
    <3> QED
      BY <1>3, <1>7, <3>1, <3>2, Zenon
  <2>3. Inviting'
    <3> SUFFICES ASSUME NEW e \in Device, NEW i, Owns(e, i), i \notin DOMAIN session'[Peer(e)]
                 PROVE  \/ /\ inviting[e] # NoInvite
                           /\ inviting[e].session_id = i /\ inviting[e].outcome # "ok"
                        \/ \E m \in proto_msg'[Peer(e)] \cup pending_request'[e] :
                             m.type = "invite" /\ m.session_id = i
      BY <1>1, <1>6 DEF Inviting
    <3>1. i \in DOMAIN session[e] /\ i \notin DOMAIN session[Peer(e)]
      BY <1>3, <1>7, <1>9, Zenon
    <3>2. \/ /\ inviting[e] # NoInvite
             /\ inviting[e].session_id = i /\ inviting[e].outcome # "ok"
          \/ \E m \in proto_msg[Peer(e)] \cup pending_request[e] :
               m.type = "invite" /\ m.session_id = i
      BY <1>12, <3>1, Zenon DEF Inviting
    <3>3. Peer(e) = d => i # id
      BY <1>8, Zenon
    <3> QED
      BY <1>3, <1>4, <3>2, <3>3, Zenon DEF id
  <2> QED
    BY <2>1, <2>2, <2>3, Zenon
<1>13. Nobody => (OneOwner /\ Accepting /\ Inviting)'
  BY <1>12, Zenon DEF LeftInv, UnderWay
<1>14. Grows
  BY <1>7, Zenon DEF Grows
<1>15. \A e \in Device : \A m \in proto_msg'[e] :
         m.type = "one2one" => m \in proto_msg[e] \/ Has(Peer(e), m.session_id)'
  BY <1>2, <1>4, Zenon
<1> QED
  BY <1>1, <1>10, <1>11, <1>13, <1>14, <1>15, LeftStep, Zenon

(* The accept came: the session is completed, and what was kept is sent. *)
LEMMA AcceptMsgLeft ==
  ASSUME TypedInv, Next, LeftInv, NEW d \in Device, NEW msg \in proto_msg[d],
         NEW again \in BOOLEAN, consume_accept_msg(d, msg, again)
  PROVE  LeftInv'
<1> DEFINE id    == msg.session_id
           s     == complete_outbound_session(session[d][id])
           kept  == load_pending_plaintext_data(d, msg.from)
           queue == Processed(d, msg, again)
           new   == {one2one_msg(d, id, s, p.plaintext) : p \in kept}
<1>1. /\ msg.type = "accept" /\ Owns(d, id)
      /\ session' = [session EXCEPT ![d][id] = s]
      /\ proto_msg' = [queue EXCEPT ![msg.from] = @ \cup new]
      /\ UNCHANGED <<inviting, n_sessions, pending_request, handed>>
  BY Zenon DEF consume_accept_msg, Delivered, is_valid_uncompleted_session, Owns
<1>2. msg.from = Peer(d) /\ id \in DOMAIN session[d]
  BY <1>1, MsgOfType, Zenon DEF Owns
<1>3. \A e \in Device : Peer(e) \in Device /\ Peer(e) # e /\ Peer(Peer(e)) = e
  BY PeerFacts, Zenon
<1>4. s.inviter = session[d][id].inviter /\ s.responded /\ s.invite_t = session[d][id].invite_t
  <2>1. session[d][id] \in SessionRec(encapsulations, handed[d])
    BY <1>2, Zenon DEF TypedInv, SessionsTyped
  <2> QED
    BY <2>1, Zenon DEF complete_outbound_session, SessionRec
<1>5. \A m \in new : m.type = "one2one" /\ m.session_id = id
  BY DEF one2one_msg
<1>6. /\ DOMAIN queue = Device /\ \A e \in Device : queue[e] \subseteq proto_msg[e]
      /\ \A e \in Device : \A m \in proto_msg[e] : m \in queue[e] \/ (e = d /\ m = msg)
  BY Zenon DEF Processed, TypedInv, Domains
<1> HIDE DEF id, s, kept, new, queue
<1>7. /\ \A e \in Device : \A m \in proto_msg'[e] :
           m \in proto_msg[e] \/ (e = Peer(d) /\ m \in new)
      /\ \A e \in Device : \A m \in proto_msg[e] : m \in proto_msg'[e] \/ (e = d /\ m = msg)
  BY <1>1, <1>2, <1>3, <1>6, Zenon
<1>8. Wrote(d, id, s)
  BY <1>1, <1>2, UpdateWrites, Zenon
<1>9. \A e \in Device : \A i : Owns(e, i)' <=> Owns(e, i)
  BY <1>1, <1>2, <1>4, <1>8, OwnsWritten
<1>10. /\ session'[d][id] = s
       /\ \A e \in Device :
            /\ DOMAIN session'[e] = DOMAIN session[e]
            /\ \A i \in DOMAIN session[e] : e # d \/ i # id => session'[e][i] = session[e][i]
  BY <1>2, <1>8, Zenon DEF Wrote
<1>11. \A e \in Device : \A i : Owns(e, i) => i \in DOMAIN session[e]
  BY Zenon DEF Owns
<1>12. \A e \in Device : \A i \in DOMAIN session[e] :
         /\ session'[e][i].inviter = session[e][i].inviter
         /\ session'[e][i].invite_t = session[e][i].invite_t
         /\ session[e][i].responded => session'[e][i].responded
  BY <1>4, <1>10, Zenon
<1>13. PICK T \in [1..n_sessions -> 1..MaxClock] : Dated(T) /\ Used(T)
  BY Zenon DEF LeftInv
<1>14. Dated(T)'
  <2>1. SessionsDated(T)'
    BY <1>10, <1>12, <1>13 DEF Dated, SessionsDated
  <2>2. \A e \in Device : \A m \in proto_msg'[e] : m.type = "invite" => m \in proto_msg[e]
    BY <1>5, <1>7, Zenon
  <2> QED
    BY <1>1, <1>13, <2>1, <2>2, Zenon DEF Dated
<1>15. ASSUME OneOwner, Accepting, Inviting PROVE (OneOwner /\ Accepting /\ Inviting)'
  <2>1. OneOwner'
    BY <1>1, <1>3, <1>9, <1>10, <1>12, <1>15 DEF OneOwner
  <2>2. Accepting'
    <3> SUFFICES ASSUME NEW e \in Device, NEW i \in DOMAIN session[Peer(e)], Owns(e, i)
                 PROVE  \/ session'[e][i].responded
                        \/ \E m \in proto_msg'[e] \cup pending_request[Peer(e)] :
                             m.type = "accept" /\ m.session_id = i
      BY <1>1, <1>3, <1>9, <1>10 DEF Accepting
    <3>1. \/ session[e][i].responded
          \/ \E m \in proto_msg[e] \cup pending_request[Peer(e)] :
               m.type = "accept" /\ m.session_id = i
      BY <1>15, Zenon DEF Accepting
    <3>2. CASE e = d /\ i = id
      BY <1>4, <1>10, <3>2, Zenon
    <3>3. CASE e # d \/ i # id
      BY <1>7, <1>11, <1>12, <3>1, <3>3, Zenon DEF id
    <3> QED
      BY <3>2, <3>3, Zenon
  <2>3. Inviting'
    <3> SUFFICES ASSUME NEW e \in Device, NEW i, Owns(e, i), i \notin DOMAIN session[Peer(e)]
                 PROVE  \/ /\ inviting[e] # NoInvite
                           /\ inviting[e].session_id = i /\ inviting[e].outcome # "ok"
                        \/ \E m \in proto_msg'[Peer(e)] \cup pending_request[e] :
                             m.type = "invite" /\ m.session_id = i
      BY <1>1, <1>3, <1>9, <1>10 DEF Inviting
    <3>1. \/ /\ inviting[e] # NoInvite
             /\ inviting[e].session_id = i /\ inviting[e].outcome # "ok"
          \/ \E m \in proto_msg[Peer(e)] \cup pending_request[e] :
               m.type = "invite" /\ m.session_id = i
      BY <1>11, <1>15, Zenon DEF Inviting
    <3> QED
      BY <1>1, <1>3, <1>7, <3>1, Zenon
  <2> QED
    BY <2>1, <2>2, <2>3, Zenon
<1>16. Nobody => (OneOwner /\ Accepting /\ Inviting)'
  BY <1>15, Zenon DEF LeftInv, UnderWay
<1>17. Grows
  BY <1>10, Zenon DEF Grows
<1>18. \A e \in Device : \A m \in proto_msg'[e] :
         m.type = "one2one" => m \in proto_msg[e] \/ Has(Peer(e), m.session_id)'
  <2>1. Has(d, id)'
    BY <1>2, <1>4, <1>10, Zenon DEF Has
  <2> QED
    BY <1>3, <1>5, <1>7, <2>1, Zenon
<1> QED
  BY <1>1, <1>13, <1>14, <1>16, <1>17, <1>18, LeftStep, Zenon

(* A message is opened: what is removed is older by more than a day. *)
LEMMA One2oneLeft ==
  ASSUME TypedInv, LeftInv, NEW d \in Device, NEW msg \in proto_msg[d],
         NEW again \in BOOLEAN, consume_one2one_msg(d, msg, again)
  PROVE  LeftInv'
<1> DEFINE id    == msg.session_id
           s     == decrypt_ratchet(session[d][id], msg)
           table == With(session[d], id, s)
           old   == {i \in DOMAIN table : table[i].invite_t < s.invite_t - OLD_SESSION_TIME}
<1>1. /\ msg.type = "one2one" /\ id \in DOMAIN session[d] /\ session[d][id].responded
      /\ session' = [session EXCEPT ![d] = Without(table, old)]
      /\ proto_msg' = Processed(d, msg, again)
      /\ handed' = [handed EXCEPT ![d] = @ \cup {msg}]
      /\ UNCHANGED <<inviting, n_sessions, pending_request>>
  BY Zenon DEF consume_one2one_msg, Delivered, Opens, decrypt_ratchet_ok, unload_old_session,
         TypedInv, Domains
<1>2. s.responded = session[d][id].responded /\ s.invite_t = session[d][id].invite_t
  <2>1. session[d][id] \in SessionRec(encapsulations, handed[d])
    BY <1>1, Zenon DEF TypedInv, SessionsTyped
  <2> QED
    BY <2>1, Zenon DEF decrypt_ratchet, SessionRec
<1>3. /\ \A e \in Device : proto_msg'[e] \subseteq proto_msg[e]
      /\ handed'[d] = handed[d] \cup {msg} /\ \A e \in Device : e # d => handed'[e] = handed[e]
  BY <1>1, Zenon DEF Processed, TypedInv, Domains
<1> HIDE DEF s
<1>4. /\ DOMAIN table = DOMAIN session[d]
      /\ \A i \in DOMAIN session[d] :
           /\ table[i].responded = session[d][i].responded
           /\ table[i].invite_t = session[d][i].invite_t
  BY <1>1, <1>2, Zenon DEF With
<1> HIDE DEF table
<1>5. \A e \in Device : e # d => session'[e] = session[e]
  BY <1>1, Zenon DEF TypedInv, Domains
<1>6. \A i : /\ i \in DOMAIN session'[d] => i \in DOMAIN session[d] /\ session'[d][i] = table[i]
             /\ i \in DOMAIN session[d] => i \in DOMAIN session'[d] \/ i \in old
  <2>1. session'[d] = Without(table, old)
    BY <1>1, Zenon DEF TypedInv, Domains
  <2> HIDE DEF old
  <2> QED
    BY <1>4, <2>1, Zenon DEF Without
<1>7. PICK T \in [1..n_sessions -> 1..MaxClock] : Dated(T) /\ Used(T)
  BY Zenon DEF LeftInv
<1>8. /\ \A e \in Device : \A i \in DOMAIN session[e] :
           i \in 1..n_sessions /\ T[i] \in 1..MaxClock /\ session[e][i].invite_t = T[i]
      /\ \A e \in Device : \A m \in handed[e] : T[m.session_id] \in 1..MaxClock
      /\ MaxClock \in Nat
  <2>1. \A e \in Device : \A m \in handed[e] : m.session_id \in 1..n_sessions
    BY Zenon DEF TypedInv, HandedTyped, One2oneMsg
  <2> QED
    BY <1>7, <2>1, SessionAssumption, Zenon DEF TypedInv, SessionsTyped, Dated, SessionsDated
<1>9. \A i \in old : i \in DOMAIN session[d] /\ T[id] > T[i] + OLD_SESSION_TIME
  BY <1>1, <1>2, <1>4, <1>8, SMTT(20) DEF OLD_SESSION_TIME
<1>10. id \notin old
  BY <1>1, <1>8, <1>9, SMTT(20) DEF OLD_SESSION_TIME
<1>11. Dated(T)'
  <2>1. SessionsDated(T)'
    BY <1>4, <1>5, <1>6, <1>7 DEF Dated, SessionsDated
  <2> QED
    BY <1>1, <1>3, <1>7, <2>1 DEF Dated
<1>12. Has(d, id)'
  BY <1>1, <1>4, <1>6, <1>10, Zenon DEF Has
<1>13. Keeps(T)
  <2> SUFFICES ASSUME NEW e \in Device, NEW i, Has(e, i) PROVE HasOrNewer(T, e, i)'
    BY <1>3, Zenon DEF Keeps
  <2>1. CASE e # d
    BY <1>5, <2>1, Zenon DEF Has, HasOrNewer
  <2>2. CASE e = d /\ i \in DOMAIN session'[d]
    BY <1>4, <1>6, <2>2, Zenon DEF Has, HasOrNewer
  <2>3. CASE e = d /\ i \in old
    BY <1>3, <1>9, <2>3, Zenon DEF HasOrNewer
  <2> HIDE DEF old
  <2> QED
    BY <1>6, <2>1, <2>2, <2>3, Zenon DEF Has
<1> HIDE DEF old
<1>14. Newest(T)'
  <2>1. T[id] \in 1..MaxClock /\ msg \in handed'[d] /\ \A e \in Device : handed[e] \subseteq handed'[e]
    BY <1>1, <1>3, <1>8, Zenon
  <2>2. \A e \in Device : \A k \in handed'[e] : k \in handed[e] \/ k = msg
    BY <1>3, Zenon
  <2>3. CASE \A e \in Device : \A k \in handed[e] : T[k.session_id] <= T[id]
    <3>1. \A e \in Device : \A k \in handed'[e] : T[k.session_id] <= T[msg.session_id]
      BY <1>8, <2>1, <2>2, <2>3
    <3> QED
      BY <2>1, <3>1, Zenon DEF Newest
  <2>4. CASE \E e \in Device : \E k \in handed[e] : ~(T[k.session_id] <= T[id])
    <3>1. PICK e \in Device : \E m \in handed[e] : \A f \in Device : \A k \in handed[f] :
                                T[k.session_id] <= T[m.session_id]
      BY <1>7, <2>4, Zenon DEF Used, Newest, Nobody
    <3>2. PICK m \in handed[e] : \A f \in Device : \A k \in handed[f] :
                                   T[k.session_id] <= T[m.session_id]
      BY <3>1, Zenon
    <3>3. T[id] <= T[m.session_id]
      BY <1>8, <2>1, <2>4, <3>2
    <3>4. \A f \in Device : \A k \in handed'[f] : T[k.session_id] <= T[m.session_id]
      BY <2>2, <3>2, <3>3, Zenon
    <3> QED
      BY <2>1, <3>4, Zenon DEF Newest
  <2> QED
    BY <2>3, <2>4, Zenon
<1>15. Used(T)'
  <2>1. /\ \A e \in Device : \A m \in handed'[e] :
             \/ m \in handed[e]
             \/ Has(e, m.session_id)' /\ m \in proto_msg[e] /\ m.type = "one2one"
        /\ \A e \in Device : \A m \in proto_msg'[e] :
             m.type = "one2one" => m \in proto_msg[e] \/ Has(Peer(e), m.session_id)'
    BY <1>1, <1>3, <1>12, Zenon
  <2> QED
    BY <1>7, <1>13, <1>14, <2>1, StillUsed, Zenon
<1>16. UnderWay'
  BY <1>3, Zenon DEF UnderWay, Nobody
<1> QED
  BY <1>1, <1>7, <1>11, <1>15, <1>16, Zenon DEF LeftInv

LEMMA NextLeft ==
  ASSUME TimesKept, TypedInv, LeftInv, [Next]_vars
  PROVE  LeftInv'
<1>1. CASE Next
  <2>1. \A d \in Device : \A now, o : \A id : ~reinvite(d, id, now, o)
    BY DEF reinvite, TimesKept
  <2> QED
    BY <1>1, <2>1, NextCases, InviteLeft, ResendBundleLeft, BundleFailedLeft, InviteResponseLeft,
       InviteMsgLeft, AcceptMsgLeft, SendLeft, One2oneLeft, InVainLeft, ResendInviteLeft,
       ResendAcceptLeft, Zenon
<1>2. CASE UNCHANGED vars
  <2>1. UNCHANGED <<session, inviting, n_sessions, pending_request, proto_msg, handed>>
    BY <1>2, Zenon DEF vars
  <2>2. UnderWay'
    BY <2>1 DEF LeftInv, UnderWay, Nobody, OneOwner, Accepting, Inviting, Owns
  <2>3. PICK T \in [1..n_sessions -> 1..MaxClock] : Dated(T) /\ Used(T)
    BY Zenon DEF LeftInv
  <2>4. Dated(T)'
    BY <2>1, <2>3, Zenon DEF Dated, SessionsDated
  <2>5. Used(T)'
    BY <2>1, <2>3, Zenon DEF Used, Newest, Nobody, HasOrNewer, Has
  <2> QED
    BY <2>1, <2>2, <2>3, <2>4, <2>5, Zenon DEF LeftInv
<1> QED
  BY <1>1, <1>2, Zenon

LEMMA LeftAlways ==
  ASSUME TimesKept
  PROVE  Spec => []LeftInv
<1>1. Init => LeftInv
  BY InitLeft, Zenon
<1>2. TypedInv /\ LeftInv /\ [Next]_vars => LeftInv'
  BY NextLeft, Zenon
<1> QED
  BY <1>1, <1>2, TypedAlways, PTL DEF Spec

(* Once all is settled: before the first message every session is shared, and
   afterwards the newest one that was used. *)
LEMMA LeftShared ==
  ASSUME TypedInv, LeftInv, Settled, n_sessions > 0
  PROVE  SharedSession
<1>1. \A d \in Device : /\ inviting[d] = NoInvite /\ pending_request[d] = {} /\ proto_msg[d] = {}
                        /\ Peer(d) \in Device /\ Peer(d) # d /\ Peer(Peer(d)) = d
  BY PeerFacts, Zenon DEF Settled
<1>2. \A d, e \in Device : e = d \/ e = Peer(d)
  BY PeerFacts, Zenon
<1>3. n_sessions \in 0..MaxInvites /\ MaxInvites \in Nat /\ MaxClock \in Nat
      /\ 1..n_sessions \subseteq SessionId
  BY SessionAssumption DEF TypedInv, Counters, SessionId
<1>4. CASE Nobody
  <2>1. OneOwner /\ Accepting /\ Inviting
    BY <1>4, Zenon DEF LeftInv, UnderWay
  <2>2. 1 \in 1..n_sessions
    BY <1>3
  <2>3. PICK d \in Device : Owns(d, 1)
    BY <2>1, <2>2, Zenon DEF OneOwner
  <2>4. 1 \in DOMAIN session[d]
    BY <2>3, Zenon DEF Owns
  <2>5. 1 \in DOMAIN session[Peer(d)]
    BY <1>1, <2>1, <2>3, <2>4, Zenon DEF Inviting
  <2>6. session[d][1].responded
    BY <1>1, <2>1, <2>3, <2>5 DEF Accepting
  <2>7. session[Peer(d)][1].responded
    BY <1>1, <2>1, <2>3, <2>5, Zenon DEF OneOwner, Owns
  <2> QED
    BY <1>2, <1>3, <2>2, <2>4, <2>5, <2>6, <2>7, Zenon DEF SharedSession
<1>5. CASE ~Nobody
  <2>1. PICK T \in [1..n_sessions -> 1..MaxClock] : Dated(T) /\ Used(T)
    BY Zenon DEF LeftInv
  <2>2. PICK d \in Device : \E m \in handed[d] : \A e \in Device : \A k \in handed[e] :
                              T[k.session_id] <= T[m.session_id]
    BY <1>5, <2>1, Zenon DEF Used, Newest
  <2>3. PICK m \in handed[d] : \A e \in Device : \A k \in handed[e] :
                                 T[k.session_id] <= T[m.session_id]
    BY <2>2, Zenon
  <2>4. /\ \A e \in Device : \A k \in handed[e] : T[k.session_id] \in 1..MaxClock
        /\ m.session_id \in 1..n_sessions
    BY <2>1, Zenon DEF TypedInv, HandedTyped, One2oneMsg
  <2>5. \A e \in Device : HasOrNewer(T, e, m.session_id)
    BY <1>2, <2>1, Zenon DEF Used
  <2>6. \A e \in Device : Has(e, m.session_id)
    <3> SUFFICES ASSUME NEW e \in Device, NEW k \in handed[e]
                 PROVE  ~(T[k.session_id] > T[m.session_id] + OLD_SESSION_TIME)
      BY <2>5, Zenon DEF HasOrNewer
    <3>1. T[k.session_id] \in Nat /\ T[m.session_id] \in Nat
      BY <2>4
    <3>2. T[k.session_id] <= T[m.session_id]
      BY <2>3, Zenon
    <3> QED
      BY <3>1, <3>2 DEF OLD_SESSION_TIME
  <2> QED
    BY <1>3, <2>4, <2>6, Zenon DEF SharedSession, Has
<1> QED
  BY <1>4, <1>5, Zenon

(* However invitations cross, requests fail and are sent again, and sessions
   are removed as old (unload_old_session): once all is settled the two devices
   are left with a session they share, for any number of invitations, messages
   and days. *)
THEOREM SessionKept ==
  ASSUME TimesKept
  PROVE  Spec => []SessionLeft
<1>1. TypedInv /\ LeftInv => SessionLeft
  BY LeftShared, Zenon DEF SessionLeft
<1> QED
  BY <1>1, LeftAlways, TypedAlways, PTL
=============================================================================
