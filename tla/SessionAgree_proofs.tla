------------------------ MODULE SessionAgree_proofs ------------------------
(***************************************************************************)
(* Agreement of the two ends while no session is removed as old: there is  *)
(* one invitation only, or all are made within the time after which a      *)
(* session counts as old.                                                  *)
(***************************************************************************)
EXTENDS Session_proofs

NoneOld == MaxInvites <= 1 \/ MaxClock <= OLD_SESSION_TIME + 1

(* A request the server carried out is answered, and an accept comes once. *)
AcceptedOnce == "unanswered" \notin Outcome /\ "accept" \notin Redelivered

(* Who invites with an id has the session as its own. *)
InvitesOwned ==
  \A d \in Device :
    /\ \A m \in proto_msg[Peer(d)] : m.type = "invite" => Owns(d, m.session_id)
    /\ \A m \in pending_request[d] : m.type = "invite" => Owns(d, m.session_id)
    /\ inviting[d] # NoInvite => Owns(d, inviting[d].session_id)

(* Any other session came with an invitation of its owner. *)
OthersOwned ==
  \A d \in Device : \A id \in DOMAIN session[d] :
    /\ session[d][id].inviter # d => Owns(Peer(d), id) /\ session[d][id].responded
    /\ Owns(d, id) => ~Owns(Peer(d), id)

(* An accept comes from a device that has the session, to one that has not
   completed it, and is either kept or on its way. *)
AcceptsOnce ==
  \A d \in Device :
    /\ \A m \in proto_msg[d] \cup pending_request[Peer(d)] :
         m.type = "accept" =>
           /\ m.session_id \in DOMAIN session[Peer(d)]
           /\ Owns(d, m.session_id) => ~session[d][m.session_id].responded
    /\ \A m \in proto_msg[d] \cap pending_request[Peer(d)] : m.type # "accept"

(* A completed session has an encapsulation, and the invited has it too. *)
CompletedOnce ==
  \A d \in Device : \A id \in DOMAIN session[d] :
    Owns(d, id) /\ session[d][id].responded =>
      id \in DOMAIN session[Peer(d)] /\ session[d][id].encaps # 0

(* What was handed over is noted in the session it was opened with. *)
HandedNoted ==
  \A d \in Device : \A m \in handed[d] :
    /\ m.session_id \in DOMAIN session[d]
    /\ session[d][m.session_id].responded
    /\ m \in session[d][m.session_id].opened

(* What the inviter writes carries its encapsulation, *)
EncapsSent ==
  \A d \in Device : \A m \in proto_msg[Peer(d)] :
    m.type = "one2one" /\ Owns(d, m.session_id) =>
      session[d][m.session_id].responded /\ m.encaps = session[d][m.session_id].encaps

(* and the invited has no other. *)
EncapsTaken ==
  \A d \in Device : \A id \in DOMAIN session[Peer(d)] :
    Owns(d, id) /\ session[Peer(d)][id].encaps # 0 =>
      session[d][id].responded /\ session[Peer(d)][id].encaps = session[d][id].encaps

AgreeInv ==
  /\ InvitesOwned /\ OthersOwned /\ AcceptsOnce /\ CompletedOnce
  /\ HandedNoted /\ EncapsSent /\ EncapsTaken

LEMMA InitAgrees == Init => AgreeInv
<1> SUFFICES ASSUME Init PROVE AgreeInv
  BY Zenon
<1>1. \A d \in Device : DOMAIN session[d] = {}
  <2>1. << >> \in Seq({})
    OBVIOUS
  <2>2. DOMAIN << >> = {}
    BY <2>1
  <2> QED
    BY <2>2, Zenon DEF Init
<1>2. \A d \in Device : /\ proto_msg[d] = {} /\ pending_request[d] = {} /\ handed[d] = {}
                        /\ inviting[d] = NoInvite /\ Peer(d) \in Device
  BY PeerFacts, Zenon DEF Init
<1> QED
  BY <1>1, <1>2, Zenon DEF AgreeInv, InvitesOwned, OthersOwned, AcceptsOnce, CompletedOnce, HandedNoted,
                    EncapsSent, EncapsTaken

NoNewAccepts ==
  \A d \in Device :
    /\ \A m \in proto_msg'[d] \cup pending_request'[Peer(d)] :
         m.type = "accept" => m \in proto_msg[d] \cup pending_request[Peer(d)]
    /\ \A m \in proto_msg'[d] \cap pending_request'[Peer(d)] : m.type # "accept"

LEMMA QuietAgrees ==
  ASSUME AgreeInv, SameEnds, NoNewAccepts, handed' = handed, InvitesOwned', EncapsSent'
  PROVE  AgreeInv'
<1>1. \A d \in Device : Peer(d) \in Device
  BY PeerFacts, Zenon
<1>2. \A d \in Device : \A id : Owns(d, id)' <=> Owns(d, id)
  BY Zenon DEF SameEnds, Owns
<1>3. OthersOwned'
  BY <1>1, <1>2 DEF AgreeInv, OthersOwned, SameEnds
<1>4. AcceptsOnce'
  <2> SUFFICES ASSUME NEW d \in Device,
                      NEW m \in proto_msg'[d] \cup pending_request'[Peer(d)], m.type = "accept"
               PROVE  /\ m.session_id \in DOMAIN session'[Peer(d)]
                      /\ Owns(d, m.session_id)' => ~session'[d][m.session_id].responded
    BY Zenon DEF AcceptsOnce, NoNewAccepts
  <2>1. m \in proto_msg[d] \cup pending_request[Peer(d)]
    BY Zenon DEF NoNewAccepts
  <2>2. /\ m.session_id \in DOMAIN session[Peer(d)]
        /\ Owns(d, m.session_id) => ~session[d][m.session_id].responded
    BY <2>1, Zenon DEF AgreeInv, AcceptsOnce
  <2>3. Owns(d, m.session_id) => m.session_id \in DOMAIN session[d]
    BY Zenon DEF Owns
  <2> QED
    BY <1>1, <1>2, <2>2, <2>3, Zenon DEF SameEnds
<1>5. CompletedOnce'
  BY <1>1, <1>2 DEF AgreeInv, CompletedOnce, SameEnds
<1>6. HandedNoted'
  BY DEF AgreeInv, HandedNoted, SameEnds
<1>7. EncapsTaken'
  <2> SUFFICES ASSUME NEW d \in Device, NEW id \in DOMAIN session'[Peer(d)],
                      Owns(d, id)', session'[Peer(d)][id].encaps # 0
               PROVE  /\ session'[d][id].responded
                      /\ session'[Peer(d)][id].encaps = session'[d][id].encaps
    BY Zenon DEF EncapsTaken
  <2>1. Owns(d, id) /\ id \in DOMAIN session[d] /\ id \in DOMAIN session[Peer(d)]
    BY <1>1, <1>2, Zenon DEF Owns, SameEnds
  <2> QED
    BY <1>1, <2>1 DEF AgreeInv, EncapsTaken, SameEnds
<1> QED
  BY <1>3, <1>4, <1>5, <1>6, <1>7, Zenon DEF AgreeInv

(* Nothing new but requests for a bundle. *)
LEMMA NothingNewAgrees ==
  ASSUME AgreeInv, UNCHANGED <<session, inviting, handed>>,
         \A e \in Device : proto_msg'[e] \subseteq proto_msg[e],
         \A e \in Device : pending_request'[e] \subseteq pending_request[e] \cup {[type |-> "bundle"]}
  PROVE  AgreeInv'
<1>1. \A e \in Device : Peer(e) \in Device
  BY PeerFacts, Zenon
<1>2. SameEnds
  BY Zenon DEF SameEnds
<1>3. \A e \in Device : \A id : Owns(e, id)' <=> Owns(e, id)
  BY Zenon DEF Owns
<1>4. \A e \in Device : \A m \in pending_request'[e] :
        m.type \in {"invite", "accept"} => m \in pending_request[e]
  BY [type |-> "bundle"].type = "bundle", Zenon
<1>5. NoNewAccepts
  BY <1>1, <1>4, Zenon DEF NoNewAccepts, AgreeInv, AcceptsOnce
<1>6. InvitesOwned'
  BY <1>1, <1>3, <1>4, Zenon DEF AgreeInv, InvitesOwned
<1>7. EncapsSent'
  BY <1>1, <1>3, Zenon DEF AgreeInv, EncapsSent
<1> QED
  BY <1>2, <1>5, <1>6, <1>7, QuietAgrees, Zenon

(* An invitation of d for a session of its own leaves, or is kept. *)
LEMMA InviteSentAgrees ==
  ASSUME TypedInv, AgreeInv, SameEnds, handed' = handed, NEW d \in Device, NEW msg,
         msg.type = "invite", Owns(d, msg.session_id),
         proto_msg' = Posted(Peer(d), {msg}) \/ proto_msg' = proto_msg,
         pending_request'[d] \subseteq pending_request[d] \cup {msg},
         \A e \in Device : e # d => pending_request'[e] = pending_request[e],
         \A e \in Device : \/ inviting'[e] = NoInvite
                           \/ inviting'[e] = inviting[e]
                           \/ e = d /\ inviting'[e].session_id = msg.session_id
  PROVE  AgreeInv'
<1>1. \A e \in Device : Peer(e) \in Device /\ (Peer(e) = Peer(d) => e = d)
  BY PeerFacts
<1>2. \A e \in Device : \A id : Owns(e, id)' <=> Owns(e, id)
  BY ZenonT(40) DEF Owns, SameEnds
<1>3. \A e \in Device : \A m \in proto_msg'[e] :
        m \in proto_msg[e] \/ (e = Peer(d) /\ m = msg)
  BY DEF Posted, TypedInv, Domains
<1>4. \A e \in Device : \A m \in pending_request'[e] :
        m \in pending_request[e] \/ (e = d /\ m = msg)
  BY Zenon
<1>5. NoNewAccepts
  BY <1>1, <1>3, <1>4, Zenon DEF NoNewAccepts, AgreeInv, AcceptsOnce
<1>6. InvitesOwned'
  <2> SUFFICES ASSUME NEW e \in Device
               PROVE  /\ \A m \in proto_msg'[Peer(e)] :
                           m.type = "invite" => Owns(e, m.session_id)
                      /\ \A m \in pending_request'[e] :
                           m.type = "invite" => Owns(e, m.session_id)
                      /\ inviting'[e] # NoInvite => Owns(e, inviting'[e].session_id)
    BY <1>2, Zenon DEF InvitesOwned
  <2>1. \A m \in proto_msg'[Peer(e)] : m.type = "invite" => Owns(e, m.session_id)
    BY <1>1, <1>3, Zenon DEF AgreeInv, InvitesOwned
  <2>2. \A m \in pending_request'[e] : m.type = "invite" => Owns(e, m.session_id)
    BY <1>4, Zenon DEF AgreeInv, InvitesOwned
  <2>3. inviting'[e] # NoInvite => Owns(e, inviting'[e].session_id)
    BY Zenon DEF AgreeInv, InvitesOwned
  <2> QED
    BY <2>1, <2>2, <2>3, Zenon
<1>7. EncapsSent'
  <2> SUFFICES ASSUME NEW e \in Device, NEW m \in proto_msg'[Peer(e)],
                      m.type = "one2one", Owns(e, m.session_id)
               PROVE  /\ session'[e][m.session_id].responded
                      /\ m.encaps = session'[e][m.session_id].encaps
    BY <1>2, Zenon DEF EncapsSent
  <2>1. m \in proto_msg[Peer(e)] /\ m.session_id \in DOMAIN session[e]
    BY <1>1, <1>3, Zenon DEF Owns
  <2> QED
    BY <2>1 DEF AgreeInv, EncapsSent, SameEnds
<1> QED
  BY <1>5, <1>6, <1>7, QuietAgrees, Zenon

LEMMA ReinviteAgrees ==
  ASSUME TypedInv, AgreeInv, NEW d \in Device, NEW now, NEW outcome,
         NEW id \in DOMAIN session[d], reinvite(d, id, now, outcome)
  PROVE  AgreeInv'
<1> DEFINE msg == invite_msg(d, id, now)
<1>1. /\ session[d][id].inviter = d
      /\ session' = [session EXCEPT ![d][id] = [session[d][id] EXCEPT !.invite_t = now]]
      /\ proto_msg' = Posted(Peer(d), {msg}) \/ proto_msg' = proto_msg
      /\ handed' = handed /\ pending_request' = pending_request
  BY Zenon DEF reinvite
<1>2. \A e \in Device : \/ inviting'[e] = inviting[e]
                        \/ e = d /\ inviting'[e].session_id = id
  BY Zenon DEF reinvite, TypedInv, Domains
<1>3. msg.type = "invite" /\ msg.session_id = id
  BY Zenon DEF invite_msg
<1>4. Owns(d, msg.session_id)
  BY <1>1, <1>3, Zenon DEF Owns
<1>5. SameEnds
  BY <1>1, RetimedSame, Zenon
<1> HIDE DEF msg
<1> QED
  BY <1>1, <1>2, <1>3, <1>4, <1>5, InviteSentAgrees

LEMMA InviteResponseAgrees ==
  ASSUME TypedInv, AgreeInv, NEW d \in Device, consume_invite_response(d)
  PROVE  AgreeInv'
<1> DEFINE i    == inviting[d]
           held == i.session_id \in DOMAIN session[d]
           o    == IF i.outcome = "ok" /\ ~held THEN "lost" ELSE i.outcome
<1>1. /\ i # NoInvite
      /\ session' = IF i.outcome = "ok" /\ held
                    THEN [session EXCEPT ![d][i.session_id] = answered_session(d, i)]
                    ELSE session
      /\ pending_request' = [pending_request EXCEPT ![d] = kept_on_failure(@, i.msg, o)]
      /\ inviting' = [inviting EXCEPT ![d] = NoInvite]
      /\ proto_msg' = proto_msg /\ handed' = handed
  BY Zenon DEF consume_invite_response
<1>2. i.msg \in InviteMsg(d, n_sessions) /\ i.msg.session_id = i.session_id
  BY <1>1, Zenon DEF TypedInv, InvitingTyped
<1>3. i.msg.type = "invite" /\ Owns(d, i.msg.session_id)
  BY <1>1, <1>2, Zenon DEF InviteMsg, AgreeInv, InvitesOwned
<1>4. SameEnds
  <2>1. CASE i.outcome = "ok" /\ held
    BY <1>1, <2>1, RetimedSame, Zenon DEF answered_session
  <2>2. CASE ~(i.outcome = "ok" /\ held)
    BY <1>1, <2>2, Zenon DEF SameEnds
  <2> QED
    BY <2>1, <2>2, Zenon
<1>5. \A e \in Device : inviting'[e] = NoInvite \/ inviting'[e] = inviting[e]
  BY <1>1, Zenon DEF TypedInv, Domains
<1>6. /\ pending_request'[d] \subseteq pending_request[d] \cup {i.msg}
      /\ \A e \in Device : e # d => pending_request'[e] = pending_request[e]
  <2> HIDE DEF o
  <2> QED
    BY <1>1, KeptOnFailure, Zenon DEF TypedInv, Domains
<1> HIDE DEF i
<1> QED
  BY <1>1, <1>3, <1>4, <1>5, <1>6, InviteSentAgrees, Zenon

LEMMA ResendInviteAgrees ==
  ASSUME TypedInv, AgreeInv, NEW d \in Device, NEW msg \in pending_request[d], NEW outcome,
         resend_invite(d, msg, outcome)
  PROVE  AgreeInv'
<1> DEFINE id   == msg.session_id
           held == id \in DOMAIN session[d]
           o    == IF outcome = "ok" /\ ~held THEN "lost" ELSE outcome
<1>1. /\ msg.type = "invite"
      /\ session' = IF outcome = "ok" /\ held
                    THEN [session EXCEPT ![d][id] = [session[d][id] EXCEPT !.invite_t = msg.invite_t]]
                    ELSE session
      /\ pending_request' = [pending_request EXCEPT ![d] = kept_on_failure(@ \ {msg}, msg, o)]
      /\ proto_msg' = Posted(Peer(d), {msg}) \/ proto_msg' = proto_msg
      /\ inviting' = inviting /\ handed' = handed
  BY Zenon DEF resend_invite
<1>2. Owns(d, id)
  BY <1>1, Zenon DEF AgreeInv, InvitesOwned
<1>3. SameEnds
  <2>1. CASE outcome = "ok" /\ held
    BY <1>1, <2>1, RetimedSame, Zenon
  <2>2. CASE ~(outcome = "ok" /\ held)
    BY <1>1, <2>2, Zenon DEF SameEnds
  <2> QED
    BY <2>1, <2>2, Zenon
<1>4. /\ pending_request'[d] \subseteq pending_request[d] \cup {msg}
      /\ \A e \in Device : e # d => pending_request'[e] = pending_request[e]
  <2> HIDE DEF o
  <2> QED
    BY <1>1, KeptOnFailure DEF TypedInv, Domains
<1> QED
  BY <1>1, <1>2, <1>3, <1>4, InviteSentAgrees, Zenon

LEMMA ResendAcceptAgrees ==
  ASSUME AcceptedOnce, TypedInv, AgreeInv, NEW d \in Device, NEW msg \in pending_request[d],
         NEW outcome \in Outcome, resend_accept(d, msg, outcome)
  PROVE  AgreeInv'
<1>1. /\ msg.type = "accept"
      /\ proto_msg' = IF Reaches(outcome) THEN Posted(Peer(d), {msg}) ELSE proto_msg
      /\ pending_request' = [pending_request EXCEPT ![d] = kept_on_failure(@ \ {msg}, msg, outcome)]
      /\ UNCHANGED <<session, inviting, handed>>
  BY Zenon DEF resend_accept
<1>2. SameEnds /\ \A e \in Device : \A id : Owns(e, id)' <=> Owns(e, id)
  BY <1>1, Zenon DEF SameEnds, Owns
<1>3. \A e \in Device : Peer(e) \in Device /\ (Peer(e) = d => e = Peer(d)) /\ e # Peer(e)
  BY PeerFacts, Zenon
<1>4. /\ \A e \in Device : e # d => pending_request'[e] = pending_request[e]
      /\ \A e \in Device : e # Peer(d) => proto_msg'[e] = proto_msg[e]
      /\ \A m \in pending_request'[d] : m \in pending_request[d]
      /\ \A m \in proto_msg'[Peer(d)] : m \in proto_msg[Peer(d)] \/ m = msg
      /\ msg \in pending_request'[d] => proto_msg' = proto_msg
  <2>1. /\ \A e \in Device : e # d => pending_request'[e] = pending_request[e]
        /\ pending_request'[d] = kept_on_failure(pending_request[d] \ {msg}, msg, outcome)
    BY <1>1, Zenon DEF TypedInv, Domains
  <2>2. Reaches(outcome) => outcome = "ok"
    BY Zenon DEF Reaches, AcceptedOnce
  <2> QED
    BY <1>1, <1>3, <2>1, <2>2, Zenon DEF kept_on_failure, Posted, TypedInv, Domains
<1>5. NoNewAccepts
  <2> SUFFICES ASSUME NEW e \in Device
               PROVE  /\ \A m \in proto_msg'[e] \cup pending_request'[Peer(e)] :
                           m.type = "accept" => m \in proto_msg[e] \cup pending_request[Peer(e)]
                      /\ \A m \in proto_msg'[e] \cap pending_request'[Peer(e)] :
                           m.type # "accept"
    BY Zenon DEF NoNewAccepts
  <2>1. \A m \in proto_msg[e] \cap pending_request[Peer(e)] : m.type # "accept"
    BY Zenon DEF AgreeInv, AcceptsOnce
  <2>2. CASE e = Peer(d)
    <3>1. Peer(e) = d
      BY <2>2, PeerFacts, Zenon
    <3> QED
      BY <1>4, <2>1, <2>2, <3>1, Zenon
  <2>3. CASE e # Peer(d)
    BY <1>3, <1>4, <2>1, <2>3, Zenon
  <2> QED
    BY <2>2, <2>3, Zenon
<1>6. InvitesOwned'
  BY <1>1, <1>2, <1>3, <1>4, Zenon DEF AgreeInv, InvitesOwned
<1>7. EncapsSent'
  <2> SUFFICES ASSUME NEW e \in Device, NEW m \in proto_msg'[Peer(e)],
                      m.type = "one2one", Owns(e, m.session_id)
               PROVE  /\ session[e][m.session_id].responded
                      /\ m.encaps = session[e][m.session_id].encaps
    BY <1>1, <1>2, Zenon DEF EncapsSent
  <2>1. m \in proto_msg[Peer(e)]
    BY <1>1, <1>3, <1>4, Zenon
  <2> QED
    BY <2>1, Zenon DEF AgreeInv, EncapsSent
<1> QED
  BY <1>1, <1>2, <1>5, <1>6, <1>7, QuietAgrees, Zenon

LEMMA SendAgrees ==
  ASSUME TypedInv, AgreeInv, NEW d \in Device, send_one2one_msg(d)
  PROVE  AgreeInv'
<1> DEFINE p     == composed[d] + 1
           ready == {id \in DOMAIN session[d] : session[d][id].responded}
           new   == {one2one_msg(d, id, session[d][id], <<p, 0>>) : id \in ready}
<1>1. /\ proto_msg' = Posted(Peer(d), new)
      /\ UNCHANGED <<session, inviting, pending_request, handed>>
  BY Zenon DEF send_one2one_msg
<1>2. \A m \in new : /\ m.type = "one2one" /\ m.session_id \in ready
                     /\ m.encaps = session[d][m.session_id].encaps
  BY DEF one2one_msg
<1>3. SameEnds /\ \A e \in Device : \A id : Owns(e, id)' <=> Owns(e, id)
  BY <1>1, Zenon DEF SameEnds, Owns
<1>4. \A e \in Device : Peer(e) \in Device /\ (Peer(e) = Peer(d) => e = d)
  BY PeerFacts
<1> HIDE DEF new
<1>5. \A e \in Device : \A m \in proto_msg'[e] : m \in proto_msg[e] \/ (e = Peer(d) /\ m \in new)
  BY <1>1, Zenon DEF Posted, TypedInv, Domains
<1>6. NoNewAccepts
  BY <1>1, <1>2, <1>4, <1>5, Zenon DEF NoNewAccepts, AgreeInv, AcceptsOnce
<1>7. InvitesOwned'
  BY <1>1, <1>2, <1>3, <1>4, <1>5, Zenon DEF AgreeInv, InvitesOwned
<1>8. EncapsSent'
  <2> SUFFICES ASSUME NEW e \in Device, NEW m \in proto_msg'[Peer(e)],
                      m.type = "one2one", Owns(e, m.session_id)
               PROVE  /\ session[e][m.session_id].responded
                      /\ m.encaps = session[e][m.session_id].encaps
    BY <1>1, <1>3, Zenon DEF EncapsSent
  <2>1. CASE m \in proto_msg[Peer(e)]
    BY <2>1, Zenon DEF AgreeInv, EncapsSent
  <2>2. CASE e = d /\ m \in new
    BY <1>2, <2>2, Zenon
  <2> QED
    BY <1>4, <1>5, <2>1, <2>2, Zenon
<1> QED
  BY <1>1, <1>3, <1>6, <1>7, <1>8, QuietAgrees, Zenon

LEMMA InVainAgrees ==
  ASSUME TypedInv, AgreeInv, NEW d \in Device, NEW msg \in proto_msg[d], consume_in_vain(d, msg)
  PROVE  AgreeInv'
<1>1. /\ proto_msg' = [proto_msg EXCEPT ![d] = @ \ {msg}]
      /\ UNCHANGED <<session, inviting, pending_request, handed>>
  BY Zenon DEF consume_in_vain, Processed
<1>2. \A e \in Device : proto_msg'[e] \subseteq proto_msg[e]
  BY <1>1, Zenon DEF TypedInv, Domains
<1> QED
  BY <1>1, <1>2, NothingNewAgrees, Zenon

LEMMA BundleFailedAgrees ==
  ASSUME TypedInv, AgreeInv, NEW d \in Device, get_pre_key_bundle_failed(d)
  PROVE  AgreeInv'
<1>1. /\ pending_request' = [pending_request EXCEPT ![d] = @ \cup {[type |-> "bundle"]}]
      /\ UNCHANGED <<session, inviting, proto_msg, handed>>
  BY Zenon DEF get_pre_key_bundle_failed
<1>2. \A e \in Device :
        pending_request'[e] \subseteq pending_request[e] \cup {[type |-> "bundle"]}
  BY <1>1, Zenon DEF TypedInv, Domains
<1> QED
  BY <1>1, <1>2, NothingNewAgrees, Zenon

(* What is removed as old is nothing, when no session is that old. *)
LEMMA NothingOld ==
  ASSUME NoneOld, TypedInv, NEW d \in Device, NEW id \in DOMAIN session[d], NEW s,
         s.invite_t = session[d][id].invite_t,
         session' = [session EXCEPT ![d] = unload_old_session(With(@, id, s), s.invite_t)]
  PROVE  Wrote(d, id, s)
<1> DEFINE table == With(session[d], id, s)
           old   == {i \in DOMAIN table : table[i].invite_t < s.invite_t - OLD_SESSION_TIME}
<1>1. /\ DOMAIN table = DOMAIN session[d] /\ table[id] = s
      /\ \A i \in DOMAIN session[d] : i # id => table[i] = session[d][i]
  BY Zenon DEF With
<1>2. session'[d] = Without(table, old) /\ \A e \in Device : e # d => session'[e] = session[e]
  BY Zenon DEF TypedInv, Domains, unload_old_session
<1> HIDE DEF table
<1>3. \A i \in DOMAIN session[d] : i \in 1..n_sessions /\ session[d][i].invite_t \in 1..MaxClock
  BY Zenon DEF TypedInv, SessionsTyped, SessionRec
<1>4. \A i \in DOMAIN table : table[i].invite_t \in 1..MaxClock
  BY <1>1, <1>3, Zenon
<1>5. n_sessions \in 0..MaxInvites /\ MaxInvites \in Nat /\ MaxClock \in Nat
  BY SessionAssumption, Zenon DEF TypedInv, Counters
<1>6. old = {}
  <2> SUFFICES ASSUME NEW i \in DOMAIN table, table[i].invite_t < s.invite_t - OLD_SESSION_TIME
               PROVE  FALSE
    BY Zenon
  <2>1. CASE MaxInvites <= 1
    <3>1. i = id
      BY <1>1, <1>3, <1>5, <2>1
    <3> QED
      BY <1>1, <1>3, <3>1 DEF OLD_SESSION_TIME
  <2>2. CASE MaxClock <= OLD_SESSION_TIME + 1
    BY <1>1, <1>3, <1>4, <1>5, <2>2 DEF OLD_SESSION_TIME
  <2> QED
    BY <2>1, <2>2, Zenon DEF NoneOld
<1> HIDE DEF old
<1>7. DOMAIN session'[d] = DOMAIN table /\ \A i \in DOMAIN table : session'[d][i] = table[i]
  BY <1>2, <1>6, Zenon DEF Without
<1> QED
  BY <1>1, <1>2, <1>7, Zenon DEF Wrote

(* A new session of d's own. *)
LEMMA OutboundAgrees ==
  ASSUME TypedInv, AgreeInv, NEW d \in Device, NEW now, NEW outcome,
         new_outbound_session(d, now, outcome), handed' = handed,
         \A e \in Device : pending_request'[e] \subseteq pending_request[e]
  PROVE  AgreeInv'
<1> DEFINE id  == n_sessions + 1
           msg == invite_msg(d, id, now)
           s   == outbound_session(d, now)
<1>1. /\ session' = [session EXCEPT ![d] = With(@, id, s)]
      /\ proto_msg' = Posted(Peer(d), {msg}) \/ proto_msg' = proto_msg
      /\ \A e \in Device : \/ inviting'[e] = inviting[e]
                           \/ e = d /\ inviting'[e].session_id = id
  BY Zenon DEF new_outbound_session, TypedInv, Domains
<1>2. /\ \A e \in Device : id \notin DOMAIN session[e]
      /\ \A e \in Device : \A m \in proto_msg[e] : m.session_id # id
      /\ \A e \in Device : \A m \in pending_request[e] : m.type = "accept" => m.session_id # id
      /\ \A e \in Device : \A m \in handed[e] : m.session_id # id
  <2>1. id \notin 1..n_sessions
    BY DEF TypedInv, Counters
  <2>2. \A e \in Device : \A m \in pending_request[e] :
          m.type = "accept" => m.session_id \in 1..n_sessions
    BY [type |-> "bundle"].type = "bundle", Zenon DEF TypedInv, RequestsTyped, Request, InviteMsg, AcceptMsg
  <2>3. \A e \in Device : \A m \in handed[e] : m.session_id \in 1..n_sessions
    BY Zenon DEF TypedInv, HandedTyped, One2oneMsg
  <2> HIDE DEF id
  <2> QED
    BY <2>1, <2>2, <2>3, MsgOfType, Zenon DEF TypedInv, SessionsTyped
<1>3. s.inviter = d /\ s.encaps = 0 /\ ~s.responded /\ msg.type = "invite" /\ msg.session_id = id
  BY Zenon DEF outbound_session, invite_msg
<1>4. \A e \in Device : Peer(e) \in Device /\ (Peer(e) = Peer(d) => e = d) /\ Peer(e) # e
  BY PeerFacts
<1> HIDE DEF id, msg, s
<1>5. Wrote(d, id, s)
  BY <1>1, NewWrites, Zenon
<1>6. \A e \in Device : \A i : Owns(e, i)' <=> Owns(e, i) \/ (e = d /\ i = id)
  BY <1>2, <1>3, <1>5, OwnsWritten
<1>7. \A e \in Device :
        /\ \A i \in DOMAIN session'[e] : i \in DOMAIN session[e] \/ (e = d /\ i = id)
        /\ \A i \in DOMAIN session[e] : i \in DOMAIN session'[e] /\ session'[e][i] = session[e][i]
  BY <1>2, <1>5, Zenon DEF Wrote
<1>8. \A e \in Device : \A m \in proto_msg'[e] : m \in proto_msg[e] \/ (e = Peer(d) /\ m = msg)
  BY <1>1 DEF Posted, TypedInv, Domains
<1>9. \A e \in Device : \A i : Owns(e, i) => i \in DOMAIN session[e]
  BY Zenon DEF Owns
<1>10. InvitesOwned'
  BY <1>1, <1>3, <1>4, <1>6, <1>8, Zenon DEF AgreeInv, InvitesOwned
<1>11. OthersOwned'
  <2> SUFFICES ASSUME NEW e \in Device, NEW i \in DOMAIN session'[e]
               PROVE  /\ session'[e][i].inviter # e =>
                           Owns(Peer(e), i)' /\ session'[e][i].responded
                      /\ Owns(e, i)' => ~Owns(Peer(e), i)'
    BY Zenon DEF OthersOwned
  <2>1. CASE i \in DOMAIN session[e]
    <3>1. /\ session[e][i].inviter # e => Owns(Peer(e), i) /\ session[e][i].responded
          /\ Owns(e, i) => ~Owns(Peer(e), i)
      BY <2>1, Zenon DEF AgreeInv, OthersOwned
    <3>2. session'[e][i] = session[e][i] /\ i # id
      BY <1>2, <1>7, <2>1
    <3> QED
      BY <1>4, <1>6, <3>1, <3>2, Zenon
  <2>2. CASE e = d /\ i = id
    BY <1>2, <1>3, <1>4, <1>5, <1>6, <1>9, <2>2 DEF Wrote
  <2> QED
    BY <1>7, <2>1, <2>2, Zenon
<1>12. AcceptsOnce'
  <2> SUFFICES ASSUME NEW e \in Device
               PROVE  /\ \A m \in proto_msg'[e] \cup pending_request'[Peer(e)] :
                           m.type = "accept" =>
                             /\ m.session_id \in DOMAIN session'[Peer(e)]
                             /\ Owns(e, m.session_id)' => ~session'[e][m.session_id].responded
                      /\ \A m \in proto_msg'[e] \cap pending_request'[Peer(e)] : m.type # "accept"
    BY Zenon DEF AcceptsOnce
  <2>1. \A m \in proto_msg'[e] \cup pending_request'[Peer(e)] : m.type = "accept" =>
          /\ m \in proto_msg'[e] => m \in proto_msg[e]
          /\ m \in pending_request'[Peer(e)] => m \in pending_request[Peer(e)]
          /\ m.session_id # id
    BY <1>2, <1>3, <1>4, <1>8, Zenon
  <2>2. /\ \A m \in proto_msg[e] \cup pending_request[Peer(e)] :
             m.type = "accept" =>
               /\ m.session_id \in DOMAIN session[Peer(e)]
               /\ Owns(e, m.session_id) => ~session[e][m.session_id].responded
        /\ \A m \in proto_msg[e] \cap pending_request[Peer(e)] : m.type # "accept"
    BY Zenon DEF AgreeInv, AcceptsOnce
  <2>3. ASSUME NEW m \in proto_msg'[e] \cup pending_request'[Peer(e)], m.type = "accept"
        PROVE  /\ m.session_id \in DOMAIN session'[Peer(e)]
               /\ Owns(e, m.session_id)' => ~session'[e][m.session_id].responded
    <3>1. /\ m.session_id \in DOMAIN session[Peer(e)]
          /\ Owns(e, m.session_id) => ~session[e][m.session_id].responded
      BY <2>1, <2>2, <2>3, Zenon
    <3>2. Owns(e, m.session_id)' => Owns(e, m.session_id)
      BY <1>6, <2>1, <2>3, Zenon
    <3>3. Owns(e, m.session_id) => session'[e][m.session_id] = session[e][m.session_id]
      BY <1>7, <1>9, Zenon
    <3> QED
      BY <1>4, <1>7, <3>1, <3>2, <3>3, Zenon
  <2> QED
    BY <2>1, <2>2, <2>3, Zenon
<1>13. CompletedOnce'
  <2> SUFFICES ASSUME NEW e \in Device, NEW i \in DOMAIN session'[e],
                      Owns(e, i)', session'[e][i].responded
               PROVE  i \in DOMAIN session'[Peer(e)] /\ session'[e][i].encaps # 0
    BY Zenon DEF CompletedOnce
  <2>1. i \in DOMAIN session[e] /\ Owns(e, i)
    BY <1>2, <1>3, <1>5, <1>6, <1>7, <1>9 DEF Wrote
  <2> QED
    BY <1>4, <1>7, <2>1 DEF AgreeInv, CompletedOnce
<1>14. HandedNoted'
  BY <1>7, Zenon DEF AgreeInv, HandedNoted
<1>15. EncapsSent'
  <2> SUFFICES ASSUME NEW e \in Device, NEW m \in proto_msg'[Peer(e)],
                      m.type = "one2one", Owns(e, m.session_id)'
               PROVE  /\ session'[e][m.session_id].responded
                      /\ m.encaps = session'[e][m.session_id].encaps
    BY Zenon DEF EncapsSent
  <2>1. m \in proto_msg[Peer(e)] /\ Owns(e, m.session_id)
    BY <1>2, <1>3, <1>4, <1>6, <1>8, ZenonT(40)
  <2>2. session[e][m.session_id].responded /\ m.encaps = session[e][m.session_id].encaps
    BY <2>1, Zenon DEF AgreeInv, EncapsSent
  <2>3. session'[e][m.session_id] = session[e][m.session_id]
    BY <1>7, <1>9, <2>1, Zenon
  <2> QED
    BY <2>2, <2>3, Zenon
<1>16. EncapsTaken'
  <2> SUFFICES ASSUME NEW e \in Device, NEW i \in DOMAIN session'[Peer(e)],
                      Owns(e, i)', session'[Peer(e)][i].encaps # 0
               PROVE  /\ session'[e][i].responded
                      /\ session'[Peer(e)][i].encaps = session'[e][i].encaps
    BY Zenon DEF EncapsTaken
  <2>1. i \in DOMAIN session[Peer(e)]
    BY <1>3, <1>4, <1>5, <1>7, Zenon DEF Wrote
  <2>2. Owns(e, i) /\ i \in DOMAIN session[e]
    BY <1>2, <1>4, <1>6, <1>9, <2>1
  <2>3. session'[Peer(e)][i] = session[Peer(e)][i] /\ session'[e][i] = session[e][i]
    BY <1>4, <1>7, <2>1, <2>2, Zenon
  <2> QED
    BY <2>1, <2>2, <2>3 DEF AgreeInv, EncapsTaken
<1> QED
  BY <1>10, <1>11, <1>12, <1>13, <1>14, <1>15, <1>16, Zenon DEF AgreeInv

LEMMA InviteAgrees ==
  ASSUME TypedInv, AgreeInv, NEW d \in Device, NEW now, NEW outcome, invite(d, now, outcome)
  PROVE  AgreeInv'
<1>1. /\ new_outbound_session(d, now, outcome)
      /\ handed' = handed /\ \A e \in Device : pending_request'[e] \subseteq pending_request[e]
  BY Zenon DEF invite
<1> QED
  BY <1>1, OutboundAgrees, Zenon

LEMMA ResendBundleAgrees ==
  ASSUME TypedInv, AgreeInv, NEW d \in Device, NEW now, NEW outcome,
         resend_get_pre_key_bundle(d, now, outcome)
  PROVE  AgreeInv'
<1>1. /\ \/ new_outbound_session(d, now, outcome)
         \/ UNCHANGED <<session, proto_msg, inviting>>
      /\ handed' = handed
  BY Zenon DEF resend_get_pre_key_bundle
<1>2. \A e \in Device : pending_request'[e] \subseteq pending_request[e]
  BY Zenon DEF resend_get_pre_key_bundle, TypedInv, Domains
<1>3. CASE new_outbound_session(d, now, outcome)
  BY <1>1, <1>2, <1>3, OutboundAgrees, Zenon
<1>4. CASE UNCHANGED <<session, proto_msg, inviting>>
  <2>1. /\ \A e \in Device : proto_msg'[e] \subseteq proto_msg[e]
        /\ \A e \in Device :
             pending_request'[e] \subseteq pending_request[e] \cup {[type |-> "bundle"]}
    BY <1>2, <1>4, Zenon
  <2> QED
    BY <1>1, <1>4, <2>1, NothingNewAgrees, Zenon
<1> QED
  BY <1>1, <1>3, <1>4, Zenon

(* A session of the other's, on its invitation. *)
LEMMA InviteMsgAgrees ==
  ASSUME AcceptedOnce, TypedInv, AgreeInv, NEW d \in Device, NEW msg \in proto_msg[d],
         NEW outcome \in Outcome, NEW again \in BOOLEAN,
         consume_invite_msg(d, msg, outcome, again)
  PROVE  AgreeInv'
<1> DEFINE id     == msg.session_id
           accept == accept_msg(d, id)
           queue  == Processed(d, msg, again)
           s      == inbound_session(msg)
<1>1. /\ msg.type = "invite" /\ id \notin DOMAIN session[d]
      /\ session' = [session EXCEPT ![d] = With(@, id, s)]
      /\ proto_msg' = [queue EXCEPT ![msg.from] =
                         IF Reaches(outcome) THEN @ \cup {accept} ELSE @]
      /\ pending_request' = [pending_request EXCEPT ![d] = kept_on_failure(@, accept, outcome)]
      /\ inviting' = inviting /\ handed' = handed
  BY Zenon DEF consume_invite_msg, Delivered, session_id_unused
<1>2. /\ msg.from = Peer(d) /\ accept.type = "accept" /\ accept.session_id = id
      /\ s.inviter = Peer(d) /\ s.responded /\ s.encaps = 0
  BY MsgOfType, Zenon DEF accept_msg, inbound_session
<1>3. \A e \in Device : Peer(e) \in Device /\ Peer(e) # e /\ Peer(Peer(e)) = e
                        /\ (Peer(e) = Peer(d) => e = d) /\ (e # d => e = Peer(d))
  BY PeerFacts, ZenonT(40)
<1>4. Owns(Peer(d), id)
  BY <1>1, <1>3, Zenon DEF AgreeInv, InvitesOwned
<1>5. /\ \A e \in Device : \A m \in proto_msg'[e] :
           m \in proto_msg[e] \/ (e = Peer(d) /\ m = accept)
      /\ \A e \in Device : \A m \in pending_request'[e] :
           m \in pending_request[e] \/ (e = d /\ m = accept)
      /\ accept \in proto_msg'[Peer(d)] /\ accept \in pending_request'[d]
           => accept \in proto_msg[Peer(d)] \cup pending_request[d]
  <2>1. DOMAIN queue = Device /\ \A e \in Device : queue[e] \subseteq proto_msg[e]
    BY Zenon DEF Processed, TypedInv, Domains
  <2>2. Reaches(outcome) => outcome = "ok"
    BY Zenon DEF Reaches, AcceptedOnce
  <2> HIDE DEF queue, accept
  <2>3. \A e \in Device : \A m \in proto_msg'[e] :
          m \in proto_msg[e] \/ (e = Peer(d) /\ m = accept /\ outcome = "ok")
    BY <1>1, <1>2, <1>3, <2>1, <2>2, Zenon
  <2>4. \A e \in Device : \A m \in pending_request'[e] :
          m \in pending_request[e] \/ (e = d /\ m = accept /\ outcome # "ok")
    BY <1>1, Zenon DEF kept_on_failure, TypedInv, Domains
  <2> QED
    BY <1>3, <2>3, <2>4, Zenon
<1> HIDE DEF id, accept, s
<1>6. Wrote(d, id, s)
  BY <1>1, NewWrites, Zenon
<1>7. \A e \in Device : \A i : Owns(e, i)' <=> Owns(e, i)
  BY <1>1, <1>2, <1>3, <1>6, OwnsWritten
<1>8. \A e \in Device :
        /\ \A i \in DOMAIN session'[e] : i \in DOMAIN session[e] \/ (e = d /\ i = id)
        /\ \A i \in DOMAIN session[e] : i \in DOMAIN session'[e] /\ session'[e][i] = session[e][i]
  BY <1>1, <1>6, Zenon DEF Wrote
<1>9. session'[d][id] = s /\ id \in DOMAIN session'[d]
  BY <1>6, Zenon DEF Wrote
<1>10. \A e \in Device : \A i : Owns(e, i) => i \in DOMAIN session[e]
  BY Zenon DEF Owns
<1>11. InvitesOwned'
  BY <1>1, <1>2, <1>3, <1>5, <1>7, Zenon DEF AgreeInv, InvitesOwned
<1>12. OthersOwned'
  <2> SUFFICES ASSUME NEW e \in Device, NEW i \in DOMAIN session'[e]
               PROVE  /\ session'[e][i].inviter # e => Owns(Peer(e), i) /\ session'[e][i].responded
                      /\ Owns(e, i) => ~Owns(Peer(e), i)
    BY <1>3, <1>7, Zenon DEF OthersOwned
  <2>1. CASE i \in DOMAIN session[e]
    <3>1. session'[e][i] = session[e][i]
      BY <1>8, <2>1, Zenon
    <3> QED
      BY <2>1, <3>1, Zenon DEF AgreeInv, OthersOwned
  <2>2. CASE e = d /\ i = id
    BY <1>1, <1>2, <1>4, <1>9, <1>10, <2>2, Zenon
  <2> QED
    BY <1>8, <2>1, <2>2, Zenon
<1>13. AcceptsOnce'
  <2> SUFFICES ASSUME NEW e \in Device
               PROVE  /\ \A m \in proto_msg'[e] \cup pending_request'[Peer(e)] :
                           m.type = "accept" =>
                             /\ m.session_id \in DOMAIN session'[Peer(e)]
                             /\ Owns(e, m.session_id) => ~session'[e][m.session_id].responded
                      /\ \A m \in proto_msg'[e] \cap pending_request'[Peer(e)] : m.type # "accept"
    BY <1>7, Zenon DEF AcceptsOnce
  <2>1. /\ \A m \in proto_msg[e] \cup pending_request[Peer(e)] :
             m.type = "accept" =>
               /\ m.session_id \in DOMAIN session[Peer(e)]
               /\ Owns(e, m.session_id) => ~session[e][m.session_id].responded
        /\ \A m \in proto_msg[e] \cap pending_request[Peer(e)] : m.type # "accept"
    BY Zenon DEF AgreeInv, AcceptsOnce
  <2>2. \A m : /\ m \in proto_msg'[e] => m \in proto_msg[e] \/ (e = Peer(d) /\ m = accept)
               /\ m \in pending_request'[Peer(e)] =>
                    m \in pending_request[Peer(e)] \/ (e = Peer(d) /\ m = accept)
    BY <1>3, <1>5, Zenon
  <2>3. e = Peer(d) => accept \notin proto_msg[e] \cup pending_request[Peer(e)]
    BY <1>1, <1>2, <1>3, <2>1, Zenon
  <2>4. e = Peer(d) => Owns(e, id) /\ ~session[e][id].responded
    BY <1>1, <1>3, <1>4, <1>10, Zenon DEF AgreeInv, CompletedOnce
  <2>5. ASSUME NEW m \in proto_msg'[e] \cup pending_request'[Peer(e)], m.type = "accept"
        PROVE  /\ m.session_id \in DOMAIN session'[Peer(e)]
               /\ Owns(e, m.session_id) => ~session'[e][m.session_id].responded
    <3>1. Owns(e, m.session_id) => session'[e][m.session_id] = session[e][m.session_id]
      BY <1>8, <1>10, Zenon
    <3>2. CASE m \in proto_msg[e] \cup pending_request[Peer(e)]
      BY <1>3, <1>8, <2>1, <2>5, <3>1, <3>2, Zenon
    <3>3. CASE e = Peer(d) /\ m = accept
      BY <1>2, <1>3, <1>9, <2>4, <3>1, <3>3, Zenon
    <3> QED
      BY <2>2, <2>5, <3>2, <3>3, Zenon
  <2>6. \A m \in proto_msg'[e] \cap pending_request'[Peer(e)] : m.type # "accept"
    BY <1>3, <1>5, <2>1, <2>2, <2>3, Zenon
  <2> QED
    BY <2>5, <2>6, Zenon
<1>14. CompletedOnce'
  <2> SUFFICES ASSUME NEW e \in Device, NEW i \in DOMAIN session'[e],
                      Owns(e, i), session'[e][i].responded
               PROVE  i \in DOMAIN session'[Peer(e)] /\ session'[e][i].encaps # 0
    BY <1>7, Zenon DEF CompletedOnce
  <2>1. i \in DOMAIN session[e] /\ session'[e][i] = session[e][i]
    BY <1>8, <1>10, Zenon
  <2> QED
    BY <1>3, <1>8, <2>1 DEF AgreeInv, CompletedOnce
<1>15. HandedNoted'
  BY <1>1, <1>8 DEF AgreeInv, HandedNoted
<1>16. EncapsSent'
  <2> SUFFICES ASSUME NEW e \in Device, NEW m \in proto_msg'[Peer(e)],
                      m.type = "one2one", Owns(e, m.session_id)
               PROVE  /\ session'[e][m.session_id].responded
                      /\ m.encaps = session'[e][m.session_id].encaps
    BY <1>7, Zenon DEF EncapsSent
  <2>1. m \in proto_msg[Peer(e)] /\ session'[e][m.session_id] = session[e][m.session_id]
    BY <1>2, <1>3, <1>5, <1>8, <1>10, Zenon
  <2> QED
    BY <2>1, Zenon DEF AgreeInv, EncapsSent
<1>17. EncapsTaken'
  <2> SUFFICES ASSUME NEW e \in Device, NEW i \in DOMAIN session'[Peer(e)],
                      Owns(e, i), session'[Peer(e)][i].encaps # 0
               PROVE  /\ session'[e][i].responded
                      /\ session'[Peer(e)][i].encaps = session'[e][i].encaps
    BY <1>7, Zenon DEF EncapsTaken
  <2>1. i \in DOMAIN session[Peer(e)]
    BY <1>2, <1>3, <1>8, <1>9, Zenon
  <2>2. session'[Peer(e)][i] = session[Peer(e)][i] /\ session'[e][i] = session[e][i]
    BY <1>3, <1>8, <1>10, <2>1, Zenon
  <2> QED
    BY <2>1, <2>2, Zenon DEF AgreeInv, EncapsTaken
<1> QED
  BY <1>11, <1>12, <1>13, <1>14, <1>15, <1>16, <1>17, Zenon DEF AgreeInv

(* The accept completes the session, once. *)
LEMMA AcceptMsgAgrees ==
  ASSUME AcceptedOnce, TypedInv, AgreeInv, NEW d \in Device, NEW msg \in proto_msg[d],
         NEW again \in BOOLEAN, consume_accept_msg(d, msg, again)
  PROVE  AgreeInv'
<1> DEFINE id   == msg.session_id
           s    == complete_outbound_session(session[d][id])
           kept == load_pending_plaintext_data(d, msg.from)
           new  == {one2one_msg(d, id, s, p.plaintext) : p \in kept}
<1>1. /\ msg.type = "accept" /\ ~again /\ Owns(d, id)
      /\ session' = [session EXCEPT ![d][id] = s]
      /\ proto_msg' = [[proto_msg EXCEPT ![d] = @ \ {msg}] EXCEPT ![msg.from] = @ \cup new]
      /\ inviting' = inviting /\ pending_request' = pending_request /\ handed' = handed
  BY Zenon DEF consume_accept_msg, Delivered, Processed, is_valid_uncompleted_session, Owns, AcceptedOnce
<1>2. msg.from = Peer(d) /\ msg \in AcceptMsg(Peer(d), n_sessions)
  BY <1>1, MsgOfType, Zenon
<1>3. \A e \in Device : Peer(e) \in Device /\ Peer(e) # e /\ Peer(Peer(e)) = e
                        /\ (Peer(e) = Peer(d) => e = d) /\ (e # d => e = Peer(d))
  BY PeerFacts, ZenonT(40)
<1>4. id \in DOMAIN session[Peer(d)] /\ ~session[d][id].responded /\ id \in DOMAIN session[d]
  BY <1>1, Zenon DEF AgreeInv, AcceptsOnce, Owns
<1>5. s.inviter = session[d][id].inviter /\ s.responded /\ s.encaps # 0
  <2>1. session[d][id] \in SessionRec(encapsulations, handed[d]) /\ encapsulations \in Nat
    BY <1>4, Zenon DEF TypedInv, SessionsTyped, Counters
  <2> QED
    BY <2>1 DEF complete_outbound_session, SessionRec
<1>6. \A m \in new : m.type = "one2one" /\ m.session_id = id /\ m.encaps = s.encaps
  BY DEF one2one_msg
<1> HIDE DEF id, s, kept, new
<1>7. /\ \A e \in Device : \A m \in proto_msg'[e] :
           m \in proto_msg[e] \/ (e = Peer(d) /\ m \in new)
      /\ msg \notin proto_msg'[d]
  BY <1>1, <1>2, <1>3, Zenon DEF TypedInv, Domains
<1>8. Wrote(d, id, s)
  BY <1>1, <1>4, UpdateWrites, Zenon
<1>9. \A e \in Device : \A i : Owns(e, i)' <=> Owns(e, i)
  BY <1>1, <1>4, <1>5, <1>8, OwnsWritten
<1>10. \A e \in Device :
         /\ DOMAIN session'[e] = DOMAIN session[e]
         /\ \A i \in DOMAIN session[e] : e # d \/ i # id => session'[e][i] = session[e][i]
  BY <1>4, <1>8, Zenon DEF Wrote
<1>11. session'[d][id] = s
  BY <1>8, Zenon DEF Wrote
<1>12. \A e \in Device : \A i : Owns(e, i) => i \in DOMAIN session[e]
  BY Zenon DEF Owns
<1>13. ~Owns(Peer(d), id)
  BY <1>1, <1>4, Zenon DEF AgreeInv, OthersOwned
<1>14. InvitesOwned'
  BY <1>1, <1>3, <1>6, <1>7, <1>9, Zenon DEF AgreeInv, InvitesOwned
<1>15. OthersOwned'
  <2> SUFFICES ASSUME NEW e \in Device, NEW i \in DOMAIN session[e]
               PROVE  /\ session'[e][i].inviter # e => Owns(Peer(e), i) /\ session'[e][i].responded
                      /\ Owns(e, i) => ~Owns(Peer(e), i)
    BY <1>3, <1>9, <1>10, Zenon DEF OthersOwned
  <2>1. /\ session[e][i].inviter # e => Owns(Peer(e), i) /\ session[e][i].responded
        /\ Owns(e, i) => ~Owns(Peer(e), i)
    BY Zenon DEF AgreeInv, OthersOwned
  <2> QED
    BY <1>5, <1>10, <1>11, <2>1, Zenon
<1>16. AcceptsOnce'
  <2> SUFFICES ASSUME NEW e \in Device
               PROVE  /\ \A m \in proto_msg'[e] \cup pending_request[Peer(e)] :
                           m.type = "accept" =>
                             /\ m.session_id \in DOMAIN session[Peer(e)]
                             /\ Owns(e, m.session_id) => ~session'[e][m.session_id].responded
                      /\ \A m \in proto_msg'[e] \cap pending_request[Peer(e)] : m.type # "accept"
    BY <1>1, <1>3, <1>9, <1>10, Zenon DEF AcceptsOnce
  <2>1. /\ \A m \in proto_msg[e] \cup pending_request[Peer(e)] :
             m.type = "accept" =>
               /\ m.session_id \in DOMAIN session[Peer(e)]
               /\ Owns(e, m.session_id) => ~session[e][m.session_id].responded
        /\ \A m \in proto_msg[e] \cap pending_request[Peer(e)] : m.type # "accept"
    BY Zenon DEF AgreeInv, AcceptsOnce
  <2>2. \A m \in proto_msg'[e] : m.type = "accept" => m \in proto_msg[e]
    BY <1>6, <1>7, Zenon
  <2>3. ASSUME NEW m \in proto_msg'[e] \cup pending_request[Peer(e)], m.type = "accept"
        PROVE  e # d \/ m.session_id # id
    <3> SUFFICES ASSUME e = d, m.session_id = id PROVE FALSE
      BY Zenon
    <3>1. m \in AcceptMsg(Peer(d), n_sessions)
      <4>1. m \in proto_msg[e] => m \in AcceptMsg(Peer(d), n_sessions)
        BY <2>3, MsgOfType, Zenon
      <4>2. m \in pending_request[Peer(e)] => m \in AcceptMsg(Peer(d), n_sessions)
        BY <1>3, <2>3, [type |-> "bundle"].type = "bundle", Zenon
           DEF TypedInv, RequestsTyped, Request, InviteMsg
      <4> QED
        BY <2>2, <2>3, <4>1, <4>2, Zenon
    <3>2. m = msg
      BY <1>2, <3>1 DEF AcceptMsg, id
    <3> QED
      BY <1>1, <1>7, <2>1, <2>3, <3>2, Zenon
  <2>4. ASSUME NEW m \in proto_msg'[e] \cup pending_request[Peer(e)], m.type = "accept"
        PROVE  /\ m.session_id \in DOMAIN session[Peer(e)]
               /\ Owns(e, m.session_id) => ~session'[e][m.session_id].responded
    BY <1>10, <1>12, <2>1, <2>2, <2>3, <2>4, Zenon
  <2> QED
    BY <2>1, <2>2, <2>4, Zenon
<1>17. CompletedOnce'
  <2> SUFFICES ASSUME NEW e \in Device, NEW i \in DOMAIN session[e],
                      Owns(e, i), session'[e][i].responded
               PROVE  i \in DOMAIN session[Peer(e)] /\ session'[e][i].encaps # 0
    BY <1>3, <1>9, <1>10, Zenon DEF CompletedOnce
  <2>1. CASE e = d /\ i = id
    BY <1>4, <1>5, <1>11, <2>1, Zenon
  <2>2. CASE ~(e = d /\ i = id)
    <3>1. session'[e][i] = session[e][i]
      BY <1>10, <2>2, Zenon
    <3> QED
      BY <3>1, Zenon DEF AgreeInv, CompletedOnce
  <2> QED
    BY <2>1, <2>2, Zenon
<1>18. HandedNoted'
  BY <1>1, <1>4, <1>10 DEF AgreeInv, HandedNoted
<1>19. EncapsSent'
  <2> SUFFICES ASSUME NEW e \in Device, NEW m \in proto_msg'[Peer(e)],
                      m.type = "one2one", Owns(e, m.session_id)
               PROVE  /\ session'[e][m.session_id].responded
                      /\ m.encaps = session'[e][m.session_id].encaps
    BY <1>9, Zenon DEF EncapsSent
  <2>1. CASE m \in proto_msg[Peer(e)]
    <3>1. session[e][m.session_id].responded /\ m.encaps = session[e][m.session_id].encaps
      BY <2>1, Zenon DEF AgreeInv, EncapsSent
    <3> QED
      BY <1>4, <1>10, <1>12, <3>1, Zenon
  <2>2. CASE e = d /\ m \in new
    BY <1>5, <1>6, <1>11, <2>2, Zenon
  <2> QED
    BY <1>3, <1>7, <2>1, <2>2, Zenon
<1>20. EncapsTaken'
  <2> SUFFICES ASSUME NEW e \in Device, NEW i \in DOMAIN session[Peer(e)],
                      Owns(e, i), session'[Peer(e)][i].encaps # 0
               PROVE  /\ session'[e][i].responded
                      /\ session'[Peer(e)][i].encaps = session'[e][i].encaps
    BY <1>3, <1>9, <1>10, Zenon DEF EncapsTaken
  <2>1. session'[Peer(e)][i] = session[Peer(e)][i]
    BY <1>3, <1>10, <1>13, Zenon
  <2>2. session[e][i].responded /\ session[Peer(e)][i].encaps = session[e][i].encaps
    BY <2>1 DEF AgreeInv, EncapsTaken
  <2> QED
    BY <1>4, <1>10, <1>12, <2>1, <2>2, Zenon
<1> QED
  BY <1>14, <1>15, <1>16, <1>17, <1>18, <1>19, <1>20, Zenon DEF AgreeInv

(* A message is opened and noted; the first one may bring the encapsulation. *)
LEMMA One2oneAgrees ==
  ASSUME NoneOld, TypedInv, AgreeInv, NEW d \in Device, NEW msg \in proto_msg[d],
         NEW again \in BOOLEAN, consume_one2one_msg(d, msg, again)
  PROVE  AgreeInv'
<1> DEFINE id == msg.session_id
           s  == decrypt_ratchet(session[d][id], msg)
<1>1. /\ msg.type = "one2one" /\ id \in DOMAIN session[d] /\ session[d][id].responded
      /\ session' = [session EXCEPT ![d] = unload_old_session(With(@, id, s), s.invite_t)]
      /\ proto_msg' = Processed(d, msg, again)
      /\ handed' = [handed EXCEPT ![d] = @ \cup {msg}]
      /\ inviting' = inviting /\ pending_request' = pending_request
  BY Zenon DEF consume_one2one_msg, Delivered, Opens, decrypt_ratchet_ok
<1>2. /\ s.inviter = session[d][id].inviter /\ s.responded = session[d][id].responded
      /\ s.invite_t = session[d][id].invite_t /\ s.opened = session[d][id].opened \cup {msg}
      /\ s.encaps = IF session[d][id].encaps = 0 THEN msg.encaps ELSE session[d][id].encaps
  <2>1. session[d][id] \in SessionRec(encapsulations, handed[d])
    BY <1>1, Zenon DEF TypedInv, SessionsTyped
  <2> QED
    BY <2>1, Zenon DEF decrypt_ratchet, SessionRec
<1>3. \A e \in Device : Peer(e) \in Device /\ Peer(e) # e /\ Peer(Peer(e)) = e
                        /\ (Peer(e) = d => e = Peer(d))
  BY PeerFacts, Zenon
<1>4. \A e \in Device : proto_msg'[e] \subseteq proto_msg[e]
  BY <1>1, Zenon DEF Processed, TypedInv, Domains
<1>5. handed'[d] = handed[d] \cup {msg} /\ \A e \in Device : e # d => handed'[e] = handed[e]
  BY <1>1, Zenon DEF TypedInv, Domains
<1> HIDE DEF s
<1>6. Wrote(d, id, s)
  BY <1>1, <1>2, NothingOld, Zenon
<1>7. \A e \in Device : \A i : Owns(e, i)' <=> Owns(e, i)
  <2>1. s.inviter = d => Owns(d, id)
    BY <1>1, <1>2, Zenon DEF Owns
  <2> HIDE DEF id
  <2> QED
    BY <1>2, <1>6, <2>1, OwnsWritten
<1> HIDE DEF id
<1>8. \A e \in Device :
        /\ DOMAIN session'[e] = DOMAIN session[e]
        /\ \A i \in DOMAIN session[e] :
             session'[e][i] = IF e = d /\ i = id THEN s ELSE session[e][i]
  BY <1>1, <1>6 DEF Wrote
<1>9. \A e \in Device : \A i \in DOMAIN session[e] :
        /\ session'[e][i].inviter = session[e][i].inviter
        /\ session'[e][i].responded = session[e][i].responded
        /\ session[e][i].opened \subseteq session'[e][i].opened
        /\ session[e][i].encaps # 0 => session'[e][i].encaps = session[e][i].encaps
  BY <1>2, <1>8, ZenonT(40)
<1>10. \A e \in Device : \A i : Owns(e, i) => i \in DOMAIN session[e]
  BY Zenon DEF Owns
<1>11. InvitesOwned'
  BY <1>1, <1>3, <1>4, <1>7, Zenon DEF AgreeInv, InvitesOwned
<1>12. OthersOwned'
  BY <1>3, <1>7, <1>8, <1>9, SMTT(20) DEF AgreeInv, OthersOwned
<1>13. AcceptsOnce'
  <2> SUFFICES ASSUME NEW e \in Device
               PROVE  /\ \A m \in proto_msg'[e] \cup pending_request[Peer(e)] :
                           m.type = "accept" =>
                             /\ m.session_id \in DOMAIN session[Peer(e)]
                             /\ Owns(e, m.session_id) => ~session'[e][m.session_id].responded
                      /\ \A m \in proto_msg'[e] \cap pending_request[Peer(e)] : m.type # "accept"
    BY <1>1, <1>3, <1>7, <1>8, Zenon DEF AcceptsOnce
  <2>1. /\ \A m \in proto_msg[e] \cup pending_request[Peer(e)] :
             m.type = "accept" =>
               /\ m.session_id \in DOMAIN session[Peer(e)]
               /\ Owns(e, m.session_id) => ~session[e][m.session_id].responded
        /\ \A m \in proto_msg[e] \cap pending_request[Peer(e)] : m.type # "accept"
    BY Zenon DEF AgreeInv, AcceptsOnce
  <2> QED
    BY <1>4, <1>9, <1>10, <2>1
<1>14. CompletedOnce'
  BY <1>3, <1>7, <1>8, <1>9 DEF AgreeInv, CompletedOnce
<1>15. HandedNoted'
  <2> SUFFICES ASSUME NEW e \in Device, NEW m \in handed'[e]
               PROVE  /\ m.session_id \in DOMAIN session[e]
                      /\ session'[e][m.session_id].responded
                      /\ m \in session'[e][m.session_id].opened
    BY <1>8, Zenon DEF HandedNoted
  <2>1. CASE m \in handed[e]
    BY <1>9, <2>1, Zenon DEF AgreeInv, HandedNoted
  <2>2. CASE e = d /\ m = msg
    <3>1. m.session_id = id /\ session'[d][id] = s
      BY <1>1, <1>8, <2>2 DEF id
    <3>2. s.responded /\ msg \in s.opened
      BY <1>1, <1>2, Zenon
    <3> QED
      BY <1>1, <2>2, <3>1, <3>2, Zenon
  <2> QED
    BY <1>5, <2>1, <2>2, Zenon
<1>16. \A e \in Device : \A i : Owns(e, i) /\ session[e][i].responded =>
         /\ i \in DOMAIN session[e] /\ session'[e][i].responded
         /\ session'[e][i].encaps = session[e][i].encaps
  BY <1>9, <1>10 DEF AgreeInv, CompletedOnce
<1>17. EncapsSent'
  <2> SUFFICES ASSUME NEW e \in Device, NEW m \in proto_msg'[Peer(e)],
                      m.type = "one2one", Owns(e, m.session_id)
               PROVE  /\ session'[e][m.session_id].responded
                      /\ m.encaps = session'[e][m.session_id].encaps
    BY <1>7, Zenon DEF EncapsSent
  <2>1. session[e][m.session_id].responded /\ m.encaps = session[e][m.session_id].encaps
    BY <1>3, <1>4, Zenon DEF AgreeInv, EncapsSent
  <2> QED
    BY <1>16, <2>1, Zenon
<1>18. EncapsTaken'
  <2> SUFFICES ASSUME NEW e \in Device, NEW i \in DOMAIN session[Peer(e)],
                      Owns(e, i), session'[Peer(e)][i].encaps # 0
               PROVE  /\ session'[e][i].responded
                      /\ session'[Peer(e)][i].encaps = session'[e][i].encaps
    BY <1>3, <1>7, <1>8, Zenon DEF EncapsTaken
  <2>1. CASE session[Peer(e)][i].encaps # 0
    <3>1. session[e][i].responded /\ session[Peer(e)][i].encaps = session[e][i].encaps
      BY <2>1, Zenon DEF AgreeInv, EncapsTaken
    <3> QED
      BY <1>3, <1>9, <1>16, <2>1, <3>1, Zenon
  <2>2. CASE session[Peer(e)][i].encaps = 0
    <3>1. Peer(e) = d /\ i = id /\ session'[Peer(e)][i].encaps = msg.encaps
      BY <1>2, <1>3, <1>8, <2>2
    <3>2. msg \in proto_msg[Peer(e)] /\ msg.session_id = i
      BY <3>1, Zenon DEF id
    <3>3. session[e][i].responded /\ msg.encaps = session[e][i].encaps
      BY <1>1, <3>2, Zenon DEF AgreeInv, EncapsSent
    <3> QED
      BY <1>16, <3>1, <3>3, Zenon
  <2> QED
    BY <2>1, <2>2, Zenon
<1> QED
  BY <1>11, <1>12, <1>13, <1>14, <1>15, <1>17, <1>18, Zenon DEF AgreeInv

LEMMA NextAgrees ==
  ASSUME NoneOld, AcceptedOnce, TypedInv, AgreeInv, [Next]_vars
  PROVE  AgreeInv'
<1>1. CASE Next
  BY <1>1, NextCases, InviteAgrees, ResendBundleAgrees, ReinviteAgrees, BundleFailedAgrees,
     InviteResponseAgrees, InviteMsgAgrees, AcceptMsgAgrees, SendAgrees, One2oneAgrees,
     InVainAgrees, ResendInviteAgrees, ResendAcceptAgrees, Zenon
<1>2. CASE UNCHANGED vars
  <2>1. /\ UNCHANGED <<session, inviting, handed>>
        /\ \A e \in Device : proto_msg'[e] \subseteq proto_msg[e]
        /\ \A e \in Device :
             pending_request'[e] \subseteq pending_request[e] \cup {[type |-> "bundle"]}
    BY <1>2, Zenon DEF vars
  <2> QED
    BY <2>1, NothingNewAgrees, Zenon
<1> QED
  BY <1>1, <1>2, Zenon

LEMMA AgreesAlways ==
  ASSUME NoneOld, AcceptedOnce
  PROVE  Spec => []AgreeInv
<1>1. Init => AgreeInv
  BY InitAgrees, Zenon
<1>2. TypedInv /\ AgreeInv /\ [Next]_vars => AgreeInv'
  BY NextAgrees, Zenon
<1> QED
  BY <1>1, <1>2, TypedAlways, PTL DEF Spec

(* While no session is removed as old, a message that was handed to the
   application never opens again, whichever invitations and messages are
   delivered twice and whichever requests are sent again (session_id_unused in
   consume_invite_msg, the key list in consume_one2one_msg). *)
THEOREM ReplaySafe ==
  ASSUME NoneOld, AcceptedOnce
  PROVE  Spec => []NoReplay
<1>1. AgreeInv => NoReplay
  BY Zenon DEF AgreeInv, HandedNoted, NoReplay, Opens, decrypt_ratchet_ok
<1> QED
  BY <1>1, AgreesAlways, PTL

(* The invited never derives another root key than the inviter: an accept comes
   to a session that is not completed, so that an encapsulation is never
   replaced (pqc_complete_outbound_session). *)
THEOREM EncapsAgreed ==
  ASSUME NoneOld, AcceptedOnce
  PROVE  Spec => []EncapsAgree
<1>1. AgreeInv => EncapsAgree
  BY Zenon DEF AgreeInv, EncapsTaken, EncapsAgree, Owns
<1> QED
  BY <1>1, AgreesAlways, PTL
=============================================================================
