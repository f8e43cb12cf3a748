------------------------------ MODULE Session ------------------------------
(***************************************************************************)
(* How two devices come to share one2one sessions: invite, the inbound     *)
(* session and its accept, the completed outbound session, the plaintexts  *)
(* kept until then, and the removal of old sessions (src/session_pqc.c,    *)
(* src/session_manager.c, src/e2ees_client.c).                             *)
(*                                                                         *)
(* Each device runs one application thread and the thread that reads from  *)
(* the server.  invite() stores the session, waits for the server's answer *)
(* and then handles it; messages are processed in between.                 *)
(*                                                                         *)
(* The ratchet of a session is reduced to what its two ends must agree on: *)
(* the encapsulation made when the outbound session was completed (0: only *)
(* the secret of the invitation), the root sequence, and the messages it   *)
(* has opened.  Module Ratchet has the rest; delivery and retry of single  *)
(* one2one messages are in One2oneMsg, here they always reach the server.  *)
(***************************************************************************)
EXTENDS Naturals

CONSTANTS Device,       \* two users with a device each
          MaxInvites,   \* bound: sessions created by invite()
          MaxMsgs,      \* bound: plaintexts each device sends
          Outcome,      \* how a request may end, see below
          Redelivered,  \* types of messages the server may deliver again
          Inviter,      \* the devices whose application invites
          Reinviter,    \* the devices whose application calls reinvite
          MaxClock,     \* bound: the clock
          MaxEncaps     \* bound: completions before an accept goes unanswered again

(* The server took the request and said so; took it and the answer was lost;
   never saw it; or answered that the addressee is unknown. *)
AllOutcomes == {"ok", "unanswered", "lost", "not_found"}

ASSUME SessionAssumption ==
  /\ \E d, e \in Device : d # e /\ Device = {d, e}
  /\ Inviter \subseteq Device /\ Reinviter \subseteq Device
  /\ MaxInvites \in Nat /\ MaxMsgs \in Nat /\ MaxClock \in Nat \ {0} /\ MaxEncaps \in Nat
  /\ Outcome \subseteq AllOutcomes
  /\ Redelivered \subseteq {"invite", "accept", "one2one"}

VARIABLES
  session,            \* the SESSION table of each device: session id -> session
  inviting,           \* the invite() in progress, if any
  clock,              \* gen_ts
  n_sessions,         \* session ids made so far
  encapsulations,     \* encapsulations made by completing sessions
  pending_request,    \* the PENDING_REQUEST_DATA table
  pending_plaintext,  \* the PENDING_PLAINTEXT_DATA table
  proto_msg,          \* what the server has for each device
  composed,           \* plaintexts handed to send_one2one_msg
  handed              \* one2one messages whose plaintext went to the application

vars == <<session, inviting, clock, n_sessions, encapsulations, pending_request,
          pending_plaintext, proto_msg, composed, handed>>

SessionId == 1..MaxInvites

Peer(d) == CHOOSE e \in Device : e # d

INVITE_WAITING_TIME == 1

(* How much older than the session in use an old session is. *)
OLD_SESSION_TIME == 1

NoInvite == [session_id |-> 0]

(* The address of a user whose devices are not known. *)
NoDevice == "no device"

Init ==
  /\ session = [d \in Device |-> << >>]
  /\ inviting = [d \in Device |-> NoInvite]
  /\ clock = 1
  /\ n_sessions = 0
  /\ encapsulations = 0
  /\ pending_request = [d \in Device |-> {}]
  /\ pending_plaintext = [d \in Device |-> {}]
  /\ proto_msg = [d \in Device |-> {}]
  /\ composed = [d \in Device |-> 0]
  /\ handed = [d \in Device |-> {}]

-----------------------------------------------------------------------------
Reaches(outcome) == outcome \in {"ok", "unanswered"}

(* The tables are keyed: storing replaces, removing forgets. *)
With(table, id, s) == [i \in DOMAIN table \cup {id} |-> IF i = id THEN s ELSE table[i]]

Without(table, ids) == [i \in DOMAIN table \ ids |-> table[i]]

(* What the server has for d once d's peer got msgs through. *)
Posted(d, msgs) == [proto_msg EXCEPT ![d] = @ \cup msgs]

invite_msg(d, id, invite_t) ==
  [type |-> "invite", session_id |-> id, from |-> d, invite_t |-> invite_t]

accept_msg(d, id) == [type |-> "accept", session_id |-> id, from |-> d]

(* A plaintext is told apart by its number and, if it was kept as pending, by
   the session it was kept for. *)
one2one_msg(d, id, s, p) ==
  [type |-> "one2one", session_id |-> id, from |-> d, plaintext |-> p,
   root_sequence |-> s.root_sequence, encaps |-> s.encaps]

(* Mutants: failed requests are forgotten, or answered ones kept as well. *)
kept_never(requests, request, outcome) == requests

kept_unless_not_found(requests, request, outcome) ==
  IF outcome = "not_found" THEN requests ELSE requests \cup {request}

(* A request without a good answer is kept (store_pending_request_internal). *)
kept_on_failure(requests, request, outcome) ==
  IF outcome \in {"ok", "not_found"} THEN requests ELSE requests \cup {request}

(***************************************************************************)
(* Outbound: invite() with a pre-key bundle.  The session is stored before *)
(* the request leaves.                                                     *)
(***************************************************************************)
outbound_session(d, invite_t) ==
  [inviter |-> d, responded |-> FALSE, invite_t |-> invite_t,
   encaps |-> 0, root_sequence |-> 0, opened |-> {}]

new_outbound_session(d, now, outcome) ==
  LET id  == n_sessions + 1
      msg == invite_msg(d, id, now)
  IN  /\ n_sessions < MaxInvites
      /\ n_sessions' = id
      /\ clock' = now
      /\ session' = [session EXCEPT ![d] = With(@, id, outbound_session(d, now))]
      /\ proto_msg' = IF Reaches(outcome) THEN Posted(Peer(d), {msg}) ELSE proto_msg
      /\ inviting' = [inviting EXCEPT ![d] =
                        [session_id |-> id, msg |-> msg, outcome |-> outcome,
                         outbound_session |-> outbound_session(d, now)]]

invite(d, now, outcome) ==
  /\ d \in Inviter
  /\ inviting[d] = NoInvite
  /\ new_outbound_session(d, now, outcome)
  /\ UNCHANGED <<encapsulations, pending_request, pending_plaintext, composed, handed>>

(* The server has no bundle to give now: the request is kept. *)
get_pre_key_bundle_failed(d) ==
  /\ d \in Inviter
  /\ inviting[d] = NoInvite
  /\ n_sessions < MaxInvites
  /\ pending_request' = [pending_request EXCEPT ![d] = @ \cup {[type |-> "bundle"]}]
  /\ UNCHANGED <<session, inviting, clock, n_sessions, encapsulations,
                 pending_plaintext, proto_msg, composed, handed>>

(* reinvite(): the invitation of a session that is not responded leaves again,
   with a new invite_t, once INVITE_WAITING_TIME is over. *)
reinvite(d, id, now, outcome) ==
  LET msg == invite_msg(d, id, now)
      s   == [session[d][id] EXCEPT !.invite_t = now]
  IN  /\ d \in Reinviter
      /\ inviting[d] = NoInvite
      /\ session[d][id].inviter = d /\ ~session[d][id].responded
      /\ now >= session[d][id].invite_t + INVITE_WAITING_TIME
      /\ clock' = now
      /\ session' = [session EXCEPT ![d][id] = s]
      /\ proto_msg' = IF Reaches(outcome) THEN Posted(Peer(d), {msg}) ELSE proto_msg
      /\ inviting' = [inviting EXCEPT ![d] = [session_id |-> id, msg |-> msg,
                                             outcome |-> outcome, outbound_session |-> s]]
      /\ UNCHANGED <<n_sessions, encapsulations, pending_request, pending_plaintext,
                     composed, handed>>

(* Mutant: the session that invite() holds in memory is the one stored. *)
stale_session(d, i) == i.outbound_session

(* consume_invite_response loads the session again to set its invite_t; the
   server answers with the invite_t of the request. *)
answered_session(d, i) ==
  [session[d][i.session_id] EXCEPT !.invite_t = i.msg.invite_t]

consume_invite_response(d) ==
  LET i    == inviting[d]
      held == i.session_id \in DOMAIN session[d]
  IN  /\ i # NoInvite
      /\ session' = IF i.outcome = "ok" /\ held
                    THEN [session EXCEPT ![d][i.session_id] = answered_session(d, i)]
                    ELSE session
      /\ pending_request' = [pending_request EXCEPT ![d] =
           kept_on_failure(@, i.msg, IF i.outcome = "ok" /\ ~held THEN "lost" ELSE i.outcome)]
      /\ inviting' = [inviting EXCEPT ![d] = NoInvite]
      /\ UNCHANGED <<clock, n_sessions, encapsulations, pending_plaintext, proto_msg,
                     composed, handed>>

(***************************************************************************)
(* process_proto_msg tells the server that a message is consumed, whatever *)
(* became of it; the server may hear of it late and deliver it once more.  *)
(***************************************************************************)
Delivered(d, msg, type, again) ==
  /\ msg \in proto_msg[d]
  /\ msg.type = type
  /\ again => type \in Redelivered

Processed(d, msg, again) ==
  IF again THEN proto_msg ELSE [proto_msg EXCEPT ![d] = @ \ {msg}]

(***************************************************************************)
(* Inbound: an invitation makes a session that can be used at once, and    *)
(* its accept request.  A session id that is in use is left alone.         *)
(***************************************************************************)
(* Mutant: the time of the invitation is not copied. *)
inbound_session_no_time(msg) ==
  [inviter |-> msg.from, responded |-> TRUE, invite_t |-> 0,
   encaps |-> 0, root_sequence |-> 0, opened |-> {}]

inbound_session(msg) ==
  [inviter |-> msg.from, responded |-> TRUE, invite_t |-> msg.invite_t,
   encaps |-> 0, root_sequence |-> 0, opened |-> {}]

(* Mutant: the session id is not looked up. *)
session_id_unchecked(d, id) == TRUE

session_id_unused(d, id) == id \notin DOMAIN session[d]

consume_invite_msg(d, msg, outcome, again) ==
  LET accept == accept_msg(d, msg.session_id)
      queue  == Processed(d, msg, again)
  IN  /\ Delivered(d, msg, "invite", again)
      /\ session_id_unused(d, msg.session_id)
      /\ session' = [session EXCEPT ![d] = With(@, msg.session_id, inbound_session(msg))]
      /\ proto_msg' = [queue EXCEPT ![msg.from] =
                         IF Reaches(outcome) THEN @ \cup {accept} ELSE @]
      /\ pending_request' = [pending_request EXCEPT ![d] =
                               kept_on_failure(@, accept, outcome)]
      /\ UNCHANGED <<inviting, clock, n_sessions, encapsulations, pending_plaintext,
                     composed, handed>>

(***************************************************************************)
(* The accept completes the outbound session, and what was kept for the    *)
(* device is sent over it.  is_valid_uncompleted_session looks at fields   *)
(* that completing a session leaves in place, never at responded.          *)
(***************************************************************************)
is_valid_uncompleted_session(d, id) ==
  id \in DOMAIN session[d] /\ session[d][id].inviter = d

complete_outbound_session(s) ==
  [s EXCEPT !.responded = TRUE, !.encaps = encapsulations + 1,
            !.root_sequence = 1, !.opened = {}]

(* Mutant: what was kept is not looked up. *)
pending_plaintext_forgotten(d, their_address) == {}

load_pending_plaintext_data(d, their_address) ==
  {p \in pending_plaintext[d] : p.to = their_address}

consume_accept_msg(d, msg, again) ==
  LET id   == msg.session_id
      done == complete_outbound_session(session[d][id])
      kept == load_pending_plaintext_data(d, msg.from)
  IN  /\ Delivered(d, msg, "accept", again)
      /\ is_valid_uncompleted_session(d, id)
      /\ session' = [session EXCEPT ![d][id] = done]
      /\ encapsulations' = encapsulations + 1
      /\ pending_plaintext' = [pending_plaintext EXCEPT ![d] = @ \ kept]
      /\ proto_msg' = [Processed(d, msg, again) EXCEPT ![msg.from] =
                         @ \cup {one2one_msg(d, id, done, p.plaintext) : p \in kept}]
      /\ UNCHANGED <<inviting, clock, n_sessions, pending_request, composed, handed>>

(***************************************************************************)
(* send_one2one_msg: over every session with the peer that is responded;   *)
(* for each that is not the plaintext is kept for its device, and without  *)
(* any session it is kept for a user without a device.                     *)
(***************************************************************************)
send_one2one_msg(d) ==
  LET p     == composed[d] + 1
      ready == {id \in DOMAIN session[d] : session[d][id].responded}
      kept  == {[to |-> Peer(d), plaintext |-> <<p, id>>] : id \in DOMAIN session[d] \ ready}
      none  == {[to |-> NoDevice, plaintext |-> <<p, 0>>]}
  IN  /\ inviting[d] = NoInvite
      /\ composed[d] < MaxMsgs
      /\ composed' = [composed EXCEPT ![d] = p]
      /\ proto_msg' = Posted(Peer(d),
                        {one2one_msg(d, id, session[d][id], <<p, 0>>) : id \in ready})
      /\ pending_plaintext' = [pending_plaintext EXCEPT ![d] =
                                 @ \cup (IF session[d] = << >> THEN none ELSE kept)]
      /\ UNCHANGED <<session, inviting, clock, n_sessions, encapsulations,
                     pending_request, handed>>

(***************************************************************************)
(* consume_one2one_msg: a message opens when the ends agree, its root      *)
(* sequence is at most one ahead, and it has not been opened before.       *)
(***************************************************************************)
decrypt_ratchet_ok(s, msg) ==
  /\ s.responded
  /\ msg.encaps \in {0, s.encaps} \/ s.encaps = 0
  /\ msg.root_sequence <= s.root_sequence + 1
  /\ msg \notin s.opened

decrypt_ratchet(s, msg) ==
  [s EXCEPT !.opened = @ \cup {msg},
            !.encaps = IF @ = 0 THEN msg.encaps ELSE @,
            !.root_sequence = IF msg.root_sequence = @ + 1 THEN @ + 2 ELSE @]

Opens(d, msg) ==
  /\ msg.session_id \in DOMAIN session[d]
  /\ decrypt_ratchet_ok(session[d][msg.session_id], msg)

(* Mutant: sessions as old as the one in use go as well. *)
unload_not_newer(table, invite_t) ==
  Without(table, {id \in DOMAIN table : table[id].invite_t <= invite_t})

unload_old_session(table, invite_t) ==
  Without(table, {id \in DOMAIN table : table[id].invite_t < invite_t - OLD_SESSION_TIME})

consume_one2one_msg(d, msg, again) ==
  LET id == msg.session_id
      s  == decrypt_ratchet(session[d][id], msg)
  IN  /\ Delivered(d, msg, "one2one", again)
      /\ Opens(d, msg)
      /\ session' = [session EXCEPT ![d] = unload_old_session(With(@, id, s), s.invite_t)]
      /\ proto_msg' = Processed(d, msg, again)
      /\ handed' = [handed EXCEPT ![d] = @ \cup {msg}]
      /\ UNCHANGED <<inviting, clock, n_sessions, encapsulations, pending_request,
                     pending_plaintext, composed>>

(* A message that cannot be used is consumed all the same. *)
consume_in_vain(d, msg) ==
  /\ msg \in proto_msg[d]
  /\ CASE msg.type = "invite"  -> ~session_id_unused(d, msg.session_id)
       [] msg.type = "accept"  -> ~is_valid_uncompleted_session(d, msg.session_id)
       [] msg.type = "one2one" -> ~Opens(d, msg)
  /\ proto_msg' = Processed(d, msg, FALSE)
  /\ UNCHANGED <<session, inviting, clock, n_sessions, encapsulations, pending_request,
                 pending_plaintext, composed, handed>>

(***************************************************************************)
(* resend_pending_request, one request at a time.                          *)
(***************************************************************************)
resend_invite(d, msg, outcome) ==
  LET held == msg.session_id \in DOMAIN session[d]
  IN  /\ inviting[d] = NoInvite
      /\ msg \in pending_request[d] /\ msg.type = "invite"
      /\ proto_msg' = IF Reaches(outcome) THEN Posted(Peer(d), {msg}) ELSE proto_msg
      /\ session' = IF outcome = "ok" /\ held
                    THEN [session EXCEPT ![d][msg.session_id].invite_t = msg.invite_t]
                    ELSE session
      /\ pending_request' = [pending_request EXCEPT ![d] = kept_on_failure(@ \ {msg}, msg,
                               IF outcome = "ok" /\ ~held THEN "lost" ELSE outcome)]
      /\ UNCHANGED <<inviting, clock, n_sessions, encapsulations, pending_plaintext,
                     composed, handed>>

resend_accept(d, msg, outcome) ==
  /\ inviting[d] = NoInvite
  /\ msg \in pending_request[d] /\ msg.type = "accept"
  /\ outcome = "unanswered" => encapsulations < MaxEncaps
  /\ proto_msg' = IF Reaches(outcome) THEN Posted(Peer(d), {msg}) ELSE proto_msg
  /\ pending_request' = [pending_request EXCEPT ![d] =
                           kept_on_failure(@ \ {msg}, msg, outcome)]
  /\ UNCHANGED <<session, inviting, clock, n_sessions, encapsulations,
                 pending_plaintext, composed, handed>>

resend_get_pre_key_bundle(d, now, outcome) ==
  /\ inviting[d] = NoInvite
  /\ [type |-> "bundle"] \in pending_request[d]
  /\ \/ new_outbound_session(d, now, outcome)
     \/ /\ outcome = "not_found"
        /\ UNCHANGED <<n_sessions, clock, session, proto_msg, inviting>>
  /\ pending_request' = [pending_request EXCEPT ![d] = @ \ {[type |-> "bundle"]}]
  /\ UNCHANGED <<encapsulations, pending_plaintext, composed, handed>>

Next ==
  \E d \in Device :
    \/ \E now \in clock..MaxClock, o \in Outcome :
         \/ invite(d, now, o)
         \/ resend_get_pre_key_bundle(d, now, o)
         \/ \E id \in DOMAIN session[d] : reinvite(d, id, now, o)
    \/ get_pre_key_bundle_failed(d)
    \/ consume_invite_response(d)
    \/ \E msg \in proto_msg[d], o \in Outcome, again \in BOOLEAN :
         consume_invite_msg(d, msg, o, again)
    \/ \E msg \in proto_msg[d], again \in BOOLEAN : consume_accept_msg(d, msg, again)
    \/ send_one2one_msg(d)
    \/ \E msg \in proto_msg[d], again \in BOOLEAN : consume_one2one_msg(d, msg, again)
    \/ \E msg \in proto_msg[d] : consume_in_vain(d, msg)
    \/ \E msg \in pending_request[d], o \in Outcome :
         resend_invite(d, msg, o) \/ resend_accept(d, msg, o)

Spec == Init /\ [][Next]_vars

(***************************************************************************)
(* The delivery thread keeps running, invite() gets its answer or its      *)
(* timeout, and resume_connection is called until the server answers.      *)
(***************************************************************************)
Fairness ==
  \A d \in Device :
    /\ WF_vars(consume_invite_response(d))
    /\ WF_vars(\E msg \in proto_msg[d] :
                 \/ \E o \in Outcome : consume_invite_msg(d, msg, o, FALSE)
                 \/ consume_accept_msg(d, msg, FALSE)
                 \/ consume_one2one_msg(d, msg, FALSE)
                 \/ consume_in_vain(d, msg))
    /\ WF_vars(\E msg \in pending_request[d] :
                 \/ resend_invite(d, msg, "ok")
                 \/ resend_accept(d, msg, "ok"))
    /\ WF_vars(\E now \in clock..MaxClock : resend_get_pre_key_bundle(d, now, "ok"))

FairSpec == Spec /\ Fairness

-----------------------------------------------------------------------------
SessionType ==
  [inviter : Device, responded : BOOLEAN, invite_t : 1..MaxClock,
   encaps : 0..encapsulations, root_sequence : Nat,
   opened : SUBSET UNION {proto_msg[d] \cup handed[d] : d \in Device}]

(* The tables, the server's queues and the calls in progress hold what their
   columns and fields are for. *)
TypeOK ==
  /\ \A d \in Device :
       /\ DOMAIN session[d] \subseteq 1..n_sessions
       /\ \A id \in DOMAIN session[d] : session[d][id] \in SessionType
       /\ inviting[d].session_id \in 0..n_sessions
       /\ \A m \in proto_msg[d] : m.from = Peer(d) /\ m.session_id \in 1..n_sessions
       /\ composed[d] \in 0..MaxMsgs
  /\ clock \in 1..MaxClock
  /\ n_sessions \in 0..MaxInvites

(* A completed session stays completed for as long as it is kept, although
   invite() writes the session it made once more when the answer of the server
   comes, maybe long after the accept (consume_invite_response). *)
CompletionStays ==
  [][\A d \in Device : \A id \in DOMAIN session[d] \cap DOMAIN session'[d] :
       session[d][id].responded => session'[d][id].responded]_vars

(* A message whose plaintext went to the application never opens again, not
   even after its session's invitation came a second time
   (consume_invite_msg, consume_one2one_msg). *)
NoReplay ==
  \A d \in Device : \A m \in handed[d] : ~Opens(d, m)

(* The inviter and the invited of a session that both hold as responded derive
   the same root key: the invited has the inviter's encapsulation, or has not
   seen it yet (pqc_complete_outbound_session). *)
EncapsAgree ==
  \A d \in Device : \A id \in DOMAIN session[d] \cap DOMAIN session[Peer(d)] :
    LET ours   == session[d][id]
        theirs == session[Peer(d)][id]
    IN  ours.inviter = d /\ ours.responded /\ theirs.responded
          => theirs.encaps \in {0, ours.encaps}

SharedSession ==
  \E id \in SessionId : \A d \in Device :
    id \in DOMAIN session[d] /\ session[d][id].responded

Settled ==
  \A d \in Device :
    inviting[d] = NoInvite /\ pending_request[d] = {} /\ proto_msg[d] = {}

(* However invitations cross and old sessions are removed (unload_old_session),
   once all is settled the two devices are left with a session they share. *)
SessionLeft ==
  Settled /\ n_sessions > 0 => SharedSession

(* No message is more than one root ahead of the session that is to open it. *)
NotAhead ==
  \A d \in Device : \A m \in proto_msg[d] :
    m.type = "one2one" /\ m.session_id \in DOMAIN session[d]
      /\ session[d][m.session_id].responded
      => m.root_sequence <= session[d][m.session_id].root_sequence + 1

(* An invitation leads to a session both devices can use, whichever of the
   requests had to be sent again. *)
EventuallyShared == (n_sessions > 0) ~> SharedSession

(* A plaintext sent before the session was accepted reaches the application
   of the other device (send_pending_plaintext_data). *)
EventuallyHanded ==
  \A d \in Device, p \in 1..MaxMsgs :
    (\E e \in pending_plaintext[d] : e.to = Peer(d) /\ e.plaintext[1] = p)
      ~> (\E m \in handed[Peer(d)] : m.plaintext[1] = p)
=============================================================================
