------------------------------ MODULE Devices ------------------------------
(***************************************************************************)
(* Users with several devices: a new device makes sessions with the other  *)
(* devices of its user and with those of the friends, an invitation of one *)
(* device is passed on to the others, a message goes to every device of    *)
(* the other user and, as a sync message, to the user's own other devices  *)
(* (src/account_manager.c, src/session_manager.c, src/e2ees_client.c,      *)
(* src/e2ees_client_internal.c; the server is the one of the tests).       *)
(*                                                                         *)
(* A session is reduced to whether its end may send.  How an invitation    *)
(* survives lost requests is in Session, how messages open in One2oneMsg;  *)
(* here requests reach the server, which delivers in order and once.       *)
(*                                                                         *)
(* A device runs one operation at a time; between the requests of one      *)
(* operation the other devices go on.                                      *)
(***************************************************************************)
EXTENDS Naturals, Sequences, FiniteSets, Bags, SequencesExt

CONSTANTS User,        \* each user is the set of their devices
          Inviting,    \* devices whose application invites, and the users invited
          Sending,     \* devices whose application sends, and the users addressed
          Removable,   \* devices the server may remove
          MaxInvites,  \* bound: calls of invite()
          MaxMsgs      \* bound: calls of send_one2one_msg()

Device == UNION User

ASSUME UserAssumption ==
  /\ \A u, v \in User : u # v => u \cap v = {}
  /\ Inviting \subseteq Device \X User /\ Sending \subseteq Device \X User
  /\ Removable \subseteq Device
  /\ MaxInvites \in Nat /\ MaxMsgs \in Nat

VARIABLES
  user_data_set,      \* the server's devices, in the order they came
  removed,            \* the devices the server has removed
  session_record,     \* the server's pairs of devices with an accepted session
  session,            \* the SESSION table of each device: session id -> responded
  calls,              \* the get_pre_key_bundle_internal calls ahead of each device
  pending_plaintext,  \* the PENDING_PLAINTEXT_DATA table
  proto_msg,          \* what the server has for each device
  n_invites,          \* calls of invite() by the devices of each user
  listed,             \* friends named in the answer to a device's registration
  composed,           \* calls of send_one2one_msg()
  due,                \* the copies that sending owes, and to whom
  handed,             \* the copies that went to each application
  hasty               \* history: did a device register or invite too early?

vars == <<user_data_set, removed, session_record, session, calls, pending_plaintext,
          proto_msg, n_invites, listed, composed, due, handed, hasty>>

UserOf(d) == CHOOSE u \in User : d \in u

Registered == Range(user_data_set)

(* A session id says who invited whom for the n-th time. *)
Their(d, id) == IF id.from = d THEN id.to ELSE id.from

SessionsWith(d, devices) == {id \in DOMAIN session[d] : Their(d, id) \in devices}

(* The address of a user whose devices are not known. *)
NoDevice == "no device"

Init ==
  /\ user_data_set = << >>
  /\ removed = {}
  /\ session_record = {}
  /\ session = [d \in Device |-> << >>]
  /\ calls = [d \in Device |-> << >>]
  /\ pending_plaintext = [d \in Device |-> {}]
  /\ proto_msg = [d \in Device |-> << >>]
  /\ n_invites = [u \in User |-> 0]
  /\ listed = [d \in Device |-> 0]
  /\ composed = 0
  /\ due = {}
  /\ handed = [d \in Device |-> EmptyBag]
  /\ hasty = FALSE

-----------------------------------------------------------------------------
(* The server puts messages in the queues of their addressees, and does not
   look whether it knows these; a post is a message and its addressee. *)
Post(queues, posts) ==
  [d \in Device |-> queues[d] \o SetToSeq({p.msg : p \in {q \in posts : q.to = d}})]

invite_msg(id) == [to |-> id.to, msg |-> [type |-> "invite", session_id |-> id]]

accept_msg(id) == [to |-> id.from, msg |-> [type |-> "accept", session_id |-> id]]

one2one_msg(d, id, copy) ==
  [to |-> Their(d, id), msg |-> [type |-> "one2one", session_id |-> id, copy |-> copy]]

remove_user_device_msg(d, e) == [to |-> d, msg |-> [type |-> "remove", device |-> e]]

(* Mutant: only the sessions that d invited to go. *)
unload_outbound_session(table, d, devices) ==
  [id \in {i \in DOMAIN table : i.to \notin devices} |-> table[id]]


(* unload_session: all sessions with a device go. *)
unload_session(table, d, devices) ==
  [id \in {i \in DOMAIN table : Their(d, i) \notin devices} |-> table[id]]

(* Nothing is under way among the devices the server knows. *)
Settled == \A d \in Registered : calls[d] = << >> /\ proto_msg[d] = << >>

(* May an operation of d start? *)
MayRun(d) == d \in Registered /\ calls[d] = << >>

(* Can both devices send over some session? *)
Shared(d, e) ==
  \E id \in DOMAIN session[d] \cap DOMAIN session[e] : session[d][id] /\ session[e][id]

(* Is d connected to the other devices of its user? *)
Joined(d) == \A e \in UserOf(d) \cap Registered : e # d => Shared(d, e)

-----------------------------------------------------------------------------
(***************************************************************************)
(* One plaintext over every session of d with some devices.  A copy leaves *)
(* over each session that is responded and is kept for the device of each  *)
(* that is not; the sessions with a device the server does not know go.    *)
(***************************************************************************)
Copy(kind, content, id) == [kind |-> kind, content |-> content, session_id |-> id]

(* Mutant: the copies for sessions without an answer are not kept. *)
kept_never(d, devices, kind, content) == {}

(* Mutant: a copy is kept besides the one that leaves. *)
kept_always(d, devices, kind, content) ==
  {[to |-> Their(d, id), copy |-> Copy(kind, content, id)] : id \in SessionsWith(d, devices)}

kept_copies(d, devices, kind, content) ==
  {[to |-> Their(d, id), copy |-> Copy(kind, content, id)] :
     id \in {i \in SessionsWith(d, devices) : ~session[d][i]}}

sent_copies(d, devices, kind, content) ==
  {one2one_msg(d, id, Copy(kind, content, id)) :
     id \in {i \in SessionsWith(d, devices) : session[d][i]}}

unknown_devices(d, devices) ==
  {Their(d, id) : id \in {i \in SessionsWith(d, devices) : session[d][i]}} \ Registered

other_own_devices(d) == UserOf(d) \ {d}

(***************************************************************************)
(* register_user: the server answers with the other devices of the user    *)
(* and, one by one but without their device ids, the devices with which    *)
(* the user's first device has a session; consume_register_response gets   *)
(* the bundles of all of them.                                             *)
(***************************************************************************)
bundle_call(u, devices, active) == [user |-> u, devices |-> devices, active |-> active]

find_device_addresses(d) == SelectSeq(user_data_set, LAMBDA e : e \in UserOf(d))

(* Mutant: the friends of the user are not named. *)
no_friend_addresses(d) == << >>

find_friend_addresses(d) ==
  SelectSeq(user_data_set, LAMBDA e :
              /\ e \notin UserOf(d)
              /\ find_device_addresses(d) # << >>
              /\ {Head(find_device_addresses(d)), e} \in session_record)

register_user(d) ==
  LET others  == find_device_addresses(d)
      friends == find_friend_addresses(d)
  IN  /\ d \notin Registered \cup removed
      /\ user_data_set' = Append(user_data_set, d)
      /\ calls' = [calls EXCEPT ![d] =
           [i \in DOMAIN others |-> bundle_call(UserOf(d), {others[i]}, FALSE)]
           \o [i \in DOMAIN friends |-> bundle_call(UserOf(friends[i]), UserOf(friends[i]), FALSE)]]
      /\ listed' = [listed EXCEPT ![d] = Len(friends)]
      /\ hasty' = (hasty \/ ~Settled)
      /\ UNCHANGED <<removed, session_record, session, pending_plaintext, proto_msg,
                     n_invites, composed, due, handed>>

(* invite: to all devices of a user, and the other devices of ours are told. *)
invite(d, u) ==
  /\ MayRun(d)
  /\ <<d, u>> \in Inviting
  /\ n_invites[UserOf(d)] < MaxInvites
  /\ n_invites' = [n_invites EXCEPT ![UserOf(d)] = @ + 1]
  /\ calls' = [calls EXCEPT ![d] = <<bundle_call(u, u, TRUE)>>]
  /\ hasty' = (hasty \/ ~Joined(d))
  /\ UNCHANGED <<user_data_set, removed, session_record, session, pending_plaintext,
                 proto_msg, listed, composed, due, handed>>

(***************************************************************************)
(* get_pre_key_bundle_internal: a session for each device the server has,  *)
(* except the own; send_sync_invite_msg passes the devices on.             *)
(***************************************************************************)
new_session_id(d, e) ==
  [from |-> d, to |-> e,
   n |-> Cardinality({id \in DOMAIN session[d] : id.from = d /\ id.to = e}) + 1]

get_pre_key_bundle_internal(d) ==
  LET call  == Head(calls[d])
      found == call.devices \cap Registered
      ids   == {new_session_id(d, e) : e \in found \ {d}}
      sync  == found # {} /\ call.active
      own   == other_own_devices(d)
  IN  /\ calls[d] # << >>
      /\ calls' = [calls EXCEPT ![d] = Tail(@)]
      /\ session' = [session EXCEPT ![d] =
           [id \in ids |-> FALSE] @@
           IF sync THEN unload_session(@, d, unknown_devices(d, own)) ELSE @]
      /\ proto_msg' = Post(proto_msg, {invite_msg(id) : id \in ids}
           \cup IF sync THEN sent_copies(d, own, "devices", found) ELSE {})
      /\ pending_plaintext' = [pending_plaintext EXCEPT ![d] =
           @ \cup IF sync THEN kept_copies(d, own, "devices", found) ELSE {}]
      /\ UNCHANGED <<user_data_set, removed, session_record, n_invites, listed, composed,
                     due, handed, hasty>>

(***************************************************************************)
(* The messages of the server, in order.                                   *)
(***************************************************************************)
Delivered(d, type) ==
  /\ MayRun(d)
  /\ proto_msg[d] # << >>
  /\ Head(proto_msg[d]).type = type

Processed(d) == [proto_msg EXCEPT ![d] = Tail(@)]

(* The invited end may send at once; the accept makes the server note the pair. *)
consume_invite_msg(d) ==
  LET id == Head(proto_msg[d]).session_id
  IN  /\ Delivered(d, "invite")
      /\ session' = [session EXCEPT ![d] = (id :> TRUE) @@ @]
      /\ proto_msg' = Post(Processed(d), {accept_msg(id)})
      /\ session_record' = session_record \cup {{d, id.from}}
      /\ UNCHANGED <<user_data_set, removed, calls, pending_plaintext, n_invites, listed,
                     composed, due, handed, hasty>>

(* Mutant: what was kept is not found. *)
no_pending_plaintext_data(d, their_address) == {}

load_pending_plaintext_data(d, their_address) ==
  {p \in pending_plaintext[d] : p.to = their_address}

(* The accept completes the session, and what was kept for the device leaves
   over it, for whichever of its sessions it was kept. *)
consume_accept_msg(d) ==
  LET id   == Head(proto_msg[d]).session_id
      kept == load_pending_plaintext_data(d, id.to)
      gone == IF kept # {} THEN {id.to} \ Registered ELSE {}
  IN  /\ Delivered(d, "accept")
      /\ IF id \in DOMAIN session[d]
         THEN /\ session' = [session EXCEPT ![d] =
                               unload_session([@ EXCEPT ![id] = TRUE], d, gone)]
              /\ proto_msg' = Post(Processed(d), {one2one_msg(d, id, p.copy) : p \in kept})
              /\ pending_plaintext' = [pending_plaintext EXCEPT ![d] = @ \ kept]
         ELSE /\ proto_msg' = Processed(d)
              /\ UNCHANGED <<session, pending_plaintext>>
      /\ UNCHANGED <<user_data_set, removed, session_record, calls, n_invites, listed,
                     composed, due, handed, hasty>>

(* Mutant: the devices passed on are passed on again. *)
passed_on_again(d, devices) ==
  [i \in 1..Cardinality(devices) |->
     LET e == SetToSeq(devices)[i] IN bundle_call(UserOf(e), {e}, TRUE)]

(* USER_DEVICES_BUNDLE: the bundle of each device is asked for. *)
devices_bundle(d, devices) ==
  [i \in 1..Cardinality(devices) |->
     LET e == SetToSeq(devices)[i] IN bundle_call(UserOf(e), {e}, FALSE)]

(* consume_one2one_msg, by the kind of the plaintext; without its session the
   message is consumed all the same. *)
consume_one2one_msg(d) ==
  LET msg   == Head(proto_msg[d])
      opens == msg.session_id \in DOMAIN session[d] /\ session[d][msg.session_id]
  IN  /\ Delivered(d, "one2one")
      /\ proto_msg' = Processed(d)
      /\ calls' = IF opens /\ msg.copy.kind = "devices"
                  THEN [calls EXCEPT ![d] = devices_bundle(d, msg.copy.content)]
                  ELSE calls
      /\ handed' = IF opens /\ msg.copy.kind # "devices"
                   THEN [handed EXCEPT ![d] = @ (+) SetToBag({msg.copy})]
                   ELSE handed
      /\ UNCHANGED <<user_data_set, removed, session_record, session, pending_plaintext,
                     n_invites, listed, composed, due, hasty>>

(* Mutant: the message is taken only if there is a session to remove. *)
consume_remove_with_session(d) ==
  /\ Delivered(d, "remove")
  /\ SessionsWith(d, {Head(proto_msg[d]).device}) # {}
  /\ session' = [session EXCEPT ![d] = unload_session(@, d, {Head(proto_msg[d]).device})]
  /\ proto_msg' = Processed(d)
  /\ UNCHANGED <<user_data_set, removed, session_record, calls, pending_plaintext,
                 n_invites, listed, composed, due, handed, hasty>>

consume_remove_user_device_msg(d) ==
  /\ Delivered(d, "remove")
  /\ session' = [session EXCEPT ![d] = unload_session(@, d, {Head(proto_msg[d]).device})]
  /\ proto_msg' = Processed(d)
  /\ UNCHANGED <<user_data_set, removed, session_record, calls, pending_plaintext,
                 n_invites, listed, composed, due, handed, hasty>>

(***************************************************************************)
(* send_one2one_msg, with send_sync_msg at its end.                        *)
(***************************************************************************)
send_one2one_msg(d, u) ==
  LET p    == composed + 1
      own  == other_own_devices(d)
      none == {[to |-> NoDevice, copy |-> Copy("common", p, NoDevice)]}
  IN  /\ MayRun(d)
      /\ <<d, u>> \in Sending
      /\ composed < MaxMsgs
      /\ composed' = p
      /\ proto_msg' = Post(proto_msg, sent_copies(d, u, "common", p) \cup sent_copies(d, own, "sync", p))
      /\ pending_plaintext' = [pending_plaintext EXCEPT ![d] = @
           \cup (IF SessionsWith(d, u) = {} THEN none ELSE kept_copies(d, u, "common", p))
           \cup kept_copies(d, own, "sync", p)]
      /\ session' = [session EXCEPT ![d] = unload_session(@, d, unknown_devices(d, u \cup own))]
      /\ due' = due
           \cup {[from |-> d, to |-> Their(d, id), copy |-> Copy("common", p, id)] :
                   id \in SessionsWith(d, u)}
           \cup {[from |-> d, to |-> Their(d, id), copy |-> Copy("sync", p, id)] :
                   id \in SessionsWith(d, own)}
      /\ UNCHANGED <<user_data_set, removed, session_record, calls, n_invites, listed, handed, hasty>>

(* The server forgets a device, which stops there, and tells the others. *)
remove_user_device(e) ==
  /\ e \in Removable \cap Registered
  /\ user_data_set' = SelectSeq(user_data_set, LAMBDA d : d # e)
  /\ removed' = removed \cup {e}
  /\ calls' = [calls EXCEPT ![e] = << >>]
  /\ proto_msg' = Post(proto_msg, {remove_user_device_msg(d, e) : d \in Registered \ {e}})
  /\ UNCHANGED <<session_record, session, pending_plaintext, n_invites, listed, composed,
                 due, handed, hasty>>

Next ==
  \/ \E d \in Device :
       \/ register_user(d)
       \/ get_pre_key_bundle_internal(d)
       \/ consume_invite_msg(d)
       \/ consume_accept_msg(d)
       \/ consume_one2one_msg(d)
       \/ consume_remove_user_device_msg(d)
       \/ remove_user_device(d)
       \/ \E u \in User : invite(d, u) \/ send_one2one_msg(d, u)

Spec == Init /\ [][Next]_vars

(* An operation under way goes on, and the thread that reads from the server
   takes the next message. *)
Fairness ==
  \A d \in Device :
    /\ WF_vars(get_pre_key_bundle_internal(d))
    /\ WF_vars(\/ consume_invite_msg(d)
               \/ consume_accept_msg(d)
               \/ consume_one2one_msg(d)
               \/ consume_remove_user_device_msg(d))

FairSpec == Spec /\ Fairness

-----------------------------------------------------------------------------

Friends(u, v) == u = v \/ \E d \in u, e \in v : Shared(d, e)

(* However invitations cross and are passed on, in the end every two devices of
   users who are connected share a session to send over: the devices of one user
   among themselves, and all those of two users as soon as two of them do
   (consume_register_response, send_sync_invite_msg).  Only a device that
   registers while something is under way, or invites before it is connected to
   its own other devices, can leave a gap. *)
Meshed ==
  Settled /\ ~hasty => \A u, v \in User : Friends(u, v) =>
    \A d \in u \cap Registered, e \in v \cap Registered : d # e => Shared(d, e)

(* The messages that make the devices invite each other do not make more of
   their kind: two devices of one user share one session, and one device has
   another's bundle no more often than its user invited and the server named
   friends (active in get_pre_key_bundle_internal). *)
InvitesBounded ==
  \A d, e \in Device : d # e =>
    Cardinality({id \in DOMAIN session[d] : id.from = d /\ id.to = e}) <=
      IF UserOf(d) = UserOf(e) THEN 1 ELSE n_invites[UserOf(d)] + listed[d]

(* No application gets a copy twice, or one that is not meant for its device:
   a sync message stays with the user's other devices, and what was kept for
   several sessions leaves once (send_pending_plaintext_data). *)
CopiedOnce ==
  \A d \in Device : \A c \in DOMAIN handed[d] :
    /\ handed[d][c] = 1
    /\ \E x \in due : x.to = d /\ x.copy = c /\ x.from # d

(* A plaintext is kept for a device only while a session with it waits for its
   accept, so that something will make it leave. *)
KeptWhileWaiting ==
  \A d \in Registered : \A p \in pending_plaintext[d] :
    p.to \in Registered => \E id \in DOMAIN session[d] : id.to = p.to /\ ~session[d][id]

(* When all devices have heard of it, none has a session with a device that the
   server removed, not even from an invitation or a list of devices that was
   under way (consume_remove_user_device_msg). *)
RemovedForgotten ==
  Settled => \A d \in Registered : SessionsWith(d, removed) = {}

(* Every device of the other user, and every other device of the sender's user,
   with which the sender had a session gets its copy, answered or not when the
   message was sent, as long as both devices stay: time and again nothing is
   outstanding. *)
EventuallyCopied ==
  []<>(\A x \in due : x.copy \in DOMAIN handed[x.to] \/ {x.from, x.to} \cap removed # {})

(* The devices do not keep each other busy: registrations and invitations come
   to an end. *)
SettlesAgain == []<>Settled
=============================================================================
