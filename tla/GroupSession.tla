---------------------------- MODULE GroupSession ----------------------------
(***************************************************************************)
(* One group: its creation, the members added, removed and leaving, and    *)
(* the messages sent to it (src/group_session.c,                           *)
(* src/group_session_manager.c and the group calls of src/e2ees_client.c). *)
(*                                                                         *)
(* Every member sends on a chain of its own, which the others follow with  *)
(* an inbound group session.  Whoever creates the group, or removes a      *)
(* member from it, draws a session id and a seed that all chains start     *)
(* from and sends them to the members one by one; a new member instead     *)
(* gets the current chains of the others.                                  *)
(*                                                                         *)
(* Groups are of users, who are named after their first device; further    *)
(* devices of theirs may register at any time and are then added to the    *)
(* group by a device that has it.  One-to-one sessions are established, or *)
(* delay what is sent to a new device.  A call ends with the server's      *)
(* answer before its device takes a message.  A message key stands for the *)
(* chain key it is made of.                                                *)
(***************************************************************************)
EXTENDS Naturals, FiniteSets, Sequences, SequencesExt

CONSTANTS Device,       \* the users' devices
          Late,         \* the pairs <<e, d>>: e is a further device of d's user
          Creator,      \* creates the group, and is its manager
          Founders,     \* the members it creates the group with, a sequence
          Adding,       \* the pairs <<d, s>>: d may add the devices of s
          Removing,     \* the pairs <<d, x>>: d may remove x
          Leaving,      \* the devices that may leave
          Lossy,        \* the devices whose requests, or the answers to them, may be lost
          Ordered,      \* a device gets its messages in the order they were posted
          Redelivered,  \* the types of messages the server may deliver again
          MaxSeeds,     \* bound: sessions of the group
          MaxCalls,     \* bound: what the applications do once the group is there
          MaxMsgs,      \* bound: group messages
          MaxLost       \* bound: lost requests and answers

UserOf(d) == IF \E m \in Device : <<d, m>> \in Late
             THEN CHOOSE m \in Device : <<d, m>> \in Late ELSE d

ASSUME GroupAssumption ==
  /\ Late \subseteq Device \X Device
  /\ \A pair \in Late : UserOf(pair[2]) = pair[2]
  /\ Creator \in Device
  /\ Founders \in Seq(Device) /\ Contains(Founders, Creator)
  /\ Adding \subseteq Device \X Seq(Device)
  /\ Removing \subseteq Device \X Device
  /\ Leaving \subseteq Device \ {Creator}
  /\ Lossy \subseteq Device
  /\ Ordered \in BOOLEAN
  /\ Redelivered \subseteq {"create", "add", "remove", "leave", "group_msg"}
  /\ MaxSeeds \in Nat /\ MaxCalls \in Nat /\ MaxMsgs \in Nat /\ MaxLost \in Nat

VARIABLES
  user_data_set,          \* at the server: the devices in the order they registered
  group,                  \* at the server: the members, empty before the group is created
  device_invited_record,  \* at the server: the devices added by add_group_member_device
  rows,                   \* the rows of GROUP_SESSION of each device
  pending,                \* the requests to add a device that each device has kept
  net,                    \* the messages on their way to each device
  posted,                 \* the group messages the server has taken
  handed,                 \* how often a device handed each group message to its application
  n_seeds,                \* sessions so far: a number is a session's id and its seed
  n_calls,                \* what the applications have done since
  n_lost,                 \* requests and answers lost so far
  disturbed,              \* history: a request or an answer was lost, or two things crossed
  readded                 \* history: a device was added that had come with its user before

vars == <<user_data_set, group, device_invited_record, rows, pending, net, posted, handed,
          n_seeds, n_calls, n_lost, disturbed, readded>>

(* What only a new device changes. *)
devices == <<user_data_set, device_invited_record, pending>>

history == <<n_lost, disturbed, readded>>

Init ==
  /\ user_data_set = SetToSeq({d \in Device : UserOf(d) = d})
  /\ device_invited_record = {}
  /\ pending = [d \in Device |-> {}]
  /\ group = << >>
  /\ rows = [d \in Device |-> {}]
  /\ net = [d \in Device |-> << >>]
  /\ posted = {}
  /\ handed = [d \in Device |-> [n \in 1..MaxMsgs |-> 0]]
  /\ n_seeds = 0
  /\ n_calls = 0
  /\ n_lost = 0
  /\ disturbed = FALSE
  /\ readded = FALSE

-----------------------------------------------------------------------------
(* A chain key: the seed and the member its chain started from, and the
   derivations since. *)
NoChain == [seed |-> 0, of |-> Creator, steps |-> << >>]

root(seed, d) == [seed |-> seed, of |-> d, steps |-> << >>]

advance_group_chain_key(c) == [c EXCEPT !.steps = Append(@, "next")]

advance_group_chain_key_by_welcome(c) == [c EXCEPT !.steps = Append(@, "welcome")]

advance_group_chain_key_by_add(c) == [c EXCEPT !.steps = Append(@, "add")]

(* The chain of the adder after i members, and the chain of the i-th of them. *)
after_members(c, i) ==
  [c EXCEPT !.steps = @ \o [k \in 1..(2 * i) |-> IF k % 2 = 1 THEN "welcome" ELSE "add"]]

their_chain_key(c, i) == advance_group_chain_key_by_welcome(after_members(c, i - 1))

(* The loop that catches up with the sender of a message. *)
catch_up(r, sequence) ==
  IF r.sequence < sequence
  THEN [r EXCEPT !.chain.steps = @ \o [i \in 1..(sequence - r.sequence) |-> "next"],
                 !.sequence = sequence]
  ELSE r

-----------------------------------------------------------------------------
(***************************************************************************)
(* The rows of a device: id is 0 for the empty session id, seed 0 for no   *)
(* group seed, ad tells whether the associated data is there.  The row     *)
(* whose sender is the device itself is its outbound group session.        *)
(***************************************************************************)
Row(id, sender, chain, sequence, members) ==
  [id |-> id, sender |-> sender, chain |-> chain, sequence |-> sequence,
   seed |-> 0, ad |-> TRUE, members |-> members]

NoRow == [id |-> 0, sender |-> Creator, chain |-> NoChain, sequence |-> 0,
          seed |-> 0, ad |-> FALSE, members |-> << >>]

is_valid_group_session(r) == r.id # 0 /\ r.chain # NoChain /\ r.ad

is_valid_group_session_by_member_id(r) == r.ad

is_valid_group_session_by_pre_key_bundle(r) == r.id # 0 /\ r.seed # 0

(* Mutant: a row is inserted, and replaces none. *)
insert_group_session(S, r) == S \cup {r}

(* A row replaces the row with its id and sender, and the row of the sender
   that has no id. *)
store_group_session(S, r) ==
  {q \in S : ~ (q.sender = r.sender /\ q.id \in {0, r.id})} \cup {r}

(* The same for several rows, of different senders. *)
store_all(S, new) ==
  {q \in S : \A r \in new : ~ (q.sender = r.sender /\ q.id \in {0, r.id})} \cup new

(* Which of several rows a query returns first is up to the database. *)
load_group_session_by_address(d, sender) ==
  LET found == {r \in rows[d] : r.sender = sender}
  IN  IF found = {} THEN {NoRow} ELSE found

load_group_session_by_id(d, sender, id) ==
  LET found == {r \in rows[d] : r.sender = sender /\ r.id = id}
  IN  IF found = {} THEN {NoRow} ELSE found

unload_group_session_by_id(S, id) == {r \in S : r.id # id}

-----------------------------------------------------------------------------
(* What is posted to the devices: to[d] goes to d, in that order. *)
Nothing == [d \in Device |-> << >>]

To(ds, msg) == [d \in Device |-> IF d \in ds THEN <<msg>> ELSE << >>]

Then(out1, out2) == [d \in Device |-> out1[d] \o out2[d]]

Post(out) == net' = Then(net, out)

(* The devices of the users in a list, which the server sends along
   (member_info_list). *)
DevicesOf(list) ==
  FlattenSeq([i \in DOMAIN list |-> SelectSeq(user_data_set, LAMBDA d : UserOf(d) = list[i])])

Without(list, d) == SelectSeq(list, LAMBDA x : x # d)

(***************************************************************************)
(* new_outbound_group_session_by_sender: a new session of the group, whose *)
(* seed goes to the members of the list; infos are the members whose       *)
(* public keys the server sent along.                                      *)
(***************************************************************************)
(* Mutant: every session has the seed of the first. *)
same_group_seed(id) == 1

new_group_seed(id) == id

group_pre_key_bundle(d, id, old_id, list) ==
  [type |-> "pre_key_bundle", from |-> d, id |-> id, seed |-> new_group_seed(id),
   old |-> old_id, members |-> list]

new_and_complete_inbound_group_session(id, seed, m, list) ==
  Row(id, m, root(seed, m), 0, list)

new_outbound_group_session_by_sender(S, d, id, infos, list) ==
  store_all(S, {new_and_complete_inbound_group_session(id, new_group_seed(id), m, list) :
                  m \in Range(infos) \ {d}}
               \cup {Row(id, d, root(new_group_seed(id), d), 0, list)})

(***************************************************************************)
(* How a request ends: the server did it and said so, or did it and the    *)
(* answer was lost, or never saw the request.                              *)
(***************************************************************************)
Outcome == IF Lossy = {} THEN {"ok"} ELSE {"ok", "unanswered", "lost"}

Ends(d, outcome, crossed) ==
  /\ outcome # "ok" => d \in Lossy /\ n_lost < MaxLost
  /\ n_lost' = IF outcome = "ok" THEN n_lost ELSE n_lost + 1
  /\ disturbed' = (disturbed \/ outcome # "ok" \/ crossed)

Call == n_calls < MaxCalls /\ n_calls' = n_calls + 1

(* create_group. *)
create_group(outcome) ==
  LET infos  == DevicesOf(Founders)
      others == Range(infos) \ {Creator}
      msg    == To(others, [type |-> "create", from |-> Creator, members |-> Founders,
                            infos |-> infos])
  IN  /\ n_seeds = 0
      /\ n_seeds' = 1
      /\ group' = Founders
      /\ \/ /\ outcome = "ok"
            /\ rows' = [rows EXCEPT ![Creator] =
                 new_outbound_group_session_by_sender(@, Creator, 1, infos, Founders)]
            /\ Post(Then(msg, To(others, group_pre_key_bundle(Creator, 1, 0, Founders))))
         \/ /\ outcome = "unanswered"
            /\ Post(msg)
            /\ UNCHANGED rows
      /\ Ends(Creator, outcome, FALSE)
      /\ UNCHANGED <<devices, posted, handed, n_calls, readded>>

-----------------------------------------------------------------------------
(***************************************************************************)
(* Messages are handled one at a time.  The server may deliver one again,  *)
(* behind what it has posted since.                                        *)
(***************************************************************************)
(* What is sent to a new device may wait until its session is accepted, and
   other messages go past it. *)
Waiting(d, i) == UserOf(d) # d /\ net[d][i].type = "update_key_bundle"

Arrived(d, type) ==
  {i \in DOMAIN net[d] : /\ net[d][i].type = type
                         /\ Ordered => \A k \in 1..(i - 1) : Waiting(d, k)}

OnItsWay(d, type) == \E i \in DOMAIN net[d] : net[d][i].type = type

(* What may be on the way once d has taken its i-th message. *)
Taken(d, i) ==
  LET left == [net EXCEPT ![d] = RemoveAt(@, i)]
  IN  {left} \cup {Then(left, To({d}, m)) : m \in {m \in {net[d][i]} : m.type \in Redelivered}}

(* d has taken its i-th message, and out is posted. *)
Handled(d, i, out) == \E left \in Taken(d, i) : net' = Then(left, out)

new_inbound_group_session_by_member_id(m, list) == Row(0, m, NoChain, 0, list)

by_member_ids(S, d, infos, list) ==
  store_all(S, {new_inbound_group_session_by_member_id(m, list) : m \in Range(infos) \ {d}})

(***************************************************************************)
(* consume_create_group_msg where the bundle came first: the list is run   *)
(* through in order.  Completing the session of the creator frees the      *)
(* seed, so that the members behind the creator get no session, and the    *)
(* device no outbound one.                                                 *)
(***************************************************************************)
complete_inbound_group_session_by_member_id(r) ==
  [r EXCEPT !.chain = root(r.seed, r.sender), !.seed = 0, !.ad = TRUE]

completed_by_create_msg(S, d, r, infos) ==
  LET at     == CHOOSE i \in DOMAIN infos : infos[i] = r.sender
      before == Range(SubSeq(infos, 1, at - 1)) \ {d}
  IN  store_all(S, {new_and_complete_inbound_group_session(r.id, r.seed, m, r.members) :
                      m \in before}
                   \cup {complete_inbound_group_session_by_member_id(r)})

consume_create_group_msg(d, i) ==
  LET msg == net[d][i]
  IN  /\ \E r \in load_group_session_by_address(d, msg.from) :
           rows' = [rows EXCEPT ![d] =
             IF r = NoRow THEN by_member_ids(@, d, msg.infos, msg.members)
             ELSE IF is_valid_group_session_by_pre_key_bundle(r)
             THEN completed_by_create_msg(@, d, r, msg.infos)
             ELSE @]
      /\ Handled(d, i, Nothing)
      /\ UNCHANGED <<devices, group, posted, handed, n_seeds, n_calls, history>>

(***************************************************************************)
(* consume_one2one_msg with a group pre-key bundle: the sessions of the    *)
(* replaced id go; the ones left of the other members start anew from the  *)
(* seed, and the device gets an outbound session.  Where none is left, the *)
(* seed is kept in a session of its sender.                                *)
(***************************************************************************)
complete_inbound_group_session_by_pre_key_bundle(r, msg) ==
  [r EXCEPT !.id = msg.id, !.sequence = 0, !.chain = root(msg.seed, r.sender)]

new_inbound_group_session_by_pre_key_bundle(msg) ==
  [Row(msg.id, msg.from, NoChain, 0, msg.members) EXCEPT !.seed = msg.seed, !.ad = FALSE]

unload_old_session_id(S, old_id) ==
  IF old_id = 0 THEN S ELSE unload_group_session_by_id(S, old_id)

consume_group_pre_key_bundle(d, i) ==
  LET msg     == net[d][i]
      left    == unload_old_session_id(rows[d], msg.old)
      others  == {r \in left : r.sender # d /\ is_valid_group_session_by_member_id(r)}
      senders == {r.sender : r \in others}
  IN  /\ \/ /\ left = {}
            /\ rows' = [rows EXCEPT ![d] =
                 store_group_session(left, new_inbound_group_session_by_pre_key_bundle(msg))]
         \/ /\ left # {}
            /\ \E last \in [senders -> others] :
                 /\ \A s \in senders : last[s].sender = s
                 /\ rows' = [rows EXCEPT ![d] = store_group_session(
                      store_all(left,
                        {complete_inbound_group_session_by_pre_key_bundle(last[s], msg) :
                           s \in senders}),
                      Row(msg.id, d, root(msg.seed, d), 0, msg.members))]
      /\ Handled(d, i, Nothing)
      /\ UNCHANGED <<devices, group, posted, handed, n_seeds, n_calls, history>>

-----------------------------------------------------------------------------
(***************************************************************************)
(* renew_outbound_group_session_by_welcome_and_add: with the chain of the  *)
(* adder, sender_chain, the new members' chains are derived; the device's  *)
(* own chain and the ones it follows are advanced, and all start counting  *)
(* anew.  The new members are sent the device's chain as it was.           *)
(***************************************************************************)
group_update_key_bundle(r, adding, infos, list) ==
  [type |-> "update_key_bundle", from |-> r.sender, id |-> r.id, chain |-> r.chain,
   adding |-> adding, infos |-> infos, members |-> list]

renew_inbound_group_session(r, adder, sender_chain, list) ==
  [r EXCEPT !.chain = IF r.sender = adder THEN sender_chain
                      ELSE advance_group_chain_key_by_add(@),
            !.sequence = 0, !.members = list]

renew_group_sessions(S, d, r, adder, own_chain, adder_chain, infos, list) ==
  LET sender_chain == after_members(adder_chain, Len(infos))
      own     == store_group_session(S, [r EXCEPT !.chain = own_chain, !.sequence = 0,
                                                  !.members = list])
      inbound == {q \in own : q.sender # d /\ is_valid_group_session(q)}
      renewed == {renew_inbound_group_session(q, adder, sender_chain, list) : q \in inbound}
  IN  store_all(store_all(own, renewed),
                {Row(r.id, infos[i], their_chain_key(adder_chain, i), 0, list) :
                   i \in DOMAIN infos})

(* What the adder, and what another member, makes of the new devices. *)
renewed_by_adder(S, d, r, infos, list) ==
  renew_group_sessions(S, d, r, d, after_members(r.chain, Len(infos)), r.chain, infos, list)

renewed_by_member(S, d, r, q, msg, list) ==
  renew_group_sessions(S, d, r, msg.from, advance_group_chain_key_by_add(r.chain),
                       catch_up(q, msg.sequence).chain, msg.infos, list)

(* Other members renew the sessions that d uses, or a new device is joining. *)
Renewed(d) ==
  \/ OnItsWay(d, "add")
  \/ \E e \in Device : \/ OnItsWay(e, "add_device")
                        \/ (UserOf(e) # e /\ OnItsWay(e, "update_key_bundle"))

(* A renewal by d while another one is under way, or with a session that is
   being replaced, or behind the sender of a group message, derives other chains
   than the rest of the group. *)
Crossing(d) ==
  \/ \E e \in Device : \E type \in {"add", "add_device", "update_key_bundle"} : OnItsWay(e, type)
  \/ \E type \in {"remove", "pre_key_bundle", "group_msg"} : OnItsWay(d, type)

(* add_group_members. *)
add_group_members(d, added, outcome) ==
  \E r \in load_group_session_by_address(d, d) :
    LET list  == group \o added
        infos == DevicesOf(added)
        msg   == To(Range(DevicesOf(list)) \ {d},
                    [type |-> "add", from |-> d, sequence |-> r.sequence, added |-> added,
                     infos |-> infos])
    IN  /\ <<d, added>> \in Adding
        /\ Range(added) \cap Range(group) = {}
        /\ Call
        /\ is_valid_group_session(r)
        /\ Ends(d, outcome, Crossing(d))
        /\ group' = list
        /\ \/ /\ outcome = "ok"
              /\ rows' = [rows EXCEPT ![d] = renewed_by_adder(@, d, r, infos, r.members \o added)]
              /\ Post(Then(msg, To(Range(infos) \ {d},
                     group_update_key_bundle(r, TRUE, infos, r.members \o added))))
           \/ /\ outcome = "unanswered"
              /\ Post(msg)
              /\ UNCHANGED rows
        /\ UNCHANGED <<devices, posted, handed, n_seeds, readded>>

(* A device with no session to renew ignores the message. *)
consume_add_group_members_msg(d, i) ==
  LET msg == net[d][i]
  IN  /\ \E r \in load_group_session_by_address(d, d) :
           \E q \in load_group_session_by_id(d, msg.from, r.id) :
             LET list == r.members \o msg.added
             IN  IF is_valid_group_session(r) /\ is_valid_group_session(q)
                 THEN /\ rows' = [rows EXCEPT ![d] = renewed_by_member(@, d, r, q, msg, list)]
                      /\ Handled(d, i, To(Range(msg.infos) \ {d},
                                          group_update_key_bundle(r, FALSE, msg.infos, list)))
                 ELSE Handled(d, i, Nothing) /\ UNCHANGED rows
      /\ UNCHANGED <<devices, group, posted, handed, n_seeds, n_calls, history>>

(***************************************************************************)
(* A further device of a user: the server tells the others, and each that  *)
(* has a group with one of the user's old devices asks to add it.  The     *)
(* first of them does what an adder of members does, for one device and    *)
(* with the list of members as it is; the server refuses the rest.         *)
(***************************************************************************)
register_user(e) ==
  /\ UserOf(e) # e
  /\ ~ Contains(user_data_set, e)
  /\ Call
  /\ user_data_set' = Append(user_data_set, e)
  /\ Post(To(Range(user_data_set),
             [type |-> "new_device", device |-> e, old |-> Range(DevicesOf(<<UserOf(e)>>))]))
  /\ UNCHANGED <<device_invited_record, pending, group, rows, posted, handed, n_seeds, history>>

(* The server's part; the sequence is the one of the request. *)
add_group_member_device_msg(d, e, sequence) ==
  To(Range(DevicesOf(group)) \ {d},
     [type |-> "add_device", from |-> d, sequence |-> sequence, infos |-> <<e>>])

(* Mutant: the chain goes to the new device, and stays as it was. *)
keep_group_sessions(S, d, r, e) == S

consume_add_group_member_device_response(S, d, r, e) ==
  renewed_by_adder(S, d, r, <<e>>, r.members)

(* x has a session of e, or will be told of it. *)
Knows(x, e) ==
  \/ \E r \in rows[x] : r.sender = e
  \/ \E i \in DOMAIN net[x] : /\ net[x][i].type \in {"create", "add", "remove"}
                              /\ Contains(net[x][i].infos, e)

(***************************************************************************)
(* The request of d to add e, as first made or as kept: with the answer    *)
(* the sessions are renewed.  left is what of the queues remains.  Only a  *)
(* request without a good answer is kept.                                  *)
(***************************************************************************)
request_add_device(d, r, e, sequence, outcome, queues) ==
  LET reaches == outcome # "lost" /\ e \notin device_invited_record
      ok      == outcome = "ok" /\ reaches /\ is_valid_group_session(r)
      out     == IF reaches THEN add_group_member_device_msg(d, e, sequence) ELSE Nothing
  IN  /\ Ends(d, outcome, reaches /\ Crossing(d))
      /\ device_invited_record' =
           IF reaches THEN device_invited_record \cup {e} ELSE device_invited_record
      /\ rows' = IF ok
                 THEN [rows EXCEPT ![d] = consume_add_group_member_device_response(@, d, r, e)]
                 ELSE rows
      /\ \E left \in queues : net' = Then(Then(left, out),
           IF ok THEN To({e}, group_update_key_bundle(r, TRUE, <<e>>, r.members)) ELSE Nothing)
      /\ readded' = (readded \/ (reaches /\ \E x \in Device : Knows(x, e)))

consume_add_user_device_msg(d, i, outcome) ==
  LET msg == net[d][i]
      e   == msg.device
  IN  /\ \E r \in load_group_session_by_address(d, d) :
           \/ /\ \E q \in rows[d] : q.sender \in msg.old
              /\ is_valid_group_session(r)
              /\ request_add_device(d, r, e, r.sequence, outcome, Taken(d, i))
              /\ pending' = IF outcome = "ok" /\ e \notin device_invited_record THEN pending
                  ELSE [pending EXCEPT ![d] = @ \cup {[device |-> e, sequence |-> r.sequence]}]
           \/ /\ \/ \A q \in rows[d] : q.sender \notin msg.old
                 \/ ~ is_valid_group_session(r)
              /\ Handled(d, i, Nothing)
              /\ UNCHANGED <<device_invited_record, rows, pending, history>>
      /\ UNCHANGED <<user_data_set, group, posted, handed, n_seeds, n_calls>>

(* resend_pending_request: refused or answered, the request goes. *)
resend_add_group_member_device(d, request, outcome) ==
  /\ request \in pending[d]
  /\ \E r \in load_group_session_by_address(d, d) :
       request_add_device(d, r, request.device, request.sequence, outcome, {net})
  /\ pending' = IF outcome = "ok" THEN [pending EXCEPT ![d] = @ \ {request}] ELSE pending
  /\ UNCHANGED <<user_data_set, group, posted, handed, n_seeds, n_calls>>

consume_add_group_member_device_msg(d, i) ==
  LET msg == net[d][i]
  IN  /\ \E r \in load_group_session_by_address(d, d) :
           \E q \in load_group_session_by_id(d, msg.from, r.id) :
             IF is_valid_group_session(r) /\ is_valid_group_session(q)
             THEN /\ rows' = [rows EXCEPT ![d] = renewed_by_member(@, d, r, q, msg, r.members)]
                  /\ Handled(d, i, To(Range(msg.infos) \ {d},
                                      group_update_key_bundle(r, FALSE, msg.infos, r.members)))
             ELSE Handled(d, i, Nothing) /\ UNCHANGED rows
      /\ UNCHANGED <<devices, group, posted, handed, n_seeds, n_calls, history>>

(***************************************************************************)
(* consume_one2one_msg with a group update key bundle: from the adder it   *)
(* carries what the outbound session and the sessions of the other new     *)
(* members start from; the session of its sender starts with its chain.    *)
(***************************************************************************)
new_outbound_group_session_invited(S, msg) ==
  store_all(S, {Row(msg.id, msg.infos[i], their_chain_key(msg.chain, i), 0, msg.members) :
                  i \in DOMAIN msg.infos})

new_and_complete_inbound_group_session_with_ratchet_state(S, msg) ==
  store_group_session(S,
    Row(msg.id, msg.from,
        IF msg.adding THEN after_members(msg.chain, Len(msg.infos))
        ELSE advance_group_chain_key_by_add(msg.chain),
        0, msg.members))

consume_group_update_key_bundle(d, i) ==
  LET msg == net[d][i]
  IN  /\ rows' = [rows EXCEPT ![d] =
           new_and_complete_inbound_group_session_with_ratchet_state(
             IF msg.adding THEN new_outbound_group_session_invited(@, msg) ELSE @, msg)]
      /\ Handled(d, i, Nothing)
      /\ UNCHANGED <<devices, group, posted, handed, n_seeds, n_calls, history>>

-----------------------------------------------------------------------------
(***************************************************************************)
(* remove_group_members_from_group_info copies all but the removed member  *)
(* into a list one shorter.  If the member is not there, the copy of the   *)
(* last one is written behind the end of the list, which does not have it. *)
(***************************************************************************)
remove_from_list(list, x) ==
  IF Contains(list, x) THEN Without(list, x) ELSE SubSeq(list, 1, Len(list) - 1)

(* Two lists of one length count as equal when all but the last of the
   first are in the second. *)
compare_group_member(list1, list2) ==
  /\ Len(list1) = Len(list2)
  /\ \A i \in 1..(Len(list1) - 1) : Contains(list2, list1[i])

(***************************************************************************)
(* remove_group_members with the answer, as the call of d or, for a member *)
(* that leaves, of its handler: left and the server's list are of one      *)
(* length, and infos has the first of left.  The group gets a new session, *)
(* unless d has removed itself.  An empty list is an invalid answer.       *)
(* The messages go behind what is on the way, one of queues.               *)
(***************************************************************************)
new_session_without(d, r, left, infos) ==
  LET rest == unload_group_session_by_id(rows[d], r.id)
  IN  rows' = [rows EXCEPT ![d] =
        IF Contains(left, UserOf(d))
        THEN new_outbound_group_session_by_sender(rest, d, n_seeds + 1, infos, left)
        ELSE rest]

remove_group_members(d, r, x, outcome, queues) ==
  LET left  == remove_from_list(group, x)
      list  == remove_from_list(r.members, x)
      infos == DevicesOf(SubSeq(list, 1, Len(left)))
      msg   == To((Range(DevicesOf(<<x>>)) \cup Range(infos)) \ {d},
                  [type |-> "remove", from |-> d, removed |-> x, members |-> list, infos |-> infos])
  IN  /\ group # << >> /\ Len(list) >= Len(left)
      /\ n_seeds < MaxSeeds
      /\ n_seeds' = n_seeds + 1
      /\ group' = left
      /\ \/ /\ outcome = "ok" /\ left # << >>
            /\ new_session_without(d, r, left, infos)
            /\ \E queue \in queues : net' = Then(Then(queue, msg),
                 IF Contains(left, UserOf(d))
                 THEN To(Range(DevicesOf(left)) \ {d},
                         group_pre_key_bundle(d, n_seeds + 1, r.id, left))
                 ELSE Nothing)
         \/ /\ outcome = "unanswered" \/ (outcome = "ok" /\ left = << >>)
            /\ \E queue \in queues : net' = Then(queue, msg)
            /\ UNCHANGED rows

call_remove_group_members(d, x, outcome) ==
  \E r \in load_group_session_by_address(d, d) :
    /\ <<d, x>> \in Removing
    /\ Contains(r.members, x)
    /\ is_valid_group_session(r)
    /\ Call /\ Ends(d, outcome, Renewed(d))
    /\ remove_group_members(d, r, x, outcome, {net})
    /\ UNCHANGED <<devices, posted, handed, readded>>

(***************************************************************************)
(* consume_remove_group_members_msg.  With a session of the sender that    *)
(* has the new list, the code goes on to complete sessions, which fails    *)
(* for want of a seed.                                                     *)
(***************************************************************************)
consume_remove_group_members_msg(d, i) ==
  LET msg == net[d][i]
  IN  /\ \/ /\ UserOf(d) = msg.removed
            /\ rows' = [rows EXCEPT ![d] = {}]
         \/ /\ UserOf(d) # msg.removed
            /\ \E r \in load_group_session_by_address(d, msg.from) :
                 rows' = [rows EXCEPT ![d] =
                   IF ~ is_valid_group_session(r)
                   THEN by_member_ids(@, d, msg.infos, msg.members)
                   ELSE IF compare_group_member(r.members, msg.members)
                   THEN @
                   ELSE by_member_ids(unload_group_session_by_id(@, r.id), d,
                                      msg.infos, msg.members)]
      /\ Handled(d, i, Nothing)
      /\ UNCHANGED <<devices, group, posted, handed, n_seeds, n_calls, history>>

(* leave_group, by a member or not, and again: the server copies the rest of
   the list, tells the manager, whom it takes to be there, and keeps its list. *)
leave_group(d, outcome) ==
  /\ d \in Leaving
  /\ Contains(remove_from_list(group, UserOf(d)), Creator)
  /\ Post(To({Creator}, [type |-> "leave", from |-> d]))
  /\ \/ outcome = "ok" /\ rows' = [rows EXCEPT ![d] = {}]
     \/ outcome = "unanswered" /\ UNCHANGED rows
  /\ Call /\ Ends(d, outcome, FALSE)
  /\ UNCHANGED <<devices, group, posted, handed, n_seeds, readded>>

(* consume_leave_group_msg: the manager removes the member, and keeps no request
   that was lost. *)
consume_leave_group_msg(d, i, outcome) ==
  \E r \in load_group_session_by_address(d, d) :
    /\ \/ /\ is_valid_group_session(r)
          /\ remove_group_members(d, r, UserOf(net[d][i].from), outcome, Taken(d, i))
       \/ /\ ~ is_valid_group_session(r) \/ outcome = "lost"
          /\ Handled(d, i, Nothing)
          /\ UNCHANGED <<group, rows, n_seeds>>
    /\ Ends(d, outcome, Renewed(d))
    /\ UNCHANGED <<devices, posted, handed, n_calls, readded>>

-----------------------------------------------------------------------------
(***************************************************************************)
(* send_group_msg: the outbound chain moves once the server has answered.  *)
(***************************************************************************)
(* Mutant: the key is kept, only the count goes on. *)
sent_with_same_key(r) == [r EXCEPT !.sequence = @ + 1]

consume_send_group_msg_response(r) ==
  [r EXCEPT !.chain = advance_group_chain_key(@), !.sequence = @ + 1]

send_group_msg(d, outcome) ==
  \E r \in load_group_session_by_address(d, d) :
    LET msg == [type |-> "group_msg", from |-> d, id |-> r.id, sequence |-> r.sequence,
                key |-> r.chain, n |-> Cardinality(posted) + 1]
    IN  /\ is_valid_group_session(r)
        /\ Cardinality(posted) < MaxMsgs
        /\ Call /\ Ends(d, outcome, Renewed(d))
        /\ posted' = posted \cup {[n |-> msg.n, key |-> msg.key,
             answered |-> outcome = "ok",
             members |-> {e \in Device : \/ Contains(r.members, UserOf(e))
                                         \/ \E q \in rows[d] : q.sender = e /\ q.id = r.id}]}
        /\ Post(To(Range(DevicesOf(group)) \ {d}, msg))
        /\ \/ /\ outcome = "ok"
              /\ rows' = [rows EXCEPT ![d] =
                   store_group_session(@, consume_send_group_msg_response(r))]
           \/ outcome = "unanswered" /\ UNCHANGED rows
        /\ UNCHANGED <<devices, group, handed, n_seeds, readded>>

(***************************************************************************)
(* consume_group_msg: nothing is stored unless the message opens.          *)
(***************************************************************************)
(* Mutant: the chain is left where the message opened. *)
stays_at_msg(r) == r

advance_inbound(r) == [r EXCEPT !.chain = advance_group_chain_key(@), !.sequence = @ + 1]

consume_group_msg(d, i) ==
  LET msg == net[d][i]
  IN  /\ \E r \in load_group_session_by_id(d, msg.from, msg.id) :
           LET at == catch_up(r, msg.sequence)
           IN  IF is_valid_group_session(r) /\ at.chain = msg.key
               THEN /\ rows' = [rows EXCEPT ![d] = store_group_session(@, advance_inbound(at))]
                    /\ handed' = [handed EXCEPT ![d][msg.n] = @ + 1]
               ELSE UNCHANGED <<rows, handed>>
      /\ Handled(d, i, Nothing)
      /\ UNCHANGED <<devices, group, posted, n_seeds, n_calls, history>>

-----------------------------------------------------------------------------
Next ==
  \/ \E outcome \in Outcome :
       \/ create_group(outcome)
       \/ \E pair \in Adding : add_group_members(pair[1], pair[2], outcome)
       \/ \E pair \in Removing : call_remove_group_members(pair[1], pair[2], outcome)
       \/ \E d \in Device :
            \/ leave_group(d, outcome)
            \/ send_group_msg(d, outcome)
            \/ \E i \in Arrived(d, "leave") : consume_leave_group_msg(d, i, outcome)
            \/ \E i \in Arrived(d, "new_device") : consume_add_user_device_msg(d, i, outcome)
            \/ \E request \in pending[d] : resend_add_group_member_device(d, request, outcome)
  \/ \E d \in Device :
       \/ register_user(d)
       \/ \E i \in Arrived(d, "create") : consume_create_group_msg(d, i)
       \/ \E i \in Arrived(d, "pre_key_bundle") : consume_group_pre_key_bundle(d, i)
       \/ \E i \in Arrived(d, "add") : consume_add_group_members_msg(d, i)
       \/ \E i \in Arrived(d, "add_device") : consume_add_group_member_device_msg(d, i)
       \/ \E i \in Arrived(d, "update_key_bundle") : consume_group_update_key_bundle(d, i)
       \/ \E i \in Arrived(d, "remove") : consume_remove_group_members_msg(d, i)
       \/ \E i \in Arrived(d, "group_msg") : consume_group_msg(d, i)

Spec == Init /\ [][Next]_vars

-----------------------------------------------------------------------------
Chain == [seed : 0..MaxSeeds, of : Device, steps : Seq({"next", "welcome", "add"})]

(* A row is found by its id and sender (the primary key of GROUP_SESSION),
   and keeps a seed only until it has a chain (complete_inbound_group_session_*
   "we do not store the seed secret in the session"). *)
TypeOK ==
  /\ group \in Seq(Device) /\ user_data_set \in Seq(Device)
  /\ device_invited_record \subseteq Range(user_data_set)
  /\ \A d \in Device :
       /\ \A r \in rows[d] :
            /\ r.id \in 0..MaxSeeds /\ r.seed \in 0..MaxSeeds /\ r.sequence \in Nat
            /\ r.sender \in Device /\ r.chain \in Chain /\ r.ad \in BOOLEAN
            /\ r.members \in Seq(Device)
            /\ r.seed # 0 => r.chain = NoChain
       /\ \A r, q \in rows[d] : r.id = q.id /\ r.sender = q.sender => r = q
       /\ pending[d] \subseteq [device : Range(user_data_set), sequence : Nat]
       /\ handed[d] \in [1..MaxMsgs -> Nat]
  /\ n_seeds \in 0..MaxSeeds /\ n_calls \in 0..MaxCalls /\ n_lost \in 0..MaxLost
  /\ disturbed \in BOOLEAN /\ readded \in BOOLEAN

(* However a group message is delivered again, across the sessions and the
   renewals in between, consume_group_msg hands it to the application at most
   once: its key never comes back.  A device that is added twice may get an
   older chain of the sender back. *)
NoReplay == readded \/ \A d \in Device : \A n \in 1..MaxMsgs : handed[d][n] <= 1

(* A key that encrypted a group message the server answered encrypts no later
   one, whatever members come and go between them (advance_group_chain_key, the
   renewals by "add", and the new seed of a removal).  As for OnlyMembersRead, a
   session is taken to be renewed for new members at most once. *)
GroupKeyUsedOnce == \A m, k \in posted : m.key = k.key /\ m.n < k.n => ~m.answered

(* What the sessions of a device let it derive: every chain from a seed it
   holds, and a chain from any earlier key of it. *)
CanDerive(d, key) ==
  \E r \in rows[d] : \/ r.seed # 0 /\ r.seed = key.seed
                     \/ /\ r.chain # NoChain
                        /\ r.chain.seed = key.seed /\ r.chain.of = key.of
                        /\ IsPrefix(r.chain.steps, key.steps)

(* A group message can be opened by a device only if the device was a member
   in the eyes of its sender, which had its user in the list or a session of
   the device: a member that was removed cannot follow the chains of the new
   session, and one that was added cannot go back to what was sent before and
   answered.  It takes that a session is renewed for new members at most once:
   the second renewal brings the chain of a member of the first to where the
   chain of its adder was (advance_group_chain_key_by_welcome, then _by_add). *)
OnlyMembersRead ==
  \A d \in Device : \A m \in posted : m.answered /\ CanDerive(d, m.key) => d \in m.members

Quiet == \A d \in Device : net[d] = << >>

Outbound(d) == {r \in rows[d] : r.sender = d /\ is_valid_group_session(r)}

(* Once all messages are delivered, every device of the members can send, and
   every other one follows: it has an inbound session with the id of the
   sender's, whose chain is the sender's once it has caught up
   (consume_create_group_msg, consume_remove_group_members_msg,
   consume_add_group_member_device_msg, and consume_one2one_msg with the
   bundles).  It takes that no request or answer was lost, that no device was
   added that had come with its user, and that what renews the chains crossed
   neither a group message nor another renewal: both ends renew the chain of an
   old member from where their own copy of it is
   (renew_inbound_group_session_by_welcome_and_add). *)
InSync ==
  Quiet /\ ~disturbed /\ ~readded => \A d \in Range(DevicesOf(group)) :
    \E r \in Outbound(d) :
      \A e \in Range(DevicesOf(group)) \ {d} :
        \E q \in rows[e] : /\ q.sender = d /\ q.id = r.id /\ is_valid_group_session(q)
                           /\ catch_up(q, r.sequence).chain = r.chain

(* Once all messages are delivered, every member of the group can send: the
   last thing consume_create_group_msg does, when the bundle came before it,
   is to "create a new outbound group session". *)
EveryoneCanSend ==
  Quiet => \A d \in Range(DevicesOf(group)) : Outbound(d) # {}
=============================================================================
