------------------------------ MODULE PreKeys ------------------------------
(***************************************************************************)
(* The pre-keys of the accounts kept in one database (src/account.c,       *)
(* src/account_manager.c): signed pre-keys that resume_connection renews   *)
(* and publishes, one-time pre-keys that the server asks for, hands out    *)
(* and an invitation uses up, and the removal of both.                     *)
(*                                                                         *)
(* A key is a number, drawn from n_keys when it is generated; an id is     *)
(* what the two ends name it by.  That the signed pre-key's time is over   *)
(* may be found at any resume_connection.  The reader thread takes         *)
(* messages while resume_connection waits for the server.                  *)
(***************************************************************************)
EXTENDS Integers, FiniteSets, FiniteSetsExt, Sequences

CONSTANTS Account,                    \* the accounts of this database
          ONE_TIME_PRE_KEY_INITIAL_NUM,
          ONE_TIME_PRE_KEY_PURGE_NUM,
          Outcome,                    \* how publishing and supplying may end
          MaxKeys,                    \* bound: keys generated
          MaxInvites                  \* bound: bundles handed out

(* The server took the keys and said so; took them and the answer was lost;
   or never saw them. *)
ASSUME PreKeysAssumption ==
  /\ "none" \notin Account
  /\ ONE_TIME_PRE_KEY_INITIAL_NUM \in Nat \ {0}
  /\ ONE_TIME_PRE_KEY_PURGE_NUM \in Nat \ {0}
  /\ Outcome \subseteq {"ok", "unanswered", "lost"}
  /\ MaxKeys \in Nat /\ MaxInvites \in Nat

VARIABLES
  signed_pre_key,    \* the rows of SIGNED_PRE_KEY of each account
  current,           \* the row ACCOUNT.SIGNED_PRE_KEY refers to, 0 before registration
  one_time_pre_key,  \* the rows of ONETIME_PRE_KEY of each account
  next_opk_id,       \* ACCOUNT.NEXT_ONETIME_PRE_KEY_ID
  n_rows,            \* rows of SIGNED_PRE_KEY made so far, AUTOINCREMENT
  n_keys,            \* keys generated so far
  resuming,          \* the account whose new signed pre-key waits for the server
  published,         \* at the server: the signed pre-key of each account
  opk_shelf,         \* at the server: one-time pre-keys not handed out yet
  invite_msg,        \* invitations on their way to each account
  n_invites,         \* bundles handed out so far
  sessions           \* inbound sessions made: the invitation, and the keys used

vars == <<signed_pre_key, current, one_time_pre_key, next_opk_id, n_rows, n_keys,
          resuming, published, opk_shelf, invite_msg, n_invites, sessions>>

device == <<signed_pre_key, current, one_time_pre_key, next_opk_id, n_rows>>

server == <<published, opk_shelf, n_invites>>

NotResuming == [account |-> "none"]

Init ==
  /\ signed_pre_key = [a \in Account |-> {}]
  /\ current = [a \in Account |-> 0]
  /\ one_time_pre_key = [a \in Account |-> {}]
  /\ next_opk_id = [a \in Account |-> 1]
  /\ n_rows = 0
  /\ n_keys = 0
  /\ resuming = NotResuming
  /\ published = [a \in Account |-> [spk_id |-> 0, key |-> 0]]
  /\ opk_shelf = [a \in Account |-> << >>]
  /\ invite_msg = [a \in Account |-> {}]
  /\ n_invites = 0
  /\ sessions = [a \in Account |-> {}]

-----------------------------------------------------------------------------
Registered(a) == current[a] # 0

(* An account whose row is gone is loaded with zeros. *)
NoKey == [spk_id |-> 0, key |-> 0]

account_spk(a) ==
  LET found == {[spk_id |-> r.spk_id, key |-> r.key] :
                  r \in {s \in signed_pre_key[a] : s.row = current[a]}}
  IN  IF found = {} THEN NoKey ELSE CHOOSE k \in found : TRUE

(* Mutant: a new key keeps the id of the old one. *)
generate_signed_pre_key_same_id(cur_spk_id, key) == [spk_id |-> cur_spk_id, key |-> key]

generate_signed_pre_key(cur_spk_id, key) == [spk_id |-> cur_spk_id + 1, key |-> key]

(* num one-time pre-keys with ids from cur_opk_id on, made of the keys from key on. *)
generate_opks(num, cur_opk_id, key) ==
  [i \in 1..num |-> [opk_id |-> cur_opk_id + i - 1, key |-> key + i - 1]]

(* Mutant: the account's next id is not written. *)
opk_ids_again(a, opks) ==
  /\ one_time_pre_key' = [one_time_pre_key EXCEPT ![a] =
       @ \cup {[opk_id |-> opks[i].opk_id, key |-> opks[i].key, used |-> FALSE] :
                 i \in DOMAIN opks}]
  /\ UNCHANGED next_opk_id

add_one_time_pre_keys(a, opks) ==
  /\ one_time_pre_key' = [one_time_pre_key EXCEPT ![a] =
       @ \cup {[opk_id |-> opks[i].opk_id, key |-> opks[i].key, used |-> FALSE] :
                 i \in DOMAIN opks}]
  /\ next_opk_id' = [next_opk_id EXCEPT ![a] = @ + Len(opks)]

update_signed_pre_key(a, spk) ==
  /\ n_rows' = n_rows + 1
  /\ signed_pre_key' = [signed_pre_key EXCEPT ![a] =
       @ \cup {[row |-> n_rows + 1, spk_id |-> spk.spk_id, key |-> spk.key]}]
  /\ current' = [current EXCEPT ![a] = n_rows + 1]

(* register_user: the account is stored once the server has answered. *)
register_user(a) ==
  LET spk  == generate_signed_pre_key(0, n_keys + 1)
      opks == generate_opks(ONE_TIME_PRE_KEY_INITIAL_NUM, 1, n_keys + 2)
  IN  /\ ~Registered(a)
      /\ resuming = NotResuming
      /\ n_keys' = n_keys + 1 + ONE_TIME_PRE_KEY_INITIAL_NUM
      /\ n_keys' <= MaxKeys
      /\ update_signed_pre_key(a, spk)
      /\ add_one_time_pre_keys(a, opks)
      /\ published' = [published EXCEPT ![a] = spk]
      /\ opk_shelf' = [opk_shelf EXCEPT ![a] = opks]
      /\ UNCHANGED <<resuming, invite_msg, n_invites, sessions>>

-----------------------------------------------------------------------------
(* What a peer makes of the bundle of a: an invitation that names the keys.
   The server hands a one-time pre-key out once, and none when it has none. *)
get_pre_key_bundle(a) ==
  LET opk == IF opk_shelf[a] = << >> THEN [opk_id |-> 0, key |-> 0] ELSE Head(opk_shelf[a])
  IN  /\ Registered(a)
      /\ n_invites < MaxInvites
      /\ n_invites' = n_invites + 1
      /\ opk_shelf' = [opk_shelf EXCEPT ![a] = IF @ = << >> THEN @ ELSE Tail(@)]
      /\ invite_msg' = [invite_msg EXCEPT ![a] =
                         @ \cup {[id |-> n_invites', spk |-> published[a], opk |-> opk]}]
      /\ UNCHANGED <<device, n_keys, resuming, published, sessions>>

(***************************************************************************)
(* pqc_new_inbound_session: the signed pre-key is the account's, or an old *)
(* one with that id; the one-time pre-key is looked up by its id and then  *)
(* marked as used.                                                         *)
(***************************************************************************)
bob_signed_pre_key(a, spk_id) ==
  IF account_spk(a).spk_id = spk_id
  THEN {account_spk(a).key}
  ELSE {r.key : r \in {s \in signed_pre_key[a] : s.spk_id = spk_id}}

lookup_one_time_pre_key(a, opk_id) ==
  {o \in one_time_pre_key[a] : o.opk_id = opk_id}

KeysFound(a, msg) ==
  /\ bob_signed_pre_key(a, msg.spk.spk_id) # {}
  /\ msg.opk.opk_id # 0 => lookup_one_time_pre_key(a, msg.opk.opk_id) # {}

mark_opk_as_used(a, o) ==
  one_time_pre_key' = [one_time_pre_key EXCEPT ![a] =
                        (@ \ {o}) \cup {[o EXCEPT !.used = TRUE]}]

new_inbound_session(a, msg) ==
  /\ KeysFound(a, msg)
  /\ \E spk_key \in bob_signed_pre_key(a, msg.spk.spk_id) :
       \/ /\ msg.opk.opk_id = 0
          /\ sessions' = [sessions EXCEPT ![a] =
                           @ \cup {[msg |-> msg, spk_key |-> spk_key, opk_key |-> 0]}]
          /\ UNCHANGED one_time_pre_key
       \/ \E o \in lookup_one_time_pre_key(a, msg.opk.opk_id) :
          /\ mark_opk_as_used(a, o)
          /\ sessions' = [sessions EXCEPT ![a] =
                           @ \cup {[msg |-> msg, spk_key |-> spk_key, opk_key |-> o.key]}]
  /\ invite_msg' = [invite_msg EXCEPT ![a] = @ \ {msg}]
  /\ UNCHANGED <<signed_pre_key, current, next_opk_id, n_rows, n_keys, resuming, server>>

(* An invitation whose keys are not found is consumed without a session. *)
new_inbound_session_failed(a, msg) ==
  /\ ~KeysFound(a, msg)
  /\ invite_msg' = [invite_msg EXCEPT ![a] = @ \ {msg}]
  /\ UNCHANGED <<device, n_keys, resuming, server, sessions>>

(* consume_supply_opks_msg: new keys go to the server, and are kept if it
   answers; the message is consumed in any case. *)
consume_supply_opks_msg(a, num, outcome) ==
  LET opks == generate_opks(num, next_opk_id[a], n_keys + 1)
  IN  /\ Registered(a)
      /\ n_keys' = n_keys + num
      /\ n_keys' <= MaxKeys
      /\ opk_shelf' = [opk_shelf EXCEPT ![a] = IF outcome = "lost" THEN @ ELSE @ \o opks]
      /\ IF outcome = "ok"
         THEN add_one_time_pre_keys(a, opks)
         ELSE UNCHANGED <<one_time_pre_key, next_opk_id>>
      /\ UNCHANGED <<signed_pre_key, current, n_rows, resuming, published, invite_msg,
                     n_invites, sessions>>

-----------------------------------------------------------------------------
(***************************************************************************)
(* resume_connection for one account.  remove_expired_signed_pre_key goes  *)
(* by the row ids of the table, which all accounts share; what it does is  *)
(* taken from the database of the tests.                                   *)
(***************************************************************************)
Rows == UNION {signed_pre_key[a] : a \in Account}

(* Mutant: the last one is kept. *)
keep_last_one(rows, all) ==
  {r \in rows : r.row >= Max({s.row : s \in all})}

remove_expired_signed_pre_key(rows, all) ==
  {r \in rows : r.row >= Max({s.row : s \in all}) - 1}

(* Of the keys seen as used, the first PURGE_NUM go. *)
purge_one_time_pre_key(keys, used) ==
  {k \in keys : k.opk_id \in used =>
     Cardinality({i \in used : i < k.opk_id}) >= ONE_TIME_PRE_KEY_PURGE_NUM}

used_ids(a) == {o.opk_id : o \in {k \in one_time_pre_key[a] : k.used}}

(* The signed pre-key is still good. *)
resume_connection(a) ==
  /\ Registered(a)
  /\ resuming = NotResuming
  /\ account_spk(a) # NoKey
  /\ signed_pre_key' = [signed_pre_key EXCEPT ![a] = remove_expired_signed_pre_key(@, Rows)]
  /\ one_time_pre_key' = [one_time_pre_key EXCEPT ![a] = purge_one_time_pre_key(@, used_ids(a))]
  /\ UNCHANGED <<current, next_opk_id, n_rows, n_keys, resuming, server, invite_msg, sessions>>

(* It has expired: a new one is published; the reader thread goes on. *)
resume_connection_expired(a, outcome) ==
  LET spk == generate_signed_pre_key(account_spk(a).spk_id, n_keys + 1)
  IN  /\ Registered(a)
      /\ resuming = NotResuming
      /\ n_keys < MaxKeys
      /\ n_keys' = n_keys + 1
      /\ published' = [published EXCEPT ![a] = IF outcome = "lost" THEN @ ELSE spk]
      /\ resuming' = [account |-> a, spk |-> spk, outcome |-> outcome, used |-> used_ids(a)]
      /\ UNCHANGED <<device, opk_shelf, n_invites, invite_msg, sessions>>

(* The answer: the key is stored if it is good.  Without a good answer
   publish_spk_internal still returns success, so old keys go as well. *)
publish_spk_response(a) ==
  LET r     == resuming
      added == IF r.outcome = "ok"
               THEN {[row |-> n_rows + 1, spk_id |-> r.spk.spk_id, key |-> r.spk.key]}
               ELSE {}
  IN  /\ resuming.account = a
      /\ signed_pre_key' = [signed_pre_key EXCEPT ![a] =
                             remove_expired_signed_pre_key(@ \cup added, Rows \cup added)]
      /\ n_rows' = IF r.outcome = "ok" THEN n_rows + 1 ELSE n_rows
      /\ current' = [current EXCEPT ![a] = IF r.outcome = "ok" THEN n_rows + 1 ELSE @]
      /\ one_time_pre_key' = [one_time_pre_key EXCEPT ![a] = purge_one_time_pre_key(@, r.used)]
      /\ resuming' = NotResuming
      /\ UNCHANGED <<next_opk_id, n_keys, server, invite_msg, sessions>>

(* bound: how many one-time pre-keys the server asks for at a time. *)
SupplyNum == 1..2

Next ==
  \E a \in Account :
    \/ register_user(a)
    \/ get_pre_key_bundle(a)
    \/ \E msg \in invite_msg[a] :
         new_inbound_session(a, msg) \/ new_inbound_session_failed(a, msg)
    \/ \E num \in SupplyNum, o \in Outcome : consume_supply_opks_msg(a, num, o)
    \/ resume_connection(a)
    \/ \E o \in Outcome : resume_connection_expired(a, o)
    \/ publish_spk_response(a)

Spec == Init /\ [][Next]_vars

-----------------------------------------------------------------------------
Key == 0..MaxKeys

(* The tables hold what their columns are for, the account's signed pre-key is
   a row that exists or existed, and ids are below the next one. *)
TypeOK ==
  /\ n_keys \in Key /\ n_rows \in Nat /\ n_invites \in 0..MaxInvites
  /\ \A a \in Account :
       /\ signed_pre_key[a] \subseteq [row : 1..n_rows, spk_id : Nat, key : 1..n_keys]
       /\ current[a] \in 0..n_rows
       /\ one_time_pre_key[a] \subseteq
            [opk_id : 1..(next_opk_id[a] - 1), key : 1..n_keys, used : BOOLEAN]
       /\ published[a] \in [spk_id : Nat, key : Key]
       /\ \A s \in sessions[a] : s.spk_key \in Key /\ s.opk_key \in Key

(* An inbound session is made from the private halves of the very keys the
   invitation was made from: an id never names two keys. *)
SameKeys ==
  \A a \in Account : \A s \in sessions[a] :
    s.spk_key = s.msg.spk.key /\ s.opk_key = s.msg.opk.key

(* No two sessions rest on one one-time pre-key. *)
OpkUsedOnce ==
  \A a \in Account : \A s, t \in sessions[a] :
    s # t => s.opk_key = 0 \/ s.opk_key # t.opk_key

(* An invitation made from the published signed pre-key or the one before
   finds its keys, however renewals, removals, supplies and other invitations
   went before; only while the answer to a renewal is awaited it may not. *)
InviteUsable ==
  \A a \in Account : \A m \in invite_msg[a] :
    resuming.account # a /\ m.spk.spk_id >= published[a].spk_id - 1
      => /\ m.spk.key \in bob_signed_pre_key(a, m.spk.spk_id)
         /\ m.opk.opk_id # 0 =>
              [opk_id |-> m.opk.opk_id, key |-> m.opk.key, used |-> FALSE] \in one_time_pre_key[a]
=============================================================================
