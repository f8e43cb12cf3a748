--------------------------- MODULE PreKeys_proofs ---------------------------
(***************************************************************************)
(* Theorems about the pre-keys, for any number of keys, invitations and,   *)
(* where it matters, accounts.                                             *)
(***************************************************************************)
EXTENDS PreKeys, TLAPS

SignedKey == [spk_id : Nat, key : Nat]

OneTimeKey == [opk_id : Nat, key : Nat]

Invitation == [id : Nat, spk : SignedKey, opk : OneTimeKey]

(* The row of a one-time pre-key as the server has it. *)
Unused(o) == [opk_id |-> o.opk_id, key |-> o.key, used |-> FALSE]

(* The types of all variables. *)
ShapeInv ==
  /\ signed_pre_key \in [Account -> SUBSET [row : Nat, spk_id : Nat, key : Nat]]
  /\ current \in [Account -> Nat]
  /\ one_time_pre_key \in [Account -> SUBSET [opk_id : Nat, key : Nat, used : BOOLEAN]]
  /\ next_opk_id \in [Account -> Nat]
  /\ published \in [Account -> SignedKey]
  /\ opk_shelf \in [Account -> Seq(OneTimeKey)]
  /\ invite_msg \in [Account -> SUBSET Invitation]
  /\ sessions \in [Account -> SUBSET [msg : Invitation, spk_key : Nat, opk_key : Nat]]

Resuming ==
  [account : Account, spk : [spk_id : Nat, key : 1..n_keys], outcome : Outcome, used : SUBSET Nat]

ResumingInv ==
  \/ resuming = NotResuming
  \/ resuming \in Resuming /\ current[resuming.account] # 0

(* Before it is registered an account has given out no id. *)
LinkInv ==
  \A a \in Account : /\ published[a].key <= n_keys /\ next_opk_id[a] >= 1
                     /\ current[a] = 0 => next_opk_id[a] = 1

TypedInv == ShapeInv /\ ResumingInv /\ LinkInv /\ TypeOK

LEMMA Places ==
  ASSUME NEW S, NEW s \in Seq(S)
  PROVE  Len(s) \in Nat /\ DOMAIN s = 1..Len(s)
OBVIOUS

LEMMA InitTyped == Init => TypedInv
BY PreKeysAssumption
DEF Init, TypedInv, ShapeInv, ResumingInv, LinkInv, TypeOK, SignedKey, OneTimeKey, Invitation, Key

(* Bounds that grow. *)
LEMMA Wider ==
  ASSUME TypedInv, n_keys' \in Nat, n_rows' \in Nat, n_keys <= n_keys', n_rows <= n_rows'
  PROVE  /\ n_keys \in Nat /\ n_rows \in Nat
         /\ \A a \in Account :
              /\ signed_pre_key[a] \subseteq [row : 1..n_rows', spk_id : Nat, key : 1..n_keys']
              /\ one_time_pre_key[a] \subseteq
                   [opk_id : 1..(next_opk_id[a] - 1), key : 1..n_keys', used : BOOLEAN]
              /\ current[a] \in 0..n_rows'
<1>1. n_keys \in Nat /\ n_rows \in Nat
  BY DEF TypedInv, TypeOK, Key
<1>2. 1..n_keys \subseteq 1..n_keys' /\ 1..n_rows \subseteq 1..n_rows' /\ 0..n_rows \subseteq 0..n_rows'
  BY <1>1
<1> SUFFICES ASSUME NEW a \in Account
             PROVE  /\ signed_pre_key[a] \subseteq [row : 1..n_rows', spk_id : Nat, key : 1..n_keys']
                    /\ one_time_pre_key[a] \subseteq
                         [opk_id : 1..(next_opk_id[a] - 1), key : 1..n_keys', used : BOOLEAN]
                    /\ current[a] \in 0..n_rows'
  BY <1>1, Zenon
<1>3. /\ signed_pre_key[a] \subseteq [row : 1..n_rows, spk_id : Nat, key : 1..n_keys]
      /\ one_time_pre_key[a] \subseteq
           [opk_id : 1..(next_opk_id[a] - 1), key : 1..n_keys, used : BOOLEAN]
      /\ current[a] \in 0..n_rows
  BY Zenon DEF TypedInv, TypeOK
<1> QED BY <1>2, <1>3, Zenon

(* What the account's row and the look-up of a signed pre-key return. *)
LEMMA FoundTyped ==
  ASSUME TypedInv, NEW a \in Account, NEW id \in Nat
  PROVE  /\ account_spk(a) \in [spk_id : Nat, key : 0..n_keys]
         /\ bob_signed_pre_key(a, id) \subseteq 0..n_keys
<1> DEFINE found == {[spk_id |-> r.spk_id, key |-> r.key] :
                       r \in {s \in signed_pre_key[a] : s.row = current[a]}}
<1>1. signed_pre_key[a] \subseteq [row : 1..n_rows, spk_id : Nat, key : 1..n_keys] /\ n_keys \in Nat
  BY DEF TypedInv, TypeOK, Key
<1>2. found \subseteq [spk_id : Nat, key : 0..n_keys]
  BY <1>1
<1>3. account_spk(a) \in [spk_id : Nat, key : 0..n_keys]
  <2>1. CASE found = {}
    BY <2>1, <1>1 DEF account_spk, NoKey
  <2>2. CASE found # {}
    <3>1. account_spk(a) = CHOOSE k \in found : TRUE
      BY <2>2, Zenon DEF account_spk
    <3>2. account_spk(a) \in found
      BY <3>1, <2>2, Zenon
    <3> QED BY <3>2, <1>2, Zenon
  <2> QED BY <2>1, <2>2, Zenon
<1>4. \A r \in signed_pre_key[a] : r.key \in 0..n_keys
  BY <1>1
<1> QED BY <1>3, <1>4, Zenon DEF bob_signed_pre_key

(* The table after new keys were added to it. *)
NewKeys(a, opks, num, key) ==
  /\ \A o : o \in one_time_pre_key'[a] <=>
       o \in one_time_pre_key[a] \/ \E i \in 1..num : o = Unused(opks[i])
  /\ \A i \in 1..num : /\ opks[i].opk_id = next_opk_id[a] + i - 1
                       /\ opks[i].key = key + i - 1

LEMMA Added ==
  ASSUME TypedInv, NEW a \in Account, NEW num \in Nat, NEW key \in Nat, key > n_keys,
         NEW opks, opks = generate_opks(num, next_opk_id[a], key),
         add_one_time_pre_keys(a, opks)
  PROVE  /\ one_time_pre_key' \in [Account -> SUBSET [opk_id : Nat, key : Nat, used : BOOLEAN]]
         /\ next_opk_id' = [next_opk_id EXCEPT ![a] = @ + num]
         /\ \A b \in Account : b # a => one_time_pre_key'[b] = one_time_pre_key[b]
         /\ one_time_pre_key'[a] \subseteq
              [opk_id : 1..(next_opk_id'[a] - 1), key : 1..(key + num - 1), used : BOOLEAN]
         /\ NewKeys(a, opks, num, key)
<1>1. /\ one_time_pre_key \in [Account -> SUBSET [opk_id : Nat, key : Nat, used : BOOLEAN]]
      /\ next_opk_id \in [Account -> Nat] /\ next_opk_id[a] >= 1 /\ n_keys \in Nat
      /\ one_time_pre_key[a] \subseteq
           [opk_id : 1..(next_opk_id[a] - 1), key : 1..n_keys, used : BOOLEAN]
  BY DEF TypedInv, ShapeInv, LinkInv, TypeOK, Key
<1>2. /\ opks \in Seq(OneTimeKey) /\ Len(opks) = num /\ DOMAIN opks = 1..num
      /\ \A i \in 1..num : /\ opks[i].opk_id = next_opk_id[a] + i - 1
                           /\ opks[i].key = key + i - 1
  <2>1. next_opk_id[a] \in Nat
    BY <1>1, Zenon
  <2> QED BY <2>1, SMT DEF generate_opks, OneTimeKey
<1> DEFINE new == {[opk_id |-> opks[i].opk_id, key |-> opks[i].key, used |-> FALSE] :
                     i \in DOMAIN opks}
<1>3. /\ one_time_pre_key' = [one_time_pre_key EXCEPT ![a] = @ \cup new]
      /\ next_opk_id' = [next_opk_id EXCEPT ![a] = @ + num]
  BY <1>2, Zenon DEF add_one_time_pre_keys
<1>4. /\ next_opk_id'[a] = next_opk_id[a] + num
      /\ one_time_pre_key'[a] = one_time_pre_key[a] \cup new
  BY <1>1, <1>3, Zenon
<1>5. new \subseteq [opk_id : next_opk_id[a]..(next_opk_id[a] + num - 1),
                    key : key..(key + num - 1), used : BOOLEAN]
  <2>1. next_opk_id[a] \in Nat
    BY <1>1, Zenon
  <2>2. \A i \in 1..num : /\ opks[i].opk_id \in next_opk_id[a]..(next_opk_id[a] + num - 1)
                          /\ opks[i].key \in key..(key + num - 1)
    <3> SUFFICES ASSUME NEW i \in 1..num
                 PROVE  /\ opks[i].opk_id \in next_opk_id[a]..(next_opk_id[a] + num - 1)
                        /\ opks[i].key \in key..(key + num - 1)
      BY Zenon
    <3>1. opks[i].opk_id = next_opk_id[a] + i - 1 /\ opks[i].key = key + i - 1
      BY <1>2, Zenon
    <3> QED BY <3>1, <2>1
  <2>3. \A i \in DOMAIN opks : [opk_id |-> opks[i].opk_id, key |-> opks[i].key, used |-> FALSE]
          \in [opk_id : next_opk_id[a]..(next_opk_id[a] + num - 1),
               key : key..(key + num - 1), used : BOOLEAN]
    BY <2>2, <1>2, Zenon
  <2> QED BY <2>3, Zenon
<1>6. one_time_pre_key'[a] \subseteq
        [opk_id : 1..(next_opk_id'[a] - 1), key : 1..(key + num - 1), used : BOOLEAN]
  BY <1>1, <1>4, <1>5
<1>7. new \subseteq [opk_id : Nat, key : Nat, used : BOOLEAN]
  BY <1>1, <1>5
<1>8. \A o : o \in new <=> \E i \in 1..num : o = Unused(opks[i])
  BY <1>2, Zenon DEF Unused
<1>9. NewKeys(a, opks, num, key)
  BY <1>2, <1>4, <1>8, Zenon DEF NewKeys
<1> QED BY <1>1, <1>3, <1>4, <1>6, <1>7, <1>9, Zenon

LEMMA RegisterTyped ==
  ASSUME TypedInv, NEW a \in Account, register_user(a), next_opk_id[a] = 1
  PROVE  TypedInv'
<1> DEFINE opks == generate_opks(ONE_TIME_PRE_KEY_INITIAL_NUM, 1, n_keys + 2)
           spk  == generate_signed_pre_key(0, n_keys + 1)
           row  == [row |-> n_rows + 1, spk_id |-> spk.spk_id, key |-> spk.key]
<1>1. /\ n_keys \in Nat /\ n_rows \in Nat /\ MaxKeys \in Nat
      /\ ONE_TIME_PRE_KEY_INITIAL_NUM \in Nat
  BY PreKeysAssumption DEF TypedInv, TypeOK, Key
<1>2. /\ n_keys' = n_keys + 1 + ONE_TIME_PRE_KEY_INITIAL_NUM /\ n_keys' <= MaxKeys
      /\ n_rows' = n_rows + 1
      /\ signed_pre_key' = [signed_pre_key EXCEPT ![a] = @ \cup {row}]
      /\ current' = [current EXCEPT ![a] = n_rows + 1]
      /\ add_one_time_pre_keys(a, opks)
      /\ published' = [published EXCEPT ![a] = spk]
      /\ opk_shelf' = [opk_shelf EXCEPT ![a] = opks]
      /\ UNCHANGED <<resuming, invite_msg, n_invites, sessions>>
  BY Zenon DEF register_user, update_signed_pre_key
<1>3. spk \in SignedKey /\ spk.key = n_keys + 1 /\ spk.spk_id = 1
  BY <1>1 DEF generate_signed_pre_key, SignedKey
<1>4. opks \in Seq(OneTimeKey)
  BY <1>1 DEF generate_opks, OneTimeKey
<1>5. /\ one_time_pre_key' \in [Account -> SUBSET [opk_id : Nat, key : Nat, used : BOOLEAN]]
      /\ next_opk_id' = [next_opk_id EXCEPT ![a] = @ + ONE_TIME_PRE_KEY_INITIAL_NUM]
      /\ \A b \in Account : b # a => one_time_pre_key'[b] = one_time_pre_key[b]
      /\ one_time_pre_key'[a] \subseteq
           [opk_id : 1..(next_opk_id'[a] - 1), key : 1..n_keys', used : BOOLEAN]
  <2>1. n_keys + 2 \in Nat /\ n_keys + 2 > n_keys
        /\ (n_keys + 2) + ONE_TIME_PRE_KEY_INITIAL_NUM - 1 = n_keys'
    BY <1>1, <1>2
  <2>2. opks = generate_opks(ONE_TIME_PRE_KEY_INITIAL_NUM, next_opk_id[a], n_keys + 2)
    BY Zenon
  <2> HIDE DEF opks
  <2> QED BY <2>1, <2>2, <1>1, <1>2, Added
<1> HIDE DEF opks, spk
<1>6. ShapeInv'
  <2>1. signed_pre_key' \in [Account -> SUBSET [row : Nat, spk_id : Nat, key : Nat]]
    BY <1>1, <1>2, <1>3 DEF TypedInv, ShapeInv
  <2>2. current' \in [Account -> Nat] /\ next_opk_id' \in [Account -> Nat]
    BY <1>1, <1>2, <1>5 DEF TypedInv, ShapeInv
  <2>3. published' \in [Account -> SignedKey] /\ opk_shelf' \in [Account -> Seq(OneTimeKey)]
    BY <1>2, <1>3, <1>4, Zenon DEF TypedInv, ShapeInv
  <2> QED BY <1>2, <1>5, <2>1, <2>2, <2>3, Zenon DEF TypedInv, ShapeInv
<1>7. ResumingInv'
  BY <1>2, Zenon DEF register_user, ResumingInv
<1>8. LinkInv'
  <2> SUFFICES ASSUME NEW b \in Account
               PROVE  /\ published'[b].key <= n_keys' /\ next_opk_id'[b] >= 1
                      /\ current'[b] = 0 => next_opk_id'[b] = 1
    BY Zenon DEF LinkInv
  <2>1. CASE b = a
    BY <2>1, <1>1, <1>2, <1>3, <1>5 DEF TypedInv, ShapeInv
  <2>2. CASE b # a
    BY <2>2, <1>1, <1>2, <1>5, SMTT(20) DEF TypedInv, ShapeInv, LinkInv, SignedKey
  <2> QED BY <2>1, <2>2, Zenon
<1>9. TypeOK'
  <2>1. n_keys' \in 0..MaxKeys /\ n_rows' \in Nat /\ n_invites' \in 0..MaxInvites
        /\ n_keys' \in Nat /\ n_keys <= n_keys' /\ n_rows <= n_rows'
    BY <1>1, <1>2 DEF TypedInv, TypeOK
  <2>2. ASSUME NEW b \in Account
        PROVE  /\ signed_pre_key'[b] \subseteq [row : 1..n_rows', spk_id : Nat, key : 1..n_keys']
               /\ current'[b] \in 0..n_rows'
               /\ one_time_pre_key'[b] \subseteq
                    [opk_id : 1..(next_opk_id'[b] - 1), key : 1..n_keys', used : BOOLEAN]
               /\ published'[b] \in [spk_id : Nat, key : 0..MaxKeys]
    <3>1. row \in [row : 1..n_rows', spk_id : Nat, key : 1..n_keys']
      BY <1>1, <1>2, <1>3
    <3> HIDE DEF row
    <3>2. CASE b = a
      <4>1. /\ signed_pre_key'[a] = signed_pre_key[a] \cup {row} /\ current'[a] = n_rows'
            /\ published'[a] = spk
        BY <1>2, Zenon DEF TypedInv, ShapeInv
      <4>2. spk \in [spk_id : Nat, key : 0..MaxKeys]
        BY <1>1, <1>2, <1>3 DEF SignedKey
      <4> QED BY <3>1, <3>2, <4>1, <4>2, <2>1, <1>5, Wider
    <3>3. CASE b # a
      BY <3>3, <2>1, <1>2, <1>5, Wider, Zenon DEF TypedInv, ShapeInv, TypeOK, Key
    <3> QED BY <3>2, <3>3, Zenon
  <2>3. \A b \in Account : \A s \in sessions'[b] : s.spk_key \in Key /\ s.opk_key \in Key
    BY <1>2, Zenon DEF TypedInv, TypeOK
  <2> QED BY <2>1, <2>2, <2>3, Zenon DEF TypeOK, Key
<1> QED BY <1>6, <1>7, <1>8, <1>9, Zenon DEF TypedInv

LEMMA BundleTyped ==
  ASSUME TypedInv, NEW a \in Account, get_pre_key_bundle(a)
  PROVE  TypedInv'
<1> DEFINE opk == IF opk_shelf[a] = << >> THEN [opk_id |-> 0, key |-> 0] ELSE Head(opk_shelf[a])
           msg == [id |-> n_invites', spk |-> published[a], opk |-> opk]
<1>1. /\ n_invites' = n_invites + 1 /\ n_invites < MaxInvites
      /\ opk_shelf' = [opk_shelf EXCEPT ![a] = IF @ = << >> THEN @ ELSE Tail(@)]
      /\ invite_msg' = [invite_msg EXCEPT ![a] = @ \cup {msg}]
      /\ UNCHANGED <<device, n_keys, resuming, published, sessions>>
  BY Zenon DEF get_pre_key_bundle
<1>2. n_invites \in 0..MaxInvites /\ MaxInvites \in Nat
  BY PreKeysAssumption, Zenon DEF TypedInv, TypeOK
<1>3. opk_shelf[a] \in Seq(OneTimeKey)
  BY Zenon DEF TypedInv, ShapeInv
<1>4. opk \in OneTimeKey
  <2>1. opk_shelf[a] # << >> => Head(opk_shelf[a]) \in OneTimeKey
    BY <1>3
  <2>2. [opk_id |-> 0, key |-> 0] \in OneTimeKey
    BY Zenon DEF OneTimeKey
  <2> QED BY <2>1, <2>2, Zenon
<1>5. msg \in Invitation
  <2> HIDE DEF opk
  <2> QED BY <1>1, <1>2, <1>4 DEF Invitation, TypedInv, ShapeInv
<1> HIDE DEF msg
<1>6. ShapeInv'
  <2>1. opk_shelf' \in [Account -> Seq(OneTimeKey)]
    BY <1>1, <1>3 DEF TypedInv, ShapeInv
  <2>2. invite_msg' \in [Account -> SUBSET Invitation]
    BY <1>1, <1>5, Zenon DEF TypedInv, ShapeInv
  <2> QED BY <2>1, <2>2, <1>1, Zenon DEF TypedInv, ShapeInv, device
<1>7. ResumingInv' /\ LinkInv'
  BY <1>1, Zenon DEF TypedInv, ResumingInv, Resuming, LinkInv, device
<1>8. TypeOK'
  <2>1. n_invites' \in 0..MaxInvites
    BY <1>1, <1>2
  <2> QED BY <1>1, <2>1, Zenon DEF TypedInv, TypeOK, device
<1> QED BY <1>6, <1>7, <1>8, Zenon DEF TypedInv

LEMMA InboundTyped ==
  ASSUME TypedInv, NEW a \in Account, NEW msg \in invite_msg[a], new_inbound_session(a, msg)
  PROVE  TypedInv'
<1>1. PICK spk_key \in bob_signed_pre_key(a, msg.spk.spk_id), opk_key \in 0..n_keys :
        sessions' = [sessions EXCEPT ![a] =
                      @ \cup {[msg |-> msg, spk_key |-> spk_key, opk_key |-> opk_key]}]
  <2>1. \A o \in one_time_pre_key[a] : o.key \in 0..n_keys
    BY DEF TypedInv, TypeOK, Key
  <2>2. 0 \in 0..n_keys
    BY DEF TypedInv, TypeOK, Key
  <2> QED BY <2>1, <2>2, Zenon DEF new_inbound_session, lookup_one_time_pre_key
<1>2. /\ invite_msg' = [invite_msg EXCEPT ![a] = @ \ {msg}]
      /\ UNCHANGED <<signed_pre_key, current, next_opk_id, n_rows, n_keys, resuming, server>>
  BY Zenon DEF new_inbound_session
<1>3. msg \in Invitation /\ msg.spk.spk_id \in Nat
  BY DEF TypedInv, ShapeInv, Invitation, SignedKey
<1>4. spk_key \in 0..n_keys /\ n_keys \in 0..MaxKeys /\ MaxKeys \in Nat
  BY <1>3, FoundTyped, PreKeysAssumption, Zenon DEF TypedInv, TypeOK, Key
<1>5. /\ one_time_pre_key' \in [Account -> SUBSET [opk_id : Nat, key : Nat, used : BOOLEAN]]
      /\ \A b \in Account : one_time_pre_key'[b] \subseteq
           [opk_id : 1..(next_opk_id[b] - 1), key : 1..n_keys, used : BOOLEAN]
  <2>1. CASE UNCHANGED one_time_pre_key
    BY <2>1, Zenon DEF TypedInv, ShapeInv, TypeOK
  <2>2. ASSUME NEW o \in one_time_pre_key[a], mark_opk_as_used(a, o)
        PROVE  /\ one_time_pre_key' \in [Account -> SUBSET [opk_id : Nat, key : Nat, used : BOOLEAN]]
               /\ \A b \in Account : one_time_pre_key'[b] \subseteq
                    [opk_id : 1..(next_opk_id[b] - 1), key : 1..n_keys, used : BOOLEAN]
    <3>1. /\ one_time_pre_key \in [Account -> SUBSET [opk_id : Nat, key : Nat, used : BOOLEAN]]
          /\ \A b \in Account : one_time_pre_key[b] \subseteq
               [opk_id : 1..(next_opk_id[b] - 1), key : 1..n_keys, used : BOOLEAN]
      BY Zenon DEF TypedInv, ShapeInv, TypeOK
    <3>2. one_time_pre_key' = [one_time_pre_key EXCEPT ![a] =
                                (@ \ {o}) \cup {[o EXCEPT !.used = TRUE]}]
      BY <2>2, Zenon DEF mark_opk_as_used
    <3>3. /\ [o EXCEPT !.used = TRUE] \in [opk_id : Nat, key : Nat, used : BOOLEAN]
          /\ [o EXCEPT !.used = TRUE] \in
               [opk_id : 1..(next_opk_id[a] - 1), key : 1..n_keys, used : BOOLEAN]
      BY <3>1, ZenonT(40)
    <3> QED BY <3>1, <3>2, <3>3, Zenon
  <2> QED BY <2>1, <2>2, Zenon DEF new_inbound_session, lookup_one_time_pre_key
<1>6. ShapeInv'
  <2>1. sessions' \in [Account -> SUBSET [msg : Invitation, spk_key : Nat, opk_key : Nat]]
    BY <1>1, <1>3, <1>4, SMTT(20) DEF TypedInv, ShapeInv
  <2>2. invite_msg' \in [Account -> SUBSET Invitation]
    BY <1>2, Zenon DEF TypedInv, ShapeInv
  <2> QED BY <2>1, <2>2, <1>2, <1>5, Zenon DEF TypedInv, ShapeInv, server
<1>7. ResumingInv' /\ LinkInv'
  BY <1>2, Zenon DEF TypedInv, ResumingInv, Resuming, LinkInv, server
<1>8. TypeOK'
  <2>1. \A b \in Account : \A s \in sessions'[b] : s.spk_key \in 0..MaxKeys /\ s.opk_key \in 0..MaxKeys
    <3>1. spk_key \in 0..MaxKeys /\ opk_key \in 0..MaxKeys
      BY <1>4
    <3> QED BY <3>1, <1>1, SMTT(20) DEF TypedInv, ShapeInv, TypeOK, Key
  <2> QED BY <2>1, <1>2, <1>5, Zenon DEF TypedInv, TypeOK, Key, server
<1> QED BY <1>6, <1>7, <1>8, Zenon DEF TypedInv

LEMMA FailedTyped ==
  ASSUME TypedInv, NEW a \in Account, NEW msg, new_inbound_session_failed(a, msg)
  PROVE  TypedInv'
<1>1. /\ invite_msg' = [invite_msg EXCEPT ![a] = @ \ {msg}]
      /\ UNCHANGED <<device, n_keys, resuming, server, sessions>>
  BY Zenon DEF new_inbound_session_failed
<1>2. ShapeInv'
  BY <1>1, Zenon DEF TypedInv, ShapeInv, device, server
<1>3. ResumingInv' /\ LinkInv' /\ TypeOK'
  BY <1>1, Zenon DEF TypedInv, ResumingInv, Resuming, LinkInv, TypeOK, device, server
<1> QED BY <1>2, <1>3, Zenon DEF TypedInv

LEMMA SupplyTyped ==
  ASSUME TypedInv, NEW a \in Account, NEW num \in SupplyNum, NEW o \in Outcome,
         consume_supply_opks_msg(a, num, o)
  PROVE  TypedInv'
<1> DEFINE opks == generate_opks(num, next_opk_id[a], n_keys + 1)
<1>1. /\ n_keys \in Nat /\ n_rows \in Nat /\ MaxKeys \in Nat /\ num \in Nat
      /\ next_opk_id[a] \in Nat
  BY PreKeysAssumption DEF TypedInv, ShapeInv, TypeOK, Key, SupplyNum
<1>2. /\ current[a] # 0
      /\ n_keys' = n_keys + num /\ n_keys' <= MaxKeys
      /\ opk_shelf' = [opk_shelf EXCEPT ![a] = IF o = "lost" THEN @ ELSE @ \o opks]
      /\ IF o = "ok" THEN add_one_time_pre_keys(a, opks)
         ELSE UNCHANGED <<one_time_pre_key, next_opk_id>>
      /\ UNCHANGED <<signed_pre_key, current, n_rows, resuming, published, invite_msg,
                     n_invites, sessions>>
  BY Zenon DEF consume_supply_opks_msg, Registered
<1>3. opks \in Seq(OneTimeKey)
  BY <1>1 DEF generate_opks, OneTimeKey
<1>4. n_keys' \in 0..MaxKeys /\ n_keys' \in Nat /\ n_keys <= n_keys' /\ n_rows' \in Nat /\ n_rows <= n_rows'
  BY <1>1, <1>2
<1>5. /\ one_time_pre_key' \in [Account -> SUBSET [opk_id : Nat, key : Nat, used : BOOLEAN]]
      /\ next_opk_id' \in [Account -> Nat]
      /\ \A b \in Account : next_opk_id'[b] >= 1
      /\ \A b \in Account : b # a => next_opk_id'[b] = next_opk_id[b]
      /\ \A b \in Account : one_time_pre_key'[b] \subseteq
           [opk_id : 1..(next_opk_id'[b] - 1), key : 1..n_keys', used : BOOLEAN]
  <2>1. CASE o # "ok"
    <3>1. UNCHANGED <<one_time_pre_key, next_opk_id>>
      BY <2>1, <1>2, Zenon
    <3> QED BY <3>1, <1>4, Wider, Zenon DEF TypedInv, ShapeInv, LinkInv
  <2>2. CASE o = "ok"
    <3>1. n_keys + 1 \in Nat /\ n_keys + 1 > n_keys /\ (n_keys + 1) + num - 1 = n_keys'
      BY <1>1, <1>2, SMTT(20)
    <3>2. opks = generate_opks(num, next_opk_id[a], n_keys + 1) /\ add_one_time_pre_keys(a, opks)
      BY <2>2, <1>2, Zenon
    <3> HIDE DEF opks
    <3>3. /\ one_time_pre_key' \in [Account -> SUBSET [opk_id : Nat, key : Nat, used : BOOLEAN]]
          /\ next_opk_id' = [next_opk_id EXCEPT ![a] = @ + num]
          /\ \A b \in Account : b # a => one_time_pre_key'[b] = one_time_pre_key[b]
          /\ one_time_pre_key'[a] \subseteq
               [opk_id : 1..(next_opk_id'[a] - 1), key : 1..n_keys', used : BOOLEAN]
      BY <3>1, <3>2, <1>1, Added, Zenon
    <3>4. next_opk_id' \in [Account -> Nat] /\ \A b \in Account : next_opk_id'[b] >= 1
      BY <3>3, <1>1 DEF TypedInv, ShapeInv, LinkInv
    <3>5. \A b \in Account : b # a => next_opk_id'[b] = next_opk_id[b]
      BY <3>3, Zenon DEF TypedInv, ShapeInv
    <3>6. \A b \in Account : one_time_pre_key[b] \subseteq
            [opk_id : 1..(next_opk_id[b] - 1), key : 1..n_keys', used : BOOLEAN]
      BY <1>4, Wider, Zenon
    <3> QED BY <3>3, <3>4, <3>5, <3>6, Zenon
  <2> QED BY <2>1, <2>2, Zenon
<1> HIDE DEF opks
<1>6. ShapeInv'
  <2>1. opk_shelf[a] \o opks \in Seq(OneTimeKey)
    BY <1>3 DEF TypedInv, ShapeInv
  <2>2. opk_shelf' \in [Account -> Seq(OneTimeKey)]
    BY <2>1, <1>2, Zenon DEF TypedInv, ShapeInv
  <2> QED BY <2>2, <1>2, <1>5, Zenon DEF TypedInv, ShapeInv
<1>7. ResumingInv'
  <2>1. 1..n_keys \subseteq 1..n_keys'
    BY <1>1, <1>4
  <2>2. Resuming \subseteq Resuming'
    BY <2>1, Zenon DEF Resuming
  <2> QED BY <2>2, <1>2, Zenon DEF TypedInv, ResumingInv
<1>8. LinkInv'
  <2>1. \A b \in Account : published'[b].key <= n_keys'
    BY <1>1, <1>2, <1>4, SMTT(20) DEF TypedInv, ShapeInv, LinkInv, SignedKey
  <2>2. \A b \in Account : current'[b] = 0 => next_opk_id'[b] = 1
    BY <1>2, <1>5, Zenon DEF TypedInv, LinkInv
  <2> QED BY <2>1, <2>2, <1>5, Zenon DEF LinkInv
<1>9. TypeOK'
  <2>1. \A b \in Account : signed_pre_key[b] \subseteq [row : 1..n_rows, spk_id : Nat, key : 1..n_keys']
    BY <1>2, <1>4, Wider, Zenon
  <2> QED BY <2>1, <1>1, <1>2, <1>4, <1>5, Zenon DEF TypedInv, TypeOK, Key
<1> QED BY <1>6, <1>7, <1>8, <1>9, Zenon DEF TypedInv

(* Removing rows of both tables disturbs no type. *)
LEMMA RemovalTyped ==
  ASSUME TypedInv, NEW a \in Account, NEW rest, NEW opks,
         rest \subseteq [row : 1..n_rows', spk_id : Nat, key : 1..n_keys],
         opks \subseteq one_time_pre_key[a],
         n_rows' \in Nat, n_rows <= n_rows', current'[a] # 0 \/ current' = current,
         signed_pre_key' = [signed_pre_key EXCEPT ![a] = rest],
         current' \in [Account -> 0..n_rows'],
         \A b \in Account : b # a => current'[b] = current[b],
         one_time_pre_key' = [one_time_pre_key EXCEPT ![a] = opks],
         UNCHANGED <<next_opk_id, n_keys, server, invite_msg, sessions>>
  PROVE  ShapeInv' /\ LinkInv' /\ TypeOK'
<1>1. n_keys \in Nat /\ n_keys' = n_keys
  BY DEF TypedInv, TypeOK, Key
<1>2. ShapeInv'
  <2>1. rest \subseteq [row : Nat, spk_id : Nat, key : Nat]
    BY <1>1
  <2>2. signed_pre_key' \in [Account -> SUBSET [row : Nat, spk_id : Nat, key : Nat]]
    BY <2>1, Zenon DEF TypedInv, ShapeInv
  <2>3. one_time_pre_key' \in [Account -> SUBSET [opk_id : Nat, key : Nat, used : BOOLEAN]]
    BY Zenon DEF TypedInv, ShapeInv
  <2>4. current' \in [Account -> Nat]
    OBVIOUS
  <2> QED BY <2>2, <2>3, <2>4, Zenon DEF TypedInv, ShapeInv, server
<1>3. LinkInv'
  BY Zenon DEF TypedInv, ShapeInv, LinkInv, server
<1>4. TypeOK'
  <2>1. ASSUME NEW b \in Account
        PROVE  /\ signed_pre_key'[b] \subseteq [row : 1..n_rows', spk_id : Nat, key : 1..n_keys]
               /\ one_time_pre_key'[b] \subseteq
                    [opk_id : 1..(next_opk_id[b] - 1), key : 1..n_keys, used : BOOLEAN]
    <3>1. /\ signed_pre_key[b] \subseteq [row : 1..n_rows', spk_id : Nat, key : 1..n_keys]
          /\ one_time_pre_key[b] \subseteq
               [opk_id : 1..(next_opk_id[b] - 1), key : 1..n_keys, used : BOOLEAN]
      BY <1>1, Wider
    <3> QED BY <3>1, Zenon DEF TypedInv, ShapeInv
  <2> QED BY <2>1, <1>1, Zenon DEF TypedInv, TypeOK, server
<1> QED BY <1>2, <1>3, <1>4, Zenon

LEMMA ResumeTyped ==
  ASSUME TypedInv, NEW a \in Account, resume_connection(a)
  PROVE  TypedInv'
<1> DEFINE rest == remove_expired_signed_pre_key(signed_pre_key[a], Rows)
           opks == purge_one_time_pre_key(one_time_pre_key[a], used_ids(a))
<1>1. /\ resuming = NotResuming
      /\ signed_pre_key' = [signed_pre_key EXCEPT ![a] = rest]
      /\ one_time_pre_key' = [one_time_pre_key EXCEPT ![a] = opks]
      /\ UNCHANGED <<current, next_opk_id, n_rows, n_keys, resuming, server, invite_msg, sessions>>
  BY Zenon DEF resume_connection
<1>2. rest \subseteq signed_pre_key[a] /\ opks \subseteq one_time_pre_key[a]
  BY Zenon DEF remove_expired_signed_pre_key, purge_one_time_pre_key
<1> HIDE DEF rest, opks
<1>3. /\ n_rows \in Nat /\ n_rows' = n_rows /\ n_rows <= n_rows'
      /\ signed_pre_key[a] \subseteq [row : 1..n_rows', spk_id : Nat, key : 1..n_keys]
      /\ current' \in [Account -> 0..n_rows']
  <2>1. current \in [Account -> Nat] /\ \A b \in Account : current[b] \in 0..n_rows
    BY Zenon DEF TypedInv, ShapeInv, TypeOK
  <2>2. current \in [Account -> 0..n_rows]
    BY <2>1, Zenon
  <2> QED BY <2>2, <1>1 DEF TypedInv, TypeOK
<1>4. rest \subseteq [row : 1..n_rows', spk_id : Nat, key : 1..n_keys]
  BY <1>2, <1>3, Zenon
<1>5. ShapeInv' /\ LinkInv' /\ TypeOK'
  BY <1>1, <1>2, <1>3, <1>4, RemovalTyped, Zenon
<1>6. ResumingInv'
  BY <1>1, Zenon DEF ResumingInv
<1> QED BY <1>5, <1>6, Zenon DEF TypedInv

LEMMA ExpiredTyped ==
  ASSUME TypedInv, NEW a \in Account, NEW o \in Outcome, resume_connection_expired(a, o)
  PROVE  TypedInv'
<1> DEFINE spk == generate_signed_pre_key(account_spk(a).spk_id, n_keys + 1)
<1>1. /\ current[a] # 0
      /\ n_keys < MaxKeys /\ n_keys' = n_keys + 1
      /\ published' = [published EXCEPT ![a] = IF o = "lost" THEN @ ELSE spk]
      /\ resuming' = [account |-> a, spk |-> spk, outcome |-> o, used |-> used_ids(a)]
      /\ UNCHANGED <<device, opk_shelf, n_invites, invite_msg, sessions>>
  BY Zenon DEF resume_connection_expired, Registered
<1>2. n_keys \in Nat /\ MaxKeys \in Nat /\ n_rows \in Nat
  BY PreKeysAssumption DEF TypedInv, TypeOK, Key
<1>3. n_keys' \in 0..MaxKeys /\ n_keys' \in Nat /\ n_keys <= n_keys' /\ n_rows' \in Nat /\ n_rows <= n_rows'
  BY <1>1, <1>2 DEF device
<1>4. spk \in SignedKey /\ spk.key = n_keys + 1 /\ spk \in [spk_id : Nat, key : 1..n_keys']
  <2>1. account_spk(a).spk_id \in Nat
    <3>1. 0 \in Nat
      BY Zenon
    <3> QED BY <3>1, FoundTyped, Zenon
  <2> QED BY <2>1, <1>1, <1>2 DEF generate_signed_pre_key, SignedKey
<1>5. used_ids(a) \subseteq Nat
  BY DEF used_ids, TypedInv, ShapeInv
<1> HIDE DEF spk
<1>6. ShapeInv'
  BY <1>1, <1>4, Zenon DEF TypedInv, ShapeInv, device
<1>7. ResumingInv'
  BY <1>1, <1>4, <1>5, Zenon DEF ResumingInv, Resuming, device
<1>8. LinkInv'
  BY <1>1, <1>2, <1>4, SMTT(20) DEF TypedInv, ShapeInv, LinkInv, SignedKey, device
<1>9. TypeOK'
  <2>1. \A b \in Account :
          /\ signed_pre_key[b] \subseteq [row : 1..n_rows, spk_id : Nat, key : 1..n_keys']
          /\ one_time_pre_key[b] \subseteq
               [opk_id : 1..(next_opk_id[b] - 1), key : 1..n_keys', used : BOOLEAN]
    BY <1>1, <1>3, Wider, Zenon DEF device
  <2>2. \A b \in Account : published'[b] \in [spk_id : Nat, key : 0..MaxKeys]
    BY <1>1, <1>2, <1>3, <1>4, Zenon DEF TypedInv, ShapeInv, TypeOK, Key, SignedKey
  <2> QED BY <2>1, <2>2, <1>1, <1>3, Zenon DEF TypedInv, TypeOK, Key, device
<1> QED BY <1>6, <1>7, <1>8, <1>9, Zenon DEF TypedInv

LEMMA ResponseTyped ==
  ASSUME TypedInv, NEW a \in Account, publish_spk_response(a)
  PROVE  TypedInv'
<1> DEFINE added == IF resuming.outcome = "ok"
                    THEN {[row |-> n_rows + 1, spk_id |-> resuming.spk.spk_id,
                           key |-> resuming.spk.key]}
                    ELSE {}
           rest  == remove_expired_signed_pre_key(signed_pre_key[a] \cup added, Rows \cup added)
           opks  == purge_one_time_pre_key(one_time_pre_key[a], resuming.used)
<1>1. /\ resuming.account = a
      /\ signed_pre_key' = [signed_pre_key EXCEPT ![a] = rest]
      /\ n_rows' = IF resuming.outcome = "ok" THEN n_rows + 1 ELSE n_rows
      /\ current' = [current EXCEPT ![a] = IF resuming.outcome = "ok" THEN n_rows + 1 ELSE @]
      /\ one_time_pre_key' = [one_time_pre_key EXCEPT ![a] = opks]
      /\ resuming' = NotResuming
      /\ UNCHANGED <<next_opk_id, n_keys, server, invite_msg, sessions>>
  BY Zenon DEF publish_spk_response
<1>2. resuming \in Resuming
  BY <1>1, PreKeysAssumption DEF TypedInv, ResumingInv, NotResuming
<1>3. n_rows \in Nat /\ n_rows' \in Nat /\ n_rows <= n_rows' /\ n_keys \in Nat /\ n_keys' = n_keys
  BY <1>1 DEF TypedInv, TypeOK, Key
<1>4. rest \subseteq [row : 1..n_rows', spk_id : Nat, key : 1..n_keys]
  <2>1. signed_pre_key[a] \subseteq [row : 1..n_rows', spk_id : Nat, key : 1..n_keys]
    BY <1>3, Wider
  <2>2. added \subseteq [row : 1..n_rows', spk_id : Nat, key : 1..n_keys]
    BY <1>1, <1>2, <1>3 DEF Resuming
  <2>3. rest \subseteq signed_pre_key[a] \cup added
    BY Zenon DEF remove_expired_signed_pre_key
  <2> HIDE DEF rest, added
  <2> QED BY <2>1, <2>2, <2>3, Zenon
<1>5. opks \subseteq one_time_pre_key[a]
  BY Zenon DEF purge_one_time_pre_key
<1> HIDE DEF rest, opks
<1>6. /\ current' \in [Account -> 0..n_rows'] /\ (current'[a] # 0 \/ current' = current)
      /\ \A b \in Account : b # a => current'[b] = current[b]
  BY <1>1, <1>3, SMTT(20) DEF TypedInv, ShapeInv, TypeOK
<1>7. ShapeInv' /\ LinkInv' /\ TypeOK'
  BY <1>1, <1>3, <1>4, <1>5, <1>6, RemovalTyped, ZenonT(40)
<1>8. ResumingInv'
  BY <1>1, Zenon DEF ResumingInv
<1> QED BY <1>7, <1>8, Zenon DEF TypedInv

LEMMA NextTyped == TypedInv /\ [Next]_vars => TypedInv'
<1> SUFFICES ASSUME TypedInv, [Next]_vars PROVE TypedInv'
  BY Zenon
<1>1. CASE UNCHANGED vars
  BY <1>1, Zenon DEF TypedInv, ShapeInv, ResumingInv, Resuming, LinkInv, TypeOK, vars
<1>2. ASSUME NEW a \in Account, register_user(a) PROVE TypedInv'
  <2>1. next_opk_id[a] = 1
    BY <1>2, Zenon DEF register_user, Registered, TypedInv, LinkInv
  <2> QED BY <1>2, <2>1, RegisterTyped, Zenon
<1> QED BY <1>1, <1>2, BundleTyped, InboundTyped, FailedTyped, SupplyTyped, ResumeTyped,
           ExpiredTyped, ResponseTyped, Zenon DEF Next

(* The tables of an account and what the server has of it hold what they are
   for, whichever answers get lost: an id is always below the next one, and a
   session uses keys that were generated. *)
THEOREM TypeCorrect == Spec => []TypeOK
<1>1. TypedInv => TypeOK
  BY Zenon DEF TypedInv
<1> QED BY <1>1, InitTyped, NextTyped, PTL DEF Spec

-----------------------------------------------------------------------------
(* One-time pre-keys: the id with which a key is at the server or in an
   invitation names that key, still unused, and no two of them. *)
UsedIds(a) == used_ids(a) \cup IF resuming.account = a THEN resuming.used ELSE {}

TableInv(a) ==
  /\ \A o, p \in one_time_pre_key[a] : o.opk_id = p.opk_id \/ o.key = p.key => o = p
  /\ \A i \in UsedIds(a) : i < next_opk_id[a]

ShelfInv(a) ==
  /\ \A i \in DOMAIN opk_shelf[a] :
       /\ opk_shelf[a][i].opk_id # 0
       /\ Unused(opk_shelf[a][i]) \in one_time_pre_key[a]
       /\ opk_shelf[a][i].opk_id \notin UsedIds(a)
  /\ \A i, j \in DOMAIN opk_shelf[a] : opk_shelf[a][i].opk_id = opk_shelf[a][j].opk_id => i = j

InviteInv(a) ==
  /\ \A m \in invite_msg[a] :
       /\ m.opk.opk_id = 0 => m.opk.key = 0
       /\ m.opk.opk_id # 0 =>
            /\ Unused(m.opk) \in one_time_pre_key[a]
            /\ m.opk.opk_id \notin UsedIds(a)
            /\ \A i \in DOMAIN opk_shelf[a] : opk_shelf[a][i].opk_id # m.opk.opk_id
  /\ \A m, k \in invite_msg[a] : m.opk.opk_id = k.opk.opk_id /\ m # k => m.opk.opk_id = 0

(* The key of a session is that of its invitation, and gone from the server and
   from all other invitations. *)
SessionInv(a) ==
  \A s \in sessions[a] :
    /\ s.opk_key = s.msg.opk.key
    /\ s.opk_key <= n_keys
    /\ s.opk_key # 0 => \A o \in one_time_pre_key[a] : o.key = s.opk_key => o.used

OpkInv ==
  /\ TypedInv
  /\ \A a \in Account : TableInv(a) /\ ShelfInv(a) /\ InviteInv(a) /\ SessionInv(a)
  /\ OpkUsedOnce

LEMMA UsedTyped ==
  ASSUME TypedInv, NEW a \in Account
  PROVE  used_ids(a) \subseteq Nat /\ UsedIds(a) \subseteq Nat
<1>1. used_ids(a) \subseteq Nat
  BY DEF used_ids, TypedInv, ShapeInv
<1>2. resuming.account = a => resuming.used \subseteq Nat
  BY PreKeysAssumption DEF TypedInv, ResumingInv, Resuming, NotResuming
<1> QED BY <1>1, <1>2, Zenon DEF UsedIds

-----------------------------------------------------------------------------
LEMMA InitOnce == Init => OpkInv
<1> SUFFICES ASSUME Init PROVE OpkInv
  BY Zenon
<1>1. TypedInv
  BY InitTyped, Zenon
<1>2. \A a \in Account : /\ one_time_pre_key[a] = {} /\ opk_shelf[a] = << >>
                         /\ invite_msg[a] = {} /\ sessions[a] = {} /\ resuming.account # a
  BY PreKeysAssumption, Zenon DEF Init, NotResuming
<1>3. \A a \in Account : UsedIds(a) = {}
  BY <1>2 DEF UsedIds, used_ids
<1>4. \A a \in Account : TableInv(a) /\ ShelfInv(a) /\ InviteInv(a) /\ SessionInv(a)
  BY <1>2, <1>3 DEF TableInv, ShelfInv, InviteInv, SessionInv
<1>5. OpkUsedOnce
  BY <1>2, Zenon DEF OpkUsedOnce
<1> QED BY <1>1, <1>4, <1>5, Zenon DEF OpkInv

(* An account that a step does not touch. *)
LEMMA Untouched ==
  ASSUME OpkInv, NEW b \in Account,
         one_time_pre_key'[b] = one_time_pre_key[b], next_opk_id'[b] = next_opk_id[b],
         opk_shelf'[b] = opk_shelf[b], invite_msg'[b] = invite_msg[b],
         sessions'[b] = sessions[b], UsedIds(b)' = UsedIds(b),
         n_keys' \in Nat, n_keys <= n_keys'
  PROVE  TableInv(b)' /\ ShelfInv(b)' /\ InviteInv(b)' /\ SessionInv(b)'
<1>1. TableInv(b) /\ ShelfInv(b) /\ InviteInv(b) /\ SessionInv(b) /\ TypedInv
  BY Zenon DEF OpkInv
<1>2. TableInv(b)'
  BY <1>1, Zenon DEF TableInv
<1>3. ShelfInv(b)'
  BY <1>1, Zenon DEF ShelfInv
<1>4. InviteInv(b)'
  BY <1>1, SMTT(20) DEF InviteInv
<1>5. SessionInv(b)'
  BY <1>1, SMTT(20) DEF SessionInv, TypedInv, ShapeInv, TypeOK, Key
<1> QED BY <1>2, <1>3, <1>4, <1>5, Zenon

(* New keys, behind the first L of the shelf. *)
Appended(a, opks, num, L) ==
  \A j \in DOMAIN opk_shelf'[a] :
    /\ j \in Nat
    /\ \/ j \in DOMAIN opk_shelf[a] /\ j <= L /\ opk_shelf'[a][j] = opk_shelf[a][j]
       \/ j \in (L + 1)..(L + num) /\ opk_shelf'[a][j] = opks[j - L]

LEMMA AddedOnce ==
  ASSUME OpkInv, NEW a \in Account, NEW num \in Nat, NEW key \in Nat, key > n_keys,
         n_keys' \in Nat, n_keys <= n_keys',
         NEW opks, opks = generate_opks(num, next_opk_id[a], key),
         add_one_time_pre_keys(a, opks),
         NEW L \in Nat, Appended(a, opks, num, L), UNCHANGED <<invite_msg, sessions, resuming>>
  PROVE  TableInv(a)' /\ ShelfInv(a)' /\ InviteInv(a)' /\ SessionInv(a)'
<1> USE DEF Appended
<1>1. TableInv(a) /\ ShelfInv(a) /\ InviteInv(a) /\ SessionInv(a) /\ TypedInv
  BY Zenon DEF OpkInv
<1>2. /\ \A o : o \in one_time_pre_key'[a] <=>
              o \in one_time_pre_key[a] \/ \E i \in 1..num : o = Unused(opks[i])
      /\ \A i \in 1..num : /\ opks[i].opk_id = next_opk_id[a] + i - 1
                           /\ opks[i].key = key + i - 1
      /\ next_opk_id'[a] = next_opk_id[a] + num
  <2> TypedInv
    BY <1>1, Zenon
  <2>1. next_opk_id' = [next_opk_id EXCEPT ![a] = @ + num]
    BY Added, Zenon
  <2>4. NewKeys(a, opks, num, key)
    BY Added, Zenon
  <2>2. next_opk_id \in [Account -> Nat]
    BY <1>1, Zenon DEF TypedInv, ShapeInv
  <2>3. next_opk_id'[a] = next_opk_id[a] + num
    BY <2>1, <2>2, Zenon
  <2> QED BY <2>3, <2>4, Zenon DEF NewKeys
<1>3. /\ next_opk_id[a] \in Nat /\ next_opk_id[a] >= 1 /\ n_keys \in Nat
      /\ \A o \in one_time_pre_key[a] :
           /\ o.opk_id \in Nat /\ o.opk_id < next_opk_id[a]
           /\ o.key \in Nat /\ o.key <= n_keys /\ o.key # 0
  BY <1>1, SMTT(20) DEF TypedInv, ShapeInv, LinkInv, TypeOK, Key
<1>4. \A i \in 1..num : /\ Unused(opks[i]).opk_id = next_opk_id[a] + i - 1
                        /\ Unused(opks[i]).key = key + i - 1 /\ ~Unused(opks[i]).used
  BY <1>2, Zenon DEF Unused
<1>5. used_ids(a)' = used_ids(a) /\ UsedIds(a)' = UsedIds(a)
  <2>1. \A o : o \in one_time_pre_key'[a] /\ o.used <=> o \in one_time_pre_key[a] /\ o.used
    BY <1>2, <1>4, Zenon
  <2>2. used_ids(a)' = used_ids(a)
    BY <2>1, Zenon DEF used_ids
  <2> QED BY <2>2, Zenon DEF UsedIds
<1>6. TableInv(a)'
  <2>1. ASSUME NEW o \in one_time_pre_key'[a], NEW p \in one_time_pre_key'[a],
               o.opk_id = p.opk_id \/ o.key = p.key
        PROVE  o = p
    <3>1. CASE o \in one_time_pre_key[a] /\ p \in one_time_pre_key[a]
      BY <2>1, <3>1, <1>1, Zenon DEF TableInv
    <3>2. ASSUME NEW i \in 1..num, o = Unused(opks[i]), p \in one_time_pre_key[a]
          PROVE  FALSE
      BY <2>1, <3>2, <1>3, <1>4, SMTT(60)
    <3>3. ASSUME NEW i \in 1..num, p = Unused(opks[i]), o \in one_time_pre_key[a]
          PROVE  FALSE
      BY <2>1, <3>3, <1>3, <1>4
    <3>4. ASSUME NEW i \in 1..num, o = Unused(opks[i]),
                 NEW j \in 1..num, p = Unused(opks[j])
          PROVE  o = p
      <4>1. i = j
        BY <2>1, <3>4, <1>3, <1>4, SMTT(60)
      <4> QED BY <4>1, <3>4, Zenon
    <3> QED BY <3>1, <3>2, <3>3, <3>4, <1>2, Zenon
  <2>2. \A i \in UsedIds(a)' : i < next_opk_id'[a]
    <3>1. \A i \in UsedIds(a) : i \in Nat /\ i < next_opk_id[a]
      <4>1. UsedIds(a) \subseteq Nat
        BY <1>1, <1>3, UsedTyped, Zenon
      <4> QED BY <4>1, <1>1, Zenon DEF TableInv
    <3> QED BY <3>1, <1>2, <1>3, <1>5
  <2> QED BY <2>1, <2>2, Zenon DEF TableInv
<1>7. ASSUME NEW j \in DOMAIN opk_shelf'[a]
      PROVE  /\ opk_shelf'[a][j].opk_id # 0
             /\ Unused(opk_shelf'[a][j]) \in one_time_pre_key'[a]
             /\ opk_shelf'[a][j].opk_id \notin UsedIds(a)
  <2>1. CASE j \in DOMAIN opk_shelf[a] /\ opk_shelf'[a][j] = opk_shelf[a][j]
    BY <2>1, <1>1, <1>2, Zenon DEF ShelfInv
  <2>2. ASSUME NEW i \in 1..num, opk_shelf'[a][j] = opks[i]
        PROVE  /\ opk_shelf'[a][j].opk_id # 0
               /\ Unused(opk_shelf'[a][j]) \in one_time_pre_key'[a]
               /\ opk_shelf'[a][j].opk_id \notin UsedIds(a)
    <3>1. opks[i].opk_id = next_opk_id[a] + i - 1
      BY <1>2, Zenon
    <3>2. opks[i].opk_id # 0 /\ ~ (opks[i].opk_id < next_opk_id[a])
      BY <3>1, <1>3
    <3> QED BY <2>2, <3>2, <1>1, <1>2, Zenon DEF TableInv
  <2> QED BY <2>1, <2>2
<1>8. ASSUME NEW j \in DOMAIN opk_shelf'[a], NEW k \in DOMAIN opk_shelf'[a],
             opk_shelf'[a][j].opk_id = opk_shelf'[a][k].opk_id
      PROVE  j = k
  <2>1. \A i \in DOMAIN opk_shelf[a] : opk_shelf[a][i].opk_id < next_opk_id[a]
    BY <1>1, <1>3, Zenon DEF ShelfInv, Unused
  <2>2. CASE j \in DOMAIN opk_shelf[a] /\ opk_shelf'[a][j] = opk_shelf[a][j]
    <3>1. CASE k \in DOMAIN opk_shelf[a] /\ opk_shelf'[a][k] = opk_shelf[a][k]
      BY <3>1, <2>2, <1>8, <1>1, Zenon DEF ShelfInv
    <3>2. CASE k \in (L + 1)..(L + num) /\ opk_shelf'[a][k] = opks[k - L]
      BY <3>2, <2>2, <2>1, <1>8, <1>2, <1>3, SMTT(20)
    <3> QED BY <3>1, <3>2, Zenon
  <2>3. CASE j \in (L + 1)..(L + num) /\ opk_shelf'[a][j] = opks[j - L]
    <3>1. CASE k \in DOMAIN opk_shelf[a] /\ opk_shelf'[a][k] = opk_shelf[a][k]
      BY <3>1, <2>3, <2>1, <1>8, <1>2, <1>3, SMTT(20)
    <3>2. CASE k \in (L + 1)..(L + num) /\ opk_shelf'[a][k] = opks[k - L]
      <4>1. j - L \in 1..num /\ k - L \in 1..num
        BY <2>3, <3>2
      <4>2. next_opk_id[a] + (j - L) - 1 = next_opk_id[a] + (k - L) - 1
        BY <4>1, <2>3, <3>2, <1>8, <1>2, Zenon
      <4> QED BY <4>1, <4>2, <1>3, <2>3, <3>2
    <3> QED BY <3>1, <3>2, Zenon
  <2> QED BY <2>2, <2>3, Zenon
<1>9. ShelfInv(a)'
  BY <1>5, <1>7, <1>8, Zenon DEF ShelfInv
<1>10. InviteInv(a)'
  <2>1. ASSUME NEW m \in invite_msg[a], m.opk.opk_id # 0
        PROVE  /\ Unused(m.opk) \in one_time_pre_key'[a]
               /\ m.opk.opk_id \notin UsedIds(a)'
               /\ \A j \in DOMAIN opk_shelf'[a] : opk_shelf'[a][j].opk_id # m.opk.opk_id
    <3>1. /\ Unused(m.opk) \in one_time_pre_key[a] /\ m.opk.opk_id \notin UsedIds(a)
          /\ \A i \in DOMAIN opk_shelf[a] : opk_shelf[a][i].opk_id # m.opk.opk_id
      BY <2>1, <1>1, Zenon DEF InviteInv
    <3>2. m.opk.opk_id < next_opk_id[a]
      BY <3>1, <1>3, Zenon DEF Unused
    <3>3. ASSUME NEW j \in DOMAIN opk_shelf'[a]
          PROVE  opk_shelf'[a][j].opk_id # m.opk.opk_id
      <4>1. CASE j \in DOMAIN opk_shelf[a] /\ opk_shelf'[a][j] = opk_shelf[a][j]
        BY <4>1, <3>1, Zenon
      <4>2. CASE j \in (L + 1)..(L + num) /\ opk_shelf'[a][j] = opks[j - L]
        BY <4>2, <3>2, <1>2, <1>3
      <4> QED BY <4>1, <4>2, Zenon
    <3> QED BY <3>1, <3>3, <1>2, <1>5, Zenon
  <2> QED BY <2>1, <1>1, Zenon DEF InviteInv
<1>11. SessionInv(a)'
  <2>1. ASSUME NEW s \in sessions[a], s.opk_key # 0, NEW o \in one_time_pre_key'[a], o.key = s.opk_key
        PROVE  o.used
    <3>1. s.opk_key <= n_keys /\ s.opk_key \in Nat
      BY <1>1, SMTT(20) DEF SessionInv, TypedInv, ShapeInv
    <3>2. o \in one_time_pre_key[a]
      <4>1. ASSUME NEW i \in 1..num, o = Unused(opks[i]) PROVE FALSE
        BY <4>1, <3>1, <2>1, <1>3, <1>4, SMTT(20)
      <4> QED BY <4>1, <1>2, Zenon
    <3> QED BY <3>2, <2>1, <1>1, Zenon DEF SessionInv
  <2>2. \A s \in sessions[a] : s.opk_key = s.msg.opk.key /\ s.opk_key <= n_keys'
    BY <1>1, <1>3, SMTT(60) DEF SessionInv, TypedInv, ShapeInv
  <2> QED BY <2>1, <2>2, Zenon DEF SessionInv
<1> QED BY <1>6, <1>9, <1>10, <1>11, Zenon

LEMMA RegisterOnce ==
  ASSUME OpkInv, TypedInv', NEW a \in Account, register_user(a)
  PROVE  OpkInv'
<1> DEFINE opks == generate_opks(ONE_TIME_PRE_KEY_INITIAL_NUM, next_opk_id[a], n_keys + 2)
<1>1. /\ TypedInv /\ next_opk_id[a] = 1 /\ n_keys \in Nat /\ n_keys' \in Nat /\ n_keys <= n_keys'
      /\ n_keys + 2 \in Nat /\ n_keys + 2 > n_keys /\ ONE_TIME_PRE_KEY_INITIAL_NUM \in Nat
  BY PreKeysAssumption, SMTT(60) DEF OpkInv, TypedInv, LinkInv, TypeOK, Key, register_user, Registered
<1>2. /\ add_one_time_pre_keys(a, opks)
      /\ opk_shelf' = [opk_shelf EXCEPT ![a] = opks]
      /\ UNCHANGED <<invite_msg, sessions, resuming>>
  BY <1>1, Zenon DEF register_user
<1>3. /\ opk_shelf'[a] = opks /\ \A b \in Account : b # a => opk_shelf'[b] = opk_shelf[b]
  BY <1>1, <1>2, Zenon DEF TypedInv, ShapeInv
<1>4. Appended(a, opks, ONE_TIME_PRE_KEY_INITIAL_NUM, 0)
  BY <1>1, <1>3, SMTT(20) DEF generate_opks, Appended
<1>5. opks = generate_opks(ONE_TIME_PRE_KEY_INITIAL_NUM, next_opk_id[a], n_keys + 2)
  BY Zenon
<1> HIDE DEF opks
<1>6. TableInv(a)' /\ ShelfInv(a)' /\ InviteInv(a)' /\ SessionInv(a)'
  BY <1>1, <1>2, <1>4, <1>5, AddedOnce, Zenon
<1>7. ASSUME NEW b \in Account, b # a
      PROVE  TableInv(b)' /\ ShelfInv(b)' /\ InviteInv(b)' /\ SessionInv(b)'
  <2>1. one_time_pre_key'[b] = one_time_pre_key[b] /\ next_opk_id'[b] = next_opk_id[b]
    BY <1>1, <1>2, <1>7, Zenon DEF add_one_time_pre_keys, TypedInv, ShapeInv
  <2>2. UsedIds(b)' = UsedIds(b)
    BY <2>1, <1>2, Zenon DEF UsedIds, used_ids
  <2> QED BY <2>1, <2>2, <1>1, <1>2, <1>3, <1>7, Untouched, Zenon
<1>8. OpkUsedOnce'
  BY <1>2, Zenon DEF OpkInv, OpkUsedOnce
<1> QED BY <1>6, <1>7, <1>8, Zenon DEF OpkInv

LEMMA SupplyOnce ==
  ASSUME OpkInv, TypedInv', NEW a \in Account, NEW num \in SupplyNum, NEW outcome \in Outcome,
         "unanswered" \notin Outcome, consume_supply_opks_msg(a, num, outcome)
  PROVE  OpkInv'
<1> DEFINE opks == generate_opks(num, next_opk_id[a], n_keys + 1)
<1>1. /\ TypedInv /\ n_keys \in Nat /\ n_keys' \in Nat /\ n_keys <= n_keys' /\ num \in Nat
      /\ n_keys + 1 \in Nat /\ n_keys + 1 > n_keys
      /\ UNCHANGED <<invite_msg, sessions, resuming>>
  BY SMTT(20) DEF OpkInv, TypedInv, TypeOK, Key, consume_supply_opks_msg, SupplyNum
<1>2. OpkUsedOnce'
  BY <1>1, Zenon DEF OpkInv, OpkUsedOnce
<1>3. CASE outcome = "lost"
  <2>1. UNCHANGED <<one_time_pre_key, next_opk_id, opk_shelf>>
    BY <1>1, <1>3, Zenon DEF consume_supply_opks_msg, TypedInv, ShapeInv
  <2>2. \A b \in Account : UsedIds(b)' = UsedIds(b)
    BY <2>1, <1>1, Zenon DEF UsedIds, used_ids
  <2>3. ASSUME NEW b \in Account
        PROVE  TableInv(b)' /\ ShelfInv(b)' /\ InviteInv(b)' /\ SessionInv(b)'
    BY <2>1, <2>2, <1>1, Untouched, Zenon
  <2> QED BY <2>3, <1>2, Zenon DEF OpkInv
<1>4. CASE outcome = "ok"
  <2>1. /\ add_one_time_pre_keys(a, opks)
        /\ opk_shelf' = [opk_shelf EXCEPT ![a] = @ \o opks]
    BY <1>4, Zenon DEF consume_supply_opks_msg
  <2>2. /\ opk_shelf[a] \in Seq(OneTimeKey)
        /\ opk_shelf'[a] = opk_shelf[a] \o opks
        /\ \A b \in Account : b # a => opk_shelf'[b] = opk_shelf[b]
    BY <1>1, <2>1, Zenon DEF TypedInv, ShapeInv
  <2>3. opks \in Seq(OneTimeKey) /\ Len(opks) = num
    <3>1. next_opk_id[a] \in Nat
      BY <1>1, Zenon DEF TypedInv, ShapeInv
    <3> QED BY <1>1, <3>1 DEF generate_opks, OneTimeKey
  <2>4. PICK key \in Nat : key > n_keys /\ opks = generate_opks(num, next_opk_id[a], key)
    BY <1>1, Zenon
  <2> HIDE DEF opks
  <2>5. PICK L \in Nat : L = Len(opk_shelf[a]) /\ DOMAIN opk_shelf[a] = 1..L
    BY <2>2, Places, Zenon
  <2>6. Appended(a, opks, num, L)
    BY <2>2, <2>3, <2>5, <1>1, SMTT(60) DEF Appended
  <2>8. TableInv(a)' /\ ShelfInv(a)' /\ InviteInv(a)' /\ SessionInv(a)'
    BY <1>1, <2>1, <2>4, <2>6, AddedOnce, Zenon
  <2>9. ASSUME NEW b \in Account, b # a
        PROVE  TableInv(b)' /\ ShelfInv(b)' /\ InviteInv(b)' /\ SessionInv(b)'
    <3>1. one_time_pre_key'[b] = one_time_pre_key[b] /\ next_opk_id'[b] = next_opk_id[b]
      BY <1>1, <2>1, <2>9, Zenon DEF add_one_time_pre_keys, TypedInv, ShapeInv
    <3>2. UsedIds(b)' = UsedIds(b)
      BY <3>1, <1>1, Zenon DEF UsedIds, used_ids
    <3> QED BY <3>1, <3>2, <1>1, <2>2, <2>9, Untouched, Zenon
  <2> QED BY <2>8, <2>9, <1>2, Zenon DEF OpkInv
<1> QED BY <1>3, <1>4, PreKeysAssumption, Zenon

LEMMA BundleOnce ==
  ASSUME OpkInv, TypedInv', NEW a \in Account, get_pre_key_bundle(a)
  PROVE  OpkInv'
<1>1. /\ TypedInv /\ TableInv(a) /\ ShelfInv(a) /\ InviteInv(a) /\ SessionInv(a)
      /\ n_keys' = n_keys /\ n_keys \in Nat
      /\ UNCHANGED <<one_time_pre_key, next_opk_id, sessions, resuming>>
  BY SMTT(20) DEF OpkInv, TypedInv, TypeOK, Key, get_pre_key_bundle, device
<1>2. \A b \in Account : UsedIds(b)' = UsedIds(b)
  BY <1>1, Zenon DEF UsedIds, used_ids
<1>3. OpkUsedOnce'
  BY <1>1, Zenon DEF OpkInv, OpkUsedOnce
<1>4. TableInv(a)' /\ SessionInv(a)'
  BY <1>1, <1>2, Zenon DEF TableInv, SessionInv
<1>5. opk_shelf[a] \in Seq(OneTimeKey) /\ opk_shelf \in [Account -> Seq(OneTimeKey)]
      /\ invite_msg \in [Account -> SUBSET Invitation]
  BY <1>1, Zenon DEF TypedInv, ShapeInv
<1> DEFINE opk == IF opk_shelf[a] = << >> THEN [opk_id |-> 0, key |-> 0] ELSE Head(opk_shelf[a])
           m   == [id |-> n_invites', spk |-> published[a], opk |-> opk]
<1>9. invite_msg' = [invite_msg EXCEPT ![a] = @ \cup {m}] /\ m.opk = opk
  BY Zenon DEF get_pre_key_bundle
<1>10. /\ opk_shelf[a] = << >> => opk.opk_id = 0 /\ opk.key = 0
       /\ opk_shelf[a] # << >> => opk = Head(opk_shelf[a])
  BY Zenon
<1> HIDE DEF m, opk
<1>6. ASSUME opk_shelf[a] = << >> PROVE ShelfInv(a)' /\ InviteInv(a)'
  <2>1. opk_shelf' = opk_shelf
    BY <1>5, <1>6, Zenon DEF get_pre_key_bundle
  <2>2. invite_msg'[a] = invite_msg[a] \cup {m}
    BY <1>5, <1>9, Zenon
  <2>3. m.opk.opk_id = 0 /\ m.opk.key = 0
    BY <1>6, <1>9, <1>10, Zenon
  <2>4. ShelfInv(a)'
    BY <1>1, <1>2, <2>1, Zenon DEF ShelfInv
  <2>5. InviteInv(a)'
    BY <1>1, <1>2, <2>1, <2>2, <2>3, Zenon DEF InviteInv
  <2> QED BY <2>4, <2>5, Zenon
<1>7. ASSUME opk_shelf[a] # << >> PROVE ShelfInv(a)' /\ InviteInv(a)'
  <2> DEFINE shelf == opk_shelf[a]
  <2>1. /\ Len(shelf) \in Nat /\ Len(shelf) >= 1 /\ 1 \in DOMAIN shelf
        /\ DOMAIN shelf = 1..Len(shelf) /\ Head(shelf) = shelf[1]
    BY <1>5, <1>7
  <2>2. opk_shelf'[a] = Tail(shelf)
    BY <1>5, <1>7, Zenon DEF get_pre_key_bundle
  <2>3. \A i \in DOMAIN opk_shelf'[a] : /\ i + 1 \in DOMAIN shelf /\ i \in Nat /\ i >= 1
                                        /\ opk_shelf'[a][i] = shelf[i + 1]
    BY <1>5, <1>7, <2>1, <2>2, SMTT(20)
  <2>4. ShelfInv(a)'
    <3>1. \A i \in DOMAIN opk_shelf'[a] :
            /\ opk_shelf'[a][i].opk_id # 0
            /\ Unused(opk_shelf'[a][i]) \in one_time_pre_key[a]
            /\ opk_shelf'[a][i].opk_id \notin UsedIds(a)
      BY <1>1, <2>3, Zenon DEF ShelfInv
    <3>2. \A i, j \in DOMAIN opk_shelf'[a] :
            opk_shelf'[a][i].opk_id = opk_shelf'[a][j].opk_id => i + 1 = j + 1
      BY <1>1, <2>3, ZenonT(40) DEF ShelfInv
    <3>3. \A i, j \in DOMAIN opk_shelf'[a] : i + 1 = j + 1 => i = j
      BY <2>3
    <3> QED BY <3>1, <3>2, <3>3, <1>1, <1>2 DEF ShelfInv
  <2>5. m.opk = Head(shelf) /\ invite_msg'[a] = invite_msg[a] \cup {m}
    BY <1>5, <1>7, <1>9, <1>10, Zenon
  <2>6. /\ m.opk.opk_id # 0 /\ Unused(m.opk) \in one_time_pre_key[a]
        /\ m.opk.opk_id \notin UsedIds(a)
    BY <1>1, <2>1, <2>5, Zenon DEF ShelfInv
  <2>7. \A i \in DOMAIN opk_shelf'[a] : opk_shelf'[a][i].opk_id # m.opk.opk_id
    <3> SUFFICES ASSUME NEW i \in DOMAIN opk_shelf'[a] PROVE opk_shelf'[a][i].opk_id # m.opk.opk_id
      BY Zenon
    <3>1. i + 1 \in DOMAIN shelf /\ i + 1 # 1 /\ opk_shelf'[a][i] = shelf[i + 1]
      BY <2>3
    <3> QED BY <3>1, <2>1, <2>5, <1>1, Zenon DEF ShelfInv
  <2>8. \A k \in invite_msg[a] : k.opk.opk_id # m.opk.opk_id
    BY <1>1, <2>1, <2>5, <2>6 DEF InviteInv
  <2>9. \A k \in invite_msg[a] : k.opk.opk_id # 0 =>
          \A i \in DOMAIN opk_shelf'[a] : opk_shelf'[a][i].opk_id # k.opk.opk_id
    BY <1>1, <2>3, ZenonT(40) DEF InviteInv
  <2>10. InviteInv(a)'
    BY <1>1, <1>2, <2>5, <2>6, <2>7, <2>8, <2>9, ZenonT(40) DEF InviteInv
  <2> QED BY <2>4, <2>10, Zenon
<1>8. ASSUME NEW b \in Account, b # a
      PROVE  TableInv(b)' /\ ShelfInv(b)' /\ InviteInv(b)' /\ SessionInv(b)'
  <2>1. opk_shelf'[b] = opk_shelf[b] /\ invite_msg'[b] = invite_msg[b]
    BY <1>5, <1>8, Zenon DEF get_pre_key_bundle
  <2> QED BY <2>1, <1>1, <1>2, <1>8, Untouched
<1> QED BY <1>3, <1>4, <1>6, <1>7, <1>8, Zenon DEF OpkInv

(* The session of an invitation without a one-time pre-key. *)
LEMMA InboundWithout ==
  ASSUME OpkInv, TypedInv', NEW a \in Account, NEW msg \in invite_msg[a], NEW spk_key,
         msg.opk.opk_id = 0,
         sessions' = [sessions EXCEPT ![a] =
                       @ \cup {[msg |-> msg, spk_key |-> spk_key, opk_key |-> 0]}],
         invite_msg' = [invite_msg EXCEPT ![a] = @ \ {msg}],
         UNCHANGED <<one_time_pre_key, next_opk_id, n_keys, resuming, opk_shelf>>
  PROVE  OpkInv'
<1> DEFINE s == [msg |-> msg, spk_key |-> spk_key, opk_key |-> 0]
<1>1. /\ TypedInv /\ TableInv(a) /\ ShelfInv(a) /\ InviteInv(a) /\ SessionInv(a) /\ n_keys \in Nat
  BY SMTT(60) DEF OpkInv, TypedInv, TypeOK, Key
<1>2. /\ sessions'[a] = sessions[a] \cup {s} /\ invite_msg'[a] = invite_msg[a] \ {msg}
      /\ \A b \in Account : b # a => sessions'[b] = sessions[b] /\ invite_msg'[b] = invite_msg[b]
  BY <1>1, Zenon DEF TypedInv, ShapeInv
<1>3. s.msg = msg /\ s.opk_key = 0 /\ msg.opk.key = 0
  BY <1>1, Zenon DEF InviteInv
<1> HIDE DEF s
<1>4. \A b \in Account : UsedIds(b)' = UsedIds(b)
  BY Zenon DEF UsedIds, used_ids
<1>5. TableInv(a)' /\ ShelfInv(a)'
  BY <1>1, <1>4, Zenon DEF TableInv, ShelfInv
<1>6. InviteInv(a)'
  BY <1>1, <1>2, <1>4, ZenonT(40) DEF InviteInv
<1>7. SessionInv(a)'
  BY <1>1, <1>2, <1>3 DEF SessionInv
<1>8. ASSUME NEW b \in Account, b # a
      PROVE  TableInv(b)' /\ ShelfInv(b)' /\ InviteInv(b)' /\ SessionInv(b)'
  BY <1>1, <1>2, <1>4, <1>8, Untouched, SMTT(60)
<1>9. OpkUsedOnce'
  BY <1>2, <1>3, SMTT(60) DEF OpkInv, OpkUsedOnce
<1> QED BY <1>5, <1>6, <1>7, <1>8, <1>9, ZenonT(40) DEF OpkInv

(* The session of an invitation with one: the row found is that of the key in
   the invitation, and it was not used. *)
LEMMA InboundWith ==
  ASSUME OpkInv, TypedInv', NEW a \in Account, NEW msg \in invite_msg[a], NEW spk_key,
         NEW o \in lookup_one_time_pre_key(a, msg.opk.opk_id),
         mark_opk_as_used(a, o),
         sessions' = [sessions EXCEPT ![a] =
                       @ \cup {[msg |-> msg, spk_key |-> spk_key, opk_key |-> o.key]}],
         invite_msg' = [invite_msg EXCEPT ![a] = @ \ {msg}],
         UNCHANGED <<next_opk_id, n_keys, resuming, opk_shelf>>
  PROVE  OpkInv'
<1> DEFINE s == [msg |-> msg, spk_key |-> spk_key, opk_key |-> o.key]
           p == [o EXCEPT !.used = TRUE]
<1>1. /\ TypedInv /\ TableInv(a) /\ ShelfInv(a) /\ InviteInv(a) /\ SessionInv(a) /\ n_keys \in Nat
  BY DEF OpkInv, TypedInv, TypeOK, Key
<1>2. /\ sessions'[a] = sessions[a] \cup {s} /\ invite_msg'[a] = invite_msg[a] \ {msg}
      /\ \A b \in Account : b # a => sessions'[b] = sessions[b] /\ invite_msg'[b] = invite_msg[b]
  BY <1>1, Zenon DEF TypedInv, ShapeInv
<1>3. /\ one_time_pre_key'[a] = (one_time_pre_key[a] \ {o}) \cup {p}
      /\ \A b \in Account : b # a => one_time_pre_key'[b] = one_time_pre_key[b]
  BY <1>1, Zenon DEF TypedInv, ShapeInv, mark_opk_as_used
<1>4. /\ o \in one_time_pre_key[a] /\ o.opk_id = msg.opk.opk_id /\ o.opk_id # 0
      /\ o.key \in Nat /\ o.key # 0 /\ o.key <= n_keys /\ o.opk_id < next_opk_id[a]
      /\ p.opk_id = o.opk_id /\ p.key = o.key /\ p.used = TRUE
  <2>1. o \in one_time_pre_key[a] /\ o.opk_id = msg.opk.opk_id
    BY Zenon DEF lookup_one_time_pre_key
  <2>2. /\ o \in [opk_id : 1..(next_opk_id[a] - 1), key : 1..n_keys, used : BOOLEAN]
        /\ next_opk_id[a] \in Nat
    BY <1>1, <2>1, Zenon DEF TypedInv, TypeOK, ShapeInv
  <2> QED BY <1>1, <2>1, <2>2
<1>5. /\ Unused(msg.opk) \in one_time_pre_key[a] /\ msg.opk.opk_id \notin UsedIds(a)
      /\ \A i \in DOMAIN opk_shelf[a] : opk_shelf[a][i].opk_id # msg.opk.opk_id
      /\ \A k \in invite_msg[a] : k # msg => k.opk.opk_id # msg.opk.opk_id
  BY <1>1, <1>4, Zenon DEF InviteInv
<1>6. o = Unused(msg.opk) /\ o.used = FALSE /\ o.key = msg.opk.key
  <2>1. o = Unused(msg.opk)
    BY <1>1, <1>4, <1>5, Zenon DEF TableInv, Unused
  <2> QED BY <2>1, Zenon DEF Unused
<1>7. s.msg = msg /\ s.opk_key = o.key
  BY Zenon
<1> HIDE DEF s, p
<1>8. UsedIds(a)' = UsedIds(a) \cup {o.opk_id}
  <2>1. used_ids(a)' = used_ids(a) \cup {o.opk_id}
    BY <1>3, <1>4, <1>6 DEF used_ids
  <2> QED BY <2>1, Zenon DEF UsedIds
<1>9. \A b \in Account : b # a => UsedIds(b)' = UsedIds(b)
  BY <1>3, Zenon DEF UsedIds, used_ids
<1>10. TableInv(a)'
  <2>1. \A x, y \in one_time_pre_key'[a] : x.opk_id = y.opk_id \/ x.key = y.key => x = y
    BY <1>1, <1>3, <1>4, ZenonT(40) DEF TableInv
  <2> QED BY <2>1, <1>1, <1>4, <1>8, Zenon DEF TableInv
<1>11. ShelfInv(a)'
  <2>1. \A i \in DOMAIN opk_shelf[a] : Unused(opk_shelf[a][i]) \in one_time_pre_key'[a]
    BY <1>1, <1>3, <1>4, <1>5, SMTT(20) DEF ShelfInv, Unused
  <2> QED BY <2>1, <1>1, <1>4, <1>5, <1>8, Zenon DEF ShelfInv
<1>12. InviteInv(a)'
  <2>1. \A k \in invite_msg'[a] : k.opk.opk_id # 0 =>
          Unused(k.opk) \in one_time_pre_key'[a] /\ k.opk.opk_id \notin UsedIds(a)'
    <3> SUFFICES ASSUME NEW k \in invite_msg'[a], k.opk.opk_id # 0
                 PROVE  Unused(k.opk) \in one_time_pre_key'[a] /\ k.opk.opk_id \notin UsedIds(a)'
      BY Zenon
    <3>1. k \in invite_msg[a] /\ k # msg
      BY <1>2, Zenon
    <3>2. Unused(k.opk) \in one_time_pre_key[a] /\ k.opk.opk_id \notin UsedIds(a)
      BY <3>1, <1>1, Zenon DEF InviteInv
    <3>3. k.opk.opk_id # o.opk_id /\ Unused(k.opk).opk_id = k.opk.opk_id
      BY <3>1, <1>4, <1>5, Zenon DEF Unused
    <3> QED BY <3>2, <3>3, <1>3, <1>8, Zenon
  <2> QED BY <2>1, <1>1, <1>2, Zenon DEF InviteInv
<1>13. SessionInv(a)'
  <2>1. \A x \in one_time_pre_key'[a] : x.key = o.key => x.used
    BY <1>1, <1>3, <1>4, Zenon DEF TableInv
  <2>2. \A t \in sessions[a] : t.opk_key # 0 =>
          \A x \in one_time_pre_key'[a] : x.key = t.opk_key => x.used
    BY <1>1, <1>3, <1>4, Zenon DEF SessionInv
  <2> QED BY <2>1, <2>2, <1>1, <1>2, <1>4, <1>6, <1>7 DEF SessionInv
<1>14. ASSUME NEW b \in Account, b # a
       PROVE  TableInv(b)' /\ ShelfInv(b)' /\ InviteInv(b)' /\ SessionInv(b)'
  BY <1>1, <1>2, <1>3, <1>9, <1>14, Untouched
<1>15. OpkUsedOnce'
  <2>1. \A t \in sessions[a] : t.opk_key # o.key
    BY <1>1, <1>4, <1>6, Zenon DEF SessionInv
  <2> QED BY <2>1, <1>2, <1>7 DEF OpkInv, OpkUsedOnce
<1> QED BY <1>10, <1>11, <1>12, <1>13, <1>14, <1>15, Zenon DEF OpkInv

LEMMA InboundOnce ==
  ASSUME OpkInv, TypedInv', NEW a \in Account, NEW msg \in invite_msg[a],
         new_inbound_session(a, msg)
  PROVE  OpkInv'
<1>1. PICK spk_key \in bob_signed_pre_key(a, msg.spk.spk_id) :
       \/ /\ msg.opk.opk_id = 0
          /\ sessions' = [sessions EXCEPT ![a] =
                           @ \cup {[msg |-> msg, spk_key |-> spk_key, opk_key |-> 0]}]
          /\ UNCHANGED one_time_pre_key
       \/ \E o \in lookup_one_time_pre_key(a, msg.opk.opk_id) :
          /\ mark_opk_as_used(a, o)
          /\ sessions' = [sessions EXCEPT ![a] =
                           @ \cup {[msg |-> msg, spk_key |-> spk_key, opk_key |-> o.key]}]
  BY Zenon DEF new_inbound_session
<1>2. /\ invite_msg' = [invite_msg EXCEPT ![a] = @ \ {msg}]
      /\ UNCHANGED <<next_opk_id, n_keys, resuming, opk_shelf>>
  BY Zenon DEF new_inbound_session, server
<1> QED BY <1>1, <1>2, InboundWithout, InboundWith, Zenon

LEMMA FailedOnce ==
  ASSUME OpkInv, TypedInv', NEW a \in Account, NEW msg \in invite_msg[a],
         new_inbound_session_failed(a, msg)
  PROVE  OpkInv'
<1>1. /\ UNCHANGED <<one_time_pre_key, next_opk_id, n_keys, resuming, opk_shelf, sessions>>
      /\ invite_msg' = [invite_msg EXCEPT ![a] = @ \ {msg}]
  BY Zenon DEF new_inbound_session_failed, device, server
<1>2. invite_msg \in [Account -> SUBSET Invitation]
  BY Zenon DEF OpkInv, TypedInv, ShapeInv
<1>3. \A b \in Account : invite_msg'[b] \subseteq invite_msg[b] /\ UsedIds(b)' = UsedIds(b)
  BY <1>1, <1>2, Zenon DEF UsedIds, used_ids
<1>4. ASSUME NEW b \in Account
      PROVE  TableInv(b)' /\ ShelfInv(b)' /\ InviteInv(b)' /\ SessionInv(b)'
  <2>1. TableInv(b) /\ ShelfInv(b) /\ InviteInv(b) /\ SessionInv(b)
    BY Zenon DEF OpkInv
  <2>2. TableInv(b)' /\ ShelfInv(b)' /\ SessionInv(b)'
    BY <2>1, <1>1, <1>3 DEF TableInv, ShelfInv, SessionInv
  <2>3. InviteInv(b)'
    BY <2>1, <1>1, <1>3, ZenonT(40) DEF InviteInv
  <2> QED BY <2>2, <2>3, Zenon
<1>5. OpkUsedOnce'
  BY <1>1, Zenon DEF OpkInv, OpkUsedOnce
<1> QED BY <1>4, <1>5, Zenon DEF OpkInv

(* Keys seen as used are removed; those at the server or in invitations are not
   among them. *)
LEMMA PurgedOnce ==
  ASSUME OpkInv, TypedInv', NEW a \in Account, NEW used, used \subseteq UsedIds(a),
         one_time_pre_key' = [one_time_pre_key EXCEPT ![a] = purge_one_time_pre_key(@, used)],
         resuming' = resuming \/ (resuming.account = a /\ resuming' = NotResuming),
         UNCHANGED <<next_opk_id, n_keys, opk_shelf, invite_msg, sessions>>
  PROVE  OpkInv'
<1>1. /\ TypedInv /\ TableInv(a) /\ ShelfInv(a) /\ InviteInv(a) /\ SessionInv(a) /\ n_keys \in Nat
  BY DEF OpkInv, TypedInv, TypeOK, Key
<1>2. /\ one_time_pre_key'[a] \subseteq one_time_pre_key[a]
      /\ \A o \in one_time_pre_key[a] : o.opk_id \notin UsedIds(a) => o \in one_time_pre_key'[a]
      /\ \A b \in Account : b # a => one_time_pre_key'[b] = one_time_pre_key[b]
  BY <1>1, Zenon DEF TypedInv, ShapeInv, purge_one_time_pre_key
<1>3. NotResuming.account \notin Account
  BY PreKeysAssumption, Zenon DEF NotResuming
<1>4. UsedIds(a)' \subseteq UsedIds(a)
  BY <1>2, <1>3, Zenon DEF UsedIds, used_ids
<1>5. \A b \in Account : b # a => UsedIds(b)' = UsedIds(b)
  BY <1>2, <1>3, Zenon DEF UsedIds, used_ids
<1>6. TableInv(a)'
  BY <1>1, <1>2, <1>4, Zenon DEF TableInv
<1>7. ShelfInv(a)'
  <2>1. \A i \in DOMAIN opk_shelf[a] : Unused(opk_shelf[a][i]) \in one_time_pre_key'[a]
    BY <1>1, <1>2, Zenon DEF ShelfInv, Unused
  <2> QED BY <2>1, <1>1, <1>4, Zenon DEF ShelfInv
<1>8. InviteInv(a)'
  <2>1. \A k \in invite_msg[a] : k.opk.opk_id # 0 => Unused(k.opk) \in one_time_pre_key'[a]
    BY <1>1, <1>2, Zenon DEF InviteInv, Unused
  <2> QED BY <2>1, <1>1, <1>4, Zenon DEF InviteInv
<1>9. SessionInv(a)'
  BY <1>1, <1>2, Zenon DEF SessionInv
<1>10. ASSUME NEW b \in Account, b # a
       PROVE  TableInv(b)' /\ ShelfInv(b)' /\ InviteInv(b)' /\ SessionInv(b)'
  BY <1>1, <1>2, <1>5, <1>10, Untouched, SMTT(60)
<1>11. OpkUsedOnce'
  BY Zenon DEF OpkInv, OpkUsedOnce
<1> QED BY <1>6, <1>7, <1>8, <1>9, <1>10, <1>11, Zenon DEF OpkInv

LEMMA ExpiredOnce ==
  ASSUME OpkInv, TypedInv', NEW a \in Account, NEW outcome \in Outcome,
         resume_connection_expired(a, outcome)
  PROVE  OpkInv'
<1>1. /\ UNCHANGED <<one_time_pre_key, next_opk_id, opk_shelf, invite_msg, sessions>>
      /\ resuming = NotResuming /\ resuming'.account = a /\ resuming'.used = used_ids(a)
      /\ n_keys' = n_keys + 1 /\ n_keys \in Nat
  BY DEF OpkInv, TypedInv, TypeOK, Key, resume_connection_expired, device
<1>2. \A b \in Account : UsedIds(b)' = UsedIds(b)
  <2>1. NotResuming.account \notin Account
    BY PreKeysAssumption, ZenonT(40) DEF NotResuming
  <2> QED BY <1>1, <2>1, Zenon DEF UsedIds, used_ids
<1>3. ASSUME NEW b \in Account
      PROVE  TableInv(b)' /\ ShelfInv(b)' /\ InviteInv(b)' /\ SessionInv(b)'
  BY <1>1, <1>2, Untouched, SMTT(60)
<1>4. OpkUsedOnce'
  BY <1>1, Zenon DEF OpkInv, OpkUsedOnce
<1> QED BY <1>3, <1>4, Zenon DEF OpkInv

LEMMA NextOnce ==
  ASSUME "unanswered" \notin Outcome, OpkInv, [Next]_vars
  PROVE  OpkInv'
<1>1. TypedInv /\ TypedInv'
  BY NextTyped, Zenon DEF OpkInv
<1>2. CASE UNCHANGED vars
  <2>1. UNCHANGED <<one_time_pre_key, next_opk_id, n_keys, resuming, opk_shelf, invite_msg, sessions>>
    BY <1>2, Zenon DEF vars, device, server
  <2>2. \A b \in Account : UsedIds(b)' = UsedIds(b)
    BY <2>1, Zenon DEF UsedIds, used_ids
  <2>3. n_keys' \in Nat /\ n_keys <= n_keys'
    BY <1>1, <2>1 DEF TypedInv, TypeOK, Key
  <2>4. ASSUME NEW b \in Account
        PROVE  TableInv(b)' /\ ShelfInv(b)' /\ InviteInv(b)' /\ SessionInv(b)'
    BY <2>1, <2>2, <2>3, Untouched, Zenon
  <2>5. OpkUsedOnce'
    BY <2>1, Zenon DEF OpkInv, OpkUsedOnce
  <2> QED BY <1>1, <2>4, <2>5, Zenon DEF OpkInv
<1>3. ASSUME NEW a \in Account, resume_connection(a) PROVE OpkInv'
  <2>1. /\ one_time_pre_key' = [one_time_pre_key EXCEPT ![a] = purge_one_time_pre_key(@, used_ids(a))]
        /\ resuming' = resuming
        /\ UNCHANGED <<next_opk_id, n_keys, opk_shelf, invite_msg, sessions>>
    BY <1>3, Zenon DEF resume_connection, server
  <2>2. used_ids(a) \subseteq UsedIds(a)
    BY Zenon DEF UsedIds
  <2> QED BY <1>1, <2>1, <2>2, PurgedOnce, Zenon
<1>4. ASSUME NEW a \in Account, publish_spk_response(a) PROVE OpkInv'
  <2>1. /\ one_time_pre_key' = [one_time_pre_key EXCEPT ![a] = purge_one_time_pre_key(@, resuming.used)]
        /\ resuming.account = a /\ resuming' = NotResuming
        /\ UNCHANGED <<next_opk_id, n_keys, opk_shelf, invite_msg, sessions>>
    BY <1>4, Zenon DEF publish_spk_response, server
  <2>2. resuming.used \subseteq UsedIds(a)
    BY <2>1, Zenon DEF UsedIds
  <2> QED BY <1>1, <2>1, <2>2, PurgedOnce, Zenon
<1>5. CASE Next
  BY <1>1, <1>3, <1>4, <1>5, RegisterOnce, BundleOnce, InboundOnce, FailedOnce, SupplyOnce,
     ExpiredOnce, Zenon DEF Next
<1> QED BY <1>2, <1>5, Zenon

(* No one-time pre-key makes two sessions, for any number of accounts in the
   database, however bundles, supplies, purges and renewals interleave and
   whichever requests are lost on the way to the server.  Excluded is the answer
   that gets lost after the server has stored the new keys: then the same ids are
   generated again (consume_supply_opks_msg does not store keys without an
   answer). *)
THEOREM OpksUsedOnce ==
  ASSUME "unanswered" \notin Outcome
  PROVE  Spec => []OpkUsedOnce
<1>1. OpkInv /\ [Next]_vars => OpkInv'
  BY NextOnce, Zenon
<1>2. OpkInv => OpkUsedOnce
  BY Zenon DEF OpkInv
<1> QED BY <1>1, <1>2, InitOnce, PTL DEF Spec

-----------------------------------------------------------------------------
(***************************************************************************)
(* Theorems about the signed pre-keys of a database with one account, for  *)
(* any number of keys, renewals and invitations.                           *)
(***************************************************************************)
OneAccount == \A a, b \in Account : a = b

(* The rows are numbered like the ids of their keys, and the last two are there. *)
RowsInv(a) ==
  /\ current[a] = n_rows
  /\ \A r \in signed_pre_key[a] : r.row = r.spk_id
  /\ \A r, q \in signed_pre_key[a] : r.row = q.row => r = q
  /\ \A i \in 1..n_rows : i >= n_rows - 1 => \E r \in signed_pre_key[a] : r.row = i

(* The server has the key of the last row, or the one that waits for its answer. *)
Waiting == resuming # NotResuming /\ resuming.outcome = "ok"

PublishedInv(a) ==
  /\ resuming # NotResuming => resuming.spk.spk_id = n_rows + 1
  /\ Waiting => published[a] = resuming.spk
  /\ ~Waiting => /\ published[a].spk_id = n_rows
                 /\ \A r \in signed_pre_key[a] : r.row = n_rows => r.key = published[a].key

(* An invitation names a key the server has or had, by an id that names no other. *)
InvitedInv(a) ==
  \A m \in invite_msg[a] :
    /\ m.spk.spk_id \in 1..published[a].spk_id
    /\ m.spk.spk_id = published[a].spk_id => m.spk.key = published[a].key
    /\ \A r \in signed_pre_key[a] : r.row = m.spk.spk_id => r.key = m.spk.key

SpkInv ==
  /\ OpkInv
  /\ \A a \in Account : RowsInv(a) /\ PublishedInv(a) /\ InvitedInv(a)
  /\ SameKeys

-----------------------------------------------------------------------------
LEMMA MaxIs ==
  ASSUME NEW S \in SUBSET Nat, NEW n \in S, \A m \in S : m <= n
  PROVE  Max(S) = n
<1>1. \A m \in S : n >= m
  BY Zenon
<1>2. \E x \in S : \A y \in S : x >= y
  BY <1>1, Zenon
<1> DEFINE x == CHOOSE x \in S : \A y \in S : x >= y
<1>3. x \in S /\ \A y \in S : x >= y
  BY <1>2, Zenon
<1>4. x = Max(S)
  BY Zenon DEF Max
<1> HIDE DEF x
<1>5. x >= n /\ n >= x /\ x \in Nat /\ n \in Nat
  BY <1>1, <1>3, Zenon
<1> QED BY <1>4, <1>5

LEMMA RowsTyped ==
  ASSUME TypedInv, NEW a \in Account
  PROVE  /\ n_rows \in Nat /\ current[a] \in Nat
         /\ \A r \in signed_pre_key[a] : r.row \in Nat /\ r.row >= 1 /\ r.row <= n_rows /\ r.key \in Nat
BY SMTT(20) DEF TypedInv, ShapeInv, TypeOK

LEMMA InitSigned == Init => SpkInv
<1> SUFFICES ASSUME Init PROVE SpkInv
  BY Zenon
<1>1. \A a \in Account : RowsInv(a) /\ PublishedInv(a) /\ InvitedInv(a)
  BY DEF Init, RowsInv, PublishedInv, InvitedInv, Waiting
<1>2. SameKeys
  BY Zenon DEF Init, SameKeys
<1> QED BY <1>1, <1>2, InitOnce, Zenon DEF SpkInv

(* The account's key is that of the last row. *)
LEMMA AccountKey ==
  ASSUME TypedInv, NEW a \in Account, RowsInv(a), current[a] # 0
  PROVE  \E r \in signed_pre_key[a] : /\ r.row = n_rows
                                      /\ account_spk(a) = [spk_id |-> r.spk_id, key |-> r.key]
<1> DEFINE found == {[spk_id |-> r.spk_id, key |-> r.key] :
                       r \in {s \in signed_pre_key[a] : s.row = current[a]}}
<1>1. n_rows \in Nat /\ n_rows # 0 /\ current[a] = n_rows
  BY RowsTyped, Zenon DEF RowsInv
<1>2. PICK r \in signed_pre_key[a] : r.row = n_rows
  BY <1>1 DEF RowsInv
<1>3. found # {}
  BY <1>1, <1>2, Zenon
<1>4. account_spk(a) = CHOOSE k \in found : TRUE
  BY <1>3, Zenon DEF account_spk
<1>5. account_spk(a) \in found
  BY <1>3, <1>4, Zenon
<1> QED BY <1>1, <1>5, Zenon

(* The look-up by id returns the key of the row with that number. *)
LEMMA FoundKey ==
  ASSUME TypedInv, NEW a \in Account, RowsInv(a), current[a] # 0, NEW id
  PROVE  \A k : k \in bob_signed_pre_key(a, id) <=> \E r \in signed_pre_key[a] : r.row = id /\ r.key = k
<1>1. PICK q \in signed_pre_key[a] :
        q.row = n_rows /\ account_spk(a) = [spk_id |-> q.spk_id, key |-> q.key]
  BY AccountKey, Zenon
<1>2. account_spk(a).spk_id = q.row /\ account_spk(a).key = q.key
  BY <1>1 DEF RowsInv
<1>3. CASE account_spk(a).spk_id = id
  <2>1. bob_signed_pre_key(a, id) = {q.key}
    BY <1>2, <1>3, Zenon DEF bob_signed_pre_key
  <2>2. \A r \in signed_pre_key[a] : r.row = id => r = q
    BY <1>2, <1>3, Zenon DEF RowsInv
  <2> QED BY <2>1, <2>2, <1>2, <1>3, Zenon
<1>4. CASE account_spk(a).spk_id # id
  <2>1. bob_signed_pre_key(a, id) = {r.key : r \in {s \in signed_pre_key[a] : s.spk_id = id}}
    BY <1>4, Zenon DEF bob_signed_pre_key
  <2> QED BY <2>1 DEF RowsInv
<1> QED BY <1>3, <1>4, Zenon

(* Who is invited is registered, and has a last row. *)
LEMMA InvitedRegistered ==
  ASSUME SpkInv, OneAccount, NEW a \in Account, NEW m \in invite_msg[a]
  PROVE  current[a] # 0
<1>1. TypedInv /\ RowsInv(a) /\ PublishedInv(a) /\ InvitedInv(a) /\ n_rows \in Nat
  BY RowsTyped, Zenon DEF SpkInv, OpkInv
<1>2. m.spk.spk_id \in 1..published[a].spk_id /\ published[a].spk_id \in Nat
  BY <1>1, Zenon DEF InvitedInv, TypedInv, TypeOK
<1>3. CASE resuming = NotResuming
  BY <1>1, <1>2, <1>3 DEF PublishedInv, Waiting, RowsInv
<1>4. CASE resuming # NotResuming
  <2>1. resuming.account \in Account /\ current[resuming.account] # 0
    BY <1>1, <1>4, Zenon DEF TypedInv, ResumingInv, Resuming
  <2> QED BY <2>1, Zenon DEF OneAccount
<1> QED BY <1>3, <1>4, Zenon

(* The two theorems' invariant is what they state. *)
LEMMA SignedUsable == SpkInv /\ OneAccount => InviteUsable
<1> SUFFICES ASSUME SpkInv, OneAccount, NEW a \in Account, NEW m \in invite_msg[a],
                    resuming.account # a, m.spk.spk_id >= published[a].spk_id - 1
             PROVE  /\ m.spk.key \in bob_signed_pre_key(a, m.spk.spk_id)
                    /\ m.opk.opk_id # 0 =>
                         [opk_id |-> m.opk.opk_id, key |-> m.opk.key, used |-> FALSE]
                           \in one_time_pre_key[a]
  BY Zenon DEF InviteUsable
<1>1. /\ TypedInv /\ RowsInv(a) /\ PublishedInv(a) /\ InvitedInv(a) /\ InviteInv(a)
      /\ n_rows \in Nat /\ current[a] # 0
  BY RowsTyped, InvitedRegistered, Zenon DEF SpkInv, OpkInv
<1>2. resuming = NotResuming
  BY <1>1, Zenon DEF TypedInv, ResumingInv, Resuming, OneAccount
<1>3. published[a].spk_id = n_rows /\ m.spk.spk_id \in 1..n_rows
  BY <1>1, <1>2, Zenon DEF PublishedInv, Waiting, InvitedInv
<1>4. PICK r \in signed_pre_key[a] : r.row = m.spk.spk_id
  BY <1>1, <1>3, Zenon DEF RowsInv
<1>5. r.key = m.spk.key
  BY <1>1, <1>4, Zenon DEF InvitedInv
<1>6. m.spk.key \in bob_signed_pre_key(a, m.spk.spk_id)
  BY <1>1, <1>4, <1>5, FoundKey, Zenon
<1> QED BY <1>1, <1>6, Zenon DEF InviteInv, Unused

-----------------------------------------------------------------------------
LEMMA RegisterSigned ==
  ASSUME SpkInv, OpkInv', OneAccount, NEW a \in Account, register_user(a)
  PROVE  RowsInv(a)' /\ PublishedInv(a)' /\ InvitedInv(a)' /\ SameKeys'
<1>1. TypedInv /\ RowsInv(a) /\ PublishedInv(a) /\ InvitedInv(a) /\ n_rows \in Nat
  BY RowsTyped, Zenon DEF SpkInv, OpkInv
<1> DEFINE spk == generate_signed_pre_key(0, n_keys + 1)
           new == [row |-> n_rows + 1, spk_id |-> spk.spk_id, key |-> spk.key]
<1>2. /\ current[a] = 0 /\ n_rows = 0 /\ resuming = NotResuming /\ n_rows' = 1
      /\ resuming' = resuming /\ invite_msg' = invite_msg /\ sessions' = sessions
  BY <1>1 DEF register_user, Registered, update_signed_pre_key, RowsInv
<1>3. /\ signed_pre_key'[a] = signed_pre_key[a] \cup {new}
      /\ current'[a] = 1 /\ published'[a] = spk
  BY <1>1, <1>2, Zenon DEF register_user, update_signed_pre_key, TypedInv, ShapeInv
<1>4. signed_pre_key[a] = {} /\ invite_msg[a] = {}
  <2>1. \A r \in signed_pre_key[a] : r.row >= 1 /\ r.row <= n_rows /\ r.row \in Nat
    BY <1>1, RowsTyped, Zenon
  <2>2. published[a].spk_id = 0
    BY <1>1, <1>2, Zenon DEF PublishedInv, Waiting
  <2> QED BY <1>1, <1>2, <2>1, <2>2 DEF InvitedInv
<1>5. new.row = 1 /\ new.spk_id = 1 /\ new.key = spk.key /\ spk.spk_id = 1
  BY <1>2 DEF generate_signed_pre_key
<1> HIDE DEF new, spk
<1>6. RowsInv(a)'
  BY <1>2, <1>3, <1>4, <1>5 DEF RowsInv
<1>7. PublishedInv(a)'
  BY <1>2, <1>3, <1>4, <1>5, Zenon DEF PublishedInv, Waiting
<1>8. InvitedInv(a)' /\ SameKeys'
  BY <1>2, <1>4, Zenon DEF InvitedInv, SpkInv, SameKeys
<1> QED BY <1>6, <1>7, <1>8, Zenon

LEMMA BundleSigned ==
  ASSUME SpkInv, OneAccount, NEW a \in Account, get_pre_key_bundle(a)
  PROVE  RowsInv(a)' /\ PublishedInv(a)' /\ InvitedInv(a)' /\ SameKeys'
<1>1. TypedInv /\ RowsInv(a) /\ PublishedInv(a) /\ InvitedInv(a) /\ n_rows \in Nat
  BY RowsTyped, Zenon DEF SpkInv, OpkInv
<1>2. /\ UNCHANGED <<signed_pre_key, current, n_rows, resuming, published, sessions>>
      /\ n_rows # 0
  BY <1>1, Zenon DEF get_pre_key_bundle, Registered, device, RowsInv
<1>3. PICK m : invite_msg'[a] = invite_msg[a] \cup {m} /\ m.spk = published[a]
  <2> DEFINE opk == IF opk_shelf[a] = << >> THEN [opk_id |-> 0, key |-> 0] ELSE Head(opk_shelf[a])
             m   == [id |-> n_invites', spk |-> published[a], opk |-> opk]
  <2>1. invite_msg' = [invite_msg EXCEPT ![a] = @ \cup {m}] /\ m.spk = published[a]
    BY Zenon DEF get_pre_key_bundle
  <2> HIDE DEF m
  <2>2. invite_msg'[a] = invite_msg[a] \cup {m}
    BY <1>1, <2>1, Zenon DEF TypedInv, ShapeInv
  <2> QED BY <2>1, <2>2, Zenon
<1>4. RowsInv(a)' /\ SameKeys'
  BY <1>1, <1>2, Zenon DEF RowsInv, SpkInv, SameKeys
<1>5. PublishedInv(a)'
  BY <1>1, <1>2, Zenon DEF PublishedInv, Waiting
<1>6. published[a].spk_id \in Nat /\ published[a].spk_id >= 1
  BY <1>1, <1>2 DEF PublishedInv, Waiting
<1>7. \A r \in signed_pre_key[a] : r.row = published[a].spk_id => r.key = published[a].key
  <2>1. CASE Waiting
    BY <1>1, <2>1, RowsTyped DEF PublishedInv, Waiting
  <2>2. CASE ~Waiting
    BY <1>1, <2>2, Zenon DEF PublishedInv
  <2> QED BY <2>1, <2>2, Zenon
<1>8. InvitedInv(a)'
  BY <1>1, <1>2, <1>3, <1>6, <1>7 DEF InvitedInv
<1> QED BY <1>4, <1>5, <1>8, Zenon

(* The key found is the one the invitation was made from. *)
LEMMA InboundSigned ==
  ASSUME SpkInv, OneAccount, NEW a \in Account, NEW msg \in invite_msg[a],
         new_inbound_session(a, msg), OpkInv'
  PROVE  RowsInv(a)' /\ PublishedInv(a)' /\ InvitedInv(a)' /\ SameKeys'
<1>1. /\ TypedInv /\ RowsInv(a) /\ PublishedInv(a) /\ InvitedInv(a) /\ current[a] # 0
  BY InvitedRegistered, Zenon DEF SpkInv, OpkInv
<1>2. /\ UNCHANGED <<signed_pre_key, current, n_rows, resuming, published>>
      /\ invite_msg'[a] \subseteq invite_msg[a]
  BY <1>1, Zenon DEF new_inbound_session, server, TypedInv, ShapeInv
<1>3. RowsInv(a)' /\ PublishedInv(a)' /\ InvitedInv(a)'
  BY <1>1, <1>2, Zenon DEF RowsInv, PublishedInv, Waiting, InvitedInv
<1>4. PICK spk_key, opk_key :
        /\ spk_key \in bob_signed_pre_key(a, msg.spk.spk_id)
        /\ sessions' = [sessions EXCEPT ![a] =
                         @ \cup {[msg |-> msg, spk_key |-> spk_key, opk_key |-> opk_key]}]
  BY Zenon DEF new_inbound_session
<1>5. spk_key = msg.spk.key
  BY <1>1, <1>4, FoundKey DEF InvitedInv
<1>6. SameKeys'
  <2> SUFFICES ASSUME NEW b \in Account, NEW s \in sessions'[b]
               PROVE  s.spk_key = s.msg.spk.key /\ s.opk_key = s.msg.opk.key
    BY Zenon DEF SameKeys
  <2>1. s.opk_key = s.msg.opk.key
    BY Zenon DEF OpkInv, SessionInv
  <2>2. sessions \in [Account -> SUBSET [msg : Invitation, spk_key : Nat, opk_key : Nat]]
    BY <1>1, Zenon DEF TypedInv, ShapeInv
  <2>3. s \in sessions[b] \/ s = [msg |-> msg, spk_key |-> spk_key, opk_key |-> opk_key]
    BY <1>4, <2>2, Zenon
  <2>4. s.spk_key = s.msg.spk.key
    BY <2>3, <1>5 DEF SpkInv, SameKeys
  <2> QED BY <2>1, <2>4, Zenon
<1> QED BY <1>3, <1>6, Zenon

(* Steps that leave the signed pre-keys alone. *)
LEMMA SignedAside ==
  ASSUME SpkInv, NEW a \in Account, invite_msg'[a] \subseteq invite_msg[a],
         UNCHANGED <<signed_pre_key, current, n_rows, resuming, published, sessions>>
  PROVE  RowsInv(a)' /\ PublishedInv(a)' /\ InvitedInv(a)' /\ SameKeys'
<1>1. RowsInv(a) /\ PublishedInv(a) /\ InvitedInv(a) /\ SameKeys
  BY Zenon DEF SpkInv
<1>2. RowsInv(a)' /\ SameKeys'
  BY <1>1, Zenon DEF RowsInv, SameKeys
<1>3. PublishedInv(a)'
  BY <1>1, Zenon DEF PublishedInv, Waiting
<1>4. InvitedInv(a)'
  BY <1>1, Zenon DEF InvitedInv
<1> QED BY <1>2, <1>3, <1>4, Zenon

(* What is left of the rows up to the n-th: the last two. *)
LEMMA Removed ==
  ASSUME NEW rows, NEW n \in Nat, n >= 1, \A r \in rows : r.row \in Nat /\ r.row <= n,
         \E r \in rows : r.row = n
  PROVE  remove_expired_signed_pre_key(rows, rows) = {r \in rows : r.row >= n - 1}
<1> DEFINE S == {s.row : s \in rows}
<1>1. S \in SUBSET Nat /\ n \in S /\ \A m \in S : m <= n
  BY Zenon
<1> HIDE DEF S
<1>2. Max(S) = n
  BY <1>1, MaxIs, Zenon
<1> QED BY <1>2, Zenon DEF remove_expired_signed_pre_key, S

LEMMA OnlyRows ==
  ASSUME OneAccount, NEW a \in Account
  PROVE  Rows = signed_pre_key[a]
BY Zenon DEF OneAccount, Rows

LEMMA ResumeSigned ==
  ASSUME SpkInv, OneAccount, NEW a \in Account, resume_connection(a)
  PROVE  RowsInv(a)' /\ PublishedInv(a)' /\ InvitedInv(a)' /\ SameKeys'
<1>1. /\ TypedInv /\ RowsInv(a) /\ PublishedInv(a) /\ InvitedInv(a) /\ n_rows \in Nat
      /\ current[a] # 0 /\ n_rows # 0
  BY RowsTyped, Zenon DEF SpkInv, OpkInv, RowsInv, resume_connection, Registered
<1>2. UNCHANGED <<current, n_rows, resuming, published, invite_msg, sessions>>
  BY Zenon DEF resume_connection, server
<1>3. signed_pre_key'[a] = {r \in signed_pre_key[a] : r.row >= n_rows - 1}
  <2>1. signed_pre_key'[a] = remove_expired_signed_pre_key(signed_pre_key[a], signed_pre_key[a])
    BY <1>1, OnlyRows, Zenon DEF resume_connection, TypedInv, ShapeInv
  <2>2. \E r \in signed_pre_key[a] : r.row = n_rows
    BY <1>1, SMTT(20) DEF RowsInv
  <2> QED BY <2>1, <2>2, <1>1, RowsTyped, Removed
<1>4. RowsInv(a)'
  BY <1>1, <1>2, <1>3 DEF RowsInv
<1>5. PublishedInv(a)'
  BY <1>1, <1>2, <1>3, Zenon DEF PublishedInv, Waiting
<1>6. InvitedInv(a)' /\ SameKeys'
  BY <1>1, <1>2, <1>3, Zenon DEF InvitedInv, SpkInv, SameKeys
<1> QED BY <1>4, <1>5, <1>6, Zenon

LEMMA ExpiredSigned ==
  ASSUME SpkInv, OneAccount, "unanswered" \notin Outcome,
         NEW a \in Account, NEW outcome \in Outcome, resume_connection_expired(a, outcome)
  PROVE  RowsInv(a)' /\ PublishedInv(a)' /\ InvitedInv(a)' /\ SameKeys'
<1>1. /\ TypedInv /\ RowsInv(a) /\ PublishedInv(a) /\ InvitedInv(a) /\ n_rows \in Nat
      /\ current[a] # 0 /\ resuming = NotResuming
  BY RowsTyped, Zenon DEF SpkInv, OpkInv, resume_connection_expired, Registered
<1> DEFINE spk == generate_signed_pre_key(account_spk(a).spk_id, n_keys + 1)
<1>2. UNCHANGED <<signed_pre_key, current, n_rows, invite_msg, sessions>>
  BY Zenon DEF resume_connection_expired, device
<1>3. spk.spk_id = n_rows + 1
  <2>1. account_spk(a).spk_id = n_rows
    BY <1>1, AccountKey DEF RowsInv
  <2> QED BY <2>1, Zenon DEF generate_signed_pre_key
<1>4. /\ resuming'.spk = spk /\ resuming'.outcome = outcome /\ resuming'.account = a
      /\ published'[a] = IF outcome = "lost" THEN published[a] ELSE spk
  BY <1>1, Zenon DEF resume_connection_expired, TypedInv, ShapeInv
<1> HIDE DEF spk
<1>5. published[a].spk_id = n_rows /\ NotResuming.account \notin Account
  BY <1>1, PreKeysAssumption, Zenon DEF PublishedInv, Waiting, NotResuming
<1>6. RowsInv(a)' /\ SameKeys'
  BY <1>1, <1>2, Zenon DEF RowsInv, SpkInv, SameKeys
<1>7. CASE outcome = "ok"
  <2>1. published'[a] = spk /\ Waiting'
    BY <1>4, <1>5, <1>7, Zenon DEF Waiting
  <2>2. PublishedInv(a)'
    BY <1>2, <1>3, <1>4, <2>1, ZenonT(40) DEF PublishedInv
  <2>3. InvitedInv(a)'
    BY <1>1, <1>2, <1>3, <1>5, <2>1, SMTT(30) DEF InvitedInv
  <2> QED BY <1>6, <2>2, <2>3, Zenon
<1>8. CASE outcome = "lost"
  <2>1. published'[a] = published[a] /\ ~Waiting'
    BY <1>4, <1>8, Zenon DEF Waiting
  <2>2. PublishedInv(a)'
    BY <1>1, <1>2, <1>3, <1>4, <1>5, <2>1, Zenon DEF PublishedInv, Waiting
  <2>3. InvitedInv(a)'
    BY <1>1, <1>2, <2>1, Zenon DEF InvitedInv
  <2> QED BY <1>6, <2>2, <2>3, Zenon
<1> QED BY <1>7, <1>8, PreKeysAssumption, Zenon

LEMMA ResponseSigned ==
  ASSUME SpkInv, OneAccount, NEW a \in Account, publish_spk_response(a)
  PROVE  RowsInv(a)' /\ PublishedInv(a)' /\ InvitedInv(a)' /\ SameKeys'
<1>1. /\ TypedInv /\ RowsInv(a) /\ PublishedInv(a) /\ InvitedInv(a) /\ n_rows \in Nat
      /\ resuming.account = a /\ resuming # NotResuming /\ current[a] # 0 /\ n_rows # 0
  <2>1. /\ TypedInv /\ RowsInv(a) /\ PublishedInv(a) /\ InvitedInv(a) /\ n_rows \in Nat
        /\ resuming.account = a
    BY RowsTyped, Zenon DEF SpkInv, OpkInv, publish_spk_response
  <2>2. resuming # NotResuming
    BY <2>1, PreKeysAssumption DEF NotResuming
  <2>3. current[a] # 0
    BY <2>1, <2>2, Zenon DEF TypedInv, ResumingInv
  <2> QED BY <2>1, <2>2, <2>3, Zenon DEF RowsInv
<1>2. /\ resuming' = NotResuming /\ UNCHANGED <<published, invite_msg, sessions>> /\ ~Waiting'
  BY Zenon DEF publish_spk_response, server, Waiting
<1>3. SameKeys'
  BY <1>2, Zenon DEF SpkInv, SameKeys
<1>4. \E r \in signed_pre_key[a] : r.row = n_rows
  BY <1>1 DEF RowsInv
<1>5. \A r \in signed_pre_key[a] : r.row \in Nat /\ r.row <= n_rows
  BY <1>1, RowsTyped, Zenon
<1>6. CASE resuming.outcome = "ok"
  <2> DEFINE new  == [row |-> n_rows + 1, spk_id |-> resuming.spk.spk_id, key |-> resuming.spk.key]
             rows == signed_pre_key[a] \cup {new}
  <2>1. /\ signed_pre_key'[a] = remove_expired_signed_pre_key(rows, rows)
        /\ n_rows' = n_rows + 1 /\ current'[a] = n_rows + 1
    BY <1>1, <1>6, OnlyRows, Zenon DEF publish_spk_response, TypedInv, ShapeInv
  <2>2. /\ published[a] = resuming.spk /\ resuming.spk.spk_id = n_rows + 1
        /\ new.row = n_rows + 1 /\ new.spk_id = n_rows + 1 /\ new.key = published[a].key
    BY <1>1, <1>6, Zenon DEF PublishedInv, Waiting
  <2> HIDE DEF new
  <2>3. \A r \in rows : r.row \in Nat /\ r.row <= n_rows + 1
    BY <1>1, <1>5, <2>2
  <2>4. remove_expired_signed_pre_key(rows, rows) = {r \in rows : r.row >= (n_rows + 1) - 1}
    <3>1. PICK n \in Nat : n = n_rows + 1
      BY <1>1
    <3>2. \E r \in rows : r.row = n
      BY <2>2, <3>1, Zenon
    <3> HIDE DEF rows
    <3>3. n >= 1 /\ \A r \in rows : r.row \in Nat /\ r.row <= n
      BY <1>1, <2>3, <3>1
    <3>4. remove_expired_signed_pre_key(rows, rows) = {r \in rows : r.row >= n - 1}
      BY <3>2, <3>3, Removed, Zenon
    <3> QED BY <3>1, <3>4, Zenon
  <2>5. /\ \A r \in signed_pre_key'[a] : r \in signed_pre_key[a] \/ r = new
        /\ new \in signed_pre_key'[a]
        /\ \A r \in signed_pre_key[a] : r.row = n_rows => r \in signed_pre_key'[a]
    <3>1. n_rows >= (n_rows + 1) - 1 /\ n_rows + 1 >= (n_rows + 1) - 1
      BY <1>1
    <3>2. signed_pre_key'[a] = {r \in rows : r.row >= (n_rows + 1) - 1}
      BY <2>1, <2>4, Zenon
    <3> QED BY <3>1, <3>2, <2>2, Zenon
  <2>6. RowsInv(a)'
    <3>1. current'[a] = n_rows' /\ \A r \in signed_pre_key'[a] : r.row = r.spk_id
      BY <1>1, <2>1, <2>2, <2>5, Zenon DEF RowsInv
    <3>2. \A r, q \in signed_pre_key'[a] : r.row = q.row => r = q
      BY <1>1, <1>5, <2>2, <2>5 DEF RowsInv
    <3>3. \A i \in 1..n_rows' : i >= n_rows' - 1 => \E r \in signed_pre_key'[a] : r.row = i
      <4>1. \A i \in 1..n_rows' : i >= n_rows' - 1 => i = n_rows \/ i = n_rows + 1
        BY <1>1, <2>1
      <4> QED BY <4>1, <1>4, <2>2, <2>5, Zenon
    <3> QED BY <3>1, <3>2, <3>3, Zenon DEF RowsInv
  <2>7. PublishedInv(a)'
    <3>1. \A r \in signed_pre_key'[a] : r.row = n_rows' => r.key = published[a].key
      <4>1. \A r \in signed_pre_key[a] : r.row # n_rows'
        BY <1>1, <1>5, <2>1, SMTT(20)
      <4> QED BY <4>1, <2>2, <2>5, Zenon
    <3> QED BY <1>2, <2>1, <2>2, <3>1, Zenon DEF PublishedInv
  <2>8. InvitedInv(a)'
    BY <1>1, <1>2, <2>2, <2>5 DEF InvitedInv
  <2> QED BY <1>3, <2>6, <2>7, <2>8, Zenon
<1>7. CASE resuming.outcome # "ok"
  <2>1. /\ signed_pre_key'[a] = remove_expired_signed_pre_key(signed_pre_key[a], signed_pre_key[a])
        /\ n_rows' = n_rows /\ current'[a] = current[a]
    <3>1. signed_pre_key[a] \cup {} = signed_pre_key[a]
      BY ZenonT(40)
    <3> QED BY <1>1, <1>7, <3>1, OnlyRows, Zenon DEF publish_spk_response, TypedInv, ShapeInv
  <2>2. signed_pre_key'[a] = {r \in signed_pre_key[a] : r.row >= n_rows - 1}
    BY <1>1, <1>4, <1>5, <2>1, Removed, SMTT(20)
  <2>3. RowsInv(a)'
    BY <1>1, <2>1, <2>2 DEF RowsInv
  <2>4. PublishedInv(a)'
    BY <1>1, <1>2, <1>7, <2>1, <2>2, Zenon DEF PublishedInv, Waiting
  <2>5. InvitedInv(a)'
    BY <1>1, <1>2, <2>2, Zenon DEF InvitedInv
  <2> QED BY <1>3, <2>3, <2>4, <2>5, Zenon
<1> QED BY <1>6, <1>7, Zenon

LEMMA NextSigned ==
  ASSUME OneAccount, "unanswered" \notin Outcome, SpkInv, [Next]_vars
  PROVE  SpkInv'
<1>1. OpkInv /\ OpkInv'
  BY NextOnce, Zenon DEF SpkInv
<1>2. CASE UNCHANGED vars
  <2>1. /\ UNCHANGED <<signed_pre_key, current, n_rows, resuming, published, sessions>>
        /\ \A a \in Account : invite_msg'[a] \subseteq invite_msg[a]
    BY <1>2, Zenon DEF vars
  <2>2. ASSUME NEW a \in Account
        PROVE  RowsInv(a)' /\ PublishedInv(a)' /\ InvitedInv(a)'
    BY <2>1, SignedAside, Zenon
  <2>3. SameKeys'
    BY <2>1, Zenon DEF SpkInv, SameKeys
  <2> QED BY <1>1, <2>2, <2>3, Zenon DEF SpkInv
<1>3. ASSUME NEW a \in Account,
             RowsInv(a)' /\ PublishedInv(a)' /\ InvitedInv(a)' /\ SameKeys'
      PROVE  SpkInv'
  BY <1>1, <1>3, Zenon DEF SpkInv, OneAccount
<1>4. ASSUME NEW a \in Account, NEW msg \in invite_msg[a], new_inbound_session_failed(a, msg)
      PROVE  SpkInv'
  <2>1. invite_msg \in [Account -> SUBSET Invitation]
    BY <1>1, Zenon DEF OpkInv, TypedInv, ShapeInv
  <2>2. /\ UNCHANGED <<signed_pre_key, current, n_rows, resuming, published, sessions>>
        /\ invite_msg'[a] \subseteq invite_msg[a]
    BY <1>4, <2>1, Zenon DEF new_inbound_session_failed, device, server
  <2> QED BY <2>2, <1>3, SignedAside, Zenon
<1>5. ASSUME NEW a \in Account, NEW num \in SupplyNum, NEW o \in Outcome,
             consume_supply_opks_msg(a, num, o)
      PROVE  SpkInv'
  <2>1. /\ UNCHANGED <<signed_pre_key, current, n_rows, resuming, published, sessions>>
        /\ invite_msg'[a] \subseteq invite_msg[a]
    BY <1>5, Zenon DEF consume_supply_opks_msg
  <2> QED BY <2>1, <1>3, SignedAside, Zenon
<1>6. ASSUME NEW a \in Account, register_user(a) PROVE SpkInv'
  BY <1>1, <1>3, <1>6, RegisterSigned, Zenon
<1>7. ASSUME NEW a \in Account, get_pre_key_bundle(a) PROVE SpkInv'
  BY <1>3, <1>7, BundleSigned, Zenon
<1>8. ASSUME NEW a \in Account, NEW msg \in invite_msg[a], new_inbound_session(a, msg) PROVE SpkInv'
  BY <1>1, <1>3, <1>8, InboundSigned, Zenon
<1>9. ASSUME NEW a \in Account, resume_connection(a) PROVE SpkInv'
  BY <1>3, <1>9, ResumeSigned, Zenon
<1>10. ASSUME NEW a \in Account, NEW o \in Outcome, resume_connection_expired(a, o) PROVE SpkInv'
  BY <1>3, <1>10, ExpiredSigned, Zenon
<1>11. ASSUME NEW a \in Account, publish_spk_response(a) PROVE SpkInv'
  BY <1>3, <1>11, ResponseSigned, Zenon
<1>12. CASE Next
  BY <1>4, <1>5, <1>6, <1>7, <1>8, <1>9, <1>10, <1>11, <1>12, Zenon DEF Next
<1> QED BY <1>2, <1>12, Zenon

(* An inbound session is made from the private halves of the very keys its
   invitation was made from, however many times resume_connection renewed the
   signed pre-key and removed old ones, for the one account of a database: an id
   never names two keys.  A renewal may be lost on its way to the server; the
   answer to one the server has stored may not. *)
THEOREM SameKeysAlways ==
  ASSUME OneAccount, "unanswered" \notin Outcome
  PROVE  Spec => []SameKeys
<1>1. SpkInv /\ [Next]_vars => SpkInv'
  BY NextSigned, Zenon
<1>2. SpkInv => SameKeys
  BY Zenon DEF SpkInv
<1> QED BY <1>1, <1>2, InitSigned, PTL DEF Spec

(* Under the same assumptions, an invitation made from the published signed
   pre-key or from the one before finds its keys, unless the answer to a renewal
   is awaited: remove_expired_signed_pre_key keeps two rows, and
   purge_one_time_pre_key no key that an invitation may still name. *)
THEOREM InvitesUsable ==
  ASSUME OneAccount, "unanswered" \notin Outcome
  PROVE  Spec => []InviteUsable
<1>1. SpkInv /\ [Next]_vars => SpkInv'
  BY NextSigned, Zenon
<1>2. SpkInv => InviteUsable
  BY SignedUsable, Zenon
<1> QED BY <1>1, <1>2, InitSigned, PTL DEF Spec
=============================================================================
