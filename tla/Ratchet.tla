------------------------------ MODULE Ratchet ------------------------------
(***************************************************************************)
(* The double ratchet of one end of a one2one session: the operators of    *)
(* src/ratchet.c as functions from a ratchet (and a payload) to a ratchet. *)
(*                                                                         *)
(* Keys are symbolic.  A ratchet key is the label of the encapsulation     *)
(* that made it; encapsulation is fresh at every root step, and the two    *)
(* ends take root steps in turn, so the label made under root key k is     *)
(* k + 1.  A root key is named by the last ratchet key mixed into it.  A   *)
(* chain key is [root, ratchet_key, index]: the root key it was derived    *)
(* from, the ratchet key mixed in, and how often it was advanced.  A       *)
(* message key is the chain key it was made from, and a ciphertext opens   *)
(* under exactly the message key it was sealed with.                       *)
(***************************************************************************)
EXTENDS Integers, Sequences

CONSTANT MAX_SKIPPED_MESSAGE_KEY_NODES

ASSUME MaxSkippedAssumption == MAX_SKIPPED_MESSAGE_KEY_NODES \in Nat

(* The receiver chain of a new inbound session: a private key, no chain key. *)
NoChainKey == [root |-> -1, ratchet_key |-> -1, index |-> 0]

(* What is_valid_chain_key tests: the key is there. *)
is_valid_chain_key(chain_key) == chain_key # NoChainKey

create_chain_key(root_key, ratchet_key) ==
  [root |-> root_key, ratchet_key |-> ratchet_key, index |-> 0]

advance_chain_key(chain_key, n) == [chain_key EXCEPT !.index = @ + n]

(* The message keys of the next n indices, in order. *)
create_msg_keys(chain_key, n) ==
  [j \in 1..n |-> advance_chain_key(chain_key, j - 1)]

verify_and_decrypt(msg_key, payload) == payload.sealed_with = msg_key

verify_and_decrypt_for_existing_chain(chain_key, payload) ==
  /\ is_valid_chain_key(chain_key)
  /\ payload.sequence >= chain_key.index
  /\ verify_and_decrypt([chain_key EXCEPT !.index = payload.sequence], payload)

verify_and_decrypt_for_new_chain(ratchet, payload) ==
  /\ payload.root_sequence # 0
  /\ verify_and_decrypt_for_existing_chain(
       create_chain_key(ratchet.root_key, payload.ratchet_key), payload)

(* Mutants: no limit at all; the newest keys are dropped. *)
prune_nothing(skipped) == skipped

prune_newest(skipped) ==
  LET excess == Len(skipped) - MAX_SKIPPED_MESSAGE_KEY_NODES
  IN  IF excess <= 0 THEN skipped ELSE SubSeq(skipped, 1, MAX_SKIPPED_MESSAGE_KEY_NODES)

(* Beyond the limit, the oldest keys at the front are dropped. *)
prune_bloated_skipped_keys(skipped) ==
  LET excess == Len(skipped) - MAX_SKIPPED_MESSAGE_KEY_NODES
  IN  IF excess <= 0 THEN skipped ELSE SubSeq(skipped, excess + 1, Len(skipped))

(***************************************************************************)
(* The two ways a ratchet starts.  The inviter's first sender chain is     *)
(* already one root step ahead.                                            *)
(***************************************************************************)
initialise_as_bob ==
  [root_key |-> 0, root_sequence |-> 0,
   sender_chain |-> create_chain_key(0, 0), receiver_chain |-> NoChainKey,
   skipped_msg_key_list |-> << >>,
   sending_message_sequence |-> 0, received_message_sequence |-> 0]

initialise_as_alice ==
  [root_key |-> 1, root_sequence |-> 1,
   sender_chain |-> create_chain_key(0, 1), receiver_chain |-> create_chain_key(0, 0),
   skipped_msg_key_list |-> << >>,
   sending_message_sequence |-> 0, received_message_sequence |-> 0]

(***************************************************************************)
(* encrypt_ratchet: the payload, and the ratchet after it.                 *)
(***************************************************************************)
encrypted_payload(ratchet) ==
  [sequence |-> ratchet.sender_chain.index,
   ratchet_key |-> ratchet.sender_chain.ratchet_key,
   root_sequence |-> ratchet.root_sequence,
   sending_message_sequence |-> ratchet.sending_message_sequence + 1,
   sealed_with |-> ratchet.sender_chain]

encrypt_ratchet(ratchet) ==
  [ratchet EXCEPT !.sender_chain = advance_chain_key(@, 1),
                  !.sending_message_sequence = @ + 1]

(***************************************************************************)
(* decrypt_ratchet.  A payload belongs to a chain already passed, to the   *)
(* current receiver chain, or to the chain the peer has just started.      *)
(***************************************************************************)
on_current_chain(ratchet, payload) ==
  /\ payload.root_sequence = ratchet.root_sequence - 1
  /\ payload.ratchet_key = ratchet.receiver_chain.ratchet_key

is_skipped(ratchet, payload) ==
  \/ payload.root_sequence < ratchet.root_sequence - 1
  \/ /\ on_current_chain(ratchet, payload)
     /\ ratchet.receiver_chain.index > payload.sequence

is_existing_chain(ratchet, payload) ==
  /\ on_current_chain(ratchet, payload)
  /\ ratchet.receiver_chain.index <= payload.sequence

is_new_chain(ratchet, payload) ==
  payload.root_sequence = ratchet.root_sequence + 1

(* The entries of the skipped key list that open the payload. *)
skipped_hits(ratchet, payload) ==
  LET skipped == ratchet.skipped_msg_key_list
  IN  {i \in DOMAIN skipped :
         /\ skipped[i].index = payload.sequence
         /\ skipped[i].ratchet_key = payload.ratchet_key
         /\ verify_and_decrypt(skipped[i], payload)}

(* Did the payload open?  Nothing of the ratchet has changed so far. *)
opens(ratchet, payload) ==
  /\ ratchet.root_sequence = 0 =>
       payload.sending_message_sequence >= payload.sequence
  /\ \/ /\ is_skipped(ratchet, payload)
        /\ skipped_hits(ratchet, payload) # {}
     \/ /\ is_existing_chain(ratchet, payload)
        /\ verify_and_decrypt_for_existing_chain(ratchet.receiver_chain, payload)
     \/ /\ is_new_chain(ratchet, payload)
        /\ verify_and_decrypt_for_new_chain(ratchet, payload)

(* Mutant: the entry stays in the list. *)
keep_skipped_key(ratchet, payload) == ratchet

(* The first entry that opened the payload is taken out of the list. *)
drop_skipped_key(ratchet, payload) ==
  LET hits == skipped_hits(ratchet, payload)
      hit  == CHOOSE i \in hits : \A j \in hits : i <= j
  IN  [ratchet EXCEPT !.skipped_msg_key_list =
         SubSeq(@, 1, hit - 1) \o SubSeq(@, hit + 1, Len(@))]

(* Mutant: the payload is counted twice. *)
skipped_counted_twice(ratchet, payload) ==
  LET expected_total_received ==
        ratchet.received_message_sequence + payload.sequence + 2
  IN  IF payload.sending_message_sequence > expected_total_received
        THEN payload.sending_message_sequence - expected_total_received ELSE 0

(* Messages of the previous chain that have not come in, from the totals. *)
skipped_in_previous_chain(ratchet, payload) ==
  LET expected_total_received ==
        ratchet.received_message_sequence + payload.sequence + 1
  IN  IF payload.sending_message_sequence > expected_total_received
        THEN payload.sending_message_sequence - expected_total_received ELSE 0

(* The keys passed over on a chain are appended to the list. *)
save_skipped_keys(ratchet, chain_key, n) ==
  [ratchet EXCEPT !.skipped_msg_key_list = @ \o create_msg_keys(chain_key, n)]

previous_chain_ok(ratchet, payload) ==
  LET skipped_num == skipped_in_previous_chain(ratchet, payload)
  IN  /\ skipped_num <= MAX_SKIPPED_MESSAGE_KEY_NODES
      /\ skipped_num = 0 \/ is_valid_chain_key(ratchet.receiver_chain)

(* Mutant: only one of the two root steps is counted. *)
start_new_chains_one_step(ratchet, payload) ==
  LET passed == save_skipped_keys(ratchet, ratchet.receiver_chain,
                                  skipped_in_previous_chain(ratchet, payload))
      ours   == payload.ratchet_key + 1
  IN  [passed EXCEPT
         !.receiver_chain = create_chain_key(ratchet.root_key, payload.ratchet_key),
         !.sender_chain   = create_chain_key(payload.ratchet_key, ours),
         !.root_key       = ours,
         !.root_sequence  = @ + 1]

(* Two root steps: the peer's new chain, then a new sender chain of ours. *)
start_new_chains(ratchet, payload) ==
  LET passed == save_skipped_keys(ratchet, ratchet.receiver_chain,
                                  skipped_in_previous_chain(ratchet, payload))
      ours   == payload.ratchet_key + 1
  IN  [passed EXCEPT
         !.receiver_chain = create_chain_key(ratchet.root_key, payload.ratchet_key),
         !.sender_chain   = create_chain_key(payload.ratchet_key, ours),
         !.root_key       = ours,
         !.root_sequence  = @ + 2]

skipped_in_chain(ratchet, payload) ==
  payload.sequence - ratchet.receiver_chain.index

(* Mutant: the chain key is not advanced past the payload itself. *)
advance_up_to(ratchet, payload) ==
  [save_skipped_keys(ratchet, ratchet.receiver_chain, skipped_in_chain(ratchet, payload))
     EXCEPT !.receiver_chain = [@ EXCEPT !.index = payload.sequence]]

(* Save the keys of the messages passed over, then step past this one. *)
advance_receiver_chain(ratchet, payload) ==
  [save_skipped_keys(ratchet, ratchet.receiver_chain, skipped_in_chain(ratchet, payload))
     EXCEPT !.receiver_chain = [@ EXCEPT !.index = payload.sequence + 1]]

(* Done on every return, a failing one included. *)
count_and_prune(ratchet, payload) ==
  [ratchet EXCEPT
     !.received_message_sequence =
        IF payload.sending_message_sequence > @
          THEN payload.sending_message_sequence ELSE @,
     !.skipped_msg_key_list = prune_bloated_skipped_keys(@)]

(* The ratchet with the chain of the payload in place. *)
with_chain(ratchet, payload) ==
  IF is_new_chain(ratchet, payload)
    THEN start_new_chains(ratchet, payload) ELSE ratchet

(* Is there a plaintext at the end? *)
decrypt_ratchet_ok(ratchet, payload) ==
  /\ opens(ratchet, payload)
  /\ is_new_chain(ratchet, payload) => previous_chain_ok(ratchet, payload)
  /\ is_skipped(ratchet, payload) \/
       skipped_in_chain(with_chain(ratchet, payload), payload)
         <= MAX_SKIPPED_MESSAGE_KEY_NODES

(* The ratchet just before count_and_prune, when there is a plaintext. *)
decrypted_ratchet(ratchet, payload) ==
  IF is_skipped(ratchet, payload)
    THEN drop_skipped_key(ratchet, payload)
    ELSE advance_receiver_chain(with_chain(ratchet, payload), payload)

(* Before it when there is none: new chains stay if only the gap was too wide. *)
failed_ratchet(ratchet, payload) ==
  IF /\ opens(ratchet, payload)
     /\ is_new_chain(ratchet, payload)
     /\ previous_chain_ok(ratchet, payload)
    THEN start_new_chains(ratchet, payload) ELSE ratchet

decrypt_ratchet(ratchet, payload) ==
  count_and_prune(
    IF decrypt_ratchet_ok(ratchet, payload)
      THEN decrypted_ratchet(ratchet, payload)
      ELSE failed_ratchet(ratchet, payload),
    payload)

(* The message keys prune_bloated_skipped_keys drops at a payload. *)
PrunedKeys(ratchet, payload) ==
  LET before == decrypted_ratchet(ratchet, payload).skipped_msg_key_list
      after  == prune_bloated_skipped_keys(before)
  IN  {before[i] : i \in 1..(Len(before) - Len(after))}

-----------------------------------------------------------------------------
ChainKey == [root : Int, ratchet_key : Int, index : Nat]

RatchetState ==
  [root_key : Nat, root_sequence : Nat, sender_chain : ChainKey,
   receiver_chain : ChainKey, skipped_msg_key_list : Seq(ChainKey),
   sending_message_sequence : Nat, received_message_sequence : Nat]

Payload ==
  [sequence : Nat, ratchet_key : Nat, root_sequence : Nat,
   sending_message_sequence : Nat, sealed_with : ChainKey]

(* k was made before l: on an earlier chain, or earlier on the same one. *)
Older(k, l) ==
  \/ k.ratchet_key < l.ratchet_key
  \/ k.ratchet_key = l.ratchet_key /\ k.index < l.index

(* The receiver chain of the ratchet has moved past message key k. *)
Passed(ratchet, k) == Older(k, ratchet.receiver_chain)

SkippedKeys(ratchet) ==
  {ratchet.skipped_msg_key_list[i] : i \in DOMAIN ratchet.skipped_msg_key_list}

(* k follows from the chain key by advancing it. *)
OnChain(chain_key, k) ==
  /\ k.root = chain_key.root
  /\ k.ratchet_key = chain_key.ratchet_key
  /\ k.index >= chain_key.index

(* The ratchet state is enough to make message key k. *)
Derivable(ratchet, k) ==
  \/ k \in SkippedKeys(ratchet)
  \/ OnChain(ratchet.receiver_chain, k)
  \/ OnChain(ratchet.sender_chain, k)
=============================================================================
