----------------------------- MODULE One2oneMsg -----------------------------
(***************************************************************************)
(* One established session between two devices, and the messages they      *)
(* exchange over it: send_one2one_msg_internal, resend_pending_request and *)
(* consume_one2one_msg around the ratchet of module Ratchet.               *)
(*                                                                         *)
(* The API runs in the application's threads and process_proto_msg in the  *)
(* thread that reads from the server; the library takes no lock.  A send   *)
(* therefore loads the session, seals the payload and hands it to the      *)
(* server in one step, and stores the session in a later one.  Serialised  *)
(* says that the application lets no other thread of the device run        *)
(* between the two.                                                        *)
(*                                                                         *)
(* The server may answer late or not at all, and delivers what it accepted *)
(* any number of times, in any order, or never.                            *)
(***************************************************************************)
EXTENDS Ratchet, FiniteSets

CONSTANTS Alice, Bob,   \* the inviter's device and the invited one
          Thread,       \* the threads of a device that send
          MaxMsgs,      \* bound: plaintexts each of them sends
          Serialised,   \* does the application serialise the operations?
          Crashing      \* may a device stop in the middle of a send?

Device == {Alice, Bob}

ASSUME DeviceAssumption == Alice # Bob
ASSUME BoundAssumption == MaxMsgs \in Nat
ASSUME ModeAssumption == Serialised \in BOOLEAN /\ Crashing \in BOOLEAN

VARIABLES
  session,    \* the ratchet in each device's database
  sending,    \* what the sends in progress hold in memory
  composed,   \* how many plaintexts the application has handed over
  pending,    \* payloads saved as pending requests
  server,     \* payloads the server has accepted
  received,   \* payloads whose plaintext went to the application
  handed,     \* how many plaintexts went to the application
  pruned,     \* history: message keys dropped by the limit of the key list
  interrupted \* history: plaintexts whose send was under way at a stop

vars == <<session, sending, composed, pending, server, received, handed, pruned,
          interrupted>>

Peer(d) == IF d = Alice THEN Bob ELSE Alice

Idle == [active |-> FALSE]

Init ==
  /\ session = [d \in Device |->
                  IF d = Alice THEN initialise_as_alice ELSE initialise_as_bob]
  /\ sending = [d \in Device |-> [t \in Thread |-> Idle]]
  /\ composed = [d \in Device |-> 0]
  /\ pending = [d \in Device |-> {}]
  /\ server = {}
  /\ received = [d \in Device |-> {}]
  /\ handed = [d \in Device |-> 0]
  /\ pruned = [d \in Device |-> {}]
  /\ interrupted = [d \in Device |-> {}]

(* The e2ee message for the next plaintext of d under a ratchet. *)
e2ee_msg(d, ratchet) ==
  [from |-> d, plaintext |-> composed[d] + 1, payload |-> encrypted_payload(ratchet)]

(* May an operation of d start or go on? *)
MayRun(d) == Serialised => \A t \in Thread : ~sending[d][t].active

(* Up to dispatch_proto_request; the request may or may not get through. *)
send_one2one_msg_dispatch(d, t, reaches) ==
  /\ ~sending[d][t].active
  /\ MayRun(d)
  /\ composed[d] < MaxMsgs
  /\ LET msg == e2ee_msg(d, session[d])
     IN  /\ sending' = [sending EXCEPT ![d][t] =
                          [active |-> TRUE, ratchet |-> encrypt_ratchet(session[d]),
                           msg |-> msg]]
         /\ server' = IF reaches THEN server \cup {msg} ELSE server
  /\ composed' = [composed EXCEPT ![d] = @ + 1]
  /\ UNCHANGED <<session, pending, received, handed, pruned, interrupted>>

(* Mutant: the session is stored only when the server took the request. *)
response_stores_on_ok_only(d, t, ok) ==
  /\ sending[d][t].active
  /\ ok => sending[d][t].msg \in server
  /\ session' = IF ok THEN [session EXCEPT ![d] = sending[d][t].ratchet] ELSE session
  /\ pending' = [pending EXCEPT ![d] = IF ok THEN @ ELSE @ \cup {sending[d][t].msg}]
  /\ sending' = [sending EXCEPT ![d][t] = Idle]
  /\ UNCHANGED <<composed, server, received, handed, pruned, interrupted>>

(* consume_send_one2one_msg_response: the session is stored whatever the
   answer; without an OK the request is kept.  An OK means it got through. *)
send_one2one_msg_response(d, t, ok) ==
  /\ sending[d][t].active
  /\ ok => sending[d][t].msg \in server
  /\ session' = [session EXCEPT ![d] = sending[d][t].ratchet]
  /\ pending' = [pending EXCEPT ![d] = IF ok THEN @ ELSE @ \cup {sending[d][t].msg}]
  /\ sending' = [sending EXCEPT ![d][t] = Idle]
  /\ UNCHANGED <<composed, server, received, handed, pruned, interrupted>>

(* Mutant: a pending request is removed whatever the answer. *)
resend_always_removes(d, msg, reaches, ok) ==
  /\ msg \in pending[d]
  /\ MayRun(d)
  /\ ok => reaches
  /\ server' = IF reaches THEN server \cup {msg} ELSE server
  /\ pending' = [pending EXCEPT ![d] = @ \ {msg}]
  /\ UNCHANGED <<session, sending, composed, received, handed, pruned, interrupted>>

(* One request of resend_pending_request; it is removed on an OK only. *)
resend_pending_request(d, msg, reaches, ok) ==
  /\ msg \in pending[d]
  /\ MayRun(d)
  /\ ok => reaches
  /\ server' = IF reaches THEN server \cup {msg} ELSE server
  /\ pending' = [pending EXCEPT ![d] = IF ok THEN @ \ {msg} ELSE @]
  /\ UNCHANGED <<session, sending, composed, received, handed, pruned, interrupted>>

(* The session is stored only when the payload was decrypted. *)
consume_one2one_msg(d, msg) ==
  /\ msg \in server
  /\ msg.from = Peer(d)
  /\ MayRun(d)
  /\ decrypt_ratchet_ok(session[d], msg.payload)
  /\ session' = [session EXCEPT ![d] = decrypt_ratchet(@, msg.payload)]
  /\ received' = [received EXCEPT ![d] = @ \cup {msg}]
  /\ handed' = [handed EXCEPT ![d] = @ + 1]
  /\ pruned' = [pruned EXCEPT ![d] = @ \cup PrunedKeys(session[d], msg.payload)]
  /\ UNCHANGED <<sending, composed, pending, server, interrupted>>

(* Mutant: the session is stored after a failed decryption as well. *)
consume_stores_on_failure(d, msg) ==
  /\ msg \in server
  /\ msg.from = Peer(d)
  /\ MayRun(d)
  /\ ~decrypt_ratchet_ok(session[d], msg.payload)
  /\ session' = [session EXCEPT ![d] = decrypt_ratchet(@, msg.payload)]
  /\ UNCHANGED <<sending, composed, pending, server, received, handed, pruned,
                 interrupted>>

(* A payload that does not open changes nothing that is stored. *)
consume_one2one_msg_failed(d, msg) ==
  /\ msg \in server
  /\ msg.from = Peer(d)
  /\ MayRun(d)
  /\ ~decrypt_ratchet_ok(session[d], msg.payload)
  /\ UNCHANGED vars

(* The process stops in the middle of a send and is started again. *)
Crash(d) ==
  /\ Crashing
  /\ \E t \in Thread : sending[d][t].active
  /\ sending' = [sending EXCEPT ![d] = [t \in Thread |-> Idle]]
  /\ interrupted' = [interrupted EXCEPT ![d] = @ \cup
       {sending[d][t].msg.plaintext : t \in {u \in Thread : sending[d][u].active}}]
  /\ UNCHANGED <<session, composed, pending, server, received, handed, pruned>>

Next ==
  \E d \in Device :
    \/ \E t \in Thread, reaches \in BOOLEAN : send_one2one_msg_dispatch(d, t, reaches)
    \/ \E t \in Thread, ok \in BOOLEAN : send_one2one_msg_response(d, t, ok)
    \/ \E msg \in pending[d], reaches, ok \in BOOLEAN :
         resend_pending_request(d, msg, reaches, ok)
    \/ \E msg \in server : consume_one2one_msg(d, msg)
    \/ \E msg \in server : consume_one2one_msg_failed(d, msg)
    \/ Crash(d)

Spec == Init /\ [][Next]_vars

(***************************************************************************)
(* Fairness: the transport answers or gives up, the application keeps      *)
(* calling resume_connection until the server takes what is pending, and   *)
(* the server goes on delivering a message until the device has read it.   *)
(***************************************************************************)
Fairness ==
  \A d \in Device :
    /\ \A t \in Thread :
         WF_vars(\E ok \in BOOLEAN : send_one2one_msg_response(d, t, ok))
    /\ \A i \in 1..MaxMsgs :
         /\ WF_vars(\E msg \in pending[d] :
                      msg.plaintext = i /\ resend_pending_request(d, msg, TRUE, TRUE))
         /\ WF_vars(\E msg \in server :
                      msg.plaintext = i /\ consume_one2one_msg(d, msg))

FairSpec == Spec /\ Fairness

-----------------------------------------------------------------------------
(* Every payload d has sealed, wherever it is now. *)
Sealed(d) ==
  {msg \in server : msg.from = d} \cup pending[d]
    \cup {sending[d][t].msg : t \in {u \in Thread : sending[d][u].active}}

KeyOf(msg) == msg.payload.sealed_with

(* On no chain does msg lie more than the limit ahead of what d has passed. *)
Near(d, msg) ==
  LET ahead == {k \in {KeyOf(m) : m \in Sealed(Peer(d))} :
                  ~Passed(session[d], k) /\ Older(k, KeyOf(msg))}
  IN  \A c \in {k.ratchet_key : k \in ahead} :
        Cardinality({k \in ahead : k.ratchet_key = c}) <= MAX_SKIPPED_MESSAGE_KEY_NODES

-----------------------------------------------------------------------------
Msg == [from : Device, plaintext : Nat, payload : Payload]

Sending == {Idle} \cup [active : {TRUE}, ratchet : RatchetState, msg : Msg]

(* Types; the stored key list of ratchet.c never exceeds its limit, whatever
   two gaps one payload opened (prune_bloated_skipped_keys). *)
TypeOK ==
  /\ session \in [Device -> RatchetState]
  /\ \A d \in Device :
       Len(session[d].skipped_msg_key_list) <= MAX_SKIPPED_MESSAGE_KEY_NODES
  /\ sending \in [Device -> [Thread -> Sending]]
  /\ composed \in [Device -> Nat]
  /\ pending \in [Device -> SUBSET Msg]
  /\ server \in SUBSET Msg
  /\ received \in [Device -> SUBSET Msg]
  /\ handed \in [Device -> Nat]
  /\ pruned \in [Device -> SUBSET ChainKey]
  /\ interrupted \in [Device -> SUBSET Nat]

(* A message whose plaintext went to the application is never decrypted
   again, however often the server or a retry delivers it. *)
NoReplay ==
  \A d \in Device : \A msg \in received[d] :
    ~decrypt_ratchet_ok(session[d], msg.payload)

(* The counters of decrypt_ratchet find exactly the messages passed over: the
   list has the key of a sealed message iff its chain has moved past it, it has
   not come in, and its key was not dropped by the limit. *)
SkippedKeysExact ==
  \A d \in Device :
    SkippedKeys(session[d]) =
      {k \in {KeyOf(msg) : msg \in Sealed(Peer(d))} : Passed(session[d], k)}
        \ ({KeyOf(msg) : msg \in received[d]} \cup pruned[d])

(* A sealed message that has not come in can be decrypted now, whatever came
   before it, unless its key was dropped or the gap before it is too wide. *)
StaysDecryptable ==
  \A d \in Device : \A msg \in Sealed(Peer(d)) :
    \/ msg \in received[d]
    \/ KeyOf(msg) \in pruned[d]
    \/ ~Near(d, msg)
    \/ decrypt_ratchet_ok(session[d], msg.payload)

(* What the comments of decrypt_ratchet say of the root sequence of an incoming
   payload: never our own, and if bigger than ours then only ours plus one. *)
RootsAlternate ==
  \A d \in Device : \A msg \in server :
    msg.from = Peer(d) =>
      /\ msg.payload.root_sequence # session[d].root_sequence
      /\ msg.payload.root_sequence > session[d].root_sequence =>
           msg.payload.root_sequence = session[d].root_sequence + 1

(* encrypt_ratchet seals no two plaintexts with one message key, but when the
   process stopped during the send of one of them: then the session was not
   stored, and the next plaintext gets the same key. *)
KeyUsedOnce ==
  \A d \in Device : \A m1, m2 \in Sealed(d) :
    KeyOf(m1) = KeyOf(m2) =>
      \/ m1 = m2
      \/ m1.plaintext \in interrupted[d] \/ m2.plaintext \in interrupted[d]

(* Once a message is read its key can be made neither from the reader's
   session nor, when its send is over and was not cut short by a stop, from
   the writer's. *)
ForwardSecrecy ==
  \A d \in Device : \A msg \in received[d] :
    /\ ~Derivable(session[d], KeyOf(msg))
    /\ \/ \E t \in Thread : sending[Peer(d)][t].active
       \/ msg.plaintext \in interrupted[Peer(d)]
       \/ ~Derivable(session[Peer(d)], KeyOf(msg))

(* The limit drops the oldest keys: none that is kept is older. *)
OldestPruned ==
  \A d \in Device : \A k \in pruned[d] : \A l \in SkippedKeys(session[d]) :
    Older(k, l)

(* The session implements the channel of MsgChannel: consume_one2one_msg hands
   over only what the peer's request put on the server, and once. *)
Channel == INSTANCE MsgChannel WITH sent <- server, delivered <- received, count <- handed

ImplementsChannel == Channel!Spec

(* Was the key of plaintext i used up by one whose send was interrupted? *)
KeyTaken(d, i) ==
  \E msg \in Sealed(d), other \in received[Peer(d)] :
    /\ msg.plaintext = i
    /\ other.plaintext \in interrupted[d]
    /\ KeyOf(other) = KeyOf(msg)

(* Every plaintext handed to send_one2one_msg reaches the peer's application,
   through lost requests, lost answers and retries.  A stop in the middle of a
   send costs no more than that plaintext and, when the server has it, the ones
   sealed with the same key. *)
EventuallyReceived ==
  \A d \in Device : \A i \in 1..MaxMsgs :
    composed[d] >= i ~>
      \/ \E msg \in received[Peer(d)] : msg.plaintext = i
      \/ i \in interrupted[d]
      \/ KeyTaken(d, i)
=============================================================================
