----------------------------- MODULE MsgChannel -----------------------------
(***************************************************************************)
(* What a one2one session promises to the two applications above it: the   *)
(* channel may lose, delay and reorder messages, but it hands over only    *)
(* what the other end wrote, and each message at most once.                *)
(***************************************************************************)
EXTENDS Naturals

CONSTANT Device

VARIABLES sent,       \* messages the channel has taken
          delivered,  \* messages handed over at each end
          count       \* how many times a message was handed over there

Init ==
  /\ sent = {}
  /\ delivered = [d \in Device |-> {}]
  /\ count = [d \in Device |-> 0]

Take ==
  /\ \E msg \in sent' : sent' = sent \cup {msg}
  /\ UNCHANGED <<delivered, count>>

Deliver(d) ==
  /\ \E msg \in sent :
       /\ msg.from # d
       /\ msg \notin delivered[d]
       /\ delivered' = [delivered EXCEPT ![d] = @ \cup {msg}]
  /\ count' = [count EXCEPT ![d] = @ + 1]
  /\ UNCHANGED sent

Next == Take \/ \E d \in Device : Deliver(d)

Spec == Init /\ [][Next]_<<sent, delivered, count>>
=============================================================================
