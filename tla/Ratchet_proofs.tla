--------------------------- MODULE Ratchet_proofs ---------------------------
(***************************************************************************)
(* What the operators of Ratchet do to the receiving side of a ratchet,    *)
(* for any limit of the key list.                                          *)
(***************************************************************************)
EXTENDS Ratchet, TLAPS

(* The keys of a list are in the order in which they were made. *)
Sorted(s) == \A i, j \in 1..Len(s) : i < j => Older(s[i], s[j])

AllOlder(s, k) == \A i \in 1..Len(s) : Older(s[i], k)

(* The keys of s are on chains of the same end as k: root steps are taken in turn. *)
SameSide(s, k) == \A i \in 1..Len(s) : s[i].ratchet_key % 2 = k.ratchet_key % 2

-----------------------------------------------------------------------------
(* Key lists are sequences. *)
LEMMA ListFacts ==
  ASSUME NEW S, NEW s \in Seq(S)
  PROVE  Len(s) \in Nat /\ DOMAIN s = 1..Len(s)
OBVIOUS

LEMMA ListItem ==
  ASSUME NEW S, NEW s \in Seq(S), NEW i \in 1..Len(s)
  PROVE  s[i] \in S
OBVIOUS

LEMMA ListJoined ==
  ASSUME NEW S, NEW s \in Seq(S), NEW t \in Seq(S)
  PROVE  /\ s \o t \in Seq(S)
         /\ Len(s \o t) = Len(s) + Len(t)
         /\ \A i \in 1..(Len(s) + Len(t)) :
              (s \o t)[i] = IF i <= Len(s) THEN s[i] ELSE t[i - Len(s)]
OBVIOUS

LEMMA ListPart ==
  ASSUME NEW S, NEW s, NEW a \in Int, NEW b \in Int, \A i \in a..b : s[i] \in S
  PROVE  /\ SubSeq(s, a, b) \in Seq(S)
         /\ Len(SubSeq(s, a, b)) = IF a <= b THEN b - a + 1 ELSE 0
         /\ \A i \in 1..(b - a + 1) : SubSeq(s, a, b)[i] = s[a + i - 1]
OBVIOUS

-----------------------------------------------------------------------------
(* advance_chain_key moves the index and nothing else. *)
LEMMA AdvanceProps ==
  ASSUME NEW c \in ChainKey, NEW n \in Nat
  PROVE  /\ advance_chain_key(c, n) \in ChainKey
         /\ advance_chain_key(c, n).root = c.root
         /\ advance_chain_key(c, n).ratchet_key = c.ratchet_key
         /\ advance_chain_key(c, n).index = c.index + n
BY DEF advance_chain_key, ChainKey

(* create_msg_keys(c, n) is the list of the n keys from index c.index on. *)
LEMMA MsgKeysProps ==
  ASSUME NEW c \in ChainKey, NEW n \in Nat
  PROVE  /\ create_msg_keys(c, n) \in Seq(ChainKey)
         /\ Len(create_msg_keys(c, n)) = n
         /\ \A j \in 1..n :
              /\ create_msg_keys(c, n)[j].root = c.root
              /\ create_msg_keys(c, n)[j].ratchet_key = c.ratchet_key
              /\ create_msg_keys(c, n)[j].index = c.index + (j - 1)
<1> DEFINE t == create_msg_keys(c, n)
<1>1. \A j \in 1..n : j - 1 \in Nat /\ t[j] = advance_chain_key(c, j - 1)
  BY DEF create_msg_keys
<1>2. \A j \in 1..n : advance_chain_key(c, j - 1) \in ChainKey
  BY <1>1, AdvanceProps, Zenon
<1>3. t \in [1..n -> ChainKey]
  BY <1>2, Zenon DEF create_msg_keys
<1>4. t \in Seq(ChainKey)
  BY <1>3
<1>5. DOMAIN t = 1..n /\ Len(t) \in Nat /\ DOMAIN t = 1..Len(t)
  BY <1>3, <1>4, ListFacts, Zenon
<1>6. Len(t) = n
  BY <1>5
<1>7. \A j \in 1..n :
        /\ t[j].root = c.root
        /\ t[j].ratchet_key = c.ratchet_key
        /\ t[j].index = c.index + (j - 1)
  <2> TAKE j \in 1..n
  <2> HIDE DEF t
  <2>1. j - 1 \in Nat /\ t[j] = advance_chain_key(c, j - 1)
    BY <1>1, Zenon
  <2> QED BY <2>1, AdvanceProps
<1> QED BY <1>4, <1>6, <1>7, Zenon

(* Appending the keys passed over keeps the list sorted, and older than the
   position n further on the chain. *)
LEMMA AppendKeys ==
  ASSUME NEW s \in Seq(ChainKey), NEW c \in ChainKey, NEW n \in Nat,
         Sorted(s), AllOlder(s, c)
  PROVE  LET t == s \o create_msg_keys(c, n)
         IN  /\ t \in Seq(ChainKey)
             /\ Len(t) = Len(s) + n
             /\ Sorted(t)
             /\ \A i \in 1..Len(s) : t[i] = s[i]
             /\ \A i \in 1..Len(t) : i > Len(s) =>
                  /\ t[i].root = c.root
                  /\ t[i].ratchet_key = c.ratchet_key
                  /\ t[i].index = c.index + (i - Len(s) - 1)
<1> DEFINE u == create_msg_keys(c, n)
           t == s \o u
<1>1. /\ u \in Seq(ChainKey)
      /\ Len(u) = n
      /\ \A j \in 1..n : /\ u[j].root = c.root
                         /\ u[j].ratchet_key = c.ratchet_key
                         /\ u[j].index = c.index + (j - 1)
  BY MsgKeysProps, Zenon
<1> HIDE DEF u
<1>2. /\ t \in Seq(ChainKey)
      /\ Len(t) = Len(s) + Len(u)
      /\ \A i \in 1..(Len(s) + Len(u)) :
           t[i] = IF i <= Len(s) THEN s[i] ELSE u[i - Len(s)]
  BY <1>1, ListJoined, Zenon
<1> HIDE DEF t
<1>3. Len(s) \in Nat /\ Len(t) = Len(s) + n
  BY <1>1, <1>2, ListFacts, Zenon
<1>4. \A i \in 1..Len(s) : t[i] = s[i]
  BY <1>1, <1>2, <1>3
<1>5. \A i \in 1..Len(t) : i > Len(s) => i - Len(s) \in 1..n /\ t[i] = u[i - Len(s)]
  BY <1>1, <1>2, <1>3
<1>6. \A i \in 1..Len(t) : i > Len(s) =>
         /\ t[i].root = c.root
         /\ t[i].ratchet_key = c.ratchet_key
         /\ t[i].index = c.index + (i - Len(s) - 1)
  BY <1>1, <1>3, <1>5, Zenon
<1>7. c.index \in Nat /\ c.ratchet_key \in Int
  BY Zenon DEF ChainKey
<1>8. \A i \in 1..Len(s) : /\ s[i].ratchet_key \in Int
                           /\ s[i].index \in Nat
                           /\ Older(s[i], c)
  <2>1. \A i \in 1..Len(s) : s[i] \in ChainKey
    BY ListItem, Zenon
  <2> QED BY <2>1, SMTT(30) DEF AllOlder, ChainKey
<1>9. Sorted(t)
  <2> SUFFICES ASSUME NEW i \in 1..Len(t), NEW j \in 1..Len(t), i < j
               PROVE  Older(t[i], t[j])
    BY Zenon DEF Sorted
  <2>1. CASE j <= Len(s)
    BY <2>1, <1>3, <1>4 DEF Sorted
  <2>2. CASE i <= Len(s) /\ j > Len(s)
    <3>1. t[i] = s[i] /\ Older(s[i], c)
      BY <2>2, <1>3, <1>4, <1>8
    <3>2. t[j].ratchet_key = c.ratchet_key /\ t[j].index = c.index + (j - Len(s) - 1)
      BY <2>2, <1>6, Zenon
    <3>3. s[i].ratchet_key \in Int /\ s[i].index \in Nat
      BY <2>2, <1>3, <1>8
    <3> QED BY <3>1, <3>2, <3>3, <2>2, <1>3, <1>7, SMTT(20) DEF Older
  <2>3. CASE i > Len(s)
    BY <2>3, <1>3, <1>6, <1>7, SMTT(20) DEF Older
  <2> QED BY <2>1, <2>2, <2>3, <1>3
<1> QED BY <1>2, <1>3, <1>4, <1>6, <1>9, Zenon DEF t, u

(* prune_bloated_skipped_keys keeps the newest keys, at most the limit. *)
LEMMA PruneKeys ==
  ASSUME NEW s \in Seq(ChainKey), Sorted(s)
  PROVE  LET t == prune_bloated_skipped_keys(s)
         IN  /\ t \in Seq(ChainKey)
             /\ Len(t) <= MAX_SKIPPED_MESSAGE_KEY_NODES
             /\ Len(t) <= Len(s)
             /\ Sorted(t)
             /\ \A i \in 1..Len(t) : t[i] = s[(Len(s) - Len(t)) + i]
<1> DEFINE t == prune_bloated_skipped_keys(s)
           excess == Len(s) - MAX_SKIPPED_MESSAGE_KEY_NODES
<1>0. Len(s) \in Nat /\ MAX_SKIPPED_MESSAGE_KEY_NODES \in Nat
  BY MaxSkippedAssumption, ListFacts, Zenon
<1>1. CASE excess <= 0
  <2>1. t = s
    BY <1>1, Zenon DEF prune_bloated_skipped_keys
  <2> QED BY <2>1, <1>0, <1>1
<1>2. CASE ~(excess <= 0)
  <2>1. t = SubSeq(s, excess + 1, Len(s))
    BY <1>2, Zenon DEF prune_bloated_skipped_keys
  <2>2. excess \in Nat /\ excess + 1 \in Int /\ (excess + 1 <= Len(s) \/ excess = Len(s))
    <3> DEFINE n == Len(s)
    <3> HIDE DEF n
    <3>1. n \in Nat /\ excess = n - MAX_SKIPPED_MESSAGE_KEY_NODES
      BY <1>0, Zenon DEF n
    <3>2. excess \in Nat /\ excess + 1 \in Int /\ (excess + 1 <= n \/ excess = n)
      <4> HIDE DEF excess
      <4> QED BY <1>0, <1>2, <3>1
    <3> QED BY <3>2, Zenon DEF n
  <2>3. \A i \in (excess + 1)..Len(s) : s[i] \in ChainKey
    <3>1. \A i \in 1..Len(s) : s[i] \in ChainKey
      BY ListItem, Zenon
    <3> QED BY <3>1, <2>2, <1>0
  <2> HIDE DEF t, excess
  <2>4. /\ t \in Seq(ChainKey)
        /\ Len(t) = IF excess + 1 <= Len(s) THEN Len(s) - (excess + 1) + 1 ELSE 0
        /\ \A i \in 1..(Len(s) - (excess + 1) + 1) : t[i] = s[(excess + 1) + i - 1]
    BY <2>1, <2>2, <2>3, <1>0, ListPart
  <2>5. Len(t) = Len(s) - excess
    BY <2>2, <2>4, <1>0
  <2>6. \A i \in 1..Len(t) : t[i] = s[excess + i]
    BY <2>2, <2>4, <2>5, <1>0
  <2>7. \A i, j \in 1..Len(t) : i < j => Older(s[excess + i], s[excess + j])
    BY <2>2, <2>5, <1>0 DEF Sorted
  <2>8. Sorted(t)
    BY <2>6, <2>7, Zenon DEF Sorted
  <2>9. excess = Len(s) - Len(t) /\ Len(t) = MAX_SKIPPED_MESSAGE_KEY_NODES
    BY <2>5, <2>2, <1>0 DEF excess
  <2>10. \A i \in 1..Len(t) : t[i] = s[(Len(s) - Len(t)) + i]
    BY <2>6, <2>9, Zenon
  <2>11. Len(t) <= MAX_SKIPPED_MESSAGE_KEY_NODES /\ Len(t) <= Len(s)
    BY <2>2, <2>5, <2>9, <1>0
  <2> QED BY <2>4, <2>8, <2>10, <2>11, Zenon DEF t
<1> QED BY <1>0, <1>1, <1>2, Zenon

(* No chain key is older than itself. *)
LEMMA OlderIrreflexive == \A k \in ChainKey : ~Older(k, k)
<1> SUFFICES ASSUME NEW k \in ChainKey PROVE ~Older(k, k)
  BY Zenon
<1>1. k.ratchet_key \in Int /\ k.index \in Int
  BY DEF ChainKey
<1> QED BY <1>1 DEF Older

(* Taking one key out of a sorted list leaves the others, and not that one. *)
LEMMA RemoveKey ==
  ASSUME NEW s \in Seq(ChainKey), Sorted(s), NEW h \in 1..Len(s)
  PROVE  LET t == SubSeq(s, 1, h - 1) \o SubSeq(s, h + 1, Len(s))
         IN  /\ t \in Seq(ChainKey)
             /\ Len(t) = Len(s) - 1
             /\ Sorted(t)
             /\ \A i \in 1..Len(t) : \E j \in 1..Len(s) : t[i] = s[j]
             /\ \A i \in 1..Len(t) : t[i] # s[h]
             /\ \A j \in 1..Len(s) : j # h => \E i \in 1..Len(t) : t[i] = s[j]
<1> DEFINE u == SubSeq(s, 1, h - 1)
           v == SubSeq(s, h + 1, Len(s))
           t == u \o v
<1>0. Len(s) \in Nat /\ h \in Nat /\ \A i \in 1..Len(s) : s[i] \in ChainKey
  BY ListFacts, ListItem
<1>1. /\ u \in Seq(ChainKey)
      /\ Len(u) = h - 1
      /\ \A i \in 1..(h - 1) : u[i] = s[i]
  BY <1>0, ListPart
<1>2. /\ v \in Seq(ChainKey)
      /\ Len(v) = Len(s) - h
      /\ \A i \in 1..(Len(s) - h) : v[i] = s[h + i]
  BY <1>0, ListPart
<1> HIDE DEF u, v
<1>3. /\ t \in Seq(ChainKey)
      /\ Len(t) = Len(u) + Len(v)
      /\ \A i \in 1..(Len(u) + Len(v)) :
           t[i] = IF i <= Len(u) THEN u[i] ELSE v[i - Len(u)]
  BY <1>1, <1>2, ListJoined, Zenon
<1> HIDE DEF t
<1>4. Len(t) = Len(s) - 1
  BY <1>0, <1>1, <1>2, <1>3
<1>5. \A i \in 1..Len(t) : i < h => t[i] = s[i]
  <2> SUFFICES ASSUME NEW i \in 1..Len(t), i < h PROVE t[i] = s[i]
    BY Zenon
  <2>1. t[i] = u[i]
    BY <1>0, <1>1, <1>2, <1>3, <1>4
  <2> QED BY <2>1, <1>0, <1>1
<1>6. \A i \in 1..Len(t) : i >= h => t[i] = s[i + 1]
  <2> SUFFICES ASSUME NEW i \in 1..Len(t), i >= h PROVE t[i] = s[i + 1]
    BY Zenon
  <2>1. t[i] = v[i - (h - 1)]
    BY <1>0, <1>1, <1>2, <1>3, <1>4
  <2>2. i - (h - 1) \in 1..(Len(s) - h) /\ h + (i - (h - 1)) = i + 1
    BY <1>0, <1>4
  <2> QED BY <2>1, <2>2, <1>2, Zenon
<1>7. \A i \in 1..Len(t) : \E j \in 1..Len(s) : t[i] = s[j] /\ j # h /\ (j = i \/ j = i + 1)
  BY <1>0, <1>4, <1>5, <1>6
<1>8. Sorted(t)
  <2> SUFFICES ASSUME NEW i \in 1..Len(t), NEW j \in 1..Len(t), i < j
               PROVE  Older(t[i], t[j])
    BY Zenon DEF Sorted
  <2> DEFINE a == IF i < h THEN i ELSE i + 1
             b == IF j < h THEN j ELSE j + 1
  <2>1. t[i] = s[a] /\ t[j] = s[b]
    BY <1>0, <1>4, <1>5, <1>6
  <2>2. a \in 1..Len(s) /\ b \in 1..Len(s) /\ a < b
    BY <1>0, <1>4
  <2> QED BY <2>1, <2>2, Zenon DEF Sorted
<1>9. \A i \in 1..Len(t) : t[i] # s[h]
  <2> SUFFICES ASSUME NEW j \in 1..Len(s), j # h PROVE s[j] # s[h]
    BY <1>7, Zenon
  <2>1. Older(s[j], s[h]) \/ Older(s[h], s[j])
    BY <1>0 DEF Sorted
  <2>2. s[j] \in ChainKey /\ s[h] \in ChainKey
    BY <1>0, Zenon
  <2> QED BY <2>1, <2>2, OlderIrreflexive, Zenon
<1>10. ASSUME NEW j \in 1..Len(s), j # h PROVE \E i \in 1..Len(t) : t[i] = s[j]
  <2>1. CASE j < h
    <3>1. j \in 1..Len(t)
      BY <2>1, <1>0, <1>4
    <3> QED BY <3>1, <2>1, <1>5, Zenon
  <2>2. CASE j > h
    <3>1. j - 1 \in 1..Len(t) /\ j - 1 >= h /\ (j - 1) + 1 = j
      BY <2>2, <1>0, <1>4
    <3>2. t[j - 1] = s[j]
      BY <3>1, <1>6, Zenon
    <3> QED BY <3>1, <3>2, Zenon
  <2> QED BY <2>1, <2>2, <1>0, <1>10
<1> QED BY <1>3, <1>4, <1>7, <1>8, <1>9, <1>10, Zenon DEF t, u, v

(* Moving from chain key c over n messages to a later chain key e. *)
LEMMA PassOver ==
  ASSUME NEW s \in Seq(ChainKey), NEW c \in ChainKey, NEW n \in Nat, NEW e \in ChainKey,
         Sorted(s), AllOlder(s, c), SameSide(s, c), e.ratchet_key % 2 = c.ratchet_key % 2,
         \/ e.ratchet_key > c.ratchet_key
         \/ e.ratchet_key = c.ratchet_key /\ e.index >= c.index + n
  PROVE  LET t == s \o create_msg_keys(c, n)
         IN  /\ t \in Seq(ChainKey)
             /\ Sorted(t)
             /\ AllOlder(t, e)
             /\ SameSide(t, e)
             /\ \A i \in 1..Len(t) :
                  (\E j \in 1..Len(s) : t[i] = s[j]) \/ ~Older(t[i], c)
<1> DEFINE t == s \o create_msg_keys(c, n)
<1>1. /\ t \in Seq(ChainKey)
      /\ Len(t) = Len(s) + n
      /\ Sorted(t)
      /\ \A i \in 1..Len(s) : t[i] = s[i]
      /\ \A i \in 1..Len(t) : i > Len(s) =>
           /\ t[i].root = c.root
           /\ t[i].ratchet_key = c.ratchet_key
           /\ t[i].index = c.index + (i - Len(s) - 1)
  BY AppendKeys, Zenon
<1> HIDE DEF t
<1>2. Len(s) \in Nat /\ c.index \in Nat /\ c.ratchet_key \in Int
      /\ e.index \in Nat /\ e.ratchet_key \in Int
  BY ListFacts, Zenon DEF ChainKey
<1>3. \A i \in 1..Len(s) : /\ s[i].ratchet_key \in Int
                           /\ s[i].index \in Nat
                           /\ Older(s[i], c)
  <2>1. \A i \in 1..Len(s) : s[i] \in ChainKey
    BY ListItem, Zenon
  <2>2. \A k \in ChainKey : k.ratchet_key \in Int /\ k.index \in Nat
    BY Zenon DEF ChainKey
  <2> QED BY <2>1, <2>2, Zenon DEF AllOlder
<1>4. AllOlder(t, e)
  <2> SUFFICES ASSUME NEW i \in 1..Len(t) PROVE Older(t[i], e)
    BY Zenon DEF AllOlder
  <2>1. CASE i <= Len(s)
    <3>1. t[i] = s[i] /\ Older(s[i], c) /\ s[i].ratchet_key \in Int /\ s[i].index \in Nat
      BY <2>1, <1>1, <1>2, <1>3, SMTT(20)
    <3>2. Older(s[i], e)
      <4> DEFINE a == s[i]
      <4> HIDE DEF a
      <4>1. Older(a, c) /\ a.ratchet_key \in Int /\ a.index \in Nat
        BY <3>1, Zenon DEF a
      <4>2. Older(a, e)
        BY <4>1, <1>2, SMTT(30) DEF Older
      <4> QED BY <4>2, Zenon DEF a
    <3> QED BY <3>1, <3>2, Zenon
  <2>2. CASE i > Len(s)
    BY <2>2, <1>1, <1>2, SMTT(20) DEF Older
  <2> QED BY <2>1, <2>2, <1>1, <1>2
<1>5. ASSUME NEW i \in 1..Len(t)
      PROVE  (\E j \in 1..Len(s) : t[i] = s[j]) \/ ~Older(t[i], c)
  <2>1. CASE i <= Len(s)
    <3>1. i \in 1..Len(s)
      BY <2>1, <1>1, <1>2
    <3> QED BY <3>1, <1>1, Zenon
  <2>2. CASE i > Len(s)
    BY <2>2, <1>1, <1>2, SMTT(20) DEF Older
  <2> QED BY <2>1, <2>2, <1>1, <1>2
<1>6. SameSide(t, e)
  <2> SUFFICES ASSUME NEW i \in 1..Len(t) PROVE t[i].ratchet_key % 2 = c.ratchet_key % 2
    BY Zenon DEF SameSide
  <2>1. CASE i <= Len(s)
    BY <2>1, <1>1, <1>2, SMTT(20) DEF SameSide
  <2>2. CASE i > Len(s)
    BY <2>2, <1>1, <1>2, Zenon
  <2> QED BY <2>1, <2>2, <1>1, <1>2
<1>7. \A i \in 1..Len(t) : (\E j \in 1..Len(s) : t[i] = s[j]) \/ ~Older(t[i], c)
  BY <1>5, Zenon
<1> QED BY <1>1, <1>4, <1>6, <1>7, Zenon DEF t

-----------------------------------------------------------------------------
(* The labels of a payload that encrypt_ratchet made. *)
PayloadInv(p) ==
  /\ p.ratchet_key = p.root_sequence
  /\ p.sealed_with.ratchet_key = p.root_sequence
  /\ p.sealed_with.index = p.sequence

(* The chains of a ratchet carry the root sequence; the list is behind them. *)
RatchetInv(r) ==
  /\ r.sender_chain.ratchet_key = r.root_sequence
  /\ r.receiver_chain.ratchet_key = r.root_sequence - 1
  /\ Sorted(r.skipped_msg_key_list)
  /\ AllOlder(r.skipped_msg_key_list, r.receiver_chain)
  /\ SameSide(r.skipped_msg_key_list, r.receiver_chain)

(* What one successful decryption does to the receiving side of r: b is the
   ratchet before the list is pruned. *)
Moved(r, p, b) ==
  /\ b \in RatchetState
  /\ RatchetInv(b)
  /\ Older(p.sealed_with, b.receiver_chain)
  /\ \A i \in 1..Len(b.skipped_msg_key_list) :
       b.skipped_msg_key_list[i] # p.sealed_with
  /\ \A k \in ChainKey :
       Older(k, r.receiver_chain) => Older(k, b.receiver_chain)
  /\ \A i \in 1..Len(b.skipped_msg_key_list) :
       \/ \E j \in 1..Len(r.skipped_msg_key_list) :
            b.skipped_msg_key_list[i] = r.skipped_msg_key_list[j]
       \/ ~Older(b.skipped_msg_key_list[i], r.receiver_chain)

(* A payload found in the skipped key list. *)
LEMMA MovedSkipped ==
  ASSUME NEW r \in RatchetState, NEW p \in Payload, RatchetInv(r), PayloadInv(p),
         skipped_hits(r, p) # {}
  PROVE  Moved(r, p, drop_skipped_key(r, p))
<1> DEFINE s == r.skipped_msg_key_list
           hits == skipped_hits(r, p)
           hit == CHOOSE i \in hits : \A j \in hits : i <= j
           b == drop_skipped_key(r, p)
<1>1. s \in Seq(ChainKey) /\ Sorted(s) /\ AllOlder(s, r.receiver_chain)
      /\ SameSide(s, r.receiver_chain)
      /\ r.receiver_chain \in ChainKey /\ p.sealed_with \in ChainKey
  BY Zenon DEF RatchetInv, RatchetState, Payload
<1>2. Len(s) \in Nat /\ DOMAIN s = 1..Len(s) /\ \A i \in 1..Len(s) : s[i] \in ChainKey
  BY <1>1, ListFacts, ListItem, Zenon
<1>3. \A i \in hits : i \in 1..Len(s) /\ s[i] = p.sealed_with
  BY <1>2, Zenon DEF skipped_hits, verify_and_decrypt
<1>4. \A i, j \in hits : i = j
  <2> SUFFICES ASSUME NEW i \in hits, NEW j \in hits, i < j PROVE FALSE
    BY <1>2, <1>3
  <2>1. Older(s[i], s[j]) /\ s[i] = s[j] /\ s[i] \in ChainKey
    BY <1>1, <1>2, <1>3, Zenon DEF Sorted
  <2> QED BY <2>1 DEF Older, ChainKey
<1>5. hit \in hits
  <2>1. PICK i \in hits : TRUE
    BY Zenon
  <2>2. \A j \in hits : i <= j
    BY <1>2, <1>3, <1>4
  <2> QED BY <2>1, <2>2, Zenon
<1> HIDE DEF hit, hits
<1> DEFINE t == SubSeq(s, 1, hit - 1) \o SubSeq(s, hit + 1, Len(s))
<1>6. hit \in 1..Len(s) /\ s[hit] = p.sealed_with
  BY <1>3, <1>5, Zenon
<1>7. /\ t \in Seq(ChainKey)
      /\ Sorted(t)
      /\ \A i \in 1..Len(t) : \E j \in 1..Len(s) : t[i] = s[j]
      /\ \A i \in 1..Len(t) : t[i] # s[hit]
  <2> HIDE DEF s
  <2> QED BY <1>1, <1>6, RemoveKey, ZenonT(40)
<1>8. b = [r EXCEPT !.skipped_msg_key_list = t]
  BY Zenon DEF drop_skipped_key, hit, hits
<1> HIDE DEF t
<1>9. /\ b \in RatchetState
      /\ b.skipped_msg_key_list = t
      /\ b.receiver_chain = r.receiver_chain
      /\ b.sender_chain = r.sender_chain
      /\ b.root_sequence = r.root_sequence
  BY <1>7, <1>8, Zenon DEF RatchetState
<1> HIDE DEF b, s
<1>10. AllOlder(t, r.receiver_chain) /\ SameSide(t, r.receiver_chain)
  BY <1>1, <1>7, SMTT(20) DEF AllOlder, SameSide
<1>11. RatchetInv(b)
  BY <1>7, <1>9, <1>10, Zenon DEF RatchetInv
<1>12. Older(p.sealed_with, r.receiver_chain)
  BY <1>1, <1>6, Zenon DEF AllOlder
<1> QED BY <1>6, <1>7, <1>9, <1>11, <1>12, Zenon DEF Moved, b, s

(* A payload on a chain that starts at, or has reached, receiver chain c with
   list s: the keys up to it are passed over and the chain steps past it. *)
LEMMA MovedOnChain ==
  ASSUME NEW a \in RatchetState, NEW p \in Payload, PayloadInv(p), RatchetInv(a),
         a.receiver_chain.ratchet_key = p.root_sequence,
         a.receiver_chain.index <= p.sequence
  PROVE  LET b == advance_receiver_chain(a, p)
         IN  /\ Moved(a, p, b)
             /\ b.root_sequence = a.root_sequence
             /\ b.receiver_chain.ratchet_key = a.receiver_chain.ratchet_key
             /\ b.receiver_chain.index = p.sequence + 1
<1> DEFINE b == advance_receiver_chain(a, p)
           s == a.skipped_msg_key_list
           c == a.receiver_chain
           n == p.sequence - c.index
           e == [c EXCEPT !.index = p.sequence + 1]
           t == s \o create_msg_keys(c, n)
<1>1. /\ s \in Seq(ChainKey) /\ c \in ChainKey /\ p.sealed_with \in ChainKey
      /\ Sorted(s) /\ AllOlder(s, c) /\ SameSide(s, c) /\ p.sequence \in Nat
  BY Zenon DEF RatchetInv, RatchetState, Payload
<1>2. n \in Nat /\ e \in ChainKey /\ e.ratchet_key = c.ratchet_key
      /\ e.index = p.sequence + 1 /\ e.index >= c.index + n
      /\ c.index \in Nat /\ c.ratchet_key \in Int
  BY <1>1, SMTT(30) DEF ChainKey
<1>3. b = [a EXCEPT !.skipped_msg_key_list = t, !.receiver_chain = e]
  BY Zenon DEF advance_receiver_chain, save_skipped_keys, skipped_in_chain, RatchetState
<1> HIDE DEF e, n
<1>4. /\ t \in Seq(ChainKey)
      /\ Sorted(t)
      /\ AllOlder(t, e)
      /\ SameSide(t, e)
      /\ \A i \in 1..Len(t) : (\E j \in 1..Len(s) : t[i] = s[j]) \/ ~Older(t[i], c)
  <2> HIDE DEF s, c
  <2> QED BY <1>1, <1>2, PassOver, Zenon
<1>5. \A i \in 1..Len(t) : t[i] # p.sealed_with
  <2>1. /\ Len(t) = Len(s) + n
        /\ Len(s) \in Nat
        /\ \A i \in 1..Len(s) : t[i] = s[i]
        /\ \A i \in 1..Len(t) : i > Len(s) => t[i].index = c.index + (i - Len(s) - 1)
    <3> HIDE DEF s, c
    <3> QED BY <1>1, <1>2, AppendKeys, ListFacts, ZenonT(30)
  <2>5. ~Older(p.sealed_with, c) /\ p.sealed_with.index = p.sequence
    BY <1>1, <1>2 DEF PayloadInv, Older
  <2>6. n = p.sequence - c.index
    BY Zenon DEF n
  <2> HIDE DEF t, s, c
  <2> SUFFICES ASSUME NEW i \in 1..Len(t) PROVE t[i] # p.sealed_with
    BY Zenon
  <2>4. Len(t) \in Nat /\ i \in Nat /\ i >= 1 /\ i <= Len(t)
    BY <2>1, <1>2
  <2>2. CASE i <= Len(s)
    <3>1. i \in 1..Len(s)
      BY <2>1, <2>2, <2>4
    <3>3. t[i] = s[i] /\ Older(s[i], c)
      BY <3>1, <2>1, <1>1, Zenon DEF AllOlder
    <3> QED BY <3>3, <2>5, Zenon
  <2>3. CASE i > Len(s)
    <3>1. t[i].index = c.index + (i - Len(s) - 1)
      BY <2>1, <2>3, Zenon
    <3>2. t[i].index < p.sequence
      BY <3>1, <2>1, <2>4, <2>6, <1>1, <1>2, SMTT(20)
    <3> QED BY <3>2, <2>5, <1>1
  <2> QED BY <2>1, <2>2, <2>3, <2>4
<1> HIDE DEF t
<1>6. /\ b \in RatchetState
      /\ b.skipped_msg_key_list = t
      /\ b.receiver_chain = e
      /\ b.sender_chain = a.sender_chain
      /\ b.root_sequence = a.root_sequence
  BY <1>2, <1>3, <1>4, Zenon DEF RatchetState
<1>7. RatchetInv(b)
  BY <1>2, <1>4, <1>6, Zenon DEF RatchetInv
<1>8. Older(p.sealed_with, e)
  BY <1>1, <1>2 DEF PayloadInv, Older
<1>9. ASSUME NEW k \in ChainKey, Older(k, c) PROVE Older(k, e)
  BY <1>1, <1>2, <1>9, SMTT(20) DEF Older, ChainKey
<1> HIDE DEF b, s, c
<1>10. Moved(a, p, b)
  BY <1>4, <1>5, <1>6, <1>7, <1>8, <1>9, Zenon DEF Moved, s, c
<1> QED BY <1>2, <1>6, <1>10, Zenon DEF b, c

(* The first payload of the peer's next chain. *)
LEMMA MovedNewChain ==
  ASSUME NEW r \in RatchetState, NEW p \in Payload, PayloadInv(p), RatchetInv(r),
         is_new_chain(r, p)
  PROVE  Moved(r, p, advance_receiver_chain(start_new_chains(r, p), p))
<1> DEFINE s == r.skipped_msg_key_list
           c == r.receiver_chain
           n == skipped_in_previous_chain(r, p)
           e == create_chain_key(r.root_key, p.ratchet_key)
           f == create_chain_key(p.ratchet_key, p.ratchet_key + 1)
           t == s \o create_msg_keys(c, n)
           a == start_new_chains(r, p)
           b == advance_receiver_chain(a, p)
<1>1. /\ s \in Seq(ChainKey) /\ c \in ChainKey /\ p.sealed_with \in ChainKey
      /\ Sorted(s) /\ AllOlder(s, c) /\ SameSide(s, c) /\ p.sequence \in Nat /\ p.ratchet_key \in Nat
      /\ r.root_sequence \in Nat /\ r.root_key \in Nat
      /\ c.ratchet_key = r.root_sequence - 1
      /\ p.ratchet_key = r.root_sequence + 1
  BY Zenon DEF RatchetInv, RatchetState, Payload, PayloadInv, is_new_chain
<1>2. n \in Nat
  BY SMTT(20) DEF skipped_in_previous_chain, RatchetState, Payload
<1>3. /\ e \in ChainKey /\ e.ratchet_key = p.ratchet_key /\ e.index = 0
      /\ f \in ChainKey /\ f.ratchet_key = p.ratchet_key + 1
  BY <1>1, SMTT(20) DEF create_chain_key, ChainKey
<1>4. a = [r EXCEPT !.skipped_msg_key_list = t, !.receiver_chain = e, !.sender_chain = f,
                    !.root_key = p.ratchet_key + 1, !.root_sequence = @ + 2]
  BY Zenon DEF start_new_chains, save_skipped_keys, RatchetState
<1> HIDE DEF e, f, n
<1>5. /\ t \in Seq(ChainKey)
      /\ Sorted(t)
      /\ AllOlder(t, e)
      /\ SameSide(t, e)
      /\ \A i \in 1..Len(t) : (\E j \in 1..Len(s) : t[i] = s[j]) \/ ~Older(t[i], c)
  <2>1. e.ratchet_key > c.ratchet_key /\ e.ratchet_key % 2 = c.ratchet_key % 2
    <3>1. c.ratchet_key = r.root_sequence - 1 /\ e.ratchet_key = r.root_sequence + 1
      BY <1>1, <1>3, Zenon
    <3>2. \A x \in Nat : x + 1 > x - 1 /\ (x + 1) % 2 = (x - 1) % 2
      OBVIOUS
    <3> QED BY <3>1, <3>2, <1>1, Zenon
  <2> HIDE DEF s, c
  <2> QED BY <1>1, <1>2, <1>3, <2>1, PassOver, Zenon
<1> HIDE DEF t
<1>6. /\ a \in RatchetState
      /\ a.skipped_msg_key_list = t
      /\ a.receiver_chain = e
      /\ a.sender_chain = f
      /\ a.root_sequence = r.root_sequence + 2
  <2>1. p.ratchet_key + 1 \in Nat /\ r.root_sequence + 2 \in Nat
    BY <1>1, SMTT(20)
  <2>2. /\ a.skipped_msg_key_list = t /\ a.receiver_chain = e /\ a.sender_chain = f
        /\ a.root_sequence = r.root_sequence + 2
    BY <1>4, Zenon DEF RatchetState
  <2>3. a \in RatchetState
    BY <2>1, <1>3, <1>4, <1>5, Zenon DEF RatchetState
  <2> QED BY <2>2, <2>3, Zenon
<1> HIDE DEF a
<1>7. RatchetInv(a)
  BY <1>1, <1>3, <1>5, <1>6 DEF RatchetInv
<1>8. a.receiver_chain.ratchet_key = p.root_sequence /\ a.receiver_chain.index <= p.sequence
  BY <1>1, <1>3, <1>6 DEF PayloadInv
<1>9. Moved(a, p, b) /\ b.receiver_chain.ratchet_key = p.root_sequence
  BY <1>6, <1>7, <1>8, MovedOnChain, Zenon
<1> HIDE DEF b
<1>10. ASSUME NEW k \in ChainKey, Older(k, c) PROVE Older(k, e)
  BY <1>1, <1>3, <1>10, SMTT(30) DEF Older, ChainKey
<1>11. ASSUME NEW k \in ChainKey, ~Older(k, e) PROVE ~Older(k, c)
  BY <1>10, <1>11, Zenon
<1>12. ASSUME NEW k \in ChainKey, Older(k, c) PROVE Older(k, b.receiver_chain)
  BY <1>9, <1>10, <1>12, <1>6, Zenon DEF Moved
<1> DEFINE w == b.skipped_msg_key_list
<1>13. ASSUME NEW i \in 1..Len(w)
       PROVE  (\E j \in 1..Len(s) : w[i] = s[j]) \/ ~Older(w[i], c)
  <2>1. w[i] \in ChainKey
    BY <1>9, ListItem, Zenon DEF Moved, RatchetState
  <2>2. CASE ~Older(w[i], e)
    BY <2>1, <2>2, <1>11, Zenon
  <2>3. CASE \E j \in 1..Len(t) : w[i] = t[j]
    BY <2>3, <1>5, Zenon
  <2> QED BY <2>2, <2>3, <1>9, <1>6, Zenon DEF Moved
<1> QED BY <1>9, <1>12, <1>13, Zenon DEF Moved, a, b, s, c

(* decrypt_ratchet moves the receiving side on, whichever way it opened. *)
LEMMA DecryptMoves ==
  ASSUME NEW r \in RatchetState, NEW p \in Payload, PayloadInv(p), RatchetInv(r),
         decrypt_ratchet_ok(r, p)
  PROVE  Moved(r, p, decrypted_ratchet(r, p))
<1>1. /\ r.root_sequence \in Nat /\ p.root_sequence \in Nat /\ p.sequence \in Nat
      /\ r.receiver_chain.index \in Nat
  BY Zenon DEF RatchetState, Payload, ChainKey
<1>2. CASE is_skipped(r, p)
  <2>1. ~is_existing_chain(r, p) /\ ~is_new_chain(r, p)
    BY <1>1, <1>2 DEF is_skipped, is_existing_chain, is_new_chain, on_current_chain
  <2>2. skipped_hits(r, p) # {}
    BY <2>1, Zenon DEF decrypt_ratchet_ok, opens
  <2> QED BY <2>2, <1>2, MovedSkipped, Zenon DEF decrypted_ratchet
<1>3. CASE is_existing_chain(r, p)
  <2>1. ~is_skipped(r, p) /\ ~is_new_chain(r, p)
    BY <1>1, <1>3 DEF is_skipped, is_existing_chain, is_new_chain, on_current_chain
  <2>2. r.receiver_chain.ratchet_key = p.root_sequence /\ r.receiver_chain.index <= p.sequence
    BY <1>1, <1>3, Zenon DEF is_existing_chain, on_current_chain, PayloadInv
  <2>3. decrypted_ratchet(r, p) = advance_receiver_chain(r, p)
    BY <2>1, Zenon DEF decrypted_ratchet, with_chain
  <2> QED BY <2>2, <2>3, MovedOnChain, Zenon
<1>4. CASE is_new_chain(r, p)
  <2>1. ~is_skipped(r, p)
    BY <1>1, <1>4 DEF is_skipped, is_new_chain, on_current_chain
  <2>2. decrypted_ratchet(r, p) = advance_receiver_chain(start_new_chains(r, p), p)
    BY <2>1, <1>4, Zenon DEF decrypted_ratchet, with_chain
  <2> QED BY <2>2, <1>4, MovedNewChain, Zenon
<1> QED BY <1>2, <1>3, <1>4, Zenon DEF decrypt_ratchet_ok, opens

(* The whole of a successful decrypt_ratchet, with the keys the limit dropped:
   q is the ratchet that is stored and P the set of dropped keys. *)
Consumed(r, p, q, P) ==
  /\ q \in RatchetState
  /\ RatchetInv(q)
  /\ Len(q.skipped_msg_key_list) <= MAX_SKIPPED_MESSAGE_KEY_NODES
  /\ Older(p.sealed_with, q.receiver_chain)
  /\ \A i \in 1..Len(q.skipped_msg_key_list) :
       q.skipped_msg_key_list[i] # p.sealed_with
  /\ \A k \in ChainKey :
       Older(k, r.receiver_chain) => Older(k, q.receiver_chain)
  /\ \A i \in 1..Len(q.skipped_msg_key_list) :
       \/ \E j \in 1..Len(r.skipped_msg_key_list) :
            q.skipped_msg_key_list[i] = r.skipped_msg_key_list[j]
       \/ ~Older(q.skipped_msg_key_list[i], r.receiver_chain)
  /\ \A k \in P :
       /\ k \in ChainKey
       /\ Older(k, q.receiver_chain)
       /\ \A i \in 1..Len(q.skipped_msg_key_list) :
            Older(k, q.skipped_msg_key_list[i])

(* decrypt_ratchet with a plaintext, up to and including the pruning. *)
LEMMA DecryptConsumes ==
  ASSUME NEW r \in RatchetState, NEW p \in Payload, PayloadInv(p), RatchetInv(r),
         decrypt_ratchet_ok(r, p)
  PROVE  Consumed(r, p, decrypt_ratchet(r, p), PrunedKeys(r, p))
<1> DEFINE b == decrypted_ratchet(r, p)
           s == b.skipped_msg_key_list
           t == prune_bloated_skipped_keys(s)
           q == decrypt_ratchet(r, p)
           P == PrunedKeys(r, p)
<1>1. Moved(r, p, b)
  BY DecryptMoves, Zenon
<1>2. q = count_and_prune(b, p)
  BY Zenon DEF decrypt_ratchet
<1>3. P = {s[i] : i \in 1..(Len(s) - Len(t))}
  BY Zenon DEF PrunedKeys
<1> HIDE DEF b, q, P
<1>4. b \in RatchetState /\ RatchetInv(b) /\ s \in Seq(ChainKey) /\ Sorted(s)
      /\ AllOlder(s, b.receiver_chain) /\ SameSide(s, b.receiver_chain)
  BY <1>1, Zenon DEF Moved, RatchetState, RatchetInv
<1>5. /\ t \in Seq(ChainKey)
      /\ Sorted(t)
      /\ Len(t) <= MAX_SKIPPED_MESSAGE_KEY_NODES
      /\ Len(t) <= Len(s)
      /\ \A i \in 1..Len(t) : t[i] = s[(Len(s) - Len(t)) + i]
  <2> HIDE DEF s
  <2> QED BY <1>4, PruneKeys, Zenon
<1>6. /\ q.skipped_msg_key_list = t
      /\ q.receiver_chain = b.receiver_chain
      /\ q.sender_chain = b.sender_chain
      /\ q.root_sequence = b.root_sequence
      /\ q \in RatchetState
  <2>1. t \in Seq(ChainKey)
    BY <1>5, Zenon
  <2> HIDE DEF t
  <2>2. q = [b EXCEPT !.received_message_sequence =
               IF p.sending_message_sequence > @ THEN p.sending_message_sequence ELSE @,
                      !.skipped_msg_key_list = t]
    BY <1>2, Zenon DEF count_and_prune, t
  <2>3. p.sending_message_sequence \in Nat
    BY Zenon DEF Payload
  <2> QED BY <1>4, <2>1, <2>2, <2>3, Zenon DEF RatchetState
<1> HIDE DEF s, t
<1>7. Len(s) \in Nat /\ Len(t) \in Nat /\ \A i \in 1..Len(s) : s[i] \in ChainKey
  BY <1>4, <1>5, ListFacts, ListItem, Zenon
<1>8. \A i \in 1..Len(t) : \E j \in 1..Len(s) : t[i] = s[j]
  <2> TAKE i \in 1..Len(t)
  <2>1. (Len(s) - Len(t)) + i \in 1..Len(s)
    BY <1>5, <1>7
  <2> QED BY <2>1, <1>5, Zenon
<1>9. AllOlder(t, b.receiver_chain) /\ SameSide(t, b.receiver_chain)
  BY <1>4, <1>8 DEF AllOlder, SameSide
<1>10. RatchetInv(q)
  BY <1>4, <1>5, <1>6, <1>9, Zenon DEF RatchetInv
<1>11. ASSUME NEW i \in 1..Len(t)
       PROVE  /\ t[i] # p.sealed_with
              /\ \/ \E j \in 1..Len(r.skipped_msg_key_list) : t[i] = r.skipped_msg_key_list[j]
                 \/ ~Older(t[i], r.receiver_chain)
  <2>1. PICK j \in 1..Len(s) : t[i] = s[j]
    BY <1>8, Zenon
  <2> QED BY <2>1, <1>1, Zenon DEF Moved, s
<1>12. ASSUME NEW k \in P
       PROVE  /\ k \in ChainKey
              /\ Older(k, b.receiver_chain)
              /\ \A i \in 1..Len(t) : Older(k, t[i])
  <2>1. PICK m \in 1..(Len(s) - Len(t)) : k = s[m]
    BY <1>3, Zenon
  <2>2. m \in 1..Len(s)
    BY <1>7
  <2>3. ASSUME NEW i \in 1..Len(t) PROVE Older(k, t[i])
    <3>1. (Len(s) - Len(t)) + i \in 1..Len(s) /\ m < (Len(s) - Len(t)) + i
      BY <1>5, <1>7
    <3> QED BY <2>1, <2>2, <3>1, <1>4, <1>5, Zenon DEF Sorted
  <2> QED BY <2>1, <2>2, <2>3, <1>4, <1>7, Zenon DEF AllOlder
<1>13. Consumed(r, p, q, P)
  BY <1>1, <1>5, <1>6, <1>10, <1>11, <1>12, Zenon DEF Moved, Consumed
<1> QED BY <1>13, Zenon DEF q, P

(* How far decrypt_ratchet moves the root sequence. *)
LEMMA DecryptRoot ==
  ASSUME NEW r \in RatchetState, NEW p \in Payload, decrypt_ratchet_ok(r, p)
  PROVE  decrypt_ratchet(r, p).root_sequence =
           IF is_new_chain(r, p) THEN r.root_sequence + 2 ELSE r.root_sequence
<1>1. r.root_sequence \in Nat /\ p.root_sequence \in Nat
  BY Zenon DEF RatchetState, Payload
<1>2. is_new_chain(r, p) => ~is_skipped(r, p)
  BY <1>1 DEF is_new_chain, is_skipped, on_current_chain
<1>3. decrypt_ratchet(r, p).root_sequence = decrypted_ratchet(r, p).root_sequence
  BY DEF decrypt_ratchet, count_and_prune
<1>4. CASE is_skipped(r, p)
  BY <1>2, <1>3, <1>4, Zenon DEF decrypted_ratchet, drop_skipped_key, RatchetState
<1>5. CASE ~is_skipped(r, p) /\ ~is_new_chain(r, p)
  BY <1>3, <1>5, Zenon DEF decrypted_ratchet, with_chain, advance_receiver_chain,
                    save_skipped_keys, RatchetState
<1>6. CASE is_new_chain(r, p)
  BY <1>2, <1>3, <1>6, Zenon DEF decrypted_ratchet, with_chain, advance_receiver_chain,
                          start_new_chains, save_skipped_keys, RatchetState
<1> QED BY <1>4, <1>5, <1>6, Zenon

(* The sender chain only changes with the root sequence. *)
LEMMA DecryptSender ==
  ASSUME NEW r \in RatchetState, NEW p \in Payload, decrypt_ratchet_ok(r, p),
         ~is_new_chain(r, p)
  PROVE  decrypt_ratchet(r, p).sender_chain = r.sender_chain
<1>1. decrypt_ratchet(r, p).sender_chain = decrypted_ratchet(r, p).sender_chain
  BY DEF decrypt_ratchet, count_and_prune
<1>2. CASE is_skipped(r, p)
  BY <1>1, <1>2, Zenon DEF decrypted_ratchet, drop_skipped_key, RatchetState
<1>3. CASE ~is_skipped(r, p)
  BY <1>1, <1>3, Zenon DEF decrypted_ratchet, with_chain, advance_receiver_chain,
                    save_skipped_keys, RatchetState
<1> QED BY <1>2, <1>3, Zenon

(* encrypt_ratchet leaves the receiving side alone, and labels the payload. *)
LEMMA EncryptProps ==
  ASSUME NEW r \in RatchetState, RatchetInv(r)
  PROVE  /\ encrypt_ratchet(r) \in RatchetState
         /\ RatchetInv(encrypt_ratchet(r))
         /\ encrypt_ratchet(r).receiver_chain = r.receiver_chain
         /\ encrypt_ratchet(r).skipped_msg_key_list = r.skipped_msg_key_list
         /\ encrypt_ratchet(r).root_sequence = r.root_sequence
         /\ encrypted_payload(r) \in Payload
         /\ PayloadInv(encrypted_payload(r))
         /\ encrypted_payload(r).root_sequence = r.root_sequence
<1>1. /\ r.sender_chain \in ChainKey /\ r.sender_chain.ratchet_key = r.root_sequence
      /\ r.root_sequence \in Nat /\ r.sending_message_sequence \in Nat
      /\ r.sender_chain.index \in Nat
  BY Zenon DEF RatchetState, RatchetInv, ChainKey
<1>2. advance_chain_key(r.sender_chain, 1) \in ChainKey
      /\ advance_chain_key(r.sender_chain, 1).ratchet_key = r.root_sequence
  BY <1>1, AdvanceProps, Zenon
<1>3. /\ encrypt_ratchet(r) \in RatchetState
      /\ encrypt_ratchet(r).receiver_chain = r.receiver_chain
      /\ encrypt_ratchet(r).skipped_msg_key_list = r.skipped_msg_key_list
      /\ encrypt_ratchet(r).root_sequence = r.root_sequence
      /\ encrypt_ratchet(r).sender_chain = advance_chain_key(r.sender_chain, 1)
  <2> DEFINE c == advance_chain_key(r.sender_chain, 1)
             n == r.sending_message_sequence + 1
  <2>1. encrypt_ratchet(r) = [r EXCEPT !.sender_chain = c, !.sending_message_sequence = n]
    BY Zenon DEF encrypt_ratchet
  <2>2. c \in ChainKey /\ n \in Nat
    BY <1>1, <1>2
  <2> HIDE DEF c, n
  <2>3. encrypt_ratchet(r) \in RatchetState
    BY <2>1, <2>2, Zenon DEF RatchetState
  <2>4. /\ encrypt_ratchet(r).receiver_chain = r.receiver_chain
        /\ encrypt_ratchet(r).skipped_msg_key_list = r.skipped_msg_key_list
        /\ encrypt_ratchet(r).root_sequence = r.root_sequence
        /\ encrypt_ratchet(r).sender_chain = c
    BY <2>1, Zenon DEF RatchetState
  <2> QED BY <2>3, <2>4, Zenon DEF c
<1>4. RatchetInv(encrypt_ratchet(r))
  BY <1>2, <1>3, Zenon DEF RatchetInv
<1>5. encrypted_payload(r) \in Payload
  BY <1>1 DEF encrypted_payload, Payload
<1>6. PayloadInv(encrypted_payload(r)) /\ encrypted_payload(r).root_sequence = r.root_sequence
  BY <1>1, Zenon DEF encrypted_payload, PayloadInv
<1> QED BY <1>3, <1>4, <1>5, <1>6, Zenon

(* A key the ratchet has passed and does not keep opens nothing. *)
LEMMA PassedIsShut ==
  ASSUME NEW r \in RatchetState, NEW p \in Payload, PayloadInv(p), RatchetInv(r),
         Older(p.sealed_with, r.receiver_chain),
         p.sealed_with \notin SkippedKeys(r)
  PROVE  ~decrypt_ratchet_ok(r, p)
<1>1. /\ r.root_sequence \in Nat /\ p.root_sequence \in Nat /\ p.sequence \in Nat
      /\ r.receiver_chain.index \in Nat
      /\ r.receiver_chain.ratchet_key = r.root_sequence - 1
      /\ p.sealed_with.ratchet_key = p.root_sequence
      /\ p.sealed_with.index = p.sequence
  BY Zenon DEF RatchetState, Payload, ChainKey, RatchetInv, PayloadInv
<1>2. skipped_hits(r, p) = {}
  BY Zenon DEF skipped_hits, verify_and_decrypt, SkippedKeys
<1>3. ~is_existing_chain(r, p) /\ ~is_new_chain(r, p)
  BY <1>1 DEF is_existing_chain, is_new_chain, on_current_chain, Older
<1> QED BY <1>2, <1>3, Zenon DEF decrypt_ratchet_ok, opens

(* k is gone: passed by the ratchet and not kept in its list. *)
Gone(k, r) == Older(k, r.receiver_chain) /\ k \notin SkippedKeys(r)

(* k is older than all that the ratchet can still open. *)
Oldest(k, r) == Older(k, r.receiver_chain) /\ \A l \in SkippedKeys(r) : Older(k, l)

(* The list as a set. *)
LEMMA SkippedKeysRange ==
  ASSUME NEW r \in RatchetState
  PROVE  /\ SkippedKeys(r) \subseteq ChainKey
         /\ \A k : k \in SkippedKeys(r) <=>
                \E i \in 1..Len(r.skipped_msg_key_list) : k = r.skipped_msg_key_list[i]
<1>1. r.skipped_msg_key_list \in Seq(ChainKey)
  BY Zenon DEF RatchetState
<1>2. DOMAIN r.skipped_msg_key_list = 1..Len(r.skipped_msg_key_list)
  BY <1>1, ListFacts, Zenon
<1>3. \A i \in 1..Len(r.skipped_msg_key_list) : r.skipped_msg_key_list[i] \in ChainKey
  BY <1>1, ListItem, Zenon
<1> QED BY <1>2, <1>3, Zenon DEF SkippedKeys

(* What is gone stays gone, what is oldest stays oldest, and the payload just
   opened and the keys just dropped join them. *)
LEMMA ConsumedKeeps ==
  ASSUME NEW r \in RatchetState, NEW p \in Payload, NEW q, NEW P, Consumed(r, p, q, P)
  PROVE  /\ Gone(p.sealed_with, q)
         /\ \A k \in ChainKey : Gone(k, r) => Gone(k, q)
         /\ \A k \in ChainKey : Oldest(k, r) => Oldest(k, q)
         /\ \A k \in P : Oldest(k, q)
<1>1. q \in RatchetState
  BY Zenon DEF Consumed
<1>2. \A l \in SkippedKeys(q) :
        /\ l \in ChainKey
        /\ l # p.sealed_with
        /\ l \in SkippedKeys(r) \/ ~Older(l, r.receiver_chain)
        /\ \A k \in P : Older(k, l)
  BY <1>1, SkippedKeysRange DEF Consumed
<1>3. Gone(p.sealed_with, q)
  BY <1>2, Zenon DEF Consumed, Gone
<1>4. \A k \in ChainKey : Gone(k, r) => Gone(k, q)
  BY <1>2, Zenon DEF Consumed, Gone
<1>5. ASSUME NEW k \in ChainKey, Oldest(k, r) PROVE Oldest(k, q)
  <2>1. ASSUME NEW l \in SkippedKeys(q) PROVE Older(k, l)
    <3>1. CASE l \in SkippedKeys(r)
      BY <3>1, <1>5, Zenon DEF Oldest
    <3>2. CASE ~Older(l, r.receiver_chain)
      <4>1. /\ Older(k, r.receiver_chain) /\ l \in ChainKey /\ r.receiver_chain \in ChainKey
        BY <1>2, <1>5, Zenon DEF Oldest, RatchetState
      <4> QED BY <3>2, <4>1 DEF Older, ChainKey
    <3> QED BY <3>1, <3>2, <1>2, Zenon
  <2> QED BY <2>1, <1>5, Zenon DEF Oldest, Consumed
<1>6. \A k \in P : Oldest(k, q)
  BY <1>2, Zenon DEF Oldest, Consumed
<1> QED BY <1>3, <1>4, <1>5, <1>6, Zenon

-----------------------------------------------------------------------------
(***************************************************************************)
(* The key list of a ratchet as a set.                                     *)
(***************************************************************************)
Elems(s) == {s[i] : i \in 1..Len(s)}

(* The keys of n messages on a chain, from chain key c on. *)
Gathered(c, n) ==
  {k \in ChainKey : /\ k.root = c.root
                    /\ k.ratchet_key = c.ratchet_key
                    /\ c.index <= k.index
                    /\ k.index < c.index + n}

LEMMA SameKey ==
  ASSUME NEW k \in ChainKey, NEW l \in ChainKey,
         k.root = l.root, k.ratchet_key = l.ratchet_key, k.index = l.index
  PROVE  k = l
BY DEF ChainKey

LEMMA SkippedElems ==
  ASSUME NEW r \in RatchetState
  PROVE  SkippedKeys(r) = Elems(r.skipped_msg_key_list)
<1>1. r.skipped_msg_key_list \in Seq(ChainKey)
  BY Zenon DEF RatchetState
<1>2. DOMAIN r.skipped_msg_key_list = 1..Len(r.skipped_msg_key_list)
  BY <1>1, ListFacts, Zenon
<1> QED BY <1>2, Zenon DEF SkippedKeys, Elems

LEMMA KeysAppended ==
  ASSUME NEW s \in Seq(ChainKey), NEW c \in ChainKey, NEW n \in Nat,
         Sorted(s), AllOlder(s, c)
  PROVE  Elems(s \o create_msg_keys(c, n)) = Elems(s) \cup Gathered(c, n)
<1> DEFINE t == s \o create_msg_keys(c, n)
<1>1. /\ t \in Seq(ChainKey)
      /\ Len(t) = Len(s) + n
      /\ \A i \in 1..Len(s) : t[i] = s[i]
      /\ \A i \in 1..Len(t) : i > Len(s) =>
           /\ t[i].root = c.root
           /\ t[i].ratchet_key = c.ratchet_key
           /\ t[i].index = c.index + (i - Len(s) - 1)
  BY AppendKeys, Zenon
<1> HIDE DEF t
<1>2. Len(s) \in Nat /\ c.index \in Nat
  BY ListFacts, Zenon DEF ChainKey
<1>3. \A i \in 1..Len(t) : t[i] \in ChainKey
  BY <1>1, ListItem, Zenon
<1>4. ASSUME NEW i \in 1..Len(t) PROVE t[i] \in Elems(s) \cup Gathered(c, n)
  <2>1. CASE i <= Len(s)
    <3>1. i \in 1..Len(s)
      BY <2>1, <1>1, <1>2
    <3> QED BY <3>1, <1>1, Zenon DEF Elems
  <2>2. CASE i > Len(s)
    <3>1. /\ t[i] \in ChainKey /\ t[i].root = c.root /\ t[i].ratchet_key = c.ratchet_key
          /\ t[i].index = c.index + (i - Len(s) - 1)
      BY <2>2, <1>1, <1>3, Zenon
    <3>2. c.index <= c.index + (i - Len(s) - 1) /\ c.index + (i - Len(s) - 1) < c.index + n
      BY <2>2, <1>1, <1>2
    <3> QED BY <3>1, <3>2, Zenon DEF Gathered
  <2> QED BY <2>1, <2>2, <1>1, <1>2
<1>5. ASSUME NEW k \in Elems(s) PROVE k \in Elems(t)
  <2>1. PICK i \in 1..Len(s) : k = s[i]
    BY Zenon DEF Elems
  <2>2. i \in 1..Len(t) /\ t[i] = k
    BY <2>1, <1>1, <1>2
  <2> QED BY <2>2, Zenon DEF Elems
<1>6. ASSUME NEW k \in Gathered(c, n) PROVE k \in Elems(t)
  <2> DEFINE i == Len(s) + 1 + (k.index - c.index)
  <2>1. /\ k \in ChainKey /\ k.root = c.root /\ k.ratchet_key = c.ratchet_key
        /\ k.index \in Nat /\ c.index <= k.index /\ k.index < c.index + n
    BY Zenon DEF Gathered, ChainKey
  <2>2. i \in 1..Len(t) /\ i > Len(s) /\ c.index + (i - Len(s) - 1) = k.index
    BY <2>1, <1>1, <1>2, SMTT(20)
  <2> HIDE DEF i
  <2>3. t[i] \in ChainKey /\ t[i].root = k.root /\ t[i].ratchet_key = k.ratchet_key
        /\ t[i].index = k.index
    BY <2>1, <2>2, <1>1, <1>3, Zenon
  <2>4. t[i] = k
    BY <2>1, <2>3, SameKey, Zenon
  <2> QED BY <2>2, <2>4, Zenon DEF Elems
<1>7. \A k \in Elems(t) : k \in Elems(s) \cup Gathered(c, n)
  BY <1>4, Zenon DEF Elems
<1>8. Elems(t) = Elems(s) \cup Gathered(c, n)
  BY <1>5, <1>6, <1>7, Zenon
<1> QED BY <1>8, Zenon DEF t

(* What prune_bloated_skipped_keys does to a list: nothing else is lost. *)
LEMMA PrunedElems ==
  ASSUME NEW s \in Seq(ChainKey), Sorted(s)
  PROVE  LET t == prune_bloated_skipped_keys(s)
         IN  Elems(s) = Elems(t) \cup {s[i] : i \in 1..(Len(s) - Len(t))}
<1> DEFINE t == prune_bloated_skipped_keys(s)
           P == {s[i] : i \in 1..(Len(s) - Len(t))}
<1>1. /\ t \in Seq(ChainKey)
      /\ Len(t) <= Len(s)
      /\ \A i \in 1..Len(t) : t[i] = s[(Len(s) - Len(t)) + i]
  BY PruneKeys, Zenon
<1> HIDE DEF t
<1>2. Len(s) \in Nat /\ Len(t) \in Nat
  BY <1>1, ListFacts, Zenon
<1>3. ASSUME NEW k \in Elems(s) PROVE k \in Elems(t) \cup P
  <2>1. PICK i \in 1..Len(s) : k = s[i]
    BY Zenon DEF Elems
  <2>2. CASE i <= Len(s) - Len(t)
    <3>1. i \in 1..(Len(s) - Len(t))
      BY <2>2, <1>2
    <3> QED BY <3>1, <2>1, Zenon
  <2>3. CASE i > Len(s) - Len(t)
    <3> DEFINE j == i - (Len(s) - Len(t))
    <3>1. j \in 1..Len(t) /\ (Len(s) - Len(t)) + j = i
      BY <2>3, <1>1, <1>2
    <3> HIDE DEF j
    <3>2. t[j] = k
      BY <3>1, <2>1, <1>1, Zenon
    <3> QED BY <3>1, <3>2, Zenon DEF Elems
  <2> QED BY <2>2, <2>3, <1>2
<1>4. ASSUME NEW i \in 1..Len(t) PROVE t[i] \in Elems(s)
  <2>1. (Len(s) - Len(t)) + i \in 1..Len(s)
    BY <1>1, <1>2
  <2> QED BY <2>1, <1>1, Zenon DEF Elems
<1>5. ASSUME NEW i \in 1..(Len(s) - Len(t)) PROVE s[i] \in Elems(s)
  <2>1. i \in 1..Len(s)
    BY <1>1, <1>2
  <2> QED BY <2>1, Zenon DEF Elems
<1>6. Elems(t) \subseteq Elems(s) /\ P \subseteq Elems(s)
  BY <1>4, <1>5, Zenon DEF Elems
<1>7. Elems(s) = Elems(t) \cup P
  BY <1>3, <1>6, Zenon
<1> QED BY <1>7, Zenon DEF t

(* Stepping along the receiver chain to a payload. *)
LEMMA AdvanceKeys ==
  ASSUME NEW a \in RatchetState, NEW p \in Payload, PayloadInv(p), RatchetInv(a),
         a.receiver_chain.ratchet_key = p.root_sequence,
         a.receiver_chain.index <= p.sequence
  PROVE  LET b == advance_receiver_chain(a, p)
             c == a.receiver_chain
         IN  /\ SkippedKeys(b) = SkippedKeys(a) \cup Gathered(c, p.sequence - c.index)
             /\ b.receiver_chain = [c EXCEPT !.index = p.sequence + 1]
             /\ b.sender_chain = a.sender_chain
             /\ b.root_key = a.root_key
             /\ b.root_sequence = a.root_sequence
             /\ b.sending_message_sequence = a.sending_message_sequence
             /\ b.received_message_sequence = a.received_message_sequence
<1> DEFINE b == advance_receiver_chain(a, p)
           s == a.skipped_msg_key_list
           c == a.receiver_chain
           n == p.sequence - c.index
           t == s \o create_msg_keys(c, n)
           e == [c EXCEPT !.index = p.sequence + 1]
<1>1. /\ s \in Seq(ChainKey) /\ c \in ChainKey /\ Sorted(s) /\ AllOlder(s, c)
      /\ p.sequence \in Nat /\ c.index \in Nat
  BY Zenon DEF RatchetInv, RatchetState, Payload, ChainKey
<1>2. n \in Nat
  BY <1>1
<1>3. b = [a EXCEPT !.skipped_msg_key_list = t, !.receiver_chain = e]
  BY Zenon DEF advance_receiver_chain, save_skipped_keys, skipped_in_chain, RatchetState
<1>4. b \in RatchetState
  BY MovedOnChain, Zenon DEF Moved
<1>5. Elems(t) = Elems(s) \cup Gathered(c, n)
  <2> HIDE DEF s, c, n
  <2> QED BY <1>1, <1>2, KeysAppended, Zenon
<1> HIDE DEF t, e, n
<1>6. /\ b.skipped_msg_key_list = t /\ b.receiver_chain = e /\ b.sender_chain = a.sender_chain
      /\ b.root_key = a.root_key /\ b.root_sequence = a.root_sequence
      /\ b.sending_message_sequence = a.sending_message_sequence
      /\ b.received_message_sequence = a.received_message_sequence
  BY <1>3, Zenon DEF RatchetState
<1> HIDE DEF b
<1>7. SkippedKeys(b) = SkippedKeys(a) \cup Gathered(c, n)
  BY <1>4, <1>5, <1>6, SkippedElems, Zenon
<1> QED BY <1>6, <1>7, Zenon DEF b, c, e, n

(* The two root steps at the first payload of the peer's next chain. *)
LEMMA NewChainKeys ==
  ASSUME NEW r \in RatchetState, NEW p \in Payload, PayloadInv(p), RatchetInv(r),
         is_new_chain(r, p)
  PROVE  LET a == start_new_chains(r, p)
             n == skipped_in_previous_chain(r, p)
         IN  /\ a \in RatchetState
             /\ RatchetInv(a)
             /\ SkippedKeys(a) = SkippedKeys(r) \cup Gathered(r.receiver_chain, n)
             /\ a.receiver_chain = create_chain_key(r.root_key, p.ratchet_key)
             /\ a.sender_chain = create_chain_key(p.ratchet_key, p.ratchet_key + 1)
             /\ a.root_key = p.ratchet_key + 1
             /\ a.root_sequence = r.root_sequence + 2
             /\ a.sending_message_sequence = r.sending_message_sequence
             /\ a.received_message_sequence = r.received_message_sequence
<1> DEFINE s == r.skipped_msg_key_list
           c == r.receiver_chain
           n == skipped_in_previous_chain(r, p)
           e == create_chain_key(r.root_key, p.ratchet_key)
           f == create_chain_key(p.ratchet_key, p.ratchet_key + 1)
           t == s \o create_msg_keys(c, n)
           a == start_new_chains(r, p)
<1>1. /\ s \in Seq(ChainKey) /\ c \in ChainKey
      /\ Sorted(s) /\ AllOlder(s, c) /\ SameSide(s, c) /\ p.ratchet_key \in Nat
      /\ r.root_sequence \in Nat /\ r.root_key \in Nat
      /\ c.ratchet_key = r.root_sequence - 1
      /\ p.ratchet_key = r.root_sequence + 1
  BY Zenon DEF RatchetInv, RatchetState, Payload, PayloadInv, is_new_chain
<1>2. n \in Nat
  BY DEF skipped_in_previous_chain, RatchetState, Payload
<1>3. /\ e \in ChainKey /\ e.ratchet_key = p.ratchet_key
      /\ f \in ChainKey /\ f.ratchet_key = p.ratchet_key + 1
  BY <1>1 DEF create_chain_key, ChainKey
<1>4. a = [r EXCEPT !.skipped_msg_key_list = t, !.receiver_chain = e, !.sender_chain = f,
                    !.root_key = p.ratchet_key + 1, !.root_sequence = @ + 2]
  BY Zenon DEF start_new_chains, save_skipped_keys, RatchetState
<1> HIDE DEF e, f, n
<1>5. /\ t \in Seq(ChainKey) /\ Sorted(t) /\ AllOlder(t, e) /\ SameSide(t, e)
      /\ Elems(t) = Elems(s) \cup Gathered(c, n)
  <2>1. e.ratchet_key > c.ratchet_key /\ e.ratchet_key % 2 = c.ratchet_key % 2
    <3>1. \A x \in Nat : x + 1 > x - 1 /\ (x + 1) % 2 = (x - 1) % 2
      OBVIOUS
    <3> QED BY <3>1, <1>1, <1>3, Zenon
  <2> HIDE DEF s, c
  <2>2. t \in Seq(ChainKey) /\ Sorted(t) /\ AllOlder(t, e) /\ SameSide(t, e)
    BY <1>1, <1>2, <1>3, <2>1, PassOver, Zenon
  <2>3. Elems(t) = Elems(s) \cup Gathered(c, n)
    BY <1>1, <1>2, KeysAppended, Zenon
  <2> QED BY <2>2, <2>3, Zenon
<1> HIDE DEF t
<1>6. /\ a.skipped_msg_key_list = t /\ a.receiver_chain = e /\ a.sender_chain = f
      /\ a.root_key = p.ratchet_key + 1 /\ a.root_sequence = r.root_sequence + 2
      /\ a.sending_message_sequence = r.sending_message_sequence
      /\ a.received_message_sequence = r.received_message_sequence
  BY <1>4, Zenon DEF RatchetState
<1>7. a \in RatchetState
  <2>1. p.ratchet_key + 1 \in Nat /\ r.root_sequence + 2 \in Nat
    BY <1>1, SMTT(20)
  <2> QED BY <2>1, <1>3, <1>4, <1>5, Zenon DEF RatchetState
<1> HIDE DEF a
<1>8. RatchetInv(a)
  BY <1>1, <1>3, <1>5, <1>6 DEF RatchetInv
<1>9. SkippedKeys(a) = SkippedKeys(r) \cup Gathered(c, n)
  BY <1>5, <1>6, <1>7, SkippedElems, Zenon
<1> QED BY <1>6, <1>7, <1>8, <1>9, Zenon DEF a, e, f, n, c

(* The keys that decrypt_ratchet puts aside on its way to a payload. *)
Aside(r, p) ==
  IF is_skipped(r, p) THEN {}
  ELSE IF is_new_chain(r, p)
    THEN Gathered(r.receiver_chain, skipped_in_previous_chain(r, p))
           \cup Gathered(create_chain_key(r.root_key, p.ratchet_key), p.sequence)
    ELSE Gathered(r.receiver_chain, p.sequence - r.receiver_chain.index)

(* What it does to the rest of the ratchet, but for the received total. *)
Stepped(r, p, b) ==
  /\ is_skipped(r, p) => b.receiver_chain = r.receiver_chain
  /\ is_existing_chain(r, p) =>
       b.receiver_chain = [r.receiver_chain EXCEPT !.index = p.sequence + 1]
  /\ is_new_chain(r, p) =>
       /\ b.receiver_chain =
            [create_chain_key(r.root_key, p.ratchet_key) EXCEPT !.index = p.sequence + 1]
       /\ b.sender_chain = create_chain_key(p.ratchet_key, p.ratchet_key + 1)
       /\ b.root_key = p.ratchet_key + 1
       /\ b.root_sequence = r.root_sequence + 2
  /\ ~is_new_chain(r, p) =>
       /\ b.sender_chain = r.sender_chain
       /\ b.root_key = r.root_key
       /\ b.root_sequence = r.root_sequence
  /\ b.sending_message_sequence = r.sending_message_sequence

(* The three kinds of payload exclude each other. *)
LEMMA OneKind ==
  ASSUME NEW r \in RatchetState, NEW p \in Payload
  PROVE  /\ is_skipped(r, p) => ~is_existing_chain(r, p) /\ ~is_new_chain(r, p)
         /\ is_existing_chain(r, p) => ~is_new_chain(r, p)
<1>1. /\ r.root_sequence \in Nat /\ p.root_sequence \in Nat /\ p.sequence \in Nat
      /\ r.receiver_chain.index \in Nat
  BY Zenon DEF RatchetState, Payload, ChainKey
<1> QED BY <1>1 DEF is_skipped, is_existing_chain, is_new_chain, on_current_chain

LEMMA DecryptedKeys ==
  ASSUME NEW r \in RatchetState, NEW p \in Payload, PayloadInv(p), RatchetInv(r),
         decrypt_ratchet_ok(r, p)
  PROVE  LET b == decrypted_ratchet(r, p)
         IN  /\ Stepped(r, p, b)
             /\ b.received_message_sequence = r.received_message_sequence
             /\ \A k : k # p.sealed_with =>
                  (k \in SkippedKeys(b) <=> k \in SkippedKeys(r) \cup Aside(r, p))
<1> DEFINE b == decrypted_ratchet(r, p)
           Goal == /\ Stepped(r, p, b)
                   /\ b.received_message_sequence = r.received_message_sequence
                   /\ \A k : k # p.sealed_with =>
                        (k \in SkippedKeys(b) <=> k \in SkippedKeys(r) \cup Aside(r, p))
<1> SUFFICES Goal
  BY Zenon
<1>1. Moved(r, p, b) /\ b \in RatchetState
  BY DecryptMoves, Zenon DEF Moved
<1>2. r.root_sequence \in Nat /\ p.root_sequence \in Nat /\ p.sequence \in Nat
      /\ r.receiver_chain.index \in Nat /\ p.ratchet_key = p.root_sequence
  BY Zenon DEF RatchetState, Payload, ChainKey, PayloadInv
<1>3. CASE is_skipped(r, p)
  <2>0. ~is_existing_chain(r, p) /\ ~is_new_chain(r, p)
    BY <1>3, OneKind, Zenon
  <2> DEFINE s == r.skipped_msg_key_list
             hits == skipped_hits(r, p)
             hit == CHOOSE i \in hits : \A j \in hits : i <= j
             t == SubSeq(s, 1, hit - 1) \o SubSeq(s, hit + 1, Len(s))
  <2>1. b = [r EXCEPT !.skipped_msg_key_list = t]
    BY <1>3, Zenon DEF decrypted_ratchet, drop_skipped_key
  <2>2. hits # {}
    BY <2>0, Zenon DEF decrypt_ratchet_ok, opens
  <2>3. s \in Seq(ChainKey) /\ Len(s) \in Nat /\ DOMAIN s = 1..Len(s)
    <3>1. s \in Seq(ChainKey)
      BY Zenon DEF RatchetState
    <3> QED BY <3>1, ListFacts, Zenon
  <2>4. \A i \in hits : i \in 1..Len(s) /\ s[i] = p.sealed_with
    BY <2>3, Zenon DEF skipped_hits, verify_and_decrypt
  <2>5. hit \in hits
    <3>1. \A i, j \in hits : i = j
      <4> SUFFICES ASSUME NEW i \in hits, NEW j \in hits, i < j PROVE FALSE
        BY <2>3, <2>4
      <4>1. s[i] \in ChainKey /\ Older(s[i], s[j]) /\ s[i] = s[j]
        BY <2>3, <2>4, ListItem, Zenon DEF RatchetInv, Sorted
      <4> QED BY <4>1, OlderIrreflexive, Zenon
    <3>2. PICK i \in hits : TRUE
      BY <2>2, Zenon
    <3>3. \A j \in hits : i <= j
      BY <3>1, <2>3, <2>4
    <3> QED BY <3>2, <3>3, Zenon
  <2> HIDE DEF hit, hits
  <2>6. hit \in 1..Len(s) /\ s[hit] = p.sealed_with
    BY <2>4, <2>5, Zenon
  <2>7. /\ \A i \in 1..Len(t) : \E j \in 1..Len(s) : t[i] = s[j]
        /\ \A j \in 1..Len(s) : j # hit => \E i \in 1..Len(t) : t[i] = s[j]
    <3>1. Sorted(s)
      BY Zenon DEF RatchetInv
    <3> HIDE DEF s
    <3> QED BY <2>3, <2>6, <3>1, RemoveKey, Zenon
  <2> HIDE DEF s, t
  <2>8. ASSUME NEW k, k # p.sealed_with PROVE k \in Elems(t) <=> k \in Elems(s)
    <3>1. ASSUME k \in Elems(t) PROVE k \in Elems(s)
      <4>1. PICK i \in 1..Len(t) : k = t[i]
        BY <3>1, Zenon DEF Elems
      <4> QED BY <4>1, <2>7, Zenon DEF Elems
    <3>2. ASSUME k \in Elems(s) PROVE k \in Elems(t)
      <4>1. PICK j \in 1..Len(s) : k = s[j]
        BY <3>2, Zenon DEF Elems
      <4>2. j # hit
        BY <4>1, <2>6, <2>8, Zenon
      <4> QED BY <4>1, <4>2, <2>7, Zenon DEF Elems
    <3> QED BY <3>1, <3>2, Zenon
  <2>9. /\ b.skipped_msg_key_list = t /\ b.receiver_chain = r.receiver_chain
        /\ b.sender_chain = r.sender_chain /\ b.root_key = r.root_key
        /\ b.root_sequence = r.root_sequence
        /\ b.sending_message_sequence = r.sending_message_sequence
        /\ b.received_message_sequence = r.received_message_sequence
    BY <2>1, Zenon DEF RatchetState
  <2> HIDE DEF b
  <2>10. SkippedKeys(b) = Elems(t) /\ SkippedKeys(r) = Elems(s)
    BY <1>1, <2>9, SkippedElems, Zenon DEF s
  <2>11. Stepped(r, p, b)
    BY <2>0, <2>9, Zenon DEF Stepped
  <2>12. Aside(r, p) = {}
    BY <1>3, Zenon DEF Aside
  <2> QED BY <2>8, <2>9, <2>10, <2>11, <2>12, Zenon
<1>4. CASE is_existing_chain(r, p)
  <2>1. ~is_skipped(r, p) /\ ~is_new_chain(r, p)
    BY <1>4, OneKind, Zenon
  <2>2. r.receiver_chain.ratchet_key = p.root_sequence /\ r.receiver_chain.index <= p.sequence
    BY <1>2, <1>4, Zenon DEF is_existing_chain, on_current_chain
  <2>3. b = advance_receiver_chain(r, p)
    BY <2>1, Zenon DEF decrypted_ratchet, with_chain
  <2> HIDE DEF b
  <2>4. /\ SkippedKeys(b) = SkippedKeys(r) \cup
             Gathered(r.receiver_chain, p.sequence - r.receiver_chain.index)
        /\ b.receiver_chain = [r.receiver_chain EXCEPT !.index = p.sequence + 1]
        /\ b.sender_chain = r.sender_chain
        /\ b.root_key = r.root_key
        /\ b.root_sequence = r.root_sequence
        /\ b.sending_message_sequence = r.sending_message_sequence
        /\ b.received_message_sequence = r.received_message_sequence
    BY <2>2, <2>3, AdvanceKeys, Zenon
  <2>5. Stepped(r, p, b)
    BY <2>1, <2>4, Zenon DEF Stepped
  <2>6. Aside(r, p) = Gathered(r.receiver_chain, p.sequence - r.receiver_chain.index)
    BY <2>1, Zenon DEF Aside
  <2> QED BY <2>4, <2>5, <2>6, Zenon
<1>5. CASE is_new_chain(r, p)
  <2> DEFINE a == start_new_chains(r, p)
             n == skipped_in_previous_chain(r, p)
             c == create_chain_key(r.root_key, p.ratchet_key)
  <2>1. ~is_skipped(r, p) /\ ~is_existing_chain(r, p)
    BY <1>5, OneKind, Zenon
  <2>2. b = advance_receiver_chain(a, p)
    BY <2>1, <1>5, Zenon DEF decrypted_ratchet, with_chain
  <2>3. /\ a \in RatchetState
        /\ RatchetInv(a)
        /\ SkippedKeys(a) = SkippedKeys(r) \cup Gathered(r.receiver_chain, n)
        /\ a.receiver_chain = c
        /\ a.sender_chain = create_chain_key(p.ratchet_key, p.ratchet_key + 1)
        /\ a.root_key = p.ratchet_key + 1
        /\ a.root_sequence = r.root_sequence + 2
        /\ a.sending_message_sequence = r.sending_message_sequence
        /\ a.received_message_sequence = r.received_message_sequence
    BY <1>5, NewChainKeys, Zenon
  <2>4. c.ratchet_key = p.root_sequence /\ c.index = 0
    BY <1>2, Zenon DEF create_chain_key
  <2> HIDE DEF a, b, c, n
  <2>5. a.receiver_chain.ratchet_key = p.root_sequence /\ a.receiver_chain.index <= p.sequence
    BY <1>2, <2>3, <2>4
  <2>6. /\ SkippedKeys(b) = SkippedKeys(a) \cup Gathered(c, p.sequence - c.index)
        /\ b.receiver_chain = [c EXCEPT !.index = p.sequence + 1]
        /\ b.sender_chain = a.sender_chain
        /\ b.root_key = a.root_key
        /\ b.root_sequence = a.root_sequence
        /\ b.sending_message_sequence = a.sending_message_sequence
        /\ b.received_message_sequence = a.received_message_sequence
    BY <2>2, <2>3, <2>5, AdvanceKeys, Zenon
  <2>7. p.sequence - c.index = p.sequence
    BY <1>2, <2>4
  <2>8. Stepped(r, p, b)
    BY <1>5, <2>1, <2>3, <2>6, Zenon DEF Stepped, c
  <2>9. Aside(r, p) = Gathered(r.receiver_chain, n) \cup Gathered(c, p.sequence)
    BY <2>1, <1>5, Zenon DEF Aside, c, n
  <2> QED BY <2>3, <2>6, <2>7, <2>8, <2>9, Zenon
<1> QED BY <1>3, <1>4, <1>5, Zenon DEF decrypt_ratchet_ok, opens

(* The whole of decrypt_ratchet with a plaintext, the pruning included. *)
LEMMA DecryptKeys ==
  ASSUME NEW r \in RatchetState, NEW p \in Payload, PayloadInv(p), RatchetInv(r),
         decrypt_ratchet_ok(r, p)
  PROVE  LET q == decrypt_ratchet(r, p)
             P == PrunedKeys(r, p)
         IN  /\ Stepped(r, p, q)
             /\ q.received_message_sequence =
                  IF p.sending_message_sequence > r.received_message_sequence
                    THEN p.sending_message_sequence ELSE r.received_message_sequence
             /\ p.sealed_with \notin SkippedKeys(q)
             /\ \A k : k # p.sealed_with =>
                  (k \in SkippedKeys(q) <=> k \in (SkippedKeys(r) \cup Aside(r, p)) \ P)
<1> DEFINE b == decrypted_ratchet(r, p)
           s == b.skipped_msg_key_list
           t == prune_bloated_skipped_keys(s)
           q == decrypt_ratchet(r, p)
           P == PrunedKeys(r, p)
<1>1. Moved(r, p, b) /\ Consumed(r, p, q, P)
  BY DecryptMoves, DecryptConsumes, Zenon
<1>2. q = count_and_prune(b, p)
  BY Zenon DEF decrypt_ratchet
<1>3. P = {s[i] : i \in 1..(Len(s) - Len(t))}
  BY Zenon DEF PrunedKeys
<1>4. /\ Stepped(r, p, b)
      /\ b.received_message_sequence = r.received_message_sequence
      /\ \A k : k # p.sealed_with =>
           (k \in SkippedKeys(b) <=> k \in SkippedKeys(r) \cup Aside(r, p))
  BY DecryptedKeys, Zenon
<1> HIDE DEF b, q, P
<1>5. b \in RatchetState /\ q \in RatchetState /\ s \in Seq(ChainKey) /\ Sorted(s)
  BY <1>1, Zenon DEF Moved, Consumed, RatchetState, RatchetInv
<1>6. Elems(s) = Elems(t) \cup P
  <2> HIDE DEF s
  <2> QED BY <1>3, <1>5, PrunedElems, Zenon
<1> HIDE DEF t
<1>7. /\ q.skipped_msg_key_list = t
      /\ q.receiver_chain = b.receiver_chain
      /\ q.sender_chain = b.sender_chain
      /\ q.root_key = b.root_key
      /\ q.root_sequence = b.root_sequence
      /\ q.sending_message_sequence = b.sending_message_sequence
      /\ q.received_message_sequence =
           IF p.sending_message_sequence > b.received_message_sequence
             THEN p.sending_message_sequence ELSE b.received_message_sequence
  <2>1. q = [b EXCEPT !.received_message_sequence =
               IF p.sending_message_sequence > @ THEN p.sending_message_sequence ELSE @,
                      !.skipped_msg_key_list = t]
    BY <1>2, Zenon DEF count_and_prune, t
  <2> QED BY <2>1, <1>5, Zenon DEF RatchetState
<1>8. Stepped(r, p, q)
  BY <1>4, <1>7, Zenon DEF Stepped
<1>9. SkippedKeys(b) = Elems(s) /\ SkippedKeys(q) = Elems(t)
  BY <1>5, <1>7, SkippedElems, Zenon
<1>10. p.sealed_with \notin SkippedKeys(q)
  BY <1>1, <1>7, <1>9, Zenon DEF Consumed, Elems
<1>11. \A k \in P : k \notin SkippedKeys(q)
  <2> SUFFICES ASSUME NEW k \in P, NEW i \in 1..Len(t), k = t[i] PROVE FALSE
    BY <1>9, Zenon DEF Elems
  <2>1. k \in ChainKey /\ Older(k, t[i])
    BY <1>1, <1>7, Zenon DEF Consumed
  <2> QED BY <2>1, OlderIrreflexive, Zenon
<1>12. ASSUME NEW k, k # p.sealed_with
       PROVE  k \in SkippedKeys(q) <=> k \in (SkippedKeys(r) \cup Aside(r, p)) \ P
  BY <1>4, <1>6, <1>9, <1>11, <1>12, Zenon
<1> QED BY <1>4, <1>7, <1>8, <1>10, <1>12, Zenon DEF q, P
=============================================================================
