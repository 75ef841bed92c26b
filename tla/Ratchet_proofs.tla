---------------------------- MODULE Ratchet_proofs ----------------------------
(***************************************************************************)
(* Theorems about the secret chat: every message is read once, whatever    *)
(* comes of it on its way, and no two messages have one key, as long as no *)
(* client has put a state back over one that it had not read.              *)
(*                                                                         *)
(* The invariant says in closed form what the two clients have: the chain  *)
(* of each key pair is a ladder of Diffie-Hellman outputs of known length, *)
(* a state is told by the number of its key pairs but for its counts and   *)
(* its cache, and of every message that the receiver's chain is past the   *)
(* key is cached, was used or was evicted.                                 *)
(***************************************************************************)
EXTENDS Integers, Ratchet, TLAPS

-------------------------------------------------------------------------------
(***************************************************************************)
(* The chains, in closed form.  With every new key pair the root key goes  *)
(* up one rung, and each rung is the chain of one key pair.                *)
(***************************************************************************)

Ladder(n) ==
    [i \in 1..n |-> {Key(Initiator, (i + 1) \div 2), Key(Responder, i \div 2 + 1)}]

Rungs(dh) == IF dh.of = Initiator THEN 2 * dh.k - 1 ELSE 2 * dh.k - 2

\* The chain on which the owner of dh sends.
ChainOf(dh) == Ladder(Rungs(dh))

AllKeys     == [of : Parties, k : Int]
Chains      == Seq(SUBSET AllKeys)
MessageKeys == [chain : Chains, n : Nat]

\* The key pairs with which a party sends: the responder's first one has no chain.
KeysOf(p)  == {Key(p, k) : k \in Nat \ (IF p = Initiator THEN {0} ELSE {0, 1})}

EntryOf(dh, n) == [dh |-> dh, n |-> n, key |-> MessageKey(ChainOf(dh), n)]
Entries(p)     == {EntryOf(dh, n) : dh \in KeysOf(Peer(p)), n \in Nat}
Entry          == [dh : AllKeys, n : Nat, key : MessageKeys]

\* The key of the peer that a party has when it sends with its k-th.
Remote(p, k) ==
    IF p = Initiator THEN Key(Responder, k)
    ELSE IF k = 1 THEN NoKey ELSE Key(Initiator, k - 1)

State == [root : Chains, dhSend : AllKeys, dhRemote : AllKeys,
          chainKeySend : Chains, chainKeyRecv : Chains,
          sendCount : Nat, recvCount : Nat, prevSendCount : Nat,
          skipped : Seq(Entry), evicted : SUBSET MessageKeys]

InCache(s, m) == \E j \in DOMAIN s.skipped : s.skipped[j].dh = m.dh /\ s.skipped[j].n = m.n

\* The receiving chain is past the message.
Passed(s, m) == \/ m.dh.k < s.dhRemote.k
                \/ m.dh.k = s.dhRemote.k /\ m.n < s.recvCount

\* A state of a party, which how many key pairs it has tells but for the counts and the cache.
Shape(p, s) ==
    /\ s \in State
    /\ s.dhSend.k \in Nat \ {0} /\ s.dhSend = Key(p, s.dhSend.k)
    /\ s.dhRemote = Remote(p, s.dhSend.k)
    /\ s.root = ChainOf(s.dhSend) /\ s.chainKeySend = s.root
    /\ s.chainKeyRecv = ChainOf(s.dhRemote)
    /\ \A j \in DOMAIN s.skipped : s.skipped[j] \in Entries(p) /\ Passed(s, s.skipped[j])
    /\ \A j, l \in DOMAIN s.skipped : s.skipped[j] = s.skipped[l] => j = l

SealedOf(dh, pn, n) == [dh |-> dh, pn |-> pn, n |-> n, key |-> MessageKey(ChainOf(dh), n)]
SealedBy(p)         == {SealedOf(dh, pn, n) : dh \in KeysOf(p), pn \in Nat, n \in Nat}
Letter              == [from : Parties, sealed : SealedBy(Initiator) \cup SealedBy(Responder)]

K(p) == store[p].dhSend.k

\* The messages have their places in the chains of their senders, one each.
LettersOK ==
    /\ sent \in Seq(Letter)
    /\ \A i \in DOMAIN sent :
         LET p == sent[i].from
             m == sent[i].sealed
         IN  /\ m \in SealedBy(p) /\ m.dh.k <= K(p)
             /\ m.dh.k = K(p) => m.n < store[p].sendCount /\ m.pn = store[p].prevSendCount
             /\ m.dh.k = K(p) - 1 => m.n < store[p].prevSendCount
    /\ \A i, j \in DOMAIN sent : sent[i].from = sent[j].from =>
         LET m == sent[i].sealed
             o == sent[j].sealed
         IN  /\ o.dh.k = m.dh.k - 1 => o.n < m.pn
             /\ (o.dh = m.dh /\ o.n = m.n) => i = j

\* The parties take turns in going up, and neither is past what the other has sent.
InStep ==
    /\ K(Responder) = K(Initiator) \/ K(Responder) = K(Initiator) + 1
    /\ \A p \in Parties :
         store[p].dhRemote.k = K(Peer(p)) => store[p].recvCount <= store[Peer(p)].sendCount

Outcomes == {"none", "read", "skip", "replay", "garbled"}

\* Of a message that the receiving chain is past, the key is in the cache, was used or
\* was evicted.
Delivered ==
    /\ outcome \in [DOMAIN sent -> Outcomes] /\ reads \in [DOMAIN sent -> {0, 1}]
    /\ \A i \in DOMAIN sent :
         LET s == store[Peer(sent[i].from)]
             m == sent[i].sealed
         IN  /\ Passed(s, m) => reads[i] = 1 \/ InCache(s, m) \/ m.key \in s.evicted
             /\ reads[i] = 1 => Passed(s, m) /\ ~InCache(s, m)
             /\ outcome[i] = "none" => reads[i] = 0
             /\ outcome[i] = "read" => reads[i] = 1
             /\ outcome[i] \in {"replay", "garbled"} => m.key \in s.evicted

\* What an operation has read is a state of the party, perhaps an old one.
OpOK(p, o) ==
    /\ o.kind = "encrypt" => o.state.chainKeySend # NoChain
    /\ o.kind = "decrypt" =>
         LET s == o.state
             m == sent[o.msg].sealed
         IN  /\ o.msg \in DOMAIN sent /\ sent[o.msg].from = Peer(p)
             /\ Shape(p, s) /\ s.evicted \subseteq store[p].evicted
             /\ m.dh.k <= s.dhRemote.k + 1
             /\ (outcome[o.msg] = "none" /\ Passed(s, m)) => InCache(s, m) \/ m.key \in s.evicted

Op == [kind : {"none", "encrypt", "decrypt"}, state : State, msg : Nat]

OpsSound ==
    /\ op \in [Parties -> [Slots -> Op]]
    /\ \A p \in Parties, slot \in Slots : OpOK(p, op[p][slot])

StoresSound ==
    /\ store \in [Parties -> State] /\ generated \in [Parties -> Nat]
    /\ \A p \in Parties : Shape(p, store[p]) /\ generated[p] = K(p)

RInv == raced = TRUE \/ (raced = FALSE /\ StoresSound /\ LettersOK /\ InStep /\ Delivered /\ OpsSound)

\* What the proofs assume.
Setting == Initiator # Responder /\ MAX_SKIP \in Nat

LEMMA FunctionIsSeq ==
    ASSUME NEW S, NEW n \in Nat, NEW f \in [1..n -> S]
    PROVE  f \in Seq(S) /\ Len(f) = n
OBVIOUS

LEMMA Appended ==
    ASSUME NEW S, NEW s \in Seq(S), NEW e \in S, NEW r \in Seq(S), Len(r) = Len(s) + 1,
           \A i \in 1..Len(s) : r[i] = s[i], r[Len(s) + 1] = e
    PROVE  Append(s, e) = r
OBVIOUS

LEMMA LadderSeq ==
    ASSUME NEW n \in Nat
    PROVE  /\ Ladder(n) \in Seq(SUBSET AllKeys) /\ Len(Ladder(n)) = n
           /\ \A i \in 1..n : Ladder(n)[i] = {Key(Initiator, (i + 1) \div 2), Key(Responder, i \div 2 + 1)}
<1>1. \A i \in 1..n : {Key(Initiator, (i + 1) \div 2), Key(Responder, i \div 2 + 1)} \in SUBSET AllKeys
  BY DEF AllKeys, Key, Parties
<1>2. Ladder(n) \in [1..n -> SUBSET AllKeys]
  BY <1>1 DEF Ladder
<1>3. \A i \in 1..n : Ladder(n)[i] = {Key(Initiator, (i + 1) \div 2), Key(Responder, i \div 2 + 1)}
  BY DEF Ladder
<1>. QED
  BY <1>2, <1>3, FunctionIsSeq

LEMMA LadderEmpty == Ladder(0) = <<>> /\ Ladder(-2) = <<>>
BY DEF Ladder

\* The next rung.
LEMMA LadderUp ==
    ASSUME NEW n \in Nat
    PROVE  Append(Ladder(n), {Key(Initiator, (n + 2) \div 2), Key(Responder, (n + 1) \div 2 + 1)})
             = Ladder(n + 1)
<1>1. /\ Ladder(n) \in Seq(SUBSET AllKeys) /\ Len(Ladder(n)) = n
      /\ Ladder(n + 1) \in Seq(SUBSET AllKeys) /\ Len(Ladder(n + 1)) = n + 1
      /\ \A i \in 1..n : Ladder(n + 1)[i] = Ladder(n)[i]
      /\ Ladder(n + 1)[n + 1]
           = {Key(Initiator, (n + 2) \div 2), Key(Responder, (n + 1) \div 2 + 1)}
  <2>1. n + 1 \in Nat /\ n + 1 \in 1..(n + 1) /\ (n + 1) + 1 = n + 2
    OBVIOUS
  <2>2. /\ Ladder(n) \in Seq(SUBSET AllKeys) /\ Len(Ladder(n)) = n
        /\ Ladder(n + 1) \in Seq(SUBSET AllKeys) /\ Len(Ladder(n + 1)) = n + 1
        /\ \A i \in 1..n : Ladder(n)[i]
              = {Key(Initiator, (i + 1) \div 2), Key(Responder, i \div 2 + 1)}
    BY <2>1, LadderSeq
  <2>3. \A i \in 1..(n + 1) : Ladder(n + 1)[i]
              = {Key(Initiator, (i + 1) \div 2), Key(Responder, i \div 2 + 1)}
    BY <2>1, LadderSeq
  <2>4. Ladder(n + 1)[n + 1]
           = {Key(Initiator, ((n + 1) + 1) \div 2), Key(Responder, (n + 1) \div 2 + 1)}
    BY <2>1, <2>3
  <2>5. \A i \in 1..n : i \in 1..(n + 1)
    OBVIOUS
  <2>. QED
    BY <2>1, <2>2, <2>3, <2>4, <2>5
<1>2. Ladder(n + 1)[n + 1] \in SUBSET AllKeys
  BY <1>1
<1>. QED
  BY <1>1, <1>2, Appended

LEMMA Halves == ASSUME NEW k \in Nat
                PROVE  (2 * k) \div 2 = k /\ (2 * k + 1) \div 2 = k
OBVIOUS

\* A party that takes the peer's new key finds the chain of the peer, and the root from
\* which its own next chain comes.
LEMMA InitiatorUp ==
    ASSUME Initiator # Responder, NEW k \in Nat, k >= 1
    PROVE  KdfRoot(ChainOf(Key(Initiator, k)), Key(Initiator, k), Key(Responder, k + 1))
                = ChainOf(Key(Responder, k + 1))
<1>1. ChainOf(Key(Initiator, k)) = Ladder(2 * k - 1)
  BY DEF ChainOf, Rungs, Key
<1>2. ChainOf(Key(Responder, k + 1)) = Ladder(2 * k)
  <2>1. 2 * (k + 1) - 2 = 2 * k
    OBVIOUS
  <2>. QED
    BY <2>1 DEF ChainOf, Rungs, Key
<1> DEFINE n == 2 * k - 1
<1>3. n \in Nat /\ n + 1 = 2 * k /\ n + 2 = 2 * k + 1
  OBVIOUS
<1>4. (n + 2) \div 2 = k /\ (n + 1) \div 2 = k
  BY <1>3, Halves
<1> HIDE DEF n
<1>5. Append(Ladder(n), {Key(Initiator, k), Key(Responder, k + 1)}) = Ladder(n + 1)
  BY <1>3, <1>4, LadderUp
<1>. QED
  BY <1>1, <1>2, <1>3, <1>5 DEF n, KdfRoot

LEMMA ResponderUp ==
    ASSUME Initiator # Responder, NEW k \in Nat, k >= 1
    PROVE  KdfRoot(ChainOf(Key(Responder, k)), Key(Responder, k), Key(Initiator, k))
                = ChainOf(Key(Initiator, k))
<1>1. ChainOf(Key(Initiator, k)) = Ladder(2 * k - 1)
  BY DEF ChainOf, Rungs, Key
<1>2. ChainOf(Key(Responder, k)) = Ladder(2 * k - 2)
  BY DEF ChainOf, Rungs, Key
<1> DEFINE n == 2 * k - 2
<1>3. n \in Nat /\ n + 1 = 2 * k - 1 /\ n + 2 = 2 * k /\ n + 1 = 2 * (k - 1) + 1 /\ k - 1 \in Nat
  OBVIOUS
<1>4. (n + 2) \div 2 = k /\ (n + 1) \div 2 = k - 1
  BY <1>3, Halves
<1> HIDE DEF n
<1>5. Append(Ladder(n), {Key(Initiator, k), Key(Responder, (k - 1) + 1)}) = Ladder(n + 1)
  BY <1>3, <1>4, LadderUp
<1>6. {Key(Initiator, k), Key(Responder, (k - 1) + 1)} = {Key(Responder, k), Key(Initiator, k)}
  OBVIOUS
<1>. QED
  BY <1>1, <1>2, <1>3, <1>5, <1>6 DEF n, KdfRoot

LEMMA Both ==
    ASSUME Setting, NEW p \in Parties
    PROVE  Peer(p) \in Parties /\ Peer(p) # p /\ Peer(Peer(p)) = p
BY DEF Setting, Parties, Peer

\* The next key pair of the peer, and the chains and the root that come with it.
LEMMA NextChain ==
    ASSUME Setting, NEW p \in Parties, NEW k \in Nat \ {0}
    PROVE  LET theirs == Key(Peer(p), Remote(p, k).k + 1)
           IN  /\ Remote(p, k + 1) = theirs
               /\ KdfRoot(ChainOf(Key(p, k)), Key(p, k), theirs) = ChainOf(theirs)
               /\ KdfRoot(ChainOf(theirs), Key(p, k + 1), theirs) = ChainOf(Key(p, k + 1))
<1>1. CASE p = Initiator
  <2> DEFINE theirs == Key(Responder, k + 1)
  <2>1. Peer(p) = Responder /\ Remote(p, k) = Key(Responder, k) /\ Remote(p, k).k = k
        /\ Remote(p, k + 1) = theirs
    BY <1>1 DEF Peer, Remote, Key
  <2>2. KdfRoot(ChainOf(Key(p, k)), Key(p, k), theirs) = ChainOf(theirs)
    BY <1>1, InitiatorUp DEF Setting
  <2>3. KdfRoot(ChainOf(theirs), theirs, Key(p, k + 1)) = ChainOf(Key(p, k + 1))
    <3>1. k + 1 \in Nat /\ k + 1 >= 1
      OBVIOUS
    <3>. QED
      BY <1>1, <3>1, ResponderUp DEF Setting
  <2>4. {Key(p, k + 1), theirs} = {theirs, Key(p, k + 1)}
    OBVIOUS
  <2>5. KdfRoot(ChainOf(theirs), Key(p, k + 1), theirs) = ChainOf(Key(p, k + 1))
    BY <2>3, <2>4 DEF KdfRoot
  <2> HIDE DEF theirs
  <2>. QED
    BY <2>1, <2>2, <2>5 DEF theirs
<1>2. CASE p = Responder
  <2> DEFINE theirs == Key(Initiator, k)
  <2>1. Peer(p) = Initiator /\ Remote(p, k).k + 1 = k
    BY <1>2 DEF Peer, Remote, Key, NoKey, Setting
  <2>2. Remote(p, k + 1) = theirs
    BY <1>2 DEF Remote, Key, Setting
  <2>3. KdfRoot(ChainOf(Key(p, k)), Key(p, k), theirs) = ChainOf(theirs)
    BY <1>2, ResponderUp DEF Setting
  <2>4. KdfRoot(ChainOf(theirs), theirs, Key(p, k + 1)) = ChainOf(Key(p, k + 1))
    BY <1>2, InitiatorUp DEF Setting
  <2>5. {Key(p, k + 1), theirs} = {theirs, Key(p, k + 1)}
    OBVIOUS
  <2>6. KdfRoot(ChainOf(theirs), Key(p, k + 1), theirs) = ChainOf(Key(p, k + 1))
    BY <2>4, <2>5 DEF KdfRoot
  <2> HIDE DEF theirs
  <2>. QED
    BY <2>1, <2>2, <2>3, <2>6 DEF theirs
<1>. QED
  BY <1>1, <1>2 DEF Parties

LEMMA NoChainTyped == NoChain \in Chains
BY DEF NoChain, Chains

\* The counts of the rungs.
LEMMA ChainsAre ==
    ASSUME Setting, NEW p \in Parties, NEW k \in Nat \ {0}
    PROVE  /\ ChainOf(Key(p, k)) \in Chains /\ ChainOf(Remote(p, k)) \in Chains
           /\ Key(p, k) \in AllKeys /\ Remote(p, k) \in AllKeys
           /\ Remote(p, k).k \in Nat /\ Remote(p, k).k = IF p = Initiator THEN k ELSE k - 1
           /\ Key(p, k) \in KeysOf(p) => ChainOf(Key(p, k)) # NoChain
           /\ Remote(p, k) \in KeysOf(Peer(p)) \/ ChainOf(Remote(p, k)) = NoChain
           /\ \A dh \in KeysOf(Peer(p)) :
                /\ dh \in AllKeys /\ dh.k \in Nat /\ dh.of = Peer(p)
                /\ ChainOf(dh) \in Chains /\ ChainOf(dh) # NoChain
                /\ dh.k = Remote(p, k).k => dh = Remote(p, k)
                /\ dh.k <= Remote(p, k).k => Len(ChainOf(Key(p, k))) + 1 # Len(ChainOf(dh))
<1>1. \A q \in Parties, j \in Nat : Key(q, j) \in AllKeys /\ Key(q, j).of = q /\ Key(q, j).k = j
  BY DEF AllKeys, Key
<1>2. \A q \in Parties : \A j \in Nat : Key(q, j) \in KeysOf(q) =>
        /\ Rungs(Key(q, j)) \in Nat \ {0}
        /\ Rungs(Key(q, j)) = IF q = Initiator THEN 2 * j - 1 ELSE 2 * j - 2
  <2> SUFFICES ASSUME NEW q \in Parties, NEW j \in Nat, Key(q, j) \in KeysOf(q)
               PROVE  /\ Rungs(Key(q, j)) \in Nat \ {0}
                      /\ Rungs(Key(q, j)) = IF q = Initiator THEN 2 * j - 1 ELSE 2 * j - 2
    OBVIOUS
  <2>1. j # 0 /\ (q # Initiator => j # 1)
    BY <1>1 DEF KeysOf
  <2>2. Rungs(Key(q, j)) = IF q = Initiator THEN 2 * j - 1 ELSE 2 * j - 2
    BY <1>1 DEF Rungs
  <2>. QED
    BY <2>1, <2>2
<1>3. Rungs(Key(p, k)) \in Nat /\ Rungs(Key(p, k)) = IF p = Initiator THEN 2 * k - 1 ELSE 2 * k - 2
  BY <1>1 DEF Rungs
<1>4. /\ ChainOf(Key(p, k)) \in Chains /\ Len(ChainOf(Key(p, k))) = Rungs(Key(p, k))
  BY <1>3, LadderSeq DEF ChainOf, Chains
<1>5. /\ Remote(p, k) \in AllKeys /\ Remote(p, k).k \in Nat
      /\ Remote(p, k).k = IF p = Initiator THEN k ELSE k - 1
  BY <1>1 DEF Remote, NoKey, AllKeys, Key, Parties, Setting
<1>6. \A dh \in KeysOf(Peer(p)) : dh.k \in Nat /\ dh = Key(Peer(p), dh.k)
  BY DEF KeysOf, Key
<1>7. \A dh \in KeysOf(Peer(p)) : dh.k = Remote(p, k).k => dh = Remote(p, k)
  <2>1. \A dh \in KeysOf(Peer(p)) : dh.k # 0 /\ (Peer(p) # Initiator => dh.k # 1)
    BY <1>1, Both DEF KeysOf
  <2>2. Remote(p, k).k # 0 => Remote(p, k) = Key(Peer(p), Remote(p, k).k)
    BY <1>1, <1>5 DEF Remote, NoKey, Peer, Parties, Setting
  <2>. QED
    BY <2>1, <2>2, <1>6
<1>8. \A dh \in KeysOf(Peer(p)) :
        /\ Rungs(dh) = IF Peer(p) = Initiator THEN 2 * dh.k - 1 ELSE 2 * dh.k - 2
        /\ Rungs(dh) \in Nat \ {0}
        /\ Len(ChainOf(dh)) = Rungs(dh) /\ ChainOf(dh) \in Chains
  <2> SUFFICES ASSUME NEW dh \in KeysOf(Peer(p))
               PROVE  /\ Rungs(dh) = IF Peer(p) = Initiator THEN 2 * dh.k - 1 ELSE 2 * dh.k - 2
                      /\ Rungs(dh) \in Nat \ {0}
                      /\ Len(ChainOf(dh)) = Rungs(dh) /\ ChainOf(dh) \in Chains
    OBVIOUS
  <2>1. Rungs(dh) \in Nat \ {0} /\ Rungs(dh) = IF Peer(p) = Initiator THEN 2 * dh.k - 1 ELSE 2 * dh.k - 2
    BY <1>2, <1>6, Both
  <2>. QED
    BY <2>1, LadderSeq DEF ChainOf, Chains
<1>9. \A dh \in KeysOf(Peer(p)) :
        dh.k <= Remote(p, k).k => Len(ChainOf(Key(p, k))) + 1 # Len(ChainOf(dh))
  BY <1>3, <1>4, <1>5, <1>6, <1>8 DEF Peer, Parties, Setting
<1>10. Key(p, k) \in KeysOf(p) => ChainOf(Key(p, k)) # NoChain
  <2> SUFFICES ASSUME Key(p, k) \in KeysOf(p) PROVE ChainOf(Key(p, k)) # NoChain
    OBVIOUS
  <2>1. Len(ChainOf(Key(p, k))) # 0
    BY <1>2, <1>4
  <2>. QED
    BY <2>1 DEF NoChain
<1>11. /\ Remote(p, k) \in KeysOf(Peer(p)) \/ ChainOf(Remote(p, k)) = NoChain
       /\ ChainOf(Remote(p, k)) \in Chains
  <2>1. CASE Remote(p, k) \in KeysOf(Peer(p))
    BY <2>1, <1>8
  <2>2. CASE p = Initiator /\ k = 1
    <3>1. Remote(p, k) = Key(Responder, 1) /\ 2 * 1 - 2 = 0
      BY <2>2 DEF Remote
    <3>2. ChainOf(Remote(p, k)) = Ladder(0)
      BY <3>1 DEF ChainOf, Rungs, Key, Setting
    <3>. QED
      BY <3>2, LadderEmpty, NoChainTyped DEF NoChain
  <2>3. CASE p = Responder /\ k = 1
    <3>1. Remote(p, k) = Key(Responder, 0) /\ 2 * 0 - 2 = -2
      BY <2>3 DEF Remote, NoKey, Setting
    <3>2. ChainOf(Remote(p, k)) = Ladder(-2)
      BY <3>1 DEF ChainOf, Rungs, Key, Setting
    <3>. QED
      BY <3>2, LadderEmpty, NoChainTyped DEF NoChain
  <2>4. CASE k # 1
    <3>1. Remote(p, k) = IF p = Initiator THEN Key(Responder, k) ELSE Key(Initiator, k - 1)
      BY <2>4 DEF Remote
    <3>2. Remote(p, k) \in KeysOf(Peer(p))
      BY <2>4, <3>1 DEF KeysOf, Peer, Parties, Setting
    <3>. QED
      BY <3>2, <1>8
  <2>. QED
    BY <2>2, <2>3, <2>4 DEF Parties
<1>12. \A dh \in KeysOf(Peer(p)) : /\ dh \in AllKeys /\ dh.k \in Nat /\ dh.of = Peer(p)
                                   /\ ChainOf(dh) \in Chains /\ ChainOf(dh) # NoChain
  BY <1>1, <1>6, <1>8, Both DEF NoChain
<1>. QED
  BY <1>1, <1>4, <1>5, <1>7, <1>9, <1>10, <1>11, <1>12

-------------------------------------------------------------------------------
(* The cache.                                                              *)

LEMMA Cut ==
    ASSUME NEW S, NEW q \in Seq(S), NEW e \in 0..Len(q)
    PROVE  LET rest == SubSeq(q, e + 1, Len(q))
           IN  /\ rest \in Seq(S) /\ Len(rest) = Len(q) - e
               /\ \A i \in DOMAIN rest : i \in 1..(Len(q) - e) /\ rest[i] = q[e + i]
               /\ \A j \in (e + 1)..Len(q) : j - e \in DOMAIN rest /\ rest[j - e] = q[j]
OBVIOUS

LEMMA Dropped ==
    ASSUME NEW S, NEW q \in Seq(S), NEW i \in DOMAIN q
    PROVE  LET rest == SubSeq(q, 1, i - 1) \o SubSeq(q, i + 1, Len(q))
           IN  /\ rest \in Seq(S) /\ Len(rest) = Len(q) - 1
               /\ \A j \in DOMAIN rest : /\ j < i => j \in DOMAIN q /\ rest[j] = q[j]
                                         /\ j >= i => j + 1 \in DOMAIN q /\ rest[j] = q[j + 1]
               /\ \A j \in DOMAIN q \ {i} : \E l \in DOMAIN rest : rest[l] = q[j]
<1> DEFINE a == SubSeq(q, 1, i - 1)
           b == SubSeq(q, i + 1, Len(q))
<1>1. i \in 1..Len(q) /\ Len(q) \in Nat
  OBVIOUS
<1>2. a \in Seq(S) /\ Len(a) = i - 1 /\ \A j \in 1..(i - 1) : a[j] = q[j]
  BY <1>1
<1>3. b \in Seq(S) /\ Len(b) = Len(q) - i /\ \A j \in 1..(Len(q) - i) : b[j] = q[i + j]
  BY <1>1
<1> HIDE DEF a, b
<1>4. /\ a \o b \in Seq(S) /\ Len(a \o b) = Len(q) - 1 /\ DOMAIN (a \o b) = 1..(Len(q) - 1)
      /\ \A j \in 1..(Len(q) - 1) : /\ j < i => (a \o b)[j] = q[j]
                                    /\ j >= i => (a \o b)[j] = q[j + 1]
  <2>1. a \o b \in Seq(S) /\ Len(a \o b) = Len(q) - 1
    BY <1>1, <1>2, <1>3
  <2>2. ASSUME NEW j \in 1..(Len(q) - 1), j < i PROVE (a \o b)[j] = q[j]
    BY <1>1, <1>2, <1>3, <2>2
  <2>3. ASSUME NEW j \in 1..(Len(q) - 1), j >= i PROVE (a \o b)[j] = q[j + 1]
    <3>1. (a \o b)[j] = b[j - (i - 1)]
      BY SMTT(30), <1>1, <1>2, <1>3, <2>3
    <3>2. j - (i - 1) \in 1..(Len(q) - i) /\ i + (j - (i - 1)) = j + 1
      BY <1>1, <2>3
    <3>. QED
      BY <1>3, <3>1, <3>2
  <2>4. DOMAIN (a \o b) = 1..(Len(q) - 1)
    <3>1. \A z \in Seq(S) : DOMAIN z = 1..Len(z)
      OBVIOUS
    <3>. QED
      BY <2>1, <3>1
  <2>. QED
    BY <2>1, <2>2, <2>3, <2>4
<1>5. ASSUME NEW j \in DOMAIN q \ {i} PROVE \E l \in DOMAIN (a \o b) : (a \o b)[l] = q[j]
  <2>1. CASE j < i
    <3>1. j \in 1..(Len(q) - 1)
      BY <1>1, <2>1
    <3>. QED
      BY <1>4, <2>1, <3>1
  <2>2. CASE j > i
    <3>1. j - 1 \in 1..(Len(q) - 1) /\ j - 1 >= i /\ (j - 1) + 1 = j
      BY <1>1, <2>2
    <3>. QED
      BY <1>4, <3>1
  <2>. QED
    BY <1>1, <2>1, <2>2
<1>6. \A j \in DOMAIN (a \o b) : /\ j < i => j \in DOMAIN q /\ (a \o b)[j] = q[j]
                                 /\ j >= i => j + 1 \in DOMAIN q /\ (a \o b)[j] = q[j + 1]
  <2>1. \A j \in 1..(Len(q) - 1) : j \in DOMAIN q /\ j + 1 \in DOMAIN q
    BY <1>1
  <2>. QED
    BY <1>4, <2>1
<1>. QED
  BY <1>4, <1>5, <1>6 DEF a, b

LEMMA Joined ==
    ASSUME NEW S, NEW a \in Seq(S), NEW b \in Seq(S)
    PROVE  /\ a \o b \in Seq(S) /\ Len(a \o b) = Len(a) + Len(b)
           /\ DOMAIN (a \o b) = 1..(Len(a) + Len(b))
           /\ \A i \in 1..Len(a) : (a \o b)[i] = a[i]
           /\ \A i \in 1..Len(b) : (a \o b)[Len(a) + i] = b[i]
<1>1. a \o b \in Seq(S) /\ Len(a \o b) = Len(a) + Len(b)
  OBVIOUS
<1>2. \A z \in Seq(S) : DOMAIN z = 1..Len(z)
  OBVIOUS
<1>3. \A i \in 1..Len(a) : (a \o b)[i] = a[i]
  OBVIOUS
<1>4. ASSUME NEW i \in 1..Len(b) PROVE (a \o b)[Len(a) + i] = b[i]
  OBVIOUS
<1>. QED
  BY <1>1, <1>2, <1>3, <1>4

LEMMA Behind ==
    ASSUME NEW a \in Nat, NEW b \in Nat, NEW i \in 1..(a + b), i \notin 1..a
    PROVE  i - a \in 1..b /\ a + (i - a) = i /\ i \in Nat
OBVIOUS

\* The place of a message in the chains of the peer.
Place(p, m) == m.dh \in KeysOf(Peer(p)) /\ m.n \in Nat /\ m.key = MessageKey(ChainOf(m.dh), m.n)

\* The message's key is in the cache, was evicted or was used, if it was before.
Keeps(s, t, m) ==
    /\ Passed(t, m) => InCache(t, m) \/ m.key \in t.evicted \/ (Passed(s, m) /\ ~InCache(s, m))
    /\ Passed(s, m) => Passed(t, m)
    /\ InCache(t, m) => InCache(s, m) \/ ~Passed(s, m)

LEMMA KeepsBoth ==
    ASSUME NEW s, NEW t, NEW u, NEW m, Keeps(s, t, m), Keeps(t, u, m), t.evicted \subseteq u.evicted
    PROVE  Keeps(s, u, m)
BY DEF Keeps

LEMMA EntriesAre ==
    ASSUME Setting, NEW p \in Parties, NEW dh \in KeysOf(Peer(p)), NEW n \in Nat
    PROVE  /\ EntryOf(dh, n) \in Entry /\ EntryOf(dh, n) \in Entries(p)
           /\ EntryOf(dh, n).dh = dh /\ EntryOf(dh, n).n = n /\ Place(p, EntryOf(dh, n))
           /\ EntryOf(dh, n).key \in MessageKeys
<1>1. dh \in AllKeys /\ ChainOf(dh) \in Chains
  <2>1. 1 \in Nat \ {0}
    OBVIOUS
  <2>. QED
    BY <2>1, ChainsAre
<1>. QED
  BY <1>1 DEF EntryOf, Entry, Entries, Place, MessageKey, MessageKeys

LEMMA EntryIs ==
    ASSUME Setting, NEW p \in Parties, NEW e \in Entries(p)
    PROVE  e \in Entry /\ Place(p, e) /\ e = EntryOf(e.dh, e.n) /\ e.key \in MessageKeys
<1>1. PICK dh \in KeysOf(Peer(p)), n \in Nat : e = EntryOf(dh, n)
  BY DEF Entries
<1>. QED
  BY <1>1, EntriesAre

\* What is in the cache the receiving chain is past.
LEMMA CachedIsPassed ==
    ASSUME NEW p, NEW s, Shape(p, s), NEW m, InCache(s, m)
    PROVE  Passed(s, m)
<1>1. PICK j \in DOMAIN s.skipped : s.skipped[j].dh = m.dh /\ s.skipped[j].n = m.n
  BY DEF InCache
<1>2. Passed(s, s.skipped[j])
  BY DEF Shape
<1>. QED
  BY <1>1, <1>2 DEF Passed

\* What a state of a party says of the peer's chain that it receives on.
LEMMA ShapeAre ==
    ASSUME Setting, NEW p \in Parties, NEW s, Shape(p, s)
    PROVE  /\ s \in State /\ s.recvCount \in Nat /\ s.sendCount \in Nat /\ s.dhSend.k \in Nat \ {0}
           /\ s.dhRemote.k \in Nat /\ s.dhRemote.k = IF p = Initiator THEN s.dhSend.k ELSE s.dhSend.k - 1
           /\ s.skipped \in Seq(Entry) /\ s.evicted \subseteq MessageKeys
           /\ s.chainKeyRecv # NoChain => s.dhRemote \in KeysOf(Peer(p))
           /\ \A dh \in KeysOf(Peer(p)) :
                /\ dh.k \in Nat /\ ChainOf(dh) # NoChain
                /\ dh.k = s.dhRemote.k => dh = s.dhRemote
                /\ dh.k <= s.dhRemote.k => Len(s.root) + 1 # Len(ChainOf(dh))
<1>1. /\ s.dhSend.k \in Nat \ {0} /\ s.dhSend = Key(p, s.dhSend.k)
      /\ s.dhRemote = Remote(p, s.dhSend.k) /\ s.root = ChainOf(s.dhSend)
      /\ s.chainKeyRecv = ChainOf(s.dhRemote) /\ s \in State
  BY DEF Shape
<1>. QED
  BY <1>1, ChainsAre DEF State

\* skipMessageKeys: keys are only evicted, and those that it passes are cached.
Skips(p, s, until) ==
    LET t == SkipMessageKeys(s, until)
    IN  /\ Shape(p, t) /\ s.evicted \subseteq t.evicted
        /\ t.dhSend = s.dhSend /\ t.dhRemote = s.dhRemote /\ t.root = s.root
        /\ t.chainKeyRecv = s.chainKeyRecv
        /\ t.sendCount = s.sendCount /\ t.prevSendCount = s.prevSendCount
        /\ s.dhRemote \in KeysOf(Peer(p)) =>
             t.recvCount = IF s.recvCount >= until THEN s.recvCount ELSE until
        /\ \A m : Place(p, m) => Keeps(s, t, m)

LEMMA SkipKeeps ==
    ASSUME Setting, NEW p \in Parties, NEW s, Shape(p, s), NEW until \in Nat
    PROVE  Skips(p, s, until)
<1>1. /\ s \in State /\ s.recvCount \in Nat /\ s.dhRemote.k \in Nat /\ s.skipped \in Seq(Entry)
      /\ s.evicted \subseteq MessageKeys /\ s.chainKeyRecv = ChainOf(s.dhRemote)
  BY ShapeAre DEF Shape
<1>2. CASE s.chainKeyRecv = NoChain \/ s.recvCount >= until
  <2>1. SkipMessageKeys(s, until) = s
    BY <1>2 DEF SkipMessageKeys
  <2>2. s.dhRemote \in KeysOf(Peer(p)) => s.chainKeyRecv # NoChain
    BY <1>1, ShapeAre
  <2>3. ASSUME NEW m, Place(p, m) PROVE Keeps(s, s, m)
    BY DEF Keeps
  <2>. QED
    BY <1>2, <2>1, <2>2, <2>3 DEF Skips
<1>3. CASE ~(s.chainKeyRecv = NoChain \/ s.recvCount >= until)
  <2> DEFINE c == s.recvCount
             passed == [i \in 1..(until - c) |->
                           [dh |-> s.dhRemote, n |-> c + i - 1, key |-> MessageKey(s.chainKeyRecv, c + i - 1)]]
             all    == s.skipped \o passed
             excess == IF Len(all) > MAX_SKIP THEN Len(all) - MAX_SKIP ELSE 0
             rest   == SubSeq(all, excess + 1, Len(all))
             t      == SkipMessageKeys(s, until)
  <2>1. t = [s EXCEPT !.recvCount = until, !.skipped = rest,
                      !.evicted = s.evicted \cup {all[i].key : i \in 1..excess}]
    BY <1>3 DEF SkipMessageKeys
  <2>2. s.dhRemote \in KeysOf(Peer(p)) /\ c \in Nat /\ c < until /\ until - c \in Nat
    BY <1>1, <1>3, ShapeAre
  <2>3. \A j \in DOMAIN s.skipped : s.skipped[j] \in Entries(p) /\ Passed(s, s.skipped[j])
    BY DEF Shape
  <2>4. s.skipped \in Seq(Entries(p)) /\ DOMAIN s.skipped = 1..Len(s.skipped) /\ Len(s.skipped) \in Nat
    BY <1>1, <2>3
  <2>5. /\ passed \in Seq(Entries(p)) /\ Len(passed) = until - c
        /\ \A i \in 1..(until - c) : passed[i] = EntryOf(s.dhRemote, c + i - 1)
    <3>1. \A i \in 1..(until - c) : passed[i] = EntryOf(s.dhRemote, c + i - 1)
      BY <1>1 DEF EntryOf
    <3>2. \A i \in 1..(until - c) : c + i - 1 \in Nat
      BY <2>2
    <3>3. \A i \in 1..(until - c) : passed[i] \in Entries(p)
      <4>1. \A n \in Nat : EntryOf(s.dhRemote, n) \in Entries(p)
        BY <2>2, EntriesAre
      <4>. QED
        BY <3>1, <3>2, <4>1
    <3>4. passed \in [1..(until - c) -> Entries(p)]
      BY <3>3
    <3>. QED
      BY ZenonT(60), <2>2, <3>1, <3>4, FunctionIsSeq
  <2> HIDE DEF passed
  <2>6. /\ all \in Seq(Entries(p)) /\ Len(all) = Len(s.skipped) + (until - c)
        /\ DOMAIN all = 1..(Len(s.skipped) + (until - c))
        /\ \A i \in 1..Len(s.skipped) : all[i] = s.skipped[i]
        /\ \A i \in 1..(until - c) : all[Len(s.skipped) + i] = EntryOf(s.dhRemote, c + i - 1)
    <3>1. /\ all \in Seq(Entries(p)) /\ Len(all) = Len(s.skipped) + Len(passed)
          /\ DOMAIN all = 1..(Len(s.skipped) + Len(passed))
          /\ \A i \in 1..Len(s.skipped) : all[i] = s.skipped[i]
          /\ \A i \in 1..Len(passed) : all[Len(s.skipped) + i] = passed[i]
      BY <2>4, <2>5, Joined
    <3>. QED
      BY <2>5, <3>1
  <2>7. ASSUME NEW i \in 1..(until - c)
        PROVE  /\ EntryOf(s.dhRemote, c + i - 1).dh = s.dhRemote
               /\ EntryOf(s.dhRemote, c + i - 1).n = c + i - 1
    BY DEF EntryOf
  <2> HIDE DEF all
  <2>8. /\ excess \in Nat /\ excess \in 0..Len(all)
        /\ Len(all) \in Nat /\ DOMAIN all = 1..Len(all)
    BY SMTT(30), <2>2, <2>4, <2>6 DEF Setting
  <2> HIDE DEF excess
  <2>9. /\ rest \in Seq(Entries(p)) /\ DOMAIN rest = 1..Len(rest)
        /\ \A i \in DOMAIN rest : excess + i \in DOMAIN all /\ rest[i] = all[excess + i]
        /\ \A j \in DOMAIN all : j \notin 1..excess => j - excess \in DOMAIN rest /\ rest[j - excess] = all[j]
    <3>1. /\ rest \in Seq(Entries(p)) /\ Len(rest) = Len(all) - excess
          /\ \A i \in DOMAIN rest : i \in 1..(Len(all) - excess) /\ rest[i] = all[excess + i]
          /\ \A j \in (excess + 1)..Len(all) : j - excess \in DOMAIN rest /\ rest[j - excess] = all[j]
      BY <2>6, <2>8, Cut
    <3>2. \A z \in Seq(Entries(p)) : DOMAIN z = 1..Len(z)
      OBVIOUS
    <3>3. \A i \in 1..(Len(all) - excess) : excess + i \in DOMAIN all
      BY <2>8
    <3>4. \A j \in DOMAIN all : j \notin 1..excess => j \in (excess + 1)..Len(all)
      BY <2>8
    <3>. QED
      BY <3>1, <3>2, <3>3, <3>4
  <2> HIDE DEF rest
  <2>10. \A i \in DOMAIN all : all[i] \in Entries(p) /\ all[i].key \in MessageKeys /\ all[i] \in Entry
    <3>1. \A i \in DOMAIN all : all[i] \in Entries(p)
      BY <2>6
    <3>. QED
      BY <3>1, EntryIs
  <2>11. /\ t \in State /\ t.skipped = rest /\ t.recvCount = until
         /\ t.evicted = s.evicted \cup {all[i].key : i \in 1..excess}
         /\ t.dhSend = s.dhSend /\ t.dhRemote = s.dhRemote /\ t.root = s.root
         /\ t.chainKeyRecv = s.chainKeyRecv /\ t.chainKeySend = s.chainKeySend
         /\ t.sendCount = s.sendCount /\ t.prevSendCount = s.prevSendCount
    <3>1. rest \in Seq(Entry)
      <4>1. \A i \in DOMAIN rest : rest[i] \in Entry
        BY <2>9, <2>10
      <4>. QED
        BY <2>9, <4>1
    <3>2. 1..excess \subseteq DOMAIN all
      BY <2>8
    <3>3. {all[i].key : i \in 1..excess} \subseteq MessageKeys
      BY <2>10, <3>2
    <3>. QED
      BY <1>1, <2>1, <3>1, <3>3 DEF State
  <2> HIDE DEF t
  <2>12. \A i \in DOMAIN all : Passed(t, all[i])
    <3>1. ASSUME NEW i \in 1..Len(s.skipped) PROVE Passed(t, all[i])
      <4>1. Passed(s, all[i])
        BY <2>3, <2>4, <2>6
      <4>2. all[i].n \in Nat
        BY <2>3, <2>4, <2>6, EntryIs DEF Entry
      <4>. QED
        BY <2>2, <2>11, <4>1, <4>2 DEF Passed
    <3>2. ASSUME NEW i \in 1..(until - c) PROVE Passed(t, all[Len(s.skipped) + i])
      <4>1. c + i - 1 < until
        BY <2>2
      <4>2. all[Len(s.skipped) + i].dh = s.dhRemote /\ all[Len(s.skipped) + i].n = c + i - 1
        BY <2>6, <2>7
      <4>. QED
        BY <2>11, <4>1, <4>2 DEF Passed
    <3>3. ASSUME NEW i \in DOMAIN all, i \notin 1..Len(s.skipped) PROVE Passed(t, all[i])
      <4>1. i - Len(s.skipped) \in 1..(until - c) /\ Len(s.skipped) + (i - Len(s.skipped)) = i
        BY SMTT(30), <2>2, <2>4, <2>6, <3>3, Behind
      <4>. QED
        BY <3>2, <4>1
    <3>. QED
      BY <3>1, <3>3
  <2>13. \A i, j \in DOMAIN all : all[i] = all[j] => i = j
    <3>1. \A i, j \in 1..Len(s.skipped) : all[i] = all[j] => i = j
      BY <2>4, <2>6 DEF Shape
    <3>2. \A i \in 1..Len(s.skipped) : Passed(s, all[i])
      BY <2>3, <2>4, <2>6
    <3>3. \A i \in 1..(until - c) : /\ all[Len(s.skipped) + i].dh = s.dhRemote
                                    /\ all[Len(s.skipped) + i].n = c + i - 1
      BY <2>6, <2>7
    <3>4. \A i \in DOMAIN all : i \notin 1..Len(s.skipped) =>
             /\ i \in Nat /\ all[i].dh = s.dhRemote /\ all[i].n = c + (i - Len(s.skipped)) - 1
             /\ ~(all[i].n < c)
      <4> SUFFICES ASSUME NEW i \in DOMAIN all, i \notin 1..Len(s.skipped)
                   PROVE  /\ i \in Nat /\ all[i].dh = s.dhRemote
                          /\ all[i].n = c + (i - Len(s.skipped)) - 1 /\ ~(all[i].n < c)
        OBVIOUS
      <4>1. i - Len(s.skipped) \in 1..(until - c) /\ Len(s.skipped) + (i - Len(s.skipped)) = i /\ i \in Nat
        BY <2>2, <2>4, <2>6, Behind
      <4>. QED
        BY SMTT(30), <2>2, <3>3, <4>1
    <3>5. \A i \in DOMAIN all : i \notin 1..Len(s.skipped) => ~Passed(s, all[i])
      BY <1>1, <3>4 DEF Passed
    <3>6. \A i, j \in DOMAIN all : i \notin 1..Len(s.skipped) /\ j \notin 1..Len(s.skipped) /\ all[i].n = all[j].n
            => i = j
      BY SMTT(30), <2>2, <2>4, <3>4
    <3>. QED
      BY <3>1, <3>2, <3>5, <3>6
  <2>14. Shape(p, t)
    <3>1. \A j \in DOMAIN t.skipped : t.skipped[j] \in Entries(p) /\ Passed(t, t.skipped[j])
      BY <2>9, <2>10, <2>11, <2>12
    <3>2. \A j, l \in DOMAIN t.skipped : t.skipped[j] = t.skipped[l] => j = l
      <4> SUFFICES ASSUME NEW j \in DOMAIN rest, NEW l \in DOMAIN rest, rest[j] = rest[l] PROVE j = l
        BY <2>11
      <4>1. excess + j = excess + l
        BY <2>9, <2>13
      <4>2. j \in Nat /\ l \in Nat
        <5>1. Len(rest) \in Nat /\ DOMAIN rest \subseteq Nat
          BY <2>9
        <5>. QED
          BY <5>1
      <4>. QED
        BY <2>8, <4>1, <4>2
    <3>. QED
      BY <2>11, <3>1, <3>2 DEF Shape
  <2>15. ASSUME NEW m, Place(p, m) PROVE Keeps(s, t, m)
    <3>1. m.n \in Nat /\ m.dh \in KeysOf(Peer(p)) /\ m.key = EntryOf(m.dh, m.n).key /\ m.dh.k \in Nat
      <4>1. m.n \in Nat /\ m.dh \in KeysOf(Peer(p)) /\ m.key = EntryOf(m.dh, m.n).key
        BY <2>15 DEF Place, EntryOf
      <4>. QED
        BY <4>1, ShapeAre
    <3>2. \A i \in DOMAIN all : all[i].dh = m.dh /\ all[i].n = m.n => all[i].key = m.key
      BY <2>10, EntryIs, <3>1 DEF Place
    <3>3. ASSUME NEW i \in DOMAIN all, all[i].dh = m.dh, all[i].n = m.n
          PROVE  InCache(t, m) \/ m.key \in t.evicted
      <4>1. CASE i \in 1..excess
        BY <2>11, <3>2, <3>3, <4>1
      <4>2. CASE i \notin 1..excess
        BY <2>9, <2>11, <3>3, <4>2 DEF InCache
      <4>. QED
        BY <4>1, <4>2
    <3>4. ASSUME Passed(t, m), ~Passed(s, m)
          PROVE  \E i \in DOMAIN all : all[i].dh = m.dh /\ all[i].n = m.n
      <4>1. m.dh.k = s.dhRemote.k /\ m.n >= c /\ m.n < until
        BY <1>1, <2>2, <2>11, <3>1, <3>4 DEF Passed
      <4>2. m.dh = s.dhRemote
        BY <3>1, <4>1, ShapeAre
      <4>3. m.n - c + 1 \in 1..(until - c) /\ c + (m.n - c + 1) - 1 = m.n
        BY <2>2, <3>1, <4>1
      <4>4. Len(s.skipped) + (m.n - c + 1) \in DOMAIN all
        BY SMTT(30), <2>2, <2>4, <2>6, <4>3
      <4>5. all[Len(s.skipped) + (m.n - c + 1)].dh = m.dh /\ all[Len(s.skipped) + (m.n - c + 1)].n = m.n
        BY <2>6, <2>7, <4>2, <4>3
      <4>. QED
        BY <4>4, <4>5
    <3>5. InCache(s, m) => \E i \in DOMAIN all : all[i].dh = m.dh /\ all[i].n = m.n
      <4>1. \A i \in DOMAIN s.skipped : i \in DOMAIN all
        BY <2>2, <2>4, <2>6
      <4>. QED
        BY <2>4, <2>6, <4>1 DEF InCache
    <3>6. Passed(s, m) => Passed(t, m)
      BY <1>1, <2>2, <2>11, <3>1 DEF Passed
    <3>7. ASSUME InCache(t, m), ~InCache(s, m) PROVE ~Passed(s, m)
      <4>1. PICK i \in DOMAIN all : all[i].dh = m.dh /\ all[i].n = m.n
        BY <2>9, <2>11, <3>7 DEF InCache
      <4>2. i \notin 1..Len(s.skipped)
        BY <2>4, <2>6, <3>7, <4>1 DEF InCache
      <4>3. i - Len(s.skipped) \in 1..(until - c) /\ Len(s.skipped) + (i - Len(s.skipped)) = i
        BY SMTT(30), <2>2, <2>4, <2>6, <4>2, Behind
      <4>4. m.dh = s.dhRemote /\ m.n = c + (i - Len(s.skipped)) - 1
        BY <2>6, <2>7, <4>1, <4>3
      <4>5. m.n >= c
        BY <2>2, <4>3, <4>4
      <4>. QED
        BY <1>1, <2>2, <3>1, <4>4, <4>5 DEF Passed
    <3>. QED
      BY <3>3, <3>4, <3>5, <3>6, <3>7 DEF Keeps
  <2>16. s.evicted \subseteq t.evicted /\ ~(s.recvCount >= until)
    BY <2>11, <1>3
  <2>. QED
    BY <2>11, <2>14, <2>15, <2>16 DEF t, Skips
<1>. QED
  BY <1>2, <1>3

-------------------------------------------------------------------------------
(* What ratchetDecrypt makes of a message.                                 *)

LEMMA Derived ==
    ASSUME NEW root \in Chains, NEW mine \in AllKeys, NEW theirs \in AllKeys
    PROVE  /\ KdfRoot(root, mine, theirs) \in Chains /\ KdfRoot(root, mine, theirs) # NoChain
           /\ Len(KdfRoot(root, mine, theirs)) = Len(root) + 1
<1>1. {mine, theirs} \in SUBSET AllKeys
  OBVIOUS
<1> DEFINE e == {mine, theirs}
<1> HIDE DEF e
<1>2. /\ Append(root, e) \in Chains /\ Len(Append(root, e)) = Len(root) + 1 /\ Len(root) \in Nat
  BY <1>1 DEF Chains, e
<1>3. Append(root, e) # NoChain
  BY <1>2 DEF NoChain
<1>. QED
  BY <1>2, <1>3 DEF KdfRoot, e

LEMMA Opens ==
    ASSUME NEW s \in State, NEW m, m.n \in Nat, s.chainKeyRecv # NoChain, s.recvCount <= m.n
    PROVE  LET o == OpenNext(s, m)
           IN  /\ o.outcome \in {"skip", "read", "garbled"}
               /\ o.outcome # "skip" =>
                    /\ o.outcome = "read" <=> MessageKey(s.chainKeyRecv, m.n) = m.key
                    /\ o.state = [SkipMessageKeys(s, m.n) EXCEPT !.recvCount = m.n + 1]
<1> DEFINE s1 == SkipMessageKeys(s, m.n)
<1>1. s.recvCount \in Nat
  BY DEF State
<1>2. s1.chainKeyRecv = s.chainKeyRecv /\ s1.recvCount = m.n
  <2>1. CASE s.recvCount >= m.n
    BY <1>1, <2>1 DEF SkipMessageKeys
  <2>2. CASE ~(s.recvCount >= m.n)
    BY <1>1, <2>2 DEF SkipMessageKeys, State
  <2>. QED
    BY <2>1, <2>2
<1> HIDE DEF s1
<1>3. OpenNext(s, m) = IF TooMany(s, m.n) THEN [outcome |-> "skip", state |-> s]
                       ELSE [outcome |-> IF MessageKey(s1.chainKeyRecv, s1.recvCount) = m.key
                                         THEN "read" ELSE "garbled",
                             state |-> [s1 EXCEPT !.recvCount = s1.recvCount + 1]]
  BY DEF OpenNext, s1
<1>. QED
  BY <1>2, <1>3 DEF s1

LEMMA SealedAre ==
    ASSUME Setting, NEW p \in Parties, NEW m \in SealedBy(p)
    PROVE  /\ m.dh \in KeysOf(p) /\ m.n \in Nat /\ m.pn \in Nat /\ m.key = MessageKey(ChainOf(m.dh), m.n)
           /\ m.dh.k \in Nat \ {0} /\ m.dh.of = p /\ m.dh \in AllKeys
           /\ m = SealedOf(m.dh, m.pn, m.n)
<1>1. PICK dh \in KeysOf(p), pn \in Nat, n \in Nat : m = SealedOf(dh, pn, n)
  BY DEF SealedBy
<1>2. m.dh = dh /\ m.n = n /\ m.pn = pn /\ m.key = MessageKey(ChainOf(dh), n)
  BY <1>1 DEF SealedOf
<1>3. dh.k \in Nat \ {0} /\ dh.of = p /\ dh \in AllKeys
  BY DEF KeysOf, Key, AllKeys
<1>. QED
  BY <1>1, <1>2, <1>3

\* The five cases of ratchetDecrypt.
AfterStep(s, m, fresh) == DhRatchetStep(SkipMessageKeys(s, m.pn), m.dh, fresh)

Cases(p, s, m, fresh) ==
    LET d == Decrypt(s, m, fresh)
    IN  /\ InCache(s, m) =>
             /\ d.outcome = "read"
             /\ \E i \in DOMAIN s.skipped :
                  /\ s.skipped[i].dh = m.dh /\ s.skipped[i].n = m.n
                  /\ d.state = [s EXCEPT !.skipped = SubSeq(s.skipped, 1, i - 1)
                                          \o SubSeq(s.skipped, i + 1, Len(s.skipped))]
        /\ ~InCache(s, m) /\ m.dh.k = s.dhRemote.k /\ m.n < s.recvCount => d.outcome = "replay"
        /\ ~InCache(s, m) /\ m.dh.k = s.dhRemote.k /\ m.n >= s.recvCount =>
             /\ m.dh = s.dhRemote /\ d.outcome \in {"skip", "read"}
             /\ d.outcome = "read" =>
                  d.state = [SkipMessageKeys(s, m.n) EXCEPT !.recvCount = m.n + 1]
        /\ ~InCache(s, m) /\ m.dh.k = s.dhRemote.k + 1 =>
             /\ d.outcome \in {"skip", "read"}
             /\ d.outcome = "read" =>
                  d.state = [SkipMessageKeys(AfterStep(s, m, fresh), m.n)
                                 EXCEPT !.recvCount = m.n + 1]
        /\ ~InCache(s, m) /\ m.dh.k < s.dhRemote.k => d.outcome \in {"skip", "garbled"}

LEMMA Decrypts ==
    ASSUME Setting, NEW p \in Parties, NEW s, Shape(p, s), NEW m \in SealedBy(Peer(p)),
           NEW fresh \in AllKeys, m.dh.k <= s.dhRemote.k + 1
    PROVE  Cases(p, s, m, fresh)
<1> DEFINE d == Decrypt(s, m, fresh)
           k == s.dhSend.k
<1>1. /\ Peer(p) \in Parties
      /\ m.dh \in KeysOf(Peer(p)) /\ m.n \in Nat /\ m.pn \in Nat /\ m.key = MessageKey(ChainOf(m.dh), m.n)
      /\ m.dh \in AllKeys
  BY Both, SealedAre
<1>2. /\ s \in State /\ s.recvCount \in Nat /\ s.dhRemote.k \in Nat /\ m.dh.k \in Nat
      /\ m.dh.k = s.dhRemote.k => m.dh = s.dhRemote
      /\ m.dh.k <= s.dhRemote.k => Len(s.root) + 1 # Len(ChainOf(m.dh))
      /\ ChainOf(m.dh) # NoChain
  BY <1>1, ShapeAre
<1>3. InCache(s, m) <=> Cached(s, m) # {}
  BY DEF InCache, Cached
<1>4. ASSUME InCache(s, m)
      PROVE  /\ d.outcome = "read"
             /\ \E i \in DOMAIN s.skipped :
                  /\ s.skipped[i].dh = m.dh /\ s.skipped[i].n = m.n
                  /\ d.state = [s EXCEPT !.skipped = SubSeq(s.skipped, 1, i - 1)
                                                 \o SubSeq(s.skipped, i + 1, Len(s.skipped))]
  <2> DEFINE i == CHOOSE j \in Cached(s, m) : TRUE
  <2>1. i \in Cached(s, m)
    BY <1>3, <1>4
  <2>2. d = [outcome |-> IF s.skipped[i].key = m.key THEN "read" ELSE "garbled",
             state |-> [s EXCEPT !.skipped = SubSeq(s.skipped, 1, i - 1)
                                         \o SubSeq(s.skipped, i + 1, Len(s.skipped))]]
    BY <1>3, <1>4 DEF Decrypt
  <2> HIDE DEF i, d
  <2>3. i \in DOMAIN s.skipped /\ s.skipped[i].dh = m.dh /\ s.skipped[i].n = m.n
    BY <2>1 DEF Cached
  <2>4. s.skipped[i].key = m.key
    <3>1. s.skipped[i] \in Entries(p)
      BY <2>3 DEF Shape
    <3>2. s.skipped[i].key = MessageKey(ChainOf(s.skipped[i].dh), s.skipped[i].n)
      BY <3>1, EntryIs DEF Place
    <3>. QED
      BY <1>1, <2>3, <3>2
  <2>. QED
    BY <2>2, <2>3, <2>4
<1>5. ASSUME ~InCache(s, m), m.dh.k = s.dhRemote.k, m.n < s.recvCount PROVE d.outcome = "replay"
  BY <1>2, <1>3, <1>5 DEF Decrypt
<1>6. ASSUME ~InCache(s, m), m.dh.k = s.dhRemote.k, m.n >= s.recvCount
      PROVE  /\ m.dh = s.dhRemote /\ d.outcome \in {"skip", "read"}
             /\ d.outcome = "read" => d.state = [SkipMessageKeys(s, m.n) EXCEPT !.recvCount = m.n + 1]
  <2>1. m.dh = s.dhRemote /\ ~(m.n < s.recvCount)
    BY <1>1, <1>2, <1>6
  <2>2. d = OpenNext(s, m)
    BY <1>3, <1>6, <2>1 DEF Decrypt
  <2>3. s.chainKeyRecv = ChainOf(m.dh) /\ s.chainKeyRecv # NoChain
    BY <1>2, <2>1 DEF Shape
  <2> HIDE DEF d
  <2>. QED
    BY <1>1, <1>2, <1>6, <2>1, <2>2, <2>3, Opens
<1>7. ASSUME ~InCache(s, m), m.dh.k # s.dhRemote.k
      PROVE  LET s2 == AfterStep(s, m, fresh)
                 o  == OpenNext(s2, m)
             IN  /\ d.outcome = "skip" \/ d = o
                 /\ o.outcome \in {"skip", "read", "garbled"}
                 /\ o.outcome # "skip" =>
                      /\ o.outcome = "read" <=> KdfRoot(s.root, s.dhSend, m.dh) = ChainOf(m.dh)
                      /\ o.state = [SkipMessageKeys(s2, m.n) EXCEPT !.recvCount = m.n + 1]
  <2> DEFINE s1 == SkipMessageKeys(s, m.pn)
             s2 == AfterStep(s, m, fresh)
  <2>1. m.dh # s.dhRemote
    BY <1>7
  <2>2. d = IF TooMany(s, m.pn) THEN [outcome |-> "skip", state |-> s] ELSE OpenNext(s2, m)
    BY <1>3, <1>7, <2>1 DEF Decrypt, AfterStep
  <2>3. s1 \in State /\ s1.root = s.root /\ s1.dhSend = s.dhSend
    <3>1. Skips(p, s, m.pn)
      BY <1>1, SkipKeeps
    <3>. QED
      BY <3>1 DEF Skips, Shape
  <2> HIDE DEF s1
  <2>4. s2 = DhRatchetStep(s1, m.dh, fresh)
    BY DEF AfterStep, s1
  <2> HIDE DEF s2
  <2>5. KdfRoot(s.root, s.dhSend, m.dh) \in Chains /\ KdfRoot(s.root, s.dhSend, m.dh) # NoChain
        /\ KdfRoot(KdfRoot(s.root, s.dhSend, m.dh), fresh, m.dh) \in Chains
    BY <1>1, <1>2, Derived DEF State
  <2>6. s2 \in State /\ s2.chainKeyRecv = KdfRoot(s.root, s.dhSend, m.dh) /\ s2.recvCount = 0
    BY <1>1, <2>3, <2>4, <2>5 DEF DhRatchetStep, State
  <2>7. LET o == OpenNext(s2, m)
        IN  /\ o.outcome \in {"skip", "read", "garbled"}
            /\ o.outcome # "skip" =>
                 /\ o.outcome = "read" <=> MessageKey(s2.chainKeyRecv, m.n) = m.key
                 /\ o.state = [SkipMessageKeys(s2, m.n) EXCEPT !.recvCount = m.n + 1]
    BY <1>1, <2>5, <2>6, Opens
  <2>8. MessageKey(s2.chainKeyRecv, m.n) = m.key <=> KdfRoot(s.root, s.dhSend, m.dh) = ChainOf(m.dh)
    BY <1>1, <2>6 DEF MessageKey
  <2> HIDE DEF d
  <2>. QED
    BY <2>2, <2>7, <2>8 DEF s2
<1>8. ASSUME m.dh.k = s.dhRemote.k + 1 PROVE KdfRoot(s.root, s.dhSend, m.dh) = ChainOf(m.dh)
  <2>1. k \in Nat \ {0} /\ s.dhSend = Key(p, k) /\ s.dhRemote = Remote(p, k) /\ s.root = ChainOf(s.dhSend)
    BY DEF Shape
  <2>2. m.dh = Key(Peer(p), Remote(p, k).k + 1)
    BY <1>1, <1>8, <2>1 DEF KeysOf, Key
  <2>. QED
    BY <2>1, <2>2, NextChain
<1>9. ASSUME m.dh.k < s.dhRemote.k PROVE KdfRoot(s.root, s.dhSend, m.dh) # ChainOf(m.dh)
  <2>1. Len(KdfRoot(s.root, s.dhSend, m.dh)) = Len(s.root) + 1
    BY <1>1, <1>2, Derived DEF State
  <2>. QED
    BY <1>2, <1>9, <2>1
<1> HIDE DEF d
<1>10. ASSUME ~InCache(s, m), m.dh.k = s.dhRemote.k + 1
       PROVE  /\ d.outcome \in {"skip", "read"}
              /\ d.outcome = "read" =>
                   d.state = [SkipMessageKeys(AfterStep(s, m, fresh), m.n) EXCEPT !.recvCount = m.n + 1]
  <2>1. m.dh.k # s.dhRemote.k
    BY <1>2, <1>10
  <2>. QED
    BY <1>7, <1>8, <1>10, <2>1
<1>11. ASSUME ~InCache(s, m), m.dh.k < s.dhRemote.k PROVE d.outcome \in {"skip", "garbled"}
  <2>1. m.dh.k # s.dhRemote.k
    BY <1>2, <1>11
  <2>. QED
    BY <1>7, <1>9, <1>11, <2>1
<1>. QED
  BY <1>4, <1>5, <1>6, <1>10, <1>11 DEF d, Cases

\* dhRatchetStep: the cache stays, and the party is on the peer's next chain.
LEMMA StepKeeps ==
    ASSUME Setting, NEW p \in Parties, NEW s, Shape(p, s),
           NEW theirs \in KeysOf(Peer(p)), theirs.k = s.dhRemote.k + 1
    PROVE  LET fresh == Key(p, s.dhSend.k + 1)
               t     == DhRatchetStep(s, theirs, fresh)
           IN  /\ Shape(p, t) /\ t.evicted = s.evicted /\ t.dhSend = fresh /\ t.dhRemote = theirs
               /\ t.sendCount = 0 /\ t.prevSendCount = s.sendCount /\ t.recvCount = 0
               /\ \A m : Place(p, m) /\ (m.dh.k = s.dhRemote.k => m.n < s.recvCount) => Keeps(s, t, m)
<1> DEFINE k     == s.dhSend.k
           fresh == Key(p, k + 1)
           root1 == KdfRoot(s.root, s.dhSend, theirs)
           root2 == KdfRoot(root1, fresh, theirs)
           t     == DhRatchetStep(s, theirs, fresh)
<1>1. /\ s \in State /\ k \in Nat \ {0} /\ s.dhSend = Key(p, k) /\ s.dhRemote = Remote(p, k)
      /\ s.root = ChainOf(s.dhSend) /\ s.recvCount \in Nat /\ s.dhRemote.k \in Nat
  BY ShapeAre DEF Shape
<1>2. theirs = Key(Peer(p), Remote(p, k).k + 1)
  BY <1>1 DEF KeysOf, Key
<1>3. theirs = Remote(p, k + 1) /\ root1 = ChainOf(theirs) /\ root2 = ChainOf(fresh)
  BY <1>1, <1>2, NextChain
<1>4. k + 1 \in Nat \ {0}
  BY <1>1
<1>5. /\ root1 \in Chains /\ root2 \in Chains /\ fresh \in AllKeys /\ theirs \in AllKeys
      /\ fresh.k = k + 1
  <2>1. ChainOf(fresh) \in Chains /\ fresh \in AllKeys /\ ChainOf(theirs) \in Chains /\ theirs \in AllKeys
    BY <1>3, <1>4, ChainsAre
  <2>2. fresh.k = k + 1
    BY DEF Key
  <2>. QED
    BY <1>3, <2>1, <2>2
<1>6. t = [s EXCEPT !.prevSendCount = s.sendCount, !.sendCount = 0, !.recvCount = 0,
                    !.dhRemote = theirs, !.chainKeyRecv = root1,
                    !.dhSend = fresh, !.root = root2, !.chainKeySend = root2]
  BY DEF DhRatchetStep
<1> HIDE DEF root1, root2, fresh, t, k
<1>7. /\ t \in State /\ t.evicted = s.evicted /\ t.skipped = s.skipped /\ t.dhSend = fresh
      /\ t.dhRemote = theirs /\ t.sendCount = 0 /\ t.prevSendCount = s.sendCount /\ t.recvCount = 0
      /\ t.root = root2 /\ t.chainKeySend = root2 /\ t.chainKeyRecv = root1
  BY <1>1, <1>5, <1>6 DEF State
<1>8. ASSUME NEW m, m.dh.k \in Nat, m.n \in Nat, Passed(s, m) PROVE Passed(t, m)
  BY <1>1, <1>7, <1>8 DEF Passed
<1>9. \A j \in DOMAIN s.skipped : s.skipped[j] \in Entries(p) /\ Passed(t, s.skipped[j])
  <2> SUFFICES ASSUME NEW j \in DOMAIN s.skipped
               PROVE  s.skipped[j] \in Entries(p) /\ Passed(t, s.skipped[j])
    OBVIOUS
  <2>1. s.skipped[j] \in Entries(p) /\ Passed(s, s.skipped[j])
    BY DEF Shape
  <2>2. s.skipped[j].dh \in KeysOf(Peer(p)) /\ s.skipped[j].n \in Nat
    BY <2>1, EntryIs DEF Place
  <2>3. s.skipped[j].dh.k \in Nat
    BY <2>2, ShapeAre
  <2>. QED
    BY <1>8, <2>1, <2>2, <2>3
<1>10. Shape(p, t)
  <2>1. t.dhSend.k = k + 1 /\ t.dhSend = Key(p, t.dhSend.k) /\ t.dhRemote = Remote(p, t.dhSend.k)
    BY <1>3, <1>5, <1>7 DEF fresh
  <2>2. \A j, l \in DOMAIN t.skipped : t.skipped[j] = t.skipped[l] => j = l
    BY <1>7 DEF Shape
  <2>. QED
    BY <1>3, <1>4, <1>7, <1>9, <2>1, <2>2 DEF Shape
<1>11. ASSUME NEW m, Place(p, m), m.dh.k = s.dhRemote.k => m.n < s.recvCount PROVE Keeps(s, t, m)
  <2>1. m.dh \in KeysOf(Peer(p)) /\ m.n \in Nat
    BY <1>11 DEF Place
  <2>2. m.dh.k \in Nat
    BY <2>1, ShapeAre
  <2>3. Passed(s, m) => Passed(t, m)
    BY <1>8, <2>1, <2>2
  <2>4. Passed(t, m) => Passed(s, m)
    BY <1>1, <1>7, <1>11, <2>1, <2>2 DEF Passed
  <2>5. InCache(t, m) <=> InCache(s, m)
    BY <1>7 DEF InCache
  <2>. QED
    BY <2>3, <2>4, <2>5 DEF Keeps
<1>. QED
  BY <1>7, <1>10, <1>11 DEF t, fresh, k

\* The key of the message itself was not used before, and is used now.
Reads(p, s, t, m) ==
    /\ Passed(t, m) /\ ~InCache(t, m) /\ (~Passed(s, m) \/ InCache(s, m))
    /\ \A o : Place(p, o) /\ ~(o.dh = m.dh /\ o.n = m.n) => Keeps(s, t, o)

\* The message is the next of the chain.
LEMMA AdvanceKeeps ==
    ASSUME Setting, NEW p \in Parties, NEW s, Shape(p, s), NEW m \in SealedBy(Peer(p)),
           m.dh = s.dhRemote, m.n = s.recvCount
    PROVE  LET t == [s EXCEPT !.recvCount = m.n + 1]
           IN  /\ Shape(p, t) /\ t.evicted = s.evicted /\ t.dhSend = s.dhSend /\ t.dhRemote = s.dhRemote
               /\ t.sendCount = s.sendCount /\ t.prevSendCount = s.prevSendCount
               /\ t.recvCount = m.n + 1 /\ Reads(p, s, t, m)
<1> DEFINE t == [s EXCEPT !.recvCount = m.n + 1]
<1>1. /\ s \in State /\ s.recvCount \in Nat /\ s.dhRemote.k \in Nat /\ m.n \in Nat
  BY ShapeAre DEF State
<1>2. /\ t \in State /\ t.evicted = s.evicted /\ t.skipped = s.skipped /\ t.dhSend = s.dhSend
      /\ t.dhRemote = s.dhRemote /\ t.sendCount = s.sendCount /\ t.prevSendCount = s.prevSendCount
      /\ t.recvCount = s.recvCount + 1 /\ t.root = s.root /\ t.chainKeySend = s.chainKeySend
      /\ t.chainKeyRecv = s.chainKeyRecv
  BY <1>1 DEF State
<1> HIDE DEF t
<1>3. ASSUME NEW o, o.n \in Nat PROVE /\ Passed(s, o) => Passed(t, o)
                                      /\ Passed(t, o) => Passed(s, o) \/ (o.dh.k = m.dh.k /\ o.n = m.n)
  BY <1>1, <1>2, <1>3 DEF Passed
<1>4. \A o : InCache(t, o) <=> InCache(s, o)
  BY <1>2 DEF InCache
<1>5. Shape(p, t)
  <2>1. \A j \in DOMAIN s.skipped : s.skipped[j] \in Entries(p) /\ Passed(t, s.skipped[j])
    <3>1. \A j \in DOMAIN s.skipped : s.skipped[j] \in Entries(p) /\ Passed(s, s.skipped[j])
      BY DEF Shape
    <3>2. \A j \in DOMAIN s.skipped : s.skipped[j].n \in Nat
      BY <3>1, EntryIs DEF Place
    <3>. QED
      BY <1>3, <3>1, <3>2
  <2>2. \A j, l \in DOMAIN t.skipped : t.skipped[j] = t.skipped[l] => j = l
    BY <1>2 DEF Shape
  <2>. QED
    BY <1>2, <2>1, <2>2 DEF Shape
<1>6. ~Passed(s, m) /\ Passed(t, m) /\ ~InCache(t, m)
  <2>1. ~Passed(s, m) /\ Passed(t, m)
    BY <1>1, <1>2 DEF Passed
  <2>. QED
    BY <1>4, <2>1, CachedIsPassed
<1>7. ASSUME NEW o, Place(p, o), ~(o.dh = m.dh /\ o.n = m.n) PROVE Keeps(s, t, o)
  <2>1. o.n \in Nat /\ o.dh \in KeysOf(Peer(p))
    BY <1>7 DEF Place
  <2>2. o.dh.k = m.dh.k => o.dh = m.dh
    BY <2>1, ShapeAre
  <2>3. Passed(s, o) <=> Passed(t, o)
    BY <1>3, <1>7, <2>1, <2>2
  <2>. QED
    BY <1>4, <2>3 DEF Keeps
<1>. QED
  BY <1>1, <1>2, <1>5, <1>6, <1>7 DEF t, Reads

\* The message's key is taken from the cache.
Drops(p, s, t, m) ==
    /\ Shape(p, t) /\ t.evicted = s.evicted /\ t.dhSend = s.dhSend /\ t.dhRemote = s.dhRemote
    /\ t.sendCount = s.sendCount /\ t.prevSendCount = s.prevSendCount
    /\ t.recvCount = s.recvCount /\ Reads(p, s, t, m)

LEMMA DropKeeps ==
    ASSUME Setting, NEW p \in Parties, NEW s, Shape(p, s), NEW m \in SealedBy(Peer(p)),
           NEW i \in DOMAIN s.skipped, s.skipped[i].dh = m.dh, s.skipped[i].n = m.n
    PROVE  Drops(p, s, [s EXCEPT !.skipped = SubSeq(s.skipped, 1, i - 1)
                                                \o SubSeq(s.skipped, i + 1, Len(s.skipped))], m)
<1> DEFINE rest == SubSeq(s.skipped, 1, i - 1) \o SubSeq(s.skipped, i + 1, Len(s.skipped))
           t == [s EXCEPT !.skipped = rest]
<1>1. s \in State /\ s.skipped \in Seq(Entry)
  BY ShapeAre
<1>2. /\ rest \in Seq(Entry) /\ Len(rest) = Len(s.skipped) - 1
      /\ \A j \in DOMAIN rest : /\ j < i => j \in DOMAIN s.skipped /\ rest[j] = s.skipped[j]
                                /\ j >= i => j + 1 \in DOMAIN s.skipped /\ rest[j] = s.skipped[j + 1]
      /\ \A j \in DOMAIN s.skipped \ {i} : \E l \in DOMAIN rest : rest[l] = s.skipped[j]
  BY ZenonT(60), <1>1, Dropped
<1>3. DOMAIN rest \subseteq Nat /\ i \in Nat
  <2>1. \A z \in Seq(Entry) : DOMAIN z \subseteq Nat
    OBVIOUS
  <2>. QED
    BY <1>1, <1>2, <2>1
<1> HIDE DEF rest
<1>4. /\ t \in State /\ t.evicted = s.evicted /\ t.skipped = rest /\ t.dhSend = s.dhSend
      /\ t.dhRemote = s.dhRemote /\ t.sendCount = s.sendCount /\ t.prevSendCount = s.prevSendCount
      /\ t.recvCount = s.recvCount /\ t.root = s.root /\ t.chainKeySend = s.chainKeySend
      /\ t.chainKeyRecv = s.chainKeyRecv
  BY <1>1, <1>2 DEF State
<1> HIDE DEF t
<1>5. \A j \in DOMAIN rest : \E l \in DOMAIN s.skipped : l # i /\ rest[j] = s.skipped[l]
  <2> SUFFICES ASSUME NEW j \in DOMAIN rest PROVE \E l \in DOMAIN s.skipped : l # i /\ rest[j] = s.skipped[l]
    OBVIOUS
  <2>1. CASE j < i
    BY <1>2, <1>3, <2>1
  <2>2. CASE j >= i
    <3>1. j + 1 # i
      BY <1>3, <2>2
    <3>. QED
      BY <1>2, <2>2, <3>1
  <2>. QED
    BY <1>3, <2>1, <2>2
<1>6. \A o : Passed(t, o) <=> Passed(s, o)
  BY <1>4 DEF Passed
<1>7. \A j, l \in DOMAIN s.skipped : s.skipped[j] = s.skipped[l] => j = l
  BY DEF Shape
<1>8. Shape(p, t)
  <2>1. \A j \in DOMAIN rest : rest[j] \in Entries(p) /\ Passed(t, rest[j])
    BY <1>5, <1>6 DEF Shape
  <2>2. ASSUME NEW j \in DOMAIN rest, NEW l \in DOMAIN rest, rest[j] = rest[l] PROVE j = l
    <3> DEFINE at(x) == IF x < i THEN x ELSE x + 1
    <3>1. /\ at(j) \in DOMAIN s.skipped /\ rest[j] = s.skipped[at(j)]
          /\ at(l) \in DOMAIN s.skipped /\ rest[l] = s.skipped[at(l)]
      BY <1>2, <1>3
    <3>2. at(j) = at(l)
      BY <1>7, <2>2, <3>1
    <3>. QED
      BY <1>3, <3>2
  <2>. QED
    BY <1>4, <2>1, <2>2 DEF Shape
<1>9. InCache(s, m) /\ Passed(s, m) /\ Passed(t, m)
  BY <1>6, CachedIsPassed DEF InCache
<1>10. \A j, l \in DOMAIN s.skipped :
         s.skipped[j].dh = s.skipped[l].dh /\ s.skipped[j].n = s.skipped[l].n => j = l
  <2>1. \A j \in DOMAIN s.skipped : s.skipped[j] = EntryOf(s.skipped[j].dh, s.skipped[j].n)
    BY EntryIs DEF Shape
  <2>. QED
    BY <1>7, <2>1
<1>11. ~InCache(t, m)
  BY <1>4, <1>5, <1>10 DEF InCache
<1>12. ASSUME NEW o, ~(o.dh = m.dh /\ o.n = m.n) PROVE InCache(t, o) <=> InCache(s, o)
  <2>1. InCache(t, o) => InCache(s, o)
    BY <1>4, <1>5 DEF InCache
  <2>2. ASSUME InCache(s, o) PROVE InCache(t, o)
    <3>1. PICK j \in DOMAIN s.skipped : s.skipped[j].dh = o.dh /\ s.skipped[j].n = o.n
      BY <2>2 DEF InCache
    <3>2. j # i
      BY <1>12, <3>1
    <3>. QED
      BY <1>2, <1>4, <3>1, <3>2 DEF InCache
  <2>. QED
    BY <2>1, <2>2
<1>13. ASSUME NEW o, ~(o.dh = m.dh /\ o.n = m.n) PROVE Keeps(s, t, o)
  BY <1>6, <1>12, <1>13 DEF Keeps
<1>. QED
  BY <1>4, <1>8, <1>9, <1>11, <1>13 DEF t, rest, Reads, Drops

\* How a state moves on when it has read a message.
Moved(p, s, t, m) ==
    \/ /\ t.dhSend = s.dhSend /\ t.dhRemote = s.dhRemote
       /\ t.sendCount = s.sendCount /\ t.prevSendCount = s.prevSendCount
       /\ t.recvCount = s.recvCount \/ (m.dh = s.dhRemote /\ t.recvCount = m.n + 1)
    \/ /\ m.dh.k = s.dhRemote.k + 1 /\ t.dhSend = Key(p, s.dhSend.k + 1) /\ t.dhRemote = m.dh
       /\ t.sendCount = 0 /\ t.prevSendCount = s.sendCount /\ t.recvCount = m.n + 1

\* ratchetDecrypt, when it returns a text: the message's key was not used before, and of
\* every other key of the peer the state accounts as it did.
LEMMA ReadMoves ==
    ASSUME Setting, NEW p \in Parties, NEW s, Shape(p, s), NEW m \in SealedBy(Peer(p)),
           m.dh.k <= s.dhRemote.k + 1, Decrypt(s, m, Key(p, s.dhSend.k + 1)).outcome = "read"
    PROVE  LET t == Decrypt(s, m, Key(p, s.dhSend.k + 1)).state
           IN  /\ Shape(p, t) /\ s.evicted \subseteq t.evicted /\ Moved(p, s, t, m)
               /\ Passed(t, m) /\ ~InCache(t, m) /\ (~Passed(s, m) \/ InCache(s, m))
               /\ \A o : /\ Place(p, o) /\ ~(o.dh = m.dh /\ o.n = m.n)
                         /\ m.dh.k = s.dhRemote.k + 1 /\ o.dh.k = s.dhRemote.k => o.n < m.pn
                         => Keeps(s, t, o)
<1> DEFINE fresh == Key(p, s.dhSend.k + 1)
           d     == Decrypt(s, m, fresh)
           t     == d.state
           Shown(u) == /\ Shape(p, u) /\ s.evicted \subseteq u.evicted /\ Moved(p, s, u, m)
                       /\ Passed(u, m) /\ ~InCache(u, m) /\ (~Passed(s, m) \/ InCache(s, m))
                       /\ \A o : /\ Place(p, o) /\ ~(o.dh = m.dh /\ o.n = m.n)
                                 /\ m.dh.k = s.dhRemote.k + 1 /\ o.dh.k = s.dhRemote.k => o.n < m.pn
                                 => Keeps(s, u, o)
<1>1. /\ Peer(p) \in Parties /\ m.dh \in KeysOf(Peer(p)) /\ m.n \in Nat /\ m.pn \in Nat
      /\ m.dh.k \in Nat /\ m.key = MessageKey(ChainOf(m.dh), m.n)
  BY Both, SealedAre
<1>2. /\ s \in State /\ s.recvCount \in Nat /\ s.dhRemote.k \in Nat /\ s.dhSend.k \in Nat
      /\ \A dh \in KeysOf(Peer(p)) : dh.k = s.dhRemote.k => dh = s.dhRemote
  BY ShapeAre
<1>3. fresh \in AllKeys
  BY <1>2 DEF AllKeys, Key
<1> HIDE DEF fresh
<1>4. CASE InCache(s, m)
  <2>1. PICK i \in DOMAIN s.skipped :
          /\ s.skipped[i].dh = m.dh /\ s.skipped[i].n = m.n
          /\ t = [s EXCEPT !.skipped = SubSeq(s.skipped, 1, i - 1) \o SubSeq(s.skipped, i + 1, Len(s.skipped))]
    <3>1. Cases(p, s, m, fresh)
      BY <1>3, Decrypts
    <3>. QED
      BY <1>4, <3>1 DEF Cases
  <2> HIDE DEF d
  <2>2. /\ Shape(p, t) /\ t.evicted = s.evicted /\ t.dhSend = s.dhSend /\ t.dhRemote = s.dhRemote
        /\ t.sendCount = s.sendCount /\ t.prevSendCount = s.prevSendCount
        /\ t.recvCount = s.recvCount /\ Reads(p, s, t, m)
    <3>1. Drops(p, s, [s EXCEPT !.skipped = SubSeq(s.skipped, 1, i - 1)
                                                \o SubSeq(s.skipped, i + 1, Len(s.skipped))], m)
      <4>1. s.skipped[i].dh = m.dh /\ s.skipped[i].n = m.n
        BY <2>1
      <4>. QED
        BY <4>1, DropKeeps
    <3>2. Drops(p, s, t, m)
      BY <2>1, <3>1
    <3>. QED
      BY <3>2 DEF Drops
  <2>3. Moved(p, s, t, m)
    BY <2>2 DEF Moved
  <2>4. Shown(t)
    BY <2>2, <2>3 DEF Reads
  <2>. QED
    BY <2>4 DEF d, fresh
<1>5. CASE ~InCache(s, m) /\ m.dh.k = s.dhRemote.k
  <2> DEFINE s1 == SkipMessageKeys(s, m.n)
  <2>1. m.n >= s.recvCount
    <3>1. m.n < s.recvCount => d.outcome = "replay"
      <4>1. Cases(p, s, m, fresh)
        BY <1>3, Decrypts
      <4>. QED
        BY <1>5, <4>1 DEF Cases
    <3>. QED
      BY <1>1, <1>2, <3>1 DEF fresh
  <2>2. m.dh = s.dhRemote /\ t = [s1 EXCEPT !.recvCount = m.n + 1]
    <3>1. d.outcome = "read"
      BY DEF fresh
    <3>2. Cases(p, s, m, fresh)
      BY <1>3, Decrypts
    <3>. QED
      BY <1>5, <2>1, <3>1, <3>2 DEF Cases
  <2> HIDE DEF d
  <2>3. /\ Shape(p, s1) /\ s.evicted \subseteq s1.evicted
        /\ s1.dhSend = s.dhSend /\ s1.dhRemote = s.dhRemote
        /\ s1.sendCount = s.sendCount /\ s1.prevSendCount = s.prevSendCount
        /\ s.dhRemote \in KeysOf(Peer(p)) =>
             s1.recvCount = IF s.recvCount >= m.n THEN s.recvCount ELSE m.n
        /\ \A o : Place(p, o) => Keeps(s, s1, o)
    <3>1. Skips(p, s, m.n)
      BY <1>1, SkipKeeps
    <3>. QED
      BY <3>1 DEF Skips
  <2> HIDE DEF s1
  <2>4. s1.recvCount = m.n /\ m.dh = s1.dhRemote
    BY <1>1, <1>2, <2>1, <2>2, <2>3
  <2>5. /\ Shape(p, t) /\ t.evicted = s1.evicted /\ t.dhSend = s1.dhSend /\ t.dhRemote = s1.dhRemote
        /\ t.sendCount = s1.sendCount /\ t.prevSendCount = s1.prevSendCount
        /\ t.recvCount = m.n + 1 /\ Reads(p, s1, t, m)
    BY <2>2, <2>3, <2>4, AdvanceKeeps
  <2>6. Moved(p, s, t, m)
    BY <2>2, <2>3, <2>5 DEF Moved
  <2>7. ~Passed(s, m)
    BY <1>1, <1>2, <1>5, <2>1 DEF Passed
  <2>8. ASSUME NEW o, Place(p, o), ~(o.dh = m.dh /\ o.n = m.n) PROVE Keeps(s, t, o)
    <3>1. Keeps(s, s1, o) /\ Keeps(s1, t, o)
      BY <2>3, <2>5, <2>8 DEF Reads
    <3>. QED
      BY <2>5, <3>1, KeepsBoth
  <2>9. Shown(t)
    BY <2>3, <2>5, <2>6, <2>7, <2>8 DEF Reads
  <2>. QED
    BY <2>9 DEF d, fresh
<1>6. CASE ~InCache(s, m) /\ m.dh.k = s.dhRemote.k + 1
  <2> DEFINE s1 == SkipMessageKeys(s, m.pn)
             s2 == AfterStep(s, m, fresh)
             s3 == SkipMessageKeys(s2, m.n)
  <2>1. t = [s3 EXCEPT !.recvCount = m.n + 1]
    <3>1. d.outcome = "read"
      BY DEF fresh
    <3>2. Cases(p, s, m, fresh)
      BY <1>3, Decrypts
    <3>. QED
      BY <1>6, <3>1, <3>2 DEF Cases
  <2> HIDE DEF d
  <2>2. /\ Shape(p, s1) /\ s.evicted \subseteq s1.evicted
        /\ s1.dhSend = s.dhSend /\ s1.dhRemote = s.dhRemote
        /\ s1.sendCount = s.sendCount /\ s1.prevSendCount = s.prevSendCount
        /\ s.dhRemote \in KeysOf(Peer(p)) =>
             s1.recvCount = IF s.recvCount >= m.pn THEN s.recvCount ELSE m.pn
        /\ \A o : Place(p, o) => Keeps(s, s1, o)
    <3>1. Skips(p, s, m.pn)
      BY <1>1, SkipKeeps
    <3>. QED
      BY <3>1 DEF Skips
  <2>3. s2 = DhRatchetStep(s1, m.dh, Key(p, s1.dhSend.k + 1))
    BY <2>2 DEF AfterStep, fresh
  <2> HIDE DEF s1, s2
  <2>4. /\ Shape(p, s2) /\ s2.evicted = s1.evicted /\ s2.dhSend = fresh /\ s2.dhRemote = m.dh
        /\ s2.sendCount = 0 /\ s2.prevSendCount = s1.sendCount /\ s2.recvCount = 0
        /\ \A o : Place(p, o) /\ (o.dh.k = s1.dhRemote.k => o.n < s1.recvCount) => Keeps(s1, s2, o)
    <3>1. m.dh.k = s1.dhRemote.k + 1
      BY <1>6, <2>2
    <3>. QED
      BY <1>1, <2>2, <2>3, <3>1, StepKeeps DEF fresh
  <2>5. /\ Shape(p, s3) /\ s2.evicted \subseteq s3.evicted
        /\ s3.dhSend = s2.dhSend /\ s3.dhRemote = s2.dhRemote
        /\ s3.sendCount = s2.sendCount /\ s3.prevSendCount = s2.prevSendCount
        /\ s2.dhRemote \in KeysOf(Peer(p)) =>
             s3.recvCount = IF s2.recvCount >= m.n THEN s2.recvCount ELSE m.n
        /\ \A o : Place(p, o) => Keeps(s2, s3, o)
    <3>1. Skips(p, s2, m.n)
      BY <1>1, <2>4, SkipKeeps
    <3>. QED
      BY <3>1 DEF Skips
  <2> HIDE DEF s3
  <2>6. s3.recvCount = m.n /\ m.dh = s3.dhRemote
    BY <1>1, <2>4, <2>5
  <2>7. /\ Shape(p, t) /\ t.evicted = s3.evicted /\ t.dhSend = s3.dhSend /\ t.dhRemote = s3.dhRemote
        /\ t.sendCount = s3.sendCount /\ t.prevSendCount = s3.prevSendCount
        /\ t.recvCount = m.n + 1 /\ Reads(p, s3, t, m)
    BY <2>1, <2>5, <2>6, AdvanceKeeps
  <2>8. Moved(p, s, t, m)
    BY <1>6, <2>2, <2>4, <2>5, <2>6, <2>7 DEF Moved, fresh
  <2>9. ~Passed(s, m)
    BY <1>1, <1>2, <1>6 DEF Passed
  <2>10. ASSUME NEW o, Place(p, o), ~(o.dh = m.dh /\ o.n = m.n), o.dh.k = s.dhRemote.k => o.n < m.pn
         PROVE  Keeps(s, t, o)
    <3>1. Keeps(s, s1, o) /\ Keeps(s2, s3, o) /\ Keeps(s3, t, o)
      BY <2>2, <2>5, <2>7, <2>10 DEF Reads
    <3>2. Keeps(s1, s2, o)
      <4>1. ASSUME o.dh.k = s1.dhRemote.k PROVE o.n < s1.recvCount
        <5>1. o.n < m.pn /\ o.n \in Nat /\ o.dh = s.dhRemote /\ o.dh \in KeysOf(Peer(p))
          BY <1>2, <2>2, <2>10, <4>1 DEF Place
        <5>. QED
          BY <1>1, <1>2, <2>2, <5>1
      <4>. QED
        BY <2>4, <2>10, <4>1
    <3>3. Keeps(s, s2, o)
      BY <2>4, <3>1, <3>2, KeepsBoth
    <3>4. Keeps(s, s3, o)
      BY <2>5, <3>1, <3>3, KeepsBoth
    <3>. QED
      BY <2>7, <3>1, <3>4, KeepsBoth
  <2>11. s.evicted \subseteq t.evicted
    BY <2>2, <2>4, <2>5, <2>7
  <2>12. Shown(t)
    BY <1>6, <2>7, <2>8, <2>9, <2>10, <2>11 DEF Reads
  <2>. QED
    BY <2>12 DEF d, fresh
<1>7. CASE ~InCache(s, m) /\ m.dh.k < s.dhRemote.k
  <2>1. d.outcome \in {"skip", "garbled"}
    <3>1. Cases(p, s, m, fresh)
      BY <1>3, Decrypts
    <3>. QED
      BY <1>7, <3>1 DEF Cases
  <2>. QED
    BY <2>1 DEF fresh
<1>8. \/ InCache(s, m)
      \/ ~InCache(s, m) /\ m.dh.k = s.dhRemote.k
      \/ ~InCache(s, m) /\ m.dh.k = s.dhRemote.k + 1
      \/ ~InCache(s, m) /\ m.dh.k < s.dhRemote.k
  BY <1>1, <1>2
<1>. QED
  BY <1>4, <1>5, <1>6, <1>7, <1>8

\* ratchetDecrypt, when it returns no text: it was past the message and has no key for it.
LEMMA NotRead ==
    ASSUME Setting, NEW p \in Parties, NEW s, Shape(p, s), NEW m \in SealedBy(Peer(p)),
           NEW fresh \in AllKeys, m.dh.k <= s.dhRemote.k + 1
    PROVE  LET outcomeOf == Decrypt(s, m, fresh).outcome
           IN  /\ outcomeOf \in Outcomes /\ outcomeOf # "none"
               /\ outcomeOf \in {"replay", "garbled"} => Passed(s, m) /\ ~InCache(s, m)
<1>1. m.dh.k \in Nat /\ m.n \in Nat /\ s.dhRemote.k \in Nat /\ s.recvCount \in Nat
  BY Both, SealedAre, ShapeAre
<1>2. \/ InCache(s, m)
      \/ ~InCache(s, m) /\ m.dh.k = s.dhRemote.k /\ m.n < s.recvCount
      \/ ~InCache(s, m) /\ m.dh.k = s.dhRemote.k /\ m.n >= s.recvCount
      \/ ~InCache(s, m) /\ m.dh.k = s.dhRemote.k + 1
      \/ ~InCache(s, m) /\ m.dh.k < s.dhRemote.k
  BY <1>1
<1> DEFINE d == Decrypt(s, m, fresh)
<1>3. /\ InCache(s, m) => d.outcome = "read"
      /\ ~InCache(s, m) /\ m.dh.k = s.dhRemote.k /\ m.n < s.recvCount => d.outcome = "replay"
      /\ ~InCache(s, m) /\ m.dh.k = s.dhRemote.k /\ m.n >= s.recvCount => d.outcome \in {"skip", "read"}
      /\ ~InCache(s, m) /\ m.dh.k = s.dhRemote.k + 1 => d.outcome \in {"skip", "read"}
      /\ ~InCache(s, m) /\ m.dh.k < s.dhRemote.k => d.outcome \in {"skip", "garbled"}
  <2>1. Cases(p, s, m, fresh)
    BY Decrypts
  <2>. QED
    BY <2>1 DEF Cases
<1> HIDE DEF d
<1>4. /\ d.outcome \in Outcomes /\ d.outcome # "none"
      /\ d.outcome \in {"replay", "garbled"} => Passed(s, m) /\ ~InCache(s, m)
  BY <1>2, <1>3 DEF Passed, Outcomes
<1>. QED
  BY <1>4 DEF d

-------------------------------------------------------------------------------
(* The steps of the two clients.                                           *)

Ordered == StoresSound /\ LettersOK /\ InStep /\ Delivered /\ OpsSound

LEMMA RatchetInit == Setting /\ Init => RInv
<1> SUFFICES ASSUME Setting, Init PROVE raced = FALSE /\ Ordered
  BY DEF RInv, Ordered
<1>1. /\ store = [p \in Parties |-> IF p = Initiator THEN InitSender ELSE InitReceiver]
      /\ generated = [p \in Parties |-> 1] /\ op = [p \in Parties |-> [s \in Slots |-> NoOp]]
      /\ sent = <<>> /\ outcome = <<>> /\ reads = <<>> /\ raced = FALSE
  BY DEF Init
<1>2. /\ Initiator \in Parties /\ Responder \in Parties /\ Initiator # Responder
      /\ \A p \in Parties : p # Initiator => p = Responder
  BY DEF Setting, Parties
<1>3. 1 \in Nat \ {0}
  OBVIOUS
<1>4. ChainOf(Key(Responder, 1)) = <<>> /\ ChainOf(NoKey) = <<>>
  <2>1. 2 * 1 - 2 = 0 /\ 2 * 0 - 2 = -2
    OBVIOUS
  <2>. QED
    BY <1>2, <2>1, LadderEmpty DEF ChainOf, Rungs, Key, NoKey
<1>5. KdfRoot(<<>>, Key(Initiator, 1), Key(Responder, 1)) = ChainOf(Key(Initiator, 1))
  <2>1. KdfRoot(<<>>, Key(Responder, 1), Key(Initiator, 1)) = ChainOf(Key(Initiator, 1))
    BY <1>2, <1>4, ResponderUp
  <2>2. {Key(Initiator, 1), Key(Responder, 1)} = {Key(Responder, 1), Key(Initiator, 1)}
    OBVIOUS
  <2>. QED
    BY <2>1, <2>2 DEF KdfRoot
<1>6. /\ ChainOf(Key(Initiator, 1)) \in Chains /\ Key(Initiator, 1) \in AllKeys
      /\ Key(Responder, 1) \in AllKeys /\ NoKey \in AllKeys /\ <<>> \in Chains
      /\ Key(Initiator, 1).k = 1 /\ Key(Responder, 1).k = 1
  <2>1. NoKey \in AllKeys /\ Key(Initiator, 1).k = 1 /\ Key(Responder, 1).k = 1
    BY <1>2 DEF NoKey, AllKeys, Key
  <2>. QED
    BY <1>2, <1>3, <2>1, ChainsAre, NoChainTyped DEF NoChain
<1>7. <<>> \in Seq(Entry)
  OBVIOUS
<1>8. DOMAIN InitSender.skipped = {} /\ DOMAIN InitReceiver.skipped = {}
  BY DEF InitSender, InitReceiver
<1>9. Shape(Initiator, InitSender) /\ InitSender \in State
  <2>1. InitSender \in State
    BY <1>5, <1>6, <1>7 DEF InitSender, State, NoChain
  <2>2. Remote(Initiator, 1) = Key(Responder, 1)
    BY DEF Remote
  <2>3. /\ InitSender.dhSend = Key(Initiator, 1) /\ InitSender.dhRemote = Key(Responder, 1)
        /\ InitSender.root = ChainOf(Key(Initiator, 1)) /\ InitSender.chainKeySend = InitSender.root
        /\ InitSender.chainKeyRecv = ChainOf(Key(Responder, 1))
    BY <1>4, <1>5 DEF InitSender, NoChain
  <2> HIDE DEF Parties
  <2>. QED
    BY <1>3, <1>6, <1>8, <2>1, <2>2, <2>3 DEF Shape
<1>10. Shape(Responder, InitReceiver) /\ InitReceiver \in State
  <2>1. InitReceiver \in State
    BY <1>6, <1>7 DEF InitReceiver, State, NoChain
  <2>2. Remote(Responder, 1) = NoKey
    BY <1>2 DEF Remote
  <2>3. /\ InitReceiver.dhSend = Key(Responder, 1) /\ InitReceiver.dhRemote = NoKey
        /\ InitReceiver.root = ChainOf(Key(Responder, 1)) /\ InitReceiver.chainKeySend = InitReceiver.root
        /\ InitReceiver.chainKeyRecv = ChainOf(NoKey)
    BY <1>4 DEF InitReceiver, NoChain
  <2>. QED
    BY <1>3, <1>6, <1>8, <2>1, <2>2, <2>3 DEF Shape
<1>11. /\ store[Initiator] = InitSender /\ store[Responder] = InitReceiver
       /\ \A p \in Parties : Shape(p, store[p]) /\ K(p) = 1 /\ store[p] \in State
       /\ store \in [Parties -> State]
  <2>1. store[Initiator] = InitSender /\ store[Responder] = InitReceiver
    BY <1>1, <1>2
  <2>2. InitSender.dhSend.k = 1 /\ InitReceiver.dhSend.k = 1
    BY <1>6 DEF InitSender, InitReceiver
  <2>3. \A p \in Parties : Shape(p, store[p]) /\ K(p) = 1 /\ store[p] \in State
    BY <1>2, <1>9, <1>10, <2>1, <2>2 DEF K
  <2>. QED
    BY <1>1, <2>1, <2>3
<1>12. StoresSound
  BY <1>1, <1>11 DEF StoresSound
<1>13. LettersOK
  BY <1>1 DEF LettersOK
<1>14. InStep
  <2>1. InitSender.recvCount = 0 /\ InitSender.sendCount = 0 /\ InitReceiver.recvCount = 0
        /\ InitReceiver.sendCount = 0
    BY DEF InitSender, InitReceiver
  <2>2. \A p \in Parties : store[p].recvCount = 0 /\ store[p].sendCount = 0
    BY <1>2, <1>11, <2>1
  <2>. QED
    BY <1>2, <1>11, <2>2, Both DEF InStep
<1>15. Delivered
  BY <1>1 DEF Delivered
<1>16. OpsSound
  <2>1. NoOp \in Op /\ NoOp.kind = "none"
    BY <1>10 DEF NoOp, Op
  <2>. QED
    BY <1>1, <2>1 DEF OpsSound, OpOK
<1>. QED
  BY <1>1, <1>12, <1>13, <1>14, <1>15, <1>16 DEF Ordered

LEMMA LetterIs == Ordered => \A i \in DOMAIN sent : sent[i] \in Letter /\ sent[i].from \in Parties
<1> SUFFICES ASSUME Ordered, NEW i \in DOMAIN sent PROVE sent[i] \in Letter /\ sent[i].from \in Parties
  OBVIOUS
<1>1. sent[i] \in Letter
  BY DEF Ordered, LettersOK
<1>. QED
  BY <1>1 DEF Letter

\* What the invariant says of a message of the peer.
LEMMA LettersAre ==
    ASSUME Setting, Ordered, NEW p \in Parties, NEW i \in DOMAIN sent, sent[i].from = Peer(p)
    PROVE  /\ sent[i].sealed \in SealedBy(Peer(p)) /\ Place(p, sent[i].sealed)
           /\ sent[i].sealed.dh.k <= store[p].dhRemote.k + 1
           /\ sent[i].sealed.key \in MessageKeys
<1>1. Peer(p) \in Parties /\ sent[i].sealed \in SealedBy(Peer(p)) /\ sent[i].sealed.dh.k <= K(Peer(p))
  BY Both DEF Ordered, LettersOK
<1>2. /\ sent[i].sealed.dh \in KeysOf(Peer(p)) /\ sent[i].sealed.n \in Nat
      /\ sent[i].sealed.key = MessageKey(ChainOf(sent[i].sealed.dh), sent[i].sealed.n)
      /\ sent[i].sealed.dh.k \in Nat
  BY <1>1, SealedAre
<1>3. K(Peer(p)) <= store[p].dhRemote.k + 1
  <2>1. \A q \in Parties : /\ store[q].dhRemote.k = IF q = Initiator THEN K(q) ELSE K(q) - 1
                           /\ K(q) \in Nat \ {0}
    BY ShapeAre DEF Ordered, StoresSound, K
  <2>. QED
    BY <2>1 DEF Ordered, InStep, Parties, Peer, Setting
<1>4. sent[i].sealed.dh.k <= store[p].dhRemote.k + 1
  <2>1. K(Peer(p)) \in Nat /\ store[p].dhRemote.k \in Nat
    BY <1>1, ShapeAre DEF Ordered, StoresSound, K
  <2>. QED
    BY <1>1, <1>2, <1>3, <2>1
<1>5. sent[i].sealed.key \in MessageKeys
  <2>1. ChainOf(sent[i].sealed.dh) \in Chains
    BY <1>2, <1>3, ChainsAre
  <2>. QED
    BY <1>2, <2>1 DEF MessageKey, MessageKeys
<1>. QED
  BY <1>1, <1>2, <1>4, <1>5 DEF Place

\* Reading the store for an operation.
LEMMA GetKeeps ==
    ASSUME Setting, Ordered, NEW p \in Parties, NEW slot \in Slots, NEW o \in Op, OpOK(p, o),
           op' = [op EXCEPT ![p][slot] = o],
           UNCHANGED <<store, generated, sent, outcome, reads>>
    PROVE  Ordered'
<1>1. StoresSound' /\ LettersOK' /\ InStep' /\ Delivered'
  BY SMTT(30) DEF Ordered, StoresSound, LettersOK, InStep, Delivered, K
<1>2. \A q, a : OpOK(q, a)' <=> OpOK(q, a)
  BY DEF OpOK
<1>3. OpsSound'
  <2>1. op \in [Parties -> [Slots -> Op]] /\ \A q \in Parties, l \in Slots : OpOK(q, op[q][l])
    BY DEF Ordered, OpsSound
  <2>2. /\ op' \in [Parties -> [Slots -> Op]]
        /\ \A q \in Parties, l \in Slots : op'[q][l] = o \/ op'[q][l] = op[q][l]
        /\ \A q \in Parties, l \in Slots : op'[q][l] # op[q][l] => q = p
    BY <2>1
  <2>3. \A q \in Parties, l \in Slots : OpOK(q, op'[q][l])
    BY <2>1, <2>2
  <2>. QED
    BY <1>2, <2>2, <2>3 DEF OpsSound
<1>. QED
  BY <1>1, <1>3 DEF Ordered

\* An operation that ends: the others' are as they were.
LEMMA EndKeeps ==
    ASSUME Setting, Ordered, NEW p \in Parties, NEW slot \in Slots,
           op' = [op EXCEPT ![p][slot] = NoOp], \A q \in Parties : \A a : OpOK(q, a) => OpOK(q, a)'
    PROVE  OpsSound'
<1>1. op \in [Parties -> [Slots -> Op]] /\ \A q \in Parties, l \in Slots : OpOK(q, op[q][l])
  BY DEF Ordered, OpsSound
<1>2. NoOp \in Op /\ NoOp.kind = "none"
  <2>1. InitReceiver \in State
    <3>1. 1 \in Nat /\ NoKey \in AllKeys /\ Key(Responder, 1) \in AllKeys
      BY DEF NoKey, Key, AllKeys, Parties
    <3>. QED
      BY <3>1, NoChainTyped DEF InitReceiver, State, NoChain
  <2>. QED
    BY <2>1 DEF NoOp, Op
<1>3. /\ op' \in [Parties -> [Slots -> Op]]
      /\ \A q \in Parties, l \in Slots : op'[q][l] = NoOp \/ op'[q][l] = op[q][l]
  BY <1>1, <1>2
<1>4. ASSUME NEW q \in Parties, NEW l \in Slots PROVE OpOK(q, op[q][l])'
  <2>1. PICK a : a = op'[q][l] /\ (a = NoOp \/ a = op[q][l])
    BY <1>3
  <2>2. OpOK(q, a)'
    <3>1. CASE a = NoOp
      BY <1>2, <3>1 DEF OpOK
    <3>2. CASE a = op[q][l]
      <4>1. OpOK(q, a)
        BY <1>1, <3>2
      <4>. QED
        BY <4>1
    <3>. QED
      BY <2>1, <3>1, <3>2
  <2>. QED
    BY <2>1, <2>2 DEF OpOK
<1>. QED
  BY <1>3, <1>4 DEF OpsSound

LEMMA EncryptedAre ==
    ASSUME NEW s \in State
    PROVE  LET t == Encrypted(s)
           IN  /\ t \in State /\ t.dhSend = s.dhSend /\ t.dhRemote = s.dhRemote /\ t.root = s.root
               /\ t.chainKeySend = s.chainKeySend /\ t.chainKeyRecv = s.chainKeyRecv
               /\ t.sendCount = s.sendCount + 1 /\ t.recvCount = s.recvCount
               /\ t.prevSendCount = s.prevSendCount /\ t.skipped = s.skipped /\ t.evicted = s.evicted
<1>1. s.sendCount + 1 \in Nat
  BY DEF State
<1>. QED
  BY <1>1 DEF State, Encrypted

LEMMA PutEncryptedKeeps ==
    ASSUME Setting, Ordered, NEW p \in Parties, NEW slot \in Slots, PutEncrypted(p, slot),
           store[p] = op[p][slot].state
    PROVE  Ordered'
<1> DEFINE s      == store[p]
           t      == Encrypted(s)
           m      == Sealed(s)
           letter == [from |-> p, sealed |-> m]
           n      == Len(sent) + 1
<1>1. /\ op[p][slot].kind = "encrypt" /\ op' = [op EXCEPT ![p][slot] = NoOp]
      /\ store' = [store EXCEPT ![p] = t] /\ sent' = Append(sent, letter)
      /\ outcome' = Append(outcome, "none") /\ reads' = Append(reads, 0) /\ generated' = generated
  BY DEF PutEncrypted, Put
<1>2. /\ store \in [Parties -> State] /\ generated \in [Parties -> Nat]
      /\ \A q \in Parties : Shape(q, store[q]) /\ generated[q] = K(q)
      /\ Shape(p, s) /\ s \in State /\ s.sendCount \in Nat /\ s.prevSendCount \in Nat
      /\ K(p) \in Nat \ {0} /\ s.dhSend = Key(p, K(p)) /\ s.dhSend.k = K(p)
      /\ s.root = ChainOf(s.dhSend) /\ s.chainKeySend = s.root
  BY DEF Ordered, StoresSound, Shape, State, K
<1>3. s.chainKeySend # NoChain
  BY <1>1 DEF Ordered, OpsSound, OpOK
<1>4. s.dhSend \in KeysOf(p)
  <2>1. CASE p = Responder /\ K(p) = 1
    <3>1. 2 * 1 - 2 = 0 /\ Responder # Initiator
      BY DEF Setting
    <3>2. ChainOf(s.dhSend) = Ladder(0)
      BY <1>2, <2>1, <3>1 DEF ChainOf, Rungs, Key
    <3>. QED
      BY <1>2, <1>3, <3>2, LadderEmpty DEF NoChain
  <2>2. CASE ~(p = Responder /\ K(p) = 1)
    BY <1>2, <2>2 DEF KeysOf, Parties
  <2>. QED
    BY <2>1, <2>2
<1>5. /\ m = SealedOf(s.dhSend, s.prevSendCount, s.sendCount) /\ m \in SealedBy(p)
      /\ m.dh = s.dhSend /\ m.dh.k = K(p) /\ m.pn = s.prevSendCount /\ m.n = s.sendCount
  <2>1. m = SealedOf(s.dhSend, s.prevSendCount, s.sendCount)
    BY <1>2 DEF Sealed, SealedOf
  <2>2. m \in SealedBy(p)
    BY <1>2, <1>4, <2>1 DEF SealedBy
  <2>. QED
    BY <1>2, <2>1, <2>2 DEF SealedOf
<1>6. /\ t \in State /\ t.dhSend = s.dhSend /\ t.dhRemote = s.dhRemote /\ t.root = s.root
      /\ t.chainKeySend = s.chainKeySend /\ t.chainKeyRecv = s.chainKeyRecv
      /\ t.sendCount = s.sendCount + 1 /\ t.recvCount = s.recvCount
      /\ t.prevSendCount = s.prevSendCount /\ t.skipped = s.skipped /\ t.evicted = s.evicted
  BY <1>2, EncryptedAre
<1>7. letter \in Letter /\ letter.from = p /\ letter.sealed = m
  BY <1>5 DEF Letter, Parties
<1> HIDE DEF t, m, letter
<1>8. /\ sent \in Seq(Letter) /\ DOMAIN sent = 1..Len(sent) /\ Len(sent) \in Nat
      /\ outcome \in [DOMAIN sent -> Outcomes] /\ reads \in [DOMAIN sent -> {0, 1}]
  BY DEF Ordered, LettersOK, Delivered
<1>9. /\ sent' \in Seq(Letter) /\ DOMAIN sent' = 1..n /\ n \notin DOMAIN sent
      /\ sent'[n] = letter /\ \A i \in DOMAIN sent : sent'[i] = sent[i]
      /\ \A i \in DOMAIN sent' : i \in DOMAIN sent \/ i = n
      /\ \A i \in DOMAIN sent : i \in DOMAIN sent'
  <2>1. sent' \in Seq(Letter) /\ Len(sent') = n
    BY <1>1, <1>7, <1>8
  <2>2. DOMAIN sent' = 1..Len(sent')
    BY <2>1
  <2>3. sent'[n] = letter /\ \A i \in DOMAIN sent : sent'[i] = sent[i]
    BY <1>1, <1>7, <1>8
  <2>4. n \notin DOMAIN sent /\ \A i \in 1..n : i \in DOMAIN sent \/ i = n
    BY <1>8
  <2>5. \A i \in DOMAIN sent : i \in 1..n
    BY <1>8
  <2>. QED
    BY <2>1, <2>2, <2>3, <2>4, <2>5
<1>10. /\ outcome' \in [DOMAIN sent' -> Outcomes] /\ reads' \in [DOMAIN sent' -> {0, 1}]
       /\ outcome'[n] = "none" /\ reads'[n] = 0
       /\ \A i \in DOMAIN sent : outcome'[i] = outcome[i] /\ reads'[i] = reads[i]
  <2>1. outcome \in Seq(Outcomes) /\ Len(outcome) = Len(sent)
    BY <1>8, FunctionIsSeq
  <2>2. reads \in Seq({0, 1}) /\ Len(reads) = Len(sent)
    BY <1>8, FunctionIsSeq
  <2>3. "none" \in Outcomes
    BY DEF Outcomes
  <2>4. /\ outcome' \in Seq(Outcomes) /\ Len(outcome') = n /\ outcome'[n] = "none"
        /\ \A i \in 1..Len(sent) : outcome'[i] = outcome[i]
    BY <1>1, <1>8, <2>1, <2>3
  <2>5. /\ reads' \in Seq({0, 1}) /\ Len(reads') = n /\ reads'[n] = 0
        /\ \A i \in 1..Len(sent) : reads'[i] = reads[i]
    BY <1>1, <1>8, <2>2
  <2>6. outcome' \in [1..n -> Outcomes]
    BY <2>4
  <2>7. reads' \in [1..n -> {0, 1}]
    BY <2>5
  <2>. QED
    BY <1>8, <1>9, <2>4, <2>5, <2>6, <2>7
<1> HIDE DEF n
<1>11. /\ store' \in [Parties -> State] /\ store'[p] = t
       /\ \A q \in Parties : q # p => store'[q] = store[q]
       /\ \A q \in Parties : K(q)' = K(q)
  BY <1>1, <1>2, <1>6 DEF K
<1>12. \A q \in Parties : /\ store'[q].dhRemote = store[q].dhRemote /\ store'[q].recvCount = store[q].recvCount
                          /\ store'[q].skipped = store[q].skipped /\ store'[q].evicted = store[q].evicted
                          /\ store'[q].prevSendCount = store[q].prevSendCount
  BY <1>6, <1>11
<1>13. \A q \in Parties : \A o : /\ Passed(store'[q], o) <=> Passed(store[q], o)
                                 /\ InCache(store'[q], o) <=> InCache(store[q], o)
  BY <1>12 DEF Passed, InCache
<1>14. StoresSound'
  <2>1. Shape(p, t)
    <3>1. \A j \in DOMAIN t.skipped : Passed(t, t.skipped[j])
      BY SMTT(30), <1>2, <1>6 DEF Shape, Passed
    <3>. QED
      BY <1>2, <1>6, <3>1 DEF Shape
  <2>2. \A q \in Parties : Shape(q, store'[q])
    BY <1>2, <1>11, <2>1
  <2>. QED
    BY <1>1, <1>2, <1>11, <2>2 DEF StoresSound
<1>15. LettersOK'
  <2>1. \A i \in DOMAIN sent :
          LET q == sent[i].from
              o == sent[i].sealed
          IN  /\ q \in Parties /\ o \in SealedBy(q) /\ o.dh.k <= K(q) /\ o.dh.k \in Nat /\ o.n \in Nat
              /\ o.dh.k = K(q) => o.n < store[q].sendCount /\ o.pn = store[q].prevSendCount
              /\ o.dh.k = K(q) - 1 => o.n < store[q].prevSendCount
    <3>1. \A i \in DOMAIN sent : sent[i].from \in Parties
      BY LetterIs
    <3>. QED
      BY <3>1, SealedAre DEF Ordered, LettersOK
  <2>2. ASSUME NEW i \in DOMAIN sent', NEW q, NEW o, q = sent'[i].from, o = sent'[i].sealed
        PROVE  /\ o \in SealedBy(q) /\ o.dh.k <= store'[q].dhSend.k
               /\ o.dh.k = store'[q].dhSend.k =>
                    o.n < store'[q].sendCount /\ o.pn = store'[q].prevSendCount
               /\ o.dh.k = store'[q].dhSend.k - 1 => o.n < store'[q].prevSendCount
    <3>1. CASE i \in DOMAIN sent
      <4>1. q = sent[i].from /\ o = sent[i].sealed
        BY <1>9, <2>2, <3>1
      <4>2. /\ q \in Parties /\ o \in SealedBy(q) /\ o.dh.k <= K(q) /\ o.dh.k \in Nat /\ o.n \in Nat
            /\ o.dh.k = K(q) => o.n < store[q].sendCount /\ o.pn = store[q].prevSendCount
            /\ o.dh.k = K(q) - 1 => o.n < store[q].prevSendCount
        BY <2>1, <3>1, <4>1
      <4>3. /\ store'[q].dhSend.k = K(q) /\ store'[q].prevSendCount = store[q].prevSendCount
            /\ store[q].sendCount \in Nat /\ store'[q].sendCount \in Nat
            /\ store[q].sendCount <= store'[q].sendCount
        <5>1. store'[q].dhSend = store[q].dhSend /\ store'[q].prevSendCount = store[q].prevSendCount
          BY <1>6, <1>11, <1>12, <4>2
        <5>2. store[q].sendCount \in Nat
          BY <1>2, <4>2 DEF State
        <5>3. store'[q].sendCount \in Nat /\ store[q].sendCount <= store'[q].sendCount
          <6>1. CASE q = p
            BY <1>2, <1>6, <1>11, <6>1
          <6>2. CASE q # p
            BY <1>11, <4>2, <5>2, <6>2
          <6>. QED
            BY <6>1, <6>2
        <5>. QED
          BY <5>1, <5>2, <5>3 DEF K
      <4>. QED
        BY <4>2, <4>3
    <3>2. CASE i = n
      <4>1. q = p /\ o = m /\ store'[q] = t
        BY <1>7, <1>9, <1>11, <2>2, <3>2
      <4>2. t.dhSend.k = K(p) /\ t.sendCount = s.sendCount + 1 /\ t.prevSendCount = s.prevSendCount
        BY <1>2, <1>6
      <4>3. o.dh.k = K(p) /\ o.pn = s.prevSendCount /\ o.n = s.sendCount /\ o \in SealedBy(q)
        BY <1>5, <4>1
      <4>. QED
        BY <1>2, <4>1, <4>2, <4>3
    <3>. QED
      BY <1>9, <3>1, <3>2
  <2>3. ASSUME NEW i \in DOMAIN sent', NEW j \in DOMAIN sent', sent'[i].from = sent'[j].from
        PROVE  LET o == sent'[i].sealed
                   r == sent'[j].sealed
               IN  /\ r.dh.k = o.dh.k - 1 => r.n < o.pn
                   /\ (r.dh = o.dh /\ r.n = o.n) => i = j
    <3>1. CASE i \in DOMAIN sent /\ j \in DOMAIN sent
      BY <1>9, <2>3, <3>1 DEF Ordered, LettersOK
    <3>2. CASE i = n /\ j \in DOMAIN sent
      <4>1. sent[j].from = p /\ sent'[j] = sent[j] /\ sent'[i].sealed = m
        BY <1>7, <1>9, <2>3, <3>2
      <4>. QED
        BY SMTT(30), <1>2, <1>5, <2>1, <3>2, <4>1
    <3>3. CASE i \in DOMAIN sent /\ j = n
      <4>1. sent[i].from = p /\ sent'[i] = sent[i] /\ sent'[j].sealed = m
        BY <1>7, <1>9, <2>3, <3>3
      <4>. QED
        BY SMTT(30), <1>2, <1>5, <2>1, <3>3, <4>1
    <3>4. CASE i = n /\ j = n
      BY SMTT(30), <1>2, <1>5, <1>7, <1>9, <3>4
    <3>. QED
      BY <1>9, <3>1, <3>2, <3>3, <3>4
  <2>. QED
    BY <1>9, <2>2, <2>3 DEF LettersOK, K
<1>16. InStep'
  <2>1. \A q \in Parties : Peer(q) \in Parties /\ Peer(q) # q /\ store[q].recvCount \in Nat
                           /\ store[q].sendCount \in Nat
    BY <1>2, Both, ShapeAre
  <2>2. \A q \in Parties : store[q].sendCount <= store'[q].sendCount /\ store'[q].sendCount \in Nat
    BY <1>6, <1>11, <2>1
  <2>3. ASSUME NEW q \in Parties, store'[q].dhRemote.k = store'[Peer(q)].dhSend.k
        PROVE  store'[q].recvCount <= store'[Peer(q)].sendCount
    <3>1. store[q].recvCount <= store[Peer(q)].sendCount
      BY <1>11, <1>12, <2>1, <2>3 DEF Ordered, InStep, K
    <3>. QED
      BY <1>12, <2>1, <2>2, <3>1
  <2>4. K(Responder)' = K(Responder) /\ K(Initiator)' = K(Initiator)
    BY <1>11 DEF Parties
  <2>. QED
    BY <2>3, <2>4 DEF Ordered, InStep, K
<1>17. Delivered'
  <2>1. ~Passed(store[Peer(p)], m)
    <3>1. Peer(p) \in Parties /\ Peer(Peer(p)) = p
      BY Both
    <3>2. \A q \in Parties : /\ store[q].dhRemote.k = IF q = Initiator THEN K(q) ELSE K(q) - 1
                             /\ K(q) \in Nat \ {0} /\ store[q].recvCount \in Nat
      BY <1>2, ShapeAre DEF K
    <3>3. store[Peer(p)].dhRemote.k <= K(p) /\ store[Peer(p)].dhRemote.k \in Nat
      BY <3>2 DEF Ordered, InStep, Parties, Peer, Setting
    <3>4. store[Peer(p)].dhRemote.k = K(p) => store[Peer(p)].recvCount <= s.sendCount
      BY <3>1 DEF Ordered, InStep
    <3>. QED
      BY <1>2, <1>5, <3>1, <3>2, <3>3, <3>4 DEF Passed
  <2>2. ASSUME NEW i \in DOMAIN sent'
        PROVE  LET r == store'[Peer(sent'[i].from)]
                   o == sent'[i].sealed
               IN  /\ Passed(r, o) => reads'[i] = 1 \/ InCache(r, o) \/ o.key \in r.evicted
                   /\ reads'[i] = 1 => Passed(r, o) /\ ~InCache(r, o)
                   /\ outcome'[i] = "none" => reads'[i] = 0
                   /\ outcome'[i] = "read" => reads'[i] = 1
                   /\ outcome'[i] \in {"replay", "garbled"} => o.key \in r.evicted
    <3>1. CASE i = n
      <4>1. Peer(p) \in Parties
        BY Both
      <4>2. ~Passed(store'[Peer(p)], m)
        BY <1>13, <2>1, <4>1
      <4>. QED
        BY <1>7, <1>9, <1>10, <3>1, <4>2
    <3>2. CASE i \in DOMAIN sent
      <4>1. sent[i].from \in Parties
        BY <3>2, LetterIs
      <4>2. Peer(sent[i].from) \in Parties
        BY <4>1, Both
      <4> DEFINE r == store[Peer(sent[i].from)]
                 o == sent[i].sealed
      <4>3. /\ Passed(r, o) => reads[i] = 1 \/ InCache(r, o) \/ o.key \in r.evicted
            /\ reads[i] = 1 => Passed(r, o) /\ ~InCache(r, o)
            /\ outcome[i] = "none" => reads[i] = 0
            /\ outcome[i] = "read" => reads[i] = 1
            /\ outcome[i] \in {"replay", "garbled"} => o.key \in r.evicted
        BY <3>2 DEF Ordered, Delivered
      <4>. QED
        BY ZenonT(60), <1>9, <1>10, <1>12, <1>13, <3>2, <4>2, <4>3
    <3>. QED
      BY <1>9, <3>1, <3>2
  <2>. QED
    BY <1>10, <2>2 DEF Delivered
<1>18. OpsSound'
  <2>1. ASSUME NEW q \in Parties, NEW a, OpOK(q, a) PROVE OpOK(q, a)'
    BY <1>9, <1>10, <1>12, <2>1 DEF OpOK
  <2>. QED
    BY <1>1, <2>1, EndKeeps
<1>. QED
  BY <1>14, <1>15, <1>16, <1>17, <1>18 DEF Ordered

\* A message that cannot be read: it was evicted, if it has just come for the first time.
LEMMA DroppedKeeps ==
    ASSUME Setting, Ordered, NEW p \in Parties, NEW slot \in Slots, PutDecrypted(p, slot),
           Decrypt(op[p][slot].state, sent[op[p][slot].msg].sealed, Key(p, generated[p] + 1)).outcome
              # "read"
    PROVE  Ordered' /\ raced' = raced
<1> DEFINE i      == op[p][slot].msg
           s      == op[p][slot].state
           m      == sent[i].sealed
           fresh  == Key(p, generated[p] + 1)
           result == Decrypt(s, m, fresh)
<1>1. /\ op[p][slot].kind = "decrypt" /\ op' = [op EXCEPT ![p][slot] = NoOp]
      /\ UNCHANGED <<store, generated, reads, raced, sent>>
      /\ outcome' = IF outcome[i] = "none" THEN [outcome EXCEPT ![i] = result.outcome] ELSE outcome
  BY DEF PutDecrypted
<1>2. /\ i \in DOMAIN sent /\ sent[i].from = Peer(p) /\ Shape(p, s) /\ s.evicted \subseteq store[p].evicted
      /\ m.dh.k <= s.dhRemote.k + 1
      /\ (outcome[i] = "none" /\ Passed(s, m)) => InCache(s, m) \/ m.key \in s.evicted
  BY <1>1 DEF Ordered, OpsSound, OpOK
<1>3. m \in SealedBy(Peer(p)) /\ Peer(Peer(p)) = p
  BY <1>2, LettersAre, Both
<1>4. fresh \in AllKeys
  <2>1. generated[p] + 1 \in Nat
    BY DEF Ordered, StoresSound
  <2>. QED
    BY <2>1 DEF AllKeys, Key
<1>5. /\ result.outcome \in Outcomes \ {"none", "read"}
      /\ result.outcome \in {"replay", "garbled"} => Passed(s, m) /\ ~InCache(s, m)
  BY <1>2, <1>3, <1>4, NotRead
<1> HIDE DEF result
<1>6. /\ outcome \in [DOMAIN sent -> Outcomes] /\ reads \in [DOMAIN sent -> {0, 1}]
  BY DEF Ordered, Delivered
<1>7. /\ outcome' \in [DOMAIN sent -> Outcomes]
      /\ \A j \in DOMAIN sent : j # i => outcome'[j] = outcome[j]
      /\ outcome'[i] = IF outcome[i] = "none" THEN result.outcome ELSE outcome[i]
  BY <1>1, <1>2, <1>5, <1>6
<1> HIDE DEF i, s
<1>8. StoresSound' /\ LettersOK' /\ InStep'
  BY <1>1 DEF Ordered, StoresSound, LettersOK, InStep, K
<1>9. Delivered'
  <2>1. ASSUME NEW j \in DOMAIN sent
        PROVE  LET r == store[Peer(sent[j].from)]
                   o == sent[j].sealed
               IN  /\ Passed(r, o) => reads[j] = 1 \/ InCache(r, o) \/ o.key \in r.evicted
                   /\ reads[j] = 1 => Passed(r, o) /\ ~InCache(r, o)
                   /\ outcome'[j] = "none" => reads[j] = 0
                   /\ outcome'[j] = "read" => reads[j] = 1
                   /\ outcome'[j] \in {"replay", "garbled"} => o.key \in r.evicted
    <3> DEFINE r == store[Peer(sent[j].from)]
               o == sent[j].sealed
    <3>1. /\ Passed(r, o) => reads[j] = 1 \/ InCache(r, o) \/ o.key \in r.evicted
          /\ reads[j] = 1 => Passed(r, o) /\ ~InCache(r, o)
          /\ outcome[j] = "none" => reads[j] = 0
          /\ outcome[j] = "read" => reads[j] = 1
          /\ outcome[j] \in {"replay", "garbled"} => o.key \in r.evicted
      BY DEF Ordered, Delivered
    <3>2. CASE j = i /\ outcome[i] = "none"
      <4>1. r = store[p] /\ o = m
        BY <1>2, <1>3, <3>2
      <4>2. outcome'[j] = result.outcome
        BY <1>7, <3>2
      <4>3. result.outcome \in {"replay", "garbled"} => m.key \in store[p].evicted
        BY <1>2, <1>5, <3>2
      <4>. QED
        BY <1>5, <3>1, <4>1, <4>2, <4>3
    <3>3. CASE ~(j = i /\ outcome[i] = "none")
      <4>1. outcome'[j] = outcome[j]
        BY <1>7, <3>3
      <4>. QED
        BY <3>1, <4>1
    <3>. QED
      BY <3>2, <3>3
  <2>. QED
    BY <1>1, <1>6, <1>7, <2>1 DEF Delivered
<1>10. OpsSound'
  <2>1. \A j \in DOMAIN sent : outcome'[j] = "none" => outcome[j] = "none"
    BY <1>5, <1>7
  <2>2. ASSUME NEW q \in Parties, NEW a, OpOK(q, a) PROVE OpOK(q, a)'
    BY <1>1, <2>1, <2>2 DEF OpOK
  <2>. QED
    BY <1>1, <2>2, EndKeeps
<1>. QED
  BY <1>1, <1>8, <1>9, <1>10 DEF Ordered

\* A message that is read, and put back over the state that was read.
LEMMA ReadKeeps ==
    ASSUME Setting, Ordered, NEW p \in Parties, NEW slot \in Slots, PutDecrypted(p, slot),
           store[p] = op[p][slot].state,
           Decrypt(store[p], sent[op[p][slot].msg].sealed, Key(p, generated[p] + 1)).outcome = "read"
    PROVE  Ordered'
<1> DEFINE i      == op[p][slot].msg
           s      == store[p]
           m      == sent[i].sealed
           fresh  == Key(p, K(p) + 1)
           t      == Decrypt(s, m, fresh).state
           peer   == Peer(p)
<1>1. /\ store \in [Parties -> State] /\ generated \in [Parties -> Nat]
      /\ \A q \in Parties : Shape(q, store[q]) /\ generated[q] = K(q)
      /\ K(p) \in Nat \ {0} /\ s.dhSend.k = K(p) /\ s.dhSend = Key(p, K(p))
  BY DEF Ordered, StoresSound, Shape, K
<1>2. /\ op[p][slot].kind = "decrypt" /\ op' = [op EXCEPT ![p][slot] = NoOp]
      /\ store' = [store EXCEPT ![p] = t] /\ sent' = sent
      /\ generated' = IF t.dhSend = fresh THEN [generated EXCEPT ![p] = generated[p] + 1] ELSE generated
      /\ reads' = [reads EXCEPT ![i] = reads[i] + 1]
      /\ outcome' = IF outcome[i] = "none" THEN [outcome EXCEPT ![i] = "read"] ELSE outcome
  BY <1>1 DEF PutDecrypted, Put
<1>3. i \in DOMAIN sent /\ sent[i].from = peer
  BY <1>2 DEF Ordered, OpsSound, OpOK
<1>4. /\ m \in SealedBy(peer) /\ m.dh.k <= s.dhRemote.k + 1 /\ Place(p, m)
      /\ peer \in Parties /\ peer # p /\ Peer(peer) = p
  BY <1>3, LettersAre, Both
<1>5. /\ Shape(p, t) /\ s.evicted \subseteq t.evicted /\ Moved(p, s, t, m)
      /\ Passed(t, m) /\ ~InCache(t, m) /\ (~Passed(s, m) \/ InCache(s, m))
      /\ \A o : /\ Place(p, o) /\ ~(o.dh = m.dh /\ o.n = m.n)
                /\ m.dh.k = s.dhRemote.k + 1 /\ o.dh.k = s.dhRemote.k => o.n < m.pn
                => Keeps(s, t, o)
  <2>1. Decrypt(s, m, Key(p, s.dhSend.k + 1)).outcome = "read"
    BY <1>1
  <2>2. t = Decrypt(s, m, Key(p, s.dhSend.k + 1)).state
    BY <1>1
  <2> HIDE DEF t, m
  <2>3. Shape(p, s)
    BY <1>1
  <2>. QED
    BY <1>4, <2>1, <2>2, <2>3, ReadMoves
<1> HIDE DEF t, i
<1>6. /\ outcome \in [DOMAIN sent -> Outcomes] /\ reads \in [DOMAIN sent -> {0, 1}]
      /\ reads[i] = 0
  <2>1. reads[i] = 1 => Passed(s, m) /\ ~InCache(s, m)
    BY <1>3, <1>4 DEF Ordered, Delivered
  <2>. QED
    BY <1>3, <1>5, <2>1 DEF Ordered, Delivered
<1>7. /\ outcome' \in [DOMAIN sent -> Outcomes] /\ reads' \in [DOMAIN sent -> {0, 1}]
      /\ \A j \in DOMAIN sent : j # i => outcome'[j] = outcome[j] /\ reads'[j] = reads[j]
      /\ reads'[i] = 1 /\ outcome'[i] = IF outcome[i] = "none" THEN "read" ELSE outcome[i]
  <2>1. "read" \in Outcomes
    BY DEF Outcomes
  <2>. QED
    BY <1>2, <1>3, <1>6, <2>1
<1>8. /\ t \in State /\ t.recvCount \in Nat /\ s.recvCount \in Nat /\ s.sendCount \in Nat
      /\ m.n \in Nat /\ m.dh.k \in Nat /\ s.dhRemote.k \in Nat /\ t.dhRemote.k \in Nat
  BY <1>1, <1>4, <1>5, ShapeAre, SealedAre
<1>9. /\ store' \in [Parties -> State] /\ store'[p] = t
      /\ \A q \in Parties : q # p => store'[q] = store[q]
      /\ store'[peer] = store[peer]
  BY <1>1, <1>2, <1>4, <1>8
<1>10. fresh.k = K(p) + 1 /\ fresh # s.dhSend
  BY <1>1 DEF Key
<1>11. /\ t.dhSend = s.dhSend => t.dhSend.k = K(p)
       /\ t.dhSend = fresh => t.dhSend.k = K(p) + 1
       /\ t.dhSend = s.dhSend \/ t.dhSend = fresh
  BY <1>1, <1>5, <1>10 DEF Moved
<1>12. StoresSound'
  <2>1. \A q \in Parties : Shape(q, store'[q])
    BY <1>1, <1>5, <1>9
  <2>2. generated' \in [Parties -> Nat] /\ \A q \in Parties : generated'[q] = store'[q].dhSend.k
    <3>1. generated' \in [Parties -> Nat]
      BY <1>1, <1>2
    <3>2. generated'[p] = t.dhSend.k
      BY <1>1, <1>2, <1>10, <1>11
    <3>3. \A q \in Parties : q # p => generated'[q] = generated[q]
      BY <1>1, <1>2
    <3>. QED
      BY <1>1, <1>9, <3>1, <3>2, <3>3 DEF K
  <2>. QED
    BY <1>9, <2>1, <2>2 DEF StoresSound, K
<1>13. LettersOK'
  <2>1. sent \in Seq(Letter)
    BY DEF Ordered, LettersOK
  <2>2. ASSUME NEW j \in DOMAIN sent, NEW q, NEW o, q = sent[j].from, o = sent[j].sealed
        PROVE  /\ o \in SealedBy(q) /\ o.dh.k <= store'[q].dhSend.k
               /\ o.dh.k = store'[q].dhSend.k => o.n < store'[q].sendCount /\ o.pn = store'[q].prevSendCount
               /\ o.dh.k = store'[q].dhSend.k - 1 => o.n < store'[q].prevSendCount
    <3>1. /\ q \in Parties /\ o \in SealedBy(q) /\ o.dh.k <= K(q)
          /\ o.dh.k = K(q) => o.n < store[q].sendCount /\ o.pn = store[q].prevSendCount
          /\ o.dh.k = K(q) - 1 => o.n < store[q].prevSendCount
      BY <2>2, LetterIs DEF Ordered, LettersOK
    <3>2. CASE q # p
      BY <1>9, <3>1, <3>2 DEF K
    <3>3. CASE q = p /\ t.dhSend = s.dhSend
      <4>1. t.sendCount = s.sendCount /\ t.prevSendCount = s.prevSendCount
        BY <1>1, <1>5, <1>10, <3>3 DEF Moved
      <4>. QED
        BY <1>1, <1>9, <3>1, <3>3, <4>1
    <3>4. CASE q = p /\ t.dhSend = fresh
      <4>1. t.prevSendCount = s.sendCount /\ t.dhSend.k = K(p) + 1
        BY <1>5, <1>10, <1>11, <3>4 DEF Moved
      <4>2. o.dh.k \in Nat
        BY <3>1, SealedAre
      <4>. QED
        BY <1>1, <1>9, <3>1, <3>4, <4>1, <4>2
    <3>. QED
      BY <1>11, <3>2, <3>3, <3>4
  <2>3. \A j, l \in DOMAIN sent : sent[j].from = sent[l].from =>
          LET o == sent[j].sealed
              r == sent[l].sealed
          IN  /\ r.dh.k = o.dh.k - 1 => r.n < o.pn
              /\ (r.dh = o.dh /\ r.n = o.n) => j = l
    BY DEF Ordered, LettersOK
  <2>. QED
    BY SMTT(30), <1>2, <2>1, <2>2, <2>3 DEF LettersOK, K
<1>14. InStep'
  <2>1. /\ K(Responder) = K(Initiator) \/ K(Responder) = K(Initiator) + 1
        /\ s.dhRemote.k = K(peer) => s.recvCount <= store[peer].sendCount
        /\ store[peer].dhRemote.k = K(p) => store[peer].recvCount <= s.sendCount
    BY <1>4 DEF Ordered, InStep
  <2>2. \A q \in Parties : /\ store[q].dhRemote.k = IF q = Initiator THEN K(q) ELSE K(q) - 1
                           /\ K(q) \in Nat \ {0} /\ store[q].sendCount \in Nat
    BY <1>1, ShapeAre DEF K
  <2>3. /\ m.dh.k <= K(peer)
        /\ m.dh.k = K(peer) => m.n < store[peer].sendCount
    BY <1>3 DEF Ordered, LettersOK
  <2>4. CASE t.dhSend = s.dhSend
    <3>1. /\ t.dhRemote = s.dhRemote /\ t.sendCount = s.sendCount
          /\ t.recvCount = s.recvCount \/ (m.dh = s.dhRemote /\ t.recvCount = m.n + 1)
      BY <1>1, <1>5, <1>10, <2>4 DEF Moved
    <3>2. t.dhRemote.k = K(peer) => t.recvCount <= store[peer].sendCount
      BY <1>4, <1>8, <2>1, <2>2, <2>3, <3>1
    <3>3. \A q \in Parties : store'[q].dhSend.k = K(q)
      BY <1>1, <1>9, <2>4 DEF K
    <3>4. \A q \in Parties : store'[q].dhRemote.k = store'[Peer(q)].dhSend.k
             => store'[q].recvCount <= store'[Peer(q)].sendCount
      <4>1. \A q \in Parties : q = p \/ q = peer
        BY DEF Parties, Peer
      <4>2. store'[p].dhRemote.k = store'[peer].dhSend.k => store'[p].recvCount <= store'[peer].sendCount
        BY <1>4, <1>9, <3>2, <3>3
      <4>3. store'[peer].dhRemote.k = store'[p].dhSend.k => store'[peer].recvCount <= store'[p].sendCount
        BY <1>4, <1>9, <2>1, <3>1, <3>3
      <4>. QED
        BY <1>4, <4>1, <4>2, <4>3
    <3>5. K(Responder)' = K(Responder) /\ K(Initiator)' = K(Initiator)
      BY <3>3 DEF Parties, K
    <3>. QED
      BY <2>1, <3>4, <3>5 DEF InStep, K
  <2>5. CASE t.dhSend = fresh
    <3>1. /\ m.dh.k = s.dhRemote.k + 1 /\ t.dhRemote = m.dh /\ t.sendCount = 0
          /\ t.prevSendCount = s.sendCount /\ t.recvCount = m.n + 1 /\ t.dhSend.k = K(p) + 1
      BY <1>5, <1>10, <1>11, <2>5 DEF Moved
    <3>2. /\ p = Initiator => K(Responder) = K(p) + 1
          /\ p = Responder => K(Initiator) = K(p)
      BY <1>4, <1>8, <2>1, <2>2, <2>3, <3>1 DEF Peer, Parties, Setting
    <3>3. /\ store'[p].dhSend.k = K(p) + 1 /\ store'[peer].dhSend.k = K(peer)
      BY <1>4, <1>9, <3>1 DEF K
    <3>4. t.dhRemote.k = K(peer) => t.recvCount <= store[peer].sendCount
      BY <1>4, <1>8, <2>2, <2>3, <3>1
    <3>5. store[peer].dhRemote.k # K(p) + 1
      BY <1>4, <2>1, <2>2, <3>2 DEF Peer, Parties, Setting
    <3>6. \A q \in Parties : store'[q].dhRemote.k = store'[Peer(q)].dhSend.k
             => store'[q].recvCount <= store'[Peer(q)].sendCount
      <4>1. \A q \in Parties : q = p \/ q = peer
        BY DEF Parties, Peer
      <4>2. store'[p].dhRemote.k = store'[peer].dhSend.k => store'[p].recvCount <= store'[peer].sendCount
        BY <1>4, <1>9, <3>3, <3>4
      <4>3. store'[peer].dhRemote.k = store'[p].dhSend.k => store'[peer].recvCount <= store'[p].sendCount
        BY <1>4, <1>9, <3>3, <3>5
      <4>. QED
        BY <1>4, <4>1, <4>2, <4>3
    <3>7. \/ store'[Responder].dhSend.k = store'[Initiator].dhSend.k
          \/ store'[Responder].dhSend.k = store'[Initiator].dhSend.k + 1
      <4>1. CASE p = Initiator
        <5>1. peer = Responder
          BY <4>1 DEF Peer
        <5>. QED
          BY <1>1, <3>2, <3>3, <4>1, <5>1
      <4>2. CASE p = Responder
        <5>1. peer = Initiator
          BY <4>2 DEF Peer, Setting
        <5>. QED
          BY <1>1, <3>2, <3>3, <4>2, <5>1
      <4>. QED
        BY <4>1, <4>2 DEF Parties
    <3>. QED
      BY <3>6, <3>7 DEF InStep, K
  <2>. QED
    BY <1>11, <2>4, <2>5
<1>15. Delivered'
  <2>1. ASSUME NEW j \in DOMAIN sent, NEW r, NEW o, r = store'[Peer(sent[j].from)], o = sent[j].sealed
        PROVE  /\ Passed(r, o) => reads'[j] = 1 \/ InCache(r, o) \/ o.key \in r.evicted
               /\ reads'[j] = 1 => Passed(r, o) /\ ~InCache(r, o)
               /\ outcome'[j] = "none" => reads'[j] = 0
               /\ outcome'[j] = "read" => reads'[j] = 1
               /\ outcome'[j] \in {"replay", "garbled"} => o.key \in r.evicted
    <3> DEFINE r0 == store[Peer(sent[j].from)]
    <3>1. /\ Passed(r0, o) => reads[j] = 1 \/ InCache(r0, o) \/ o.key \in r0.evicted
          /\ reads[j] = 1 => Passed(r0, o) /\ ~InCache(r0, o)
          /\ outcome[j] = "none" => reads[j] = 0
          /\ outcome[j] = "read" => reads[j] = 1
          /\ outcome[j] \in {"replay", "garbled"} => o.key \in r0.evicted
      BY <2>1 DEF Ordered, Delivered
    <3>2. CASE j = i
      <4>1. r = t /\ o = m /\ r0 = s
        BY <1>3, <1>4, <1>9, <2>1, <3>2
      <4>2. outcome[i] \in {"replay", "garbled"} => m.key \in t.evicted
        BY <1>5, <3>1, <3>2, <4>1
      <4>. QED
        BY <1>5, <1>7, <3>2, <4>1, <4>2
    <3>3. CASE j # i /\ sent[j].from # peer
      <4>1. Peer(sent[j].from) # p /\ Peer(sent[j].from) \in Parties
        BY <1>4, <3>3, LetterIs, Both DEF Parties, Peer
      <4>2. r = r0
        BY <1>9, <2>1, <4>1
      <4>. QED
        BY <1>7, <3>1, <3>3, <4>2
    <3>4. CASE j # i /\ sent[j].from = peer
      <4>1. r = t /\ r0 = s
        BY <1>4, <1>9, <2>1, <3>4
      <4>2. Place(p, o)
        BY <2>1, <3>4, LettersAre
      <4>3. ~(o.dh = m.dh /\ o.n = m.n) /\ (o.dh.k = m.dh.k - 1 => o.n < m.pn)
        BY <1>3, <2>1, <3>4 DEF Ordered, LettersOK
      <4>4. m.dh.k = s.dhRemote.k + 1 /\ o.dh.k = s.dhRemote.k => o.n < m.pn
        BY <1>8, <4>3
      <4>5. Keeps(s, t, o)
        BY <1>5, <4>2, <4>3, <4>4
      <4>. QED
        BY <1>5, <1>7, <3>1, <3>4, <4>1, <4>5 DEF Keeps
    <3>. QED
      BY <3>2, <3>3, <3>4
  <2>. QED
    BY <1>2, <1>7, <2>1 DEF Delivered
<1>16. OpsSound'
  <2>1. \A j \in DOMAIN sent : outcome'[j] = "none" => outcome[j] = "none"
    BY <1>7
  <2>2. \A q \in Parties : store[q].evicted \subseteq store'[q].evicted
    BY <1>5, <1>9
  <2>3. ASSUME NEW q \in Parties, NEW a, OpOK(q, a) PROVE OpOK(q, a)'
    BY <1>2, <2>1, <2>2, <2>3 DEF OpOK
  <2>. QED
    BY <1>2, <2>3, EndKeeps
<1>. QED
  BY <1>12, <1>13, <1>14, <1>15, <1>16 DEF Ordered

LEMMA GetToDecryptKeeps ==
    ASSUME Setting, Ordered, NEW p \in Parties, NEW slot \in Slots, GetToDecrypt(p, slot)
    PROVE  Ordered' /\ raced' = raced
<1>1. PICK i \in DOMAIN sent :
        /\ sent[i].from = Peer(p)
        /\ op' = [op EXCEPT ![p][slot] = [kind |-> "decrypt", state |-> store[p], msg |-> i]]
  BY DEF GetToDecrypt
<1>2. UNCHANGED <<store, generated, sent, outcome, reads, raced>>
  BY DEF GetToDecrypt
<1> DEFINE o == [kind |-> "decrypt", state |-> store[p], msg |-> i]
<1>3. Shape(p, store[p]) /\ store[p] \in State
  BY DEF Ordered, StoresSound
<1>4. o \in Op /\ o.kind = "decrypt" /\ o.state = store[p] /\ o.msg = i
  <2>1. i \in Nat
    BY DEF Ordered, LettersOK
  <2>. QED
    BY <1>3, <2>1 DEF Op
<1> HIDE DEF o
<1>5. OpOK(p, o)
  <2>1. sent[i].sealed.dh.k <= store[p].dhRemote.k + 1
    BY <1>1, LettersAre
  <2>2. (outcome[i] = "none" /\ Passed(store[p], sent[i].sealed))
          => InCache(store[p], sent[i].sealed) \/ sent[i].sealed.key \in store[p].evicted
    <3>1. Peer(sent[i].from) = p
      BY <1>1, Both
    <3>. QED
      BY <3>1 DEF Ordered, Delivered
  <2>. QED
    BY <1>1, <1>3, <1>4, <2>1, <2>2 DEF OpOK
<1>6. op' = [op EXCEPT ![p][slot] = o]
  BY <1>1 DEF o
<1>. QED
  BY <1>2, <1>4, <1>5, <1>6, GetKeeps

LEMMA GetToEncryptKeeps ==
    ASSUME Setting, Ordered, NEW p \in Parties, NEW slot \in Slots, GetToEncrypt(p, slot)
    PROVE  Ordered' /\ raced' = raced
<1> DEFINE o == [kind |-> "encrypt", state |-> store[p], msg |-> 0]
<1>1. /\ store[p].chainKeySend # NoChain /\ op' = [op EXCEPT ![p][slot] = o]
      /\ UNCHANGED <<store, generated, sent, outcome, reads, raced>>
  BY DEF GetToEncrypt
<1>2. o \in Op /\ o.kind = "encrypt" /\ o.state = store[p]
  BY DEF Ordered, StoresSound, Op
<1> HIDE DEF o
<1>3. OpOK(p, o)
  BY <1>1, <1>2 DEF OpOK
<1>. QED
  BY <1>1, <1>2, <1>3, GetKeeps

LEMMA RacedStays == ASSUME [Next]_vars, raced = TRUE PROVE raced' = TRUE
<1>1. ASSUME NEW p \in Parties, NEW slot \in Slots, NEW state, Put(p, slot, state) PROVE raced' = TRUE
  BY <1>1 DEF Put
<1>2. CASE UNCHANGED vars
  BY <1>2 DEF vars
<1>3. CASE Next
  <2>1. PICK p \in Parties, slot \in Slots :
          \/ GetToEncrypt(p, slot) \/ PutEncrypted(p, slot)
          \/ GetToDecrypt(p, slot) \/ PutDecrypted(p, slot)
    BY <1>3 DEF Next
  <2>2. CASE GetToEncrypt(p, slot)
    BY <2>2 DEF GetToEncrypt
  <2>3. CASE PutEncrypted(p, slot)
    BY <1>1, <2>3 DEF PutEncrypted
  <2>4. CASE GetToDecrypt(p, slot)
    BY <2>4 DEF GetToDecrypt
  <2>5. CASE PutDecrypted(p, slot)
    BY <1>1, <2>5 DEF PutDecrypted
  <2>. QED
    BY <2>1, <2>2, <2>3, <2>4, <2>5
<1>. QED
  BY <1>2, <1>3

LEMMA RatchetStep == Setting /\ RInv /\ [Next]_vars => RInv'
<1> SUFFICES ASSUME Setting, RInv, [Next]_vars, raced = FALSE, Ordered
             PROVE  raced' = TRUE \/ (raced' = FALSE /\ Ordered')
  BY RacedStays DEF RInv, Ordered
<1>1. CASE UNCHANGED vars
  <2>1. UNCHANGED <<store, generated, op, sent, outcome, reads, raced>>
    BY <1>1 DEF vars
  <2>. QED
    BY SMTT(30), <2>1 DEF Ordered, StoresSound, LettersOK, InStep, Delivered, OpsSound, OpOK, K
<1>2. CASE Next
  <2>1. PICK p \in Parties, slot \in Slots :
          \/ GetToEncrypt(p, slot) \/ PutEncrypted(p, slot)
          \/ GetToDecrypt(p, slot) \/ PutDecrypted(p, slot)
    BY <1>2 DEF Next
  <2>2. ASSUME NEW state, Put(p, slot, state)
        PROVE  IF store[p] = op[p][slot].state THEN raced' = FALSE ELSE raced' = TRUE
    BY <2>2 DEF Put
  <2>3. CASE GetToEncrypt(p, slot)
    BY <2>3, GetToEncryptKeeps
  <2>4. CASE PutEncrypted(p, slot)
    <3>1. IF store[p] = op[p][slot].state THEN raced' = FALSE ELSE raced' = TRUE
      BY <2>2, <2>4 DEF PutEncrypted
    <3>. QED
      BY <2>4, <3>1, PutEncryptedKeeps
  <2>5. CASE GetToDecrypt(p, slot)
    BY <2>5, GetToDecryptKeeps
  <2>6. CASE PutDecrypted(p, slot)
    <3> DEFINE result == Decrypt(op[p][slot].state, sent[op[p][slot].msg].sealed, Key(p, generated[p] + 1))
    <3>1. CASE result.outcome # "read"
      BY <2>6, <3>1, DroppedKeeps
    <3>2. CASE result.outcome = "read"
      <4>1. Put(p, slot, result.state)
        BY <2>6, <3>2 DEF PutDecrypted
      <4>2. IF store[p] = op[p][slot].state THEN raced' = FALSE ELSE raced' = TRUE
        BY <2>2, <4>1
      <4>3. CASE store[p] = op[p][slot].state
        <5>1. Decrypt(store[p], sent[op[p][slot].msg].sealed, Key(p, generated[p] + 1)).outcome = "read"
          BY <3>2, <4>3
        <5>. QED
          BY <2>6, <4>2, <4>3, <5>1, ReadKeeps
      <4>4. CASE store[p] # op[p][slot].state
        BY <4>2, <4>4
      <4>. QED
        BY <4>3, <4>4
    <3>. QED
      BY <3>1, <3>2
  <2>. QED
    BY <2>1, <2>3, <2>4, <2>5, <2>6
<1>. QED
  BY <1>1, <1>2

\* However the messages of the two are lost, delayed, reordered or delivered again, the
\* first delivery of each recovers its text and no later one does, unless its key was
\* evicted or a client has put a state back over another (ratchetDecrypt).
THEOREM MessagesAreReadOnce ==
    ASSUME Initiator # Responder, MAX_SKIP \in Nat
    PROVE  Spec => []ReadOnArrivalOnly
<1>1. Setting
  BY DEF Setting
<1>2. RInv => ReadOnArrivalOnly
  <2> SUFFICES ASSUME raced = FALSE, Delivered PROVE ReadOnArrivalOnly
    BY DEF RInv, ReadOnArrivalOnly
  <2>. QED
    BY DEF Delivered, ReadOnArrivalOnly
<1>. QED
  BY <1>1, <1>2, RatchetInit, RatchetStep, PTL DEF Spec

LEMMA ChainsApart ==
    ASSUME Setting, NEW p \in Parties, NEW q \in Parties, NEW dh \in KeysOf(p), NEW dq \in KeysOf(q),
           ChainOf(dh) = ChainOf(dq)
    PROVE  dh = dq /\ p = q
<1>1. /\ dh = Key(p, dh.k) /\ dh.k \in Nat /\ dh.of = p
      /\ dq = Key(q, dq.k) /\ dq.k \in Nat /\ dq.of = q
  BY DEF KeysOf, Key
<1>2. /\ dh.k # 0 /\ (p # Initiator => dh.k # 1)
      /\ dq.k # 0 /\ (q # Initiator => dq.k # 1)
  BY <1>1 DEF KeysOf, Key
<1>3. /\ Rungs(dh) = IF p = Initiator THEN 2 * dh.k - 1 ELSE 2 * dh.k - 2
      /\ Rungs(dq) = IF q = Initiator THEN 2 * dq.k - 1 ELSE 2 * dq.k - 2
      /\ Rungs(dh) \in Nat /\ Rungs(dq) \in Nat
  BY <1>1, <1>2 DEF Rungs
<1>4. Rungs(dh) = Rungs(dq)
  <2>1. Len(ChainOf(dh)) = Rungs(dh) /\ Len(ChainOf(dq)) = Rungs(dq)
    BY <1>3, LadderSeq DEF ChainOf
  <2>. QED
    BY <2>1
<1>5. p = q
  BY <1>1, <1>3, <1>4 DEF Parties
<1>6. dh.k \in Nat /\ dq.k \in Nat
  BY <1>1
<1>7. 2 * dh.k = 2 * dq.k
  <2>1. Rungs(dq) = IF p = Initiator THEN 2 * dq.k - 1 ELSE 2 * dq.k - 2
    BY <1>3, <1>5
  <2>2. Rungs(dh) = IF p = Initiator THEN 2 * dh.k - 1 ELSE 2 * dh.k - 2
    BY <1>3
  <2>. QED
    BY <1>4, <1>6, <2>1, <2>2
<1>8. \A a, b \in Nat : 2 * a = 2 * b => a = b
  OBVIOUS
<1>9. dh.k = dq.k
  BY <1>6, <1>7, <1>8
<1>. QED
  BY <1>1, <1>5, <1>9

\* No two messages are encrypted with one key, until a client has put a state back over
\* another (ratchetEncrypt, encryptForPeer): the race is all that can reuse a key.
THEOREM KeysAreFresh ==
    ASSUME Initiator # Responder, MAX_SKIP \in Nat
    PROVE  Spec => [](raced \/ FreshKeys)
<1>1. Setting
  BY DEF Setting
<1>2. RInv => raced \/ FreshKeys
  <2> SUFFICES ASSUME Ordered, NEW i \in DOMAIN sent, NEW j \in DOMAIN sent, i # j
               PROVE  sent[i].sealed.key # sent[j].sealed.key
    BY DEF RInv, Ordered, FreshKeys
  <2>1. /\ sent[i].from \in Parties /\ sent[i].sealed \in SealedBy(sent[i].from)
        /\ sent[j].from \in Parties /\ sent[j].sealed \in SealedBy(sent[j].from)
    BY LetterIs DEF Ordered, LettersOK
  <2>2. /\ sent[i].sealed.dh \in KeysOf(sent[i].from)
        /\ sent[i].sealed.key = MessageKey(ChainOf(sent[i].sealed.dh), sent[i].sealed.n)
        /\ sent[j].sealed.dh \in KeysOf(sent[j].from)
        /\ sent[j].sealed.key = MessageKey(ChainOf(sent[j].sealed.dh), sent[j].sealed.n)
    BY <1>1, <2>1, SealedAre
  <2>3. SUFFICES ASSUME sent[i].sealed.key = sent[j].sealed.key PROVE FALSE
    OBVIOUS
  <2>4. ChainOf(sent[i].sealed.dh) = ChainOf(sent[j].sealed.dh) /\ sent[i].sealed.n = sent[j].sealed.n
    BY <2>2, <2>3 DEF MessageKey
  <2>5. sent[i].sealed.dh = sent[j].sealed.dh /\ sent[i].from = sent[j].from
    BY <1>1, <2>1, <2>2, <2>4, ChainsApart
  <2>. QED
    BY <2>4, <2>5 DEF Ordered, LettersOK
<1>. QED
  BY <1>1, <1>2, RatchetInit, RatchetStep, PTL DEF Spec

-------------------------------------------------------------------------------
(* Types, whatever states were overwritten.                               *)

\* A state with a full cache at most, and a chain to send on only to a known peer.
Bounded(s, g) ==
    /\ s \in State /\ Len(s.skipped) <= MAX_SKIP
    /\ s.dhSend.k \in Nat \ {0} /\ s.dhSend.k <= g
    /\ s.chainKeySend # NoChain => s.dhRemote # NoKey

Sheet == [dh : {dh \in AllKeys : dh.k \in Nat \ {0}}, pn : Nat, n : Nat, key : MessageKeys]

Page == [from : Parties, sealed : Sheet]

\* What skipping and opening leave alone.
SameKeys(s, t) ==
    /\ t \in State /\ Len(t.skipped) <= MAX_SKIP
    /\ t.dhSend = s.dhSend /\ t.dhRemote = s.dhRemote /\ t.chainKeySend = s.chainKeySend

LEMMA CacheIsFull ==
    ASSUME NEW len \in Nat, MAX_SKIP \in Nat
    PROVE  LET excess == IF len > MAX_SKIP THEN len - MAX_SKIP ELSE 0
           IN  excess \in 0..len /\ len - excess <= MAX_SKIP
OBVIOUS

LEMMA SkipBounds ==
    ASSUME MAX_SKIP \in Nat, NEW s \in State, Len(s.skipped) <= MAX_SKIP, NEW until \in Nat
    PROVE  SameKeys(s, SkipMessageKeys(s, until))
<1>1. CASE s.chainKeyRecv = NoChain \/ s.recvCount >= until
  BY <1>1 DEF SkipMessageKeys, SameKeys
<1>2. CASE ~(s.chainKeyRecv = NoChain \/ s.recvCount >= until)
  <2> DEFINE c == s.recvCount
             passed == [i \in 1..(until - c) |->
                           [dh |-> s.dhRemote, n |-> c + i - 1, key |-> MessageKey(s.chainKeyRecv, c + i - 1)]]
             all    == s.skipped \o passed
             excess == IF Len(all) > MAX_SKIP THEN Len(all) - MAX_SKIP ELSE 0
             rest   == SubSeq(all, excess + 1, Len(all))
             gone   == {all[i].key : i \in 1..excess}
             t      == SkipMessageKeys(s, until)
  <2>1. t = [s EXCEPT !.recvCount = until, !.skipped = rest, !.evicted = s.evicted \cup gone]
    BY <1>2 DEF SkipMessageKeys
  <2>2. /\ c \in Nat /\ until - c \in Nat /\ s.skipped \in Seq(Entry) /\ s.dhRemote \in AllKeys
        /\ s.chainKeyRecv \in Chains /\ s.evicted \subseteq MessageKeys
    BY <1>2 DEF State
  <2>3. passed \in Seq(Entry)
    <3>1. \A i \in 1..(until - c) : c + i - 1 \in Nat
      BY <2>2
    <3>2. \A n \in Nat : [dh |-> s.dhRemote, n |-> n, key |-> MessageKey(s.chainKeyRecv, n)] \in Entry
      BY <2>2 DEF Entry, MessageKeys, MessageKey
    <3>3. passed \in [1..(until - c) -> Entry]
      BY <3>1, <3>2
    <3>. QED
      BY <2>2, <3>3, FunctionIsSeq
  <2> HIDE DEF passed
  <2>4. all \in Seq(Entry)
    BY <2>2, <2>3, Joined
  <2> HIDE DEF all
  <2>5. Len(all) \in Nat /\ DOMAIN all = 1..Len(all) /\ \A i \in DOMAIN all : all[i] \in Entry
    BY <2>4
  <2>6. excess \in 0..Len(all) /\ Len(all) - excess <= MAX_SKIP
    BY <2>5, CacheIsFull
  <2> HIDE DEF excess
  <2>7. rest \in Seq(Entry) /\ Len(rest) <= MAX_SKIP
    BY <2>4, <2>6, Cut
  <2>8. gone \subseteq MessageKeys
    <3>1. \A i \in 1..excess : i \in DOMAIN all
      BY <2>5, <2>6
    <3>. QED
      BY <2>5, <3>1 DEF Entry
  <2> HIDE DEF rest, gone, t
  <2>9. s.evicted \cup gone \in SUBSET MessageKeys
    BY <2>2, <2>8
  <2>10. /\ t \in State /\ t.skipped = rest /\ t.dhSend = s.dhSend /\ t.dhRemote = s.dhRemote
         /\ t.chainKeySend = s.chainKeySend
    BY <2>1, <2>7, <2>9 DEF State
  <2>. QED
    BY <2>7, <2>10 DEF SameKeys, t
<1>. QED
  BY <1>1, <1>2

LEMMA OpenBounds ==
    ASSUME MAX_SKIP \in Nat, NEW s \in State, Len(s.skipped) <= MAX_SKIP, NEW m, m.n \in Nat
    PROVE  LET o == OpenNext(s, m)
           IN  o.outcome \in {"skip", "read", "garbled"} /\ SameKeys(s, o.state)
<1> DEFINE s1 == SkipMessageKeys(s, m.n)
           t  == [s1 EXCEPT !.recvCount = s1.recvCount + 1]
<1>1. SameKeys(s, s1)
  BY SkipBounds
<1> HIDE DEF s1
<1>2. t \in State /\ t.skipped = s1.skipped /\ t.dhSend = s1.dhSend /\ t.dhRemote = s1.dhRemote
      /\ t.chainKeySend = s1.chainKeySend
  <2>1. s1 \in State
    BY <1>1 DEF SameKeys
  <2>2. s1.recvCount + 1 \in Nat
    BY <2>1 DEF State
  <2>. QED
    BY <2>1, <2>2 DEF State
<1>3. SameKeys(s, t)
  BY <1>1, <1>2 DEF SameKeys
<1>4. SameKeys(s, s)
  BY DEF SameKeys
<1>5. CASE TooMany(s, m.n)
  BY <1>4, <1>5 DEF OpenNext
<1>6. CASE ~TooMany(s, m.n)
  BY <1>3, <1>6 DEF OpenNext, s1
<1>. QED
  BY <1>5, <1>6

LEMMA StepBounds ==
    ASSUME NEW s \in State, NEW remote \in AllKeys, NEW fresh \in AllKeys
    PROVE  LET t == DhRatchetStep(s, remote, fresh)
           IN  t \in State /\ t.skipped = s.skipped /\ t.dhSend = fresh /\ t.dhRemote = remote
<1> DEFINE root1 == KdfRoot(s.root, s.dhSend, remote)
           root2 == KdfRoot(root1, fresh, remote)
           t     == DhRatchetStep(s, remote, fresh)
<1>1. s.root \in Chains /\ s.dhSend \in AllKeys
  BY DEF State
<1>2. root1 \in Chains
  BY <1>1, Derived
<1> HIDE DEF root1
<1>3. root2 \in Chains
  BY <1>2, Derived
<1>4. t = [s EXCEPT !.prevSendCount = s.sendCount, !.sendCount = 0, !.recvCount = 0,
                    !.dhRemote = remote, !.chainKeyRecv = root1,
                    !.dhSend = fresh, !.root = root2, !.chainKeySend = root2]
  BY DEF DhRatchetStep, root1
<1> HIDE DEF root2, t
<1>5. t \in State /\ t.skipped = s.skipped /\ t.dhSend = fresh /\ t.dhRemote = remote
  BY <1>2, <1>3, <1>4 DEF State
<1>. QED
  BY <1>5 DEF t

\* What ratchetDecrypt leaves is bounded again, with the fresh key pair or without.
LEMMA DecryptBounds ==
    ASSUME MAX_SKIP \in Nat, NEW g \in Nat, NEW s, Bounded(s, g), NEW m \in Sheet,
           NEW fresh \in AllKeys, fresh.k = g + 1
    PROVE  LET d == Decrypt(s, m, fresh)
           IN  /\ d.outcome \in Outcomes \ {"none"}
               /\ Bounded(d.state, IF d.state.dhSend = fresh THEN g + 1 ELSE g)
<1> DEFINE d == Decrypt(s, m, fresh)
           Fine(u) == u \in State /\ Len(u.skipped) <= MAX_SKIP
<1>1. /\ Fine(s) /\ m.dh \in AllKeys /\ m.dh.k \in Nat \ {0} /\ m.n \in Nat /\ m.pn \in Nat
  BY DEF Bounded, Sheet
<1>2. m.dh # NoKey
  BY <1>1 DEF NoKey, Key
<1>3. ASSUME NEW u, Fine(u), u.dhSend = s.dhSend, u.dhRemote = s.dhRemote,
             u.chainKeySend = s.chainKeySend
      PROVE  Bounded(u, IF u.dhSend = fresh THEN g + 1 ELSE g)
  BY <1>3 DEF Bounded
<1>4. ASSUME NEW u, Fine(u), u.dhSend = fresh, u.dhRemote = m.dh
      PROVE  Bounded(u, IF u.dhSend = fresh THEN g + 1 ELSE g)
  BY <1>2, <1>4 DEF Bounded
<1>5. CASE Cached(s, m) # {}
  <2> DEFINE i    == CHOOSE j \in Cached(s, m) : TRUE
             rest == SubSeq(s.skipped, 1, i - 1) \o SubSeq(s.skipped, i + 1, Len(s.skipped))
             t    == [s EXCEPT !.skipped = rest]
  <2>1. i \in DOMAIN s.skipped
    BY <1>5 DEF Cached
  <2>2. d.outcome \in {"read", "garbled"} /\ d.state = t
    BY <1>5 DEF Decrypt
  <2>3. s.skipped \in Seq(Entry)
    BY <1>1 DEF State
  <2> HIDE DEF i
  <2>4. rest \in Seq(Entry) /\ Len(rest) = Len(s.skipped) - 1
    BY <2>1, <2>3, Dropped
  <2> HIDE DEF rest
  <2>5. /\ t \in State /\ t.skipped = rest /\ t.dhSend = s.dhSend /\ t.dhRemote = s.dhRemote
        /\ t.chainKeySend = s.chainKeySend
    BY <1>1, <2>4 DEF State
  <2>6. Len(rest) <= MAX_SKIP
    <3>1. Len(s.skipped) \in Nat
      BY <2>3
    <3>. QED
      BY <1>1, <2>4, <3>1
  <2> HIDE DEF t, d
  <2>7. Bounded(t, IF t.dhSend = fresh THEN g + 1 ELSE g)
    BY <1>3, <2>5, <2>6
  <2>. QED
    BY <2>2, <2>7 DEF Outcomes, d
<1>6. CASE Cached(s, m) = {} /\ m.dh # s.dhRemote
  <2>1. CASE TooMany(s, m.pn)
    <3>1. d = [outcome |-> "skip", state |-> s]
      BY <1>6, <2>1 DEF Decrypt
    <3>. QED
      BY <1>1, <1>3, <3>1 DEF Outcomes
  <2>2. CASE ~TooMany(s, m.pn)
    <3> DEFINE s1 == SkipMessageKeys(s, m.pn)
               s2 == DhRatchetStep(s1, m.dh, fresh)
    <3>1. d = OpenNext(s2, m)
      BY <1>6, <2>2 DEF Decrypt
    <3>2. SameKeys(s, s1)
      BY <1>1, SkipBounds
    <3> HIDE DEF s1
    <3>3. s2 \in State /\ s2.skipped = s1.skipped /\ s2.dhSend = fresh /\ s2.dhRemote = m.dh
      BY SMTT(30), <1>1, <3>2, StepBounds DEF SameKeys
    <3> HIDE DEF s2, d
    <3>4. d.outcome \in {"skip", "read", "garbled"} /\ SameKeys(s2, d.state)
      BY <1>1, <3>1, <3>2, <3>3, OpenBounds DEF SameKeys
    <3>5. Bounded(d.state, IF d.state.dhSend = fresh THEN g + 1 ELSE g)
      BY <1>4, <3>3, <3>4 DEF SameKeys
    <3>. QED
      BY <3>4, <3>5 DEF Outcomes, d
  <2>. QED
    BY <2>1, <2>2
<1>7. CASE Cached(s, m) = {} /\ m.dh = s.dhRemote
  <2>1. CASE m.n < s.recvCount
    <3>1. d = [outcome |-> "replay", state |-> s]
      BY <1>7, <2>1 DEF Decrypt
    <3>. QED
      BY <1>1, <1>3, <3>1 DEF Outcomes
  <2>2. CASE ~(m.n < s.recvCount)
    <3>1. d = OpenNext(s, m)
      BY <1>7, <2>2 DEF Decrypt
    <3>2. d.outcome \in {"skip", "read", "garbled"} /\ SameKeys(s, d.state)
      BY <1>1, <3>1, OpenBounds
    <3> HIDE DEF d
    <3>3. Bounded(d.state, IF d.state.dhSend = fresh THEN g + 1 ELSE g)
      BY <1>3, <3>2 DEF SameKeys
    <3>. QED
      BY <3>2, <3>3 DEF Outcomes, d
  <2>. QED
    BY <2>1, <2>2
<1>. QED
  BY <1>5, <1>6, <1>7

\* An operation is decrypting the message.
Opening(p, slot, i) == op[p][slot].kind = "decrypt" /\ op[p][slot].msg = i

MessagesTyped ==
    /\ sent \in Seq(Page) /\ again \in Nat /\ Len(sent) + again <= MaxSent
    /\ outcome \in Seq(Outcomes) /\ Len(outcome) = Len(sent)
    /\ reads \in Seq(Nat) /\ Len(reads) = Len(sent)

StatesTyped ==
    /\ raced \in BOOLEAN
    /\ generated \in [Parties -> Nat]
    /\ store \in [Parties -> State] /\ op \in [Parties -> [Slots -> Op]]
    /\ \A p \in Parties : Bounded(store[p], generated[p])
    /\ \A p \in Parties, slot \in Slots :
          /\ op[p][slot].kind # "none" => Bounded(op[p][slot].state, generated[p])
          /\ op[p][slot].kind = "decrypt" => /\ op[p][slot].msg \in DOMAIN sent
                                             /\ sent[op[p][slot].msg].from = Peer(p)

\* A message is decrypted once for its first delivery and once for each that was repeated.
ReadsCounted ==
    /\ \A p \in Parties, a, b \in Slots :
          op[p][a].kind = "decrypt" /\ op[p][b].kind = "decrypt" /\ op[p][a].msg = op[p][b].msg
            => a = b
    /\ \A i \in DOMAIN sent :
          /\ reads[i] <= again + 1
          /\ outcome[i] = "none" => reads[i] = 0
          /\ \A p \in Parties, slot \in Slots : Opening(p, slot, i) => reads[i] <= again

TInv == MessagesTyped /\ StatesTyped /\ ReadsCounted

LEMMA NoOpTyped == NoOp \in Op /\ NoOp.kind = "none" /\ InitReceiver \in State
<1>1. 1 \in Nat /\ 0 \in Nat /\ NoKey \in AllKeys /\ Key(Responder, 1) \in AllKeys
  BY DEF NoKey, Key, AllKeys, Parties
<1>2. InitReceiver \in State
  BY <1>1, NoChainTyped DEF InitReceiver, State, NoChain
<1>. QED
  BY <1>2 DEF NoOp, Op

LEMMA TypesInit == MAX_SKIP \in Nat /\ MaxSent \in Nat /\ Init => TInv
<1> SUFFICES ASSUME MAX_SKIP \in Nat, MaxSent \in Nat, Init PROVE TInv
  OBVIOUS
<1>1. /\ store = [p \in Parties |-> IF p = Initiator THEN InitSender ELSE InitReceiver]
      /\ generated = [p \in Parties |-> 1] /\ op = [p \in Parties |-> [s \in Slots |-> NoOp]]
      /\ sent = <<>> /\ outcome = <<>> /\ reads = <<>> /\ again = 0 /\ raced = FALSE
  BY DEF Init
<1>2. MessagesTyped /\ ReadsCounted
  <2>1. MessagesTyped
    BY <1>1 DEF MessagesTyped
  <2>2. \A p \in Parties, slot \in Slots : op[p][slot].kind = "none"
    BY <1>1, NoOpTyped
  <2>3. DOMAIN sent = {}
    BY <1>1
  <2>. QED
    BY <2>1, <2>2, <2>3 DEF ReadsCounted
<1>3. Bounded(InitReceiver, 1)
  <2>1. /\ InitReceiver.skipped = <<>> /\ InitReceiver.dhSend.k = 1
        /\ InitReceiver.chainKeySend = NoChain
    BY DEF InitReceiver, Key
  <2>2. Len(InitReceiver.skipped) = 0
    BY <2>1
  <2>. QED
    BY <2>1, <2>2, NoOpTyped DEF Bounded
<1>4. Bounded(InitSender, 1)
  <2> DEFINE root == KdfRoot(<<>>, Key(Initiator, 1), Key(Responder, 1))
  <2>1. Key(Initiator, 1) \in AllKeys /\ Key(Responder, 1) \in AllKeys /\ <<>> \in Chains
    BY DEF Key, AllKeys, Parties, Chains
  <2>2. root \in Chains
    BY <2>1, Derived
  <2>3. InitSender = [root |-> root, dhSend |-> Key(Initiator, 1), dhRemote |-> Key(Responder, 1),
                      chainKeySend |-> root, chainKeyRecv |-> NoChain,
                      sendCount |-> 0, recvCount |-> 0, prevSendCount |-> 0,
                      skipped |-> <<>>, evicted |-> {}]
    BY DEF InitSender
  <2> HIDE DEF root
  <2>4. InitSender \in State
    BY <2>1, <2>2, <2>3, NoChainTyped DEF State
  <2>5. /\ InitSender.skipped = <<>> /\ InitSender.dhSend.k = 1
        /\ InitSender.dhRemote = Key(Responder, 1)
    BY <2>3 DEF Key
  <2>6. InitSender.dhRemote # NoKey /\ Len(InitSender.skipped) = 0
    BY <2>5 DEF NoKey, Key
  <2>. QED
    BY <2>4, <2>5, <2>6 DEF Bounded
<1>5. StatesTyped
  <2>1. \A p \in Parties : Bounded(store[p], generated[p])
    BY <1>1, <1>3, <1>4
  <2>2. store \in [Parties -> State]
    BY <1>1, <1>3, <1>4 DEF Bounded
  <2>3. op \in [Parties -> [Slots -> Op]] /\ \A p \in Parties, slot \in Slots : op[p][slot] = NoOp
    BY <1>1, NoOpTyped
  <2>. QED
    BY <1>1, <2>1, <2>2, <2>3, NoOpTyped DEF StatesTyped
<1>. QED
  BY <1>2, <1>5 DEF TInv

\* An operation reads a state.
LEMMA GetTyped ==
    ASSUME TInv, NEW p \in Parties, NEW slot \in Slots, NEW kind \in {"encrypt", "decrypt"},
           NEW msg \in Nat,
           op[p][slot].kind = "none",
           op' = [op EXCEPT ![p][slot] = [kind |-> kind, state |-> store[p], msg |-> msg]],
           UNCHANGED <<store, generated, sent, outcome, reads, raced>>,
           again' \in {again, again + 1}, Len(sent) + again' <= MaxSent,
           kind = "decrypt" => /\ msg \in DOMAIN sent /\ sent[msg].from = Peer(p)
                               /\ \A other \in Slots : op[p][other].msg # msg
                               /\ reads[msg] <= again'
    PROVE  TInv'
<1> DEFINE o == [kind |-> kind, state |-> store[p], msg |-> msg]
<1>1. o \in Op /\ o.kind = kind /\ o.state = store[p] /\ o.msg = msg
  BY DEF Op, TInv, StatesTyped
<1> HIDE DEF o
<1>2. /\ op' \in [Parties -> [Slots -> Op]] /\ op'[p][slot] = o
      /\ \A q \in Parties, l \in Slots : (q = p /\ l = slot) \/ op'[q][l] = op[q][l]
  BY <1>1 DEF TInv, StatesTyped, o
<1>3. MessagesTyped'
  BY DEF TInv, MessagesTyped
<1>4. StatesTyped'
  BY <1>1, <1>2 DEF TInv, StatesTyped
<1>5. ReadsCounted'
  <2>1. \A i \in DOMAIN sent : reads[i] \in Nat
    BY DEF TInv, MessagesTyped
  <2>2. again \in Nat /\ again' \in Nat /\ again <= again'
    BY DEF TInv, MessagesTyped
  <2>3. ASSUME NEW i \in DOMAIN sent
        PROVE  /\ reads[i] <= again' + 1
               /\ outcome[i] = "none" => reads[i] = 0
               /\ \A q \in Parties, l \in Slots : Opening(q, l, i)' => reads[i] <= again'
    <3>1. /\ reads[i] <= again + 1
          /\ outcome[i] = "none" => reads[i] = 0
          /\ \A q \in Parties, l \in Slots : Opening(q, l, i) => reads[i] <= again
      BY DEF TInv, ReadsCounted
    <3>2. reads[i] <= again' + 1
      BY <2>1, <2>2, <3>1
    <3>3. ASSUME NEW q \in Parties, NEW l \in Slots, Opening(q, l, i)' PROVE reads[i] <= again'
      <4>1. CASE q = p /\ l = slot
        BY <1>1, <1>2, <3>3, <4>1 DEF Opening
      <4>2. CASE ~(q = p /\ l = slot)
        <5>1. reads[i] <= again
          BY <1>2, <3>1, <3>3, <4>2 DEF Opening
        <5>. QED
          BY <2>1, <2>2, <5>1
      <4>. QED
        BY <4>1, <4>2
    <3>. QED
      BY <3>1, <3>2, <3>3
  <2>4. ASSUME NEW q \in Parties, NEW a \in Slots, NEW b \in Slots,
               op'[q][a].kind = "decrypt", op'[q][b].kind = "decrypt", op'[q][a].msg = op'[q][b].msg
        PROVE  a = b
    BY <1>1, <1>2, <2>4 DEF TInv, ReadsCounted
  <2>. QED
    BY <2>3, <2>4 DEF ReadsCounted
<1>. QED
  BY <1>3, <1>4, <1>5 DEF TInv

\* An operation ends; a state may be put back.
LEMMA EndTyped ==
    ASSUME TInv, NEW p \in Parties, NEW slot \in Slots, op' = [op EXCEPT ![p][slot] = NoOp],
           raced' \in BOOLEAN, MessagesTyped',
           \A i \in DOMAIN sent : i \in DOMAIN sent' /\ sent'[i] = sent[i],
           \/ UNCHANGED <<store, generated>>
           \/ \E t : \E g \in {generated[p], generated[p] + 1} :
                /\ Bounded(t, g) /\ store' = [store EXCEPT ![p] = t]
                /\ generated' = [generated EXCEPT ![p] = g]
    PROVE  /\ StatesTyped' /\ op'[p][slot].kind = "none"
           /\ \A q \in Parties, l \in Slots : (q = p /\ l = slot) \/ op'[q][l] = op[q][l]
<1>1. /\ op' \in [Parties -> [Slots -> Op]] /\ op'[p][slot] = NoOp
      /\ \A q \in Parties, l \in Slots : (q = p /\ l = slot) \/ op'[q][l] = op[q][l]
  BY NoOpTyped DEF TInv, StatesTyped
<1>2. /\ store' \in [Parties -> State] /\ generated' \in [Parties -> Nat]
      /\ \A q \in Parties : generated[q] \in Nat /\ generated[q] <= generated'[q]
      /\ \A q \in Parties : Bounded(store'[q], generated'[q])
  <2>1. /\ store \in [Parties -> State] /\ generated \in [Parties -> Nat]
        /\ \A q \in Parties : Bounded(store[q], generated[q])
    BY DEF TInv, StatesTyped
  <2>2. CASE UNCHANGED <<store, generated>>
    BY <2>1, <2>2
  <2>3. ASSUME NEW t, NEW g \in {generated[p], generated[p] + 1}, Bounded(t, g),
               store' = [store EXCEPT ![p] = t], generated' = [generated EXCEPT ![p] = g]
        PROVE  <1>2
    <3>1. t \in State /\ g \in Nat /\ generated[p] <= g
      BY <2>1, <2>3 DEF Bounded
    <3>2. /\ store' \in [Parties -> State] /\ store'[p] = t
          /\ \A q \in Parties : q = p \/ store'[q] = store[q]
      BY <2>1, <2>3, <3>1
    <3>3. /\ generated' \in [Parties -> Nat] /\ generated'[p] = g
          /\ \A q \in Parties : q = p \/ generated'[q] = generated[q]
      BY <2>1, <2>3, <3>1
    <3>4. \A q \in Parties : Bounded(store'[q], generated'[q])
      BY <2>1, <2>3, <3>2, <3>3
    <3>5. \A q \in Parties : generated[q] \in Nat /\ generated[q] <= generated'[q]
      BY <2>1, <3>1, <3>3
    <3>. QED
      BY <3>2, <3>3, <3>4, <3>5
  <2>. QED
    BY <2>2, <2>3
<1>3. ASSUME NEW q \in Parties, NEW s, Bounded(s, generated[q]) PROVE Bounded(s, generated'[q])
  BY <1>2, <1>3 DEF Bounded
<1>4. ASSUME NEW q \in Parties, NEW l \in Slots
      PROVE  /\ op'[q][l].kind # "none" => Bounded(op'[q][l].state, generated'[q])
             /\ op'[q][l].kind = "decrypt" => /\ op'[q][l].msg \in DOMAIN sent'
                                              /\ sent'[op'[q][l].msg].from = Peer(q)
  <2>1. CASE q = p /\ l = slot
    BY <1>1, <2>1, NoOpTyped
  <2>2. CASE op'[q][l] = op[q][l]
    <3>1. /\ op[q][l].kind # "none" => Bounded(op[q][l].state, generated[q])
          /\ op[q][l].kind = "decrypt" => /\ op[q][l].msg \in DOMAIN sent
                                          /\ sent[op[q][l].msg].from = Peer(q)
      BY DEF TInv, StatesTyped
    <3>. QED
      BY <1>3, <2>2, <3>1
  <2>. QED
    BY <1>1, <2>1, <2>2
<1>5. StatesTyped'
  BY <1>1, <1>2, <1>4 DEF StatesTyped
<1>. QED
  BY <1>1, <1>5, NoOpTyped

LEMMA PutEncryptedTyped ==
    ASSUME MAX_SKIP \in Nat, MaxSent \in Nat, TInv,
           NEW p \in Parties, NEW slot \in Slots, PutEncrypted(p, slot)
    PROVE  TInv'
<1> DEFINE s    == op[p][slot].state
           t    == Encrypted(s)
           page == [from |-> p, sealed |-> Sealed(s)]
<1>1. /\ op[p][slot].kind = "encrypt" /\ op' = [op EXCEPT ![p][slot] = NoOp]
      /\ store' = [store EXCEPT ![p] = t] /\ UNCHANGED <<generated, again>>
      /\ sent' = Append(sent, page) /\ outcome' = Append(outcome, "none")
      /\ reads' = Append(reads, 0) /\ Len(sent) + again < MaxSent
      /\ raced' = (raced \/ store[p] # s)
  BY DEF PutEncrypted, Put
<1>2. Bounded(s, generated[p]) /\ s \in State
  BY <1>1 DEF TInv, StatesTyped, Bounded
<1>3. Bounded(t, generated[p])
  BY <1>2, EncryptedAre DEF Bounded
<1>4. page \in Page
  <2>1. /\ s.dhSend \in AllKeys /\ s.prevSendCount \in Nat /\ s.sendCount \in Nat
        /\ s.chainKeySend \in Chains /\ s.dhSend.k \in Nat \ {0}
    BY <1>2 DEF State, Bounded
  <2>2. MessageKey(s.chainKeySend, s.sendCount) \in MessageKeys
    BY <2>1 DEF MessageKey, MessageKeys
  <2>. QED
    BY <2>1, <2>2 DEF Page, Sheet, Sealed
<1> HIDE DEF t, page
<1>5. /\ sent \in Seq(Page) /\ outcome \in Seq(Outcomes) /\ reads \in Seq(Nat)
      /\ Len(outcome) = Len(sent) /\ Len(reads) = Len(sent) /\ again \in Nat
      /\ Len(sent) \in Nat /\ DOMAIN sent = 1..Len(sent)
  BY DEF TInv, MessagesTyped
<1>6. MessagesTyped'
  <2>1. sent' \in Seq(Page) /\ Len(sent') = Len(sent) + 1
    BY <1>1, <1>4, <1>5
  <2>2. outcome' \in Seq(Outcomes) /\ Len(outcome') = Len(sent) + 1
    BY <1>1, <1>5 DEF Outcomes
  <2>3. reads' \in Seq(Nat) /\ Len(reads') = Len(sent) + 1
    BY <1>1, <1>5
  <2>4. (Len(sent) + 1) + again <= MaxSent
    BY <1>1, <1>5
  <2>. QED
    BY <1>1, <1>5, <2>1, <2>2, <2>3, <2>4 DEF MessagesTyped
<1>7. /\ \A i \in DOMAIN sent : /\ i \in DOMAIN sent' /\ sent'[i] = sent[i]
                                /\ outcome'[i] = outcome[i] /\ reads'[i] = reads[i]
      /\ \A i \in DOMAIN sent' : i \in DOMAIN sent \/ (outcome'[i] = "none" /\ reads'[i] = 0)
  BY <1>1, <1>4, <1>5
<1>8. raced' \in BOOLEAN
  BY <1>1 DEF TInv, StatesTyped
<1>9. /\ StatesTyped' /\ op'[p][slot].kind = "none"
      /\ \A q \in Parties, l \in Slots : (q = p /\ l = slot) \/ op'[q][l] = op[q][l]
  <2>1. generated[p] \in {generated[p], generated[p] + 1}
        /\ generated' = [generated EXCEPT ![p] = generated[p]]
    BY <1>1 DEF TInv, StatesTyped
  <2>. QED
    BY <1>1, <1>3, <1>6, <1>7, <1>8, <2>1, EndTyped
<1>10. ReadsCounted'
  <2>1. ASSUME NEW i \in DOMAIN sent'
        PROVE  /\ reads'[i] <= again' + 1
               /\ outcome'[i] = "none" => reads'[i] = 0
               /\ \A q \in Parties, l \in Slots : Opening(q, l, i)' => reads'[i] <= again'
    <3>1. CASE i \in DOMAIN sent
      <4>1. reads'[i] = reads[i] /\ outcome'[i] = outcome[i] /\ again' = again
        BY <1>1, <1>7, <3>1
      <4>2. \A q \in Parties, l \in Slots : Opening(q, l, i)' => Opening(q, l, i)
        BY <1>9 DEF Opening
      <4>. QED
        BY <3>1, <4>1, <4>2 DEF TInv, ReadsCounted
    <3>2. CASE outcome'[i] = "none" /\ reads'[i] = 0
      BY <1>1, <1>5, <3>2
    <3>. QED
      BY <1>7, <3>1, <3>2
  <2>2. ASSUME NEW q \in Parties, NEW a \in Slots, NEW b \in Slots,
               op'[q][a].kind = "decrypt", op'[q][b].kind = "decrypt", op'[q][a].msg = op'[q][b].msg
        PROVE  a = b
    BY <1>9, <2>2 DEF TInv, ReadsCounted
  <2>. QED
    BY <2>1, <2>2 DEF ReadsCounted
<1>. QED
  BY <1>6, <1>9, <1>10 DEF TInv

LEMMA PutDecryptedTyped ==
    ASSUME Setting, TInv, NEW p \in Parties, NEW slot \in Slots, PutDecrypted(p, slot)
    PROVE  TInv'
<1>0. PICK i : i = op[p][slot].msg
  OBVIOUS
<1> DEFINE s      == op[p][slot].state
           fresh  == Key(p, generated[p] + 1)
           result == Decrypt(s, sent[i].sealed, fresh)
           g      == IF result.state.dhSend = fresh THEN generated[p] + 1 ELSE generated[p]
<1>1. /\ op[p][slot].kind = "decrypt" /\ op' = [op EXCEPT ![p][slot] = NoOp]
      /\ UNCHANGED <<sent, again>>
      /\ outcome' = IF outcome[i] = "none" THEN [outcome EXCEPT ![i] = result.outcome] ELSE outcome
      /\ \/ /\ store' = [store EXCEPT ![p] = result.state]
            /\ raced' = (raced \/ store[p] # s)
            /\ generated' = IF result.state.dhSend = fresh
                            THEN [generated EXCEPT ![p] = generated[p] + 1] ELSE generated
            /\ reads' = [reads EXCEPT ![i] = reads[i] + 1]
         \/ UNCHANGED <<store, generated, reads, raced>>
  BY <1>0 DEF PutDecrypted, Put
<1>2. /\ Bounded(s, generated[p]) /\ i \in DOMAIN sent /\ sent[i].from = Peer(p)
      /\ generated[p] \in Nat /\ generated \in [Parties -> Nat]
  BY <1>0, <1>1 DEF TInv, StatesTyped
<1>3. /\ sent \in Seq(Page) /\ outcome \in Seq(Outcomes) /\ reads \in Seq(Nat)
      /\ Len(outcome) = Len(sent) /\ Len(reads) = Len(sent) /\ again \in Nat
      /\ Len(sent) \in Nat /\ DOMAIN sent = 1..Len(sent) /\ DOMAIN outcome = DOMAIN sent
      /\ DOMAIN reads = DOMAIN sent
  BY DEF TInv, MessagesTyped
<1>4. sent[i].sealed \in Sheet
  <2>1. \A j \in DOMAIN sent : sent[j] \in Page
    BY <1>3
  <2>. QED
    BY <1>2, <2>1 DEF Page
<1>5. fresh \in AllKeys /\ fresh.k = generated[p] + 1
  BY <1>2 DEF Key, AllKeys
<1> HIDE DEF fresh
<1>6. result.outcome \in Outcomes \ {"none"} /\ Bounded(result.state, g)
  BY <1>2, <1>4, <1>5, DecryptBounds DEF Setting
<1>7. g \in {generated[p], generated[p] + 1}
      /\ (IF result.state.dhSend = fresh THEN [generated EXCEPT ![p] = generated[p] + 1]
          ELSE generated) = [generated EXCEPT ![p] = g]
  BY <1>2
<1> HIDE DEF g, result
<1>8. /\ outcome' \in Seq(Outcomes) /\ Len(outcome') = Len(sent)
      /\ outcome'[i] # "none" /\ \A j \in DOMAIN sent : j = i \/ outcome'[j] = outcome[j]
  BY <1>1, <1>2, <1>3, <1>6
<1>9. /\ reads' \in Seq(Nat) /\ Len(reads') = Len(sent)
      /\ reads'[i] \in {reads[i], reads[i] + 1}
      /\ \A j \in DOMAIN sent : j = i \/ reads'[j] = reads[j]
      /\ \A j \in DOMAIN sent : reads[j] \in Nat
  <2>1. \A j \in DOMAIN sent : reads[j] \in Nat
    BY <1>3
  <2>2. CASE reads' = [reads EXCEPT ![i] = reads[i] + 1]
    BY <1>2, <1>3, <2>1, <2>2
  <2>3. CASE reads' = reads
    BY <1>2, <1>3, <2>1, <2>3
  <2>. QED
    BY <1>1, <2>2, <2>3
<1>10. MessagesTyped'
  BY <1>1, <1>3, <1>8, <1>9 DEF TInv, MessagesTyped
<1>11. raced' \in BOOLEAN
  <2>1. raced \in BOOLEAN /\ (raced' = raced \/ raced' = (raced \/ store[p] # s))
    BY <1>1 DEF TInv, StatesTyped
  <2>. QED
    BY <2>1
<1>12. /\ StatesTyped' /\ op'[p][slot].kind = "none"
       /\ \A q \in Parties, l \in Slots : (q = p /\ l = slot) \/ op'[q][l] = op[q][l]
  <2>1. \A j \in DOMAIN sent : j \in DOMAIN sent' /\ sent'[j] = sent[j]
    BY <1>1
  <2>2. \/ UNCHANGED <<store, generated>>
        \/ /\ store' = [store EXCEPT ![p] = result.state]
           /\ generated' = [generated EXCEPT ![p] = g]
    BY <1>1, <1>7
  <2>3. \/ UNCHANGED <<store, generated>>
        \/ \E t : \E h \in {generated[p], generated[p] + 1} :
             /\ Bounded(t, h) /\ store' = [store EXCEPT ![p] = t]
             /\ generated' = [generated EXCEPT ![p] = h]
    BY <1>6, <1>7, <2>2
  <2>. QED
    BY <1>1, <1>10, <1>11, <2>1, <2>3, EndTyped
<1>13. ReadsCounted'
  <2>1. reads[i] <= again
    BY <1>0, <1>1, <1>2 DEF TInv, ReadsCounted, Opening
  <2>2. ASSUME NEW q \in Parties, NEW l \in Slots, Opening(q, l, i)' PROVE FALSE
    <3>0. op'[q][l].kind = "decrypt" /\ op'[q][l].msg = i
      BY <2>2 DEF Opening
    <3>1. ~(q = p /\ l = slot) /\ Opening(q, l, i)
      BY <1>12, <3>0 DEF Opening
    <3>2. Peer(q) = Peer(p)
      BY <1>2, <3>1 DEF TInv, StatesTyped, Opening
    <3>3. q = p
      BY <3>2 DEF Setting, Parties, Peer
    <3>. QED
      BY <1>0, <1>1, <3>1, <3>3 DEF TInv, ReadsCounted, Opening
  <2>3. ASSUME NEW j \in DOMAIN sent
        PROVE  /\ reads'[j] <= again + 1
               /\ outcome'[j] = "none" => reads'[j] = 0
               /\ \A q \in Parties, l \in Slots : Opening(q, l, j)' => reads'[j] <= again
    <3>1. CASE j = i
      <4>1. reads'[i] <= again + 1
        BY SMTT(30), <1>2, <1>3, <1>9, <2>1
      <4>. QED
        BY <1>8, <2>2, <3>1, <4>1
    <3>2. CASE j # i
      <4>1. reads'[j] = reads[j] /\ outcome'[j] = outcome[j]
        BY <1>8, <1>9, <3>2
      <4>2. \A q \in Parties, l \in Slots : Opening(q, l, j)' => Opening(q, l, j)
        BY <1>12 DEF Opening
      <4>. QED
        BY <4>1, <4>2 DEF TInv, ReadsCounted
    <3>. QED
      BY <3>1, <3>2
  <2>4. ASSUME NEW q \in Parties, NEW a \in Slots, NEW b \in Slots,
               op'[q][a].kind = "decrypt", op'[q][b].kind = "decrypt", op'[q][a].msg = op'[q][b].msg
        PROVE  a = b
    BY <1>12, <2>4 DEF TInv, ReadsCounted
  <2>. QED
    BY <1>1, <2>3, <2>4 DEF ReadsCounted
<1>. QED
  BY <1>10, <1>12, <1>13 DEF TInv

LEMMA TypesStep == Setting /\ MaxSent \in Nat /\ TInv /\ [Next]_vars => TInv'
<1> SUFFICES ASSUME Setting, MaxSent \in Nat, TInv, [Next]_vars PROVE TInv'
  OBVIOUS
<1>1. CASE UNCHANGED vars
  BY <1>1 DEF vars, TInv, MessagesTyped, StatesTyped, ReadsCounted, Opening
<1>2. ASSUME NEW p \in Parties, NEW slot \in Slots, GetToEncrypt(p, slot) PROVE TInv'
  <2>1. /\ op[p][slot].kind = "none" /\ Len(sent) + again < MaxSent
        /\ op' = [op EXCEPT ![p][slot] = [kind |-> "encrypt", state |-> store[p], msg |-> 0]]
        /\ UNCHANGED <<store, generated, sent, outcome, reads, again, raced>>
    BY <1>2 DEF GetToEncrypt
  <2>2. Len(sent) + again' <= MaxSent
    BY <2>1 DEF TInv, MessagesTyped
  <2>. QED
    BY <2>1, <2>2, GetTyped
<1>3. ASSUME NEW p \in Parties, NEW slot \in Slots, GetToDecrypt(p, slot) PROVE TInv'
  <2>1. PICK i \in DOMAIN sent :
          /\ sent[i].from = Peer(p) /\ \A other \in Slots : op[p][other].msg # i
          /\ again' = IF outcome[i] = "none" THEN again ELSE again + 1
          /\ Len(sent) + again' <= MaxSent
          /\ op' = [op EXCEPT ![p][slot] = [kind |-> "decrypt", state |-> store[p], msg |-> i]]
    BY <1>3 DEF GetToDecrypt
  <2>2. op[p][slot].kind = "none" /\ UNCHANGED <<store, generated, sent, outcome, reads, raced>>
    BY <1>3 DEF GetToDecrypt
  <2>3. i \in Nat /\ again \in Nat
    BY DEF TInv, MessagesTyped
  <2>4. reads[i] <= again'
    BY <2>1, <2>3 DEF TInv, ReadsCounted
  <2>. QED
    BY <2>1, <2>2, <2>3, <2>4, GetTyped
<1>. QED
  BY <1>1, <1>2, <1>3, PutEncryptedTyped, PutDecryptedTyped DEF Next, Setting

\* The cache has MAX_SKIP keys at most, and a text is recovered once for its first delivery
\* and at most once for each that was repeated, even if states were overwritten (ratchet.ts
\* skipMessageKeys, e2eeSession.ts).
THEOREM CacheIsBounded ==
    ASSUME Initiator # Responder, MAX_SKIP \in Nat, MaxSent \in Nat
    PROVE  Spec => []TypeOK
<1>1. Setting
  BY DEF Setting
<1>2. TInv => TypeOK
  <2> SUFFICES ASSUME TInv PROVE TypeOK
    OBVIOUS
  <2>1. /\ sent \in Seq(Page) /\ outcome \in Seq(Outcomes) /\ reads \in Seq(Nat)
        /\ Len(outcome) = Len(sent) /\ Len(reads) = Len(sent) /\ again \in Nat
        /\ Len(sent) + again <= MaxSent
    BY DEF TInv, MessagesTyped
  <2>2. /\ DOMAIN outcome = DOMAIN sent /\ DOMAIN reads = DOMAIN sent
        /\ \A i \in DOMAIN sent : /\ sent[i] \in Page /\ outcome[i] \in Outcomes
                                  /\ reads[i] \in Nat
    BY <2>1
  <2>3. \A i \in DOMAIN sent : reads[i] \in 0..(again + 1)
    BY <2>1, <2>2 DEF TInv, ReadsCounted
  <2>4. \A i \in DOMAIN sent : sent[i].from \in Parties
    BY <2>2 DEF Page
  <2>5. \A p \in Parties : /\ Len(store[p].skipped) <= MAX_SKIP
                           /\ generated[p] \in Nat /\ store[p].dhSend.k <= generated[p]
                           /\ store[p].chainKeySend # NoChain => store[p].dhRemote # NoKey
    BY DEF TInv, StatesTyped, Bounded
  <2>6. raced \in BOOLEAN
    BY DEF TInv, StatesTyped
  <2>. QED
    BY <2>1, <2>2, <2>3, <2>4, <2>5, <2>6 DEF TypeOK, Outcomes
<1>. QED
  BY <1>1, <1>2, TypesInit, TypesStep, PTL DEF Spec
===============================================================================
