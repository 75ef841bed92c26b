------------------------------- MODULE Ratchet -------------------------------
(***************************************************************************)
(* A secret chat of two users once both have their session: the double     *)
(* ratchet (shared/crypto/src/ratchet.ts), and the session manager of the  *)
(* client around it (client/src/lib/security/e2eeSession.ts), which reads  *)
(* the state from the key store, lets the ratchet change its copy, and     *)
(* puts the copy back.  The messages between the two may be lost, come in  *)
(* any order and come again (the history is decrypted after each reload).  *)
(*                                                                         *)
(* Cryptography is symbolic: a Diffie-Hellman output is the set of the two *)
(* key pairs, a root key the sequence of the outputs that went into it.    *)
(***************************************************************************)
EXTENDS Naturals, Sequences

CONSTANTS
    Initiator, Responder,
    Slots,          \* the operations of one client that may overlap
    MAX_SKIP,       \* "Max number of message keys cached for out-of-order delivery"
    MaxSent         \* bounds the messages and the repeated deliveries, together

Parties == {Initiator, Responder}
Peer(p) == IF p = Initiator THEN Responder ELSE Initiator

VARIABLES
    store,          \* party -> its RatchetState
    generated,      \* party -> how many key pairs it has generated
    op,             \* party, slot -> the operation under way and the state it has read
    sent,           \* the messages, in the order of their encryption
    outcome,        \* message -> what came of its first delivery
    reads,          \* message -> how often its text was recovered
    again,          \* how many deliveries were repeated
    raced           \* history: a state was put back over one that had not been read

vars == <<store, generated, op, sent, outcome, reads, again, raced>>

Key(p, k) == [of |-> p, k |-> k]
NoKey   == Key(Responder, 0)
NoChain == <<>>

\* kdfRoot: the root key, and the name of the chain that comes with it.
KdfRoot(root, mine, theirs) == Append(root, {mine, theirs})

-------------------------------------------------------------------------------
(* ratchet.ts.                                                             *)

\* initSender: the responder's first key pair is its signed prekey.
InitSender ==
    LET root == KdfRoot(<<>>, Key(Initiator, 1), Key(Responder, 1))
    IN  [root |-> root, dhSend |-> Key(Initiator, 1), dhRemote |-> Key(Responder, 1),
         chainKeySend |-> root, chainKeyRecv |-> NoChain,
         sendCount |-> 0, recvCount |-> 0, prevSendCount |-> 0,
         skipped |-> <<>>, evicted |-> {}]

InitReceiver ==
    [root |-> <<>>, dhSend |-> Key(Responder, 1), dhRemote |-> NoKey,
     chainKeySend |-> NoChain, chainKeyRecv |-> NoChain,
     sendCount |-> 0, recvCount |-> 0, prevSendCount |-> 0,
     skipped |-> <<>>, evicted |-> {}]

NoOp == [kind |-> "none", state |-> InitReceiver, msg |-> 0]

MessageKey(chain, n) == [chain |-> chain, n |-> n]

\* What ratchetEncrypt seals, and the state it leaves.
Sealed(s) ==
    [dh |-> s.dhSend, pn |-> s.prevSendCount, n |-> s.sendCount,
     key |-> MessageKey(s.chainKeySend, s.sendCount)]
Encrypted(s) == [s EXCEPT !.sendCount = s.sendCount + 1]

TooMany(s, until) == s.chainKeyRecv # NoChain /\ until > s.recvCount + MAX_SKIP

\* Mutant of SkipMessageKeys: what is left of the old chain is not cached.
SkipNothing(s, until) ==
    IF s.chainKeyRecv = NoChain \/ s.recvCount >= until THEN s
    ELSE [s EXCEPT !.recvCount = until]

\* skipMessageKeys: the cache keeps the latest MAX_SKIP keys.
SkipMessageKeys(s, until) ==
    IF s.chainKeyRecv = NoChain \/ s.recvCount >= until THEN s
    ELSE LET passed == [i \in 1..(until - s.recvCount) |->
                           [dh |-> s.dhRemote, n |-> s.recvCount + i - 1,
                            key |-> MessageKey(s.chainKeyRecv, s.recvCount + i - 1)]]
             all    == s.skipped \o passed
             excess == IF Len(all) > MAX_SKIP THEN Len(all) - MAX_SKIP ELSE 0
         IN  [s EXCEPT !.recvCount = until,
                       !.skipped = SubSeq(all, excess + 1, Len(all)),
                       !.evicted = s.evicted \cup {all[i].key : i \in 1..excess}]

\* dhRatchetStep, where fresh is the new key pair.
DhRatchetStep(s, remote, fresh) ==
    LET root1 == KdfRoot(s.root, s.dhSend, remote)
        root2 == KdfRoot(root1, fresh, remote)
    IN  [s EXCEPT !.prevSendCount = s.sendCount, !.sendCount = 0, !.recvCount = 0,
                  !.dhRemote = remote, !.chainKeyRecv = root1,
                  !.dhSend = fresh, !.root = root2, !.chainKeySend = root2]

Cached(s, m) == {i \in DOMAIN s.skipped : s.skipped[i].dh = m.dh /\ s.skipped[i].n = m.n}

\* The message is opened with the next key of the receiving chain.
OpenNext(s, m) ==
    IF TooMany(s, m.n) THEN [outcome |-> "skip", state |-> s]
    ELSE LET s1 == SkipMessageKeys(s, m.n)
         IN  [outcome |-> IF MessageKey(s1.chainKeyRecv, s1.recvCount) = m.key
                          THEN "read" ELSE "garbled",
              state |-> [s1 EXCEPT !.recvCount = s1.recvCount + 1]]

\* ratchetDecrypt.
Decrypt(s, m, fresh) ==
    CASE Cached(s, m) # {} ->
            LET i == CHOOSE j \in Cached(s, m) : TRUE
            IN  [outcome |-> IF s.skipped[i].key = m.key THEN "read" ELSE "garbled",
                 state |-> [s EXCEPT !.skipped = SubSeq(s.skipped, 1, i - 1)
                                         \o SubSeq(s.skipped, i + 1, Len(s.skipped))]]
      [] Cached(s, m) = {} /\ m.dh # s.dhRemote ->
            IF TooMany(s, m.pn) THEN [outcome |-> "skip", state |-> s]
            ELSE OpenNext(DhRatchetStep(SkipMessageKeys(s, m.pn), m.dh, fresh), m)
      [] OTHER ->
            IF m.n < s.recvCount THEN [outcome |-> "replay", state |-> s] ELSE OpenNext(s, m)

-------------------------------------------------------------------------------
(* e2eeSession.ts.                                                         *)

Init ==
    /\ store = [p \in Parties |-> IF p = Initiator THEN InitSender ELSE InitReceiver]
    /\ generated = [p \in Parties |-> 1]
    /\ op = [p \in Parties |-> [s \in Slots |-> NoOp]]
    /\ sent = <<>> /\ outcome = <<>> /\ reads = <<>>
    /\ again = 0 /\ raced = FALSE

\* encryptForPeer: getSecret.  Without a sending chain ratchetEncrypt throws.
GetToEncrypt(p, slot) ==
    /\ op[p][slot].kind = "none" /\ Len(sent) + again < MaxSent
    /\ store[p].chainKeySend # NoChain
    /\ op' = [op EXCEPT ![p][slot] = [kind |-> "encrypt", state |-> store[p], msg |-> 0]]
    /\ UNCHANGED <<store, generated, sent, outcome, reads, again, raced>>

\* putSecret: "state was mutated - persist".
Put(p, slot, state) ==
    /\ op' = [op EXCEPT ![p][slot] = NoOp]
    /\ store' = [store EXCEPT ![p] = state]
    /\ raced' = (raced \/ store[p] # op[p][slot].state)

\* ratchetEncrypt and putSecret; the message leaves, or is lost on its way.
PutEncrypted(p, slot) ==
    LET s == op[p][slot].state
    IN  /\ op[p][slot].kind = "encrypt" /\ Len(sent) + again < MaxSent
        /\ Put(p, slot, Encrypted(s))
        /\ sent' = Append(sent, [from |-> p, sealed |-> Sealed(s)])
        /\ outcome' = Append(outcome, "none") /\ reads' = Append(reads, 0)
        /\ UNCHANGED <<generated, again>>

\* decryptFromPeer: getSecret, for a message that came by socket or history.
GetToDecrypt(p, slot) ==
    /\ op[p][slot].kind = "none"
    /\ \E i \in DOMAIN sent :
          /\ sent[i].from = Peer(p)
          /\ \A other \in Slots : op[p][other].msg # i
          /\ again' = IF outcome[i] = "none" THEN again ELSE again + 1
          /\ Len(sent) + again' <= MaxSent
          /\ op' = [op EXCEPT ![p][slot] = [kind |-> "decrypt", state |-> store[p], msg |-> i]]
    /\ UNCHANGED <<store, generated, sent, outcome, reads, raced>>

\* ratchetDecrypt, and putSecret if it does not throw.
PutDecrypted(p, slot) ==
    LET i      == op[p][slot].msg
        fresh  == Key(p, generated[p] + 1)
        result == Decrypt(op[p][slot].state, sent[i].sealed, fresh)
    IN  /\ op[p][slot].kind = "decrypt"
        /\ IF result.outcome = "read"
           THEN /\ Put(p, slot, result.state)
                /\ generated' = IF result.state.dhSend = fresh
                                THEN [generated EXCEPT ![p] = generated[p] + 1] ELSE generated
                /\ reads' = [reads EXCEPT ![i] = reads[i] + 1]
           ELSE /\ op' = [op EXCEPT ![p][slot] = NoOp]
                /\ UNCHANGED <<store, generated, reads, raced>>
        /\ outcome' = IF outcome[i] = "none"
                      THEN [outcome EXCEPT ![i] = result.outcome] ELSE outcome
        /\ UNCHANGED <<sent, again>>

Next ==
    \E p \in Parties : \E slot \in Slots :
        \/ GetToEncrypt(p, slot) \/ PutEncrypted(p, slot)
        \/ GetToDecrypt(p, slot) \/ PutDecrypted(p, slot)

Spec == Init /\ [][Next]_vars

-------------------------------------------------------------------------------
(* Properties.                                                             *)

\* The messages and what is recorded of them go together, and the cache is bounded.
TypeOK ==
    /\ Len(sent) + again <= MaxSent /\ raced \in BOOLEAN
    /\ DOMAIN outcome = DOMAIN sent /\ DOMAIN reads = DOMAIN sent
    /\ \A i \in DOMAIN sent : /\ sent[i].from \in Parties
                              /\ outcome[i] \in {"none", "read", "skip", "replay", "garbled"}
                              /\ reads[i] \in 0..(again + 1)
    /\ \A p \in Parties : /\ Len(store[p].skipped) <= MAX_SKIP
                          /\ generated[p] \in Nat /\ store[p].dhSend.k <= generated[p]
                          /\ store[p].chainKeySend # NoChain => store[p].dhRemote # NoKey

\* "Forward secrecy: every message is encrypted with a fresh one-time key"
\* (ratchet.ts).
FreshKeys ==
    \A i, j \in DOMAIN sent : i # j => sent[i].sealed.key # sent[j].sealed.key

\* "Out-of-order delivery: skipped message keys are cached (bounded by
\* MAX_SKIP)", "replays throw" (ratchet.ts): whatever order the messages of both
\* sides arrive in, the first delivery recovers the text and no later one does,
\* unless it is too far ahead, its key was evicted from the cache, or states
\* were overwritten.
ReadOnArrivalOnly ==
    raced \/ \A i \in DOMAIN sent :
        /\ outcome[i] \in {"replay", "garbled"}
             => sent[i].sealed.key \in store[Peer(sent[i].from)].evicted
        /\ (outcome[i] = "read") => reads[i] = 1
===============================================================================
