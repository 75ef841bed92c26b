------------------------------- MODULE SendOnce -------------------------------
(***************************************************************************)
(* What sending a message promises (infrastructure/migrations/             *)
(* 007_message_dedup.sql): a client may repeat POST /messages under one    *)
(* clientMessageId as often as it likes; one message is stored for it,     *)
(* every answer names that message, and it is announced at most once.      *)
(***************************************************************************)
EXTENDS Naturals

CONSTANTS
    Users,      \* the senders
    Keys,       \* clientMessageIds
    NoKey,      \* a send without clientMessageId
    Ids         \* messages

VARIABLES
    accepted,   \* the stored messages: <<sender, key, id>>
    announced,  \* how often each message has been announced
    answers     \* the answers given: <<sender, key, id>>

vars == <<accepted, announced, answers>>

Init ==
    /\ accepted = {}
    /\ announced = [id \in Ids |-> 0]
    /\ answers = {}

\* A send under a new key, or under none, stores a new message.
Accept(sender, key, id) ==
    /\ \A a \in accepted : a[3] # id
    /\ key # NoKey => \A a \in accepted : a[1] # sender \/ a[2] # key
    /\ accepted' = accepted \cup {<<sender, key, id>>}
    /\ UNCHANGED <<announced, answers>>

\* A stored message is announced, once, and the send that stored it answered.
Announce(sender, key, id) ==
    /\ <<sender, key, id>> \in accepted
    /\ announced[id] = 0
    /\ announced' = [announced EXCEPT ![id] = 1]
    /\ answers' = answers \cup {<<sender, key, id>>}
    /\ UNCHANGED accepted

\* A send that is repeated is answered with the message stored before.
Answer(sender, key, id) ==
    /\ <<sender, key, id>> \in accepted
    /\ answers' = answers \cup {<<sender, key, id>>}
    /\ UNCHANGED <<accepted, announced>>

Next ==
    \E sender \in Users, key \in Keys \cup {NoKey}, id \in Ids :
        Accept(sender, key, id) \/ Announce(sender, key, id) \/ Answer(sender, key, id)

Spec == Init /\ [][Next]_vars
===============================================================================
