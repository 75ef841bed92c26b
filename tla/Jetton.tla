------------------------------- MODULE Jetton -------------------------------
(***************************************************************************)
(* The W-BIT jetton (wbit-token/contracts): the minter, which counts the   *)
(* total supply, and one wallet contract per owner.  Contracts tell each   *)
(* other of tokens by messages that take their time, overtake each other   *)
(* and, when their handler throws, come back as bounced messages.          *)
(*                                                                         *)
(* Gas, storage fees, forwarded payloads and notifications to owners carry *)
(* no tokens and are left out, except that any handler may throw.          *)
(***************************************************************************)
EXTENDS Naturals, FiniteSets

CONSTANTS
    Owners,
    Amounts,        \* the amounts of one operation
    MaxMessages,    \* bounds the operations of owners and admin
    MaxFaults       \* bounds the handlers that throw

Ids    == 1..MaxMessages
Minter == "minter"

VARIABLES
    total_supply,   \* of the minter
    balance,        \* owner -> the balance of the wallet
    messages,       \* the messages between contracts
    sent,           \* how many operations there were
    lost,           \* history: the tokens of bounced mints and of bounces whose handler threw
    faults

vars == <<total_supply, balance, messages, sent, lost, faults>>

\* op is the operation, from and to are contracts, the wallets named by their owners.
Message(id, op, from, to, amount, bounced) ==
    [id |-> id, op |-> op, from |-> from, to |-> to, amount |-> amount, bounced |-> bounced]

Init ==
    /\ total_supply = 0 /\ balance = [o \in Owners |-> 0]
    /\ messages = {} /\ sent = 0 /\ lost = 0 /\ faults = 0

SendNew(op, from, to, amount) ==
    /\ sent < MaxMessages
    /\ sent' = sent + 1
    /\ messages' = messages \cup {Message(sent + 1, op, from, to, amount, FALSE)}

-------------------------------------------------------------------------------
\* op::mint, from the admin: "mint_tokens", then total_supply is saved.
Mint(to, amount) ==
    /\ SendNew("internal_transfer", Minter, to, amount)
    /\ total_supply' = total_supply + amount
    /\ UNCHANGED <<balance, lost, faults>>

\* op::transfer, from the owner: send_tokens.
SendTokens(owner, to, amount) ==
    /\ balance[owner] >= amount
    /\ SendNew("internal_transfer", owner, to, amount)
    /\ balance' = [balance EXCEPT ![owner] = balance[owner] - amount]
    /\ UNCHANGED <<total_supply, lost, faults>>

\* op::burn, from the owner: burn_tokens.
BurnTokens(owner, amount) ==
    /\ balance[owner] >= amount
    /\ SendNew("burn_notification", owner, Minter, amount)
    /\ balance' = [balance EXCEPT ![owner] = balance[owner] - amount]
    /\ UNCHANGED <<total_supply, lost, faults>>

\* op::internal_transfer: receive_tokens.
ReceiveTokens(m) ==
    /\ m \in messages /\ m.op = "internal_transfer" /\ ~m.bounced
    /\ balance' = [balance EXCEPT ![m.to] = balance[m.to] + m.amount]
    /\ messages' = messages \ {m}
    /\ UNCHANGED <<total_supply, sent, lost, faults>>

\* op::burn_notification.
BurnNotification(m) ==
    /\ m \in messages /\ m.op = "burn_notification" /\ ~m.bounced
    /\ total_supply' = total_supply - m.amount
    /\ messages' = messages \ {m}
    /\ UNCHANGED <<balance, sent, lost, faults>>

\* A handler throws: its changes are undone, and the message bounces.
Bounce(m) ==
    /\ m \in messages /\ ~m.bounced
    /\ faults < MaxFaults /\ faults' = faults + 1
    /\ messages' = (messages \ {m}) \cup {[m EXCEPT !.bounced = TRUE]}
    /\ UNCHANGED <<total_supply, balance, sent, lost>>

\* Mutant of OnBounce: only transfers are restored.
OnBounceTransfer(m) ==
    /\ m \in messages /\ m.bounced /\ m.from # Minter
    /\ balance' = IF m.op = "internal_transfer"
                  THEN [balance EXCEPT ![m.from] = balance[m.from] + m.amount] ELSE balance
    /\ messages' = messages \ {m}
    /\ UNCHANGED <<total_supply, sent, lost, faults>>

\* on_bounce of the wallet: "Restore balance on bounce".
OnBounce(m) ==
    /\ m \in messages /\ m.bounced /\ m.from # Minter
    /\ balance' = [balance EXCEPT ![m.from] = balance[m.from] + m.amount]
    /\ messages' = messages \ {m}
    /\ UNCHANGED <<total_supply, sent, lost, faults>>

\* recv_internal of the minter: "ignore bounced messages".
IgnoreBounce(m) ==
    /\ m \in messages /\ m.bounced /\ m.from = Minter
    /\ messages' = messages \ {m}
    /\ lost' = lost + m.amount
    /\ UNCHANGED <<total_supply, balance, sent, faults>>

\* A bounced message does not bounce again.
DropBounce(m) ==
    /\ m \in messages /\ m.bounced /\ m.from # Minter
    /\ faults < MaxFaults /\ faults' = faults + 1
    /\ messages' = messages \ {m}
    /\ lost' = lost + m.amount
    /\ UNCHANGED <<total_supply, balance, sent>>

Next ==
    \/ \E o \in Owners, a \in Amounts :
          \/ Mint(o, a) \/ BurnTokens(o, a)
          \/ \E to \in Owners : SendTokens(o, to, a)
    \/ \E m \in messages :
          \/ ReceiveTokens(m) \/ BurnNotification(m)
          \/ Bounce(m) \/ OnBounce(m) \/ IgnoreBounce(m) \/ DropBounce(m)

Spec == Init /\ [][Next]_vars

-------------------------------------------------------------------------------
(* Properties.                                                             *)

\* Every variable has its type; no balance and no supply is below zero.
TypeOK ==
    /\ total_supply \in Nat /\ lost \in Nat
    /\ balance \in [Owners -> Nat]
    /\ messages \subseteq [id : Ids, op : {"internal_transfer", "burn_notification"},
                           from : Owners \cup {Minter}, to : Owners \cup {Minter},
                           amount : Amounts, bounced : BOOLEAN]
    /\ sent \in 0..MaxMessages /\ faults \in 0..MaxFaults

\* The tokens that holders have, each with a number: as many as the sum of the amounts.
Tokens(amount) == UNION {{h} \X (1..amount[h]) : h \in DOMAIN amount}

\* The tokens the minter counts are those in the wallets and those on their way,
\* as mints, transfers, burns or bounces of them, together with what was lost:
\* a mint that bounced stays in total_supply (jetton-minter.fc ignores it), and
\* so do tokens whose bounced message could not be handled.
Conserved ==
    total_supply = Cardinality(Tokens(balance))
                   + Cardinality(Tokens([m \in messages |-> m.amount])) + lost
===============================================================================
