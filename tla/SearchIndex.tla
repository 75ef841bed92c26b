----------------------------- MODULE SearchIndex -----------------------------
(***************************************************************************)
(* The search worker (workers/search-worker): it consumes the events of    *)
(* messages, collects operations in a buffer and writes the buffer to      *)
(* Elasticsearch in bulk, when it is full or half a second has passed.     *)
(* Nobody waits for a bulk write: the next may start before it ends.  The  *)
(* write itself may be partial (single operations fail, and are logged),   *)
(* and an attempt whose answer is lost may have been carried out: the      *)
(* client of Elasticsearch makes it again, and the identifiers of its own  *)
(* make every attempt a new document.                                      *)
(*                                                                         *)
(* The handlers look for messageId in the payload.  That of a new message  *)
(* has id instead, so that its document gets an identifier of              *)
(* Elasticsearch's own; that of an edit has neither a messageId next to    *)
(* content, so that nothing is enqueued; and a deletion names a document   *)
(* that is not there.                                                      *)
(***************************************************************************)
EXTENDS Naturals, Sequences, FiniteSets

CONSTANTS
    Script,         \* the events in their order: "sent", "edited" or "deleted"
    BULK_MAX_SIZE,
    MAX_RETRIES,    \* how often the client makes a bulk write again
    MaxBulks,       \* bounds the bulk writes
    MaxFaults       \* bounds restarts

Bulks  == 1..MaxBulks
Events == 1..Len(Script)

VARIABLES
    consumed,       \* how many events the worker is past
    bulkBuffer,     \* the events whose operations are in the buffer
    bulk,           \* bulk write -> its state, its operations, the retries it has left
    documents,      \* event -> how many documents of it the index has
    unanswered,     \* history: event -> how many of them an attempt left whose answer
                    \* was lost and which was made again
    lost,           \* history: the events skipped, or whose operation was dropped
    faults

vars == <<consumed, bulkBuffer, bulk, documents, unanswered, lost, faults>>

Init ==
    /\ consumed = 0 /\ bulkBuffer = <<>>
    /\ bulk = [b \in Bulks |-> [state |-> "unused", ops |-> <<>>, retries |-> 0]]
    /\ documents = [e \in Events |-> 0] /\ unanswered = [e \in Events |-> 0]
    /\ lost = {} /\ faults = 0

Started    == {b \in Bulks : bulk[b].state = "started"}
Times(e, ops) == Cardinality({i \in DOMAIN ops : ops[i] = e})
EventsOf(ops) == {ops[i] : i \in DOMAIN ops}

\* flushBulk up to its await: the buffer is spliced.
StartBulk(ops) ==
    \E b \in Bulks :
        /\ bulk[b].state = "unused"
        /\ \A other \in Bulks : other < b => bulk[other].state # "unused"
        /\ bulk' = [bulk EXCEPT ![b] = [state |-> "started", ops |-> ops,
                                        retries |-> MAX_RETRIES]]

\* A handler, and enqueueBulk, which flushes a full buffer.
Consume ==
    /\ consumed < Len(Script)
    /\ consumed' = consumed + 1
    /\ IF Script[consumed + 1] = "edited" THEN UNCHANGED <<bulkBuffer, bulk>>
       ELSE LET buffer == Append(bulkBuffer, consumed + 1)
            IN  IF Len(buffer) >= BULK_MAX_SIZE
                THEN StartBulk(buffer) /\ bulkBuffer' = <<>>
                ELSE bulkBuffer' = buffer /\ bulk' = bulk
    /\ UNCHANGED <<documents, unanswered, lost, faults>>

\* The timer, or the shutdown.
Flush ==
    /\ bulkBuffer # <<>>
    /\ StartBulk(bulkBuffer)
    /\ bulkBuffer' = <<>>
    /\ UNCHANGED <<consumed, documents, unanswered, lost, faults>>

\* The documents that carrying out the operations of some events leaves.
Indexed(count, ops, carried) ==
    [e \in Events |-> count[e] + IF Script[e] = "sent" /\ e \in carried THEN Times(e, ops) ELSE 0]

\* Mutant of EndBulk: the buffer is emptied when the write has ended.
EndBulkAndClear(b, carried) ==
    /\ b \in Started
    /\ documents' = Indexed(documents, bulk[b].ops, carried)
    /\ bulk' = [bulk EXCEPT ![b].state = "done"]
    /\ lost' = lost \cup (EventsOf(bulk[b].ops) \ carried)
    /\ bulkBuffer' = <<>>
    /\ UNCHANGED <<consumed, unanswered, faults>>

\* The last attempt of a bulk write: Elasticsearch carries out some of its operations,
\* all of them if nothing goes wrong.  The others had an error of their own in the
\* answer, which is logged; or the whole write failed, or its answer was lost ("Bulk
\* indexing failed - offsets NOT committed, will retry on restart"): whatever was not
\* carried out is in no buffer any more.
EndBulk(b, carried) ==
    /\ b \in Started
    /\ documents' = Indexed(documents, bulk[b].ops, carried)
    /\ bulk' = [bulk EXCEPT ![b].state = "done"]
    /\ lost' = lost \cup (EventsOf(bulk[b].ops) \ carried)
    /\ UNCHANGED <<consumed, bulkBuffer, unanswered, faults>>

\* An attempt fails or its answer is lost, whatever was carried out, and the client
\* makes it again.
RetryBulk(b, carried) ==
    /\ b \in Started /\ bulk[b].retries > 0
    /\ documents'  = Indexed(documents, bulk[b].ops, carried)
    /\ unanswered' = Indexed(unanswered, bulk[b].ops, carried)
    /\ bulk' = [bulk EXCEPT ![b].retries = @ - 1]
    /\ UNCHANGED <<consumed, bulkBuffer, lost, faults>>

\* The process stops and another starts.  pendingOffsets is never filled, so that
\* no offset was ever committed, and a group without one starts from the end.
\* What was under way may still be carried out, but nobody is left to make it again.
Restart ==
    /\ faults < MaxFaults /\ faults' = faults + 1
    /\ \E next \in consumed..Len(Script) :
          /\ consumed' = next
          /\ lost' = lost \cup EventsOf(bulkBuffer) \cup (consumed + 1)..next
    /\ bulkBuffer' = <<>>
    /\ bulk' = [b \in Bulks |-> [bulk[b] EXCEPT !.retries = 0]]
    /\ UNCHANGED <<documents, unanswered>>

Next ==
    \/ Consume \/ Flush \/ Restart
    \/ \E b \in Bulks : \E carried \in SUBSET EventsOf(bulk[b].ops) :
          EndBulk(b, carried) \/ RetryBulk(b, carried)

Spec == Init /\ [][Next]_vars

-------------------------------------------------------------------------------
(* Properties.                                                             *)

\* Every variable has its type, and the buffer stays below its limit.
TypeOK ==
    /\ consumed \in 0..Len(Script)
    /\ Len(bulkBuffer) < BULK_MAX_SIZE /\ EventsOf(bulkBuffer) \subseteq Events
    /\ \A b \in Bulks : /\ bulk[b].state \in {"unused", "started", "done"}
                        /\ Len(bulk[b].ops) <= BULK_MAX_SIZE
                        /\ bulk[b].retries \in 0..MAX_RETRIES
    /\ documents \in [Events -> Nat] /\ unanswered \in [Events -> Nat]
    /\ lost \subseteq Events /\ faults \in 0..MaxFaults

\* A message that the worker is past is in the index exactly once, or its
\* operation waits in the buffer or in one bulk write, or it was lost: the last
\* attempt of its write did not carry it out, or a restart or the time until the
\* worker was back skipped it.  Above that the index has a document of it only for an
\* attempt that was carried out without its answer and made again, MAX_RETRIES at
\* most: batches that overlap, fail in part, are repeated or meet a restart drop or
\* repeat nothing else (search-worker flushBulk, 44-65).
SendsIndexedOnce ==
    \A e \in Events :
        Script[e] = "sent" =>
            /\ documents[e] + Times(e, bulkBuffer)
                   + Cardinality({b \in Started : e \in EventsOf(bulk[b].ops)})
                 = unanswered[e] + IF e <= consumed /\ e \notin lost THEN 1 ELSE 0
            /\ unanswered[e] <= MAX_RETRIES
===============================================================================
