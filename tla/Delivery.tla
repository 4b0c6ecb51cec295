------------------------------ MODULE Delivery ------------------------------
(***************************************************************************)
(* At-least-once event delivery: delivery.py over the outbox and inbox     *)
(* tables of store.py.  The sender's store holds one outbox row per event; *)
(* publishers claim rows under a lease with a fencing token, hand them to  *)
(* the broker and complete them.  Instances of one durable consumer fetch  *)
(* broker messages, claim the inbox row of the message, run the handler    *)
(* (kernel.ingest) and complete the row.  Inbox rows are keyed by          *)
(* (message_id, consumer_id) and a broker subscription belongs to one      *)
(* durable name, so distinct consumer ids share nothing and one is         *)
(* modelled.                                                               *)
(*                                                                         *)
(* Events are numbered by their outbox id.  The clock is abstracted to     *)
(* what the SQL compares: a lease is live or elapsed, a row is due or in   *)
(* back-off.  The broker is external and modelled as JetStream is used:    *)
(* it may discard a duplicate message id, may fail a publish after storing *)
(* it, and delivers again whatever was not acknowledged.                   *)
(***************************************************************************)
EXTENDS Naturals, FiniteSets

CONSTANTS
  MaxEvents,     \* events committed in a behaviour (bound)
  Publishers,    \* OutboxPublisher workers on the store
  Consumers,     \* InboxConsumer instances that share one consumer id
  BatchSize,     \* OutboxPublisher.batch_size
  MaxFaults,     \* crashes, failures and overrun leases in a behaviour (bound)
  StoreMayFail   \* whether a store call may raise inside a worker loop

ASSUME DeliveryAssumption ==
  /\ MaxEvents \in Nat
  /\ BatchSize \in Nat \ {0}
  /\ MaxFaults \in Nat
  /\ StoreMayFail \in BOOLEAN

Events == 1..MaxEvents
NoMessage == 0

VARIABLES
  outbox,    \* the outbox table: row of each event
  inbox,     \* the inbox table: row of each message for the consumer id
  received,  \* events the receiving kernel has ingested, idempotent by event id
  stream,    \* messages the broker has stored
  ready,     \* deliveries the broker owes the durable consumer, per message
  pub,       \* publisher workers: control point and claimed batch
  con,       \* consumer workers: control point, message, claimed token
  faults     \* faults so far

vars == <<outbox, inbox, received, stream, ready, pub, con, faults>>

Claims == [row : Events, token : Nat]
OutboxRow == [status : {"absent", "pending", "published"},
              lease : {"none", "live", "elapsed"}, due : BOOLEAN, token : Nat]
InboxRow == [status : {"absent", "pending", "processing", "completed"},
             lease : {"none", "live", "elapsed"}, due : BOOLEAN, token : Nat]
Publisher == [pc : {"idle", "publishing", "sent", "failed", "crashed", "dead"},
              batch : SUBSET Claims]
Consumer == [pc : {"idle", "fetched", "handling", "handled", "failed",
                   "acking", "naking", "crashed", "dead"},
             msg : Events \cup {NoMessage}, token : Nat]

TypeOK ==
  /\ outbox \in [Events -> OutboxRow]
  /\ inbox \in [Events -> InboxRow]
  /\ received \subseteq Events
  /\ stream \subseteq Events
  /\ ready \in [Events -> Nat]
  /\ pub \in [Publishers -> Publisher]
  /\ con \in [Consumers -> Consumer]
  /\ faults \in 0..MaxFaults

Row(status, lease, due, token) ==
  [status |-> status, lease |-> lease, due |-> due, token |-> token]

AbsentRow == Row("absent", "none", TRUE, 0)
Idle == [pc |-> "idle", batch |-> {}]
Resting == [pc |-> "idle", msg |-> NoMessage, token |-> 0]

Init ==
  /\ outbox = [e \in Events |-> AbsentRow]
  /\ inbox = [e \in Events |-> AbsentRow]
  /\ received = {}
  /\ stream = {}
  /\ ready = [e \in Events |-> 0]
  /\ pub = [p \in Publishers |-> Idle]
  /\ con = [c \in Consumers |-> Resting]
  /\ faults = 0

Fault == faults < MaxFaults /\ faults' = faults + 1

-----------------------------------------------------------------------------
\* The sender's transaction and the outbox publisher.

\* One transaction writes the event and its outbox row; rows are numbered in
\* commit order.  Writing the same event id again changes neither.
append_with_outbox(e) ==
  /\ outbox[e].status = "absent"
  /\ \A d \in Events : d < e => outbox[d].status # "absent"
  /\ outbox' = [outbox EXCEPT ![e].status = "pending"]
  /\ UNCHANGED <<inbox, received, stream, ready, pub, con, faults>>

\* Faulty variant: the return of an elapsed lease is forgotten in the WHERE
\* clause of the claim.
ClaimableOnce(e) ==
  outbox[e].status = "pending" /\ outbox[e].due /\ outbox[e].lease = "none"

Claimable(e) ==
  outbox[e].status = "pending" /\ outbox[e].due /\ outbox[e].lease # "live"

\* Faulty variant: a claim keeps the token of the claim before it.
SameToken(row) == row.token

NextToken(row) == row.token + 1

\* The rows `ORDER BY id LIMIT batch_size` selects.
Selected(S) ==
  /\ S # {} /\ \A e \in S : Claimable(e)
  /\ Cardinality(S) <= BatchSize
  /\ \A e \in S : \A d \in Events : d < e /\ Claimable(d) => d \in S
  /\ Cardinality(S) < BatchSize => \A e \in Events : Claimable(e) => e \in S

claim_outbox(p, S) ==
  /\ pub[p].pc = "idle"
  /\ Selected(S)
  /\ outbox' = [e \in Events |->
                  IF e \in S
                  THEN Row("pending", "live", outbox[e].due, NextToken(outbox[e]))
                  ELSE outbox[e]]
  /\ pub' = [pub EXCEPT ![p] =
               [pc |-> "publishing",
                batch |-> {[row |-> e, token |-> NextToken(outbox[e])] : e \in S}]]
  /\ UNCHANGED <<inbox, received, stream, ready, con, faults>>

\* The record of the batch that run_once is at: they are taken in id order.
Current(p, k) ==
  k \in pub[p].batch /\ \A j \in pub[p].batch : k.row <= j.row

\* broker.publish returns.  The broker stores the message, or discards a
\* duplicate of a message id it already stored.
Publish(p, k) ==
  /\ pub[p].pc = "publishing"
  /\ Current(p, k)
  /\ \/ /\ stream' = stream \cup {k.row}
        /\ ready' = [ready EXCEPT ![k.row] = @ + 1]
     \/ /\ k.row \in stream
        /\ UNCHANGED <<stream, ready>>
  /\ pub' = [pub EXCEPT ![p].pc = "sent"]
  /\ UNCHANGED <<outbox, inbox, received, con, faults>>

\* Faulty variant: the exception is swallowed and the row completed.
PublishFailsSilently(p, k) ==
  /\ pub[p].pc = "publishing"
  /\ Current(p, k)
  /\ Fault
  /\ pub' = [pub EXCEPT ![p].pc = "sent"]
  /\ UNCHANGED <<outbox, inbox, received, stream, ready, con>>

\* broker.publish raises, before or after the broker stored the message.
PublishFails(p, k) ==
  /\ pub[p].pc = "publishing"
  /\ Current(p, k)
  /\ Fault
  /\ \/ /\ stream' = stream \cup {k.row}
        /\ ready' = [ready EXCEPT ![k.row] = @ + 1]
     \/ UNCHANGED <<stream, ready>>
  /\ pub' = [pub EXCEPT ![p].pc = "failed"]
  /\ UNCHANGED <<outbox, inbox, received, con>>

\* run_once goes to the next record of its batch, or returns.
NextRecord(p, k) ==
  pub' = [pub EXCEPT ![p] = IF @.batch = {k} THEN Idle
                            ELSE [pc |-> "publishing", batch |-> @.batch \ {k}]]

\* The WHERE clause of both outbox updates.
OutboxFenceHolds(k) ==
  outbox[k.row].token = k.token /\ outbox[k.row].status = "pending"

complete_outbox(p, k) ==
  /\ pub[p].pc = "sent"
  /\ Current(p, k)
  /\ outbox' = IF OutboxFenceHolds(k)
               THEN [outbox EXCEPT ![k.row] = Row("published", "none", @.due, @.token)]
               ELSE outbox
  /\ NextRecord(p, k)
  /\ UNCHANGED <<inbox, received, stream, ready, con, faults>>

\* Faulty variant: the retry compares the status and forgets the token.
retry_outboxOfAnyClaim(p, k) ==
  /\ pub[p].pc = "failed"
  /\ Current(p, k)
  /\ outbox' = IF outbox[k.row].status = "pending"
               THEN [outbox EXCEPT ![k.row] = Row(@.status, "none", FALSE, @.token)]
               ELSE outbox
  /\ NextRecord(p, k)
  /\ UNCHANGED <<inbox, received, stream, ready, con, faults>>

retry_outbox(p, k) ==
  /\ pub[p].pc = "failed"
  /\ Current(p, k)
  /\ outbox' = IF OutboxFenceHolds(k)
               THEN [outbox EXCEPT ![k.row] = Row(@.status, "none", FALSE, @.token)]
               ELSE outbox
  /\ NextRecord(p, k)
  /\ UNCHANGED <<inbox, received, stream, ready, con, faults>>

-----------------------------------------------------------------------------
\* The inbox consumer: process_once.

Fetch(c, e) ==
  /\ con[c].pc = "idle"
  /\ ready[e] > 0
  /\ ready' = [ready EXCEPT ![e] = @ - 1]
  /\ con' = [con EXCEPT ![c] = [pc |-> "fetched", msg |-> e, token |-> 0]]
  /\ UNCHANGED <<outbox, inbox, received, stream, pub, faults>>

\* Faulty variant: a busy message is acknowledged.
AckBusy == "acking"

\* What process_once does with a message whose row is BUSY.
AnswerToBusy == "naking"

claim_inbox(c, e) ==
  /\ con[c].pc = "fetched" /\ con[c].msg = e
  /\ \/ /\ inbox[e].status = "completed"
        /\ con' = [con EXCEPT ![c].pc = "acking"]
        /\ UNCHANGED inbox
     \/ /\ inbox[e].status # "completed"
        /\ ~inbox[e].due \/ inbox[e].lease = "live"
        /\ con' = [con EXCEPT ![c].pc = AnswerToBusy]
        /\ UNCHANGED inbox
     \/ /\ inbox[e].status # "completed"
        /\ inbox[e].due /\ inbox[e].lease # "live"
        /\ inbox' = [inbox EXCEPT ![e] =
                       Row("processing", "live", @.due, NextToken(@))]
        /\ con' = [con EXCEPT ![c] =
                     [pc |-> "handling", msg |-> e, token |-> NextToken(inbox[e])]]
  /\ UNCHANGED <<outbox, received, stream, ready, pub, faults>>

\* The handler, kernel.ingest, takes the event in.
Handle(c, e) ==
  /\ con[c].pc = "handling" /\ con[c].msg = e
  /\ received' = received \cup {e}
  /\ con' = [con EXCEPT ![c].pc = "handled"]
  /\ UNCHANGED <<outbox, inbox, stream, ready, pub, faults>>

\* Faulty variant: a handler that raised counts as one that returned.
HandlerRaisesUnseen(c, e) ==
  /\ con[c].pc = "handling" /\ con[c].msg = e
  /\ Fault
  /\ con' = [con EXCEPT ![c].pc = "handled"]
  /\ UNCHANGED <<outbox, inbox, received, stream, ready, pub>>

\* The handler raises: before its append, or after it (normalisation, the
\* projection or a bus subscription raised).
HandlerRaises(c, e) ==
  /\ con[c].pc = "handling" /\ con[c].msg = e
  /\ Fault
  /\ received' \in {received, received \cup {e}}
  /\ con' = [con EXCEPT ![c].pc = "failed"]
  /\ UNCHANGED <<outbox, inbox, stream, ready, pub>>

\* The WHERE clause of both inbox updates.
InboxFenceHolds(c, e) ==
  inbox[e].token = con[c].token /\ inbox[e].status = "processing"

\* Faulty variant: the row gets the status word of the other table.
complete_inboxAsPublished(c, e) ==
  /\ con[c].pc = "handled" /\ con[c].msg = e
  /\ inbox' = [inbox EXCEPT ![e] = Row("published", "none", @.due, @.token)]
  /\ con' = [con EXCEPT ![c].pc = "acking"]
  /\ UNCHANGED <<outbox, received, stream, ready, pub, faults>>

complete_inbox(c, e) ==
  /\ con[c].pc = "handled" /\ con[c].msg = e
  /\ IF InboxFenceHolds(c, e)
     THEN /\ inbox' = [inbox EXCEPT ![e] = Row("completed", "none", @.due, @.token)]
          /\ con' = [con EXCEPT ![c].pc = "acking"]
     ELSE /\ UNCHANGED inbox
          /\ con' = [con EXCEPT ![c].pc = "naking"]
  /\ UNCHANGED <<outbox, received, stream, ready, pub, faults>>

retry_inbox(c, e) ==
  /\ con[c].pc = "failed" /\ con[c].msg = e
  /\ inbox' = IF InboxFenceHolds(c, e)
              THEN [inbox EXCEPT ![e] = Row("pending", "none", FALSE, @.token)]
              ELSE inbox
  /\ con' = [con EXCEPT ![c].pc = "naking"]
  /\ UNCHANGED <<outbox, received, stream, ready, pub, faults>>

ack(c) ==
  /\ con[c].pc = "acking"
  /\ con' = [con EXCEPT ![c] = Resting]
  /\ UNCHANGED <<outbox, inbox, received, stream, ready, pub, faults>>

\* Faulty variant: the refused message is not given back.
nakForgetting(c, e) ==
  /\ con[c].pc = "naking" /\ con[c].msg = e
  /\ con' = [con EXCEPT ![c] = Resting]
  /\ UNCHANGED <<outbox, inbox, received, stream, ready, pub, faults>>

nak(c, e) ==
  /\ con[c].pc = "naking" /\ con[c].msg = e
  /\ ready' = [ready EXCEPT ![e] = @ + 1]
  /\ con' = [con EXCEPT ![c] = Resting]
  /\ UNCHANGED <<outbox, inbox, received, stream, pub, faults>>

-----------------------------------------------------------------------------
\* Time.  A lease that elapses over a worker still at its claim is a fault; one
\* that elapses over nobody is how the row is taken back.

OutboxHolders(e) ==
  {p \in Publishers : \E k \in pub[p].batch :
     k.row = e /\ k.token = outbox[e].token}

InboxHolders(e) ==
  {c \in Consumers : /\ con[c].pc \in {"handling", "handled", "failed"}
                     /\ con[c].msg = e
                     /\ con[c].token = inbox[e].token}

OutboxLeaseElapses(e) ==
  /\ outbox[e].lease = "live"
  /\ IF OutboxHolders(e) = {} THEN UNCHANGED faults ELSE Fault
  /\ outbox' = [outbox EXCEPT ![e].lease = "elapsed"]
  /\ UNCHANGED <<inbox, received, stream, ready, pub, con>>

InboxLeaseElapses(e) ==
  /\ inbox[e].lease = "live"
  /\ IF InboxHolders(e) = {} THEN UNCHANGED faults ELSE Fault
  /\ inbox' = [inbox EXCEPT ![e].lease = "elapsed"]
  /\ UNCHANGED <<outbox, received, stream, ready, pub, con>>

OutboxBackoffElapses(e) ==
  /\ ~outbox[e].due
  /\ outbox' = [outbox EXCEPT ![e].due = TRUE]
  /\ UNCHANGED <<inbox, received, stream, ready, pub, con, faults>>

InboxBackoffElapses(e) ==
  /\ ~inbox[e].due
  /\ inbox' = [inbox EXCEPT ![e].due = TRUE]
  /\ UNCHANGED <<outbox, received, stream, ready, pub, con, faults>>

\* The broker's acknowledgement wait runs out under a slow consumer.
Redeliver(c, e) ==
  /\ con[c].msg = e
  /\ Fault
  /\ ready' = [ready EXCEPT ![e] = @ + 1]
  /\ UNCHANGED <<outbox, inbox, received, stream, pub, con>>

-----------------------------------------------------------------------------
\* Crashes.  A process that dies, or a task cancelled by stop(), forgets its
\* batch or its message; the broker delivers the message again.  A store call
\* that raises ends the task: _run catches nothing, and start() returns early
\* while _task is set, so only a new process runs the worker again.

PublisherStops(p, why) ==
  /\ pub[p].pc \notin {"crashed", "dead"}
  /\ why = "dead" => StoreMayFail /\ pub[p].pc # "publishing"
  /\ Fault
  /\ pub' = [pub EXCEPT ![p] = [pc |-> why, batch |-> {}]]
  /\ UNCHANGED <<outbox, inbox, received, stream, ready, con>>

ConsumerStops(c, why) ==
  /\ con[c].pc \notin {"crashed", "dead"}
  /\ why = "dead" => StoreMayFail /\ con[c].pc \in {"fetched", "handled", "failed"}
  /\ Fault
  /\ con' = [con EXCEPT ![c] = [Resting EXCEPT !.pc = why]]
  /\ ready' = [e \in Events |-> IF e = con[c].msg THEN ready[e] + 1 ELSE ready[e]]
  /\ UNCHANGED <<outbox, inbox, received, stream, pub>>

PublisherRestarts(p) ==
  /\ pub[p].pc = "crashed"
  /\ pub' = [pub EXCEPT ![p] = Idle]
  /\ UNCHANGED <<outbox, inbox, received, stream, ready, con, faults>>

ConsumerRestarts(c) ==
  /\ con[c].pc = "crashed"
  /\ con' = [con EXCEPT ![c] = Resting]
  /\ UNCHANGED <<outbox, inbox, received, stream, ready, pub, faults>>

-----------------------------------------------------------------------------
run_once(p) ==
  \/ \E S \in SUBSET Events : claim_outbox(p, S)
  \/ \E k \in pub[p].batch :
       Publish(p, k) \/ complete_outbox(p, k) \/ retry_outbox(p, k)

process_once(c) ==
  \/ \E e \in Events : \/ Fetch(c, e) \/ claim_inbox(c, e) \/ complete_inbox(c, e)
                       \/ Handle(c, e) \/ retry_inbox(c, e) \/ nak(c, e)
  \/ ack(c)

Clock ==
  \E e \in Events : \/ OutboxLeaseElapses(e) \/ InboxLeaseElapses(e)
                    \/ OutboxBackoffElapses(e) \/ InboxBackoffElapses(e)

Failure ==
  \/ \E p \in Publishers : \E k \in pub[p].batch : PublishFails(p, k)
  \/ \E p \in Publishers, why \in {"crashed", "dead"} : PublisherStops(p, why)
  \/ \E c \in Consumers, e \in Events : HandlerRaises(c, e) \/ Redeliver(c, e)
  \/ \E c \in Consumers, why \in {"crashed", "dead"} : ConsumerStops(c, why)

Restart ==
  \/ \E p \in Publishers : PublisherRestarts(p)
  \/ \E c \in Consumers : ConsumerRestarts(c)

Next ==
  \/ \E e \in Events : append_with_outbox(e)
  \/ \E p \in Publishers : run_once(p)
  \/ \E c \in Consumers : process_once(c)
  \/ Clock
  \/ Failure
  \/ Restart

\* The worker loops poll for ever, clocks advance, a crashed process is started
\* again by its supervisor.  Nothing is assumed of commits or of faults.
Fairness ==
  /\ \A p \in Publishers : WF_vars(run_once(p)) /\ WF_vars(PublisherRestarts(p))
  /\ \A c \in Consumers : WF_vars(process_once(c)) /\ WF_vars(ConsumerRestarts(c))
  /\ \A e \in Events :
       /\ WF_vars(OutboxHolders(e) = {} /\ OutboxLeaseElapses(e))
       /\ WF_vars(InboxHolders(e) = {} /\ InboxLeaseElapses(e))
       /\ WF_vars(OutboxBackoffElapses(e))
       /\ WF_vars(InboxBackoffElapses(e))

Spec == Init /\ [][Next]_vars
FairSpec == Spec /\ Fairness

-----------------------------------------------------------------------------
\* Properties.

\* No committed event is lost: at every moment each one is still owed by its
\* outbox row, or by the broker, or is in a consumer's hands, or was ingested.
\* It depends on the order publish / complete_outbox, on handler / ack, and on
\* BUSY messages going back to the broker.
HeldBy(c, e) == con[c].msg = e
OwedByBroker(e) == ready[e] > 0 \/ \E c \in Consumers : HeldBy(c, e)

NoEventLost ==
  \A e \in Events :
    outbox[e].status # "absent" =>
      \/ outbox[e].status = "pending"
      \/ OwedByBroker(e)
      \/ inbox[e].status = "completed" /\ e \in received

\* Fencing: of the workers that hold a claim on one outbox row, or one inbox
\* row, no two hold the same token, so at most one of them can still write it,
\* however many leases ran out under slow workers.
ClaimsAreFenced ==
  /\ \A p, q \in Publishers : \A k \in pub[p].batch \cap pub[q].batch : p = q
  /\ \A e \in Events : \A c, d \in InboxHolders(e) : c = d

\* An acknowledged message is one whose inbox row is completed: the consumer
\* never drops a message that another instance might still fail to handle.
AckedOnlyWhenCompleted ==
  \A c \in Consumers :
    con[c].pc = "acking" => /\ inbox[con[c].msg].status = "completed"
                            /\ con[c].msg \in received

\* A finished row is finished for ever: no later claim, retry or stale
\* completion reopens a published outbox row or a completed inbox row.
FinishedRowsStayFinished ==
  [][\A e \in Events :
       /\ outbox[e].status = "published" => outbox'[e] = outbox[e]
       /\ inbox[e].status = "completed" => inbox'[e] = inbox[e]]_<<outbox, inbox>>

\* A worker whose claim was taken over changes nothing, whatever it still tries:
\* a stale completion or a stale retry leaves status, lease, back-off and token as
\* they are.  A row changes in four ways only: the clock moves its lease or its
\* back-off; a claim takes it under a new token, which needs it unfinished, due
\* and under no live lease; the worker that holds its current token completes it
\* or gives it back; and an outbox row comes to exist by the commit.
Ticks(old, new) ==
  \/ old.lease = "live" /\ new = [old EXCEPT !.lease = "elapsed"]
  \/ ~old.due /\ new = [old EXCEPT !.due = TRUE]

Takes(old, new) ==
  /\ old.due /\ old.lease # "live" /\ old.status \notin {"published", "completed"}
  /\ new.lease = "live" /\ new.token > old.token

StaleWorkersChangeNothing ==
  [][\A e \in Events :
       /\ outbox'[e] # outbox[e] =>
            \/ outbox[e].status = "absent" /\ outbox'[e] = Row("pending", "none", TRUE, 0)
            \/ Ticks(outbox[e], outbox'[e])
            \/ Takes(outbox[e], outbox'[e])
            \/ /\ outbox'[e].token = outbox[e].token
               /\ \E p \in OutboxHolders(e) : pub[p].pc \in {"sent", "failed"} /\ pub'[p] # pub[p]
       /\ inbox'[e] # inbox[e] =>
            \/ Ticks(inbox[e], inbox'[e])
            \/ Takes(inbox[e], inbox'[e])
            \/ /\ inbox'[e].token = inbox[e].token
               /\ \E c \in InboxHolders(e) :
                    con[c].pc \in {"handled", "failed"} /\ con'[c] # con[c]]_<<outbox, inbox>>

\* Rows follow their claims: what is finished stays finished, and nobody but the
\* clock, a legal claim and the holder of the current token changes a row.
RowsFollowClaims == FinishedRowsStayFinished /\ StaleWorkersChangeNothing

\* The path of one event, as EventTransfer tells it.
stage ==
  [e \in Events |->
     IF inbox[e].status = "completed" THEN "settled"
     ELSE IF e \in received THEN "received"
     ELSE IF e \in stream THEN "sent"
     ELSE IF outbox[e].status # "absent" THEN "committed"
     ELSE "none"]

Transfer == INSTANCE EventTransfer

\* Delivery implements EventTransfer: no stage is skipped, none is undone.
ImplementsSafeTransfer == Transfer!SafeSpec

\* ... and, with fair workers, every committed event is settled at the receiver.
ImplementsTransfer == Transfer!Spec

\* The sender's side comes to rest too: every outbox row ends published and no
\* copy of a settled message circulates for ever.
EventuallyQuiet ==
  \A e \in Events :
    outbox[e].status # "absent" ~>
      [](outbox[e].status = "published" /\ ~OwedByBroker(e))

\* ADR 0001: "If publication fails after an event commits, the leased outbox
\* retries it."  A publisher that met the failure writes the row back for a
\* retry; but when that write raises too (the outage reaches the store), the
\* task of the worker ends, nothing starts another, and no retry comes.
FailedAt(p, e) == pub[p].pc = "failed" /\ \E k \in pub[p].batch : k.row = e /\ Current(p, k)

FailedPublicationIsRetried ==
  \A p \in Publishers, e \in Events :
    FailedAt(p, e) ~> e \in stream
=============================================================================
