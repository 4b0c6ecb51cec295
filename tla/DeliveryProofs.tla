--------------------------- MODULE DeliveryProofs ---------------------------
(***************************************************************************)
(* Proofs about Delivery, for every number of events, workers and faults.  *)
(***************************************************************************)
EXTENDS Delivery, TLAPS

-----------------------------------------------------------------------------
\* Type correctness.

\* The initial state has its type.
LEMMA InitTypeOK == Init => TypeOK
BY DeliveryAssumption
   DEF Init, TypeOK, AbsentRow, Row, Idle, Resting, OutboxRow, InboxRow, Publisher, Consumer, Claims

\* A step of the sender's side keeps the type.
LEMMA SenderTypeOK ==
  ASSUME TypeOK,
         \/ \E e \in Events : append_with_outbox(e)
         \/ \E p \in Publishers : run_once(p)
         \/ \E p \in Publishers : \E k \in pub[p].batch : PublishFails(p, k)
         \/ \E p \in Publishers, why \in {"crashed", "dead"} : PublisherStops(p, why)
         \/ \E p \in Publishers : PublisherRestarts(p)
  PROVE  TypeOK'
<1>1. ASSUME NEW e \in Events, append_with_outbox(e) PROVE TypeOK'
  BY <1>1 DEF TypeOK, append_with_outbox, OutboxRow
<1>2. ASSUME NEW p \in Publishers, NEW S \in SUBSET Events, claim_outbox(p, S)
      PROVE TypeOK'
  <2>0. \A e \in Events : NextToken(outbox[e]) \in Nat
    BY DEF TypeOK, OutboxRow, NextToken
  <2>1. outbox' \in [Events -> OutboxRow]
    <3>1. ASSUME NEW e \in Events
          PROVE Row("pending", "live", outbox[e].due, NextToken(outbox[e])) \in OutboxRow
      BY <2>0 DEF TypeOK, OutboxRow, Row
    <3> QED BY <1>2, <3>1 DEF TypeOK, claim_outbox
  <2>2. pub' \in [Publishers -> Publisher]
    <3>1. {[row |-> e, token |-> NextToken(outbox[e])] : e \in S} \in SUBSET Claims
      BY <2>0 DEF Claims
    <3> QED BY <1>2, <3>1 DEF TypeOK, claim_outbox, Publisher
  <2> QED BY <1>2, <2>1, <2>2 DEF TypeOK, claim_outbox
<1>3. ASSUME NEW p \in Publishers, NEW k \in pub[p].batch,
             \/ Publish(p, k) \/ PublishFails(p, k)
             \/ complete_outbox(p, k) \/ retry_outbox(p, k)
      PROVE TypeOK'
  <2>1. k \in Claims /\ k.row \in Events
    BY DEF TypeOK, Publisher, Claims
  <2>2. CASE Publish(p, k)
    BY <2>1, <2>2 DEF TypeOK, Publish, Publisher
  <2>3. CASE PublishFails(p, k)
    BY <2>1, <2>3, DeliveryAssumption DEF TypeOK, PublishFails, Publisher, Fault
  <2>4. NextRecord(p, k) => pub' \in [Publishers -> Publisher]
    BY <2>1 DEF TypeOK, NextRecord, Idle, Publisher
  <2>5. CASE complete_outbox(p, k)
    BY <2>1, <2>4, <2>5 DEF TypeOK, complete_outbox, OutboxRow, Row
  <2>6. CASE retry_outbox(p, k)
    BY <2>1, <2>4, <2>6 DEF TypeOK, retry_outbox, OutboxRow, Row
  <2> QED BY <1>3, <2>2, <2>3, <2>5, <2>6
<1>4. ASSUME NEW p \in Publishers, NEW why \in {"crashed", "dead"},
             PublisherStops(p, why)
      PROVE TypeOK'
  BY <1>4, DeliveryAssumption DEF TypeOK, PublisherStops, Publisher, Fault
<1>5. ASSUME NEW p \in Publishers, PublisherRestarts(p) PROVE TypeOK'
  BY <1>5 DEF TypeOK, PublisherRestarts, Publisher, Idle
<1> QED BY <1>1, <1>2, <1>3, <1>4, <1>5 DEF run_once

\* A step of the consumer's side keeps the type.
LEMMA ConsumerTypeOK ==
  ASSUME TypeOK,
         \/ \E c \in Consumers : process_once(c)
         \/ \E c \in Consumers, e \in Events : HandlerRaises(c, e) \/ Redeliver(c, e)
         \/ \E c \in Consumers, why \in {"crashed", "dead"} : ConsumerStops(c, why)
         \/ \E c \in Consumers : ConsumerRestarts(c)
  PROVE  TypeOK'
<1>1. ASSUME NEW c \in Consumers, NEW e \in Events,
             \/ Fetch(c, e) \/ nak(c, e) \/ Redeliver(c, e)
      PROVE TypeOK'
  <2>1. CASE Fetch(c, e)
    <3>1. ready[e] - 1 \in Nat
      BY <2>1 DEF TypeOK, Fetch
    <3> QED BY <2>1, <3>1 DEF TypeOK, Fetch, Consumer
  <2>2. CASE nak(c, e)
    BY <2>2 DEF TypeOK, nak, Consumer, Resting
  <2>3. CASE Redeliver(c, e)
    BY <2>3, DeliveryAssumption DEF TypeOK, Redeliver, Fault
  <2> QED BY <1>1, <2>1, <2>2, <2>3
<1>2. ASSUME NEW c \in Consumers, NEW e \in Events,
             claim_inbox(c, e) \/ complete_inbox(c, e) \/ retry_inbox(c, e)
      PROVE TypeOK'
  <2>1. inbox' \in [Events -> InboxRow]
    <3>1. NextToken(inbox[e]) \in Nat
      BY DEF TypeOK, InboxRow, NextToken
    <3>2. CASE claim_inbox(c, e)
      BY <3>1, <3>2 DEF TypeOK, claim_inbox, InboxRow, Row
    <3>3. CASE complete_inbox(c, e)
      BY <3>3 DEF TypeOK, complete_inbox, InboxRow, Row
    <3>4. CASE retry_inbox(c, e)
      BY <3>4 DEF TypeOK, retry_inbox, InboxRow, Row
    <3> QED BY <1>2, <3>2, <3>3, <3>4
  <2>2. con' \in [Consumers -> Consumer]
    <3>1. NextToken(inbox[e]) \in Nat
      BY DEF TypeOK, InboxRow, NextToken
    <3>2. CASE claim_inbox(c, e)
      BY <3>1, <3>2 DEF TypeOK, claim_inbox, Consumer, AnswerToBusy
    <3>3. CASE complete_inbox(c, e)
      BY <3>3 DEF TypeOK, complete_inbox, Consumer
    <3>4. CASE retry_inbox(c, e)
      BY <3>4 DEF TypeOK, retry_inbox, Consumer
    <3> QED BY <1>2, <3>2, <3>3, <3>4
  <2> QED
    BY <1>2, <2>1, <2>2 DEF TypeOK, claim_inbox, complete_inbox, retry_inbox
<1>3. ASSUME NEW c \in Consumers, NEW e \in Events,
             Handle(c, e) \/ HandlerRaises(c, e)
      PROVE TypeOK'
  BY <1>3, DeliveryAssumption DEF TypeOK, Handle, HandlerRaises, Consumer, Fault
<1>4. ASSUME NEW c \in Consumers, NEW why \in {"crashed", "dead"},
             ConsumerStops(c, why)
      PROVE TypeOK'
  BY <1>4, DeliveryAssumption
     DEF TypeOK, ConsumerStops, Consumer, Resting, Fault
<1>5. ASSUME NEW c \in Consumers, ack(c) \/ ConsumerRestarts(c) PROVE TypeOK'
  BY <1>5 DEF TypeOK, ack, ConsumerRestarts, Consumer, Resting
<1> QED BY <1>1, <1>2, <1>3, <1>4, <1>5 DEF process_once

\* Every step keeps the type.
LEMMA NextTypeOK == TypeOK /\ [Next]_vars => TypeOK'
<1>1. ASSUME TypeOK, NEW e \in Events,
             \/ OutboxLeaseElapses(e) \/ InboxLeaseElapses(e)
             \/ OutboxBackoffElapses(e) \/ InboxBackoffElapses(e)
      PROVE TypeOK'
  <2>1. outbox' \in [Events -> OutboxRow] /\ inbox' \in [Events -> InboxRow]
    <3>1. CASE OutboxLeaseElapses(e)
      BY <1>1, <3>1 DEF TypeOK, OutboxLeaseElapses, OutboxRow
    <3>2. CASE InboxLeaseElapses(e)
      BY <1>1, <3>2 DEF TypeOK, InboxLeaseElapses, InboxRow
    <3>3. CASE OutboxBackoffElapses(e)
      BY <1>1, <3>3 DEF TypeOK, OutboxBackoffElapses, OutboxRow
    <3>4. CASE InboxBackoffElapses(e)
      BY <1>1, <3>4 DEF TypeOK, InboxBackoffElapses, InboxRow
    <3> QED BY <1>1, <3>1, <3>2, <3>3, <3>4
  <2>2. faults' \in 0..MaxFaults
    BY <1>1, DeliveryAssumption
       DEF TypeOK, OutboxLeaseElapses, InboxLeaseElapses, OutboxBackoffElapses,
           InboxBackoffElapses, Fault
  <2> QED
    BY <1>1, <2>1, <2>2 DEF TypeOK, OutboxLeaseElapses, InboxLeaseElapses,
                            OutboxBackoffElapses, InboxBackoffElapses
<1>2. TypeOK /\ UNCHANGED vars => TypeOK'
  BY DEF TypeOK, vars
<1>3. ASSUME TypeOK, Next PROVE TypeOK'
  <2>1. CASE \E e \in Events : append_with_outbox(e)
    BY <1>3, <2>1, SenderTypeOK
  <2>2. CASE \E p \in Publishers : run_once(p)
    BY <1>3, <2>2, SenderTypeOK
  <2>3. CASE \E c \in Consumers : process_once(c)
    BY <1>3, <2>3, ConsumerTypeOK
  <2>4. CASE Clock
    BY <1>1, <1>3, <2>4 DEF Clock
  <2>5. CASE Failure
    BY <1>3, <2>5, SenderTypeOK, ConsumerTypeOK DEF Failure
  <2>6. CASE Restart
    BY <1>3, <2>6, SenderTypeOK, ConsumerTypeOK DEF Restart
  <2> QED BY <1>3, <2>1, <2>2, <2>3, <2>4, <2>5, <2>6 DEF Next
<1> QED BY <1>2, <1>3

\* Tables, queues and workers always hold values of their types: no sequence
\* of claims, retries, crashes and redeliveries makes a malformed row.
THEOREM TypeCorrect == Spec => []TypeOK
BY InitTypeOK, NextTypeOK, PTL DEF Spec

-----------------------------------------------------------------------------
\* No event is lost.  The invariant follows a message through the pipeline:
\* what each part of the state says happened is backed by the part before it.

\* A worker holds a message exactly while it works on one.
WorkersHoldMessages ==
  \A c \in Consumers :
    con[c].msg = NoMessage <=> con[c].pc \in {"idle", "crashed", "dead"}

\* Messages in flight and events received come from the broker's stream, and
\* the stream from the outbox.
FlowIsBacked ==
  /\ \A p \in Publishers : \A k \in pub[p].batch : outbox[k.row].status # "absent"
  /\ \A e \in stream : outbox[e].status # "absent"
  /\ \A e \in Events : ready[e] > 0 => e \in stream
  /\ \A c \in Consumers : con[c].msg # NoMessage => con[c].msg \in stream
  /\ received \subseteq stream

\* complete_outbox follows a successful publish.
PublishedWasSent ==
  /\ \A p \in Publishers : \A k \in pub[p].batch :
       pub[p].pc = "sent" /\ Current(p, k) => k.row \in stream
  /\ \A e \in Events : outbox[e].status = "published" => e \in stream

\* The broker lets a message go only against an ack, and an ack follows
\* completion, which follows the handler.
StreamIsOwed ==
  \A e \in stream : OwedByBroker(e) \/ inbox[e].status = "completed"
CompletedWasReceived ==
  /\ \A c \in Consumers : con[c].pc = "handled" => con[c].msg \in received
  /\ \A e \in Events : inbox[e].status = "completed" => e \in received

FlowInv ==
  /\ TypeOK
  /\ WorkersHoldMessages
  /\ FlowIsBacked
  /\ PublishedWasSent
  /\ StreamIsOwed
  /\ CompletedWasReceived
  /\ AckedOnlyWhenCompleted

LEMMA InitFlow == Init => FlowInv
<1> SUFFICES ASSUME Init PROVE FlowInv
  OBVIOUS
<1> USE DEF Init, AbsentRow, Row, Idle, Resting
<1>1. TypeOK
  BY InitTypeOK
<1>2. WorkersHoldMessages /\ FlowIsBacked /\ PublishedWasSent /\ StreamIsOwed
  BY DEF WorkersHoldMessages, FlowIsBacked, PublishedWasSent, StreamIsOwed
<1>3. CompletedWasReceived /\ AckedOnlyWhenCompleted
  BY DEF CompletedWasReceived, AckedOnlyWhenCompleted
<1> QED BY <1>1, <1>2, <1>3 DEF FlowInv

\* The sender's transaction and the outbox updates leave the message flow alone;
\* only complete_outbox can publish, and its message is in the stream.
LEMMA OutboxFlow ==
  ASSUME FlowInv, TypeOK',
         UNCHANGED <<inbox, received, stream, ready, con>>,
         \A e \in Events : outbox[e].status # "absent" => outbox'[e].status # "absent",
         \A e \in Events : outbox'[e].status = "published" => e \in stream,
         \A p \in Publishers : \A k \in pub'[p].batch :
           k \in pub[p].batch \/ outbox[k.row].status # "absent",
         \A p \in Publishers : pub'[p].pc = "sent" => pub'[p] = pub[p]
  PROVE  FlowInv'
<1> USE DEF FlowInv
<1>1. /\ WorkersHoldMessages' /\ CompletedWasReceived'
      /\ AckedOnlyWhenCompleted' /\ StreamIsOwed'
  BY DEF WorkersHoldMessages, CompletedWasReceived, AckedOnlyWhenCompleted,
         StreamIsOwed, OwedByBroker, HeldBy
<1>2. FlowIsBacked'
  BY DEF FlowIsBacked, TypeOK, Publisher, Claims
<1>3. PublishedWasSent'
  BY DEF PublishedWasSent, Current
<1> QED BY <1>1, <1>2, <1>3

LEMMA AppendFlow ==
  ASSUME FlowInv, TypeOK', NEW e \in Events, append_with_outbox(e)
  PROVE  FlowInv'
<1>1. /\ \A d \in Events : outbox[d].status # "absent" => outbox'[d].status # "absent"
      /\ \A d \in Events : outbox'[d].status = "published" => d \in stream
  BY DEF FlowInv, PublishedWasSent, TypeOK, OutboxRow, append_with_outbox
<1> QED BY <1>1, OutboxFlow DEF append_with_outbox

LEMMA ClaimOutboxFlow ==
  ASSUME FlowInv, TypeOK', NEW p \in Publishers, NEW S \in SUBSET Events,
         claim_outbox(p, S)
  PROVE  FlowInv'
<1>1. /\ \A e \in Events : outbox[e].status # "absent" => outbox'[e].status # "absent"
      /\ \A e \in Events : outbox'[e].status = "published" => e \in stream
  BY DEF FlowInv, PublishedWasSent, TypeOK, claim_outbox, Row
<1>2. \A e \in S : outbox[e].status # "absent"
  BY DEF claim_outbox, Selected, Claimable
<1>3. pub'[p].pc = "publishing" /\ \A k \in pub'[p].batch : k.row \in S
  BY DEF FlowInv, TypeOK, claim_outbox
<1>4. \A q \in Publishers : q # p => pub'[q] = pub[q]
  BY DEF FlowInv, TypeOK, claim_outbox
<1>5. UNCHANGED <<inbox, received, stream, ready, con>>
  BY DEF claim_outbox
<1>6. \A q \in Publishers : \A k \in pub'[q].batch :
         k \in pub[q].batch \/ outbox[k.row].status # "absent"
  BY <1>2, <1>3, <1>4
<1>7. \A q \in Publishers : pub'[q].pc = "sent" => pub'[q] = pub[q]
  BY <1>3, <1>4
<1> QED BY <1>1, <1>5, <1>6, <1>7, OutboxFlow

LEMMA SettleOutboxFlow ==
  ASSUME FlowInv, TypeOK', NEW p \in Publishers, NEW k \in pub[p].batch,
         complete_outbox(p, k) \/ retry_outbox(p, k)
  PROVE  FlowInv'
<1>0. k.row \in Events
  BY DEF FlowInv, TypeOK, Publisher, Claims
<1>1. NextRecord(p, k)
  BY DEF complete_outbox, retry_outbox
<1>2. \A q \in Publishers : q # p => pub'[q] = pub[q]
  BY <1>1 DEF FlowInv, TypeOK, NextRecord
<1>3. pub'[p].pc # "sent" /\ pub'[p].batch \subseteq pub[p].batch
  BY <1>1 DEF FlowInv, TypeOK, NextRecord, Idle
<1>4. \A e \in Events : outbox[e].status # "absent" => outbox'[e].status # "absent"
  BY <1>0 DEF FlowInv, TypeOK, OutboxRow, complete_outbox, retry_outbox, Row
<1>5. \A e \in Events : outbox'[e].status = "published" => e \in stream
  BY <1>0 DEF FlowInv, PublishedWasSent, TypeOK, OutboxRow, complete_outbox,
              retry_outbox, Row
<1>6. UNCHANGED <<inbox, received, stream, ready, con>>
  BY DEF complete_outbox, retry_outbox
<1>7. \A q \in Publishers : \A j \in pub'[q].batch : j \in pub[q].batch
  BY <1>2, <1>3
<1>8. \A q \in Publishers : pub'[q].pc = "sent" => pub'[q] = pub[q]
  BY <1>2, <1>3
<1> QED BY <1>4, <1>5, <1>6, <1>7, <1>8, OutboxFlow

\* The broker takes a message into the stream and owes it to the consumer.
LEMMA PublishFlow ==
  ASSUME FlowInv, TypeOK', NEW p \in Publishers, NEW k \in pub[p].batch,
         Publish(p, k) \/ PublishFails(p, k)
  PROVE  FlowInv'
<1> USE DEF FlowInv
<1>0. k.row \in Events /\ outbox[k.row].status # "absent"
  BY DEF TypeOK, Publisher, Claims, FlowIsBacked
<1>1. UNCHANGED <<outbox, inbox, received, con>>
  BY DEF Publish, PublishFails
<1>2. \/ UNCHANGED <<stream, ready>>
      \/ stream' = stream \cup {k.row} /\ ready' = [ready EXCEPT ![k.row] = @ + 1]
  BY DEF Publish, PublishFails
<1>3. \/ stream' = stream \cup {k.row}
      \/ stream' = stream /\ (k.row \in stream \/ pub'[p].pc = "failed")
  <2>1. CASE Publish(p, k)
    BY <2>1 DEF Publish
  <2>2. CASE PublishFails(p, k)
    BY <2>2 DEF TypeOK, PublishFails, Publisher
  <2> QED BY <2>1, <2>2
<1>4. pub'[p].batch = pub[p].batch /\ Current(p, k)
  BY DEF TypeOK, Publish, PublishFails, Publisher
<1>10. \A e \in Events :
         \/ ready'[e] = ready[e] /\ (e \in stream' => e \in stream)
         \/ ready'[e] > 0 /\ e \in stream'
  <2>1. CASE UNCHANGED <<stream, ready>>
    BY <2>1
  <2>2. CASE stream' = stream \cup {k.row} /\ ready' = [ready EXCEPT ![k.row] = @ + 1]
    <3>1. ready \in [Events -> Nat]
      BY DEF TypeOK
    <3> QED BY <1>0, <2>2, <3>1
  <2> QED BY <1>2, <2>1, <2>2
<1>5. \A q \in Publishers : q # p => pub'[q] = pub[q]
  BY DEF TypeOK, Publish, PublishFails
<1>6. WorkersHoldMessages' /\ CompletedWasReceived' /\ AckedOnlyWhenCompleted'
  BY <1>1 DEF WorkersHoldMessages, CompletedWasReceived, AckedOnlyWhenCompleted
<1>7. FlowIsBacked'
  <2>1. \A q \in Publishers : pub'[q].batch = pub[q].batch
    BY <1>4, <1>5
  <2>2. \A e \in Events : ready'[e] > 0 => e \in stream'
    BY <1>3, <1>10 DEF FlowIsBacked
  <2> QED BY <1>0, <1>1, <1>3, <2>1, <2>2 DEF FlowIsBacked
<1>8. StreamIsOwed'
  BY <1>1, <1>10 DEF StreamIsOwed, OwedByBroker, HeldBy, TypeOK
<1>9. PublishedWasSent'
  <2>1. ASSUME NEW j \in pub'[p].batch, pub'[p].pc = "sent", Current(p, j)'
        PROVE j.row \in stream'
    <3>1. j.row = k.row
      BY <1>4, <2>1 DEF Current, TypeOK, Publisher, Claims, Events
    <3> QED BY <1>3, <2>1, <3>1
  <2>2. ASSUME NEW q \in Publishers, q # p, NEW j \in pub'[q].batch,
               pub'[q].pc = "sent", Current(q, j)'
        PROVE j.row \in stream'
    BY <1>3, <1>5, <2>2 DEF PublishedWasSent, Current
  <2> QED BY <1>1, <1>3, <2>1, <2>2 DEF PublishedWasSent
<1> QED BY <1>6, <1>7, <1>8, <1>9

\* A publisher that stops or starts holds no claim.
LEMMA PublisherLifeFlow ==
  ASSUME FlowInv, TypeOK', NEW p \in Publishers,
         PublisherRestarts(p) \/ \E why \in {"crashed", "dead"} : PublisherStops(p, why)
  PROVE  FlowInv'
<1>1. pub'[p].batch = {} /\ pub'[p].pc # "sent"
  BY DEF FlowInv, TypeOK, PublisherRestarts, PublisherStops, Idle
<1>2. \A q \in Publishers : q # p => pub'[q] = pub[q]
  BY DEF FlowInv, TypeOK, PublisherRestarts, PublisherStops
<1>3. UNCHANGED <<outbox, inbox, received, stream, ready, con>>
  BY DEF PublisherRestarts, PublisherStops
<1>4. \A q \in Publishers : \A k \in pub'[q].batch : k \in pub[q].batch
  BY <1>1, <1>2
<1>5. \A q \in Publishers : pub'[q].pc = "sent" => pub'[q] = pub[q]
  BY <1>1, <1>2
<1>6. \A e \in Events : outbox[e].status = "published" => e \in stream
  BY DEF FlowInv, PublishedWasSent
<1> QED BY <1>3, <1>4, <1>5, <1>6, OutboxFlow

\* What a step of one consumer must respect for the message flow to survive it.
LEMMA ConsumerFlow ==
  ASSUME FlowInv, TypeOK', NEW c \in Consumers,
         UNCHANGED <<outbox, stream, pub>>,
         \A d \in Consumers : d # c => con'[d] = con[d],
         received \subseteq received', received' \subseteq stream,
         con'[c].msg = NoMessage <=> con'[c].pc \in {"idle", "crashed", "dead"},
         con'[c].msg # NoMessage => con'[c].msg \in stream,
         \A e \in Events : ready'[e] > 0 => e \in stream,
         \A e \in Events : ready[e] > 0 => ready'[e] > 0 \/ con'[c].msg = e,
         \A e \in Events : con[c].msg = e =>
            con'[c].msg = e \/ ready'[e] > 0 \/ inbox'[e].status = "completed",
         \A e \in Events : inbox[e].status = "completed" => inbox'[e].status = "completed",
         \A e \in Events : inbox'[e].status = "completed" => e \in received',
         con'[c].pc = "handled" => con'[c].msg \in received',
         con'[c].pc = "acking" => inbox'[con'[c].msg].status = "completed"
  PROVE  FlowInv'
<1> USE DEF FlowInv
<1>1. WorkersHoldMessages'
  BY DEF WorkersHoldMessages
<1>2. FlowIsBacked'
  BY DEF FlowIsBacked
<1>3. PublishedWasSent'
  BY DEF PublishedWasSent, Current
<1>4. StreamIsOwed'
  <2> SUFFICES ASSUME NEW e \in stream, inbox'[e].status # "completed"
               PROVE  ready'[e] > 0 \/ \E d \in Consumers : con'[d].msg = e
    BY DEF StreamIsOwed, OwedByBroker, HeldBy
  <2>1. e \in Events
    BY DEF TypeOK
  <2>2. ready[e] > 0 \/ \E d \in Consumers : con[d].msg = e
    BY <2>1 DEF StreamIsOwed, OwedByBroker, HeldBy
  <2> QED BY <2>1, <2>2
<1>5. CompletedWasReceived'
  BY DEF CompletedWasReceived
<1>6. AckedOnlyWhenCompleted'
  <2> SUFFICES ASSUME NEW d \in Consumers, con'[d].pc = "acking"
               PROVE  inbox'[con'[d].msg].status = "completed" /\ con'[d].msg \in received'
    BY DEF AckedOnlyWhenCompleted
  <2>1. con'[d].msg # NoMessage
    BY <1>1 DEF WorkersHoldMessages
  <2>2. con'[d].msg \in Events
    BY <2>1 DEF TypeOK, Consumer
  <2>3. inbox'[con'[d].msg].status = "completed"
    BY <2>2 DEF AckedOnlyWhenCompleted
  <2> QED BY <2>2, <2>3
<1> QED BY <1>1, <1>2, <1>3, <1>4, <1>5, <1>6

LEMMA FetchFlow ==
  ASSUME FlowInv, TypeOK', NEW c \in Consumers, NEW e \in Events, Fetch(c, e)
  PROVE  FlowInv'
<1>1. con'[c] = [pc |-> "fetched", msg |-> e, token |-> 0]
  BY DEF FlowInv, TypeOK, Fetch
<1>2. \A d \in Consumers : d # c => con'[d] = con[d]
  BY DEF FlowInv, TypeOK, Fetch
<1>3. UNCHANGED <<outbox, inbox, received, stream, pub>>
  BY DEF Fetch
<1>4. e # NoMessage /\ e \in stream /\ con[c].msg = NoMessage
  BY DEF FlowInv, FlowIsBacked, WorkersHoldMessages, Fetch, NoMessage, Events
<1>5. \A d \in Events : ready'[d] = IF d = e THEN ready[e] - 1 ELSE ready[d]
  BY DEF FlowInv, TypeOK, Fetch
<1>6. \A d \in Events : ready'[d] > 0 => d \in stream
  BY <1>4, <1>5 DEF FlowInv, FlowIsBacked
<1>7. \A d \in Events : ready[d] > 0 => ready'[d] > 0 \/ con'[c].msg = d
  BY <1>1, <1>5
<1>8. \A d \in Events : con[c].msg # d
  BY <1>4 DEF NoMessage, Events
<1>9. received \subseteq stream /\ \A d \in Events : inbox[d].status = "completed" => d \in received
  BY DEF FlowInv, FlowIsBacked, CompletedWasReceived
<1> QED BY <1>1, <1>2, <1>3, <1>4, <1>6, <1>7, <1>8, <1>9, ConsumerFlow

\* The steps between the fetch and the answer keep the message in hand.
LEMMA WorkFlow ==
  ASSUME FlowInv, TypeOK', NEW c \in Consumers, NEW e \in Events,
         \/ claim_inbox(c, e) \/ Handle(c, e) \/ HandlerRaises(c, e)
         \/ complete_inbox(c, e) \/ retry_inbox(c, e)
  PROVE  FlowInv'
<1> USE DEF FlowInv
<1>1. con[c].msg = e /\ e # NoMessage /\ e \in stream
  <2>1. con[c].msg = e
    BY DEF claim_inbox, Handle, HandlerRaises, complete_inbox, retry_inbox
  <2> QED BY <2>1 DEF FlowIsBacked, NoMessage, Events
<1>2. /\ con'[c].msg = e
      /\ con'[c].pc \in {"handling", "handled", "failed", "acking", "naking"}
      /\ con'[c].pc = "handled" => e \in received'
      /\ con'[c].pc = "acking" => inbox'[e].status = "completed"
  <2>0. con \in [Consumers -> Consumer] /\ inbox \in [Events -> InboxRow]
    BY DEF TypeOK
  <2>1. CASE claim_inbox(c, e)
    BY <2>0, <2>1 DEF Consumer, claim_inbox, AnswerToBusy
  <2>2. CASE Handle(c, e)
    BY <2>0, <2>2 DEF Consumer, Handle
  <2>3. CASE HandlerRaises(c, e)
    BY <2>0, <2>3 DEF Consumer, HandlerRaises
  <2>4. CASE complete_inbox(c, e)
    BY <2>0, <2>4 DEF Consumer, complete_inbox, Row
  <2>5. CASE retry_inbox(c, e)
    BY <2>0, <2>5 DEF Consumer, retry_inbox
  <2> QED BY <2>1, <2>2, <2>3, <2>4, <2>5
<1>4. \A d \in Consumers : d # c => con'[d] = con[d]
  <2>1. \E v : con' = [con EXCEPT ![c] = v]
    BY DEF claim_inbox, Handle, HandlerRaises, complete_inbox, retry_inbox
  <2> QED BY <2>1 DEF TypeOK
<1>5. UNCHANGED <<outbox, stream, ready, pub>>
  BY DEF claim_inbox, Handle, HandlerRaises, complete_inbox, retry_inbox
<1>6. received \subseteq received' /\ received' \subseteq received \cup {e}
  BY DEF claim_inbox, Handle, HandlerRaises, complete_inbox, retry_inbox
<1>8. \A d \in Events :
        /\ inbox[d].status = "completed" => inbox'[d].status = "completed"
        /\ inbox'[d].status = "completed" => inbox[d].status = "completed" \/ d \in received
  <2>1. CASE claim_inbox(c, e)
    BY <2>1 DEF TypeOK, claim_inbox, Row
  <2>2. CASE Handle(c, e) \/ HandlerRaises(c, e)
    BY <2>2 DEF Handle, HandlerRaises
  <2>3. CASE complete_inbox(c, e)
    BY <2>3 DEF TypeOK, complete_inbox, Row, CompletedWasReceived
  <2>4. CASE retry_inbox(c, e)
    BY <2>4 DEF TypeOK, retry_inbox, Row, InboxFenceHolds
  <2> QED BY <2>1, <2>2, <2>3, <2>4
<1>10. \A d \in Events : inbox'[d].status = "completed" => d \in received'
  BY <1>6, <1>8 DEF CompletedWasReceived
<1>11. received' \subseteq stream
  BY <1>1, <1>6 DEF FlowIsBacked
<1>12. \A d \in Events : con[c].msg = d => con'[c].msg = d
  BY <1>1, <1>2
<1>13. \A d \in Events : ready'[d] > 0 => d \in stream
  BY <1>5 DEF FlowIsBacked
<1> QED
  BY <1>1, <1>2, <1>4, <1>5, <1>6, <1>8, <1>10, <1>11, <1>12, <1>13, ConsumerFlow

\* The steps that give the message up, or take up nothing.
LEMMA ReleaseFlow ==
  ASSUME FlowInv, TypeOK', NEW c \in Consumers,
         \/ ack(c) \/ ConsumerRestarts(c)
         \/ \E e \in Events : nak(c, e)
         \/ \E why \in {"crashed", "dead"} : ConsumerStops(c, why)
  PROVE  FlowInv'
<1> USE DEF FlowInv
<1>1. con'[c].msg = NoMessage /\ con'[c].pc \in {"idle", "crashed", "dead"}
  BY DEF TypeOK, ack, nak, ConsumerRestarts, ConsumerStops, Resting
<1>2. \A d \in Consumers : d # c => con'[d] = con[d]
  BY DEF TypeOK, ack, nak, ConsumerRestarts, ConsumerStops
<1>3. UNCHANGED <<outbox, inbox, received, stream, pub>>
  BY DEF ack, nak, ConsumerRestarts, ConsumerStops
<1>4. \A d \in Events : ready'[d] # ready[d] => d \in stream /\ ready'[d] > 0
  <2>1. CASE ack(c) \/ ConsumerRestarts(c)
    BY <2>1 DEF ack, ConsumerRestarts
  <2>2. CASE \E e \in Events : nak(c, e)
    BY <2>2 DEF TypeOK, nak, FlowIsBacked, NoMessage, Events
  <2>3. CASE \E why \in {"crashed", "dead"} : ConsumerStops(c, why)
    BY <2>3 DEF TypeOK, ConsumerStops, FlowIsBacked, NoMessage, Events
  <2> QED BY <2>1, <2>2, <2>3
<1>5. \A d \in Events : con[c].msg = d => ready'[d] > 0 \/ inbox[d].status = "completed"
  <2>1. CASE ack(c)
    BY <2>1 DEF ack, AckedOnlyWhenCompleted
  <2>2. CASE ConsumerRestarts(c)
    BY <2>2 DEF ConsumerRestarts, WorkersHoldMessages, NoMessage, Events
  <2>3. CASE \E e \in Events : nak(c, e)
    BY <2>3 DEF TypeOK, nak
  <2>4. CASE \E why \in {"crashed", "dead"} : ConsumerStops(c, why)
    BY <2>4 DEF TypeOK, ConsumerStops
  <2> QED BY <2>1, <2>2, <2>3, <2>4
<1>6. /\ \A d \in Events : ready'[d] > 0 => d \in stream
      /\ \A d \in Events : ready[d] > 0 => ready'[d] > 0
  BY <1>4 DEF FlowIsBacked
<1>7. received \subseteq stream /\ \A d \in Events : inbox[d].status = "completed" => d \in received
  BY DEF FlowIsBacked, CompletedWasReceived
<1> QED BY <1>1, <1>2, <1>3, <1>5, <1>6, <1>7, ConsumerFlow

LEMMA RedeliverFlow ==
  ASSUME FlowInv, TypeOK', NEW c \in Consumers, NEW e \in Events, Redeliver(c, e)
  PROVE  FlowInv'
<1> USE DEF FlowInv
<1>1. UNCHANGED <<outbox, inbox, received, stream, pub, con>> /\ con[c].msg = e
  BY DEF Redeliver
<1>2. e \in stream
  BY <1>1 DEF FlowIsBacked, NoMessage, Events
<1>3. /\ \A d \in Events : ready'[d] > 0 => d \in stream
      /\ \A d \in Events : ready[d] > 0 => ready'[d] > 0
  BY <1>2 DEF TypeOK, Redeliver, FlowIsBacked
<1>4. /\ con[c].msg = NoMessage <=> con[c].pc \in {"idle", "crashed", "dead"}
      /\ con[c].msg # NoMessage => con[c].msg \in stream
      /\ con[c].pc = "handled" => con[c].msg \in received
      /\ con[c].pc = "acking" => inbox[con[c].msg].status = "completed"
      /\ received \subseteq stream
      /\ \A d \in Events : inbox[d].status = "completed" => d \in received
  BY DEF WorkersHoldMessages, FlowIsBacked, CompletedWasReceived,
         AckedOnlyWhenCompleted
<1> QED BY <1>1, <1>3, <1>4, ConsumerFlow

\* Time moves leases and back-offs only.
LEMMA ClockFlow == ASSUME FlowInv, TypeOK', Clock PROVE FlowInv'
<1> USE DEF FlowInv
<1>1. UNCHANGED <<received, stream, ready, pub, con>>
  BY DEF Clock, OutboxLeaseElapses, InboxLeaseElapses, OutboxBackoffElapses,
         InboxBackoffElapses
<1>2. \A e \in Events : outbox'[e].status = outbox[e].status
  BY DEF Clock, OutboxLeaseElapses, InboxLeaseElapses, OutboxBackoffElapses,
         InboxBackoffElapses, TypeOK, OutboxRow
<1>3. \A e \in Events : inbox'[e].status = inbox[e].status
  BY DEF Clock, OutboxLeaseElapses, InboxLeaseElapses, OutboxBackoffElapses,
         InboxBackoffElapses, TypeOK, InboxRow
<1>4. WorkersHoldMessages'
  BY <1>1 DEF WorkersHoldMessages
<1>5. FlowIsBacked' /\ PublishedWasSent'
  <2>1. \A p \in Publishers : \A k \in pub[p].batch : k.row \in Events
    BY DEF TypeOK, Publisher, Claims
  <2>2. FlowIsBacked'
    BY <1>1, <1>2, <2>1 DEF FlowIsBacked, TypeOK
  <2>3. PublishedWasSent'
    BY <1>1, <1>2 DEF PublishedWasSent, Current
  <2> QED BY <2>2, <2>3
<1>6. StreamIsOwed' /\ CompletedWasReceived'
  BY <1>1, <1>3 DEF StreamIsOwed, CompletedWasReceived, OwedByBroker, HeldBy, TypeOK
<1>7. AckedOnlyWhenCompleted'
  <2>1. \A c \in Consumers : con[c].pc = "acking" => con[c].msg \in Events
    BY DEF AckedOnlyWhenCompleted, TypeOK
  <2> QED BY <1>1, <1>3, <2>1 DEF AckedOnlyWhenCompleted
<1> QED BY <1>4, <1>5, <1>6, <1>7

LEMMA NextFlow == FlowInv /\ [Next]_vars => FlowInv'
<1>1. ASSUME FlowInv, Next PROVE FlowInv'
  <2>0. TypeOK'
    BY <1>1, NextTypeOK DEF FlowInv
  <2>1. CASE \E e \in Events : append_with_outbox(e)
    BY <1>1, <2>0, <2>1, AppendFlow
  <2>2. CASE \E p \in Publishers : run_once(p)
    BY <1>1, <2>0, <2>2, ClaimOutboxFlow, PublishFlow, SettleOutboxFlow DEF run_once
  <2>3. CASE \E c \in Consumers : process_once(c)
    BY <1>1, <2>0, <2>3, FetchFlow, WorkFlow, ReleaseFlow DEF process_once
  <2>4. CASE Clock
    BY <1>1, <2>0, <2>4, ClockFlow
  <2>5. CASE Failure
    BY <1>1, <2>0, <2>5, PublishFlow, PublisherLifeFlow, WorkFlow, RedeliverFlow,
       ReleaseFlow DEF Failure
  <2>6. CASE Restart
    BY <1>1, <2>0, <2>6, PublisherLifeFlow, ReleaseFlow DEF Restart
  <2> QED BY <1>1, <2>1, <2>2, <2>3, <2>4, <2>5, <2>6 DEF Next
<1>2. FlowInv /\ UNCHANGED vars => FlowInv'
  BY DEF FlowInv, TypeOK, WorkersHoldMessages, FlowIsBacked, PublishedWasSent,
         StreamIsOwed, CompletedWasReceived, AckedOnlyWhenCompleted, Current,
         OwedByBroker, HeldBy, vars
<1> QED BY <1>1, <1>2

\* The message flow invariant holds in every reachable state.
THEOREM FlowCorrect == Spec => []FlowInv
BY InitFlow, NextFlow, PTL DEF Spec

\* Whatever workers, broker and clock do, a committed event is in its outbox
\* row, with the broker, in a consumer's hands, or completed at the receiver.
THEOREM EventsAreNeverLost == Spec => []NoEventLost
<1>1. FlowInv => NoEventLost
  <2> SUFFICES ASSUME FlowInv, NEW e \in Events, outbox[e].status = "published"
               PROVE  \/ OwedByBroker(e)
                      \/ inbox[e].status = "completed" /\ e \in received
    BY DEF NoEventLost, FlowInv, TypeOK, OutboxRow
  <2>1. e \in stream
    BY DEF FlowInv, PublishedWasSent
  <2> QED BY <2>1 DEF FlowInv, StreamIsOwed, CompletedWasReceived
<1> QED BY <1>1, FlowCorrect, PTL

\* A consumer acknowledges only what its inbox has completed and its kernel has
\* ingested.
THEOREM AcksFollowCompletion == Spec => []AckedOnlyWhenCompleted
BY FlowCorrect, PTL DEF FlowInv

-----------------------------------------------------------------------------
\* Delivery implements EventTransfer.

\* The four facts stage is computed from.
StageFacts(e) ==
  <<inbox[e].status = "completed", e \in received, e \in stream,
    outbox[e].status # "absent">>

LEMMA SameFactsSameStage ==
  ASSUME NEW e \in Events, UNCHANGED StageFacts(e) PROVE stage'[e] = stage[e]
BY DEF StageFacts, stage

\* A step that changes the facts of one event only, and moves that event to the
\* next stage, is a step of EventTransfer.
LEMMA OneEventAdvances ==
  ASSUME NEW e \in Events,
         \A d \in Events : d # e => UNCHANGED StageFacts(d),
         stage[e] # "settled",
         stage'[e] = stage[e] \/ stage'[e] = Transfer!Follows[stage[e]]
  PROVE  [Transfer!Next]_stage
<1>1. \A d \in Events : d # e => stage'[d] = stage[d]
  BY SameFactsSameStage
<1>2. /\ stage = [d \in Events |-> stage[d]]
      /\ stage' = [d \in Events |-> stage'[d]]
  BY DEF stage
<1>3. CASE stage'[e] = stage[e]
  <2>1. stage' = stage
    BY <1>1, <1>2, <1>3
  <2> QED BY <2>1
<1>4. CASE stage'[e] = Transfer!Follows[stage[e]]
  <2>1. stage' = [stage EXCEPT ![e] = Transfer!Follows[stage[e]]]
    BY <1>1, <1>2, <1>4
  <2> QED BY <2>1 DEF Transfer!Next, Transfer!Advance
<1> QED BY <1>3, <1>4

LEMMA FactsUnchanged ==
  ASSUME \A e \in Events : UNCHANGED StageFacts(e) PROVE UNCHANGED stage
<1>1. \A e \in Events : stage'[e] = stage[e]
  BY SameFactsSameStage
<1>2. /\ stage = [e \in Events |-> stage[e]]
      /\ stage' = [e \in Events |-> stage'[e]]
  BY DEF stage
<1> QED BY <1>1, <1>2

\* The commit, the broker's acceptance, the handler and complete_inbox are the
\* four steps that advance an event.
LEMMA CommitAdvances ==
  ASSUME FlowInv, NEW e \in Events, append_with_outbox(e)
  PROVE  [Transfer!Next]_stage
<1>1. stage[e] = "none"
  BY DEF append_with_outbox, stage, FlowInv, FlowIsBacked, CompletedWasReceived
<1>2. \A d \in Events : d # e => UNCHANGED StageFacts(d)
  BY DEF append_with_outbox, StageFacts, FlowInv, TypeOK
<1>3. stage'[e] = "committed"
  BY <1>1 DEF append_with_outbox, stage, FlowInv, TypeOK, OutboxRow
<1> QED
  BY <1>1, <1>2, <1>3, OneEventAdvances DEF Transfer!Follows, Transfer!Stages

LEMMA PublishAdvances ==
  ASSUME FlowInv, NEW p \in Publishers, NEW k \in pub[p].batch,
         Publish(p, k) \/ PublishFails(p, k)
  PROVE  [Transfer!Next]_stage
<1>1. k.row \in Events /\ outbox[k.row].status # "absent"
  BY DEF FlowInv, TypeOK, Publisher, Claims, FlowIsBacked
<1>2. UNCHANGED <<outbox, inbox, received>> /\ stream' \in {stream, stream \cup {k.row}}
  BY DEF Publish, PublishFails
<1>3. CASE k.row \in stream
  <2>1. \A e \in Events : UNCHANGED StageFacts(e)
    BY <1>2, <1>3 DEF StageFacts
  <2> QED BY <2>1, FactsUnchanged
<1>4. CASE k.row \notin stream
  <2>1. stage[k.row] = "committed"
    BY <1>1, <1>4 DEF stage, FlowInv, FlowIsBacked, CompletedWasReceived
  <2>2. stage'[k.row] \in {"committed", "sent"}
    BY <1>1, <1>2, <1>4, <2>1 DEF stage
  <2>3. \A d \in Events : d # k.row => UNCHANGED StageFacts(d)
    BY <1>2 DEF StageFacts
  <2> QED
    BY <1>1, <2>1, <2>2, <2>3, OneEventAdvances DEF Transfer!Follows, Transfer!Stages
<1> QED BY <1>3, <1>4

LEMMA HandleAdvances ==
  ASSUME FlowInv, NEW c \in Consumers, NEW e \in Events,
         Handle(c, e) \/ HandlerRaises(c, e)
  PROVE  [Transfer!Next]_stage
<1>1. UNCHANGED <<outbox, inbox, stream>> /\ received' \in {received, received \cup {e}}
  BY DEF Handle, HandlerRaises
<1>2. e \in stream
  BY DEF Handle, HandlerRaises, FlowInv, FlowIsBacked, NoMessage, Events
<1>3. CASE e \in received
  <2>1. \A d \in Events : UNCHANGED StageFacts(d)
    BY <1>1, <1>3 DEF StageFacts
  <2> QED BY <2>1, FactsUnchanged
<1>4. CASE e \notin received
  <2>1. stage[e] = "sent"
    BY <1>2, <1>4 DEF stage, FlowInv, CompletedWasReceived
  <2>2. stage'[e] \in {"sent", "received"}
    BY <1>1, <2>1 DEF stage
  <2>3. \A d \in Events : d # e => UNCHANGED StageFacts(d)
    BY <1>1 DEF StageFacts
  <2> QED
    BY <2>1, <2>2, <2>3, OneEventAdvances DEF Transfer!Follows, Transfer!Stages
<1> QED BY <1>3, <1>4

LEMMA CompletionAdvances ==
  ASSUME FlowInv, NEW c \in Consumers, NEW e \in Events, complete_inbox(c, e)
  PROVE  [Transfer!Next]_stage
<1>1. UNCHANGED <<outbox, received, stream>>
  BY DEF complete_inbox
<1>2. CASE InboxFenceHolds(c, e)
  <2>1. inbox' = [inbox EXCEPT ![e] = Row("completed", "none", @.due, @.token)]
    BY <1>2 DEF complete_inbox
  <2>2. stage[e] = "received"
    BY <1>2 DEF complete_inbox, InboxFenceHolds, stage, FlowInv, CompletedWasReceived
  <2>3. stage'[e] = "settled"
    BY <2>1 DEF stage, Row, FlowInv, TypeOK
  <2>4. \A d \in Events : d # e => UNCHANGED StageFacts(d)
    BY <1>1, <2>1 DEF StageFacts, FlowInv, TypeOK
  <2> QED
    BY <2>2, <2>3, <2>4, OneEventAdvances DEF Transfer!Follows, Transfer!Stages
<1>3. CASE ~InboxFenceHolds(c, e)
  <2>1. \A d \in Events : UNCHANGED StageFacts(d)
    BY <1>1, <1>3 DEF complete_inbox, StageFacts
  <2> QED BY <2>1, FactsUnchanged
<1> QED BY <1>2, <1>3

\* Claims, retries, stale completions and the outbox's own bookkeeping move no
\* event.
LEMMA OutboxBookkeepingStutters ==
  ASSUME FlowInv,
         \/ \E p \in Publishers, S \in SUBSET Events : claim_outbox(p, S)
         \/ \E p \in Publishers : \E k \in pub[p].batch :
              complete_outbox(p, k) \/ retry_outbox(p, k)
  PROVE  UNCHANGED stage
<1>1. UNCHANGED <<inbox, received, stream>>
  BY DEF claim_outbox, complete_outbox, retry_outbox
<1>2. \A e \in Events : (outbox'[e].status # "absent") = (outbox[e].status # "absent")
  <2>1. CASE \E p \in Publishers, S \in SUBSET Events : claim_outbox(p, S)
    BY <2>1 DEF claim_outbox, Selected, Claimable, Row
  <2>2. ASSUME NEW p \in Publishers, NEW k \in pub[p].batch,
               complete_outbox(p, k) \/ retry_outbox(p, k),
               NEW e \in Events
        PROVE  (outbox'[e].status # "absent") = (outbox[e].status # "absent")
    <3>1. k.row \in Events /\ outbox[k.row].status # "absent"
      BY DEF FlowInv, TypeOK, Publisher, Claims, FlowIsBacked
    <3>2. outbox \in [Events -> OutboxRow]
      BY DEF FlowInv, TypeOK
    <3>3. \/ outbox' = outbox
          \/ outbox' = [outbox EXCEPT ![k.row] = Row("published", "none", @.due, @.token)]
          \/ outbox' = [outbox EXCEPT ![k.row] = Row(@.status, "none", FALSE, @.token)]
      BY <2>2 DEF complete_outbox, retry_outbox
    <3> QED BY <3>1, <3>2, <3>3 DEF Row
  <2> QED BY <2>1, <2>2
<1> QED BY <1>1, <1>2, FactsUnchanged DEF StageFacts

LEMMA InboxBookkeepingStutters ==
  ASSUME FlowInv, NEW c \in Consumers, NEW e \in Events,
         claim_inbox(c, e) \/ retry_inbox(c, e)
  PROVE  UNCHANGED stage
<1>1. UNCHANGED <<outbox, received, stream>>
  BY DEF claim_inbox, retry_inbox
<1>2. inbox \in [Events -> InboxRow]
  BY DEF FlowInv, TypeOK
<1>3. \A d \in Events : (inbox'[d].status = "completed") = (inbox[d].status = "completed")
  BY <1>2 DEF claim_inbox, retry_inbox, InboxFenceHolds, Row
<1> QED BY <1>1, <1>3, FactsUnchanged DEF StageFacts

LEMMA OtherStepsStutter ==
  ASSUME FlowInv,
         \/ \E c \in Consumers : ack(c) \/ ConsumerRestarts(c)
         \/ \E c \in Consumers, e \in Events : Fetch(c, e) \/ nak(c, e) \/ Redeliver(c, e)
         \/ \E c \in Consumers, why \in {"crashed", "dead"} : ConsumerStops(c, why)
         \/ \E p \in Publishers : PublisherRestarts(p)
         \/ \E p \in Publishers, why \in {"crashed", "dead"} : PublisherStops(p, why)
         \/ UNCHANGED vars
  PROVE  UNCHANGED stage
<1>1. UNCHANGED <<outbox, inbox, received, stream>>
  BY DEF ack, ConsumerRestarts, Fetch, nak, Redeliver, ConsumerStops,
         PublisherRestarts, PublisherStops, vars
<1> QED BY <1>1, FactsUnchanged DEF StageFacts

LEMMA ClockStutters == ASSUME FlowInv, Clock PROVE UNCHANGED stage
<1>1. UNCHANGED <<received, stream>>
  BY DEF Clock, OutboxLeaseElapses, InboxLeaseElapses, OutboxBackoffElapses,
         InboxBackoffElapses
<1>2. \A e \in Events : outbox'[e].status = outbox[e].status
  BY DEF Clock, OutboxLeaseElapses, InboxLeaseElapses, OutboxBackoffElapses,
         InboxBackoffElapses, FlowInv, TypeOK, OutboxRow
<1>3. \A e \in Events : inbox'[e].status = inbox[e].status
  BY DEF Clock, OutboxLeaseElapses, InboxLeaseElapses, OutboxBackoffElapses,
         InboxBackoffElapses, FlowInv, TypeOK, InboxRow
<1> QED BY <1>1, <1>2, <1>3, FactsUnchanged DEF StageFacts

LEMMA StepsImplementTransfer == FlowInv /\ [Next]_vars => [Transfer!Next]_stage
<1> SUFFICES ASSUME FlowInv, [Next]_vars PROVE [Transfer!Next]_stage
  OBVIOUS
<1>1. CASE \E e \in Events : append_with_outbox(e)
  BY <1>1, CommitAdvances
<1>2. CASE \E p \in Publishers : run_once(p)
  BY <1>2, OutboxBookkeepingStutters, PublishAdvances DEF run_once
<1>3. CASE \E c \in Consumers : process_once(c)
  BY <1>3, OtherStepsStutter, InboxBookkeepingStutters, HandleAdvances,
     CompletionAdvances DEF process_once
<1>4. CASE Clock
  BY <1>4, ClockStutters
<1>5. CASE Failure
  BY <1>5, PublishAdvances, HandleAdvances, OtherStepsStutter DEF Failure
<1>6. CASE Restart
  BY <1>6, OtherStepsStutter DEF Restart
<1>7. CASE UNCHANGED vars
  BY <1>7, OtherStepsStutter
<1> QED BY <1>1, <1>2, <1>3, <1>4, <1>5, <1>6, <1>7 DEF Next

\* Every event walks none, committed, sent, received, settled in this order,
\* one stage at a time and never back: nothing is received that was not sent,
\* nothing is completed that was not received, nothing is undone.
THEOREM DeliveryImplementsTransfer == Spec => ImplementsSafeTransfer
<1>1. Init => Transfer!Init
  BY DEF Init, Transfer!Init, stage, AbsentRow, Row
<1>2. QED
  BY <1>1, FlowCorrect, StepsImplementTransfer, PTL
     DEF Spec, ImplementsSafeTransfer, Transfer!SafeSpec

-----------------------------------------------------------------------------
\* Fencing.  A claim's token is at most its row's token, a new claim's token is
\* larger, so no token is handed out twice.

Working(c) == con[c].pc \in {"handling", "handled", "failed"}

FenceInv ==
  /\ TypeOK
  /\ \A p \in Publishers : \A k \in pub[p].batch : k.token <= outbox[k.row].token
  /\ \A p, q \in Publishers : \A k \in pub[p].batch \cap pub[q].batch : p = q
  /\ \A c \in Consumers :
       Working(c) => con[c].msg \in Events /\ con[c].token <= inbox[con[c].msg].token
  /\ \A c, d \in Consumers :
       Working(c) /\ Working(d) /\ con[c].msg = con[d].msg /\ con[c].token = con[d].token
         => c = d

\* Steps that hand out no token: claims are kept or dropped, tokens of rows kept.
LEMMA NoClaimFence ==
  ASSUME FenceInv, TypeOK',
         \A e \in Events : outbox'[e].token = outbox[e].token,
         \A e \in Events : inbox'[e].token = inbox[e].token,
         \A p \in Publishers : pub'[p].batch \subseteq pub[p].batch,
         \A c \in Consumers : Working(c)' =>
            Working(c) /\ con'[c].msg = con[c].msg /\ con'[c].token = con[c].token
  PROVE  FenceInv'
<1>1. \A p \in Publishers : \A k \in pub[p].batch : k.row \in Events
  BY DEF FenceInv, TypeOK, Publisher, Claims
<1>2. \A p \in Publishers : \A k \in pub'[p].batch : k.token <= outbox'[k.row].token
  BY <1>1 DEF FenceInv
<1>3. \A p, q \in Publishers : \A k \in pub'[p].batch \cap pub'[q].batch : p = q
  BY DEF FenceInv
<1>4. \A c \in Consumers :
        Working(c)' => con'[c].msg \in Events /\ con'[c].token <= inbox'[con'[c].msg].token
  BY DEF FenceInv
<1>5. \A c, d \in Consumers :
        Working(c)' /\ Working(d)' /\ con'[c].msg = con'[d].msg /\ con'[c].token = con'[d].token
          => c = d
  BY DEF FenceInv
<1> QED BY <1>2, <1>3, <1>4, <1>5 DEF FenceInv

LEMMA ClaimOutboxFence ==
  ASSUME FenceInv, TypeOK', NEW p \in Publishers, NEW S \in SUBSET Events,
         claim_outbox(p, S)
  PROVE  FenceInv'
<1>1. UNCHANGED <<inbox, con>>
  BY DEF claim_outbox
<1>2. \A e \in Events :
        /\ outbox[e].token \in Nat
        /\ outbox'[e].token >= outbox[e].token
        /\ (e \in S => outbox'[e].token = outbox[e].token + 1)
  BY DEF FenceInv, TypeOK, OutboxRow, claim_outbox, Row, NextToken
<1>3. \A k \in pub'[p].batch :
        k.row \in S /\ k.row \in Events /\ k.token = outbox[k.row].token + 1
  BY DEF FenceInv, TypeOK, claim_outbox, NextToken
<1>4. \A q \in Publishers : q # p => pub'[q] = pub[q]
  BY DEF FenceInv, TypeOK, claim_outbox
<1>5. \A q \in Publishers : \A k \in pub[q].batch :
        k.row \in Events /\ k.token \in Nat /\ k.token <= outbox[k.row].token
  BY DEF FenceInv, TypeOK, Publisher, Claims
<1>6. \A q \in Publishers : \A k \in pub'[q].batch : k.token <= outbox'[k.row].token
  <2> SUFFICES ASSUME NEW q \in Publishers, NEW k \in pub'[q].batch
               PROVE  k.token <= outbox'[k.row].token
    OBVIOUS
  <2>1. CASE q = p
    <3>1. k.row \in S /\ k.row \in Events /\ k.token = outbox[k.row].token + 1
      BY <1>3, <2>1
    <3>2. k.token = outbox'[k.row].token /\ k.token \in Nat
      BY <1>2, <3>1
    <3> QED BY <3>2
  <2>2. CASE q # p
    <3>1. k \in pub[q].batch
      BY <1>4, <2>2
    <3>2. k.row \in Events /\ k.token \in Nat /\ k.token <= outbox[k.row].token
      BY <1>5, <3>1
    <3>3. outbox[k.row].token \in Nat /\ outbox'[k.row].token >= outbox[k.row].token
      BY <1>2, <3>2
    <3>4. outbox'[k.row].token \in Nat
      BY <3>2 DEF TypeOK, OutboxRow
    <3> QED BY <3>2, <3>3, <3>4
  <2> QED BY <2>1, <2>2
<1>7. \A q, r \in Publishers : \A k \in pub'[q].batch \cap pub'[r].batch : q = r
  <2>1. ASSUME NEW q \in Publishers, q # p, NEW k \in pub'[p].batch, k \in pub[q].batch
        PROVE  FALSE
    <3>1. k.row \in Events /\ k.token = outbox[k.row].token + 1
      BY <1>3, <2>1
    <3>2. k.token <= outbox[k.row].token /\ outbox[k.row].token \in Nat
      BY <1>2, <1>5, <2>1, <3>1
    <3> QED BY <3>1, <3>2
  <2> SUFFICES ASSUME NEW q \in Publishers, NEW r \in Publishers,
                      NEW k \in pub'[q].batch \cap pub'[r].batch, q # r
               PROVE  FALSE
    OBVIOUS
  <2>2. CASE q = p
    BY <1>4, <2>1, <2>2
  <2>3. CASE r = p
    BY <1>4, <2>1, <2>3
  <2>4. CASE q # p /\ r # p
    BY <1>4, <2>4 DEF FenceInv
  <2> QED BY <2>2, <2>3, <2>4
<1> QED BY <1>1, <1>6, <1>7 DEF FenceInv, Working

LEMMA ClaimInboxFence ==
  ASSUME FenceInv, TypeOK', NEW c \in Consumers, NEW e \in Events, claim_inbox(c, e)
  PROVE  FenceInv'
<1>1. UNCHANGED <<outbox, pub>>
  BY DEF claim_inbox
<1>2. \A d \in Consumers : d # c => con'[d] = con[d]
  <2>1. \E v : con' = [con EXCEPT ![c] = v]
    BY DEF claim_inbox
  <2> QED BY <2>1 DEF FenceInv, TypeOK
<1>3. \/ ~Working(c)' /\ UNCHANGED inbox
      \/ /\ con'[c].msg = e /\ con'[c].token = inbox[e].token + 1
         /\ inbox'[e].token = inbox[e].token + 1
         /\ \A d \in Events : d # e => inbox'[d] = inbox[d]
  BY DEF FenceInv, TypeOK, Consumer, claim_inbox, Working, AnswerToBusy, Row, NextToken
<1>4. \A d \in Events : inbox[d].token \in Nat
  BY DEF FenceInv, TypeOK, InboxRow
<1>5. \A d \in Consumers : con[d].token \in Nat
  BY DEF FenceInv, TypeOK, Consumer
<1>6. \A d \in Consumers :
        Working(d)' => con'[d].msg \in Events /\ con'[d].token <= inbox'[con'[d].msg].token
  BY <1>2, <1>3, <1>4, <1>5 DEF FenceInv, Working
<1>7. \A d \in Consumers : d # c /\ Working(d)' /\ Working(c)' =>
        con'[c].msg # con'[d].msg \/ con'[c].token # con'[d].token
  BY <1>2, <1>3, <1>4, <1>5 DEF FenceInv, Working
<1>8. \A b, d \in Consumers :
        Working(b)' /\ Working(d)' /\ con'[b].msg = con'[d].msg /\ con'[b].token = con'[d].token
          => b = d
  BY <1>2, <1>7 DEF FenceInv, Working
<1> QED BY <1>1, <1>6, <1>8 DEF FenceInv

LEMMA OutboxSettleFence ==
  ASSUME FenceInv, TypeOK', NEW p \in Publishers, NEW k \in pub[p].batch,
         \/ Publish(p, k) \/ PublishFails(p, k)
         \/ complete_outbox(p, k) \/ retry_outbox(p, k)
  PROVE  FenceInv'
<1>1. k.row \in Events /\ outbox \in [Events -> OutboxRow] /\ pub \in [Publishers -> Publisher]
  BY DEF FenceInv, TypeOK, Publisher, Claims
<1>2. UNCHANGED <<inbox, con>>
  BY DEF Publish, PublishFails, complete_outbox, retry_outbox
<1>3. \A e \in Events : outbox'[e].token = outbox[e].token
  BY <1>1 DEF Publish, PublishFails, complete_outbox, retry_outbox, Row
<1>4. \A q \in Publishers : pub'[q].batch \subseteq pub[q].batch
  <2>1. CASE Publish(p, k) \/ PublishFails(p, k)
    BY <1>1, <2>1 DEF Publish, PublishFails, Publisher
  <2>2. CASE complete_outbox(p, k) \/ retry_outbox(p, k)
    <3>1. NextRecord(p, k)
      BY <2>2 DEF complete_outbox, retry_outbox
    <3> QED BY <1>1, <3>1 DEF NextRecord, Idle, Publisher
  <2> QED BY <2>1, <2>2
<1> QED BY <1>2, <1>3, <1>4, NoClaimFence DEF Working

LEMMA LifeFence ==
  ASSUME FenceInv, TypeOK',
         \/ \E e \in Events : append_with_outbox(e)
         \/ \E p \in Publishers : PublisherRestarts(p)
         \/ \E p \in Publishers, why \in {"crashed", "dead"} : PublisherStops(p, why)
         \/ Clock
  PROVE  FenceInv'
<1>1. UNCHANGED con
  BY DEF append_with_outbox, PublisherRestarts, PublisherStops, Clock,
         OutboxLeaseElapses, InboxLeaseElapses, OutboxBackoffElapses, InboxBackoffElapses
<1>2. \A e \in Events : outbox'[e].token = outbox[e].token
  BY DEF append_with_outbox, PublisherRestarts, PublisherStops, Clock,
         OutboxLeaseElapses, InboxLeaseElapses, OutboxBackoffElapses,
         InboxBackoffElapses, FenceInv, TypeOK, OutboxRow
<1>3. \A e \in Events : inbox'[e].token = inbox[e].token
  BY DEF append_with_outbox, PublisherRestarts, PublisherStops, Clock,
         OutboxLeaseElapses, InboxLeaseElapses, OutboxBackoffElapses,
         InboxBackoffElapses, FenceInv, TypeOK, InboxRow
<1>4. \A q \in Publishers : pub'[q].batch \subseteq pub[q].batch
  BY DEF append_with_outbox, PublisherRestarts, PublisherStops, Clock,
         OutboxLeaseElapses, InboxLeaseElapses, OutboxBackoffElapses,
         InboxBackoffElapses, FenceInv, TypeOK, Publisher, Idle
<1> QED BY <1>1, <1>2, <1>3, <1>4, NoClaimFence DEF Working

LEMMA ConsumerFence ==
  ASSUME FenceInv, TypeOK', NEW c \in Consumers,
         \/ \E e \in Events : \/ Fetch(c, e) \/ nak(c, e) \/ Redeliver(c, e)
                             \/ Handle(c, e) \/ HandlerRaises(c, e)
                             \/ complete_inbox(c, e) \/ retry_inbox(c, e)
         \/ ack(c) \/ ConsumerRestarts(c)
         \/ \E why \in {"crashed", "dead"} : ConsumerStops(c, why)
  PROVE  FenceInv'
<1>0. con \in [Consumers -> Consumer] /\ inbox \in [Events -> InboxRow]
  BY DEF FenceInv, TypeOK
<1>1. UNCHANGED <<outbox, pub>>
  BY DEF Fetch, nak, Redeliver, Handle, HandlerRaises, complete_inbox, retry_inbox,
         ack, ConsumerRestarts, ConsumerStops
<1>2. \A e \in Events : inbox'[e].token = inbox[e].token
  BY <1>0 DEF Fetch, nak, Redeliver, Handle, HandlerRaises, complete_inbox,
              retry_inbox, ack, ConsumerRestarts, ConsumerStops, Row
<1>3. \A d \in Consumers : Working(d)' =>
         Working(d) /\ con'[d].msg = con[d].msg /\ con'[d].token = con[d].token
  <2>1. CASE \E e \in Events : Fetch(c, e) \/ nak(c, e) \/ Redeliver(c, e)
    BY <1>0, <2>1 DEF Fetch, nak, Redeliver, Working, Resting
  <2>2. CASE \E e \in Events : Handle(c, e) \/ HandlerRaises(c, e)
    BY <1>0, <2>2 DEF Handle, HandlerRaises, Working, Consumer
  <2>3. CASE \E e \in Events : complete_inbox(c, e) \/ retry_inbox(c, e)
    BY <1>0, <2>3 DEF complete_inbox, retry_inbox, Working, Consumer
  <2>4. CASE ack(c) \/ ConsumerRestarts(c)
    BY <1>0, <2>4 DEF ack, ConsumerRestarts, Working, Resting
  <2>5. CASE \E why \in {"crashed", "dead"} : ConsumerStops(c, why)
    BY <1>0, <2>5 DEF ConsumerStops, Working, Resting
  <2> QED BY <2>1, <2>2, <2>3, <2>4, <2>5
<1> QED BY <1>1, <1>2, <1>3, NoClaimFence

LEMMA NextFence == FenceInv /\ [Next]_vars => FenceInv'
<1> SUFFICES ASSUME FenceInv, [Next]_vars PROVE FenceInv'
  OBVIOUS
<1>0. TypeOK'
  BY NextTypeOK DEF FenceInv
<1>1. CASE (\E e \in Events : append_with_outbox(e)) \/ Clock
  BY <1>0, <1>1, LifeFence
<1>2. CASE \E p \in Publishers : run_once(p)
  BY <1>0, <1>2, ClaimOutboxFence, OutboxSettleFence DEF run_once
<1>3. CASE \E c \in Consumers : process_once(c)
  BY <1>0, <1>3, ClaimInboxFence, ConsumerFence DEF process_once
<1>4. CASE Failure
  BY <1>0, <1>4, OutboxSettleFence, LifeFence, ConsumerFence DEF Failure
<1>5. CASE Restart
  BY <1>0, <1>5, LifeFence, ConsumerFence DEF Restart
<1>6. CASE UNCHANGED vars
  BY <1>6 DEF FenceInv, TypeOK, Working, vars
<1> QED BY <1>1, <1>2, <1>3, <1>4, <1>5, <1>6 DEF Next

\* Fencing tokens do their work: two workers never hold the same claim, however
\* often leases run out under them.
THEOREM FencingIsExclusive == Spec => []ClaimsAreFenced
<1>1. Init => FenceInv
  BY InitTypeOK DEF Init, FenceInv, Working, Idle, Resting
<1>2. FenceInv => ClaimsAreFenced
  BY DEF FenceInv, ClaimsAreFenced, InboxHolders, Working
<1> QED BY <1>1, <1>2, NextFence, PTL DEF Spec

-----------------------------------------------------------------------------
\* Rows follow their claims.  A row is due while a claim on it stands: only the
\* holder postpones it, and with that gives the claim up.

RowInv ==
  /\ FenceInv
  /\ \A e \in Events : outbox[e].status # "pending" => outbox[e].lease = "none" /\ outbox[e].due
  /\ \A e \in Events : inbox[e].status = "completed" => inbox[e].lease = "none" /\ inbox[e].due
  /\ \A p \in Publishers : \A k \in pub[p].batch :
       outbox[k.row].token = k.token => outbox[k.row].due
  /\ \A c \in Consumers :
       Working(c) /\ con[c].token = inbox[con[c].msg].token => inbox[con[c].msg].due

\* Steps that leave the outbox rows alone.
LEMMA OutboxRowsKept ==
  ASSUME RowInv, UNCHANGED outbox, \A p \in Publishers : pub'[p].batch \subseteq pub[p].batch
  PROVE  /\ \A e \in Events :
              outbox'[e].status # "pending" => outbox'[e].lease = "none" /\ outbox'[e].due
         /\ \A p \in Publishers : \A k \in pub'[p].batch :
              outbox'[k.row].token = k.token => outbox'[k.row].due
BY DEF RowInv

\* Steps that leave the inbox rows alone.
LEMMA InboxRowsKept ==
  ASSUME RowInv, UNCHANGED inbox,
         \A c \in Consumers : Working(c)' =>
            Working(c) /\ con'[c].msg = con[c].msg /\ con'[c].token = con[c].token
  PROVE  /\ \A e \in Events :
              inbox'[e].status = "completed" => inbox'[e].lease = "none" /\ inbox'[e].due
         /\ \A c \in Consumers :
              (Working(c) /\ con[c].token = inbox[con[c].msg].token)' => inbox'[con'[c].msg].due
BY DEF RowInv

LEMMA OutboxRows ==
  ASSUME RowInv, FenceInv', TypeOK', UNCHANGED <<inbox, con>>,
         \/ \E e \in Events : \/ append_with_outbox(e) \/ OutboxLeaseElapses(e)
                             \/ OutboxBackoffElapses(e)
         \/ \E p \in Publishers, S \in SUBSET Events : claim_outbox(p, S)
         \/ \E p \in Publishers : \E k \in pub[p].batch : complete_outbox(p, k) \/ retry_outbox(p, k)
  PROVE  RowInv'
<1>0. /\ outbox \in [Events -> OutboxRow] /\ pub \in [Publishers -> Publisher]
      /\ \A p \in Publishers : \A k \in pub[p].batch : k.row \in Events /\ k.token \in Nat
  BY DEF RowInv, FenceInv, TypeOK, Publisher, Claims
<1>1. /\ \A e \in Events :
           inbox'[e].status = "completed" => inbox'[e].lease = "none" /\ inbox'[e].due
      /\ \A c \in Consumers :
           (Working(c) /\ con[c].token = inbox[con[c].msg].token)' => inbox'[con'[c].msg].due
  BY InboxRowsKept DEF Working
<1>2. /\ \A e \in Events :
           outbox'[e].status # "pending" => outbox'[e].lease = "none" /\ outbox'[e].due
      /\ \A p \in Publishers : \A k \in pub'[p].batch :
           outbox'[k.row].token = k.token => outbox'[k.row].due
  <2>1. CASE \E e \in Events : \/ append_with_outbox(e) \/ OutboxLeaseElapses(e)
                              \/ OutboxBackoffElapses(e)
    <3> PICK e \in Events : append_with_outbox(e) \/ OutboxLeaseElapses(e) \/ OutboxBackoffElapses(e)
      BY <2>1
    <3>1. /\ UNCHANGED pub
          /\ \A d \in Events : /\ outbox'[d].token = outbox[d].token
                               /\ outbox[d].due => outbox'[d].due
                               /\ outbox'[d].status # "pending" =>
                                    outbox[d].status # "pending" /\ outbox'[d].lease = outbox[d].lease
      BY <1>0 DEF append_with_outbox, OutboxLeaseElapses, OutboxBackoffElapses, RowInv, OutboxRow
    <3> QED BY <1>0, <3>1 DEF RowInv
  <2>2. CASE \E p \in Publishers, S \in SUBSET Events : claim_outbox(p, S)
    <3> PICK p \in Publishers, S \in SUBSET Events : claim_outbox(p, S)
      BY <2>2
    <3>1. \A e \in Events :
            /\ outbox'[e].due = outbox[e].due
            /\ e \in S => /\ outbox'[e].status = "pending" /\ outbox[e].due
                          /\ outbox'[e].token = outbox[e].token + 1
            /\ e \notin S => outbox'[e] = outbox[e]
      BY <1>0 DEF claim_outbox, Selected, Claimable, Row, NextToken
    <3>2. /\ \A k \in pub'[p].batch : k.row \in S
          /\ \A q \in Publishers : q # p => pub'[q] = pub[q]
      BY <1>0 DEF claim_outbox
    <3>3. \A q \in Publishers : \A k \in pub[q].batch :
            k.token <= outbox[k.row].token /\ outbox[k.row].token \in Nat
      BY <1>0 DEF RowInv, FenceInv, OutboxRow
    <3>4. \A q \in Publishers : \A k \in pub'[q].batch :
            outbox'[k.row].token = k.token => outbox'[k.row].due
      BY <1>0, <3>1, <3>2, <3>3 DEF RowInv
    <3> QED BY <3>1, <3>4 DEF RowInv
  <2>3. CASE \E p \in Publishers : \E k \in pub[p].batch : complete_outbox(p, k) \/ retry_outbox(p, k)
    <3> PICK p \in Publishers : \E k \in pub[p].batch : complete_outbox(p, k) \/ retry_outbox(p, k)
      BY <2>3
    <3> PICK k \in pub[p].batch : complete_outbox(p, k) \/ retry_outbox(p, k)
      OBVIOUS
    <3>1. /\ \A q \in Publishers : q # p => pub'[q] = pub[q]
          /\ pub'[p].batch \subseteq pub[p].batch \ {k}
      <4>1. NextRecord(p, k)
        BY DEF complete_outbox, retry_outbox
      <4>2. pub' = [pub EXCEPT ![p] = IF pub[p].batch = {k} THEN Idle
                                      ELSE [pc |-> "publishing", batch |-> pub[p].batch \ {k}]]
        BY <4>1 DEF NextRecord
      <4>3. pub'[p].batch \subseteq pub[p].batch \ {k}
        BY <1>0, <4>2 DEF Idle
      <4> QED BY <1>0, <4>2, <4>3
    <3>2. CASE ~OutboxFenceHolds(k)
      BY <3>1, <3>2, OutboxRowsKept DEF complete_outbox, retry_outbox
    <3>3. CASE OutboxFenceHolds(k)
      <4>1. /\ \A e \in Events : e # k.row => outbox'[e] = outbox[e]
            /\ outbox'[k.row].token = outbox[k.row].token
            /\ outbox'[k.row].lease = "none"
            /\ outbox'[k.row].status # "pending" => outbox'[k.row].due
        BY <1>0, <3>3 DEF complete_outbox, retry_outbox, Row, OutboxFenceHolds, RowInv
      <4>2. \A q \in Publishers : \A j \in pub'[q].batch :
              outbox'[j.row].token = j.token => j.row # k.row
        <5> SUFFICES ASSUME NEW q \in Publishers, NEW j \in pub'[q].batch,
                            outbox'[j.row].token = j.token, j.row = k.row
                     PROVE  FALSE
          OBVIOUS
        <5>1. j \in pub[q].batch
          BY <3>1
        <5>2. j \in Claims /\ k \in Claims
          BY <1>0, <5>1 DEF Publisher
        <5>3. j = k
          BY <3>3, <4>1, <5>2 DEF Claims, OutboxFenceHolds
        <5>4. q = p
          BY <5>1, <5>3 DEF RowInv, FenceInv
        <5> QED BY <3>1, <5>3, <5>4
      <4>3. \A q \in Publishers : pub'[q].batch \subseteq pub[q].batch
        BY <3>1
      <4> QED BY <1>0, <4>1, <4>2, <4>3 DEF RowInv
    <3> QED BY <3>2, <3>3
  <2> QED BY <2>1, <2>2, <2>3
<1> QED BY <1>1, <1>2 DEF RowInv

LEMMA InboxRows ==
  ASSUME RowInv, FenceInv', TypeOK', UNCHANGED <<outbox, pub>>,
         \/ \E c \in Consumers, e \in Events :
              claim_inbox(c, e) \/ complete_inbox(c, e) \/ retry_inbox(c, e)
         \/ \E e \in Events : InboxLeaseElapses(e) \/ InboxBackoffElapses(e)
  PROVE  RowInv'
<1>0. /\ inbox \in [Events -> InboxRow] /\ con \in [Consumers -> Consumer]
      /\ \A c \in Consumers : Working(c) => con[c].msg \in Events
  BY DEF RowInv, FenceInv, TypeOK
<1>1. /\ \A e \in Events :
           outbox'[e].status # "pending" => outbox'[e].lease = "none" /\ outbox'[e].due
      /\ \A p \in Publishers : \A k \in pub'[p].batch :
           outbox'[k.row].token = k.token => outbox'[k.row].due
  BY OutboxRowsKept
<1>2. /\ \A e \in Events :
           inbox'[e].status = "completed" => inbox'[e].lease = "none" /\ inbox'[e].due
      /\ \A c \in Consumers :
           (Working(c) /\ con[c].token = inbox[con[c].msg].token)' => inbox'[con'[c].msg].due
  <2>1. CASE \E c \in Consumers, e \in Events : claim_inbox(c, e)
    <3> PICK c \in Consumers, e \in Events : claim_inbox(c, e)
      BY <2>1
    <3>1. \A d \in Consumers : d # c => con'[d] = con[d]
      <4>1. \E v : con' = [con EXCEPT ![c] = v]
        BY DEF claim_inbox
      <4> QED BY <1>0, <4>1
    <3>2. CASE UNCHANGED inbox
      <4>1. ~Working(c)' \/ inbox'[e].token = inbox[e].token + 1
        BY <1>0, <3>2 DEF claim_inbox, Working, AnswerToBusy, Consumer, Row, NextToken
      <4>2. inbox[e].token \in Nat
        BY <1>0 DEF InboxRow
      <4>3. ~Working(c)'
        BY <3>2, <4>1, <4>2
      <4>4. \A d \in Consumers : Working(d)' =>
              Working(d) /\ con'[d].msg = con[d].msg /\ con'[d].token = con[d].token
        BY <3>1, <4>3 DEF Working
      <4> QED BY <3>2, <4>4, InboxRowsKept
    <3>3. CASE inbox' # inbox
      <4>1. /\ inbox'[e].status = "processing" /\ inbox'[e].due
            /\ \A d \in Events : d # e => inbox'[d] = inbox[d]
            /\ con'[c].msg = e
        BY <1>0, <3>3 DEF claim_inbox, Row
      <4> QED BY <1>0, <3>1, <4>1 DEF RowInv, Working
    <3> QED BY <3>2, <3>3
  <2>2. CASE \E c \in Consumers, e \in Events : complete_inbox(c, e) \/ retry_inbox(c, e)
    <3> PICK c \in Consumers, e \in Events : complete_inbox(c, e) \/ retry_inbox(c, e)
      BY <2>2
    <3>1. /\ ~Working(c)' /\ Working(c) /\ con[c].msg = e
          /\ \A d \in Consumers : d # c => con'[d] = con[d]
      BY <1>0 DEF complete_inbox, retry_inbox, Working, Consumer
    <3>2. \A d \in Consumers : Working(d)' => d # c /\ Working(d) /\ con'[d] = con[d]
      BY <3>1 DEF Working
    <3>3. CASE ~InboxFenceHolds(c, e)
      BY <3>2, <3>3, InboxRowsKept DEF complete_inbox, retry_inbox
    <3>4. CASE InboxFenceHolds(c, e)
      <4>1. /\ \A d \in Events : d # e => inbox'[d] = inbox[d]
            /\ inbox'[e].token = inbox[e].token
            /\ inbox'[e].lease = "none"
            /\ inbox'[e].status = "completed" => inbox'[e].due
        BY <1>0, <3>1, <3>4 DEF complete_inbox, retry_inbox, Row, InboxFenceHolds, RowInv
      <4>2. \A d \in Consumers : Working(d)' /\ con[d].token = inbox[e].token => con[d].msg # e
        BY <3>1, <3>2, <3>4 DEF RowInv, FenceInv, InboxFenceHolds
      <4> QED BY <1>0, <3>2, <4>1, <4>2 DEF RowInv
    <3> QED BY <3>3, <3>4
  <2>3. CASE \E e \in Events : InboxLeaseElapses(e) \/ InboxBackoffElapses(e)
    <3> PICK e \in Events : InboxLeaseElapses(e) \/ InboxBackoffElapses(e)
      BY <2>3
    <3>1. /\ UNCHANGED con
          /\ \A d \in Events : /\ inbox'[d].token = inbox[d].token
                               /\ inbox[d].due => inbox'[d].due
                               /\ inbox'[d].status = "completed" =>
                                    inbox[d].status = "completed" /\ inbox'[d].lease = inbox[d].lease
      BY <1>0 DEF InboxLeaseElapses, InboxBackoffElapses, RowInv, InboxRow
    <3> QED BY <1>0, <3>1 DEF RowInv, Working
  <2> QED BY <2>1, <2>2, <2>3
<1> QED BY <1>1, <1>2 DEF RowInv

LEMMA RowsUntouched ==
  ASSUME RowInv, FenceInv', UNCHANGED <<outbox, inbox>>,
         \A p \in Publishers : pub'[p].batch \subseteq pub[p].batch,
         \A c \in Consumers : Working(c)' =>
            Working(c) /\ con'[c].msg = con[c].msg /\ con'[c].token = con[c].token
  PROVE  RowInv'
BY OutboxRowsKept, InboxRowsKept DEF RowInv

LEMMA NextRows == RowInv /\ [Next]_vars => RowInv'
<1> SUFFICES ASSUME RowInv, [Next]_vars PROVE RowInv'
  OBVIOUS
<1>0. /\ FenceInv' /\ TypeOK' /\ con \in [Consumers -> Consumer] /\ pub \in [Publishers -> Publisher]
      /\ \A p \in Publishers : \A k \in pub[p].batch : k.row \in Events
  BY NextFence DEF RowInv, FenceInv, TypeOK, Publisher, Claims
<1>1. CASE \E e \in Events : append_with_outbox(e)
  BY <1>0, <1>1, OutboxRows DEF append_with_outbox
<1>2. CASE \E p \in Publishers : run_once(p)
  <2> PICK p \in Publishers : run_once(p)
    BY <1>2
  <2>1. CASE \E k \in pub[p].batch : Publish(p, k)
    <3>1. UNCHANGED <<outbox, inbox, con>> /\ \A q \in Publishers : pub'[q].batch \subseteq pub[q].batch
      BY <1>0, <2>1 DEF Publish, Publisher
    <3> QED BY <1>0, <3>1, RowsUntouched DEF Working
  <2>2. CASE \E S \in SUBSET Events : claim_outbox(p, S)
    BY <1>0, <2>2, OutboxRows DEF claim_outbox
  <2>3. CASE \E k \in pub[p].batch : complete_outbox(p, k) \/ retry_outbox(p, k)
    BY <1>0, <2>3, OutboxRows DEF complete_outbox, retry_outbox
  <2> QED BY <2>1, <2>2, <2>3 DEF run_once
<1>3. CASE \E c \in Consumers : process_once(c)
  <2> PICK c \in Consumers : process_once(c)
    BY <1>3
  <2>1. CASE \E e \in Events : claim_inbox(c, e) \/ complete_inbox(c, e) \/ retry_inbox(c, e)
    BY <1>0, <2>1, InboxRows DEF claim_inbox, complete_inbox, retry_inbox
  <2>2. CASE ack(c) \/ \E e \in Events : Fetch(c, e) \/ Handle(c, e) \/ nak(c, e)
    <3>1. UNCHANGED <<outbox, inbox, pub>>
      BY <2>2 DEF ack, Fetch, Handle, nak
    <3>2. \A d \in Consumers : Working(d)' =>
            Working(d) /\ con'[d].msg = con[d].msg /\ con'[d].token = con[d].token
      BY <1>0, <2>2 DEF ack, Fetch, Handle, nak, Working, Resting, Consumer
    <3> QED BY <1>0, <3>1, <3>2, RowsUntouched
  <2> QED BY <2>1, <2>2 DEF process_once
<1>4. CASE Clock
  <2>1. CASE \E e \in Events : OutboxLeaseElapses(e) \/ OutboxBackoffElapses(e)
    BY <1>0, <2>1, OutboxRows DEF OutboxLeaseElapses, OutboxBackoffElapses
  <2>2. CASE \E e \in Events : InboxLeaseElapses(e) \/ InboxBackoffElapses(e)
    BY <1>0, <2>2, InboxRows DEF InboxLeaseElapses, InboxBackoffElapses
  <2> QED BY <1>4, <2>1, <2>2 DEF Clock
<1>5. CASE Failure \/ Restart \/ UNCHANGED vars
  <2>1. UNCHANGED <<outbox, inbox>>
    BY <1>5 DEF Failure, Restart, vars, PublishFails, PublisherStops, HandlerRaises, Redeliver,
                ConsumerStops, PublisherRestarts, ConsumerRestarts
  <2>2. \A p \in Publishers : pub'[p].batch \subseteq pub[p].batch
    BY <1>0, <1>5 DEF Failure, Restart, vars, PublishFails, PublisherStops, HandlerRaises, Redeliver,
                ConsumerStops, PublisherRestarts, ConsumerRestarts, Publisher, Idle
  <2>3. \A c \in Consumers : Working(c)' =>
          Working(c) /\ con'[c].msg = con[c].msg /\ con'[c].token = con[c].token
    BY <1>0, <1>5 DEF Failure, Restart, vars, PublishFails, PublisherStops, HandlerRaises, Redeliver,
                ConsumerStops, PublisherRestarts, ConsumerRestarts, Consumer, Working, Resting
  <2> QED BY <1>0, <2>1, <2>2, <2>3, RowsUntouched
<1> QED BY <1>1, <1>2, <1>3, <1>4, <1>5 DEF Next

\* A row that is claimed with its current token is due, a settled row is neither
\* leased nor postponed (the columns the claims and the updates compare and set).
THEOREM RowsAreAlwaysDueToHolders == Spec => []RowInv
<1>1. Init => RowInv
  BY InitTypeOK DEF Init, RowInv, FenceInv, Working, Idle, Resting, AbsentRow, Row
<1> QED BY <1>1, NextRows, PTL DEF Spec

\* Who may change an outbox row, and who an inbox row, in one step.
OutboxChange(e) ==
  \/ outbox[e].status = "absent" /\ outbox'[e] = Row("pending", "none", TRUE, 0)
  \/ Ticks(outbox[e], outbox'[e])
  \/ Takes(outbox[e], outbox'[e])
  \/ /\ outbox'[e].token = outbox[e].token
     /\ \E p \in OutboxHolders(e) : pub[p].pc \in {"sent", "failed"} /\ pub'[p] # pub[p]

InboxChange(e) ==
  \/ Ticks(inbox[e], inbox'[e])
  \/ Takes(inbox[e], inbox'[e])
  \/ /\ inbox'[e].token = inbox[e].token
     /\ \E c \in InboxHolders(e) : con[c].pc \in {"handled", "failed"} /\ con'[c] # con[c]

\* A row that nobody committed yet is blank.
BlankRows == \A e \in Events : outbox[e].status = "absent" => outbox[e] = AbsentRow

LEMMA NextBlank == RowInv /\ BlankRows /\ [Next]_vars => BlankRows'
<1> SUFFICES ASSUME RowInv, BlankRows, [Next]_vars PROVE BlankRows'
  OBVIOUS
<1>0. outbox \in [Events -> OutboxRow]
  BY DEF RowInv, FenceInv, TypeOK
<1>1. ASSUME NEW e \in Events, outbox'[e] # outbox[e] PROVE outbox'[e].status # "absent"
  <2>1. CASE \E d \in Events : append_with_outbox(d)
    BY <1>0, <1>1, <2>1 DEF append_with_outbox
  <2>2. CASE \E p \in Publishers : run_once(p)
    <3> PICK p \in Publishers : run_once(p)
      BY <2>2
    <3>1. CASE \E S \in SUBSET Events : claim_outbox(p, S)
      BY <1>0, <1>1, <3>1 DEF claim_outbox, Row
    <3>2. CASE \E k \in pub[p].batch : complete_outbox(p, k) \/ retry_outbox(p, k)
      BY <1>0, <1>1, <3>2 DEF complete_outbox, retry_outbox, Row, OutboxFenceHolds
    <3>3. CASE \E k \in pub[p].batch : Publish(p, k)
      BY <1>1, <3>3 DEF Publish
    <3> QED BY <3>1, <3>2, <3>3 DEF run_once
  <2>3. CASE \E c \in Consumers : process_once(c)
    BY <1>1, <2>3
       DEF process_once, Fetch, claim_inbox, complete_inbox, Handle, retry_inbox, nak, ack
  <2>4. CASE Clock
    <3>1. CASE \E d \in Events : OutboxLeaseElapses(d)
      BY <1>0, <1>1, <3>1 DEF OutboxLeaseElapses, BlankRows, AbsentRow, Row
    <3>2. CASE \E d \in Events : OutboxBackoffElapses(d)
      BY <1>0, <1>1, <3>2 DEF OutboxBackoffElapses, BlankRows, AbsentRow, Row
    <3>3. CASE \E d \in Events : InboxLeaseElapses(d) \/ InboxBackoffElapses(d)
      BY <1>1, <3>3 DEF InboxLeaseElapses, InboxBackoffElapses
    <3> QED BY <2>4, <3>1, <3>2, <3>3 DEF Clock
  <2>5. CASE Failure \/ Restart \/ UNCHANGED vars
    BY <1>1, <2>5 DEF Failure, Restart, vars, PublishFails, PublisherStops, HandlerRaises, Redeliver,
                      ConsumerStops, PublisherRestarts, ConsumerRestarts
  <2> QED BY <2>1, <2>2, <2>3, <2>4, <2>5 DEF Next
<1> QED BY <1>1 DEF BlankRows

\* One step on the rows: what is finished is left alone, and what changes is
\* changed by the commit, the clock, a claim, or the holder of the current token.
LEMMA RowsStep ==
  ASSUME RowInv, BlankRows, [Next]_vars, NEW e \in Events
  PROVE  /\ outbox[e].status = "published" => outbox'[e] = outbox[e]
         /\ inbox[e].status = "completed" => inbox'[e] = inbox[e]
         /\ outbox'[e] # outbox[e] => OutboxChange(e)
         /\ inbox'[e] # inbox[e] => InboxChange(e)
<1>0. /\ con \in [Consumers -> Consumer] /\ pub \in [Publishers -> Publisher]
      /\ outbox \in [Events -> OutboxRow] /\ inbox \in [Events -> InboxRow]
      /\ \A p \in Publishers : \A k \in pub[p].batch : k.row \in Events
  BY DEF RowInv, FenceInv, TypeOK, Publisher, Claims
<1>1. CASE \E d \in Events : append_with_outbox(d)
  <2> PICK d \in Events : append_with_outbox(d)
    BY <1>1
  <2>1. UNCHANGED inbox /\ outbox[d].status = "absent"
        /\ outbox' = [outbox EXCEPT ![d].status = "pending"]
    BY DEF append_with_outbox
  <2>2. outbox[d] = [status |-> "absent", lease |-> "none", due |-> TRUE, token |-> 0]
    BY <2>1 DEF BlankRows, AbsentRow, Row
  <2>3. outbox'[d] = [status |-> "pending", lease |-> "none", due |-> TRUE, token |-> 0]
    <3>1. /\ outbox'[d].status = "pending" /\ outbox'[d].lease = "none"
          /\ outbox'[d].due = TRUE /\ outbox'[d].token = 0
      BY <1>0, <2>1, <2>2 DEF OutboxRow
    <3>2. outbox'[d] \in OutboxRow
      BY <1>0, <2>1 DEF OutboxRow
    <3> QED BY <3>1, <3>2 DEF OutboxRow
  <2>4. outbox'[e] # outbox[e] => e = d
    BY <1>0, <2>1
  <2>5. outbox'[e] # outbox[e] => OutboxChange(e)
    BY <2>1, <2>3, <2>4 DEF OutboxChange, Row
  <2> QED BY <2>1, <2>4, <2>5
<1>2. CASE \E p \in Publishers : run_once(p)
  <2> PICK p \in Publishers : run_once(p)
    BY <1>2
  <2>0. UNCHANGED inbox
    BY DEF run_once, claim_outbox, Publish, complete_outbox, retry_outbox
  <2>1. CASE \E k \in pub[p].batch : Publish(p, k)
    BY <2>0, <2>1 DEF Publish
  <2>2. CASE \E S \in SUBSET Events : claim_outbox(p, S)
    <3> PICK S \in SUBSET Events : claim_outbox(p, S)
      BY <2>2
    <3>1. outbox'[e] # outbox[e] =>
            /\ outbox[e].status = "pending" /\ outbox[e].due /\ outbox[e].lease # "live"
            /\ outbox'[e].lease = "live" /\ outbox'[e].token = outbox[e].token + 1
      BY <1>0 DEF claim_outbox, Selected, Claimable, Row, NextToken
    <3>2. outbox[e].token \in Nat
      BY <1>0 DEF OutboxRow
    <3>3. outbox'[e] # outbox[e] => Takes(outbox[e], outbox'[e])
      BY <3>1, <3>2 DEF Takes
    <3> QED BY <2>0, <3>1, <3>3 DEF OutboxChange
  <2>3. CASE \E k \in pub[p].batch : complete_outbox(p, k) \/ retry_outbox(p, k)
    <3> PICK k \in pub[p].batch : complete_outbox(p, k) \/ retry_outbox(p, k)
      BY <2>3
    <3>1. outbox'[e] # outbox[e] => /\ e = k.row /\ OutboxFenceHolds(k)
                                    /\ outbox'[e].token = outbox[e].token
      BY <1>0 DEF complete_outbox, retry_outbox, Row
    <3>2. pub[p].pc \in {"sent", "failed"}
      BY DEF complete_outbox, retry_outbox
    <3>3. pub'[p] # pub[p]
      <4>1. NextRecord(p, k)
        BY DEF complete_outbox, retry_outbox
      <4>2. pub'[p].pc \in {"idle", "publishing"}
        BY <1>0, <4>1 DEF NextRecord, Idle
      <4> QED BY <3>2, <4>2
    <3>4. outbox'[e] # outbox[e] => p \in OutboxHolders(e) /\ outbox[e].status = "pending"
      BY <3>1 DEF OutboxHolders, OutboxFenceHolds
    <3> QED BY <2>0, <3>1, <3>2, <3>3, <3>4 DEF OutboxChange
  <2> QED BY <2>1, <2>2, <2>3 DEF run_once
<1>3. CASE \E c \in Consumers : process_once(c)
  <2> PICK c \in Consumers : process_once(c)
    BY <1>3
  <2>0. UNCHANGED outbox
    BY DEF process_once, Fetch, claim_inbox, complete_inbox, Handle, retry_inbox, nak, ack
  <2>1. CASE ack(c) \/ \E d \in Events : Fetch(c, d) \/ Handle(c, d) \/ nak(c, d)
    BY <2>0, <2>1 DEF Fetch, Handle, nak, ack
  <2>2. CASE \E d \in Events : claim_inbox(c, d)
    <3>1. inbox'[e] # inbox[e] =>
            /\ inbox[e].status # "completed" /\ inbox[e].due /\ inbox[e].lease # "live"
            /\ inbox'[e].lease = "live" /\ inbox'[e].token = inbox[e].token + 1
      BY <1>0, <2>2 DEF claim_inbox, Row, NextToken
    <3>2. inbox[e].token \in Nat /\ inbox[e].status # "published"
      BY <1>0 DEF InboxRow
    <3> QED BY <2>0, <3>1, <3>2 DEF InboxChange, Takes
  <2>3. CASE \E d \in Events : complete_inbox(c, d) \/ retry_inbox(c, d)
    <3> PICK d \in Events : complete_inbox(c, d) \/ retry_inbox(c, d)
      BY <2>3
    <3>1. inbox'[e] # inbox[e] => /\ e = d /\ InboxFenceHolds(c, e)
                                  /\ inbox'[e].token = inbox[e].token
      BY <1>0 DEF complete_inbox, retry_inbox, Row
    <3>2. con'[c] # con[c] /\ con[c].pc \in {"handled", "failed"} /\ con[c].msg = d
      BY <1>0 DEF complete_inbox, retry_inbox, Consumer
    <3>3. inbox'[e] # inbox[e] => c \in InboxHolders(e) /\ inbox[e].status = "processing"
      BY <3>1, <3>2 DEF InboxFenceHolds, InboxHolders
    <3> QED BY <2>0, <3>1, <3>2, <3>3 DEF InboxChange
  <2> QED BY <2>1, <2>2, <2>3 DEF process_once
<1>4. CASE Clock
  <2>1. CASE \E d \in Events : OutboxLeaseElapses(d) \/ OutboxBackoffElapses(d)
    <3> PICK d \in Events : OutboxLeaseElapses(d) \/ OutboxBackoffElapses(d)
      BY <2>1
    <3>0. UNCHANGED inbox /\ (outbox[d].lease = "live" \/ ~outbox[d].due)
      BY DEF OutboxLeaseElapses, OutboxBackoffElapses
    <3>1. outbox'[e] # outbox[e] => e = d /\ Ticks(outbox[d], outbox'[d])
      BY <1>0 DEF OutboxLeaseElapses, OutboxBackoffElapses, OutboxRow, Ticks
    <3> QED BY <3>0, <3>1 DEF RowInv, OutboxChange
  <2>2. CASE \E d \in Events : InboxLeaseElapses(d) \/ InboxBackoffElapses(d)
    <3> PICK d \in Events : InboxLeaseElapses(d) \/ InboxBackoffElapses(d)
      BY <2>2
    <3>0. UNCHANGED outbox /\ (inbox[d].lease = "live" \/ ~inbox[d].due)
      BY DEF InboxLeaseElapses, InboxBackoffElapses
    <3>1. inbox'[e] # inbox[e] => e = d /\ Ticks(inbox[d], inbox'[d])
      BY <1>0 DEF InboxLeaseElapses, InboxBackoffElapses, InboxRow, Ticks
    <3> QED BY <3>0, <3>1 DEF RowInv, InboxChange
  <2> QED BY <1>4, <2>1, <2>2 DEF Clock
<1>5. CASE Failure \/ Restart \/ UNCHANGED vars
  BY <1>5 DEF Failure, Restart, vars, PublishFails, PublisherStops, HandlerRaises, Redeliver,
              ConsumerStops, PublisherRestarts, ConsumerRestarts
<1> QED BY <1>1, <1>2, <1>3, <1>4, <1>5 DEF Next

\* Rows follow their claims: a published or completed row is never reopened, and
\* no part of a row, its lease, back-off and token included, is changed by a
\* worker that lost its claim (the WHERE clauses of the claims and the updates).
THEOREM ClaimsRuleTheirRows == Spec => RowsFollowClaims
<1>1. RowInv /\ BlankRows /\ [Next]_vars =>
        [\A e \in Events :
           /\ outbox[e].status = "published" => outbox'[e] = outbox[e]
           /\ inbox[e].status = "completed" => inbox'[e] = inbox[e]]_<<outbox, inbox>>
  BY RowsStep
<1>2. RowInv /\ BlankRows /\ [Next]_vars =>
        [\A e \in Events :
           /\ outbox'[e] # outbox[e] =>
                \/ outbox[e].status = "absent" /\ outbox'[e] = Row("pending", "none", TRUE, 0)
                \/ Ticks(outbox[e], outbox'[e])
                \/ Takes(outbox[e], outbox'[e])
                \/ /\ outbox'[e].token = outbox[e].token
                   /\ \E p \in OutboxHolders(e) : pub[p].pc \in {"sent", "failed"} /\ pub'[p] # pub[p]
           /\ inbox'[e] # inbox[e] =>
                \/ Ticks(inbox[e], inbox'[e])
                \/ Takes(inbox[e], inbox'[e])
                \/ /\ inbox'[e].token = inbox[e].token
                   /\ \E c \in InboxHolders(e) :
                        con[c].pc \in {"handled", "failed"} /\ con'[c] # con[c]]_<<outbox, inbox>>
  BY RowsStep DEF OutboxChange, InboxChange
<1>3. Init => BlankRows
  BY DEF Init, BlankRows
<1>4. Spec => []BlankRows
  BY <1>3, NextBlank, RowsAreAlwaysDueToHolders, PTL DEF Spec
<1> QED BY <1>1, <1>2, <1>4, RowsAreAlwaysDueToHolders, PTL
        DEF Spec, RowsFollowClaims, FinishedRowsStayFinished, StaleWorkersChangeNothing
=============================================================================
