-------------------------- MODULE ReliableDelivery --------------------------
(***************************************************************************)
(* What a retrying outbox promises about a message, whoever runs it        *)
(* (implementations/python/README.md, "a retrying outbox"): it is          *)
(* delivered at least once or given up after a fixed number of attempts,   *)
(* it is sent only while it is pending, only a message that a peer handled *)
(* is recorded as delivered, and what is recorded is final, but for the    *)
(* operator, who takes up again what was given up. The network may lose    *)
(* what was sent, repeat it or keep it for any time. Outbox is shown to    *)
(* implement this module.                                                  *)
(***************************************************************************)
EXTENDS Integers

CONSTANTS
  EntryId,            \* identifiers of messages
  Payload,            \* where a message goes and what it says
  None,
  MaximumAttempts

VARIABLES
  status,             \* "absent", "pending", "delivered" or "dead"
  content,            \* what the identifier stands for
  attempts,           \* recorded attempts since it was queued or requeued
  sent,               \* the messages that were sent
  handled             \* the messages a peer has handled

vars == <<status, content, attempts, sent, handled>>

Init ==
  /\ status = [e \in EntryId |-> "absent"]
  /\ content = [e \in EntryId |-> None]
  /\ attempts = [e \in EntryId |-> 0]
  /\ sent = {}
  /\ handled = {}

Queue(e, payload) ==
  /\ status[e] = "absent"
  /\ status' = [status EXCEPT ![e] = "pending"]
  /\ content' = [content EXCEPT ![e] = payload]
  /\ UNCHANGED <<attempts, sent, handled>>

Send(e) ==
  /\ status[e] = "pending"
  /\ sent' = sent \cup {e}
  /\ UNCHANGED <<status, content, attempts, handled>>

(* Whatever has become of it in the meantime, and as often as it was sent. *)
Handle(e) ==
  /\ e \in sent
  /\ handled' = handled \cup {e}
  /\ UNCHANGED <<status, content, attempts, sent>>

Deliver(e) ==
  /\ status[e] = "pending"
  /\ e \in handled
  /\ status' = [status EXCEPT ![e] = "delivered"]
  /\ attempts' = [attempts EXCEPT ![e] = @ + 1]
  /\ UNCHANGED <<content, sent, handled>>

Fail(e) ==
  /\ status[e] = "pending"
  /\ attempts' = [attempts EXCEPT ![e] = @ + 1]
  /\ status' = [status EXCEPT ![e] =
                  IF attempts'[e] = MaximumAttempts THEN "dead" ELSE "pending"]
  /\ UNCHANGED <<content, sent, handled>>

Requeue(e) ==
  /\ status[e] = "dead"
  /\ status' = [status EXCEPT ![e] = "pending"]
  /\ attempts' = [attempts EXCEPT ![e] = 0]
  /\ UNCHANGED <<content, sent, handled>>

Next ==
  \E e \in EntryId :
    \/ \E payload \in Payload : Queue(e, payload)
    \/ Send(e)
    \/ Handle(e)
    \/ Deliver(e)
    \/ Fail(e)
    \/ Requeue(e)

Spec == Init /\ [][Next]_vars

=============================================================================
