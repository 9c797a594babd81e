------------------------------ MODULE WorkQueue ------------------------------
(***************************************************************************)
(* A JetStream stream with work-queue retention and one durable consumer   *)
(* with explicit acknowledgement, as seal_stream.go and cache_stream.go    *)
(* create them: a message stays in the stream until it is acknowledged; a  *)
(* delivered message is leased for AckWait and is delivered again when the *)
(* lease ends without an acknowledgement; a publish whose Nats-Msg-Id is   *)
(* still in the duplicate window stores nothing.                           *)
(*                                                                         *)
(* A queue is a record: msgs are the stored messages, leased those that    *)
(* were delivered and whose AckWait runs, ids the message ids the server   *)
(* remembers for deduplication.                                            *)
(***************************************************************************)

Queue(Id, Msg) ==
    [msgs : SUBSET Msg, leased : SUBSET Msg, ids : SUBSET Id]

EmptyQueue == [msgs |-> {}, leased |-> {}, ids |-> {}]

Deliverable(q) == q.msgs \ q.leased

PublishTo(q, id, m) ==
    IF id \in q.ids
    THEN q
    ELSE [msgs |-> q.msgs \cup {m}, leased |-> q.leased, ids |-> q.ids \cup {id}]

Lease(q, m) ==
    [msgs |-> q.msgs, leased |-> q.leased \cup {m}, ids |-> q.ids]

\* AckWait ran out, or the consumer sent a Nak.
Release(q, m) ==
    [msgs |-> q.msgs, leased |-> q.leased \ {m}, ids |-> q.ids]

\* An Ack: it removes the message even when the delivery it answers is not
\* the latest one.
Remove(q, m) ==
    [msgs |-> q.msgs \ {m}, leased |-> q.leased \ {m}, ids |-> q.ids]

\* The duplicate window of two minutes has passed for this id.
Forget(q, id) ==
    [msgs |-> q.msgs, leased |-> q.leased, ids |-> q.ids \ {id}]

=============================================================================
