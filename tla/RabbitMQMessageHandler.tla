----------------------- MODULE RabbitMQMessageHandler -----------------------
(***************************************************************************)
(* Infrastructure.Messaging as a consumer sees it: a durable queue of its  *)
(* own, from which messages are handled one at a time and acknowledged     *)
(* after the callback has returned true.  The consumers extend this module *)
(* and give it what their callback does between Receive and Acknowledge.   *)
(***************************************************************************)
EXTENDS Naturals, Sequences

CONSTANTS
    Handlers,   \* activations of Consumer_Received
    Nothing     \* what an activation handles that has returned

VARIABLES
    queue,      \* the messages not acknowledged yet, oldest first
    channel,    \* the activation that belongs to the open connection
    handling    \* by activation, the message it was called with

queueVars == <<queue, channel, handling>>

QueueInit ==
    /\ queue = << >>
    /\ channel \in Handlers
    /\ handling = [h \in Handlers |-> Nothing]

\* The exchange hands the queue a message.
Enqueue(m) ==
    /\ queue' = Append(queue, m)
    /\ UNCHANGED <<channel, handling>>

\* Consumer_Received is called.  The dispatcher of a channel awaits it before
\* it calls it again, whatever has been prefetched.
Receive(h) ==
    /\ channel = h
    /\ handling[h] = Nothing
    /\ queue # << >>
    /\ handling' = [handling EXCEPT ![h] = Head(queue)]
    /\ UNCHANGED <<queue, channel>>

\* A slip the properties must notice: return without BasicAck, so that the
\* message is delivered again.
ReturnOnly(h) ==
    /\ handling[h] # Nothing
    /\ handling' = [handling EXCEPT ![h] = Nothing]
    /\ UNCHANGED <<queue, channel>>

\* BasicAck and return.  The delivery tag of a connection that is gone means
\* nothing to the broker.
Acknowledge(h) ==
    /\ handling[h] # Nothing
    /\ handling' = [handling EXCEPT ![h] = Nothing]
    /\ queue' = IF channel = h THEN Tail(queue) ELSE queue
    /\ UNCHANGED channel

\* The connection is lost and recovered: what is not acknowledged is delivered
\* again on a new channel, while the callback of the old one goes on.
Reconnect(h) ==
    /\ channel # h
    /\ handling[h] = Nothing
    /\ channel' = h
    /\ UNCHANGED <<queue, handling>>

\* The process ends and starts again; the queue is durable.
Restart ==
    /\ handling' = [h \in Handlers |-> Nothing]
    /\ UNCHANGED <<queue, channel>>

=============================================================================
