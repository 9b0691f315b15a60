---------------------------- MODULE RmqConnection ----------------------------
(***************************************************************************)
(* pkg/rabbitmq/rmq_rpc/connection.go: what AttemptConnect and connect do  *)
(* to the connection that a client or a server of the package shares       *)
(* between its worker goroutine and its other goroutines.  The actions     *)
(* constrain the variables of this module only; RmqClient and RmqServer    *)
(* conjoin them with the rest of the state.  The broker's side is external *)
(* and follows how the code uses it.                                       *)
(***************************************************************************)
EXTENDS Integers

CONSTANTS
    Attempts,     \* Config.Attempts
    MaxFailures,  \* bound on the attempts to connect that fail
    MaxLosses     \* bound on the connections the broker or the network ends

ASSUME ConnectionBounds ==
    Attempts \in Nat \ {0} /\ MaxFailures \in Nat /\ MaxLosses \in Nat

VARIABLES
    worker,      \* where the worker goroutine is
    left,        \* attempts left in AttemptConnect
    connection,  \* Connection.Connection: up, down or nil
    channel,     \* Connection.Channel: up, down or nil
    open,        \* Connection.Delivery is open
    rejected,    \* a message on this channel named a missing exchange
    bound,       \* the exclusive queue of this connection is bound
    orphans,     \* bound queues of connections that were replaced, not closed
    losses, failures  \* counters for the bounds

connVars == <<worker, left, connection, channel, open, rejected, bound, orphans,
              losses, failures>>

\* The worker goroutine moves on; the connection is as it was.
WorkerGoes(from, to) ==
    /\ worker = from
    /\ worker' = to
    /\ UNCHANGED <<left, connection, channel, open, rejected, bound, orphans,
                   losses, failures>>

\* A connection that New has made.
ConnInit ==
    /\ left = 0
    /\ connection = "up" /\ channel = "up" /\ open = TRUE
    /\ rejected = FALSE
    /\ bound = TRUE /\ orphans = 0
    /\ losses = 0 /\ failures = 0

\* AttemptConnect begins its loop.
AttemptConnect ==
    /\ worker = "select"
    /\ ~open
    /\ worker' = "dial"
    /\ left' = Attempts
    /\ UNCHANGED <<connection, channel, open, rejected, bound, orphans, losses, failures>>

\* Mutation: the loop runs once too often.
AttemptFailedOffByOne ==
    /\ failures < MaxFailures
    /\ failures' = failures + 1
    /\ left' = left - 1
    /\ worker' = IF left = 0 THEN "send" ELSE "dial"

\* Mutation: the loop ends at the first error.
AttemptFailedBreaks ==
    /\ failures < MaxFailures
    /\ failures' = failures + 1
    /\ left' = left - 1
    /\ worker' = "send"

\* An attempt failed: the loop goes on, or AttemptConnect returns the error.
AttemptFailed ==
    /\ failures < MaxFailures
    /\ failures' = failures + 1
    /\ left' = left - 1
    /\ worker' = IF left = 1 THEN "send" ELSE "dial"

\* amqp.Dial: no connection at all, or one that failed its handshake.  The
\* connection it replaces is not closed and, if it lives, keeps its queue.
Dial ==
    /\ worker = "dial"
    /\ \/ /\ connection' = "up"
          /\ worker' = "channel"
          /\ UNCHANGED <<left, failures>>
       \/ /\ connection' \in {"nil", "down"}
          /\ AttemptFailed
    /\ orphans' = IF bound THEN orphans + 1 ELSE orphans
    /\ bound' = FALSE
    /\ UNCHANGED <<channel, open, rejected, losses>>

\* Mutation: the error of Channel is not checked.
OpenChannelUnchecked ==
    /\ worker = "channel"
    /\ rejected' = FALSE
    /\ channel' \in {"up", "nil"}
    /\ worker' = "consume"
    /\ UNCHANGED <<left, connection, failures, open, bound, orphans, losses>>

OpenChannel ==
    /\ worker = "channel"
    /\ rejected' = FALSE
    /\ \/ /\ channel' = "up"
          /\ worker' = "consume"
          /\ UNCHANGED <<connection, left, failures>>
       \/ /\ channel' = "nil"
          /\ connection' \in {"up", "down"}
          /\ AttemptFailed
    /\ UNCHANGED <<open, bound, orphans, losses>>

\* ExchangeDeclare, QueueDeclare, QueueBind and Consume succeed.
Consume ==
    /\ worker = "consume"
    /\ open' = TRUE
    /\ bound' = TRUE
    /\ worker' = "select"
    /\ UNCHANGED <<left, connection, channel, rejected, orphans, losses, failures>>

\* One of them fails.  That ends the channel, or the connection and its
\* queue, before or after the bind; one cause is a caller that already
\* publishes on the new channel to a missing exchange, which otherwise ends
\* the channel once Consume has succeeded.
ConsumeFails ==
    /\ worker = "consume"
    /\ connection' \in {"up", "down"}
    /\ bound' \in {FALSE, connection' = "up"}
    /\ channel' = "down"
    /\ AttemptFailed
    /\ UNCHANGED <<open, rejected, orphans, losses>>

\* Close on a connection that is not nil.
CloseConnection ==
    /\ connection # "nil"
    /\ connection' = "down"
    /\ channel' = IF channel = "up" THEN "down" ELSE channel
    /\ open' = FALSE
    /\ bound' = FALSE
    /\ UNCHANGED <<worker, left, rejected, orphans, losses, failures>>

\* The broker closes the channel, not the connection: the queue is exclusive
\* to the connection and stays bound.
ChannelClosed ==
    /\ rejected
    /\ channel = "up"
    /\ worker # "consume"
    /\ channel' = "down"
    /\ open' = FALSE
    /\ rejected' = FALSE
    /\ UNCHANGED <<worker, left, connection, bound, orphans, losses, failures>>

\* The connection ends, and with it the channel and the queue.  A loss in the
\* middle of AttemptConnect is a failure of one of its steps.
ConnectionLost ==
    /\ losses < MaxLosses
    /\ connection = "up"
    /\ worker \notin {"channel", "consume"}
    /\ losses' = losses + 1
    /\ connection' = "down"
    /\ channel' = IF channel = "up" THEN "down" ELSE channel
    /\ open' = FALSE
    /\ bound' = FALSE
    /\ rejected' = FALSE
    /\ UNCHANGED <<worker, left, orphans, failures>>

ConnTypeOK ==
    /\ left \in 0 .. Attempts
    /\ worker \in {"dial", "channel", "consume"} => left > 0
    /\ connection \in {"up", "down", "nil"}
    /\ channel \in {"up", "down", "nil"}
    /\ open \in BOOLEAN /\ rejected \in BOOLEAN /\ bound \in BOOLEAN
    /\ losses \in Nat /\ failures \in Nat /\ orphans \in Nat

==============================================================================
