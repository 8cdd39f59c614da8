----------------------------- MODULE WorkQueue -----------------------------
(***************************************************************************)
(* StandardQueue and IdempotentConsumer (services/substrate/queue.py).     *)
(*                                                                         *)
(* Consumers share a queue; each remembers the keys it has processed.  Two *)
(* messages with one dedup_key are what at-least-once delivery, or a       *)
(* sender that retries, puts on the queue.                                 *)
(***************************************************************************)
EXTENDS Naturals, Sequences, Functions, FiniteSets

CONSTANTS
    Messages,
    keyOf,         \* the dedup_key of a message
    Consumers,
    MaxReceive,    \* max_receive_count
    MaxAbandoned   \* bound on polls that end without settling

ASSUME WorkQueueAssumption ==
    /\ IsFiniteSet(Messages) /\ DOMAIN keyOf = Messages
    /\ MaxReceive \in Nat \ {0} /\ MaxAbandoned \in Nat

VARIABLES
    ready,      \* _ready
    inFlight,   \* _in_flight, from receipt to message
    dlq,        \* _dlq
    receipts,   \* _next_receipt
    count,      \* receive_count
    sent,       \* messages send was called for
    acked,      \* messages deleted
    stage,      \* where a consumer is in poll_once
    held,       \* the receipt it holds
    processed,  \* _processed_keys
    effects,    \* runs of a consumer's handler that returned, by key
    lives,      \* IdempotentConsumer objects made for a consumer so far
    abandoned

queue == <<ready, inFlight, dlq, receipts, count, sent, acked>>
consumer == <<stage, held, processed, effects, lives, abandoned>>
queueVars == <<queue, consumer>>

KeySet == Range(keyOf)

queueInit ==
    /\ ready = <<>> /\ inFlight = <<>> /\ dlq = <<>> /\ receipts = 0
    /\ count = [m \in Messages |-> 0]
    /\ sent = {} /\ acked = {}
    /\ stage = [c \in Consumers |-> "idle"]
    /\ held = [c \in Consumers |-> 0]
    /\ processed = [c \in Consumers |-> {}]
    /\ effects = [c \in Consumers |-> [k \in KeySet |-> 0]]
    /\ lives = [c \in Consumers |-> 1]
    /\ abandoned = 0

Send(m) ==
    /\ m \notin sent /\ sent' = sent \cup {m}
    /\ ready' = Append(ready, m)
    /\ UNCHANGED <<inFlight, dlq, receipts, count, acked, consumer>>

\* Mutant of Known: the consumer does not look the key up.
Known_Never(c, m) == FALSE

\* The redelivery check of poll_once.
Known(c, m) == keyOf[m] \in processed[c]

\* receive, and the check that follows it.
Receive(c) ==
    /\ stage[c] = "idle" /\ ready # <<>>
    /\ LET m == Head(ready)
       IN /\ count' = [count EXCEPT ![m] = @ + 1]
          /\ inFlight' = [r \in DOMAIN inFlight \cup {receipts} |->
                            IF r = receipts THEN m ELSE inFlight[r]]
          /\ stage' = [stage EXCEPT ![c] = IF Known(c, m) THEN "ack" ELSE "handle"]
    /\ ready' = Tail(ready)
    /\ receipts' = receipts + 1
    /\ held' = [held EXCEPT ![c] = receipts]
    /\ UNCHANGED <<dlq, sent, acked, processed, effects, lives, abandoned>>

Goto(c, l) == stage' = [stage EXCEPT ![c] = l]

\* The handler raises an Exception.
Fails(c) ==
    /\ stage[c] = "handle" /\ Goto(c, "fail")
    /\ UNCHANGED <<queue, held, processed, effects, lives, abandoned>>

\* The handler returns.
Handles(c) ==
    /\ stage[c] = "handle" /\ Goto(c, "ack")
    /\ LET k == keyOf[inFlight[held[c]]]
       IN /\ effects' = [effects EXCEPT ![c][k] = @ + 1]
          /\ processed' = [processed EXCEPT ![c] = @ \cup {k}]
    /\ UNCHANGED <<queue, held, lives, abandoned>>

\* The handler ends in a BaseException, which poll_once does not catch: the
\* consumer goes on, or a new one, which knows no keys, takes its place.
Abandon(c) ==
    /\ stage[c] = "handle" /\ abandoned < MaxAbandoned
    /\ abandoned' = abandoned + 1 /\ Goto(c, "idle")
    /\ \/ UNCHANGED <<processed, lives>>
       \/ processed' = [processed EXCEPT ![c] = {}] /\ lives' = [lives EXCEPT ![c] = @ + 1]
    /\ UNCHANGED <<queue, held, effects>>

Removed(c) == inFlight' = [r \in DOMAIN inFlight \ {held[c]} |-> inFlight[r]]

Ack(c) ==
    /\ stage[c] = "ack" /\ Goto(c, "idle")
    /\ acked' = acked \cup {inFlight[held[c]]} /\ Removed(c)
    /\ UNCHANGED <<ready, dlq, receipts, count, sent, held, processed, effects, lives, abandoned>>

Exhausted(m) == count[m] >= MaxReceive

Fail(c) ==
    /\ stage[c] = "fail" /\ Goto(c, "idle") /\ Removed(c)
    /\ LET m == inFlight[held[c]]
       IN IF Exhausted(m)
          THEN dlq' = Append(dlq, m) /\ ready' = ready
          ELSE ready' = Append(ready, m) /\ dlq' = dlq
    /\ UNCHANGED <<receipts, count, sent, acked, held, processed, effects, lives, abandoned>>

Poll(c) == Receive(c) \/ Handles(c) \/ Fails(c) \/ Ack(c) \/ Fail(c)

queueNext ==
    \/ \E m \in Messages : Send(m)
    \/ \E c \in Consumers : Poll(c) \/ Abandon(c)

queueSpec == queueInit /\ [][queueNext]_queueVars

-----------------------------------------------------------------------------
(* Properties.                                                             *)

Copies(m) ==
    Cardinality({i \in DOMAIN ready : ready[i] = m})
    + Cardinality({r \in DOMAIN inFlight : inFlight[r] = m})
    + Cardinality({i \in DOMAIN dlq : dlq[i] = m})
    + (IF m \in acked THEN 1 ELSE 0)

\* No message is lost or doubled, however consumers interleave receive, ack and
\* fail: one that was sent is ready, in flight, dead-lettered or acked, and one
\* of them only; and a consumer settles a receipt that is in flight, so that ack
\* and fail never raise UnknownReceiptError.
Conserved ==
    /\ \A m \in Messages : Copies(m) = IF m \in sent THEN 1 ELSE 0
    /\ \A c \in Consumers : stage[c] # "idle" => held[c] \in DOMAIN inFlight

\* A message is acked only if some consumer's handler returned for its key: a
\* handler that raised never marks its key done.
AckedWasHandled ==
    \A m \in acked : \E c \in Consumers : effects[c][keyOf[m]] > 0

\* No message is delivered more than max_receive_count times, and the dead
\* letter queue takes only messages that were.
DeadLettersAreExhausted ==
    /\ \A m \in Messages : count[m] <= MaxReceive
    /\ \A m \in Range(dlq) : count[m] = MaxReceive

\* One consumer runs its handler to the end at most once for a key, however
\* often the key is delivered; one that was replaced, once per replacement more.
OncePerConsumer == \A c \in Consumers, k \in KeySet : effects[c][k] <= lives[c]

\* The message is in flight and no consumer is going to settle it: its handler
\* ended in a BaseException.
Stranded(m) ==
    \E r \in DOMAIN inFlight :
        inFlight[r] = m /\ \A c \in Consumers : ~(stage[c] # "idle" /\ held[c] = r)

\* A message that is sent ends acked, dead-lettered or stranded by a handler that
\* did not even raise an Exception: consumers that keep polling never pass it
\* around for ever, whatever the handlers raise and however often.
AllSettled == \A m \in sent : m \in acked \/ m \in Range(dlq) \/ Stranded(m)

\* No message is lost or doubled, acked unhandled, delivered too often or
\* handled twice by one consumer.
MessagesAreKept == Conserved /\ AckedWasHandled /\ DeadLettersAreExhausted /\ OncePerConsumer
=============================================================================
