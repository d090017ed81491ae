----------------------------- MODULE Heartbeats -----------------------------
(***************************************************************************)
(* _with_heartbeats (gateway/app.py): a producer task reads the backend's  *)
(* chunks and hands them over, through a bounded asyncio.Queue, to the     *)
(* answer task that relays them.  When none arrives in time the answer     *)
(* sends a keep-alive comment instead; when it leaves, for any reason, it  *)
(* cancels the producer and waits for it.                                  *)
(*                                                                         *)
(* Relay says what it promises (ImplementsRelay).                          *)
(*                                                                         *)
(* HandOverUnbounded, HandOverDropping, TakeSilently, TimesOutHolding,     *)
(* LeavesProducing and EndsUnread are slips that no action uses: they      *)
(* stand in for the definition below them to show that a property would    *)
(* notice.                                                                 *)
(***************************************************************************)
EXTENDS Integers, Sequences

CONSTANTS
    MaxChunks,     \* how many chunks the backend can send (a bound)
    Capacity,      \* the queue's maxsize: 64
    CloseMayFail   \* whether closing the backend's stream can raise

ASSUME BoundsAssumption == MaxChunks \in Nat /\ Capacity \in Nat \ {0}
ASSUME CloseAssumption == CloseMayFail \in BOOLEAN

VARIABLES
    produced,   \* how many chunks the producer has read
    chunks,     \* the generator it reads from (slot and connection): "unstarted",
                \* "open" or "closed"
    producer,   \* "new", "reading", "putting" (the queue is full) or "over"
    held,       \* the item put() is waiting to hand over
    cancelled,  \* the producer has been cancelled and has not seen it yet
    queue,      \* the hand-over queue
    consumer,   \* "waiting" (in get), "beating" (sending a comment), "relaying" (sending
                \* a chunk), "leaving" (awaiting the producer) or "over"
    relayed,    \* the chunks yielded to _stream
    result      \* why the consumer left: "none", "end", "error" or "left"

vars == <<produced, chunks, producer, held, cancelled, queue, consumer, relayed, result>>

Chunk(k) == <<"chunk", k>>
End == <<"end", 0>>
Error == <<"error", 0>>
Items == {Chunk(k) : k \in 1 .. MaxChunks} \cup {End, Error}

TypeOK ==
    /\ produced \in 0 .. MaxChunks
    /\ chunks \in {"unstarted", "open", "closed"}
    /\ producer \in {"new", "reading", "putting", "over"}
    /\ held \in Items
    /\ cancelled \in BOOLEAN
    /\ queue \in Seq(Items) /\ Len(queue) <= Capacity
    /\ consumer \in {"waiting", "beating", "relaying", "leaving", "over"}
    /\ relayed \in Seq(1 .. MaxChunks)
    /\ result \in {"none", "end", "error", "left"}

Init ==
    /\ produced = 0
    /\ chunks = "unstarted"
    /\ producer = "new"
    /\ held = End
    /\ cancelled = FALSE
    /\ queue = <<>>
    /\ consumer = "waiting"
    /\ relayed = <<>>
    /\ result = "none"

Full == Len(queue) >= Capacity

---------------------------------------------------------------------------
(* produce() *)

\* await queue.put(x): after a chunk the producer reads on, after "end" or
\* "error" it is over.
Put(x) ==
    /\ queue' = Append(queue, x)
    /\ producer' = IF x \in {End, Error} THEN "over" ELSE "reading"
    /\ UNCHANGED held

HandOverUnbounded(x) == Put(x)

HandOverDropping(x) ==
    \/ ~Full /\ Put(x)
    \/ Full /\ producer' = "reading" /\ UNCHANGED <<held, queue>>

HandOver(x) ==
    \/ ~Full /\ Put(x)
    \/ Full /\ producer' = "putting" /\ held' = x /\ UNCHANGED queue

Starts ==
    /\ producer = "new" /\ ~cancelled
    /\ producer' = "reading"
    /\ chunks' = "open"
    /\ UNCHANGED <<produced, held, cancelled, queue, consumer, relayed, result>>

ChunkArrives ==
    /\ producer = "reading" /\ ~cancelled /\ produced < MaxChunks
    /\ produced' = produced + 1
    /\ HandOver(Chunk(produced + 1))
    /\ UNCHANGED <<chunks, cancelled, consumer, relayed, result>>

\* The generator returns or raises; it is closed before "end" or "error" is put.
ChunksEnd ==
    /\ producer = "reading" /\ ~cancelled
    /\ chunks' = "closed"
    /\ HandOver(End) \/ HandOver(Error)
    /\ UNCHANGED <<produced, cancelled, consumer, relayed, result>>

\* A slot is free again for what put() waits to hand over.
PutResumes ==
    /\ producer = "putting" /\ ~cancelled /\ ~Full
    /\ Put(held)
    /\ UNCHANGED <<produced, chunks, cancelled, consumer, relayed, result>>

\* The cancelled producer closes the generator and ends.
ProducerCancelled ==
    /\ cancelled /\ producer # "over"
    /\ cancelled' = FALSE
    /\ producer' = "over"
    /\ chunks' = IF chunks = "open" THEN "closed" ELSE chunks
    /\ UNCHANGED <<produced, held, queue, consumer, relayed, result>>

\* Closing raises an exception, which takes the place of the cancellation: it is
\* handed over like any other, to a consumer that no longer reads.
CloseFails ==
    /\ CloseMayFail
    /\ cancelled /\ producer # "over" /\ chunks = "open"
    /\ cancelled' = FALSE
    /\ chunks' = "closed"
    /\ HandOver(Error)
    /\ UNCHANGED <<produced, consumer, relayed, result>>

---------------------------------------------------------------------------
(* The loop of the generator, in the answer task *)

Leave(why) ==
    /\ consumer' = "leaving"
    /\ result' = why
    /\ cancelled' = (producer # "over")
    /\ UNCHANGED relayed

TakeSilently ==
    /\ queue' = Tail(queue)
    /\ IF Head(queue) \in {End, Error} THEN Leave("end")
       ELSE /\ consumer' = "relaying"
            /\ relayed' = Append(relayed, Head(queue)[2])
            /\ UNCHANGED <<result, cancelled>>

\* queue.get() with something in the queue, and what the loop does with it.
Take ==
    /\ queue' = Tail(queue)
    /\ CASE Head(queue) = End -> Leave("end")
         [] Head(queue) = Error -> Leave("error")
         [] OTHER -> /\ consumer' = "relaying"
                     /\ relayed' = Append(relayed, Head(queue)[2])
                     /\ UNCHANGED <<result, cancelled>>

\* The next turn of the loop: get() returns at once, or waits.
NextTurn ==
    \/ queue # <<>> /\ Take
    \/ queue = <<>> /\ consumer' = "waiting" /\ UNCHANGED <<queue, relayed, result, cancelled>>

Got ==
    /\ consumer = "waiting" /\ queue # <<>>
    /\ Take
    /\ UNCHANGED <<produced, chunks, producer, held>>

TimesOutHolding ==
    /\ consumer = "waiting"
    /\ consumer' = "beating"
    /\ queue' = IF queue = <<>> THEN queue ELSE Tail(queue)
    /\ UNCHANGED <<produced, chunks, producer, held, cancelled, relayed, result>>

\* wait_for() times out, maybe just after an item came: get() leaves it there.
TimesOut ==
    /\ consumer = "waiting"
    /\ consumer' = "beating"
    /\ UNCHANGED <<produced, chunks, producer, held, cancelled, queue, relayed, result>>

\* send(KEEP_ALIVE) returns.
Beaten ==
    /\ consumer = "beating"
    /\ NextTurn
    /\ UNCHANGED <<produced, chunks, producer, held>>

\* _stream has sent the chunk and asks for the next one.
Relayed ==
    /\ consumer = "relaying"
    /\ NextTurn
    /\ UNCHANGED <<produced, chunks, producer, held>>

LeavesProducing ==
    /\ consumer \in {"waiting", "beating", "relaying"}
    /\ consumer' = "leaving"
    /\ result' = "left"
    /\ UNCHANGED <<produced, chunks, producer, held, cancelled, queue, relayed>>

\* send() raises, or the answer task is cancelled.
Leaves ==
    /\ consumer \in {"waiting", "beating", "relaying"}
    /\ Leave("left")
    /\ UNCHANGED <<produced, chunks, producer, held, queue>>

EndsUnread ==
    /\ consumer = "leaving"
    /\ consumer' = "over"
    /\ UNCHANGED <<produced, chunks, producer, held, cancelled, queue, relayed, result>>

\* await producer returns.
ProducerAwaited ==
    /\ consumer = "leaving" /\ producer = "over"
    /\ consumer' = "over"
    /\ UNCHANGED <<produced, chunks, producer, held, cancelled, queue, relayed, result>>

---------------------------------------------------------------------------

ProducerStep == Starts \/ PutResumes \/ ProducerCancelled \/ CloseFails
ConsumerStep == Got \/ Beaten \/ Relayed \/ ProducerAwaited

Next ==
    \/ ProducerStep \/ ChunkArrives \/ ChunksEnd
    \/ ConsumerStep \/ TimesOut \/ Leaves

Spec == Init /\ [][Next]_vars

\* The event loop runs both tasks, and the client reads what it is sent.  The
\* backend need not send anything.
FairSpec == Spec /\ WF_vars(ProducerStep) /\ WF_vars(ConsumerStep)

---------------------------------------------------------------------------
(* What the hand-over promises *)

\* What has been read from the backend and not been taken by the consumer, oldest
\* first.
Line == IF producer = "putting" THEN Append(queue, held) ELSE queue

\* How many chunks were read and not relayed yet.
Unrelayed == produced - Len(relayed)

\* A time-out never loses, repeats or reorders a chunk, even one that arrives as
\* it fires (app.py:499-502): those relayed are the first, those in line the ones
\* that follow, and only "end" or "error" comes behind them.  Leaving may only
\* drop what was not yet relayed.
InOrder ==
    /\ \A k \in DOMAIN relayed : relayed[k] = k
    /\ Len(relayed) <= produced
    /\ result = "none" =>
        /\ Unrelayed <= Len(Line)
        /\ \A i \in DOMAIN Line :
               IF i <= Unrelayed THEN Line[i] = Chunk(Len(relayed) + i) ELSE Line[i] \in {End, Error}

\* A stream that is reported as ended or failed was relayed to its last chunk.
CompleteEnd == result \in {"end", "error"} => Len(relayed) = produced /\ queue = <<>>

\* Whoever left the generator can rely on the backend being free: the producer is
\* over and the slot and connection are closed (app.py:482-483, 490-492).
ClosedAfterwards == consumer = "over" => producer = "over" /\ chunks # "open"

\* The backend as _stream sees it, and an end that is in line for it.
Backend ==
    IF chunks = "closed" \/ producer = "over" THEN "free"
    ELSE IF chunks = "open" THEN "busy" ELSE "new"
Pending == IF chunks = "closed" /\ result = "none" THEN Line[Len(Line)][1] ELSE "none"

Promised ==
    INSTANCE Relay WITH read <- produced, backend <- Backend, pending <- Pending,
                        over <- consumer = "over"

\* Two tasks, a bounded queue, a timer and a cancellation do what one loop over
\* the backend's chunks would (app.py:484-513): nothing is lost between them, an
\* error is never taken for an end, no chunk comes after it was left, and the
\* backend is free before _stream goes on.
ImplementsRelay == Promised!Spec

\* The exception of a close that failed finds the queue full.  Nobody reads it
\* any more, and the producer has used up its cancellation.
Stranded == producer = "putting" /\ held = Error /\ Full /\ ~cancelled

\* Leaving ends, whatever the backend does, unless closing its stream raises while
\* the queue is full.
LeavingEnds == consumer = "leaving" ~> consumer = "over" \/ Stranded

\* Keep-alives never keep a chunk from the client.
Delivered ==
    \A k \in 1 .. MaxChunks :
        produced >= k ~> Len(relayed) >= k \/ consumer \in {"leaving", "over"}

===========================================================================
