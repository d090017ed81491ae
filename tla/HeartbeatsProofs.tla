-------------------------- MODULE HeartbeatsProofs --------------------------
(***************************************************************************)
(* Proofs about Heartbeats, for any number of chunks and any capacity.     *)
(***************************************************************************)
EXTENDS Heartbeats, TLAPS

\* Who is where: the consumer has a result once it has left, and only then is the
\* producer cancelled; the generator is open while the producer reads from it,
\* and closed, or never begun, when the producer is over.
Tasks ==
    /\ result = "none" <=> consumer \in {"waiting", "beating", "relaying"}
    /\ cancelled => producer # "over" /\ result # "none"
    /\ producer = "new" => chunks = "unstarted"
    /\ producer = "reading" => chunks = "open"
    /\ producer = "putting" /\ chunks = "open" => held \notin {End, Error}
    /\ producer = "putting" /\ held \notin {End, Error} => chunks = "open"
    /\ producer = "over" => chunks # "open"
    /\ consumer = "over" => producer = "over"

\* "end" and "error" come once, behind every chunk, and the producer reads no more.
LastItem ==
    result = "none" =>
        /\ producer \in {"new", "reading"} => Len(Line) = Unrelayed
        /\ Len(Line) <= Unrelayed + 1

\* The producer of a stream that was reported as ended or failed is over.
EndIsEnd == result \in {"end", "error"} => producer = "over"

Inv == TypeOK /\ Tasks /\ InOrder /\ LastItem /\ EndIsEnd /\ CompleteEnd

---------------------------------------------------------------------------
(* What the two tasks do to the line *)

\* Nothing has been read and nothing is in line.
LEMMA InitInv == Init => Inv
  <1> SUFFICES ASSUME Init PROVE Inv
    OBVIOUS
  <1>1. queue = <<>> /\ Len(queue) = 0 /\ queue \in Seq(Items)
    BY DEF Init
  <1>2. relayed = <<>> /\ Len(relayed) = 0 /\ relayed \in Seq(1 .. MaxChunks)
    BY DEF Init
  <1>3. Len(queue) <= Capacity /\ produced \in 0 .. MaxChunks /\ produced = 0
    BY <1>1, BoundsAssumption DEF Init
  <1>4. held \in Items
    BY DEF Init, Items
  <1>5. TypeOK
    BY <1>1, <1>2, <1>3, <1>4 DEF Init, TypeOK
  <1>6. Line = queue
    BY DEF Init, Line
  <1>7. Unrelayed = 0
    <2>1. Len(relayed) = 0
      BY <1>2
    <2>2. QED
      BY <1>3, <2>1 DEF Unrelayed
  <1>8. DOMAIN Line = {} /\ DOMAIN relayed = {}
    BY <1>1, <1>2, <1>6
  <1>9. InOrder /\ LastItem
    BY <1>1, <1>2, <1>3, <1>6, <1>7, <1>8 DEF InOrder, LastItem
  <1>10. Tasks /\ EndIsEnd /\ CompleteEnd
    BY DEF Init, Tasks, EndIsEnd, CompleteEnd
  <1>11. QED
    BY <1>5, <1>9, <1>10 DEF Inv

\* A chunk is none of the two items that end a stream, and says its number.
LEMMA ChunkIsNoEnd ==
    ASSUME NEW k \in Nat
    PROVE  Chunk(k) \notin {End, Error} /\ Chunk(k)[2] = k
  BY DEF Chunk, End, Error

\* put(x), at once or waiting for a slot, extends the line by x.
LEMMA HandedOver ==
    ASSUME TypeOK, producer \in {"reading", "new"}, NEW x \in Items, HandOver(x)
    PROVE  /\ Line = queue /\ Line' = Append(Line, x)
           /\ queue' \in Seq(Items) /\ Len(queue') <= Capacity
           /\ held' \in Items /\ (producer' = "putting" => held' = x)
           /\ producer' \in {"reading", "putting", "over"}
           /\ producer' = "over" => x \in {End, Error}
           /\ producer' = "reading" => x \notin {End, Error}
  <1>1. Line = queue
    BY DEF Line
  <1>2. CASE ~Full /\ Put(x)
    BY <1>1, <1>2, BoundsAssumption DEF Put, Full, Line, TypeOK
  <1>3. CASE Full /\ producer' = "putting" /\ held' = x /\ UNCHANGED queue
    BY <1>1, <1>3 DEF Line, TypeOK
  <1>4. QED
    BY <1>2, <1>3 DEF HandOver

\* Taking the head of the queue shortens the line by it.
LEMMA HeadTaken ==
    ASSUME TypeOK, queue # <<>>, queue' = Tail(queue), UNCHANGED <<producer, held>>
    PROVE  /\ Len(Line) >= 1 /\ Line[1] = Head(queue) /\ Head(queue) \in Items
           /\ Len(Line') = Len(Line) - 1
           /\ \A i \in DOMAIN Line' : i + 1 \in DOMAIN Line /\ Line'[i] = Line[i + 1]
           /\ queue' \in Seq(Items) /\ Len(queue') <= Capacity
           /\ producer # "putting" => Line = queue
           /\ producer = "putting" => Len(Line) >= 2
  <1>1. Head(queue) \in Items /\ Len(queue) >= 1 /\ Head(queue) = queue[1]
    BY DEF TypeOK
  <1>2. queue' \in Seq(Items) /\ Len(queue') <= Capacity /\ Len(queue') = Len(queue) - 1
    BY <1>1, BoundsAssumption DEF TypeOK
  <1>3. \A i \in 1 .. Len(queue') : queue'[i] = queue[i + 1]
    BY <1>1, <1>2 DEF TypeOK
  <1>4. CASE producer = "putting"
    <2>1. Line = Append(queue, held) /\ Line' = Append(queue', held) /\ held \in Items
      BY <1>4 DEF Line, TypeOK
    <2>2. Len(Line) = Len(queue) + 1 /\ Len(Line') = Len(queue)
      BY <1>1, <1>2, <2>1 DEF TypeOK
    <2>3. Line[1] = Head(queue)
      BY <1>1, <2>1 DEF TypeOK
    <2>4. ASSUME NEW i \in DOMAIN Line'
          PROVE  i + 1 \in DOMAIN Line /\ Line'[i] = Line[i + 1]
      <3>1. i \in 1 .. Len(queue) /\ i + 1 \in DOMAIN Line
        BY <1>2, <2>1, <2>2 DEF TypeOK
      <3>2. CASE i = Len(queue)
        BY <1>2, <2>1, <3>1, <3>2 DEF TypeOK
      <3>3. CASE i # Len(queue)
        <4>1. i \in 1 .. Len(queue') /\ i + 1 \in 1 .. Len(queue)
          BY <1>2, <3>1, <3>3 DEF TypeOK
        <4>2. Line'[i] = queue'[i] /\ Line[i + 1] = queue[i + 1]
          BY <1>2, <2>1, <4>1 DEF TypeOK
        <4>3. QED
          BY <1>3, <3>1, <4>1, <4>2
      <3>4. QED
        BY <3>2, <3>3
    <2>5. QED
      BY <1>1, <1>2, <1>4, <2>2, <2>3, <2>4
  <1>5. CASE producer # "putting"
    BY <1>1, <1>2, <1>3, <1>5 DEF Line, TypeOK
  <1>6. QED
    BY <1>4, <1>5

\* A line that is extended: the elements it had, and the new one behind them.
LEMMA LineExtended ==
    ASSUME NEW s \in Seq(Items), NEW x
    PROVE  /\ Len(Append(s, x)) = Len(s) + 1
           /\ \A i \in DOMAIN Append(s, x) :
                  \/ i \in DOMAIN s /\ Append(s, x)[i] = s[i]
                  \/ i = Len(s) + 1 /\ Append(s, x)[i] = x
  OBVIOUS

\* A line that stays as it is, with what it holds.
LEMMA LineKept ==
    ASSUME Inv, UNCHANGED <<produced, relayed, result>>, Line' = Line
    PROVE  InOrder'
  BY DEF Inv, InOrder, Unrelayed

---------------------------------------------------------------------------
(* Every step of the producer keeps the invariant *)

\* Start and PutResumes leave the line as it is.
LEMMA StartsStep == ASSUME Inv, Starts PROVE Inv'
  <1>1. TypeOK'
    BY DEF Inv, Starts, TypeOK
  <1>2. Line' = Line /\ Unrelayed' = Unrelayed
    BY DEF Starts, Line, Unrelayed
  <1>3. InOrder'
    BY <1>2, LineKept DEF Starts
  <1>4. Tasks' /\ LastItem' /\ EndIsEnd' /\ CompleteEnd'
    BY <1>2 DEF Inv, Starts, Tasks, LastItem, EndIsEnd, CompleteEnd
  <1>5. QED
    BY <1>1, <1>3, <1>4 DEF Inv

\* Reading a chunk extends the line by the chunk that was due.
LEMMA ChunkStep == ASSUME Inv, ChunkArrives PROVE Inv'
  <1> DEFINE x == Chunk(produced + 1)
  <1>1. /\ TypeOK /\ producer = "reading" /\ produced' = produced + 1 /\ produced < MaxChunks
        /\ produced \in Nat /\ Len(relayed) \in Nat /\ relayed \in Seq(1 .. MaxChunks)
        /\ HandOver(x) /\ UNCHANGED <<chunks, cancelled, consumer, relayed, result>>
    BY BoundsAssumption DEF Inv, TypeOK, ChunkArrives
  <1>2. x \in Items /\ x \notin {End, Error} /\ produced' \in 0 .. MaxChunks
    BY <1>1, ChunkIsNoEnd, BoundsAssumption DEF Items
  <1>3. /\ Line = queue /\ Line' = Append(Line, x)
        /\ queue' \in Seq(Items) /\ Len(queue') <= Capacity /\ held' \in Items
        /\ producer' \in {"reading", "putting"} /\ (producer' = "putting" => held' = x)
    BY <1>1, <1>2, HandedOver
  <1>4. Line \in Seq(Items) /\ Len(Line) \in Nat
    BY <1>1, <1>3 DEF TypeOK
  <1>5. TypeOK'
    BY <1>1, <1>2, <1>3 DEF TypeOK
  <1>6. Unrelayed' = Unrelayed + 1
    BY <1>1 DEF Unrelayed
  <1>7. Len(Line') = Len(Line) + 1
    BY <1>3, <1>4, LineExtended
  <1>8. ASSUME result = "none"
        PROVE  /\ Len(Line') = Unrelayed'
               /\ \A i \in DOMAIN Line' : Line'[i] = Chunk(Len(relayed) + i)
    <2>1. Len(Line) = Unrelayed /\ Unrelayed \in Nat
      BY <1>1, <1>4, <1>8 DEF Inv, LastItem
    <2>2. \A i \in DOMAIN Line : Line[i] = Chunk(Len(relayed) + i)
      BY <1>4, <1>8, <2>1 DEF Inv, InOrder
    <2>3. Len(relayed) + (Len(Line) + 1) = produced + 1
      BY <1>1, <2>1 DEF Unrelayed
    <2>4. ASSUME NEW i \in DOMAIN Line'
          PROVE  Line'[i] = Chunk(Len(relayed) + i)
      <3>1. CASE i \in DOMAIN Line /\ Line'[i] = Line[i]
        BY <2>2, <3>1
      <3>2. CASE i = Len(Line) + 1 /\ Line'[i] = x
        BY <2>3, <3>2
      <3>3. QED
        BY <1>3, <1>4, <2>4, <3>1, <3>2, LineExtended
    <2>5. QED
      BY <1>6, <1>7, <2>1, <2>4
  <1>9. \A k \in DOMAIN relayed' : relayed'[k] = k
    BY <1>1 DEF Inv, InOrder
  <1>10. Len(relayed') <= produced'
    BY <1>1 DEF Inv, InOrder
  <1>11. InOrder'
    <2>1. CASE result = "none"
      <3>1. DOMAIN Line' = 1 .. Len(Line') /\ Len(Line') \in Nat
        BY <1>3, <1>4
      <3>2. QED
        BY <1>1, <1>8, <1>9, <1>10, <2>1, <3>1 DEF InOrder
    <2>2. CASE result # "none"
      BY <1>1, <1>9, <1>10, <2>2 DEF InOrder
    <2>3. QED
      BY <2>1, <2>2
  <1>12. LastItem'
    BY <1>1, <1>4, <1>7, <1>8 DEF LastItem
  <1>13. Tasks' /\ EndIsEnd' /\ CompleteEnd'
    BY <1>1, <1>2, <1>3 DEF Inv, Tasks, EndIsEnd, CompleteEnd
  <1>14. QED
    BY <1>5, <1>11, <1>12, <1>13 DEF Inv

\* The end comes behind every chunk.
LEMMA EndStep == ASSUME Inv, ChunksEnd PROVE Inv'
  <1>1. PICK x \in {End, Error} : HandOver(x)
    BY DEF ChunksEnd
  <1>2. /\ TypeOK /\ producer = "reading" /\ chunks' = "closed" /\ ~cancelled
        /\ produced \in Nat /\ Len(relayed) \in Nat
        /\ UNCHANGED <<produced, cancelled, consumer, relayed, result>>
    BY DEF Inv, TypeOK, ChunksEnd
  <1>3. x \in Items
    BY DEF Items
  <1>4. /\ Line = queue /\ Line' = Append(Line, x)
        /\ queue' \in Seq(Items) /\ Len(queue') <= Capacity /\ held' \in Items
        /\ producer' \in {"putting", "over"} /\ (producer' = "putting" => held' = x)
    BY <1>1, <1>2, <1>3, HandedOver
  <1>5. Line \in Seq(Items) /\ Len(Line) \in Nat
    BY <1>2, <1>4 DEF TypeOK
  <1>6. TypeOK'
    BY <1>2, <1>4 DEF TypeOK
  <1>7. Unrelayed' = Unrelayed /\ Unrelayed \in Int
    BY <1>2 DEF Unrelayed
  <1>8. Len(Line') = Len(Line) + 1
    BY <1>4, <1>5, LineExtended
  <1>9. result = "none" => Len(Line) = Unrelayed
    BY <1>2 DEF Inv, LastItem
  <1>10. InOrder'
    <2>1. (\A k \in DOMAIN relayed' : relayed'[k] = k) /\ Len(relayed') <= produced'
      BY <1>2 DEF Inv, InOrder
    <2>2. ASSUME result = "none", NEW i \in DOMAIN Line'
          PROVE  IF i <= Unrelayed THEN Line'[i] = Chunk(Len(relayed) + i) ELSE Line'[i] \in {End, Error}
      <3>1. CASE i \in DOMAIN Line /\ Line'[i] = Line[i]
        BY <2>2, <3>1 DEF Inv, InOrder
      <3>2. CASE i = Len(Line) + 1 /\ Line'[i] = x
        BY <1>5, <1>9, <2>2, <3>2
      <3>3. QED
        BY <1>4, <1>5, <2>2, <3>1, <3>2, LineExtended
    <2>3. QED
      BY <1>2, <1>5, <1>7, <1>8, <1>9, <2>1, <2>2 DEF InOrder
  <1>11. LastItem'
    BY <1>2, <1>4, <1>5, <1>7, <1>8, <1>9 DEF LastItem
  <1>12. Tasks' /\ EndIsEnd' /\ CompleteEnd'
    BY <1>2, <1>4 DEF Inv, Tasks, EndIsEnd, CompleteEnd
  <1>13. QED
    BY <1>6, <1>10, <1>11, <1>12 DEF Inv

\* The item put() held gets its slot: the line is the same.
LEMMA PutStep == ASSUME Inv, PutResumes PROVE Inv'
  <1>1. /\ TypeOK /\ producer = "putting" /\ ~Full /\ queue' = Append(queue, held)
        /\ producer' = (IF held \in {End, Error} THEN "over" ELSE "reading")
        /\ UNCHANGED <<produced, chunks, cancelled, consumer, relayed, result, held>>
    BY DEF Inv, PutResumes, Put
  <1>2. queue \in Seq(Items) /\ held \in Items /\ Len(queue) \in Nat
    BY <1>1 DEF TypeOK
  <1>3. Line = Append(queue, held) /\ Line' = Line
    BY <1>1 DEF Line
  <1>4. queue' \in Seq(Items) /\ Len(queue') = Len(queue) + 1 /\ Len(queue') <= Capacity
    BY <1>1, <1>2, BoundsAssumption DEF Full
  <1>5. TypeOK'
    BY <1>1, <1>4 DEF TypeOK
  <1>6. Unrelayed' = Unrelayed /\ Unrelayed \in Int
    BY <1>1 DEF Unrelayed, TypeOK
  <1>7. InOrder'
    BY <1>1, <1>3, LineKept
  <1>8. Len(Line) = Len(queue) + 1 /\ Line[Len(Line)] = held /\ Len(Line) \in DOMAIN Line
    BY <1>2, <1>3
  <1>9. result = "none" /\ held \notin {End, Error} => Len(Line) = Unrelayed
    BY <1>2, <1>6, <1>8 DEF Inv, InOrder
  <1>10. LastItem'
    BY <1>1, <1>3, <1>6, <1>9 DEF Inv, LastItem
  <1>11. Tasks'
    BY <1>1 DEF Inv, Tasks, PutResumes
  <1>12. EndIsEnd' /\ CompleteEnd'
    BY <1>1 DEF Inv, EndIsEnd, CompleteEnd
  <1>13. QED
    BY <1>5, <1>7, <1>10, <1>11, <1>12 DEF Inv

\* Whatever a cancelled producer does, the consumer has left: nothing is in line for
\* it any more.
LEMMA CancelledStep == ASSUME Inv, ProducerCancelled PROVE Inv'
  <1>1. result # "none" /\ producer # "over" /\ producer' = "over"
    BY DEF Inv, Tasks, ProducerCancelled
  <1>2. result \notin {"end", "error"}
    BY <1>1 DEF Inv, EndIsEnd
  <1>3. TypeOK' /\ Tasks'
    BY <1>1 DEF Inv, TypeOK, Tasks, ProducerCancelled
  <1>4. InOrder' /\ LastItem' /\ EndIsEnd' /\ CompleteEnd'
    BY <1>1, <1>2 DEF Inv, InOrder, LastItem, EndIsEnd, CompleteEnd, ProducerCancelled
  <1>5. QED
    BY <1>3, <1>4 DEF Inv

LEMMA CloseFailsStep == ASSUME Inv, CloseFails PROVE Inv'
  <1>1. /\ result # "none" /\ producer # "over" /\ HandOver(Error)
        /\ cancelled' = FALSE /\ chunks' = "closed"
        /\ UNCHANGED <<produced, consumer, relayed, result>>
    BY DEF Inv, Tasks, CloseFails
  <1>2. producer \in {"reading", "putting"} /\ chunks = "open"
    BY <1>1 DEF Inv, TypeOK, Tasks, CloseFails
  <1>3. result \notin {"end", "error"}
    BY <1>1 DEF Inv, EndIsEnd
  <1>4. /\ queue' \in Seq(Items) /\ Len(queue') <= Capacity /\ held' \in Items
        /\ producer' \in {"putting", "over"} /\ (producer' = "putting" => held' = Error)
    <2>1. CASE ~Full /\ Put(Error)
      <3>1. queue' = Append(queue, Error) /\ producer' = "over" /\ held' = held
        BY <2>1 DEF Put
      <3>2. Error \in Items /\ ~(Len(queue) >= Capacity)
        BY <2>1 DEF Items, Full
      <3>3. QED
        BY <3>1, <3>2, BoundsAssumption DEF Inv, TypeOK
    <2>2. CASE Full /\ producer' = "putting" /\ held' = Error /\ UNCHANGED queue
      BY <2>2 DEF Inv, TypeOK, Items
    <2>3. QED
      BY <1>1, <2>1, <2>2 DEF HandOver
  <1>5. TypeOK'
    BY <1>1, <1>4 DEF Inv, TypeOK
  <1>6. Tasks' /\ InOrder' /\ LastItem' /\ EndIsEnd' /\ CompleteEnd'
    BY <1>1, <1>2, <1>3, <1>4 DEF Inv, Tasks, InOrder, LastItem, EndIsEnd, CompleteEnd
  <1>7. QED
    BY <1>5, <1>6 DEF Inv

---------------------------------------------------------------------------
(* Every step of the consumer keeps the invariant *)

\* Leaving in the middle of the stream.
LEMMA LeavesStep == ASSUME Inv, Leaves PROVE Inv'
  <1>1. /\ consumer' = "leaving" /\ result' = "left" /\ cancelled' = (producer # "over")
        /\ UNCHANGED <<produced, chunks, producer, held, queue, relayed>>
    BY DEF Leaves, Leave
  <1>2. cancelled' \in BOOLEAN
    BY <1>1
  <1>3. TypeOK'
    BY <1>1, <1>2 DEF Inv, TypeOK
  <1>4. Tasks' /\ InOrder' /\ LastItem' /\ EndIsEnd' /\ CompleteEnd'
    BY <1>1 DEF Inv, Tasks, InOrder, LastItem, EndIsEnd, CompleteEnd, Leaves
  <1>5. QED
    BY <1>3, <1>4 DEF Inv

\* The consumer waits, or sends a comment: the line is as it was.
LEMMA PauseStep ==
    ASSUME Inv, consumer \in {"waiting", "beating", "relaying"}, consumer' \in {"waiting", "beating"},
           UNCHANGED <<produced, chunks, producer, held, cancelled, queue, relayed, result>>
    PROVE  Inv'
  <1>1. Line' = Line /\ Unrelayed' = Unrelayed
    BY DEF Line, Unrelayed
  <1>2. TypeOK' /\ Tasks' /\ EndIsEnd' /\ CompleteEnd'
    BY DEF Inv, TypeOK, Tasks, EndIsEnd, CompleteEnd
  <1>3. InOrder' /\ LastItem'
    BY <1>1 DEF Inv, InOrder, LastItem
  <1>4. QED
    BY <1>2, <1>3 DEF Inv

LEMMA AwaitedStep == ASSUME Inv, ProducerAwaited PROVE Inv'
  <1>1. result # "none" /\ result' = result
    BY DEF Inv, Tasks, ProducerAwaited
  <1>2. TypeOK' /\ Tasks' /\ EndIsEnd' /\ CompleteEnd'
    BY DEF Inv, TypeOK, Tasks, EndIsEnd, CompleteEnd, ProducerAwaited
  <1>3. InOrder' /\ LastItem'
    BY <1>1 DEF Inv, InOrder, LastItem, ProducerAwaited
  <1>4. QED
    BY <1>2, <1>3 DEF Inv

\* Taking a chunk relays the one that is due; taking an end leaves with nothing in
\* line and with the producer over.
LEMMA TakeStep ==
    ASSUME Inv, consumer \in {"waiting", "beating", "relaying"}, queue # <<>>, Take,
           UNCHANGED <<produced, chunks, producer, held>>
    PROVE  Inv'
  <1>1. /\ TypeOK /\ queue' = Tail(queue) /\ result = "none" /\ ~cancelled
        /\ produced \in Nat /\ Len(relayed) \in Nat /\ relayed \in Seq(1 .. MaxChunks)
    BY BoundsAssumption DEF Inv, TypeOK, Tasks, Take
  <1>2. /\ Len(Line) >= 1 /\ Line[1] = Head(queue) /\ Head(queue) \in Items
        /\ Len(Line') = Len(Line) - 1
        /\ \A i \in DOMAIN Line' : i + 1 \in DOMAIN Line /\ Line'[i] = Line[i + 1]
        /\ queue' \in Seq(Items) /\ Len(queue') <= Capacity
        /\ producer # "putting" => Line = queue
        /\ producer = "putting" => Len(Line) >= 2
    BY <1>1, HeadTaken
  <1>3. Line \in Seq(Items) /\ Line' \in Seq(Items) /\ Len(Line) \in Nat /\ 1 \in DOMAIN Line
    BY <1>1, <1>2 DEF TypeOK, Line
  <1>4. /\ Unrelayed = produced - Len(relayed) /\ Unrelayed \in Nat
        /\ Unrelayed <= Len(Line) /\ Len(Line) <= Unrelayed + 1
    BY <1>1 DEF Inv, InOrder, LastItem, Unrelayed
  <1>5. CASE Head(queue) \in {End, Error}
    <2>1. PICK why \in {"end", "error"} : Leave(why)
      BY <1>1, <1>5 DEF Take, End, Error
    <2>2. Unrelayed = 0 /\ Len(Line) = 1
      <3>1. 1 <= Unrelayed => Line[1] = Chunk(Len(relayed) + 1)
        BY <1>1, <1>3 DEF Inv, InOrder
      <3>2. Line[1] # Chunk(Len(relayed) + 1)
        BY <1>1, <1>2, <1>5, ChunkIsNoEnd
      <3>3. QED
        BY <1>2, <1>4, <3>1, <3>2
    <2>3. producer = "over" /\ Line = queue
      BY <1>1, <1>2, <2>2 DEF Inv, TypeOK, LastItem
    <2>4. queue' = <<>> /\ Len(relayed) = produced
      BY <1>1, <1>4, <2>2, <2>3 DEF TypeOK
    <2>5. /\ consumer' = "leaving" /\ result' = why /\ ~cancelled' /\ cancelled' \in BOOLEAN
          /\ relayed' = relayed
      BY <2>1, <2>3 DEF Leave
    <2>6. TypeOK'
      BY <1>1, <1>2, <2>5 DEF TypeOK
    <2>7. Tasks' /\ LastItem' /\ EndIsEnd'
      BY <1>1, <2>3, <2>5 DEF Inv, Tasks, LastItem, EndIsEnd
    <2>8. InOrder' /\ CompleteEnd'
      BY <1>1, <2>4, <2>5 DEF Inv, InOrder, CompleteEnd
    <2>9. QED
      BY <2>6, <2>7, <2>8 DEF Inv
  <1>6. CASE Head(queue) \notin {End, Error}
    <2>1. /\ consumer' = "relaying" /\ relayed' = Append(relayed, Head(queue)[2])
          /\ UNCHANGED <<result, cancelled>>
      BY <1>6 DEF Take
    <2>2. 1 <= Unrelayed /\ Head(queue) = Chunk(Len(relayed) + 1)
      BY <1>1, <1>2, <1>3, <1>6 DEF Inv, InOrder
    <2>3. Head(queue)[2] = Len(relayed) + 1 /\ Len(relayed) + 1 <= produced
      BY <1>1, <1>4, <2>2, ChunkIsNoEnd
    <2>4. Len(relayed) + 1 \in 1 .. MaxChunks
      BY <1>1, <2>3, BoundsAssumption DEF TypeOK
    <2>5. /\ relayed' \in Seq(1 .. MaxChunks) /\ Len(relayed') = Len(relayed) + 1
          /\ \A k \in DOMAIN relayed' : relayed'[k] = k
      <3>1. \A k \in DOMAIN relayed : relayed[k] = k
        BY DEF Inv, InOrder
      <3>2. QED
        BY <1>1, <2>1, <2>3, <2>4, <3>1
    <2>6. TypeOK'
      BY <1>1, <1>2, <2>1, <2>5 DEF TypeOK
    <2>7. Unrelayed' = Unrelayed - 1
      BY <1>1, <2>5 DEF Unrelayed
    <2>8. ASSUME NEW i \in DOMAIN Line'
          PROVE  IF i <= Unrelayed' THEN Line'[i] = Chunk(Len(relayed') + i)
                                    ELSE Line'[i] \in {End, Error}
      <3>1. i \in Nat /\ i + 1 \in DOMAIN Line /\ Line'[i] = Line[i + 1]
        BY <1>2, <1>3, <2>8
      <3>2. IF i + 1 <= Unrelayed THEN Line[i + 1] = Chunk(Len(relayed) + (i + 1))
                                  ELSE Line[i + 1] \in {End, Error}
        BY <1>1, <3>1 DEF Inv, InOrder
      <3>3. Len(relayed) + (i + 1) = Len(relayed') + i
        BY <1>1, <2>5, <3>1
      <3>4. i + 1 <= Unrelayed <=> i <= Unrelayed'
        BY <1>4, <2>7, <3>1
      <3>5. QED
        BY <3>1, <3>2, <3>3, <3>4
    <2>9. InOrder'
      <3>1. Len(relayed') <= produced'
        BY <1>1, <2>3, <2>5
      <3>2. Unrelayed' <= Len(Line')
        BY <1>2, <1>3, <1>4, <2>7
      <3>3. QED
        BY <2>5, <2>8, <3>1, <3>2 DEF InOrder
    <2>10. LastItem'
      BY <1>1, <1>2, <1>3, <1>4, <2>1, <2>7 DEF Inv, LastItem
    <2>11. Tasks' /\ EndIsEnd' /\ CompleteEnd'
      BY <1>1, <2>1 DEF Inv, Tasks, EndIsEnd, CompleteEnd
    <2>12. QED
      BY <2>6, <2>9, <2>10, <2>11 DEF Inv
  <1>7. QED
    BY <1>5, <1>6

\* The next turn of the loop: an item, or nothing to take.
LEMMA TurnStep ==
    ASSUME Inv, consumer \in {"beating", "relaying"}, NextTurn,
           UNCHANGED <<produced, chunks, producer, held>>
    PROVE  Inv'
  <1>1. CASE queue # <<>> /\ Take
    BY <1>1, TakeStep
  <1>2. CASE queue = <<>> /\ consumer' = "waiting" /\ UNCHANGED <<queue, relayed, result, cancelled>>
    BY <1>2, PauseStep
  <1>3. QED
    BY <1>1, <1>2 DEF NextTurn

---------------------------------------------------------------------------
(* The theorems *)

\* Every step keeps the invariant.
LEMMA NextInv == Inv /\ [Next]_vars => Inv'
  <1> SUFFICES ASSUME Inv, [Next]_vars PROVE Inv'
    OBVIOUS
  <1>1. CASE ProducerStep
    BY <1>1, StartsStep, PutStep, CancelledStep, CloseFailsStep DEF ProducerStep
  <1>2. CASE ChunkArrives \/ ChunksEnd
    BY <1>2, ChunkStep, EndStep
  <1>3. CASE Got
    BY <1>3, TakeStep DEF Got
  <1>4. CASE Beaten \/ Relayed
    BY <1>4, TurnStep DEF Beaten, Relayed
  <1>5. CASE ProducerAwaited
    BY <1>5, AwaitedStep
  <1>6. CASE TimesOut
    BY <1>6, PauseStep DEF TimesOut
  <1>7. CASE Leaves
    BY <1>7, LeavesStep
  <1>8. CASE UNCHANGED vars
    <2>1. Line' = Line /\ Unrelayed' = Unrelayed
      BY <1>8 DEF vars, Line, Unrelayed
    <2>2. TypeOK' /\ Tasks' /\ EndIsEnd' /\ CompleteEnd'
      BY <1>8 DEF Inv, vars, TypeOK, Tasks, EndIsEnd, CompleteEnd
    <2>3. InOrder' /\ LastItem'
      BY <1>8, <2>1 DEF Inv, vars, InOrder, LastItem
    <2>4. QED
      BY <2>2, <2>3 DEF Inv
  <1>9. QED
    BY <1>1, <1>2, <1>3, <1>4, <1>5, <1>6, <1>7, <1>8 DEF Next, ConsumerStep

\* The two tasks of _with_heartbeats and their queue keep the invariant.
THEOREM HandOverInvariant == Spec => []Inv
  BY InitInv, NextInv, PTL DEF Spec

\* The variables have their types, and the queue never grows past its maxsize
\* (asyncio.Queue(maxsize=64)).
THEOREM Typing == Spec => []TypeOK
  <1>1. Inv => TypeOK
    BY DEF Inv
  <1>2. QED
    BY HandOverInvariant, <1>1, PTL

\* What the client gets is what the backend sent, from the first chunk on, each
\* once and in order, whatever time-outs and keep-alives come in between; and
\* nothing that was read is lost while the stream goes on.
THEOREM ChunksInOrder == Spec => []InOrder
  <1>1. Inv => InOrder
    BY DEF Inv
  <1>2. QED
    BY HandOverInvariant, <1>1, PTL

\* The generator ends, or raises the backend's error, only when every chunk was
\* relayed.
THEOREM EndMeansComplete == Spec => []CompleteEnd
  <1>1. Inv => CompleteEnd
    BY DEF Inv
  <1>2. QED
    BY HandOverInvariant, <1>1, PTL

\* When the generator is over, so is the producer, and the slot and the connection
\* it held are free.
THEOREM FreeAfterwards == Spec => []ClosedAfterwards
  <1>1. Inv => ClosedAfterwards
    BY DEF Inv, Tasks, ClosedAfterwards
  <1>2. QED
    BY HandOverInvariant, <1>1, PTL

---------------------------------------------------------------------------
(* The hand-over implements Relay *)

\* How a stream closes: behind its last chunk there is one end in line, until it is
\* told; a producer that is left is told so, unless it has nothing more to close.
Closing ==
    /\ chunks = "unstarted" => producer \in {"new", "over"}
    /\ result = "none" /\ producer = "over" => chunks = "closed"
    /\ result = "none" /\ chunks = "closed" =>
        Len(Line) = Unrelayed + 1 /\ Line[Len(Line)] \in {End, Error}
    /\ result # "none" => cancelled \/ producer = "over" \/ chunks = "closed"

\* What the consumer does without taking an item or leaving does not disturb it.
LEMMA ClosingKept ==
    ASSUME Inv, Closing, UNCHANGED <<chunks, producer, held, queue, produced, relayed, result, cancelled>>
    PROVE  Closing'
  BY DEF Closing, Line, Unrelayed

\* The first and the last item of a line whose head is taken.
LEMMA TakenFromLine ==
    ASSUME Inv, Closing, result = "none", queue # <<>>, queue' = Tail(queue),
           UNCHANGED <<producer, held, produced, chunks>>
    PROVE  /\ Unrelayed \in Nat /\ Len(Line) >= 1 /\ Len(Line) <= Unrelayed + 1
           /\ Len(Line') = Len(Line) - 1
           /\ Head(queue) \in {End, Error} =>
                 Len(Line) = 1 /\ Unrelayed = 0 /\ Line[1] = Head(queue) /\ chunks = "closed"
                 /\ producer = "over"
           /\ Head(queue) \notin {End, Error} =>
                 /\ Head(queue) = Chunk(Len(relayed) + 1) /\ Unrelayed >= 1
                 /\ Len(Line) > 1 => Line'[Len(Line')] = Line[Len(Line)]
  <1>1. /\ TypeOK /\ produced \in Nat /\ Len(relayed) \in Nat /\ Len(relayed) <= produced
        /\ Unrelayed = produced - Len(relayed) /\ Unrelayed \in Nat
        /\ Unrelayed <= Len(Line) /\ Len(Line) <= Unrelayed + 1
    BY BoundsAssumption DEF Inv, TypeOK, InOrder, LastItem, Unrelayed
  <1>2. /\ Len(Line) >= 1 /\ Line[1] = Head(queue) /\ Head(queue) \in Items
        /\ Len(Line') = Len(Line) - 1
        /\ \A i \in DOMAIN Line' : i + 1 \in DOMAIN Line /\ Line'[i] = Line[i + 1]
        /\ queue' \in Seq(Items)
    BY <1>1, HeadTaken
  <1>3. Line \in Seq(Items) /\ Line' \in Seq(Items) /\ Len(Line) \in Nat /\ 1 \in DOMAIN Line
    BY <1>1, <1>2 DEF TypeOK, Line
  <1>4. CASE Head(queue) \in {End, Error}
    <2>1. Line[1] # Chunk(Len(relayed) + 1)
      BY <1>1, <1>2, <1>4, ChunkIsNoEnd
    <2>2. Unrelayed = 0
      BY <1>1, <1>3, <2>1 DEF Inv, InOrder
    <2>3. producer \notin {"new", "reading"}
      BY <1>1, <1>2, <1>3, <2>2 DEF Inv, LastItem
    <2>4. producer # "putting"
      BY <1>1, <1>2, <1>3, <2>2, HeadTaken
    <2>5. producer = "over"
      BY <1>1, <2>3, <2>4 DEF TypeOK
    <2>6. QED
      BY <1>1, <1>2, <1>3, <1>4, <2>2, <2>5 DEF Closing
  <1>5. CASE Head(queue) \notin {End, Error}
    <2>1. Unrelayed >= 1 /\ Line[1] = Chunk(Len(relayed) + 1)
      BY <1>1, <1>2, <1>3, <1>5 DEF Inv, InOrder
    <2>2. ASSUME Len(Line) > 1 PROVE Line'[Len(Line')] = Line[Len(Line)]
      <3>1. Len(Line') \in DOMAIN Line' /\ Len(Line') + 1 = Len(Line)
        BY <1>2, <1>3, <2>2
      <3>2. QED
        BY <1>2, <3>1
    <2>3. QED
      BY <1>1, <1>2, <1>5, <2>1, <2>2
  <1>6. QED
    BY <1>4, <1>5

\* A step that Relay does not see.
LEMMA Unseen ==
    ASSUME UNCHANGED <<produced, relayed, Backend, Pending, result, consumer>>
    PROVE  [Promised!Next]_Promised!vars
  BY DEF Promised!vars

LEMMA StartsRelays == ASSUME Inv, Closing, Starts PROVE Closing' /\ Promised!Open
  <1>1. /\ result = "none" /\ producer = "new" /\ chunks = "unstarted"
        /\ producer' = "reading" /\ chunks' = "open"
        /\ UNCHANGED <<produced, held, cancelled, queue, consumer, relayed, result>>
    BY DEF Inv, Tasks, Closing, Starts
  <1>2. Closing'
    BY <1>1 DEF Closing
  <1>3. Backend = "new" /\ Backend' = "busy" /\ Pending = "none" /\ Pending' = "none"
    BY <1>1 DEF Backend, Pending
  <1>4. QED
    BY <1>1, <1>2, <1>3 DEF Promised!Open

LEMMA ChunkRelays == ASSUME Inv, Closing, ChunkArrives PROVE Closing' /\ Promised!Read
  <1>1. /\ TypeOK /\ producer = "reading" /\ produced' = produced + 1 /\ produced < MaxChunks
        /\ produced \in Nat /\ ~cancelled /\ chunks = "open"
        /\ HandOver(Chunk(produced + 1)) /\ UNCHANGED <<chunks, cancelled, consumer, relayed, result>>
    BY BoundsAssumption DEF Inv, TypeOK, Tasks, ChunkArrives
  <1>2. result = "none"
    BY <1>1 DEF Closing
  <1>3. Chunk(produced + 1) \in Items /\ Chunk(produced + 1) \notin {End, Error}
    BY <1>1, ChunkIsNoEnd, BoundsAssumption DEF Items
  <1>4. producer' \in {"reading", "putting"}
    BY <1>1, <1>3, HandedOver
  <1>5. Closing'
    BY <1>1, <1>2, <1>4 DEF Closing
  <1>6. Backend = "busy" /\ Backend' = "busy" /\ Pending = "none" /\ Pending' = "none"
    BY <1>1, <1>4 DEF Backend, Pending
  <1>7. QED
    BY <1>1, <1>2, <1>5, <1>6 DEF Promised!Read

LEMMA EndRelays == ASSUME Inv, Closing, ChunksEnd PROVE Closing' /\ Promised!Close
  <1>1. PICK x \in {End, Error} : HandOver(x)
    BY DEF ChunksEnd
  <1>2. /\ TypeOK /\ producer = "reading" /\ chunks = "open" /\ chunks' = "closed" /\ ~cancelled
        /\ UNCHANGED <<produced, cancelled, consumer, relayed, result>>
    BY DEF Inv, Tasks, ChunksEnd
  <1>3. result = "none"
    BY <1>2 DEF Closing
  <1>4. Line = queue /\ Line' = Append(Line, x) /\ producer' \in {"putting", "over"}
    <2>1. x \in Items
      BY DEF Items
    <2>2. QED
      BY <1>1, <1>2, <2>1, HandedOver
  <1>5. Line \in Seq(Items)
    BY <1>2, <1>4 DEF TypeOK
  <1>6. Len(Line) = Unrelayed
    BY <1>2, <1>3, <1>5 DEF Inv, InOrder, LastItem, Unrelayed, TypeOK
  <1>7. Len(Line') = Unrelayed' + 1 /\ Line'[Len(Line')] = x
    BY <1>2, <1>4, <1>5, <1>6, LineExtended DEF Unrelayed
  <1>8. Closing'
    BY <1>2, <1>3, <1>4, <1>7 DEF Closing
  <1>9. x[1] \in {"end", "error"}
    BY DEF End, Error
  <1>10. /\ Backend = "busy" /\ Backend' = "free"
         /\ Pending = "none" /\ Pending' \in {"end", "error"}
    BY <1>2, <1>3, <1>7, <1>9 DEF Backend, Pending
  <1>11. QED
    BY <1>2, <1>3, <1>8, <1>10 DEF Promised!Close

\* The slot that is free again lets the producer read on, or ends it.
LEMMA PutRelays == ASSUME Inv, Closing, PutResumes PROVE Closing' /\ [Promised!Next]_Promised!vars
  <1>1. /\ TypeOK /\ producer = "putting" /\ queue' = Append(queue, held) /\ ~cancelled
        /\ producer' = (IF held \in {End, Error} THEN "over" ELSE "reading")
        /\ UNCHANGED <<produced, chunks, cancelled, consumer, relayed, result, held>>
    BY DEF Inv, PutResumes, Put
  <1>2. Line' = Line /\ Unrelayed' = Unrelayed
    BY <1>1 DEF Line, Unrelayed
  <1>3. held \in {End, Error} <=> chunks = "closed"
    BY <1>1 DEF Inv, Tasks, TypeOK, Closing
  <1>4. Closing'
    BY <1>1, <1>2, <1>3 DEF Closing
  <1>5. Backend' = Backend /\ Pending' = Pending
    BY <1>1, <1>2, <1>3 DEF Backend, Pending
  <1>6. QED
    BY <1>1, <1>4, <1>5, Unseen

\* A cancelled producer frees the backend, if it has not done so before.
LEMMA CancelledRelays ==
    ASSUME Inv, Closing, ProducerCancelled \/ CloseFails
    PROVE  Closing' /\ [Promised!Next]_Promised!vars
  <1>1. /\ producer # "over" /\ result = "left"
        /\ UNCHANGED <<produced, consumer, relayed, result>>
    BY DEF Inv, Tasks, TypeOK, EndIsEnd, ProducerCancelled, CloseFails
  <1>2. chunks' = "closed" \/ producer' = "over"
    BY DEF ProducerCancelled, CloseFails
  <1>3. chunks' = "unstarted" => producer' = "over"
    BY <1>2 DEF Inv, TypeOK
  <1>4. Closing'
    BY <1>1, <1>2, <1>3 DEF Closing
  <1>5. Backend' = "free" /\ Pending' = "none" /\ Pending = "none"
    BY <1>1, <1>2 DEF Backend, Pending
  <1>6. CASE Backend = "free"
    BY <1>1, <1>4, <1>5, <1>6, Unseen
  <1>7. CASE Backend # "free"
    BY <1>1, <1>4, <1>5, <1>7 DEF Promised!Release, Promised!Next
  <1>8. QED
    BY <1>6, <1>7

LEMMA LeavesRelays == ASSUME Inv, Closing, Leaves PROVE Closing' /\ Promised!Leave
  <1>1. /\ result = "none" /\ result' = "left" /\ cancelled' = (producer # "over")
        /\ consumer # "over" /\ consumer' = "leaving"
        /\ UNCHANGED <<produced, chunks, producer, held, queue, relayed>>
    BY DEF Inv, Tasks, Leaves, Leave
  <1>2. Closing'
    BY <1>1 DEF Closing
  <1>3. Backend' = Backend /\ Pending' = "none"
    BY <1>1 DEF Backend, Pending
  <1>4. QED
    BY <1>1, <1>2, <1>3 DEF Promised!Leave

\* The loop takes what is next: the chunk that is due, or the end behind them all.
LEMMA TakeRelays ==
    ASSUME Inv, Closing, consumer \in {"waiting", "beating", "relaying"}, queue # <<>>, Take,
           UNCHANGED <<produced, chunks, producer, held>>
    PROVE  Closing' /\ (Promised!Pass \/ Promised!Report)
  <1>1. /\ TypeOK /\ queue' = Tail(queue) /\ result = "none" /\ ~cancelled
        /\ produced \in Nat /\ Len(relayed) \in Nat /\ relayed \in Seq(1 .. MaxChunks)
        /\ Unrelayed = produced - Len(relayed)
    BY BoundsAssumption DEF Inv, TypeOK, Tasks, Take, Unrelayed
  <1>2. /\ Unrelayed \in Nat /\ Len(Line) >= 1 /\ Len(Line) <= Unrelayed + 1
        /\ Len(Line') = Len(Line) - 1
        /\ Head(queue) \in {End, Error} =>
              Len(Line) = 1 /\ Unrelayed = 0 /\ Line[1] = Head(queue) /\ chunks = "closed"
              /\ producer = "over"
        /\ Head(queue) \notin {End, Error} =>
              /\ Head(queue) = Chunk(Len(relayed) + 1) /\ Unrelayed >= 1
              /\ Len(Line) > 1 => Line'[Len(Line')] = Line[Len(Line)]
    BY <1>1, TakenFromLine
  <1>3. Backend' = Backend
    BY DEF Backend
  <1>4. CASE Head(queue) \in {End, Error}
    <2>1. /\ consumer' = "leaving" /\ result' = Head(queue)[1] /\ result' \in {"end", "error"}
          /\ UNCHANGED relayed
      BY <1>1, <1>4 DEF Take, Leave, End, Error
    <2>2. Pending = Head(queue)[1] /\ Pending' = "none" /\ Len(relayed) = produced
      BY <1>1, <1>2, <1>4, <2>1 DEF Pending
    <2>3. Closing'
      BY <1>2, <1>4, <2>1 DEF Closing
    <2>4. Promised!Report
      BY <1>1, <1>3, <2>1, <2>2 DEF Promised!Report
    <2>5. QED
      BY <2>3, <2>4
  <1>5. CASE Head(queue) \notin {End, Error}
    <2>1. /\ consumer' = "relaying" /\ relayed' = Append(relayed, Len(relayed) + 1)
          /\ UNCHANGED <<result, cancelled>>
      BY <1>1, <1>2, <1>5, ChunkIsNoEnd DEF Take
    <2>2. Unrelayed' = Unrelayed - 1 /\ Len(relayed) < produced
      BY <1>1, <1>2, <1>5, <2>1 DEF Unrelayed
    <2>3. chunks = "closed" => Len(Line) = Unrelayed + 1 /\ Line'[Len(Line')] = Line[Len(Line)]
      BY <1>1, <1>2, <1>5 DEF Closing
    <2>4. Closing'
      BY <1>1, <1>2, <2>1, <2>2, <2>3 DEF Closing
    <2>5. Pending' = Pending
      BY <1>1, <2>1, <2>3 DEF Pending
    <2>6. Promised!Pass
      BY <1>1, <1>3, <2>1, <2>2, <2>5 DEF Promised!Pass
    <2>7. QED
      BY <2>4, <2>6
  <1>6. QED
    BY <1>4, <1>5

\* A pause, and the return, leave everything else as it is.
LEMMA PauseRelays ==
    ASSUME Inv, Closing, consumer # "over", consumer' # "over",
           UNCHANGED <<produced, chunks, producer, held, cancelled, queue, relayed, result>>
    PROVE  Closing' /\ [Promised!Next]_Promised!vars
  <1>1. Closing'
    BY ClosingKept
  <1>2. Backend' = Backend /\ Pending' = Pending
    BY DEF Backend, Pending, Line
  <1>3. QED
    BY <1>1, <1>2 DEF Promised!vars

LEMMA AwaitedRelays == ASSUME Inv, Closing, ProducerAwaited PROVE Closing' /\ Promised!Return
  <1>1. /\ result # "none" /\ producer = "over" /\ consumer # "over" /\ consumer' = "over"
        /\ UNCHANGED <<produced, chunks, producer, held, cancelled, queue, relayed, result>>
    BY DEF Inv, Tasks, ProducerAwaited
  <1>2. Closing'
    BY <1>1, ClosingKept
  <1>3. Backend = "free" /\ Backend' = Backend /\ Pending' = Pending
    BY <1>1 DEF Backend, Pending
  <1>4. QED
    BY <1>1, <1>2, <1>3 DEF Promised!Return

LEMMA TurnRelays ==
    ASSUME Inv, Closing, consumer \in {"beating", "relaying"}, NextTurn,
           UNCHANGED <<produced, chunks, producer, held>>
    PROVE  Closing' /\ [Promised!Next]_Promised!vars
  <1>1. CASE queue # <<>> /\ Take
    BY <1>1, TakeRelays DEF Promised!Next
  <1>2. CASE queue = <<>> /\ consumer' = "waiting" /\ UNCHANGED <<queue, relayed, result, cancelled>>
    BY <1>2, PauseRelays
  <1>3. QED
    BY <1>1, <1>2 DEF NextTurn

\* Every step of the hand-over is one of Relay, or none.
LEMMA NextRelays ==
    ASSUME Inv, Closing, [Next]_vars
    PROVE  Closing' /\ [Promised!Next]_Promised!vars
  <1>1. CASE ProducerStep
    BY <1>1, StartsRelays, PutRelays, CancelledRelays DEF ProducerStep, Promised!Next
  <1>2. CASE ChunkArrives \/ ChunksEnd
    BY <1>2, ChunkRelays, EndRelays DEF Promised!Next
  <1>3. CASE Got
    BY <1>3, TakeRelays DEF Got, Promised!Next
  <1>4. CASE Beaten \/ Relayed
    BY <1>4, TurnRelays DEF Beaten, Relayed
  <1>5. CASE ProducerAwaited
    BY <1>5, AwaitedRelays DEF Promised!Next
  <1>6. CASE TimesOut
    BY <1>6, PauseRelays DEF TimesOut
  <1>7. CASE Leaves
    BY <1>7, LeavesRelays DEF Promised!Next
  <1>8. CASE UNCHANGED vars
    <2>1. Backend' = Backend /\ Pending' = Pending
      BY <1>8 DEF vars, Backend, Pending, Line
    <2>2. QED
      BY <1>8, <2>1, ClosingKept, Unseen DEF vars
  <1>9. QED
    BY <1>1, <1>2, <1>3, <1>4, <1>5, <1>6, <1>7, <1>8 DEF Next, ConsumerStep

\* The two tasks with their bounded queue, time-outs and cancellation do what Relay
\* promises to _stream: every chunk once and in order, an error told as an error, and
\* a backend that is free when the stream is left.
THEOREM HandOverRelays == Spec => ImplementsRelay
  <1>1. Init => Closing /\ Promised!Init
    BY DEF Init, Closing, Promised!Init, Backend, Pending
  <1>2. Inv /\ Closing /\ [Next]_vars => Closing' /\ [Promised!Next]_Promised!vars
    BY NextRelays
  <1>3. QED
    BY HandOverInvariant, <1>1, <1>2, PTL DEF Spec, ImplementsRelay, Promised!Spec

---------------------------------------------------------------------------
(* Leaving *)

\* A consumer that has left waits for a producer that is over, or has yet to see its
\* cancellation; the one other thing that can keep it is the exception of a close that
\* failed, which the producer is still putting.  The safety half of LeavingEnds: each
\* of these is a step away from the end, or Stranded (app.py:509-513).
WayOut ==
    result # "none" =>
        \/ producer = "over"
        \/ cancelled
        \/ CloseMayFail /\ producer = "putting" /\ held = Error

\* Once it was left, the generator reads nothing more from the backend, sends nothing
\* more and never comes back, whatever the producer was about to do.
LeftForGood ==
    [][result # "none" =>
           /\ UNCHANGED <<produced, relayed, result>>
           /\ consumer' # consumer => consumer' = "over" /\ producer = "over"
           /\ producer' # producer => producer' = "over" \/ CloseFails]_vars

\* Who leaves cancels the producer, which uses that up only to end or to put the
\* exception of its close.
LEMMA NextWayOut == ASSUME Inv, WayOut, [Next]_vars PROVE WayOut'
  <1>1. CASE PutResumes
    BY <1>1 DEF WayOut, PutResumes, Put
  <1>2. CASE CloseFails
    BY <1>2 DEF WayOut, CloseFails, HandOver, Put
  <1>3. CASE ChunkArrives \/ ChunksEnd \/ Starts
    <2>1. result = "none" /\ result' = "none"
      BY <1>3 DEF Inv, Tasks, WayOut, ChunkArrives, ChunksEnd, Starts
    <2>2. QED
      BY <2>1 DEF WayOut
  <1>4. CASE ProducerCancelled
    BY <1>4 DEF WayOut, ProducerCancelled
  <1>5. ASSUME consumer \in {"waiting", "beating", "relaying"}, UNCHANGED producer,
               Take \/ Leave("left") \/ UNCHANGED <<result, cancelled>>
        PROVE  WayOut'
    <2>1. result = "none"
      BY <1>5 DEF Inv, Tasks
    <2>2. cancelled' = (producer # "over") \/ result' = "none"
      BY <1>5, <2>1 DEF Take, Leave
    <2>3. QED
      BY <1>5, <2>2 DEF WayOut
  <1>6. CASE Got \/ Beaten \/ Relayed \/ TimesOut \/ Leaves
    BY <1>5, <1>6 DEF Got, Beaten, Relayed, NextTurn, TimesOut, Leaves
  <1>7. CASE ProducerAwaited \/ UNCHANGED vars
    BY <1>7 DEF WayOut, ProducerAwaited, vars
  <1>8. QED
    BY <1>1, <1>2, <1>3, <1>4, <1>6, <1>7 DEF Next, ProducerStep, ConsumerStep

\* Whoever leaves the generator is not kept by its producer, unless closing the
\* backend's stream raised (app.py:509-513).
THEOREM LeavingHasAWayOut == Spec => []WayOut
  <1>1. Init => WayOut
    BY DEF Init, WayOut
  <1>2. Inv /\ WayOut /\ [Next]_vars => WayOut'
    BY NextWayOut
  <1>3. QED
    BY HandOverInvariant, <1>1, <1>2, PTL DEF Spec

\* Leaving is final for both tasks: no chunk is read or sent after it, and all that is
\* left to do is to end (app.py:509-513).
THEOREM LeavingIsFinal == Spec => LeftForGood
  <1>1. ASSUME Inv, WayOut, [Next]_vars, result # "none"
        PROVE  /\ UNCHANGED <<produced, relayed, result>>
               /\ consumer' # consumer => consumer' = "over" /\ producer = "over"
               /\ producer' # producer => producer' = "over" \/ CloseFails
    <2>1. consumer \notin {"waiting", "beating", "relaying"}
      BY <1>1 DEF Inv, Tasks
    <2>2. ~Starts /\ ~ChunkArrives /\ ~ChunksEnd
      BY <1>1 DEF Inv, Tasks, WayOut, Starts, ChunkArrives, ChunksEnd
    <2>3. CASE PutResumes
      BY <1>1, <2>3 DEF WayOut, PutResumes, Put
    <2>4. CASE ProducerCancelled \/ CloseFails
      BY <2>4 DEF ProducerCancelled, CloseFails
    <2>5. CASE ProducerAwaited \/ UNCHANGED vars
      BY <2>5 DEF ProducerAwaited, vars
    <2>6. QED
      BY <1>1, <2>1, <2>2, <2>3, <2>4, <2>5
      DEF Next, ProducerStep, ConsumerStep, Got, Beaten, Relayed, TimesOut, Leaves
  <1>2. Inv /\ WayOut /\ [Next]_vars =>
            [result # "none" =>
                /\ UNCHANGED <<produced, relayed, result>>
                /\ consumer' # consumer => consumer' = "over" /\ producer = "over"
                /\ producer' # producer => producer' = "over" \/ CloseFails]_vars
    BY <1>1
  <1>3. QED
    BY HandOverInvariant, LeavingHasAWayOut, <1>2, PTL DEF Spec, LeftForGood

---------------------------------------------------------------------------
(* Delivering *)

\* The chunk that is next to be relayed is at the head of the queue, or the producer has
\* it in hand and room to put it: a full queue never has both tasks wait (app.py:484-503).
NextIsAtHand ==
    result = "none" /\ Unrelayed > 0 =>
        \/ queue # <<>> /\ Head(queue) = Chunk(Len(relayed) + 1)
        \/ /\ producer = "putting" /\ held = Chunk(Len(relayed) + 1)
           /\ queue = <<>> /\ ~Full /\ ~cancelled

\* With a chunk in the queue every turn of the consumer relays it, and it does not wait
\* again before: at most one comment is sent ahead of it.
EveryTurnDelivers ==
    [][result = "none" /\ queue # <<>> =>
          /\ ConsumerStep /\ Unrelayed > 0 => relayed' = Append(relayed, Len(relayed) + 1)
          /\ consumer' = "waiting" => consumer = "waiting"]_vars

LEMMA AtHand == ASSUME Inv PROVE NextIsAtHand
  <1> SUFFICES ASSUME result = "none", Unrelayed > 0
               PROVE  \/ queue # <<>> /\ Head(queue) = Chunk(Len(relayed) + 1)
                      \/ /\ producer = "putting" /\ held = Chunk(Len(relayed) + 1)
                         /\ queue = <<>> /\ ~Full /\ ~cancelled
    BY DEF NextIsAtHand
  <1>1. queue \in Seq(Items) /\ held \in Items /\ Unrelayed \in Int /\ Len(relayed) \in Nat
    BY DEF Inv, TypeOK, Unrelayed
  <1>2. Line \in Seq(Items) /\ Len(Line) >= 1
    BY <1>1 DEF Inv, InOrder, Line
  <1>3. Line[1] = Chunk(Len(relayed) + 1)
    BY <1>1, <1>2 DEF Inv, InOrder
  <1>4. CASE queue # <<>>
    <2>1. Line[1] = Head(queue)
      BY <1>1, <1>4 DEF Line
    <2>2. QED
      BY <1>3, <1>4, <2>1
  <1>5. CASE queue = <<>>
    <2>1. producer = "putting" /\ Line[1] = held
      BY <1>1, <1>2, <1>5 DEF Line
    <2>2. ~Full
      BY <1>5, BoundsAssumption DEF Full
    <2>3. QED
      BY <1>3, <1>5, <2>1, <2>2 DEF Inv, Tasks
  <1>6. QED
    BY <1>4, <1>5

\* Keep-alives never keep a chunk from the client (app.py:499-503): what Delivered needs
\* beside fairness.
THEOREM ChunksMoveOn == Spec => []NextIsAtHand /\ EveryTurnDelivers
  <1>1. ASSUME Inv, [Next]_vars, result = "none", queue # <<>>
        PROVE  /\ ConsumerStep /\ Unrelayed > 0 => relayed' = Append(relayed, Len(relayed) + 1)
               /\ consumer' = "waiting" => consumer = "waiting"
    <2>1. consumer \in {"waiting", "beating", "relaying"} /\ ~ProducerAwaited
      BY <1>1 DEF Inv, Tasks, ProducerAwaited
    <2>2. ASSUME Take, Unrelayed > 0 PROVE relayed' = Append(relayed, Len(relayed) + 1)
      <3>1. Head(queue) = Chunk(Len(relayed) + 1) /\ Len(relayed) \in Nat
        BY <1>1, <2>2, AtHand DEF NextIsAtHand, Inv, TypeOK
      <3>2. QED
        BY <2>2, <3>1, ChunkIsNoEnd DEF Take
    <2>3. Take => consumer' # "waiting"
      BY DEF Take, Leave
    <2>4. ConsumerStep => Take
      BY <1>1, <2>1 DEF ConsumerStep, Got, Beaten, Relayed, NextTurn
    <2>5. consumer' = "waiting" => consumer = "waiting"
      BY <1>1, <2>3, <2>4
      DEF Next, ProducerStep, Starts, PutResumes, ProducerCancelled, CloseFails, ChunkArrives,
          ChunksEnd, TimesOut, Leaves, Leave, vars
    <2>6. QED
      BY <2>2, <2>4, <2>5
  <1>2. Inv /\ [Next]_vars =>
            [result = "none" /\ queue # <<>> =>
                /\ ConsumerStep /\ Unrelayed > 0 => relayed' = Append(relayed, Len(relayed) + 1)
                /\ consumer' = "waiting" => consumer = "waiting"]_vars
    BY <1>1
  <1>3. Inv => NextIsAtHand
    BY AtHand
  <1>4. QED
    BY HandOverInvariant, <1>2, <1>3, PTL DEF Spec, EveryTurnDelivers

===========================================================================
