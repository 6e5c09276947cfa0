------------------------- MODULE PingPongLog_proofs -------------------------
(***************************************************************************)
(* The buffers of the planebone and the log that is built from two of them.*)
(* First what the operators of CircularBuffer do to indices and contents;  *)
(* then one buffer used by one thread, which implements DroppingQueue; then*)
(* the two threads of PingPongLog: cbRead never reads an empty buffer,     *)
(* cbWrite never overwrites, and each message is in exactly one place;     *)
(* with a prompt logging thread the log keeps the order of arrival and each*)
(* loss is paid for by a full buffer.                                      *)
(***************************************************************************)
EXTENDS PingPongLog, CircularQueue, SequenceTheorems, FiniteSetTheorems, TLAPS

(***************************************************************************)
(* Indices.  The modulo of the wrap-around is met only in WrapAround; every*)
(* other lemma reasons with its case distinction.                          *)
(***************************************************************************)

\* The index after the last slot is the first one (the "% cb->size" of
\* circular_buffer.c).
LEMMA WrapAround ==
    ASSUME NEW n \in Nat, NEW i \in 0..n
    PROVE  (i + 1) % (n + 1) = IF i = n THEN 0 ELSE i + 1
OBVIOUS

\* After stays inside the array.
LEMMA AfterInRange ==
    ASSUME NEW n \in Nat, NEW S, NEW b \in Buffer(n, S), NEW i \in 0..n
    PROVE  /\ After(b, i) = IF i = n THEN 0 ELSE i + 1
           /\ After(b, i) \in 0..n
BY WrapAround DEF After, Buffer

\* The statements of cbWrite and cbRead keep a buffer a buffer.
LEMMA OperationTypes ==
    ASSUME NEW n \in Nat, NEW S, NEW b \in Buffer(n, S), NEW e \in S
    PROVE  /\ cbStore(b, e) \in Buffer(n, S)
           /\ cbAdvanceEnd(b) \in Buffer(n, S)
           /\ cbAdvanceStart(b) \in Buffer(n, S)
           /\ cbDropOldest(b) \in Buffer(n, S)
           /\ cbOldest(b) \in S
<1>1. b.start \in 0..n /\ b.end \in 0..n
  BY DEF Buffer
<1>2. After(b, b.start) \in 0..n /\ After(b, b.end) \in 0..n
  BY <1>1, AfterInRange
<1>3. cbStore(b, e) \in Buffer(n, S)
  BY <1>1 DEF Buffer, cbStore
<1>4. cbAdvanceEnd(b) \in Buffer(n, S)
  BY <1>2 DEF Buffer, cbAdvanceEnd
<1>5. cbAdvanceStart(b) \in Buffer(n, S)
  BY <1>2 DEF Buffer, cbAdvanceStart
<1>6. cbDropOldest(b) \in Buffer(n, S)
  BY <1>5 DEF cbDropOldest, cbAdvanceStart
<1>7. cbOldest(b) \in S
  BY <1>1 DEF Buffer, cbOldest
<1> QED BY <1>3, <1>4, <1>5, <1>6, <1>7

-----------------------------------------------------------------------------
\* Full and empty exclude each other: the capacity is at least one.
LEMMA FullIsNotEmpty ==
    ASSUME NEW n \in Nat \ {0}, NEW S, NEW b \in Buffer(n, S),
           cbIsFull(b)
    PROVE  ~cbIsEmpty(b)
<1>1. b.end \in 0..n
  BY DEF Buffer
<1>2. After(b, b.end) # b.end
  BY <1>1, AfterInRange
<1> QED BY <1>2 DEF cbIsFull, cbIsEmpty

\* Copying an element into its slot moves neither index.
LEMMA StoreKeepsIndices ==
    ASSUME NEW n \in Nat, NEW S, NEW b \in Buffer(n, S), NEW e
    PROVE  /\ cbIsEmpty(cbStore(b, e)) <=> cbIsEmpty(b)
           /\ cbIsFull(cbStore(b, e)) <=> cbIsFull(b)
           /\ cbHasTwo(cbStore(b, e)) <=> cbHasTwo(b)
BY DEF Buffer, cbStore, cbIsEmpty, cbIsFull, cbHasTwo, After

\* The write index may advance over a free slot: the buffer is not empty
\* then, and holds two elements when it held one.
LEMMA AdvanceEndFills ==
    ASSUME NEW n \in Nat \ {0}, NEW S, NEW b \in Buffer(n, S),
           ~cbIsFull(b)
    PROVE  /\ ~cbIsEmpty(cbAdvanceEnd(b))
           /\ ~cbIsEmpty(b) => cbHasTwo(cbAdvanceEnd(b))
<1> DEFINE c == cbAdvanceEnd(b)
<1>1. /\ b.start \in 0..n /\ b.end \in 0..n /\ b.size = n + 1
      /\ c.start = b.start /\ c.end = After(b, b.end) /\ c.size = b.size
  BY DEF Buffer, cbAdvanceEnd
<1>2. c.end # c.start
  BY <1>1 DEF cbIsFull
<1>3. After(c, c.start) = After(b, b.start)
  BY <1>1 DEF After
<1>4. b.end # b.start => After(b, b.start) # After(b, b.end)
  BY <1>1, AfterInRange
<1> QED BY <1>1, <1>2, <1>3, <1>4 DEF cbIsEmpty, cbHasTwo

\* The read index may advance over an element: the buffer is not full then,
\* and is not empty when it held two elements.
LEMMA AdvanceStartFrees ==
    ASSUME NEW n \in Nat \ {0}, NEW S, NEW b \in Buffer(n, S),
           ~cbIsEmpty(b)
    PROVE  /\ ~cbIsFull(cbAdvanceStart(b))
           /\ cbHasTwo(b) => ~cbIsEmpty(cbAdvanceStart(b))
<1> DEFINE c == cbAdvanceStart(b)
<1>1. /\ b.start \in 0..n /\ b.end \in 0..n /\ b.size = n + 1
      /\ c.start = After(b, b.start) /\ c.end = b.end /\ c.size = b.size
  BY DEF Buffer, cbAdvanceStart
<1>2. After(c, c.end) = After(b, b.end)
  BY <1>1 DEF After
<1>3. After(b, b.start) # After(b, b.end)
  BY <1>1, AfterInRange DEF cbIsEmpty
<1> QED BY <1>1, <1>2, <1>3 DEF cbIsEmpty, cbIsFull, cbHasTwo

\* The overwriting branch of cbWrite does nothing to a non-empty buffer.
LEMMA NoOverwrite ==
    ASSUME NEW b, ~cbIsEmpty(b)
    PROVE  cbDropOldest(b) = b
BY DEF cbDropOldest, cbIsEmpty

-----------------------------------------------------------------------------
(***************************************************************************)
(* Contents: for every capacity and every set of elements each statement of*)
(* cbWrite and cbRead is a step of a queue on the buffer's content.        *)
(***************************************************************************)

\* The slots of a buffer in terms of the modulo-free index arithmetic.
LEMMA SlotInRange ==
    ASSUME NEW n \in Nat, NEW S, NEW b \in Buffer(n, S),
           NEW i \in 0..n
    PROVE  /\ Slot(b, i) \in 0..n
           /\ Slot(b, i) = IF b.start + i > n THEN b.start + i - n - 1
                                              ELSE b.start + i
BY DEF Slot, Buffer

\* The content is a sequence of at most n elements.
LEMMA ContentsType ==
    ASSUME NEW n \in Nat, NEW S, NEW b \in Buffer(n, S)
    PROVE  /\ cbCount(b) \in 0..n
           /\ cbContents(b) \in Seq(S)
           /\ Len(cbContents(b)) = cbCount(b)
           /\ \A i \in 1..cbCount(b) : cbContents(b)[i] = b.elems[Slot(b, i - 1)]
<1>1. cbCount(b) \in 0..n
  BY DEF cbCount, Buffer
<1>2. \A i \in 1..cbCount(b) : b.elems[Slot(b, i - 1)] \in S
  <2> SUFFICES ASSUME NEW i \in 1..cbCount(b)
               PROVE  b.elems[Slot(b, i - 1)] \in S
    OBVIOUS
  <2>1. i - 1 \in 0..n
    BY <1>1
  <2> QED BY <2>1, SlotInRange DEF Buffer
<1> QED BY <1>1, <1>2 DEF cbContents

\* cbIsEmpty and cbIsFull are exact.
LEMMA ExactLemma ==
    ASSUME NEW n \in Nat \ {0}, NEW S, NEW b \in Buffer(n, S)
    PROVE  /\ cbIsEmpty(b) <=> cbCount(b) = 0
           /\ cbIsFull(b) <=> cbCount(b) = n
<1>1. b.start \in 0..n /\ b.end \in 0..n /\ b.size = n + 1
  BY DEF Buffer
<1>2. After(b, b.end) = IF b.end = n THEN 0 ELSE b.end + 1
  BY <1>1, AfterInRange
<1> QED BY <1>1, <1>2 DEF cbIsEmpty, cbIsFull, cbCount

\* Reading is Head and Tail of the content.
LEMMA ReadContents ==
    ASSUME NEW n \in Nat \ {0}, NEW S, NEW b \in Buffer(n, S), ~cbIsEmpty(b)
    PROVE  /\ cbContents(b) # << >>
           /\ cbOldest(b) = Head(cbContents(b))
           /\ cbContents(cbAdvanceStart(b)) = Tail(cbContents(b))
<1> DEFINE c == cbAdvanceStart(b)
<1>1. /\ b.start \in 0..n /\ b.end \in 0..n /\ b.size = n + 1
      /\ c.start = After(b, b.start) /\ c.end = b.end /\ c.size = b.size
      /\ c.elems = b.elems
  BY DEF Buffer, cbAdvanceStart
<1>2. After(b, b.start) = IF b.start = n THEN 0 ELSE b.start + 1
  BY <1>1, AfterInRange
<1>3. c \in Buffer(n, S)
  BY <1>1, <1>2 DEF Buffer, cbAdvanceStart
<1>4. cbCount(b) \in 1..n /\ cbCount(c) = cbCount(b) - 1
  BY <1>1, <1>2 DEF cbIsEmpty, cbCount
<1>5. cbContents(b) # << >> /\ Len(cbContents(b)) = cbCount(b)
  BY <1>4, ContentsType
<1>6. cbOldest(b) = Head(cbContents(b))
  <2>1. Slot(b, 0) = b.start
    BY <1>1 DEF Slot
  <2> QED BY <2>1, <1>4, ContentsType DEF cbOldest
<1>7. \A i \in 1..cbCount(c) : cbContents(c)[i] = cbContents(b)[i + 1]
  <2> SUFFICES ASSUME NEW i \in 1..cbCount(c)
               PROVE  cbContents(c)[i] = cbContents(b)[i + 1]
    OBVIOUS
  <2>1. Slot(c, i - 1) = Slot(b, i)
    BY <1>1, <1>2, <1>4 DEF Slot
  <2>2. i + 1 \in 1..cbCount(b) /\ (i + 1) - 1 = i
    BY <1>4
  <2>3. cbContents(c)[i] = c.elems[Slot(c, i - 1)]
    BY <1>3, ContentsType
  <2>4. cbContents(b)[i + 1] = b.elems[Slot(b, i)]
    BY <2>2, ContentsType
  <2> QED BY <2>1, <2>3, <2>4, <1>1
<1>8. cbContents(c) = Tail(cbContents(b))
  <2>1. cbContents(c) \in Seq(S) /\ cbContents(b) \in Seq(S)
    BY <1>3, ContentsType
  <2>2. /\ Tail(cbContents(b)) \in Seq(S)
        /\ Len(Tail(cbContents(b))) = cbCount(b) - 1
        /\ \A i \in 1..(cbCount(b) - 1) :
               Tail(cbContents(b))[i] = cbContents(b)[i + 1]
    BY <2>1, <1>5, <1>4, HeadTailProperties
  <2>3. Len(cbContents(c)) = cbCount(c)
    BY <1>3, ContentsType
  <2> QED BY <2>1, <2>2, <2>3, <1>4, <1>7, SeqEqual
<1> QED BY <1>5, <1>6, <1>8

\* The content after one more element behind a buffer that was not full.
LEMMA AppendContents ==
    ASSUME NEW n \in Nat \ {0}, NEW S,
           NEW b \in Buffer(n, S), NEW c \in Buffer(n, S), NEW e \in S
    PROVE  /\ ~cbIsFull(b)
           /\ c.start = b.start
           /\ c.end = After(b, b.end)
           /\ c.elems = [b.elems EXCEPT ![b.end] = e]
           => cbContents(c) = Append(cbContents(b), e)
<1>a. SUFFICES ASSUME ~cbIsFull(b), c.start = b.start, c.end = After(b, b.end),
                      c.elems = [b.elems EXCEPT ![b.end] = e]
               PROVE  cbContents(c) = Append(cbContents(b), e)
  OBVIOUS
<1>b. c.elems = [b.elems EXCEPT ![b.end] = e]
  BY <1>a
<1>c. ~cbIsFull(b)
  BY <1>a
<1>1. /\ b.start \in 0..n /\ b.end \in 0..n /\ b.size = n + 1
      /\ c.size = n + 1 /\ c.start = b.start /\ c.end = After(b, b.end)
      /\ b.elems \in [0..n -> S]
  BY <1>a DEF Buffer
<1>2. /\ After(b, b.end) = IF b.end = n THEN 0 ELSE b.end + 1
      /\ After(b, b.end) # b.start
  <2>1. b.end \in 0..n
    BY <1>1
  <2>2. After(b, b.end) = IF b.end = n THEN 0 ELSE b.end + 1
    BY <2>1, AfterInRange
  <2> QED BY <2>2, <1>c DEF cbIsFull
<1>3. cbCount(b) \in 0..(n - 1) /\ cbCount(c) = cbCount(b) + 1
  <2>1. CASE b.end = n
    <3>1. c.end = 0 /\ b.start \in 1..n
      BY <2>1, <1>1, <1>2
    <3> QED BY <2>1, <3>1, <1>1 DEF cbCount
  <2>2. CASE b.end # n
    <3>1. c.end = b.end + 1 /\ b.start # b.end + 1
      BY <2>2, <1>1, <1>2
    <3> QED BY <2>2, <3>1, <1>1 DEF cbCount
  <2> QED BY <2>1, <2>2
<1>4. \A i \in 1..cbCount(c) : cbContents(c)[i] = c.elems[Slot(c, i - 1)]
  BY ContentsType
<1>5. \A i \in 1..cbCount(b) : cbContents(b)[i] = b.elems[Slot(b, i - 1)]
  BY ContentsType
<1>6. \A i \in 1..cbCount(b) : cbContents(c)[i] = cbContents(b)[i]
  <2> SUFFICES ASSUME NEW i \in 1..cbCount(b)
               PROVE  cbContents(c)[i] = cbContents(b)[i]
    OBVIOUS
  <2>1. Slot(c, i - 1) = Slot(b, i - 1)
    BY <1>1 DEF Slot
  <2>2. i - 1 \in 0..n /\ Slot(b, i - 1) \in 0..n
    BY <1>3, SlotInRange
  <2>3. Slot(b, i - 1) # b.end
    BY <1>1 DEF Slot, cbCount
  <2>4. c.elems[Slot(b, i - 1)] = b.elems[Slot(b, i - 1)]
    BY <2>2, <2>3, <1>1, <1>b
  <2>5. i \in 1..cbCount(c)
    BY <1>3
  <2> QED BY <2>1, <2>4, <2>5, <1>4, <1>5
<1>7. cbContents(c)[cbCount(c)] = e
  <2> DEFINE k == cbCount(b)
  <2>a. k \in 0..n /\ cbCount(c) - 1 = k
    BY <1>3
  <2>b. b.end = IF b.start + k > n THEN b.start + k - n - 1 ELSE b.start + k
    BY <1>1 DEF cbCount
  <2> HIDE DEF k
  <2>c. Slot(c, k) = IF c.start + k > n THEN c.start + k - n - 1 ELSE c.start + k
    BY <2>a, SlotInRange
  <2>1. Slot(c, cbCount(c) - 1) = b.end
    BY <1>1, <2>a, <2>b, <2>c
  <2>2. cbContents(c)[cbCount(c)] = c.elems[Slot(c, cbCount(c) - 1)]
    BY <1>3, <1>4
  <2> QED BY <2>1, <2>2, <1>1, <1>b
<1>8. /\ cbContents(b) \in Seq(S) /\ Len(cbContents(b)) = cbCount(b)
      /\ cbContents(c) \in Seq(S) /\ Len(cbContents(c)) = cbCount(c)
  BY ContentsType
<1>9. /\ Append(cbContents(b), e) \in Seq(S)
      /\ Len(Append(cbContents(b), e)) = cbCount(c)
      /\ \A i \in 1..cbCount(b) : Append(cbContents(b), e)[i] = cbContents(b)[i]
      /\ Append(cbContents(b), e)[cbCount(c)] = e
  BY <1>3, <1>8, AppendProperties
<1>10. \A i \in 1..cbCount(c) : cbContents(c)[i] = Append(cbContents(b), e)[i]
  BY <1>3, <1>6, <1>7, <1>9
<1> QED BY <1>8, <1>9, <1>10, SeqEqual

\* Writing into a buffer with a free slot is Append.
LEMMA WriteContents ==
    ASSUME NEW n \in Nat \ {0}, NEW S, NEW b \in Buffer(n, S), NEW e \in S,
           ~cbIsFull(b)
    PROVE  cbContents(cbWrite(b, e)) = Append(cbContents(b), e)
<1> DEFINE s == cbStore(b, e)
           d == cbAdvanceEnd(s)
<1>1. b.start \in 0..n /\ b.end \in 0..n /\ b.size = n + 1
  BY DEF Buffer
<1>2. After(b, b.end) # b.start
  BY DEF cbIsFull
<1>3. /\ s \in Buffer(n, S) /\ s.start = b.start /\ s.end = b.end
      /\ s.size = b.size /\ s.elems = [b.elems EXCEPT ![b.end] = e]
  BY <1>1, OperationTypes DEF cbStore, Buffer
<1>4. After(s, s.end) = After(b, b.end)
  BY <1>3 DEF After
<1>5. /\ d \in Buffer(n, S)
      /\ d.start = b.start /\ d.end = After(b, b.end)
      /\ d.elems = [b.elems EXCEPT ![b.end] = e]
  <2> HIDE DEF s
  <2>1. d \in Buffer(n, S)
    BY <1>3, OperationTypes
  <2> QED BY <1>1, <1>3, <1>4, <2>1 DEF cbAdvanceEnd, Buffer
<1>6. cbWrite(b, e) = d
  BY <1>2, <1>5, NoOverwrite DEF cbIsEmpty, cbWrite
<1> HIDE DEF d
<1> QED BY <1>5, <1>6, AppendContents

\* Writing into a full buffer is the same as first reading its oldest element.
LEMMA WriteFull ==
    ASSUME NEW n \in Nat \ {0}, NEW S, NEW b \in Buffer(n, S), NEW e \in S,
           cbIsFull(b)
    PROVE  cbWrite(b, e) = cbWrite(cbAdvanceStart(b), e)
<1>1. /\ b.start \in 0..n /\ b.end \in 0..n /\ b.size = n + 1
  BY DEF Buffer
<1>2. /\ After(b, b.end) = b.start
      /\ After(b, b.start) # b.start
      /\ After(b, b.start) = IF b.start = n THEN 0 ELSE b.start + 1
  BY <1>1, AfterInRange DEF cbIsFull
<1> QED
  BY <1>1, <1>2 DEF cbWrite, cbDropOldest, cbAdvanceEnd, cbAdvanceStart,
                    cbStore, After, Buffer

-----------------------------------------------------------------------------
\* Buffer and element keep their types whatever is written and read.
LEMMA QueueTypeCorrect == QueueSpec => []QueueTypeOK
<1> USE QueueAssumption DEF QueueTypeOK
<1>1. QueueInit => QueueTypeOK
  BY DEF QueueInit, Buffer, cbInit
<1>2. QueueTypeOK /\ [QueueNext]_queueVars => QueueTypeOK'
  BY OperationTypes DEF QueueNext, Write, Read, queueVars, cbWrite
<1> QED BY <1>1, <1>2, PTL DEF QueueSpec

\* cbIsFull and cbIsEmpty tell the truth in every reachable state.
THEOREM TestsAreExact == QueueSpec => []FullAndEmptyAreExact
<1>1. QueueTypeOK => FullAndEmptyAreExact
  <2> SUFFICES ASSUME QueueTypeOK PROVE FullAndEmptyAreExact
    OBVIOUS
  <2>1. Capacity \in Nat \ {0} /\ buffer \in Buffer(Capacity, Elem)
    BY QueueAssumption DEF QueueTypeOK
  <2>2. cbContents(buffer) \in Seq(Elem) /\ Len(cbContents(buffer)) = cbCount(buffer)
    BY <2>1, ContentsType
  <2>3. cbContents(buffer) = << >> <=> Len(cbContents(buffer)) = 0
    BY <2>2, EmptySeq
  <2> QED BY <2>1, <2>2, <2>3, ExactLemma DEF FullAndEmptyAreExact
<1> QED BY <1>1, QueueTypeCorrect, PTL

\* The circular buffer implements the queue.
THEOREM Refinement == QueueSpec => ImplementsQueue
<1> USE QueueAssumption
<1>1. QueueInit => Queue!Init
  <2> SUFFICES ASSUME QueueInit PROVE Queue!Init
    OBVIOUS
  <2>1. cbCount(buffer) = 0
    BY DEF QueueInit, cbInit, cbCount
  <2>2. cbContents(buffer) = << >>
    BY <2>1 DEF cbContents
  <2> QED BY <2>2 DEF QueueInit, Queue!Init
<1>2. QueueTypeOK /\ [QueueNext]_queueVars => [Queue!Next]_(Queue!qvars)
  <2> SUFFICES ASSUME QueueTypeOK, [QueueNext]_queueVars PROVE [Queue!Next]_(Queue!qvars)
    OBVIOUS
  <2>1. buffer \in Buffer(Capacity, Elem) /\ Capacity \in Nat \ {0}
    BY DEF QueueTypeOK
  <2>2. CASE Read
    <3>1. ~cbIsEmpty(buffer) /\ buffer' = cbAdvanceStart(buffer) /\ elem' = cbOldest(buffer)
      BY <2>2 DEF Read
    <3>2. /\ cbContents(buffer) # << >>
          /\ elem' = Head(cbContents(buffer))
          /\ cbContents(buffer') = Tail(cbContents(buffer))
      BY <3>1, <2>1, ReadContents
    <3> QED BY <3>2 DEF Queue!Next, Queue!Read, cbContents, cbCount, Slot
  <2>3. ASSUME NEW e \in Elem, Write(e)
        PROVE  [Queue!Next]_(Queue!qvars)
    <3>1. buffer' = cbWrite(buffer, e) /\ elem' = elem
      BY <2>3 DEF Write
    <3>2. cbContents(buffer') = Append(IF Len(cbContents(buffer)) = Capacity
                                   THEN Tail(cbContents(buffer))
                                   ELSE cbContents(buffer), e)
      <4>1. Len(cbContents(buffer)) = Capacity <=> cbIsFull(buffer)
        BY <2>1, ContentsType, ExactLemma
      <4>2. CASE ~cbIsFull(buffer)
        BY <4>1, <4>2, <3>1, <2>1, WriteContents
      <4>3. CASE cbIsFull(buffer)
        <5>1. ~cbIsEmpty(buffer)
          BY <4>3, <2>1, FullIsNotEmpty
        <5>2. /\ cbAdvanceStart(buffer) \in Buffer(Capacity, Elem)
              /\ ~cbIsFull(cbAdvanceStart(buffer))
          BY <5>1, <2>1, OperationTypes, AdvanceStartFrees
        <5>3. cbContents(cbAdvanceStart(buffer)) = Tail(cbContents(buffer))
          BY <5>1, <2>1, ReadContents
        <5> QED BY <5>2, <5>3, <4>1, <4>3, <3>1, <2>1, WriteFull, WriteContents
      <4> QED BY <4>2, <4>3
    <3>3. Queue!Write(e)
      BY <3>1, <3>2 DEF Queue!Write, cbContents, cbCount, Slot
    <3> QED BY <3>3 DEF Queue!Next
  <2>4. CASE UNCHANGED queueVars
    BY <2>4 DEF queueVars, Queue!qvars, cbContents, cbCount, Slot
  <2> QED BY <2>2, <2>3, <2>4 DEF QueueNext
<1> QED BY <1>1, <1>2, QueueTypeCorrect, PTL DEF QueueSpec, ImplementsQueue, Queue!Spec

-----------------------------------------------------------------------------
\* Every step of the two threads keeps the types, the indices in range among
\* them.
LEMMA TypeCorrect == Spec => []TypeOK
<1> USE LogAssumption DEF TypeOK, Buffers, Message
<1>1. Init => TypeOK
  BY DEF Init, Buffer, cbInit
<1>2. TypeOK /\ [Next]_vars => TypeOK'
  <2> SUFFICES ASSUME TypeOK, [Next]_vars PROVE TypeOK'
    OBVIOUS
  <2> USE DEF writerOnly, readerOnly
  <2>1. CASE Receive
    BY <2>1 DEF Receive
  <2>2. CASE CheckFull
    BY <2>2 DEF CheckFull
  <2>3. CASE StoreElem
    BY <2>3, OperationTypes DEF StoreElem
  <2>4. CASE AdvanceEnd
    BY <2>4, OperationTypes DEF AdvanceEnd
  <2>5. CASE CheckOverwrite
    BY <2>5, OperationTypes DEF CheckOverwrite
  <2>6. CASE CheckFlag
    BY <2>6 DEF CheckFlag
  <2>7. CASE SwapRead
    BY <2>7 DEF SwapRead
  <2>8. CASE SwapWrite
    BY <2>8 DEF SwapWrite
  <2>9. CASE CheckEmpty
    BY <2>9 DEF CheckEmpty
  <2>10. CASE RaiseFlag
    BY <2>10 DEF RaiseFlag
  <2>11. CASE LowerFlag
    BY <2>11 DEF LowerFlag
  <2>12. CASE CallRead
    BY <2>12 DEF CallRead
  <2>13. CASE CopyElem
    BY <2>13, OperationTypes DEF CopyElem
  <2>14. CASE AdvanceStart
    BY <2>14, OperationTypes DEF AdvanceStart
  <2>15. CASE WriteLog
    BY <2>15 DEF WriteLog
  <2>16. CASE UNCHANGED vars
    BY <2>16 DEF vars
  <2> QED
    BY <2>1, <2>2, <2>3, <2>4, <2>5, <2>6, <2>7, <2>8, <2>9, <2>10, <2>11,
       <2>12, <2>13, <2>14, <2>15, <2>16 DEF Next, Writer, Reader
<1> QED BY <1>1, <1>2, PTL DEF Spec

-----------------------------------------------------------------------------
\* LogInv is inductive: one step per action.  An action that leaves the
\* buffers alone needs only the definitions; the three that do not need the
\* lemmas about the buffer operators.
LEMMA LogInvInductive == Spec => []LogInv
<1> USE LogAssumption
<1> USE DEF PointersInv, FlagInv, WriterInv, SwapInv, ReadNonEmpty, Reading
<1>1. Init => LogInv
  <2> SUFFICES ASSUME Init PROVE LogInv
    OBVIOUS
  <2>1. TypeOK
    BY DEF Init, TypeOK, Buffers, Message, Buffer, cbInit
  <2> QED BY <2>1 DEF Init, LogInv
<1>2. LogInv /\ TypeOK' /\ [Next]_vars => LogInv'
  <2> SUFFICES ASSUME LogInv, TypeOK', [Next]_vars PROVE LogInv'
    OBVIOUS
  <2> USE DEF LogInv, writerOnly, readerOnly
  <2>1. /\ cb \in [Buffers -> Buffer(CBSIZE, Message)]
        /\ cb_read \in Buffers /\ cb_write \in Buffers /\ cur \in Buffers
        /\ temp \in Buffers
        /\ reading_flag \in {0, 1}
    BY DEF TypeOK
  <2>2. /\ cb[cb_read] \in Buffer(CBSIZE, Message)
        /\ cb[cb_write] \in Buffer(CBSIZE, Message)
        /\ cb[cur] \in Buffer(CBSIZE, Message)
    BY <2>1
  <2>3. CASE Receive
    BY <2>3 DEF Receive
  <2>4. CASE CheckFull
    BY <2>4, <2>2, FullIsNotEmpty DEF CheckFull
  <2>5. CASE StoreElem
    <3>1. cb' = [cb EXCEPT ![cb_write] = cbStore(cb[cb_write], received)]
      BY <2>5 DEF StoreElem
    <3>2. \A b \in Buffers : /\ cbIsEmpty(cb'[b]) <=> cbIsEmpty(cb[b])
                             /\ cbIsFull(cb'[b]) <=> cbIsFull(cb[b])
      BY <3>1, <2>1, <2>2, StoreKeepsIndices
    <3> QED BY <2>5, <3>2, <2>1 DEF StoreElem
  <2>6. CASE AdvanceEnd
    <3>1. cb' = [cb EXCEPT ![cb_write] = cbAdvanceEnd(cb[cb_write])]
      BY <2>6 DEF AdvanceEnd
    <3>2. ~cbIsFull(cb[cb_write])
      BY <2>6 DEF AdvanceEnd
    <3>3. /\ ~cbIsEmpty(cb'[cb_write])
          /\ ~cbIsEmpty(cb[cb_write]) => cbHasTwo(cb'[cb_write])
      BY <3>1, <3>2, <2>1, <2>2, AdvanceEndFills
    <3>4. \A b \in Buffers \ {cb_write} : cb'[b] = cb[b]
      BY <3>1, <2>1
    <3> QED BY <2>6, <3>3, <3>4, <2>1 DEF AdvanceEnd
  <2>7. CASE CheckOverwrite
    <3>1. cb' = cb
      BY <2>7, <2>1, <2>2, NoOverwrite DEF CheckOverwrite
    <3> QED BY <2>7, <3>1 DEF CheckOverwrite
  <2>8. CASE CheckFlag
    BY <2>8, <2>1 DEF CheckFlag
  <2>9. CASE SwapRead
    BY <2>9 DEF SwapRead
  <2>10. CASE SwapWrite
    BY <2>10 DEF SwapWrite
  <2>11. CASE CheckEmpty
    BY <2>11 DEF CheckEmpty
  <2>12. CASE RaiseFlag
    BY <2>12 DEF RaiseFlag
  <2>13. CASE LowerFlag
    BY <2>13 DEF LowerFlag
  <2>14. CASE CallRead
    BY <2>14 DEF CallRead
  <2>15. CASE CopyElem
    BY <2>15 DEF CopyElem
  <2>16. CASE AdvanceStart
    <3>1. cb' = [cb EXCEPT ![cur] = cbAdvanceStart(cb[cur])]
      BY <2>16 DEF AdvanceStart
    <3>2. ~cbIsEmpty(cb[cur])
      BY <2>16 DEF AdvanceStart
    <3>3. /\ ~cbIsFull(cb'[cur])
          /\ cbHasTwo(cb[cur]) => ~cbIsEmpty(cb'[cur])
      BY <3>1, <3>2, <2>1, <2>2, AdvanceStartFrees
    <3>4. \A b \in Buffers \ {cur} : cb'[b] = cb[b]
      BY <3>1, <2>1
    <3> QED BY <2>16, <3>3, <3>4, <2>1 DEF AdvanceStart
  <2>17. CASE WriteLog
    BY <2>17 DEF WriteLog
  <2>18. CASE UNCHANGED vars
    BY <2>18 DEF vars, TypeOK
  <2> QED
    BY <2>3, <2>4, <2>5, <2>6, <2>7, <2>8, <2>9, <2>10, <2>11, <2>12, <2>13,
       <2>14, <2>15, <2>16, <2>17, <2>18 DEF Next, Writer, Reader
<1> QED BY <1>1, <1>2, TypeCorrect, PTL DEF Spec

\* The logging thread never takes an element out of an empty buffer.
THEOREM NeverReadsEmpty == Spec => []ReadNonEmpty
<1>1. LogInv => ReadNonEmpty
  BY DEF LogInv
<1> QED BY <1>1, LogInvInductive, PTL

\* The communication thread never overwrites an element that is not logged.
THEOREM WriteNeverOverwrites == Spec => []NeverOverwrites
<1>1. LogInv => NeverOverwrites
  BY DEF LogInv, WriterInv, NeverOverwrites
<1> QED BY <1>1, LogInvInductive, PTL
-----------------------------------------------------------------------------
(* Every message once.  First what appending and taking do to the elements *)
(* of a sequence, and what the statements of cbWrite do to a content.      *)

Elems(s) == {s[i] : i \in 1..Len(s)}

LEMMA AppendElems ==
    ASSUME NEW S, NEW s \in Seq(S), NEW e \in S
    PROVE  /\ Elems(Append(s, e)) = Elems(s) \cup {e}
           /\ Distinct(s) /\ e \notin Elems(s) => Distinct(Append(s, e))
<1> DEFINE t == Append(s, e)
<1>1. /\ Len(s) \in Nat /\ Len(t) = Len(s) + 1 /\ t[Len(s) + 1] = e
      /\ \A i \in 1..Len(s) : t[i] = s[i]
  OBVIOUS
<1> HIDE DEF t
<1>2. \A i \in 1..Len(t) : i \in 1..Len(s) \/ i = Len(s) + 1
  BY <1>1
<1>3. Elems(t) = Elems(s) \cup {e}
  <2>1. 1..Len(s) \subseteq 1..Len(t) /\ Len(s) + 1 \in 1..Len(t)
    BY <1>1
  <2> QED BY <1>1, <1>2, <2>1 DEF Elems
<1>4. Distinct(s) /\ e \notin Elems(s) => Distinct(t)
  BY <1>1, <1>2 DEF Distinct, Elems
<1> QED BY <1>3, <1>4 DEF t

LEMMA TailElems ==
    ASSUME NEW S, NEW s \in Seq(S), s # << >>
    PROVE  /\ Head(s) \in Elems(s) /\ Elems(Tail(s)) \subseteq Elems(s)
           /\ Distinct(s) => /\ Distinct(Tail(s))
                             /\ Elems(Tail(s)) = Elems(s) \ {Head(s)}
<1> DEFINE t == Tail(s)
           h == Head(s)
<1>1. /\ Len(s) \in Nat \ {0} /\ Len(t) = Len(s) - 1 /\ h = s[1]
      /\ \A i \in 1..(Len(s) - 1) : t[i] = s[i + 1]
  BY HeadTailProperties, EmptySeq
<1> HIDE DEF t, h
<1>2. h \in Elems(s)
  BY <1>1 DEF Elems
<1>3. \A i \in 1..Len(t) : i + 1 \in 1..Len(s) /\ t[i] = s[i + 1]
  BY <1>1
<1>4. Elems(t) \subseteq Elems(s)
  BY <1>3 DEF Elems
<1>5. ASSUME Distinct(s) PROVE Distinct(t) /\ Elems(t) = Elems(s) \ {h}
  <2>1. Distinct(t)
    BY <1>1, <1>3, <1>5 DEF Distinct
  <2>2. h \notin Elems(t)
    <3> SUFFICES ASSUME NEW i \in 1..Len(t), t[i] = h PROVE FALSE
      BY DEF Elems
    <3>1. i + 1 \in 1..Len(s) /\ 1 \in 1..Len(s) /\ i + 1 # 1 /\ s[i + 1] = s[1]
      BY <1>1, <1>3
    <3> QED BY <3>1, <1>5 DEF Distinct
  <2>3. ASSUME NEW x \in Elems(s), x # h PROVE x \in Elems(t)
    <3>1. PICK k \in 1..Len(s) : x = s[k]
      BY DEF Elems
    <3>2. k - 1 \in 1..Len(t) /\ t[k - 1] = s[(k - 1) + 1] /\ (k - 1) + 1 = k
      BY <1>1, <2>3, <3>1
    <3> QED BY <3>1, <3>2 DEF Elems
  <2> QED BY <2>1, <2>2, <2>3, <1>4
<1> QED BY <1>2, <1>4, <1>5 DEF t, h

\* The slot at the end is the open one: storing there changes no content.
LEMMA StoreContents ==
    ASSUME NEW n \in Nat, NEW S, NEW b \in Buffer(n, S), NEW e \in S
    PROVE  cbContents(cbStore(b, e)) = cbContents(b)
<1> DEFINE c == cbStore(b, e)
<1>1. /\ b.start \in 0..n /\ b.end \in 0..n /\ b.size = n + 1
      /\ b.elems \in [0..n -> S]
      /\ c.start = b.start /\ c.end = b.end /\ c.size = b.size
      /\ c.elems = [b.elems EXCEPT ![b.end] = e]
  BY DEF Buffer, cbStore
<1>2. cbCount(c) = cbCount(b)
  BY <1>1 DEF cbCount
<1>3. ASSUME NEW i \in 1..cbCount(b)
      PROVE  c.elems[Slot(c, i - 1)] = b.elems[Slot(b, i - 1)]
  <2>1. cbCount(b) \in 0..n
    BY ContentsType
  <2>2. Slot(c, i - 1) = Slot(b, i - 1)
    BY <1>1 DEF Slot
  <2>3. Slot(b, i - 1) \in 0..n /\ Slot(b, i - 1) # b.end
    BY <1>1, <2>1, SMTT(30) DEF Slot, cbCount
  <2> QED BY <1>1, <2>2, <2>3
<1> HIDE DEF c
<1>4. cbContents(c) = cbContents(b)
  BY <1>2, <1>3 DEF cbContents
<1> QED BY <1>4 DEF c

\* Counting the slot at the end appends what is in it.
LEMMA AdvanceEndContents ==
    ASSUME NEW n \in Nat \ {0}, NEW S, NEW b \in Buffer(n, S), ~cbIsFull(b)
    PROVE  cbContents(cbAdvanceEnd(b)) = Append(cbContents(b), b.elems[b.end])
<1> DEFINE c == cbAdvanceEnd(b)
           e == b.elems[b.end]
<1>1. b.end \in 0..n /\ b.elems \in [0..n -> S]
  BY DEF Buffer
<1>2. e \in S /\ b.elems = [b.elems EXCEPT ![b.end] = e]
  BY <1>1
<1>3. c \in Buffer(n, S)
  BY <1>2, OperationTypes
<1>4. c.start = b.start /\ c.end = After(b, b.end) /\ c.elems = b.elems
  BY DEF cbAdvanceEnd, Buffer
<1> HIDE DEF c, e
<1>5. cbContents(c) = Append(cbContents(b), e)
  BY <1>2, <1>3, <1>4, AppendContents
<1> QED BY <1>5 DEF c, e

\* What a buffer holds, as the elements of its content.
LEMMA HeldIsContents ==
    ASSUME TypeOK, NEW b \in Buffers
    PROVE  /\ cb[b] \in Buffer(CBSIZE, Message)
           /\ cbContents(cb[b]) \in Seq(Message)
           /\ Held(b) = Elems(cbContents(cb[b]))
<1>1. cb[b] \in Buffer(CBSIZE, Message) /\ CBSIZE \in Nat \ {0}
  BY LogAssumption DEF TypeOK
<1>2. /\ cbContents(cb[b]) \in Seq(Message)
      /\ Len(cbContents(cb[b])) = cbCount(cb[b])
  BY <1>1, ContentsType
<1> QED BY <1>1, <1>2 DEF Held, Elems

LEMMA PlacesAre ==
    /\ Places[1] = WriterHolds /\ Places[2] = dropped
    /\ Places[3] = Held("ping") /\ Places[4] = Held("pong")
    /\ Places[5] = ReaderHolds /\ Places[6] = Logged
BY DEF Places

\* The number of a buffer's place.
Place(b) == IF b = "ping" THEN 3 ELSE 4

\* A step that moves no message keeps each in its place.
LEMMA Unmoved ==
    ASSUME EveryMessageOnce, UNCHANGED <<received, log, dropped>>,
           WriterHolds' = WriterHolds, ReaderHolds' = ReaderHolds,
           \A b \in Buffers : cbContents(cb[b])' = cbContents(cb[b]),
           TypeOK, TypeOK'
    PROVE  EveryMessageOnce'
<1>1. \A b \in Buffers : Held(b)' = Held(b)
  <2> SUFFICES ASSUME NEW b \in Buffers PROVE Held(b)' = Held(b)
    OBVIOUS
  <2>1. Held(b) = Elems(cbContents(cb[b]))
    BY HeldIsContents
  <2>2. cb'[b] \in Buffer(CBSIZE, Message) /\ CBSIZE \in Nat
    BY LogAssumption DEF TypeOK
  <2>3. cbCount(cb'[b]) = Len(cbContents(cb'[b]))
    BY <2>2, ContentsType
  <2>4. Held(b)' = Elems(cbContents(cb'[b]))
    BY <2>3 DEF Held, Elems
  <2> QED BY <2>1, <2>4
<1>2. Held("ping")' = Held("ping") /\ Held("pong")' = Held("pong")
  BY <1>1 DEF Buffers
<1>3. Logged' = Logged
  BY DEF Logged
<1>4. Places' = Places
  BY <1>2, <1>3 DEF Places
<1> HIDE DEF Places
<1> QED BY <1>3, <1>4 DEF EveryMessageOnce

\* A step that moves the messages X from one place to another ...
Moves(a, b, X) ==
    /\ X \subseteq Places[a]
    /\ Places'[a] = Places[a] \ X
    /\ Places'[b] = Places[b] \cup X
    /\ \A i \in 1..6 : i # a /\ i # b => Places'[i] = Places[i]

\* ... keeps the places disjoint and complete.
LEMMA MovedOnce ==
    ASSUME EveryMessageOnce, received' = received,
           Len(log') = Cardinality(Logged'),
           NEW a \in 1..6, NEW b \in 1..6, a # b, NEW X, Moves(a, b, X)
    PROVE  EveryMessageOnce'
<1> DEFINE p == Places
           q == Places'
<1>a. /\ UNION {p[i] : i \in 1..6} = 1..received
      /\ \A i, j \in 1..6 : i # j => p[i] \cap p[j] = {}
  BY DEF EveryMessageOnce
<1>b. /\ X \subseteq p[a] /\ q[a] = p[a] \ X /\ q[b] = p[b] \cup X
      /\ \A i \in 1..6 : i # a /\ i # b => q[i] = p[i]
  BY DEF Moves
<1> HIDE DEF p, q
<1>1. ASSUME NEW i \in 1..6, NEW x, x \in q[i]
      PROVE  IF x \in X THEN i = b ELSE x \in p[i]
  <2>1. CASE i = a
    BY <1>1, <2>1, <1>a, <1>b, Zenon
  <2>2. CASE i = b
    BY <1>1, <2>2, <1>a, <1>b, Zenon
  <2>3. CASE i # a /\ i # b
    <3>1. q[i] = p[i]
      BY <2>3, <1>a, <1>b, Zenon
    <3>2. x \notin X
      BY <1>1, <2>3, <3>1, <1>a, <1>b, Zenon
    <3> QED BY <1>1, <3>1, <3>2, <1>a, <1>b, Zenon
  <2> QED BY <2>1, <2>2, <2>3
<1>2. ASSUME NEW i \in 1..6, NEW x, x \in p[i]
      PROVE  \E j \in 1..6 : x \in q[j]
  <2>1. CASE x \in X
    BY <2>1, <1>a, <1>b, Zenon
  <2>2. CASE x \notin X
    <3>1. CASE i = a
      BY <1>2, <2>2, <3>1, <1>a, <1>b, Zenon
    <3>2. CASE i = b
      BY <1>2, <3>2, <1>a, <1>b, Zenon
    <3>3. CASE i # a /\ i # b
      <4>1. q[i] = p[i]
        BY <3>3, <1>a, <1>b, Zenon
      <4> QED BY <1>2, <4>1, <1>a, <1>b, Zenon
    <3> QED BY <3>1, <3>2, <3>3
  <2> QED BY <2>1, <2>2
<1>3. ASSUME NEW i \in 1..6, NEW j \in 1..6, i # j
      PROVE  q[i] \cap q[j] = {}
  <2> SUFFICES ASSUME NEW x, x \in q[i], x \in q[j] PROVE FALSE
    BY Zenon
  <2>1. CASE x \in X
    BY <1>1, <1>3, <2>1, <1>a, <1>b, Zenon
  <2>2. CASE x \notin X
    <3>1. x \in p[i] /\ x \in p[j]
      BY <1>1, <2>2, <1>a, <1>b, Zenon
    <3> QED BY <1>3, <3>1, <1>a, <1>b, Zenon
  <2> QED BY <2>1, <2>2
<1>4. ASSUME NEW x
      PROVE  x \in UNION {q[i] : i \in 1..6} <=> x \in UNION {p[i] : i \in 1..6}
  <2>1. ASSUME NEW i \in 1..6, x \in q[i] PROVE \E j \in 1..6 : x \in p[j]
    BY <1>1, <2>1, <1>a, <1>b, Zenon
  <2>2. (\E i \in 1..6 : x \in q[i]) <=> (\E i \in 1..6 : x \in p[i])
    BY <1>2, <2>1, <1>a, <1>b, Zenon
  <2>3. x \in UNION {q[i] : i \in 1..6} <=> \E i \in 1..6 : x \in q[i]
    OBVIOUS
  <2>4. x \in UNION {p[i] : i \in 1..6} <=> \E i \in 1..6 : x \in p[i]
    OBVIOUS
  <2> QED BY <2>2, <2>3, <2>4, Zenon
<1>5. UNION {q[i] : i \in 1..6} = UNION {p[i] : i \in 1..6}
  BY <1>4, Zenon
<1>6. UNION {q[i] : i \in 1..6} = 1..received'
  BY <1>a, <1>5
<1> QED BY <1>3, <1>6 DEF q, EveryMessageOnce

\* The length of a log that nothing is written to.
LEMMA SameLog ==
    ASSUME EveryMessageOnce, log' = log PROVE Len(log') = Cardinality(Logged')
<1>1. Logged' = Logged
  BY DEF Logged
<1> QED BY <1>1 DEF EveryMessageOnce

\* Held after a step, as HeldIsContents says of the state before it.
LEMMA HeldAfter ==
    ASSUME TypeOK', NEW b \in Buffers
    PROVE  Held(b)' = Elems(cbContents(cb'[b]))
<1>1. cb'[b] \in Buffer(CBSIZE, Message) /\ CBSIZE \in Nat
  BY LogAssumption DEF TypeOK
<1>2. cbCount(cb'[b]) = Len(cbContents(cb'[b]))
  BY <1>1, ContentsType
<1> QED BY <1>2 DEF Held, Elems

\* Everything in a place has been received.
LEMMA PlacesReceived ==
    ASSUME EveryMessageOnce, NEW i \in 1..6
    PROVE  Places[i] \subseteq 1..received
BY DEF EveryMessageOnce

\* The index of the writer passes a message from its hand to its buffer.
LEMMA AdvanceEndMoves ==
    ASSUME LogInv, HandInv, TypeOK', AdvanceEnd, NEW w \in Buffers, w = cb_write
    PROVE  /\ cbContents(cb'[w]) = Append(cbContents(cb[w]), received)
           /\ Held(w)' = Held(w) \cup {received}
           /\ cb'[w].elems = cb[w].elems
           /\ cb'[w].start = cb[w].start
           /\ \A b \in Buffers \ {w} :
                  cb'[b] = cb[b] /\ Held(b)' = Held(b)
<1>1. /\ TypeOK /\ w = cb_write /\ received \in Message
      /\ cb \in [Buffers -> Buffer(CBSIZE, Message)]
      /\ ~cbIsFull(cb[w]) /\ CBSIZE \in Nat \ {0}
  BY LogAssumption DEF LogInv, TypeOK, WriterInv, AdvanceEnd
<1>2. /\ cb' = [cb EXCEPT ![w] = cbAdvanceEnd(cb[w])]
      /\ cb[w].elems[cb[w].end] = received
  BY DEF AdvanceEnd, HandInv
<1>3. cb'[w] = cbAdvanceEnd(cb[w]) /\ cb[w] \in Buffer(CBSIZE, Message)
  BY <1>1, <1>2
<1>4. cbContents(cb'[w]) = Append(cbContents(cb[w]), received)
  BY <1>1, <1>2, <1>3, AdvanceEndContents
<1>5. /\ cb'[w].elems = cb[w].elems
      /\ cb'[w].start = cb[w].start
  BY <1>3 DEF cbAdvanceEnd, Buffer
<1>6. Held(w)' = Held(w) \cup {received}
  <2>1. /\ cbContents(cb[w]) \in Seq(Message)
        /\ Held(w) = Elems(cbContents(cb[w]))
    BY <1>1, HeldIsContents
  <2>2. Held(w)' = Elems(cbContents(cb'[w]))
    BY <1>1, HeldAfter
  <2> QED BY <1>1, <1>4, <2>1, <2>2, AppendElems
<1>7. \A b \in Buffers \ {w} : cb'[b] = cb[b] /\ Held(b)' = Held(b)
  BY <1>1, <1>2 DEF Held
<1> QED BY <1>4, <1>5, <1>6, <1>7

\* The index of the reader passes a message from its buffer to its hand.
LEMMA AdvanceStartMoves ==
    ASSUME LogInv, HandInv, TypeOK', AdvanceStart, NEW r \in Buffers, r = cur
    PROVE  /\ cbContents(cb[r]) \in Seq(Message) /\ cbContents(cb[r]) # << >>
           /\ cb_elem = Head(cbContents(cb[r]))
           /\ cbContents(cb'[r]) = Tail(cbContents(cb[r]))
           /\ cb_elem \in Held(r) /\ Held(r)' = Held(r) \ {cb_elem}
           /\ cb'[r].elems = cb[r].elems /\ cb'[r].end = cb[r].end
           /\ \A b \in Buffers \ {r} : cb'[b] = cb[b] /\ Held(b)' = Held(b)
<1>1. /\ TypeOK /\ r = cur
      /\ cb \in [Buffers -> Buffer(CBSIZE, Message)]
      /\ ~cbIsEmpty(cb[r]) /\ CBSIZE \in Nat \ {0}
  BY LogAssumption DEF LogInv, TypeOK, ReadNonEmpty, AdvanceStart
<1>2. /\ cb' = [cb EXCEPT ![r] = cbAdvanceStart(cb[r])]
      /\ cb_elem = cbOldest(cb[r]) /\ Distinct(cbContents(cb[r]))
  BY <1>1 DEF AdvanceStart, HandInv
<1>3. cb'[r] = cbAdvanceStart(cb[r]) /\ cb[r] \in Buffer(CBSIZE, Message)
  BY <1>1, <1>2
<1>4. /\ cbContents(cb[r]) # << >>
      /\ cb_elem = Head(cbContents(cb[r]))
      /\ cbContents(cb'[r]) = Tail(cbContents(cb[r]))
  BY <1>1, <1>2, <1>3, ReadContents
<1>5. cb'[r].elems = cb[r].elems /\ cb'[r].end = cb[r].end
  BY <1>3 DEF cbAdvanceStart, Buffer
<1>6. /\ cbContents(cb[r]) \in Seq(Message)
      /\ Held(r) = Elems(cbContents(cb[r]))
  BY <1>1, HeldIsContents
<1>7. Held(r)' = Elems(cbContents(cb'[r]))
  BY <1>1, HeldAfter
<1>8. cb_elem \in Held(r) /\ Held(r)' = Held(r) \ {cb_elem}
  BY <1>2, <1>4, <1>6, <1>7, TailElems
<1>9. \A b \in Buffers \ {r} : cb'[b] = cb[b] /\ Held(b)' = Held(b)
  BY <1>1, <1>2 DEF Held
<1> QED BY <1>4, <1>5, <1>6, <1>8, <1>9

\* Where a message of the reader's hand or log comes from.
LEMMA LogOne ==
    ASSUME TypeOK, EveryMessageOnce, cb_elem \notin Logged,
           log' = Append(log, cb_elem)
    PROVE  Logged' = Logged \cup {cb_elem} /\ Len(log') = Cardinality(Logged')
<1>1. log \in Seq(Message) /\ cb_elem \in Message
  BY DEF TypeOK
<1>2. /\ Len(log) \in Nat /\ Len(log') = Len(log) + 1
      /\ Logged = Elems(log) /\ Logged' = Elems(log')
  BY <1>1 DEF Logged, Elems
<1>3. Logged' = Logged \cup {cb_elem}
  BY <1>1, <1>2, AppendElems
<1>4. IsFiniteSet(Logged)
  <2>1. Logged \subseteq Message
    BY <1>1 DEF Logged
  <2>2. IsFiniteSet(0..MaxMessages)
    BY FS_Interval, LogAssumption
  <2>3. IsFiniteSet(Message)
    BY <2>2 DEF Message
  <2> QED BY <2>1, <2>3, FS_Subset
<1>5. Cardinality(Logged') = Cardinality(Logged) + 1
  BY <1>3, <1>4, FS_AddElement
<1> QED BY <1>2, <1>3, <1>5 DEF EveryMessageOnce

\* Every step but the three that change a buffer keeps what the two threads
\* know of the message in their hands.
LEMMA HandsKept ==
    ASSUME HandInv, UNCHANGED <<cb, cb_write, received, cur, cb_elem>>,
           wpc' = "end" => wpc = "end", rpc' = "start" => rpc = "start"
    PROVE  HandInv'
BY DEF HandInv

LEMMA NextOnce ==
    LogInv /\ TypeOK' /\ HandInv /\ EveryMessageOnce /\ [Next]_vars
        => HandInv' /\ EveryMessageOnce'
<1> SUFFICES ASSUME LogInv, TypeOK', HandInv, EveryMessageOnce, [Next]_vars
             PROVE  HandInv' /\ EveryMessageOnce'
  OBVIOUS
<1> USE DEF writerOnly, readerOnly
<1>1. /\ TypeOK /\ CBSIZE \in Nat \ {0}
      /\ cb \in [Buffers -> Buffer(CBSIZE, Message)]
      /\ received \in Message /\ cb_elem \in Message
      /\ cb_write \in Buffers /\ cur \in Buffers
  BY LogAssumption DEF LogInv, TypeOK
<1>2. \A i \in 1..6 : Places[i] \subseteq 1..received
  BY PlacesReceived
<1>3. ASSUME UNCHANGED <<cb, cb_write, received, cur, cb_elem, log, dropped>>,
             wpc' = "end" => wpc = "end", rpc' = "start" => rpc = "start",
             WriterHolds' = WriterHolds, ReaderHolds' = ReaderHolds
      PROVE  HandInv' /\ EveryMessageOnce'
  BY <1>1, <1>3, HandsKept, Unmoved
<1>4. CASE Receive
  <2>1. /\ wpc = "receive" /\ received' = received + 1 /\ wpc' = "full?"
        /\ UNCHANGED <<writerOnly, cb, cb_write, temp, dropped>>
    BY <1>4 DEF Receive
  <2>2. WriterHolds = {} /\ WriterHolds' = {received'} /\ ReaderHolds' = ReaderHolds
    BY <2>1 DEF WriterHolds, ReaderHolds
  <2>3. HandInv'
    BY <2>1 DEF HandInv
  <2>4. Held("ping")' = Held("ping") /\ Held("pong")' = Held("pong") /\ Logged' = Logged
    BY <2>1 DEF Held, Logged
  <2>5. /\ Places[1] = {} /\ Places'[1] = {received + 1}
        /\ \A i \in 2..6 : Places'[i] = Places[i]
    BY <2>1, <2>2, <2>4 DEF Places
  <2>6. received \in Nat /\ received + 1 \notin 1..received
        /\ 1..received' = 1..received \cup {received + 1}
    BY <1>1, <2>1, LogAssumption DEF Message
  <2> HIDE DEF Places
  <2>7. \A i \in 2..6 : received + 1 \notin Places[i]
    BY <1>2, <2>6
  <2>8. \A i, j \in 1..6 : i # j => Places'[i] \cap Places'[j] = {}
    <3> SUFFICES ASSUME NEW i \in 1..6, NEW j \in 1..6, i # j
                 PROVE  Places'[i] \cap Places'[j] = {}
      OBVIOUS
    <3>1. CASE i = 1
      BY <2>5, <2>7, <3>1
    <3>2. CASE j = 1
      BY <2>5, <2>7, <3>2
    <3>3. CASE i # 1 /\ j # 1
      <4>1. Places'[i] = Places[i] /\ Places'[j] = Places[j]
        BY <2>5, <3>3
      <4> QED BY <4>1 DEF EveryMessageOnce
    <3> QED BY <3>1, <3>2, <3>3
  <2>9. UNION {Places'[i] : i \in 1..6} = 1..received'
    <3>1. UNION {Places[i] : i \in 1..6} = 1..received
      BY DEF EveryMessageOnce
    <3>2. ASSUME NEW x \in 1..received' PROVE \E i \in 1..6 : x \in Places'[i]
      <4>1. CASE x = received + 1
        BY <2>5, <4>1
      <4>2. CASE x # received + 1
        <5>1. x \in 1..received
          BY <2>6, <4>2
        <5>2. PICK i \in 1..6 : x \in Places[i]
          BY <3>1, <5>1
        <5>3. i \in 2..6
          BY <2>5, <5>2
        <5> QED BY <2>5, <5>2, <5>3
      <4> QED BY <4>1, <4>2
    <3>3. ASSUME NEW i \in 1..6 PROVE Places'[i] \subseteq 1..received'
      <4>1. CASE i = 1
        BY <2>5, <2>6, <4>1
      <4>2. CASE i # 1
        BY <1>2, <2>5, <2>6, <4>2
      <4> QED BY <4>1, <4>2
    <3> QED BY <3>2, <3>3
  <2>10. Len(log') = Cardinality(Logged')
    BY <2>1, <2>4 DEF EveryMessageOnce
  <2> QED BY <2>3, <2>8, <2>9, <2>10 DEF EveryMessageOnce
<1>5. CASE CheckFull
  <2>1. WriterHolds' = WriterHolds /\ ReaderHolds' = ReaderHolds
    BY <1>5 DEF CheckFull, WriterHolds, ReaderHolds
  <2> QED BY <1>3, <1>5, <2>1 DEF CheckFull
<1>6. CASE StoreElem
  <2>1. /\ wpc = "store" /\ wpc' = "end"
        /\ cb' = [cb EXCEPT ![cb_write] = cbStore(cb[cb_write], received)]
        /\ UNCHANGED <<writerOnly, cb_write, received, temp, dropped>>
    BY <1>6 DEF StoreElem
  <2>2. WriterHolds' = WriterHolds /\ ReaderHolds' = ReaderHolds
    BY <2>1 DEF WriterHolds, ReaderHolds
  <2>3. \A b \in Buffers : cbContents(cb'[b]) = cbContents(cb[b])
    BY <1>1, <2>1, StoreContents
  <2>4. EveryMessageOnce'
    BY <1>1, <2>1, <2>2, <2>3, Unmoved
  <2>5. cb[cb_write].end \in 0..CBSIZE /\ cb[cb_write].elems \in [0..CBSIZE -> Message]
    BY <1>1 DEF Buffer
  <2>6. /\ cb'[cb_write].end = cb[cb_write].end
        /\ cb'[cb_write].start = cb[cb_write].start
        /\ cb'[cb_write].elems = [cb[cb_write].elems EXCEPT ![cb[cb_write].end] = received]
        /\ \A b \in Buffers \ {cb_write} : cb'[b] = cb[b]
    BY <1>1, <2>1 DEF cbStore, Buffer
  <2>7. cb'[cb_write].elems[cb'[cb_write].end] = received
    BY <2>5, <2>6
  <2>8. rpc = "start" => cbOldest(cb'[cur]) = cbOldest(cb[cur])
    <3> SUFFICES ASSUME rpc = "start" PROVE cbOldest(cb'[cur]) = cbOldest(cb[cur])
      OBVIOUS
    <3>1. cb[cur].end # cb[cur].start
      BY DEF LogInv, ReadNonEmpty, cbIsEmpty
    <3>2. cb[cur].start \in 0..CBSIZE
      BY <1>1 DEF Buffer
    <3>3. CASE cur = cb_write
      BY <2>5, <2>6, <3>1, <3>2, <3>3 DEF cbOldest
    <3>4. CASE cur # cb_write
      BY <1>1, <2>6, <3>4
    <3> QED BY <3>3, <3>4
  <2> QED BY <2>1, <2>3, <2>4, <2>7, <2>8 DEF HandInv
<1>7. CASE AdvanceEnd
  <2>1. /\ wpc = "end" /\ wpc' = "wrap"
        /\ UNCHANGED <<writerOnly, cb_write, received, temp, dropped>>
    BY <1>7 DEF AdvanceEnd
  <2> DEFINE w == cb_write
  <2>2. /\ cbContents(cb'[w]) = Append(cbContents(cb[w]), received)
        /\ \A v \in Buffers : v = w => Held(v)' = Held(v) \cup {received}
        /\ cb'[w].elems = cb[w].elems /\ cb'[w].start = cb[w].start
        /\ \A b \in Buffers \ {w} : cb'[b] = cb[b] /\ Held(b)' = Held(b)
    BY <1>1, <1>7, AdvanceEndMoves
  <2>3. WriterHolds = {received} /\ WriterHolds' = {} /\ ReaderHolds' = ReaderHolds
        /\ Logged' = Logged
    BY <2>1 DEF WriterHolds, ReaderHolds, Logged
  <2>4. /\ Place(w) \in 1..6 /\ Place(w) # 1
        /\ Places[Place(w)] = Held(w)
    BY <1>1, PlacesAre DEF Place, Buffers
  <2>5. received \notin Held(w)
    <3>1. received \in Places[1]
      BY <2>3, PlacesAre
    <3> QED BY <2>4, <3>1 DEF EveryMessageOnce
  <2>6. EveryMessageOnce'
    <3>1. /\ Places'[1] = WriterHolds' /\ Places'[2] = dropped'
          /\ Places'[3] = Held("ping")' /\ Places'[4] = Held("pong")'
          /\ Places'[5] = ReaderHolds' /\ Places'[6] = Logged'
      BY DEF Places
    <3>2. Places'[1] = Places[1] \ {received} /\ {received} \subseteq Places[1]
      BY <2>3, <3>1, PlacesAre
    <3>3. CASE w = "ping"
      <4>1. Held("ping")' = Held("ping") \cup {received} /\ Held("pong")' = Held("pong")
        BY <2>2, <3>3 DEF Buffers
      <4>2. /\ Places'[3] = Places[3] \cup {received}
            /\ \A i \in 1..6 : i # 1 /\ i # 3 => Places'[i] = Places[i]
        BY <2>1, <2>3, <3>1, <4>1, PlacesAre
      <4>3. Len(log') = Cardinality(Logged')
        BY <2>1, SameLog
      <4>4. Moves(1, 3, {received})
        BY <3>2, <4>2 DEF Moves
      <4> QED BY <2>1, <4>3, <4>4, MovedOnce
    <3>4. CASE w = "pong"
      <4>1. Held("pong")' = Held("pong") \cup {received} /\ Held("ping")' = Held("ping")
        BY <2>2, <3>4 DEF Buffers
      <4>2. /\ Places'[4] = Places[4] \cup {received}
            /\ \A i \in 1..6 : i # 1 /\ i # 4 => Places'[i] = Places[i]
        BY <2>1, <2>3, <3>1, <4>1, PlacesAre
      <4>3. Len(log') = Cardinality(Logged')
        BY <2>1, SameLog
      <4>4. Moves(1, 4, {received})
        BY <3>2, <4>2 DEF Moves
      <4> QED BY <2>1, <4>3, <4>4, MovedOnce
    <3> QED BY <1>1, <3>3, <3>4 DEF Buffers
  <2>7. \A b \in Buffers : Distinct(cbContents(cb'[b]))
    <3>1. Distinct(cbContents(cb'[w]))
      <4>1. /\ cbContents(cb[w]) \in Seq(Message)
            /\ Held(w) = Elems(cbContents(cb[w]))
        BY <1>1, HeldIsContents
      <4>2. Distinct(cbContents(cb[w]))
        BY <1>1 DEF HandInv
      <4> QED BY <1>1, <2>2, <2>5, <4>1, <4>2, AppendElems
    <3>2. ASSUME NEW b \in Buffers \ {w} PROVE Distinct(cbContents(cb'[b]))
      BY <2>2, <3>2 DEF HandInv
    <3> QED BY <3>1, <3>2
  <2>8. rpc = "start" => cbOldest(cb'[cur]) = cbOldest(cb[cur])
    <3>1. CASE cur = w
      BY <2>2, <3>1 DEF cbOldest
    <3>2. CASE cur # w
      BY <1>1, <2>2, <3>2
    <3> QED BY <3>1, <3>2
  <2> QED BY <2>1, <2>6, <2>7, <2>8 DEF HandInv
<1>8. CASE CheckOverwrite
  <2>1. cb' = cb
    BY <1>1, <1>8, NoOverwrite DEF CheckOverwrite, LogInv, WriterInv
  <2>2. WriterHolds' = WriterHolds /\ ReaderHolds' = ReaderHolds
    BY <1>8 DEF CheckOverwrite, WriterHolds, ReaderHolds
  <2> QED BY <1>3, <1>8, <2>1, <2>2 DEF CheckOverwrite
<1>9. CASE CheckFlag
  <2>1. /\ wpc = "flag?" /\ wpc' \in {"swap1", "exited", "receive"}
        /\ dropped' = dropped \cup {received}
        /\ UNCHANGED <<writerOnly, cb, cb_write, received>>
    BY <1>1, <1>9 DEF CheckFlag, TypeOK
  <2>2. /\ WriterHolds = {received} /\ WriterHolds' = {} /\ ReaderHolds' = ReaderHolds
        /\ Logged' = Logged /\ Held("ping")' = Held("ping")
        /\ Held("pong")' = Held("pong")
    BY <2>1 DEF WriterHolds, ReaderHolds, Logged, Held
  <2>3. /\ Places'[1] = Places[1] \ {received} /\ {received} \subseteq Places[1]
        /\ Places'[2] = Places[2] \cup {received}
        /\ \A i \in 1..6 : i # 1 /\ i # 2 => Places'[i] = Places[i]
    BY <2>1, <2>2 DEF Places
  <2>4. EveryMessageOnce'
    <3>1. Len(log') = Cardinality(Logged')
      BY <2>1, SameLog
    <3>2. Moves(1, 2, {received})
      BY <2>3 DEF Moves
    <3> QED BY <2>1, <3>1, <3>2, MovedOnce
  <2> QED BY <2>1, <2>4, HandsKept
<1>10. CASE SwapRead
  <2>1. WriterHolds' = WriterHolds /\ ReaderHolds' = ReaderHolds
    BY <1>10 DEF SwapRead, WriterHolds, ReaderHolds
  <2> QED BY <1>3, <1>10, <2>1 DEF SwapRead
<1>11. CASE SwapWrite
  <2>1. WriterHolds' = WriterHolds /\ ReaderHolds' = ReaderHolds
    BY <1>11 DEF SwapWrite, WriterHolds, ReaderHolds
  <2>2. EveryMessageOnce'
    BY <1>1, <1>11, <2>1, Unmoved DEF SwapWrite
  <2>3. HandInv'
    BY <1>11 DEF SwapWrite, HandInv
  <2> QED BY <2>2, <2>3
<1>12. CASE CheckEmpty
  <2>1. WriterHolds' = WriterHolds /\ ReaderHolds' = ReaderHolds
    BY <1>12 DEF CheckEmpty, WriterHolds, ReaderHolds
  <2> QED BY <1>3, <1>12, <2>1 DEF CheckEmpty
<1>13. CASE RaiseFlag
  <2>1. WriterHolds' = WriterHolds /\ ReaderHolds' = ReaderHolds
    BY <1>13 DEF RaiseFlag, WriterHolds, ReaderHolds
  <2> QED BY <1>3, <1>13, <2>1 DEF RaiseFlag
<1>14. CASE LowerFlag
  <2>1. WriterHolds' = WriterHolds /\ ReaderHolds' = ReaderHolds
    BY <1>14 DEF LowerFlag, WriterHolds, ReaderHolds
  <2> QED BY <1>3, <1>14, <2>1 DEF LowerFlag
<1>15. CASE CallRead
  <2>1. WriterHolds' = WriterHolds /\ ReaderHolds' = ReaderHolds
    BY <1>15 DEF CallRead, WriterHolds, ReaderHolds
  <2>2. EveryMessageOnce'
    BY <1>1, <1>15, <2>1, Unmoved DEF CallRead
  <2>3. HandInv'
    BY <1>15 DEF CallRead, HandInv
  <2> QED BY <2>2, <2>3
<1>16. CASE CopyElem
  <2>1. WriterHolds' = WriterHolds /\ ReaderHolds' = ReaderHolds
    BY <1>16 DEF CopyElem, WriterHolds, ReaderHolds
  <2>2. EveryMessageOnce'
    BY <1>1, <1>16, <2>1, Unmoved DEF CopyElem
  <2>3. HandInv'
    BY <1>16 DEF CopyElem, HandInv
  <2> QED BY <2>2, <2>3
<1>17. CASE AdvanceStart
  <2>1. /\ rpc = "start" /\ rpc' = "write"
        /\ UNCHANGED <<readerOnly, reading_flag, cur, cb_elem, log>>
    BY <1>17 DEF AdvanceStart
  <2> DEFINE r == cur
  <2>2. /\ cbContents(cb[r]) \in Seq(Message) /\ cbContents(cb[r]) # << >>
        /\ cbContents(cb'[r]) = Tail(cbContents(cb[r]))
        /\ \A v \in Buffers : v = r => /\ cb_elem \in Held(v)
                                       /\ Held(v)' = Held(v) \ {cb_elem}
        /\ cb'[r].elems = cb[r].elems /\ cb'[r].end = cb[r].end
        /\ \A b \in Buffers \ {r} : cb'[b] = cb[b] /\ Held(b)' = Held(b)
    BY <1>1, <1>17, AdvanceStartMoves
  <2>3. /\ ReaderHolds = {} /\ ReaderHolds' = {cb_elem}
        /\ WriterHolds' = WriterHolds /\ Logged' = Logged
    BY <2>1 DEF WriterHolds, ReaderHolds, Logged
  <2>4. EveryMessageOnce'
    <3>1. /\ Places'[1] = WriterHolds' /\ Places'[2] = dropped'
          /\ Places'[3] = Held("ping")' /\ Places'[4] = Held("pong")'
          /\ Places'[5] = ReaderHolds' /\ Places'[6] = Logged'
      BY DEF Places
    <3>2. Places'[5] = Places[5] \cup {cb_elem}
      BY <2>3, <3>1, PlacesAre
    <3>3. CASE r = "ping"
      <4>1. /\ Held("ping")' = Held("ping") \ {cb_elem} /\ cb_elem \in Held("ping")
            /\ Held("pong")' = Held("pong")
        BY <2>2, <3>3 DEF Buffers
      <4>2. /\ Places'[3] = Places[3] \ {cb_elem} /\ {cb_elem} \subseteq Places[3]
            /\ \A i \in 1..6 : i # 3 /\ i # 5 => Places'[i] = Places[i]
        BY <2>1, <2>3, <3>1, <4>1, PlacesAre
      <4>3. Len(log') = Cardinality(Logged')
        BY <2>1, SameLog
      <4>4. Moves(3, 5, {cb_elem})
        BY <3>2, <4>2 DEF Moves
      <4> QED BY <2>1, <4>3, <4>4, MovedOnce
    <3>4. CASE r = "pong"
      <4>1. /\ Held("pong")' = Held("pong") \ {cb_elem} /\ cb_elem \in Held("pong")
            /\ Held("ping")' = Held("ping")
        BY <2>2, <3>4 DEF Buffers
      <4>2. /\ Places'[4] = Places[4] \ {cb_elem} /\ {cb_elem} \subseteq Places[4]
            /\ \A i \in 1..6 : i # 4 /\ i # 5 => Places'[i] = Places[i]
        BY <2>1, <2>3, <3>1, <4>1, PlacesAre
      <4>3. Len(log') = Cardinality(Logged')
        BY <2>1, SameLog
      <4>4. Moves(4, 5, {cb_elem})
        BY <3>2, <4>2 DEF Moves
      <4> QED BY <2>1, <4>3, <4>4, MovedOnce
    <3> QED BY <1>1, <3>3, <3>4 DEF Buffers
  <2>5. \A b \in Buffers : Distinct(cbContents(cb'[b]))
    <3>1. Distinct(cbContents(cb'[r]))
      <4>1. Distinct(cbContents(cb[r]))
        BY <1>1 DEF HandInv
      <4> QED BY <2>2, <4>1, TailElems
    <3>2. ASSUME NEW b \in Buffers \ {r} PROVE Distinct(cbContents(cb'[b]))
      BY <2>2, <3>2 DEF HandInv
    <3> QED BY <3>1, <3>2
  <2>6. wpc = "end" => cb'[cb_write].elems[cb'[cb_write].end] = received
    <3>1. CASE cb_write = r
      BY <2>2, <3>1 DEF HandInv
    <3>2. CASE cb_write # r
      BY <1>1, <2>2, <3>2 DEF HandInv
    <3> QED BY <3>1, <3>2
  <2> QED BY <2>1, <2>4, <2>5, <2>6 DEF HandInv
<1>18. CASE WriteLog
  <2>1. /\ rpc = "write" /\ rpc' = "empty?" /\ log' = Append(log, cb_elem)
        /\ UNCHANGED <<readerOnly, cb, reading_flag, cur, cb_elem>>
    BY <1>18 DEF WriteLog
  <2>2. /\ ReaderHolds = {cb_elem} /\ ReaderHolds' = {} /\ WriterHolds' = WriterHolds
        /\ Held("ping")' = Held("ping") /\ Held("pong")' = Held("pong")
    BY <2>1 DEF WriterHolds, ReaderHolds, Held
  <2>3. cb_elem \notin Logged
    <3>1. cb_elem \in Places[5] /\ Places[6] = Logged
      BY <2>2, PlacesAre
    <3> QED BY <3>1 DEF EveryMessageOnce
  <2>4. Logged' = Logged \cup {cb_elem} /\ Len(log') = Cardinality(Logged')
    BY <1>1, <2>1, <2>3, LogOne
  <2>5. /\ Places'[5] = Places[5] \ {cb_elem} /\ {cb_elem} \subseteq Places[5]
        /\ Places'[6] = Places[6] \cup {cb_elem}
        /\ \A i \in 1..6 : i # 5 /\ i # 6 => Places'[i] = Places[i]
    BY <2>1, <2>2, <2>4 DEF Places
  <2>7. Moves(5, 6, {cb_elem})
    BY <2>5 DEF Moves
  <2>8. EveryMessageOnce'
    BY <2>1, <2>4, <2>7, MovedOnce
  <2> QED BY <2>1, <2>8, HandsKept
<1>19. CASE UNCHANGED vars
  <2>1. WriterHolds' = WriterHolds /\ ReaderHolds' = ReaderHolds
    BY <1>19 DEF vars, WriterHolds, ReaderHolds
  <2> QED BY <1>3, <1>19, <2>1 DEF vars
<1> QED
  BY <1>4, <1>5, <1>6, <1>7, <1>8, <1>9, <1>10, <1>11, <1>12, <1>13, <1>14,
     <1>15, <1>16, <1>17, <1>18, <1>19 DEF Next, Writer, Reader

LEMMA InitOnce == Init => HandInv /\ EveryMessageOnce
<1> SUFFICES ASSUME Init PROVE HandInv /\ EveryMessageOnce
  OBVIOUS
<1>1. \A b \in Buffers : cbCount(cb[b]) = 0
  BY DEF Init, cbInit, cbCount
<1>2. \A b \in Buffers : cbContents(cb[b]) = << >>
  BY <1>1 DEF cbContents
<1>3. /\ WriterHolds = {} /\ dropped = {} /\ ReaderHolds = {} /\ Logged = {}
      /\ received = 0 /\ Len(log) = 0
  BY DEF Init, WriterHolds, ReaderHolds, Logged
<1>4. Held("ping") = {} /\ Held("pong") = {}
  BY <1>1 DEF Held, Buffers
<1>5. \A i \in 1..6 : Places[i] = {}
  BY <1>3, <1>4 DEF Places
<1>6. Cardinality(Logged) = 0
  BY <1>3, FS_EmptySet
<1>7. UNION {Places[i] : i \in 1..6} = 1..received
  BY <1>3, <1>5
<1>8. EveryMessageOnce
  BY <1>3, <1>5, <1>6, <1>7 DEF EveryMessageOnce
<1>9. HandInv
  BY <1>2 DEF HandInv, Distinct, Init
<1> QED BY <1>8, <1>9

LEMMA OnceInductive == Spec => [](HandInv /\ EveryMessageOnce)
BY InitOnce, NextOnce, LogInvInductive, TypeCorrect, PTL DEF Spec

\* No interleaving of the two threads loses a message, stores it twice or
\* writes it to the log twice, for any capacity and any number of messages.
THEOREM NoneLostNoneTwice == Spec => []EveryMessageOnce
BY OnceInductive, PTL

-----------------------------------------------------------------------------
(* A prompt logging thread                                                 *)

LEMMA NextPrompt ==
    ASSUME PROMPT
    PROVE  LogInv /\ PromptInv /\ [Next]_vars => PromptInv'
<1> SUFFICES ASSUME LogInv, PromptInv, [Next]_vars PROVE PromptInv'
  OBVIOUS
<1> USE DEF writerOnly, readerOnly, PromptInv, Reading
<1>1. /\ cb \in [Buffers -> Buffer(CBSIZE, Message)] /\ CBSIZE \in Nat \ {0}
      /\ cb_write \in Buffers /\ cb_read \in Buffers /\ cur \in Buffers
      /\ temp \in Buffers /\ reading_flag \in {0, 1}
      /\ rpc \in {"empty?", "raise", "call", "copy", "start", "write", "lower"}
  BY LogAssumption DEF LogInv, TypeOK
<1>2. PointersInv /\ FlagInv /\ WriterInv /\ ReadNonEmpty
  BY DEF LogInv
<1>3. CASE Receive
  <2>1. cbIsFull(cb[cb_write]) => cbCount(cb[cb_write]) >= CBSIZE - 1
    BY <1>1, ExactLemma
  <2> QED BY <1>3, <2>1 DEF Receive, Prompt
<1>4. CASE CheckFull
  BY <1>4 DEF CheckFull
<1>5. CASE StoreElem
  <2>1. cb' = [cb EXCEPT ![cb_write] = cbStore(cb[cb_write], received)]
    BY <1>5 DEF StoreElem
  <2>2. \A b \in Buffers : cbIsEmpty(cb'[b]) <=> cbIsEmpty(cb[b])
    BY <2>1, <1>1, StoreKeepsIndices
  <2> QED BY <1>1, <1>5, <2>2 DEF StoreElem
<1>6. CASE AdvanceEnd
  <2>1. cb_read # cb_write
    BY <1>2, <1>6 DEF AdvanceEnd, PointersInv
  <2>2. cb'[cb_read] = cb[cb_read]
    BY <1>1, <1>6, <2>1 DEF AdvanceEnd
  <2> QED BY <1>6, <2>2 DEF AdvanceEnd
<1>7. CASE CheckOverwrite
  <2>1. cb' = cb
    BY <1>1, <1>2, <1>7, NoOverwrite DEF CheckOverwrite, WriterInv
  <2> QED BY <1>7, <2>1 DEF CheckOverwrite
<1>8. CASE CheckFlag
  <2>1. wpc' = "swap1" => reading_flag = 0
    BY <1>1, <1>8 DEF CheckFlag
  <2>2. wpc' \in {"swap1", "exited", "receive"}
    BY <1>1, <1>8, LogAssumption DEF CheckFlag
  <2>3. reading_flag = 0 => rpc \in {"empty?", "lower"} /\ cbIsEmpty(cb[cb_read])
    BY <1>1, <1>2, <1>8 DEF CheckFlag, FlagInv, ReadNonEmpty
  <2> QED BY <1>8, <2>1, <2>2, <2>3 DEF CheckFlag
<1>9. CASE SwapRead
  <2>1. temp = cb_read
    BY <1>2, <1>9 DEF SwapRead, PointersInv
  <2> QED BY <1>9, <2>1 DEF SwapRead
<1>10. CASE SwapWrite
  BY <1>10 DEF SwapWrite
<1>11. CASE CheckEmpty
  BY <1>11 DEF CheckEmpty
<1>12. CASE RaiseFlag
  BY <1>12 DEF RaiseFlag
<1>13. CASE LowerFlag
  BY <1>1, <1>13 DEF LowerFlag
<1>14. CASE CallRead
  BY <1>14 DEF CallRead
<1>15. CASE CopyElem
  BY <1>15 DEF CopyElem
<1>16. CASE AdvanceStart
  <2>1. cur = cb_read /\ reading_flag = 1
    BY <1>2, <1>16 DEF AdvanceStart, FlagInv
  <2>2. \A b \in Buffers \ {cb_read} : cb'[b] = cb[b]
    BY <1>1, <1>16, <2>1 DEF AdvanceStart
  <2>3. wpc = "flag?" => cb'[cb_write] = cb[cb_write]
    BY <1>1, <1>2, <2>2 DEF PointersInv
  <2>4. wpc = "swap2" => cb'[temp] = cb[temp]
    BY <1>1, <1>2, <2>2 DEF PointersInv
  <2> QED BY <1>16, <2>1, <2>3, <2>4 DEF AdvanceStart
<1>17. CASE WriteLog
  BY <1>17 DEF WriteLog
<1>18. CASE UNCHANGED vars
  BY <1>18 DEF vars
<1> QED
  BY <1>3, <1>4, <1>5, <1>6, <1>7, <1>8, <1>9, <1>10, <1>11, <1>12, <1>13,
     <1>14, <1>15, <1>16, <1>17, <1>18 DEF Next, Writer, Reader

LEMMA PromptInductive ==
    ASSUME PROMPT
    PROVE  Spec => []PromptInv
<1>1. Init => PromptInv
  BY DEF Init, PromptInv, Reading
<1>2. LogInv /\ PromptInv /\ [Next]_vars => PromptInv'
  BY NextPrompt
<1> QED BY <1>1, <1>2, LogInvInductive, PTL DEF Spec

\* The buffer that a swap hands to the communication thread has been logged.
THEOREM SwapIsClean == PROMPT => (Spec => []SwapsInADrainedBuffer)
<1> SUFFICES ASSUME PROMPT PROVE Spec => []SwapsInADrainedBuffer
  OBVIOUS
<1>1. PromptInv => SwapsInADrainedBuffer
  BY DEF PromptInv, SwapsInADrainedBuffer
<1>2. Spec => []PromptInv
  BY PromptInductive
<1> QED BY <1>1, <1>2, PTL

-----------------------------------------------------------------------------
(* The order of the log                                                    *)

LEMMA AppendIncreases ==
    ASSUME NEW S \in SUBSET Int, NEW s \in Seq(S), NEW e \in S, Increasing(s),
           \A x \in Elems(s) : x < e
    PROVE  Increasing(Append(s, e))
<1> DEFINE t == Append(s, e)
<1>1. /\ Len(s) \in Nat /\ Len(t) = Len(s) + 1 /\ t[Len(s) + 1] = e
      /\ \A i \in 1..Len(s) : t[i] = s[i]
  OBVIOUS
<1> HIDE DEF t
<1>2. ASSUME NEW i \in 1..Len(t), NEW j \in 1..Len(t), i < j PROVE t[i] < t[j]
  <2>1. i \in 1..Len(s)
    BY <1>1, <1>2
  <2>2. CASE j \in 1..Len(s)
    BY <1>1, <1>2, <2>1, <2>2 DEF Increasing
  <2>3. CASE j = Len(s) + 1
    <3>1. t[i] \in Elems(s)
      BY <1>1, <2>1 DEF Elems
    <3> QED BY <1>1, <2>3, <3>1
  <2> QED BY <1>1, <2>2, <2>3
<1> QED BY <1>2 DEF Increasing, t

LEMMA TailIncreases ==
    ASSUME NEW S \in SUBSET Int, NEW s \in Seq(S), s # << >>, Increasing(s)
    PROVE  Increasing(Tail(s)) /\ \A x \in Elems(Tail(s)) : Head(s) < x
<1> DEFINE t == Tail(s)
           h == Head(s)
<1>1. /\ Len(s) \in Nat \ {0} /\ Len(t) = Len(s) - 1 /\ h = s[1]
      /\ \A i \in 1..(Len(s) - 1) : t[i] = s[i + 1]
  BY HeadTailProperties, EmptySeq
<1> HIDE DEF t, h
<1>2. \A i \in 1..Len(t) : i \in Int /\ i + 1 \in 1..Len(s) /\ t[i] = s[i + 1] /\ 1 < i + 1
  BY <1>1
<1>3. Increasing(t)
  <2> SUFFICES ASSUME NEW i \in 1..Len(t), NEW j \in 1..Len(t), i < j
               PROVE  t[i] < t[j]
    BY DEF Increasing
  <2>1. i + 1 < j + 1
    OBVIOUS
  <2> QED BY <1>2, <2>1 DEF Increasing
<1>4. \A x \in Elems(t) : h < x
  <2> SUFFICES ASSUME NEW i \in 1..Len(t) PROVE h < t[i]
    BY DEF Elems
  <2>1. 1 \in 1..Len(s)
    BY <1>1
  <2> QED BY <1>1, <1>2, <2>1 DEF Increasing
<1> QED BY <1>3, <1>4 DEF t, h

LEMMA OrderKept ==
    ASSUME OrderInv, UNCHANGED <<log, cb_read>>, ReaderHolds' = ReaderHolds,
           \A b \in Buffers : /\ cbContents(cb'[b]) = cbContents(cb[b])
                              /\ Held(b)' = Held(b),
           cb_read \in Buffers
    PROVE  OrderInv'
<1>1. Logged' = Logged
  BY DEF Logged
<1> QED BY <1>1 DEF OrderInv

LEMMA NextOrder ==
    LogInv /\ TypeOK' /\ HandInv /\ EveryMessageOnce /\ PromptInv /\ OrderInv
        /\ [Next]_vars => OrderInv'
<1> SUFFICES ASSUME LogInv, TypeOK', HandInv, EveryMessageOnce, PromptInv,
                    OrderInv, [Next]_vars
             PROVE  OrderInv'
  OBVIOUS
<1> USE DEF writerOnly, readerOnly
<1>1. /\ TypeOK /\ CBSIZE \in Nat \ {0}
      /\ cb \in [Buffers -> Buffer(CBSIZE, Message)]
      /\ received \in Message /\ cb_elem \in Message /\ log \in Seq(Message)
      /\ cb_write \in Buffers /\ cb_read \in Buffers /\ cur \in Buffers
  BY LogAssumption DEF LogInv, TypeOK
<1>2. Message \in SUBSET Int
  BY DEF Message
<1>3. /\ Increasing(log) /\ Before(Logged, ReaderHolds)
      /\ \A b \in Buffers : /\ Increasing(cbContents(cb[b]))
                            /\ Before(Logged \cup ReaderHolds, Held(b))
      /\ \A a, b \in Buffers : a = cb_read /\ b # a => Before(Held(a), Held(b))
  BY DEF OrderInv
<1>4. ASSUME UNCHANGED <<cb, log, cb_read>>, ReaderHolds' = ReaderHolds
      PROVE  OrderInv'
  <2>1. \A b \in Buffers : Held(b)' = Held(b)
    BY <1>4 DEF Held
  <2> QED BY <1>1, <1>4, <2>1, OrderKept
<1>5. CASE StoreElem
  <2>1. /\ cb' = [cb EXCEPT ![cb_write] = cbStore(cb[cb_write], received)]
        /\ UNCHANGED <<log, cb_read, rpc, cb_elem>>
    BY <1>5 DEF StoreElem
  <2>2. \A b \in Buffers : cbContents(cb'[b]) = cbContents(cb[b])
    BY <1>1, <2>1, StoreContents
  <2>3. \A b \in Buffers : Held(b)' = Held(b)
    BY <1>1, <2>2, HeldIsContents, HeldAfter
  <2>4. ReaderHolds' = ReaderHolds
    BY <2>1 DEF ReaderHolds
  <2> QED BY <1>1, <2>1, <2>2, <2>3, <2>4, OrderKept
<1>6. ASSUME NEW w \in Buffers, w = cb_write, AdvanceEnd PROVE OrderInv'
  <2>1. /\ cbContents(cb'[w]) = Append(cbContents(cb[w]), received)
        /\ Held(w)' = Held(w) \cup {received}
        /\ \A b \in Buffers \ {w} : cb'[b] = cb[b] /\ Held(b)' = Held(b)
    BY <1>6, AdvanceEndMoves
  <2>2. /\ wpc = "end" /\ UNCHANGED <<log, cb_read, rpc, cb_elem>>
    BY <1>6 DEF AdvanceEnd
  <2>3. ReaderHolds' = ReaderHolds /\ Logged' = Logged
    BY <2>2 DEF ReaderHolds, Logged
  <2>4. cb_read # w
    BY <1>6, <2>2 DEF LogInv, PointersInv
  <2>5. ASSUME NEW i \in 2..6, NEW x \in Places[i] PROVE x < received
    <3>1. received \in Places[1]
      BY <2>2, PlacesAre DEF WriterHolds
    <3>2. Places[1] \cap Places[i] = {}
      BY DEF EveryMessageOnce
    <3>3. x \in 1..received /\ x # received
      BY <3>1, <3>2, PlacesReceived
    <3> QED BY <1>1, <3>3 DEF Message
  <2>6. \A x \in Logged \cup ReaderHolds : x < received
    BY <2>5, PlacesAre
  <2>7. \A b \in Buffers : \A x \in Held(b) : x < received
    BY <2>5, PlacesAre DEF Buffers
  <2>8. Increasing(cbContents(cb'[w]))
    <3>1. /\ cbContents(cb[w]) \in Seq(Message)
          /\ Held(w) = Elems(cbContents(cb[w]))
      BY <1>1, HeldIsContents
    <3> QED BY <1>1, <1>2, <1>3, <2>1, <2>7, <3>1, AppendIncreases
  <2>9. \A b \in Buffers : Increasing(cbContents(cb'[b]))
    BY <1>3, <2>1, <2>8
  <2>10. \A b \in Buffers : Before(Logged \cup ReaderHolds, Held(b)')
    BY <1>3, <2>1, <2>6 DEF Before
  <2>11. \A a, b \in Buffers : a = cb_read /\ b # a => Before(Held(a)', Held(b)')
    <3> SUFFICES ASSUME NEW a \in Buffers, NEW b \in Buffers, a = cb_read, b # a
                 PROVE  Before(Held(a)', Held(b)')
      OBVIOUS
    <3>1. Held(a)' = Held(a) /\ Before(Held(a), Held(b))
      BY <1>3, <2>1, <2>4
    <3> QED BY <2>1, <2>7, <3>1 DEF Before
  <2> QED BY <1>3, <2>2, <2>3, <2>9, <2>10, <2>11 DEF OrderInv
<1>7. CASE CheckOverwrite
  <2>1. cb' = cb
    BY <1>1, <1>7, NoOverwrite DEF CheckOverwrite, LogInv, WriterInv
  <2> QED BY <1>4, <1>7, <2>1 DEF CheckOverwrite, ReaderHolds
<1>8. CASE SwapRead
  <2>1. /\ cb_read' = cb_write /\ cb_read # cb_write
        /\ cbIsEmpty(cb[cb_read])
        /\ UNCHANGED <<cb, log, rpc, cb_elem>>
    BY <1>8 DEF SwapRead, PromptInv, LogInv, PointersInv
  <2>2. Logged' = Logged /\ ReaderHolds' = ReaderHolds
    BY <2>1 DEF Logged, ReaderHolds
  <2>3. \A b \in Buffers : Held(b)' = Held(b)
    BY <2>1 DEF Held
  <2>4. cbCount(cb[cb_read]) = 0
    BY <1>1, <2>1, ExactLemma
  <2>5. Held(cb_read) = {}
    BY <2>4 DEF Held
  <2>6. \A a, b \in Buffers : a = cb_read' /\ b # a => Before(Held(a), Held(b))
    <3> SUFFICES ASSUME NEW a \in Buffers, NEW b \in Buffers, a = cb_write, b # a
                 PROVE  Before(Held(a), Held(b))
      BY <2>1
    <3>1. b = cb_read
      BY <1>1, <2>1 DEF Buffers
    <3> QED BY <2>5, <3>1 DEF Before
  <2> QED BY <1>3, <2>1, <2>2, <2>3, <2>6 DEF OrderInv
<1>9. ASSUME NEW r \in Buffers, r = cur, AdvanceStart PROVE OrderInv'
  <2>1. /\ cbContents(cb[r]) \in Seq(Message) /\ cbContents(cb[r]) # << >>
        /\ cb_elem = Head(cbContents(cb[r]))
        /\ cbContents(cb'[r]) = Tail(cbContents(cb[r]))
        /\ cb_elem \in Held(r) /\ Held(r)' = Held(r) \ {cb_elem}
        /\ \A b \in Buffers \ {r} : cb'[b] = cb[b] /\ Held(b)' = Held(b)
    BY <1>9, AdvanceStartMoves
  <2>2. /\ rpc = "start" /\ rpc' = "write" /\ r = cb_read
        /\ UNCHANGED <<log, cb_read, cb_elem>>
    BY <1>9 DEF AdvanceStart, PromptInv, Reading
  <2>3. ReaderHolds' = {cb_elem} /\ Logged' = Logged
    BY <2>2 DEF ReaderHolds, Logged
  <2>4. /\ Increasing(cbContents(cb'[r]))
        /\ \A x \in Held(r)' : cb_elem < x
    <3>1. Held(r)' = Elems(cbContents(cb'[r]))
      BY HeldAfter
    <3> QED BY <1>2, <1>3, <2>1, <3>1, TailIncreases
  <2>5. \A b \in Buffers : Increasing(cbContents(cb'[b]))
    BY <1>3, <2>1, <2>4
  <2>6. Before(Logged, {cb_elem})
    BY <1>3, <2>1 DEF Before
  <2>7. \A b \in Buffers : Before(Logged \cup {cb_elem}, Held(b)')
    <3>1. Before(Logged \cup {cb_elem}, Held(r)')
      BY <1>3, <2>1, <2>4 DEF Before
    <3>2. ASSUME NEW b \in Buffers \ {r}
          PROVE  Before(Logged \cup {cb_elem}, Held(b)')
      <4>1. Before(Held(r), Held(b)) /\ Held(b)' = Held(b)
        BY <1>3, <2>1, <2>2
      <4> QED BY <1>3, <2>1, <4>1 DEF Before
    <3> QED BY <3>1, <3>2
  <2>8. \A a, b \in Buffers : a = cb_read /\ b # a => Before(Held(a)', Held(b)')
    <3> SUFFICES ASSUME NEW a \in Buffers, NEW b \in Buffers, a = cb_read, b # a
                 PROVE  Before(Held(a)', Held(b)')
      OBVIOUS
    <3>1. a = r /\ Held(b)' = Held(b) /\ Before(Held(a), Held(b))
      BY <1>3, <2>1, <2>2
    <3> QED BY <2>1, <3>1 DEF Before
  <2> QED BY <1>3, <2>2, <2>3, <2>5, <2>6, <2>7, <2>8 DEF OrderInv
<1>10. CASE WriteLog
  <2>1. /\ rpc = "write" /\ rpc' = "empty?" /\ log' = Append(log, cb_elem)
        /\ UNCHANGED <<cb, cb_read, cb_elem>>
    BY <1>10 DEF WriteLog
  <2>2. ReaderHolds = {cb_elem} /\ ReaderHolds' = {}
    BY <2>1 DEF ReaderHolds
  <2>3. Logged = Elems(log) /\ Logged' = Elems(log')
    BY DEF Logged, Elems
  <2>4. Logged' = Logged \cup {cb_elem}
    BY <1>1, <2>1, <2>3, AppendElems
  <2>5. \A x \in Logged : x < cb_elem
    BY <1>3, <2>2 DEF Before
  <2>6. Increasing(log')
    BY <1>1, <1>2, <1>3, <2>1, <2>3, <2>5, AppendIncreases
  <2>7. \A b \in Buffers : Held(b)' = Held(b)
    BY <2>1 DEF Held
  <2>8. Before(Logged', ReaderHolds')
    BY <2>2 DEF Before
  <2>9. \A b \in Buffers : Before(Logged' \cup ReaderHolds', Held(b)')
    BY <1>3, <2>2, <2>4, <2>7
  <2> QED BY <1>3, <2>1, <2>6, <2>7, <2>8, <2>9 DEF OrderInv
<1>11. ASSUME Receive \/ CheckFull \/ CheckFlag \/ SwapWrite
       PROVE  OrderInv'
  BY <1>4, <1>11 DEF Receive, CheckFull, CheckFlag, SwapWrite, ReaderHolds
<1>12. ASSUME CheckEmpty \/ RaiseFlag \/ LowerFlag \/ CallRead \/ CopyElem
       PROVE  OrderInv'
  BY <1>4, <1>12
     DEF CheckEmpty, RaiseFlag, LowerFlag, CallRead, CopyElem, ReaderHolds
<1>13. CASE UNCHANGED vars
  BY <1>4, <1>13 DEF vars, ReaderHolds
<1> QED
  BY <1>1, <1>5, <1>6, <1>7, <1>8, <1>9, <1>10, <1>11, <1>12, <1>13
     DEF Next, Writer, Reader

\* With a prompt logging thread the log file has the order of arrival.
THEOREM LogKeepsOrder == PROMPT => (Spec => []LogInOrder)
<1> SUFFICES ASSUME PROMPT PROVE Spec => []LogInOrder
  OBVIOUS
<1>1. Init => OrderInv
  <2> SUFFICES ASSUME Init PROVE OrderInv
    OBVIOUS
  <2>1. \A b \in Buffers : cbCount(cb[b]) = 0
    BY DEF Init, cbInit, cbCount
  <2>2. \A b \in Buffers : cbContents(cb[b]) = << >> /\ Held(b) = {}
    BY <2>1 DEF cbContents, Held
  <2>3. log = << >> /\ Logged = {} /\ ReaderHolds = {}
    BY DEF Init, Logged, ReaderHolds
  <2> QED BY <2>2, <2>3 DEF OrderInv, Increasing, Before
<1>2. LogInv /\ TypeOK' /\ HandInv /\ EveryMessageOnce /\ PromptInv /\ OrderInv
          /\ [Next]_vars => OrderInv'
  BY NextOrder
<1>3. OrderInv => LogInOrder
  BY DEF OrderInv, Increasing, LogInOrder
<1>4. Spec => []PromptInv
  BY PromptInductive
<1> QED
  BY <1>1, <1>2, <1>3, <1>4, OnceInductive, LogInvInductive, TypeCorrect, PTL
     DEF Spec

-----------------------------------------------------------------------------
(* The losses of the lisa direction                                        *)

\* The numbers that LossInv compares.
LEMMA LossTypes ==
    ASSUME TypeOK, EveryMessageOnce
    PROVE  /\ IsFiniteSet(dropped) /\ Cardinality(dropped) \in Nat
           /\ Cardinality(WriterHolds) \in {0, 1}
           /\ WriterHolds = {} => Cardinality(WriterHolds) = 0
           /\ WriterHolds = {received} => Cardinality(WriterHolds) = 1
           /\ \A b \in Buffers : cbCount(cb[b]) \in 0..CBSIZE
           /\ cbCount(Filling) \in 0..CBSIZE
<1>1. IsFiniteSet(0..MaxMessages)
  BY FS_Interval, LogAssumption
<1>2. IsFiniteSet(Message)
  BY <1>1 DEF Message
<1>3. IsFiniteSet(dropped)
  BY <1>2, FS_Subset DEF TypeOK
<1>4. Cardinality({}) = 0 /\ Cardinality({received}) = 1
  BY FS_EmptySet, FS_Singleton
<1>5. WriterHolds = {} \/ WriterHolds = {received}
  BY DEF WriterHolds
<1>6. \A b \in Buffers : cbCount(cb[b]) \in 0..CBSIZE
  <2>1. \A b \in Buffers : cb[b] \in Buffer(CBSIZE, Message)
    BY DEF TypeOK
  <2> QED BY <2>1, LogAssumption, ContentsType
<1>7. cbCount(Filling) \in 0..CBSIZE
  BY <1>6 DEF Filling, TypeOK
<1> QED BY <1>3, <1>4, <1>5, <1>6, <1>7, FS_CardinalityType

\* The arithmetic of a loss: one more message is lost, a full buffer becomes
\* an old one.
LEMMA OneMoreLoss ==
    ASSUME NEW D \in Nat, NEW C \in Nat, NEW R \in Nat,
           D * C + C <= R - D - 1
    PROVE  (D + 1) * C + 0 <= R - (D + 1) - 0
<1>1. (D + 1) * C = D * C + C
  OBVIOUS
<1>2. D * C \in Nat
  OBVIOUS
<1> QED BY <1>1, <1>2

LEMMA NextLoss ==
    ASSUME LISA
    PROVE  LogInv /\ TypeOK' /\ HandInv /\ EveryMessageOnce /\ PromptInv
               /\ LossInv /\ [Next]_vars => LossInv'
<1> SUFFICES ASSUME LogInv, TypeOK', HandInv, EveryMessageOnce, PromptInv,
                    LossInv, [Next]_vars
             PROVE  LossInv'
  OBVIOUS
<1> USE DEF writerOnly, readerOnly
<1>1. /\ TypeOK /\ CBSIZE \in Nat \ {0}
      /\ cb \in [Buffers -> Buffer(CBSIZE, Message)]
      /\ received \in Nat /\ received \in Message
      /\ cb_write \in Buffers /\ cb_read \in Buffers /\ cur \in Buffers
      /\ temp \in Buffers /\ reading_flag \in {0, 1}
  BY LogAssumption DEF LogInv, TypeOK, Message
<1>2. /\ IsFiniteSet(dropped) /\ Cardinality(dropped) \in Nat
      /\ Cardinality(dropped) * CBSIZE \in Nat
      /\ \A b \in Buffers : cbCount(cb[b]) \in 0..CBSIZE
      /\ cbCount(Filling) \in 0..CBSIZE
  <2>1. IsFiniteSet(dropped) /\ Cardinality(dropped) \in Nat
    BY <1>1, LossTypes
  <2>2. Cardinality(dropped) * CBSIZE \in Nat
    BY <1>1, <2>1
  <2> QED BY <1>1, <2>1, <2>2, LossTypes
<1>3. Cardinality({}) = 0 /\ Cardinality({received}) = 1
      /\ Cardinality({received'}) = 1
  BY FS_EmptySet, FS_Singleton
<1>4. running => Cardinality(dropped) * CBSIZE + cbCount(Filling)
                   <= received - Cardinality(dropped) - Cardinality(WriterHolds)
  BY DEF LossInv
<1>5. ASSUME UNCHANGED <<dropped, received>>, running' => running,
             cbCount(Filling)' = cbCount(Filling),
             WriterHolds' = WriterHolds
      PROVE  LossInv'
  BY <1>4, <1>5 DEF LossInv
<1>6. CASE Receive
  <2>1. /\ wpc = "receive" /\ wpc' = "full?" /\ received' = received + 1
        /\ UNCHANGED <<cb, cb_write, dropped>>
    BY <1>6 DEF Receive
  <2>2. WriterHolds = {} /\ WriterHolds' = {received'} /\ running
    BY <2>1 DEF WriterHolds, running
  <2>3. cbCount(Filling)' = cbCount(Filling)
    BY <2>1 DEF Filling
  <2>4. Cardinality(dropped) * CBSIZE + cbCount(Filling)
          <= received + 1 - Cardinality(dropped) - 1
    BY <1>1, <1>2, <1>3, <1>4, <2>2
  <2>5. Cardinality(WriterHolds') = 1 /\ Cardinality(dropped') = Cardinality(dropped)
    BY <1>3, <2>1, <2>2
  <2>6. Cardinality(dropped') * CBSIZE + cbCount(Filling)'
          <= received' - Cardinality(dropped') - Cardinality(WriterHolds')
    BY <1>1, <1>2, <2>1, <2>3, <2>4, <2>5
  <2> QED BY <2>6, Zenon DEF LossInv
<1>7. CASE CheckFull
  <2>1. /\ wpc = "full?" /\ wpc' \in {"flag?", "store"}
        /\ UNCHANGED <<cb, cb_write, dropped, received>>
    BY <1>7 DEF CheckFull
  <2> QED BY <1>5, <2>1 DEF WriterHolds, Filling, running
<1>8. CASE StoreElem
  <2>1. /\ wpc = "store" /\ wpc' = "end"
        /\ cb' = [cb EXCEPT ![cb_write] = cbStore(cb[cb_write], received)]
        /\ UNCHANGED <<cb_write, dropped, received>>
    BY <1>8 DEF StoreElem
  <2>2. cb'[cb_write] = cbStore(cb[cb_write], received)
    BY <1>1, <2>1
  <2>3. cbCount(cb'[cb_write]) = cbCount(cb[cb_write])
    BY <1>1, <2>2 DEF cbStore, cbCount, Buffer
  <2>4. Filling = cb[cb_write] /\ Filling' = cb'[cb_write]
    BY <2>1 DEF Filling
  <2>5. WriterHolds' = WriterHolds /\ running
    BY <2>1 DEF WriterHolds, running
  <2> QED BY <1>5, <2>1, <2>3, <2>4, <2>5
<1>9. CASE AdvanceEnd
  <2>1. /\ wpc = "end" /\ wpc' = "wrap"
        /\ cb' = [cb EXCEPT ![cb_write] = cbAdvanceEnd(cb[cb_write])]
        /\ UNCHANGED <<cb_write, dropped, received>>
    BY <1>9 DEF AdvanceEnd
  <2>2. Filling = cb[cb_write] /\ Filling' = cb'[cb_write]
    BY <2>1 DEF Filling
  <2>3. WriterHolds = {received} /\ WriterHolds' = {} /\ running
    BY <2>1 DEF WriterHolds, running
  <2>4. cbCount(cb'[cb_write]) = cbCount(cb[cb_write]) + 1
    <3> DEFINE b == cb[cb_write]
    <3>1. b \in Buffer(CBSIZE, Message) /\ cb'[cb_write] = cbAdvanceEnd(b)
      BY <1>1, <2>1
    <3>2. ~cbIsFull(b)
      BY <2>1 DEF LogInv, WriterInv
    <3>3. cb'[cb_write] \in Buffer(CBSIZE, Message)
      BY <1>1, <3>1, OperationTypes
    <3> HIDE DEF b
    <3>4. cbContents(cb'[cb_write]) = Append(cbContents(b), b.elems[b.end])
      BY <1>1, <3>1, <3>2, AdvanceEndContents
    <3>5. /\ cbContents(b) \in Seq(Message)
          /\ Len(cbContents(b)) = cbCount(b)
          /\ Len(cbContents(cb'[cb_write])) = cbCount(cb'[cb_write])
      BY <1>1, <3>1, <3>3, ContentsType
    <3>6. cbCount(cb'[cb_write]) = cbCount(b) + 1
      BY <3>4, <3>5
    <3> QED BY <3>6 DEF b
  <2>5. Cardinality(dropped) * CBSIZE + (cbCount(Filling) + 1)
          <= received - Cardinality(dropped) - 0
    BY <1>1, <1>2, <1>3, <1>4, <2>3
  <2> QED BY <1>3, <2>1, <2>2, <2>3, <2>4, <2>5 DEF LossInv
<1>10. CASE CheckOverwrite
  <2>1. cb' = cb
    BY <1>1, <1>10, NoOverwrite DEF CheckOverwrite, LogInv, WriterInv
  <2>2. /\ wpc = "wrap" /\ wpc' = "receive"
        /\ UNCHANGED <<cb_write, dropped, received>>
    BY <1>10 DEF CheckOverwrite
  <2> QED BY <1>5, <2>1, <2>2 DEF WriterHolds, Filling, running
<1>11. CASE CheckFlag
  <2>1. /\ wpc = "flag?" /\ dropped' = dropped \cup {received}
        /\ UNCHANGED <<cb, cb_write, cb_read, received>>
    BY <1>11 DEF CheckFlag
  <2> SUFFICES ASSUME running' PROVE LossInv'
    BY DEF LossInv
  <2>2. reading_flag = 0
    <3>1. reading_flag = 1 => wpc' = "exited"
      BY <1>11 DEF CheckFlag
    <3> QED BY <1>1, <3>1 DEF running
  <2>3. wpc' = "swap1" /\ temp' = cb_read
    BY <1>11, <2>2 DEF CheckFlag
  <2>4. cbIsFull(cb[cb_write]) /\ cbIsEmpty(cb[cb_read])
    BY <2>1, <2>2 DEF PromptInv
  <2>5. cbCount(cb[cb_write]) = CBSIZE /\ cbCount(cb[cb_read]) = 0
    BY <1>1, <2>4, ExactLemma
  <2>6. Filling = cb[cb_write] /\ Filling' = cb[cb_read]
    BY <2>1, <2>3 DEF Filling
  <2>7. WriterHolds = {received} /\ WriterHolds' = {} /\ running
    BY <2>1, <2>3 DEF WriterHolds, running
  <2>8. Cardinality(dropped') = Cardinality(dropped) + 1
    <3>1. received \notin dropped
      <4>1. received \in Places[1] /\ Places[2] = dropped
        BY <2>7, PlacesAre
      <4> QED BY <4>1 DEF EveryMessageOnce
    <3> QED BY <1>2, <2>1, <3>1, FS_AddElement
  <2>9. Cardinality(dropped) * CBSIZE + CBSIZE <= received - Cardinality(dropped) - 1
    BY <1>3, <1>4, <2>5, <2>6, <2>7
  <2>10. (Cardinality(dropped) + 1) * CBSIZE + 0
           <= received - (Cardinality(dropped) + 1) - 0
    BY <1>1, <1>2, <2>9, OneMoreLoss
  <2> QED BY <1>3, <2>1, <2>5, <2>6, <2>7, <2>8, <2>10 DEF LossInv
<1>12. CASE SwapRead
  <2>1. /\ wpc = "swap1" /\ wpc' = "swap2"
        /\ UNCHANGED <<cb, cb_write, temp, dropped, received>>
    BY <1>12 DEF SwapRead
  <2> QED BY <1>5, <2>1 DEF WriterHolds, Filling, running
<1>13. CASE SwapWrite
  <2>1. /\ wpc = "swap2" /\ wpc' = "receive" /\ cb_write' = temp
        /\ UNCHANGED <<cb, temp, dropped, received>>
    BY <1>13 DEF SwapWrite
  <2> QED BY <1>5, <2>1 DEF WriterHolds, Filling, running
<1>14. CASE AdvanceStart
  <2>1. /\ rpc = "start" /\ cur = cb_read
        /\ cb' = [cb EXCEPT ![cur] = cbAdvanceStart(cb[cur])]
        /\ UNCHANGED <<cb_write, temp, wpc, dropped, received>>
    BY <1>14 DEF AdvanceStart, PromptInv, Reading
  <2>2. wpc # "swap1"
    BY <2>1 DEF PromptInv
  <2>3. wpc # "swap2" => cb_write # cur
    BY <2>1 DEF LogInv, PointersInv
  <2>4. wpc = "swap2" => temp # cur
    BY <2>1 DEF LogInv, PointersInv
  <2>5. Filling' = Filling
    BY <1>1, <2>1, <2>2, <2>3, <2>4 DEF Filling
  <2> QED BY <1>5, <2>1, <2>5 DEF WriterHolds, running
<1>15. ASSUME CheckEmpty \/ RaiseFlag \/ LowerFlag \/ CallRead \/ CopyElem
                  \/ WriteLog \/ UNCHANGED vars
       PROVE  LossInv'
  <2>1. UNCHANGED <<cb, cb_write, temp, wpc, dropped, received>>
    BY <1>15
       DEF CheckEmpty, RaiseFlag, LowerFlag, CallRead, CopyElem, WriteLog, vars
  <2> QED BY <1>5, <2>1 DEF WriterHolds, Filling, running
<1> QED
  BY <1>6, <1>7, <1>8, <1>9, <1>10, <1>11, <1>12, <1>13, <1>14, <1>15
     DEF Next, Writer, Reader

\* With a prompt logging thread the lisa direction loses one message per
\* buffer it has filled, and no other while it runs.
THEOREM LossesArePaid == LISA /\ PROMPT => (Spec => []OneLossPerBuffer)
<1> SUFFICES ASSUME LISA, PROMPT PROVE Spec => []OneLossPerBuffer
  OBVIOUS
<1>1. Init => LossInv
  <2> SUFFICES ASSUME Init PROVE LossInv
    OBVIOUS
  <2>1. cbCount(Filling) = 0
    BY DEF Init, Filling, Buffers, cbInit, cbCount
  <2>2. Cardinality(dropped) = 0 /\ Cardinality(WriterHolds) = 0 /\ received = 0
    BY FS_EmptySet DEF Init, WriterHolds
  <2>3. 0 * CBSIZE = 0
    BY LogAssumption
  <2> QED BY <2>1, <2>2, <2>3 DEF LossInv
<1>2. LogInv /\ TypeOK' /\ HandInv /\ EveryMessageOnce /\ PromptInv /\ LossInv
          /\ [Next]_vars => LossInv'
  BY NextLoss
<1>3. TypeOK /\ EveryMessageOnce /\ LossInv => OneLossPerBuffer
  <2> SUFFICES ASSUME TypeOK, EveryMessageOnce, LossInv, running
               PROVE  Cardinality(dropped) * CBSIZE
                        <= received - Cardinality(dropped)
    BY DEF OneLossPerBuffer
  <2>1. /\ Cardinality(dropped) \in Nat /\ Cardinality(WriterHolds) \in {0, 1}
        /\ cbCount(Filling) \in 0..CBSIZE /\ received \in Nat /\ CBSIZE \in Nat
    BY LossTypes, LogAssumption DEF TypeOK, Message
  <2>2. Cardinality(dropped) * CBSIZE \in Nat
    BY <2>1
  <2>3. Cardinality(dropped) * CBSIZE + cbCount(Filling)
          <= received - Cardinality(dropped) - Cardinality(WriterHolds)
    BY DEF LossInv
  <2> DEFINE p == Cardinality(dropped) * CBSIZE
             n == cbCount(Filling)
             h == Cardinality(WriterHolds)
             d == Cardinality(dropped)
  <2>4. p \in Nat /\ n \in Nat /\ h \in Nat /\ d \in Nat /\ p + n <= received - d - h
    BY <2>1, <2>2, <2>3
  <2> HIDE DEF p, n, h, d
  <2>5. p <= received - d
    BY <2>1, <2>4
  <2> QED BY <2>5 DEF p, d
<1>4. Spec => []PromptInv
  BY PromptInductive
<1> QED
  BY <1>1, <1>2, <1>3, <1>4, OnceInductive, LogInvInductive, TypeCorrect, PTL
     DEF Spec

=============================================================================
