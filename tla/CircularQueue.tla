--------------------------- MODULE CircularQueue ---------------------------
(***************************************************************************)
(* One circular buffer used by one thread: cbWrite at any time, cbRead     *)
(* when the caller has made sure that the buffer is not empty.  It         *)
(* implements DroppingQueue with the buffer's content as the queue.        *)
(***************************************************************************)
EXTENDS CircularBuffer, Sequences

CONSTANTS Elem,     \* the elements written
          Zero,     \* an all-zero element
          Capacity  \* the size argument of cbInit

ASSUME QueueAssumption == /\ Capacity \in Nat \ {0}
                          /\ Zero \in Elem

VARIABLES buffer,   \* the CircularBuffer
          elem      \* the ElemType that cbRead copies into

queueVars == <<buffer, elem>>

QueueTypeOK == /\ buffer \in Buffer(Capacity, Elem)
               /\ elem \in Elem

QueueInit == /\ buffer = cbInit(Capacity, Zero)
             /\ elem = Zero

Write(e) == /\ buffer' = cbWrite(buffer, e)
            /\ UNCHANGED elem

Read == /\ ~cbIsEmpty(buffer)
        /\ elem' = cbOldest(buffer)
        /\ buffer' = cbAdvanceStart(buffer)

QueueNext == Read \/ \E e \in Elem : Write(e)

QueueSpec == QueueInit /\ [][QueueNext]_queueVars

-----------------------------------------------------------------------------
Queue == INSTANCE DroppingQueue WITH queue <- cbContents(buffer)

\* Every run of the buffer is a run of the first-in first-out queue that
\* drops its oldest element when full (the comment above cbWrite).
ImplementsQueue == Queue!Spec

\* The open slot keeps full and empty apart whatever the wrap-around: the
\* buffer reports full exactly when it holds the number of elements it was
\* made for, and empty exactly when it holds none (cbIsFull, cbIsEmpty).
FullAndEmptyAreExact ==
    /\ cbIsFull(buffer)  <=> Len(cbContents(buffer)) = Capacity
    /\ cbIsEmpty(buffer) <=> cbContents(buffer) = << >>
=============================================================================
