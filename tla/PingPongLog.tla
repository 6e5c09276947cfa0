---------------------------- MODULE PingPongLog ----------------------------
(***************************************************************************)
(* One log direction of bbones/planebone/main_plane.c.  A communication    *)
(* thread stores every message it forwards into the write buffer; when     *)
(* that is full it swaps the two buffers and loses the message in hand.  A *)
(* logging thread drains the read buffer to the SD card.  The two threads  *)
(* share the buffers, the two pointers and reading_flag without any lock.  *)
(* The module takes one step per shared access, in program order, which is *)
(* what the BeagleBone's single core can show.                             *)
(*                                                                         *)
(* The lisa direction (LISA = TRUE) ends the program when the buffer is    *)
(* full and the logging thread is busy; the groundstation direction drops  *)
(* the message and prints.                                                 *)
(***************************************************************************)
EXTENDS CircularBuffer, Sequences, FiniteSets

CONSTANTS CBSIZE,       \* capacity of each buffer
          LISA,         \* TRUE: lisa direction, FALSE: groundstation direction
          PROMPT,       \* TRUE: the timing assumption Prompt below
          MaxMessages   \* bound: messages received in a run

ASSUME LogAssumption == /\ CBSIZE \in Nat \ {0}
                        /\ MaxMessages \in Nat
                        /\ LISA \in BOOLEAN
                        /\ PROMPT \in BOOLEAN

\* A message is its arrival number; 0 is the zeroed cb_elem.
Message == 0..MaxMessages

VARIABLES cb,           \* the buffers cb_data_*_ping and cb_data_*_pong
          cb_read,      \* which one the logging thread drains
          cb_write,     \* which one the communication thread fills
          reading_flag,
          received,     \* number of messages received so far
          wpc,          \* where the communication thread is
          temp,         \* its local in switch_cb_*_pointers
          rpc,          \* where the logging thread is
          cur,          \* the buffer its cbRead call was given
          cb_elem,      \* its local element
          log,          \* what it has written to the log file
          dropped       \* messages that were never stored

vars == <<cb, cb_read, cb_write, reading_flag, received, wpc, temp,
          rpc, cur, cb_elem, log, dropped>>

Buffers == {"ping", "pong"}

TypeOK == /\ cb \in [Buffers -> Buffer(CBSIZE, Message)]
          /\ cb_read \in Buffers
          /\ cb_write \in Buffers
          /\ reading_flag \in {0, 1}
          /\ received \in Message
          /\ wpc \in {"receive", "full?", "store", "end", "wrap", "flag?",
                      "swap1", "swap2", "exited"}
          /\ temp \in Buffers
          /\ rpc \in {"empty?", "raise", "call", "copy", "start", "write",
                      "lower"}
          /\ cur \in Buffers
          /\ cb_elem \in Message
          /\ log \in Seq(Message)
          /\ dropped \subseteq Message

Init == /\ cb = [b \in Buffers |-> cbInit(CBSIZE, 0)]
        /\ cb_read = "ping"
        /\ cb_write = "pong"
        /\ reading_flag = 0
        /\ received = 0
        /\ wpc = "receive"
        /\ temp = "ping"
        /\ rpc = "empty?"
        /\ cur = "ping"
        /\ cb_elem = 0
        /\ log = << >>
        /\ dropped = {}

running == wpc # "exited"

-----------------------------------------------------------------------------
(* The communication thread: lisa_to_pc, or the loop of main.              *)

writerOnly == <<cb_read, reading_flag, rpc, cur, cb_elem, log>>

\* The logging thread has raised its flag before the other buffer holds its
\* last free slot: the time to fill a buffer (16384 messages) exceeds the
\* logging thread's longest sleep.
Prompt == (PROMPT /\ cbCount(cb[cb_write]) >= CBSIZE - 1) =>
              (cbIsEmpty(cb[cb_read]) \/ reading_flag = 1)

Receive == /\ wpc = "receive"
           /\ received < MaxMessages
           /\ Prompt
           /\ received' = received + 1
           /\ wpc' = "full?"
           /\ UNCHANGED <<writerOnly, cb, cb_write, temp, dropped>>

\* Fault: no test of cbIsFull.
CheckNothing == /\ wpc = "full?"
                /\ wpc' = "store"
                /\ UNCHANGED <<writerOnly, cb, cb_write, received, temp, dropped>>

CheckFull == /\ wpc = "full?"
             /\ wpc' = IF cbIsFull(cb[cb_write]) THEN "flag?" ELSE "store"
             /\ UNCHANGED <<writerOnly, cb, cb_write, received, temp, dropped>>

\* The three statements of cbWrite(cb_write, &cb_elem).
StoreElem == /\ wpc = "store"
             /\ cb' = [cb EXCEPT ![cb_write] = cbStore(@, received)]
             /\ wpc' = "end"
             /\ UNCHANGED <<writerOnly, cb_write, received, temp, dropped>>

AdvanceEnd == /\ wpc = "end"
              /\ cb' = [cb EXCEPT ![cb_write] = cbAdvanceEnd(@)]
              /\ wpc' = "wrap"
              /\ UNCHANGED <<writerOnly, cb_write, received, temp, dropped>>

CheckOverwrite == /\ wpc = "wrap"
                  /\ cb' = [cb EXCEPT ![cb_write] = cbDropOldest(@)]
                  /\ wpc' = "receive"
                  /\ UNCHANGED <<writerOnly, cb_write, received, temp, dropped>>

\* reading_flag decides between the swap and losing the message; either way
\* the message in hand is not stored.
\* Fault: the buffers are swapped whatever reading_flag says.
IgnoreFlag == /\ wpc = "flag?"
              /\ dropped' = dropped \cup {received}
              /\ wpc' = "swap1"
              /\ temp' = cb_read
              /\ UNCHANGED <<writerOnly, cb, cb_write, received>>

CheckFlag == /\ wpc = "flag?"
             /\ dropped' = dropped \cup {received}
             /\ wpc' = CASE reading_flag = 0          -> "swap1"
                         [] reading_flag = 1 /\ LISA  -> "exited"
                         [] reading_flag = 1 /\ ~LISA -> "receive"
             /\ temp' = IF reading_flag = 0 THEN cb_read ELSE temp
             /\ UNCHANGED <<writerOnly, cb, cb_write, received>>

\* The last two of the three assignments of switch_cb_*_pointers.
SwapRead == /\ wpc = "swap1"
            /\ cb_read' = cb_write
            /\ wpc' = "swap2"
            /\ UNCHANGED <<cb, cb_write, reading_flag, received, temp, rpc,
                           cur, cb_elem, log, dropped>>

SwapWrite == /\ wpc = "swap2"
             /\ cb_write' = temp
             /\ wpc' = "receive"
             /\ UNCHANGED <<writerOnly, cb, received, temp, dropped>>

Writer == \/ Receive \/ CheckFull \/ StoreElem \/ AdvanceEnd \/ CheckOverwrite
          \/ CheckFlag \/ SwapRead \/ SwapWrite

-----------------------------------------------------------------------------
(* The logging thread: data_logging_lisa, data_logging_groundstation.      *)

readerOnly == <<cb_read, cb_write, received, wpc, temp, dropped>>

\* Fault: the logging thread does not test whether its buffer is empty.
AlwaysRaise == /\ running
               /\ rpc = "empty?"
               /\ rpc' = "raise"
               /\ UNCHANGED <<readerOnly, cb, reading_flag, cur, cb_elem, log>>

\* Fault: the logging thread tests the other buffer.
CheckOtherEmpty ==
    /\ running
    /\ rpc = "empty?"
    /\ rpc' = IF cbIsEmpty(cb[cb_write]) THEN "lower" ELSE "raise"
    /\ UNCHANGED <<readerOnly, cb, reading_flag, cur, cb_elem, log>>

CheckEmpty == /\ running
              /\ rpc = "empty?"
              /\ rpc' = IF cbIsEmpty(cb[cb_read]) THEN "lower" ELSE "raise"
              /\ UNCHANGED <<readerOnly, cb, reading_flag, cur, cb_elem, log>>

RaiseFlag == /\ running
             /\ rpc = "raise"
             /\ reading_flag' = 1
             /\ rpc' = "call"
             /\ UNCHANGED <<readerOnly, cb, cur, cb_elem, log>>

LowerFlag == /\ running
             /\ rpc = "lower"
             /\ reading_flag' = 0
             /\ rpc' = "empty?"
             /\ UNCHANGED <<readerOnly, cb, cur, cb_elem, log>>

\* The argument cb_read is evaluated anew when cbRead is called ...
CallRead == /\ running
            /\ rpc = "call"
            /\ cur' = cb_read
            /\ rpc' = "copy"
            /\ UNCHANGED <<readerOnly, cb, reading_flag, cb_elem, log>>

\* ... and cbRead works on that buffer whatever happens to the pointer.
CopyElem == /\ running
            /\ rpc = "copy"
            /\ cb_elem' = cbOldest(cb[cur])
            /\ rpc' = "start"
            /\ UNCHANGED <<readerOnly, cb, reading_flag, cur, log>>

\* Fault: the second statement of cbRead looks at the pointer again.
AdvanceCurrentStart ==
    /\ running
    /\ rpc = "start"
    /\ cb' = [cb EXCEPT ![cb_read] = cbAdvanceStart(@)]
    /\ rpc' = "write"
    /\ UNCHANGED <<readerOnly, reading_flag, cur, cb_elem, log>>

AdvanceStart == /\ running
                /\ rpc = "start"
                /\ cb' = [cb EXCEPT ![cur] = cbAdvanceStart(@)]
                /\ rpc' = "write"
                /\ UNCHANGED <<readerOnly, reading_flag, cur, cb_elem, log>>

WriteLog == /\ running
            /\ rpc = "write"
            /\ log' = Append(log, cb_elem)
            /\ rpc' = "empty?"
            /\ UNCHANGED <<readerOnly, cb, reading_flag, cur, cb_elem>>

Reader == \/ CheckEmpty \/ RaiseFlag \/ LowerFlag \/ CallRead \/ CopyElem
          \/ AdvanceStart \/ WriteLog

Next == Writer \/ Reader

Spec == Init /\ [][Next]_vars

\* Both threads keep being scheduled; messages need not keep coming.
FairSpec == Spec /\ WF_vars(Reader) /\ WF_vars(Writer /\ wpc # "receive")

-----------------------------------------------------------------------------
Held(b) == {cbContents(cb[b])[i] : i \in 1..cbCount(cb[b])}

Logged == {log[i] : i \in 1..Len(log)}

\* Messages the writer has in hand, and the one the reader took out of its
\* buffer and has not written yet.
WriterHolds == IF wpc \in {"full?", "store", "end", "flag?"} THEN {received}
                                                             ELSE {}
ReaderHolds == IF rpc = "write" THEN {cb_elem} ELSE {}

Places == <<WriterHolds, dropped, Held("ping"), Held("pong"), ReaderHolds, Logged>>

\* "App must ensure !cbIsEmpty() first" (circular_buffer.c): although the
\* emptiness check, the call and the two statements of cbRead are separate
\* steps and the pointer may be swapped between any two of them, cbRead never
\* takes an element out of an empty buffer.
ReadNonEmpty ==
    /\ rpc \in {"raise", "call"} => ~cbIsEmpty(cb[cb_read])
    /\ rpc \in {"copy", "start"} => ~cbIsEmpty(cb[cur])

\* The writer checks cbIsFull before cbWrite, so that the overwriting branch
\* of cbWrite is never taken, even when the reader still works on the buffer
\* that a swap has just handed to the writer.
NeverOverwrites == wpc = "wrap" => ~cbIsEmpty(cb[cb_write])

\* Every message received is in exactly one place: with the writer, counted
\* as dropped, in one of the buffers, with the reader, or in the log, and
\* there once.  No interleaving of the swap with a read loses or repeats one.
EveryMessageOnce ==
    /\ UNION {Places[i] : i \in 1..6} = 1..received
    /\ \A i, j \in 1..6 : i # j => Places[i] \cap Places[j] = {}
    /\ Len(log) = Cardinality(Logged)

\* With a prompt logging thread the log file has the order of arrival.
LogInOrder == \A i, j \in 1..Len(log) : i < j => log[i] < log[j]

\* With a prompt logging thread each lost message is paid for by a whole
\* buffer of stored ones (the lisa direction stops at the first other loss).
OneLossPerBuffer ==
    running => Cardinality(dropped) * CBSIZE
                 <= received - Cardinality(dropped)

\* The writer's new buffer has been drained when the swap hands it over.
SwapsInADrainedBuffer == wpc = "swap1" => cbIsEmpty(cb[cb_read])

\* What a swap has handed to the logging thread reaches the log file while the
\* program runs.
SwappedIsLogged ==
    \A n \in 1..MaxMessages : (n \in Held(cb_read)) ~> (n \in Logged \/ ~running)

-----------------------------------------------------------------------------
(* The inductive invariant behind ReadNonEmpty and NeverOverwrites.        *)

\* The reader is inside cbRead (between the call's two statements).
Reading == rpc \in {"copy", "start"}

\* The two pointers differ except between the two assignments of the swap.
PointersInv ==
    /\ wpc # "swap2" => cb_read # cb_write
    /\ wpc = "swap1" => temp = cb_read
    /\ wpc = "swap2" => cb_read = cb_write /\ temp # cb_write

\* The reader works on a buffer only with its flag raised, and does not start
\* on the buffer that a swap in progress is about to take from it.
FlagInv == /\ rpc \in {"call", "copy", "start", "write"} => reading_flag = 1
           /\ wpc = "swap1" /\ Reading => cur = cb_read

\* What the writer knows of its buffer: the reader may still take one element
\* out of it, never the one being written.
WriterInv ==
    /\ wpc \in {"store", "end"} => ~cbIsFull(cb[cb_write])
    /\ wpc = "wrap" => /\ ~cbIsEmpty(cb[cb_write])
                       /\ Reading /\ cur = cb_write => cbHasTwo(cb[cb_write])

\* A swap about to happen gives the reader something to read, or finds it
\* with nothing to read.
SwapInv ==
    /\ wpc = "flag?" => \/ ~cbIsEmpty(cb[cb_write])
                        \/ cbIsEmpty(cb[cb_read])
                        \/ reading_flag = 1 /\ rpc # "lower"
    /\ wpc = "swap1" => \/ ~cbIsEmpty(cb[cb_write])
                        \/ cbIsEmpty(cb[cb_read])

LogInv == /\ TypeOK
          /\ PointersInv
          /\ FlagInv
          /\ WriterInv
          /\ SwapInv
          /\ ReadNonEmpty

-----------------------------------------------------------------------------
(* What EveryMessageOnce rests on besides: no buffer holds a message twice,*)
(* the one stored and not counted yet is the one in the writer's hand, and *)
(* the reader's copy stays the oldest element of its buffer until it takes *)
(* that element out.                                                       *)

Distinct(s) == \A i, j \in 1..Len(s) : i # j => s[i] # s[j]

HandInv ==
    /\ \A b \in Buffers : Distinct(cbContents(cb[b]))
    /\ wpc = "end" => cb[cb_write].elems[cb[cb_write].end] = received
    /\ rpc = "start" => cb_elem = cbOldest(cb[cur])

-----------------------------------------------------------------------------
(* What the order of the log and the count of losses rest on, with a prompt*)
(* logging thread.                                                         *)

Increasing(s) == \A i, j \in 1..Len(s) : i < j => s[i] < s[j]

Before(A, B) == \A a \in A, b \in B : a < b

\* The flag is up for as long as there is something left of the last swap,
\* once the writer's buffer is all but full: a swap finds a drained buffer and
\* a logging thread that is not reading.
PromptInv ==
    /\ Reading => cur = cb_read
    /\ (rpc = "lower" /\ reading_flag = 1) => cbIsEmpty(cb[cb_read])
    /\ (wpc = "full?" /\ cbIsFull(cb[cb_write])) \/ wpc = "flag?" =>
           cbIsEmpty(cb[cb_read]) \/ reading_flag = 1
    /\ wpc = "flag?" => cbIsFull(cb[cb_write])
    /\ wpc = "swap1" => /\ cbIsEmpty(cb[cb_read])
                        /\ rpc \in {"empty?", "lower"} /\ reading_flag = 0
    /\ wpc = "swap2" => cbIsEmpty(cb[temp])

\* Logged, in the reader's hand, in its buffer, in the other one: in this order.
OrderInv ==
    /\ Increasing(log)
    /\ \A b \in Buffers : Increasing(cbContents(cb[b]))
    /\ Before(Logged, ReaderHolds)
    /\ \A b \in Buffers : Before(Logged \cup ReaderHolds, Held(b))
    /\ \A a, b \in Buffers : a = cb_read /\ b # a => Before(Held(a), Held(b))

\* The buffer the writer fills, or is about to.
Filling == IF wpc \in {"swap1", "swap2"} THEN cb[temp] ELSE cb[cb_write]

\* Every loss before the last swap is paid for, and what has come since is in
\* the writer's buffer or its hand.
LossInv ==
    running => Cardinality(dropped) * CBSIZE + cbCount(Filling)
                 <= received - Cardinality(dropped) - Cardinality(WriterHolds)
=============================================================================
