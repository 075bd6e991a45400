---------------------------- MODULE FrameBuffer ----------------------------
(* What the ring buffer between the reader threads and the main thread promises *)
(* its users, without slots, indices, threads or locks: a bounded queue that    *)
(* hands out frames in the order of their reception.  When it overflows one     *)
(* frame is given up, and counted: the newest one in the queue, or the one that *)
(* was to be stored.                                                            *)
EXTENDS Integers, Sequences

CONSTANTS Capacity,     \* frames the queue can hold
          MaxReceived   \* bound: frames received

VARIABLES queue,        \* frames stored and not yet handed out
          handedOut,    \* frames handed out
          received,     \* frames stored or given up so far
          dropped,      \* frames given up so far
          overflowing   \* a frame has been found not to fit

bufferVars == <<queue, handedOut, received, dropped, overflowing>>

FrameNumbers == 1..MaxReceived

BufferInit ==
    /\ queue = <<>> /\ handedOut = <<>>
    /\ received = 0 /\ dropped = 0
    /\ overflowing = FALSE

\* A frame is stored behind the others.
Store ==
    /\ ~overflowing
    /\ Len(queue) < Capacity
    /\ received' = received + 1
    /\ queue' = Append(queue, received')
    /\ UNCHANGED <<handedOut, dropped, overflowing>>

\* The queue is full when a frame comes: one frame is counted as dropped.
Overflow ==
    /\ ~overflowing
    /\ Len(queue) = Capacity
    /\ overflowing' = TRUE
    /\ dropped' = dropped + 1
    /\ UNCHANGED <<queue, handedOut, received>>

\* The frame that did not fit replaces the newest one of the queue ...
Replace ==
    /\ overflowing
    /\ queue # <<>>
    /\ received' = received + 1
    /\ queue' = [queue EXCEPT ![Len(queue)] = received']
    /\ overflowing' = FALSE
    /\ UNCHANGED <<handedOut, dropped>>

\* ... or is itself lost, when the queue was emptied in the meantime.
Lose ==
    /\ overflowing
    /\ queue = <<>>
    /\ received' = received + 1
    /\ overflowing' = FALSE
    /\ UNCHANGED <<queue, handedOut, dropped>>

\* The oldest frame is handed out.
HandOut ==
    /\ queue # <<>>
    /\ handedOut' = Append(handedOut, Head(queue))
    /\ queue' = Tail(queue)
    /\ UNCHANGED <<received, dropped, overflowing>>

BufferNext == Store \/ Overflow \/ Replace \/ Lose \/ HandOut

BufferSpec == BufferInit /\ [][BufferNext]_bufferVars
=============================================================================
