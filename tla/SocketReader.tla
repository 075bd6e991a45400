---------------------------- MODULE SocketReader ----------------------------
(* The reader threads of TBBraw2h5 (socketReaderThread) and the globals they    *)
(* share with the main thread: a ring buffer of UDP frames, its two indices,    *)
(* the count of running threads and the flags that end them.  The main thread   *)
(* is the business of the modules that extend this one.                         *)
(*                                                                              *)
(* A frame is the number of its reception: recvfrom hands out 1, 2, 3, ...      *)
(* Thread <<e, p>> reads port p during event e, that is in the e-th call of     *)
(* readFromSockets (option keepRunning makes several).                          *)
EXTENDS Integers, Sequences

CONSTANTS
    Ports,          \* UDP ports given with -P
    BufSize,        \* input_buffer_size, in frames
    MaxFrames,      \* bound: frames the stations send
    MaxEvents,      \* bound: calls of readFromSockets
    StartSlices,    \* 5 second slices in startTimeout; 0 = wait without limit
    StayConnected   \* the argument stayConnected

ASSUME ReaderAssumption ==
    /\ Ports # {}
    /\ BufSize \in Nat /\ BufSize >= 3
    /\ MaxFrames \in Nat
    /\ MaxEvents \in Nat \ {0}
    /\ StartSlices \in Nat
    /\ StayConnected \in BOOLEAN

Events  == 1..MaxEvents
Threads == Events \X Ports
Slots   == 0..(BufSize - 1)
NoFrame == 0                  \* content of a slot no frame was stored in
Nobody  == <<0, 0>>           \* the mutex is free, the port is not bound
Port(t) == t[2]

VARIABLES
    alive,            \* the process has neither returned from main nor crashed
    slot,             \* inputBuffer_p
    inBufStorID, inBufProcessID,
    noFramesDropped, noRunning, terminateThreads,
    keepRunning, lastEvent,
    writeMutex,       \* the thread that holds it, or Nobody
    newBufID,         \* local of the thread that holds the mutex
    regR,             \* noRunning as read by the thread that decrements it
    rpc,              \* where each reader thread is
    slices,           \* what is left of startTimeout, per thread
    bound,            \* which thread's socket each port is bound to
    waiting,          \* frames in the kernel's buffer of that socket
    sent,             \* frames sent so far
    recvd,            \* history: frames recvfrom delivered so far
    lost              \* history: updates of noRunning overwritten: "inc", "dec"

threadVars == <<rpc, slices>>
ringVars   == <<slot, inBufStorID, noFramesDropped, newBufID, recvd>>
flagVars   == <<terminateThreads, keepRunning, lastEvent>>
netVars    == <<bound, waiting, sent>>
countVars  == <<noRunning, regR, lost>>
readerVars == <<alive, ringVars, inBufProcessID, flagVars, netVars, countVars,
                threadVars, writeMutex>>

ReaderPC == {"none", "socket", "wait", "main", "select", "recv", "publish",
             "end", "endDec", "close", "quit", "quitDec", "done"}
HoldsMutex == {"recv", "publish", "endDec", "quitDec"}

\* Fault: wraps one index late.
NextSlotLate(i) == IF i >= BufSize THEN 0 ELSE i + 1

\* The index after i, wrapped the way the code wraps it.
NextSlot(i) == IF i + 1 >= BufSize THEN 0 ELSE i + 1

\* Frames stored and not yet processed.
Cached == (inBufStorID - inBufProcessID + BufSize) % BufSize

ReaderTypeOK ==
    /\ alive \in BOOLEAN
    /\ slot \in [Slots -> Nat]
    /\ inBufStorID \in Slots /\ inBufProcessID \in Slots /\ newBufID \in Slots
    /\ noFramesDropped \in Nat
    /\ noRunning \in Int /\ regR \in Int
    /\ lost \subseteq {"inc", "dec"}
    /\ terminateThreads \in BOOLEAN
    /\ keepRunning \in BOOLEAN /\ lastEvent \in BOOLEAN
    /\ writeMutex \in Threads \cup {Nobody}
    /\ rpc \in [Threads -> ReaderPC]
    /\ slices \in [Threads -> 0..StartSlices]
    /\ bound \in [Ports -> Threads \cup {Nobody}]
    /\ waiting \in [Ports -> Nat]
    /\ sent \in 0..MaxFrames /\ recvd \in Nat

ReaderInit ==
    /\ alive = TRUE
    /\ slot = [s \in Slots |-> NoFrame]
    /\ inBufStorID = 0 /\ inBufProcessID = 0 /\ newBufID = 0
    /\ noFramesDropped = 0
    /\ noRunning = 0 /\ regR = 0 /\ lost = {}
    /\ terminateThreads = FALSE
    /\ keepRunning \in BOOLEAN /\ lastEvent = FALSE
    /\ writeMutex = Nobody
    /\ rpc = [t \in Threads |-> "none"]
    /\ slices = [t \in Threads |-> StartSlices]
    /\ bound = [p \in Ports |-> Nobody]
    /\ waiting = [p \in Ports |-> 0]
    /\ sent = 0 /\ recvd = 0

-----------------------------------------------------------------------------
(* Environment.                                                                 *)

\* A station sends a frame to a bound port; the kernel queues it.
Arrive(p) ==
    /\ alive
    /\ bound[p] # Nobody
    /\ sent < MaxFrames
    /\ sent' = sent + 1
    /\ waiting' = [waiting EXCEPT ![p] = @ + 1]
    /\ UNCHANGED <<alive, ringVars, inBufProcessID, flagVars, bound, countVars,
                   threadVars, writeMutex>>

\* signal_callback_handler: SIGTERM.
Signal ==
    /\ alive /\ ~lastEvent
    /\ keepRunning' = FALSE
    /\ lastEvent' = TRUE
    /\ UNCHANGED <<alive, ringVars, inBufProcessID, terminateThreads, netVars,
                   countVars, threadVars, writeMutex>>

-----------------------------------------------------------------------------
(* socketReaderThread, thread t.                                                *)

Goto(t, from, to) == alive /\ rpc[t] = from /\ rpc' = [rpc EXCEPT ![t] = to]

\* bind succeeds: the port is free.
BindOK(t) ==
    /\ Goto(t, "socket", "wait")
    /\ bound[Port(t)] = Nobody
    /\ bound' = [bound EXCEPT ![Port(t)] = t]
    /\ UNCHANGED <<alive, ringVars, inBufProcessID, flagVars, waiting, sent,
                   countVars, slices, writeMutex>>

\* socket or bind fails, be it because another program has the port.
BindFails(t) ==
    /\ Goto(t, "socket", "quit")
    /\ UNCHANGED <<alive, ringVars, inBufProcessID, flagVars, netVars, countVars,
                   slices, writeMutex>>

\* Waiting for the first data: data is there, or the loop's condition is false.
FirstData(t) ==
    /\ Goto(t, "wait", "main")
    /\ \/ terminateThreads
       \/ StartSlices > 0 /\ slices[t] = 0
       \/ waiting[Port(t)] > 0
    /\ UNCHANGED <<alive, ringVars, inBufProcessID, flagVars, netVars, countVars,
                   slices, writeMutex>>

\* Fault: a thread that waits for its first data does not look at lastEvent.
WaitTimeoutDeaf(t) ==
    /\ alive /\ rpc[t] = "wait"
    /\ ~terminateThreads
    /\ waiting[Port(t)] = 0
    /\ StartSlices > 0 => slices[t] > 0
    /\ slices' = IF StartSlices > 0 THEN [slices EXCEPT ![t] = @ - 1] ELSE slices
    /\ UNCHANGED <<alive, ringVars, inBufProcessID, flagVars, netVars, countVars,
                   rpc, writeMutex>>

\* One slice of that wait runs out; a thread that sees lastEvent gives up, and
\* leaves its socket open.
WaitTimeout(t) ==
    /\ alive /\ rpc[t] = "wait"
    /\ ~terminateThreads
    /\ waiting[Port(t)] = 0
    /\ StartSlices > 0 => slices[t] > 0
    /\ slices' = IF StartSlices > 0 THEN [slices EXCEPT ![t] = @ - 1] ELSE slices
    /\ rpc' = IF lastEvent THEN [rpc EXCEPT ![t] = "quit"] ELSE rpc
    /\ UNCHANGED <<alive, ringVars, inBufProcessID, flagVars, netVars, countVars,
                   writeMutex>>

\* while (ImRunning && !terminateThreads)
LoopTest(t) ==
    /\ alive /\ rpc[t] = "main"
    /\ rpc' = [rpc EXCEPT ![t] = IF terminateThreads THEN "end" ELSE "select"]
    /\ UNCHANGED <<alive, ringVars, inBufProcessID, flagVars, netVars, countVars,
                   slices, writeMutex>>

\* Faults: the buffer is never found full, writeMutex is not waited for, or the
\* new index is published before recvfrom has filled the slot.
ChooseSlotUnchecked(t) ==
    /\ Goto(t, "select", "recv")
    /\ waiting[Port(t)] > 0
    /\ writeMutex = Nobody
    /\ writeMutex' = t
    /\ newBufID' = NextSlot(inBufStorID)
    /\ UNCHANGED <<alive, slot, inBufStorID, noFramesDropped, recvd, inBufProcessID,
                   flagVars, netVars, countVars, slices>>

ChooseSlotUnlocked(t) ==
    /\ Goto(t, "select", "recv")
    /\ waiting[Port(t)] > 0
    /\ writeMutex' = t
    /\ LET full == NextSlot(inBufStorID) = inBufProcessID IN
         /\ newBufID' = IF full THEN inBufStorID ELSE NextSlot(inBufStorID)
         /\ noFramesDropped' = IF full THEN noFramesDropped + 1 ELSE noFramesDropped
    /\ UNCHANGED <<alive, slot, inBufStorID, recvd, inBufProcessID, flagVars,
                   netVars, countVars, slices>>

ChooseSlotPublished(t) ==
    /\ Goto(t, "select", "recv")
    /\ waiting[Port(t)] > 0
    /\ writeMutex = Nobody
    /\ writeMutex' = t
    /\ LET full == NextSlot(inBufStorID) = inBufProcessID IN
         /\ newBufID' = IF full THEN inBufStorID ELSE NextSlot(inBufStorID)
         /\ inBufStorID' = newBufID'
         /\ noFramesDropped' = IF full THEN noFramesDropped + 1 ELSE noFramesDropped
    /\ UNCHANGED <<alive, slot, recvd, inBufProcessID, flagVars, netVars, countVars,
                   slices>>

\* select sees a frame; the thread takes writeMutex and chooses the slot: the
\* next one, or the last one again when the buffer is full.
ChooseSlot(t) ==
    /\ Goto(t, "select", "recv")
    /\ waiting[Port(t)] > 0
    /\ writeMutex = Nobody
    /\ writeMutex' = t
    /\ LET full == NextSlot(inBufStorID) = inBufProcessID IN
         /\ newBufID' = IF full THEN inBufStorID ELSE NextSlot(inBufStorID)
         /\ noFramesDropped' = IF full THEN noFramesDropped + 1 ELSE noFramesDropped
    /\ UNCHANGED <<alive, slot, inBufStorID, recvd, inBufProcessID, flagVars,
                   netVars, countVars, slices>>

\* recvfrom copies the frame into the slot.
RecvFrom(t) ==
    /\ Goto(t, "recv", "publish")
    /\ recvd' = recvd + 1
    /\ slot' = [slot EXCEPT ![newBufID] = recvd + 1]
    /\ waiting' = [waiting EXCEPT ![Port(t)] = @ - 1]
    /\ UNCHANGED <<alive, inBufStorID, noFramesDropped, newBufID, inBufProcessID,
                   flagVars, bound, sent, countVars, slices, writeMutex>>

\* inBufStorID = newBufID, and the end of the scope that holds writeMutex.
Publish(t) ==
    /\ Goto(t, "publish", "main")
    /\ inBufStorID' = newBufID
    /\ writeMutex' = Nobody
    /\ UNCHANGED <<alive, slot, noFramesDropped, newBufID, recvd, inBufProcessID,
                   flagVars, netVars, countVars, slices>>

\* Fault: a thread that stays connected does not look at lastEvent.
ReadTimeoutDeaf(t) ==
    /\ alive /\ rpc[t] = "select"
    /\ waiting[Port(t)] = 0
    /\ rpc' = [rpc EXCEPT ![t] = IF ~StayConnected THEN "end" ELSE "main"]
    /\ UNCHANGED <<alive, ringVars, inBufProcessID, flagVars, netVars, countVars,
                   slices, writeMutex>>

\* select runs into readTimeout with nothing there.
ReadTimeout(t) ==
    /\ alive /\ rpc[t] = "select"
    /\ waiting[Port(t)] = 0
    /\ rpc' = [rpc EXCEPT ![t] = IF ~StayConnected \/ lastEvent THEN "end" ELSE "main"]
    /\ UNCHANGED <<alive, ringVars, inBufProcessID, flagVars, netVars, countVars,
                   slices, writeMutex>>

\* noRunning-- under writeMutex, in two steps: the read ...
DecRead(t) ==
    /\ alive
    /\ writeMutex = Nobody
    /\ \/ Goto(t, "end", "endDec")
       \/ Goto(t, "quit", "quitDec")
    /\ writeMutex' = t
    /\ regR' = noRunning
    /\ UNCHANGED <<alive, ringVars, inBufProcessID, flagVars, netVars, noRunning,
                   lost, slices>>

\* The updates that a write undoes: those made to noRunning since it was read.
Overwritten(read) ==
    {u \in {"inc", "dec"} : IF u = "inc" THEN read < noRunning ELSE read > noRunning}

\* Fault: a thread that gives up before its first data is not counted out.
DecWriteAtEnd(t) ==
    /\ \/ Goto(t, "endDec", "close") /\ noRunning' = noRunning - 1
       \/ Goto(t, "quitDec", "done") /\ noRunning' = noRunning
    /\ writeMutex' = Nobody
    /\ UNCHANGED <<alive, ringVars, inBufProcessID, flagVars, netVars, regR, lost,
                   slices>>

\* ... and the write, whatever the main thread's noRunning++ has made of it meanwhile.
DecWrite(t) ==
    /\ \/ Goto(t, "endDec", "close")
       \/ Goto(t, "quitDec", "done")
    /\ noRunning' = regR - 1
    /\ lost' = lost \cup Overwritten(regR)
    /\ writeMutex' = Nobody
    /\ UNCHANGED <<alive, ringVars, inBufProcessID, flagVars, netVars, regR, slices>>

\* close(main_socket): what the kernel still holds is gone.
CloseSocket(t) ==
    /\ Goto(t, "close", "done")
    /\ bound' = [bound EXCEPT ![Port(t)] = Nobody]
    /\ waiting' = [waiting EXCEPT ![Port(t)] = 0]
    /\ UNCHANGED <<alive, ringVars, inBufProcessID, flagVars, sent, countVars,
                   slices, writeMutex>>

ReaderStep(t) ==
    \/ BindOK(t) \/ BindFails(t)
    \/ FirstData(t) \/ WaitTimeout(t)
    \/ LoopTest(t) \/ ChooseSlot(t) \/ RecvFrom(t) \/ Publish(t) \/ ReadTimeout(t)
    \/ DecRead(t) \/ DecWrite(t) \/ CloseSocket(t)
-----------------------------------------------------------------------------
(* What the properties of both modes, and their proofs, speak of.               *)

Bit(b) == IF b THEN 1 ELSE 0

\* The thread that holds the mutex is about to store its frame over the last one of
\* a full buffer.
OverflowPending ==
    /\ writeMutex # Nobody
    /\ rpc[writeMutex] = "recv"
    /\ newBufID = inBufStorID

\* It has stored its frame in the next slot, and not yet moved inBufStorID there.
StorePending ==
    /\ writeMutex # Nobody
    /\ rpc[writeMutex] = "publish"
    /\ newBufID # inBufStorID

\* The mutex admits one thread; a thread has its port to itself and has a frame to
\* read when it reads one; the thread that stores heads for the last slot or for a
\* free one; the frame it has stored and not published is the last one received, and
\* one it will store over another has been counted as dropped.
MutexInv == \A t \in Threads : rpc[t] \in HoldsMutex <=> writeMutex = t

HasSocket == {"wait", "main", "select", "recv", "publish", "end", "endDec", "close"}
SocketInv == \A t \in Threads :
    /\ rpc[t] \in HasSocket => bound[Port(t)] = t
    /\ rpc[t] = "recv" => waiting[Port(t)] > 0

SlotInv == \A t \in Threads : rpc[t] \in {"recv", "publish"} =>
    \/ newBufID = inBufStorID
    \/ newBufID = NextSlot(inBufStorID) /\ newBufID # inBufProcessID

PendingInv == StorePending => slot[newBufID] = recvd
OverflowInv == OverflowPending => noFramesDropped > 0

\* The frames h were taken out of the buffer in the order of their reception.
TakenInOrder(h) ==
    /\ \A i \in 1..Len(h) : h[i] \in 1..recvd
    /\ \A i \in 1..(Len(h) - 1) : h[i] < h[i + 1]

\* What that rests on: the frames still to be taken out, one stored and not yet
\* published included, are newer than those taken, and lie in the ring in the order
\* of their reception.
Place(s) == (s - inBufProcessID + BufSize) % BufSize
Filled == {s \in Slots : Place(s) \in 1..(Cached + Bit(StorePending))}

RingInOrder(h) ==
    /\ TakenInOrder(h)
    /\ \A s \in Filled : slot[s] \in 1..recvd /\ \A i \in 1..Len(h) : h[i] < slot[s]
    /\ \A r, s \in Filled : Place(r) < Place(s) => slot[r] < slot[s]

\* The threads that noRunning is there to count.
Counted(t) == rpc[t] \notin {"none", "close", "done"}
Running == {t \in Threads : Counted(t)}
=============================================================================
