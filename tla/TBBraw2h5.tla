----------------------------- MODULE TBBraw2h5 -----------------------------
(* TBBraw2h5 for a single station: main's keepRunning loop and readFromSockets, *)
(* which starts one reader thread per port, takes the frames out of the ring    *)
(* buffer, hands them to a TBBraw object and ends the threads when the event is *)
(* over.  What TBBraw makes of a frame is module TBBraw's business: here a      *)
(* frame is processed when it has been handed over.                             *)
EXTENDS SocketReader, FiniteSets

CONSTANTS
    WaitForAllPorts,  \* option -W
    IdlePolls,        \* 0.1 second polls in readTimeout
    OpenMayFail       \* the output file may fail to open

ASSUME MainAssumption ==
    /\ ~StayConnected
    /\ WaitForAllPorts \in BOOLEAN
    /\ IdlePolls \in Nat
    /\ OpenMayFail \in BOOLEAN

VARIABLES
    mpc,              \* where the main thread is
    event,            \* which call of readFromSockets this is
    toStart,          \* ports whose thread is yet to be created
    regM,             \* noRunning as read by the main thread's noRunning++
    amWaiting, maxCachedFrames, processingID,
    tbb,              \* the TBBraw object: "null" or "open"
    processed,        \* history: frames handed to tbb, in order
    abandoned         \* history: frames in the buffer when an event replaced it

mainVars == <<mpc, event, toStart, regM, amWaiting, maxCachedFrames, processingID,
              tbb, processed, abandoned>>
vars == <<readerVars, mainVars>>

MainPC == {"init", "spawn", "inc", "incWrite", "loop", "process", "join",
           "finish", "stopped", "crashed"}

TypeOK ==
    /\ ReaderTypeOK
    /\ mpc \in MainPC
    /\ event \in Events
    /\ toStart \subseteq Ports
    /\ regM \in Int
    /\ amWaiting \in 0..(IdlePolls + 1)
    /\ maxCachedFrames \in 0..BufSize
    /\ processingID \in Slots
    /\ tbb \in {"null", "open"}
    /\ processed \in Seq(Nat)
    /\ abandoned \in Nat

Init ==
    /\ ReaderInit
    /\ mpc = "init" /\ event = 1
    /\ toStart = {} /\ regM = 0
    /\ amWaiting = 0 /\ maxCachedFrames = 0 /\ processingID = 0
    /\ tbb = "null"
    /\ processed = <<>> /\ abandoned = 0

-----------------------------------------------------------------------------
(* readFromSockets.                                                             *)

MainGoto(from, to) == mpc = from /\ mpc' = to

\* Fault: inBufStorID keeps its value from the event before.
StartEventKeepsIndex ==
    /\ MainGoto("init", "spawn")
    /\ terminateThreads' = FALSE
    /\ maxCachedFrames' = 0
    /\ inBufProcessID' = 0
    /\ noRunning' = 0
    /\ slot' = [s \in Slots |-> NoFrame]
    /\ toStart' = Ports
    /\ amWaiting' = 0
    /\ abandoned' = abandoned + Cached
    /\ UNCHANGED <<alive, inBufStorID, noFramesDropped, newBufID, recvd, keepRunning,
                   lastEvent, netVars, regR, lost, threadVars, writeMutex, event, regM,
                   processingID, tbb, processed>>

\* The globals are reset and a new, uninitialised buffer is allocated.
StartEvent ==
    /\ MainGoto("init", "spawn")
    /\ terminateThreads' = FALSE
    /\ maxCachedFrames' = 0
    /\ inBufProcessID' = 0 /\ inBufStorID' = 0
    /\ noRunning' = 0
    /\ slot' = [s \in Slots |-> NoFrame]
    /\ toStart' = Ports
    /\ amWaiting' = 0
    /\ abandoned' = abandoned + Cached
    /\ UNCHANGED <<alive, noFramesDropped, newBufID, recvd, keepRunning, lastEvent,
                   netVars, regR, lost, threadVars, writeMutex, event, regM,
                   processingID, tbb, processed>>

\* new boost::thread(socketReaderThread, ...)
SpawnThread(p) ==
    /\ MainGoto("spawn", "inc")
    /\ p \in toStart
    /\ toStart' = toStart \ {p}
    /\ rpc' = [rpc EXCEPT ![<<event, p>>] = "socket"]
    /\ UNCHANGED <<alive, ringVars, inBufProcessID, flagVars, netVars, countVars,
                   slices, writeMutex, event, regM, amWaiting, maxCachedFrames,
                   processingID, tbb, processed, abandoned>>

\* noRunning++ without the mutex, in two steps: the read ...
IncRead ==
    /\ MainGoto("inc", "incWrite")
    /\ regM' = noRunning
    /\ UNCHANGED <<readerVars, event, toStart, amWaiting, maxCachedFrames,
                   processingID, tbb, processed, abandoned>>

\* ... and the write.
IncWrite ==
    /\ mpc = "incWrite"
    /\ mpc' = IF toStart = {} THEN "loop" ELSE "spawn"
    /\ noRunning' = regM + 1
    /\ lost' = lost \cup Overwritten(regM)
    /\ UNCHANGED <<alive, ringVars, inBufProcessID, flagVars, netVars, regR,
                   threadVars, writeMutex, event, toStart, regM, amWaiting,
                   maxCachedFrames, processingID, tbb, processed, abandoned>>

\* Fault: the threads that are still waiting are never ended.
IdleForEver ==
    /\ mpc = "loop"
    /\ noRunning > 0
    /\ inBufStorID = inBufProcessID
    /\ amWaiting' = IF amWaiting > IdlePolls THEN amWaiting ELSE amWaiting + 1
    /\ UNCHANGED <<alive, ringVars, inBufProcessID, flagVars, netVars, countVars,
                   threadVars, writeMutex, mpc, event, toStart, regM,
                   maxCachedFrames, processingID, tbb, processed, abandoned>>

\* The loop's body on an empty buffer: sleep, and after readTimeout without any
\* frame end the threads that are still waiting.
Idle ==
    /\ mpc = "loop"
    /\ noRunning > 0
    /\ inBufStorID = inBufProcessID
    /\ amWaiting' = IF amWaiting > IdlePolls THEN amWaiting ELSE amWaiting + 1
    /\ terminateThreads' =
         (terminateThreads \/ (~WaitForAllPorts /\ maxCachedFrames > 0
                                /\ amWaiting' > IdlePolls))
    /\ UNCHANGED <<alive, ringVars, inBufProcessID, keepRunning, lastEvent, netVars,
                   countVars, threadVars, writeMutex, mpc, event, toStart, regM,
                   maxCachedFrames, processingID, tbb, processed, abandoned>>

\* The loop's body on a buffer that holds a frame, up to processTBBrawBlock.  The
\* first frame of an event opens the output file; if that fails readFromSockets
\* returns at once, and leaves its threads running.
TakeFrame ==
    /\ mpc = "loop"
    /\ inBufStorID # inBufProcessID
    /\ amWaiting' = 0
    /\ maxCachedFrames' = IF Cached > maxCachedFrames THEN Cached ELSE maxCachedFrames
    /\ processingID' = NextSlot(inBufProcessID)
    /\ tbb' = "open"
    /\ \/ mpc' = "process"
       \/ tbb = "null" /\ OpenMayFail /\ mpc' = "finish"
    /\ UNCHANGED <<readerVars, event, toStart, regM, processed, abandoned>>

\* Fault: the index moves on to the last frame stored.
ProcessFrameSkips ==
    /\ MainGoto("process", "loop")
    /\ processed' = Append(processed, slot[processingID])
    /\ inBufProcessID' = inBufStorID
    /\ UNCHANGED <<alive, ringVars, flagVars, netVars, countVars, threadVars,
                   writeMutex, event, toStart, regM, amWaiting, maxCachedFrames,
                   processingID, tbb, abandoned>>

\* tbb->processTBBrawBlock(bufferPointer), inBufProcessID = processingID.
ProcessFrame ==
    /\ MainGoto("process", "loop")
    /\ processed' = Append(processed, slot[processingID])
    /\ inBufProcessID' = processingID
    /\ UNCHANGED <<alive, ringVars, flagVars, netVars, countVars, threadVars,
                   writeMutex, event, toStart, regM, amWaiting, maxCachedFrames,
                   processingID, tbb, abandoned>>

\* Fault: the loop ends as soon as no thread is running.
EndLoopEarly ==
    /\ MainGoto("loop", "join")
    /\ ~(noRunning > 0)
    /\ terminateThreads' = TRUE
    /\ UNCHANGED <<alive, ringVars, inBufProcessID, keepRunning, lastEvent, netVars,
                   countVars, threadVars, writeMutex, event, toStart, regM,
                   amWaiting, maxCachedFrames, processingID, tbb, processed,
                   abandoned>>

\* The loop ends: no thread is running and the buffer is empty.
EndLoop ==
    /\ MainGoto("loop", "join")
    /\ ~(noRunning > 0) /\ inBufStorID = inBufProcessID
    /\ terminateThreads' = TRUE
    /\ UNCHANGED <<alive, ringVars, inBufProcessID, keepRunning, lastEvent, netVars,
                   countVars, threadVars, writeMutex, event, toStart, regM,
                   amWaiting, maxCachedFrames, processingID, tbb, processed,
                   abandoned>>

\* All threads of this event have been joined.
Join ==
    /\ MainGoto("join", "finish")
    /\ \A p \in Ports : rpc[<<event, p>>] = "done"
    /\ UNCHANGED <<readerVars, event, toStart, regM, amWaiting, maxCachedFrames,
                   processingID, tbb, processed, abandoned>>

\* main: tbb->summary(), delete tbb, while (keepRunning).  There is no object to
\* summarise when the event brought no frame.
FinishEvent ==
    /\ mpc = "finish"
    /\ LET again == keepRunning /\ event < MaxEvents IN
         IF tbb = "null" THEN mpc' = "crashed" /\ alive' = FALSE /\ event' = event
         ELSE IF again THEN mpc' = "init" /\ event' = event + 1 /\ alive' = alive
         ELSE mpc' = "stopped" /\ alive' = FALSE /\ event' = event
    /\ tbb' = "null"
    /\ UNCHANGED <<ringVars, inBufProcessID, flagVars, netVars, countVars, threadVars,
                   writeMutex, toStart, regM, amWaiting, maxCachedFrames,
                   processingID, processed, abandoned>>

MainStep ==
    \/ StartEvent \/ (\E p \in Ports : SpawnThread(p)) \/ IncRead \/ IncWrite
    \/ Idle \/ TakeFrame \/ ProcessFrame \/ EndLoop \/ Join \/ FinishEvent

\* A step of a reader thread or of the environment leaves the main thread alone.
Others ==
    /\ \/ \E t \in Threads : ReaderStep(t)
       \/ \E p \in Ports : Arrive(p)
       \/ Signal
    /\ UNCHANGED mainVars

Ended == ~alive /\ UNCHANGED vars

Next == MainStep \/ Others \/ Ended

Spec == Init /\ [][Next]_vars

\* The operating system runs every thread, and every select ends.
Fairness ==
    /\ WF_vars(MainStep)
    /\ \A t \in Threads : WF_vars(ReaderStep(t) /\ UNCHANGED mainVars)

FairSpec == Spec /\ Fairness
-----------------------------------------------------------------------------
(* Properties.                                                                  *)

\* Every frame recvfrom delivered is in exactly one place: handed over to tbb, in
\* the buffer, on its way into it, or counted in noFramesDropped, whatever the main
\* thread, which reads the indices without the mutex, does in between.
FramesAccounted ==
    recvd + Bit(OverflowPending)
      = Len(processed) + Cached + Bit(StorePending) + noFramesDropped + abandoned

\* What FramesAccounted rests on, besides the reader threads' own invariants: threads
\* exist only for the events so far, and those of past events are done; the main
\* thread is at the slot after inBufProcessID, in a buffer that is not empty.
StartInv ==
    /\ \A t \in Threads :
         t[1] > event \/ (t[1] = event /\ mpc = "init") => rpc[t] = "none"
    /\ mpc # "init" => \A p \in toStart : rpc[<<event, p>>] = "none"
    /\ mpc \notin {"init", "spawn", "inc", "incWrite"} => toStart = {}

DoneInv == ~OpenMayFail => \A t \in Threads :
    t[1] < event \/ (t[1] = event /\ mpc \in {"finish", "stopped", "crashed"})
        => rpc[t] = "done"

ProcessInv == mpc = "process" =>
    /\ inBufStorID # inBufProcessID
    /\ processingID = NextSlot(inBufProcessID)

\* No frame is handed over twice, out of order, or before it was received: neither
\* the reuse of the last slot on overflow nor the wrap of the two indices, nor the
\* next event's new buffer, makes the main thread take a slot it has taken before.
ProcessedInOrder == TakenInOrder(processed)

OrderInv == RingInOrder(processed)

\* What the end of the loop rests on: but for a thread that main has just started,
\* noRunning falls short of the number of running threads only when an increment was
\* overwritten, and exceeds it only when a decrement was.  So none is left when it is
\* 0 and no increment was, and the buffer stays empty until the next event.
CountInv == mpc # "init" =>
    LET counted == noRunning + Bit(mpc \in {"inc", "incWrite"}) IN
      /\ IsFiniteSet(Running)
      /\ "inc" \notin lost => counted >= Cardinality(Running)
      /\ "dec" \notin lost => counted <= Cardinality(Running)

Settled == inBufStorID = inBufProcessID /\ Running = {}

EventsSettle == MaxEvents = 1 \/ (~OpenMayFail /\ "inc" \notin lost)

SettledInv ==
    /\ ~OpenMayFail /\ "inc" \notin lost /\ mpc \in {"join", "finish", "stopped"} => Settled
    /\ EventsSettle => abandoned = 0 /\ (mpc = "init" => Settled)

\* Holds however the output file fares.
BaseInv == TypeOK /\ MutexInv /\ SocketInv /\ StartInv

\* Holds when the output file opens, and of the first event in any case.
IInv == /\ BaseInv /\ DoneInv /\ SlotInv /\ ProcessInv /\ FramesAccounted
        /\ OrderInv /\ PendingInv /\ CountInv /\ SettledInv

\* The loop of readFromSockets ends only when it leaves nothing behind: once it is
\* over, every frame that was received has been handed over or counted as dropped,
\* and no thread can store another one into the buffer that is about to be deleted.
\* Of the two updates that the race on noRunning can lose, only the main thread's
\* noRunning++ matters to that.
NothingLeftBehind ==
    mpc \in {"join", "finish", "stopped"} /\ "inc" \notin lost =>
        recvd = Len(processed) + noFramesDropped

\* noRunning, on which readFromSockets ends its loop, against the number of running
\* reader threads that its comment says it is, from when all have been started and
\* with noRunning++ and noRunning-- interleaved as the code lets them: it is too small
\* only when a noRunning-- has overwritten a noRunning++ of the main thread, and too
\* large only when a noRunning++ has overwritten a noRunning--.
NoRunningCounts == mpc \in {"loop", "process"} =>
    /\ noRunning < Cardinality(Running) => "inc" \in lost
    /\ noRunning > Cardinality(Running) => "dec" \in lost

\* What the comment at noRunning says: "number of running reader-threads".
NoRunningIsCount ==
    mpc \in {"loop", "process"} => noRunning = Cardinality(Running)

\* While processTBBrawBlock works on a slot no thread stores into it: the comment
\* in socketReaderThread calls reading next to its writes O.K.
ProcessedSlotStable ==
    [][mpc = "process" => slot'[processingID] = slot[processingID]]_vars

\* Once the program was told to end it does, after the current event; nothing it
\* waits for, a silent port, a full buffer or a thread in its first wait, holds it;
\* only a noRunning-- that noRunning++ has overwritten does.
SignalEnds == lastEvent ~> ~alive \/ "dec" \in lost

\* The file of an event is closed some time after it was opened: when frames stop,
\* every thread leaves and the loop ends, also when one port never had any data,
\* unless a noRunning-- has been overwritten by a noRunning++.
EventCloses == [](tbb = "open" => <>(tbb = "null" \/ "dec" \in lost))

\* The signal handler promises to quit after the last event was written: a signal
\* does not make main summarise a TBBraw object that was never created.
SignalQuitsCleanly == lastEvent => mpc # "crashed"

\* keepRunning processes one event after the other: no thread of an event that is
\* over stores a frame into the buffer of the next one.
EventsSeparate ==
    \A t \in Threads : t[1] < event => rpc[t] \notin {"recv", "publish"}

\* The ring buffer as the bounded queue of module FrameBuffer: the frames between the
\* two indices, and those that were stored or given up.
SlotAt(k) == (inBufProcessID + k) % BufSize
Queue  == [k \in 1..Cached |-> slot[SlotAt(k)]]
Stored == recvd - Bit(StorePending)

Ring == INSTANCE FrameBuffer WITH
    Capacity    <- BufSize - 1,
    MaxReceived <- MaxFrames,
    queue       <- Queue,
    handedOut   <- processed,
    received    <- Stored,
    dropped     <- noFramesDropped,
    overflowing <- OverflowPending

\* The reader threads and the main thread together implement that queue, although
\* the main thread takes frames without the mutex the readers hold.
ImplementsBuffer == Ring!BufferSpec
=============================================================================
