----------------------- MODULE TBBraw2h5_proofs -----------------------
(* Proofs about TBBraw2h5, for every value of its constants: type correctness,  *)
(* mutual exclusion of the reader threads, that no frame is lost track of or    *)
(* taken out of order between recvfrom and processTBBrawBlock, and that an      *)
(* event leaves nothing behind.  One lemma per part of the inductive invariant; *)
(* what a step of the reader threads keeps is proved in SocketReader_proofs,    *)
(* here there is one step per action of the main thread.  Last, that the ring   *)
(* buffer with its slots, indices, lock and threads implements the bounded      *)
(* queue of module FrameBuffer: one lemma per step that moves a frame.          *)
EXTENDS TBBraw2h5, SocketReader_proofs, SequenceTheorems

\* The thread of a port in the current event.
LEMMA ThreadOf ==
    ASSUME NEW p \in Ports, event \in Events PROVE <<event, p>> \in Threads
  BY DEF Threads

\* A step that is not the main thread's is one of the readers, or of the outside.
LEMMA OthersMove == ASSUME Others PROVE ReaderMove /\ UNCHANGED mainVars
  BY DEF Others, ReaderMove

\* A thread belongs to a past, the current or a coming event.
LEMMA EventOrder ==
    ASSUME TypeOK, NEW t \in Threads
    PROVE  t[1] < event \/ t[1] = event \/ t[1] > event
  BY DEF TypeOK, Threads, Events

\* The threads of one event do not meet those of the next: files open, or there is
\* no next event.
EventsApart == ~OpenMayFail \/ MaxEvents = 1

\* Between two events no thread runs.
LEMMA QuietAtInit ==
    ASSUME EventsApart, TypeOK, StartInv, DoneInv, mpc = "init", NEW t \in Threads
    PROVE  rpc[t] \in {"none", "done"}
<1>1. CASE t[1] < event
  <2>1. t[1] \in Events /\ event \in Events
    BY DEF TypeOK, Threads
  <2>2. ~OpenMayFail
    BY <1>1, <2>1 DEF EventsApart, Events
  <2>. QED BY <1>1, <2>2 DEF DoneInv
<1>2. CASE t[1] = event
  BY <1>2 DEF StartInv
<1>3. CASE t[1] > event
  BY <1>3 DEF StartInv
<1>. QED BY <1>1, <1>2, <1>3, EventOrder

\* Every step keeps every variable in its type.
LEMMA TypeStep == ASSUME BaseInv, [Next]_vars PROVE TypeOK'
<1>. USE DEF BaseInv, TypeOK, ReaderTypeOK, vars, mainVars, readerVars, ringVars,
    flagVars, netVars,
           countVars, threadVars
<1>1. CASE Others
  <2>1. ReaderMove /\ UNCHANGED mainVars
    BY <1>1, OthersMove
  <2>2. ReaderTypeOK'
    <3>. HIDE DEF ReaderTypeOK
    <3>. QED BY <2>1, ReaderType
  <2>. QED BY <2>1, <2>2
<1>2. CASE StartEvent
  <2>1. Cached \in Nat
    BY CachedType
  <2>2. abandoned' \in Nat
    BY <2>1, <1>2 DEF StartEvent
  <2>3. 0 \in Slots /\ 0 \in 0..BufSize /\ 0 \in 0..(IdlePolls + 1)
    BY ReaderAssumption, MainAssumption DEF Slots
  <2>4. slot' \in [Slots -> Nat]
    BY <1>2 DEF StartEvent, NoFrame
  <2>5. inBufStorID' \in Slots /\ inBufProcessID' \in Slots /\ newBufID' \in Slots
    BY <2>3, <1>2 DEF StartEvent
  <2>6. /\ noRunning' \in Int /\ regR' \in Int /\ lost' = lost
        /\ recvd' \in Nat /\ noFramesDropped' \in Nat
    BY <1>2 DEF StartEvent
  <2>7. /\ alive' \in BOOLEAN /\ terminateThreads' \in BOOLEAN
        /\ keepRunning' \in BOOLEAN /\ lastEvent' \in BOOLEAN
    BY <1>2 DEF StartEvent
  <2>8. /\ writeMutex' = writeMutex /\ rpc' = rpc /\ slices' = slices
        /\ bound' = bound /\ waiting' = waiting /\ sent' = sent
    BY <1>2 DEF StartEvent
  <2>9. /\ mpc' \in MainPC /\ event' = event /\ toStart' = Ports /\ regM' = regM
        /\ amWaiting' \in 0..(IdlePolls + 1) /\ maxCachedFrames' \in 0..BufSize
        /\ processingID' = processingID /\ tbb' = tbb /\ processed' = processed
    BY <2>3, <1>2 DEF StartEvent, MainGoto, MainPC
  <2>. QED BY <2>2, <2>4, <2>5, <2>6, <2>7, <2>8, <2>9
<1>3. ASSUME NEW p \in Ports, SpawnThread(p) PROVE TypeOK'
  <2>1. <<event, p>> \in Threads
    BY ThreadOf
  <2>2. rpc' \in [Threads -> ReaderPC]
    BY <2>1, <1>3 DEF SpawnThread, ReaderPC
  <2>. QED BY <2>2, <1>3 DEF SpawnThread, MainGoto, MainPC
<1>4. CASE IncRead
  BY <1>4 DEF IncRead, MainGoto, MainPC
<1>5. CASE IncWrite
  <2>1. lost' \subseteq {"inc", "dec"}
    BY <1>5, OverwrittenType DEF IncWrite
  <2>2. noRunning' \in Int
    BY <1>5 DEF IncWrite
  <2>. QED BY <2>1, <2>2, <1>5 DEF IncWrite, MainGoto, MainPC
<1>6. CASE Idle
  <2>1. amWaiting' \in 0..(IdlePolls + 1)
    BY <1>6, MainAssumption DEF Idle
  <2>. QED BY <2>1, <1>6 DEF Idle
<1>7. CASE TakeFrame
  <2>1. maxCachedFrames' \in 0..BufSize
    BY <1>7, CachedValue, ReaderAssumption DEF TakeFrame, Slots
  <2>2. processingID' \in Slots /\ amWaiting' \in 0..(IdlePolls + 1)
    BY <1>7, SlotNext, MainAssumption DEF TakeFrame
  <2>. QED BY <2>1, <2>2, <1>7 DEF TakeFrame, MainPC
<1>8. CASE ProcessFrame
  BY <1>8 DEF ProcessFrame, MainGoto, MainPC
<1>9. CASE EndLoop
  BY <1>9 DEF EndLoop, MainGoto, MainPC
<1>10. CASE Join
  BY <1>10 DEF Join, MainGoto, MainPC
<1>11. CASE FinishEvent
  <2>1. event' \in Events /\ mpc' \in MainPC /\ alive' \in BOOLEAN
    <3>1. CASE tbb = "null"
      BY <3>1, <1>11 DEF FinishEvent, MainPC
    <3>2. CASE tbb # "null" /\ keepRunning /\ event < MaxEvents
      <4>1. event + 1 \in Events
        BY <3>2, ReaderAssumption DEF Events
      <4>. QED BY <3>2, <4>1, <1>11 DEF FinishEvent, MainPC
    <3>3. CASE tbb # "null" /\ ~(keepRunning /\ event < MaxEvents)
      BY <3>3, <1>11 DEF FinishEvent, MainPC
    <3>. QED BY <3>1, <3>2, <3>3
  <2>. QED BY <2>1, <1>11 DEF FinishEvent
<1>12. CASE UNCHANGED vars
  BY <1>12
<1>. QED BY <1>1, <1>2, <1>3, <1>4, <1>5, <1>6, <1>7, <1>8, <1>9, <1>10, <1>11,
    <1>12 DEF Next, MainStep, Ended

\* At most one thread is between taking and releasing writeMutex.
LEMMA MutexStep == ASSUME BaseInv, [Next]_vars PROVE MutexInv'
<1>. USE DEF BaseInv, MutexInv, HoldsMutex, vars, mainVars, readerVars, ringVars,
    flagVars, netVars, countVars, threadVars
<1>. rpc \in [Threads -> ReaderPC] /\ Nobody \notin Threads
  BY NobodyIsNoThread DEF TypeOK, ReaderTypeOK
<1>1. CASE Others
  BY <1>1, OthersMove, ReaderMutex DEF TypeOK
<1>2. CASE StartEvent
  BY <1>2 DEF StartEvent
<1>3. ASSUME NEW p \in Ports, SpawnThread(p) PROVE MutexInv'
  <2>1. <<event, p>> \in Threads
    BY ThreadOf DEF TypeOK
  <2>2. rpc[<<event, p>>] = "none"
    BY <1>3 DEF SpawnThread, MainGoto, StartInv
  <2>. QED BY <2>1, <2>2, <1>3 DEF SpawnThread
<1>4. CASE IncRead
  BY <1>4 DEF IncRead, MainGoto
<1>5. CASE IncWrite
  BY <1>5 DEF IncWrite, MainGoto
<1>6. CASE Idle
  BY <1>6 DEF Idle, MainGoto
<1>7. CASE TakeFrame
  BY <1>7 DEF TakeFrame, MainGoto
<1>8. CASE ProcessFrame
  BY <1>8 DEF ProcessFrame, MainGoto
<1>9. CASE EndLoop
  BY <1>9 DEF EndLoop, MainGoto
<1>10. CASE Join
  BY <1>10 DEF Join, MainGoto
<1>11. CASE FinishEvent
  BY <1>11 DEF FinishEvent, MainGoto
<1>12. CASE UNCHANGED vars
  BY <1>12
<1>. QED BY <1>1, <1>2, <1>3, <1>4, <1>5, <1>6, <1>7, <1>8, <1>9, <1>10, <1>11,
    <1>12 DEF Next, MainStep, Ended

\* A port belongs to one thread, and a thread that reads has a frame to read.
LEMMA SocketStep == ASSUME BaseInv, [Next]_vars PROVE SocketInv'
<1>. USE DEF BaseInv, SocketInv, HasSocket, vars, mainVars, readerVars, ringVars,
    flagVars, netVars, countVars, threadVars
<1>. /\ rpc \in [Threads -> ReaderPC] /\ bound \in [Ports -> Threads \cup {Nobody}]
     /\ waiting \in [Ports -> Nat]
  BY DEF TypeOK, ReaderTypeOK
<1>. Nobody \notin Threads /\ \A t \in Threads : Port(t) \in Ports
  BY NobodyIsNoThread, PortOf
<1>1. CASE Others
  BY <1>1, OthersMove, ReaderSocket DEF TypeOK
<1>2. CASE StartEvent
  BY <1>2 DEF StartEvent, MainGoto
<1>3. ASSUME NEW p \in Ports, SpawnThread(p) PROVE SocketInv'
  <2>1. <<event, p>> \in Threads
    BY ThreadOf DEF TypeOK
  <2>. QED BY <2>1, <1>3 DEF SpawnThread
<1>4. CASE IncRead
  BY <1>4 DEF IncRead, MainGoto
<1>5. CASE IncWrite
  BY <1>5 DEF IncWrite, MainGoto
<1>6. CASE Idle
  BY <1>6 DEF Idle, MainGoto
<1>7. CASE TakeFrame
  BY <1>7 DEF TakeFrame, MainGoto
<1>8. CASE ProcessFrame
  BY <1>8 DEF ProcessFrame, MainGoto
<1>9. CASE EndLoop
  BY <1>9 DEF EndLoop, MainGoto
<1>10. CASE Join
  BY <1>10 DEF Join, MainGoto
<1>11. CASE FinishEvent
  BY <1>11 DEF FinishEvent, MainGoto
<1>12. CASE UNCHANGED vars
  BY <1>12
<1>. QED BY <1>1, <1>2, <1>3, <1>4, <1>5, <1>6, <1>7, <1>8, <1>9, <1>10, <1>11,
    <1>12 DEF Next, MainStep, Ended

\* A thread does not exist before it is created.
LEMMA StartStep == ASSUME BaseInv, [Next]_vars PROVE StartInv'
<1>. USE DEF BaseInv, StartInv, MainPC, vars, mainVars, readerVars, ringVars,
    flagVars, netVars, countVars, threadVars
<1>. /\ rpc \in [Threads -> ReaderPC] /\ event \in Nat /\ toStart \subseteq Ports
     /\ mpc \in MainPC
  BY DEF TypeOK, ReaderTypeOK, Events
<1>. \A t \in Threads : t[1] \in Nat /\ t[2] \in Ports /\ t = <<t[1], t[2]>>
  BY DEF Threads, Events
<1>. \A p \in Ports : <<event, p>> \in Threads
  BY ThreadOf DEF TypeOK
<1>1. CASE Others
  BY <1>1, OthersMove, ReaderStays DEF RpcStays, TypeOK
<1>2. CASE StartEvent
  BY <1>2 DEF StartEvent, MainGoto
<1>3. ASSUME NEW p \in Ports, SpawnThread(p) PROVE StartInv'
  BY <1>3 DEF SpawnThread, MainGoto
<1>4. CASE IncRead
  BY <1>4 DEF IncRead, MainGoto
<1>5. CASE IncWrite
  BY <1>5 DEF IncWrite, MainGoto
<1>6. CASE Idle
  BY <1>6 DEF Idle, MainGoto
<1>7. CASE TakeFrame
  BY <1>7 DEF TakeFrame, MainGoto
<1>8. CASE ProcessFrame
  BY <1>8 DEF ProcessFrame, MainGoto
<1>9. CASE EndLoop
  BY <1>9 DEF EndLoop, MainGoto
<1>10. CASE Join
  BY <1>10 DEF Join, MainGoto
<1>11. CASE FinishEvent
  <2>1. \/ mpc' \notin {"init", "spawn", "inc", "incWrite"} /\ event' = event
        \/ mpc' = "init" /\ event' = event + 1
    BY <1>11 DEF FinishEvent
  <2>2. rpc' = rpc /\ toStart' = {} /\ \A t \in Threads : t[1] > event => rpc[t] = "none"
    BY <1>11 DEF FinishEvent
  <2>3. \A t \in Threads : 
           t[1] > event' \/ (t[1] = event' /\ mpc' = "init") => t[1] > event
    BY <2>1
  <2>. QED BY <2>1, <2>2, <2>3
<1>12. CASE UNCHANGED vars
  BY <1>12
<1>. QED BY <1>1, <1>2, <1>3, <1>4, <1>5, <1>6, <1>7, <1>8, <1>9, <1>10, <1>11,
    <1>12 DEF Next, MainStep, Ended

\* With a file that opens, an event ends with all of its threads done.
LEMMA DoneStep == ASSUME IInv, [Next]_vars PROVE DoneInv'
<1>. SUFFICES ASSUME ~OpenMayFail PROVE DoneInv'
  BY DEF DoneInv
<1>. USE DEF IInv, BaseInv, DoneInv, vars, mainVars, readerVars, ringVars, flagVars,
    netVars, countVars, threadVars
<1>. /\ rpc \in [Threads -> ReaderPC] /\ event \in Nat /\ toStart \subseteq Ports
     /\ mpc \in MainPC
  BY DEF TypeOK, ReaderTypeOK, Events
<1>. \A t \in Threads : t[1] \in Nat /\ t[2] \in Ports /\ t = <<t[1], t[2]>>
  BY DEF Threads, Events
<1>. \A p \in Ports : <<event, p>> \in Threads
  BY ThreadOf DEF TypeOK
<1>1. CASE Others
  BY <1>1, OthersMove, ReaderStays DEF RpcStays, TypeOK
<1>2. CASE StartEvent
  BY <1>2 DEF StartEvent, MainGoto
<1>3. ASSUME NEW p \in Ports, SpawnThread(p) PROVE DoneInv'
  BY <1>3 DEF SpawnThread, MainGoto, StartInv
<1>4. CASE IncRead
  BY <1>4 DEF IncRead, MainGoto
<1>5. CASE IncWrite
  BY <1>5 DEF IncWrite, MainGoto
<1>6. CASE Idle
  BY <1>6 DEF Idle, MainGoto
<1>7. CASE TakeFrame
  BY <1>7 DEF TakeFrame, MainGoto
<1>8. CASE ProcessFrame
  BY <1>8 DEF ProcessFrame, MainGoto
<1>9. CASE EndLoop
  BY <1>9 DEF EndLoop, MainGoto
<1>10. CASE Join
  <2>1. \A t \in Threads : t[1] = event => rpc[t] = "done"
    BY <1>10 DEF Join
  <2>. QED BY <2>1, <1>10 DEF Join, MainGoto
<1>11. CASE FinishEvent
  BY <1>11 DEF FinishEvent, MainGoto
<1>12. CASE UNCHANGED vars
  BY <1>12
<1>. QED BY <1>1, <1>2, <1>3, <1>4, <1>5, <1>6, <1>7, <1>8, <1>9, <1>10, <1>11,
    <1>12 DEF Next, MainStep, Ended

\* The thread that stores heads for the last slot or for a free one, although the
\* main thread moves inBufProcessID without the mutex.
LEMMA SlotStep == ASSUME EventsApart, IInv, [Next]_vars PROVE SlotInv'
<1>. USE DEF IInv, BaseInv, SlotInv, vars, mainVars, readerVars, ringVars, flagVars,
    netVars, countVars, threadVars
<1>. /\ inBufStorID \in Slots /\ inBufProcessID \in Slots /\ newBufID \in Slots
     /\ rpc \in [Threads -> ReaderPC]
  BY DEF TypeOK, ReaderTypeOK
<1>. \A s \in Slots : NextSlot(s) \in Slots /\ NextSlot(s) # s
  BY SlotNext
<1>. \A r, s \in Slots : NextSlot(r) = NextSlot(s) => r = s
  BY ReaderAssumption DEF Slots, NextSlot
<1>1. CASE Others
  BY <1>1, OthersMove, ReaderSlot DEF TypeOK
<1>2. CASE StartEvent
  <2>1. \A t \in Threads : rpc[t] \in {"none", "done"}
    BY <1>2, QuietAtInit DEF StartEvent, MainGoto
  <2>. QED BY <2>1, <1>2 DEF StartEvent
<1>3. ASSUME NEW p \in Ports, SpawnThread(p) PROVE SlotInv'
  BY <1>3 DEF SpawnThread, MainGoto
<1>4. CASE IncRead
  BY <1>4 DEF IncRead, MainGoto
<1>5. CASE IncWrite
  BY <1>5 DEF IncWrite, MainGoto
<1>6. CASE Idle
  BY <1>6 DEF Idle, MainGoto
<1>7. CASE TakeFrame
  BY <1>7 DEF TakeFrame, MainGoto
<1>8. CASE ProcessFrame
  BY <1>8 DEF ProcessFrame, MainGoto, ProcessInv
<1>9. CASE EndLoop
  BY <1>9 DEF EndLoop, MainGoto
<1>10. CASE Join
  BY <1>10 DEF Join, MainGoto
<1>11. CASE FinishEvent
  BY <1>11 DEF FinishEvent, MainGoto
<1>12. CASE UNCHANGED vars
  BY <1>12
<1>. QED BY <1>1, <1>2, <1>3, <1>4, <1>5, <1>6, <1>7, <1>8, <1>9, <1>10, <1>11,
    <1>12 DEF Next, MainStep, Ended

\* While it processes a frame the main thread is at the slot after inBufProcessID
\* and the buffer is not empty.
LEMMA ProcessStep == ASSUME IInv, [Next]_vars PROVE ProcessInv'
<1>. USE DEF IInv, BaseInv, ProcessInv, vars, mainVars, readerVars, ringVars,
    flagVars, netVars, countVars, threadVars
<1>. /\ inBufStorID \in Slots /\ inBufProcessID \in Slots /\ newBufID \in Slots
     /\ rpc \in [Threads -> ReaderPC]
  BY DEF TypeOK, ReaderTypeOK
<1>. \A s \in Slots : NextSlot(s) \in Slots /\ NextSlot(s) # s
  BY SlotNext
<1>. \A r, s \in Slots : NextSlot(r) = NextSlot(s) => r = s
  BY ReaderAssumption DEF Slots, NextSlot
<1>1. CASE Others
  BY <1>1, OthersMove, ReaderFills DEF TypeOK
<1>2. CASE StartEvent
  BY <1>2 DEF StartEvent, MainGoto
<1>3. ASSUME NEW p \in Ports, SpawnThread(p) PROVE ProcessInv'
  BY <1>3 DEF SpawnThread, MainGoto
<1>4. CASE IncRead
  BY <1>4 DEF IncRead, MainGoto
<1>5. CASE IncWrite
  BY <1>5 DEF IncWrite, MainGoto
<1>6. CASE Idle
  BY <1>6 DEF Idle, MainGoto
<1>7. CASE TakeFrame
  BY <1>7 DEF TakeFrame, MainGoto
<1>8. CASE ProcessFrame
  BY <1>8 DEF ProcessFrame, MainGoto
<1>9. CASE EndLoop
  BY <1>9 DEF EndLoop, MainGoto
<1>10. CASE Join
  BY <1>10 DEF Join, MainGoto
<1>11. CASE FinishEvent
  BY <1>11 DEF FinishEvent, MainGoto
<1>12. CASE UNCHANGED vars
  BY <1>12
<1>. QED BY <1>1, <1>2, <1>3, <1>4, <1>5, <1>6, <1>7, <1>8, <1>9, <1>10, <1>11,
    <1>12 DEF Next, MainStep, Ended

\* What a step can do to the ring: nothing, or one of the five things that move a
\* frame.
RingIdle ==
    /\ UNCHANGED <<ringVars, inBufProcessID, processed, abandoned>>
    /\ OverflowPending' = OverflowPending /\ StorePending' = StorePending

RingStep ==
    \/ ReaderStores /\ UNCHANGED mainVars
    \/ StartEvent \/ ProcessFrame

\* Every other step leaves the ring and the frame on its way into it alone.
LEMMA RingSteps == ASSUME BaseInv, [Next]_vars PROVE RingIdle \/ RingStep
<1>. USE DEF BaseInv, OverflowPending, StorePending, vars, mainVars, readerVars,
    flagVars, netVars, countVars, threadVars
<1>. rpc \in [Threads -> ReaderPC] /\ Nobody \notin Threads
  BY NobodyIsNoThread DEF TypeOK, ReaderTypeOK
<1>1. CASE Others
  <2>1. ReaderMove /\ UNCHANGED mainVars
    BY <1>1, OthersMove
  <2>2. ReaderIdle \/ ReaderStores
    BY <2>1, ReaderRing DEF TypeOK
  <2>. QED BY <2>1, <2>2 DEF ReaderIdle, RingIdle, RingStep
<1>2. CASE StartEvent
  BY <1>2 DEF RingStep
<1>3. ASSUME NEW p \in Ports, SpawnThread(p) PROVE RingIdle
  <2>1. <<event, p>> \in Threads /\ rpc[<<event, p>>] = "none"
    BY ThreadOf, <1>3 DEF TypeOK, SpawnThread, MainGoto, StartInv
  <2>. QED BY <2>1, <1>3 DEF RingIdle, ringVars, SpawnThread, MutexInv, HoldsMutex
<1>4. CASE IncRead
  BY <1>4 DEF RingIdle, ringVars, IncRead, MainGoto
<1>5. CASE IncWrite
  BY <1>5 DEF RingIdle, ringVars, IncWrite, MainGoto
<1>6. CASE Idle
  BY <1>6 DEF RingIdle, ringVars, Idle, MainGoto
<1>7. CASE TakeFrame
  BY <1>7 DEF RingIdle, ringVars, TakeFrame, MainGoto
<1>8. CASE ProcessFrame
  BY <1>8 DEF RingStep
<1>9. CASE EndLoop
  BY <1>9 DEF RingIdle, ringVars, EndLoop, MainGoto
<1>10. CASE Join
  BY <1>10 DEF RingIdle, ringVars, Join, MainGoto
<1>11. CASE FinishEvent
  BY <1>11 DEF RingIdle, ringVars, FinishEvent, MainGoto
<1>12. CASE UNCHANGED vars
  BY <1>12 DEF RingIdle, ringVars
<1>. QED BY <1>1, <1>2, <1>3, <1>4, <1>5, <1>6, <1>7, <1>8, <1>9, <1>10, <1>11,
    <1>12 DEF Next, MainStep, Ended

\* FramesAccounted as a balance of the ring.
LEMMA AccountValue ==
    TypeOK => /\ Taken \in Int /\ Len(processed) \in Nat /\ abandoned \in Nat
              /\ FramesAccounted <=> Taken = Len(processed) + abandoned
<1>. SUFFICES ASSUME TypeOK
              PROVE  /\ Taken \in Int /\ Len(processed) \in Nat /\ abandoned \in Nat
                     /\ FramesAccounted <=> Taken = Len(processed) + abandoned
  OBVIOUS
<1>1. /\ Cached \in Nat /\ recvd \in Nat /\ noFramesDropped \in Nat /\ abandoned \in Nat
      /\ Len(processed) \in Nat
  BY CachedType DEF TypeOK, ReaderTypeOK
<1>2. PICK o \in {0, 1}, s \in {0, 1} : o = Bit(OverflowPending) /\ s = Bit(StorePending)
  BY DEF Bit
<1>3. Taken = recvd + o - Cached - s - noFramesDropped
  BY <1>2 DEF Taken
<1>4. FramesAccounted
        <=> recvd + o = Len(processed) + Cached + s + noFramesDropped + abandoned
  BY <1>2 DEF FramesAccounted
<1>. QED BY <1>1, <1>3, <1>4

\* Every step moves a frame from one of the places it can be in to another.
LEMMA AccountStep == ASSUME EventsApart, IInv, [Next]_vars PROVE FramesAccounted'
<1>. USE DEF IInv, BaseInv
<1>0. /\ Taken \in Int /\ Len(processed) \in Nat /\ abandoned \in Nat
      /\ Taken = Len(processed) + abandoned /\ ReaderTypeOK
  BY AccountValue DEF TypeOK
<1>. SUFFICES Taken' = Len(processed') + abandoned'
  <2>1. TypeOK'
    BY TypeStep
  <2>2. (TypeOK => (FramesAccounted <=> Taken = Len(processed) + abandoned))'
    BY AccountValue, PTL
  <2>. QED BY <2>1, <2>2
<1>1. CASE RingIdle
  BY <1>0, <1>1 DEF RingIdle, ringVars, Taken, Cached
<1>2. CASE ReaderStores /\ UNCHANGED mainVars
  <2>1. Taken' = Taken
    BY <1>0, <1>2, ReaderBalance DEF ReaderStores, ReaderMove, ReaderStep
  <2>. QED BY <1>0, <1>2, <2>1 DEF mainVars
<1>3. CASE StartEvent
  <2>1. \A t \in Threads : rpc[t] \in {"none", "done"}
    BY <1>3, QuietAtInit DEF StartEvent, MainGoto
  <2>2. writeMutex = Nobody
    BY <2>1 DEF MutexInv, HoldsMutex, TypeOK, ReaderTypeOK
  <2>3. /\ Bit(OverflowPending) = 0 /\ Bit(StorePending) = 0
        /\ Bit(OverflowPending)' = 0 /\ Bit(StorePending)' = 0
    BY <2>2, <1>3 DEF StartEvent, OverflowPending, StorePending, Bit
  <2>4. BufSize \in Nat \ {0} /\ 0 - 0 + BufSize \in BufSize..(2 * BufSize - 1)
    BY ReaderAssumption
  <2>5. Cached' = 0
    BY <1>3, <2>4, ModWrap DEF StartEvent, Cached
  <2>6. /\ Cached \in Nat /\ recvd \in Nat /\ noFramesDropped \in Nat
    BY CachedType DEF TypeOK, ReaderTypeOK
  <2>7. /\ abandoned' = abandoned + Cached /\ recvd' = recvd
        /\ processed' = processed /\ noFramesDropped' = noFramesDropped
    BY <1>3 DEF StartEvent
  <2>8. Taken = recvd - Cached - noFramesDropped
    BY <2>3, <2>6 DEF Taken
  <2>9. Taken' = recvd - noFramesDropped
    BY <2>3, <2>5, <2>6, <2>7 DEF Taken
  <2>. QED BY <1>0, <2>6, <2>7, <2>8, <2>9
<1>4. CASE ProcessFrame
  <2>1. TakeOne /\ abandoned' = abandoned
    BY <1>4 DEF ProcessFrame, MainGoto, ProcessInv, TakeOne, threadVars
  <2>2. Len(processed') = Len(processed) + 1
    BY <1>4 DEF ProcessFrame, TypeOK
  <2>. QED BY <1>0, <2>1, <2>2, TakeBalance
<1>. QED BY <1>1, <1>2, <1>3, <1>4, RingSteps DEF RingStep

-----------------------------------------------------------------------------
(* The order of the frames.                                                     *)

\* Frames stay in the order of their reception, over overflows, wraps and events.
LEMMA OrderStep == ASSUME EventsApart, IInv, [Next]_vars PROVE OrderInv'
<1>. USE DEF IInv, BaseInv
<1>. ReaderTypeOK /\ processed \in Seq(Nat) /\ BufSize \in Nat \ {0}
  BY ReaderAssumption DEF TypeOK
<1>. PICK h \in Seq(Nat) : h = processed
  OBVIOUS
<1>. RingInOrder(h)
  BY DEF OrderInv
<1>1. CASE RingIdle
  BY <1>1 DEF RingIdle, ringVars, OrderInv, RingInOrder, TakenInOrder, Filled, Place,
     Cached, Bit
<1>2. CASE ReaderStores /\ UNCHANGED mainVars
  <2>1. RingInOrder(h)'
    BY <1>2, ReaderOrder DEF ReaderStores, ReaderMove, ReaderStep
  <2>. QED BY <1>2, <2>1 DEF OrderInv, mainVars
<1>3. CASE StartEvent
  <2>1. \A t \in Threads : rpc[t] \in {"none", "done"}
    BY <1>3, QuietAtInit DEF StartEvent, MainGoto
  <2>2. writeMutex = Nobody
    BY <2>1 DEF MutexInv, HoldsMutex, ReaderTypeOK
  <2>3. ~StorePending'
    BY <2>2, <1>3 DEF StartEvent, StorePending
  <2>4. Cached' = (0 - 0 + BufSize) % BufSize
    BY <1>3 DEF StartEvent, Cached
  <2>5. Cached' = 0
    BY <2>4, ModWrap
  <2>6. Filled' = {}
    BY <2>3, <2>5 DEF Filled, Bit
  <2>. QED BY <1>3, <2>6 DEF StartEvent, OrderInv, RingInOrder, TakenInOrder
<1>4. CASE ProcessFrame
  <2>1. TakeOne /\ processed' = Append(h, slot[inBufProcessID'])
    BY <1>4 DEF ProcessFrame, MainGoto, ProcessInv, TakeOne, threadVars
  <2>2. PICK g : g = processed'
    OBVIOUS
  <2>3. RingInOrder(g)'
    BY <2>1, <2>2, TakeOrder
  <2>. QED BY <2>2, <2>3 DEF OrderInv
<1>. QED BY <1>1, <1>2, <1>3, <1>4, RingSteps DEF RingStep

\* The frame on its way in is the last one recvfrom delivered.
LEMMA PendingStep == ASSUME EventsApart, IInv, [Next]_vars PROVE PendingInv'
<1>. USE DEF IInv, BaseInv
<1>. ReaderTypeOK
  BY DEF TypeOK
<1>1. CASE RingIdle
  BY <1>1 DEF RingIdle, ringVars, PendingInv
<1>2. CASE ReaderStores
  BY <1>2, ReaderPending DEF ReaderStores, ReaderMove, ReaderStep
<1>3. CASE StartEvent
  <2>1. \A t \in Threads : rpc[t] \in {"none", "done"}
    BY <1>3, QuietAtInit DEF StartEvent, MainGoto
  <2>. QED BY <1>3, <2>1 DEF StartEvent, threadVars, PendingInv, StorePending,
       ReaderTypeOK
<1>4. CASE ProcessFrame
  BY <1>4 DEF ProcessFrame, ringVars, threadVars, PendingInv, StorePending
<1>. QED BY <1>1, <1>2, <1>3, <1>4, RingSteps DEF RingStep

-----------------------------------------------------------------------------
(* The number of running threads.                                               *)

\* A step that starts no thread, ends none and writes no count.
CountIdle ==
    /\ Running' = Running /\ noRunning' = noRunning /\ lost' = lost
    /\ mpc' \in {"inc", "incWrite"} <=> mpc \in {"inc", "incWrite"}
    /\ mpc = "init" => mpc' = "init"

CountChange ==
    \/ StartEvent \/ (\E p \in Ports : SpawnThread(p)) \/ IncWrite
    \/ CountsOut /\ UNCHANGED mainVars

\* Four steps change the number of running threads or noRunning.
LEMMA CountSteps == ASSUME BaseInv, [Next]_vars PROVE CountIdle \/ CountChange
<1>. USE DEF BaseInv, Running, Counted, vars, mainVars, readerVars, ringVars,
    flagVars, netVars, countVars, threadVars
<1>. rpc \in [Threads -> ReaderPC]
  BY DEF TypeOK, ReaderTypeOK
<1>1. CASE Others
  <2>1. ReaderMove /\ UNCHANGED mainVars
    BY <1>1, OthersMove
  <2>2. RunningIdle \/ CountsOut
    BY <2>1, ReaderRuns DEF TypeOK
  <2>. QED BY <2>1, <2>2 DEF RunningIdle, CountIdle, CountChange
<1>2. CASE StartEvent
  BY <1>2 DEF CountChange
<1>3. ASSUME NEW p \in Ports, SpawnThread(p) PROVE CountChange
  BY <1>3 DEF CountChange
<1>4. CASE IncRead
  BY <1>4 DEF CountIdle, IncRead, MainGoto
<1>5. CASE IncWrite
  BY <1>5 DEF CountChange
<1>6. CASE Idle
  BY <1>6 DEF CountIdle, Idle, MainGoto
<1>7. CASE TakeFrame
  BY <1>7 DEF CountIdle, TakeFrame, MainGoto
<1>8. CASE ProcessFrame
  BY <1>8 DEF CountIdle, ProcessFrame, MainGoto
<1>9. CASE EndLoop
  BY <1>9 DEF CountIdle, EndLoop, MainGoto
<1>10. CASE Join
  BY <1>10 DEF CountIdle, Join, MainGoto
<1>11. CASE FinishEvent
  BY <1>11 DEF CountIdle, FinishEvent, MainGoto
<1>12. CASE UNCHANGED vars
  BY <1>12 DEF CountIdle
<1>. QED BY <1>1, <1>2, <1>3, <1>4, <1>5, <1>6, <1>7, <1>8, <1>9, <1>10, <1>11,
    <1>12 DEF Next, MainStep, Ended

\* Before the threads of an event are started none is running.
LEMMA NoneAtInit ==
    ASSUME EventsApart, BaseInv, DoneInv, mpc = "init" PROVE Running = {}
  BY QuietAtInit DEF BaseInv, Running, Counted

\* The two halves of CountInv, outside "init".
Counts ==
    LET counted == noRunning + Bit(mpc \in {"inc", "incWrite"}) IN
      /\ IsFiniteSet(Running)
      /\ "inc" \notin lost => counted >= Cardinality(Running)
      /\ "dec" \notin lost => counted <= Cardinality(Running)

\* What was overwritten stays so.
LEMMA LostStays == ASSUME BaseInv, [Next]_vars PROVE lost \subseteq lost'
<1>1. CASE IncWrite
  BY <1>1 DEF IncWrite
<1>2. CASE CountsOut
  BY <1>2 DEF CountsOut, DecWrite
<1>3. CASE StartEvent
  BY <1>3 DEF StartEvent
<1>4. ASSUME NEW p \in Ports, SpawnThread(p) PROVE lost \subseteq lost'
  BY <1>4 DEF SpawnThread, countVars
<1>. QED BY <1>1, <1>2, <1>3, <1>4, CountSteps DEF CountIdle, CountChange

\* noRunning follows the number of running threads, and is one behind from the start
\* of a thread to the end of main's noRunning++, but for the updates that the two
\* writers overwrite.
LEMMA CountStep == ASSUME EventsApart, IInv, [Next]_vars PROVE CountInv'
<1>. SUFFICES ASSUME mpc' # "init"
              PROVE  Counts'
  BY DEF CountInv, Counts
<1>. USE DEF IInv, Counts
<1>0. noRunning \in Int
  BY DEF BaseInv, TypeOK, ReaderTypeOK
<1>1. CASE StartEvent
  <2>1. Running' = {}
    BY <1>1, NoneAtInit DEF StartEvent, MainGoto, Running, Counted, threadVars
  <2>2. noRunning' = 0 /\ mpc' = "spawn"
    BY <1>1 DEF StartEvent, MainGoto
  <2>. QED BY <2>1, <2>2, FS_EmptySet DEF Bit
<1>2. ASSUME mpc # "init"
      PROVE  Counts /\ Cardinality(Running) \in Nat
  BY <1>2, FS_CardinalityType DEF CountInv
<1>3. ASSUME NEW p \in Ports, SpawnThread(p)
      PROVE  Counts'
  <2>1. mpc = "spawn" /\ mpc' = "inc" /\ noRunning' = noRunning /\ lost' = lost
    BY <1>3 DEF SpawnThread, MainGoto, countVars
  <2>2. IsFiniteSet(Running') /\ Cardinality(Running') = Cardinality(Running) + 1
    <3>1. <<event, p>> \in Threads /\ rpc[<<event, p>>] = "none" /\ ReaderTypeOK
      BY <1>3, ThreadOf DEF BaseInv, TypeOK, SpawnThread, MainGoto, StartInv
    <3>2. rpc' = [rpc EXCEPT ![<<event, p>>] = "socket"]
      BY <1>3 DEF SpawnThread
    <3>. QED BY <1>2, <2>1, <3>1, <3>2, StartCounts
  <2>. QED BY <1>0, <1>2, <2>1, <2>2 DEF Bit
<1>4. CASE IncWrite
  <2>1. /\ mpc = "incWrite" /\ mpc' \in {"loop", "spawn"} /\ noRunning' = regM + 1
        /\ lost' = lost \cup Overwritten(regM) /\ regM \in Int
    BY <1>4 DEF IncWrite, BaseInv, TypeOK
  <2>2. Running' = Running
    BY <1>4 DEF IncWrite, Running, Counted, threadVars
  <2>3. /\ lost \subseteq lost'
        /\ "inc" \notin lost' => regM >= noRunning
        /\ "dec" \notin lost' => regM <= noRunning
    BY <1>0, <2>1, Overwrites
  <2>. QED BY <1>0, <1>2, <2>1, <2>2, <2>3 DEF Bit
<1>5. CASE CountsOut /\ UNCHANGED mainVars
  <2>1. mpc' = mpc /\ mpc # "init" /\ ReaderMove /\ ReaderTypeOK
    BY <1>5 DEF CountsOut, mainVars, ReaderMove, ReaderStep, BaseInv, TypeOK
  <2>2. /\ IsFiniteSet(Running') /\ lost \subseteq lost'
        /\ "inc" \notin lost' =>
             noRunning' - Cardinality(Running') >= noRunning - Cardinality(Running)
        /\ "dec" \notin lost' =>
             noRunning' - Cardinality(Running') <= noRunning - Cardinality(Running)
    BY <1>2, <2>1, ReaderCounts
  <2>3. Bit(mpc \in {"inc", "incWrite"}) \in {0, 1}
    BY DEF Bit
  <2>4. noRunning' \in Int /\ Cardinality(Running') \in Nat
    BY <2>2, <1>0, <1>5, FS_CardinalityType
       DEF CountsOut, DecWrite, BaseInv, TypeOK, ReaderTypeOK
  <2>. QED BY <1>0, <1>2, <2>1, <2>2, <2>3, <2>4
<1>6. CASE CountIdle
  <2>1. mpc # "init" /\ Bit(mpc' \in {"inc", "incWrite"}) = Bit(mpc \in {"inc", "incWrite"})
    BY <1>6 DEF CountIdle, Bit
  <2>. QED BY <1>2, <1>6, <2>1 DEF CountIdle
<1>. QED BY <1>1, <1>3, <1>4, <1>5, <1>6, CountSteps DEF CountChange

\* With no thread running and an empty buffer nothing but the next event changes
\* either.
LEMMA SettledStays ==
    ASSUME EventsApart, BaseInv, DoneInv, ProcessInv, [Next]_vars, Settled, mpc # "spawn"
    PROVE  Settled'
<1>. rpc \in [Threads -> ReaderPC]
  BY DEF BaseInv, TypeOK, ReaderTypeOK
<1>1. \A t \in Threads : rpc[t] \in {"none", "close", "done"}
  BY DEF Settled, Running, Counted
<1>2. inBufStorID' = inBufProcessID'
  <2>1. CASE RingIdle
    BY <2>1 DEF RingIdle, ringVars, Settled
  <2>2. ~ReaderStores
    BY <1>1 DEF ReaderStores, ChooseSlot, RecvFrom, Publish, Goto
  <2>3. CASE StartEvent
    BY <2>3 DEF StartEvent
  <2>4. CASE ProcessFrame
    BY <2>4 DEF ProcessFrame, MainGoto, ProcessInv, Settled
  <2>. QED BY <2>1, <2>2, <2>3, <2>4, RingSteps DEF RingStep
<1>3. Running' = {}
  <2>1. CASE CountIdle
    BY <2>1 DEF CountIdle, Settled
  <2>2. ~CountsOut
    BY <1>1 DEF CountsOut, DecWrite, Goto
  <2>3. CASE StartEvent
    BY <2>3 DEF StartEvent, Running, Counted, threadVars, Settled
  <2>4. CASE IncWrite
    BY <2>4 DEF IncWrite, Running, Counted, threadVars, Settled
  <2>5. ASSUME NEW p \in Ports, SpawnThread(p) PROVE FALSE
    BY <2>5 DEF SpawnThread, MainGoto
  <2>. QED BY <2>1, <2>2, <2>3, <2>4, <2>5, CountSteps DEF CountChange
<1>. QED BY <1>2, <1>3 DEF Settled

\* Where the main thread can come to the end of an event, or to the start of one, from.
LEMMA MainMoves ==
    ASSUME [Next]_vars, mpc' # mpc, mpc' \in {"join", "finish", "stopped", "init"}
    PROVE  \/ EndLoop \/ Join \/ FinishEvent
           \/ TakeFrame /\ OpenMayFail
<1>. USE DEF vars, mainVars
<1>1. Others => FALSE
  BY DEF Others
<1>. QED BY <1>1 DEF Next, MainStep, StartEvent, SpawnThread, IncRead, IncWrite, Idle,
    TakeFrame, ProcessFrame, MainGoto, Ended

\* The loop ends with nothing left: no frame is in the buffer, and no thread is left
\* that could store one, so that the next event's new buffer replaces an empty one.
LEMMA SettledStep == ASSUME EventsApart, IInv, [Next]_vars PROVE SettledInv'
<1>. USE DEF IInv
<1>0. lost \subseteq lost'
  BY LostStays
<1>1. ASSUME ~OpenMayFail, "inc" \notin lost', mpc' \in {"join", "finish", "stopped"}
      PROVE  Settled'
  <2>1. Settled /\ mpc # "spawn"
    <3>1. CASE mpc' = mpc
      BY <1>0, <1>1, <3>1 DEF SettledInv
    <3>2. CASE EndLoop
      <4>1. mpc = "loop" /\ ~(noRunning > 0) /\ inBufStorID = inBufProcessID
        BY <3>2 DEF EndLoop, MainGoto
      <4>2. IsFiniteSet(Running) /\ noRunning >= Cardinality(Running) /\ noRunning \in Int
        BY <1>0, <1>1, <4>1 DEF CountInv, Bit, BaseInv, TypeOK, ReaderTypeOK
      <4>3. Cardinality(Running) = 0
        BY <4>1, <4>2, FS_CardinalityType
      <4>. QED BY <4>1, <4>2, <4>3, FS_EmptySet DEF Settled
    <3>3. CASE Join
      BY <1>0, <1>1, <3>3 DEF Join, MainGoto, SettledInv
    <3>4. CASE FinishEvent
      BY <1>0, <1>1, <3>4 DEF FinishEvent, SettledInv
    <3>. QED BY <1>1, <3>1, <3>2, <3>3, <3>4, MainMoves
  <2>. QED BY <2>1, SettledStays
<1>2. ASSUME EventsSettle'
      PROVE  abandoned' = 0 /\ (mpc' = "init" => Settled')
  <2>0. EventsSettle
    BY <1>0, <1>2 DEF EventsSettle
  <2>1. abandoned = 0 /\ (mpc = "init" => Settled)
    BY <2>0 DEF SettledInv
  <2>2. abandoned' = 0
    <3>1. CASE StartEvent
      <4>1. Cached = 0
        BY <2>1, <3>1, CachedValue
           DEF StartEvent, MainGoto, Settled, BaseInv, TypeOK, ReaderTypeOK, Slots
      <4>. QED BY <2>1, <3>1, <4>1 DEF StartEvent
    <3>2. CASE ~StartEvent
      BY <2>1, <3>2, RingSteps DEF RingStep, RingIdle, mainVars, ProcessFrame
    <3>. QED BY <3>1, <3>2
  <2>3. ASSUME mpc' = "init" PROVE Settled /\ mpc # "spawn"
    <3>1. CASE mpc = "init"
      BY <2>1, <3>1
    <3>2. CASE mpc # "init"
      <4>1. FinishEvent
        BY <2>3, <3>2, MainMoves DEF EndLoop, Join, TakeFrame, MainGoto
      <4>2. mpc = "finish" /\ event < MaxEvents
        BY <2>3, <4>1 DEF FinishEvent
      <4>3. MaxEvents # 1
        BY <4>2 DEF BaseInv, TypeOK, Events
      <4>. QED BY <2>0, <4>2, <4>3 DEF SettledInv, EventsSettle
    <3>. QED BY <3>1, <3>2
  <2>. QED BY <2>2, <2>3, SettledStays
<1>. QED BY <1>1, <1>2 DEF SettledInv

-----------------------------------------------------------------------------
\* The globals of TBBraw2h5 start out in the inductive invariant.
LEMMA InitInv == Init => IInv
<1>. SUFFICES ASSUME Init PROVE IInv
  OBVIOUS
<1>. USE DEF Init
<1>1. ReaderTypeOK /\ MutexInv /\ SocketInv /\ SlotInv /\ PendingInv
  BY ReaderStart
<1>2. Cached = 0 /\ Taken = 0 /\ Filled = {} /\ Running = {}
  BY ReaderStart
<1>3. TypeOK
  <2>1. 0 \in Slots /\ 1 \in Events /\ 0 \in 0..BufSize /\ 0 \in 0..(IdlePolls + 1)
    BY ReaderAssumption, MainAssumption DEF Slots, Events
  <2>. QED BY <1>1, <2>1 DEF TypeOK, MainPC
<1>4. StartInv /\ DoneInv
  BY DEF StartInv, DoneInv, Threads, Events, ReaderInit
<1>5. ProcessInv
  BY DEF ProcessInv
<1>6. FramesAccounted
  BY <1>2, <1>3, AccountValue
<1>7. OrderInv
  BY <1>2 DEF OrderInv, RingInOrder, TakenInOrder
<1>8. CountInv /\ SettledInv
  BY <1>2 DEF CountInv, SettledInv, Settled, ReaderInit
<1>. QED BY <1>1, <1>3, <1>4, <1>5, <1>6, <1>7, <1>8 DEF IInv, BaseInv

\* Type correctness, for any number of ports, frames and events and any size of
\* the buffer: no index leaves the buffer, no thread reads from a socket that has
\* nothing to read, also when an output file could not be opened and the threads
\* of its event run on into the next one.
THEOREM TypeCorrect == Spec => []TypeOK
<1>1. Init => BaseInv
  BY InitInv DEF IInv
<1>2. BaseInv /\ [Next]_vars => BaseInv'
  BY TypeStep, MutexStep, SocketStep, StartStep DEF BaseInv
<1>3. BaseInv => TypeOK
  BY DEF BaseInv
<1>. QED BY <1>1, <1>2, <1>3, PTL DEF Spec

\* writeMutex keeps the threads that store, or count themselves out, apart.
THEOREM MutualExclusion == Spec => []MutexInv
<1>1. Init => BaseInv
  BY InitInv DEF IInv
<1>2. BaseInv /\ [Next]_vars => BaseInv'
  BY TypeStep, MutexStep, SocketStep, StartStep DEF BaseInv
<1>3. BaseInv => MutexInv
  BY DEF BaseInv
<1>. QED BY <1>1, <1>2, <1>3, PTL DEF Spec

\* The inductive invariant holds of every reachable state, whatever the data race on
\* noRunning does, while output files open, and in a single event also when its file
\* does not.
THEOREM InductiveInvariant == ASSUME EventsApart PROVE Spec => []IInv
<1>1. Init => IInv
  BY InitInv
<1>2. IInv /\ [Next]_vars => IInv'
  BY TypeStep, MutexStep, SocketStep, StartStep, DoneStep, SlotStep, ProcessStep,
     AccountStep, OrderStep, PendingStep, CountStep, SettledStep DEF IInv, BaseInv
<1>. QED BY <1>1, <1>2, PTL DEF Spec

\* Every frame recvfrom delivered was handed over, is in the buffer or on its way
\* into it, was counted as dropped, or lay in the buffer when an event replaced it.
THEOREM Accounting == ASSUME EventsApart PROVE Spec => []FramesAccounted
<1>1. IInv => FramesAccounted
  BY DEF IInv
<1>. QED BY <1>1, InductiveInvariant, PTL

\* Frames are handed over once and in the order of their reception, for any size of
\* the buffer, over any number of overflows and wraps of the indices, and from one
\* event to the next.
THEOREM InOrder == ASSUME EventsApart PROVE Spec => []ProcessedInOrder
<1>1. IInv => ProcessedInOrder
  BY DEF IInv, OrderInv, RingInOrder, ProcessedInOrder
<1>. QED BY <1>1, InductiveInvariant, PTL

\* Whenever the loop of readFromSockets looks at noRunning it is the number of running
\* threads, unless noRunning++ and noRunning-- have overwritten one another: it is too
\* small only when an increment is lost, and too large only when a decrement is.
THEOREM RunningCounted == ASSUME EventsApart PROVE Spec => []NoRunningCounts
<1>1. ASSUME IInv, mpc \in {"loop", "process"}
      PROVE  /\ noRunning \in Int /\ Cardinality(Running) \in Nat
             /\ "inc" \notin lost => noRunning >= Cardinality(Running)
             /\ "dec" \notin lost => noRunning <= Cardinality(Running)
  BY <1>1, FS_CardinalityType
     DEF IInv, CountInv, Bit, BaseInv, TypeOK, ReaderTypeOK
<1>2. IInv => NoRunningCounts
  BY <1>1 DEF NoRunningCounts
<1>. QED BY <1>2, InductiveInvariant, PTL

\* When files open, the loop ends only when every frame received has been handed over
\* or counted as dropped and none can come any more, unless a noRunning-- has
\* overwritten a noRunning++ of the main thread.
THEOREM AllHandedOver == ASSUME ~OpenMayFail PROVE Spec => []NothingLeftBehind
<1>1. EventsApart
  BY DEF EventsApart
<1>2. IInv => NothingLeftBehind
  <2>. SUFFICES ASSUME IInv, mpc \in {"join", "finish", "stopped"}, "inc" \notin lost
                PROVE  recvd = Len(processed) + noFramesDropped
    BY DEF NothingLeftBehind
  <2>1. Settled /\ abandoned = 0
    BY DEF IInv, SettledInv, EventsSettle
  <2>2. Cached = 0
    BY <2>1, CachedValue DEF Settled, IInv, BaseInv, TypeOK, ReaderTypeOK, Slots
  <2>3. ~OverflowPending /\ ~StorePending
    BY <2>1 DEF Settled, Running, Counted, OverflowPending, StorePending, IInv,
       BaseInv, TypeOK, ReaderTypeOK
  <2>. QED BY <2>1, <2>2, <2>3
           DEF IInv, FramesAccounted, Bit, BaseInv, TypeOK, ReaderTypeOK
<1>. QED BY <1>1, <1>2, InductiveInvariant, PTL

-----------------------------------------------------------------------------
(* The ring implements the bounded queue of module FrameBuffer, for any number  *)
(* of slots and ports.                                                          *)

-----------------------------------------------------------------------------
(* The queue in the ring.                                                       *)

\* Adding to an index, and the distance of two, without the remainder.
LEMMA RingSum ==
    ASSUME NEW a \in Slots, NEW k \in 0..(BufSize - 1)
    PROVE  /\ (a + k) % BufSize = IF a + k >= BufSize THEN a + k - BufSize ELSE a + k
           /\ (a + k) % BufSize \in Slots
<1>. BufSize \in Nat \ {0}
  BY ReaderAssumption
<1>1. CASE a + k >= BufSize
  BY <1>1, ModWrap DEF Slots
<1>2. CASE a + k < BufSize
  BY <1>2, ModSmall DEF Slots
<1>. QED BY <1>1, <1>2 DEF Slots

LEMMA RingDistance ==
    ASSUME NEW a \in Slots, NEW b \in Slots
    PROVE  (a - b + BufSize) % BufSize \in 0..(BufSize - 1)
<1>. BufSize \in Nat \ {0}
  BY ReaderAssumption
<1>1. CASE a >= b
  BY <1>1, ModWrap DEF Slots
<1>2. CASE a < b
  BY <1>2, ModSmall DEF Slots
<1>. QED BY <1>1, <1>2 DEF Slots

\* The k-th slot after the one last processed, without the remainder.
LEMMA SlotAtValue ==
    ASSUME inBufProcessID \in Slots, NEW k \in 0..(BufSize - 1)
    PROVE  /\ SlotAt(k) = IF inBufProcessID + k >= BufSize
                          THEN inBufProcessID + k - BufSize ELSE inBufProcessID + k
           /\ SlotAt(k) \in Slots
  BY RingSum DEF SlotAt

\* The slot at a slot's distance is that slot.
LEMMA SlotAtPlace ==
    ASSUME inBufProcessID \in Slots, NEW s \in Slots
    PROVE  SlotAt(Place(s)) = s
  BY PlaceValue, SlotAtValue, ReaderAssumption DEF Slots

\* The two directions of that correspondence.
LEMMA PlaceSlotAt ==
    ASSUME inBufProcessID \in Slots, NEW k \in 0..(BufSize - 1)
    PROVE  Place(SlotAt(k)) = k
  BY PlaceValue, SlotAtValue, ReaderAssumption DEF Slots

\* A function on 1..n is a sequence of length n.
LEMMA FunctionIsSeq ==
    ASSUME NEW n \in Nat, NEW S, NEW f \in [1..n -> S]
    PROVE  f \in Seq(S) /\ Len(f) = n
  BY SMT

\* The queue is a sequence of the frames cached.
LEMMA QueueType ==
    ASSUME BaseInv
    PROVE  /\ Queue \in Seq(Nat) /\ Len(Queue) = Cached /\ Cached \in 0..(BufSize - 1)
           /\ \A k \in 1..Cached : Queue[k] = slot[SlotAt(k)]
<1>1. /\ inBufStorID \in Slots /\ inBufProcessID \in Slots
      /\ slot \in [Slots -> Nat] /\ Cached = Place(inBufStorID)
  BY DEF BaseInv, TypeOK, ReaderTypeOK, Cached, Place
<1>2. Cached \in 0..(BufSize - 1) /\ Cached \in Nat
  BY <1>1, PlaceValue, ReaderAssumption
<1>3. \A k \in 1..Cached : SlotAt(k) \in Slots
  BY <1>1, <1>2, SlotAtValue, ReaderAssumption
<1>4. Queue \in [1..Cached -> Nat]
  BY <1>1, <1>3 DEF Queue
<1>. QED BY <1>2, <1>4, FunctionIsSeq DEF Queue

\* The k-th slot after the one processed next.
LEMMA SlotAtPrime ==
    ASSUME inBufProcessID' \in Slots, NEW k \in 0..(BufSize - 1)
    PROVE  /\ SlotAt(k)' = IF inBufProcessID' + k >= BufSize
                           THEN inBufProcessID' + k - BufSize ELSE inBufProcessID' + k
           /\ SlotAt(k)' \in Slots
  BY RingSum DEF SlotAt

\* The same of the next state.
LEMMA QueueTypePrime ==
    ASSUME BaseInv'
    PROVE  /\ Queue' \in Seq(Nat) /\ Len(Queue') = Cached'
           /\ \A k \in 1..Cached' : Queue'[k] = slot'[SlotAt(k)']
<1>1. /\ inBufStorID' \in Slots /\ inBufProcessID' \in Slots
      /\ slot' \in [Slots -> Nat]
  BY DEF BaseInv, TypeOK, ReaderTypeOK
<1>2. Cached' \in 0..(BufSize - 1) /\ Cached' \in Nat
  BY <1>1, RingDistance, ReaderAssumption DEF Cached
<1>3. \A k \in 1..Cached' : SlotAt(k)' \in Slots
  BY <1>1, <1>2, SlotAtPrime, ReaderAssumption
<1>4. Queue' \in [1..Cached' -> Nat]
  BY <1>1, <1>3 DEF Queue
<1>. QED BY <1>2, <1>4, FunctionIsSeq DEF Queue

\* Two queues with the same frames are the same.
LEMMA QueueEqual ==
    ASSUME NEW q \in Seq(Nat), NEW r \in Seq(Nat), Len(q) = Len(r),
           \A k \in 1..Len(q) : q[k] = r[k]
    PROVE  q = r
  BY SeqEqual

\* The frames stored or given up are a number of frames.
LEMMA StoredType ==
    ASSUME BaseInv PROVE Stored \in Int /\ recvd \in Nat /\ Stored = recvd - Bit(StorePending)
  BY DEF BaseInv, TypeOK, ReaderTypeOK, Stored, Bit

-----------------------------------------------------------------------------
(* The steps.                                                                   *)

\* A step that leaves the ring alone is none of the queue's.
LEMMA IdleStutters == ASSUME RingIdle PROVE UNCHANGED Ring!bufferVars
  BY DEF RingIdle, ringVars, Ring!bufferVars, Queue, SlotAt, Cached, Stored, Bit

\* Choosing a slot finds the queue full, or is none of its steps.
LEMMA ChooseOverflows ==
    ASSUME BaseInv, BaseInv', NEW t \in Threads, ChooseSlot(t), UNCHANGED mainVars
    PROVE  Ring!Overflow \/ UNCHANGED Ring!bufferVars
<1>1. /\ inBufStorID \in Slots /\ inBufProcessID \in Slots /\ t # Nobody
      /\ rpc \in [Threads -> ReaderPC] /\ Cached = Place(inBufStorID)
  BY NobodyIsNoThread DEF BaseInv, TypeOK, ReaderTypeOK, Cached, Place
<1>2. /\ writeMutex = Nobody /\ writeMutex' = t /\ rpc'[t] = "recv"
      /\ ~OverflowPending /\ ~StorePending /\ ~StorePending'
  BY <1>1 DEF ChooseSlot, Goto, OverflowPending, StorePending
<1>3. OverflowPending' <=> newBufID' = inBufStorID
  BY <1>1, <1>2 DEF ChooseSlot, OverflowPending
<1>4. Queue' = Queue /\ Stored' = Stored /\ processed' = processed
  BY <1>2 DEF ChooseSlot, mainVars, Queue, SlotAt, Cached, Stored, Bit
<1>5. CASE NextSlot(inBufStorID) = inBufProcessID
  <2>1. OverflowPending' /\ noFramesDropped' = noFramesDropped + 1
    BY <1>3, <1>5 DEF ChooseSlot
  <2>2. Len(Queue) = BufSize - 1
    <3>1. Place(inBufStorID) = BufSize - 1
      BY <1>1, <1>5, PlaceValue, ReaderAssumption DEF Slots, NextSlot
    <3>. QED BY <1>1, <3>1, QueueType
  <2>. QED BY <1>2, <1>4, <2>1, <2>2 DEF Ring!Overflow
<1>6. CASE NextSlot(inBufStorID) # inBufProcessID
  <2>1. ~OverflowPending' /\ noFramesDropped' = noFramesDropped
    BY <1>1, <1>3, <1>6, SlotNext DEF ChooseSlot
  <2>2. OverflowPending' = OverflowPending
    BY <1>2, <2>1 DEF OverflowPending
  <2>. QED BY <1>4, <2>1, <2>2 DEF Ring!bufferVars
<1>. QED BY <1>5, <1>6

\* recvfrom into the last slot again: the frame replaces the newest one of the queue,
\* or is lost when the main thread has taken that one in the meantime.
LEMMA RecvReplaces ==
    ASSUME BaseInv, BaseInv', NEW t \in Threads, RecvFrom(t), UNCHANGED mainVars,
           newBufID = inBufStorID
    PROVE  Ring!Replace \/ Ring!Lose
<1>. BufSize \in Nat /\ BufSize >= 3
  BY ReaderAssumption
<1>1. /\ inBufStorID \in Slots /\ inBufProcessID \in Slots /\ t # Nobody
      /\ slot \in [Slots -> Nat] /\ recvd \in Nat
      /\ rpc \in [Threads -> ReaderPC] /\ Cached = Place(inBufStorID)
  BY NobodyIsNoThread DEF BaseInv, TypeOK, ReaderTypeOK, Cached, Place
<1>2. writeMutex = t /\ rpc[t] = "recv" /\ rpc'[t] = "publish"
  BY <1>1 DEF RecvFrom, Goto, BaseInv, MutexInv, HoldsMutex
<1>3. /\ OverflowPending /\ ~OverflowPending' /\ ~StorePending /\ ~StorePending'
      /\ OverflowPending' = FALSE
  BY <1>1, <1>2 DEF RecvFrom, OverflowPending, StorePending
<1>4. /\ Stored' = Stored + 1 /\ Stored' = recvd + 1
      /\ processed' = processed /\ noFramesDropped' = noFramesDropped
  BY <1>1, <1>3 DEF RecvFrom, mainVars, Stored, Bit
<1>5. /\ Cached' = Cached /\ \A k \in Nat : SlotAt(k)' = SlotAt(k)
      /\ slot' = [slot EXCEPT ![inBufStorID] = recvd + 1]
  BY DEF RecvFrom, mainVars, Cached, SlotAt
<1>6. /\ Queue \in Seq(Nat) /\ Len(Queue) = Cached /\ Cached \in 0..(BufSize - 1)
      /\ \A k \in 1..Cached : Queue[k] = slot[SlotAt(k)]
  BY QueueType
<1>7. /\ Queue' \in Seq(Nat) /\ Len(Queue') = Cached
      /\ \A k \in 1..Cached : Queue'[k] = slot'[SlotAt(k)]
  BY <1>5, <1>6, QueueTypePrime
<1>8. CASE Cached = 0
  <2>1. Queue = <<>> /\ Queue' = <<>>
    BY <1>6, <1>7, <1>8, EmptySeq
  <2>. QED BY <1>3, <1>4, <2>1 DEF Ring!Lose
<1>9. CASE Cached # 0
  <2>1. Cached \in 1..Len(Queue) /\ Queue # <<>>
    BY <1>6, <1>9, EmptySeq
  <2>2. SlotAt(Cached) = inBufStorID
    BY <1>1, SlotAtPlace
  <2>3. \A k \in 1..Cached : SlotAt(k) = inBufStorID => k = Cached
    BY <1>1, <1>6, PlaceSlotAt
  <2>4. \A k \in 1..Cached : SlotAt(k) \in Slots
    BY <1>1, <1>6, SlotAtValue
  <2>5. \A k \in 1..Cached : Queue'[k] = IF k = Cached THEN recvd + 1 ELSE Queue[k]
    BY <1>1, <1>5, <1>6, <1>7, <2>2, <2>3, <2>4
  <2>6. Queue' = [Queue EXCEPT ![Len(Queue)] = Stored']
    <3>1. /\ [Queue EXCEPT ![Cached] = recvd + 1] \in Seq(Nat)
          /\ Len([Queue EXCEPT ![Cached] = recvd + 1]) = Cached
          /\ \A k \in 1..Cached : [Queue EXCEPT ![Cached] = recvd + 1][k]
                                     = IF k = Cached THEN recvd + 1 ELSE Queue[k]
      BY <1>1, <1>6, <2>1, ExceptSeq
    <3>2. Queue' = [Queue EXCEPT ![Cached] = recvd + 1]
      BY <1>7, <2>5, <3>1, QueueEqual
    <3>. QED BY <3>2, <1>4, <1>6
  <2>. QED BY <1>3, <1>4, <2>1, <2>6 DEF Ring!Replace
<1>. QED BY <1>8, <1>9

\* recvfrom into the next slot is no step of the queue yet: the frame is not there
\* before inBufStorID has moved.
LEMMA RecvStutters ==
    ASSUME BaseInv, BaseInv', SlotInv, NEW t \in Threads, RecvFrom(t),
           UNCHANGED mainVars, newBufID # inBufStorID
    PROVE  UNCHANGED Ring!bufferVars
<1>. BufSize \in Nat /\ BufSize >= 3
  BY ReaderAssumption
<1>1. /\ inBufStorID \in Slots /\ inBufProcessID \in Slots /\ newBufID \in Slots
      /\ t # Nobody /\ slot \in [Slots -> Nat] /\ recvd \in Nat
      /\ rpc \in [Threads -> ReaderPC] /\ Cached = Place(inBufStorID)
  BY NobodyIsNoThread DEF BaseInv, TypeOK, ReaderTypeOK, Cached, Place
<1>2. writeMutex = t /\ rpc[t] = "recv" /\ rpc'[t] = "publish"
  BY <1>1 DEF RecvFrom, Goto, BaseInv, MutexInv, HoldsMutex
<1>3. OverflowPending' = OverflowPending /\ ~StorePending /\ StorePending'
  BY <1>1, <1>2 DEF RecvFrom, OverflowPending, StorePending
<1>4. /\ Stored' = Stored
      /\ processed' = processed /\ noFramesDropped' = noFramesDropped
  BY <1>1, <1>3 DEF RecvFrom, mainVars, Stored, Bit
<1>5. /\ Cached' = Cached /\ \A k \in Nat : SlotAt(k)' = SlotAt(k)
      /\ slot' = [slot EXCEPT ![newBufID] = recvd + 1]
  BY DEF RecvFrom, mainVars, Cached, SlotAt
<1>6. Place(newBufID) = Cached + 1 /\ Cached \in 0..(BufSize - 1)
  BY <1>1, <1>2, PlaceNext, PlaceValue DEF SlotInv
<1>7. \A k \in 1..Cached : SlotAt(k) \in Slots /\ SlotAt(k) # newBufID
  BY <1>1, <1>6, SlotAtValue, PlaceSlotAt
<1>8. Queue' = Queue
  BY <1>1, <1>5, <1>6, <1>7 DEF Queue
<1>. QED BY <1>3, <1>4, <1>8 DEF Ring!bufferVars

\* Publishing the index stores the frame in the queue; publishing the old index again
\* is none of its steps.
LEMMA PublishStores ==
    ASSUME BaseInv, BaseInv', SlotInv, NEW t \in Threads, Publish(t), UNCHANGED mainVars,
           StorePending => slot[newBufID] = recvd
    PROVE  Ring!Store \/ UNCHANGED Ring!bufferVars
<1>. BufSize \in Nat /\ BufSize >= 3
  BY ReaderAssumption
<1>1. /\ inBufStorID \in Slots /\ inBufProcessID \in Slots /\ newBufID \in Slots
      /\ t # Nobody /\ slot \in [Slots -> Nat] /\ recvd \in Nat
      /\ rpc \in [Threads -> ReaderPC] /\ Cached = Place(inBufStorID)
  BY NobodyIsNoThread DEF BaseInv, TypeOK, ReaderTypeOK, Cached, Place
<1>2. writeMutex = t /\ rpc[t] = "publish" /\ writeMutex' = Nobody
  BY <1>1 DEF Publish, Goto, BaseInv, MutexInv, HoldsMutex
<1>3. /\ ~OverflowPending /\ ~OverflowPending' /\ ~StorePending'
      /\ StorePending <=> newBufID # inBufStorID
      /\ OverflowPending' = OverflowPending
  BY <1>1, <1>2 DEF Publish, OverflowPending, StorePending
<1>4. /\ Cached' = Place(newBufID) /\ \A k \in Nat : SlotAt(k)' = SlotAt(k)
      /\ slot' = slot /\ recvd' = recvd /\ processed' = processed
      /\ noFramesDropped' = noFramesDropped
  BY DEF Publish, mainVars, Cached, SlotAt, Place
<1>5. CASE newBufID = inBufStorID
  <2>1. Queue' = Queue
    BY <1>1, <1>4, <1>5, PlaceValue, ReaderAssumption DEF Queue
  <2>2. Stored' = Stored
    BY <1>3, <1>4, <1>5 DEF Stored, Bit
  <2>. QED BY <1>3, <1>4, <2>1, <2>2 DEF Ring!bufferVars
<1>6. CASE newBufID # inBufStorID
  <2>1. Place(newBufID) = Cached + 1 /\ Place(newBufID) \in 0..(BufSize - 1)
    BY <1>1, <1>2, <1>6, PlaceNext, PlaceValue DEF SlotInv
  <2>2. Stored' = recvd /\ Stored' = Stored + 1
    BY <1>1, <1>3, <1>4, <1>6 DEF Stored, Bit
  <2>3. /\ Queue \in Seq(Nat) /\ Len(Queue) = Cached /\ Cached \in 0..(BufSize - 1)
        /\ \A k \in 1..Cached : Queue[k] = slot[SlotAt(k)]
    BY QueueType
  <2>4. /\ Queue' \in Seq(Nat) /\ Len(Queue') = Cached + 1
        /\ \A k \in 1..(Cached + 1) : Queue'[k] = slot[SlotAt(k)]
    BY <1>4, <2>1, <2>3, QueueTypePrime
  <2>5. SlotAt(Cached + 1) = newBufID
    BY <1>1, <2>1, SlotAtPlace
  <2>6. slot[newBufID] = recvd
    BY <1>3, <1>6
  <2>7. Queue' = Append(Queue, recvd)
    <3>1. /\ Append(Queue, recvd) \in Seq(Nat) /\ Len(Append(Queue, recvd)) = Cached + 1
          /\ \A k \in 1..Cached : Append(Queue, recvd)[k] = Queue[k]
          /\ Append(Queue, recvd)[Cached + 1] = recvd
      BY <1>1, <2>3, AppendProperties
    <3>2. ASSUME NEW k \in 1..(Cached + 1) PROVE Queue'[k] = Append(Queue, recvd)[k]
      <4>1. CASE k = Cached + 1
        BY <4>1, <2>4, <2>5, <2>6, <3>1
      <4>2. CASE k # Cached + 1
        <5>1. k \in 1..Cached
          BY <4>2, <2>3
        <5>. QED BY <5>1, <2>3, <2>4, <3>1
      <4>. QED BY <4>1, <4>2
    <3>. QED BY <2>4, <3>1, <3>2, QueueEqual
  <2>8. Len(Queue) < BufSize - 1
    BY <2>1, <2>3
  <2>. QED BY <1>3, <1>4, <2>2, <2>7, <2>8 DEF Ring!Store
<1>. QED BY <1>5, <1>6

\* What the main thread hands over is the head of the queue.
LEMMA ProcessHandsOut ==
    ASSUME BaseInv, BaseInv', ProcessInv, ProcessFrame
    PROVE  Ring!HandOut
<1>. BufSize \in Nat /\ BufSize >= 3
  BY ReaderAssumption
<1>1. /\ inBufStorID \in Slots /\ inBufProcessID \in Slots
      /\ slot \in [Slots -> Nat] /\ Cached = Place(inBufStorID)
  BY DEF BaseInv, TypeOK, ReaderTypeOK, Cached, Place
<1>2. /\ inBufProcessID' = NextSlot(inBufProcessID) /\ inBufStorID' = inBufStorID
      /\ processed' = Append(processed, slot[NextSlot(inBufProcessID)])
      /\ inBufStorID # inBufProcessID /\ slot' = slot
      /\ noFramesDropped' = noFramesDropped
  BY DEF ProcessFrame, MainGoto, ProcessInv, ringVars
<1>3. OverflowPending' = OverflowPending /\ StorePending' = StorePending /\ Stored' = Stored
  BY DEF ProcessFrame, ringVars, threadVars, OverflowPending, StorePending, Stored, Bit
<1>4. /\ Queue \in Seq(Nat) /\ Len(Queue) = Cached /\ Cached \in 0..(BufSize - 1)
      /\ \A k \in 1..Cached : Queue[k] = slot[SlotAt(k)]
  BY QueueType
<1>5. Cached' = Cached - 1 /\ Cached \in 1..(BufSize - 1)
  <2>1. Cached # 0
    BY <1>1, <1>2, CachedValue, ReaderAssumption DEF Slots
  <2>. QED BY <1>1, <1>2, <1>4, <2>1, CachedShrinks
<1>6. /\ Queue' \in Seq(Nat) /\ Len(Queue') = Cached - 1
      /\ \A k \in 1..(Cached - 1) : Queue'[k] = slot[SlotAt(k)']
  BY <1>2, <1>5, QueueTypePrime
<1>7. /\ SlotAt(1) = NextSlot(inBufProcessID)
      /\ \A k \in 1..(Cached - 1) : SlotAt(k)' = SlotAt(k + 1)
  <2>1. SlotAt(1) = NextSlot(inBufProcessID)
    BY <1>1, SlotAtValue, ReaderAssumption DEF Slots, NextSlot
  <2>2. ASSUME NEW k \in 1..(Cached - 1) PROVE SlotAt(k)' = SlotAt(k + 1)
    <3>1. SlotAt(k)' = IF inBufProcessID' + k >= BufSize
                       THEN inBufProcessID' + k - BufSize ELSE inBufProcessID' + k
      BY <1>1, <1>2, <1>5, SlotAtPrime, SlotNext, ReaderAssumption
    <3>2. k \in Nat /\ k + 1 \in 0..(BufSize - 1)
      BY <1>5
    <3>3. SlotAt(k + 1) = IF inBufProcessID + (k + 1) >= BufSize
                          THEN inBufProcessID + (k + 1) - BufSize
                          ELSE inBufProcessID + (k + 1)
      BY <1>1, <3>2, SlotAtValue
    <3>4. inBufProcessID \in Nat /\ inBufProcessID < BufSize
      BY <1>1 DEF Slots
    <3>5. inBufProcessID' = IF inBufProcessID + 1 >= BufSize THEN 0 ELSE inBufProcessID + 1
      BY <1>2 DEF NextSlot
    <3>6. CASE inBufProcessID + 1 >= BufSize
      BY <3>1, <3>2, <3>3, <3>4, <3>5, <3>6
    <3>7. CASE ~(inBufProcessID + 1 >= BufSize)
      BY <3>1, <3>2, <3>3, <3>4, <3>5, <3>7
    <3>. QED BY <3>6, <3>7
  <2>. QED BY <2>1, <2>2
<1>8. Queue # <<>> /\ Head(Queue) = slot[NextSlot(inBufProcessID)]
  BY <1>4, <1>5, <1>7, EmptySeq
<1>9. Queue' = Tail(Queue)
  <2>1. /\ Tail(Queue) \in Seq(Nat) /\ Len(Tail(Queue)) = Cached - 1
        /\ \A k \in 1..(Cached - 1) : Tail(Queue)[k] = Queue[k + 1]
    BY <1>4, <1>8, HeadTailProperties
  <2>2. ASSUME NEW k \in 1..(Cached - 1) PROVE Queue'[k] = Tail(Queue)[k]
    <3>1. k + 1 \in 1..Cached
      BY <1>5
    <3>. QED BY <3>1, <1>4, <1>6, <1>7, <2>1
  <2>. QED BY <1>6, <2>1, <2>2, QueueEqual
<1>. QED BY <1>2, <1>3, <1>8, <1>9 DEF Ring!HandOut

\* A new event finds the queue empty, and is none of its steps.
LEMMA StartStutters ==
    ASSUME EventsSettle, IInv, BaseInv', StartEvent
    PROVE  UNCHANGED Ring!bufferVars
<1>1. Settled /\ inBufStorID \in Slots /\ inBufProcessID \in Slots
  BY DEF EventsSettle, IInv, SettledInv, StartEvent, MainGoto, BaseInv, TypeOK,
     ReaderTypeOK
<1>2. Cached = 0
  BY <1>1, CachedValue DEF Settled, Slots
<1>3. Cached' = 0
  <2>1. Cached' = (0 - 0 + BufSize) % BufSize
    BY DEF StartEvent, Cached
  <2>. QED BY <2>1, ModWrap, ReaderAssumption
<1>4. Queue = <<>> /\ Queue' = <<>>
  BY <1>2, <1>3, QueueType, QueueTypePrime, EmptySeq DEF IInv
<1>5. /\ ~OverflowPending /\ ~OverflowPending' /\ ~StorePending /\ ~StorePending'
  BY <1>1 DEF Settled, Running, Counted, StartEvent, threadVars, OverflowPending,
     StorePending, IInv, BaseInv, TypeOK, ReaderTypeOK
<1>6. OverflowPending' = OverflowPending /\ Stored' = Stored
  BY <1>5 DEF StartEvent, OverflowPending, Stored, Bit
<1>. QED BY <1>4, <1>6 DEF StartEvent, Ring!bufferVars

\* An empty ring is an empty queue.
LEMMA BufferInit == Init => Ring!BufferInit
<1>. SUFFICES ASSUME Init PROVE Ring!BufferInit
  OBVIOUS
<1>1. Cached = 0
  <2>1. Cached = (0 - 0 + BufSize) % BufSize
    BY DEF Init, ReaderInit, Cached
  <2>. QED BY <2>1, ModWrap, ReaderAssumption
<1>2. Queue = <<>>
  BY <1>1, QueueType, InitInv, EmptySeq DEF IInv
<1>3. OverflowPending = FALSE /\ ~StorePending
  BY DEF Init, ReaderInit, OverflowPending, StorePending
<1>4. Stored = 0
  <2>1. Bit(StorePending) = 0
    BY <1>3 DEF Bit
  <2>. QED BY <2>1 DEF Init, ReaderInit, Stored
<1>. QED BY <1>2, <1>3, <1>4 DEF Init, ReaderInit, Ring!BufferInit

\* Every step of the threads is a step of the queue or none.
LEMMA BufferStep ==
    ASSUME EventsSettle, IInv, IInv', [Next]_vars
    PROVE  [Ring!BufferNext]_(Ring!bufferVars)
<1>. BaseInv /\ BaseInv' /\ SlotInv /\ ProcessInv /\ PendingInv
  BY DEF IInv
<1>1. CASE RingIdle
  BY <1>1, IdleStutters
<1>2. ASSUME NEW t \in Threads, ChooseSlot(t), UNCHANGED mainVars
      PROVE  Ring!BufferNext \/ UNCHANGED Ring!bufferVars
  BY <1>2, ChooseOverflows DEF Ring!BufferNext
<1>3. ASSUME NEW t \in Threads, RecvFrom(t), UNCHANGED mainVars
      PROVE  Ring!BufferNext \/ UNCHANGED Ring!bufferVars
  BY <1>3, RecvReplaces, RecvStutters DEF Ring!BufferNext
<1>4. ASSUME NEW t \in Threads, Publish(t), UNCHANGED mainVars
      PROVE  Ring!BufferNext \/ UNCHANGED Ring!bufferVars
  BY <1>4, PublishStores DEF Ring!BufferNext, PendingInv
<1>5. CASE StartEvent
  BY <1>5, StartStutters
<1>6. CASE ProcessFrame
  BY <1>6, ProcessHandsOut DEF Ring!BufferNext
<1>. QED BY <1>1, <1>2, <1>3, <1>4, <1>5, <1>6, RingSteps DEF RingStep, ReaderStores

\* The reader threads and the main thread together are a bounded queue of BufSize - 1
\* frames that gives up one frame, and counts it, each time it overflows.
THEOREM Refinement == ASSUME EventsApart PROVE Spec /\ []EventsSettle => ImplementsBuffer
<1>2. Init => Ring!BufferInit
  BY BufferInit
<1>3. EventsSettle /\ IInv /\ IInv' /\ [Next]_vars => [Ring!BufferNext]_(Ring!bufferVars)
  BY BufferStep
<1>. QED BY <1>2, <1>3, InductiveInvariant, PTL
         DEF Spec, ImplementsBuffer, Ring!BufferSpec

\* In a single event they do so whatever the race on noRunning does, and whether its
\* file opens or not.
THEOREM EventRefines == ASSUME MaxEvents = 1 PROVE Spec => ImplementsBuffer
<1>1. EventsApart /\ EventsSettle
  BY DEF EventsApart, EventsSettle
<1>. QED BY <1>1, Refinement, PTL
=============================================================================
