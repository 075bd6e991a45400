------------------------ MODULE SocketReader_proofs ------------------------
(* What the reader threads of TBBraw2h5 keep, whatever the main thread they serve *)
(* and for every value of the constants: their types, their mutual exclusion, the *)
(* balance and the order of the ring buffer, and the count of running threads.    *)
(* The proofs about the two modes, TBBraw2h5_proofs and TBBStations_proofs, add    *)
(* the main thread's steps.                                                        *)
EXTENDS SocketReader, FiniteSetTheorems, TLAPS

-----------------------------------------------------------------------------
(* Arithmetic of the ring.                                                      *)

\* The remainder of a number that is smaller than the divisor: the case of Cached in
\* which the last slot stored in lies before the last one processed.
LEMMA ModSmall ==
    ASSUME NEW n \in Nat \ {0}, NEW x \in 0..(n - 1) PROVE x % n = x
  BY SMT

\* The remainder of a number between the divisor and twice the divisor: the case of
\* Cached in which the indices have not wrapped.
LEMMA ModWrap ==
    ASSUME NEW n \in Nat \ {0}, NEW x \in n..(2 * n - 1) PROVE x % n = x - n
  BY SMT

\* tmpint of readFromSockets without the remainder: the number of frames cached.
LEMMA CachedValue ==
    ASSUME inBufStorID \in Slots, inBufProcessID \in Slots
    PROVE  Cached = IF inBufStorID >= inBufProcessID
                    THEN inBufStorID - inBufProcessID
                    ELSE inBufStorID - inBufProcessID + BufSize
<1>. BufSize \in Nat \ {0}
  BY ReaderAssumption
<1>1. CASE inBufStorID >= inBufProcessID
  BY <1>1, ModWrap DEF Cached, Slots
<1>2. CASE inBufStorID < inBufProcessID
  BY <1>2, ModSmall DEF Cached, Slots
<1>. QED BY <1>1, <1>2 DEF Slots

\* The wrap of the two indices keeps them in the buffer and moves them.
LEMMA SlotNext == \A s \in Slots : NextSlot(s) \in Slots /\ NextSlot(s) # s
  BY ReaderAssumption DEF Slots, NextSlot

\* The buffer never holds more frames than it has slots.
LEMMA CachedType ==
    ASSUME inBufStorID \in Slots, inBufProcessID \in Slots
    PROVE  Cached \in Nat /\ Cached \in 0..BufSize
  BY CachedValue, ReaderAssumption DEF Slots

\* A thread reads one of the ports given.
LEMMA PortOf == ASSUME NEW t \in Threads PROVE Port(t) \in Ports
  BY SMT DEF Threads, Port

\* A free mutex is told apart from one that is held.
LEMMA NobodyIsNoThread == Nobody \notin Threads
  BY ReaderAssumption DEF Nobody, Threads, Events

\* Storing in the next slot makes the buffer one frame longer.
LEMMA CachedGrows ==
    ASSUME inBufStorID \in Slots, inBufProcessID \in Slots,
           inBufProcessID' = inBufProcessID, inBufStorID' = NextSlot(inBufStorID),
           NextSlot(inBufStorID) # inBufProcessID
    PROVE  Cached' = Cached + 1
<1>1. Cached' = IF inBufStorID' >= inBufProcessID'
                THEN inBufStorID' - inBufProcessID'
                ELSE inBufStorID' - inBufProcessID' + BufSize
  <2>1. inBufStorID' \in Slots /\ inBufProcessID' \in Slots
    BY SlotNext
  <2>2. BufSize \in Nat \ {0}
    BY ReaderAssumption
  <2>3. CASE inBufStorID' >= inBufProcessID'
    BY <2>1, <2>2, <2>3, ModWrap DEF Cached, Slots
  <2>4. CASE inBufStorID' < inBufProcessID'
    BY <2>1, <2>2, <2>4, ModSmall DEF Cached, Slots
  <2>. QED BY <2>1, <2>2, <2>3, <2>4 DEF Slots
<1>. QED BY <1>1, CachedValue, ReaderAssumption DEF Slots, NextSlot

\* Handing a frame over makes the buffer one frame shorter.
LEMMA CachedShrinks ==
    ASSUME inBufStorID \in Slots, inBufProcessID \in Slots,
           inBufStorID' = inBufStorID, inBufProcessID' = NextSlot(inBufProcessID),
           inBufStorID # inBufProcessID
    PROVE  Cached' = Cached - 1
<1>1. Cached' = IF inBufStorID' >= inBufProcessID'
                THEN inBufStorID' - inBufProcessID'
                ELSE inBufStorID' - inBufProcessID' + BufSize
  <2>1. inBufStorID' \in Slots /\ inBufProcessID' \in Slots
    BY SlotNext
  <2>2. BufSize \in Nat \ {0}
    BY ReaderAssumption
  <2>3. CASE inBufStorID' >= inBufProcessID'
    BY <2>1, <2>2, <2>3, ModWrap DEF Cached, Slots
  <2>4. CASE inBufStorID' < inBufProcessID'
    BY <2>1, <2>2, <2>4, ModSmall DEF Cached, Slots
  <2>. QED BY <2>1, <2>2, <2>3, <2>4 DEF Slots
<1>. QED BY <1>1, CachedValue, ReaderAssumption DEF Slots, NextSlot

-----------------------------------------------------------------------------
(* One step of a reader thread, or of its environment.                           *)

ReaderMove ==
    \/ \E t \in Threads : ReaderStep(t)
    \/ \E p \in Ports : Arrive(p)
    \/ Signal

LEMMA OverwrittenType == ASSUME NEW read PROVE Overwritten(read) \subseteq {"inc", "dec"}
  BY DEF Overwritten

\* A reader thread keeps every global in its type.
LEMMA ReaderType ==
    ASSUME ReaderTypeOK, SocketInv, ReaderMove
    PROVE  ReaderTypeOK'
<1>. USE DEF ReaderTypeOK, ringVars, flagVars, netVars, countVars, threadVars
<1>1. ASSUME NEW t \in Threads, BindOK(t) PROVE ReaderTypeOK'
  BY <1>1 DEF BindOK, Goto, ReaderPC
<1>2. ASSUME NEW t \in Threads, BindFails(t) PROVE ReaderTypeOK'
  BY <1>2 DEF BindFails, Goto, ReaderPC
<1>3. ASSUME NEW t \in Threads, FirstData(t) PROVE ReaderTypeOK'
  BY <1>3 DEF FirstData, Goto, ReaderPC
<1>4. ASSUME NEW t \in Threads, WaitTimeout(t) PROVE ReaderTypeOK'
  <2>1. slices' \in [Threads -> 0..StartSlices]
    BY <1>4, ReaderAssumption DEF WaitTimeout
  <2>2. rpc' \in [Threads -> ReaderPC]
    BY <1>4 DEF WaitTimeout, ReaderPC
  <2>. QED BY <2>1, <2>2, <1>4 DEF WaitTimeout
<1>5. ASSUME NEW t \in Threads, LoopTest(t) PROVE ReaderTypeOK'
  BY <1>5 DEF LoopTest, Goto, ReaderPC
<1>6. ASSUME NEW t \in Threads, ChooseSlot(t) PROVE ReaderTypeOK'
  BY <1>6, SlotNext DEF ChooseSlot, Goto, ReaderPC
<1>7. ASSUME NEW t \in Threads, RecvFrom(t) PROVE ReaderTypeOK'
  <2>1. Port(t) \in Ports /\ waiting[Port(t)] > 0
    BY <1>7, PortOf DEF SocketInv, RecvFrom, Goto
  <2>2. waiting' \in [Ports -> Nat]
    BY <2>1, <1>7 DEF RecvFrom
  <2>3. slot' \in [Slots -> Nat] /\ recvd' \in Nat
    BY <1>7 DEF RecvFrom
  <2>. QED BY <2>2, <2>3, <1>7 DEF RecvFrom, Goto, ReaderPC
<1>8. ASSUME NEW t \in Threads, Publish(t) PROVE ReaderTypeOK'
  BY <1>8 DEF Publish, Goto, ReaderPC
<1>9. ASSUME NEW t \in Threads, ReadTimeout(t) PROVE ReaderTypeOK'
  BY <1>9 DEF ReadTimeout, Goto, ReaderPC
<1>10. ASSUME NEW t \in Threads, DecRead(t) PROVE ReaderTypeOK'
  BY <1>10 DEF DecRead, Goto, ReaderPC
<1>11. ASSUME NEW t \in Threads, DecWrite(t) PROVE ReaderTypeOK'
  <2>1. noRunning' \in Int
    BY <1>11 DEF DecWrite
  <2>2. lost' \subseteq {"inc", "dec"}
    BY <1>11, OverwrittenType DEF DecWrite
  <2>. QED BY <2>1, <2>2, <1>11 DEF DecWrite, Goto, ReaderPC
<1>12. ASSUME NEW t \in Threads, CloseSocket(t) PROVE ReaderTypeOK'
  BY <1>12 DEF CloseSocket, Goto, ReaderPC
<1>13. ASSUME NEW p \in Ports, Arrive(p) PROVE ReaderTypeOK'
  <2>1. waiting' \in [Ports -> Nat]
    BY <1>13 DEF Arrive
  <2>2. sent' \in 0..MaxFrames
    BY <1>13, ReaderAssumption DEF Arrive
  <2>. QED BY <2>1, <2>2, <1>13 DEF Arrive
<1>14. CASE Signal
  BY <1>14 DEF Signal
<1>. QED BY <1>1, <1>2, <1>3, <1>4, <1>5, <1>6, <1>7, <1>8, <1>9, <1>10, <1>11,
    <1>12, <1>13, <1>14 DEF ReaderMove, ReaderStep

\* At most one thread is between taking and releasing writeMutex.
LEMMA ReaderMutex ==
    ASSUME ReaderTypeOK, MutexInv, ReaderMove
    PROVE  MutexInv'
<1>. USE DEF MutexInv, HoldsMutex, ringVars, flagVars, netVars, countVars, threadVars
<1>. rpc \in [Threads -> ReaderPC] /\ Nobody \notin Threads
  BY NobodyIsNoThread DEF ReaderTypeOK
<1>1. ASSUME NEW t \in Threads, BindOK(t) PROVE MutexInv'
  BY <1>1 DEF BindOK, Goto
<1>2. ASSUME NEW t \in Threads, BindFails(t) PROVE MutexInv'
  BY <1>2 DEF BindFails, Goto
<1>3. ASSUME NEW t \in Threads, FirstData(t) PROVE MutexInv'
  BY <1>3 DEF FirstData, Goto
<1>4. ASSUME NEW t \in Threads, WaitTimeout(t) PROVE MutexInv'
  BY <1>4 DEF WaitTimeout, Goto
<1>5. ASSUME NEW t \in Threads, LoopTest(t) PROVE MutexInv'
  BY <1>5 DEF LoopTest, Goto
<1>6. ASSUME NEW t \in Threads, ChooseSlot(t) PROVE MutexInv'
  BY <1>6 DEF ChooseSlot, Goto
<1>7. ASSUME NEW t \in Threads, RecvFrom(t) PROVE MutexInv'
  BY <1>7 DEF RecvFrom, Goto
<1>8. ASSUME NEW t \in Threads, Publish(t) PROVE MutexInv'
  BY <1>8 DEF Publish, Goto
<1>9. ASSUME NEW t \in Threads, ReadTimeout(t) PROVE MutexInv'
  BY <1>9 DEF ReadTimeout, Goto
<1>10. ASSUME NEW t \in Threads, DecRead(t) PROVE MutexInv'
  BY <1>10 DEF DecRead, Goto
<1>11. ASSUME NEW t \in Threads, DecWrite(t) PROVE MutexInv'
  BY <1>11 DEF DecWrite, Goto
<1>12. ASSUME NEW t \in Threads, CloseSocket(t) PROVE MutexInv'
  BY <1>12 DEF CloseSocket, Goto
<1>13. ASSUME NEW p \in Ports, Arrive(p) PROVE MutexInv'
  BY <1>13 DEF Arrive
<1>14. CASE Signal
  BY <1>14 DEF Signal
<1>. QED BY <1>1, <1>2, <1>3, <1>4, <1>5, <1>6, <1>7, <1>8, <1>9, <1>10, <1>11,
    <1>12, <1>13, <1>14 DEF ReaderMove, ReaderStep

\* A port belongs to one thread, and a thread that reads has a frame to read.
LEMMA ReaderSocket ==
    ASSUME ReaderTypeOK, MutexInv, SocketInv, ReaderMove
    PROVE  SocketInv'
<1>. USE DEF SocketInv, HasSocket, ringVars, flagVars, netVars, countVars, threadVars
<1>. /\ rpc \in [Threads -> ReaderPC] /\ bound \in [Ports -> Threads \cup {Nobody}]
     /\ waiting \in [Ports -> Nat]
  BY DEF ReaderTypeOK
<1>. Nobody \notin Threads /\ \A t \in Threads : Port(t) \in Ports
  BY NobodyIsNoThread, PortOf
<1>1. ASSUME NEW t \in Threads, BindOK(t) PROVE SocketInv'
  BY <1>1 DEF BindOK, Goto
<1>2. ASSUME NEW t \in Threads, BindFails(t) PROVE SocketInv'
  BY <1>2 DEF BindFails, Goto
<1>3. ASSUME NEW t \in Threads, FirstData(t) PROVE SocketInv'
  BY <1>3 DEF FirstData, Goto
<1>4. ASSUME NEW t \in Threads, WaitTimeout(t) PROVE SocketInv'
  BY <1>4 DEF WaitTimeout, Goto
<1>5. ASSUME NEW t \in Threads, LoopTest(t) PROVE SocketInv'
  BY <1>5 DEF LoopTest, Goto
<1>6. ASSUME NEW t \in Threads, ChooseSlot(t) PROVE SocketInv'
  BY <1>6 DEF ChooseSlot, Goto
<1>7. ASSUME NEW t \in Threads, RecvFrom(t) PROVE SocketInv'
  BY <1>7 DEF RecvFrom, Goto, MutexInv, HoldsMutex
<1>8. ASSUME NEW t \in Threads, Publish(t) PROVE SocketInv'
  BY <1>8 DEF Publish, Goto
<1>9. ASSUME NEW t \in Threads, ReadTimeout(t) PROVE SocketInv'
  BY <1>9 DEF ReadTimeout, Goto
<1>10. ASSUME NEW t \in Threads, DecRead(t) PROVE SocketInv'
  BY <1>10 DEF DecRead, Goto
<1>11. ASSUME NEW t \in Threads, DecWrite(t) PROVE SocketInv'
  BY <1>11 DEF DecWrite, Goto
<1>12. ASSUME NEW t \in Threads, CloseSocket(t) PROVE SocketInv'
  BY <1>12 DEF CloseSocket, Goto
<1>13. ASSUME NEW p \in Ports, Arrive(p) PROVE SocketInv'
  BY <1>13 DEF Arrive
<1>14. CASE Signal
  BY <1>14 DEF Signal
<1>. QED BY <1>1, <1>2, <1>3, <1>4, <1>5, <1>6, <1>7, <1>8, <1>9, <1>10, <1>11,
    <1>12, <1>13, <1>14 DEF ReaderMove, ReaderStep

\* The thread that stores heads for the last slot or for a free one.
LEMMA ReaderSlot ==
    ASSUME ReaderTypeOK, MutexInv, SlotInv, ReaderMove
    PROVE  SlotInv'
<1>. USE DEF SlotInv, ringVars, flagVars, netVars, countVars, threadVars
<1>. /\ inBufStorID \in Slots /\ inBufProcessID \in Slots /\ newBufID \in Slots
     /\ rpc \in [Threads -> ReaderPC]
  BY DEF ReaderTypeOK
<1>. \A s \in Slots : NextSlot(s) \in Slots /\ NextSlot(s) # s
  BY SlotNext
<1>1. ASSUME NEW t \in Threads, BindOK(t) PROVE SlotInv'
  BY <1>1 DEF BindOK, Goto
<1>2. ASSUME NEW t \in Threads, BindFails(t) PROVE SlotInv'
  BY <1>2 DEF BindFails, Goto
<1>3. ASSUME NEW t \in Threads, FirstData(t) PROVE SlotInv'
  BY <1>3 DEF FirstData, Goto
<1>4. ASSUME NEW t \in Threads, WaitTimeout(t) PROVE SlotInv'
  BY <1>4 DEF WaitTimeout, Goto
<1>5. ASSUME NEW t \in Threads, LoopTest(t) PROVE SlotInv'
  BY <1>5 DEF LoopTest, Goto
<1>6. ASSUME NEW t \in Threads, ChooseSlot(t) PROVE SlotInv'
  BY <1>6 DEF ChooseSlot, Goto
<1>7. ASSUME NEW t \in Threads, RecvFrom(t) PROVE SlotInv'
  BY <1>7 DEF RecvFrom, Goto
<1>8. ASSUME NEW t \in Threads, Publish(t) PROVE SlotInv'
  BY <1>8 DEF Publish, Goto, MutexInv, HoldsMutex
<1>9. ASSUME NEW t \in Threads, ReadTimeout(t) PROVE SlotInv'
  BY <1>9 DEF ReadTimeout, Goto
<1>10. ASSUME NEW t \in Threads, DecRead(t) PROVE SlotInv'
  BY <1>10 DEF DecRead, Goto
<1>11. ASSUME NEW t \in Threads, DecWrite(t) PROVE SlotInv'
  BY <1>11 DEF DecWrite, Goto
<1>12. ASSUME NEW t \in Threads, CloseSocket(t) PROVE SlotInv'
  BY <1>12 DEF CloseSocket, Goto
<1>13. ASSUME NEW p \in Ports, Arrive(p) PROVE SlotInv'
  BY <1>13 DEF Arrive
<1>14. CASE Signal
  BY <1>14 DEF Signal
<1>. QED BY <1>1, <1>2, <1>3, <1>4, <1>5, <1>6, <1>7, <1>8, <1>9, <1>10, <1>11,
    <1>12, <1>13, <1>14 DEF ReaderMove, ReaderStep

RpcStays == \A u \in Threads : rpc[u] \in {"none", "done"} => rpc'[u] = rpc[u]

\* A thread that has not been started, or is done, stays so while other threads run.
LEMMA ReaderStays ==
    ASSUME ReaderTypeOK, ReaderMove
    PROVE  RpcStays
<1>. USE DEF RpcStays, ringVars, flagVars, netVars, countVars, threadVars
<1>. rpc \in [Threads -> ReaderPC]
  BY DEF ReaderTypeOK
<1>1. ASSUME NEW t \in Threads, BindOK(t) PROVE RpcStays
  BY <1>1 DEF BindOK, Goto
<1>2. ASSUME NEW t \in Threads, BindFails(t) PROVE RpcStays
  BY <1>2 DEF BindFails, Goto
<1>3. ASSUME NEW t \in Threads, FirstData(t) PROVE RpcStays
  BY <1>3 DEF FirstData, Goto
<1>4. ASSUME NEW t \in Threads, WaitTimeout(t) PROVE RpcStays
  BY <1>4 DEF WaitTimeout, Goto
<1>5. ASSUME NEW t \in Threads, LoopTest(t) PROVE RpcStays
  BY <1>5 DEF LoopTest, Goto
<1>6. ASSUME NEW t \in Threads, ChooseSlot(t) PROVE RpcStays
  BY <1>6 DEF ChooseSlot, Goto
<1>7. ASSUME NEW t \in Threads, RecvFrom(t) PROVE RpcStays
  BY <1>7 DEF RecvFrom, Goto
<1>8. ASSUME NEW t \in Threads, Publish(t) PROVE RpcStays
  BY <1>8 DEF Publish, Goto
<1>9. ASSUME NEW t \in Threads, ReadTimeout(t) PROVE RpcStays
  BY <1>9 DEF ReadTimeout, Goto
<1>10. ASSUME NEW t \in Threads, DecRead(t) PROVE RpcStays
  BY <1>10 DEF DecRead, Goto
<1>11. ASSUME NEW t \in Threads, DecWrite(t) PROVE RpcStays
  BY <1>11 DEF DecWrite, Goto
<1>12. ASSUME NEW t \in Threads, CloseSocket(t) PROVE RpcStays
  BY <1>12 DEF CloseSocket, Goto
<1>13. ASSUME NEW p \in Ports, Arrive(p) PROVE RpcStays
  BY <1>13 DEF Arrive
<1>14. CASE Signal
  BY <1>14 DEF Signal
<1>. QED BY <1>1, <1>2, <1>3, <1>4, <1>5, <1>6, <1>7, <1>8, <1>9, <1>10, <1>11,
    <1>12, <1>13, <1>14 DEF ReaderMove, ReaderStep

\* What a step of a reader can do to the ring: nothing, or one of the three things
\* that move a frame.
ReaderIdle ==
    /\ UNCHANGED <<ringVars, inBufProcessID>>
    /\ OverflowPending' = OverflowPending /\ StorePending' = StorePending

ReaderStores == \E t \in Threads : ChooseSlot(t) \/ RecvFrom(t) \/ Publish(t)

\* Every other step leaves the ring and the frame on its way into it alone.
LEMMA ReaderRing ==
    ASSUME ReaderTypeOK, MutexInv, ReaderMove
    PROVE  ReaderIdle \/ ReaderStores
<1>. USE DEF OverflowPending, StorePending, ringVars, flagVars, netVars, countVars,
    threadVars
<1>. rpc \in [Threads -> ReaderPC] /\ Nobody \notin Threads
  BY NobodyIsNoThread DEF ReaderTypeOK
<1>1. ASSUME NEW t \in Threads, BindOK(t) PROVE ReaderIdle
  BY <1>1 DEF BindOK, Goto, ReaderIdle, MutexInv, HoldsMutex
<1>2. ASSUME NEW t \in Threads, BindFails(t) PROVE ReaderIdle
  BY <1>2 DEF BindFails, Goto, ReaderIdle, MutexInv, HoldsMutex
<1>3. ASSUME NEW t \in Threads, FirstData(t) PROVE ReaderIdle
  BY <1>3 DEF FirstData, Goto, ReaderIdle, MutexInv, HoldsMutex
<1>4. ASSUME NEW t \in Threads, WaitTimeout(t) PROVE ReaderIdle
  BY <1>4 DEF WaitTimeout, Goto, ReaderIdle, MutexInv, HoldsMutex
<1>5. ASSUME NEW t \in Threads, LoopTest(t) PROVE ReaderIdle
  BY <1>5 DEF LoopTest, Goto, ReaderIdle, MutexInv, HoldsMutex
<1>6. ASSUME NEW t \in Threads, ChooseSlot(t) PROVE ReaderStores
  BY <1>6 DEF ReaderStores
<1>7. ASSUME NEW t \in Threads, RecvFrom(t) PROVE ReaderStores
  BY <1>7 DEF ReaderStores
<1>8. ASSUME NEW t \in Threads, Publish(t) PROVE ReaderStores
  BY <1>8 DEF ReaderStores
<1>9. ASSUME NEW t \in Threads, ReadTimeout(t) PROVE ReaderIdle
  BY <1>9 DEF ReadTimeout, Goto, ReaderIdle, MutexInv, HoldsMutex
<1>10. ASSUME NEW t \in Threads, DecRead(t) PROVE ReaderIdle
  BY <1>10 DEF DecRead, Goto, ReaderIdle, MutexInv, HoldsMutex
<1>11. ASSUME NEW t \in Threads, DecWrite(t) PROVE ReaderIdle
  BY <1>11 DEF DecWrite, Goto, ReaderIdle, MutexInv, HoldsMutex
<1>12. ASSUME NEW t \in Threads, CloseSocket(t) PROVE ReaderIdle
  BY <1>12 DEF CloseSocket, Goto, ReaderIdle, MutexInv, HoldsMutex
<1>13. ASSUME NEW p \in Ports, Arrive(p) PROVE ReaderIdle
  BY <1>13 DEF Arrive, ReaderIdle
<1>14. CASE Signal
  BY <1>14 DEF Signal, ReaderIdle
<1>. QED BY <1>1, <1>2, <1>3, <1>4, <1>5, <1>6, <1>7, <1>8, <1>9, <1>10, <1>11,
    <1>12, <1>13, <1>14 DEF ReaderMove, ReaderStep

\* Readers never empty the buffer, and leave the main thread's index alone.
LEMMA ReaderFills ==
    ASSUME ReaderTypeOK, MutexInv, SlotInv, ReaderMove
    PROVE  /\ inBufProcessID' = inBufProcessID
           /\ inBufStorID # inBufProcessID => inBufStorID' # inBufProcessID
<1>1. CASE ReaderIdle
  BY <1>1 DEF ReaderIdle, ringVars
<1>2. ASSUME NEW t \in Threads, ChooseSlot(t) \/ RecvFrom(t) \/ Publish(t)
      PROVE  /\ inBufProcessID' = inBufProcessID
             /\ inBufStorID # inBufProcessID => inBufStorID' # inBufProcessID
  BY <1>2 DEF ChooseSlot, RecvFrom, Publish, Goto, SlotInv
<1>. QED BY <1>1, <1>2, ReaderRing DEF ReaderStores

-----------------------------------------------------------------------------
(* The balance of the ring.                                                     *)

\* The frames received that have left the ring to the main thread: neither in it, nor
\* on their way into it, nor dropped.
Taken == recvd + Bit(OverflowPending) - Cached - Bit(StorePending) - noFramesDropped

\* The main thread takes the frame after inBufProcessID.
TakeOne ==
    /\ inBufStorID # inBufProcessID
    /\ inBufProcessID' = NextSlot(inBufProcessID)
    /\ UNCHANGED <<ringVars, rpc, writeMutex>>

\* The readers move a frame from one of the places it can be in to another.
LEMMA ReaderBalance ==
    ASSUME ReaderTypeOK, MutexInv, SlotInv, ReaderMove
    PROVE  Taken' = Taken
<1>. USE DEF Taken, OverflowPending, StorePending, Bit, ringVars, flagVars, netVars,
    countVars, threadVars
<1>. /\ inBufStorID \in Slots /\ inBufProcessID \in Slots /\ newBufID \in Slots
     /\ rpc \in [Threads -> ReaderPC]
  BY DEF ReaderTypeOK
<1>. /\ Cached \in Nat /\ recvd \in Nat /\ noFramesDropped \in Nat
     /\ Nobody \notin Threads
  BY CachedType, NobodyIsNoThread DEF ReaderTypeOK
<1>. \A s \in Slots : NextSlot(s) \in Slots /\ NextSlot(s) # s
  BY SlotNext
<1>1. CASE ReaderIdle
  BY <1>1 DEF ReaderIdle, Cached
<1>2. ASSUME NEW t \in Threads, ChooseSlot(t) PROVE Taken' = Taken
  <2>1. Cached' = Cached
    BY <1>2 DEF ChooseSlot, Cached
  <2>2. ~OverflowPending /\ ~StorePending /\ ~StorePending'
    BY <1>2 DEF ChooseSlot, Goto
  <2>3. CASE NextSlot(inBufStorID) = inBufProcessID
    <3>1. noFramesDropped' = noFramesDropped + 1 /\ OverflowPending'
      BY <1>2, <2>3 DEF ChooseSlot, Goto
    <3>2. recvd' = recvd
      BY <1>2 DEF ChooseSlot
    <3>. QED BY <2>1, <2>2, <3>1, <3>2
  <2>4. CASE NextSlot(inBufStorID) # inBufProcessID
    <3>1. noFramesDropped' = noFramesDropped /\ ~OverflowPending'
      BY <1>2, <2>4 DEF ChooseSlot, Goto
    <3>2. recvd' = recvd
      BY <1>2 DEF ChooseSlot
    <3>3. /\ Bit(OverflowPending)' = 0 /\ Bit(StorePending)' = 0
          /\ Bit(OverflowPending) = 0 /\ Bit(StorePending) = 0
      BY <2>2, <3>1
    <3>. HIDE DEF OverflowPending, StorePending, Bit
    <3>. QED BY <2>1, <3>1, <3>2, <3>3
  <2>. QED BY <2>3, <2>4
<1>3. ASSUME NEW t \in Threads, RecvFrom(t) PROVE Taken' = Taken
  <2>1. Cached' = Cached
    BY <1>3 DEF RecvFrom, Cached
  <2>2. writeMutex = t /\ writeMutex # Nobody /\ writeMutex' = t
    BY <1>3 DEF RecvFrom, Goto, MutexInv, HoldsMutex
  <2>3. /\ ~StorePending /\ ~OverflowPending'
        /\ OverflowPending <=> newBufID = inBufStorID
        /\ StorePending' <=> newBufID # inBufStorID
    BY <2>2, <1>3 DEF RecvFrom, Goto
  <2>. QED BY <2>1, <2>3, <1>3 DEF RecvFrom
<1>4. ASSUME NEW t \in Threads, Publish(t) PROVE Taken' = Taken
  <2>1. writeMutex = t /\ writeMutex # Nobody /\ writeMutex' = Nobody
    BY <1>4 DEF Publish, Goto, MutexInv, HoldsMutex
  <2>2. /\ ~OverflowPending /\ ~OverflowPending' /\ ~StorePending'
        /\ StorePending <=> newBufID # inBufStorID
    BY <2>1, <1>4 DEF Publish, Goto
  <2>3. CASE newBufID = inBufStorID
    <3>1. Cached' = Cached
      BY <1>4, <2>3 DEF Publish, Cached
    <3>. QED BY <2>2, <2>3, <3>1, <1>4 DEF Publish
  <2>4. CASE newBufID # inBufStorID
    <3>1. Cached' = Cached + 1
      BY <1>4, <2>4, CachedGrows DEF Publish, Goto, SlotInv
    <3>. QED BY <2>2, <2>4, <3>1, <1>4 DEF Publish
  <2>. QED BY <2>3, <2>4
<1>. QED BY <1>1, <1>2, <1>3, <1>4, ReaderRing DEF ReaderStores

\* The main thread takes one.
LEMMA TakeBalance == ASSUME ReaderTypeOK, TakeOne PROVE Taken' = Taken + 1
<1>. /\ inBufStorID \in Slots /\ inBufProcessID \in Slots
     /\ recvd \in Nat /\ noFramesDropped \in Nat
  BY DEF ReaderTypeOK
<1>1. Cached' = Cached - 1 /\ Cached \in Nat
  BY CachedShrinks, CachedType DEF TakeOne, ringVars
<1>2. /\ OverflowPending' = OverflowPending /\ StorePending' = StorePending
      /\ recvd' = recvd /\ noFramesDropped' = noFramesDropped
  BY DEF TakeOne, ringVars, OverflowPending, StorePending
<1>3. Bit(OverflowPending) \in {0, 1} /\ Bit(StorePending) \in {0, 1}
  BY DEF Bit
<1>4. Bit(OverflowPending)' = Bit(OverflowPending) /\ Bit(StorePending)' = Bit(StorePending)
  BY <1>2 DEF Bit
<1>. QED BY <1>1, <1>2, <1>3, <1>4 DEF Taken

-----------------------------------------------------------------------------
(* The order of the frames in it.                                               *)

\* The distance of a slot from the one last processed, without the remainder.
LEMMA PlaceValue ==
    ASSUME inBufProcessID \in Slots, NEW s \in Slots
    PROVE  /\ Place(s) = IF s >= inBufProcessID THEN s - inBufProcessID
                         ELSE s - inBufProcessID + BufSize
           /\ Place(s) \in 0..(BufSize - 1)
<1>. BufSize \in Nat \ {0}
  BY ReaderAssumption
<1>1. CASE s >= inBufProcessID
  BY <1>1, ModWrap DEF Place, Slots
<1>2. CASE s < inBufProcessID
  BY <1>2, ModSmall DEF Place, Slots
<1>. QED BY <1>1, <1>2 DEF Slots

\* No two slots are at the same distance.
LEMMA PlaceInjective ==
    ASSUME inBufProcessID \in Slots, NEW r \in Slots, NEW s \in Slots,
           Place(r) = Place(s)
    PROVE  r = s
  BY PlaceValue, ReaderAssumption DEF Slots

\* The slot after s is one further away, unless it is the one last processed.
LEMMA PlaceNext ==
    ASSUME inBufProcessID \in Slots, NEW s \in Slots, NextSlot(s) # inBufProcessID
    PROVE  Place(NextSlot(s)) = Place(s) + 1
<1>1. NextSlot(s) \in Slots
  BY SlotNext
<1>. QED BY <1>1, PlaceValue, ReaderAssumption DEF Slots, NextSlot

\* When the main thread moves on every slot comes one nearer, but the one it leaves.
LEMMA PlaceMoves ==
    ASSUME inBufProcessID \in Slots, inBufProcessID' = NextSlot(inBufProcessID),
           NEW s \in Slots
    PROVE  Place(s)' = IF s = inBufProcessID THEN BufSize - 1 ELSE Place(s) - 1
<1>. BufSize \in Nat \ {0} /\ inBufProcessID' \in Slots
  BY ReaderAssumption, SlotNext
<1>1. Place(s)' = IF s >= inBufProcessID' THEN s - inBufProcessID'
                  ELSE s - inBufProcessID' + BufSize
  <2>1. CASE s >= inBufProcessID'
    BY <2>1, ModWrap DEF Place, Slots
  <2>2. CASE s < inBufProcessID'
    BY <2>2, ModSmall DEF Place, Slots
  <2>. QED BY <2>1, <2>2 DEF Slots
<1>2. Place(s) = IF s >= inBufProcessID THEN s - inBufProcessID
                 ELSE s - inBufProcessID + BufSize
  BY PlaceValue
<1>3. s \in Int /\ inBufProcessID \in Int /\ s >= 0 /\ s < BufSize
  BY DEF Slots
<1>. HIDE DEF Place
<1>4. CASE inBufProcessID + 1 >= BufSize
  <2>1. inBufProcessID = BufSize - 1 /\ inBufProcessID' = 0
    BY <1>4 DEF Slots, NextSlot
  <2>2. Place(s)' = s
    BY <1>1, <1>3, <2>1
  <2>3. Place(s) = IF s = inBufProcessID THEN 0 ELSE s + 1
    BY <1>2, <1>3, <2>1
  <2>. QED BY <1>3, <2>1, <2>2, <2>3
<1>5. CASE inBufProcessID + 1 < BufSize
  <2>1. inBufProcessID' = inBufProcessID + 1
    BY <1>3, <1>5 DEF NextSlot
  <2>2. CASE s = inBufProcessID
    BY <1>1, <1>3, <2>1, <2>2
  <2>3. CASE s > inBufProcessID
    BY <1>1, <1>2, <1>3, <2>1, <2>3
  <2>4. CASE s < inBufProcessID
    BY <1>1, <1>2, <1>3, <2>1, <2>4
  <2>. QED BY <1>3, <2>2, <2>3, <2>4
<1>. QED BY <1>3, <1>4, <1>5

\* The frames cached and the one on its way in leave a slot free.
LEMMA PendingFits ==
    ASSUME ReaderTypeOK, SlotInv
    PROVE  Cached + Bit(StorePending) \in 0..(BufSize - 1)
<1>. /\ inBufStorID \in Slots /\ inBufProcessID \in Slots
     /\ BufSize \in Nat \ {0} /\ Cached = Place(inBufStorID)
  BY ReaderAssumption DEF ReaderTypeOK, Cached, Place
<1>1. CASE StorePending
  <2>1. PICK t \in Threads : t = writeMutex /\ rpc[t] = "publish"
    BY <1>1 DEF StorePending, ReaderTypeOK
  <2>2. NextSlot(inBufStorID) # inBufProcessID
    BY <1>1, <2>1 DEF SlotInv, StorePending
  <2>3. NextSlot(inBufStorID) \in Slots
    BY SlotNext
  <2>. QED BY <1>1, <2>2, <2>3, PlaceNext, PlaceValue DEF Bit
<1>2. CASE ~StorePending
  BY <1>2, PlaceValue DEF Bit
<1>. QED BY <1>1, <1>2

\* The frame a thread stores comes behind all others.
LEMMA ReaderOrder ==
    ASSUME ReaderTypeOK, MutexInv, SlotInv, NEW h \in Seq(Nat), RingInOrder(h), ReaderMove
    PROVE  RingInOrder(h)'
<1>. /\ inBufStorID \in Slots /\ inBufProcessID \in Slots /\ newBufID \in Slots
     /\ slot \in [Slots -> Nat] /\ recvd \in Nat
     /\ rpc \in [Threads -> ReaderPC]
     /\ Nobody \notin Threads /\ BufSize \in Nat /\ BufSize >= 3
     /\ Cached = Place(inBufStorID)
  BY NobodyIsNoThread, ReaderAssumption DEF ReaderTypeOK, Cached, Place
<1>. Len(h) \in Nat
  OBVIOUS
<1>1. ASSUME UNCHANGED <<slot, recvd, inBufProcessID>>, Filled' = Filled
      PROVE RingInOrder(h)'
  <2>1. \A s \in Slots : Place(s)' = Place(s)
    BY <1>1 DEF Place
  <2>. QED BY <1>1, <2>1 DEF RingInOrder, TakenInOrder, Filled
<1>2. CASE ReaderIdle
  <2>1. Filled' = Filled
    BY <1>2 DEF ReaderIdle, ringVars, Filled, Place, Cached, Bit
  <2>. QED BY <1>1, <1>2, <2>1 DEF ReaderIdle, ringVars
<1>3. ASSUME NEW t \in Threads, ChooseSlot(t) PROVE RingInOrder(h)'
  <2>1. ~StorePending /\ ~StorePending'
    BY <1>3 DEF ChooseSlot, Goto, StorePending
  <2>2. Filled' = Filled
    BY <1>3, <2>1 DEF ChooseSlot, Filled, Place, Cached, Bit
  <2>. QED BY <1>1, <1>3, <2>2 DEF ChooseSlot
<1>4. ASSUME NEW t \in Threads, RecvFrom(t) PROVE RingInOrder(h)'
  <2>1. /\ writeMutex = t /\ writeMutex' = t /\ newBufID' = newBufID
        /\ inBufStorID' = inBufStorID /\ inBufProcessID' = inBufProcessID
        /\ recvd' = recvd + 1
        /\ slot' = [slot EXCEPT ![newBufID] = recvd + 1]
    BY <1>4 DEF RecvFrom, Goto, MutexInv, HoldsMutex
  <2>2. ~StorePending /\ (StorePending' <=> newBufID # inBufStorID)
    BY <1>4, <2>1 DEF RecvFrom, Goto, StorePending
  <2>3. Cached' = Cached /\ \A s \in Slots : Place(s)' = Place(s)
    BY <2>1 DEF Cached, Place
  <2>4. \A s \in Slots : Place(s) \in 0..(BufSize - 1)
    BY PlaceValue
  <2>5. newBufID # inBufStorID => Place(newBufID) = Cached + 1
    BY <1>4, PlaceNext DEF RecvFrom, Goto, SlotInv
  <2>6. \A s \in Filled' : s = newBufID \/ (s \in Filled /\ Place(s) < Place(newBufID))
    <3>1. SUFFICES ASSUME NEW s \in Slots, s # newBufID,
                          Place(s) \in 1..(Cached + Bit(newBufID # inBufStorID))
                   PROVE  Place(s) \in 1..Cached /\ Place(s) < Place(newBufID)
      <4>1. Bit(StorePending) = 0 /\ Bit(StorePending)' = Bit(newBufID # inBufStorID)
        BY <2>2 DEF Bit
      <4>2. Filled = {s \in Slots : Place(s) \in 1..Cached}
        BY <4>1, PlaceValue DEF Filled
      <4>3. Filled' = {s \in Slots : Place(s) \in 1..(Cached + Bit(newBufID # inBufStorID))}
        BY <4>1, <2>3 DEF Filled
      <4>. QED BY <4>2, <4>3
    <3>2. Place(s) # Place(newBufID)
      BY <3>1, PlaceInjective
    <3>3. CASE newBufID = inBufStorID
      BY <3>1, <3>2, <3>3, <2>4 DEF Bit
    <3>4. CASE newBufID # inBufStorID
      BY <3>1, <3>2, <3>4, <2>4, <2>5 DEF Bit
    <3>. QED BY <3>3, <3>4
  <2>7. \A s \in Filled : slot[s] \in 1..recvd
    BY DEF RingInOrder
  <2>8. /\ slot'[newBufID] = recvd'
        /\ \A s \in Filled : s # newBufID => slot'[s] = slot[s]
    BY <2>1 DEF Filled
  <2>9. TakenInOrder(h)'
    BY <2>1 DEF RingInOrder, TakenInOrder
  <2>10. ASSUME NEW s \in Filled'
         PROVE  slot'[s] \in 1..recvd' /\ \A i \in 1..Len(h) : h[i] < slot'[s]
    <3>1. CASE s = newBufID
      BY <3>1, <2>1, <2>8 DEF RingInOrder, TakenInOrder
    <3>2. CASE s # newBufID
      BY <3>2, <2>6, <2>1, <2>7, <2>8 DEF RingInOrder
    <3>. QED BY <3>1, <3>2
  <2>11. ASSUME NEW r \in Filled', NEW s \in Filled', Place(r)' < Place(s)'
         PROVE  slot'[r] < slot'[s]
    <3>1. r \in Slots /\ s \in Slots /\ Place(r) < Place(s)
      BY <2>11, <2>3 DEF Filled
    <3>2. r # newBufID /\ r \in Filled
      BY <3>1, <2>6, <2>4, <2>11
    <3>3. CASE s = newBufID
      BY <3>2, <3>3, <2>7, <2>8, <2>1
    <3>4. CASE s # newBufID
      BY <3>1, <3>2, <3>4, <2>6, <2>8, <2>11 DEF RingInOrder
    <3>. QED BY <3>3, <3>4
  <2>. QED BY <2>9, <2>10, <2>11 DEF RingInOrder
<1>5. ASSUME NEW t \in Threads, Publish(t) PROVE RingInOrder(h)'
  <2>1. writeMutex = t /\ writeMutex # Nobody /\ writeMutex' = Nobody
    BY <1>5 DEF Publish, Goto, MutexInv, HoldsMutex
  <2>2. ~StorePending' /\ (StorePending <=> newBufID # inBufStorID)
    BY <1>5, <2>1 DEF Publish, Goto, StorePending
  <2>3. Cached' = Place(newBufID)
    BY <1>5 DEF Publish, Cached, Place
  <2>4. newBufID # inBufStorID => Place(newBufID) = Cached + 1
    BY <1>5, PlaceNext DEF Publish, Goto, SlotInv
  <2>5. Cached' + Bit(StorePending)' = Cached + Bit(StorePending)
    <3>1. CASE newBufID = inBufStorID
      BY <3>1, <2>2, <2>3 DEF Bit
    <3>2. CASE newBufID # inBufStorID
      BY <3>2, <2>2, <2>3, <2>4, PlaceValue DEF Bit
    <3>. QED BY <3>1, <3>2
  <2>6. Filled' = Filled
    BY <1>5, <2>5 DEF Publish, Filled, Place
  <2>. QED BY <1>1, <1>5, <2>6 DEF Publish
<1>. QED BY <1>2, <1>3, <1>4, <1>5, ReaderRing DEF ReaderStores

\* The frame next to the one last processed is in the ring when that is not empty.
LEMMA NextFilled ==
    ASSUME ReaderTypeOK, SlotInv, inBufStorID # inBufProcessID
    PROVE  NextSlot(inBufProcessID) \in Filled
<1>. /\ inBufStorID \in Slots /\ inBufProcessID \in Slots
     /\ BufSize \in Nat /\ BufSize >= 3
  BY ReaderAssumption DEF ReaderTypeOK
<1>1. NextSlot(inBufProcessID) \in Slots /\ NextSlot(inBufProcessID) # inBufProcessID
  BY SlotNext
<1>2. Place(NextSlot(inBufProcessID)) = 1
  BY <1>1, PlaceNext, PlaceValue DEF Slots
<1>3. Cached \in Nat /\ Cached # 0
  BY CachedValue, CachedType, ReaderAssumption DEF Slots
<1>. QED BY <1>1, <1>2, <1>3 DEF Filled, Bit

\* The main thread may take in its place an older frame that was there, as long as it
\* is newer than those it has taken.
LEMMA TakeOlder ==
    ASSUME ReaderTypeOK, SlotInv, NEW h \in Seq(Nat), RingInOrder(h), TakeOne,
           NEW n \in 1..slot[inBufProcessID'], \A i \in 1..Len(h) : h[i] < n,
           NEW g, g = Append(h, n)
    PROVE  RingInOrder(g)'
<1>. /\ inBufStorID \in Slots /\ inBufProcessID \in Slots /\ newBufID \in Slots
     /\ slot \in [Slots -> Nat] /\ recvd \in Nat
     /\ rpc \in [Threads -> ReaderPC]
     /\ Nobody \notin Threads /\ BufSize \in Nat /\ BufSize >= 3
     /\ Cached = Place(inBufStorID)
  BY NobodyIsNoThread, ReaderAssumption DEF ReaderTypeOK, Cached, Place
<1>. Len(h) \in Nat
  OBVIOUS
<1>1. /\ inBufProcessID' = NextSlot(inBufProcessID) /\ inBufStorID' = inBufStorID
      /\ slot' = slot /\ recvd' = recvd /\ inBufStorID # inBufProcessID
      /\ StorePending' = StorePending
  BY DEF TakeOne, ringVars, StorePending
<1>2. inBufProcessID' \in Slots /\ inBufProcessID' # inBufProcessID
  BY <1>1, SlotNext
<1>3. Cached' = Cached - 1 /\ Cached \in Nat /\ Cached > 0
  <2>1. Cached # 0
    BY <1>1, CachedValue, ReaderAssumption DEF Slots
  <2>. QED BY <2>1, <1>1, CachedShrinks, CachedType
<1>4. Place(inBufProcessID) = 0 /\ Place(inBufProcessID') = 1
  BY <1>1, <1>2, PlaceNext, PlaceValue DEF Slots
<1>5. Cached + Bit(StorePending) \in 0..(BufSize - 1)
  BY PendingFits
<1>6. inBufProcessID' \in Filled
  BY <1>2, <1>3, <1>4 DEF Filled, Bit
<1>7. ASSUME NEW s \in Filled'
      PROVE  /\ s \in Filled /\ Place(s)' = Place(s) - 1
             /\ Place(inBufProcessID') < Place(s)
  <2>1. s \in Slots /\ Place(s)' \in 1..(Cached - 1 + Bit(StorePending))
    BY <1>1, <1>3 DEF Filled, Bit
  <2>2. s # inBufProcessID /\ Place(s)' = Place(s) - 1
    <3>1. Place(s)' = IF s = inBufProcessID THEN BufSize - 1 ELSE Place(s) - 1
      BY <2>1, <1>1, PlaceMoves
    <3>2. Bit(StorePending) \in {0, 1}
      BY DEF Bit
    <3>. QED BY <2>1, <3>1, <3>2, <1>3, <1>5
  <2>3. Bit(StorePending) \in {0, 1} /\ Place(s) \in 0..(BufSize - 1)
    BY <2>1, PlaceValue DEF Bit
  <2>4. Place(s) \in 2..(Cached + Bit(StorePending))
    <3>. DEFINE top == Cached + Bit(StorePending)
    <3>1. Place(s) - 1 \in 1..(Cached - 1 + Bit(StorePending)) /\ Place(s) \in Int
      BY <2>1, <2>2, <2>3
    <3>2. top \in Int /\ Cached - 1 + Bit(StorePending) = top - 1
      BY <2>3, <1>3
    <3>. HIDE DEF top
    <3>3. Place(s) \in 2..top
      BY <3>1, <3>2
    <3>. QED BY <3>3 DEF top
  <2>5. 2..(Cached + Bit(StorePending)) \subseteq 1..(Cached + Bit(StorePending))
    BY <2>3, <1>3
  <2>. QED BY <2>1, <2>2, <2>4, <2>5, <2>3, <1>3, <1>4 DEF Filled
<1>8. slot[inBufProcessID'] \in 1..recvd /\ n \in 1..recvd
  BY <1>6 DEF RingInOrder
<1>9. /\ Len(g) = Len(h) + 1
      /\ \A i \in 1..Len(h) : g[i] = h[i]
      /\ g[Len(h) + 1] = n
  BY <1>8
<1>10. TakenInOrder(g)'
  BY <1>1, <1>8, <1>9 DEF RingInOrder, TakenInOrder
<1>11. ASSUME NEW s \in Filled'
       PROVE  slot'[s] \in 1..recvd' /\ \A i \in 1..Len(g) : g[i] < slot'[s]
  <2>1. slot[inBufProcessID'] < slot[s]
    BY <1>6, <1>7 DEF RingInOrder
  <2>2. slot[s] \in 1..recvd /\ \A i \in 1..Len(h) : h[i] < slot[s]
    BY <1>7 DEF RingInOrder
  <2>3. n < slot[s]
    BY <2>1, <2>2, <1>8
  <2>. QED BY <2>2, <2>3, <1>9, <1>1
<1>12. ASSUME NEW r \in Filled', NEW s \in Filled', Place(r)' < Place(s)'
       PROVE  slot'[r] < slot'[s]
  <2>1. r \in Slots /\ s \in Slots
    BY <1>7 DEF Filled
  <2>2. Place(r) < Place(s)
    BY <2>1, <1>7, <1>12, PlaceValue
  <2>. QED BY <2>2, <1>1, <1>7 DEF RingInOrder
<1>. QED BY <1>10, <1>11, <1>12 DEF RingInOrder

\* The one the main thread takes is the oldest.
LEMMA TakeOrder ==
    ASSUME ReaderTypeOK, SlotInv, NEW h \in Seq(Nat), RingInOrder(h), TakeOne,
           NEW g, g = Append(h, slot[inBufProcessID'])
    PROVE  RingInOrder(g)'
<1>1. inBufProcessID' \in Filled
  BY NextFilled DEF TakeOne
<1>2. /\ slot[inBufProcessID'] \in 1..recvd /\ recvd \in Nat
      /\ \A i \in 1..Len(h) : h[i] < slot[inBufProcessID']
  BY <1>1 DEF RingInOrder, ReaderTypeOK
<1>3. slot[inBufProcessID'] \in 1..slot[inBufProcessID']
  BY <1>2
<1>. QED BY <1>2, <1>3, TakeOlder

\* A reader stores over the frame the main thread is to take next, if at all, a newer
\* one, and has counted a frame as dropped by then.
LEMMA ReaderOverwrites ==
    ASSUME ReaderTypeOK, MutexInv, SlotInv, OverflowInv, NEW h \in Seq(Nat),
           RingInOrder(h), inBufStorID # inBufProcessID, ReaderMove
    PROVE  /\ slot'[NextSlot(inBufProcessID)] >= slot[NextSlot(inBufProcessID)]
           /\ noFramesDropped' = 0 =>
                slot'[NextSlot(inBufProcessID)] = slot[NextSlot(inBufProcessID)]
<1>. DEFINE s == NextSlot(inBufProcessID)
<1>. HIDE DEF s
<1>. /\ inBufStorID \in Slots /\ inBufProcessID \in Slots /\ newBufID \in Slots
     /\ slot \in [Slots -> Nat] /\ recvd \in Nat /\ rpc \in [Threads -> ReaderPC]
     /\ Nobody \notin Threads
  BY NobodyIsNoThread DEF ReaderTypeOK
<1>1. s \in Slots /\ slot[s] \in 1..recvd
  BY NextFilled, SlotNext DEF s, RingInOrder
<1>2. ASSUME slot' = slot PROVE slot'[s] >= slot[s] /\ slot'[s] = slot[s]
  BY <1>1, <1>2
<1>3. ASSUME NEW t \in Threads, RecvFrom(t)
      PROVE  slot'[s] >= slot[s] /\ (noFramesDropped' = 0 => slot'[s] = slot[s])
  <2>1. slot' = [slot EXCEPT ![newBufID] = recvd + 1] /\ noFramesDropped' = noFramesDropped
    BY <1>3 DEF RecvFrom
  <2>2. CASE newBufID # s
    BY <1>1, <2>1, <2>2
  <2>3. CASE newBufID = s
    <3>1. writeMutex = t /\ rpc[t] = "recv"
      BY <1>3 DEF RecvFrom, Goto, MutexInv, HoldsMutex
    <3>2. newBufID = inBufStorID
      <4>1. \A q, r \in Slots : NextSlot(q) = NextSlot(r) => q = r
        BY ReaderAssumption DEF Slots, NextSlot
      <4>2. newBufID = NextSlot(inBufStorID) => inBufStorID = inBufProcessID
        BY <2>3, <4>1 DEF s
      <4>. QED BY <3>1, <4>2 DEF SlotInv
    <3>3. noFramesDropped > 0
      BY <3>1, <3>2 DEF OverflowInv, OverflowPending
    <3>. QED BY <1>1, <2>1, <2>3, <3>3
  <2>. QED BY <2>2, <2>3
<1>4. slot'[s] >= slot[s] /\ (noFramesDropped' = 0 => slot'[s] = slot[s])
  BY <1>2, <1>3, ReaderRing DEF ReaderStores, ReaderIdle, ringVars, ChooseSlot, Publish
<1>. QED BY <1>4 DEF s

\* What is about to be stored over another frame has been counted, and the count stays.
LEMMA ReaderDrops ==
    ASSUME ReaderTypeOK, MutexInv, OverflowInv, ReaderMove
    PROVE  OverflowInv' /\ noFramesDropped' >= noFramesDropped
<1>. /\ noFramesDropped \in Nat /\ rpc \in [Threads -> ReaderPC] /\ Nobody \notin Threads
     /\ inBufStorID \in Slots
  BY NobodyIsNoThread DEF ReaderTypeOK
<1>1. CASE ReaderIdle
  BY <1>1 DEF ReaderIdle, ringVars, OverflowInv
<1>2. ASSUME NEW t \in Threads, ChooseSlot(t)
      PROVE  OverflowInv' /\ noFramesDropped' >= noFramesDropped
  BY <1>2, SlotNext DEF ChooseSlot, Goto, OverflowInv, OverflowPending
<1>3. ASSUME NEW t \in Threads, RecvFrom(t)
      PROVE  OverflowInv' /\ noFramesDropped' >= noFramesDropped
  BY <1>3 DEF RecvFrom, Goto, OverflowInv, OverflowPending, MutexInv, HoldsMutex
<1>4. ASSUME NEW t \in Threads, Publish(t)
      PROVE  OverflowInv' /\ noFramesDropped' >= noFramesDropped
  BY <1>4 DEF Publish, Goto, OverflowInv, OverflowPending
<1>. QED BY <1>1, <1>2, <1>3, <1>4, ReaderRing DEF ReaderStores

\* The frame on its way in is the last one recvfrom delivered.
LEMMA ReaderPending ==
    ASSUME ReaderTypeOK, MutexInv, PendingInv, ReaderMove PROVE PendingInv'
<1>. /\ newBufID \in Slots /\ slot \in [Slots -> Nat] /\ rpc \in [Threads -> ReaderPC]
     /\ Nobody \notin Threads
  BY NobodyIsNoThread DEF ReaderTypeOK
<1>1. CASE ReaderIdle
  BY <1>1 DEF ReaderIdle, ringVars, PendingInv
<1>2. ASSUME NEW t \in Threads, ChooseSlot(t) PROVE PendingInv'
  BY <1>2 DEF ChooseSlot, Goto, PendingInv, StorePending
<1>3. ASSUME NEW t \in Threads, RecvFrom(t) PROVE PendingInv'
  BY <1>3 DEF RecvFrom, PendingInv
<1>4. ASSUME NEW t \in Threads, Publish(t) PROVE PendingInv'
  BY <1>4 DEF Publish, PendingInv, StorePending
<1>. QED BY <1>1, <1>2, <1>3, <1>4, ReaderRing DEF ReaderStores

-----------------------------------------------------------------------------
(* The number of running threads.                                               *)

RunningIdle == Running' = Running /\ noRunning' = noRunning /\ lost' = lost
CountsOut == \E t \in Threads : DecWrite(t)

\* What a write of noRunning overwrites, if nothing of one kind.
LEMMA Overwrites ==
    ASSUME NEW read \in Int, noRunning \in Int, lost' = lost \cup Overwritten(read)
    PROVE  /\ lost \subseteq lost'
           /\ "inc" \notin lost' => read >= noRunning
           /\ "dec" \notin lost' => read <= noRunning
  BY DEF Overwritten

\* One step of a running thread ends it for the count.
LEMMA ReaderRuns ==
    ASSUME ReaderTypeOK, ReaderMove
    PROVE  RunningIdle \/ CountsOut
<1>. USE DEF Running, Counted, ringVars, flagVars, netVars, countVars, threadVars
<1>. rpc \in [Threads -> ReaderPC]
  BY DEF ReaderTypeOK
<1>1. ASSUME NEW t \in Threads, BindOK(t) PROVE RunningIdle
  BY <1>1 DEF BindOK, Goto, RunningIdle
<1>2. ASSUME NEW t \in Threads, BindFails(t) PROVE RunningIdle
  BY <1>2 DEF BindFails, Goto, RunningIdle
<1>3. ASSUME NEW t \in Threads, FirstData(t) PROVE RunningIdle
  BY <1>3 DEF FirstData, Goto, RunningIdle
<1>4. ASSUME NEW t \in Threads, WaitTimeout(t) PROVE RunningIdle
  BY <1>4 DEF WaitTimeout, Goto, RunningIdle
<1>5. ASSUME NEW t \in Threads, LoopTest(t) PROVE RunningIdle
  BY <1>5 DEF LoopTest, Goto, RunningIdle
<1>6. ASSUME NEW t \in Threads, ChooseSlot(t) PROVE RunningIdle
  BY <1>6 DEF ChooseSlot, Goto, RunningIdle
<1>7. ASSUME NEW t \in Threads, RecvFrom(t) PROVE RunningIdle
  BY <1>7 DEF RecvFrom, Goto, RunningIdle
<1>8. ASSUME NEW t \in Threads, Publish(t) PROVE RunningIdle
  BY <1>8 DEF Publish, Goto, RunningIdle
<1>9. ASSUME NEW t \in Threads, ReadTimeout(t) PROVE RunningIdle
  BY <1>9 DEF ReadTimeout, Goto, RunningIdle
<1>10. ASSUME NEW t \in Threads, DecRead(t) PROVE RunningIdle
  BY <1>10 DEF DecRead, Goto, RunningIdle
<1>11. ASSUME NEW t \in Threads, DecWrite(t) PROVE CountsOut
  BY <1>11 DEF CountsOut
<1>12. ASSUME NEW t \in Threads, CloseSocket(t) PROVE RunningIdle
  BY <1>12 DEF CloseSocket, Goto, RunningIdle
<1>13. ASSUME NEW p \in Ports, Arrive(p) PROVE RunningIdle
  BY <1>13 DEF Arrive, RunningIdle
<1>14. CASE Signal
  BY <1>14 DEF Signal, RunningIdle
<1>. QED BY <1>1, <1>2, <1>3, <1>4, <1>5, <1>6, <1>7, <1>8, <1>9, <1>10, <1>11,
    <1>12, <1>13, <1>14 DEF ReaderMove, ReaderStep

\* A thread that is started joins the running ones.
LEMMA RunningGrows ==
    ASSUME ReaderTypeOK, NEW t \in Threads, rpc[t] = "none",
           rpc' = [rpc EXCEPT ![t] = "socket"]
    PROVE  t \notin Running /\ Running' = Running \cup {t}
<1>1. rpc \in [Threads -> ReaderPC]
  BY DEF ReaderTypeOK
<1>. QED BY <1>1 DEF Running, Counted

\* A thread that counts itself out leaves them.
LEMMA RunningShrinks ==
    ASSUME ReaderTypeOK, NEW t \in Threads, DecWrite(t)
    PROVE  t \in Running /\ Running' = Running \ {t}
<1>1. rpc \in [Threads -> ReaderPC]
  BY DEF ReaderTypeOK
<1>2. rpc[t] \in {"endDec", "quitDec"}
  BY DEF DecWrite, Goto
<1>3. PICK to \in {"close", "done"} : rpc' = [rpc EXCEPT ![t] = to]
  BY DEF DecWrite, Goto
<1>4. \A u \in Threads : rpc'[u] = IF u = t THEN to ELSE rpc[u]
  BY <1>1, <1>3
<1>. QED BY <1>2, <1>4 DEF Running, Counted

\* A step of the readers keeps noRunning from falling short of the number of running
\* threads, and from exceeding it, but for an update of the main thread it overwrites.
LEMMA ReaderCounts ==
    ASSUME ReaderTypeOK, IsFiniteSet(Running), ReaderMove
    PROVE  /\ IsFiniteSet(Running') /\ lost \subseteq lost'
           /\ "inc" \notin lost' =>
                noRunning' - Cardinality(Running') >= noRunning - Cardinality(Running)
           /\ "dec" \notin lost' =>
                noRunning' - Cardinality(Running') <= noRunning - Cardinality(Running)
<1>1. noRunning \in Int /\ Cardinality(Running) \in Nat
  BY FS_CardinalityType DEF ReaderTypeOK
<1>2. CASE RunningIdle
  BY <1>1, <1>2 DEF RunningIdle
<1>3. ASSUME NEW t \in Threads, DecWrite(t)
      PROVE  /\ IsFiniteSet(Running') /\ lost \subseteq lost'
             /\ "inc" \notin lost' =>
                  noRunning' - Cardinality(Running') >= noRunning - Cardinality(Running)
             /\ "dec" \notin lost' =>
                  noRunning' - Cardinality(Running') <= noRunning - Cardinality(Running)
  <2>1. t \in Running /\ Running' = Running \ {t}
    BY <1>3, RunningShrinks
  <2>2. IsFiniteSet(Running') /\ Cardinality(Running') = Cardinality(Running) - 1
    BY <2>1, FS_RemoveElement
  <2>3. noRunning' = regR - 1 /\ lost' = lost \cup Overwritten(regR) /\ regR \in Int
    BY <1>3 DEF DecWrite, ReaderTypeOK
  <2>4. /\ lost \subseteq lost'
        /\ "inc" \notin lost' => regR >= noRunning
        /\ "dec" \notin lost' => regR <= noRunning
    BY <1>1, <2>3, Overwrites
  <2>. QED BY <1>1, <2>2, <2>3, <2>4
<1>. QED BY <1>2, <1>3, ReaderRuns DEF CountsOut

\* The start of a thread is one more to count.
LEMMA StartCounts ==
    ASSUME ReaderTypeOK, IsFiniteSet(Running), NEW t \in Threads, rpc[t] = "none",
           rpc' = [rpc EXCEPT ![t] = "socket"]
    PROVE  IsFiniteSet(Running') /\ Cardinality(Running') = Cardinality(Running) + 1
<1>1. t \notin Running /\ Running' = Running \cup {t}
  BY RunningGrows
<1>. QED BY <1>1, FS_AddElement


-----------------------------------------------------------------------------
\* The globals as they are when the program starts.
LEMMA ReaderStart ==
    ASSUME ReaderInit
    PROVE  /\ ReaderTypeOK /\ MutexInv /\ SocketInv /\ SlotInv /\ PendingInv /\ OverflowInv
           /\ Cached = 0 /\ Taken = 0 /\ Filled = {} /\ Running = {}
<1>. USE DEF ReaderInit
<1>1. /\ 0 \in Slots /\ BufSize \in Nat \ {0} /\ StartSlices \in Nat /\ MaxFrames \in Nat
  BY ReaderAssumption DEF Slots
<1>2. /\ slot \in [Slots -> Nat] /\ waiting \in [Ports -> Nat]
      /\ rpc \in [Threads -> ReaderPC] /\ slices \in [Threads -> 0..StartSlices]
      /\ bound \in [Ports -> Threads \cup {Nobody}]
  BY <1>1 DEF ReaderPC, NoFrame
<1>3. /\ alive \in BOOLEAN /\ keepRunning \in BOOLEAN /\ lastEvent \in BOOLEAN
      /\ terminateThreads \in BOOLEAN
  OBVIOUS
<1>4. /\ sent \in 0..MaxFrames /\ recvd \in Nat /\ noFramesDropped \in Nat
      /\ noRunning \in Int /\ regR \in Int
  BY <1>1
<1>5. /\ inBufStorID \in Slots /\ inBufProcessID \in Slots /\ newBufID \in Slots
      /\ writeMutex \in Threads \cup {Nobody}
  BY <1>1
<1>6. ReaderTypeOK
  BY <1>2, <1>3, <1>4, <1>5 DEF ReaderTypeOK
<1>7. MutexInv /\ SocketInv /\ SlotInv /\ PendingInv /\ OverflowInv
  BY NobodyIsNoThread
     DEF MutexInv, SocketInv, HoldsMutex, HasSocket, SlotInv, PendingInv, StorePending,
         OverflowInv, OverflowPending
<1>8. Cached = 0
  BY <1>1, ModWrap DEF Cached
<1>9. Taken = 0
  BY <1>8 DEF Taken, OverflowPending, StorePending, Bit
<1>10. Filled = {} /\ Running = {}
  BY <1>8 DEF Filled, StorePending, Bit, Running, Counted
<1>. QED BY <1>6, <1>7, <1>8, <1>9, <1>10
=============================================================================
