------------------------ MODULE TBBStations_proofs ------------------------
(* Proofs about TBBStations, for every value of its constants: type correctness, *)
(* that a file holds one event, and that every frame received is handled once    *)
(* and in order or counted as dropped.  What a step of the reader threads keeps   *)
(* is proved in SocketReader_proofs; here there is one step per action of the     *)
(* main thread.                                                                   *)
EXTENDS TBBStations, SocketReader_proofs

\* A step that is not the main thread's is one of the readers, or of the outside.
LEMMA OthersMove == ASSUME Others PROVE ReaderMove /\ UNCHANGED mainVars
  BY DEF Others, ReaderMove

\* The thread of a port, in the only event there is.
LEMMA ThreadOf == ASSUME NEW p \in Ports PROVE <<1, p>> \in Threads
  BY ReaderAssumption DEF Threads, Events

\* A thread is started once.
LEMMA SpawnNone ==
    ASSUME BaseInv, NEW p \in Ports, SpawnThread(p)
    PROVE  /\ <<1, p>> \in Threads /\ rpc[<<1, p>>] = "none"
           /\ rpc' = [rpc EXCEPT ![<<1, p>>] = "socket"]
  BY ThreadOf DEF BaseInv, StartInv, SpawnThread, MainGoto

\* No reader runs once the process has ended.
LEMMA ReaderNeedsProcess == ASSUME ReaderMove PROVE alive
  BY DEF ReaderMove, ReaderStep, Arrive, Signal, BindOK, BindFails, FirstData, WaitTimeout,
     LoopTest, ChooseSlot, RecvFrom, Publish, ReadTimeout, DecRead, DecWrite, CloseSocket,
     Goto

\* Reading a slot gives the frame it holds, and the one read before if that is the same.
LEMMA Looks ==
    ASSUME TypeOK, NEW s \in Slots, NEW f \in Seen(s)
    PROVE  /\ f \in [no : Nat, station : Stations, time : Times]
           /\ f.no = slot[s] /\ (f.no = frame.no => f = frame)
<1>1. slot[s] \in Nat
  BY DEF TypeOK, ReaderTypeOK
<1>. QED BY <1>1 DEF Seen, TypeOK

\* Every step keeps every variable in its type.
LEMMA TypeStep == ASSUME BaseInv, [Next]_vars PROVE TypeOK'
<1>. USE DEF BaseInv, TypeOK, vars, mainVars, frameVars, fileVars, readerVars, ringVars,
    flagVars, netVars, countVars, threadVars
<1>1. CASE Others
  BY <1>1, OthersMove, ReaderType
<1>2. CASE StartStations
  BY <1>2 DEF StartStations, MainGoto, ReaderTypeOK
<1>3. ASSUME NEW p \in Ports, SpawnThread(p) PROVE TypeOK'
  <2>1. rpc' \in [Threads -> ReaderPC]
    BY <1>3, SpawnNone DEF ReaderTypeOK, ReaderPC
  <2>. QED BY <2>1, <1>3 DEF SpawnThread, MainGoto, ReaderTypeOK
<1>4. CASE IncRead
  BY <1>4 DEF IncRead, MainGoto, ReaderTypeOK
<1>5. CASE IncWrite
  <2>1. lost' \subseteq {"inc", "dec"}
    BY <1>5, OverwrittenType DEF IncWrite, ReaderTypeOK
  <2>2. noRunning' \in Int
    BY <1>5 DEF IncWrite
  <2>. QED BY <2>1, <2>2, <1>5 DEF IncWrite, MainGoto, ReaderTypeOK
<1>6. CASE Idle
  <2>1. amWaiting' \in 0..(IdlePolls + 1)
    BY <1>6, StationsAssumption DEF Idle
  <2>2. TBBfiles' \in [Stations -> {"null", "open", "broken"}]
    BY <1>6 DEF Idle
  <2>3. written' \in [Stations -> Seq(Entry)]
    <3>1. <<>> \in Seq(Entry)
      OBVIOUS
    <3>2. [s \in Stations |-> <<>>] \in [Stations -> Seq(Entry)]
      BY <3>1, Zenon
    <3>3. written' = written \/ written' = [s \in Stations |-> <<>>]
      BY <1>6 DEF Idle
    <3>4. written \in [Stations -> Seq(Entry)]
      BY DEF TypeOK
    <3>. QED BY <3>2, <3>3, <3>4, Zenon
  <2>. QED BY <2>1, <2>2, <2>3, <1>6 DEF Idle, MainGoto, ReaderTypeOK
<1>7. CASE TakeFrame
  <2>1. processingID' \in Slots /\ 0 \in 0..(IdlePolls + 1)
    BY <1>7, SlotNext, StationsAssumption DEF TakeFrame, ReaderTypeOK
  <2>2. frame' \in [no : Nat, station : Stations, time : Times]
    BY <1>7, <2>1, Looks DEF TakeFrame
  <2>3. stationId' \in Stations /\ first' \in Nat
    BY <1>7, <2>2 DEF TakeFrame
  <2>. QED BY <2>1, <2>2, <2>3, <1>7 DEF TakeFrame, MainGoto, ReaderTypeOK
<1>8. CASE OpenFile
  <2>1. TBBfiles' \in [Stations -> {"null", "open", "broken"}]
    BY <1>8 DEF OpenFile
  <2>2. written' \in [Stations -> Seq(Entry)]
    BY <1>8 DEF OpenFile
  <2>3. terminateThreads' \in BOOLEAN
    BY <1>8 DEF OpenFile, ReaderTypeOK
  <2>4. frame' \in [no : Nat, station : Stations, time : Times]
    BY <1>8, Looks DEF OpenFile
  <2>. QED BY <2>1, <2>2, <2>3, <2>4, <1>8 DEF OpenFile, MainGoto, ReaderTypeOK
<1>9. CASE KeepFile
  <2>1. frame' \in [no : Nat, station : Stations, time : Times]
    BY <1>9, Looks DEF KeepFile
  <2>. QED BY <2>1, <1>9 DEF KeepFile, MainGoto, ReaderTypeOK
<1>10. CASE ProcessFrame
  <2>1. frame' \in [no : Nat, station : Stations, time : Times]
    BY <1>10, Looks DEF ProcessFrame
  <2>. QED BY <2>1, <1>10 DEF ProcessFrame, MainGoto, ReaderTypeOK
<1>13. CASE RejectFrame
  <2>1. frame' \in [no : Nat, station : Stations, time : Times]
    BY <1>13, Looks DEF RejectFrame
  <2>2. handled' \in Seq(Nat) /\ inBufProcessID' \in Slots
    BY <1>13, <2>1 DEF RejectFrame, NextFrame
  <2>. QED BY <2>1, <2>2, <1>13 DEF RejectFrame, MainGoto, ReaderTypeOK
<1>14. CASE NoteTime
  <2>1. frame' \in [no : Nat, station : Stations, time : Times]
    BY <1>14, Looks DEF NoteTime
  <2>2. handled' \in Seq(Nat) /\ inBufProcessID' \in Slots
    BY <1>14 DEF NoteTime, NextFrame
  <2>3. lasttimes' \in [Stations -> Garbage]
    <3>1. frame'.time \in Garbage
      BY <2>1, StationsAssumption DEF Times, Garbage
    <3>. QED BY <3>1, <1>14 DEF NoteTime
  <2>4. written' \in [Stations -> Seq(Entry)]
    <3>1. [station |-> frame.station, time |-> frame.time, kept |-> frame'.no = first] \in Entry
      BY DEF Entry
    <3>. QED BY <3>1, <1>14 DEF NoteTime
  <2>. QED BY <2>1, <2>2, <2>3, <2>4, <1>14 DEF NoteTime, MainGoto, ReaderTypeOK
<1>11. CASE EndLoop
  BY <1>11 DEF EndLoop, MainGoto, ReaderTypeOK
<1>12. CASE UNCHANGED vars
  BY <1>12 DEF ReaderTypeOK
<1>. QED BY <1>1, <1>2, <1>3, <1>4, <1>5, <1>6, <1>7, <1>8, <1>9, <1>10, <1>11,
    <1>12, <1>13, <1>14 DEF Next, MainStep, Ended

\* The main thread leaves the readers' program counters, their mutex, their sockets and
\* the slot they store in alone, but to start a thread; and it is done with a frame only
\* in RejectFrame and NoteTime.
MainQuiet == UNCHANGED <<rpc, writeMutex, bound, waiting, ringVars>>

LEMMA MainSteps ==
    ASSUME BaseInv, [Next]_vars
    PROVE  \/ ReaderMove /\ UNCHANGED mainVars
           \/ \E p \in Ports : SpawnThread(p)
           \/ MainQuiet /\ UNCHANGED inBufProcessID /\ UNCHANGED handled
           \/ MainQuiet /\ (RejectFrame \/ NoteTime)
<1>. USE DEF MainQuiet, vars, mainVars, readerVars, ringVars, flagVars, netVars,
    countVars, threadVars
<1>1. CASE Others
  BY <1>1, OthersMove
<1>2. CASE StartStations
  BY <1>2 DEF StartStations
<1>4. CASE IncRead
  BY <1>4 DEF IncRead
<1>5. CASE IncWrite
  BY <1>5 DEF IncWrite
<1>6. CASE Idle
  BY <1>6 DEF Idle
<1>7. CASE TakeFrame
  BY <1>7 DEF TakeFrame
<1>8. CASE OpenFile
  BY <1>8 DEF OpenFile
<1>9. CASE KeepFile
  BY <1>9 DEF KeepFile
<1>10. CASE ProcessFrame
  BY <1>10 DEF ProcessFrame
<1>11. CASE EndLoop
  BY <1>11 DEF EndLoop
<1>12. CASE UNCHANGED vars
  BY <1>12
<1>13. CASE RejectFrame
  BY <1>13 DEF RejectFrame
<1>14. CASE NoteTime
  BY <1>14 DEF NoteTime
<1>. QED BY <1>1, <1>2, <1>4, <1>5, <1>6, <1>7, <1>8, <1>9, <1>10, <1>11,
    <1>12, <1>13, <1>14 DEF Next, MainStep, Ended

\* The readers' own invariants survive the start of a thread and all that main does.
LEMMA MutexStep == ASSUME BaseInv, [Next]_vars PROVE MutexInv' /\ SocketInv'
<1>. USE DEF BaseInv
<1>. ReaderTypeOK /\ rpc \in [Threads -> ReaderPC]
  BY DEF TypeOK, ReaderTypeOK
<1>1. CASE ReaderMove
  BY <1>1, ReaderMutex, ReaderSocket
<1>2. ASSUME NEW p \in Ports, SpawnThread(p) PROVE MutexInv' /\ SocketInv'
  <2>1. writeMutex' = writeMutex /\ bound' = bound /\ waiting' = waiting
    BY <1>2 DEF SpawnThread, netVars
  <2>. QED BY <2>1, <1>2, SpawnNone DEF MutexInv, SocketInv, HoldsMutex, HasSocket
<1>3. CASE MainQuiet
  BY <1>3 DEF MainQuiet, MutexInv, SocketInv
<1>. QED BY <1>1, <1>2, <1>3, MainSteps

\* A thread is not there before it is started.
LEMMA StartStep == ASSUME BaseInv, [Next]_vars PROVE StartInv'
<1>. USE DEF BaseInv, StartInv, vars, mainVars, readerVars, threadVars
<1>. rpc \in [Threads -> ReaderPC] /\ toStart \subseteq Ports
  BY DEF TypeOK, ReaderTypeOK
<1>. \A p \in Ports : <<1, p>> \in Threads
  BY ThreadOf
<1>1. CASE Others
  BY <1>1, OthersMove, ReaderStays DEF RpcStays, TypeOK
<1>2. CASE StartStations
  BY <1>2 DEF StartStations, MainGoto
<1>3. ASSUME NEW p \in Ports, SpawnThread(p) PROVE StartInv'
  BY <1>3 DEF SpawnThread, MainGoto
<1>4. CASE IncRead
  BY <1>4 DEF IncRead, MainGoto
<1>5. CASE IncWrite
  BY <1>5 DEF IncWrite, MainGoto
<1>6. CASE Idle
  BY <1>6 DEF Idle, MainGoto
<1>7. CASE TakeFrame
  BY <1>7 DEF TakeFrame, MainGoto
<1>8. CASE OpenFile
  BY <1>8 DEF OpenFile, MainGoto
<1>9. CASE KeepFile
  BY <1>9 DEF KeepFile, MainGoto
<1>10. CASE ProcessFrame \/ RejectFrame \/ NoteTime
  BY <1>10 DEF ProcessFrame, RejectFrame, NoteTime, MainGoto
<1>11. CASE EndLoop
  BY <1>11 DEF EndLoop, MainGoto
<1>12. CASE UNCHANGED vars
  BY <1>12
<1>. QED BY <1>1, <1>2, <1>3, <1>4, <1>5, <1>6, <1>7, <1>8, <1>9, <1>10, <1>11,
    <1>12 DEF Next, MainStep, Ended


\* When the main thread is done with a frame it has taken one out of the ring, and it has
\* handed over that frame, or an older one that was in its place.
LEMMA PassFrame ==
    ASSUME IInv, RejectFrame \/ NoteTime
    PROVE  /\ TakeOne
           /\ \E n \in 1..slot[inBufProcessID'] : /\ handled' = Append(handled, n)
                                                  /\ \A i \in 1..Len(handled) : handled[i] < n
<1>. USE DEF IInv, BaseInv
<1>0. /\ processingID \in Slots /\ slot[processingID] \in Nat /\ frame.no \in Nat
      /\ first \in Nat /\ handled \in Seq(Nat) /\ DOMAIN handled = 1..Len(handled)
  BY DEF TypeOK, ReaderTypeOK
<1>1. /\ InHand /\ inBufProcessID' = processingID
      /\ UNCHANGED <<ringVars, rpc, writeMutex>>
  BY DEF RejectFrame, NoteTime, NextFrame, MainGoto, InHand, threadVars
<1>2. TakeOne
  BY <1>1 DEF ProcessInv, TakeOne
<1>3. /\ 0 < first /\ first <= frame.no /\ frame.no <= slot[processingID]
      /\ \A i \in 1..Len(handled) : handled[i] < first
  BY <1>0, <1>1 DEF HandInv
<1>4. PICK n : handled' = Append(handled, n) /\ n \in {slot[processingID], frame.no}
  <2>1. CASE RejectFrame
    BY <2>1, <1>0, Looks DEF RejectFrame, NextFrame
  <2>2. CASE NoteTime
    BY <2>2 DEF NoteTime, NextFrame
  <2>. QED BY <2>1, <2>2
<1>5. first <= n /\ n \in 1..slot[processingID]
  BY <1>0, <1>3, <1>4
<1>6. \A i \in 1..Len(handled) : handled[i] < n
  BY <1>0, <1>3, <1>5
<1>. QED BY <1>1, <1>2, <1>4, <1>5, <1>6

\* The thread that stores heads for the last slot or for a free one.
LEMMA SlotStep == ASSUME IInv, [Next]_vars PROVE SlotInv'
<1>. USE DEF IInv, BaseInv
<1>. /\ ReaderTypeOK /\ rpc \in [Threads -> ReaderPC]
     /\ inBufStorID \in Slots /\ inBufProcessID \in Slots
  BY DEF TypeOK, ReaderTypeOK
<1>1. CASE ReaderMove
  BY <1>1, ReaderSlot
<1>2. ASSUME NEW p \in Ports, SpawnThread(p) PROVE SlotInv'
  <2>1. UNCHANGED <<newBufID, inBufStorID, inBufProcessID>>
    BY <1>2 DEF SpawnThread, ringVars
  <2>. QED BY <2>1, <1>2, SpawnNone DEF SlotInv
<1>3. CASE MainQuiet /\ UNCHANGED inBufProcessID
  BY <1>3 DEF MainQuiet, ringVars, SlotInv
<1>4. CASE MainQuiet /\ (RejectFrame \/ NoteTime)
  <2>1. \A r, s \in Slots : NextSlot(r) = NextSlot(s) => r = s
    BY ReaderAssumption DEF Slots, NextSlot
  <2>2. TakeOne
    BY <1>4, PassFrame
  <2>. QED BY <2>1, <2>2 DEF TakeOne, ringVars, SlotInv
<1>. QED BY <1>1, <1>2, <1>3, <1>4, MainSteps

\* From the first look at a frame until it has been handled the main thread is at the
\* slot after inBufProcessID and the buffer is not empty.
LEMMA ProcessStep == ASSUME IInv, [Next]_vars PROVE ProcessInv'
<1>. USE DEF IInv, BaseInv, ProcessInv, InHand, vars, mainVars, frameVars, readerVars,
    ringVars
<1>1. CASE Others
  BY <1>1, OthersMove, ReaderFills DEF TypeOK
<1>2. CASE StartStations
  BY <1>2 DEF StartStations, MainGoto
<1>3. ASSUME NEW p \in Ports, SpawnThread(p) PROVE ProcessInv'
  BY <1>3 DEF SpawnThread, MainGoto
<1>4. CASE IncRead
  BY <1>4 DEF IncRead, MainGoto
<1>5. CASE IncWrite
  BY <1>5 DEF IncWrite, MainGoto
<1>6. CASE Idle
  BY <1>6 DEF Idle, MainGoto
<1>7. CASE TakeFrame
  BY <1>7 DEF TakeFrame, MainGoto
<1>8. CASE OpenFile
  BY <1>8 DEF OpenFile, MainGoto
<1>9. CASE KeepFile
  BY <1>9 DEF KeepFile, MainGoto
<1>10. CASE ProcessFrame \/ RejectFrame \/ NoteTime
  BY <1>10 DEF ProcessFrame, RejectFrame, NoteTime, MainGoto
<1>11. CASE EndLoop
  BY <1>11 DEF EndLoop, MainGoto
<1>12. CASE UNCHANGED vars
  BY <1>12
<1>. QED BY <1>1, <1>2, <1>3, <1>4, <1>5, <1>6, <1>7, <1>8, <1>9, <1>10, <1>11,
    <1>12 DEF Next, MainStep, Ended

\* FramesAccounted as a balance of the ring.
LEMMA AccountValue ==
    TypeOK => /\ Taken \in Int /\ Len(handled) \in Nat
              /\ FramesAccounted <=> Taken = Len(handled)
<1>. SUFFICES ASSUME TypeOK
              PROVE  /\ Taken \in Int /\ Len(handled) \in Nat
                     /\ FramesAccounted <=> Taken = Len(handled)
  OBVIOUS
<1>1. /\ Cached \in Nat /\ recvd \in Nat /\ noFramesDropped \in Nat
      /\ Len(handled) \in Nat
  BY CachedType DEF TypeOK, ReaderTypeOK
<1>2. PICK o \in {0, 1}, s \in {0, 1} : o = Bit(OverflowPending) /\ s = Bit(StorePending)
  BY DEF Bit
<1>3. Taken = recvd + o - Cached - s - noFramesDropped
  BY <1>2 DEF Taken
<1>4. FramesAccounted <=> recvd + o = Len(handled) + Cached + s + noFramesDropped
  BY <1>2 DEF FramesAccounted
<1>. QED BY <1>1, <1>3, <1>4

\* The start of a thread leaves the frame on its way into the ring alone.
LEMMA SpawnRing ==
    ASSUME BaseInv, NEW p \in Ports, SpawnThread(p)
    PROVE  /\ UNCHANGED <<ringVars, inBufProcessID, handled>>
           /\ OverflowPending' = OverflowPending /\ StorePending' = StorePending
<1>1. rpc \in [Threads -> ReaderPC] /\ writeMutex \in Threads \cup {Nobody}
  BY DEF BaseInv, TypeOK, ReaderTypeOK
<1>2. UNCHANGED <<ringVars, inBufProcessID, handled>> /\ writeMutex' = writeMutex
  BY DEF SpawnThread, ringVars
<1>3. writeMutex # <<1, p>>
  BY SpawnNone DEF BaseInv, MutexInv, HoldsMutex
<1>4. writeMutex # Nobody => rpc'[writeMutex] = rpc[writeMutex]
  BY <1>1, <1>3, SpawnNone
<1>. QED BY <1>2, <1>4 DEF OverflowPending, StorePending, ringVars

\* Every step moves a frame from one of the places it can be in to another.
LEMMA AccountStep == ASSUME IInv, [Next]_vars PROVE FramesAccounted'
<1>. USE DEF IInv, BaseInv
<1>0. /\ Taken \in Int /\ Len(handled) \in Nat /\ Taken = Len(handled) /\ ReaderTypeOK
  BY AccountValue DEF TypeOK
<1>. SUFFICES Taken' = Len(handled')
  <2>1. TypeOK'
    BY TypeStep
  <2>2. (TypeOK => (FramesAccounted <=> Taken = Len(handled)))'
    BY AccountValue, PTL
  <2>. QED BY <2>1, <2>2
<1>1. CASE ReaderMove /\ UNCHANGED mainVars
  BY <1>0, <1>1, ReaderBalance DEF mainVars
<1>2. ASSUME NEW p \in Ports, SpawnThread(p) PROVE Taken' = Len(handled')
  BY <1>0, <1>2, SpawnRing DEF ringVars, Taken, Cached
<1>3. CASE MainQuiet /\ UNCHANGED inBufProcessID /\ UNCHANGED handled
  BY <1>0, <1>3 DEF MainQuiet, ringVars, Taken, Cached, OverflowPending, StorePending
<1>4. CASE MainQuiet /\ (RejectFrame \/ NoteTime)
  <2>1. TakeOne
    BY <1>4, PassFrame
  <2>2. Len(handled') = Len(handled) + 1
    BY <1>4, PassFrame DEF TypeOK
  <2>. QED BY <1>0, <2>1, <2>2, TakeBalance
<1>. QED BY <1>1, <1>2, <1>3, <1>4, MainSteps

\* Frames are handled in the order of their reception.
LEMMA OrderStep == ASSUME IInv, [Next]_vars PROVE RingInOrder(handled)'
<1>. USE DEF IInv, BaseInv
<1>. ReaderTypeOK /\ handled \in Seq(Nat)
  BY DEF TypeOK
<1>. PICK h \in Seq(Nat) : h = handled
  OBVIOUS
<1>. RingInOrder(h)
  OBVIOUS
<1>1. CASE ReaderMove /\ UNCHANGED mainVars
  <2>1. RingInOrder(h)'
    BY <1>1, ReaderOrder
  <2>. QED BY <1>1, <2>1 DEF mainVars
<1>2. ASSUME NEW p \in Ports, SpawnThread(p) PROVE RingInOrder(handled)'
  <2>1. /\ UNCHANGED <<slot, inBufStorID, inBufProcessID, recvd, handled>>
        /\ StorePending' = StorePending
    BY <1>2, SpawnRing DEF ringVars
  <2>. HIDE DEF IInv
  <2>2. Filled' = Filled /\ \A s \in Slots : Place(s)' = Place(s)
    BY <2>1 DEF Filled, Place, Cached, Bit
  <2>. QED BY <2>1, <2>2 DEF IInv, RingInOrder, TakenInOrder, Filled
<1>3. CASE MainQuiet /\ UNCHANGED inBufProcessID /\ UNCHANGED handled
  BY <1>3 DEF MainQuiet, ringVars, RingInOrder, TakenInOrder, Filled, Place, Cached, Bit,
     StorePending
<1>4. CASE MainQuiet /\ (RejectFrame \/ NoteTime)
  <2>1. PICK n \in 1..slot[inBufProcessID'] :
           handled' = Append(h, n) /\ \A i \in 1..Len(h) : h[i] < n
    BY <1>4, PassFrame
  <2>2. PICK g : g = handled'
    OBVIOUS
  <2>3. RingInOrder(g)'
    BY <1>4, <2>1, <2>2, PassFrame, TakeOlder
  <2>. QED BY <2>2, <2>3
<1>. QED BY <1>1, <1>2, <1>3, <1>4, MainSteps


\* A step of main that is none of its noRunning++.
LEMMA MainCounts ==
    ASSUME [Next]_vars, ~Others, ~IncRead, ~IncWrite,
           ~(\E p \in Ports : SpawnThread(p))
    PROVE  /\ UNCHANGED <<rpc, noRunning, lost>>
           /\ mpc' \in {"inc", "incWrite"} <=> mpc \in {"inc", "incWrite"}
  BY DEF Next, MainStep, Ended, StartStations, Idle, TakeFrame, OpenFile, KeepFile,
     ProcessFrame, RejectFrame, NoteTime, EndLoop, MainGoto, vars, mainVars, readerVars,
     countVars, threadVars

\* noRunning follows the number of running threads, and is one behind from the start
\* of a thread to the end of main's noRunning++, but for the updates that the two
\* writers overwrite.
LEMMA CountStep == ASSUME IInv, [Next]_vars PROVE Counts'
<1>. USE DEF Counts
<1>0. /\ Counts /\ Cardinality(Running) \in Nat
      /\ ReaderTypeOK /\ noRunning \in Int
  BY FS_CardinalityType DEF IInv, BaseInv, TypeOK, ReaderTypeOK
<1>1. CASE Others
  <2>1. ReaderMove /\ mpc' = mpc
    BY <1>1, OthersMove DEF mainVars
  <2>2. /\ IsFiniteSet(Running') /\ lost \subseteq lost'
        /\ "inc" \notin lost' =>
             noRunning' - Cardinality(Running') >= noRunning - Cardinality(Running)
        /\ "dec" \notin lost' =>
             noRunning' - Cardinality(Running') <= noRunning - Cardinality(Running)
    BY <1>0, <2>1, ReaderCounts
  <2>3. noRunning' \in Int /\ Cardinality(Running') \in Nat
    <3>1. ReaderTypeOK'
      BY <1>0, <2>1, ReaderType DEF IInv, BaseInv
    <3>. QED BY <2>2, <3>1, FS_CardinalityType DEF ReaderTypeOK
  <2>4. Bit(mpc \in {"inc", "incWrite"}) \in {0, 1}
    BY DEF Bit
  <2>. QED BY <1>0, <2>1, <2>2, <2>3, <2>4
<1>2. ASSUME NEW p \in Ports, SpawnThread(p) PROVE Counts'
  <2>1. mpc = "spawn" /\ mpc' = "inc" /\ noRunning' = noRunning /\ lost' = lost
    BY <1>2 DEF SpawnThread, MainGoto, countVars
  <2>2. IsFiniteSet(Running') /\ Cardinality(Running') = Cardinality(Running) + 1
    BY <1>0, <1>2, SpawnNone, StartCounts DEF IInv
  <2>. QED BY <1>0, <2>1, <2>2 DEF Bit
<1>3. CASE IncRead
  <2>1. /\ mpc = "inc" /\ mpc' = "incWrite" /\ noRunning' = noRunning
        /\ Running' = Running /\ lost' = lost
    BY <1>3 DEF IncRead, MainGoto, readerVars, countVars, threadVars, Running, Counted
  <2>. QED BY <1>0, <2>1 DEF Bit
<1>4. CASE IncWrite
  <2>1. /\ mpc = "incWrite" /\ mpc' \in {"loop", "spawn"} /\ noRunning' = regM + 1
        /\ lost' = lost \cup Overwritten(regM) /\ regM \in Int
    BY <1>4 DEF IncWrite, MainGoto, IInv, BaseInv, TypeOK
  <2>2. Running' = Running
    BY <1>4 DEF IncWrite, threadVars, Running, Counted
  <2>3. /\ lost \subseteq lost'
        /\ "inc" \notin lost' => regM >= noRunning
        /\ "dec" \notin lost' => regM <= noRunning
    BY <1>0, <2>1, Overwrites
  <2>. QED BY <1>0, <2>1, <2>2, <2>3 DEF Bit
<1>5. CASE ~(Others \/ IncRead \/ IncWrite \/ \E p \in Ports : SpawnThread(p))
  <2>1. /\ Running' = Running /\ noRunning' = noRunning /\ lost' = lost
        /\ Bit(mpc' \in {"inc", "incWrite"}) = Bit(mpc \in {"inc", "incWrite"})
    BY <1>5, MainCounts DEF Running, Counted, Bit
  <2>. QED BY <1>0, <2>1
<1>. QED BY <1>1, <1>2, <1>3, <1>4, <1>5

\* The function returns with an empty buffer, and with no thread left that could store.
LEMMA EndStep == ASSUME IInv, [Next]_vars PROVE EndInv'
<1>. SUFFICES ASSUME mpc' = "returned"
              PROVE  /\ ~alive' /\ inBufStorID' = inBufProcessID'
                     /\ "inc" \notin lost' => Running' = {}
  BY DEF EndInv
<1>1. CASE EndLoop
  <2>1. /\ mpc = "loop" /\ ~(noRunning > 0) /\ inBufStorID' = inBufProcessID' /\ ~alive'
    BY <1>1 DEF EndLoop, MainGoto, ringVars
  <2>2. ASSUME "inc" \notin lost' PROVE Running' = {}
    <3>1. IsFiniteSet(Running) /\ noRunning >= Cardinality(Running) /\ noRunning \in Int
      BY <1>1, <2>1, <2>2
         DEF EndLoop, countVars, IInv, Counts, Bit, BaseInv, TypeOK, ReaderTypeOK
    <3>2. Running = {}
      BY <2>1, <3>1, FS_CardinalityType, FS_EmptySet
    <3>. QED BY <1>1, <3>2 DEF EndLoop, threadVars, Running, Counted
  <2>. QED BY <2>1, <2>2
<1>2. CASE Others
  <2>1. alive /\ mpc' = mpc
    BY <1>2, OthersMove, ReaderNeedsProcess DEF mainVars
  <2>. QED BY <2>1 DEF IInv, EndInv
<1>3. CASE UNCHANGED vars
  BY <1>3 DEF IInv, EndInv, vars, mainVars, readerVars, ringVars, countVars, threadVars,
     Running, Counted
<1>. QED BY <1>1, <1>2, <1>3 DEF Next, MainStep, Ended, StartStations, SpawnThread, IncRead,
    IncWrite, Idle, TakeFrame, OpenFile, KeepFile, ProcessFrame, RejectFrame, NoteTime,
    MainGoto


\* The frame in hand is not older than it was, and what is stored over it is newer.
LEMMA HandStep == ASSUME IInv, [Next]_vars PROVE HandInv' /\ OverflowInv'
<1>. USE DEF IInv, BaseInv
<1>0. /\ ReaderTypeOK /\ handled \in Seq(Nat) /\ first \in Nat /\ frame.no \in Nat
      /\ processingID \in Slots /\ \A s \in Slots : slot[s] \in Nat
      /\ noFramesDropped \in Nat
  BY DEF TypeOK, ReaderTypeOK
<1>1. CASE Others
  <2>1. ReaderMove /\ UNCHANGED <<mpc, processingID, frame, first, handled>>
    BY <1>1, OthersMove DEF mainVars, frameVars
  <2>2. OverflowInv' /\ noFramesDropped' >= noFramesDropped /\ noFramesDropped' \in Nat
    <3>1. ReaderTypeOK'
      BY <1>0, <2>1, ReaderType
    <3>. QED BY <1>0, <2>1, <3>1, ReaderDrops DEF ReaderTypeOK
  <2>3. ASSUME InHand
        PROVE  /\ slot'[processingID] >= slot[processingID]
               /\ noFramesDropped' = 0 => slot'[processingID] = slot[processingID]
    BY <1>0, <2>1, <2>3, ReaderOverwrites DEF ProcessInv
  <2>4. ASSUME InHand PROVE slot'[processingID] \in Nat
    <3>1. ReaderTypeOK'
      BY <1>0, <2>1, ReaderType
    <3>. QED BY <1>0, <3>1 DEF ReaderTypeOK
  <2>5. noFramesDropped' = 0 => noFramesDropped = 0
    BY <1>0, <2>2
  <2>6. HandInv'
    BY <1>0, <2>1, <2>3, <2>4, <2>5 DEF HandInv, InHand
  <2>. QED BY <2>2, <2>6
<1>2. CASE TakeFrame
  <2>. DEFINE s == NextSlot(inBufProcessID)
  <2>1. /\ inBufStorID # inBufProcessID /\ processingID' = s /\ frame' \in Seen(s)
        /\ first' = frame'.no /\ handled' = handled /\ UNCHANGED <<ringVars, rpc, writeMutex>>
    BY <1>2 DEF TakeFrame, readerVars, threadVars
  <2>2. s \in Filled /\ s \in Slots
    BY <1>0, <2>1, NextFilled, SlotNext DEF ReaderTypeOK
  <2>3. slot[s] \in 1..recvd /\ \A i \in 1..Len(handled) : handled[i] < slot[s]
    BY <2>2 DEF RingInOrder
  <2>4. frame'.no = slot[s]
    BY <2>1, <2>2, Looks
  <2>5. OverflowInv'
    BY <2>1 DEF OverflowInv, OverflowPending, ringVars
  <2>6. slot' = slot /\ DOMAIN handled = 1..Len(handled)
    BY <1>0, <2>1 DEF ringVars
  <2>. QED BY <1>0, <2>1, <2>2, <2>3, <2>4, <2>5, <2>6 DEF HandInv
<1>3. CASE OpenFile \/ KeepFile \/ ProcessFrame
  <2>1. /\ InHand /\ frame' \in Seen(processingID)
        /\ UNCHANGED <<ringVars, rpc, writeMutex, processingID, first, handled>>
    BY <1>3 DEF OpenFile, KeepFile, ProcessFrame, MainGoto, InHand, readerVars, threadVars
  <2>2. frame'.no = slot[processingID]
    BY <1>0, <2>1, Looks
  <2>3. OverflowInv'
    BY <2>1 DEF OverflowInv, OverflowPending, ringVars
  <2>. QED BY <1>0, <2>1, <2>2, <2>3 DEF HandInv, ringVars
<1>4. CASE UNCHANGED vars
  BY <1>4 DEF HandInv, InHand, OverflowInv, OverflowPending, vars, mainVars, frameVars,
     readerVars, ringVars, threadVars
<1>5. ASSUME NEW p \in Ports, SpawnThread(p) PROVE HandInv' /\ OverflowInv'
  BY <1>5, SpawnRing DEF SpawnThread, MainGoto, HandInv, InHand, OverflowInv, ringVars
<1>6. CASE StartStations \/ IncRead \/ IncWrite \/ Idle \/ RejectFrame \/ NoteTime \/ EndLoop
  BY <1>6 DEF StartStations, IncRead, IncWrite, Idle, RejectFrame, NoteTime, EndLoop,
     MainGoto, HandInv, InHand, OverflowInv, OverflowPending, readerVars, ringVars, threadVars
<1>. QED BY <1>1, <1>2, <1>3, <1>4, <1>5, <1>6 DEF Next, MainStep, Ended

\* A frame that is still the one taken in hand is as it was when looked at last.
LEMMA SameFrame ==
    ASSUME IInv, InHand, frame' \in Seen(processingID), frame'.no = first
    PROVE  frame' = frame /\ frame.no = first
<1>1. /\ first \in Nat /\ frame.no \in Nat /\ processingID \in Slots
      /\ slot[processingID] \in Nat
  BY DEF IInv, BaseInv, TypeOK, ReaderTypeOK
<1>2. first <= frame.no /\ frame.no <= slot[processingID]
  BY DEF IInv, HandInv
<1>3. frame'.no = slot[processingID] /\ (frame'.no = frame.no => frame' = frame)
  BY <1>1, Looks DEF IInv, BaseInv
<1>. QED BY <1>1, <1>2, <1>3

\* An entry that is appended to a file in which none is too late leaves it so.
LEMMA AppendFits ==
    ASSUME NEW f \in Seq(Entry), NEW e \in Entry,
           \A i \in 1..(Len(f) - 1) : f[i].kept /\ f[i + 1].kept
                => f[i + 1].time <= f[i].time + MaxGap,
           e.kept /\ f # <<>> /\ f[Len(f)].kept => e.time <= f[Len(f)].time + MaxGap
    PROVE  \A i \in 1..(Len(Append(f, e)) - 1) :
               Append(f, e)[i].kept /\ Append(f, e)[i + 1].kept
                 => Append(f, e)[i + 1].time <= Append(f, e)[i].time + MaxGap
<1>. SUFFICES ASSUME NEW i \in 1..(Len(Append(f, e)) - 1),
                     Append(f, e)[i].kept, Append(f, e)[i + 1].kept
              PROVE  Append(f, e)[i + 1].time <= Append(f, e)[i].time + MaxGap
  OBVIOUS
<1>1. Len(f) \in Nat /\ i \in 1..Len(f) /\ Append(f, e)[i] = f[i]
  OBVIOUS
<1>2. CASE i = Len(f)
  <2>1. Append(f, e)[i + 1] = e /\ f # <<>>
    BY <1>1, <1>2
  <2>. QED BY <1>1, <1>2, <2>1
<1>3. CASE i # Len(f)
  <2>1. i \in 1..(Len(f) - 1) /\ Append(f, e)[i + 1] = f[i + 1]
    BY <1>1, <1>3
  <2>. QED BY <1>1, <2>1
<1>. QED BY <1>2, <1>3

\* Nothing that is not a read of the slot or a write of a file changes whether a file
\* holds one event: a count of dropped frames that is still 0 has been 0.
LEMMA FileKept ==
    ASSUME IInv, UNCHANGED <<written, lasttimes>>, noFramesDropped' = 0 => noFramesDropped = 0,
           InHand' => UNCHANGED <<mpc, stationId, frame, first>>
    PROVE  FileInv'
  BY DEF IInv, FileInv, FrameFits, OneEventPerFile, InHand

\* A frame that is written as it was taken in hand is of the file's station and not too
\* late for the file: the test was made against the last frame in it, whatever lasttimes
\* held before the file was opened and whichever frames were rejected since.
LEMMA NoteStep == ASSUME IInv, NoteTime PROVE FileInv'
<1>. USE DEF IInv, BaseInv
<1>. DEFINE e == [station |-> frame.station, time |-> frame.time, kept |-> frame'.no = first]
            f == written[stationId]
<1>0. /\ written \in [Stations -> Seq(Entry)] /\ lasttimes \in [Stations -> Garbage]
      /\ stationId \in Stations /\ frame \in [no : Nat, station : Stations, time : Times]
      /\ first \in Nat /\ processingID \in Slots
  BY DEF TypeOK
<1>1. /\ frame' \in Seen(processingID) /\ noFramesDropped' = noFramesDropped
      /\ lasttimes' = [lasttimes EXCEPT ![stationId] = frame'.time]
      /\ written' = [written EXCEPT ![stationId] = Append(@, e)]
  BY DEF NoteTime, MainGoto, InHand, ringVars
<1>2. InHand /\ mpc = "note" /\ ~InHand'
  BY DEF NoteTime, MainGoto, InHand
<1>3. e \in Entry /\ f \in Seq(Entry)
  BY <1>0 DEF Entry
<1>4. e.kept => /\ frame' = frame /\ e.station = stationId
                /\ f = <<>> \/ e.time <= lasttimes[stationId] + MaxGap
  BY <1>1, <1>2, SameFrame DEF FileInv, FrameFits
<1>5. noFramesDropped = 0 => e.kept
  BY <1>0, <1>1, <1>2, Looks DEF HandInv
<1>6. /\ written'[stationId] = Append(f, e) /\ lasttimes'[stationId] = frame'.time
      /\ \A s \in Stations : s # stationId =>
           written'[s] = written[s] /\ lasttimes'[s] = lasttimes[s]
  BY <1>0, <1>1
<1>. HIDE DEF e, f
<1>7. /\ Append(f, e)[Len(Append(f, e))] = e
      /\ DOMAIN Append(f, e) = 1..(Len(f) + 1) /\ Len(f) \in Nat /\ DOMAIN f = 1..Len(f)
      /\ \A i \in 1..Len(f) : Append(f, e)[i] = f[i]
      /\ Append(f, e)[Len(f) + 1] = e
  BY <1>3
<1>8. ASSUME NEW s \in Stations
      PROVE  LET g == written'[s] IN g # <<>> /\ g[Len(g)].kept
                                       => lasttimes'[s] = g[Len(g)].time
  <2>1. e.kept => frame'.time = e.time
    BY <1>4 DEF e
  <2>2. CASE s = stationId
    BY <1>6, <1>7, <2>1, <2>2
  <2>3. CASE s # stationId
    BY <1>6, <2>3 DEF FileInv
  <2>. QED BY <2>2, <2>3
<1>9. ASSUME NEW s \in Stations, NEW i \in DOMAIN written'[s]
      PROVE  /\ written'[s][i].kept => written'[s][i].station = s
             /\ noFramesDropped' = 0 => written'[s][i].kept
  <2>1. CASE s = stationId
    <3>1. CASE i = Len(f) + 1
      BY <1>1, <1>4, <1>5, <1>6, <1>7, <2>1, <3>1
    <3>2. CASE i # Len(f) + 1
      <4>1. i \in 1..Len(f) /\ written'[s][i] = f[i]
        BY <1>6, <1>7, <2>1, <3>2
      <4>. QED BY <4>1, <1>1, <1>7, <2>1 DEF FileInv, OneEventPerFile, f
    <3>. QED BY <3>1, <3>2
  <2>2. CASE s # stationId
    BY <1>1, <1>6, <2>2 DEF FileInv, OneEventPerFile
  <2>. QED BY <2>1, <2>2
<1>10. ASSUME NEW s \in Stations
       PROVE  \A i \in 1..(Len(written'[s]) - 1) :
                 written'[s][i].kept /\ written'[s][i + 1].kept
                   => written'[s][i + 1].time <= written'[s][i].time + MaxGap
  <2>1. CASE s = stationId
    <3>1. e.kept /\ f # <<>> /\ f[Len(f)].kept => e.time <= f[Len(f)].time + MaxGap
      BY <1>0, <1>4 DEF FileInv, f
    <3>2. \A i \in 1..(Len(f) - 1) : f[i].kept /\ f[i + 1].kept
            => f[i + 1].time <= f[i].time + MaxGap
      BY <1>0 DEF FileInv, OneEventPerFile, f
    <3>. QED BY <1>3, <1>6, <2>1, <3>1, <3>2, AppendFits
  <2>2. CASE s # stationId
    BY <1>6, <2>2 DEF FileInv, OneEventPerFile
  <2>. QED BY <2>1, <2>2
<1>. QED BY <1>2, <1>8, <1>9, <1>10 DEF FileInv, OneEventPerFile

\* Every step keeps a file to one event.
LEMMA FileStep == ASSUME IInv, [Next]_vars PROVE FileInv'
<1>. USE DEF IInv, BaseInv
<1>0. /\ written \in [Stations -> Seq(Entry)] /\ lasttimes \in [Stations -> Garbage]
      /\ stationId \in Stations /\ frame \in [no : Nat, station : Stations, time : Times]
      /\ noFramesDropped \in Nat /\ processingID \in Slots /\ ReaderTypeOK
  BY DEF TypeOK, ReaderTypeOK
<1>1. CASE Others
  <2>1. ReaderMove /\ UNCHANGED <<mpc, stationId, frame, first, written, lasttimes>>
    BY <1>1, OthersMove DEF mainVars, frameVars, fileVars
  <2>2. noFramesDropped' >= noFramesDropped /\ noFramesDropped' \in Nat
    <3>1. ReaderTypeOK'
      BY <1>0, <2>1, ReaderType
    <3>. QED BY <1>0, <2>1, <3>1, ReaderDrops DEF ReaderTypeOK
  <2>. QED BY <1>0, <2>1, <2>2, FileKept
<1>2. CASE StartStations \/ IncRead \/ IncWrite \/ EndLoop \/ RejectFrame
  BY <1>2, FileKept DEF StartStations, IncRead, IncWrite, EndLoop, RejectFrame, MainGoto,
     InHand, readerVars, ringVars, fileVars
<1>3. ASSUME NEW p \in Ports, SpawnThread(p) PROVE FileInv'
  BY <1>3, FileKept DEF SpawnThread, MainGoto, InHand, ringVars, fileVars
<1>4. CASE TakeFrame
  <2>1. /\ UNCHANGED <<written, lasttimes, noFramesDropped>> /\ mpc' = "file"
        /\ stationId' = frame'.station
    BY <1>4 DEF TakeFrame, MainGoto, fileVars, readerVars, ringVars
  <2>. QED BY <2>1 DEF FileInv, FrameFits, OneEventPerFile
<1>5. CASE Idle
  <2>1. mpc' = "loop" /\ lasttimes' = lasttimes /\ noFramesDropped' = noFramesDropped
    BY <1>5 DEF Idle, MainGoto, readerVars, ringVars
  <2>2. CASE UNCHANGED written
    BY <2>1, <2>2, FileKept DEF InHand
  <2>3. CASE written' = [s \in Stations |-> <<>>]
    BY <2>1, <2>3 DEF FileInv, OneEventPerFile, InHand
  <2>. QED BY <1>5, <2>2, <2>3 DEF Idle
<1>6. CASE OpenFile
  <2>1. /\ InHand /\ mpc' = "process" /\ frame' \in Seen(processingID)
        /\ written' = [written EXCEPT ![stationId] = <<>>]
        /\ UNCHANGED <<stationId, first, lasttimes, noFramesDropped>>
    BY <1>6 DEF OpenFile, MainGoto, InHand, ringVars
  <2>2. written'[stationId] = <<>>
    BY <1>0, <2>1
  <2>3. frame'.no = first => frame'.station = stationId
    BY <2>1, SameFrame DEF FileInv, FrameFits
  <2>4. (InHand /\ frame.no = first => FrameFits)'
    BY <2>1, <2>2, <2>3 DEF FrameFits
  <2>. QED BY <1>0, <2>1, <2>2, <2>4 DEF FileInv, OneEventPerFile
<1>7. CASE KeepFile
  <2>1. /\ InHand /\ mpc' = "process" /\ frame' \in Seen(processingID)
        /\ ~(frame'.time > lasttimes[stationId] + MaxGap)
        /\ UNCHANGED <<stationId, first, written, lasttimes, noFramesDropped>>
    BY <1>7 DEF KeepFile, NeedsFile, MainGoto, InHand, fileVars, readerVars, ringVars
  <2>2. frame'.time <= lasttimes[stationId] + MaxGap
    <3>1. frame'.time \in Times
      BY <1>0, <2>1, Looks
    <3>. QED BY <1>0, <2>1, <3>1, StationsAssumption DEF Times, Garbage
  <2>3. frame'.no = first => frame'.station = stationId
    BY <2>1, SameFrame DEF FileInv, FrameFits
  <2>4. (InHand /\ frame.no = first => FrameFits)'
    BY <2>1, <2>2, <2>3 DEF FrameFits
  <2>. QED BY <2>1, <2>4 DEF FileInv, OneEventPerFile
<1>8. CASE ProcessFrame
  <2>1. /\ InHand /\ mpc # "file" /\ frame' \in Seen(processingID)
        /\ UNCHANGED <<stationId, first, written, lasttimes, noFramesDropped>>
    BY <1>8 DEF ProcessFrame, MainGoto, InHand, fileVars, readerVars, ringVars
  <2>2. frame'.no = first => frame' = frame /\ FrameFits
    BY <2>1, SameFrame DEF FileInv
  <2>3. (InHand /\ frame.no = first => FrameFits)'
    BY <2>1, <2>2 DEF FrameFits
  <2>. QED BY <2>1, <2>3 DEF FileInv, OneEventPerFile
<1>9. CASE NoteTime
  BY <1>9, NoteStep
<1>10. CASE UNCHANGED vars
  BY <1>10, FileKept DEF vars, mainVars, frameVars, fileVars, readerVars, ringVars
<1>. QED BY <1>1, <1>2, <1>3, <1>4, <1>5, <1>6, <1>7, <1>8, <1>9, <1>10
     DEF Next, MainStep, Ended

-----------------------------------------------------------------------------
\* readStationsFromSockets starts out in the inductive invariant, whatever the array of
\* last time stamps holds.
LEMMA InitInv == Init => IInv
<1>. SUFFICES ASSUME Init PROVE IInv
  OBVIOUS
<1>. USE DEF Init
<1>1. ReaderTypeOK /\ MutexInv /\ SocketInv /\ SlotInv /\ OverflowInv
  BY ReaderStart
<1>2. Taken = 0 /\ Filled = {} /\ Running = {}
  BY ReaderStart
<1>3. TypeOK
  <2>1. 0 \in Slots /\ 0 \in 0..(IdlePolls + 1) /\ 0 \in Times
    BY ReaderAssumption, StationsAssumption DEF Slots, Times
  <2>2. /\ stationId \in Stations /\ first \in Nat
        /\ frame \in [no : Nat, station : Stations, time : Times]
    BY <2>1, StationsAssumption DEF NoFrame
  <2>3. written \in [Stations -> Seq(Entry)]
    <3>1. <<>> \in Seq(Entry)
      OBVIOUS
    <3>. QED BY <3>1, Zenon
  <2>4. handled \in Seq(Nat)
    OBVIOUS
  <2>. QED BY <1>1, <2>1, <2>2, <2>3, <2>4 DEF TypeOK
<1>4. StartInv
  BY DEF StartInv, ReaderInit
<1>5. ProcessInv /\ EndInv /\ HandInv
  BY DEF ProcessInv, EndInv, HandInv, InHand
<1>6. FramesAccounted
  BY <1>2, <1>3, AccountValue
<1>7. RingInOrder(handled)
  BY <1>2 DEF RingInOrder, TakenInOrder
<1>8. Counts
  BY <1>2, FS_EmptySet DEF Counts, Bit, ReaderInit
<1>9. FileInv
  BY DEF FileInv, OneEventPerFile, InHand
<1>. QED BY <1>1, <1>3, <1>4, <1>5, <1>6, <1>7, <1>8, <1>9 DEF IInv, BaseInv

\* Type correctness, for any number of stations, ports and frames and any size of the
\* buffer, whatever the data race on noRunning does and whichever files do not open.
THEOREM TypeCorrect == Spec => []TypeOK
<1>1. Init => BaseInv
  BY InitInv DEF IInv
<1>2. BaseInv /\ [Next]_vars => BaseInv'
  BY TypeStep, MutexStep, StartStep DEF BaseInv
<1>3. BaseInv => TypeOK
  BY DEF BaseInv
<1>. QED BY <1>1, <1>2, <1>3, PTL DEF Spec

\* The inductive invariant holds of every reachable state.
THEOREM InductiveInvariant == Spec => []IInv
<1>1. Init => IInv
  BY InitInv
<1>2. IInv /\ [Next]_vars => IInv'
  BY TypeStep, MutexStep, StartStep, SlotStep, ProcessStep, AccountStep, OrderStep,
     CountStep, EndStep, HandStep, FileStep DEF IInv, BaseInv
<1>. QED BY <1>1, <1>2, PTL DEF Spec

\* A file holds one event of one station, of all the frames that were not overwritten
\* while the main thread worked on them, and none was as long as no frame was dropped;
\* although the last time stamps start out as garbage, outlive the file they are of and
\* are not updated by frames that are rejected.
THEOREM FilesHoldOneEvent == Spec => []OneEventPerFile
<1>1. IInv => OneEventPerFile
  BY DEF IInv, FileInv
<1>. QED BY <1>1, InductiveInvariant, PTL

\* Every frame is handled once and in the order of its reception, also from several
\* stations and however many files are opened in between; none that was received and not
\* counted as dropped is left when the function returns, if the race on noRunning has
\* lost none of the main thread's increments.
THEOREM AllFramesHandled == Spec => []AllHandled
<1>1. IInv => AllHandled
  <2>. SUFFICES ASSUME IInv PROVE AllHandled
    OBVIOUS
  <2>1. \A i \in 1..(Len(handled) - 1) : handled[i] < handled[i + 1]
    BY DEF IInv, RingInOrder, TakenInOrder
  <2>2. ASSUME mpc = "returned", "inc" \notin lost
        PROVE  Len(handled) + noFramesDropped = recvd
    <3>1. inBufStorID = inBufProcessID /\ Running = {}
      BY <2>2 DEF IInv, EndInv
    <3>2. Cached = 0
      BY <3>1, CachedValue DEF IInv, BaseInv, TypeOK, ReaderTypeOK, Slots
    <3>3. ~OverflowPending /\ ~StorePending
      BY <3>1 DEF Running, Counted, OverflowPending, StorePending, IInv, BaseInv, TypeOK,
         ReaderTypeOK
    <3>. QED BY <3>2, <3>3 DEF IInv, FramesAccounted, Bit, BaseInv, TypeOK, ReaderTypeOK
  <2>. QED BY <2>1, <2>2 DEF AllHandled
<1>. QED BY <1>1, InductiveInvariant, PTL
=============================================================================
