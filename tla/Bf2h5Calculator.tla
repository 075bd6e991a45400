-------------------------- MODULE Bf2h5Calculator --------------------------
(* The calculator of bf2h5: a pool of threads that take the subbands of a block  *)
(* out of a map, downsample them, hand the results to the writer and move on to  *)
(* the next block when the last subband of the block is done.                    *)
(*                                                                               *)
(* What is calculated, and from which buffer, is the business of module BF2H5.   *)
(* The section of doDownSampleSingleSubband that holds calculationMapMutex is    *)
(* one action: everything it touches but currentBlockNr changes under the mutex  *)
(* only, and currentBlockNr it reads once.  checkIfBlockComplete holds no mutex;  *)
(* its test and its setting of checking_completeness are two actions, and two     *)
(* threads may pass the test.  What one of them makes of the flags and of          *)
(* currentBlockNr is then a race with the other one that completes the block.     *)
EXTENDS BeamBlocks, FiniteSetsExt, Functions

CONSTANT CalcThreads    \* NUM_CALCULATION_THREADS of them

ASSUME CalculatorAssumption == CalcThreads # {}

VARIABLES
    blockNr,            \* of start: the number of the next block
    level,              \* subbands in itsData
    itsData,            \* the subbands of each block that no thread has taken
    currentBlockNr,
    subbandReady,       \* the subbands whose flag is set
    checking_completeness,
    itsStopProcessing,
    tpc,                \* where each thread is
    task,               \* thread_data: block and subband
    calculated,         \* history: what was handed to the writer, in order
    overlapped          \* history: two threads were past the test in one check

calcVars == <<level, itsData, currentBlockNr, subbandReady, checking_completeness,
              itsStopProcessing, tpc, task, calculated, overlapped, blockNr>>

ThreadPC == {"loop", "lock", "wait", "calc", "ready", "check", "claim", "scan",
             "torn", "unclaim", "complete", "late", "undefined", "ended"}

CalcTypeOK ==
    /\ blockNr \in 0..MaxBlocks
    /\ level \in Nat
    /\ DOMAIN itsData \subseteq Blocks
    /\ \A b \in DOMAIN itsData : itsData[b] \in Seq(Subbands)
    /\ currentBlockNr \in Nat
    /\ subbandReady \subseteq Subbands
    /\ checking_completeness \in BOOLEAN /\ itsStopProcessing \in BOOLEAN
    /\ tpc \in [CalcThreads -> ThreadPC]
    /\ task \in [CalcThreads -> Blocks \X Subbands]
    /\ calculated \in Seq(Blocks \X Subbands)
    /\ overlapped \in BOOLEAN

\* The constructor, and startProcessing.
CalcInit ==
    /\ blockNr = 0
    /\ level = 0
    /\ itsData = <<>>
    /\ currentBlockNr = 0
    /\ subbandReady = {}
    /\ checking_completeness = FALSE /\ itsStopProcessing = FALSE
    /\ tpc = [t \in CalcThreads |-> "loop"]
    /\ task = [t \in CalcThreads |-> <<0, 0>>]
    /\ calculated = <<>> /\ overlapped = FALSE

-----------------------------------------------------------------------------
(* What the parent calls.                                                       *)

\* pthread_cond_broadcast: the threads that wait get up and queue for the mutex.
Woken == [t \in CalcThreads |-> IF tpc[t] = "wait" THEN "lock" ELSE tpc[t]]

\* itsData[b] = deque
WithBlock(b, deque) ==
    [x \in DOMAIN itsData \cup {b} |-> IF x = b THEN deque ELSE itsData[x]]

\* Fault: nobody is told.
CalculateDataBlockUnheard ==
    /\ itsData' = WithBlock(blockNr, [i \in 1..NrSubbands |-> i - 1])
    /\ level' = level + NrSubbands
    /\ blockNr' = blockNr + 1
    /\ UNCHANGED <<currentBlockNr, subbandReady, checking_completeness,
                   itsStopProcessing, tpc, task, calculated, overlapped>>

\* Fault: one subband too many.
CalculateDataBlockOneMore ==
    /\ itsData' = WithBlock(blockNr, [i \in 1..(NrSubbands + 1) |-> i - 1])
    /\ level' = level + NrSubbands
    /\ blockNr' = blockNr + 1
    /\ tpc' = Woken
    /\ UNCHANGED <<currentBlockNr, subbandReady, checking_completeness,
                   itsStopProcessing, task, calculated, overlapped>>

\* calculateDataBlock(blockNr++, ...)
CalculateDataBlock ==
    /\ itsData' = WithBlock(blockNr, [i \in 1..NrSubbands |-> i - 1])
    /\ level' = level + NrSubbands
    /\ blockNr' = blockNr + 1
    /\ tpc' = Woken
    /\ UNCHANGED <<currentBlockNr, subbandReady, checking_completeness,
                   itsStopProcessing, task, calculated, overlapped>>

StillProcessing == level > 0

\* Fault: nobody is told.
StopUnheard ==
    /\ itsStopProcessing' = TRUE
    /\ level' = 10
    /\ UNCHANGED <<itsData, currentBlockNr, subbandReady, checking_completeness,
                   tpc, task, calculated, overlapped, blockNr>>

\* stop, up to the joins.
Stop ==
    /\ itsStopProcessing' = TRUE
    /\ level' = 10
    /\ tpc' = Woken
    /\ UNCHANGED <<itsData, currentBlockNr, subbandReady, checking_completeness,
                   task, calculated, overlapped, blockNr>>

AllEnded == \A t \in CalcThreads : tpc[t] = "ended"

\* A thread has taken the front of an empty deque.
Undefined == \E t \in CalcThreads : tpc[t] = "undefined"

-----------------------------------------------------------------------------
(* doDownSampleSingleSubband, thread t.                                         *)

ThreadGoto(t, from, to) == tpc[t] = from /\ tpc' = [tpc EXCEPT ![t] = to]

\* while (!itsStopProcessing)
ThreadLoop(t) ==
    /\ ThreadGoto(t, "loop", IF itsStopProcessing THEN "ended" ELSE "lock")
    /\ UNCHANGED <<level, itsData, currentBlockNr, subbandReady,
                   checking_completeness, itsStopProcessing, task, calculated, overlapped,
                   blockNr>>

\* There is nothing to do: wait for the condition.
WaitForData(t) ==
    /\ ThreadGoto(t, "lock", "wait")
    /\ level < 1 /\ ~itsStopProcessing
    /\ UNCHANGED <<level, itsData, currentBlockNr, subbandReady,
                   checking_completeness, itsStopProcessing, task, calculated, overlapped,
                   blockNr>>

\* pthread_cond_wait may return without a broadcast.
SpuriousWakeup(t) ==
    /\ ThreadGoto(t, "wait", "lock")
    /\ UNCHANGED <<level, itsData, currentBlockNr, subbandReady,
                   checking_completeness, itsStopProcessing, task, calculated, overlapped,
                   blockNr>>

\* Fault: the subband stays in the deque unless it is the last one.
TakeSubbandPeeks(t) ==
    /\ ThreadGoto(t, "lock", "calc")
    /\ level > 0 /\ ~itsStopProcessing
    /\ currentBlockNr \in DOMAIN itsData
    /\ LET deque == itsData[currentBlockNr] IN
         /\ deque # <<>>
         /\ task' = [task EXCEPT ![t] = <<currentBlockNr, Head(deque)>>]
         /\ itsData' = IF Tail(deque) = <<>>
                       THEN Restrict(itsData, DOMAIN itsData \ {Min(DOMAIN itsData)})
                       ELSE itsData
    /\ level' = level - 1
    /\ UNCHANGED <<currentBlockNr, subbandReady, checking_completeness,
                   itsStopProcessing, calculated, overlapped, blockNr>>

\* Take the first subband of the current block; when it was the block's last one
\* the first entry of the map is erased.  There may be none to take: front() of an
\* empty deque is undefined.
TakeSubband(t) ==
    /\ level > 0 /\ ~itsStopProcessing
    /\ currentBlockNr \in DOMAIN itsData
    /\ IF itsData[currentBlockNr] = <<>>
       THEN ThreadGoto(t, "lock", "undefined") /\ UNCHANGED <<itsData, level, task>>
       ELSE LET deque == itsData[currentBlockNr]
                rest  == [itsData EXCEPT ![currentBlockNr] = Tail(@)] IN
            /\ ThreadGoto(t, "lock", "calc")
            /\ task' = [task EXCEPT ![t] = <<currentBlockNr, Head(deque)>>]
            /\ itsData' = IF Tail(deque) = <<>>
                          THEN Restrict(rest, DOMAIN rest \ {Min(DOMAIN rest)})
                          ELSE rest
            /\ level' = level - 1
    /\ UNCHANGED <<currentBlockNr, subbandReady, checking_completeness,
                   itsStopProcessing, calculated, overlapped, blockNr>>

\* The thread returns: it was told to stop, or there is data, but none for the
\* current block.
ThreadReturns(t) ==
    /\ ThreadGoto(t, "lock", "ended")
    /\ \/ itsStopProcessing
       \/ level > 0 /\ currentBlockNr \notin DOMAIN itsData
    /\ UNCHANGED <<level, itsData, currentBlockNr, subbandReady,
                   checking_completeness, itsStopProcessing, task, calculated, overlapped,
                   blockNr>>

\* The result is handed to the writer.
DataReady(t) ==
    /\ ThreadGoto(t, "calc", "ready")
    /\ calculated' = Append(calculated, task[t])
    /\ UNCHANGED <<level, itsData, currentBlockNr, subbandReady,
                   checking_completeness, itsStopProcessing, task, overlapped, blockNr>>

MarkReady(t) ==
    /\ ThreadGoto(t, "ready", "check")
    /\ subbandReady' = subbandReady \cup {task[t][2]}
    /\ UNCHANGED <<level, itsData, currentBlockNr, checking_completeness,
                   itsStopProcessing, task, calculated, overlapped, blockNr>>

\* A thread has seen that no other is checking, and has not said so yet.
Claiming == \E t \in CalcThreads : tpc[t] = "claim"

\* Fault: a thread that finds another one checking leaves it to that one.
TestCheckingOnce(t) ==
    /\ ThreadGoto(t, "check", IF checking_completeness THEN "loop" ELSE "claim")
    /\ overlapped' = (overlapped \/ (Claiming /\ ~checking_completeness))
    /\ UNCHANGED <<level, itsData, currentBlockNr, subbandReady,
                   checking_completeness, itsStopProcessing, task, calculated, blockNr>>

\* checkIfBlockComplete: if (!checking_completeness) ...
TestChecking(t) ==
    /\ ThreadGoto(t, "check", "claim")
    /\ ~checking_completeness
    /\ overlapped' = (overlapped \/ Claiming)
    /\ UNCHANGED <<level, itsData, currentBlockNr, subbandReady,
                   checking_completeness, itsStopProcessing, task, calculated, blockNr>>

\* ... checking_completeness = true
ClaimChecking(t) ==
    /\ ThreadGoto(t, "claim", "scan")
    /\ checking_completeness' = TRUE
    /\ UNCHANGED <<level, itsData, currentBlockNr, subbandReady, itsStopProcessing,
                   task, calculated, overlapped, blockNr>>

\* Fault: the flag of the last subband is not looked at.
AllReadyButLast == Subbands \ {NrSubbands - 1} \subseteq subbandReady

AllReady == Subbands \subseteq subbandReady

\* The flags of all subbands, one after the other.
ScanReady(t) ==
    /\ ThreadGoto(t, "scan", IF AllReady THEN "complete" ELSE "unclaim")
    /\ UNCHANGED <<level, itsData, currentBlockNr, subbandReady, checking_completeness,
                   itsStopProcessing, task, calculated, overlapped, blockNr>>

\* Another thread has reset them meanwhile: the first ones may have been seen before
\* that, the others after it, and the last one is set now if all have been seen set.
ScanTorn(t) ==
    /\ \/ ThreadGoto(t, "torn", "complete") /\ NrSubbands - 1 \in subbandReady
       \/ ThreadGoto(t, "torn", "unclaim")
    /\ UNCHANGED <<level, itsData, currentBlockNr, subbandReady, checking_completeness,
                   itsStopProcessing, task, calculated, overlapped, blockNr>>

NotComplete(t) ==
    /\ ThreadGoto(t, "unclaim", "loop")
    /\ checking_completeness' = FALSE
    /\ UNCHANGED <<level, itsData, currentBlockNr, subbandReady, itsStopProcessing,
                   task, calculated, overlapped, blockNr>>

\* The other threads, when t has completed the block while they scan or do the same.
Overtaken(t) ==
    [u \in CalcThreads |-> CASE u = t -> "loop"
                             [] u # t /\ tpc[u] = "scan" -> "torn"
                             [] u # t /\ tpc[u] = "complete" -> "late"
                             [] OTHER -> tpc[u]]

\* The block is done: the flags are reset, and blockComplete(++currentBlockNr).  A
\* thread that another has overtaken may have reset the first flags before they were
\* set for the next block, and may have read currentBlockNr before it was incremented.
CompleteBlock(t) ==
    /\ \/ /\ tpc[t] = "complete"
          /\ subbandReady' = {}
          /\ currentBlockNr' = currentBlockNr + 1
       \/ /\ tpc[t] = "late"
          /\ \E n \in Subbands : subbandReady' = {s \in subbandReady : s < n}
          /\ currentBlockNr' \in 1..(currentBlockNr + 1)
    /\ tpc' = Overtaken(t)
    /\ checking_completeness' = FALSE
    /\ UNCHANGED <<level, itsData, itsStopProcessing, task, calculated, overlapped, blockNr>>

\* The steps that concern the calculator alone.
PrivateStep(t) ==
    \/ ThreadLoop(t) \/ WaitForData(t) \/ SpuriousWakeup(t) \/ TakeSubband(t)
    \/ ThreadReturns(t) \/ MarkReady(t) \/ TestChecking(t)
    \/ ClaimChecking(t) \/ ScanReady(t) \/ ScanTorn(t) \/ NotComplete(t)

ThreadStep(t) == PrivateStep(t) \/ DataReady(t) \/ CompleteBlock(t)

\* A parent that hands over its blocks at any pace, and stops the calculator when
\* it says that it is no longer processing.
ParentHandsOver == ~itsStopProcessing /\ blockNr < MaxBlocks /\ CalculateDataBlock
ParentStops     == ~itsStopProcessing /\ blockNr > 0 /\ ~StillProcessing /\ Stop

CalcNext ==
    \/ \E t \in CalcThreads : ThreadStep(t)
    \/ ParentHandsOver \/ ParentStops
    \/ (AllEnded \/ Undefined) /\ UNCHANGED calcVars

CalcSpec == CalcInit /\ [][CalcNext]_calcVars

\* The operating system runs every thread, other than to wake it up for nothing.
ThreadFairness ==
    \A t \in CalcThreads : WF_calcVars(ThreadStep(t) /\ ~SpuriousWakeup(t))

CalcFairSpec == CalcSpec /\ ThreadFairness

-----------------------------------------------------------------------------
(* Properties.                                                                  *)

\* The blocks reach the writer one after the other: the flags, which four threads
\* set and reset, let the calculator move on only when the last subband of the
\* block is done, and never past a block.  The test of checking_completeness is there
\* "for thread safety", and it takes two threads at once between it and the assignment
\* to break the order.
Ordered ==
    /\ \A i \in 1..Len(calculated) : calculated[i][1] = (i - 1) \div NrSubbands
    /\ currentBlockNr * NrSubbands <= Len(calculated)
BlocksInOrder == ~overlapped => Ordered

\* No two threads calculate the same subband, although each looks for its next one
\* while others hand in theirs and one of them, or by the race two of them at once,
\* moves on to the next block.  (A thread that takes the front of an empty deque is
\* not followed any further.)
CalculatedOnce ==
    \A i, j \in 1..Len(calculated) : calculated[i] = calculated[j] => i = j

\* What that rests on, whatever the race does to the flags and to currentBlockNr: a
\* subband that was handed over is in one place only, be it in the deque of its block,
\* with a thread, or among the results.
Calculating == {t \in CalcThreads : tpc[t] = "calc"}
InDeque(b, s) == b \in DOMAIN itsData /\ s \in Range(itsData[b])

PlaceInv ==
    /\ \A b \in DOMAIN itsData : b < blockNr /\ IsInjective(itsData[b])
    /\ \A t \in Calculating :
         /\ task[t][1] < blockNr
         /\ ~InDeque(task[t][1], task[t][2]) /\ task[t] \notin Range(calculated)
    /\ \A t, u \in Calculating : task[t] = task[u] => t = u
    /\ \A i \in 1..Len(calculated) :
         calculated[i][1] < blockNr /\ ~InDeque(calculated[i][1], calculated[i][2])
    /\ CalculatedOnce

\* What the order rests on, as long as one thread at a time is past the test.  The map
\* holds what is left of the current block and all of the later ones, and itsData's
\* level counts that.
Held == {t \in CalcThreads : tpc[t] \in {"calc", "ready"}}
Done == {s \in Subbands :
           \E i \in 1..Len(calculated) : calculated[i] = <<currentBlockNr, s>>}
Left(n) == [i \in 1..(NrSubbands - n) |-> n + i - 1]
Taken == IF currentBlockNr \in DOMAIN itsData
         THEN NrSubbands - Len(itsData[currentBlockNr])
         ELSE IF currentBlockNr < blockNr THEN NrSubbands ELSE 0

MapInv ==
    /\ currentBlockNr \in 0..blockNr
    /\ DOMAIN itsData \subseteq currentBlockNr..(blockNr - 1)
    /\ \A b \in (currentBlockNr + 1)..(blockNr - 1) :
         b \in DOMAIN itsData /\ itsData[b] = Left(0)
    /\ currentBlockNr \in DOMAIN itsData =>
         Taken \in 0..(NrSubbands - 1) /\ itsData[currentBlockNr] = Left(Taken)
    /\ ~itsStopProcessing => level = (blockNr - currentBlockNr) * NrSubbands - Taken
    /\ \A t \in CalcThreads : tpc[t] # "undefined"

\* A subband that was taken is held by one thread until its flag is set, and that
\* thread alone hands it to the writer.
TaskInv ==
    /\ \A t \in Held :
         /\ task[t][1] = currentBlockNr /\ task[t][2] \in 0..(Taken - 1) \ subbandReady
         /\ tpc[t] = "ready" <=> task[t][2] \in Done
    /\ \A t, u \in Held : task[t] = task[u] => t = u
    /\ \A s \in 0..(Taken - 1) : s \in subbandReady \/ \E t \in Held : task[t][2] = s
    /\ subbandReady \subseteq Done /\ Done \subseteq 0..(Taken - 1)

\* One thread at a time is between the test of checking_completeness and its reset.
Checking == {t \in CalcThreads :
               tpc[t] \in {"claim", "scan", "torn", "complete", "late", "unclaim"}}

CheckInv ==
    /\ \A t, u \in Checking : t = u
    /\ \A t \in Checking : checking_completeness <=> tpc[t] # "claim"
    /\ \A t \in CalcThreads : tpc[t] = "complete" => AllReady
    /\ \A t \in CalcThreads : tpc[t] \notin {"torn", "late"}

\* The thread that sets the last flag is yet to look at them all, or another one does.
ReadyInv ==
    AllReady => \E t \in CalcThreads : tpc[t] \in {"check", "claim", "scan", "complete"}

\* The results so far are those of the past blocks, and of the current one's done.
ResultInv ==
    /\ Ordered
    /\ Len(calculated) = currentBlockNr * NrSubbands + Cardinality(Done)
    /\ \A i \in 1..Len(calculated) : calculated[i][1] <= currentBlockNr

\* Threads return when the current block has been taken and the next one is there
\* already, but they never all do: one is left to go on with the next block.
SomeThreadLeft ==
    ~overlapped /\ ~itsStopProcessing => \E t \in CalcThreads : tpc[t] # "ended"

InOrderInv == MapInv /\ TaskInv /\ CheckInv /\ ReadyInv /\ ResultInv /\ SomeThreadLeft

CalcInv == CalcTypeOK /\ PlaceInv /\ (~overlapped => InOrderInv)

\* Every block handed over is calculated in the end, at whatever pace blocks come
\* and although threads return and the calculator can be stopped before the last
\* results are out; but for the race.
EveryBlockCalculated ==
    \A b \in Blocks :
        blockNr > b ~> \/ \A s \in Subbands :
                            \E i \in 1..Len(calculated) : calculated[i] = <<b, s>>
                       \/ overlapped

\* stop gets every thread to end, those that wait for data included: its joins
\* return, also after two threads were checking at once; unless that has led to the
\* front of an empty deque.
StopEnds == itsStopProcessing ~> AllEnded \/ Undefined
=============================================================================
