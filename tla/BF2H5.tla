-------------------------------- MODULE BF2H5 --------------------------------
(* bf2h5: the main thread reads blocks of samples into read buffers and hands     *)
(* them to the calculator, whose threads hand their results to the writer.  The   *)
(* threads share the read buffers, which itsBufferTracker is to keep apart, and   *)
(* one output buffer per subband.                                                 *)
(*                                                                                *)
(* What is in a buffer is the number of the block its data belong to.             *)
EXTENDS Bf2h5Calculator, HDF5Writer

CONSTANTS
    InitialBuffers,    \* INITIAL_NR_OF_READ_BUFFERS
    FlagSet            \* finished_reading starts out FALSE

ASSUME BufferAssumption == InitialBuffers \in Nat \ {0} /\ FlagSet \in BOOLEAN

Free == -1             \* of itsBufferTracker: not in use

VARIABLES
    mpc,               \* where the main thread is
    finished_reading,
    toCome,            \* blocks the source has yet to send
    itsReadBuffer,
    itsBufferTracker,  \* the block that uses each buffer, or Free
    itsSampleBuffers,  \* the content of each buffer
    pointer,           \* of each block: its buffer, and what was in it
    dataBlockOutput    \* of each subband: the block it was last calculated for,
                       \* and the block whose samples were used

mainVars == <<mpc, finished_reading, toCome, itsReadBuffer, itsBufferTracker,
              itsSampleBuffers, pointer, dataBlockOutput>>
vars == <<calcVars, writerVars, mainVars>>

Buffers == DOMAIN itsBufferTracker

MainPC == {"begin", "switch", "loop", "read", "handover", "drain", "drainWriter",
           "stopCalculator", "joinCalculator", "stopWriter", "joinWriter", "done"}

TypeOK ==
    /\ CalcTypeOK /\ WriterTypeOK
    /\ mpc \in MainPC
    /\ finished_reading \in BOOLEAN
    /\ toCome \in 0..MaxBlocks
    /\ itsReadBuffer \in Buffers
    /\ itsBufferTracker \in Seq(0..MaxBlocks \cup {Free})
    /\ itsSampleBuffers \in [Buffers -> Row]
    /\ pointer \in [Blocks -> [buffer : Buffers, data : Row]]
    /\ dataBlockOutput \in [Subbands -> [block : Blocks, data : Row]]

\* start, when readFirstDataBlock has read block 0 into the first buffer.
Init ==
    /\ CalcInit /\ WriterInit
    /\ mpc = "begin"
    /\ finished_reading \in (IF FlagSet THEN {FALSE} ELSE BOOLEAN)
    /\ toCome \in 0..(MaxBlocks - 2)
    /\ itsReadBuffer = 1
    /\ itsBufferTracker = [i \in 1..InitialBuffers |-> IF i = 1 THEN 0 ELSE Free]
    /\ itsSampleBuffers = [i \in 1..InitialBuffers |-> IF i = 1 THEN 0 ELSE NotRead]
    /\ pointer = [b \in Blocks |-> [buffer |-> 1, data |-> NotRead]]
    /\ dataBlockOutput = [s \in Subbands |-> [block |-> 0, data |-> NotRead]]

-----------------------------------------------------------------------------
(* start: the main thread.                                                      *)

MainGoto(from, to) == mpc = from /\ mpc' = to

\* calculateDataBlock(blockNr++, itsSampleBuffers[itsReadBuffer])
HandOver ==
    /\ mpc \in {"begin", "handover"} /\ mpc' = "switch"
    /\ pointer' = [pointer EXCEPT ![blockNr] =
                     [buffer |-> itsReadBuffer, data |-> itsSampleBuffers[itsReadBuffer]]]
    /\ CalculateDataBlock
    /\ UNCHANGED <<writerVars, finished_reading, toCome, itsReadBuffer,
                   itsBufferTracker, itsSampleBuffers, dataBlockOutput>>

\* switchReadBuffer(blockNr): the first buffer that is free, or a new one.
SwitchReadBuffer ==
    /\ MainGoto("switch", "loop")
    /\ LET unused == {i \in Buffers : itsBufferTracker[i] = Free} IN
         IF unused # {}
         THEN /\ itsReadBuffer' = Min(unused)
              /\ itsBufferTracker' = [itsBufferTracker EXCEPT ![Min(unused)] = blockNr]
              /\ UNCHANGED itsSampleBuffers
         ELSE /\ itsBufferTracker' = Append(itsBufferTracker, blockNr)
              /\ itsSampleBuffers' = Append(itsSampleBuffers, NotRead)
              /\ itsReadBuffer' = Len(itsBufferTracker')
    /\ UNCHANGED <<calcVars, writerVars, finished_reading, toCome, pointer,
                   dataBlockOutput>>

\* while (!(itsReader->finishedReading()))
ReadLoop ==
    /\ MainGoto("loop", IF finished_reading THEN "drain" ELSE "read")
    /\ UNCHANGED <<calcVars, writerVars, finished_reading, toCome, itsReadBuffer,
                   itsBufferTracker, itsSampleBuffers, pointer, dataBlockOutput>>

\* readDataBlock: a block, or the end of the stream, whose result start ignores.
ReadDataBlock ==
    /\ MainGoto("read", "handover")
    /\ IF toCome > 0
       THEN /\ itsSampleBuffers' = [itsSampleBuffers EXCEPT ![itsReadBuffer] = blockNr]
            /\ toCome' = toCome - 1
            /\ UNCHANGED finished_reading
       ELSE /\ finished_reading' = TRUE
            /\ UNCHANGED <<itsSampleBuffers, toCome>>
    /\ UNCHANGED <<calcVars, writerVars, itsReadBuffer, itsBufferTracker, pointer,
                   dataBlockOutput>>

\* Fault: the calculator is stopped whether it is done or not.
DrainCalculatorNot ==
    /\ MainGoto("drain", "drainWriter")
    /\ UNCHANGED <<calcVars, writerVars, finished_reading, toCome, itsReadBuffer,
                   itsBufferTracker, itsSampleBuffers, pointer, dataBlockOutput>>

\* while (stillProcessing() || dataLeft()): first the one ...
DrainCalculator ==
    /\ MainGoto("drain", "drainWriter")
    /\ ~StillProcessing
    /\ UNCHANGED <<calcVars, writerVars, finished_reading, toCome, itsReadBuffer,
                   itsBufferTracker, itsSampleBuffers, pointer, dataBlockOutput>>

MainPolls == mpc = "drain" /\ StillProcessing

\* ... then the other.
DrainWriter ==
    /\ MainGoto("drainWriter", IF DataLeft THEN "drain" ELSE "stopCalculator")
    /\ UNCHANGED <<calcVars, writerVars, finished_reading, toCome, itsReadBuffer,
                   itsBufferTracker, itsSampleBuffers, pointer, dataBlockOutput>>

StopCalculator ==
    /\ MainGoto("stopCalculator", "joinCalculator")
    /\ Stop
    /\ UNCHANGED <<writerVars, finished_reading, toCome, itsReadBuffer,
                   itsBufferTracker, itsSampleBuffers, pointer, dataBlockOutput>>

JoinCalculator ==
    /\ MainGoto("joinCalculator", "stopWriter")
    /\ AllEnded
    /\ UNCHANGED <<calcVars, writerVars, finished_reading, toCome, itsReadBuffer,
                   itsBufferTracker, itsSampleBuffers, pointer, dataBlockOutput>>

StopTheWriter ==
    /\ MainGoto("stopWriter", "joinWriter")
    /\ StopWriter
    /\ UNCHANGED <<calcVars, finished_reading, toCome, itsReadBuffer,
                   itsBufferTracker, itsSampleBuffers, pointer, dataBlockOutput>>

JoinWriter ==
    /\ MainGoto("joinWriter", "done")
    /\ wpc = "ended"
    /\ UNCHANGED <<calcVars, writerVars, finished_reading, toCome, itsReadBuffer,
                   itsBufferTracker, itsSampleBuffers, pointer, dataBlockOutput>>

MainStep ==
    \/ HandOver \/ SwitchReadBuffer \/ ReadLoop \/ ReadDataBlock
    \/ DrainCalculator \/ DrainWriter
    \/ StopCalculator \/ JoinCalculator \/ StopTheWriter \/ JoinWriter

-----------------------------------------------------------------------------
(* The calculator's threads and the writer.                                     *)

\* The samples of the subband are read and the result is written, in the memory
\* the writer is told of: calculatorDataReady.
Calculate(t) ==
    /\ DataReady(t)
    /\ LET b == task[t][1]  s == task[t][2] IN
         /\ dataBlockOutput' = [dataBlockOutput EXCEPT ![s] =
              [block |-> b, data |-> itsSampleBuffers[pointer[b].buffer]]]
         /\ WriteSubband(b, s)
    /\ UNCHANGED <<mpc, finished_reading, toCome, itsReadBuffer, itsBufferTracker,
                   itsSampleBuffers, pointer>>

\* blockComplete(++currentBlockNr): the buffer of the block that is now the
\* current one is free; when it has none an error is printed.
Complete(t) ==
    /\ CompleteBlock(t)
    /\ itsBufferTracker' = [i \in Buffers |-> IF itsBufferTracker[i] = currentBlockNr'
                                              THEN Free ELSE itsBufferTracker[i]]
    /\ UNCHANGED <<writerVars, mpc, finished_reading, toCome, itsReadBuffer,
                   itsSampleBuffers, pointer, dataBlockOutput>>

CalculatorStep(t) ==
    \/ PrivateStep(t) /\ UNCHANGED <<writerVars, mainVars>>
    \/ Calculate(t) \/ Complete(t)

WriterThread ==
    WriterStep(dataBlockOutput[dataPair[2]].data) /\ UNCHANGED <<calcVars, mainVars>>

Next ==
    \/ MainStep
    \/ \E t \in CalcThreads : CalculatorStep(t)
    \/ WriterThread
    \/ (mpc = "done" \/ MainPolls \/ Undefined) /\ UNCHANGED vars

Spec == Init /\ [][Next]_vars

\* The operating system runs every thread, other than to wake one up for nothing;
\* every read and every sleep ends.
Fairness ==
    /\ WF_vars(MainStep) /\ WF_vars(WriterThread)
    /\ \A t \in CalcThreads : WF_vars(CalculatorStep(t) /\ ~SpuriousWakeup(t))

FairSpec == Spec /\ Fairness

-----------------------------------------------------------------------------
(* Properties.                                                                  *)

\* The main thread uses the calculator the way it is meant to be used: it hands
\* over the blocks in order, none after stop, and stops it when it is no longer
\* processing, although it looks at level without the mutex.
UsesCalculator == CalcSpec

\* What that rests on: there is room for the blocks to come, the one that is handed
\* over without having been read included; nothing is handed over between the look
\* at level and stop.
MainInv ==
    /\ itsStopProcessing <=> mpc \in {"joinCalculator", "stopWriter", "joinWriter", "done"}
    /\ mpc = "begin" <=> blockNr = 0
    /\ mpc \in {"drainWriter", "stopCalculator"} => ~StillProcessing
    /\ mpc \in {"begin", "handover"} =>
         blockNr + (IF finished_reading THEN 0 ELSE toCome + 1) < MaxBlocks
    /\ mpc \in {"switch", "loop"} /\ ~finished_reading => blockNr + toCome < MaxBlocks
    /\ mpc = "read" => ~finished_reading /\ blockNr + toCome < MaxBlocks

\* The writer is brought what the calculator calculates.
LinkInv == brought = Range(calculated)

PipelineInv == TypeOK /\ CalcInv /\ WriterInv /\ MainInv /\ LinkInv

\* bf2h5 ends when the source does, unless the writer gives a subband up or two threads
\* of the calculator check at once: no thread waits for one that has returned, and main
\* never polls for what is not to come.
Ends == <>(mpc = "done" \/ overlapped \/ \E s \in Subbands : Zero \in Range(table[s]))

\* A read buffer that is marked as not in use is not in use: a thread finds in it
\* the samples that were handed to the calculator.
InputIntact ==
    \A t \in CalcThreads : tpc[t] = "calc" =>
        LET p == pointer[task[t][1]] IN itsSampleBuffers[p.buffer] = p.data

\* What calculatorDataReady passes to the writer is the result for that block and
\* subband, and still is when the writer gets to it.
OutputIntact ==
    /\ \A b \in DOMAIN writeMap : \A i \in 1..Len(writeMap[b]) :
          dataBlockOutput[writeMap[b][i]].block = b
    /\ wpc = "write" => dataBlockOutput[dataPair[2]].block = dataPair[1]

\* Everything that was calculated has been written when the writer is stopped: it
\* is no problem that stillProcessing lags behind.
AllWritten == mpc = "done" => ~DataLeft

\* finishedReading says whether the source has been read to its end.
ReadToTheEnd == mpc = "drain" => toCome = 0
=============================================================================
