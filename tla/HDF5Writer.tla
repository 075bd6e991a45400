----------------------------- MODULE HDF5Writer -----------------------------
(* The writer thread of bf2h5: it takes the calculated subbands of a block out of *)
(* a map and appends each to the table of its subband, so that row k of every     *)
(* table belongs to block k.  A subband that is late for too long is replaced by  *)
(* zeros.                                                                         *)
(*                                                                                *)
(* The map holds pointers: what is in the memory they point to when the row is    *)
(* written is the business of module BF2H5.  A row is the number of the block     *)
(* whose data it has.                                                             *)
EXTENDS BeamBlocks, Functions

CONSTANT Patience   \* polls before a late subband is given up

ASSUME WriterAssumption == Patience \in Nat

Zero    == -1    \* a row of zeroBlock
NotRead == -2    \* memory nothing was read into
Row     == Blocks \cup {Zero, NotRead}

VARIABLES
    writeMap,       \* itsData: the calculated subbands of each block
    writeBlockNr,   \* currentBlockNr
    subbandWritten, \* subbandReady
    waitForDataTimeOut, foundDataForCurrentBlock, stopWriting,
    wpc,            \* where the thread is
    dataPair,       \* the subband being written, and its block
    table,          \* the rows of each subband's table
    brought         \* history: the subbands the calculator has brought

writerVars == <<writeMap, writeBlockNr, subbandWritten, waitForDataTimeOut,
                foundDataForCurrentBlock, stopWriting, wpc, dataPair, table, brought>>

WriterTypeOK ==
    /\ DOMAIN writeMap \subseteq Blocks
    /\ \A b \in DOMAIN writeMap : writeMap[b] \in Seq(Subbands)
    /\ writeBlockNr \in 0..MaxBlocks
    /\ subbandWritten \subseteq Subbands
    /\ waitForDataTimeOut \in 0..Patience
    /\ foundDataForCurrentBlock \in BOOLEAN /\ stopWriting \in BOOLEAN
    /\ wpc \in {"loop", "get", "write", "nothing", "ended"}
    /\ dataPair \in Blocks \X Subbands
    /\ table \in [Subbands -> Seq(Row)]
    /\ brought \subseteq Blocks \X Subbands

\* The constructor, and start.
WriterInit ==
    /\ writeMap = <<>>
    /\ writeBlockNr = 0
    /\ subbandWritten = {}
    /\ waitForDataTimeOut = 0
    /\ foundDataForCurrentBlock = FALSE /\ stopWriting = FALSE
    /\ wpc = "loop"
    /\ dataPair = <<0, 0>>
    /\ table = [s \in Subbands |-> <<>>]
    /\ brought = {}

-----------------------------------------------------------------------------
(* What the parent calls.                                                       *)

\* itsData[b].push_back(s), where operator[] makes the entry that is not there.
WithSubband(b, s) ==
    [x \in DOMAIN writeMap \cup {b} |->
        IF x # b THEN writeMap[x]
        ELSE Append(IF b \in DOMAIN writeMap THEN writeMap[b] ELSE <<>>, s)]

\* writeSubband, by a thread of the calculator.
WriteSubband(b, s) ==
    /\ writeMap' = WithSubband(b, s)
    /\ brought' = brought \cup {<<b, s>>}
    /\ UNCHANGED <<writeBlockNr, subbandWritten, waitForDataTimeOut,
                   foundDataForCurrentBlock, stopWriting, wpc, dataPair, table>>

DataLeft == \E b \in DOMAIN writeMap : writeMap[b] # <<>>

\* stop, up to the join.
StopWriter ==
    /\ stopWriting' = TRUE
    /\ UNCHANGED <<writeMap, writeBlockNr, subbandWritten, waitForDataTimeOut,
                   foundDataForCurrentBlock, wpc, dataPair, table, brought>>

-----------------------------------------------------------------------------
(* writeData.  How long a pass of its loop sleeps is left open.                 *)

WriterGoto(from, to) == wpc = from /\ wpc' = to

\* while (!stopWriting)
WriterLoop ==
    /\ WriterGoto("loop", IF stopWriting THEN "ended" ELSE "get")
    /\ UNCHANGED <<writeMap, writeBlockNr, subbandWritten, waitForDataTimeOut,
                   foundDataForCurrentBlock, stopWriting, dataPair, table, brought>>

HasData == writeBlockNr \in DOMAIN writeMap /\ writeMap[writeBlockNr] # <<>>

\* Fault: a subband of the first block in the map, current or not.
GetDataFirst ==
    /\ WriterGoto("get", "write")
    /\ \E b \in DOMAIN writeMap :
         /\ writeMap[b] # <<>>
         /\ \A c \in DOMAIN writeMap : writeMap[c] # <<>> => b <= c
         /\ dataPair' = <<b, Head(writeMap[b])>>
         /\ writeMap' = [writeMap EXCEPT ![b] = Tail(@)]
    /\ foundDataForCurrentBlock' = TRUE
    /\ UNCHANGED <<writeBlockNr, subbandWritten, waitForDataTimeOut, stopWriting, table,
                   brought>>

\* getDataForCurrentBlock finds a subband ...
GetData ==
    /\ WriterGoto("get", "write")
    /\ HasData
    /\ dataPair' = <<writeBlockNr, Head(writeMap[writeBlockNr])>>
    /\ writeMap' = [writeMap EXCEPT ![writeBlockNr] = Tail(@)]
    /\ foundDataForCurrentBlock' = TRUE
    /\ UNCHANGED <<writeBlockNr, subbandWritten, waitForDataTimeOut, stopWriting, table,
                   brought>>

\* ... or none.
GetNothing ==
    /\ WriterGoto("get", "nothing")
    /\ ~HasData
    /\ UNCHANGED <<writeMap, writeBlockNr, subbandWritten, waitForDataTimeOut,
                   foundDataForCurrentBlock, stopWriting, dataPair, table, brought>>

\* Fault: the flags of the block before stay set.
StartNextBlockFlagged ==
    /\ UNCHANGED subbandWritten
    /\ writeMap' = Restrict(writeMap, DOMAIN writeMap \ {writeBlockNr})
    /\ writeBlockNr' = writeBlockNr + 1
    /\ waitForDataTimeOut' = 0
    /\ foundDataForCurrentBlock' = FALSE

StartNextBlock ==
    /\ subbandWritten' = {}
    /\ writeMap' = Restrict(writeMap, DOMAIN writeMap \ {writeBlockNr})
    /\ writeBlockNr' = writeBlockNr + 1
    /\ waitForDataTimeOut' = 0
    /\ foundDataForCurrentBlock' = FALSE

\* The subband is appended, v being what its memory holds; checkIfBlockComplete.
WriteRow(v) ==
    /\ WriterGoto("write", "loop")
    /\ table' = [table EXCEPT ![dataPair[2]] = Append(@, v)]
    /\ IF subbandWritten \cup {dataPair[2]} = Subbands
       THEN StartNextBlock
       ELSE /\ subbandWritten' = subbandWritten \cup {dataPair[2]}
            /\ waitForDataTimeOut' = 0
            /\ UNCHANGED <<writeMap, writeBlockNr, foundDataForCurrentBlock>>
    /\ UNCHANGED <<stopWriting, dataPair, brought>>

\* Fault: a late subband is waited for once too often.
KeepWaitingLonger ==
    /\ WriterGoto("nothing", "loop")
    /\ ~foundDataForCurrentBlock \/ waitForDataTimeOut <= Patience
    /\ waitForDataTimeOut' = IF foundDataForCurrentBlock /\ waitForDataTimeOut <= Patience
                             THEN waitForDataTimeOut + 1
                             ELSE waitForDataTimeOut
    /\ UNCHANGED <<writeMap, writeBlockNr, subbandWritten, foundDataForCurrentBlock,
                   stopWriting, dataPair, table, brought>>

\* No data, and the block has not begun or is not given up yet.
KeepWaiting ==
    /\ WriterGoto("nothing", "loop")
    /\ ~foundDataForCurrentBlock \/ waitForDataTimeOut < Patience
    /\ waitForDataTimeOut' = IF foundDataForCurrentBlock /\ waitForDataTimeOut < Patience
                             THEN waitForDataTimeOut + 1
                             ELSE waitForDataTimeOut
    /\ UNCHANGED <<writeMap, writeBlockNr, subbandWritten, foundDataForCurrentBlock,
                   stopWriting, dataPair, table, brought>>

\* Fault: nothing is written for the subbands that are missing.
SkipSubbandsUnfilled ==
    /\ WriterGoto("nothing", "loop")
    /\ foundDataForCurrentBlock /\ waitForDataTimeOut >= Patience
    /\ StartNextBlock
    /\ UNCHANGED <<stopWriting, dataPair, table, brought>>

\* The rows of the subbands that are missing are filled with zeros, and the block
\* is given up.
SkipSubbands ==
    /\ WriterGoto("nothing", "loop")
    /\ foundDataForCurrentBlock /\ waitForDataTimeOut >= Patience
    /\ table' = [s \in Subbands |-> IF s \in subbandWritten THEN table[s]
                                     ELSE Append(table[s], Zero)]
    /\ StartNextBlock
    /\ UNCHANGED <<stopWriting, dataPair, brought>>

WriterStep(v) ==
    \/ WriterLoop \/ GetData \/ GetNothing \/ WriteRow(v) \/ KeepWaiting
    \/ SkipSubbands

-----------------------------------------------------------------------------
(* The writer by itself, with a calculator that brings each subband of each block *)
(* once, block after block, and does not use its memory again before it is        *)
(* written.                                                                       *)

\* The subbands of a block may come in any order, those of the next one only then.
Bring(b, s) ==
    /\ <<b, s>> \notin brought
    /\ \A c \in 0..(b - 1) : \A r \in Subbands : <<c, r>> \in brought
    /\ ~stopWriting
    /\ WriteSubband(b, s)

StopAlone == ~stopWriting /\ ~DataLeft /\ StopWriter

WriterNext ==
    \/ WriterStep(dataPair[1])
    \/ \E b \in Blocks, s \in Subbands : Bring(b, s)
    \/ StopAlone
    \/ wpc = "ended" /\ UNCHANGED writerVars

WriterSpec == WriterInit /\ [][WriterNext]_writerVars

\* The operating system runs the thread.
WriterFairSpec == WriterSpec /\ WF_writerVars(WriterStep(dataPair[1]))

-----------------------------------------------------------------------------
(* Properties.                                                                  *)

\* The tables of all subbands have the same rows, although the subbands come in any
\* order and some are given up: a table is ahead of another only by a subband of
\* the block being written.
TablesLevel ==
    \A s \in Subbands :
        Len(table[s]) = writeBlockNr + (IF s \in subbandWritten THEN 1 ELSE 0)

\* Row k of every table belongs to block k, whichever subbands were late and
\* whenever they came after all: a row holds its block's data or zeros, and the
\* tables are level.
RowsAligned ==
    /\ \A s \in Subbands : \A k \in 1..Len(table[s]) : table[s][k] \in {k - 1, Zero}
    /\ TablesLevel

\* What that rests on.  The writer moves on to the next block only after it has
\* found something of the current one: so never past the last block, and the entry
\* that startNextBlock erases from the map is there.
PollInv ==
    /\ wpc = "write" => foundDataForCurrentBlock /\ dataPair[1] = writeBlockNr
    /\ foundDataForCurrentBlock => writeBlockNr \in DOMAIN writeMap

\* A subband that was brought is in one place only: in the map, with the writer, or
\* among those written of the current block.
InHand == IF wpc = "write" THEN {dataPair[2]} ELSE {}

OnceInv ==
    /\ \A b \in DOMAIN writeMap : \A i \in 1..Len(writeMap[b]) :
          /\ <<b, writeMap[b][i]>> \in brought
          /\ \A j \in 1..Len(writeMap[b]) : writeMap[b][i] = writeMap[b][j] => i = j
          /\ b = writeBlockNr => writeMap[b][i] \notin subbandWritten \cup InHand
    /\ \A s \in subbandWritten \cup InHand : <<writeBlockNr, s>> \in brought
    /\ subbandWritten \cap InHand = {}

WriterInv == WriterTypeOK /\ PollInv /\ OnceInv /\ TablesLevel

\* Each subband that the calculator brings gets its row, of its own data or, if the
\* block was given up before it came, of zeros: however late the subbands of a block
\* are, the writer goes on to the next one.
BroughtIsWritten ==
    \A b \in Blocks, s \in Subbands : <<b, s>> \in brought ~> Len(table[s]) > b

\* dataLeft says whether the writer still has something left to write: what it
\* reports is of a block that is still to be written.
LeftIsWritable ==
    \A b \in DOMAIN writeMap : writeMap[b] # <<>> => b >= writeBlockNr
=============================================================================
