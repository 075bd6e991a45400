---------------------------- MODULE BF2H5_proofs ----------------------------
(* Proofs about bf2h5: first about its calculator, for any number of threads,      *)
(* subbands and blocks; then about its writer, for any patience; and then about    *)
(* bf2h5 as a whole.  The main thread uses the calculator as the calculator's own  *)
(* specification says, so that what is proved of the calculator holds inside       *)
(* bf2h5, and with it what is proved of the writer.                                *)
EXTENDS BF2H5, FiniteSetTheorems, SequenceTheorems, WellFoundedInduction, TLAPS

-----------------------------------------------------------------------------
(*                              The calculator                                   *)

-----------------------------------------------------------------------------
(* Arithmetic, sequences and maps.                                               *)

\* The block a position of the results belongs to.
LEMMA DivOf ==
    ASSUME NEW n \in Nat \ {0}, NEW q \in Nat, NEW r \in 0..(n - 1)
    PROVE  (q * n + r) \div n = q
  BY SMT

\* A function on 1..n is a sequence of length n.
LEMMA FunctionIsSeq ==
    ASSUME NEW n \in Nat, NEW S, NEW f \in [1..n -> S]
    PROVE  f \in Seq(S) /\ Len(f) = n
  BY SMT

\* What is left of a block after n of its subbands.
LEMMA LeftSeq ==
    ASSUME NEW n \in 0..NrSubbands
    PROVE  /\ Left(n) \in Seq(Subbands) /\ Len(Left(n)) = NrSubbands - n
           /\ \A i \in 1..(NrSubbands - n) : Left(n)[i] = n + i - 1
<1>. NrSubbands \in Nat \ {0} /\ NrSubbands - n \in Nat
  BY BlocksAssumption
<1>1. Left(n) \in [1..(NrSubbands - n) -> Subbands]
  BY DEF Left, Subbands
<1>. QED BY <1>1, FunctionIsSeq DEF Left

\* Taking the first subband leaves one less.
LEMMA LeftTail ==
    ASSUME NEW n \in 0..(NrSubbands - 1)
    PROVE  Left(n) # <<>> /\ Head(Left(n)) = n /\ Tail(Left(n)) = Left(n + 1)
<1>. NrSubbands \in Nat \ {0} /\ n + 1 \in 0..NrSubbands /\ n \in 0..NrSubbands
  BY BlocksAssumption
<1>1. Left(n) # <<>> /\ Head(Left(n)) = n
  <2>1. Len(Left(n)) # 0
    BY LeftSeq
  <2>2. Left(n)[1] = n
    <3>1. 1 \in 1..(NrSubbands - n) /\ n + 1 - 1 = n
      OBVIOUS
    <3>. QED BY <3>1, LeftSeq
  <2>3. Left(n) # <<>>
    BY <2>1, EmptySeq
  <2>. QED BY <2>2, <2>3
<1>2. /\ Tail(Left(n)) \in Seq(Subbands) /\ Len(Tail(Left(n))) = NrSubbands - n - 1
      /\ \A i \in 1..(NrSubbands - n - 1) : Tail(Left(n))[i] = Left(n)[i + 1]
  BY <1>1, LeftSeq, HeadTailProperties
<1>3. /\ Left(n + 1) \in Seq(Subbands) /\ Len(Left(n + 1)) = NrSubbands - n - 1
      /\ \A i \in 1..(NrSubbands - n - 1) : Left(n + 1)[i] = n + i
  BY LeftSeq
<1>4. ASSUME NEW i \in 1..(NrSubbands - n - 1) PROVE Tail(Left(n))[i] = Left(n + 1)[i]
  <2>1. i + 1 \in 1..(NrSubbands - n)
    OBVIOUS
  <2>. QED BY <2>1, <1>2, <1>3, LeftSeq
<1>. QED BY <1>1, <1>2, <1>3, <1>4, SeqEqual

\* Nothing is left after the last subband only.
LEMMA LeftEmpty ==
    ASSUME NEW n \in 0..NrSubbands PROVE Left(n) = <<>> <=> n = NrSubbands
<1>1. /\ NrSubbands \in Nat \ {0}
      /\ Left(n) \in Seq(Subbands) /\ Len(Left(n)) = NrSubbands - n
  BY LeftSeq, BlocksAssumption
<1>2. \A q \in Seq(Subbands) : q = <<>> <=> Len(q) = 0
  BY EmptySeq
<1>. QED BY <1>1, <1>2

\* The first key of a map whose keys are none below n, one of them n.
LEMMA MinIs ==
    ASSUME NEW S \in SUBSET Int, NEW n \in S, \A m \in S : n <= m PROVE Min(S) = n
<1>1. n \in S /\ \A y \in S : n <= y
  OBVIOUS
<1>2. \A x \in S : (\A y \in S : x <= y) => x = n
  OBVIOUS
<1>. QED BY <1>1, <1>2, Zenon DEF Min

-----------------------------------------------------------------------------
(* Types.                                                                        *)

\* Every step keeps every variable in its type.
LEMMA CalcTypeStep == ASSUME CalcTypeOK, [CalcNext]_calcVars PROVE CalcTypeOK'
<1>. USE DEF CalcTypeOK, ThreadPC, ThreadGoto
<1>. NrSubbands \in Nat \ {0} /\ MaxBlocks \in Nat \ {0}
  BY BlocksAssumption
<1>1. ASSUME NEW t \in CalcThreads, ThreadLoop(t) PROVE CalcTypeOK'
  BY <1>1 DEF ThreadLoop
<1>2. ASSUME NEW t \in CalcThreads, WaitForData(t) PROVE CalcTypeOK'
  BY <1>2 DEF WaitForData
<1>3. ASSUME NEW t \in CalcThreads, SpuriousWakeup(t) PROVE CalcTypeOK'
  BY <1>3 DEF SpuriousWakeup
<1>4. ASSUME NEW t \in CalcThreads, TakeSubband(t) PROVE CalcTypeOK'
  <2>1. CASE itsData[currentBlockNr] = <<>>
    BY <1>4, <2>1 DEF TakeSubband
  <2>2. CASE itsData[currentBlockNr] # <<>>
    <3>. DEFINE deque == itsData[currentBlockNr]
                rest  == [itsData EXCEPT ![currentBlockNr] = Tail(@)]
    <3>1. /\ ThreadGoto(t, "lock", "calc") /\ level > 0
          /\ task' = [task EXCEPT ![t] = <<currentBlockNr, Head(deque)>>]
          /\ itsData' = rest \/ itsData' = Restrict(rest, DOMAIN rest \ {Min(DOMAIN rest)})
          /\ level' = level - 1
          /\ UNCHANGED <<currentBlockNr, subbandReady, checking_completeness,
                         itsStopProcessing, calculated, overlapped, blockNr>>
      BY <1>4, <2>2 DEF TakeSubband
    <3>2. currentBlockNr \in DOMAIN itsData /\ deque \in Seq(Subbands)
      BY <1>4 DEF TakeSubband
    <3>3. Head(deque) \in Subbands /\ Tail(deque) \in Seq(Subbands)
      BY <2>2, <3>2, HeadTailProperties
    <3>4. DOMAIN rest = DOMAIN itsData /\ \A b \in DOMAIN rest : rest[b] \in Seq(Subbands)
      BY <3>2, <3>3
    <3>5. /\ DOMAIN itsData' \subseteq Blocks
          /\ \A b \in DOMAIN itsData' : itsData'[b] \in Seq(Subbands)
      BY <3>1, <3>4 DEF Restrict
    <3>6. task' \in [CalcThreads -> Blocks \X Subbands]
      BY <3>1, <3>2, <3>3
    <3>. QED BY <3>1, <3>5, <3>6
  <2>. QED BY <2>1, <2>2
<1>5. ASSUME NEW t \in CalcThreads, ThreadReturns(t) PROVE CalcTypeOK'
  BY <1>5 DEF ThreadReturns
<1>6. ASSUME NEW t \in CalcThreads, DataReady(t) PROVE CalcTypeOK'
  <2>1. task[t] \in Blocks \X Subbands
    OBVIOUS
  <2>. QED BY <1>6, <2>1 DEF DataReady
<1>7. ASSUME NEW t \in CalcThreads, MarkReady(t) PROVE CalcTypeOK'
  <2>1. task[t][2] \in Subbands
    OBVIOUS
  <2>. QED BY <1>7, <2>1 DEF MarkReady
<1>8. ASSUME NEW t \in CalcThreads, TestChecking(t) PROVE CalcTypeOK'
  BY <1>8 DEF TestChecking
<1>9. ASSUME NEW t \in CalcThreads, ClaimChecking(t) PROVE CalcTypeOK'
  BY <1>9 DEF ClaimChecking
<1>10. ASSUME NEW t \in CalcThreads, ScanReady(t) \/ ScanTorn(t) PROVE CalcTypeOK'
  BY <1>10 DEF ScanReady, ScanTorn
<1>11. ASSUME NEW t \in CalcThreads, NotComplete(t) PROVE CalcTypeOK'
  BY <1>11 DEF NotComplete
<1>12. ASSUME NEW t \in CalcThreads, CompleteBlock(t) PROVE CalcTypeOK'
  <2>1. \A u \in CalcThreads : Overtaken(t)[u] \in {"loop", "torn", "late", tpc[u]}
    BY DEF Overtaken
  <2>2. tpc' \in [CalcThreads -> ThreadPC]
    BY <1>12, <2>1 DEF CompleteBlock, Overtaken
  <2>3. currentBlockNr' \in Nat /\ subbandReady' \subseteq Subbands
    BY <1>12 DEF CompleteBlock
  <2>. QED BY <1>12, <2>2, <2>3 DEF CompleteBlock
<1>13. CASE ParentHandsOver
  <2>1. blockNr \in Blocks /\ blockNr + 1 \in 0..MaxBlocks /\ level + NrSubbands \in Nat
    BY <1>13 DEF ParentHandsOver, Blocks
  <2>2. [i \in 1..NrSubbands |-> i - 1] \in Seq(Subbands)
    <3>1. [i \in 1..NrSubbands |-> i - 1] \in [1..NrSubbands -> Subbands]
      BY DEF Subbands
    <3>. QED BY <3>1, FunctionIsSeq
  <2>3. /\ DOMAIN itsData' \subseteq Blocks
        /\ \A b \in DOMAIN itsData' : itsData'[b] \in Seq(Subbands)
    BY <1>13, <2>1, <2>2 DEF ParentHandsOver, CalculateDataBlock, WithBlock
  <2>. QED BY <1>13, <2>1, <2>3 DEF ParentHandsOver, CalculateDataBlock, Woken
<1>14. CASE ParentStops
  BY <1>14 DEF ParentStops, Stop, Woken
<1>15. CASE UNCHANGED calcVars
  BY <1>15 DEF calcVars
<1>. QED BY <1>1, <1>2, <1>3, <1>4, <1>5, <1>6, <1>7, <1>8, <1>9, <1>10, <1>11, <1>12,
     <1>13, <1>14, <1>15 DEF CalcNext, ThreadStep, PrivateStep

-----------------------------------------------------------------------------
(* The steps.                                                                    *)

\* A step that moves threads about without the map, the tasks, the flags of the
\* subbands or the results.
QuietStep ==
    /\ UNCHANGED <<level, itsData, currentBlockNr, subbandReady, itsStopProcessing, task,
                   calculated, blockNr>>
    /\ Held' = Held
    /\ \A t \in Held : tpc'[t] = tpc[t]
    /\ \A t \in CalcThreads : tpc'[t] = "undefined" => tpc[t] = "undefined"

WorkStep ==
    \/ \E t \in CalcThreads : \/ TakeSubband(t) \/ DataReady(t) \/ MarkReady(t)
                              \/ CompleteBlock(t)
    \/ ParentHandsOver \/ ParentStops

LEMMA CalcSteps ==
    ASSUME CalcTypeOK, [CalcNext]_calcVars PROVE QuietStep \/ WorkStep
<1>. USE DEF Held, QuietStep, ThreadGoto
<1>. tpc \in [CalcThreads -> ThreadPC]
  BY DEF CalcTypeOK
<1>1. ASSUME NEW t \in CalcThreads, ThreadLoop(t) PROVE QuietStep
  BY <1>1 DEF ThreadLoop
<1>2. ASSUME NEW t \in CalcThreads, WaitForData(t) PROVE QuietStep
  BY <1>2 DEF WaitForData
<1>3. ASSUME NEW t \in CalcThreads, SpuriousWakeup(t) PROVE QuietStep
  BY <1>3 DEF SpuriousWakeup
<1>4. ASSUME NEW t \in CalcThreads, ThreadReturns(t) PROVE QuietStep
  BY <1>4 DEF ThreadReturns
<1>5. ASSUME NEW t \in CalcThreads, TestChecking(t) PROVE QuietStep
  BY <1>5 DEF TestChecking
<1>6. ASSUME NEW t \in CalcThreads, ClaimChecking(t) PROVE QuietStep
  BY <1>6 DEF ClaimChecking
<1>7. ASSUME NEW t \in CalcThreads, ScanReady(t) \/ ScanTorn(t) PROVE QuietStep
  BY <1>7 DEF ScanReady, ScanTorn
<1>8. ASSUME NEW t \in CalcThreads, NotComplete(t) PROVE QuietStep
  BY <1>8 DEF NotComplete
<1>9. CASE UNCHANGED calcVars
  BY <1>9 DEF calcVars
<1>. QED BY <1>1, <1>2, <1>3, <1>4, <1>5, <1>6, <1>7, <1>8, <1>9
     DEF CalcNext, ThreadStep, PrivateStep, WorkStep

\* A thread that completes the block when no other is past the test.
CompleteAlone(t) ==
    /\ ThreadGoto(t, "complete", "loop")
    /\ subbandReady' = {} /\ currentBlockNr' = currentBlockNr + 1
    /\ checking_completeness' = FALSE
    /\ UNCHANGED <<level, itsData, itsStopProcessing, task, calculated, blockNr>>

LEMMA CompletesAlone ==
    ASSUME CalcTypeOK, CheckInv, NEW t \in CalcThreads, CompleteBlock(t)
    PROVE  CompleteAlone(t)
<1>1. tpc[t] = "complete" /\ \A u \in CalcThreads : u # t => tpc[u] \notin {"scan", "complete"}
  BY DEF CompleteBlock, CheckInv, Checking
<1>2. Overtaken(t) = [tpc EXCEPT ![t] = "loop"]
  BY <1>1 DEF Overtaken, CalcTypeOK
<1>. QED BY <1>1, <1>2 DEF CompleteBlock, CompleteAlone, ThreadGoto

\* That two threads were past the test is never forgotten.
LEMMA OverlapStays == ASSUME [CalcNext]_calcVars, ~overlapped' PROVE ~overlapped
<1>1. ASSUME NEW t \in CalcThreads, ThreadStep(t) PROVE overlapped => overlapped'
  BY <1>1 DEF ThreadStep, PrivateStep, ThreadLoop, WaitForData, SpuriousWakeup, TakeSubband,
     ThreadReturns, MarkReady, TestChecking, ClaimChecking, ScanReady, ScanTorn, NotComplete,
     DataReady, CompleteBlock
<1>2. CASE ParentHandsOver \/ ParentStops
  BY <1>2 DEF ParentHandsOver, CalculateDataBlock, ParentStops, Stop
<1>3. CASE UNCHANGED calcVars
  BY <1>3 DEF calcVars
<1>. QED BY <1>1, <1>2, <1>3 DEF CalcNext

\* The numbers the invariant counts with.
LEMMA CalcNumbers ==
    ASSUME CalcTypeOK, MapInv
    PROVE  /\ NrSubbands \in Nat \ {0} /\ blockNr \in Nat /\ currentBlockNr \in 0..blockNr
           /\ level \in Nat /\ Taken \in 0..NrSubbands
           /\ currentBlockNr \in DOMAIN itsData =>
                /\ Taken < NrSubbands /\ currentBlockNr < blockNr
                /\ itsData[currentBlockNr] = Left(Taken)
           /\ currentBlockNr \notin DOMAIN itsData =>
                Taken = IF currentBlockNr < blockNr THEN NrSubbands ELSE 0
<1>1. NrSubbands \in Nat \ {0} /\ blockNr \in Nat /\ level \in Nat
  BY BlocksAssumption DEF CalcTypeOK
<1>2. CASE currentBlockNr \in DOMAIN itsData
  BY <1>1, <1>2 DEF MapInv
<1>3. CASE currentBlockNr \notin DOMAIN itsData
  BY <1>1, <1>3 DEF MapInv, Taken
<1>. QED BY <1>1, <1>2, <1>3 DEF MapInv

\* What a thread that finds a subband to take does to the map.
LEMMA TakeEffect ==
    ASSUME CalcTypeOK, MapInv, NEW t \in CalcThreads, TakeSubband(t)
    PROVE  /\ currentBlockNr < blockNr /\ Taken < NrSubbands /\ Taken' = Taken + 1
           /\ task' = [task EXCEPT ![t] = <<currentBlockNr, Taken>>]
           /\ tpc[t] = "lock" /\ tpc' = [tpc EXCEPT ![t] = "calc"]
           /\ level' = level - 1
           /\ DOMAIN itsData' \subseteq DOMAIN itsData
           /\ \A b \in DOMAIN itsData : b # currentBlockNr =>
                b \in DOMAIN itsData' /\ itsData'[b] = itsData[b]
           /\ currentBlockNr \in DOMAIN itsData' =>
                Taken' < NrSubbands /\ itsData'[currentBlockNr] = Left(Taken')
           /\ UNCHANGED <<currentBlockNr, subbandReady, checking_completeness,
                          itsStopProcessing, calculated, blockNr>>
<1>. DEFINE c == currentBlockNr
            n == Taken
            rest == [itsData EXCEPT ![c] = Tail(@)]
<1>1. /\ c \in DOMAIN itsData /\ itsData[c] = Left(n) /\ n \in 0..(NrSubbands - 1)
      /\ c < blockNr /\ c \in Int /\ NrSubbands \in Nat \ {0} /\ n \in Nat
  BY CalcNumbers DEF TakeSubband
<1>2. /\ itsData[c] # <<>> /\ Head(itsData[c]) = n /\ Tail(itsData[c]) = Left(n + 1)
      /\ (Left(n + 1) = <<>> <=> n + 1 = NrSubbands) /\ Len(Left(n + 1)) = NrSubbands - (n + 1)
  <2>1. n + 1 \in 0..NrSubbands
    BY <1>1
  <2>. QED BY <1>1, <2>1, LeftTail, LeftEmpty, LeftSeq
<1>3. Min(DOMAIN rest) = c
  <2>1. DOMAIN rest \in SUBSET Int /\ \A m \in DOMAIN rest : c <= m
    BY DEF CalcTypeOK, MapInv, Blocks
  <2>. QED BY <1>1, <2>1, MinIs
<1>4. /\ tpc[t] = "lock" /\ tpc' = [tpc EXCEPT ![t] = "calc"]
      /\ task' = [task EXCEPT ![t] = <<c, n>>] /\ level' = level - 1
      /\ UNCHANGED <<currentBlockNr, subbandReady, checking_completeness,
                     itsStopProcessing, calculated, blockNr>>
      /\ itsData' = IF n + 1 = NrSubbands THEN Restrict(rest, DOMAIN rest \ {c}) ELSE rest
  BY <1>2, <1>3 DEF TakeSubband, ThreadGoto
<1>5. CASE n + 1 = NrSubbands
  <2>1. /\ DOMAIN itsData' = DOMAIN itsData \ {c}
        /\ \A b \in DOMAIN itsData : b # c => itsData'[b] = itsData[b]
    BY <1>4, <1>5 DEF Restrict
  <2>2. Taken' = NrSubbands
    BY <1>1, <1>4, <2>1 DEF Taken
  <2>3. Taken' = Taken + 1 /\ Taken < NrSubbands
    BY <1>1, <1>5, <2>2
  <2>4. /\ DOMAIN itsData' \subseteq DOMAIN itsData /\ c \notin DOMAIN itsData'
        /\ \A b \in DOMAIN itsData : b # c => b \in DOMAIN itsData' /\ itsData'[b] = itsData[b]
    BY <2>1
  <2>. QED BY <1>1, <1>4, <2>3, <2>4
<1>6. CASE n + 1 # NrSubbands
  <2>1. /\ DOMAIN itsData' = DOMAIN itsData /\ itsData'[c] = Left(n + 1)
        /\ \A b \in DOMAIN itsData : b # c => itsData'[b] = itsData[b]
    BY <1>1, <1>2, <1>4, <1>6
  <2>2. Taken' = NrSubbands - Len(Left(n + 1))
    BY <1>1, <1>4, <2>1 DEF Taken
  <2>3. Taken' = n + 1
    BY <1>1, <1>2, <2>2
  <2>. QED BY <1>1, <1>4, <1>6, <2>1, <2>3
<1>. QED BY <1>5, <1>6

\* What the next block does to the map.
LEMMA HandOverEffect ==
    ASSUME CalcTypeOK, MapInv, ParentHandsOver
    PROVE  /\ Taken' = Taken /\ level' = level + NrSubbands /\ blockNr' = blockNr + 1
           /\ DOMAIN itsData' = DOMAIN itsData \cup {blockNr} /\ itsData'[blockNr] = Left(0)
           /\ \A b \in DOMAIN itsData : itsData'[b] = itsData[b]
           /\ blockNr \notin DOMAIN itsData
           /\ UNCHANGED <<currentBlockNr, subbandReady, checking_completeness,
                          itsStopProcessing, task, calculated>>
<1>1. /\ NrSubbands \in Nat \ {0} /\ blockNr \in Nat /\ currentBlockNr \in 0..blockNr
      /\ DOMAIN itsData \subseteq currentBlockNr..(blockNr - 1)
  BY CalcNumbers DEF MapInv
<1>2. [i \in 1..NrSubbands |-> i - 1] = Left(0)
  BY <1>1 DEF Left
<1>3. /\ DOMAIN itsData' = DOMAIN itsData \cup {blockNr} /\ itsData'[blockNr] = Left(0)
      /\ \A b \in DOMAIN itsData : b # blockNr => itsData'[b] = itsData[b]
      /\ level' = level + NrSubbands /\ blockNr' = blockNr + 1
      /\ UNCHANGED <<currentBlockNr, subbandReady, checking_completeness,
                     itsStopProcessing, task, calculated>>
  BY <1>2 DEF ParentHandsOver, CalculateDataBlock, WithBlock
<1>4. blockNr \notin DOMAIN itsData
  BY <1>1
<1>5. Taken' = Taken
  <2>1. CASE currentBlockNr \in DOMAIN itsData
    BY <1>3, <1>4, <2>1 DEF Taken
  <2>2. CASE currentBlockNr \notin DOMAIN itsData /\ currentBlockNr < blockNr
    BY <1>1, <1>3, <2>2 DEF Taken
  <2>3. CASE currentBlockNr = blockNr
    <3>1. Taken = 0
      BY <1>1, <1>4, <2>3 DEF Taken
    <3>2. Taken' = NrSubbands - Len(Left(0))
      BY <1>3, <2>3 DEF Taken
    <3>. QED BY <1>1, <3>1, <3>2, LeftSeq
  <2>. QED BY <1>1, <2>1, <2>2, <2>3
<1>. QED BY <1>3, <1>4, <1>5

\* A block is complete when all of its subbands are done.
LEMMA CompleteEffect ==
    ASSUME CalcTypeOK, MapInv, TaskInv, AllReady
    PROVE  /\ Held = {} /\ Done = Subbands /\ Taken = NrSubbands
           /\ currentBlockNr < blockNr /\ currentBlockNr \notin DOMAIN itsData
<1>1. /\ NrSubbands \in Nat \ {0} /\ Taken \in 0..NrSubbands
      /\ NrSubbands - 1 \in Subbands
  BY CalcNumbers DEF Subbands
<1>2. Done = Subbands
  BY DEF AllReady, TaskInv, Done
<1>3. Taken = NrSubbands
  BY <1>1, <1>2 DEF TaskInv
<1>4. Held = {}
  BY <1>1 DEF TaskInv, AllReady, Subbands
<1>. QED BY <1>1, <1>2, <1>3, <1>4, CalcNumbers

-----------------------------------------------------------------------------
(* The map.                                                                      *)

LEMMA MapStep == ASSUME CalcTypeOK, MapInv, TaskInv, CheckInv, [CalcNext]_calcVars PROVE MapInv'
<1>. /\ NrSubbands \in Nat \ {0} /\ blockNr \in Nat /\ currentBlockNr \in 0..blockNr
     /\ level \in Nat /\ Taken \in 0..NrSubbands /\ tpc \in [CalcThreads -> ThreadPC]
  BY CalcNumbers DEF CalcTypeOK
<1>1. CASE QuietStep
  <2>1. Taken' = Taken
    BY <1>1 DEF QuietStep, Taken
  <2>. QED BY <1>1, <2>1 DEF QuietStep, MapInv
<1>2. ASSUME NEW t \in CalcThreads, TakeSubband(t) PROVE MapInv'
  <2>1. ~itsStopProcessing' => level' = (blockNr' - currentBlockNr') * NrSubbands' - Taken'
    BY <1>2, TakeEffect DEF MapInv
  <2>2. \A u \in CalcThreads : tpc'[u] # "undefined"
    BY <1>2, TakeEffect DEF MapInv
  <2>3. \A b \in (currentBlockNr + 1)..(blockNr - 1) :
          b \in DOMAIN itsData' /\ itsData'[b] = Left(0)
    BY <1>2, TakeEffect DEF MapInv
  <2>4. DOMAIN itsData' \subseteq currentBlockNr..(blockNr - 1)
    BY <1>2, TakeEffect DEF MapInv
  <2>5. currentBlockNr' \in DOMAIN itsData' =>
          Taken' \in 0..(NrSubbands - 1) /\ itsData'[currentBlockNr'] = Left(Taken')
    BY <1>2, TakeEffect
  <2>6. UNCHANGED <<currentBlockNr, blockNr>>
    BY <1>2, TakeEffect
  <2>. QED BY <2>1, <2>2, <2>3, <2>4, <2>5, <2>6 DEF MapInv, Left
<1>3. ASSUME NEW t \in CalcThreads, DataReady(t) \/ MarkReady(t) PROVE MapInv'
  <2>1. UNCHANGED <<level, itsData, currentBlockNr, itsStopProcessing, blockNr>>
    BY <1>3 DEF DataReady, MarkReady
  <2>2. \A u \in CalcThreads : tpc'[u] # "undefined"
    BY <1>3 DEF DataReady, MarkReady, ThreadGoto, MapInv
  <2>3. Taken' = Taken
    BY <2>1 DEF Taken
  <2>. QED BY <2>1, <2>2, <2>3 DEF MapInv, Left
<1>4. ASSUME NEW t \in CalcThreads, CompleteBlock(t) PROVE MapInv'
  <2>. CompleteAlone(t)
    BY <1>4, CompletesAlone
  <2>1. AllReady
    BY DEF CompleteAlone, ThreadGoto, CheckInv
  <2>2. Taken = NrSubbands /\ currentBlockNr < blockNr /\ currentBlockNr \notin DOMAIN itsData
    BY <2>1, CompleteEffect
  <2>3. /\ currentBlockNr' = currentBlockNr + 1
        /\ UNCHANGED <<level, itsData, itsStopProcessing, blockNr>>
    BY DEF CompleteAlone
  <2>4. DOMAIN itsData \subseteq (currentBlockNr + 1)..(blockNr - 1)
    BY <2>2 DEF MapInv
  <2>5. currentBlockNr + 1 < blockNr =>
          currentBlockNr + 1 \in DOMAIN itsData /\ itsData[currentBlockNr + 1] = Left(0)
    BY DEF MapInv
  <2>6. Taken' = 0
    <3>1. CASE currentBlockNr + 1 < blockNr
      <4>1. Taken' = NrSubbands - Len(Left(0))
        BY <2>3, <2>5, <3>1 DEF Taken
      <4>. QED BY <4>1, LeftSeq
    <3>2. CASE ~(currentBlockNr + 1 < blockNr)
      BY <2>3, <2>4, <3>2 DEF Taken
    <3>. QED BY <3>1, <3>2
  <2>7. ~itsStopProcessing' => level' = (blockNr' - currentBlockNr') * NrSubbands' - Taken'
    <3>1. ~itsStopProcessing => level = (blockNr - currentBlockNr) * NrSubbands - NrSubbands
      BY <2>2 DEF MapInv
    <3>2. (blockNr - (currentBlockNr + 1)) * NrSubbands
            = (blockNr - currentBlockNr) * NrSubbands - NrSubbands
      OBVIOUS
    <3>. QED BY <2>3, <2>6, <3>1, <3>2
  <2>8. \A u \in CalcThreads : tpc'[u] # "undefined"
    BY DEF CompleteAlone, ThreadGoto, MapInv
  <2>9. \A b \in (currentBlockNr' + 1)..(blockNr' - 1) :
          b \in DOMAIN itsData' /\ itsData'[b] = Left(0)
    BY <2>3 DEF MapInv
  <2>10. currentBlockNr' \in DOMAIN itsData' =>
           Taken' \in 0..(NrSubbands - 1) /\ itsData'[currentBlockNr'] = Left(Taken')
    BY <2>3, <2>4, <2>5, <2>6
  <2>. QED BY <2>2, <2>3, <2>4, <2>7, <2>8, <2>9, <2>10 DEF MapInv, Left
<1>5. CASE ParentHandsOver
  <2>1. ~itsStopProcessing' => level' = (blockNr' - currentBlockNr') * NrSubbands' - Taken'
    <3>1. ~itsStopProcessing => level = (blockNr - currentBlockNr) * NrSubbands - Taken
      BY DEF MapInv
    <3>2. (blockNr + 1 - currentBlockNr) * NrSubbands
            = (blockNr - currentBlockNr) * NrSubbands + NrSubbands
      OBVIOUS
    <3>. QED BY <1>5, <3>1, <3>2, HandOverEffect
  <2>2. \A u \in CalcThreads : tpc'[u] # "undefined"
    BY <1>5 DEF ParentHandsOver, CalculateDataBlock, Woken, MapInv
  <2>3. \A b \in (currentBlockNr + 1)..blockNr : b \in DOMAIN itsData' /\ itsData'[b] = Left(0)
    BY <1>5, HandOverEffect DEF MapInv
  <2>4. DOMAIN itsData' \subseteq currentBlockNr..blockNr
    BY <1>5, HandOverEffect DEF MapInv
  <2>5. currentBlockNr \in DOMAIN itsData' =>
          Taken' \in 0..(NrSubbands - 1) /\ itsData'[currentBlockNr] = Left(Taken')
    <3>1. CASE currentBlockNr \in DOMAIN itsData
      BY <1>5, <3>1, HandOverEffect DEF MapInv
    <3>2. CASE currentBlockNr \notin DOMAIN itsData
      <4>1. currentBlockNr \in DOMAIN itsData' => currentBlockNr = blockNr
        BY <1>5, <3>2, HandOverEffect
      <4>2. currentBlockNr = blockNr => Taken' = 0
        BY <1>5, <3>2, CalcNumbers, HandOverEffect
      <4>. QED BY <1>5, <4>1, <4>2, HandOverEffect
    <3>. QED BY <3>1, <3>2
  <2>6. currentBlockNr' = currentBlockNr /\ blockNr' = blockNr + 1
    BY <1>5, HandOverEffect
  <2>. QED BY <2>1, <2>2, <2>3, <2>4, <2>5, <2>6 DEF MapInv, Left
<1>6. CASE ParentStops
  <2>1. UNCHANGED <<itsData, currentBlockNr, blockNr>> /\ itsStopProcessing'
    BY <1>6 DEF ParentStops, Stop
  <2>2. \A u \in CalcThreads : tpc'[u] # "undefined"
    BY <1>6 DEF ParentStops, Stop, Woken, MapInv
  <2>3. Taken' = Taken
    BY <2>1 DEF Taken
  <2>. QED BY <2>1, <2>2, <2>3 DEF MapInv, Left
<1>. QED BY <1>1, <1>2, <1>3, <1>4, <1>5, <1>6, CalcSteps DEF WorkStep

-----------------------------------------------------------------------------
(* The tasks.                                                                    *)

\* What a result does to the set of those done.
LEMMA DoneGrows ==
    ASSUME CalcTypeOK, NEW t \in CalcThreads, DataReady(t), task[t][1] = currentBlockNr
    PROVE  Done' = Done \cup {task[t][2]} /\ task[t][2] \in Subbands
<1>1. /\ task[t] \in Blocks \X Subbands /\ calculated \in Seq(Blocks \X Subbands)
      /\ calculated' = Append(calculated, task[t]) /\ currentBlockNr' = currentBlockNr
  BY DEF CalcTypeOK, DataReady
<1>2. /\ Len(calculated') = Len(calculated) + 1 /\ Len(calculated) \in Nat
      /\ \A i \in 1..Len(calculated) : calculated'[i] = calculated[i]
      /\ calculated'[Len(calculated) + 1] = <<currentBlockNr, task[t][2]>>
  BY <1>1
<1>3. ASSUME NEW s \in Subbands
      PROVE  (\E i \in 1..Len(calculated') : calculated'[i] = <<currentBlockNr, s>>)
               <=> \/ \E i \in 1..Len(calculated) : calculated[i] = <<currentBlockNr, s>>
                   \/ s = task[t][2]
  <2>1. ASSUME NEW i \in 1..Len(calculated'), calculated'[i] = <<currentBlockNr, s>>,
               s # task[t][2]
        PROVE  \E j \in 1..Len(calculated) : calculated[j] = <<currentBlockNr, s>>
    <3>1. i # Len(calculated) + 1
      BY <1>2, <2>1
    <3>2. i \in 1..Len(calculated)
      BY <1>2, <2>1, <3>1
    <3>. QED BY <1>2, <2>1, <3>2
  <2>2. ASSUME NEW i \in 1..Len(calculated), calculated[i] = <<currentBlockNr, s>>
        PROVE  \E j \in 1..Len(calculated') : calculated'[j] = <<currentBlockNr, s>>
    <3>1. i \in 1..Len(calculated')
      BY <1>2
    <3>. QED BY <1>2, <2>2, <3>1
  <2>3. ASSUME s = task[t][2]
        PROVE  \E j \in 1..Len(calculated') : calculated'[j] = <<currentBlockNr, s>>
    <3>1. Len(calculated) + 1 \in 1..Len(calculated')
      BY <1>2
    <3>. QED BY <1>2, <2>3, <3>1
  <2>. QED BY <2>1, <2>2, <2>3
<1>. QED BY <1>1, <1>3 DEF Done

LEMMA TaskStep ==
    ASSUME CalcTypeOK, MapInv, TaskInv, CheckInv, ResultInv, [CalcNext]_calcVars
    PROVE  TaskInv'
<1>. /\ NrSubbands \in Nat \ {0} /\ Taken \in 0..NrSubbands
     /\ tpc \in [CalcThreads -> ThreadPC] /\ task \in [CalcThreads -> Blocks \X Subbands]
  BY CalcNumbers DEF CalcTypeOK
<1>1. CASE QuietStep
  <2>1. Taken' = Taken /\ Done' = Done
    BY <1>1 DEF QuietStep, Taken, Done
  <2>. QED BY <1>1, <2>1 DEF QuietStep, TaskInv
<1>2. ASSUME NEW t \in CalcThreads, TakeSubband(t) PROVE TaskInv'
  <2>1. /\ Taken' = Taken + 1 /\ Taken < NrSubbands
        /\ tpc[t] = "lock" /\ tpc' = [tpc EXCEPT ![t] = "calc"]
        /\ task' = [task EXCEPT ![t] = <<currentBlockNr, Taken>>]
        /\ currentBlockNr' = currentBlockNr /\ subbandReady' = subbandReady
        /\ calculated' = calculated
    BY <1>2, TakeEffect
  <2>2. Done' = Done /\ t \notin Held /\ Held' = Held \cup {t}
    BY <2>1 DEF Done, Held
  <2>3. Taken \notin Done /\ Taken \notin subbandReady
    BY DEF TaskInv
  <2>4. task'[t][1] = currentBlockNr /\ task'[t][2] = Taken /\ tpc'[t] = "calc"
    BY <2>1
  <2>5. \A u \in Held : task'[u] = task[u] /\ tpc'[u] = tpc[u] /\ task[u][2] \in 0..(Taken - 1)
    BY <2>1, <2>2 DEF Held, TaskInv
  <2>6. \A u \in Held' :
          /\ task'[u][1] = currentBlockNr /\ task'[u][2] \in 0..(Taken' - 1) \ subbandReady
          /\ tpc'[u] = "ready" <=> task'[u][2] \in Done
    BY <2>1, <2>2, <2>3, <2>4, <2>5 DEF TaskInv
  <2>7. \A u, v \in Held' : task'[u] = task'[v] => u = v
    BY <2>2, <2>4, <2>5 DEF TaskInv
  <2>8. ASSUME NEW s \in 0..(Taken' - 1)
        PROVE  s \in subbandReady \/ \E u \in Held' : task'[u][2] = s
    <3>1. CASE s = Taken
      BY <3>1, <2>2, <2>4
    <3>2. CASE s \in 0..(Taken - 1)
      BY <3>2, <2>2, <2>5 DEF TaskInv
    <3>. QED BY <2>1, <3>1, <3>2
  <2>9. subbandReady \subseteq Done /\ Done \subseteq 0..(Taken' - 1)
    BY <2>1 DEF TaskInv
  <2>. QED BY <2>1, <2>2, <2>6, <2>7, <2>8, <2>9 DEF TaskInv
<1>3. ASSUME NEW t \in CalcThreads, DataReady(t) PROVE TaskInv'
  <2>1. /\ tpc[t] = "calc" /\ tpc' = [tpc EXCEPT ![t] = "ready"]
        /\ UNCHANGED <<itsData, currentBlockNr, blockNr, subbandReady, task>>
    BY <1>3 DEF DataReady, ThreadGoto
  <2>2. Held' = Held /\ t \in Held /\ Taken' = Taken
    BY <2>1 DEF Held, Taken
  <2>3. Done' = Done \cup {task[t][2]}
    BY <1>3, <2>2, DoneGrows DEF TaskInv
  <2>4. \A u \in Held : u # t => task[u][2] # task[t][2]
    BY <2>2 DEF TaskInv, Held
  <2>5. \A u \in Held : tpc'[u] = "ready" <=> task[u][2] \in Done'
    BY <2>1, <2>2, <2>3, <2>4 DEF TaskInv, Held
  <2>6. Done' \subseteq 0..(Taken - 1) /\ subbandReady \subseteq Done'
    <3>1. task[t][2] \in 0..(Taken - 1)
      BY <2>2 DEF TaskInv
    <3>2. Done \subseteq 0..(Taken - 1) /\ subbandReady \subseteq Done
      BY DEF TaskInv
    <3>. QED BY <2>3, <3>1, <3>2, Zenon
  <2>. QED BY <2>1, <2>2, <2>5, <2>6 DEF TaskInv
<1>4. ASSUME NEW t \in CalcThreads, MarkReady(t) PROVE TaskInv'
  <2>1. /\ tpc[t] = "ready" /\ tpc' = [tpc EXCEPT ![t] = "check"]
        /\ subbandReady' = subbandReady \cup {task[t][2]}
        /\ UNCHANGED <<itsData, currentBlockNr, blockNr, task, calculated>>
    BY <1>4 DEF MarkReady, ThreadGoto
  <2>2. t \in Held /\ Held' = Held \ {t} /\ Taken' = Taken /\ Done' = Done
    BY <2>1 DEF Held, Taken, Done
  <2>3. \A u \in Held' : u \in Held /\ task[u][2] # task[t][2] /\ tpc'[u] = tpc[u]
    BY <2>1, <2>2 DEF TaskInv, Held
  <2>4. task[t][2] \in Done
    BY <2>1, <2>2 DEF TaskInv
  <2>5. \A s \in 0..(Taken - 1) : s \in subbandReady' \/ \E u \in Held' : task[u][2] = s
    BY <2>1, <2>2 DEF TaskInv
  <2>6. \A u \in Held' :
          /\ task[u][1] = currentBlockNr /\ task[u][2] \in 0..(Taken - 1) \ subbandReady'
          /\ tpc'[u] = "ready" <=> task[u][2] \in Done
    BY <2>1, <2>3 DEF TaskInv
  <2>7. \A u, v \in Held' : task[u] = task[v] => u = v
    BY <2>3 DEF TaskInv
  <2>8. subbandReady' \subseteq Done /\ Done \subseteq 0..(Taken - 1)
    BY <2>1, <2>4 DEF TaskInv
  <2>. QED BY <2>1, <2>2, <2>5, <2>6, <2>7, <2>8 DEF TaskInv
<1>5. ASSUME NEW t \in CalcThreads, CompleteBlock(t) PROVE TaskInv'
  <2>. CompleteAlone(t)
    BY <1>5, CompletesAlone
  <2>1. AllReady
    BY DEF CompleteAlone, ThreadGoto, CheckInv
  <2>2. Held = {} /\ currentBlockNr' = currentBlockNr + 1 /\ subbandReady' = {}
        /\ calculated' = calculated
    BY <2>1, CompleteEffect DEF CompleteAlone
  <2>3. Held' = {}
    BY <2>2 DEF Held, CompleteAlone, ThreadGoto
  <2>4. Done' = {}
    <3>1. \A i \in 1..Len(calculated) : calculated[i][1] # currentBlockNr + 1
      BY CalcNumbers DEF ResultInv, CalcTypeOK
    <3>. QED BY <2>2, <3>1 DEF Done
  <2>5. Taken' = 0
    <3>2. currentBlockNr \notin DOMAIN itsData /\ blockNr' = blockNr /\ itsData' = itsData
      BY <2>1, CompleteEffect DEF CompleteAlone
    <3>3. currentBlockNr' \in DOMAIN itsData' => itsData'[currentBlockNr'] = Left(0)
      BY <2>2, <3>2, CalcNumbers DEF MapInv
    <3>4. currentBlockNr' \notin DOMAIN itsData' => ~(currentBlockNr' < blockNr')
      BY <2>2, <3>2, CalcNumbers DEF MapInv
    <3>5. Len(Left(0)) = NrSubbands
      BY LeftSeq
    <3>6. CASE currentBlockNr' \in DOMAIN itsData'
      <4>1. Taken' = NrSubbands - Len(Left(0))
        BY <3>3, <3>6 DEF Taken
      <4>. QED BY <3>5, <4>1
    <3>7. CASE currentBlockNr' \notin DOMAIN itsData'
      BY <3>4, <3>7 DEF Taken
    <3>. QED BY <3>6, <3>7
  <2>. QED BY <2>2, <2>3, <2>4, <2>5 DEF TaskInv
<1>6. CASE ParentHandsOver
  <2>1. Taken' = Taken /\ UNCHANGED <<currentBlockNr, subbandReady, task, calculated>>
    BY <1>6, HandOverEffect
  <2>2. Held' = Held /\ Done' = Done /\ \A t \in Held : tpc'[t] = tpc[t]
    BY <1>6, <2>1 DEF ParentHandsOver, CalculateDataBlock, Woken, Held, Done
  <2>. QED BY <2>1, <2>2 DEF TaskInv
<1>7. CASE ParentStops
  <2>1. Taken' = Taken /\ UNCHANGED <<currentBlockNr, subbandReady, task, calculated>>
    BY <1>7 DEF ParentStops, Stop, Taken
  <2>2. Held' = Held /\ Done' = Done /\ \A t \in Held : tpc'[t] = tpc[t]
    BY <1>7, <2>1 DEF ParentStops, Stop, Woken, Held, Done
  <2>. QED BY <2>1, <2>2 DEF TaskInv
<1>. QED BY <1>1, <1>2, <1>3, <1>4, <1>5, <1>6, <1>7, CalcSteps DEF WorkStep

-----------------------------------------------------------------------------
(* The check of the flags.                                                       *)

LEMMA CheckStep ==
    ASSUME CalcTypeOK, CheckInv, [CalcNext]_calcVars, ~overlapped' PROVE CheckInv'
<1>. USE DEF CheckInv, Checking, AllReady, ThreadGoto
<1>. tpc \in [CalcThreads -> ThreadPC] /\ checking_completeness \in BOOLEAN
  BY DEF CalcTypeOK
<1>1. ASSUME NEW t \in CalcThreads, ThreadLoop(t) PROVE CheckInv'
  BY <1>1 DEF ThreadLoop
<1>2. ASSUME NEW t \in CalcThreads, WaitForData(t) PROVE CheckInv'
  BY <1>2 DEF WaitForData
<1>3. ASSUME NEW t \in CalcThreads, SpuriousWakeup(t) PROVE CheckInv'
  BY <1>3 DEF SpuriousWakeup
<1>4. ASSUME NEW t \in CalcThreads, TakeSubband(t) PROVE CheckInv'
  <2>1. PICK to \in {"calc", "undefined"} : tpc' = [tpc EXCEPT ![t] = to]
    BY <1>4 DEF TakeSubband
  <2>2. tpc[t] = "lock" /\ UNCHANGED <<checking_completeness, subbandReady>>
    BY <1>4 DEF TakeSubband
  <2>. QED BY <2>1, <2>2
<1>5. ASSUME NEW t \in CalcThreads, ThreadReturns(t) PROVE CheckInv'
  BY <1>5 DEF ThreadReturns
<1>6. ASSUME NEW t \in CalcThreads, DataReady(t) PROVE CheckInv'
  BY <1>6 DEF DataReady
<1>7. ASSUME NEW t \in CalcThreads, MarkReady(t) PROVE CheckInv'
  BY <1>7 DEF MarkReady
<1>8. ASSUME NEW t \in CalcThreads, TestChecking(t) PROVE CheckInv'
  <2>1. Checking = {}
    BY <1>8 DEF TestChecking, Claiming
  <2>. QED BY <1>8, <2>1 DEF TestChecking
<1>9. ASSUME NEW t \in CalcThreads, ClaimChecking(t) PROVE CheckInv'
  BY <1>9 DEF ClaimChecking
<1>10. ASSUME NEW t \in CalcThreads, ScanReady(t) \/ ScanTorn(t) PROVE CheckInv'
  BY <1>10 DEF ScanReady, ScanTorn
<1>11. ASSUME NEW t \in CalcThreads, NotComplete(t) PROVE CheckInv'
  BY <1>11 DEF NotComplete
<1>12. ASSUME NEW t \in CalcThreads, CompleteBlock(t) PROVE CheckInv'
  <2>1. CompleteAlone(t)
    BY <1>12, CompletesAlone
  <2>2. Checking' = {} /\ \A u \in CalcThreads : tpc'[u] \notin {"complete", "torn", "late"}
    BY <2>1 DEF CompleteAlone
  <2>. QED BY <2>2
<1>13. CASE ParentHandsOver
  BY <1>13 DEF ParentHandsOver, CalculateDataBlock, Woken
<1>14. CASE ParentStops
  BY <1>14 DEF ParentStops, Stop, Woken
<1>15. CASE UNCHANGED calcVars
  BY <1>15 DEF calcVars
<1>. QED BY <1>1, <1>2, <1>3, <1>4, <1>5, <1>6, <1>7, <1>8, <1>9, <1>10, <1>11, <1>12,
     <1>13, <1>14, <1>15 DEF CalcNext, ThreadStep, PrivateStep

\* The last flag is set by a thread that goes on to look at them all.
LEMMA ReadyStep == ASSUME CalcTypeOK, ReadyInv, CheckInv, [CalcNext]_calcVars PROVE ReadyInv'
<1>. USE DEF ReadyInv, ThreadGoto
<1>. DEFINE Looks == {"check", "claim", "scan", "complete"}
<1>. tpc \in [CalcThreads -> ThreadPC]
  BY DEF CalcTypeOK
<1>1. ASSUME subbandReady' = subbandReady,
             \A t \in CalcThreads : tpc[t] \in Looks => tpc'[t] \in Looks
      PROVE  ReadyInv'
  BY <1>1 DEF AllReady
<1>2. ASSUME NEW t \in CalcThreads, MarkReady(t) PROVE ReadyInv'
  BY <1>2 DEF MarkReady
<1>3. ASSUME NEW t \in CalcThreads, ScanReady(t) PROVE ReadyInv'
  <2>1. CASE AllReady
    BY <1>3, <2>1 DEF ScanReady
  <2>2. CASE ~AllReady
    BY <1>3, <2>2 DEF ScanReady, AllReady
  <2>. QED BY <2>1, <2>2
<1>4. ASSUME NEW t \in CalcThreads, CompleteBlock(t) PROVE ReadyInv'
  <2>1. 0 \in Subbands
    BY BlocksAssumption DEF Subbands
  <2>2. CompleteAlone(t)
    BY <1>4, CompletesAlone
  <2>. QED BY <2>1, <2>2 DEF CompleteAlone, AllReady
<1>5. ASSUME NEW t \in CalcThreads, TakeSubband(t) PROVE ReadyInv'
  <2>1. PICK to \in {"calc", "undefined"} : tpc' = [tpc EXCEPT ![t] = to]
    BY <1>5 DEF TakeSubband
  <2>2. tpc[t] = "lock" /\ subbandReady' = subbandReady
    BY <1>5 DEF TakeSubband
  <2>. QED BY <1>1, <2>1, <2>2
<1>6. ASSUME NEW t \in CalcThreads, DataReady(t) PROVE ReadyInv'
  BY <1>1, <1>6 DEF DataReady
<1>7. ASSUME NEW t \in CalcThreads,
             \/ ThreadLoop(t) \/ WaitForData(t) \/ SpuriousWakeup(t) \/ ThreadReturns(t)
             \/ TestChecking(t) \/ ClaimChecking(t) \/ ScanTorn(t) \/ NotComplete(t)
      PROVE  ReadyInv'
  BY <1>1, <1>7 DEF ThreadLoop, WaitForData, SpuriousWakeup, ThreadReturns, TestChecking,
     ClaimChecking, ScanTorn, NotComplete
<1>8. CASE ParentHandsOver
  BY <1>1, <1>8 DEF ParentHandsOver, CalculateDataBlock, Woken
<1>9. CASE ParentStops
  BY <1>1, <1>9 DEF ParentStops, Stop, Woken
<1>10. CASE UNCHANGED calcVars
  BY <1>1, <1>10 DEF calcVars
<1>. QED BY <1>2, <1>3, <1>4, <1>5, <1>6, <1>7, <1>8, <1>9, <1>10
     DEF CalcNext, ThreadStep, PrivateStep

\* The last thread does not return while the calculator has work to do.
LEMMA LeftStep ==
    ASSUME CalcTypeOK, InOrderInv, [CalcNext]_calcVars, ~overlapped' PROVE SomeThreadLeft'
<1>. USE DEF SomeThreadLeft, ThreadGoto
<1>. /\ tpc \in [CalcThreads -> ThreadPC] /\ ~overlapped
     /\ MapInv /\ TaskInv /\ CheckInv /\ ReadyInv /\ SomeThreadLeft
  BY OverlapStays DEF CalcTypeOK, InOrderInv
<1>1. ASSUME itsStopProcessing' = itsStopProcessing,
             \A t \in CalcThreads : tpc'[t] = "ended" => tpc[t] = "ended"
      PROVE  SomeThreadLeft'
  BY <1>1
<1>2. ASSUME NEW t \in CalcThreads, ThreadReturns(t) PROVE SomeThreadLeft'
  <2>. SUFFICES ASSUME ~itsStopProcessing,
                       \A u \in CalcThreads : u # t => tpc[u] = "ended"
                PROVE  FALSE
    BY <1>2 DEF ThreadReturns
  <2>1. /\ level > 0 /\ currentBlockNr \notin DOMAIN itsData /\ tpc[t] = "lock"
        /\ level = (blockNr - currentBlockNr) * NrSubbands - Taken
    BY <1>2 DEF ThreadReturns, MapInv
  <2>2. Held = {} /\ \A u \in CalcThreads : tpc[u] \in {"lock", "ended"}
    BY <2>1 DEF Held
  <2>3. currentBlockNr < blockNr /\ Taken = NrSubbands
    BY <2>1, CalcNumbers
  <2>4. AllReady
    BY <2>2, <2>3 DEF TaskInv, AllReady, Subbands
  <2>. QED BY <2>2, <2>4 DEF ReadyInv
<1>3. ASSUME NEW t \in CalcThreads, ThreadLoop(t) PROVE SomeThreadLeft'
  <2>1. CASE itsStopProcessing
    BY <1>3, <2>1 DEF ThreadLoop
  <2>2. CASE ~itsStopProcessing
    BY <1>1, <1>3, <2>2 DEF ThreadLoop
  <2>. QED BY <2>1, <2>2
<1>4. ASSUME NEW t \in CalcThreads, TakeSubband(t) PROVE SomeThreadLeft'
  <2>1. PICK to \in {"calc", "undefined"} : tpc' = [tpc EXCEPT ![t] = to]
    BY <1>4 DEF TakeSubband
  <2>2. itsStopProcessing' = itsStopProcessing
    BY <1>4 DEF TakeSubband
  <2>. QED BY <1>1, <2>1, <2>2
<1>5. ASSUME NEW t \in CalcThreads,
             \/ WaitForData(t) \/ SpuriousWakeup(t) \/ DataReady(t) \/ MarkReady(t)
             \/ TestChecking(t) \/ ClaimChecking(t) \/ ScanTorn(t) \/ NotComplete(t)
      PROVE  SomeThreadLeft'
  BY <1>1, <1>5 DEF WaitForData, SpuriousWakeup, DataReady, MarkReady, TestChecking,
     ClaimChecking, ScanTorn, NotComplete
<1>6. ASSUME NEW t \in CalcThreads, ScanReady(t) \/ CompleteBlock(t) PROVE SomeThreadLeft'
  BY <1>1, <1>6, CompletesAlone DEF ScanReady, CompleteAlone, CompleteBlock
<1>7. CASE ParentHandsOver
  BY <1>1, <1>7 DEF ParentHandsOver, CalculateDataBlock, Woken
<1>8. CASE ParentStops
  BY <1>8 DEF ParentStops, Stop
<1>9. CASE UNCHANGED calcVars
  BY <1>1, <1>9 DEF calcVars
<1>. QED BY <1>2, <1>3, <1>4, <1>5, <1>6, <1>7, <1>8, <1>9
     DEF CalcNext, ThreadStep, PrivateStep

-----------------------------------------------------------------------------
(* The results.                                                                  *)

LEMMA ResultStep ==
    ASSUME CalcTypeOK, MapInv, TaskInv, CheckInv, ResultInv, [CalcNext]_calcVars
    PROVE  ResultInv'
<1>. /\ NrSubbands \in Nat \ {0} /\ currentBlockNr \in Nat
     /\ calculated \in Seq(Blocks \X Subbands) /\ Len(calculated) \in Nat
  BY CalcNumbers DEF CalcTypeOK
<1>0. IsFiniteSet(Subbands) /\ Cardinality(Subbands) = NrSubbands
  BY FS_Interval DEF Subbands
<1>10. IsFiniteSet(Done) /\ Cardinality(Done) \in Nat
  <2>1. Done \in SUBSET Subbands
    BY DEF Done
  <2>. QED BY <1>0, <2>1, FS_Subset, FS_CardinalityType
<1>1. ASSUME UNCHANGED <<currentBlockNr, calculated>> PROVE ResultInv'
  BY <1>1 DEF ResultInv, Ordered, Done
<1>2. ASSUME NEW t \in CalcThreads, DataReady(t) PROVE ResultInv'
  <2>1. /\ t \in Held /\ task[t] = <<currentBlockNr, task[t][2]>>
        /\ calculated' = Append(calculated, task[t]) /\ currentBlockNr' = currentBlockNr
        /\ task[t] \in Blocks \X Subbands
    BY <1>2 DEF DataReady, ThreadGoto, Held, TaskInv, CalcTypeOK
  <2>2. task[t][2] \notin Done /\ task[t][2] \in Subbands
    BY <1>2, <2>1 DEF DataReady, ThreadGoto, TaskInv
  <2>3. Done' = Done \cup {task[t][2]}
    BY <1>2, <2>1, DoneGrows DEF TaskInv
  <2>4. Cardinality(Done') = Cardinality(Done) + 1 /\ Cardinality(Done) < NrSubbands
    <3>1. /\ IsFiniteSet(Done \cup {task[t][2]})
          /\ Cardinality(Done \cup {task[t][2]}) = Cardinality(Done) + 1
      BY <1>10, <2>2, FS_AddElement
    <3>2. Done \cup {task[t][2]} \in SUBSET Subbands
      BY <2>2 DEF Done
    <3>3. Cardinality(Done \cup {task[t][2]}) <= NrSubbands
      BY <1>0, <3>2, FS_Subset
    <3>. QED BY <2>3, <3>1, <3>3, <1>10
  <2>5. /\ Len(calculated') = Len(calculated) + 1
        /\ \A i \in 1..Len(calculated) : calculated'[i] = calculated[i]
        /\ calculated'[Len(calculated) + 1] = task[t]
    BY <2>1
  <2>6. Len(calculated) = currentBlockNr * NrSubbands + Cardinality(Done)
    BY DEF ResultInv
  <2>7. Len(calculated) \div NrSubbands = currentBlockNr
    <3>1. Cardinality(Done) \in 0..(NrSubbands - 1)
      BY <1>10, <2>4
    <3>. QED BY <2>6, <3>1, DivOf
  <2>8. \A i \in 1..Len(calculated') :
          \/ i \in 1..Len(calculated) /\ calculated'[i] = calculated[i]
          \/ i = Len(calculated) + 1 /\ calculated'[i] = task[t]
    BY <2>5
  <2>9. ASSUME NEW i \in 1..Len(calculated')
        PROVE  calculated'[i][1] = (i - 1) \div NrSubbands /\ calculated'[i][1] <= currentBlockNr
    <3>1. CASE i \in 1..Len(calculated) /\ calculated'[i] = calculated[i]
      BY <3>1 DEF ResultInv, Ordered
    <3>2. CASE i = Len(calculated) + 1 /\ calculated'[i] = task[t]
      <4>1. i - 1 = Len(calculated) /\ calculated'[i][1] = currentBlockNr
        BY <3>2, <2>1
      <4>. QED BY <2>7, <4>1
    <3>. QED BY <2>8, <3>1, <3>2
  <2>10. Ordered'
    <3>1. currentBlockNr * NrSubbands <= Len(calculated)
      BY DEF ResultInv, Ordered
    <3>2. currentBlockNr * NrSubbands \in Int
      OBVIOUS
    <3>. QED BY <2>1, <2>5, <2>9, <3>1, <3>2 DEF Ordered
  <2>11. Len(calculated') = currentBlockNr' * NrSubbands + Cardinality(Done')
    <3>1. currentBlockNr * NrSubbands \in Int
      OBVIOUS
    <3>. QED BY <1>10, <2>1, <2>4, <2>5, <2>6, <3>1
  <2>. QED BY <2>1, <2>9, <2>10, <2>11 DEF ResultInv
<1>3. ASSUME NEW t \in CalcThreads, CompleteBlock(t) PROVE ResultInv'
  <2>. CompleteAlone(t)
    BY <1>3, CompletesAlone
  <2>1. AllReady
    BY DEF CompleteAlone, ThreadGoto, CheckInv
  <2>2. Done = Subbands /\ currentBlockNr' = currentBlockNr + 1 /\ calculated' = calculated
    BY <2>1, CompleteEffect DEF CompleteAlone
  <2>3. \A i \in 1..Len(calculated) : calculated[i][1] \in Nat /\ calculated[i][1] <= currentBlockNr
    BY DEF ResultInv, Blocks
  <2>4. Done' = {}
    BY <2>2, <2>3 DEF Done
  <2>5. Len(calculated) = (currentBlockNr + 1) * NrSubbands
    <3>1. (currentBlockNr + 1) * NrSubbands = currentBlockNr * NrSubbands + NrSubbands
      OBVIOUS
    <3>2. Len(calculated) = currentBlockNr * NrSubbands + Cardinality(Done)
      BY DEF ResultInv
    <3>. QED BY <1>0, <2>2, <3>1, <3>2
  <2>6. Len(calculated') = currentBlockNr' * NrSubbands + Cardinality(Done')
    <3>1. Cardinality(Done') = 0
      BY <2>4, FS_EmptySet
    <3>2. (currentBlockNr + 1) * NrSubbands \in Int
      OBVIOUS
    <3>. QED BY <2>2, <2>5, <3>1, <3>2
  <2>7. Ordered'
    BY <2>2, <2>5 DEF ResultInv, Ordered
  <2>8. \A i \in 1..Len(calculated') : calculated'[i][1] <= currentBlockNr'
    BY <2>2, <2>3
  <2>. QED BY <2>6, <2>7, <2>8 DEF ResultInv
<1>4. CASE QuietStep
  BY <1>1, <1>4 DEF QuietStep
<1>5. ASSUME NEW t \in CalcThreads, TakeSubband(t) \/ MarkReady(t) PROVE ResultInv'
  BY <1>1, <1>5 DEF TakeSubband, MarkReady
<1>6. CASE ParentHandsOver \/ ParentStops
  BY <1>1, <1>6 DEF ParentHandsOver, CalculateDataBlock, ParentStops, Stop
<1>. QED BY <1>2, <1>3, <1>4, <1>5, <1>6, CalcSteps DEF WorkStep

-----------------------------------------------------------------------------
(* Where the subbands are, also when two threads are past the test.              *)

\* Without its head a deque of different subbands is one still.
LEMMA InjectiveTail ==
    ASSUME NEW S, NEW q \in Seq(S), q # <<>>, IsInjective(q)
    PROVE  /\ IsInjective(Tail(q)) /\ Head(q) \in Range(q)
           /\ Range(Tail(q)) \subseteq Range(q) \ {Head(q)}
<1>1. /\ Len(q) \in Nat \ {0} /\ DOMAIN q = 1..Len(q) /\ Head(q) = q[1]
      /\ Tail(q) \in Seq(S) /\ Len(Tail(q)) = Len(q) - 1
      /\ \A i \in 1..(Len(q) - 1) : Tail(q)[i] = q[i + 1]
  BY HeadTailProperties, EmptySeq
<1>2. DOMAIN Tail(q) = 1..(Len(q) - 1) /\ 1 \in DOMAIN q
  BY <1>1
<1>3. \A i \in DOMAIN Tail(q) : i + 1 \in DOMAIN q /\ i + 1 # 1 /\ Tail(q)[i] = q[i + 1]
  BY <1>1, <1>2
<1>4. \A i, j \in DOMAIN Tail(q) : i + 1 = j + 1 => i = j
  BY <1>2
<1>. QED BY <1>1, <1>2, <1>3, <1>4 DEF IsInjective, Range

\* No step but taking a subband and handing in a result moves one.
LEMMA PlaceKept ==
    ASSUME CalcTypeOK, PlaceInv, blockNr' \in Int, blockNr <= blockNr',
           \A b \in DOMAIN itsData' : b < blockNr' /\ IsInjective(itsData'[b]),
           \A b \in Blocks, s \in Subbands :
             b < blockNr /\ InDeque(b, s)' => InDeque(b, s),
           Calculating' \subseteq Calculating, task' = task, calculated' = calculated
    PROVE  PlaceInv'
<1>. blockNr \in Int /\ \A b \in Blocks : b \in Int
  BY DEF CalcTypeOK, Blocks
<1>1. \A t \in Calculating : task[t] \in Blocks \X Subbands
  BY DEF CalcTypeOK, Calculating
<1>2. \A i \in 1..Len(calculated) : calculated[i] \in Blocks \X Subbands
  BY DEF CalcTypeOK
<1>3. \A t \in Calculating' :
        /\ task[t][1] < blockNr'
        /\ ~InDeque(task[t][1], task[t][2])' /\ task[t] \notin Range(calculated)
  BY <1>1 DEF PlaceInv
<1>4. \A t, u \in Calculating' : task[t] = task[u] => t = u
  BY DEF PlaceInv
<1>5. \A i \in 1..Len(calculated) :
        calculated[i][1] < blockNr' /\ ~InDeque(calculated[i][1], calculated[i][2])'
  BY <1>2 DEF PlaceInv
<1>. QED BY <1>3, <1>4, <1>5 DEF PlaceInv, CalculatedOnce, InDeque, Range

LEMMA PlaceStep == ASSUME CalcTypeOK, PlaceInv, [CalcNext]_calcVars PROVE PlaceInv'
<1>. /\ blockNr \in Int /\ tpc \in [CalcThreads -> ThreadPC]
     /\ calculated \in Seq(Blocks \X Subbands) /\ task \in [CalcThreads -> Blocks \X Subbands]
     /\ DOMAIN itsData \subseteq Blocks
     /\ \A b \in DOMAIN itsData : itsData[b] \in Seq(Subbands)
     /\ \A b \in Blocks : b \in Int
  BY DEF CalcTypeOK, Blocks
<1>1. ASSUME Calculating' \subseteq Calculating, UNCHANGED <<itsData, blockNr, task, calculated>>
      PROVE  PlaceInv'
  BY <1>1, PlaceKept DEF InDeque, PlaceInv
<1>2. ASSUME NEW t \in CalcThreads, TakeSubband(t) PROVE PlaceInv'
  <2>1. CASE itsData[currentBlockNr] = <<>>
    BY <1>1, <1>2, <2>1 DEF TakeSubband, ThreadGoto, Calculating
  <2>2. CASE itsData[currentBlockNr] # <<>>
    <3>. DEFINE c == currentBlockNr
                h == Head(itsData[c])
                InNext(b, s) == b \in DOMAIN itsData' /\ s \in Range(itsData'[b])
    <3>1. /\ c \in DOMAIN itsData /\ tpc[t] = "lock" /\ tpc' = [tpc EXCEPT ![t] = "calc"]
          /\ task' = [task EXCEPT ![t] = <<c, h>>]
          /\ UNCHANGED <<blockNr, calculated>>
      BY <1>2, <2>2 DEF TakeSubband, ThreadGoto
    <3>2. /\ DOMAIN itsData' \subseteq DOMAIN itsData
          /\ \A b \in DOMAIN itsData' :
               itsData'[b] = IF b = c THEN Tail(itsData[c]) ELSE itsData[b]
      BY <1>2, <2>2, <3>1 DEF TakeSubband, Restrict
    <3>3. /\ c < blockNr /\ IsInjective(Tail(itsData[c])) /\ h \in Range(itsData[c])
          /\ Range(Tail(itsData[c])) \subseteq Range(itsData[c]) \ {h}
      BY <2>2, <3>1, InjectiveTail DEF PlaceInv
    <3>4. \A b \in DOMAIN itsData' : b < blockNr /\ IsInjective(itsData'[b])
      BY <3>2, <3>3 DEF PlaceInv
    <3>5. /\ \A b, s : InNext(b, s) => InDeque(b, s)
          /\ ~InNext(c, h) /\ InDeque(c, h)
      <4>1. ASSUME NEW b, NEW s, b \in DOMAIN itsData', s \in Range(itsData'[b])
            PROVE  b \in DOMAIN itsData /\ s \in Range(itsData[b])
        <5>1. CASE b = c
          <6>1. itsData'[b] = Tail(itsData[c])
            BY <3>2, <4>1, <5>1
          <6>2. s \in Range(Tail(itsData[c]))
            BY <4>1, <6>1
          <6>. QED BY <3>1, <3>3, <5>1, <6>2
        <5>2. CASE b # c
          <6>1. itsData'[b] = itsData[b]
            BY <3>2, <4>1, <5>2
          <6>. QED BY <3>2, <4>1, <6>1
        <5>. QED BY <5>1, <5>2
      <4>2. c \in DOMAIN itsData' => h \notin Range(itsData'[c])
        <5>1. c \in DOMAIN itsData' => itsData'[c] = Tail(itsData[c])
          BY <3>2
        <5>2. h \notin Range(Tail(itsData[c]))
          BY <3>3
        <5>. QED BY <5>1, <5>2
      <4>. QED BY <3>1, <3>3, <4>1, <4>2 DEF InDeque
    <3>6. /\ Calculating' = Calculating \cup {t} /\ t \notin Calculating
          /\ task'[t] = <<c, h>> /\ \A u \in Calculating : task'[u] = task[u]
      BY <3>1 DEF Calculating
    <3>7. <<c, h>> \notin Range(calculated)
      <4>1. DOMAIN calculated = 1..Len(calculated)
        OBVIOUS
      <4>2. \A i \in 1..Len(calculated) : calculated[i] # <<c, h>>
        BY <3>5 DEF PlaceInv
      <4>. QED BY <4>1, <4>2 DEF Range
    <3>8. \A u \in Calculating : task[u] # <<c, h>>
      BY <3>5 DEF PlaceInv
    <3>9. ASSUME NEW u \in Calculating'
          PROVE  /\ task'[u][1] < blockNr
                 /\ ~InNext(task'[u][1], task'[u][2]) /\ task'[u] \notin Range(calculated)
      <4>1. CASE u = t
        <5>1. task'[u] = <<c, h>>
          BY <3>6, <4>1
        <5>. QED BY <3>3, <3>5, <3>7, <5>1
      <4>2. CASE u # t
        <5>1. u \in Calculating /\ task'[u] = task[u]
          BY <3>6, <4>2
        <5>2. /\ task[u][1] < blockNr
              /\ ~InDeque(task[u][1], task[u][2]) /\ task[u] \notin Range(calculated)
          BY <5>1 DEF PlaceInv
        <5>. QED BY <3>5, <5>1, <5>2
      <4>. QED BY <4>1, <4>2
    <3>10. \A u, v \in Calculating' : task'[u] = task'[v] => u = v
      <4>1. \A u, v \in Calculating : task[u] = task[v] => u = v
        BY DEF PlaceInv
      <4>. HIDE DEF c, h, InNext
      <4>. QED BY <3>6, <3>8, <4>1
    <3>11. \A i \in 1..Len(calculated) :
             calculated[i][1] < blockNr /\ ~InNext(calculated[i][1], calculated[i][2])
      BY <3>5 DEF PlaceInv
    <3>12. CalculatedOnce' /\ calculated' = calculated /\ blockNr' = blockNr
      BY <3>1 DEF PlaceInv, CalculatedOnce
    <3>13. (\A u \in Calculating :
              /\ task[u][1] < blockNr
              /\ ~InDeque(task[u][1], task[u][2]) /\ task[u] \notin Range(calculated))'
      <4>1. \A u \in Calculating' :
              /\ task'[u][1] < blockNr'
              /\ ~InNext(task'[u][1], task'[u][2]) /\ task'[u] \notin Range(calculated')
        BY <3>9, <3>12
      <4>. QED BY <4>1, Zenon DEF InDeque
    <3>14. (\A i \in 1..Len(calculated) :
              calculated[i][1] < blockNr /\ ~InDeque(calculated[i][1], calculated[i][2]))'
      BY <3>11, <3>12 DEF InDeque
    <3>. QED BY <3>4, <3>10, <3>12, <3>13, <3>14 DEF PlaceInv
  <2>. QED BY <2>1, <2>2
<1>3. ASSUME NEW t \in CalcThreads, DataReady(t) PROVE PlaceInv'
  <2>1. /\ calculated' = Append(calculated, task[t]) /\ task[t] \in Blocks \X Subbands
        /\ UNCHANGED <<itsData, blockNr, task>>
        /\ t \in Calculating /\ Calculating' = Calculating \ {t}
    BY <1>3 DEF DataReady, ThreadGoto, Calculating
  <2>2. \A i \in 1..Len(calculated') :
          \/ i \in 1..Len(calculated) /\ calculated'[i] = calculated[i]
          \/ i = Len(calculated) + 1 /\ calculated'[i] = task[t]
    BY <2>1
  <2>3. \A i \in 1..Len(calculated) : calculated[i] # task[t]
    BY <2>1 DEF PlaceInv, Range
  <2>4. CalculatedOnce'
    BY <2>2, <2>3 DEF PlaceInv, CalculatedOnce
  <2>5. \A i \in 1..Len(calculated') :
          calculated'[i][1] < blockNr /\ ~InDeque(calculated'[i][1], calculated'[i][2])
    BY <2>1, <2>2 DEF PlaceInv
  <2>6. DOMAIN calculated' = 1..Len(calculated') /\ DOMAIN calculated = 1..Len(calculated)
    BY <2>1
  <2>7. \A u \in Calculating' : task[u] \notin Range(calculated')
    BY <2>1, <2>2, <2>6 DEF PlaceInv, Range
  <2>. QED BY <2>1, <2>4, <2>5, <2>7 DEF PlaceInv, InDeque
<1>4. ASSUME NEW t \in CalcThreads, CompleteBlock(t) PROVE PlaceInv'
  BY <1>1, <1>4 DEF CompleteBlock, Overtaken, Calculating
<1>5. ASSUME NEW t \in CalcThreads,
             \/ ThreadLoop(t) \/ WaitForData(t) \/ SpuriousWakeup(t) \/ ThreadReturns(t)
             \/ MarkReady(t) \/ TestChecking(t) \/ ClaimChecking(t) \/ ScanReady(t)
             \/ ScanTorn(t) \/ NotComplete(t)
      PROVE  PlaceInv'
  BY <1>1, <1>5 DEF ThreadLoop, WaitForData, SpuriousWakeup, ThreadReturns, MarkReady,
     TestChecking, ClaimChecking, ScanReady, ScanTorn, NotComplete, ThreadGoto, Calculating
<1>6. CASE ParentHandsOver
  <2>. DEFINE new == [i \in 1..NrSubbands |-> i - 1]
  <2>1. /\ itsData' = WithBlock(blockNr, new) /\ blockNr' = blockNr + 1
        /\ Calculating' = Calculating /\ UNCHANGED <<task, calculated>>
    BY <1>6 DEF ParentHandsOver, CalculateDataBlock, Woken, Calculating
  <2>2. IsInjective(new)
    BY BlocksAssumption DEF IsInjective
  <2>3. \A b \in DOMAIN itsData' :
          \/ b = blockNr /\ itsData'[b] = new
          \/ b \in DOMAIN itsData /\ itsData'[b] = itsData[b]
    BY <2>1 DEF WithBlock
  <2>4. \A b \in DOMAIN itsData' : b < blockNr' /\ IsInjective(itsData'[b])
    BY <2>1, <2>2, <2>3 DEF PlaceInv
  <2>5. \A b \in Blocks, s \in Subbands : b < blockNr /\ InDeque(b, s)' => InDeque(b, s)
    BY <2>3 DEF InDeque
  <2>. QED BY <2>1, <2>4, <2>5, PlaceKept
<1>7. CASE ParentStops
  BY <1>1, <1>7 DEF ParentStops, Stop, Woken, Calculating
<1>8. CASE UNCHANGED calcVars
  BY <1>1, <1>8 DEF calcVars, Calculating
<1>. QED BY <1>2, <1>3, <1>4, <1>5, <1>6, <1>7, <1>8 DEF CalcNext, ThreadStep, PrivateStep

-----------------------------------------------------------------------------
(* The order, as long as no two threads are past the test.                       *)

LEMMA InOrderStep ==
    ASSUME CalcTypeOK, InOrderInv, [CalcNext]_calcVars, ~overlapped' PROVE InOrderInv'
<1>1. MapInv' /\ TaskInv' /\ CheckInv' /\ ReadyInv' /\ ResultInv'
  BY MapStep, TaskStep, CheckStep, ReadyStep, ResultStep DEF InOrderInv
<1>. QED BY <1>1, LeftStep DEF InOrderInv

\* Every step of the calculator keeps the invariant.
LEMMA CalcStep == ASSUME CalcInv, [CalcNext]_calcVars PROVE CalcInv'
<1>1. CalcTypeOK' /\ PlaceInv'
  BY CalcTypeStep, PlaceStep DEF CalcInv
<1>2. ~overlapped' => InOrderInv'
  BY InOrderStep, OverlapStays DEF CalcInv
<1>. QED BY <1>1, <1>2 DEF CalcInv

\* startProcessing leaves the calculator in the invariant.
LEMMA CalcInitInv == CalcInit => CalcInv
<1>. SUFFICES ASSUME CalcInit PROVE CalcInv
  OBVIOUS
<1>. USE DEF CalcInit
<1>. NrSubbands \in Nat \ {0} /\ MaxBlocks \in Nat \ {0} /\ CalcThreads # {}
  BY BlocksAssumption, CalculatorAssumption
<1>1. DOMAIN itsData = {} /\ Len(calculated) = 0
  OBVIOUS
<1>2. CalcTypeOK
  <2>1. 0 \in Blocks /\ 0 \in Subbands /\ calculated \in Seq(Blocks \X Subbands)
    BY DEF Blocks, Subbands
  <2>2. tpc \in [CalcThreads -> ThreadPC] /\ task \in [CalcThreads -> Blocks \X Subbands]
    BY <2>1 DEF ThreadPC
  <2>3. DOMAIN itsData \subseteq Blocks /\ \A b \in DOMAIN itsData : itsData[b] \in Seq(Subbands)
    BY <1>1
  <2>4. blockNr \in 0..MaxBlocks /\ level \in Nat /\ currentBlockNr \in Nat
    OBVIOUS
  <2>5. /\ subbandReady \subseteq Subbands
        /\ checking_completeness \in BOOLEAN /\ itsStopProcessing \in BOOLEAN
    OBVIOUS
  <2>6. calculated \in Seq(Blocks \X Subbands)
    BY <2>1
  <2>. QED BY <2>2, <2>3, <2>4, <2>5, <2>6 DEF CalcTypeOK
<1>3. Taken = 0
  BY <1>1 DEF Taken
<1>4. MapInv
  BY <1>1, <1>3 DEF MapInv
<1>5. Held = {} /\ Done = {} /\ Checking = {} /\ 0 \in Subbands
  BY <1>1 DEF Held, Done, Checking, Subbands
<1>6. TaskInv /\ CheckInv /\ ReadyInv
  BY <1>3, <1>5 DEF TaskInv, CheckInv, ReadyInv, AllReady
<1>7. ResultInv
  BY <1>1, <1>5, FS_EmptySet DEF ResultInv, Ordered
<1>8. SomeThreadLeft
  BY DEF SomeThreadLeft
<1>9. PlaceInv
  BY <1>1 DEF PlaceInv, Calculating, CalculatedOnce
<1>. QED BY <1>2, <1>4, <1>6, <1>7, <1>8, <1>9 DEF CalcInv, InOrderInv

\* Type correctness of the calculator for any number of threads, subbands and blocks,
\* the data race on checking_completeness included.
THEOREM CalcTypeCorrect == CalcSpec => []CalcTypeOK
<1>1. CalcInit => CalcTypeOK
  BY CalcInitInv DEF CalcInv
<1>2. CalcTypeOK /\ [CalcNext]_calcVars => CalcTypeOK'
  BY CalcTypeStep
<1>. QED BY <1>1, <1>2, PTL DEF CalcSpec

\* The inductive invariant: where the subbands are, whatever two threads do that check
\* at once, and what the order rests on until they do.
THEOREM CalculatorInvariant == CalcSpec => []CalcInv
<1>1. CalcInit => CalcInv
  BY CalcInitInv
<1>2. CalcInv /\ [CalcNext]_calcVars => CalcInv'
  BY CalcStep
<1>. QED BY <1>1, <1>2, PTL DEF CalcSpec

\* The blocks reach the writer in order and whole, however many threads there are, as
\* long as no two of them are past the test of checking_completeness.
THEOREM BlocksStayInOrder == CalcSpec => []BlocksInOrder
<1>1. CalcInv => BlocksInOrder
  BY DEF CalcInv, InOrderInv, ResultInv, BlocksInOrder
<1>. QED BY <1>1, CalculatorInvariant, PTL

\* No subband is calculated twice, also when two threads check at once.
THEOREM NothingTwice == CalcSpec => []CalculatedOnce
<1>1. CalcInv => CalculatedOnce
  BY DEF CalcInv, PlaceInv
<1>. QED BY <1>1, CalculatorInvariant, PTL

\* Until the calculator is stopped a thread is left, and none reads the front of an
\* empty deque; but for two threads that check at once.
THEOREM NeverAllReturn == CalcSpec => [](SomeThreadLeft /\ (~overlapped => ~Undefined))
<1>1. CalcInv => SomeThreadLeft /\ (~overlapped => ~Undefined)
  BY DEF CalcInv, InOrderInv, MapInv, SomeThreadLeft, Undefined
<1>. QED BY <1>1, CalculatorInvariant, PTL

-----------------------------------------------------------------------------
(*                              The writer                                       *)

(* The lemmas are about the writer's own steps and the calls of its parent one by  *)
(* one, so that they serve the writer by itself and the whole of bf2h5.            *)
USE WriterAssumption

-----------------------------------------------------------------------------
(* What the operators do to the map.                                            *)

\* push_back leaves the other entries alone and makes the one of its block longer.
LEMMA WithSubbandMap ==
    ASSUME WriterTypeOK, NEW b \in Blocks, NEW s \in Subbands
    PROVE  /\ DOMAIN WithSubband(b, s) = DOMAIN writeMap \cup {b}
           /\ \A c \in DOMAIN writeMap \ {b} : WithSubband(b, s)[c] = writeMap[c]
           /\ WithSubband(b, s)[b] \in Seq(Subbands)
           /\ b \notin DOMAIN writeMap => WithSubband(b, s)[b] = <<s>>
           /\ b \in DOMAIN writeMap => WithSubband(b, s)[b] = Append(writeMap[b], s)
<1>1. DOMAIN WithSubband(b, s) = DOMAIN writeMap \cup {b}
  BY DEF WithSubband
<1>2. \A c \in DOMAIN writeMap \ {b} : WithSubband(b, s)[c] = writeMap[c]
  BY DEF WithSubband
<1>3. CASE b \in DOMAIN writeMap
  <2>1. WithSubband(b, s)[b] = Append(writeMap[b], s)
    BY <1>3 DEF WithSubband
  <2>2. writeMap[b] \in Seq(Subbands)
    BY <1>3 DEF WriterTypeOK
  <2>. QED BY <1>1, <1>2, <1>3, <2>1, <2>2, AppendProperties
<1>4. CASE b \notin DOMAIN writeMap
  <2>1. WithSubband(b, s)[b] = Append(<<>>, s)
    BY <1>4 DEF WithSubband
  <2>2. Append(<<>>, s) = <<s>> /\ <<s>> \in Seq(Subbands)
    OBVIOUS
  <2>. QED BY <1>1, <1>2, <1>4, <2>1, <2>2
<1>. QED BY <1>3, <1>4

\* startNextBlock forgets the entry of the block it leaves, and nothing else.
LEMMA NextBlockMap ==
    ASSUME StartNextBlock
    PROVE  /\ DOMAIN writeMap' = DOMAIN writeMap \ {writeBlockNr}
           /\ \A c \in DOMAIN writeMap' : writeMap'[c] = writeMap[c]
BY DEF StartNextBlock, Restrict

-----------------------------------------------------------------------------
(* Types.                                                                       *)

LEMMA WriterStepType ==
    ASSUME WriterTypeOK, PollInv, NEW v \in Row, WriterStep(v)
    PROVE  WriterTypeOK' /\ PollInv'
<1>. USE DEF WriterTypeOK, PollInv, WriterGoto
<1>0. /\ MaxBlocks \in Nat \ {0} /\ NrSubbands \in Nat \ {0}
      /\ \A b \in Blocks : b \in Nat /\ b < MaxBlocks
      /\ Zero \in Row
  BY BlocksAssumption DEF Blocks, Row
<1>1. CASE WriterLoop
  BY <1>1 DEF WriterLoop
<1>2. CASE GetData
  <2>1. /\ writeBlockNr \in DOMAIN writeMap /\ writeMap[writeBlockNr] # <<>>
        /\ writeMap[writeBlockNr] \in Seq(Subbands) /\ writeBlockNr \in Blocks
    BY <1>2 DEF GetData, HasData
  <2>2. /\ Head(writeMap[writeBlockNr]) \in Subbands
        /\ Tail(writeMap[writeBlockNr]) \in Seq(Subbands)
    BY <2>1, HeadTailProperties
  <2>3. /\ DOMAIN writeMap' = DOMAIN writeMap
        /\ \A b \in DOMAIN writeMap' : writeMap'[b] \in Seq(Subbands)
    BY <1>2, <2>1, <2>2 DEF GetData
  <2>. QED BY <1>2, <2>1, <2>2, <2>3 DEF GetData
<1>3. CASE GetNothing
  BY <1>3 DEF GetNothing
<1>4. ASSUME StartNextBlock, foundDataForCurrentBlock
      PROVE  /\ DOMAIN writeMap' \subseteq Blocks
             /\ \A b \in DOMAIN writeMap' : writeMap'[b] \in Seq(Subbands)
             /\ writeBlockNr' \in 0..MaxBlocks /\ subbandWritten' \subseteq Subbands
             /\ waitForDataTimeOut' \in 0..Patience /\ foundDataForCurrentBlock' = FALSE
  <2>1. writeBlockNr < MaxBlocks
    BY <1>0, <1>4
  <2>2. writeBlockNr' \in 0..MaxBlocks
    BY <1>0, <1>4, <2>1 DEF StartNextBlock
  <2>3. /\ DOMAIN writeMap' \subseteq Blocks
        /\ \A b \in DOMAIN writeMap' : writeMap'[b] \in Seq(Subbands)
    BY <1>4, NextBlockMap
  <2>4. subbandWritten' = {} /\ waitForDataTimeOut' = 0 /\ foundDataForCurrentBlock' = FALSE
    BY <1>4 DEF StartNextBlock
  <2>5. 0 \in 0..Patience
    OBVIOUS
  <2>. QED BY <2>2, <2>3, <2>4, <2>5
<1>5. CASE WriteRow(v)
  <2>1. /\ dataPair[2] \in Subbands /\ foundDataForCurrentBlock
        /\ wpc' = "loop" /\ stopWriting' = stopWriting /\ dataPair' = dataPair
        /\ brought' = brought
    BY <1>5 DEF WriteRow
  <2>2. table' \in [Subbands -> Seq(Row)]
    BY <1>5, <2>1 DEF WriteRow
  <2>3. CASE StartNextBlock
    BY <1>4, <2>1, <2>2, <2>3
  <2>4. CASE /\ subbandWritten' = subbandWritten \cup {dataPair[2]}
             /\ waitForDataTimeOut' = 0
             /\ UNCHANGED <<writeMap, writeBlockNr, foundDataForCurrentBlock>>
    BY <2>1, <2>2, <2>4
  <2>. QED BY <1>5, <2>3, <2>4 DEF WriteRow
<1>6. CASE KeepWaiting
  <2>1. waitForDataTimeOut' \in 0..Patience
    BY <1>6 DEF KeepWaiting
  <2>. QED BY <1>6, <2>1 DEF KeepWaiting
<1>7. CASE SkipSubbands
  <2>1. table' \in [Subbands -> Seq(Row)]
    BY <1>0, <1>7 DEF SkipSubbands
  <2>2. /\ StartNextBlock /\ foundDataForCurrentBlock /\ wpc' = "loop"
        /\ UNCHANGED <<stopWriting, dataPair, brought>>
    BY <1>7 DEF SkipSubbands
  <2>. QED BY <1>4, <2>1, <2>2
<1>. QED BY <1>1, <1>2, <1>3, <1>5, <1>6, <1>7 DEF WriterStep

LEMMA WriteSubbandType ==
    ASSUME WriterTypeOK, PollInv, NEW b \in Blocks, NEW s \in Subbands, WriteSubband(b, s)
    PROVE  WriterTypeOK' /\ PollInv'
<1>1. writeMap' = WithSubband(b, s)
  BY DEF WriteSubband
<1>2. /\ DOMAIN writeMap' = DOMAIN writeMap \cup {b}
      /\ \A c \in DOMAIN writeMap \ {b} : writeMap'[c] = writeMap[c]
      /\ writeMap'[b] \in Seq(Subbands)
  BY <1>1, WithSubbandMap
<1>3. /\ DOMAIN writeMap' \subseteq Blocks
      /\ \A c \in DOMAIN writeMap' : writeMap'[c] \in Seq(Subbands)
      /\ DOMAIN writeMap \subseteq DOMAIN writeMap'
  BY <1>2 DEF WriterTypeOK
<1>4. brought' \subseteq Blocks \X Subbands
  BY DEF WriteSubband, WriterTypeOK
<1>. QED BY <1>3, <1>4 DEF WriteSubband, WriterTypeOK, PollInv

LEMMA StopWriterType ==
    ASSUME WriterTypeOK, PollInv, StopWriter
    PROVE  WriterTypeOK' /\ PollInv'
BY DEF StopWriter, WriterTypeOK, PollInv


-----------------------------------------------------------------------------
(* A subband is in one place, and the tables are level.                         *)

LEMMA WriterStepOnce ==
    ASSUME WriterInv, NEW v \in Row, WriterStep(v)
    PROVE  OnceInv'
<1>. USE DEF WriterInv, WriterGoto
<1>1. CASE WriterLoop
  BY <1>1 DEF WriterLoop, OnceInv, InHand
<1>2. CASE GetData
  <2>. DEFINE w == writeBlockNr
              q == writeMap[writeBlockNr]
  <2>1. /\ w \in DOMAIN writeMap /\ q # <<>> /\ q \in Seq(Subbands)
        /\ wpc = "get" /\ wpc' = "write" /\ w' = w
        /\ subbandWritten' = subbandWritten /\ brought' = brought
        /\ dataPair' = <<w, Head(q)>>
    BY <1>2 DEF GetData, HasData, WriterTypeOK
  <2>2. /\ Head(q) = q[1] /\ Len(q) \in Nat \ {0} /\ Len(Tail(q)) = Len(q) - 1
        /\ \A i \in 1..Len(Tail(q)) : Tail(q)[i] = q[i + 1]
    BY <2>1, HeadTailProperties, LenProperties
  <2>3. /\ DOMAIN writeMap' = DOMAIN writeMap
        /\ \A b \in DOMAIN writeMap \ {w} : writeMap'[b] = writeMap[b]
        /\ writeMap'[w] = Tail(q)
    BY <1>2, <2>1 DEF GetData
  <2>4. InHand = {} /\ InHand' = {q[1]}
    BY <2>1, <2>2 DEF InHand
  <2>5. \A i \in 1..Len(q) : /\ <<w, q[i]>> \in brought /\ q[i] \notin subbandWritten
                             /\ \A j \in 1..Len(q) : q[i] = q[j] => i = j
    BY <2>1 DEF OnceInv
  <2>6. 1 \in 1..Len(q) /\ \A i \in 1..Len(Tail(q)) : i + 1 \in 1..Len(q) /\ i + 1 # 1
    BY <2>2
  <2>7. ASSUME NEW b \in DOMAIN writeMap', NEW i \in 1..Len(writeMap'[b])
        PROVE  /\ <<b, writeMap'[b][i]>> \in brought
               /\ \A j \in 1..Len(writeMap'[b]) : writeMap'[b][i] = writeMap'[b][j] => i = j
               /\ b = w => writeMap'[b][i] \notin subbandWritten \cup {q[1]}
    <3>1. CASE b = w
      <4>1. i \in 1..Len(Tail(q)) /\ writeMap'[b][i] = q[i + 1]
        BY <2>2, <2>3, <2>7, <3>1
      <4>2. q[i + 1] # q[1] /\ q[i + 1] \notin subbandWritten /\ <<w, q[i + 1]>> \in brought
        BY <2>5, <2>6, <4>1
      <4>3. ASSUME NEW j \in 1..Len(writeMap'[b]), writeMap'[b][i] = writeMap'[b][j]
            PROVE  i = j
        <5>1. j \in 1..Len(Tail(q)) /\ q[j + 1] = q[i + 1]
          BY <2>2, <2>3, <3>1, <4>1, <4>3
        <5>2. i + 1 = j + 1
          BY <2>5, <2>6, <4>1, <5>1
        <5>. QED BY <5>1, <5>2, <2>2
      <4>. QED BY <3>1, <4>1, <4>2, <4>3
    <3>2. CASE b # w
      BY <2>3, <3>2 DEF OnceInv
    <3>. QED BY <3>1, <3>2
  <2>8. \A s \in subbandWritten \cup {q[1]} : <<w, s>> \in brought
    BY <2>4, <2>5, <2>6 DEF OnceInv
  <2>9. subbandWritten \cap {q[1]} = {}
    BY <2>5, <2>6
  <2>. QED BY <2>1, <2>4, <2>7, <2>8, <2>9 DEF OnceInv
<1>3. CASE GetNothing
  BY <1>3 DEF GetNothing, OnceInv, InHand
<1>4. ASSUME StartNextBlock, brought' = brought, wpc' = "loop"
      PROVE  OnceInv'
  <2>1. subbandWritten' = {} /\ InHand' = {}
    BY <1>4 DEF StartNextBlock, InHand
  <2>. QED BY <1>4, <2>1, NextBlockMap DEF OnceInv
<1>5. CASE WriteRow(v)
  <2>1. /\ wpc = "write" /\ wpc' = "loop" /\ brought' = brought
        /\ InHand = {dataPair[2]} /\ InHand' = {}
    BY <1>5 DEF WriteRow, InHand
  <2>2. CASE StartNextBlock
    BY <1>4, <2>1, <2>2
  <2>3. CASE /\ subbandWritten' = subbandWritten \cup {dataPair[2]}
             /\ UNCHANGED <<writeMap, writeBlockNr>>
    <3>1. subbandWritten' \cup InHand' = subbandWritten \cup InHand
      BY <2>1, <2>3
    <3>2. subbandWritten' \cap InHand' = {}
      BY <2>1
    <3>. QED BY <2>1, <2>3, <3>1, <3>2 DEF OnceInv
  <2>. QED BY <1>5, <2>2, <2>3 DEF WriteRow
<1>6. CASE KeepWaiting
  BY <1>6 DEF KeepWaiting, OnceInv, InHand
<1>7. CASE SkipSubbands
  BY <1>4, <1>7 DEF SkipSubbands
<1>. QED BY <1>1, <1>2, <1>3, <1>5, <1>6, <1>7 DEF WriterStep

\* A subband that is new to the writer stays so when it is put in the map.
LEMMA WriteSubbandOnce ==
    ASSUME WriterInv, NEW b \in Blocks, NEW s \in Subbands, WriteSubband(b, s),
           <<b, s>> \notin brought
    PROVE  OnceInv'
<1>1. /\ writeMap' = WithSubband(b, s) /\ brought' = brought \cup {<<b, s>>}
      /\ UNCHANGED <<writeBlockNr, subbandWritten, InHand>>
  BY DEF WriteSubband, InHand
<1>2. /\ DOMAIN writeMap' = DOMAIN writeMap \cup {b}
      /\ \A c \in DOMAIN writeMap \ {b} : writeMap'[c] = writeMap[c]
      /\ b \notin DOMAIN writeMap => writeMap'[b] = <<s>>
      /\ b \in DOMAIN writeMap => writeMap'[b] = Append(writeMap[b], s)
  BY <1>1, WithSubbandMap DEF WriterInv
<1>3. /\ \A c \in DOMAIN writeMap : \A i \in 1..Len(writeMap[c]) :
           /\ <<c, writeMap[c][i]>> \in brought
           /\ \A j \in 1..Len(writeMap[c]) : writeMap[c][i] = writeMap[c][j] => i = j
           /\ c = writeBlockNr => writeMap[c][i] \notin subbandWritten \cup InHand
      /\ \A r \in subbandWritten \cup InHand : <<writeBlockNr, r>> \in brought
      /\ subbandWritten \cap InHand = {}
  BY DEF WriterInv, OnceInv
<1>4. b = writeBlockNr => s \notin subbandWritten \cup InHand
  BY <1>3
<1>5. ASSUME NEW c \in DOMAIN writeMap', NEW i \in 1..Len(writeMap'[c])
      PROVE  /\ <<c, writeMap'[c][i]>> \in brought'
             /\ \A j \in 1..Len(writeMap'[c]) : writeMap'[c][i] = writeMap'[c][j] => i = j
             /\ c = writeBlockNr => writeMap'[c][i] \notin subbandWritten \cup InHand
  <2>1. CASE c # b
    BY <1>1, <1>2, <1>3, <1>5, <2>1
  <2>2. CASE c = b /\ b \notin DOMAIN writeMap
    <3>1. writeMap'[c] = <<s>> /\ i = 1
      BY <1>2, <1>5, <2>2
    <3>. QED BY <1>1, <1>4, <2>2, <3>1
  <2>3. CASE c = b /\ b \in DOMAIN writeMap
    <3>. DEFINE q == writeMap[b]
    <3>1. q \in Seq(Subbands) /\ writeMap'[c] = Append(q, s)
      BY <1>2, <2>3 DEF WriterInv, WriterTypeOK
    <3>2. /\ Len(Append(q, s)) = Len(q) + 1 /\ Len(q) \in Nat
          /\ \A j \in 1..Len(q) : Append(q, s)[j] = q[j]
          /\ Append(q, s)[Len(q) + 1] = s
      BY <3>1, AppendProperties, LenProperties
    <3>3. \A j \in 1..Len(q) : /\ <<b, q[j]>> \in brought /\ q[j] # s
                               /\ \A k \in 1..Len(q) : q[j] = q[k] => j = k
                               /\ b = writeBlockNr => q[j] \notin subbandWritten \cup InHand
      BY <1>3, <2>3
    <3>4. \A j \in 1..(Len(q) + 1) : j \in 1..Len(q) \/ j = Len(q) + 1
      BY <3>2
    <3>5. /\ <<b, Append(q, s)[i]>> \in brought'
          /\ b = writeBlockNr => Append(q, s)[i] \notin subbandWritten \cup InHand
      BY <1>1, <1>4, <1>5, <2>3, <3>1, <3>2, <3>3, <3>4
    <3>6. ASSUME NEW j \in 1..(Len(q) + 1), Append(q, s)[i] = Append(q, s)[j]
          PROVE  i = j
      BY <1>5, <2>3, <3>1, <3>2, <3>3, <3>4, <3>6
    <3>. QED BY <2>3, <3>1, <3>2, <3>5, <3>6
  <2>. QED BY <1>2, <2>1, <2>2, <2>3
<1>6. \A r \in subbandWritten' \cup InHand' : <<writeBlockNr', r>> \in brought'
  BY <1>1, <1>3
<1>. QED BY <1>1, <1>3, <1>5, <1>6 DEF OnceInv

LEMMA WriterStepLevel ==
    ASSUME WriterInv, NEW v \in Row, WriterStep(v)
    PROVE  TablesLevel'
<1>. USE DEF WriterInv, WriterGoto
<1>1. /\ \A s \in Subbands : table[s] \in Seq(Row) /\ Len(table[s]) \in Nat
      /\ writeBlockNr \in Nat /\ DOMAIN table = Subbands /\ Zero \in Row
  BY LenProperties DEF WriterTypeOK, Row
<1>2. CASE WriterLoop \/ GetData \/ GetNothing \/ KeepWaiting
  BY <1>2 DEF WriterLoop, GetData, GetNothing, KeepWaiting, TablesLevel
<1>3. CASE WriteRow(v)
  <2>. DEFINE r == dataPair[2]
  <2>1. /\ r \in Subbands /\ r \notin subbandWritten
        /\ table' = [table EXCEPT ![r] = Append(@, v)]
    BY <1>3 DEF WriteRow, WriterTypeOK, OnceInv, InHand
  <2>2. /\ Len(table'[r]) = Len(table[r]) + 1
        /\ \A s \in Subbands \ {r} : table'[s] = table[s]
    BY <1>1, <2>1, AppendProperties
  <2>3. \A s \in Subbands :
          Len(table'[s]) = writeBlockNr + (IF s \in subbandWritten \cup {r} THEN 1 ELSE 0)
    BY <1>1, <2>1, <2>2 DEF TablesLevel
  <2>4. CASE subbandWritten \cup {r} = Subbands /\ StartNextBlock
    BY <1>1, <2>3, <2>4 DEF StartNextBlock, TablesLevel
  <2>5. CASE subbandWritten' = subbandWritten \cup {r} /\ writeBlockNr' = writeBlockNr
    BY <2>3, <2>5 DEF TablesLevel
  <2>. QED BY <1>3, <2>4, <2>5 DEF WriteRow
<1>4. CASE SkipSubbands
  <2>1. \A s \in Subbands : table'[s] = IF s \in subbandWritten THEN table[s]
                                        ELSE Append(table[s], Zero)
    BY <1>4 DEF SkipSubbands
  <2>2. \A s \in Subbands : Len(table'[s]) = writeBlockNr + 1
    <3>. SUFFICES ASSUME NEW s \in Subbands PROVE Len(table'[s]) = writeBlockNr + 1
      OBVIOUS
    <3>1. Len(table[s]) = writeBlockNr + (IF s \in subbandWritten THEN 1 ELSE 0)
      BY DEF TablesLevel
    <3>2. Len(Append(table[s], Zero)) = Len(table[s]) + 1
      BY <1>1, AppendProperties
    <3>3. CASE s \in subbandWritten
      <4>1. table'[s] = table[s]
        BY <2>1, <3>3
      <4>. QED BY <3>1, <3>3, <4>1
    <3>4. CASE s \notin subbandWritten
      <4>1. table'[s] = Append(table[s], Zero)
        BY <2>1, <3>4
      <4>2. Len(table[s]) = writeBlockNr
        BY <1>1, <3>1, <3>4
      <4>. QED BY <3>2, <4>1, <4>2
    <3>. QED BY <3>3, <3>4
  <2>3. subbandWritten' = {} /\ writeBlockNr' = writeBlockNr + 1
    BY <1>4 DEF SkipSubbands, StartNextBlock
  <2>. QED BY <1>1, <2>2, <2>3 DEF TablesLevel
<1>. QED BY <1>2, <1>3, <1>4 DEF WriterStep


-----------------------------------------------------------------------------
(* The writer with a calculator that leaves it its memory.                      *)

\* A row is put where its block's row is to be.
LEMMA WriterStepRows ==
    ASSUME WriterInv, RowsAligned, WriterStep(dataPair[1])
    PROVE  RowsAligned'
<1>. USE DEF WriterInv, WriterGoto
<1>1. dataPair[1] \in Row
  BY DEF WriterTypeOK, Row
<1>2. TablesLevel'
  BY <1>1, WriterStepLevel
<1>3. /\ \A s \in Subbands : table[s] \in Seq(Row) /\ Len(table[s]) \in Nat
      /\ writeBlockNr \in Nat /\ DOMAIN table = Subbands /\ Zero \in Row
  BY LenProperties DEF WriterTypeOK, Row
<1>4. ASSUME NEW s \in Subbands, s \notin subbandWritten, NEW v \in {writeBlockNr, Zero}, v \in Row
      PROVE  \A k \in 1..Len(Append(table[s], v)) : Append(table[s], v)[k] \in {k - 1, Zero}
  <2>1. Len(table[s]) = writeBlockNr
    BY <1>3, <1>4 DEF TablesLevel
  <2>2. \A k \in 1..Len(table[s]) : table[s][k] \in {k - 1, Zero}
    BY DEF RowsAligned
  <2>3. /\ Len(Append(table[s], v)) = writeBlockNr + 1
        /\ \A k \in 1..writeBlockNr : Append(table[s], v)[k] = table[s][k]
        /\ Append(table[s], v)[writeBlockNr + 1] = v
    BY <1>3, <1>4, <2>1, AppendProperties
  <2>4. \A k \in 1..(writeBlockNr + 1) : k \in 1..writeBlockNr \/ k = writeBlockNr + 1
    BY <1>3
  <2>5. (writeBlockNr + 1) - 1 = writeBlockNr
    BY <1>3
  <2>. QED BY <1>4, <2>1, <2>2, <2>3, <2>4, <2>5
<1>5. ASSUME NEW s \in Subbands, NEW k \in 1..Len(table'[s])
      PROVE  table'[s][k] \in {k - 1, Zero}
  <2>1. CASE table'[s] = table[s]
    BY <1>5, <2>1 DEF RowsAligned
  <2>2. CASE WriteRow(dataPair[1]) /\ s = dataPair[2]
    <3>1. /\ dataPair[1] = writeBlockNr /\ s \notin subbandWritten
          /\ table'[s] = Append(table[s], dataPair[1])
      BY <1>3, <2>2 DEF WriteRow, PollInv, OnceInv, InHand
    <3>. QED BY <1>1, <1>4, <1>5, <3>1
  <2>3. CASE SkipSubbands /\ s \notin subbandWritten
    <3>1. table'[s] = Append(table[s], Zero)
      BY <2>3 DEF SkipSubbands
    <3>. QED BY <1>3, <1>4, <1>5, <2>3, <3>1
  <2>4. CASE WriteRow(dataPair[1]) /\ s # dataPair[2]
    BY <1>3, <2>1, <2>4 DEF WriteRow
  <2>5. CASE SkipSubbands /\ s \in subbandWritten
    BY <2>1, <2>5 DEF SkipSubbands
  <2>6. CASE WriterLoop \/ GetData \/ GetNothing \/ KeepWaiting
    BY <2>1, <2>6 DEF WriterLoop, GetData, GetNothing, KeepWaiting
  <2>. QED BY <2>2, <2>3, <2>4, <2>5, <2>6 DEF WriterStep
<1>. QED BY <1>2, <1>5 DEF RowsAligned

LEMMA WriterInitInv == WriterInit => WriterInv /\ RowsAligned
<1>. SUFFICES ASSUME WriterInit PROVE WriterInv /\ RowsAligned
  OBVIOUS
<1>. USE DEF WriterInit
<1>1. 0 \in Blocks /\ 0 \in Subbands /\ 0 \in 0..MaxBlocks /\ 0 \in 0..Patience
  BY BlocksAssumption DEF Blocks, Subbands
<1>2. DOMAIN writeMap = {} /\ \A s \in Subbands : table[s] = <<>> /\ Len(table[s]) = 0
  OBVIOUS
<1>3. table \in [Subbands -> Seq(Row)]
  BY EmptySeq
<1>4. WriterTypeOK
  BY <1>1, <1>2, <1>3 DEF WriterTypeOK
<1>5. PollInv /\ OnceInv
  BY <1>2 DEF PollInv, OnceInv, InHand
<1>6. RowsAligned
  BY <1>2 DEF RowsAligned, TablesLevel
<1>. QED BY <1>4, <1>5, <1>6 DEF WriterInv, RowsAligned

LEMMA WriterNextInv ==
    WriterInv /\ RowsAligned /\ [WriterNext]_writerVars => WriterInv' /\ RowsAligned'
<1>. SUFFICES ASSUME WriterInv, RowsAligned, [WriterNext]_writerVars
              PROVE  WriterInv' /\ RowsAligned'
  OBVIOUS
<1>1. ASSUME UNCHANGED <<writeBlockNr, subbandWritten, table>>
      PROVE  RowsAligned'
  BY <1>1 DEF RowsAligned, TablesLevel
<1>2. CASE WriterStep(dataPair[1])
  <2>1. dataPair[1] \in Row
    BY DEF WriterInv, WriterTypeOK, Row
  <2>. QED BY <1>2, <2>1, WriterStepType, WriterStepOnce, WriterStepLevel, WriterStepRows
       DEF WriterInv
<1>3. ASSUME NEW b \in Blocks, NEW s \in Subbands, Bring(b, s)
      PROVE  WriterInv' /\ RowsAligned'
  <2>1. RowsAligned'
    BY <1>1, <1>3 DEF Bring, WriteSubband
  <2>. QED BY <1>3, <2>1, WriteSubbandType, WriteSubbandOnce DEF Bring, WriterInv, RowsAligned
<1>4. CASE StopAlone
  <2>1. RowsAligned'
    BY <1>1, <1>4 DEF StopAlone, StopWriter
  <2>2. OnceInv'
    BY <1>4 DEF StopAlone, StopWriter, WriterInv, OnceInv, InHand
  <2>. QED BY <1>4, <2>1, <2>2, StopWriterType DEF StopAlone, WriterInv, RowsAligned
<1>5. CASE UNCHANGED writerVars
  <2>. USE <1>5 DEF writerVars, WriterInv
  <2>1. WriterTypeOK' /\ PollInv'
    BY DEF WriterTypeOK, PollInv
  <2>2. OnceInv'
    BY DEF OnceInv, InHand
  <2>3. RowsAligned'
    BY <1>1
  <2>. QED BY <2>1, <2>2, <2>3 DEF RowsAligned
<1>. QED BY <1>2, <1>3, <1>4, <1>5 DEF WriterNext

\* Type correctness of the writer, with the counter of its polls within its limit.
THEOREM WriterTypeCorrect == WriterSpec => []WriterTypeOK
<1>1. WriterInv => WriterTypeOK
  BY DEF WriterInv
<1>. QED BY <1>1, WriterInitInv, WriterNextInv, PTL DEF WriterSpec

\* The inductive invariant of the writer: each subband in one place, and
\* startNextBlock erases an entry that is there.
THEOREM WriterInvariant == WriterSpec => []WriterInv
BY WriterInitInv, WriterNextInv, PTL DEF WriterSpec

\* Row k of every table is of block k, or zeros, however late the subbands are.
THEOREM RowsStayAligned == WriterSpec => []RowsAligned
BY WriterInitInv, WriterNextInv, PTL DEF WriterSpec

HIDE WriterAssumption

-----------------------------------------------------------------------------
(*                              bf2h5 as a whole                                 *)

-----------------------------------------------------------------------------
\* The first of several buffers is one of them.
LEMMA MinOf == ASSUME NEW S \in SUBSET Nat, S # {} PROVE Min(S) \in S
<1>1. PICK x \in S : \A y \in S : ~(<<y, x>> \in OpToRel(<, Nat))
  BY WFMin, NatLessThanWellFounded, Zenon
<1>2. \A y \in S : x \in Nat /\ y \in Nat
  OBVIOUS
<1>3. \A y \in S : ~(y < x)
  BY <1>1, <1>2, Zenon DEF OpToRel
<1>4. \A y \in S : x <= y
  BY <1>2, <1>3
<1>5. S \in SUBSET Int
  OBVIOUS
<1>6. Min(S) = x
  BY <1>4, <1>5, MinIs
<1>. QED BY <1>6

-----------------------------------------------------------------------------
(* The threads' steps, seen from the main thread.                               *)

\* Only the main thread hands over and stops; the others only lower the level.
LEMMA ThreadsOnlyLower ==
    ASSUME CalcTypeOK, NEW t \in CalcThreads, ThreadStep(t)
    PROVE  /\ UNCHANGED <<itsStopProcessing, blockNr>>
           /\ ~StillProcessing => ~StillProcessing'
<1>. level \in Nat
  BY DEF CalcTypeOK
<1>. USE DEF StillProcessing
<1>1. CASE TakeSubband(t)
  BY <1>1 DEF TakeSubband
<1>2. CASE \/ ThreadLoop(t) \/ WaitForData(t) \/ SpuriousWakeup(t) \/ ThreadReturns(t)
           \/ MarkReady(t) \/ TestChecking(t)
  BY <1>2 DEF ThreadLoop, WaitForData, SpuriousWakeup, ThreadReturns, MarkReady, TestChecking
<1>3. CASE \/ ClaimChecking(t) \/ ScanReady(t) \/ ScanTorn(t) \/ NotComplete(t)
           \/ DataReady(t) \/ CompleteBlock(t)
  BY <1>3 DEF ClaimChecking, ScanReady, ScanTorn, NotComplete, DataReady, CompleteBlock
<1>. QED BY <1>1, <1>2, <1>3 DEF ThreadStep, PrivateStep

\* What a step of bf2h5 is to the calculator.
LEMMA CalculatorSees ==
    ASSUME TypeOK, MainInv, [Next]_vars
    PROVE  [CalcNext]_calcVars
<1>. USE DEF MainGoto
<1>. blockNr \in Nat /\ toCome \in Nat /\ MaxBlocks \in Nat
  BY BlocksAssumption DEF TypeOK, CalcTypeOK
<1>1. CASE HandOver
  <2>1. ~itsStopProcessing /\ blockNr < MaxBlocks
    <3>1. mpc \in {"begin", "handover"}
      BY <1>1 DEF HandOver
    <3>2. ~itsStopProcessing
      BY <3>1 DEF MainInv
    <3>3. blockNr + (IF finished_reading THEN 0 ELSE toCome + 1) < MaxBlocks
      BY <3>1 DEF MainInv
    <3>. QED BY <3>2, <3>3
  <2>. QED BY <1>1, <2>1 DEF HandOver, CalcNext, ParentHandsOver
<1>2. CASE StopCalculator
  <2>1. ~itsStopProcessing /\ blockNr > 0 /\ ~StillProcessing
    BY <1>2 DEF StopCalculator, MainInv
  <2>. QED BY <1>2, <2>1 DEF StopCalculator, CalcNext, ParentStops
<1>3. CASE \/ SwitchReadBuffer \/ ReadLoop \/ ReadDataBlock \/ DrainCalculator
           \/ DrainWriter \/ JoinCalculator \/ StopTheWriter \/ JoinWriter \/ WriterThread
  BY <1>3 DEF SwitchReadBuffer, ReadLoop, ReadDataBlock, DrainCalculator, DrainWriter,
              JoinCalculator, StopTheWriter, JoinWriter, WriterThread, calcVars
<1>4. CASE \E t \in CalcThreads : CalculatorStep(t)
  BY <1>4 DEF CalculatorStep, Calculate, Complete, CalcNext, ThreadStep
<1>5. CASE UNCHANGED vars
  BY <1>5 DEF vars
<1>. QED BY <1>1, <1>2, <1>3, <1>4, <1>5 DEF Next, MainStep


-----------------------------------------------------------------------------
(* The main thread.                                                             *)

\* It stops no calculator that is processing and has room for every block.
LEMMA MainStepInv ==
    ASSUME TypeOK, MainInv, [Next]_vars
    PROVE  MainInv'
<1>. USE DEF MainGoto
<1>. /\ blockNr \in Nat /\ toCome \in Nat /\ MaxBlocks \in Nat \ {0} /\ NrSubbands \in Nat \ {0}
     /\ level \in Nat /\ finished_reading \in BOOLEAN /\ CalcTypeOK
  BY BlocksAssumption DEF TypeOK, CalcTypeOK
<1>1. CASE HandOver
  <2>1. /\ mpc \in {"begin", "handover"} /\ mpc' = "switch" /\ blockNr' = blockNr + 1
        /\ UNCHANGED <<itsStopProcessing, finished_reading, toCome>>
    BY <1>1 DEF HandOver, CalculateDataBlock
  <2>2. ~itsStopProcessing /\ blockNr + (IF finished_reading THEN 0 ELSE toCome + 1) < MaxBlocks
    BY <2>1 DEF MainInv
  <2>3. ~finished_reading => blockNr' + toCome' < MaxBlocks
    BY <2>1, <2>2
  <2>. QED BY <2>1, <2>2, <2>3 DEF MainInv
<1>2. CASE SwitchReadBuffer
  <2>1. /\ mpc = "switch" /\ mpc' = "loop"
        /\ UNCHANGED <<itsStopProcessing, finished_reading, toCome, blockNr>>
    BY <1>2 DEF SwitchReadBuffer, calcVars
  <2>. QED BY <2>1 DEF MainInv
<1>3. CASE ReadLoop
  <2>1. /\ mpc = "loop" /\ mpc' = IF finished_reading THEN "drain" ELSE "read"
        /\ UNCHANGED <<itsStopProcessing, finished_reading, toCome, blockNr>>
    BY <1>3 DEF ReadLoop, calcVars
  <2>. QED BY <2>1 DEF MainInv
<1>4. CASE ReadDataBlock
  <2>1. /\ mpc = "read" /\ mpc' = "handover"
        /\ UNCHANGED <<itsStopProcessing, blockNr>>
        /\ ~finished_reading /\ blockNr + toCome < MaxBlocks /\ blockNr # 0 /\ ~itsStopProcessing
    BY <1>4 DEF ReadDataBlock, calcVars, MainInv
  <2>2. blockNr' + (IF finished_reading' THEN 0 ELSE toCome' + 1) < MaxBlocks
    <3>1. CASE toCome > 0
      BY <1>4, <2>1, <3>1 DEF ReadDataBlock
    <3>2. CASE ~(toCome > 0)
      BY <1>4, <2>1, <3>2 DEF ReadDataBlock
    <3>. QED BY <3>1, <3>2
  <2>. QED BY <2>1, <2>2 DEF MainInv
<1>5. CASE DrainCalculator \/ DrainWriter
  <2>1. /\ mpc \in {"drain", "drainWriter"} /\ mpc' \in {"drainWriter", "drain", "stopCalculator"}
        /\ UNCHANGED <<itsStopProcessing, blockNr, level>>
    BY <1>5 DEF DrainCalculator, DrainWriter, calcVars
  <2>2. ~StillProcessing /\ ~StillProcessing'
    BY <1>5, <2>1 DEF DrainCalculator, DrainWriter, MainInv, StillProcessing
  <2>. QED BY <2>1, <2>2 DEF MainInv
<1>6. CASE StopCalculator
  <2>1. /\ mpc = "stopCalculator" /\ mpc' = "joinCalculator" /\ blockNr' = blockNr
        /\ itsStopProcessing' = TRUE
    BY <1>6 DEF StopCalculator, Stop
  <2>. QED BY <2>1 DEF MainInv
<1>7. CASE JoinCalculator \/ StopTheWriter \/ JoinWriter
  <2>1. /\ mpc \in {"joinCalculator", "stopWriter", "joinWriter"}
        /\ mpc' \in {"stopWriter", "joinWriter", "done"}
        /\ UNCHANGED <<itsStopProcessing, blockNr>>
    BY <1>7 DEF JoinCalculator, StopTheWriter, JoinWriter, calcVars
  <2>. QED BY <2>1 DEF MainInv
<1>8. ASSUME NEW t \in CalcThreads, CalculatorStep(t) PROVE MainInv'
  <2>1. ThreadStep(t) /\ UNCHANGED <<mpc, finished_reading, toCome>>
    BY <1>8 DEF CalculatorStep, ThreadStep, Calculate, Complete, mainVars
  <2>2. UNCHANGED <<itsStopProcessing, blockNr>> /\ (~StillProcessing => ~StillProcessing')
    BY <2>1, ThreadsOnlyLower
  <2>. QED BY <2>1, <2>2 DEF MainInv
<1>9. CASE WriterThread \/ UNCHANGED vars
  <2>1. UNCHANGED <<mpc, finished_reading, toCome, itsStopProcessing, blockNr, level>>
    BY <1>9 DEF WriterThread, vars, calcVars, mainVars
  <2>. QED BY <2>1 DEF MainInv, StillProcessing
<1>. QED BY <1>1, <1>2, <1>3, <1>4, <1>5, <1>6, <1>7, <1>8, <1>9 DEF Next, MainStep


-----------------------------------------------------------------------------
(* The writer, seen from the rest.                                              *)

\* What a step of bf2h5 is to the writer.
LEMMA WriterSees ==
    ASSUME [Next]_vars
    PROVE  \/ WriterStep(dataBlockOutput[dataPair[2]].data) /\ UNCHANGED calcVars
           \/ \E t \in CalcThreads : WriteSubband(task[t][1], task[t][2]) /\ DataReady(t)
           \/ StopWriter /\ UNCHANGED calcVars
           \/ UNCHANGED writerVars /\ UNCHANGED calculated
           \/ UNCHANGED writerVars /\ \E t \in CalcThreads : PrivateStep(t) \/ CompleteBlock(t)
<1>1. CASE HandOver \/ StopCalculator
  BY <1>1 DEF HandOver, CalculateDataBlock, StopCalculator, Stop
<1>2. CASE \/ SwitchReadBuffer \/ ReadLoop \/ ReadDataBlock \/ DrainCalculator
           \/ DrainWriter \/ JoinCalculator \/ JoinWriter
  BY <1>2 DEF SwitchReadBuffer, ReadLoop, ReadDataBlock, DrainCalculator, DrainWriter,
              JoinCalculator, JoinWriter, calcVars
<1>3. CASE StopTheWriter \/ WriterThread
  BY <1>3 DEF StopTheWriter, WriterThread
<1>4. CASE \E t \in CalcThreads : CalculatorStep(t)
  BY <1>4 DEF CalculatorStep, Calculate, Complete
<1>5. CASE UNCHANGED vars
  BY <1>5 DEF vars, calcVars
<1>. QED BY <1>1, <1>2, <1>3, <1>4, <1>5 DEF Next, MainStep

LEMMA WriterTypeStep ==
    ASSUME TypeOK, PollInv, [Next]_vars
    PROVE  WriterTypeOK' /\ PollInv'
<1>1. WriterTypeOK /\ CalcTypeOK /\ dataBlockOutput[dataPair[2]].data \in Row
  <2>1. dataPair[2] \in Subbands
    BY DEF TypeOK, WriterTypeOK
  <2>. QED BY <2>1 DEF TypeOK
<1>2. CASE WriterStep(dataBlockOutput[dataPair[2]].data)
  BY <1>1, <1>2, WriterStepType
<1>3. ASSUME NEW t \in CalcThreads, WriteSubband(task[t][1], task[t][2])
      PROVE  WriterTypeOK' /\ PollInv'
  <2>1. task[t][1] \in Blocks /\ task[t][2] \in Subbands
    BY <1>1 DEF CalcTypeOK
  <2>. QED BY <1>1, <1>3, <2>1, WriteSubbandType
<1>4. CASE StopWriter
  BY <1>1, <1>4, StopWriterType
<1>5. CASE UNCHANGED writerVars
  BY <1>1, <1>5 DEF writerVars, WriterTypeOK, PollInv
<1>. QED BY <1>2, <1>3, <1>4, <1>5, WriterSees

-----------------------------------------------------------------------------
(* Types of the main thread's own variables.                                    *)

MainTypeOK ==
    /\ mpc \in MainPC
    /\ finished_reading \in BOOLEAN
    /\ toCome \in 0..MaxBlocks
    /\ itsReadBuffer \in Buffers
    /\ itsBufferTracker \in Seq(0..MaxBlocks \cup {Free})
    /\ itsSampleBuffers \in [Buffers -> Row]
    /\ pointer \in [Blocks -> [buffer : Buffers, data : Row]]
    /\ dataBlockOutput \in [Subbands -> [block : Blocks, data : Row]]

LEMMA MainTypeStep ==
    ASSUME TypeOK, MainInv, [Next]_vars
    PROVE  MainTypeOK'
<1>. USE DEF MainGoto, MainPC
<1>. /\ MainTypeOK /\ CalcTypeOK
     /\ blockNr \in 0..MaxBlocks /\ MaxBlocks \in Nat \ {0} /\ NotRead \in Row
  BY BlocksAssumption DEF TypeOK, MainTypeOK, CalcTypeOK, Row
<1>0. Buffers = 1..Len(itsBufferTracker) /\ Len(itsBufferTracker) \in Nat
  BY DEF Buffers, MainTypeOK
<1>1. CASE HandOver
  <2>1. /\ mpc' = "switch" /\ blockNr \in Blocks
        /\ UNCHANGED <<finished_reading, toCome, itsReadBuffer, itsBufferTracker,
                       itsSampleBuffers, dataBlockOutput>>
    BY <1>1 DEF HandOver, MainInv, Blocks, MainTypeOK
  <2>2. pointer' \in [Blocks -> [buffer : Buffers, data : Row]]
    BY <1>1, <2>1 DEF HandOver, MainTypeOK
  <2>. QED BY <2>1, <2>2 DEF MainTypeOK, Buffers
<1>2. CASE SwitchReadBuffer
  <2>. DEFINE unused == {i \in Buffers : itsBufferTracker[i] = Free}
              n == Len(itsBufferTracker)
  <2>1. /\ mpc' = "loop"
        /\ UNCHANGED <<finished_reading, toCome, pointer, dataBlockOutput>>
    BY <1>2 DEF SwitchReadBuffer
  <2>2. CASE unused # {}
    <3>1. /\ itsReadBuffer' = Min(unused) /\ itsSampleBuffers' = itsSampleBuffers
          /\ itsBufferTracker' = [itsBufferTracker EXCEPT ![Min(unused)] = blockNr]
      BY <1>2, <2>2 DEF SwitchReadBuffer
    <3>2. unused \in SUBSET Nat /\ unused \subseteq Buffers
      BY <1>0
    <3>3. Min(unused) \in Buffers
      BY <2>2, <3>2, MinOf
    <3>4. /\ itsBufferTracker' \in Seq(0..MaxBlocks \cup {Free})
          /\ Buffers' = Buffers
      BY <3>1, <3>3, ExceptSeq DEF MainTypeOK, Buffers
    <3>. QED BY <2>1, <3>1, <3>3, <3>4 DEF MainTypeOK
  <2>3. CASE unused = {}
    <3>1. /\ itsBufferTracker' = Append(itsBufferTracker, blockNr)
          /\ itsSampleBuffers' = Append(itsSampleBuffers, NotRead)
          /\ itsReadBuffer' = Len(itsBufferTracker')
      BY <1>2, <2>3 DEF SwitchReadBuffer
    <3>2. /\ itsBufferTracker' \in Seq(0..MaxBlocks \cup {Free})
          /\ Len(itsBufferTracker') = n + 1
      BY <3>1, AppendProperties DEF MainTypeOK
    <3>3. Buffers' = 1..(n + 1) /\ Buffers \subseteq Buffers'
      BY <1>0, <3>2 DEF Buffers
    <3>4. itsSampleBuffers \in Seq(Row) /\ Len(itsSampleBuffers) = n
      BY <1>0, FunctionIsSeq DEF MainTypeOK
    <3>5. itsSampleBuffers' \in Seq(Row) /\ Len(itsSampleBuffers') = n + 1
      BY <3>1, <3>4, AppendProperties
    <3>6. itsSampleBuffers' \in [Buffers' -> Row]
      BY <3>3, <3>5, LenProperties
    <3>7. itsReadBuffer' \in Buffers'
      BY <1>0, <3>1, <3>2, <3>3
    <3>8. pointer' \in [Blocks -> [buffer : Buffers', data : Row]]
      BY <2>1, <3>3 DEF MainTypeOK
    <3>. QED BY <2>1, <3>2, <3>6, <3>7, <3>8 DEF MainTypeOK
  <2>. QED BY <2>2, <2>3
<1>3. CASE ReadDataBlock
  <2>1. /\ mpc' = "handover" /\ mpc = "read"
        /\ UNCHANGED <<itsReadBuffer, itsBufferTracker, pointer, dataBlockOutput>>
    BY <1>3 DEF ReadDataBlock
  <2>2. blockNr \in Row
    BY <2>1 DEF MainInv, MainTypeOK, Row, Blocks
  <2>3. /\ itsSampleBuffers' \in [Buffers -> Row] /\ toCome' \in 0..MaxBlocks
        /\ finished_reading' \in BOOLEAN
    <3>1. CASE toCome > 0
      BY <1>3, <2>2, <3>1 DEF ReadDataBlock, MainTypeOK
    <3>2. CASE ~(toCome > 0)
      BY <1>3, <3>2 DEF ReadDataBlock, MainTypeOK
    <3>. QED BY <3>1, <3>2
  <2>. QED BY <2>1, <2>3 DEF MainTypeOK, Buffers
<1>4. ASSUME UNCHANGED <<finished_reading, toCome, itsReadBuffer, itsBufferTracker,
                         itsSampleBuffers, pointer, dataBlockOutput>>,
             mpc' \in MainPC
      PROVE  MainTypeOK'
  BY <1>4 DEF MainTypeOK, Buffers
<1>5. CASE ReadLoop \/ DrainCalculator \/ DrainWriter \/ StopCalculator \/ JoinCalculator
  BY <1>4, <1>5 DEF ReadLoop, DrainCalculator, DrainWriter, StopCalculator, JoinCalculator
<1>6. CASE StopTheWriter \/ JoinWriter
  BY <1>4, <1>6 DEF StopTheWriter, JoinWriter
<1>7. ASSUME NEW t \in CalcThreads, Calculate(t) PROVE MainTypeOK'
  <2>. DEFINE b == task[t][1]  s == task[t][2]
  <2>1. b \in Blocks /\ s \in Subbands
    BY DEF CalcTypeOK
  <2>2. itsSampleBuffers[pointer[b].buffer] \in Row
    BY <2>1 DEF MainTypeOK
  <2>3. dataBlockOutput' = [dataBlockOutput EXCEPT ![s] =
                              [block |-> b, data |-> itsSampleBuffers[pointer[b].buffer]]]
    BY <1>7 DEF Calculate
  <2>4. dataBlockOutput' \in [Subbands -> [block : Blocks, data : Row]]
    BY <2>1, <2>2, <2>3 DEF MainTypeOK
  <2>. QED BY <1>7, <2>4 DEF Calculate, MainTypeOK, Buffers
<1>8. ASSUME NEW t \in CalcThreads, Complete(t) PROVE MainTypeOK'
  <2>. DEFINE n == Len(itsBufferTracker)
  <2>1. itsBufferTracker' \in [1..n -> 0..MaxBlocks \cup {Free}]
    BY <1>0, <1>8 DEF Complete, MainTypeOK
  <2>2. itsBufferTracker' \in Seq(0..MaxBlocks \cup {Free}) /\ Buffers' = Buffers
    BY <1>0, <2>1, FunctionIsSeq DEF Buffers
  <2>. QED BY <1>8, <2>2 DEF Complete, MainTypeOK
<1>9. CASE \/ WriterThread \/ UNCHANGED vars
           \/ \E t \in CalcThreads : PrivateStep(t) /\ UNCHANGED <<writerVars, mainVars>>
  <2>1. UNCHANGED mainVars
    BY <1>9 DEF WriterThread, vars
  <2>. QED BY <1>4, <2>1 DEF mainVars, MainTypeOK
<1>. QED BY <1>1, <1>2, <1>3, <1>5, <1>6, <1>7, <1>8, <1>9
     DEF Next, MainStep, CalculatorStep


-----------------------------------------------------------------------------
(* The whole.                                                                   *)

LEMMA PipelineInit == Init => TypeOK /\ CalcInv /\ WriterInv /\ MainInv /\ LinkInv
<1>. SUFFICES ASSUME Init PROVE TypeOK /\ CalcInv /\ WriterInv /\ MainInv /\ LinkInv
  OBVIOUS
<1>1. /\ MaxBlocks \in Nat \ {0} /\ NrSubbands \in Nat \ {0} /\ InitialBuffers \in Nat \ {0}
      /\ toCome \in 0..(MaxBlocks - 2)
  BY BlocksAssumption, BufferAssumption DEF Init
<1>2. CalcInv /\ WriterInv
  BY CalcInitInv, WriterInitInv DEF Init
<1>3. MainInv
  BY <1>1 DEF Init, CalcInit, MainInv
<1>4. LinkInv
  <2>1. brought = {} /\ calculated = <<>>
    BY DEF Init, WriterInit, CalcInit
  <2>. QED BY <2>1 DEF LinkInv, Range
<1>5. MainTypeOK
  <2>1. /\ 0 \in Row /\ NotRead \in Row /\ 0 \in Blocks /\ 1 \in 1..InitialBuffers
        /\ 0 \in 0..MaxBlocks /\ toCome \in 0..MaxBlocks
    BY <1>1 DEF Row, Blocks
  <2>2. itsBufferTracker \in [1..InitialBuffers -> 0..MaxBlocks \cup {Free}]
    BY <2>1 DEF Init
  <2>3. itsBufferTracker \in Seq(0..MaxBlocks \cup {Free}) /\ Buffers = 1..InitialBuffers
    BY <1>1, <2>2, FunctionIsSeq DEF Buffers
  <2>4. mpc \in MainPC /\ finished_reading \in BOOLEAN /\ itsReadBuffer \in Buffers
    BY <2>1, <2>3 DEF Init, MainPC
  <2>5. itsSampleBuffers \in [Buffers -> Row]
    BY <2>1, <2>3 DEF Init
  <2>6. /\ pointer \in [Blocks -> [buffer : Buffers, data : Row]]
        /\ dataBlockOutput \in [Subbands -> [block : Blocks, data : Row]]
    BY <2>1, <2>3 DEF Init
  <2>. QED BY <2>1, <2>3, <2>4, <2>5, <2>6 DEF MainTypeOK
<1>6. TypeOK
  BY <1>2, <1>5 DEF CalcInv, WriterInv, MainTypeOK, TypeOK
<1>. QED BY <1>2, <1>3, <1>4, <1>6

LEMMA PipelineTypeStep ==
    TypeOK /\ PollInv /\ MainInv /\ [Next]_vars => TypeOK' /\ PollInv' /\ MainInv'
<1>. SUFFICES ASSUME TypeOK, PollInv, MainInv, [Next]_vars
              PROVE  TypeOK' /\ PollInv' /\ MainInv'
  OBVIOUS
<1>1. CalcTypeOK'
  BY CalculatorSees, CalcTypeStep DEF TypeOK
<1>2. WriterTypeOK' /\ PollInv' /\ MainInv' /\ MainTypeOK'
  BY WriterTypeStep, MainStepInv, MainTypeStep
<1>. QED BY <1>1, <1>2 DEF TypeOK, MainTypeOK

\* The writer's part, and the calculator's results that reach it.
LEMMA PipelineWriterStep ==
    ASSUME PipelineInv, [Next]_vars
    PROVE  OnceInv' /\ TablesLevel' /\ LinkInv'
<1>. USE DEF PipelineInv
<1>1. /\ calculated \in Seq(Blocks \X Subbands)
      /\ dataBlockOutput[dataPair[2]].data \in Row
  <2>1. dataPair[2] \in Subbands
    BY DEF TypeOK, WriterTypeOK
  <2>. QED BY <2>1 DEF TypeOK, CalcTypeOK
<1>2. ASSUME UNCHANGED <<writeMap, writeBlockNr, subbandWritten, wpc, dataPair, table, brought>>
      PROVE  OnceInv' /\ TablesLevel'
  BY <1>2 DEF WriterInv, OnceInv, TablesLevel, InHand
<1>3. CASE WriterStep(dataBlockOutput[dataPair[2]].data) /\ UNCHANGED calcVars
  <2>1. OnceInv' /\ TablesLevel'
    BY <1>1, <1>3, WriterStepOnce, WriterStepLevel
  <2>2. brought' = brought
    BY <1>3 DEF WriterStep, WriterLoop, GetData, GetNothing, WriteRow, KeepWaiting, SkipSubbands
  <2>. QED BY <1>3, <2>1, <2>2 DEF LinkInv, calcVars
<1>4. ASSUME NEW t \in CalcThreads, WriteSubband(task[t][1], task[t][2]), DataReady(t)
      PROVE  OnceInv' /\ TablesLevel' /\ LinkInv'
  <2>. DEFINE b == task[t][1]  s == task[t][2]
  <2>1. b \in Blocks /\ s \in Subbands /\ task[t] = <<b, s>>
    BY DEF TypeOK, CalcTypeOK
  <2>2. /\ tpc[t] = "calc" /\ calculated' = Append(calculated, task[t])
        /\ brought' = brought \cup {<<b, s>>}
        /\ UNCHANGED <<writeBlockNr, subbandWritten, table>>
    BY <1>4 DEF DataReady, ThreadGoto, WriteSubband
  <2>3. <<b, s>> \notin Range(calculated)
    BY <2>1, <2>2 DEF CalcInv, PlaceInv, Calculating
  <2>4. OnceInv'
    BY <1>4, <2>1, <2>3, WriteSubbandOnce DEF LinkInv
  <2>5. TablesLevel'
    BY <2>2 DEF WriterInv, TablesLevel
  <2>6. Range(Append(calculated, task[t])) = Range(calculated) \cup {task[t]}
    <3>. DEFINE n == Len(calculated)
                a == Append(calculated, task[t])
    <3>1. /\ a \in Seq(Blocks \X Subbands) /\ Len(a) = n + 1 /\ n \in Nat
          /\ \A i \in 1..n : a[i] = calculated[i]
          /\ a[n + 1] = task[t]
      <4>1. task[t] \in Blocks \X Subbands
        BY DEF TypeOK, CalcTypeOK
      <4>2. n \in Nat
        BY <1>1, LenProperties
      <4>. QED BY <1>1, <4>1, <4>2, AppendProperties
    <3>2. DOMAIN a = 1..(n + 1) /\ DOMAIN calculated = 1..n
      BY <1>1, <3>1, LenProperties
    <3>3. 1..(n + 1) = 1..n \cup {n + 1}
      BY <3>1
    <3>. QED BY <3>1, <3>2, <3>3 DEF Range
  <2>7. LinkInv'
    BY <2>1, <2>2, <2>6 DEF LinkInv
  <2>. QED BY <2>4, <2>5, <2>7
<1>5. CASE StopWriter /\ UNCHANGED calcVars
  BY <1>2, <1>5 DEF StopWriter, calcVars, LinkInv
<1>6. CASE UNCHANGED writerVars /\ UNCHANGED calculated
  BY <1>2, <1>6 DEF writerVars, LinkInv
<1>7. CASE UNCHANGED writerVars /\ \E t \in CalcThreads : PrivateStep(t) \/ CompleteBlock(t)
  <2>1. calculated' = calculated
    BY <1>7 DEF PrivateStep, CompleteBlock, ThreadLoop, WaitForData, SpuriousWakeup,
      TakeSubband, ThreadReturns, MarkReady, TestChecking, ClaimChecking, ScanReady, ScanTorn,
      NotComplete
  <2>. QED BY <1>6, <1>7, <2>1
<1>. QED BY <1>3, <1>4, <1>5, <1>6, <1>7, WriterSees

\* Type correctness of bf2h5 for any number of threads, subbands, blocks and buffers,
\* whether or not two threads may complete a block at the same time.
THEOREM PipelineTypeCorrect == Spec => []TypeOK
<1>1. Init => TypeOK /\ PollInv /\ MainInv
  BY PipelineInit DEF WriterInv
<1>. QED BY <1>1, PipelineTypeStep, PTL DEF Spec

\* bf2h5 implements the calculator's own specification, in which the parent hands over
\* any number of blocks in order and stops only a calculator that is not processing:
\* what holds of the calculator holds in bf2h5.
THEOREM CalculatorUsedAsMeant == Spec => UsesCalculator
<1>1. Init => CalcInit /\ TypeOK /\ PollInv /\ MainInv
  BY PipelineInit DEF Init, WriterInv
<1>2. TypeOK /\ MainInv /\ [Next]_vars => [CalcNext]_calcVars
  BY CalculatorSees
<1>. QED BY <1>1, <1>2, PipelineTypeStep, PTL DEF Spec, UsesCalculator, CalcSpec

\* The inductive invariant of bf2h5.
THEOREM PipelineInvariant == Spec => []PipelineInv
<1>1. Init => PipelineInv
  BY PipelineInit DEF PipelineInv
<1>2. PipelineInv /\ [Next]_vars => PipelineInv'
  <2>. SUFFICES ASSUME PipelineInv, [Next]_vars PROVE PipelineInv'
    OBVIOUS
  <2>1. TypeOK' /\ PollInv' /\ MainInv'
    BY PipelineTypeStep DEF PipelineInv, WriterInv
  <2>2. CalcInv'
    BY CalculatorSees, CalcStep DEF PipelineInv
  <2>3. OnceInv' /\ TablesLevel' /\ LinkInv'
    BY PipelineWriterStep
  <2>. QED BY <2>1, <2>2, <2>3 DEF PipelineInv, WriterInv, TypeOK
<1>. QED BY <1>1, <1>2, PTL DEF Spec

\* The tables of all subbands grow together, whatever the threads' order, however late
\* their results and whatever two threads do that check at once: no subband of a block
\* reaches the writer twice.
THEOREM TablesStayLevel == Spec => []TablesLevel
<1>1. PipelineInv => TablesLevel
  BY DEF PipelineInv, WriterInv
<1>. QED BY <1>1, PipelineInvariant, PTL

\* Inside bf2h5 every subband is calculated once; and as long as no two threads are past
\* the test of checking_completeness, blocks are calculated in order and whole, and a
\* thread is left for the next one.
THEOREM PipelineCalculates == Spec => [](BlocksInOrder /\ CalculatedOnce /\ SomeThreadLeft)
<1>1. CalcInv => BlocksInOrder /\ CalculatedOnce /\ SomeThreadLeft
  BY DEF CalcInv, PlaceInv, InOrderInv, ResultInv, BlocksInOrder, SomeThreadLeft
<1>2. Spec => CalcSpec
  BY CalculatorUsedAsMeant DEF UsesCalculator
<1>. QED BY <1>1, <1>2, CalculatorInvariant, PTL
=============================================================================
