---------------------------- MODULE TBBStations ----------------------------
(* TBBraw2h5 for several stations (option -M): readStationsFromSockets takes the *)
(* frames of all stations out of one ring buffer and keeps one output file per   *)
(* station.  A file is closed when no frame comes for readTimeout, and replaced   *)
(* when a frame's time stamp is more than readTimeout after the last one written. *)
(*                                                                                *)
(* The main thread works on a frame in the buffer, and reads it there again and   *)
(* again: its station, its time stamp, the frame itself when it is written, and   *)
(* its time stamp once more.  A reader may have stored another frame over it in   *)
(* between.  What a frame holds is chosen when the main thread first reads it.    *)
EXTENDS SocketReader, FiniteSets

CONSTANTS
    Stations,        \* station numbers in the frames
    MaxTime,         \* bound: time stamps are 0..MaxTime, in seconds
    MaxGap,          \* ceil(readTimeout), in seconds
    IdlePolls,       \* 0.1 second polls in readTimeout
    OpenMayFail      \* an output file may fail to open

ASSUME StationsAssumption ==
    /\ StayConnected
    /\ MaxEvents = 1
    /\ Stations # {}
    /\ MaxTime \in Nat /\ MaxGap \in Nat /\ IdlePolls \in Nat
    /\ OpenMayFail \in BOOLEAN

Times   == 0..MaxTime
Garbage == (-1 - MaxGap)..MaxTime   \* what lasttimes may hold uninitialised

VARIABLES
    mpc, toStart, regM, amWaiting, processingID,
    stationId,            \* of the frame in hand, as read first
    frame,                \* what the main thread read last in the slot
    first,                \* history: the frame it took in hand there
    TBBfiles,             \* the TBBraw object of each station
    lasttimes,            \* time stamp last written, per station
    written,              \* history: the frames written to the open file
    handled               \* history: frames handed to processTBBrawBlock

frameVars == <<processingID, stationId, frame, first>>
fileVars  == <<TBBfiles, lasttimes, written>>
mainVars  == <<mpc, toStart, regM, amWaiting, frameVars, fileVars, handled>>
vars == <<readerVars, mainVars>>

\* A frame as it is written to a file; kept unless the slot was overwritten in hand.
Entry == [station : Stations, time : Times, kept : BOOLEAN]

TypeOK ==
    /\ ReaderTypeOK
    /\ mpc \in {"init", "spawn", "inc", "incWrite", "loop", "file", "process", "note",
                "returned"}
    /\ toStart \subseteq Ports
    /\ regM \in Int
    /\ amWaiting \in 0..(IdlePolls + 1)
    /\ processingID \in Slots
    /\ stationId \in Stations /\ first \in Nat
    /\ frame \in [no : Nat, station : Stations, time : Times]
    /\ TBBfiles \in [Stations -> {"null", "open", "broken"}]
    /\ lasttimes \in [Stations -> Garbage]
    /\ written \in [Stations -> Seq(Entry)]
    /\ handled \in Seq(Nat)

Init ==
    /\ ReaderInit
    /\ keepRunning
    /\ mpc = "init"
    /\ toStart = {} /\ regM = 0 /\ amWaiting = 0 /\ processingID = 0
    /\ stationId = (CHOOSE s \in Stations : TRUE) /\ first = NoFrame
    /\ frame = [no |-> NoFrame, station |-> stationId, time |-> 0]
    /\ TBBfiles = [s \in Stations |-> "null"]
    /\ lasttimes \in [Stations -> Garbage]
    /\ written = [s \in Stations |-> <<>>]
    /\ handled = <<>>

-----------------------------------------------------------------------------
(* readStationsFromSockets.                                                     *)

MainGoto(from, to) == alive /\ mpc = from /\ mpc' = to

\* The globals are as ReaderInit has them; lasttimes is left uninitialised.
StartStations ==
    /\ MainGoto("init", "spawn")
    /\ toStart' = Ports
    /\ UNCHANGED <<readerVars, regM, amWaiting, frameVars, fileVars, handled>>

SpawnThread(p) ==
    /\ MainGoto("spawn", "inc")
    /\ p \in toStart
    /\ toStart' = toStart \ {p}
    /\ rpc' = [rpc EXCEPT ![<<1, p>>] = "socket"]
    /\ UNCHANGED <<alive, ringVars, inBufProcessID, flagVars, netVars, countVars,
                   slices, writeMutex, regM, amWaiting, frameVars, fileVars, handled>>

IncRead ==
    /\ MainGoto("inc", "incWrite")
    /\ regM' = noRunning
    /\ UNCHANGED <<readerVars, toStart, amWaiting, frameVars, fileVars, handled>>

IncWrite ==
    /\ MainGoto("incWrite", IF toStart = {} THEN "loop" ELSE "spawn")
    /\ noRunning' = regM + 1
    /\ lost' = lost \cup Overwritten(regM)
    /\ UNCHANGED <<alive, ringVars, inBufProcessID, flagVars, netVars, regR,
                   threadVars, writeMutex, toStart, regM, amWaiting, frameVars,
                   fileVars, handled>>

\* The buffer is empty: sleep, and after readTimeout close every file.
Idle ==
    /\ MainGoto("loop", "loop")
    /\ noRunning > 0
    /\ inBufStorID = inBufProcessID
    /\ amWaiting' = IF amWaiting > IdlePolls THEN amWaiting ELSE amWaiting + 1
    /\ IF amWaiting' > IdlePolls
       THEN /\ TBBfiles' = [s \in Stations |-> "null"]
            /\ written' = [s \in Stations |-> <<>>]
       ELSE UNCHANGED <<TBBfiles, written>>
    /\ UNCHANGED <<readerVars, toStart, regM, frameVars, lasttimes, handled>>

\* What reading slot s gives: what it gave before if it still holds the same frame.
Seen(s) == IF slot[s] = frame.no THEN {frame}
           ELSE [no : {slot[s]}, station : Stations, time : Times]

\* A frame is there: look at its station.
TakeFrame ==
    /\ MainGoto("loop", "file")
    /\ inBufStorID # inBufProcessID
    /\ amWaiting' = 0
    /\ processingID' = NextSlot(inBufProcessID)
    /\ frame' \in Seen(NextSlot(inBufProcessID))
    /\ stationId' = frame'.station /\ first' = frame'.no
    /\ UNCHANGED <<readerVars, toStart, regM, fileVars, handled>>

\* Fault: a station keeps its file however late the frame is.
NeedsFileOnce(time) == TBBfiles[stationId] = "null"

NeedsFile(time) == \/ TBBfiles[stationId] = "null"
                   \/ time > lasttimes[stationId] + MaxGap

\* A new file for the station, in place of the one it has, if the frame's time stamp
\* wants one; if it fails to open the reader threads are told to end, and the frame is
\* processed all the same.
OpenFile ==
    /\ MainGoto("file", "process")
    /\ frame' \in Seen(processingID)
    /\ NeedsFile(frame'.time)
    /\ \/ TBBfiles' = [TBBfiles EXCEPT ![stationId] = "open"] /\ UNCHANGED terminateThreads
       \/ /\ OpenMayFail
          /\ TBBfiles' = [TBBfiles EXCEPT ![stationId] = "broken"]
          /\ terminateThreads' = TRUE
    /\ written' = [written EXCEPT ![stationId] = <<>>]
    /\ UNCHANGED <<alive, ringVars, inBufProcessID, keepRunning, lastEvent, netVars,
                   countVars, threadVars, writeMutex, toStart, regM, amWaiting,
                   processingID, stationId, first, lasttimes, handled>>

KeepFile ==
    /\ MainGoto("file", "process")
    /\ frame' \in Seen(processingID)
    /\ ~NeedsFile(frame'.time)
    /\ UNCHANGED <<readerVars, toStart, regM, amWaiting, processingID, stationId, first,
                   fileVars, handled>>

\* inBufProcessID = processingID: the main thread is done with frame number no.
NextFrame(no) ==
    /\ inBufProcessID' = processingID
    /\ handled' = Append(handled, no)

\* processTBBrawBlock reads the frame and writes it to the station's file ...
ProcessFrame ==
    /\ MainGoto("process", "note")
    /\ TBBfiles[stationId] = "open"
    /\ frame' \in Seen(processingID)
    /\ UNCHANGED <<readerVars, toStart, regM, amWaiting, processingID, stationId, first,
                   fileVars, handled>>

\* ... or returns false: the frame's header is broken, or the object has no file.
RejectFrame ==
    /\ MainGoto("process", "loop")
    /\ frame' \in Seen(processingID)
    /\ NextFrame(frame'.no)
    /\ UNCHANGED <<alive, ringVars, flagVars, netVars, countVars, threadVars, writeMutex,
                   toStart, regM, amWaiting, processingID, stationId, first, fileVars>>

\* The time stamp in the slot is the station's last one.
NoteTime ==
    /\ MainGoto("note", "loop")
    /\ frame' \in Seen(processingID)
    /\ lasttimes' = [lasttimes EXCEPT ![stationId] = frame'.time]
    /\ written' = [written EXCEPT ![stationId] = Append(@,
         [station |-> frame.station, time |-> frame.time, kept |-> frame'.no = first])]
    /\ NextFrame(frame.no)
    /\ UNCHANGED <<alive, ringVars, flagVars, netVars, countVars, threadVars, writeMutex,
                   toStart, regM, amWaiting, processingID, stationId, first, TBBfiles>>

\* Fault: the loop ends as soon as no thread is running.
EndLoopEarly ==
    /\ MainGoto("loop", "returned")
    /\ ~(noRunning > 0)
    /\ terminateThreads' = TRUE
    /\ alive' = FALSE
    /\ UNCHANGED <<ringVars, inBufProcessID, keepRunning, lastEvent, netVars,
                   countVars, threadVars, writeMutex, toStart, regM, amWaiting,
                   frameVars, fileVars, handled>>

\* The loop ends; only the array of pointers is deleted, and main returns 1.
EndLoop ==
    /\ MainGoto("loop", "returned")
    /\ ~(noRunning > 0) /\ inBufStorID = inBufProcessID
    /\ terminateThreads' = TRUE
    /\ alive' = FALSE
    /\ UNCHANGED <<ringVars, inBufProcessID, keepRunning, lastEvent, netVars,
                   countVars, threadVars, writeMutex, toStart, regM, amWaiting,
                   frameVars, fileVars, handled>>

MainStep ==
    \/ StartStations \/ (\E p \in Ports : SpawnThread(p)) \/ IncRead \/ IncWrite
    \/ Idle \/ TakeFrame \/ OpenFile \/ KeepFile \/ ProcessFrame \/ RejectFrame
    \/ NoteTime \/ EndLoop

Others ==
    /\ \/ \E t \in Threads : ReaderStep(t)
       \/ \E p \in Ports : Arrive(p)
       \/ Signal
    /\ UNCHANGED mainVars

Ended == ~alive /\ UNCHANGED vars

Next == MainStep \/ Others \/ Ended

Spec == Init /\ [][Next]_vars

\* The operating system runs every thread, and every select and every sleep ends.
Fairness ==
    /\ WF_vars(MainStep)
    /\ \A t \in Threads : WF_vars(ReaderStep(t) /\ UNCHANGED mainVars)

FairSpec == Spec /\ Fairness

-----------------------------------------------------------------------------
(* Properties.                                                                  *)

\* A file holds one event of one station: no frame in it is another station's, or more
\* than readTimeout later than the one written before, although lasttimes starts out as
\* garbage, keeps what a closed file left, and is not updated by a frame that is
\* rejected.  That is so of the frames that nobody stored another frame over while the
\* main thread had them in hand; which happens to none as long as none was dropped.
OneEventPerFile == \A s \in Stations :
    /\ \A i \in DOMAIN written[s] :
         /\ written[s][i].kept => written[s][i].station = s
         /\ noFramesDropped = 0 => written[s][i].kept
    /\ \A i \in 1..(Len(written[s]) - 1) : written[s][i].kept /\ written[s][i + 1].kept
         => written[s][i + 1].time <= written[s][i].time + MaxGap

\* What option -M is for, one file per station, of every frame.
OneStationPerFile == \A s \in Stations : \A i \in DOMAIN written[s] :
    written[s][i].station = s

\* Every frame received is handled once, in order, or counted as dropped, also
\* when several stations share the buffer and files are opened in between; when
\* the function returns none is left in the buffer, unless the race on noRunning has
\* lost one of the main thread's noRunning++.
AllHandled ==
    /\ \A i \in 1..(Len(handled) - 1) : handled[i] < handled[i + 1]
    /\ mpc = "returned" /\ "inc" \notin lost => Len(handled) + noFramesDropped = recvd

\* After a signal, or when a file could not be opened, the program ends, although
\* its threads otherwise stay connected for ever; unless the race on noRunning has
\* lost a thread's noRunning--.
EndsWhenTold ==
    lastEvent \/ terminateThreads ~> mpc = "returned" \/ "dec" \in lost

\* The signal handler promises to wait for the last event to be written: no file is
\* left open when the function returns.
FilesClosed == mpc = "returned" => \A s \in Stations : TBBfiles[s] = "null"

\* What these rest on: a thread is not there before it is started; the main thread is
\* at the slot after inBufProcessID, in a buffer that is not empty; every frame received
\* is in exactly one place; noRunning counts the running threads but for one that main
\* has just started, and for updates that were overwritten, so that the loop ends with
\* nothing left.
StartInv ==
    /\ mpc = "init" => \A t \in Threads : rpc[t] = "none"
    /\ \A p \in toStart : mpc # "init" => rpc[<<1, p>>] = "none"
    /\ mpc \notin {"init", "spawn", "inc", "incWrite"} => toStart = {}

InHand == mpc \in {"file", "process", "note"}

ProcessInv == InHand =>
    /\ inBufStorID # inBufProcessID
    /\ processingID = NextSlot(inBufProcessID)

FramesAccounted ==
    recvd + Bit(OverflowPending)
      = Len(handled) + Cached + Bit(StorePending) + noFramesDropped

Counts ==
    LET counted == noRunning + Bit(mpc \in {"inc", "incWrite"}) IN
      /\ IsFiniteSet(Running)
      /\ "inc" \notin lost => counted >= Cardinality(Running)
      /\ "dec" \notin lost => counted <= Cardinality(Running)

EndInv == mpc = "returned" =>
    /\ ~alive
    /\ inBufStorID = inBufProcessID
    /\ "inc" \notin lost => Running = {}

\* The frame in hand is newer than those handled; what the slot holds by now is newer
\* still, or that frame, and that frame unless one was dropped.
HandInv == InHand =>
    /\ 0 < first /\ first <= frame.no /\ frame.no <= slot[processingID]
    /\ \A i \in DOMAIN handled : handled[i] < first
    /\ noFramesDropped = 0 => slot[processingID] = first

\* lasttimes is the time of the last frame in a file that has one, and the frame in hand
\* fits to it; in both cases if it is still the frame it was when taken in hand.
FrameFits ==
    /\ frame.station = stationId
    /\ mpc # "file" => \/ written[stationId] = <<>>
                       \/ frame.time <= lasttimes[stationId] + MaxGap

FileInv ==
    /\ \A s \in Stations :
         LET f == written[s] IN f # <<>> /\ f[Len(f)].kept => lasttimes[s] = f[Len(f)].time
    /\ InHand /\ frame.no = first => FrameFits
    /\ OneEventPerFile

BaseInv == TypeOK /\ MutexInv /\ SocketInv /\ StartInv
IInv == /\ BaseInv /\ SlotInv /\ ProcessInv /\ FramesAccounted
        /\ RingInOrder(handled) /\ Counts /\ EndInv /\ OverflowInv /\ HandInv /\ FileInv
=============================================================================
