------------------------------- MODULE TBBraw -------------------------------
(* A TBBraw object: frames of raw TBB data come in one after the other, each is  *)
(* checked, its time stamp is repaired, and it is written into the array of its  *)
(* dipole at the place its time stamp gives it.  Stations and dipoles get their  *)
(* groups and arrays, and a place in two tables of fixed size, when their first  *)
(* frame comes.                                                                  *)
(*                                                                               *)
(* A dipole is <<station, rcu>>.  Frames come off the network: in any order and  *)
(* more than once, or (InOrder) in the order of each dipole, with gaps.          *)
EXTENDS TimeStamps, Sequences, SequencesExt

CONSTANTS
    Settings,       \* the settings an event may be recorded in
    MaxStations,    \* MAX_NO_STATIONS
    MaxDipoles,     \* MAX_NO_DIPOLES
    Word,           \* 2^32, in half frames
    MaxLost,        \* bound: frames lost in a row when they come in order
    MaxObjects      \* bound: TBBraw objects made one after the other

FixTimes   == setting.fixTimes        \* fixTimes_p: 0, 1 or 2
Dipoles    == setting.dipoles         \* <<station, rcu>>
InOrder    == setting.inOrder         \* each dipole's frames come in order
Frames     == 0..setting.lastFrame    \* bound: frames of a dipole
MaxBlocks  == setting.maxBlocks       \* bound: calls of processTBBrawBlock
Station(d) == d[1]

ASSUME TBBrawAssumption ==
    /\ \A s \in Settings :
         /\ s.clock \in {160, 200} /\ s.halfParity \in {0, 1}
         /\ s.stampStyle \in {"right", "old", "new"} /\ s.fixTimes \in 0..2
         /\ s.inOrder \in BOOLEAN
         /\ s.lastFrame \in Nat /\ s.maxBlocks \in Nat
    /\ MaxStations \in Nat /\ MaxDipoles \in Nat
    /\ Word \in Nat \ {0} /\ Word % 2 = 0
    /\ MaxLost \in Nat /\ MaxObjects \in Nat \ {0}

VARIABLES
    connected,       \* dataset_p # NULL
    stationBuf,      \* IDs of the stations that have a group
    dipoleBuf,       \* the dipoles that have an array
    oddSecond,       \* static in fixDateOld: outlives the object
    nofProcessed, nofDiscardedHeader,
    sent,            \* history: good frames passed to this object, per dipole
    latest,          \* history: the latest frame of each dipole, -1 before the first
    objects          \* history: TBBraw objects made so far

vars == <<connected, stationBuf, dipoleBuf, oddSecond, nofProcessed,
          nofDiscardedHeader, sent, latest, objects, setting>>

\* An entry of dipoleBuf: the stamp of the first frame (starttime, startsamplenum),
\* the size of the array, and what was written where; first is that frame.
Entry == [ID : Dipoles, time : Int, sample : Int, dimension : Nat,
          writes : SUBSET (Nat \X Frames), first : Frames]

TypeOK ==
    /\ setting \in Settings
    /\ connected \in BOOLEAN
    /\ stationBuf \in Seq({Station(d) : d \in Dipoles}) /\ Len(stationBuf) <= MaxStations
    /\ dipoleBuf \in Seq(Entry) /\ Len(dipoleBuf) <= MaxDipoles
    /\ oddSecond \in BOOLEAN
    /\ nofProcessed \in Nat /\ nofDiscardedHeader \in Nat
    /\ sent \in [Dipoles -> SUBSET Frames]
    /\ latest \in [Dipoles -> Frames \cup {-1}]
    /\ objects \in 1..MaxObjects

\* init, and an open_file that may fail.
Init ==
    /\ setting \in Settings
    /\ connected \in BOOLEAN
    /\ stationBuf = <<>> /\ dipoleBuf = <<>>
    /\ oddSecond = FALSE
    /\ nofProcessed = 0 /\ nofDiscardedHeader = 0
    /\ sent = [d \in Dipoles |-> {}]
    /\ latest = [d \in Dipoles |-> -1]
    /\ objects = 1

-----------------------------------------------------------------------------
(* processTBBrawBlock.                                                          *)

\* A 32 bit unsigned value, read as int.
ToInt(x) == LET u == x % Word IN IF u >= Word \div 2 THEN u - Word ELSE u

FixedStamp(h) ==
    CASE FixTimes = 0 -> h
      [] FixTimes = 1 -> FixDateOld(h, oddSecond)
      [] FixTimes = 2 -> FixDateNew(h)

HasArray(d) == \E i \in DOMAIN dipoleBuf : dipoleBuf[i].ID = d

\* createNewDipole and createNewStation: both tables as they are after a frame of d.
StationsWith(d) ==
    IF Station(d) \in ToSet(stationBuf) \/ ~connected \/ Len(stationBuf) = MaxStations
    THEN stationBuf
    ELSE Append(stationBuf, Station(d))

\* Fault: one dipole too many.
HasRoomOneMore(d) ==
    /\ Station(d) \in ToSet(StationsWith(d))
    /\ Len(dipoleBuf) <= MaxDipoles

HasRoom(d) ==
    /\ Station(d) \in ToSet(StationsWith(d))
    /\ Len(dipoleBuf) < MaxDipoles

NewEntry(d, h, g) ==
    [ID |-> d, time |-> h.time, sample |-> h.sample, dimension |-> 1,
     writes |-> {}, first |-> g]

\* addDataToDipole: the place of a frame in the array ...
WriteOffset(e, h) == ToInt((h.sample - e.sample) + (h.time - e.time) * Rate)

\* Fault: the array takes the size the latest frame requires.
WithFrameResized(e, h, g) ==
    LET o == WriteOffset(e, h) IN
    IF o < 0 THEN e
    ELSE [e EXCEPT !.dimension = o + 2, !.writes = @ \cup {<<o, g>>}]

\* ... and what it does to the array: a frame before the first one is discarded.
WithFrame(e, h, g) ==
    LET o == WriteOffset(e, h) IN
    IF o < 0 THEN e
    ELSE [e EXCEPT !.dimension = IF o + 2 > @ THEN o + 2 ELSE @,
                   !.writes = @ \cup {<<o, g>>}]

\* Fault: a dipole that finds the table full is given the last place in it.
DipolesWithOverrun(d, h, g) ==
    IF HasArray(d)
    THEN [i \in DOMAIN dipoleBuf |-> IF dipoleBuf[i].ID = d
                                     THEN WithFrame(dipoleBuf[i], h, g)
                                     ELSE dipoleBuf[i]]
    ELSE IF HasRoom(d) THEN Append(dipoleBuf, WithFrame(NewEntry(d, h, g), h, g))
    ELSE [i \in DOMAIN dipoleBuf |-> IF i = MaxDipoles
                                     THEN WithFrame(NewEntry(d, h, g), h, g)
                                     ELSE dipoleBuf[i]]

DipolesWith(d, h, g) ==
    IF HasArray(d)
    THEN [i \in DOMAIN dipoleBuf |-> IF dipoleBuf[i].ID = d
                                     THEN WithFrame(dipoleBuf[i], h, g)
                                     ELSE dipoleBuf[i]]
    ELSE IF HasRoom(d) THEN Append(dipoleBuf, WithFrame(NewEntry(d, h, g), h, g))
    ELSE dipoleBuf

\* The frames the network may bring next.
Deliverable(d) ==
    IF ~InOrder THEN Frames
    ELSE IF latest[d] = -1 THEN {g \in Frames : ~Ambiguous(g)}
    ELSE {g \in Frames : latest[d] < g /\ g <= latest[d] + 1 + MaxLost}

\* A frame of dipole d with a header that is in order.
GoodBlock(d, g) ==
    /\ nofProcessed < MaxBlocks
    /\ g \in Deliverable(d)
    /\ dipoleBuf' = DipolesWith(d, FixedStamp(Stamp(g)), g)
    /\ oddSecond' = IF FixTimes = 1 THEN OddSecond(Stamp(g), oddSecond) ELSE oddSecond
    /\ stationBuf' = IF HasArray(d) THEN stationBuf ELSE StationsWith(d)
    /\ nofProcessed' = nofProcessed + 1
    /\ sent' = [sent EXCEPT ![d] = @ \cup {g}]
    /\ latest' = [latest EXCEPT ![d] = g]
    /\ UNCHANGED <<connected, nofDiscardedHeader, objects, setting>>

\* The header's CRC is wrong.
BrokenBlock ==
    /\ nofProcessed < MaxBlocks
    /\ nofProcessed' = nofProcessed + 1
    /\ nofDiscardedHeader' = nofDiscardedHeader + 1
    /\ UNCHANGED <<connected, stationBuf, dipoleBuf, oddSecond, sent, latest, objects,
                   setting>>

\* n_freq_bands # 0.
SubbandBlock ==
    /\ nofProcessed < MaxBlocks
    /\ nofProcessed' = nofProcessed + 1
    /\ UNCHANGED <<connected, stationBuf, dipoleBuf, oddSecond, nofDiscardedHeader,
                   sent, latest, objects, setting>>

\* The object is destroyed and another one made, for another event.
NewObject ==
    /\ objects < MaxObjects
    /\ objects' = objects + 1
    /\ connected' \in BOOLEAN
    /\ stationBuf' = <<>> /\ dipoleBuf' = <<>>
    /\ nofProcessed' = 0 /\ nofDiscardedHeader' = 0
    /\ sent' = [d \in Dipoles |-> {}]
    /\ UNCHANGED <<oddSecond, latest, setting>>

Next ==
    \/ \E d \in Dipoles, g \in Frames : GoodBlock(d, g)
    \/ BrokenBlock \/ SubbandBlock \/ NewObject

Spec == Init /\ [][Next]_vars

-----------------------------------------------------------------------------
(* Properties.                                                                  *)

\* What an array e holds is where its distance from the first frame puts it; and is
\* what has come of the frames S since the first one.
InPlace(e) == \A w \in e.writes : w[1] = 2 * (w[2] - e.first)

Whole(e, S) ==
    /\ {w[2] : w \in e.writes} = {g \in S : g >= e.first}
    /\ \A w \in e.writes : w[1] + 2 <= e.dimension
    /\ \E w \in e.writes : w[1] + 2 = e.dimension

\* Every block in an array is where the time it was taken puts it, relative to the
\* array's first block, whatever order the frames came in, whatever was lost, and
\* although their time stamps were wrong.
Aligned == \A i \in DOMAIN dipoleBuf : InPlace(dipoleBuf[i])

\* An array holds every block of its dipole that came, but those taken before the
\* first one, and is as long as its last block requires.
Complete == \A i \in DOMAIN dipoleBuf : Whole(dipoleBuf[i], sent[dipoleBuf[i].ID])

\* A dipole has one array and a station one group, a dipole's station has a group,
\* and a dipole is refused only when there is no file, no room for its station, or,
\* its station being there, no room for the dipole: frames of a refused dipole cost the
\* others nothing.
TablesSound ==
    /\ \A i, j \in DOMAIN dipoleBuf : dipoleBuf[i].ID = dipoleBuf[j].ID => i = j
    /\ \A i, j \in DOMAIN stationBuf : stationBuf[i] = stationBuf[j] => i = j
    /\ \A i \in DOMAIN dipoleBuf : Station(dipoleBuf[i].ID) \in ToSet(stationBuf)
    /\ \A d \in Dipoles : sent[d] # {} /\ ~HasArray(d) =>
          \/ ~connected
          \/ Station(d) \notin ToSet(stationBuf) /\ Len(stationBuf) = MaxStations
          \/ Station(d) \in ToSet(stationBuf) /\ Len(dipoleBuf) = MaxDipoles

\* The settings in which the repair that is asked for restores every stamp: the old
\* one at 200 MHz follows a single dipole through its seconds, and must not lose a
\* whole one; and events so short that the differences of stamps do not wrap.
Repaired(s) ==
    /\ \/ s.stampStyle = "right" /\ s.fixTimes = 0
       \/ s.stampStyle = "new" /\ s.fixTimes = 2 /\ (s.clock = 160 \/ s.halfParity = 0)
       \/ s.stampStyle = "old" /\ s.fixTimes = 1 /\ s.clock = 160
       \/ /\ s.stampStyle = "old" /\ s.fixTimes = 1 /\ s.halfParity = 1
          /\ s.inOrder /\ MaxLost + 1 < K /\ \A d, e \in s.dipoles : d = e
    /\ 4 * s.lastFrame < Word

\* What Aligned rests on: oddSecond says whether the frame before was of an odd second,
\* and an entry's stamp is its first frame's true one.
OddInv == StampStyle = "old" /\ Clock = 200 => \A d \in Dipoles :
    oddSecond <=> latest[d] # -1 /\ Halved(TrueStamp(latest[d]))

Stamped(e) == [time |-> e.time, sample |-> e.sample] = TrueStamp(e.first)
StampInv == \A i \in DOMAIN dipoleBuf : Stamped(dipoleBuf[i])

\* What Complete and TablesSound rest on as well: without a file no dipole is accepted.
NoStations == ~connected => stationBuf = <<>>

IInv == /\ TypeOK /\ OddInv /\ StampInv /\ Aligned /\ Complete
        /\ TablesSound /\ NoStations

\* addDataToDipole writes only blocks that come after the first one of the array.
FrontDiscarded ==
    \A i \in DOMAIN dipoleBuf : \A w \in dipoleBuf[i].writes : w[2] >= dipoleBuf[i].first
=============================================================================
