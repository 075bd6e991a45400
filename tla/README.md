# DAL in TLA+

Specifications of the parts of the Data Access Library (DAL) that are hard to
test: the programs that take LOFAR data off the network with several threads and
turn them into HDF5 files, and the classes that keep datasets, identifiers and
selections of such files. Modules (`*.tla`), the TLC runs (`MC*.cfg`), proofs
for TLAPS (`*_proofs.tla`) and `PROJECT.json`, which ties every definition to the
lines of source it stands for and every property to a fault that breaks it.

Source paths below are relative to the repository's `src/`.

    tlc -config MCRing.cfg MCTBBraw2h5.tla       # one run
    tlapm TBBraw2h5_proofs.tla                   # one module's proofs

## 1. The system

| Component | Source | State it keeps | Operations | Modelled by |
|---|---|---|---|---|
| TBBraw2h5 reader threads | `apps/TBBraw2h5.cpp` 156-182, 580-742 | ring buffer of frames and two indices, count of running threads, flags, a mutex, one socket per thread | wait for first data, receive, store, overflow, time out, end | `SocketReader` |
| single station mode | `apps/TBBraw2h5.cpp` 764-909, 1400-1429 | the event in progress, one TBBraw object | start threads, take frames, open, close, restart | `TBBraw2h5` |
| multiple station mode | `apps/TBBraw2h5.cpp` 928-1097 | one TBBraw object and last time stamp per station | the same, with a file per station closed after a silence and replaced after a gap | `TBBStations` |
| TBBraw | `dal/data_hl/TBBraw.cc` | tables of 50 stations and 1000 dipoles, an HDF5 array per dipole, counters | check a frame, repair its time stamp, create station and dipole, write | `TBBraw`, `TimeStamps` |
| bf2h5 calculator | `apps/bf2h5/Bf2h5Calculator.cpp` | map of blocks to subbands not yet taken, flags of finished subbands, current block, a mutex and a condition | hand over a block, take, calculate, complete, stop | `Bf2h5Calculator` |
| bf2h5 writer | `apps/bf2h5/HDF5Writer.cpp` | map of blocks to calculated subbands, current block, flags, timeout counter, one table per subband | bring a subband, write, give up a block, stop | `HDF5Writer` |
| bf2h5 pipeline | `apps/bf2h5/bf2h5.cpp`, `.h` | read buffers and their tracker | read, switch buffer, hand over, drain, stop | `BF2H5` |
| bf2h5 reader | `apps/bf2h5/StationBeamReader.cpp` | the source, `finished_reading` | read a block | in `BF2H5`, reduced to a block or the end of the stream |
| TBB, tbb2h5 | `dal/data_hl/TBB.cc`, `apps/tbb2h5.cpp` | as TBBraw, one thread | | not yet |
| HDF5Dataset, HDF5Hyperslab | `dal/core/HDF5Dataset.*`, `HDF5Hyperslab.cc` | a dataset's identifiers, its dataspace with a selection, the shape it had | open, create, select, extend, read, write | `HDF5Dataset`, `ExtendibleArray` |
| TBB time series | `dal/data_hl/TBB_Timeseries.*`, `TBB_StationGroup.cc`, `TBB_DipoleDataset.cc` | stations by name with the dipoles selected in each, the selected datasets | open, select, ask for offsets, reference antenna and length, read | `TBBTimeseries` |
| beam-formed file | `dal/data_hl/BF_*.cc`, `dal/data_common/HDF5GroupBase.cc` | maps of pointings, beams and Stokes datasets opened, HDF5 identifiers | open or make each level, copy, destroy | `BFRootGroup` |
| IO_Mode | `dal/core/IO_Mode.cc` | a set of flags | | what `open` does for a flag is in the three modules above |
| HDF5 object layer | `dal/core/HDF5Object.cc` and others | HDF5 identifiers | | `openFile` and the life of identifiers, in `BFRootGroup` |
| dalDataset and its parts | `dal/core/dal*.cc` | an open file of one of three formats | | no: the calls TBBraw makes are taken to succeed |
| other data products | `dal/data_hl/` | trees of groups and datasets | | no |
| coordinates, other applications, Python bindings | `dal/coordinates/`, `apps/`, `pydal/` | none that changes over time | | no |

How they interact. In TBBraw2h5 the reader threads (one per UDP port) and the
main thread share global variables; the threads store under `writeMutex`, the
main thread reads without it and calls the TBBraw object for each frame. A signal
handler sets two of the flags. In bf2h5 the main thread reads a block into a
buffer and gives the calculator a pointer to it; four threads take subbands out of
the calculator's map, write each result into an output buffer and call the
writer's `writeSubband` with a pointer to it; when a block is complete the
calculator calls back `blockComplete`, which frees a read buffer; the writer
thread polls its own map. The data products call down: a root group opens its
pointings, these their beams, these their datasets, each with an identifier of the
level above; an HDF5Dataset hands its identifiers to HDF5Hyperslab, which may
replace one of them. Nothing runs concurrently there; what interacts are the
objects of one program that hold the same group or dataset.

What is hard about them is listed, line by line, under `hazards` in
`PROJECT.json`: interleavings on shared indices and flags, buffers used again too
soon, overflow, counters and tests without a lock, threads that must end although they
wait for something, UDP's losses and reordering, wrong time stamps, late subbands, files that do not open,
copies that share identifiers, and objects that remember what another has changed.

What makes each component correct:

* ring buffer: every frame received is handed over once, in order, or counted as
  dropped; it is a bounded queue;
* event loop: it ends, leaves nothing behind, and keeps events apart;
* stations: a file holds one event; all files get closed;
* TBBraw: a frame is in its dipole's array at the place its time of recording
  gives it; nothing that came is missing; the tables stay consistent;
* calculator: each subband of each block once, block after block, and all of them;
* writer: row k of every table belongs to block k, whatever is late;
* pipeline: buffers are not used for two things; everything is written; it ends;
* dataset: it only grows, keeps what was written, and a write goes where its
  hyperslab says;
* time series: what is read, and the attributes that go with it, are of the dipoles
  selected, whatever was asked in between;
* beam-formed file: the groups and datasets in the file stay there, samples are lost
  only of a dataset that is asked for again with a flag that replaces it (the default
  does), and every identifier that is opened is closed.

## 2. Modules

    SocketReader ---> TBBraw2h5
         |                |  INSTANCE
         |                +-------> FrameBuffer         (abstract: a bounded queue)
         +----------> TBBStations

    TimeStamps -----> TBBraw

    BeamBlocks ---+-> Bf2h5Calculator ---+-> BF2H5
                  +-> HDF5Writer --------+

    HDF5Dataset  --INSTANCE--> ExtendibleArray         (abstract: arrays that grow)

    TBBTimeseries           BFRootGroup

and of the proofs, each of which also extends the module it is named after:

    SocketReader_proofs --+-> TBBraw2h5_proofs         (FrameBuffer's refinement too)
                          +-> TBBStations_proofs

    BF2H5_proofs        (of Bf2h5Calculator, HDF5Writer and BF2H5, in this order)

    TBBraw_proofs           HDF5Dataset_proofs
    TBBTimeseries_proofs    BFRootGroup_proofs

An arrow from A to B: B extends A. `MCx` extends `x` with the symmetry or the
constant values its `.cfg` files use. Operators whose comment begins with
*Fault* are bugs that somebody might make in the operator defined after them;
nothing uses them but the check that each property can fail.

### SocketReader

The globals of TBBraw2h5.cpp 156-182 under their own names, the kernel's queue for
each port (`bound`, `waiting`), and one action per piece of `socketReaderThread`
between two points where another thread can get in between. The critical section
is three actions (`ChooseSlot`, `RecvFrom`, `Publish`), since the main thread
looks at the indices without the mutex. `rpc` says where each thread is; a thread
is identified by the event that started it and its port, because a thread of one
call of `readFromSockets` may outlive that call.

A frame is the number of its reception. `noRunning++` of the main thread and
`noRunning--` of the reader threads are two steps each, a read and a write, and only
the latter hold the mutex: one can overwrite what the other has done meanwhile. The
history `lost` says which kind of update was overwritten, `"inc"` or `"dec"`; what the
count says and what the loops on it do is stated in terms of that.

Not in the model: the statistics of verbose mode; `select` returning -1; a
`recvfrom` that blocks after `select` announced a frame (one thread reads each
port); a frame of the wrong length (that is TBBraw's business).

### TBBraw2h5

`main`'s keepRunning loop and `readFromSockets`: start the threads, loop over the
buffer, open the output file with the first frame, process, end, join, summarise,
perhaps again. One iteration of the loop is `Idle`, or `TakeFrame` followed by
`ProcessFrame`; between the two the reader threads go on. The loop's condition
reads `noRunning` and the indices in one step. `OpenMayFail` lets the file fail to
open, upon which the function returns at once, as the code does.

`FrameBuffer` is what the ring promises: a queue of `BufSize - 1` frames that
gives up one frame, counted, when another does not fit. `ImplementsBuffer` is the
refinement; the map takes the part of the ring between the two indices as the
queue, and the time between choosing the last slot again and filling it as
`overflowing`. The abstract `Lose` is there because of the code: when the main
thread empties a full buffer between the choice of the slot and `recvfrom`, the
frame goes to a slot that is never looked at; it was counted before.

### TBBStations

`readStationsFromSockets`. The main thread does not copy a frame out of the buffer: it
reads the slot for the station (`TakeFrame`), for the time stamp (`OpenFile`,
`KeepFile`), for the frame itself (`ProcessFrame`, `RejectFrame`) and once more for the time
stamp that it notes (`NoteTime`), and a reader thread may have stored another frame over
it before any of these. `frame` is what it read last; a reading (`Seen`) gives the same
again if the slot has not changed, and another station and time otherwise. `first` is the
frame that it took in hand, and an entry of `written` is `kept` if the slot still
held that one at the end. `lasttimes` starts with arbitrary values, as the uninitialised
array does. A file is `null`, `open`, or `broken` when it could not be opened.

### TimeStamps, TBBraw

A frame has 1024 samples and starts at a multiple of 512, so positions are counted
in half frames; a second is 2K+1 of them at 200 MHz (K = 195312), 2K at 160 MHz.
`Stamp` is what the stations write into a frame, after option `-F`'s description
(TBBraw2h5.cpp 122-130): right, old style or new style. `FixDateOld` and
`FixDateNew` are the repairs, branch by branch; `oddSecond` is the static local
of `fixDateOld`, which all dipoles and all objects share.

How an event is recorded is the variable `setting`, chosen from `Settings` at the
start and never changed: the clock, the style of the stamps and which seconds are
halved, the repair asked for (`-F`), the dipoles, and bounds. One run checks
several settings that way. `K` and the sizes of the tables are constants.

`TBBraw` is `processTBBrawBlock` with everything it calls. A dipole's entry has
the stamp of its first frame and the set of writes to its array; `WriteOffset`
wraps at `Word` (2^32 in half frames) and is then read as signed. Station, RSP and
RCU numbers of 0 are excluded.
When old stamps are used frames come in order and do not start with the last
frame of an odd second (`Ambiguous`): its stamp cannot be told from that of an
earlier frame, so no repair of single frames could be right.

### Bf2h5Calculator

The section of `doDownSampleSingleSubband` that holds `calculationMapMutex` is one
action; the calculation, setting the flag, the test and the set of
`checking_completeness`, the look at the flags and the completion are actions of
their own. Nothing excludes two threads between the test and the set, and the
history `overlapped` says that it has happened. When one of several threads in the check
completes the block, the others are in the midst of looking at the flags (`torn`: they may
have seen the first before the reset and the rest after it) or of resetting them and
incrementing `currentBlockNr` (`late`: the flags may be reset in part under the next
block's threads, and the increment may start from an old value). A thread that waits
for the condition is in `wait`, and may wake up for nothing. Taking `front()` of an
empty deque is undefined behaviour: the thread is then in `undefined`, and what it would
do next is not followed. The parent is any that hands over blocks at any pace and calls `stop` when
`stillProcessing` says no.

### HDF5Writer

`writeData`, with the map it shares with the calculator's threads. A row is the
number of the block its data are from, or zeros. `Patience` is the 25 polls after
which a block is given up. `WriterSpec` gives the writer a calculator that brings
each subband once, block after block and as late as it likes, and leaves it its
memory; in `BF2H5` that is the calculator of `Bf2h5Calculator`.

### BF2H5

`start` with the reader, the calculator and the writer, step by step. A buffer's
content is the number of the block that was read into it; `pointer` remembers
which buffer a block was handed over in, and with what in it. `Calculate` and
`Complete` are the calculator's steps together with what they do to the parent.
`FlagSet = FALSE` starts `finished_reading` with either value.

About the source: `apps/CMakeLists.txt` has bf2h5 commented out (line 11), without
`DAL_WITH_LOFAR` there is no writer (bf2h5.cpp 265), and with it the line that
computes the writer's block size is commented out (249). The model is of the LOFAR
build with that line restored. Not in the model: read errors (which make start's
loop endless), partial blocks, threads or memory that cannot be had, the wrap of
the 8 bit number of buffers, and races inside `std::map`.

### HDF5Dataset, ExtendibleArray

Datasets that have been made under one name, and the objects (`Handles`) that hold
them. An object is `id` (which dataset), `extent` and `sel` (the dataspace
identifier it holds: the extent that had when it was got, and what is selected in
it) and `shape` (`itsShape`). `Applied` is `HDF5Hyperslab::setHyperslab` from the check
of the ranks on: the end of the hyperslab in the unsigned type of sizes (`HSize`
values), the extension, the new dataspace, the selection and its check against the
object's own extent. `WriteData`, `ReadData` and `SetHyperslab` are the three callers.
`status` records what the call returned and whether the library moved any data. What the
library does with those calls is external and marked so: a hyperslab is its set of
elements, a dataset the elements written so far. `MaxChunk` is the 32 bit limit on
chunks that `adjustChunksize` halves towards, `MaxSize` bounds what `H5Dset_extent`
accepts, so that a wrapped end does not make the model grow.

`ExtendibleArray` is what users of a dataset rely on; `ImplementsArray` is the
refinement, in which an object and all it remembers disappears.

### TBBTimeseries

One object and several files, opened one after the other. A group of the file is a
number and its datasets are the dipoles in it; a station keeps which of them are
selected. `stations` outlives the file it was read from, as `stationGroups_p` does.
`SampleOffset`, `AlignmentReferenceAntenna` and `MaximumReadLength` change the
selection and put it back through `Narrowed`, the same operator `SelectDipoles` uses.
`answer` is what the last call returned, `thrown` says that it threw `IOError` instead,
which `time()`, `sample_number()` and their like do when an attribute of a selected dipole
cannot be read (`Unreadable`); a call that throws between narrowing the selection and
putting it back leaves it narrowed. `data` are the samples read, each as its number in the
dipole. A dipole starts `Sample / Frequency` after `Time`, with a frequency of its own;
`alignment_reference_antenna` compares these instants as doubles, of which there are `Ulps`
from one second to the next (2^22 for times between 2004 and 2038, when 200 MHz have 48 samples
to a double): `Current` is the nearest one, of two the even one. `PerSecond` is the clock in `Offset`, and `UInt` the width of the unsigned arithmetic there.
What the code iterates over is a `std::map`, so that `InOrder` is a set in the order of its
names and `Listed` station after station. A dipole's name begins with the number of its station
(`NamesAssumption`): the dipoles of a lower station come before those of a higher one, which is
why `AllNames`, a list by stations, and `InOrder`, a list by dipoles, agree.

### BFRootGroup

A file of pointings, beams and Stokes datasets; the root object with its entries for
the pointings it opened, each with its own beams; and one copy of an entry, got
through `getSubArrayPointing` and used on its own. HDF5 is a count of owners for
each of `Identifiers`; the identifiers a deleted group leaves behind are in
`orphans`. A dataset in the file has samples or none: `WriteData` gives it some, and
`MakeStokes` deletes a dataset that the object knows and makes an empty one, when the
flag allows to replace it, as the default `OpenOrCreate` does. `World` is the file and HDF5 together: an operation of an object takes it and returns it
with the object, so that the constructors, assignments and destructors a statement
such as `itsBeams[name] = BF_BeamGroup (...)` performs are composed in the code's order.
The system log is the pointing `Log`, which is how the root object sees it when a file is opened again.

## 3. Runs

`pass`: TLC finds nothing wrong. `violation`: the code does not do what a comment
beside it says; section 6. *Fair* marks runs under the fairness described below,
which check liveness (in italics) beside safety.

| Run | Module | Checks | Instance |
|---|---|---|---|
| MCRing | TBBraw2h5 | TypeOK, FramesAccounted, ProcessedInOrder, ImplementsBuffer | 2 ports, 3 slots, 4 frames, 1 event, files may fail |
| MCEvents | TBBraw2h5, fair | IInv, ProcessedInOrder, NothingLeftBehind, NoRunningCounts, *SignalEnds*, *EventCloses* | 2 ports, 3 slots, 3 frames, 2 events, files open |
| MCStations | TBBStations, fair | TypeOK, OneEventPerFile, AllHandled, *EndsWhenTold* | 2 stations, 1 port, 3 slots, 3 frames, times 0..1, gap 0, files may fail |
| MCStamps | TBBraw | TypeOK, Aligned, Complete, TablesSound | 5 settings (below), 2 objects, room for 1 station and 2 dipoles |
| MCCalculator | Bf2h5Calculator, fair | CalcTypeOK, BlocksInOrder, CalculatedOnce, SomeThreadLeft, *EveryBlockCalculated*, *StopEnds* | 2 threads, 3 blocks of 2 subbands |
| MCWriter | HDF5Writer, fair | WriterTypeOK, RowsAligned, *BroughtIsWritten* | 4 blocks of 2 subbands, patience 2 |
| MCPipeline | BF2H5 | TypeOK, TablesLevel | 2 threads, 2 blocks of 2 subbands, 1 buffer at first, blocks given up |
| MCPipelineEnds | BF2H5, fair | UsesCalculator, *Ends* | 2 threads, 3 blocks of 1 subband |
| MCDataset | HDF5Dataset | TypeOK, KnowsLess, ImplementsArray, WritesLand | 2 objects, 2 datasets of 2 axes, 3 hyperslabs applied out of 6, 3 sets of flags |
| MCTimeseries | TBBTimeseries | SelectionsAgree, LeavesSelection, ReferenceStartsLast | 3 files, 3 stations with 5 dipoles, 3 sets of flags, 3 requests |
| MCRootGroup | BFRootGroup | NothingLeaks, Kept | 1 pointing of 2 beams with 1 Stokes dataset each, 8 identifiers, 3 flags |
| MCInput | BF2H5 | InputIntact: violation | 2 threads, 4 blocks of 2 subbands |

The settings of MCStamps, defined in `MCTBBraw`: two dipoles with new stamps, frames
in any order and repeated; four dipoles of two stations, more than the tables have
room for; one dipole with right stamps and no repair; one dipole with old stamps
over four seconds, in order and with gaps; two dipoles with old stamps at 160 MHz,
in any order.

### Bounds, and why they are enough

* Ring: 3 slots is the smallest buffer with a slot that is neither the last stored
  nor the last processed; 4 frames overflow it and wrap both indices; two threads
  are enough for the mutex and for the counter to matter. The proofs (section 4) lift
  these bounds for every safety property of the two modes.
* `MaxEvents` bounds keepRunning: after the last one the program stops, as if the
  signal had come. Two events show what one leaves to the next; three frames overflow the buffer
  of one of them, or are shared by both.
* `StartSlices` 0 and 1: no timeout, and one that runs out. `IdlePolls = 1`.
* Stations: one port, as MCRing and MCEvents are about several; two stations whose
  files are open at once, and three frames, enough for one to follow its
  predecessor's file closely, late, or after it was closed, and to fill the buffer so that
  the third is stored over the one in hand. Two times and a gap of 0 tell one event
  from the next.
* TBBraw: K = 3 (2 in the violation runs) keeps what the repairs look at, which is the
  parity of the second and its last frame. `Word` is larger than twice the span of
  the frames, as 2^32 is for events below 10 seconds; MCWrap is about the rest. The
  proofs are for every K, any tables, and the same relation between `Word` and the span.
* Calculator: two threads can be in the check at once, and three blocks leave one to be
  passed over and one to go on with when they were. The proofs (section 4) are for any
  number of threads.
* Writer: in four blocks two can be given up in a row between two that are not, and
  patience 2 tells the last poll from the one before.
* Pipeline: 2 threads and 2 blocks of 2 subbands are what TLC can exhaust with all
  four parties at work; MCInput, which stops at the first violation, uses 4 blocks.
  The single initial buffer makes `switchReadBuffer` both reuse and add one (the
  code starts with 2). MCPipelineEnds trades subbands for a third block.
* Datasets: two axes, as one grows while the other must not; sizes up to 4, three
  hyperslabs in all, so that one object can extend the dataset between two calls of the
  other and a selection can be added to a former one. `HSize` is far larger than any
  end, as 2^64 is; `MaxChunk` 2 is exceeded by a shape and not by a chunk size given.
* Time series: the dipoles start in one second and over its end, with three
  frequencies, and two of them nearer to each other than the four doubles of a second
  tell; two are in one station, one in another, and two in a third that is in another
  file, one of which lacks attributes; the requests are for one dipole, and for several
  of stations that have them or not. Opening the file that is not HDF5 comes before or
  after one with dipoles.
* Beam-formed file: two beams make one that an object knows and one that it does not; 8
  identifiers are more than the objects can have open at once (an exhausted supply
  would stop the run's operations, not report an error). With two pointings of one
  beam it passes as well. `Create` as the flag of a group deletes it, and is
  left to section 6.
* Symmetry of threads, ports or objects is used in runs without liveness only.

MCStamps and MCDataset do without TLC's deadlock check: a TBBraw object really is left
alone after its last frame, and HDF5Dataset objects are destroyed in the end.

### What the passing runs show

* The ring loses nothing uncounted and keeps order although the main thread takes
  no lock and although reading `inBufProcessID` late makes a thread reuse the last
  slot; this does not depend on `noRunning` being right, nor on files that open.
* The race on `noRunning` makes it wrong (NoRunningIsCount, section 6), but in one direction
  each way: a lost `noRunning++` makes it too small, a lost `noRunning--` too large
  (NoRunningCounts). So the loop of `readFromSockets` ends only when all is done unless
  an increment was lost (NothingLeftBehind), and it ends unless a decrement was
  (SignalEnds, EventCloses, EndsWhenTold).
* Short of that, weak fairness gets every thread out of its wait after a signal, be the
  port silent or not; threads in their first wait give up only because the loop ends them or
  they see `lastEvent`.
* OneEventPerFile holds although `lasttimes` is uninitialised: a file that is
  not open is opened whatever `lasttimes` says. It is about the frames that were still in
  their slot when the main thread was done with them, which is all of them as long as none
  was dropped; of one that was stored over another in hand it says nothing, and such a frame
  may be another station's (OneStationPerFile, section 6).
* TBBraw aligns frames of the new style where odd seconds are the whole ones, of the
  old style for one dipole in order, and of the slow clock in any order. It does
  not for two dipoles of the old style (MCOldTwo).
* The calculator's threads return one by one when they meet a block that has been
  taken, but never the last of them; so blocks are calculated, in order. That holds
  until two threads have been in the check at once, which the code does not exclude
  (`overlapped`; section 6 shows the order broken then).
* Whatever that race does, no subband is calculated twice, and stop returns: the map and the
  level change under the mutex, and the race does not touch them. Only what follows the
  front of an empty deque is left open.
* The writer's rows stay aligned however late subbands come, and it never gets
  stuck at a block that begins.
* bf2h5's main thread uses the calculator as its properties assume
  (UsesCalculator is the calculator's own specification, the race included), and ends,
  unless two threads were in the check at once.
* However objects take turns, an HDF5Dataset never shrinks a dataset and loses
  nothing, for one block or several that touch (for a block left out or blocks with
  gaps it may shrink it, section 6); an object that is behind can be refused but
  cannot write in the wrong place (KnowsLess, WritesLand).
* The time series' three questions put the selection back although `selectDipoles`
  keeps a station's old selection when nothing in it is asked for: it works because
  no station with dipoles is ever without a selection (SelectionsAgree). They do so if
  they return: one that throws leaves the selection narrowed (section 6).
* The reference antenna starts last as far as doubles tell; by less than what they tell
  apart a later dipole may be passed over (section 6).
* The identifiers that pointings and beams share are raised once per owner and never
  stay open (NothingLeaks), at the price that some are closed too early (MCBeams,
  section 6); no flag but `Create` lets a stale object delete a group that others made.
  The samples of a dataset are lost only when it is asked for again, with a flag that
  replaces it: `OpenOrCreate`, the default, is one (Kept, and SamplesStay in section 6).

### Fairness

Weak fairness of each thread's step: the operating system runs every thread, and
`select`, `usleep` and reads return. No fairness for frames that arrive, for
signals, or for `pthread_cond_wait` returning for nothing. The mutexes need no
strong fairness here: a thread that waits for one may be overtaken, but frames and
subbands are finite in number. Whether that is so for an endless stream is
not shown.

## 4. Proofs

tlapm checks the following for every value of the constants that satisfies the
named assumptions of the modules (`ReaderAssumption` and so on). The last column is what
a theorem assumes beyond those.

| Module, theorem | States | Under |
|---|---|---|
| `TBBraw2h5_proofs` TypeCorrect | TypeOK | |
| MutualExclusion | MutexInv | |
| InductiveInvariant | IInv | EventsApart |
| Accounting | FramesAccounted | EventsApart |
| InOrder | ProcessedInOrder | EventsApart |
| RunningCounted | NoRunningCounts | EventsApart |
| AllHandedOver | NothingLeftBehind | `~OpenMayFail` |
| Refinement | ImplementsBuffer | EventsApart, and behaviours with `[]EventsSettle` |
| EventRefines | ImplementsBuffer | `MaxEvents = 1` |
| `TBBStations_proofs` TypeCorrect | TypeOK | |
| InductiveInvariant | IInv | |
| FilesHoldOneEvent | OneEventPerFile | |
| AllFramesHandled | AllHandled | |
| `TBBraw_proofs` TypeCorrect | TypeOK | |
| TablesStaySound | TablesSound | |
| InductiveInvariant | IInv | Repaired |
| BlocksAligned | Aligned | Repaired |
| NothingMissing | Complete | Repaired |
| `BF2H5_proofs` CalcTypeCorrect | CalcTypeOK | |
| CalculatorInvariant | CalcInv | |
| BlocksStayInOrder | BlocksInOrder | |
| NothingTwice | CalculatedOnce | |
| NeverAllReturn | SomeThreadLeft, and without `overlapped` no `front()` of an empty deque | |
| WriterTypeCorrect | WriterTypeOK | |
| WriterInvariant | WriterInv | |
| RowsStayAligned | RowsAligned | |
| PipelineTypeCorrect | TypeOK | |
| CalculatorUsedAsMeant | UsesCalculator | |
| PipelineInvariant | PipelineInv | |
| TablesStayLevel | TablesLevel | |
| PipelineCalculates | BlocksInOrder, CalculatedOnce, SomeThreadLeft, in the pipeline | |
| `HDF5Dataset_proofs` InductiveInvariant | IInv | EndsFit |
| TypeCorrect | TypeOK | EndsFit |
| NeverAhead | KnowsLess | EndsFit |
| Refinement | ImplementsArray | EndsFit |
| SuccessLands | WritesLand | EndsFit |
| `TBBTimeseries_proofs` SeriesInvariant | IInv | |
| SelectionsStayOne | SelectionsAgree | |
| SelectionIsPutBack | LeavesSelection | |
| ReferenceIsLatest | ReferenceStartsLast | |
| `BFRootGroup_proofs` RootInvariant | IInv | |
| RootTypeCorrect | TypeOK | |
| NothingIsLost | NothingLeaks | |
| WrittenStays | Kept | NothingReplaced |

`EventsApart` is `~OpenMayFail \/ MaxEvents = 1`; `EventsSettle` is `MaxEvents = 1`, or files
open and no increment of `noRunning` has been lost so far; "Repaired" is `\A s \in Settings :
Repaired(s)`, which `TBBraw` defines: the repair fits the stamps. Each hypothesis excludes behaviour
the code has and section 6 shows: `OpenMayFail` the output file that does not open, whose threads
live on into the next event; a lost increment, which lets them do so too; `Repaired` is false of the
settings of MCOldTwo, MCNewStamps and MCWrap; `EndsFit` (the
end computed for a hyperslab is never -1) is true of MCDataset's six hyperslabs and
false of MCNoBlock's; and `NothingReplaced` (no group is opened with Create or Truncate, nor the
file with Truncate) is true of MCRootGroup's flags and false of MCReplacing's.

What a theorem does not assume it holds in spite of. No theorem assumes away one of the two data
races, on `noRunning` and on `checking_completeness`: what a race breaks is in the
property, as "unless this update was lost" or "unless two threads were in the check". The
types, the lock, the order and accounting of frames, that no subband is calculated twice, and that
the tables of the pipeline stay level hold whatever the races do; the tables of
stations and dipoles whatever the stamps; and the owners of identifiers whatever
the flags. RowsStayAligned and WriterInvariant are about `WriterSpec`, in which the calculator
brings each subband once and leaves the writer's memory alone. The first the pipeline's
calculator does (PipelineCalculates); the second it does not (OutputIntact in section 6), so that
they are about which block a row belongs to and not about what was computed for it.

Induction is done by hand. The library's induction theorems have an operator as a parameter,
which the provers cannot instantiate, but `WFMin` (a set of natural numbers that is not
empty has a least member) does not: what does not hold at every number fails at a least one, and
the proof looks at the one before (`Smallest`, `Reaches`). `Prod`, `Listed` and the
loops of BFRootGroup, which are recursive functions, are proved about in that way.

### The ring buffer and its two modes

`SocketReader_proofs` has no theorem, but what both modes need: the arithmetic modulo
`BufSize`, once and without `%` in what the other lemmas see, and for each
invariant about the buffer a lemma that a step of a reader thread keeps it.
A step of the reader threads is `ReaderMove` in either mode, so that what is left to
the modes is their main thread, one step per action.

FramesAccounted says that the frames received, plus one if a frame is about to
overwrite the newest, are the frames processed, cached, stored but not yet
published, dropped, and left in buffers of past events. It is not inductive:

* `Publish` adds one to `Cached` only if the slot is the next one and is not the
  last processed: `SlotInv`, which survives the main thread's steps because
  `inBufProcessID` only moves towards `inBufStorID`, hence away from that slot;
* `ProcessFrame` takes one off `Cached` only if the buffer is not empty and
  `processingID` is the next slot: `ProcessInv`;
* both need that one thread at a time is between `ChooseSlot` and `Publish`:
  `MutexInv`;
* `RecvFrom` needs a frame in the socket and the socket in the thread's own hands:
  `SocketInv`;
* `StartEvent`, which resets the indices, needs that no thread of an earlier event
  is still storing: `StartInv` and `DoneInv`. `DoneInv` is what fails when an output file
  does not open, hence `EventsApart`.

ProcessedInOrder needs `RingInOrder`: the frames in the ring (`Filled`, by their
`Place` after the one last processed) increase, and are later than all that were taken.
The slot that overflow fills again is the last one, so that what is stored there is
later than the rest, also when the main thread is at that slot already or has passed it.

NoRunningCounts needs `CountInv`: the count, with the one thread that main
has just started and not yet counted, is at least the number of running threads if no increment
was overwritten, and at most that if no decrement was. What the
second step of an update writes differs from what the count should be by what the other side has
done since the first step, and that is what `lost` records. NothingLeftBehind follows from
`SettledInv`: the loop ends when the counter is 0 and the indices are equal; if no increment was
lost nobody is left then to make them differ.

ImplementsBuffer is proved one step at a time: `ChooseSlot` is Overflow when the queue
is full; `RecvFrom` is Replace when it fills the last slot again, or Lose when the main
thread has emptied the queue meanwhile; `Publish` is Store when it moves
`inBufStorID`; `ProcessFrame` is HandOut; everything else leaves the queue alone, the
start of the next event because the last one left an empty buffer. That it does is what
`EventsSettle` is for; with one event nothing is needed, which is EventRefines.
`SlotAtPlace` and `PlaceSlotAt` say that slots and places in the queue correspond.

OneEventPerFile rests on `HandInv` and `FileInv`. The first follows the frame in hand: what its
slot holds is never older than what the main thread took there, and is that very frame as long
as none was dropped, since only overflow stores into a slot between the indices
(`OverflowInv`). The second says that `lasttimes` has the time of the last frame of the
file, if the file has one and that one was `kept`, and that the frame in hand, if it is still the
one taken, is of the station and within the gap of that time (`FrameFits`): each of the
readings gave the same then. The uninitialised values matter only for files without frames.
`RingInOrder` is kept by a main thread that finds an older frame than the slot has by now, as long as it
is newer than those it had (`TakeOlder`). AllHandled rests on `EndInv`, which is about the
state after the loop.

### TBBraw and the repair of time stamps

A setting is `Repaired` if it has right stamps and no repair; new stamps with the repair
for these, and the odd seconds are the whole ones or the clock is 160 MHz; old stamps at
160 MHz with theirs; or old stamps at 200 MHz of one dipole, in order, without a gap of a
second or more (`MaxLost + 1 < K`). Besides, the event must be so short that no
difference of two stamps, in half frames, leaves the range of an int (`4 * lastFrame < Word`).
The proof is for every `K >= 2`, and so for the code's 195312.

* `TrueStampValue`: the second and the sample of a frame are quotient and remainder of its
  position by `Rate`, and at 200 MHz, where the rate is odd, the sample has the parity of
  the second. From then on the proofs use no division.
* `RightRestored`, `NewRestored`, `SlowRestored`, `OldRestored`: for each style, what the repair
  makes of what the stations wrote is the true stamp. Old stamps at 200 MHz also need to know at
  the end of a second which second it is (`OddKnown`), and leave that in `oddSecond`.
* `SameSecond`, `OddInOrder`: `OddKnown` holds when frames come in order and not more than
  `MaxLost` of them are missing in a row: the frame before was of the same second then, and `OddInv`
  says what it left behind. A second dipole breaks `OddInv`, which is MCOldTwo.
* `StampDistance`: the distance of two true stamps, as `WriteOffset` computes it from seconds and
  samples, is twice that of the frames. With `StampInv` (an entry has the true stamp
  of its first frame) and `ToIntType` (the int has the value) a block goes where Aligned says, and
  is discarded only if it was taken before the first one, which is Complete.

TablesSound says why a dipole that has sent frames has no array: there is no file, its
station is missing and the stations' table is full, or its station is there and the dipoles'
table is full. Each of them lasts, as tables only grow and there is no station without a file
(`NoStations`); so no array is ever made for a dipole whose earlier frames were
thrown away, which Complete needs.

### HDF5Dataset

The constants are any objects, flags, shapes, chunk sizes and hyperslabs, of any rank; the
library's part is as modelled. What can go wrong is that a dataset gets shorter, and
that an object selects by a dataspace that the dataset has moved away from.

* `ExtendedType`: a size computed from an end that is not -1 is at least the dataset's along
  every axis. An end that wraps to anything else is larger than `MaxSize`, and the library
  refuses it. `SetExtentKeeps`: an extension by such a size loses nothing. Without
  `EndsFit` the end is -1, the size 0, and the dataset is cut (MCNoBlock).
* KnowsLess: an object's dataspace lies within the shape it remembers, and that in the
  dataset. It is kept by the steps of *other* objects only because datasets grow
  (`StaysBehind`), and it is why a selection that H5Sselect_valid finds in the object's
  own, possibly old, dataspace is in the dataset, which the library's write needs.
  `SelInv` is the third part: selected points have the dataset's rank. A selection lives on
  from call to call, so that this is not clear from one call.
* `AppliedType` says all this of what `setHyperslab` returns, once for its three callers.
  `SlabTouches` shows that each of them is a step `Touches`: one dataset is replaced by one
  that is as large and holds what it held, except for a single value in some places;
  `TouchKeeps` that such a step keeps the invariant and is a `Put` of ExtendibleArray, or a stutter.
  Opening is a `Create` or leaves the datasets alone.
* WritesLand has two parts. That data which is moved lands where it should is `WriteLands`. That
  a success moved any is not clear, since nobody looks at what `H5Dwrite` returns: the library
  refuses when the number of points selected is not the number of values handed over. `AlongCount`
  counts the coordinates along an axis: blocks that start `stride` apart have `count * block` of them
  because `Selectable` keeps them from overlapping (`BlocksApart`), a bijection with pairs
  (block, place in it). `BoxNext` adds an axis, `BoxCount` all of them by induction over the rank,
  and `ElementsCount` has the product that `nofDatapoints` computes. A second
  selection added to the first breaks it (MCResults), hence "selects anew".

### TBBTimeseries

SelectionsAgree says that the keys of `selectedDatasets_p`, the columns of `readData` and the rows of
the attributes are of the same dipoles in the same order, and that no station with dipoles is
without a selection. `IInv` is `StationInv`, which holds of the stations and of every
group `open` could yet read: dipoles are those of the station's own
number, the selection is among them, and is empty only if there are none.

* `InOrderIs`: `InOrder` lists each member of a finite set of numbers once, increasing. It rests on
  ranks (`RankGrows`, `RankTells`, `RankFound`), how many members come before one.
  `InOrderAfter`: a set all of whose members come after those of another is listed behind it. `ListedIs`
  adds station after station up: `Listed` is the order of the union, if the stations' dipoles are
  in the stations' order, as NamesAssumption says they are.
* `PutBack`: `Narrowed`, applied to any selection that came from the stations by former calls, restores
  each station's selection from the union of all. Stations must have no dipole in common, and each station
  with dipoles must have one selected: a station none of whose dipoles are asked for keeps *all*
  that was selected, so that a station without a selection would come back full. LeavesSelection
  follows for the three questions by the same lemma.
  If a stamp cannot be read the call throws, before or after the selection is put back.
* `LatestIs`: the reference is the first of those with the greatest double. A double is within half
  a step of the instant it stands for, so that the instants of two dipoles whose doubles are
  in one order can be in the other by one step at most: hence ReferenceStartsLast for every
  dipole that `AllNames` lists, which is every one, for any spacing of the doubles.

### BFRootGroup

NothingLeaks says that an open identifier has one owner, which will close it. Not inductive: a
destructor lowers the owners of what its object holds, so that an object holding an identifier that is
closed (or that another object holds) would matter. Hence `Tidy`: objects hold no closed identifier,
and a pointing that is open is in the file; and `FileInv`, with at most one copy `held`.

* `IInv` holds between operations. Within one there are temporaries, copies and destructors, so the
  lemmas are about a world and two maps of objects, whichever is being
  worked on: `Sound` is the invariant of these, and `Loose` what remains of it
  when identifiers were closed and the objects have not forgotten them yet. `Forgotten` leads back from
  one to the other, for the model forgets closed identifiers at the end of an operation.
* `EmbeddedWorld`, `NewPointingWorld`, `AssignedWorld`: what the constructors and `operator=` do to the
  owners, each by the number of the identifiers it opens, raises and closes. `PointingWorld` and
  `BeamWorld` put them together to `openSubArrayPointing` and `openBeam`, in either map.
* `openEmbedded` and `open` go through the groups one by one. `Rounds` is about any such loop: if each
  round leads from one set of states to the next, the loop ends in the last. `OpenRootRight` uses it
  with "Sound so far, with entries for the names done", and `EmbeddedWorld` with the beams.
* `WithinBut`, what is there of the old file in the new one but for samples of some datasets, is
  followed through the same lemmas; it composes (`WithinBut` of both steps). Only `Makes` with a
  flag that replaces takes a group away, and an object of which nothing is in the file can ask
  for it (MCReplacing). Only `MakeStokes` takes samples away, of the one dataset that it
  is asked for, and only with a flag of `Overwriting`.

### The calculator, the writer and the pipeline

`CalcInv` has two parts. `PlaceInv` holds whatever the race does: a subband that was handed over
is in one place only, in the deque of its block, with one thread that is calculating, or among the
results. Deques and tasks change under the mutex, where a subband leaves the deque as it
becomes a task, and `front()` of an empty deque gives no task; so CalculatedOnce does not
depend on `currentBlockNr` or the flags being right.

The other part, `InOrderInv`, holds as long as no two threads were in the check
(`~overlapped`). BlocksInOrder is a claim about a log. What keeps it is that the map, the tasks, the
flags and the log tell the same about each subband of the current block: `MapInv` (the map has
all of the later blocks and a tail of the current one, and `level` counts them),
`TaskInv` (a subband that was taken is ready, or one thread has it), `ReadyInv` and
`CheckInv` (somebody is going to look at the flags after the last one was set, and he is
alone), `ResultInv` (the length of the log). Two threads between the test and the set of
`checking_completeness` break `CheckInv`, and with it all of these.
SomeThreadLeft needs no more: a thread that returns has found the current block
taken and not completed, so that another has a task, or has the completion to do.

RowsAligned is about what the writer does with `foundDataForCurrentBlock` and the
flags of the subbands: `PollInv`, and `OnceInv`, that a subband of a block is in one
place only. The latter is where the calculator's promise enters.

In the pipeline the promise is the calculator's own: `LinkInv` says that what was brought
is what was calculated, and CalculatedOnce then gives what `OnceInv` needs. The
calculator's part is not proved again: CalculatorUsedAsMeant maps every step of bf2h5 to
a step of `CalcSpec` or a stutter, from `MainInv` (what main knows of the calculator at
each point of `start`), and `CalcInv` carries over.

### What stays with TLC

Liveness (SignalEnds, EventCloses, EndsWhenTold, EveryBlockCalculated, StopEnds,
BroughtIsWritten, Ends), which needs ENABLED. Every safety property of a passing run is
stated by a theorem, under the hypotheses of the table. TLC also checks every inductive
invariant that is proved: `IInv` in MCEvents, the others were run as invariants of the runs
of their modules.

## 5. Left out, and why

* A `boost::thread` or `pthread` that cannot be created; memory that runs out.
* Header byte order, checksums as such (a header is in order or is not), the
  attributes written beside the data.
* The dal* classes and HDF5 below TBBraw and the writer: writes succeed.
* The choice of file names in TBBraw2h5 (one hazard is listed there).
* HDF5Dataset: copies of an object, which share identifiers without counting them;
  hyperslabs whose block is shorter than the rank (read past its end); the chunk size
  an object remembers and uses when `open` is given none; `setHyperslab` on bare
  identifiers.
* TBBTimeseries: triggers and calibration groups; `sysLog()` before a file is open;
  the writers of attributes; `TBB_StationGroup::sample_offset`; a reference antenna that
  does not exist (the code reads past a vector). The model is of the build with casacore.
  A file that is open for reading only and opened again with a flag that writes: the object
  does not close its file (263-281), so that HDF5 refuses, while the model opens it.
  `sn / (f * 1e6)` is rounded before it is added to the time; only the rounding of
  the sum is modelled, which for whole frequencies is the one that counts.
* BFRootGroup: the processing history and coordinates groups, which behave as a beam
  does; a Stokes dataset's own identifier, and which of its samples were written;
  `BF_BeamGroup::writeData`, which looks for the dataset under the beam's name
  (BF_BeamGroup.h 213), so that samples are written through the dataset's object; `open` called again on one object; more than
  one copy at a time. The library is taken not to use the number of a closed identifier again.
* IO_Mode's set of flags is taken as a set; which flags exclude each other is not modelled.

Most of the repository's lines are in none of the modules, and would not become part of one
by more work of this kind: dal* classes that pass a call on to HDF5, CFITSIO or
casacore, accessors, lists of attributes with their defaults, printing, coordinates
(values with a constructor), declarations for Python, and tests. They have no state
whose order of changes could be wrong.

## 6. Where the code differs from what is said of it

MCInput, a run of its own, shows why the passing runs of bf2h5 have no property about the
samples in a read buffer; `findings` in `PROJECT.json` quotes the comment it
contradicts. Blocks are handed over in a buffer, and `blockComplete`
(Bf2h5Calculator.cpp:378) frees the buffer of the next block instead of this one's.

Further configurations are kept beside the runs. TLC finds each property they name
violated, nearly all of them at once (AllWritten takes a minute or two). Where a
configuration names several, TLC stops at the first: leave one, or add `-continue`.
"X with" is the configuration X with the constants or the property changed as said.
Those marked * also say why a passing run is restricted as it is: to a single dipole with
old stamps, to hyperslabs with a block, to flags that keep a group. Those marked + show
what an exception is for that a property of a passing run makes: an update that was lost, a
frame that was overwritten, two threads in the check, a call that throws, the precision of
doubles, a dataset that is replaced.

| Configuration | Module | Property | Where | What |
|---|---|---|---|---|
| MCEvents with `Spec` + | MCTBBraw2h5 | NoRunningIsCount | TBBraw2h5.cpp:815 | `noRunning++` without the mutex loses updates ("number of running reader-threads", 179); the loop on it ends early or never |
| MCOnePort | MCTBBraw2h5 | ProcessedSlotStable | TBBraw2h5.cpp:700 | the slot being processed is overwritten when a full buffer empties before `recvfrom` ("make sure that we are the only ones writing to the input buffer (concurrent reading is O.K.)", 692-693) |
| MCOnePort | MCTBBraw2h5 | SignalQuitsCleanly | TBBraw2h5.cpp:1424 | a signal before the first frame: `summary` on a null pointer |
| MCStale | MCTBBraw2h5 | EventsSeparate | TBBraw2h5.cpp:879 | a file that does not open: the threads live on into the next event |
| MCStations with `Spec` + | MCTBBStations | OneStationPerFile | TBBraw2h5.cpp:1085 | the slot is read again after the station's file was chosen: a frame of another station, stored over the one in hand meanwhile, goes into this one's file |
| MCStationsClosed | MCTBBStations | FilesClosed | TBBraw2h5.cpp:1092 | files still open at the end are not closed: the array of pointers is deleted, the objects are not |
| MCOldTwo * | MCTBBraw | Aligned | TBBraw.cc:340 | one `oddSecond` for all dipoles: another dipole's last frame of an odd second is left uncorrected |
| MCNewStamps | MCTBBraw | Aligned | TBBraw.cc:385 | 512 samples are added in even seconds; TBBraw2h5.cpp:127-128 says odd ones |
| MCWrap | MCTBBraw | FrontDiscarded | TBBraw.cc:636 | a 32 bit difference wraps: frames from long before are written |
| MCCalculator with `CalcSpec` + | MCBf2h5Calculator | Ordered | Bf2h5Calculator.cpp:364 | test and set in two steps ("added for thread safety"): two threads complete one block and the next is passed over |
| MCFlag | MCBF2H5 | ReadToTheEnd | StationBeamReader.cpp:46 | `finished_reading` is not initialised |
| MCFlag | MCBF2H5 | OutputIntact | Bf2h5Calculator.cpp:313 | one output buffer per subband, used again before it is written |
| MCPipeline with `InitialBuffers` 2, no symmetry | MCBF2H5 | AllWritten | Bf2h5Calculator.cpp:194 | the writer is stopped before the last results reach it; 190-191 says that the lag of the answer is no problem |
| MCWriter with 2 blocks, `WriterSpec` | MCHDF5Writer | LeftIsWritable | HDF5Writer.cpp:377 | subbands that come after their block was given up count as left for ever |
| MCNoBlock * | MCHDF5Dataset | ImplementsArray | HDF5Hyperslab.cc:974 | a block that is left out is a block of zeros: the end wraps below the start, and the dataset is cut to nothing |
| MCNoBlock with `Slabs <- Strided` * | MCHDF5Dataset | ImplementsArray | HDF5Hyperslab.cc:974 | gaps between blocks are subtracted from the end instead of added: blocks with gaps shrink the dataset |
| MCOneRow | MCHDF5Dataset | BlockAccepted | HDF5Hyperslab.cc:732 | the end is the last index and is compared with the size: exactly one row more than there are is not made room for, and refused |
| MCOneRow with `Slabs <- Pairs` | MCHDF5Dataset | BlockAccepted | HDF5Hyperslab.cc:727 | room that another object made is not in this object's dataspace: the write is refused |
| MCResults | MCHDF5Dataset | OkMeansMoved | HDF5Dataset.h:737 | `H5Dwrite`'s result is not looked at: with two selections added up the write does nothing and succeeds |
| MCResults | MCHDF5Dataset | ReadMoves | HDF5Dataset.h:643 | room for one block is made whatever the count; `H5Dread`'s result is not looked at |
| MCResults | MCHDF5Dataset | NothingRefused | HDF5Dataset.cc:705 | on an object without a dataset the message is printed and success returned |
| MCSeries | MCTBBTimeseries | OffsetsFromReference | TBB_Timeseries.cc:1187 | the whole seconds are divided by the clock frequency instead of multiplied |
| MCSeries | MCTBBTimeseries | OnlyRequested | TBB_StationGroup.cc:454 | a station in which nothing that is asked for exists keeps all that was selected |
| MCSeries | MCTBBTimeseries | LengthCanBeRead | TBB_Timeseries.cc:1239 | the largest of the lengths left after the offsets is returned, which the other dipoles do not have |
| MCSeries | MCTBBTimeseries | SamplesInPlace | TBB_DipoleDataset.cc:854 | a read that begins before the first sample computes `dataOffset` and does not use it: the samples are at the front |
| MCTimeseries + | MCTBBTimeseries | SelectionRestored | TBB_Timeseries.cc:1201 | a dipole without an attribute makes the questions throw between narrowing the selection and "Restore antenna selection" (1232): it stays narrowed, or widened to all |
| MCTimeseries + | MCTBBTimeseries | ReferenceIsLast | TBB_Timeseries.cc:1217 | seconds and samples are added up as one double: of dipoles that it cannot tell apart the first is taken, not the one "that starts getting data last" (1212) |
| MCStationsOfFile | MCTBBTimeseries | StationsOfFile | TBB_Timeseries.cc:370 | stations of a file opened before stay in the map |
| MCStationsOfFile | MCTBBTimeseries | SysLogApart | TBB_Timeseries.cc:370 | every group of the file becomes a station, the system log too |
| MCCreates | MCTBBTimeseries | CreatesFile | TBB_Timeseries.cc:56 | the constructor passes `true` for the flags, which is Open; 51-52 says "if \e filename does not exist yet, it will be created" |
| MCBeams | MCBFRootGroup | BeamsOpen | BF_SubArrayPointing.cc:80 | the beams inside a temporary are copied without counting and closed with it: in a file opened again they have dead identifiers |
| MCBeams | MCBFRootGroup | PointingsStay | BF_RootGroup.cc:457 | a copy closes the identifier of the entry it came from when it is destroyed |
| MCBeams | MCBFRootGroup | PointingsCounted | BF_RootGroup.cc:321 | `groups.erase("SysLog")` ("and remove its name from the previously retrieved list", 320), but the group's name is SYS_LOG: it is opened and counted as a pointing |
| MCBeams | MCBFRootGroup | BeamsCounted | BF_SubArrayPointing.cc:276 | a copy and its entry each write the number of beams in their own maps |
| MCBeams | MCBFRootGroup | DatasetMade | BF_BeamGroup.cc:332 | a dataset in a beam with a dead identifier is reported as made |
| MCRootGroup + | MCBFRootGroup | SamplesStay | BF_BeamGroup.cc:371 | an existing dataset is deleted, with its samples, also with the default flag OpenOrCreate, where the comment (353-357) wants a 'truncate' parameter for it "-- otherwise return error" |
| MCReplacing * | MCBFRootGroup | Kept | HDF5GroupBase.cc:401 | with Create an object that does not know a beam deletes it and makes it anew |

## 7. Plan

Done, in this order: SocketReader, TBBraw2h5, FrameBuffer, TBBStations, TimeStamps,
TBBraw, Bf2h5Calculator, HDF5Writer, BF2H5, then HDF5Dataset with ExtendibleArray,
TBBTimeseries and BFRootGroup; and the proofs of section 4, which cover the safety of every module.

Modules that could follow:

1. `StationBeamReader` as a module: read errors, partial blocks, the first block.
2. `TBBLegacy`: TBB.cc and tbb2h5.cpp, the one-thread predecessor of TBBraw, with its stop
   conditions and the lookup of stations and dipoles.
3. `IOMode`: the flags of IO_Mode.cc and the exclusions between them, against the
   relation its documentation gives.
4. HDF5Dataset's copies, together with the objects of BFRootGroup that hold them.

Abstract specifications worth stating: a frame archive (a set of frames with times)
for TBBraw, a block table (one row per block and subband) for bf2h5.

No safety property is left to prove for the modules there are; theirs would follow the modules.
