---------------------------- MODULE TBBTimeseries ----------------------------
(* DAL::TBB_Timeseries, the object a program reads a TBB file through, with   *)
(* the TBB_StationGroup objects it keeps per group of the file.  Each station *)
(* group has its own selection of dipoles; the time series forwards every     *)
(* selection to all of them and keeps a map of its own of what they selected. *)
(* Attributes are gathered station by station, data by the time series' map.  *)
(* Some of the questions change the selection to find their answer and change *)
(* it back.                                                                   *)
(*                                                                            *)
(* Groups and dipoles are numbers in the order of their names: a dipole's     *)
(* name starts with the number of its station.                                *)
EXTENDS Integers, Sequences, FiniteSets, FiniteSetsExt

CONSTANTS Files,      \* names of files
          Contents,   \* what is there at first, see Content
          SysLog,     \* the group of that name
          Dipoles,    \* the dipoles of the files
          Names,      \* the names a caller may ask for
          Time,       \* per dipole: the second of its first sample ...
          Sample,     \* ... the number of that sample in the second ...
          Length,     \* ... how many samples there are ...
          Frequency,  \* ... and how many a second
          PerSecond,  \* samples in a second of the station's clock
          Ulps,       \* the doubles between one second and the next
          Unreadable, \* per attribute: the dipoles it cannot be read of
          UInt,       \* the number of values of an unsigned int (2^32)
          Flags,      \* sets of I/O mode flags open is called with
          Starts,     \* where reads start
          Counts      \* how many samples they read

(* A file that is not there, one that is not HDF5, or the groups and the      *)
(* dipoles in each.                                                           *)
Kinds == {"none", "foreign", "hdf5"}

ASSUME ContentsAssumption ==
  /\ SysLog \in Nat /\ Dipoles \subseteq Nat /\ IsFiniteSet(Dipoles)
  /\ DOMAIN Contents = Files
  /\ \A f \in Files :
       /\ Contents[f].kind \in Kinds
       /\ DOMAIN Contents[f].groups \subseteq Nat
       /\ IsFiniteSet(DOMAIN Contents[f].groups)

(* The dipoles of a station, in whatever file they are.                       *)
FilesWith(g) == {f \in Files : g \in DOMAIN Contents[f].groups}
DipolesOf(g) == UNION {Contents[f].groups[g] : f \in FilesWith(g)}

ASSUME NamesAssumption ==
  \A f1, f2 \in Files :
    \A g \in DOMAIN Contents[f1].groups, h \in DOMAIN Contents[f2].groups :
      /\ Contents[f1].groups[g] \subseteq Dipoles
      /\ g < h => \A d \in DipolesOf(g), e \in DipolesOf(h) : d < e

Attributes == {"TIME", "SAMPLE_NUMBER", "SAMPLE_FREQUENCY_VALUE", "DATA_LENGTH"}

ASSUME RecordingAssumption ==
  /\ Time \in [Dipoles -> Nat] /\ Sample \in [Dipoles -> Nat]
  /\ Frequency \in [Dipoles -> Nat \ {0}]
  /\ PerSecond \in Nat /\ Ulps \in Nat \ {0}

ASSUME AttributesAssumption == Unreadable \in [Attributes -> SUBSET Dipoles]

VARIABLES file,      \* the files, changed by open alone
          location,  \* the file the object is connected to, None if none
          stations,  \* stationGroups_p: the datasets of each and the selection
          selected,  \* the keys of selectedDatasets_p
          answer,    \* the value of the last call, a sequence of numbers
          thrown,    \* it threw IOError instead
          data       \* the columns of the last read

vars == << file, location, stations, selected, answer, thrown, data >>

None == 0
Status(ok) == IF ok THEN << 1 >> ELSE << 0 >>

(* map entries are replaced or added.                                         *)
Over(new, old) ==
  [k \in DOMAIN new \cup DOMAIN old |-> IF k \in DOMAIN new THEN new[k] ELSE old[k]]

(* What is iterated over in the order of the names: the n-th has n - 1 before *)
(* it.                                                                        *)
Before(S, x) == {y \in S : y < x}
InOrder(S) ==
  [n \in 1 .. Cardinality(S) |-> CHOOSE x \in S : Cardinality(Before(S, x)) = n - 1]

(* Set after set, each of them in order.                                      *)
Listed(sets) ==
  LET order == InOrder(DOMAIN sets)
      upto[n \in 0 .. Len(order)] ==
        IF n = 0 THEN << >> ELSE upto[n - 1] \o InOrder(sets[order[n]])
  IN  upto[Len(order)]

-----------------------------------------------------------------------------
(* TBB_StationGroup. *)

(* openEmbedded: a group without datasets leaves the old ones in the object.  *)
OpenStation(datasets, old) ==
  LET all == IF datasets # {} THEN datasets ELSE old
  IN  [datasets |-> all, selected |-> all]

\* Fault: a group that knows none of the names loses its selection.
SelectInNone(station, names) ==
  [station EXCEPT !.selected = station.datasets \cap names]

(* selectDipoles: names the group does not know are passed over, and if it    *)
(* knows none the selection stays what it was.                                *)
SelectIn(station, names) ==
  IF station.datasets \cap names = {} THEN station
  ELSE [station EXCEPT !.selected = station.datasets \cap names]

SelectAllIn(station) == [station EXCEPT !.selected = station.datasets]

-----------------------------------------------------------------------------
(* TBB_Timeseries. *)

\* Fault: selectAllDipoles leaves the selections of the stations alone.
EverythingSelected(groups) == groups

Narrowed(groups, names) == [g \in DOMAIN groups |-> SelectIn(groups[g], names)]
Everything(groups) == [g \in DOMAIN groups |-> SelectAllIn(groups[g])]

(* setSelectedDatasets. *)
Chosen(groups) == UNION {groups[g].selected : g \in DOMAIN groups}

(* The rows of getAttributes, and what dipoleNames lists. *)
Rows(groups) == Listed([g \in DOMAIN groups |-> groups[g].selected])
AllNames(groups) == Listed([g \in DOMAIN groups |-> groups[g].datasets])

(* getAttributes succeeds if every selected dipole has the attribute. *)
Readable(groups, attributes) ==
  \A a \in attributes : Chosen(groups) \cap Unreadable[a] = {}

Stamp == {"TIME", "SAMPLE_NUMBER"}

(* The columns of readData. *)
Columns == InOrder(selected)

(* (double) dt / clock + sample - refSample, cut to an int; dt is unsigned.   *)
Quotient(a, b) == IF a >= 0 THEN a \div b ELSE -((-a) \div b)
Offset(d, ref) ==
  Quotient(((Time[d] - Time[ref]) % UInt) + (Sample[d] - Sample[ref]) * PerSecond, PerSecond)

(* The reference antenna selected alone, the first of the rows then, and the  *)
(* selection put back.                                                        *)
AtReference(ref) == Narrowed(stations, {AllNames(stations)[ref]})
Reference(ref) == Rows(AtReference(ref))[1]
AfterReference(ref) == Narrowed(AtReference(ref), selected)
Offsets(ref) ==
  LET rows  == Rows(AfterReference(ref))
      first == Reference(ref)
  IN  [n \in DOMAIN rows |-> Offset(rows[n], first)]

(* When a dipole starts, times its frequency and in steps of the doubles      *)
(* there, and the double the code compares: the nearest, of two the even one. *)
(* The quotient sn / (f * 1e6) is rounded too, which changes nothing for      *)
(* whole frequencies below 2^31 Hz and sample numbers below the frequency.    *)
Instant(d) == (Time[d] * Frequency[d] + Sample[d]) * Ulps

Current(d) ==
  LET below == Instant(d) \div Frequency[d]
      rest  == Instant(d) % Frequency[d]
  IN  IF 2 * rest < Frequency[d] \/ (2 * rest = Frequency[d] /\ below % 2 = 0)
        THEN below ELSE below + 1

(* The first of the rows whose double is largest, all dipoles being selected. *)
Latest(rows) ==
  CHOOSE i \in DOMAIN rows :
    /\ \A j \in DOMAIN rows : Current(rows[j]) <= Current(rows[i])
    /\ \A j \in 1 .. i - 1 : Current(rows[j]) < Current(rows[i])

ReadLength(ref) ==
  LET rows    == Rows(stations)
      offsets == Offsets(ref)
  IN  Max({0} \cup {(Length[rows[n]] - offsets[n]) % UInt : n \in DOMAIN rows})

(* TBB_DipoleDataset::readData: the samples from start on, the first numbered *)
(* one, and zeros where none were read; nothing if all lies before the first. *)
(* Samples before the first are skipped in the file but not in the array, and *)
(* a read past the end fails as a whole.                                      *)
Column(d, start, count) ==
  LET from   == Max({start, 0})
      length == IF start < 0 THEN count + start ELSE count
  IN  IF start + count - 1 < 0 THEN << >>
      ELSE [i \in 1 .. count |->
              IF i <= length /\ from + length <= Length[d] THEN from + i ELSE 0]

-----------------------------------------------------------------------------
Init ==
  /\ file = Contents
  /\ location = None
  /\ stations = << >>
  /\ selected = {}
  /\ answer = << >>
  /\ thrown = FALSE
  /\ data = << >>

(* open: a file that cannot be opened is created if the flags allow, which    *)
(* truncates it, and IOError is thrown otherwise; then the group of the       *)
(* system log is opened or created, and every group of the file is taken for  *)
(* a station.  A file without a group throws IOError when it has been opened. *)
Creates(flags) == flags \cap {"Create", "OpenOrCreate"} # {}

Groups(f, flags) ==
  LET found    == file[f].kind = "hdf5"
      groups   == IF found THEN file[f].groups ELSE << >>
      writable == found => "ReadOnly" \notin flags
      logs     == writable /\ flags \cap {"OpenOrCreate", "Create", "CreateNew"} # {}
  IN  IF logs THEN Over(groups, [g \in {SysLog} |-> {}]) ELSE groups

OldDatasets(g) == IF g \in DOMAIN stations THEN stations[g].datasets ELSE {}

Open(f, flags) ==
  /\ file[f].kind = "hdf5" \/ Creates(flags)
  /\ LET groups == Groups(f, flags)
     IN  /\ file' = [file EXCEPT ![f] = [kind |-> "hdf5", groups |-> groups]]
         /\ stations' = Over([g \in DOMAIN groups |-> OpenStation(groups[g], OldDatasets(g))],
                             stations)
         /\ selected' = IF groups = << >> THEN selected ELSE Chosen(stations')
         /\ thrown' = (groups = << >>)
  /\ location' = f
  /\ answer' = << >>
  /\ UNCHANGED data

OpenFails(f, flags) ==
  /\ file[f].kind # "hdf5" /\ ~Creates(flags)
  /\ location' = None
  /\ answer' = << >>
  /\ thrown' = TRUE
  /\ UNCHANGED << file, stations, selected, data >>

(* selectDipoles and selectAllDipoles; the answer is the status. *)
SelectDipoles(names) ==
  /\ stations' = Narrowed(stations, names)
  /\ selected' = Chosen(stations')
  /\ answer' = Status(\A g \in DOMAIN stations : stations[g].datasets \cap names # {})
  /\ thrown' = FALSE
  /\ UNCHANGED << file, location, data >>

SelectAllDipoles ==
  /\ stations' = Everything(stations)
  /\ selected' = Chosen(stations')
  /\ answer' = Status(TRUE)
  /\ thrown' = FALSE
  /\ UNCHANGED << file, location, data >>

(* What a question leaves the stations as, whether it failed, and its value.  *)
Asked(groups, failed, value) ==
  /\ stations' = groups
  /\ selected' = Chosen(groups)
  /\ thrown' = failed
  /\ answer' = IF failed THEN << >> ELSE value
  /\ UNCHANGED << file, location, data >>

(* sample_offset fails before the selection is put back if it cannot read the *)
(* stamp of what is selected with the reference antenna, and after it if that *)
(* of what was selected.                                                      *)
AsksOffset(ref, value) ==
  LET restored == Readable(AtReference(ref), Stamp)
  IN  /\ ref \in DOMAIN AllNames(stations)
      /\ Asked(IF restored THEN AfterReference(ref) ELSE AtReference(ref),
               ~restored \/ ~Readable(AfterReference(ref), Stamp), value)

\* Fault: the selection is not put back.
SampleOffsetStays(ref) ==
  /\ ref \in DOMAIN AllNames(stations)
  /\ Asked(AtReference(ref), ~Readable(AtReference(ref), Stamp), Offsets(ref))

(* sample_offset: the selection is kept aside, the reference antenna selected *)
(* alone, and the selection put back.                                         *)
SampleOffset(ref) == AsksOffset(ref, Offsets(ref))

(* alignment_reference_antenna, with all dipoles instead; counted from one.   *)
(* It has put nothing back if an attribute of some dipole cannot be read.     *)
AlignmentReferenceAntenna ==
  LET all      == Everything(stations)
      restored == Readable(all, Stamp \cup {"SAMPLE_FREQUENCY_VALUE"})
  IN  /\ AllNames(stations) # << >>
      /\ Asked(IF restored THEN Narrowed(all, selected) ELSE all,
               ~restored, << Latest(Rows(all)) >>)

(* maximum_read_length: the lengths of what is selected, then sample_offset.  *)
MaximumReadLength(ref) ==
  \/ /\ Readable(stations, {"DATA_LENGTH"})
     /\ AsksOffset(ref, << ReadLength(ref) >>)
  \/ /\ ~Readable(stations, {"DATA_LENGTH"})
     /\ thrown' = TRUE
     /\ answer' = << >>
     /\ UNCHANGED << file, location, stations, selected, data >>

(* readData with one start for all dipoles. *)
ReadData(start, count) ==
  /\ location # None
  /\ data' = [n \in DOMAIN Columns |-> Column(Columns[n], start, count)]
  /\ answer' = Status(TRUE)
  /\ thrown' = FALSE
  /\ UNCHANGED << file, location, stations, selected >>

Next ==
  \/ \E f \in Files, flags \in Flags : Open(f, flags) \/ OpenFails(f, flags)
  \/ \E names \in Names : SelectDipoles(names)
  \/ SelectAllDipoles
  \/ \E ref \in 1 .. Cardinality(Dipoles) : SampleOffset(ref) \/ MaximumReadLength(ref)
  \/ AlignmentReferenceAntenna
  \/ \E start \in Starts, count \in Counts : ReadData(start, count)

Spec == Init /\ [][Next]_vars

-----------------------------------------------------------------------------
(* Properties. *)

(* The selection the time series reads data by is the one its stations have,  *)
(* and in the same order: column n of the data is the dipole of row n of the  *)
(* attributes.  A station with dipoles is never left without a selection,     *)
(* which the methods below need to put the selection back.                    *)
SelectionsAgree ==
  /\ selected = Chosen(stations)
  /\ Columns = Rows(stations)
  /\ \A g \in DOMAIN stations :
       stations[g].datasets # {} => stations[g].selected # {}

(* What it rests on: a dipole is a dataset of its own station in every file   *)
(* and in every object, a station has no selection but of its own datasets,   *)
(* and the map is the union of the selections.                                *)
OfStations(groups) ==
  /\ DOMAIN groups \subseteq Nat /\ IsFiniteSet(DOMAIN groups)
  /\ \A g \in DOMAIN groups : groups[g] \subseteq DipolesOf(g)

StationInv(groups) ==
  /\ DOMAIN groups \subseteq Nat /\ IsFiniteSet(DOMAIN groups)
  /\ groups \in [DOMAIN groups -> [datasets : SUBSET Dipoles, selected : SUBSET Dipoles]]
  /\ \A g \in DOMAIN groups :
       /\ groups[g].datasets \subseteq DipolesOf(g)
       /\ groups[g].selected \subseteq groups[g].datasets
       /\ groups[g].datasets # {} => groups[g].selected # {}

IInv ==
  /\ DOMAIN file = Files
  /\ \A f \in Files : OfStations(file[f].groups)
  /\ StationInv(stations)
  /\ selected = Chosen(stations)

(* Asking for offsets, for the reference antenna or for the length that can   *)
(* be read leaves the selection of the caller as it was, in every station,    *)
(* if the call returns.                                                       *)
Asks(ref) == SampleOffset(ref) \/ MaximumReadLength(ref) \/ AlignmentReferenceAntenna

LeavesSelection ==
  [][\A ref \in 1 .. Cardinality(Dipoles) :
       Asks(ref) /\ ~thrown' => UNCHANGED << stations, selected >>]_vars

(* No dipole of the file's, selected or not, starts later than the reference  *)
(* antenna by more than what doubles tell apart (the instants are compared    *)
(* times both frequencies), and its number is the one sample_offset           *)
(* understands.                                                               *)
NotMuchLater(d, e) ==
  Instant(d) * Frequency[e] <= Instant(e) * Frequency[d] + Frequency[d] * Frequency[e]

ReferenceStartsLast ==
  [][AlignmentReferenceAntenna /\ ~thrown' =>
       \A d \in UNION {stations[g].datasets : g \in DOMAIN stations} :
         NotMuchLater(d, AllNames(stations)[answer'[1]])]_vars

(* What is not so, as section 6 of the README shows: the selection is the     *)
(* caller's again also after a call that threw ...                            *)
SelectionRestored ==
  [][\A ref \in 1 .. Cardinality(Dipoles) :
       Asks(ref) => UNCHANGED << stations, selected >>]_vars

(* ... no dipole starts later than the reference antenna at all ...           *)
ReferenceIsLast ==
  [][AlignmentReferenceAntenna /\ ~thrown' =>
       \A d \in UNION {stations[g].datasets : g \in DOMAIN stations} :
         LET ref == AllNames(stations)[answer'[1]]
         IN  Instant(d) * Frequency[ref] <= Instant(ref) * Frequency[d]]_vars

(* ... the offsets are counted from the reference antenna ...                 *)
Start(d) == Time[d] * PerSecond + Sample[d]

OffsetsFromReference ==
  [][\A ref \in 1 .. Cardinality(Dipoles) : SampleOffset(ref) /\ ~thrown' =>
       \A n \in DOMAIN answer' :
         answer'[n] = Start(Rows(stations)[n]) - Start(AllNames(stations)[ref])]_vars

(* ... what is selected is what was asked for ...                             *)
OnlyRequested ==
  [][\A names \in Names : SelectDipoles(names) /\ names # {} => selected' \subseteq names]_vars

(* ... every dipole can be read that far from its offset on ...               *)
LengthCanBeRead ==
  [][\A ref \in 1 .. Cardinality(Dipoles) : MaximumReadLength(ref) /\ ~thrown' =>
       \A n \in DOMAIN Rows(stations) :
         Offsets(ref)[n] + answer'[1] <= Length[Rows(stations)[n]]]_vars

(* ... a sample that was read is in its place ...                             *)
SamplesInPlace ==
  [][\A start \in Starts, count \in Counts : ReadData(start, count) =>
       \A n \in DOMAIN data' : \A i \in DOMAIN data'[n] :
         data'[n][i] \in {0, start + i}]_vars

(* ... the stations are those of the file, and the system log is none ...     *)
StationsOfFile ==
  location # None => DOMAIN stations = DOMAIN file[location].groups
SysLogApart == SysLog \notin DOMAIN stations

(* ... and a file that is not there is created (the flags are those of the    *)
(* constructor that takes a name).                                            *)
CreatesFile == [][\A f \in Files, flags \in Flags :
                    file[f].kind = "none" => ~OpenFails(f, flags)]_vars
==============================================================================
