----------------------------- MODULE BFRootGroup -----------------------------
(* DAL::BF_RootGroup, BF_SubArrayPointing and BF_BeamGroup: the objects a     *)
(* beam-formed file is written and read through.  The root keeps a map of     *)
(* pointings, each of them a map of beams, each of them one of Stokes         *)
(* datasets.  An object owns an HDF5 identifier: assigning it to another one  *)
(* counts the identifier up, destroying it counts it down, and copying it by  *)
(* its constructor shares the identifier without counting.  The objects of a  *)
(* map are assigned to; those embedded in them are copied.                    *)
(*                                                                            *)
(* An identifier that was closed is as good as none, and none stands for it.  *)
EXTENDS Integers, FiniteSets, FiniteSetsExt, SequencesExt

CONSTANTS Pointings,    \* the numbers of sub-array pointings,
          Beams,        \* of beams and
          Stokes,       \* of Stokes datasets
          Log,          \* the group of the system log in the root of the file
          Identifiers,  \* HDF5 identifiers; when all are open nothing can be opened
          Flags,        \* I/O mode flags groups and datasets are opened with
          FileFlags     \* ... and the file

ASSUME NumbersAssumption ==
  /\ Identifiers \subseteq Nat \ {0}
  /\ IsFiniteSet(Pointings) /\ IsFiniteSet(Beams)

VARIABLES file,    \* whether it exists, NOF_PRIMARY_BEAMS, its groups
          hdf5,    \* the library: the owners of each identifier, whether the
                   \* file is open for writing, and the identifiers of beams
                   \* that are not in the file any more
          root,    \* the root object: whether it is there and connected, and
                   \* its map of pointings, itsSubarrayPointings
          held,    \* the copy of a pointing that the caller has, by number
          status   \* the value of the last call

vars == << file, hdf5, root, held, status >>

None == 0
Empty == << >>
NoRoot == [state |-> "none", entries |-> Empty]

(* map[key] = value. *)
Put(map, key, value) ==
  [k \in DOMAIN map \cup {key} |-> IF k = key THEN value ELSE map[k]]

-----------------------------------------------------------------------------
(* The library: w is the file and the identifiers, as they are in a step.     *)
World == [file |-> file, hdf5 |-> hdf5]

Alive(w, id) == id # None /\ w.hdf5.owners[id] > 0
Busy(w) == \E id \in Identifiers : Alive(w, id)
Free(w) == {id \in Identifiers : ~Alive(w, id)}
Fresh(w) == IF Free(w) = {} THEN None ELSE Min(Free(w))

WithLibrary(w, owners, orphans) ==
  [w EXCEPT !.hdf5 = [owners |-> owners, writable |-> @.writable, orphans |-> orphans]]

Owned(w, id) ==
  IF id = None THEN w
  ELSE WithLibrary(w, [w.hdf5.owners EXCEPT ![id] = @ + 1], w.hdf5.orphans \ {id})

Closed(w, ids) ==
  LET own == w.hdf5.owners
  IN  WithLibrary(w, [id \in Identifiers |->
                        IF id \in ids /\ own[id] > 0 THEN own[id] - 1 ELSE own[id]],
                  w.hdf5.orphans)

(* A beam in the file is a map of its datasets: whether they have samples.    *)
NewGroup == [nof |-> 0, beams |-> Empty]
BeamsOf(w, p) == w.file.groups[p].beams
WithGroups(w, groups) == [w EXCEPT !.file.groups = groups]

-----------------------------------------------------------------------------
(* HDF5GroupBase. *)

Opens(there, flag) == there /\ flag \in {"Open", "OpenOrCreate"}

\* Fault: a group that is there is made once more.
MakesAgain(there, flag) == flag # "Open"

Makes(there, flag) ==
  \/ flag \in {"Create", "Truncate"}
  \/ ~there /\ flag \in {"OpenOrCreate", "CreateNew"}

(* open: no identifier without a valid location.                              *)
MadeIn(w, valid, there, flag) == valid /\ Makes(there, flag) /\ w.hdf5.writable

OpenedId(w, valid, there, flag) ==
  IF (valid /\ Opens(there, flag)) \/ MadeIn(w, valid, there, flag)
  THEN Fresh(w) ELSE None

IdsOf(sap) == {sap.id} \cup {sap.beams[b].id : b \in DOMAIN sap.beams}

\* Fault: the beams of a pointing are not closed with it.
DestroyedAlone(w, sap) == Closed(w, {sap.id})

(* The destructors of a pointing and its beams. *)
Destroyed(w, sap) == Closed(w, IdsOf(sap))

(* map[name] = T (...): assigned, and the temporary destroyed. *)
Assigned(w, sap) == Destroyed(Owned(w, sap.id), sap)

(* An object, after what happened to the identifiers it shares. *)
Now(w, sap) ==
  LET Left(id) == IF Alive(w, id) THEN id ELSE None
  IN  [id |-> Left(sap.id),
       beams |-> [b \in DOMAIN sap.beams |-> [sap.beams[b] EXCEPT !.id = Left(@)]]]

-----------------------------------------------------------------------------
(* BF_SubArrayPointing; its operations give the world and the object after.   *)

Entered(sap, b, id, stokes) ==
  [sap EXCEPT !.beams = Put(@, b, [id |-> id, stokes |-> stokes])]

(* openEmbedded: every group in the pointing is opened as a beam, which opens *)
(* the datasets in it.                                                        *)
WithNext(w, sap, p, b) ==
  LET id     == Fresh(w)
      stokes == IF id = None THEN {} ELSE DOMAIN BeamsOf(w, p)[b]
  IN  [w |-> Owned(w, id), sap |-> Entered(sap, b, id, stokes)]

WithEmbedded(w, p, id) ==
  LET names == SetToSeq(DOMAIN BeamsOf(w, p))
      after[n \in 0 .. Len(names)] ==
        IF n = 0 THEN [w |-> w, sap |-> [id |-> id, beams |-> Empty]]
                 ELSE WithNext(after[n - 1].w, after[n - 1].sap, p, names[n])
  IN  after[Len(names)]

(* The constructor, through open. *)
NewPointing(w, valid, p, flag) ==
  LET there == p \in DOMAIN w.file.groups
      id    == OpenedId(w, valid, there, flag)
      made  == IF MadeIn(w, valid, there, flag)
               THEN WithGroups(w, Put(w.file.groups, p, NewGroup)) ELSE w
  IN  IF id = None THEN [w |-> made, sap |-> [id |-> None, beams |-> Empty]]
      ELSE WithEmbedded(Owned(made, id), p, id)

(* The identifiers of a beam that is made anew, which keep the old one.       *)
Stale(p, b) ==
  {objects[p].beams[b].id : objects \in
     {o \in {root.entries, held} : p \in DOMAIN o /\ b \in DOMAIN o[p].beams}} \ {None}

(* openBeam: whatever comes of it, the beam has an entry then, and the number *)
(* of entries is written to the group.                                        *)
WithBeam(w, sap, p, b, flag) ==
  LET valid  == Alive(w, sap.id)
      there  == valid /\ b \in DOMAIN BeamsOf(w, p)
      id     == OpenedId(w, valid, there, flag)
      made   == IF ~MadeIn(w, valid, there, flag) THEN w
                ELSE WithGroups(WithLibrary(w, w.hdf5.owners, w.hdf5.orphans \cup Stale(p, b)),
                                [w.file.groups EXCEPT ![p].beams = Put(@, b, Empty)])
      stokes == IF id = None THEN {} ELSE DOMAIN BeamsOf(made, p)[b]
      after  == Entered(sap, b, id, stokes)
      count  == Cardinality(DOMAIN after.beams)
      opened == Owned(made, id)
  IN  IF b \in DOMAIN sap.beams THEN [w |-> w, sap |-> sap]
      ELSE [w |-> IF valid /\ w.hdf5.writable
                  THEN WithGroups(opened, [opened.file.groups EXCEPT ![p].nof = count])
                  ELSE opened,
            sap |-> after]

-----------------------------------------------------------------------------
(* BF_BeamGroup: openStokesDataset with a number alone opens, with a shape it *)
(* makes.  A closed location makes H5Lexists fail, which is not zero.         *)
InFile(w, beam) == Alive(w, beam.id) /\ beam.id \notin w.hdf5.orphans

OpenStokes(w, sap, p, b, s) ==
  LET beam  == sap.beams[b]
      found == \/ ~Alive(w, beam.id)
               \/ InFile(w, beam) /\ s \in DOMAIN BeamsOf(w, p)[b]
  IN  IF found THEN Entered(sap, b, beam.id, beam.stokes \cup {s}) ELSE sap

(* A dataset that the object has an entry of is deleted, in the file too, if  *)
(* the flags allow; then one without samples is made unless there is one or   *)
(* the location cannot have one.                                              *)
Overwriting == {"OpenOrCreate", "Create", "Truncate"}

MakeStokes(w, sap, p, b, s, flag) ==
  LET beam    == sap.beams[b]
      deleted == s \in beam.stokes /\ flag \in Overwriting
  IN  [w |-> IF InFile(w, beam) /\ w.hdf5.writable
                  /\ (s \notin DOMAIN BeamsOf(w, p)[b] \/ deleted)
             THEN WithGroups(w, [w.file.groups EXCEPT ![p].beams[b] = Put(@, s, FALSE)])
             ELSE w,
       sap |-> Entered(sap, b, beam.id, beam.stokes \cup {s}),
       status |-> s \notin beam.stokes \/ deleted]

-----------------------------------------------------------------------------
(* BF_RootGroup. *)

(* openSubArrayPointing, likewise; entries of the log too, see OpenRoot.      *)
WithPointing(w, entries, valid, p, flag) ==
  LET new   == NewPointing(w, valid, p, flag)
      after == Assigned(new.w, new.sap)
      all   == Put(entries, p, Now(after, new.sap))
  IN  IF p \in DOMAIN entries THEN [w |-> w, entries |-> entries]
      ELSE [w |-> IF valid /\ w.hdf5.writable
                  THEN [after EXCEPT !.file.nof = Cardinality(DOMAIN all)] ELSE after,
            entries |-> all]

Becomes(w, state, entries, copies) ==
  /\ file' = w.file
  /\ hdf5' = [w.hdf5 EXCEPT !.orphans = {id \in @ : Alive(w, id)}]
  /\ root' = [state |-> state, entries |-> [p \in DOMAIN entries |-> Now(w, entries[p])]]
  /\ held' = [p \in DOMAIN copies |-> Now(w, copies[p])]

(* HDF5Object::openFile: the file is truncated or opened; a file that is open *)
(* cannot be truncated, nor opened for writing if it is not.                  *)
Truncates(flag) == flag \in {"Create", "Truncate"} \/ ~file.exists
Fails(flag) ==
  /\ Busy(World)
  /\ Truncates(flag) \/ (flag = "ReadWrite" /\ ~hdf5.writable)

FileOpened(flag) ==
  IF Truncates(flag)
  THEN [file |-> [exists |-> TRUE, nof |-> 0, groups |-> Empty],
        hdf5 |-> [hdf5 EXCEPT !.writable = TRUE]]
  ELSE [World EXCEPT !.hdf5.writable = IF Busy(World) THEN @ ELSE flag = "ReadWrite"]

WithAll(w, names) ==
  LET order == SetToSeq(names)
      after[n \in 0 .. Len(order)] ==
        IF n = 0 THEN [w |-> w, entries |-> Empty]
        ELSE WithPointing(after[n - 1].w, after[n - 1].entries, TRUE, order[n], "OpenOrCreate")
  IN  after[Len(order)]

(* open and openEmbedded, from the constructors: the names of the groups are  *)
(* asked for before the log is opened or created, and all of them are opened  *)
(* as pointings: the log goes by another name than the one that is left out.  *)
OpenRoot(flag) ==
  /\ root.state = "none"
  /\ ~Fails(flag)
  /\ LET opened == FileOpened(flag)
         names  == DOMAIN opened.file.groups
         logged == IF opened.hdf5.writable /\ Log \notin names
                   THEN WithGroups(opened, Put(opened.file.groups, Log, NewGroup)) ELSE opened
         after  == WithAll(logged, names)
     IN  Becomes(after.w, "open", after.entries, held)
  /\ status' = TRUE

OpenRootFails(flag) ==
  /\ root.state = "none"
  /\ Fails(flag)
  /\ root' = [NoRoot EXCEPT !.state = "failed"]
  /\ status' = FALSE
  /\ UNCHANGED << file, hdf5, held >>

DestroyRoot ==
  /\ root.state # "none"
  /\ LET ids == UNION {IdsOf(root.entries[p]) : p \in DOMAIN root.entries}
     IN  Becomes(Closed(World, ids), "none", Empty, held)
  /\ UNCHANGED status

Pointing(p, flag) ==
  WithPointing(World, root.entries, root.state = "open", p, flag)

OpenSubArrayPointing(p, flag) ==
  /\ root.state # "none"
  /\ LET s == Pointing(p, flag) IN Becomes(s.w, root.state, s.entries, held)
  /\ status' = TRUE

(* openBeam: the value of the lower level's is dropped. *)
OpenBeam(p, b, flag) ==
  /\ root.state # "none"
  /\ LET s == Pointing(p, flag)
         t == WithBeam(s.w, s.entries[p], p, b, flag)
     IN  Becomes(t.w, root.state, [s.entries EXCEPT ![p] = t.sap], held)
  /\ status' = TRUE

(* openStokesDataset, of what is there; the beam is opened or created. *)
OpenStokesDataset(p, b, n, flag) ==
  /\ root.state # "none"
  /\ LET s == Pointing(p, flag)
         t == WithBeam(s.w, s.entries[p], p, b, "OpenOrCreate")
     IN  Becomes(t.w, root.state,
                 [s.entries EXCEPT ![p] = OpenStokes(t.w, t.sap, p, b, n)], held)
  /\ status' = TRUE

(* ... and of a new one, with channels. *)
CreateStokesDataset(p, b, n, flag) ==
  /\ root.state # "none"
  /\ LET s == Pointing(p, flag)
         t == WithBeam(s.w, s.entries[p], p, b, flag)
         u == MakeStokes(t.w, t.sap, p, b, n, flag)
     IN  /\ Becomes(u.w, root.state, [s.entries EXCEPT ![p] = u.sap], held)
         /\ status' = u.status

(* BF_StokesDataset::writeData, by whoever opened the dataset in the file.    *)
WriteData(p, b, n) ==
  /\ root.state = "open" /\ hdf5.writable
  /\ p \in DOMAIN file.groups /\ b \in DOMAIN BeamsOf(World, p)
  /\ n \in DOMAIN BeamsOf(World, p)[b]
  /\ LET written == [file.groups EXCEPT ![p].beams[b] = Put(@, n, TRUE)]
     IN  Becomes(WithGroups(World, written), root.state, root.entries, held)
  /\ status' = TRUE

(* getSubArrayPointing: a copy, which the caller destroys some time. *)
GetSubArrayPointing(p) ==
  /\ root.state = "open" /\ p \in DOMAIN root.entries /\ held = Empty
  /\ held' = Put(Empty, p, root.entries[p])
  /\ status' = Alive(World, root.entries[p].id)
  /\ UNCHANGED << file, hdf5, root >>

(* getBeamGroup: a copy out of a copy of the pointing, destroyed on return.   *)
GetBeamGroup(p) ==
  /\ root.state = "open" /\ p \in DOMAIN root.entries
  /\ Becomes(Destroyed(World, root.entries[p]), root.state, root.entries, held)
  /\ status' = FALSE

(* The caller's copy: BF_SubArrayPointing::openBeam and the destructor.       *)
HeldOpenBeam(p, b, flag) ==
  /\ p \in DOMAIN held
  /\ LET t == WithBeam(World, held[p], p, b, flag)
     IN  Becomes(t.w, root.state, root.entries, Put(Empty, p, t.sap))
  /\ status' = TRUE

DestroyHeld(p) ==
  /\ p \in DOMAIN held
  /\ Becomes(Destroyed(World, held[p]), root.state, root.entries, Empty)
  /\ UNCHANGED status

Init ==
  /\ file = [exists |-> FALSE, nof |-> 0, groups |-> Empty]
  /\ hdf5 = [owners |-> [id \in Identifiers |-> 0], writable |-> FALSE, orphans |-> {}]
  /\ root = NoRoot
  /\ held = Empty
  /\ status = TRUE

Next ==
  \/ \E flag \in FileFlags : OpenRoot(flag) \/ OpenRootFails(flag)
  \/ DestroyRoot
  \/ \E p \in Pointings, flag \in Flags :
       \/ OpenSubArrayPointing(p, flag)
       \/ \E b \in Beams : \/ OpenBeam(p, b, flag)
                           \/ HeldOpenBeam(p, b, flag)
                           \/ \E n \in Stokes : \/ OpenStokesDataset(p, b, n, flag)
                                                \/ CreateStokesDataset(p, b, n, flag)
  \/ \E p \in Pointings, b \in Beams, n \in Stokes : WriteData(p, b, n)
  \/ \E p \in Pointings : GetSubArrayPointing(p) \/ GetBeamGroup(p) \/ DestroyHeld(p)

Spec == Init /\ [][Next]_vars

-----------------------------------------------------------------------------
(* Properties. *)

Ids == Identifiers \cup {None}
Names == Pointings \cup {Log}
IsMap(f, K, V) == DOMAIN f \subseteq K /\ f \in [DOMAIN f -> V]

IsPointing(sap) ==
  /\ sap \in [id : Ids, beams : {sap.beams}]
  /\ IsMap(sap.beams, Beams, [id : Ids, stokes : SUBSET Stokes])
Datasets == UNION {[D -> BOOLEAN] : D \in SUBSET Stokes}
IsGroup(group) ==
  /\ group \in [nof : Nat, beams : {group.beams}]
  /\ IsMap(group.beams, Beams, Datasets)

AreObjects(entries) ==
  /\ IsMap(entries, Names, {entries[p] : p \in DOMAIN entries})
  /\ \A p \in DOMAIN entries : IsPointing(entries[p])
AreGroups(groups) ==
  /\ IsMap(groups, Names, {groups[p] : p \in DOMAIN groups})
  /\ \A p \in DOMAIN groups : IsGroup(groups[p])
IsWorld(w) ==
  /\ w \in [file : [exists : BOOLEAN, nof : Nat, groups : {w.file.groups}],
            hdf5 : [owners : [Identifiers -> Nat], writable : BOOLEAN,
                    orphans : SUBSET Identifiers]]
  /\ AreGroups(w.file.groups)

TypeOK ==
  /\ IsWorld(World)
  /\ root \in [state : {"none", "open", "failed"}, entries : {root.entries}]
  /\ AreObjects(root.entries) /\ AreObjects(held)
  /\ status \in BOOLEAN

(* Whatever is shared and closed, an identifier that is open has an object    *)
(* that will close it: with the last object the file is closed, and can be    *)
(* made anew.                                                                 *)
NothingLeaks ==
  \A id \in Identifiers : hdf5.owners[id] > 0 =>
    /\ hdf5.owners[id] = 1
    /\ \E objects \in {root.entries, held} : \E p \in DOMAIN objects : id \in IdsOf(objects[p])

(* What it rests on: an object has no identifier that is closed, a pointing    *)
(* that is open is in the file, and without a file nothing is open.           *)
Tidy(w, objects) ==
  \A p \in DOMAIN objects :
    /\ \A id \in IdsOf(objects[p]) : id = None \/ Alive(w, id)
    /\ Alive(w, objects[p].id) => p \in DOMAIN w.file.groups

FileInv ==
  /\ (root.state = "open" \/ hdf5.writable \/ file.groups # Empty) => file.exists
  /\ root.state = "none" => root.entries = Empty
  /\ \A p, q \in DOMAIN held : p = q

IInv ==
  TypeOK /\ NothingLeaks /\ Tidy(World, root.entries) /\ Tidy(World, held) /\ FileInv

(* Unless the file is made anew no group or dataset in it is lost, not even   *)
(* by an object that does not know what others made, and samples are lost     *)
(* only of the dataset that is asked for with a flag that replaces it.        *)
WithinBut(old, new, replaced) ==
  \A p \in DOMAIN old :
    /\ p \in DOMAIN new
    /\ \A b \in DOMAIN old[p].beams :
         /\ b \in DOMAIN new[p].beams
         /\ \A n \in DOMAIN old[p].beams[b] :
              /\ n \in DOMAIN new[p].beams[b]
              /\ old[p].beams[b][n] /\ << p, b, n >> \notin replaced => new[p].beams[b][n]

Replaces(p, b, n) ==
  \E flag \in Flags \cap Overwriting : CreateStokesDataset(p, b, n, flag)
Overwritten == {d \in Pointings \X Beams \X Stokes : Replaces(d[1], d[2], d[3])}

Kept == [][~OpenRoot("Create") => WithinBut(file.groups, file'.groups, Overwritten)]_vars

(* What is not so, as section 6 of the README shows: samples that were        *)
(* written stay with the flag that opens what is there ...                    *)
Within(old, new) == WithinBut(old, new, {})
SamplesStay == [][~OpenRoot("Create") => Within(file.groups, file'.groups)]_vars

(* ... the beams of a pointing that was opened are open ...                   *)
BeamsOpen ==
  \A p \in DOMAIN root.entries : \A b \in DOMAIN root.entries[p].beams :
    Alive(World, root.entries[p].id) => Alive(World, root.entries[p].beams[b].id)

(* ... a pointing that was asked for stays open in the root object ...        *)
PointingsStay ==
  [][\A p \in Pointings : DestroyHeld(p) /\ p \in DOMAIN root.entries =>
       (Alive(World, root.entries[p].id) => root'.entries[p].id # None)]_vars

(* ... the counts in the file are those of the pointings ...                  *)
PointingsCounted == file.nof = Cardinality(DOMAIN file.groups \ {Log})

(* ... and of the beams ...                                                   *)
BeamsCounted ==
  \A p \in DOMAIN file.groups :
    file.groups[p].nof = Cardinality(DOMAIN file.groups[p].beams)

(* ... and a dataset that was made is in the file.                            *)
DatasetMade ==
  [][\A p \in Pointings, b \in Beams, n \in Stokes, flag \in Flags :
       CreateStokesDataset(p, b, n, flag) /\ hdf5.writable /\ status' =>
         p \in DOMAIN file'.groups /\ b \in DOMAIN file'.groups[p].beams
           /\ n \in DOMAIN file'.groups[p].beams[b]]_vars
==============================================================================
