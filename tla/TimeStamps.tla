----------------------------- MODULE TimeStamps -----------------------------
(* The time stamps of TBB frames and their repair (fixDateOld, fixDateNew).      *)
(*                                                                              *)
(* A frame has 1024 samples and starts at a multiple of 512, so that positions   *)
(* are counted here in half frames: a frame is 2 long.  At 200 MHz a second is   *)
(* 2 * K + 1 long, K = 195312: every other second begins in the middle of a      *)
(* frame.  At 160 MHz it is 2 * K long, K = 156250.  Frame g of a dipole is the  *)
(* g-th one since the start of a second that begins with a frame.                *)
EXTENDS Integers

CONSTANT K       \* whole frames in a second

ASSUME StampAssumption == K \in Nat /\ K >= 2

VARIABLE setting  \* how an event is recorded; it does not change

Clock      == setting.clock       \* sample_freq: 200 or 160 MHz
HalfParity == setting.halfParity  \* of the seconds that begin in the middle of a frame
StampStyle == setting.stampStyle  \* how stations stamp frames: "right", "old" or "new"

Rate == IF Clock = 200 THEN 2 * K + 1 ELSE 2 * K

-----------------------------------------------------------------------------
(* The stations.                                                                *)

\* Second and sample_nr at which frame g starts.
TrueStamp(g) == [time |-> (1 - HalfParity) + (2 * g) \div Rate, sample |-> (2 * g) % Rate]

Halved(h)     == Clock = 200 /\ h.time % 2 = HalfParity
EndsSecond(h) == h.sample + 2 >= Rate

\* Both styles count the samples of a second from the first whole frame in it; the
\* old one also gives the last frame of a second the number of the next second.
Unhalved(h) == [h EXCEPT !.sample = IF Halved(h) THEN @ - 1 ELSE @]

Stamp(g) ==
    LET h == TrueStamp(g) IN
    CASE StampStyle = "right" -> h
      [] StampStyle = "new"   -> Unhalved(h)
      [] StampStyle = "old"   -> [Unhalved(h) EXCEPT !.time = IF EndsSecond(h) THEN @ + 1 ELSE @]

\* The old style gives the last frame of an odd second a stamp that an earlier
\* frame of the next second has, too.
Ambiguous(g) ==
    /\ StampStyle = "old"
    /\ Halved(TrueStamp(g)) /\ EndsSecond(TrueStamp(g))

-----------------------------------------------------------------------------
(* The repair, of the stamp h of a frame; odd is oddSecond, a static variable.  *)

\* Fault: the last frame of an odd second keeps its second.
FixDateOldNoLast(h, odd) ==
    CASE Clock = 160 -> h
      [] Clock = 200 /\ h.time % 2 # 0 /\ h.sample = 2 * K -> [h EXCEPT !.time = @ - 1]
      [] Clock = 200 /\ h.time % 2 # 0 /\ h.sample # 2 * K -> [h EXCEPT !.sample = @ + 1]
      [] OTHER -> h

FixDateOld(h, odd) ==
    CASE Clock = 160 /\ h.sample = 2 * K - 2 -> [h EXCEPT !.time = @ - 1]
      [] Clock = 200 /\ h.time % 2 # 0 /\ h.sample = 2 * K -> [h EXCEPT !.time = @ - 1]
      [] Clock = 200 /\ h.time % 2 # 0 /\ h.sample # 2 * K -> [h EXCEPT !.sample = @ + 1]
      [] Clock = 200 /\ h.time % 2 = 0 /\ odd /\ h.sample = 2 * K - 2 ->
            [time |-> h.time - 1, sample |-> h.sample + 1]
      [] OTHER -> h

\* oddSecond after fixDateOld.
OddSecond(h, odd) ==
    CASE Clock = 160 -> odd
      [] Clock = 200 /\ h.time % 2 # 0 -> odd \/ h.sample # 2 * K
      [] Clock = 200 /\ h.time % 2 = 0 -> odd /\ h.sample = 2 * K - 2

FixDateNew(h) ==
    IF Clock = 200 /\ h.time % 2 # 1 THEN [h EXCEPT !.sample = @ + 1] ELSE h
=============================================================================
