--------------------------- MODULE TBBraw_proofs ---------------------------
(* Proofs about TBBraw and the repair of time stamps, for every value of the     *)
(* constants: that a repaired stamp is the true one in every second of an event,  *)
(* hence that each frame is written where its time puts it, that none is missing, *)
(* and that the tables of stations and dipoles are kept as they should.           *)
EXTENDS TBBraw, TLAPS

-----------------------------------------------------------------------------
(* The true time of a frame.                                                    *)

\* Quotient and remainder.
LEMMA DivMod ==
    ASSUME NEW a \in Nat, NEW b \in Nat \ {0}
    PROVE  a \div b \in Nat /\ a % b \in 0..(b - 1) /\ a = b * (a \div b) + (a % b)
  BY SMT

\* Parity of the remainder, by a divisor that is odd and one that is even.
LEMMA OddRate ==
    ASSUME NEW q \in Nat, NEW k \in Nat, NEW r \in Int, NEW g \in Int,
           2 * g = q * (2 * k + 1) + r
    PROVE  r % 2 = q % 2
  BY SMT

LEMMA EvenRate ==
    ASSUME NEW q \in Nat, NEW k \in Nat, NEW r \in Int, NEW g \in Int,
           2 * g = q * (2 * k) + r
    PROVE  r % 2 = 0
  BY SMT

\* What is known of the setting once its type is.
LEMMA SettingType ==
    ASSUME setting \in Settings
    PROVE  /\ Clock \in {160, 200} /\ HalfParity \in {0, 1}
           /\ StampStyle \in {"right", "old", "new"} /\ FixTimes \in 0..2
           /\ setting.lastFrame \in Nat /\ Frames = 0..setting.lastFrame
           /\ K \in Nat /\ K >= 2 /\ Rate \in Nat \ {0}
           /\ Clock = 200 => Rate = 2 * K + 1
           /\ Clock = 160 => Rate = 2 * K
  BY TBBrawAssumption, StampAssumption
     DEF Clock, HalfParity, StampStyle, FixTimes, Frames, Rate

\* The second q and the sample r that frame g starts at.  At 200 MHz the sample is odd
\* in the odd seconds of the event.
LEMMA TrueStampValue ==
    ASSUME setting \in Settings, NEW g \in Nat
    PROVE  \E q \in Nat, r \in 0..(Rate - 1) :
             /\ 2 * g = Rate * q + r
             /\ TrueStamp(g) = [time |-> (1 - HalfParity) + q, sample |-> r]
             /\ r % 2 = IF Clock = 200 THEN q % 2 ELSE 0
<1>. DEFINE q == (2 * g) \div Rate
            r == (2 * g) % Rate
<1>1. /\ q \in Nat /\ r \in 0..(Rate - 1)
      /\ 2 * g = Rate * q + r
  <2>1. 2 * g \in Nat /\ Rate \in Nat \ {0}
    BY SettingType
  <2>. QED BY <2>1, DivMod
<1>2. TrueStamp(g) = [time |-> (1 - HalfParity) + q, sample |-> r]
  BY DEF TrueStamp
<1>3. r % 2 = IF Clock = 200 THEN q % 2 ELSE 0
  <2>. HIDE DEF q, r
  <2>1. CASE Clock = 200
    <3>1. 2 * g = q * (2 * K + 1) + r /\ K \in Nat
      BY <1>1, <2>1, SettingType
    <3>. QED BY <1>1, <2>1, <3>1, OddRate
  <2>2. CASE Clock = 160
    <3>1. 2 * g = q * (2 * K) + r /\ K \in Nat
      BY <1>1, <2>2, SettingType
    <3>. QED BY <1>1, <2>2, <3>1, EvenRate
  <2>. QED BY <2>1, <2>2, SettingType
<1>. QED BY <1>1, <1>2, <1>3

\* The distance of two frames is that of their true stamps.
LEMMA StampDistance ==
    ASSUME setting \in Settings, NEW f \in Nat, NEW g \in Nat
    PROVE  (TrueStamp(g).sample - TrueStamp(f).sample)
             + (TrueStamp(g).time - TrueStamp(f).time) * Rate = 2 * (g - f)
<1>1. PICK q \in Nat, r \in 0..(Rate - 1) :
        2 * g = Rate * q + r /\ TrueStamp(g) = [time |-> (1 - HalfParity) + q, sample |-> r]
  BY TrueStampValue
<1>2. PICK p \in Nat, s \in 0..(Rate - 1) :
        2 * f = Rate * p + s /\ TrueStamp(f) = [time |-> (1 - HalfParity) + p, sample |-> s]
  BY TrueStampValue
<1>3. Rate \in Nat /\ HalfParity \in {0, 1}
  BY SettingType
<1>4. ((1 - HalfParity) + q) - ((1 - HalfParity) + p) = q - p
  BY <1>3
<1>5. (q - p) * Rate = Rate * q - Rate * p
  BY <1>3
<1>6. Rate * q \in Int /\ Rate * p \in Int
  BY <1>3
<1>. QED BY <1>1, <1>2, <1>3, <1>4, <1>5, <1>6

-----------------------------------------------------------------------------
(* The repair.                                                                  *)

\* The stamps that need no repair, or a repair that looks at the stamp alone.
LEMMA RightRestored ==
    ASSUME setting \in Settings, NEW g \in Nat, StampStyle = "right", FixTimes = 0
    PROVE  FixedStamp(Stamp(g)) = TrueStamp(g)
  BY DEF FixedStamp, Stamp

LEMMA NewRestored ==
    ASSUME setting \in Settings, NEW g \in Nat, StampStyle = "new", FixTimes = 2,
           Clock = 160 \/ HalfParity = 0
    PROVE  FixedStamp(Stamp(g)) = TrueStamp(g)
<1>1. PICK q \in Nat, r \in 0..(Rate - 1) :
        /\ 2 * g = Rate * q + r
        /\ TrueStamp(g) = [time |-> (1 - HalfParity) + q, sample |-> r]
        /\ r % 2 = IF Clock = 200 THEN q % 2 ELSE 0
  BY TrueStampValue
<1>2. /\ Clock \in {160, 200} /\ HalfParity \in {0, 1} /\ Rate \in Nat
  BY SettingType
<1>3. Stamp(g) = Unhalved(TrueStamp(g)) /\ FixedStamp(Stamp(g)) = FixDateNew(Stamp(g))
  BY DEF Stamp, FixedStamp
<1>4. CASE Clock = 160
  BY <1>1, <1>2, <1>3, <1>4 DEF Unhalved, FixDateNew, Halved
<1>5. CASE Clock = 200
  <2>1. HalfParity = 0
    BY <1>5
  <2>2. Stamp(g) = [time |-> 1 + q, sample |-> IF (1 + q) % 2 = 0 THEN r - 1 ELSE r]
    BY <1>1, <1>2, <1>3, <1>5, <2>1 DEF Unhalved, Halved
  <2>3. (1 + q) % 2 \in {0, 1}
    OBVIOUS
  <2>4. FixedStamp(Stamp(g)) = [time |-> 1 + q, sample |-> r]
    BY <1>1, <1>2, <1>3, <1>5, <2>2, <2>3 DEF FixDateNew
  <2>. QED BY <1>1, <1>2, <2>1, <2>4
<1>. QED BY <1>2, <1>4, <1>5

LEMMA SlowRestored ==
    ASSUME setting \in Settings, NEW g \in Nat
    PROVE  StampStyle = "old" /\ FixTimes = 1 /\ Clock = 160 =>
             FixedStamp(Stamp(g)) = TrueStamp(g)
<1>1. PICK q \in Nat, r \in 0..(Rate - 1) :
        /\ 2 * g = Rate * q + r
        /\ TrueStamp(g) = [time |-> (1 - HalfParity) + q, sample |-> r]
        /\ r % 2 = IF Clock = 200 THEN q % 2 ELSE 0
  BY TrueStampValue
<1>. SUFFICES ASSUME StampStyle = "old", FixTimes = 1, Clock = 160
              PROVE  FixedStamp(Stamp(g)) = TrueStamp(g)
  OBVIOUS
<1>2. HalfParity \in {0, 1} /\ K \in Nat /\ K >= 2 /\ Rate = 2 * K
  BY SettingType
<1>3. r % 2 = 0 /\ ~(Clock = 200)
  BY <1>1
<1>4. r + 2 >= Rate <=> r = 2 * K - 2
  BY <1>2, <1>3
<1>5. Unhalved(TrueStamp(g)) = TrueStamp(g)
  BY <1>1, <1>3 DEF Unhalved, Halved
<1>6. Stamp(g) = [time |-> IF r = 2 * K - 2 THEN (1 - HalfParity) + q + 1
                                            ELSE (1 - HalfParity) + q,
                  sample |-> r]
  BY <1>1, <1>2, <1>4, <1>5 DEF Stamp, EndsSecond
<1>7. FixedStamp(Stamp(g)) = FixDateOld(Stamp(g), oddSecond)
  BY DEF FixedStamp
<1>. QED BY <1>1, <1>2, <1>6, <1>7 DEF FixDateOld

\* Old stamps at 200 MHz, case by case: whole seconds, with an even q, have K + 1
\* frames, the last of which is given to the next second; odd ones have K.
LEMMA OldStampValue ==
    ASSUME setting \in Settings, NEW g \in Nat, StampStyle = "old", Clock = 200,
           HalfParity = 1
    PROVE  \E q \in Nat, r \in 0..(2 * K) :
             /\ TrueStamp(g) = [time |-> q, sample |-> r]
             /\ Halved(TrueStamp(g)) <=> q % 2 = 1
             /\ EndsSecond(TrueStamp(g)) <=> r >= 2 * K - 1
             /\ \/ q % 2 = 0 /\ r = 2 * K /\ Stamp(g) = [time |-> q + 1, sample |-> r]
                \/ q % 2 = 0 /\ r <= 2 * K - 2 /\ Stamp(g) = [time |-> q, sample |-> r]
                \/ /\ q % 2 = 1 /\ r = 2 * K - 1
                   /\ Stamp(g) = [time |-> q + 1, sample |-> r - 1]
                \/ /\ q % 2 = 1 /\ r \in 1..(2 * K - 3)
                   /\ Stamp(g) = [time |-> q, sample |-> r - 1]
<1>1. PICK q \in Nat, r \in 0..(Rate - 1) :
        /\ 2 * g = Rate * q + r
        /\ TrueStamp(g) = [time |-> (1 - HalfParity) + q, sample |-> r]
        /\ r % 2 = IF Clock = 200 THEN q % 2 ELSE 0
  BY TrueStampValue
<1>2. K \in Nat /\ K >= 2 /\ Rate = 2 * K + 1
  BY SettingType
<1>3. TrueStamp(g) = [time |-> q, sample |-> r] /\ r \in 0..(2 * K) /\ r % 2 = q % 2
  BY <1>1, <1>2
<1>4. Halved(TrueStamp(g)) <=> q % 2 = 1
  BY <1>3 DEF Halved
<1>5. EndsSecond(TrueStamp(g)) <=> r >= 2 * K - 1
  BY <1>2, <1>3 DEF EndsSecond
<1>6. Unhalved(TrueStamp(g)) = [time |-> q, sample |-> IF q % 2 = 1 THEN r - 1 ELSE r]
  BY <1>3, <1>4 DEF Unhalved
<1>7. Stamp(g) = [time |-> IF r >= 2 * K - 1 THEN q + 1 ELSE q,
                  sample |-> IF q % 2 = 1 THEN r - 1 ELSE r]
  BY <1>3, <1>5, <1>6 DEF Stamp
<1>8. q % 2 \in {0, 1}
  BY <1>3
<1>9. \/ q % 2 = 0 /\ r = 2 * K /\ Stamp(g) = [time |-> q + 1, sample |-> r]
      \/ q % 2 = 0 /\ r <= 2 * K - 2 /\ Stamp(g) = [time |-> q, sample |-> r]
      \/ q % 2 = 1 /\ r = 2 * K - 1 /\ Stamp(g) = [time |-> q + 1, sample |-> r - 1]
      \/ q % 2 = 1 /\ r \in 1..(2 * K - 3) /\ Stamp(g) = [time |-> q, sample |-> r - 1]
  <2>1. CASE q % 2 = 0
    <3>1. r = 2 * K \/ r <= 2 * K - 2
      BY <1>2, <1>3, <2>1
    <3>. QED BY <1>2, <1>3, <1>7, <2>1, <3>1
  <2>2. CASE q % 2 = 1
    <3>1. r = 2 * K - 1 \/ r \in 1..(2 * K - 3)
      BY <1>2, <1>3, <2>2
    <3>. QED BY <1>2, <1>3, <1>7, <2>2, <3>1
  <2>. QED BY <1>8, <2>1, <2>2
<1>. QED BY <1>3, <1>4, <1>5, <1>9

\* oddSecond after fixDateOld at 200 MHz.
LEMMA OddSecondValue ==
    ASSUME Clock = 200, NEW t \in Nat, NEW n \in Nat, K \in Nat, oddSecond \in BOOLEAN
    PROVE  OddSecond([time |-> t, sample |-> n], oddSecond)
             <=> IF t % 2 = 0 THEN oddSecond /\ n = 2 * K - 2 ELSE oddSecond \/ n # 2 * K
<1>1. CASE t % 2 = 0
  BY <1>1 DEF OddSecond
<1>2. CASE t % 2 # 0
  BY <1>2 DEF OddSecond
<1>. QED BY <1>1, <1>2

\* With old stamps the repair is right, and leaves oddSecond right, if oddSecond is
\* right when the end of a second comes.
OddKnown(g) == TrueStamp(g).sample >= 2 * K - 2 => (oddSecond <=> Halved(TrueStamp(g)))

LEMMA OldRestored ==
    ASSUME setting \in Settings, NEW g \in Nat, StampStyle = "old", Clock = 200,
           HalfParity = 1, FixTimes = 1, oddSecond \in BOOLEAN, OddKnown(g)
    PROVE  /\ FixedStamp(Stamp(g)) = TrueStamp(g)
           /\ OddSecond(Stamp(g), oddSecond) <=> Halved(TrueStamp(g))
<1>1. PICK q \in Nat, r \in 0..(2 * K) :
        /\ TrueStamp(g) = [time |-> q, sample |-> r]
        /\ Halved(TrueStamp(g)) <=> q % 2 = 1
        /\ \/ q % 2 = 0 /\ r = 2 * K /\ Stamp(g) = [time |-> q + 1, sample |-> r]
           \/ q % 2 = 0 /\ r <= 2 * K - 2 /\ Stamp(g) = [time |-> q, sample |-> r]
           \/ q % 2 = 1 /\ r = 2 * K - 1 /\ Stamp(g) = [time |-> q + 1, sample |-> r - 1]
           \/ /\ q % 2 = 1 /\ r \in 1..(2 * K - 3)
              /\ Stamp(g) = [time |-> q, sample |-> r - 1]
  BY OldStampValue
<1>2. K \in Nat /\ K >= 2
  BY SettingType
<1>3. FixedStamp(Stamp(g)) = FixDateOld(Stamp(g), oddSecond)
  BY DEF FixedStamp
<1>4. r >= 2 * K - 2 => (oddSecond <=> q % 2 = 1)
  BY <1>1 DEF OddKnown
<1>5. CASE q % 2 = 0 /\ r = 2 * K /\ Stamp(g) = [time |-> q + 1, sample |-> r]
  <2>1. (q + 1) % 2 # 0 /\ ~oddSecond
    BY <1>2, <1>4, <1>5
  <2>2. FixDateOld(Stamp(g), oddSecond) = [time |-> q, sample |-> r]
    BY <1>2, <1>5, <2>1 DEF FixDateOld
  <2>3. ~OddSecond(Stamp(g), oddSecond)
    <3>1. q + 1 \in Nat /\ r \in Nat
      BY <1>2, <1>5
    <3>2. OddSecond([time |-> q + 1, sample |-> r], oddSecond)
            <=> IF (q + 1) % 2 = 0 THEN oddSecond /\ r = 2 * K - 2
                                 ELSE oddSecond \/ r # 2 * K
      BY <1>2, <3>1, OddSecondValue
    <3>. QED BY <1>2, <1>5, <2>1, <3>2
  <2>. QED BY <1>1, <1>3, <1>5, <2>2, <2>3
<1>6. CASE q % 2 = 0 /\ r <= 2 * K - 2 /\ Stamp(g) = [time |-> q, sample |-> r]
  <2>1. ~(oddSecond /\ r = 2 * K - 2)
    BY <1>2, <1>4, <1>6
  <2>2. FixDateOld(Stamp(g), oddSecond) = [time |-> q, sample |-> r]
    BY <1>2, <1>6, <2>1 DEF FixDateOld
  <2>3. ~OddSecond(Stamp(g), oddSecond)
    <3>1. q \in Nat /\ r \in Nat
      BY <1>2, <1>6
    <3>2. OddSecond([time |-> q, sample |-> r], oddSecond)
            <=> IF (q) % 2 = 0 THEN oddSecond /\ r = 2 * K - 2
                                 ELSE oddSecond \/ r # 2 * K
      BY <1>2, <3>1, OddSecondValue
    <3>. QED BY <1>2, <1>6, <2>1, <3>2
  <2>. QED BY <1>1, <1>3, <1>6, <2>2, <2>3
<1>7. CASE q % 2 = 1 /\ r = 2 * K - 1 /\ Stamp(g) = [time |-> q + 1, sample |-> r - 1]
  <2>1. (q + 1) % 2 = 0 /\ oddSecond /\ r - 1 = 2 * K - 2
    BY <1>2, <1>4, <1>7
  <2>2. FixDateOld(Stamp(g), oddSecond) = [time |-> q, sample |-> r]
    BY <1>2, <1>7, <2>1 DEF FixDateOld
  <2>3. OddSecond(Stamp(g), oddSecond)
    <3>1. q + 1 \in Nat /\ r - 1 \in Nat
      BY <1>2, <1>7
    <3>2. OddSecond([time |-> q + 1, sample |-> r - 1], oddSecond)
            <=> IF (q + 1) % 2 = 0 THEN oddSecond /\ r - 1 = 2 * K - 2
                                 ELSE oddSecond \/ r - 1 # 2 * K
      BY <1>2, <3>1, OddSecondValue
    <3>. QED BY <1>2, <1>7, <2>1, <3>2
  <2>. QED BY <1>1, <1>3, <1>7, <2>2, <2>3
<1>8. CASE /\ q % 2 = 1 /\ r \in 1..(2 * K - 3)
           /\ Stamp(g) = [time |-> q, sample |-> r - 1]
  <2>1. r - 1 # 2 * K
    BY <1>2, <1>8
  <2>2. FixDateOld(Stamp(g), oddSecond) = [time |-> q, sample |-> r]
    BY <1>2, <1>8, <2>1 DEF FixDateOld
  <2>3. OddSecond(Stamp(g), oddSecond)
    <3>1. q \in Nat /\ r - 1 \in Nat
      BY <1>2, <1>8
    <3>2. OddSecond([time |-> q, sample |-> r - 1], oddSecond)
            <=> IF (q) % 2 = 0 THEN oddSecond /\ r - 1 = 2 * K - 2
                                 ELSE oddSecond \/ r - 1 # 2 * K
      BY <1>2, <3>1, OddSecondValue
    <3>. QED BY <1>2, <1>8, <2>1, <3>2
  <2>. QED BY <1>1, <1>3, <1>8, <2>2, <2>3
<1>. QED BY <1>1, <1>5, <1>6, <1>7, <1>8

\* Multiplication by a rate keeps the order.
LEMMA TimesMonotone ==
    ASSUME NEW n \in Nat, NEW p \in Nat, NEW q \in Nat, p < q
    PROVE  n * p + n <= n * q
<1>1. PICK i \in Nat : q = p + 1 + i
  BY q = p + 1 + (q - p - 1)
<1>2. n * q = n * p + n + n * i
  BY <1>1
<1>3. n * i \in Nat /\ n * p \in Nat
  BY <1>1
<1>. QED BY <1>1, <1>2, <1>3

\* A frame that is taken no more than its samples of a second before another one is of
\* the same second.
LEMMA SameSecond ==
    ASSUME setting \in Settings, NEW f \in Nat, NEW g \in Nat, f <= g,
           2 * (g - f) <= TrueStamp(g).sample
    PROVE  TrueStamp(f).time = TrueStamp(g).time
<1>1. PICK q \in Nat, r \in 0..(Rate - 1) :
        2 * g = Rate * q + r /\ TrueStamp(g) = [time |-> (1 - HalfParity) + q, sample |-> r]
  BY TrueStampValue
<1>2. PICK p \in Nat, s \in 0..(Rate - 1) :
        2 * f = Rate * p + s /\ TrueStamp(f) = [time |-> (1 - HalfParity) + p, sample |-> s]
  BY TrueStampValue
<1>3. Rate \in Nat /\ HalfParity \in {0, 1}
  BY SettingType
<1>4. Rate * q \in Nat /\ Rate * p \in Nat
  BY <1>3
<1>5. Rate * q <= 2 * f /\ 2 * f <= 2 * g
  BY <1>1, <1>4
<1>6. ~(p < q)
  BY <1>2, <1>3, <1>4, <1>5, TimesMonotone
<1>7. ~(q < p)
  BY <1>1, <1>2, <1>3, <1>4, <1>5, TimesMonotone
<1>8. p = q
  BY <1>6, <1>7
<1>. QED BY <1>1, <1>2, <1>8

\* What frame g of dipole d leaves in oddSecond is known when it comes in order: the
\* frame before it, if it is at the end of a second, was of the same one.
LEMMA OddInOrder ==
    ASSUME setting \in Settings, StampStyle = "old", Clock = 200, HalfParity = 1,
           InOrder, MaxLost + 1 < K, OddInv, oddSecond \in BOOLEAN,
           NEW d \in Dipoles, latest[d] \in Frames \cup {-1}, NEW g \in Deliverable(d)
    PROVE  g \in Nat /\ OddKnown(g)
<1>1. K \in Nat /\ K >= 2 /\ MaxLost \in Nat /\ Frames \subseteq Nat /\ -1 \notin Frames
  BY SettingType, TBBrawAssumption
<1>2. g \in Nat
  BY <1>1 DEF Deliverable
<1>3. PICK q \in Nat, r \in 0..(2 * K) :
        /\ TrueStamp(g) = [time |-> q, sample |-> r]
        /\ Halved(TrueStamp(g)) <=> q % 2 = 1
        /\ EndsSecond(TrueStamp(g)) <=> r >= 2 * K - 1
        /\ \/ q % 2 = 0
           \/ q % 2 = 1 /\ r = 2 * K - 1
           \/ q % 2 = 1 /\ r \in 1..(2 * K - 3)
  BY <1>2, OldStampValue
<1>4. SUFFICES ASSUME r >= 2 * K - 2 PROVE oddSecond <=> Halved(TrueStamp(g))
  BY <1>2, <1>3 DEF OddKnown
<1>5. CASE latest[d] = -1
  <2>1. ~Ambiguous(g)
    BY <1>5 DEF Deliverable
  <2>2. ~Halved(TrueStamp(g))
    BY <1>1, <1>3, <1>4, <2>1 DEF Ambiguous
  <2>3. ~oddSecond
    BY <1>5 DEF OddInv
  <2>. QED BY <2>2, <2>3
<1>6. CASE latest[d] # -1
  <2>. DEFINE f == latest[d]
  <2>1. f \in Nat /\ f < g /\ g <= f + 1 + MaxLost
    BY <1>1, <1>6 DEF Deliverable
  <2>2. 2 * (g - f) <= TrueStamp(g).sample
    BY <1>1, <1>2, <1>3, <1>4, <2>1
  <2>3. TrueStamp(f).time = TrueStamp(g).time
    BY <1>2, <2>1, <2>2, SameSecond
  <2>4. Halved(TrueStamp(f)) <=> Halved(TrueStamp(g))
    BY <2>3 DEF Halved
  <2>5. oddSecond <=> Halved(TrueStamp(f))
    BY <1>6 DEF OddInv
  <2>. QED BY <2>4, <2>5
<1>. QED BY <1>5, <1>6

\* The stamp of every frame that may come is repaired.
LEMMA Restored ==
    ASSUME setting \in Settings, Repaired(setting), OddInv, oddSecond \in BOOLEAN,
           NEW d \in Dipoles, latest[d] \in Frames \cup {-1}, NEW g \in Deliverable(d)
    PROVE  g \in Frames /\ g \in Nat /\ FixedStamp(Stamp(g)) = TrueStamp(g)
<1>1. g \in Frames /\ g \in Nat
  BY SettingType DEF Deliverable
<1>2. CASE StampStyle = "right" /\ FixTimes = 0
  BY <1>1, <1>2, RightRestored
<1>3. CASE StampStyle = "new" /\ FixTimes = 2 /\ (Clock = 160 \/ HalfParity = 0)
  BY <1>1, <1>3, NewRestored
<1>4. CASE StampStyle = "old" /\ FixTimes = 1 /\ Clock = 160
  BY <1>1, <1>4, SlowRestored
<1>5. CASE StampStyle = "old" /\ FixTimes = 1 /\ HalfParity = 1 /\ Clock = 200
           /\ InOrder /\ MaxLost + 1 < K
  <2>1. OddKnown(g)
    BY <1>5, OddInOrder
  <2>. QED BY <1>1, <1>5, <2>1, OldRestored
<1>6. Clock \in {160, 200}
  BY SettingType
<1>. QED BY <1>2, <1>3, <1>4, <1>5, <1>6
     DEF Repaired, StampStyle, FixTimes, Clock, HalfParity, InOrder

-----------------------------------------------------------------------------
(* Types.                                                                       *)

LEMMA StampTime ==
    ASSUME setting \in Settings, NEW g \in Nat
    PROVE  Stamp(g) \in [time : Int, sample : Int]
<1>1. PICK q \in Nat, r \in 0..(Rate - 1) :
        /\ 2 * g = Rate * q + r
        /\ TrueStamp(g) = [time |-> (1 - HalfParity) + q, sample |-> r]
        /\ r % 2 = IF Clock = 200 THEN q % 2 ELSE 0
  BY TrueStampValue
<1>2. Rate \in Nat /\ HalfParity \in {0, 1}
  BY SettingType
<1>3. TrueStamp(g) \in [time : Int, sample : Int]
  BY <1>1, <1>2
<1>4. Unhalved(TrueStamp(g)) \in [time : Int, sample : Int]
  BY <1>3 DEF Unhalved
<1>5. [Unhalved(TrueStamp(g)) EXCEPT !.time = IF EndsSecond(TrueStamp(g)) THEN @ + 1 ELSE @]
        \in [time : Int, sample : Int]
  BY <1>4
<1>6. StampStyle \in {"right", "old", "new"}
  BY SettingType
<1>. QED BY <1>3, <1>4, <1>5, <1>6 DEF Stamp

LEMMA StampType ==
    ASSUME setting \in Settings, NEW g \in Nat
    PROVE  FixedStamp(Stamp(g)) \in [time : Int, sample : Int]
<1>1. Stamp(g) \in [time : Int, sample : Int]
  BY StampTime
<1>2. FixDateNew(Stamp(g)) \in [time : Int, sample : Int]
  BY <1>1, SettingType DEF FixDateNew
<1>3. FixDateOld(Stamp(g), oddSecond) \in [time : Int, sample : Int]
  <2>. DEFINE h == Stamp(g)
  <2>. HIDE DEF h
  <2>1. h \in [time : Int, sample : Int]
    BY <1>1 DEF h
  <2>2. /\ [h EXCEPT !.time = @ - 1] \in [time : Int, sample : Int]
        /\ [h EXCEPT !.sample = @ + 1] \in [time : Int, sample : Int]
        /\ [time |-> h.time - 1, sample |-> h.sample + 1] \in [time : Int, sample : Int]
    BY <2>1
  <2>3. FixDateOld(h, oddSecond) \in [time : Int, sample : Int]
    BY <2>1, <2>2, Zenon DEF FixDateOld
  <2>. QED BY <2>3 DEF h
<1>. QED BY <1>1, <1>2, <1>3, SettingType DEF FixedStamp

LEMMA OddSecondType ==
    ASSUME setting \in Settings, NEW h, oddSecond \in BOOLEAN, h.time \in Int
    PROVE  OddSecond(h, oddSecond) \in BOOLEAN
  BY SettingType DEF OddSecond

\* The conversion to int gives an int, and leaves alone what fits.
LEMMA ToIntType ==
    ASSUME NEW x \in Int
    PROVE  /\ ToInt(x) \in Int
           /\ -Word <= 2 * x /\ 2 * x < Word => ToInt(x) = x
<1>1. PICK w \in Nat \ {0} : Word = 2 * w
  BY TBBrawAssumption
<1>2. Word \div 2 = w
  BY <1>1
<1>3. x % Word \in 0..(Word - 1)
  BY <1>1
<1>4. CASE 0 <= x /\ x < w
  <2>1. x % Word = x
    BY <1>1, <1>4
  <2>. QED BY <1>1, <1>2, <1>4, <2>1 DEF ToInt
<1>5. CASE -w <= x /\ x < 0
  <2>1. x % Word = x + Word
    BY <1>1, <1>5
  <2>. QED BY <1>1, <1>2, <1>5, <2>1 DEF ToInt
<1>6. CASE ~(-w <= x /\ x < w)
  BY <1>1, <1>2, <1>3, <1>6 DEF ToInt
<1>. QED BY <1>4, <1>5, <1>6

\* What a frame does not change in an entry, and what it adds.
LEMMA WithFrameType ==
    ASSUME setting \in Settings, NEW e \in Entry, NEW h \in [time : Int, sample : Int],
           NEW g \in Frames
    PROVE  /\ WriteOffset(e, h) \in Int
           /\ WithFrame(e, h, g) \in Entry
           /\ WithFrame(e, h, g).ID = e.ID /\ WithFrame(e, h, g).first = e.first
           /\ WithFrame(e, h, g).time = e.time /\ WithFrame(e, h, g).sample = e.sample
<1>1. Rate \in Nat
  BY SettingType
<1>2. WriteOffset(e, h) \in Int
  <2>1. (h.sample - e.sample) + (h.time - e.time) * Rate \in Int
    BY <1>1 DEF Entry
  <2>. QED BY <2>1, ToIntType DEF WriteOffset
<1>. DEFINE o == WriteOffset(e, h)
<1>3. CASE o < 0
  BY <1>2, <1>3 DEF WithFrame
<1>4. CASE o >= 0
  <2>1. WithFrame(e, h, g) = [e EXCEPT !.dimension = IF o + 2 > @ THEN o + 2 ELSE @,
                                       !.writes = @ \cup {<<o, g>>}]
    BY <1>2, <1>4 DEF WithFrame
  <2>2. o \in Nat
    BY <1>2, <1>4
  <2>. HIDE DEF o
  <2>3. e.writes \cup {<<o, g>>} \in SUBSET (Nat \X Frames)
    BY <2>2 DEF Entry
  <2>4. (IF o + 2 > e.dimension THEN o + 2 ELSE e.dimension) \in Nat
    BY <2>2 DEF Entry
  <2>5. WithFrame(e, h, g) \in Entry
    BY <2>1, <2>3, <2>4 DEF Entry
  <2>6. /\ WithFrame(e, h, g).ID = e.ID /\ WithFrame(e, h, g).first = e.first
        /\ WithFrame(e, h, g).time = e.time /\ WithFrame(e, h, g).sample = e.sample
    BY <2>1 DEF Entry
  <2>. QED BY <1>2, <2>5, <2>6
<1>. QED BY <1>2, <1>3, <1>4

LEMMA NewEntryType ==
    ASSUME NEW d \in Dipoles, NEW h \in [time : Int, sample : Int], NEW g \in Frames
    PROVE  NewEntry(d, h, g) \in Entry
  BY DEF NewEntry, Entry

\* A function on 1..n is a sequence of length n.
LEMMA FunctionIsSeq ==
    ASSUME NEW n \in Nat, NEW S, NEW f \in [1..n -> S]
    PROVE  f \in Seq(S) /\ Len(f) = n
  BY SMT

\* A frame of dipole d either goes to the arrays d has, or to a new one, or nowhere.
LEMMA TablesAfter ==
    ASSUME TypeOK, NEW d \in Dipoles, NEW g \in Frames, GoodBlock(d, g)
    PROVE  LET h == FixedStamp(Stamp(g)) IN
           \/ /\ HasArray(d) /\ stationBuf' = stationBuf
              /\ dipoleBuf' \in Seq(Entry) /\ Len(dipoleBuf') = Len(dipoleBuf)
              /\ \A i \in 1..Len(dipoleBuf) :
                   dipoleBuf'[i] = IF dipoleBuf[i].ID = d
                                   THEN WithFrame(dipoleBuf[i], h, g) ELSE dipoleBuf[i]
           \/ /\ ~HasArray(d) /\ HasRoom(d) /\ stationBuf' = StationsWith(d)
              /\ dipoleBuf' = Append(dipoleBuf, WithFrame(NewEntry(d, h, g), h, g))
           \/ /\ ~HasArray(d) /\ ~HasRoom(d) /\ stationBuf' = StationsWith(d)
              /\ dipoleBuf' = dipoleBuf
<1>. DEFINE h == FixedStamp(Stamp(g))
            f == [i \in DOMAIN dipoleBuf |-> IF dipoleBuf[i].ID = d
                                             THEN WithFrame(dipoleBuf[i], h, g)
                                             ELSE dipoleBuf[i]]
<1>1. /\ setting \in Settings /\ dipoleBuf \in Seq(Entry) /\ g \in Nat
      /\ dipoleBuf' = DipolesWith(d, h, g)
      /\ stationBuf' = IF HasArray(d) THEN stationBuf ELSE StationsWith(d)
  BY SettingType DEF TypeOK, GoodBlock
<1>2. CASE HasArray(d)
  <2>1. dipoleBuf' = f
    BY <1>1, <1>2 DEF DipolesWith
  <2>2. f \in [1..Len(dipoleBuf) -> Entry]
    <3>1. ASSUME NEW i \in 1..Len(dipoleBuf)
          PROVE  dipoleBuf[i] \in Entry /\ WithFrame(dipoleBuf[i], h, g) \in Entry
      <4>1. dipoleBuf[i] \in Entry
        BY <1>1
      <4>2. h \in [time : Int, sample : Int]
        BY <1>1, StampType
      <4>. HIDE DEF h
      <4>. QED BY <1>1, <4>1, <4>2, WithFrameType
    <3>2. DOMAIN dipoleBuf = 1..Len(dipoleBuf)
      BY <1>1
    <3>. QED BY <3>1, <3>2
  <2>3. f \in Seq(Entry) /\ Len(f) = Len(dipoleBuf)
    <3>1. Len(dipoleBuf) \in Nat
      BY <1>1
    <3>. HIDE DEF f
    <3>. QED BY <2>2, <3>1, FunctionIsSeq
  <2>4. \A i \in 1..Len(dipoleBuf) :
           f[i] = IF dipoleBuf[i].ID = d
                  THEN WithFrame(dipoleBuf[i], h, g) ELSE dipoleBuf[i]
    BY <1>1
  <2>. HIDE DEF f
  <2>. QED BY <1>1, <1>2, <2>1, <2>3, <2>4
<1>3. CASE ~HasArray(d)
  BY <1>1, <1>3 DEF DipolesWith
<1>. QED BY <1>2, <1>3

\* What does not change with the setting.
LEMMA SettingStays ==
    ASSUME setting' = setting
    PROVE  /\ Dipoles' = Dipoles /\ Frames' = Frames /\ Rate' = Rate
           /\ HalfParity' = HalfParity /\ Clock' = Clock
           /\ StampStyle' = StampStyle /\ InOrder' = InOrder
  BY DEF Dipoles, Frames, Rate, HalfParity, Clock, StampStyle, InOrder

StationIDs == {Station(d) : d \in Dipoles}

LEMMA StationsType ==
    ASSUME TypeOK, NEW d \in Dipoles
    PROVE  /\ StationsWith(d) \in Seq(StationIDs) /\ Len(StationsWith(d)) <= MaxStations
           /\ \/ StationsWith(d) = stationBuf
              \/ /\ StationsWith(d) = Append(stationBuf, Station(d))
                 /\ Station(d) \notin ToSet(stationBuf) /\ connected
                 /\ Len(stationBuf) < MaxStations
<1>1. /\ stationBuf \in Seq(StationIDs) /\ Len(stationBuf) <= MaxStations
      /\ MaxStations \in Nat /\ Len(stationBuf) \in Nat /\ Station(d) \in StationIDs
  BY TBBrawAssumption DEF TypeOK, StationIDs
<1>. QED BY <1>1 DEF StationsWith

LEMMA TypeStep == ASSUME TypeOK, [Next]_vars PROVE TypeOK'
<1>1. ASSUME NEW d \in Dipoles, NEW g \in Frames, GoodBlock(d, g) PROVE TypeOK'
  <2>1. /\ setting' = setting /\ connected' = connected /\ objects' = objects
        /\ nofDiscardedHeader' = nofDiscardedHeader
        /\ nofProcessed' = nofProcessed + 1
        /\ sent' = [sent EXCEPT ![d] = @ \cup {g}]
        /\ latest' = [latest EXCEPT ![d] = g]
    BY <1>1 DEF GoodBlock
  <2>2. Dipoles' = Dipoles /\ Frames' = Frames
    BY <2>1, SettingStays
  <2>3. Entry' = Entry
    BY <2>2 DEF Entry
  <2>4. stationBuf' \in Seq(StationIDs) /\ Len(stationBuf') <= MaxStations
    BY <1>1, StationsType DEF GoodBlock, TypeOK, StationIDs
  <2>5. dipoleBuf' \in Seq(Entry) /\ Len(dipoleBuf') <= MaxDipoles
    <3>. DEFINE h == FixedStamp(Stamp(g))
    <3>1. /\ dipoleBuf \in Seq(Entry) /\ Len(dipoleBuf) <= MaxDipoles /\ setting \in Settings
          /\ Len(dipoleBuf) \in Nat /\ MaxDipoles \in Nat
      BY TBBrawAssumption DEF TypeOK
    <3>2. h \in [time : Int, sample : Int]
      BY <3>1, SettingType, StampType
    <3>3. WithFrame(NewEntry(d, h, g), h, g) \in Entry
      <4>. HIDE DEF h
      <4>. QED BY <3>1, <3>2, NewEntryType, WithFrameType
    <3>4. HasRoom(d) => Len(dipoleBuf) < MaxDipoles
      BY DEF HasRoom
    <3>. QED BY <1>1, <3>1, <3>3, <3>4, TablesAfter
  <2>6. oddSecond' \in BOOLEAN
    <3>1. setting \in Settings /\ oddSecond \in BOOLEAN /\ g \in Nat
      BY SettingType DEF TypeOK
    <3>2. Stamp(g).time \in Int
      BY <3>1, StampTime
    <3>. QED BY <1>1, <3>1, <3>2, OddSecondType DEF GoodBlock
  <2>7. nofProcessed' \in Nat /\ nofDiscardedHeader' \in Nat
    BY <2>1 DEF TypeOK
  <2>8. /\ sent' \in [Dipoles -> SUBSET Frames]
        /\ latest' \in [Dipoles -> Frames \cup {-1}]
    BY <2>1 DEF TypeOK
  <2>. QED BY <2>1, <2>2, <2>3, <2>4, <2>5, <2>6, <2>7, <2>8 DEF TypeOK, StationIDs
<1>2. CASE BrokenBlock
  BY <1>2, SettingStays DEF TypeOK, BrokenBlock, Entry
<1>3. CASE SubbandBlock
  BY <1>3, SettingStays DEF TypeOK, SubbandBlock, Entry
<1>4. CASE NewObject
  BY <1>4, SettingStays, TBBrawAssumption DEF TypeOK, NewObject, Entry
<1>5. CASE UNCHANGED vars
  BY <1>5, SettingStays DEF TypeOK, vars, Entry
<1>. QED BY <1>1, <1>2, <1>3, <1>4, <1>5 DEF Next

-----------------------------------------------------------------------------
(* The two tables.                                                              *)

\* What a frame of d does to the IDs in the table of dipoles.
LEMMA IDsAfter ==
    ASSUME TypeOK, NEW d \in Dipoles, NEW g \in Frames, GoodBlock(d, g)
    PROVE  \/ /\ HasArray(d) /\ stationBuf' = stationBuf
              /\ Len(dipoleBuf') = Len(dipoleBuf)
              /\ \A i \in 1..Len(dipoleBuf) : dipoleBuf'[i].ID = dipoleBuf[i].ID
           \/ /\ ~HasArray(d) /\ HasRoom(d) /\ stationBuf' = StationsWith(d)
              /\ Len(dipoleBuf') = Len(dipoleBuf) + 1
              /\ \A i \in 1..Len(dipoleBuf) : dipoleBuf'[i].ID = dipoleBuf[i].ID
              /\ dipoleBuf'[Len(dipoleBuf) + 1].ID = d
           \/ /\ ~HasArray(d) /\ ~HasRoom(d) /\ stationBuf' = StationsWith(d)
              /\ dipoleBuf' = dipoleBuf
<1>. DEFINE h == FixedStamp(Stamp(g))
<1>1. /\ setting \in Settings /\ dipoleBuf \in Seq(Entry) /\ Len(dipoleBuf) \in Nat
      /\ h \in [time : Int, sample : Int]
  <2>1. setting \in Settings /\ dipoleBuf \in Seq(Entry) /\ Len(dipoleBuf) \in Nat
    BY DEF TypeOK
  <2>2. g \in Nat
    BY <2>1, SettingType
  <2>. QED BY <2>1, <2>2, StampType
<1>2. NewEntry(d, h, g) \in Entry /\ NewEntry(d, h, g).ID = d
  BY <1>1, NewEntryType DEF NewEntry
<1>3. \/ /\ HasArray(d) /\ stationBuf' = stationBuf
         /\ dipoleBuf' \in Seq(Entry) /\ Len(dipoleBuf') = Len(dipoleBuf)
         /\ \A i \in 1..Len(dipoleBuf) :
              dipoleBuf'[i] = IF dipoleBuf[i].ID = d
                              THEN WithFrame(dipoleBuf[i], h, g) ELSE dipoleBuf[i]
      \/ /\ ~HasArray(d) /\ HasRoom(d) /\ stationBuf' = StationsWith(d)
         /\ dipoleBuf' = Append(dipoleBuf, WithFrame(NewEntry(d, h, g), h, g))
      \/ /\ ~HasArray(d) /\ ~HasRoom(d) /\ stationBuf' = StationsWith(d)
         /\ dipoleBuf' = dipoleBuf
  BY TablesAfter
<1>. HIDE DEF h
<1>4. WithFrame(NewEntry(d, h, g), h, g) \in Entry /\ WithFrame(NewEntry(d, h, g), h, g).ID = d
  BY <1>1, <1>2, WithFrameType
<1>5. \A i \in 1..Len(dipoleBuf) :
         dipoleBuf[i] \in Entry /\ WithFrame(dipoleBuf[i], h, g).ID = dipoleBuf[i].ID
  BY <1>1, WithFrameType
<1>6. CASE dipoleBuf' = Append(dipoleBuf, WithFrame(NewEntry(d, h, g), h, g))
  <2>1. /\ Len(dipoleBuf') = Len(dipoleBuf) + 1
        /\ \A i \in 1..Len(dipoleBuf) : dipoleBuf'[i] = dipoleBuf[i]
        /\ dipoleBuf'[Len(dipoleBuf) + 1] = WithFrame(NewEntry(d, h, g), h, g)
    BY <1>1, <1>4, <1>6
  <2>. QED BY <1>3, <1>4, <1>5, <2>1
<1>. QED BY <1>3, <1>5, <1>6

\* What a frame of d does to the table of stations.
LEMMA StationsAfter ==
    ASSUME TypeOK, NEW d \in Dipoles
    PROVE  /\ ToSet(stationBuf) \subseteq ToSet(StationsWith(d))
           /\ Len(stationBuf) <= Len(StationsWith(d))
           /\ ~connected => StationsWith(d) = stationBuf
           /\ StationsWith(d) = stationBuf =>
                \/ Station(d) \in ToSet(stationBuf) \/ ~connected
                \/ Len(stationBuf) = MaxStations
           /\ StationsWith(d) # stationBuf => Station(d) \in ToSet(StationsWith(d))
           /\ Len(stationBuf) = MaxStations => StationsWith(d) = stationBuf
           /\ (\A i, j \in DOMAIN stationBuf : stationBuf[i] = stationBuf[j] => i = j) =>
                \A i, j \in DOMAIN StationsWith(d) :
                   StationsWith(d)[i] = StationsWith(d)[j] => i = j
<1>1. stationBuf \in Seq(StationIDs) /\ Len(stationBuf) \in Nat /\ Station(d) \in StationIDs
  BY DEF TypeOK, StationIDs
<1>2. CASE StationsWith(d) = stationBuf
  <2>1. Len(Append(stationBuf, Station(d))) = Len(stationBuf) + 1
    BY <1>1
  <2>2. \/ Station(d) \in ToSet(stationBuf) \/ ~connected
        \/ Len(stationBuf) = MaxStations
    BY <1>1, <1>2, <2>1 DEF StationsWith
  <2>. QED BY <1>1, <1>2, <2>2
<1>3. CASE /\ StationsWith(d) = Append(stationBuf, Station(d))
           /\ Station(d) \notin ToSet(stationBuf) /\ connected
           /\ Len(stationBuf) < MaxStations
  <2>. DEFINE s == Append(stationBuf, Station(d))
              n == Len(stationBuf) + 1
  <2>1. /\ DOMAIN s = 1..n /\ DOMAIN stationBuf = 1..(n - 1) /\ Len(s) = n
        /\ \A i \in 1..(n - 1) : s[i] = stationBuf[i]
        /\ s[n] = Station(d) /\ n \in Nat \ {0}
    BY <1>1
  <2>2. \A i \in 1..(n - 1) : stationBuf[i] # Station(d)
    BY <1>3, <2>1 DEF ToSet
  <2>3. ToSet(stationBuf) \subseteq ToSet(s) /\ Station(d) \in ToSet(s)
    <3>1. ASSUME NEW i \in DOMAIN stationBuf PROVE stationBuf[i] \in ToSet(s)
      <4>1. i \in DOMAIN s /\ s[i] = stationBuf[i]
        BY <2>1
      <4>. QED BY <4>1 DEF ToSet
    <3>2. n \in DOMAIN s /\ s[n] = Station(d)
      BY <2>1
    <3>. QED BY <3>1, <3>2 DEF ToSet
  <2>4. (\A i, j \in DOMAIN stationBuf : stationBuf[i] = stationBuf[j] => i = j) =>
           \A i, j \in DOMAIN s : s[i] = s[j] => i = j
    <3>. HIDE DEF s, n
    <3>. QED BY <2>1, <2>2
  <2>5. StationsWith(d) = s /\ Len(s) = Len(stationBuf) + 1
    BY <1>1, <1>3
  <2>6. Len(stationBuf) # MaxStations
    BY <1>1, <1>3, TBBrawAssumption
  <2>. HIDE DEF s, n
  <2>7. s # stationBuf /\ Len(stationBuf) <= Len(s)
    BY <1>1, <2>5
  <2>. QED BY <1>3, <2>3, <2>4, <2>5, <2>6, <2>7
<1>. QED BY <1>2, <1>3, StationsType

\* A dipole that was refused stays refused, and one that has an array has a station.
LEMMA TablesStep ==
    ASSUME TypeOK, TablesSound, NoStations, [Next]_vars
    PROVE  TablesSound' /\ NoStations'
<1>1. ASSUME NEW d \in Dipoles, NEW g \in Frames, GoodBlock(d, g)
      PROVE  TablesSound' /\ NoStations'
  <2>. DEFINE n == Len(dipoleBuf)
  <2>1. /\ setting' = setting /\ connected' = connected
        /\ sent' = [sent EXCEPT ![d] = @ \cup {g}] /\ sent \in [Dipoles -> SUBSET Frames]
        /\ dipoleBuf \in Seq(Entry) /\ DOMAIN dipoleBuf = 1..n
        /\ n \in Nat /\ n = Len(dipoleBuf)
    BY <1>1 DEF GoodBlock, TypeOK
  <2>2. Dipoles' = Dipoles /\ TypeOK'
    BY <1>1, <2>1, SettingStays, TypeStep DEF Next
  <2>3. /\ stationBuf' = stationBuf \/ stationBuf' = StationsWith(d)
        /\ ToSet(stationBuf) \subseteq ToSet(stationBuf')
        /\ ~connected => stationBuf' = <<>>
        /\ Len(stationBuf) = MaxStations => stationBuf' = stationBuf
        /\ \A i, j \in DOMAIN stationBuf' : stationBuf'[i] = stationBuf'[j] => i = j
    BY <1>1, StationsAfter DEF GoodBlock, NoStations, TablesSound
  <2>4. DOMAIN dipoleBuf' = 1..Len(dipoleBuf')
    BY <2>2 DEF TypeOK
  <2>5. /\ \A i \in 1..n : dipoleBuf'[i].ID = dipoleBuf[i].ID
        /\ \/ HasArray(d) /\ Len(dipoleBuf') = n
           \/ /\ ~HasArray(d) /\ HasRoom(d) /\ stationBuf' = StationsWith(d)
              /\ Len(dipoleBuf') = n + 1 /\ dipoleBuf'[n + 1].ID = d
           \/ /\ ~HasArray(d) /\ ~HasRoom(d) /\ stationBuf' = StationsWith(d)
              /\ Len(dipoleBuf') = n
    BY <1>1, IDsAfter
  <2>6. \A i, j \in 1..n : dipoleBuf[i].ID = dipoleBuf[j].ID => i = j
    BY <2>1 DEF TablesSound
  <2>7. \A i \in 1..n : Station(dipoleBuf[i].ID) \in ToSet(stationBuf)
    BY <2>1 DEF TablesSound
  <2>8. \A e \in Dipoles : HasArray(e) <=> \E i \in 1..n : dipoleBuf[i].ID = e
    BY <2>1 DEF HasArray
  <2>9. HasRoom(d) => Station(d) \in ToSet(StationsWith(d))
    BY DEF HasRoom
  <2>. HIDE DEF n
  <2>10. n + 1 \notin 1..n /\ Len(dipoleBuf') \in {n, n + 1} /\ n # n + 1
    <3>1. n \in Nat
      BY <2>1
    <3>2. n + 1 \notin 1..n /\ n # n + 1
      BY <3>1
    <3>3. Len(dipoleBuf') = n \/ Len(dipoleBuf') = n + 1
      BY <2>5
    <3>. QED BY <3>2, <3>3
  <2>11. /\ \A e \in Dipoles : (\E i \in DOMAIN dipoleBuf' : dipoleBuf'[i].ID = e)
                               <=> HasArray(e) \/ (Len(dipoleBuf') = n + 1 /\ e = d)
         /\ \A i, j \in DOMAIN dipoleBuf' : dipoleBuf'[i].ID = dipoleBuf'[j].ID => i = j
         /\ \A i \in DOMAIN dipoleBuf' : Station(dipoleBuf'[i].ID) \in ToSet(stationBuf')
    <3>1. CASE Len(dipoleBuf') = n
      <4>1. DOMAIN dipoleBuf' = 1..n
        BY <2>4, <3>1
      <4>2. \A e \in Dipoles :
               (\E i \in DOMAIN dipoleBuf' : dipoleBuf'[i].ID = e) <=> HasArray(e)
        BY <2>5, <2>8, <4>1
      <4>3. \A i, j \in DOMAIN dipoleBuf' : dipoleBuf'[i].ID = dipoleBuf'[j].ID => i = j
        BY <2>5, <2>6, <4>1
      <4>4. \A i \in DOMAIN dipoleBuf' : Station(dipoleBuf'[i].ID) \in ToSet(stationBuf')
        BY <2>3, <2>5, <2>7, <4>1
      <4>. QED BY <2>10, <3>1, <4>2, <4>3, <4>4
    <3>2. CASE Len(dipoleBuf') = n + 1
      <4>1. /\ DOMAIN dipoleBuf' = 1..(n + 1) /\ 1..(n + 1) = 1..n \cup {n + 1}
            /\ ~HasArray(d) /\ dipoleBuf'[n + 1].ID = d
            /\ stationBuf' = StationsWith(d) /\ Station(d) \in ToSet(stationBuf')
        <5>1. n \in Nat
          BY <2>1
        <5>2. 1..(n + 1) = 1..n \cup {n + 1}
          BY <5>1
        <5>3. DOMAIN dipoleBuf' = 1..(n + 1)
          BY <2>4, <3>2
        <5>4. Len(dipoleBuf') # n
          BY <2>10, <3>2
        <5>. QED BY <2>5, <2>9, <5>2, <5>3, <5>4
      <4>2. \A i \in 1..n : dipoleBuf'[i].ID = dipoleBuf[i].ID /\ dipoleBuf[i].ID # d
        BY <2>5, <2>8, <4>1
      <4>3. \A e \in Dipoles :
               (\E i \in DOMAIN dipoleBuf' : dipoleBuf'[i].ID = e) <=> HasArray(e) \/ e = d
        BY <2>8, <4>1, <4>2
      <4>4. \A i, j \in DOMAIN dipoleBuf' : dipoleBuf'[i].ID = dipoleBuf'[j].ID => i = j
        BY <2>6, <4>1, <4>2
      <4>5. \A i \in DOMAIN dipoleBuf' : Station(dipoleBuf'[i].ID) \in ToSet(stationBuf')
        BY <2>3, <2>7, <4>1, <4>2
      <4>. QED BY <3>2, <4>3, <4>4, <4>5
    <3>. QED BY <2>10, <3>1, <3>2
  <2>12. ASSUME NEW e \in Dipoles, sent'[e] # {},
                ~\E i \in DOMAIN dipoleBuf' : dipoleBuf'[i].ID = e
         PROVE  \/ ~connected
                \/ Station(e) \notin ToSet(stationBuf') /\ Len(stationBuf') = MaxStations
                \/ Station(e) \in ToSet(stationBuf') /\ Len(dipoleBuf') = MaxDipoles
    <3>1. ~HasArray(e) /\ ~(Len(dipoleBuf') = n + 1 /\ e = d)
      BY <2>11, <2>12
    <3>2. CASE e = d
      <4>1. ~HasRoom(d) /\ Len(dipoleBuf') = n /\ stationBuf' = StationsWith(d)
        BY <2>5, <3>1, <3>2
      <4>2. n <= MaxDipoles /\ MaxDipoles \in Nat /\ n \in Nat
        BY <2>1, TBBrawAssumption DEF TypeOK
      <4>3. CASE Station(d) \in ToSet(StationsWith(d))
        <5>1. ~(n < MaxDipoles)
          BY <2>1, <4>1, <4>3 DEF HasRoom
        <5>2. n = MaxDipoles
          BY <4>2, <5>1
        <5>. QED BY <3>2, <4>1, <4>3, <5>2
      <4>4. CASE Station(d) \notin ToSet(StationsWith(d))
        <5>1. StationsWith(d) = stationBuf /\ Station(d) \notin ToSet(stationBuf)
          BY <4>4, StationsAfter
        <5>2. ~connected \/ Len(stationBuf) = MaxStations
          BY <5>1, StationsAfter
        <5>. QED BY <3>2, <4>1, <5>1, <5>2
      <4>. QED BY <4>3, <4>4
    <3>3. CASE e # d
      <4>1. sent[e] # {}
        BY <2>1, <2>12, <3>3
      <4>2. \/ ~connected
            \/ Station(e) \notin ToSet(stationBuf) /\ Len(stationBuf) = MaxStations
            \/ Station(e) \in ToSet(stationBuf) /\ n = MaxDipoles
        BY <2>1, <3>1, <4>1 DEF TablesSound
      <4>3. n = MaxDipoles => Len(dipoleBuf') = MaxDipoles
        BY <2>1, <2>2, <2>5, TBBrawAssumption DEF TypeOK
      <4>. QED BY <2>3, <4>2, <4>3
    <3>. QED BY <3>2, <3>3
  <2>13. NoStations'
    BY <2>1, <2>2, <2>3, <2>12 DEF NoStations, HasArray
  <2>14. TablesSound'
    BY <2>1, <2>2, <2>3, <2>11, <2>12 DEF TablesSound, HasArray
  <2>. QED BY <2>13, <2>14
<1>2. CASE BrokenBlock
  BY <1>2, SettingStays DEF BrokenBlock, TablesSound, NoStations, HasArray
<1>3. CASE SubbandBlock
  BY <1>3, SettingStays DEF SubbandBlock, TablesSound, NoStations, HasArray
<1>4. CASE NewObject
  <2>1. /\ stationBuf' = <<>> /\ dipoleBuf' = <<>> /\ Dipoles' = Dipoles
        /\ sent' = [d \in Dipoles |-> {}]
    BY <1>4, SettingStays DEF NewObject
  <2>. QED BY <2>1 DEF TablesSound, NoStations
<1>5. CASE UNCHANGED vars
  BY <1>5, SettingStays DEF vars, TablesSound, NoStations, HasArray
<1>. QED BY <1>1, <1>2, <1>3, <1>4, <1>5 DEF Next

-----------------------------------------------------------------------------
(* The arrays.                                                                  *)

\* A frame whose stamp is right is written at its distance from the first one, or
\* discarded if it is an earlier one.
LEMMA FrameWritten ==
    ASSUME setting \in Settings, 4 * setting.lastFrame < Word,
           NEW e \in Entry, Stamped(e), NEW g \in Frames
    PROVE  LET n == WithFrame(e, TrueStamp(g), g)
               o == 2 * (g - e.first) IN
           /\ g < e.first => n = e
           /\ g >= e.first => /\ n.writes = e.writes \cup {<<o, g>>}
                              /\ n.dimension = IF o + 2 > e.dimension THEN o + 2 ELSE e.dimension
<1>. DEFINE h == TrueStamp(g)
            o == 2 * (g - e.first)
<1>1. /\ g \in Nat /\ e.first \in Nat /\ setting.lastFrame \in Nat
      /\ g <= setting.lastFrame /\ e.first <= setting.lastFrame /\ Word \in Nat
  BY SettingType, TBBrawAssumption DEF Entry
<1>2. e.time = TrueStamp(e.first).time /\ e.sample = TrueStamp(e.first).sample
  BY DEF Stamped
<1>3. (h.sample - e.sample) + (h.time - e.time) * Rate = o
  BY <1>1, <1>2, StampDistance
<1>4. o \in Int /\ -Word <= 2 * o /\ 2 * o < Word
  BY <1>1
<1>5. WriteOffset(e, h) = o
  BY <1>3, <1>4, ToIntType DEF WriteOffset
<1>6. o < 0 <=> g < e.first
  BY <1>1
<1>7. CASE g < e.first
  BY <1>1, <1>5, <1>6, <1>7 DEF WithFrame
<1>8. CASE g >= e.first
  <2>1. WithFrame(e, h, g) = [e EXCEPT !.dimension = IF o + 2 > @ THEN o + 2 ELSE @,
                                       !.writes = @ \cup {<<o, g>>}]
    BY <1>1, <1>5, <1>6, <1>8 DEF WithFrame
  <2>. HIDE DEF o, h
  <2>2. /\ WithFrame(e, h, g).writes = e.writes \cup {<<o, g>>}
        /\ WithFrame(e, h, g).dimension = IF o + 2 > e.dimension THEN o + 2 ELSE e.dimension
    BY <2>1 DEF Entry
  <2>. QED BY <1>1, <1>8, <2>2 DEF h, o
<1>. QED BY <1>1, <1>7, <1>8

\* What holds of one array still does after another frame of its dipole.
LEMMA FrameAdded ==
    ASSUME setting \in Settings, 4 * setting.lastFrame < Word,
           NEW e \in Entry, Stamped(e), InPlace(e), NEW g \in Frames
    PROVE  LET n == WithFrame(e, TrueStamp(g), g) IN
           /\ n \in Entry /\ n.ID = e.ID /\ Stamped(n) /\ InPlace(n)
           /\ \A S \in SUBSET Frames : Whole(e, S) => Whole(n, S \cup {g})
<1>. DEFINE h == TrueStamp(g)
            n == WithFrame(e, h, g)
            o == 2 * (g - e.first)
<1>1. g \in Nat /\ e.first \in Nat /\ Frames \subseteq Nat /\ o \in Int
      /\ e.dimension \in Nat /\ e.writes \subseteq Nat \X Frames
  BY SettingType DEF Entry
<1>2. h \in [time : Int, sample : Int]
  <2>1. PICK q \in Nat, r \in 0..(Rate - 1) :
          h = [time |-> (1 - HalfParity) + q, sample |-> r]
    BY <1>1, TrueStampValue
  <2>. HIDE DEF h
  <2>. QED BY <2>1, SettingType
<1>3. /\ g < e.first => n = e
      /\ g >= e.first => /\ n.writes = e.writes \cup {<<o, g>>}
                         /\ n.dimension = IF o + 2 > e.dimension THEN o + 2 ELSE e.dimension
  BY FrameWritten
<1>4. /\ n \in Entry /\ n.ID = e.ID /\ n.first = e.first
      /\ n.time = e.time /\ n.sample = e.sample
  <2>. HIDE DEF h
  <2>. QED BY <1>2, WithFrameType
<1>. HIDE DEF h, n
<1>5. Stamped(n)
  BY <1>4 DEF Stamped
<1>6. InPlace(n)
  <2>1. CASE g < e.first
    BY <1>3, <2>1
  <2>2. CASE g >= e.first
    BY <1>3, <1>4, <2>2 DEF InPlace
  <2>. QED BY <1>1, <2>1, <2>2
<1>7. ASSUME NEW S \in SUBSET Frames, Whole(e, S) PROVE Whole(n, S \cup {g})
  <2>1. CASE g < e.first
    <3>1. {x \in S \cup {g} : x >= n.first} = {x \in S : x >= e.first}
      BY <1>1, <1>4, <2>1
    <3>. QED BY <1>3, <1>7, <2>1, <3>1 DEF Whole
  <2>2. CASE g >= e.first
    <3>. HIDE DEF o
    <3>1. {w[2] : w \in n.writes} = {x \in S \cup {g} : x >= n.first}
      <4>1. {w[2] : w \in n.writes} = {w[2] : w \in e.writes} \cup {g}
        <5>1. n.writes = e.writes \cup {<<o, g>>} /\ <<o, g>>[2] = g
          BY <1>3, <2>2
        <5>2. \A x : x \in {w[2] : w \in n.writes} <=> \E w \in n.writes : x = w[2]
          OBVIOUS
        <5>3. \A x : x \in {w[2] : w \in e.writes} <=> \E w \in e.writes : x = w[2]
          OBVIOUS
        <5>4. \A x : (\E w \in n.writes : x = w[2]) <=> x = g \/ \E w \in e.writes : x = w[2]
          BY <5>1
        <5>. QED BY <5>2, <5>3, <5>4
      <4>2. {x \in S \cup {g} : x >= n.first} = {x \in S : x >= e.first} \cup {g}
        BY <1>4, <2>2
      <4>. QED BY <1>7, <4>1, <4>2 DEF Whole
    <3>2. \A w \in n.writes : w[1] + 2 <= n.dimension
      <4>1. ASSUME NEW w \in e.writes PROVE w[1] + 2 <= n.dimension
        <5>1. w[1] \in Nat /\ w[1] + 2 <= e.dimension
          BY <1>1, <1>7 DEF Whole
        <5>. QED BY <1>1, <1>3, <2>2, <5>1
      <4>2. o + 2 <= n.dimension
        BY <1>1, <1>3, <2>2
      <4>. QED BY <1>3, <2>2, <4>1, <4>2
    <3>3. \E w \in n.writes : w[1] + 2 = n.dimension
      <4>1. CASE o + 2 > e.dimension
        <5>1. <<o, g>> \in n.writes /\ <<o, g>>[1] + 2 = n.dimension
          BY <1>3, <2>2, <4>1
        <5>. QED BY <5>1
      <4>2. CASE ~(o + 2 > e.dimension)
        <5>1. PICK w \in e.writes : w[1] + 2 = e.dimension
          BY <1>7 DEF Whole
        <5>. QED BY <1>3, <2>2, <4>2, <5>1
      <4>. QED BY <4>1, <4>2
    <3>. QED BY <3>1, <3>2, <3>3 DEF Whole
  <2>. QED BY <1>1, <2>1, <2>2
<1>. QED BY <1>4, <1>5, <1>6, <1>7 DEF h, n

\* The first frame of a dipole is at the front of its array.
LEMMA FirstFrame ==
    ASSUME setting \in Settings, 4 * setting.lastFrame < Word,
           NEW d \in Dipoles, NEW g \in Frames
    PROVE  LET h == TrueStamp(g)
               n == WithFrame(NewEntry(d, h, g), h, g) IN
           n \in Entry /\ n.ID = d /\ Stamped(n) /\ InPlace(n) /\ Whole(n, {g})
<1>. DEFINE h == TrueStamp(g)
            e == NewEntry(d, h, g)
            n == WithFrame(e, h, g)
<1>1. g \in Nat /\ 2 * (g - g) = 0
  BY SettingType
<1>2. PICK q \in Nat, r \in 0..(Rate - 1) :
        h = [time |-> (1 - HalfParity) + q, sample |-> r]
  BY <1>1, TrueStampValue
<1>3. h \in [time : Int, sample : Int] /\ [time |-> h.time, sample |-> h.sample] = h
  <2>. HIDE DEF h
  <2>. QED BY <1>2, SettingType
<1>4. e \in Entry
  <2>. HIDE DEF h
  <2>. QED BY <1>3, NewEntryType
<1>5. /\ e.ID = d /\ e.first = g /\ e.time = h.time /\ e.sample = h.sample
      /\ e.writes = {} /\ e.dimension = 1
  BY DEF NewEntry
<1>6. Stamped(e) /\ InPlace(e)
  BY <1>3, <1>5 DEF Stamped, InPlace
<1>. HIDE DEF e
<1>7. n \in Entry /\ n.ID = d /\ Stamped(n) /\ InPlace(n)
  BY <1>4, <1>5, <1>6, FrameAdded
<1>8. n.first = g
  <2>. HIDE DEF h
  <2>. QED BY <1>3, <1>4, <1>5, WithFrameType
<1>9. n.writes = {<<0, g>>} /\ n.dimension = 2
  BY <1>1, <1>4, <1>5, <1>6, FrameWritten
<1>10. Whole(n, {g})
  <2>. HIDE DEF n
  <2>1. {w[2] : w \in n.writes} = {g} /\ {x \in {g} : x >= n.first} = {g}
    BY <1>1, <1>8, <1>9
  <2>. QED BY <1>9, <2>1 DEF Whole
<1>. QED BY <1>7, <1>10 DEF e

\* A dipole that gets an array has not had a frame before.
LEMMA FirstCome ==
    ASSUME TypeOK, TablesSound, NoStations, NEW d \in Dipoles, ~HasArray(d), HasRoom(d)
    PROVE  sent[d] = {}
<1>1. Station(d) \in ToSet(StationsWith(d)) /\ Len(dipoleBuf) < MaxDipoles
  BY DEF HasRoom
<1>2. Len(dipoleBuf) \in Nat /\ MaxDipoles \in Nat
  BY TBBrawAssumption DEF TypeOK
<1>3. Len(dipoleBuf) # MaxDipoles
  BY <1>1, <1>2
<1>4. connected
  <2>1. SUFFICES ASSUME ~connected PROVE FALSE
    OBVIOUS
  <2>2. StationsWith(d) = <<>>
    BY <2>1, StationsAfter DEF NoStations
  <2>. QED BY <1>1, <2>2 DEF ToSet
<1>5. Len(stationBuf) = MaxStations => Station(d) \in ToSet(stationBuf)
  BY <1>1, StationsAfter
<1>. QED BY <1>3, <1>4, <1>5 DEF TablesSound

\* What a frame does not change, and what the claims about arrays say afterwards.
LEMMA ArraysPrime ==
    ASSUME setting' = setting,
           \A i \in DOMAIN dipoleBuf' : /\ Stamped(dipoleBuf'[i]) /\ InPlace(dipoleBuf'[i])
                                        /\ Whole(dipoleBuf'[i], sent'[dipoleBuf'[i].ID])
    PROVE  StampInv' /\ Aligned' /\ Complete'
<1>1. Rate' = Rate /\ HalfParity' = HalfParity
  BY SettingStays
<1>2. StampInv'
  BY <1>1 DEF StampInv, Stamped, TrueStamp
<1>3. Aligned'
  BY DEF Aligned, InPlace
<1>4. Complete'
  BY DEF Complete, Whole
<1>. QED BY <1>2, <1>3, <1>4

\* Every array of the dipole that a frame is of gets it, and no other.
LEMMA ArraysStep ==
    ASSUME TypeOK, Repaired(setting), OddInv, StampInv, Aligned, Complete,
           TablesSound, NoStations, [Next]_vars
    PROVE  StampInv' /\ Aligned' /\ Complete'
<1>1. ASSUME NEW d \in Dipoles, NEW g \in Frames, GoodBlock(d, g)
      PROVE  StampInv' /\ Aligned' /\ Complete'
  <2>. DEFINE h == TrueStamp(g)
  <2>1. /\ setting' = setting /\ setting \in Settings
        /\ sent' = [sent EXCEPT ![d] = @ \cup {g}] /\ sent \in [Dipoles -> SUBSET Frames]
        /\ oddSecond \in BOOLEAN /\ g \in Deliverable(d)
        /\ latest[d] \in Frames \cup {-1}
    BY <1>1 DEF GoodBlock, TypeOK
  <2>2. FixedStamp(Stamp(g)) = h
    BY <2>1, Restored
  <2>3. 4 * setting.lastFrame < Word
    BY DEF Repaired
  <2>4. DOMAIN dipoleBuf = 1..Len(dipoleBuf) /\ dipoleBuf \in Seq(Entry)
    BY DEF TypeOK
  <2>5. \A i \in 1..Len(dipoleBuf) :
          /\ dipoleBuf[i] \in Entry /\ dipoleBuf[i].ID \in Dipoles
          /\ Stamped(dipoleBuf[i]) /\ InPlace(dipoleBuf[i])
          /\ Whole(dipoleBuf[i], sent[dipoleBuf[i].ID])
    <3>. TAKE i \in 1..Len(dipoleBuf)
    <3>1. dipoleBuf[i] \in Entry
      BY <2>4
    <3>2. dipoleBuf[i].ID \in Dipoles
      BY <3>1 DEF Entry
    <3>. QED BY <2>4, <3>1, <3>2 DEF StampInv, Aligned, Complete
  <2>6. sent'[d] = sent[d] \cup {g} /\ \A e \in Dipoles : e # d => sent'[e] = sent[e]
    BY <2>1
  <2>. HIDE DEF h
  <2>7. \/ /\ dipoleBuf' \in Seq(Entry) /\ Len(dipoleBuf') = Len(dipoleBuf)
           /\ \A i \in 1..Len(dipoleBuf) :
                dipoleBuf'[i] = IF dipoleBuf[i].ID = d
                                THEN WithFrame(dipoleBuf[i], h, g) ELSE dipoleBuf[i]
        \/ /\ ~HasArray(d) /\ HasRoom(d)
           /\ dipoleBuf' = Append(dipoleBuf, WithFrame(NewEntry(d, h, g), h, g))
        \/ ~HasArray(d) /\ dipoleBuf' = dipoleBuf
    <3>. DEFINE k == FixedStamp(Stamp(g))
    <3>1. \/ /\ dipoleBuf' \in Seq(Entry) /\ Len(dipoleBuf') = Len(dipoleBuf)
             /\ \A i \in 1..Len(dipoleBuf) :
                  dipoleBuf'[i] = IF dipoleBuf[i].ID = d
                                  THEN WithFrame(dipoleBuf[i], k, g) ELSE dipoleBuf[i]
          \/ /\ ~HasArray(d) /\ HasRoom(d)
             /\ dipoleBuf' = Append(dipoleBuf, WithFrame(NewEntry(d, k, g), k, g))
          \/ ~HasArray(d) /\ dipoleBuf' = dipoleBuf
      BY <1>1, TablesAfter
    <3>. HIDE DEF k
    <3>2. k = h
      BY <2>2 DEF k
    <3>. QED BY <3>1, <3>2
  <2>8. ASSUME NEW i \in 1..Len(dipoleBuf), dipoleBuf[i].ID = d
        PROVE  LET n == WithFrame(dipoleBuf[i], h, g) IN
               n.ID = d /\ Stamped(n) /\ InPlace(n) /\ Whole(n, sent'[d])
    <3>1. Whole(dipoleBuf[i], sent[d]) /\ sent[d] \in SUBSET Frames
      BY <2>1, <2>5, <2>8
    <3>. QED BY <2>1, <2>3, <2>5, <2>6, <2>8, <3>1, FrameAdded DEF h
  <2>9. ASSUME NEW i \in 1..Len(dipoleBuf), dipoleBuf[i].ID # d
        PROVE  Whole(dipoleBuf[i], sent'[dipoleBuf[i].ID])
    BY <2>5, <2>6, <2>9
  <2>10. CASE /\ dipoleBuf' \in Seq(Entry) /\ Len(dipoleBuf') = Len(dipoleBuf)
              /\ \A i \in 1..Len(dipoleBuf) :
                   dipoleBuf'[i] = IF dipoleBuf[i].ID = d
                                   THEN WithFrame(dipoleBuf[i], h, g) ELSE dipoleBuf[i]
    <3>1. DOMAIN dipoleBuf' = 1..Len(dipoleBuf)
      BY <2>10
    <3>2. ASSUME NEW i \in 1..Len(dipoleBuf)
          PROVE  /\ Stamped(dipoleBuf'[i]) /\ InPlace(dipoleBuf'[i])
                 /\ Whole(dipoleBuf'[i], sent'[dipoleBuf'[i].ID])
      <4>1. CASE dipoleBuf[i].ID = d
        BY <2>8, <2>10, <4>1
      <4>2. CASE dipoleBuf[i].ID # d
        BY <2>5, <2>9, <2>10, <4>2
      <4>. QED BY <4>1, <4>2
    <3>. QED BY <2>1, <3>1, <3>2, ArraysPrime
  <2>11. CASE /\ ~HasArray(d) /\ HasRoom(d)
              /\ dipoleBuf' = Append(dipoleBuf, WithFrame(NewEntry(d, h, g), h, g))
    <3>. DEFINE n == WithFrame(NewEntry(d, h, g), h, g)
    <3>1. n \in Entry /\ n.ID = d /\ Stamped(n) /\ InPlace(n) /\ Whole(n, {g})
      BY <2>1, <2>3, FirstFrame DEF h
    <3>2. sent'[d] = {g}
      BY <2>6, <2>11, FirstCome
    <3>3. \A i \in 1..Len(dipoleBuf) : dipoleBuf[i].ID # d
      BY <2>4, <2>11 DEF HasArray
    <3>. HIDE DEF n
    <3>4. /\ DOMAIN dipoleBuf' = 1..(Len(dipoleBuf) + 1) /\ Len(dipoleBuf) \in Nat
          /\ \A i \in 1..Len(dipoleBuf) : dipoleBuf'[i] = dipoleBuf[i]
          /\ dipoleBuf'[Len(dipoleBuf) + 1] = n
      BY <2>4, <2>11, <3>1 DEF n
    <3>5. ASSUME NEW i \in DOMAIN dipoleBuf'
          PROVE  /\ Stamped(dipoleBuf'[i]) /\ InPlace(dipoleBuf'[i])
                 /\ Whole(dipoleBuf'[i], sent'[dipoleBuf'[i].ID])
      <4>1. CASE i \in 1..Len(dipoleBuf)
        BY <2>5, <2>9, <3>3, <3>4, <4>1
      <4>2. CASE i = Len(dipoleBuf) + 1
        BY <3>1, <3>2, <3>4, <4>2
      <4>. QED BY <3>4, <4>1, <4>2
    <3>. QED BY <2>1, <3>5, ArraysPrime
  <2>12. CASE ~HasArray(d) /\ dipoleBuf' = dipoleBuf
    <3>1. \A i \in 1..Len(dipoleBuf) : dipoleBuf[i].ID # d
      BY <2>4, <2>12 DEF HasArray
    <3>. QED BY <2>1, <2>4, <2>5, <2>9, <2>12, <3>1, ArraysPrime
  <2>. QED BY <2>7, <2>10, <2>11, <2>12
<1>2. ASSUME setting' = setting, dipoleBuf' = dipoleBuf, sent' = sent
      PROVE  StampInv' /\ Aligned' /\ Complete'
  BY <1>2, ArraysPrime DEF StampInv, Aligned, Complete
<1>3. CASE BrokenBlock
  BY <1>2, <1>3 DEF BrokenBlock
<1>4. CASE SubbandBlock
  BY <1>2, <1>4 DEF SubbandBlock
<1>5. CASE NewObject
  <2>1. setting' = setting /\ dipoleBuf' = <<>>
    BY <1>5 DEF NewObject
  <2>. QED BY <2>1, ArraysPrime
<1>6. CASE UNCHANGED vars
  BY <1>2, <1>6 DEF vars
<1>. QED BY <1>1, <1>3, <1>4, <1>5, <1>6 DEF Next

\* oddSecond follows the seconds of the one dipole there is.
LEMMA OddStep ==
    ASSUME TypeOK, Repaired(setting), OddInv, [Next]_vars
    PROVE  OddInv'
<1>1. setting' = setting
  BY DEF Next, GoodBlock, BrokenBlock, SubbandBlock, NewObject, vars
<1>2. /\ Dipoles' = Dipoles /\ StampStyle' = StampStyle /\ Clock' = Clock
      /\ HalfParity' = HalfParity /\ Rate' = Rate
  BY <1>1, SettingStays
<1>. SUFFICES ASSUME StampStyle = "old", Clock = 200, NEW e \in Dipoles
              PROVE  oddSecond' <=> latest'[e] # -1 /\ Halved(TrueStamp(latest'[e]))
  BY <1>2 DEF OddInv, Halved, TrueStamp
<1>3. ASSUME NEW d \in Dipoles, NEW g \in Frames, GoodBlock(d, g)
      PROVE  oddSecond' <=> latest'[e] # -1 /\ Halved(TrueStamp(latest'[e]))
  <2>1. /\ FixTimes = 1 /\ HalfParity = 1 /\ InOrder /\ MaxLost + 1 < K /\ e = d
    BY DEF Repaired, StampStyle, Clock, FixTimes, HalfParity, InOrder, Dipoles
  <2>2. /\ setting \in Settings /\ oddSecond \in BOOLEAN /\ g \in Deliverable(d)
        /\ latest[d] \in Frames \cup {-1} /\ latest'[d] = g /\ g \in Nat /\ g # -1
        /\ oddSecond' = OddSecond(Stamp(g), oddSecond)
    BY <1>3, <2>1, SettingType DEF GoodBlock, TypeOK
  <2>3. OddKnown(g)
    BY <2>1, <2>2, OddInOrder
  <2>4. OddSecond(Stamp(g), oddSecond) <=> Halved(TrueStamp(g))
    BY <2>1, <2>2, <2>3, OldRestored
  <2>. QED BY <2>1, <2>2, <2>4
<1>4. CASE oddSecond' = oddSecond /\ latest' = latest
  BY <1>4 DEF OddInv
<1>. QED BY <1>3, <1>4 DEF Next, BrokenBlock, SubbandBlock, NewObject, vars

-----------------------------------------------------------------------------

LEMMA InitInv == Init => IInv
<1>. SUFFICES ASSUME Init PROVE IInv
  OBVIOUS
<1>1. /\ setting \in Settings /\ stationBuf = <<>> /\ dipoleBuf = <<>> /\ oddSecond = FALSE
      /\ sent = [d \in Dipoles |-> {}] /\ latest = [d \in Dipoles |-> -1]
  BY DEF Init
<1>2. TypeOK
  <2>1. /\ stationBuf \in Seq({Station(d) : d \in Dipoles}) /\ Len(stationBuf) <= MaxStations
        /\ dipoleBuf \in Seq(Entry) /\ Len(dipoleBuf) <= MaxDipoles
    BY <1>1, TBBrawAssumption
  <2>2. sent \in [Dipoles -> SUBSET Frames] /\ latest \in [Dipoles -> Frames \cup {-1}]
    BY <1>1
  <2>3. /\ connected \in BOOLEAN /\ nofProcessed \in Nat /\ nofDiscardedHeader \in Nat
        /\ objects \in 1..MaxObjects
    BY TBBrawAssumption DEF Init
  <2>. QED BY <1>1, <2>1, <2>2, <2>3 DEF TypeOK
<1>3. OddInv
  BY <1>1 DEF OddInv
<1>4. StampInv /\ Aligned /\ Complete
  BY <1>1 DEF StampInv, Aligned, Complete
<1>5. TablesSound /\ NoStations
  BY <1>1 DEF TablesSound, NoStations
<1>. QED BY <1>2, <1>3, <1>4, <1>5 DEF IInv

\* Type correctness, whatever is wrong with the stamps and however many stations and
\* dipoles there are.
THEOREM TypeCorrect == Spec => []TypeOK
<1>1. Init => TypeOK
  BY InitInv DEF IInv
<1>. QED BY <1>1, TypeStep, PTL DEF Spec

\* The tables of stations and dipoles are sound for any sizes and whatever the stamps:
\* a dipole is refused only when there is no room, and for good.
THEOREM TablesStaySound == Spec => []TablesSound
<1>1. Init => TypeOK /\ TablesSound /\ NoStations
  BY InitInv DEF IInv
<1>2. TypeOK /\ TablesSound /\ NoStations /\ [Next]_vars => (TypeOK /\ TablesSound /\ NoStations)'
  BY TypeStep, TablesStep
<1>. QED BY <1>1, <1>2, PTL DEF Spec

\* The inductive invariant, in the settings whose stamps can be repaired.
THEOREM InductiveInvariant ==
    ASSUME \A s \in Settings : Repaired(s) PROVE Spec => []IInv
<1>1. IInv /\ [Next]_vars => IInv'
  <2>. SUFFICES ASSUME IInv, [Next]_vars PROVE IInv'
    OBVIOUS
  <2>1. Repaired(setting)
    BY DEF IInv, TypeOK
  <2>. QED BY <2>1, TypeStep, OddStep, ArraysStep, TablesStep DEF IInv
<1>. QED BY <1>1, InitInv, PTL DEF Spec

\* Every block of every array is where the time it was taken puts it: fixDateOld and
\* fixDateNew undo what the stations do to the stamps, whatever frames are lost, late
\* or repeated.
THEOREM BlocksAligned ==
    ASSUME \A s \in Settings : Repaired(s) PROVE Spec => []Aligned
<1>1. IInv => Aligned
  BY DEF IInv
<1>. QED BY <1>1, InductiveInvariant, PTL

\* Nothing that came since an array's first block is missing in it.
THEOREM NothingMissing ==
    ASSUME \A s \in Settings : Repaired(s) PROVE Spec => []Complete
<1>1. IInv => Complete
  BY DEF IInv
<1>. QED BY <1>1, InductiveInvariant, PTL
=============================================================================
