--------------------------- MODULE Client_proofs ---------------------------
(***************************************************************************)
(* Theorems about the parts of the client between the app and the network, *)
(* a part for each component: the interval and the metronome               *)
(* (IntervalClock), the numbers of the local channels (LocalChannels), the *)
(* remote users in the app's caches (RemoteUsers), the mixing of a block   *)
(* (Mixdown).                                                              *)
(***************************************************************************)
EXTENDS IntervalClock, RemoteUsers, Mixdown, SequenceTheorems, FiniteSetTheorems, TLAPS
-----------------------------------------------------------------------------
(***************************************************************************)
(* The clicks are the beats of the tempo (BeatsOnTheGrid), for every tempo,*)
(* every size of block and any number of them.                             *)
(*                                                                         *)
(* The metronome counts down to the next click (beat.pos) and never looks  *)
(* at the interval's position: that the two agree, and so that a block may *)
(* be cut anywhere, is what is carried along (Counts), with the position   *)
(* the block under way was cut for (PieceFits).  Until the first reset in  *)
(* the middle of a block, a reset finds no block and lets none begin.      *)
(***************************************************************************)
Playing == block.step \in {"play", "advance"}

(* How far the interval has got with the piece that has been played.       *)
Reached == at + (IF block.step = "advance" THEN block.x ELSE 0)

ClockTypes ==
  /\ enabled \in BOOLEAN /\ torn \in BOOLEAN /\ resetting \in 0 .. 2
  /\ tempo \in [bpm : Nat \ {0}, bpi : Nat \ {0}]
  /\ active \in [bpm : Nat \ {0}, bpi : Nat \ {0}]
  /\ length \in Nat \ {0} /\ at \in Int
  /\ beat \in [interval : Nat, pos : Int]
  /\ block \in [step : {"idle", "loop", "play", "advance"}, left : Int, x : Int, seen : Int]

PieceFits ==
  /\ block.step # "idle" => block.left > 0
  /\ Playing => /\ at >= 0 /\ block.seen = at
                /\ 0 < block.x /\ block.x <= block.left /\ at + block.x <= length

OneTempo ==
  beat.interval > 0 => length = LengthOf(active) /\ beat.interval = length \div active.bpi

(* The clicks are the beats so far, and the next one falls on a beat.      *)
Beats(k, n) == {[where |-> i, accent |-> i = 0] : i \in {j \in 0 .. n - 1 : j % k = 0}}
Counts(k) ==
  /\ clicks = Beats(k, Reached)
  /\ beat.pos \in 0 .. k - 1 /\ (Reached + beat.pos) % k = 0

ClockInv ==
  /\ ClockTypes
  /\ ~torn =>
       /\ resetting # 0 => block.step = "idle" /\ ~enabled
       /\ PieceFits
       /\ resetting = 0 => /\ at <= length /\ OneTempo
                           /\ beat.interval > 0 /\ at >= 0 => Counts(beat.interval)

LEMMA Dividing ==
  ASSUME NEW n \in Int, NEW k \in Nat \ {0}
  PROVE  /\ n = k * (n \div k) + (n % k)
         /\ (n \div k) \in Int /\ (n % k) \in 0 .. k - 1
<1>1. n = k * (n \div k) + (n % k)
  OBVIOUS
<1>2. (n \div k) \in Int
  OBVIOUS
<1>3. (n % k) \in 0 .. k - 1
  OBVIOUS
<1> QED BY <1>1, <1>2, <1>3

LEMMA Multiple == ASSUME NEW m \in Int, NEW k \in Nat \ {0} PROVE (k * m) % k = 0
  BY SMTT(30)

LEMMA IsBeat ==
  ASSUME NEW n \in Int, NEW k \in Nat \ {0}
  PROVE  n % k = 0 <=> \E m \in Int : n = k * m
<1>1. ASSUME NEW m \in Int, n = k * m PROVE n % k = 0
  BY <1>1, Multiple
<1>2. ASSUME n % k = 0 PROVE n = k * (n \div k) /\ (n \div k) \in Int
  BY <1>2, Dividing
<1> QED BY <1>1, <1>2

(* Two positions a beat apart are on a beat or off it together.            *)
LEMMA SameBeat ==
  ASSUME NEW a \in Int, NEW b \in Int, NEW k \in Nat \ {0}, (a - b) % k = 0
  PROVE  a % k = 0 <=> b % k = 0
<1>1. PICK d \in Int : a - b = k * d
  BY IsBeat
<1>2. ASSUME a % k = 0 PROVE b % k = 0
  <2>1. PICK m \in Int : a = k * m
    BY <1>2, IsBeat
  <2>2. b = k * (m - d) /\ m - d \in Int
    BY <1>1, <2>1
  <2> QED BY <2>2, IsBeat
<1>3. ASSUME b % k = 0 PROVE a % k = 0
  <2>1. PICK m \in Int : b = k * m
    BY <1>3, IsBeat
  <2>2. a = k * (m + d) /\ m + d \in Int
    BY <1>1, <2>1
  <2> QED BY <2>2, IsBeat
<1> QED BY <1>2, <1>3

(* Less than a beat before one, there is none.                             *)
LEMMA NoBeatBefore ==
  ASSUME NEW n \in Int, NEW k \in Nat \ {0}, NEW d \in 1 .. k - 1, (n + d) % k = 0
  PROVE  n % k # 0
<1>1. SUFFICES ASSUME n % k = 0 PROVE FALSE
  OBVIOUS
<1>2. d % k = 0
  <2>1. n + d \in Int /\ d \in Int /\ (n + d) - d = n
    OBVIOUS
  <2> QED BY <1>1, <2>1, SameBeat
<1>3. d % k = d
  OBVIOUS
<1> QED BY <1>2, <1>3

(* An interval that fits has at least one sample, and no more than INT_MAX.*)
LEMMA LengthFits ==
  ASSUME NEW t \in [bpm : Nat \ {0}, bpi : Nat \ {0}], Fits(t)
  PROVE  LengthOf(t) \in Nat \ {0}
<1> DEFINE a == t.bpi * Minute
           b == t.bpm
<1>1. a \in Nat /\ b \in Nat \ {0} /\ b <= a /\ LengthOf(t) = a \div b
  BY ClockAssumption DEF Fits, LengthOf
<1> HIDE DEF a, b
<1>2. a = b * (a \div b) + (a % b) /\ (a \div b) \in Int /\ (a % b) \in 0 .. b - 1
  BY <1>1, Dividing
<1> DEFINE d == a \div b
<1>3. d \in Int /\ b * d > 0
  BY <1>1, <1>2
<1> HIDE DEF d
<1>4. d > 0
  <2>1. CASE d <= 0
    <3>1. b * d <= 0
      BY <1>1, <1>3, <2>1
    <3> QED BY <1>1, <1>3, <3>1
  <2> QED BY <1>3, <2>1
<1> QED BY <1>1, <1>3, <1>4 DEF d

LEMMA ClockInitially == ClockInit => ClockInv
<1>1. SUFFICES ASSUME ClockInit PROVE ClockInv
  OBVIOUS
<1>2. ResetTempo \in [bpm : Nat \ {0}, bpi : Nat \ {0}] /\ ResetLength \in Nat \ {0}
  BY ClockAssumption
<1>3. ClockTypes
  <2>1. enabled \in BOOLEAN /\ torn \in BOOLEAN
    BY <1>1, Zenon DEF ClockInit
  <2>2. /\ resetting = 0 /\ tempo = ResetTempo /\ active = ResetTempo /\ length = ResetLength
        /\ at = -1 /\ beat = [interval |-> 0, pos |-> 0]
        /\ block = [step |-> "idle", left |-> 0, x |-> 0, seen |-> 0]
    BY <1>1 DEF ClockInit, NoBlock
  <2> QED BY <1>2, <2>1, <2>2 DEF ClockTypes
<1>4. PieceFits /\ at <= length /\ OneTempo /\ beat.interval = 0 /\ resetting = 0
  BY <1>1, <1>2 DEF ClockInit, PieceFits, OneTempo, Playing, NoBlock
<1> QED BY <1>3, <1>4 DEF ClockInv

(* What does not touch the beats of an interval leaves them alone.         *)
LEMMA CountsStay ==
  ASSUME NEW k \in Nat, clicks' = clicks, beat' = beat, Reached' = Reached, Counts(k)
  PROVE  Counts(k)'
  BY DEF Counts, Beats

LEMMA ConfigChangeHolds ==
  ASSUME ClockInv, NEW bpm \in Bpms, NEW bpi \in Bpis, ConfigChange(bpm, bpi)
  PROVE  ClockInv'
<1>1. /\ UNCHANGED <<active, length, at, beat, block, resetting, clicks, torn>>
      /\ enabled' = TRUE /\ resetting = 0
  BY DEF ConfigChange
<1>2. tempo' \in [bpm : Nat \ {0}, bpi : Nat \ {0}]
  BY ClockAssumption DEF ConfigChange, ClockInv, ClockTypes
<1>3. ClockTypes'
  BY <1>1, <1>2 DEF ClockInv, ClockTypes
<1>4. (PieceFits' <=> PieceFits) /\ (OneTempo' <=> OneTempo)
  BY <1>1 DEF PieceFits, Playing, OneTempo, LengthOf
<1>5. Counts(beat.interval)' <=> Counts(beat.interval)
  BY <1>1 DEF Counts, Reached, Beats
<1> QED BY <1>1, <1>3, <1>4, <1>5 DEF ClockInv

LEMMA ResetHolds ==
  ASSUME ClockInv, ResetTempoInfo \/ ResetInterval \/ ResetPosition
  PROVE  ClockInv'
<1>1. block' = block /\ (~torn' => ~torn /\ block.step = "idle") /\ torn' \in BOOLEAN
  BY DEF ClockInv, ClockTypes, ResetTempoInfo, ResetInterval, ResetPosition, Resets
<1>2. ~torn' => PieceFits'
  BY <1>1 DEF PieceFits, Playing
<1>3. CASE ResetTempoInfo
  <2>1. /\ resetting' = 1 /\ tempo' = ResetTempo /\ enabled' = FALSE
        /\ UNCHANGED <<active, length, at, beat>>
    BY <1>3 DEF ResetTempoInfo
  <2>2. ClockTypes'
    <3>1. enabled' \in BOOLEAN
      BY <2>1, Zenon
    <3>2. /\ active \in [bpm : Nat \ {0}, bpi : Nat \ {0}] /\ beat \in [interval : Nat, pos : Int]
          /\ length \in Nat \ {0} /\ at \in Int
          /\ block \in [step : {"idle", "loop", "play", "advance"}, left : Int, x : Int, seen : Int]
      BY DEF ClockInv, ClockTypes
    <3>3. tempo' \in [bpm : Nat \ {0}, bpi : Nat \ {0}] /\ resetting' \in 0 .. 2
      BY <2>1, ClockAssumption
    <3> QED BY <1>1, <2>1, <3>1, <3>2, <3>3 DEF ClockTypes
  <2> QED BY <1>1, <1>2, <2>1, <2>2 DEF ClockInv
<1>4. CASE ResetInterval
  <2>1. /\ resetting' = 2 /\ resetting = 1 /\ active' = ResetTempo /\ length' = ResetLength
        /\ UNCHANGED <<enabled, tempo, at, beat>>
    BY <1>4 DEF ResetInterval
  <2>2. ClockTypes'
    BY <1>1, <2>1, ClockAssumption DEF ClockInv, ClockTypes
  <2> QED BY <1>1, <1>2, <2>1, <2>2 DEF ClockInv
<1>5. CASE ResetPosition
  <2>1. /\ resetting' = 0 /\ at' = -1 /\ beat' = [interval |-> 0, pos |-> 0]
        /\ UNCHANGED <<enabled, tempo, active, length>>
    BY <1>5 DEF ResetPosition
  <2>2. ClockTypes' /\ at' <= length'
    BY <1>1, <2>1 DEF ClockInv, ClockTypes
  <2>3. beat'.interval = 0
    BY <2>1
  <2> QED BY <1>1, <1>2, <2>1, <2>2, <2>3 DEF ClockInv, OneTempo
<1> QED BY <1>3, <1>4, <1>5

LEMMA LesserSample ==
  ASSUME NEW a \in Nat \ {0}, NEW b \in Nat \ {0}
  PROVE  /\ Min2(a, b) \in Nat \ {0} /\ Min2(a, b) <= a /\ Min2(a, b) <= b
  BY DEF Min2

LEMMA AudioProcHolds ==
  ASSUME ClockInv, NEW len \in BlockSizes, AudioProc(len)
  PROVE  ClockInv'
<1>1. /\ UNCHANGED <<enabled, tempo, active, length, at, beat, resetting, clicks, torn>>
      /\ block.step = "idle" /\ enabled
      /\ block' = [step |-> "loop", left |-> len, x |-> 0, seen |-> 0] /\ len \in Nat \ {0}
  BY ClockAssumption DEF AudioProc, NoBlock
<1>2. ClockTypes' /\ PieceFits'
  BY <1>1 DEF ClockInv, ClockTypes, PieceFits, Playing
<1>3. (OneTempo' <=> OneTempo) /\ (Reached' = Reached)
  BY <1>1 DEF OneTempo, LengthOf, Reached
<1>4. Counts(beat.interval)' <=> Counts(beat.interval)
  BY <1>1, <1>3 DEF Counts, Beats
<1> QED BY <1>1, <1>2, <1>3, <1>4 DEF ClockInv

LEMMA ContinueHolds == ASSUME ClockInv, Continue PROVE ClockInv'
<1>1. /\ UNCHANGED <<enabled, tempo, active, length, at, beat, resetting, clicks, torn>>
      /\ block.step = "loop" /\ block.left > 0 /\ at >= 0 /\ at # length
  BY DEF Continue
<1> DEFINE x == Min2(length - at, block.left)
<1>2. block' = [block EXCEPT !.step = "play", !.x = x, !.seen = at]
  BY <1>1 DEF Continue, Piece
<1>3. /\ at \in Nat /\ length \in Nat /\ block.left \in Nat \ {0} /\ x \in Int
      /\ block' \in [step : {"play"}, left : {block.left}, x : {x}, seen : {at}]
  <2>1. /\ at \in Nat /\ length \in Nat /\ block.left \in Nat \ {0}
        /\ block \in [step : {"idle", "loop", "play", "advance"}, left : Int, x : Int, seen : Int]
    BY <1>1 DEF ClockInv, ClockTypes
  <2>2. x \in Int
    BY <2>1 DEF Min2
  <2> HIDE DEF x
  <2> QED BY <1>2, <2>1, <2>2
<1>4. at <= length => x \in Nat \ {0} /\ x <= length - at /\ x <= block.left
  <2>1. SUFFICES ASSUME at <= length PROVE length - at \in Nat \ {0}
    BY <1>3, LesserSample
  <2> QED BY <1>1, <1>3, <2>1
<1> HIDE DEF x
<1>5. ~torn /\ at <= length => PieceFits'
  BY <1>1, <1>3, <1>4 DEF PieceFits, Playing
<1>6. OneTempo' <=> OneTempo
  BY <1>1 DEF OneTempo, LengthOf
<1>7. Reached' = Reached
  BY <1>1, <1>3 DEF Reached
<1>8. Counts(beat.interval)' <=> Counts(beat.interval)
  BY <1>1, <1>7 DEF Counts, Beats
<1> QED BY <1>1, <1>3, <1>4, <1>5, <1>6, <1>8 DEF ClockInv, ClockTypes

LEMMA Quotient ==
  ASSUME NEW n \in Nat, NEW k \in Nat \ {0} PROVE (n \div k) \in Nat
  OBVIOUS

LEMMA BoundaryHolds == ASSUME ClockInv, Boundary PROVE ClockInv'
<1>1. /\ UNCHANGED <<enabled, resetting, torn>> /\ at' = 0 /\ clicks' = {}
      /\ block.step = "loop" /\ block.left > 0
  BY DEF Boundary
<1>2. /\ tempo \in [bpm : Nat \ {0}, bpi : Nat \ {0}] /\ active \in [bpm : Nat \ {0}, bpi : Nat \ {0}]
      /\ length \in Nat \ {0} /\ beat \in [interval : Nat, pos : Int]
      /\ block \in [step : {"idle", "loop", "play", "advance"}, left : Int, x : Int, seen : Int]
      /\ enabled \in BOOLEAN /\ torn \in BOOLEAN /\ resetting \in 0 .. 2
  BY DEF ClockInv, ClockTypes
<1>3. /\ length' \in Nat \ {0} /\ active' \in [bpm : Nat \ {0}, bpi : Nat \ {0}]
      /\ tempo' \in [bpm : Nat \ {0}, bpi : Nat \ {0}]
      /\ beat' \in [interval : Nat, pos : {0}] /\ (~torn /\ resetting = 0 => OneTempo')
  <2>1. CASE updated /\ Fits(tempo)
    <3>1. /\ active' = tempo /\ length' = LengthOf(tempo) /\ tempo' = tempo
          /\ beat' = [interval |-> length' \div tempo.bpi, pos |-> 0]
      BY <2>1 DEF Boundary
    <3>2. length' \in Nat \ {0}
      BY <1>2, <2>1, <3>1, LengthFits
    <3>3. (length' \div tempo.bpi) \in Nat
      BY <1>2, <3>2, Quotient
    <3>4. OneTempo'
      BY <3>1 DEF OneTempo, LengthOf
    <3> QED BY <1>2, <3>1, <3>2, <3>3, <3>4
  <2>2. CASE ~(updated /\ Fits(tempo))
    <3>1. /\ beat' = [beat EXCEPT !.pos = 0] /\ UNCHANGED <<active, length>>
          /\ tempo' = IF updated THEN active ELSE tempo
      BY <2>2 DEF Boundary
    <3>2. tempo' \in [bpm : Nat \ {0}, bpi : Nat \ {0}]
      BY <1>2, <3>1, Zenon
    <3>3. beat' \in [interval : {beat.interval}, pos : {0}]
      BY <1>2, <3>1
    <3>4. ~torn /\ resetting = 0 => OneTempo
      BY DEF ClockInv
    <3>5. OneTempo => OneTempo'
      BY <3>1, <3>3 DEF OneTempo, LengthOf
    <3> QED BY <1>2, <3>1, <3>2, <3>3, <3>4, <3>5
  <2> QED BY <2>1, <2>2
<1> DEFINE x == Min2(length', block.left)
<1>4. /\ block' = [block EXCEPT !.step = "play", !.x = x, !.seen = 0]
      /\ x \in Nat \ {0} /\ x <= length' /\ x <= block.left
  <2>1. block' = [block EXCEPT !.step = "play", !.x = x, !.seen = 0]
    BY <1>1 DEF Boundary, Piece
  <2>2. block.left \in Nat \ {0}
    BY <1>1, <1>2
  <2> QED BY <1>3, <2>1, <2>2, LesserSample
<1> HIDE DEF x
<1>5. block' \in [step : {"play"}, left : {block.left}, x : {x}, seen : {0}]
  BY <1>2, <1>4
<1>6. ClockTypes'
  BY <1>1, <1>2, <1>3, <1>4, <1>5 DEF ClockTypes
<1>7. PieceFits' /\ at' <= length'
  BY <1>1, <1>3, <1>4, <1>5 DEF PieceFits, Playing
<1>8. ASSUME beat'.interval > 0 PROVE Counts(beat.interval)'
  <2> DEFINE k == beat'.interval
  <2>1. k \in Nat \ {0} /\ beat'.pos = 0 /\ Reached' = 0
    BY <1>1, <1>3, <1>5, <1>8 DEF Reached
  <2> HIDE DEF k
  <2>2. {j \in 0 .. 0 - 1 : j % k = 0} = {}
    OBVIOUS
  <2>3. Beats(k, 0) = {}
    BY <2>2 DEF Beats
  <2>4. (0 + 0) % k = 0
    <3>1. (k * 0) % k = 0
      BY <2>1, Multiple
    <3> QED BY <2>1, <3>1
  <2>5. clicks' = Beats(k, Reached') /\ beat'.pos \in 0 .. k - 1 /\ (Reached' + beat'.pos) % k = 0
    BY <1>1, <2>1, <2>3, <2>4
  <2> QED BY <2>5 DEF Counts, k, Beats
<1>9. ~torn => resetting = 0
  BY <1>1 DEF ClockInv
<1> QED BY <1>1, <1>3, <1>6, <1>7, <1>8, <1>9 DEF ClockInv

(* A click starts on sample i of a piece that has reached a, with p to go  *)
(* to the next one, if a + i is a beat.                                    *)
LEMMA ClicksOnBeats ==
  ASSUME NEW k \in Nat \ {0}, NEW a \in Nat, NEW p \in 0 .. k - 1, (a + p) % k = 0, NEW i \in Nat
  PROVE  (a + i) % k = 0 <=> i >= p /\ (i - p) % k = 0
<1>1. CASE i >= p
  <2>1. /\ a + i \in Int /\ i - p \in Int /\ a + p \in Int
        /\ (a + i) - (i - p) = a + p
    OBVIOUS
  <2>2. ((a + i) - (i - p)) % k = 0
    BY <2>1
  <2>3. (a + i) % k = 0 <=> (i - p) % k = 0
    BY <2>1, <2>2, SameBeat
  <2> QED BY <1>1, <2>3
<1>2. CASE i < p
  <2>1. a + i \in Int /\ p - i \in 1 .. k - 1 /\ (a + i) + (p - i) = a + p
    BY <1>2
  <2>2. ((a + i) + (p - i)) % k = 0
    BY <2>1
  <2>3. (a + i) % k # 0
    BY <2>1, <2>2, NoBeatBefore
  <2> QED BY <1>2, <2>3
<1> QED BY <1>1, <1>2

(* The piece, and the metronome before it.                                 *)
Cutting(k, a, p, x) ==
  k \in Nat \ {0} /\ a \in Nat /\ p \in 0 .. k - 1 /\ (a + p) % k = 0 /\ x \in Nat \ {0}

(* After a piece of x samples, the next click is what is left of the one   *)
(* that was to come, or what is left of a beat.                            *)
ToNext(k, p, x) == IF x <= p THEN p - x ELSE (k - ((x - p) % k)) % k

LEMMA NextClick ==
  ASSUME NEW k, NEW a, NEW p, NEW x, Cutting(k, a, p, x)
  PROVE  ToNext(k, p, x) \in 0 .. k - 1 /\ (a + x + ToNext(k, p, x)) % k = 0
<1> USE DEF Cutting
<1>1. CASE x <= p
  <2>1. p - x \in 0 .. k - 1 /\ a + x + (p - x) = a + p
    BY <1>1
  <2>2. ToNext(k, p, x) = p - x
    BY <1>1 DEF ToNext
  <2> QED BY <2>1, <2>2
<1>2. CASE x > p
  <2> DEFINE r == (x - p) % k
             q == (x - p) \div k
             n == (k - r) % k
  <2>1. x - p \in Int
    OBVIOUS
  <2>2. x - p = k * q + r /\ q \in Int /\ r \in 0 .. k - 1
    BY <2>1, Dividing
  <2>3. k - r \in Int
    BY <2>2
  <2>4. n \in 0 .. k - 1 /\ k - r = k * ((k - r) \div k) + n /\ ((k - r) \div k) \in Int
    BY <2>3, Dividing
  <2> DEFINE d == (k - r) \div k
  <2>5. PICK m \in Int : a + p = k * m
    <3>1. a + p \in Int
      OBVIOUS
    <3> QED BY <3>1, IsBeat
  <2> HIDE DEF r, q, n, d
  <2>6. a + x + n = k * m + k * q + k - k * d
    BY <2>2, <2>4, <2>5 DEF d
  <2>7. k * m + k * q + k - k * d = k * (m + q + 1 - d)
    BY <2>2, <2>4, <2>5 DEF d
  <2>8. m + q + 1 - d \in Int
    BY <2>2, <2>4, <2>5 DEF d
  <2>9. (a + x + n) % k = 0
    BY <2>6, <2>7, <2>8, Multiple
  <2>10. ToNext(k, p, x) = n
    BY <1>2 DEF ToNext, n, r
  <2> QED BY <2>4, <2>9, <2>10
<1> QED BY <1>1, <1>2

LEMMA PeriodIs == ASSUME ClockInv PROVE Period \in Nat \ {0} /\ (beat.interval > 0 => Period = beat.interval)
  BY DEF Period, ClockInv, ClockTypes

(* The clicks of a piece are the beats in it.                              *)
NewClicks(k, a, p, x) ==
  {[where |-> a + i, accent |-> a + i < k] : i \in {j \in 0 .. x - 1 : j >= p /\ (j - p) % k = 0}}

LEMMA PieceClicks ==
  ASSUME NEW k, NEW a, NEW p, NEW x, Cutting(k, a, p, x)
  PROVE  Beats(k, a) \union NewClicks(k, a, p, x) = Beats(k, a + x)
<1>0. /\ k \in Nat \ {0} /\ a \in Nat /\ p \in 0 .. k - 1 /\ (a + p) % k = 0 /\ x \in Nat \ {0}
  BY DEF Cutting
<1>1. \A i \in Nat : ((a + i) % k = 0 <=> i >= p /\ (i - p) % k = 0)
  BY <1>0, ClicksOnBeats, Zenon
<1> DEFINE starts == {i \in 0 .. x - 1 : i >= p /\ (i - p) % k = 0}
           new    == {[where |-> a + i, accent |-> a + i < k] : i \in starts}
<1> USE <1>0
<1>2. ASSUME NEW j \in Nat, j % k = 0 PROVE (j < k) = (j = 0)
  <2>1. CASE j < k
    <3>1. j % k = j
      BY <2>1
    <3> QED BY <1>2, <2>1, <3>1
  <2>2. CASE ~(j < k)
    <3>1. j # 0
      BY <2>2
    <3> QED BY <2>2, <3>1
  <2> QED BY <2>1, <2>2
<1>3. ASSUME NEW c \in Beats(k, a) PROVE c \in Beats(k, a + x)
  <2>1. PICK j \in 0 .. a - 1 : j % k = 0 /\ c = [where |-> j, accent |-> j = 0]
    BY <1>3 DEF Beats
  <2>2. j \in 0 .. (a + x) - 1
    BY <2>1
  <2> QED BY <2>1, <2>2 DEF Beats
<1>4. ASSUME NEW c \in new PROVE c \in Beats(k, a + x)
  <2>1. PICK i \in starts : c = [where |-> a + i, accent |-> a + i < k]
    BY <1>4
  <2>2. i \in Nat /\ a + i \in 0 .. (a + x) - 1 /\ a + i \in Nat
    BY <2>1
  <2>3. (a + i) % k = 0
    BY <1>1, <2>1, <2>2
  <2>4. (a + i < k) = (a + i = 0)
    BY <1>2, <2>2, <2>3
  <2>5. c = [where |-> a + i, accent |-> a + i = 0]
    BY <2>1, <2>4
  <2> QED BY <2>2, <2>3, <2>5 DEF Beats
<1>5. ASSUME NEW c \in Beats(k, a + x) PROVE c \in Beats(k, a) \union new
  <2>1. PICK j \in 0 .. (a + x) - 1 : j % k = 0 /\ c = [where |-> j, accent |-> j = 0]
    BY <1>5 DEF Beats
  <2>4. j < a \/ j >= a
    BY <2>1
  <2>2. CASE j < a
    <3>1. j \in 0 .. a - 1
      BY <2>1, <2>2
    <3> QED BY <2>1, <3>1 DEF Beats
  <2>3. CASE j >= a
    <3> DEFINE i == j - a
    <3>1. i \in 0 .. x - 1 /\ i \in Nat /\ a + i = j /\ j \in Nat
      BY <2>1, <2>3
    <3>2. (j < k) = (j = 0)
      BY <1>2, <2>1, <3>1
    <3> HIDE DEF i
    <3>3. i >= p /\ (i - p) % k = 0
      BY <1>1, <2>1, <3>1
    <3>4. c = [where |-> a + i, accent |-> a + i < k]
      BY <2>1, <3>1, <3>2
    <3>5. i \in starts
      BY <3>1, <3>3
    <3> HIDE DEF starts
    <3>6. c \in new
      BY <3>4, <3>5
    <3> QED BY <3>6
  <2> QED BY <2>2, <2>3, <2>4
<1> HIDE DEF new
<1>6. Beats(k, a) \union new = Beats(k, a + x)
  BY <1>3, <1>4, <1>5
<1> QED BY <1>6 DEF new, NewClicks

LEMMA ProcessSamplesHolds == ASSUME ClockInv, ProcessSamples PROVE ClockInv'
<1>1. /\ UNCHANGED <<enabled, tempo, active, length, at, resetting, torn>>
      /\ block.step = "play" /\ block' = [block EXCEPT !.step = "advance"]
      /\ clicks' = clicks \union {[where |-> at + i, accent |-> at + i < beat.interval] : i \in Starts}
  BY DEF ProcessSamples
<1>2. /\ beat \in [interval : Nat, pos : Int] /\ length \in Nat \ {0} /\ at \in Int
      /\ block \in [step : {"idle", "loop", "play", "advance"}, left : Int, x : Int, seen : Int]
  BY DEF ClockInv, ClockTypes
<1> DEFINE n == IF block.x <= beat.pos THEN beat.pos - block.x
                ELSE (Period - ((block.x - beat.pos) % Period)) % Period
<1>3. n \in Int
  <2>1. beat.pos - block.x \in Int /\ block.x - beat.pos \in Int /\ Period \in Nat \ {0}
    BY <1>2, PeriodIs
  <2>2. Period - ((block.x - beat.pos) % Period) \in Int
    BY <2>1, Dividing
  <2>3. (Period - ((block.x - beat.pos) % Period)) % Period \in Int
    BY <2>1, <2>2, Dividing
  <2> QED BY <2>1, <2>3
<1>4. beat' = [beat EXCEPT !.pos = n]
  BY DEF ProcessSamples
<1> HIDE DEF n
<1>5. /\ beat' \in [interval : {beat.interval}, pos : {n}]
      /\ block' \in [step : {"advance"}, left : {block.left}, x : {block.x}, seen : {block.seen}]
  BY <1>1, <1>2, <1>4
<1>6. ClockTypes'
  BY <1>1, <1>3, <1>5 DEF ClockInv, ClockTypes
<1>7. ~torn => PieceFits'
  BY <1>1, <1>5 DEF ClockInv, PieceFits, Playing
<1>8. OneTempo => OneTempo'
  BY <1>1, <1>5 DEF OneTempo, LengthOf
<1>9. ASSUME ~torn, beat.interval > 0 PROVE Counts(beat.interval)'
  <2> DEFINE k == beat.interval
             p == beat.pos
             x == block.x
  <2>1. /\ at \in Nat /\ x \in Nat \ {0} /\ Counts(k) /\ k \in Nat \ {0}
    BY <1>1, <1>2, <1>9 DEF ClockInv, PieceFits, Playing
  <2>2. Reached = at /\ Reached' = at + x
    BY <1>1, <1>2, <1>5, <2>1 DEF Reached
  <2>3. clicks = Beats(k, at) /\ p \in 0 .. k - 1 /\ (at + p) % k = 0
    BY <2>1, <2>2 DEF Counts
  <2>4. Starts = {i \in 0 .. x - 1 : i >= p /\ (i - p) % k = 0}
        /\ n = ToNext(k, p, x)
    BY <1>9, PeriodIs DEF Starts, n, ToNext
  <2>5. beat'.pos = n /\ beat'.interval = k
    BY <1>5
  <2> HIDE DEF k, p, x
  <2>9. Cutting(k, at, p, x)
    BY <2>1, <2>3 DEF Cutting
  <2>6. clicks' = Beats(k, at + x)
    <3>1. clicks' = Beats(k, at) \union NewClicks(k, at, p, x)
      BY <1>1, <2>3, <2>4 DEF k, NewClicks
    <3>2. Beats(k, at) \union NewClicks(k, at, p, x) = Beats(k, at + x)
      BY <2>9, PieceClicks
    <3> QED BY <3>1, <3>2
  <2>7. n \in 0 .. k - 1 /\ (at + x + n) % k = 0
    BY <2>4, <2>9, NextClick
  <2>8. clicks' = Beats(k, Reached') /\ beat'.pos \in 0 .. k - 1 /\ (Reached' + beat'.pos) % k = 0
    BY <2>2, <2>5, <2>6, <2>7
  <2> QED BY <2>5, <2>8 DEF Counts, Beats
<1>10. beat'.interval = beat.interval
  BY <1>5
<1>11. ~torn => resetting = 0
  BY <1>1 DEF ClockInv
<1> QED BY <1>1, <1>6, <1>7, <1>8, <1>9, <1>10, <1>11 DEF ClockInv

LEMMA AdvanceHolds == ASSUME ClockInv, Advance PROVE ClockInv'
<1>1. /\ UNCHANGED <<enabled, tempo, active, length, beat, resetting, clicks, torn>>
      /\ block.step = "advance"
      /\ block' = IF block.left = block.x THEN NoBlock
                  ELSE [NoBlock EXCEPT !.step = "loop", !.left = block.left - block.x]
  BY DEF Advance
<1>2. PICK from \in {at, block.seen} : at' = from + block.x
  BY DEF Advance
<1>3. /\ at \in Int /\ length \in Nat \ {0}
      /\ block \in [step : {"idle", "loop", "play", "advance"}, left : Int, x : Int, seen : Int]
  BY DEF ClockInv, ClockTypes
<1>4. block' \in [step : {"idle", "loop"}, left : Int, x : {0}, seen : {0}]
      /\ (block'.step = "loop" => block.left # block.x /\ block'.left = block.left - block.x)
  <2>1. block.left - block.x \in Int
    BY <1>3
  <2>2. CASE block.left = block.x
    BY <1>1, <2>2 DEF NoBlock
  <2>3. CASE block.left # block.x
    <3>1. block' = [step |-> "loop", left |-> block.left - block.x, x |-> 0, seen |-> 0]
      BY <1>1, <2>3 DEF NoBlock
    <3> QED BY <2>1, <2>3, <3>1
  <2> QED BY <2>2, <2>3
<1>5. ClockTypes'
  BY <1>1, <1>2, <1>3, <1>4 DEF ClockInv, ClockTypes
<1>6. ASSUME ~torn
      PROVE  PieceFits' /\ at' = at + block.x /\ at' <= length
  BY <1>1, <1>2, <1>3, <1>4, <1>6 DEF ClockInv, PieceFits, Playing
<1>7. OneTempo' <=> OneTempo
  BY <1>1 DEF OneTempo, LengthOf
<1>8. ASSUME ~torn PROVE Reached' = Reached
  BY <1>1, <1>3, <1>4, <1>6, <1>8 DEF Reached
<1>9. ASSUME ~torn PROVE Counts(beat.interval)' <=> Counts(beat.interval)
  BY <1>1, <1>8, <1>9 DEF Counts, Beats
<1>10. ~torn => at >= 0
  BY <1>1 DEF ClockInv, PieceFits, Playing
<1> QED BY <1>1, <1>5, <1>6, <1>7, <1>9, <1>10 DEF ClockInv

LEMMA ClockStep == ClockInv /\ [ClockNext]_clockVars => ClockInv'
<1>1. SUFFICES ASSUME ClockInv, [ClockNext]_clockVars PROVE ClockInv'
  OBVIOUS
<1>2. CASE UNCHANGED clockVars
  BY <1>1, <1>2 DEF clockVars, ClockInv, ClockTypes, PieceFits, Playing, OneTempo, LengthOf, Counts, Reached, Beats
<1>3. ASSUME NEW bpm \in Bpms, NEW bpi \in Bpis, ConfigChange(bpm, bpi) PROVE ClockInv'
  BY <1>1, <1>3, ConfigChangeHolds
<1>4. CASE ResetTempoInfo \/ ResetInterval \/ ResetPosition
  BY <1>1, <1>4, ResetHolds
<1>5. ASSUME NEW len \in BlockSizes, AudioProc(len) PROVE ClockInv'
  BY <1>1, <1>5, AudioProcHolds
<1>6. CASE Continue
  BY <1>1, <1>6, ContinueHolds
<1>7. CASE Boundary
  BY <1>1, <1>7, BoundaryHolds
<1>8. CASE ProcessSamples
  BY <1>1, <1>8, ProcessSamplesHolds
<1>9. CASE Advance
  BY <1>1, <1>9, AdvanceHolds
<1> QED BY <1>1, <1>2, <1>3, <1>4, <1>5, <1>6, <1>7, <1>8, <1>9 DEF ClockNext

LEMMA OnTheGrid == ClockInv => BeatsOnTheGrid
<1>1. SUFFICES ASSUME ClockInv, ~torn, resetting = 0, at >= 0
               PROVE  /\ Playing => 0 < block.x /\ block.x <= block.left /\ at + block.x <= length
                      /\ beat.interval > 0 =>
                           /\ length = LengthOf(active) /\ beat.interval = length \div active.bpi
                           /\ block.step # "advance" => clicks = Beats(beat.interval, at)
  BY DEF BeatsOnTheGrid, Playing, Beats
<1>2. PieceFits /\ OneTempo /\ at \in Int /\ (beat.interval > 0 => Counts(beat.interval))
  BY <1>1 DEF ClockInv, ClockTypes
<1>3. block.step # "advance" => Reached = at
  BY <1>2 DEF Reached
<1> QED BY <1>2, <1>3 DEF PieceFits, OneTempo, Counts

(* However blocks and tempo messages fall, the pieces a block is cut into  *)
(* do not cross the boundary, the interval has the length of one tempo, and*)
(* its clicks are the beats of that tempo, the first alone accented.       *)
THEOREM ClicksAreBeats == ClockSpec => []BeatsOnTheGrid
<1>1. ClockSpec => []ClockInv
  BY ClockInitially, ClockStep, PTL DEF ClockSpec
<1> QED BY <1>1, OnTheGrid, PTL
-----------------------------------------------------------------------------
(***************************************************************************)
(* The numbers of the app reach their channels (IdsReachChannels), for any *)
(* number of them and any sequence of calls.                               *)
(*                                                                         *)
(* A slot that is free is found always, by counting; and a call removes one*)
(* channel of the list, the first of its slot: that it is the only one is  *)
(* what has to be carried along (OnePerSlot), also through the renumbering.*)
(***************************************************************************)
LocalRec == [idx : Nat, whose : Ids, muted : BOOLEAN, solo : BOOLEAN]

SlotsOK ==
  /\ DOMAIN slots \subseteq Ids /\ IsFiniteSet(DOMAIN slots)
  /\ \A id \in DOMAIN slots : slots[id] \in Nat

OnePerSlot(list) == \A i, j \in DOMAIN list : list[i].idx = list[j].idx => i = j

Reaches(list, m) ==
  \A i \in DOMAIN list : list[i].whose \in DOMAIN m /\ list[i].idx = m[list[i].whose]

LocalsInv ==
  /\ SlotsOK /\ locals \in Seq(LocalRec) /\ IsInjective(slots) /\ OnePerSlot(locals)
  /\ ~stranded => Reaches(locals, slots)

LEMMA LeastNumber ==
  ASSUME NEW T, T \subseteq Nat, T # {}
  PROVE  Min(T) \in T /\ \A y \in T : Min(T) <= y
<1>1. PICK x \in T : \A y \in T : ~ (<<y, x>> \in OpToRel(<, Nat))
  BY NatLessThanWellFounded, WFMin
<1>2. \A y \in T : x <= y
  <2>1. ASSUME NEW y \in T, y < x PROVE FALSE
    <3>1. <<y, x>> \in OpToRel(<, Nat)
      BY <2>1 DEF OpToRel
    <3>2. QED BY <1>1, <3>1
  <2>2. QED BY <2>1
<1>3. QED BY <1>1, <1>2 DEF Min

(* Of one more number than there are slots taken, one is free.             *)
LEMMA SlotIsFree ==
  ASSUME NEW s, IsFiniteSet(DOMAIN s)
  PROVE  FreeSlot(s) \in Nat /\ FreeSlot(s) \notin Range(s)
<1> DEFINE D == DOMAIN s
           c == Cardinality(D)
           T == {n \in 0 .. c : n \notin Range(s)}
<1>1. c \in Nat
  BY FS_CardinalityType
<1>2. IsFiniteSet(0 .. c) /\ Cardinality(0 .. c) = c + 1
  BY <1>1, FS_Interval
<1>3. T # {}
  <2>1. SUFFICES ASSUME T = {} PROVE FALSE
    OBVIOUS
  <2>2. \A n \in 0 .. c : \E d \in D : s[d] = n
    BY <2>1 DEF Range
  <2> DEFINE f == [n \in 0 .. c |-> CHOOSE d \in D : s[d] = n]
  <2>3. \A n \in 0 .. c : f[n] \in D /\ s[f[n]] = n
    BY <2>2
  <2>4. f \in [0 .. c -> D]
    BY <2>3
  <2>5. Cardinality(D) < Cardinality(0 .. c)
    BY <1>1, <1>2
  <2> HIDE DEF f
  <2>6. \E x, y \in 0 .. c : x # y /\ f[x] = f[y]
    <3> HIDE DEF D, c
    <3>1. IsFiniteSet(D)
      BY DEF D
    <3> QED BY <1>2, <2>4, <2>5, <3>1, FS_PigeonHole
  <2> QED BY <2>3, <2>6
<1> DEFINE n == Min(T)
<1>4. n \in T /\ \A k \in T : n <= k
  <2>1. T \subseteq Nat
    OBVIOUS
  <2> HIDE DEF T
  <2> QED BY <1>3, <2>1, LeastNumber
<1>5. n \in 0 .. c /\ n \notin Range(s)
  BY <1>4
<1>6. \A k \in 0 .. n - 1 : k \in Range(s)
  <2>1. ASSUME NEW k \in 0 .. n - 1 PROVE k \in 0 .. c /\ ~(n <= k)
    BY <1>1, <1>5, <2>1
  <2> HIDE DEF n, c
  <2> QED BY <1>4, <2>1
<1> HIDE DEF n
<1>7. FreeSlot(s) \in 0 .. c /\ FreeSlot(s) \notin Range(s)
  BY <1>5, <1>6 DEF FreeSlot
<1> QED BY <1>1, <1>7

(* The map with a number has it, keeps the others and stays one to one.    *)
LEMMA WithIs ==
  ASSUME SlotsOK, IsInjective(slots), NEW id \in Ids, NEW m, m = With(id)
  PROVE  /\ DOMAIN m = DOMAIN slots \union {id} /\ IsFiniteSet(DOMAIN m)
         /\ \A i \in DOMAIN m : m[i] \in Nat
         /\ \A i \in DOMAIN slots : m[i] = slots[i]
         /\ IsInjective(m)
<1>1. IsFiniteSet(DOMAIN slots \union {id})
  BY FS_AddElement DEF SlotsOK
<1>2. CASE id \in DOMAIN slots
  <2>1. m = slots /\ DOMAIN slots \union {id} = DOMAIN slots
    BY <1>2 DEF With
  <2> QED BY <1>1, <2>1 DEF SlotsOK
<1>3. CASE id \notin DOMAIN slots
  <2>1. m = [i \in DOMAIN slots \union {id} |-> IF i = id THEN FreeSlot(slots) ELSE slots[i]]
    BY <1>3 DEF With
  <2>2. /\ DOMAIN m = DOMAIN slots \union {id} /\ m[id] = FreeSlot(slots)
        /\ \A i \in DOMAIN slots : m[i] = slots[i]
    BY <1>3, <2>1
  <2>3. FreeSlot(slots) \in Nat /\ \A i \in DOMAIN slots : slots[i] # FreeSlot(slots)
    BY SlotIsFree DEF SlotsOK, Range
  <2>4. \A a, b \in DOMAIN m : m[a] = m[b] => a = b
    BY <2>2, <2>3 DEF IsInjective
  <2>5. \A i \in DOMAIN m : m[i] \in Nat
    BY <2>2, <2>3 DEF SlotsOK
  <2> HIDE <2>1
  <2> QED BY <1>1, <2>2, <2>4, <2>5 DEF IsInjective
<1> QED BY <1>2, <1>3

LEMMA PlaceIs ==
  ASSUME NEW list \in Seq(LocalRec), NEW slot
  PROVE  \/ Place(list, slot) = 0 /\ \A i \in DOMAIN list : list[i].idx # slot
         \/ Place(list, slot) \in DOMAIN list /\ list[Place(list, slot)].idx = slot
<1> DEFINE I == {i \in 1 .. Len(list) : list[i].idx = slot}
<1>1. Place(list, slot) = IF I # {} THEN Min(I) ELSE 0
  BY DEF Place, SelectInSeq
<1>2. DOMAIN list = 1 .. Len(list) /\ I \subseteq Nat
  BY LenProperties
<1>3. I # {} => Min(I) \in I
  <2> HIDE DEF I
  <2> QED BY <1>2, LeastNumber
<1> QED BY <1>1, <1>2, <1>3

Extended(new, list, id, slot) ==
  new = IF Place(list, slot) = 0 THEN Append(list, NewLocal(id, slot)) ELSE list

LEMMA HavingIs ==
  ASSUME NEW list \in Seq(LocalRec), NEW id \in Ids, NEW slot \in Nat, OnePerSlot(list),
         NEW new, Extended(new, list, id, slot)
  PROVE  /\ new \in Seq(LocalRec) /\ OnePerSlot(new)
         /\ Place(new, slot) \in DOMAIN new
         /\ \A i \in DOMAIN new :
              \/ i \in DOMAIN list /\ new[i] = list[i]
              \/ new[i] = NewLocal(id, slot)
         /\ \A i \in DOMAIN list : i \in DOMAIN new /\ new[i] = list[i]
<1>1. CASE Place(list, slot) # 0
  <2>1. new = list
    BY <1>1 DEF Extended
  <2> QED BY <1>1, <2>1, PlaceIs
<1>2. CASE Place(list, slot) = 0
  <2> DEFINE c == NewLocal(id, slot)
  <2>1. c \in LocalRec /\ c.idx = slot
    BY DEF NewLocal, LocalRec
  <2>2. new = Append(list, c)
    BY <1>2 DEF Extended
  <2>3. \A i \in DOMAIN list : list[i].idx # slot
    <3>1. DOMAIN list = 1 .. Len(list) /\ Len(list) \in Nat
      BY LenProperties
    <3> QED BY <1>2, <3>1, PlaceIs
  <2> HIDE DEF c
  <2>4. /\ new \in Seq(LocalRec) /\ Len(new) = Len(list) + 1 /\ new[Len(list) + 1] = c
        /\ \A i \in 1 .. Len(list) : new[i] = list[i]
    BY <2>1, <2>2, AppendProperties
  <2>5. /\ DOMAIN new = 1 .. Len(list) + 1 /\ DOMAIN list = 1 .. Len(list) /\ Len(list) \in Nat
    BY <2>4, LenProperties
  <2>6. \A i \in DOMAIN new : \/ i \in DOMAIN list /\ new[i] = list[i]
                              \/ i = Len(list) + 1 /\ new[i] = c
    BY <2>4, <2>5
  <2>7. OnePerSlot(new)
    <3>1. \A i, j \in DOMAIN list : list[i].idx = list[j].idx => i = j
      BY DEF OnePerSlot
    <3>2. SUFFICES ASSUME NEW i \in DOMAIN new, NEW j \in DOMAIN new, new[i].idx = new[j].idx PROVE i = j
      BY DEF OnePerSlot
    <3> QED BY <2>1, <2>3, <2>6, <3>1, <3>2
  <2>8. Place(new, slot) \in DOMAIN new
    <3>1. Len(list) + 1 \in DOMAIN new /\ new[Len(list) + 1].idx = slot
      BY <2>1, <2>4, <2>5
    <3> QED BY <2>4, <3>1, PlaceIs
  <2>9. \A i \in DOMAIN list : i \in DOMAIN new /\ new[i] = list[i]
    BY <2>4, <2>5
  <2> QED BY <2>4, <2>6, <2>7, <2>8, <2>9 DEF c
<1> QED BY <1>1, <1>2

(* A list without its i-th element: those after it move up.                *)
LEMMA RemoveAtIs ==
  ASSUME NEW S, NEW list \in Seq(S), NEW i \in DOMAIN list, NEW new, new = RemoveAt(list, i)
  PROVE  /\ new \in Seq(S) /\ Len(new) = Len(list) - 1 /\ DOMAIN new = 1 .. Len(list) - 1
         /\ \A j \in DOMAIN new : new[j] = IF j < i THEN list[j] ELSE list[j + 1]
<1>1. Len(list) \in Nat /\ DOMAIN list = 1 .. Len(list) /\ i \in 1 .. Len(list)
  BY LenProperties
<1> DEFINE a == SubSeq(list, 1, i - 1)
           b == SubSeq(list, i + 1, Len(list))
           n == Len(list)
<1>2. /\ a \in Seq(S) /\ Len(a) = i - 1 /\ \A j \in 1 .. i - 1 : a[j] = list[j]
  <2>1. /\ 1 \in 1 .. Len(list) + 1 /\ i - 1 \in 1 - 1 .. Len(list)
    BY <1>1
  <2>2. /\ a \in Seq(S) /\ Len(a) = IF 1 <= i - 1 THEN (i - 1) - 1 + 1 ELSE 0
        /\ \A j \in 1 .. (i - 1) - 1 + 1 : a[j] = list[1 + j - 1]
    BY <2>1, SubSeqProperties
  <2> HIDE DEF a
  <2>3. Len(a) = i - 1
    BY <1>1, <2>2
  <2>4. ASSUME NEW j \in 1 .. i - 1 PROVE a[j] = list[j]
    <3>1. j \in 1 .. (i - 1) - 1 + 1 /\ 1 + j - 1 = j
      BY <1>1
    <3> QED BY <2>2, <3>1
  <2> QED BY <2>2, <2>3, <2>4
<1>3. /\ b \in Seq(S) /\ Len(b) = n - i /\ \A j \in 1 .. n - i : b[j] = list[i + j]
  <2>1. /\ i + 1 \in 1 .. Len(list) + 1 /\ Len(list) \in (i + 1) - 1 .. Len(list)
    BY <1>1
  <2>2. /\ b \in Seq(S) /\ Len(b) = IF i + 1 <= Len(list) THEN Len(list) - (i + 1) + 1 ELSE 0
        /\ \A j \in 1 .. Len(list) - (i + 1) + 1 : b[j] = list[(i + 1) + j - 1]
    BY <2>1, SubSeqProperties
  <2> HIDE DEF b
  <2>3. Len(b) = n - i
    BY <1>1, <2>2
  <2>4. ASSUME NEW j \in 1 .. n - i PROVE b[j] = list[i + j]
    <3>1. j \in 1 .. Len(list) - (i + 1) + 1 /\ (i + 1) + j - 1 = i + j
      BY <1>1
    <3> QED BY <2>2, <3>1
  <2> QED BY <2>2, <2>3, <2>4
<1>4. new = a \o b
  BY DEF RemoveAt
<1> HIDE DEF a, b
<1>5. /\ a \o b \in Seq(S) /\ Len(a \o b) = Len(a) + Len(b)
      /\ \A j \in 1 .. Len(a) + Len(b) : (a \o b)[j] = IF j <= Len(a) THEN a[j] ELSE b[j - Len(a)]
  BY <1>2, <1>3, ConcatProperties
<1>6. Len(a) + Len(b) = n - 1
  BY <1>1, <1>2, <1>3
<1>7. new \in Seq(S) /\ Len(new) = n - 1 /\ DOMAIN new = 1 .. n - 1
  BY <1>4, <1>5, <1>6, LenProperties
<1>8. ASSUME NEW j \in 1 .. n - 1 PROVE new[j] = IF j < i THEN list[j] ELSE list[j + 1]
  <2>1. new[j] = IF j <= i - 1 THEN a[j] ELSE b[j - (i - 1)]
    BY <1>2, <1>4, <1>5, <1>6
  <2>2. CASE j < i
    <3>1. j <= i - 1 /\ j \in 1 .. i - 1
      BY <1>1, <2>2
    <3> QED BY <1>2, <2>1, <2>2, <3>1
  <2>3. CASE ~(j < i)
    <3>1. ~(j <= i - 1) /\ j - (i - 1) \in 1 .. n - i /\ i + (j - (i - 1)) = j + 1
      BY <1>1, <2>3
    <3>2. b[j - (i - 1)] = list[j + 1]
      BY <1>3, <3>1
    <3> QED BY <2>1, <2>3, <3>1, <3>2
  <2> QED BY <2>2, <2>3
<1> QED BY <1>7, <1>8

(* So what is left is what was there, each once.                           *)
Remains(new, list, i) == new = RemoveAt(list, i)

LEMMA LeftIs ==
  ASSUME NEW S, NEW list \in Seq(S), NEW i \in DOMAIN list, NEW new, Remains(new, list, i)
  PROVE  /\ new \in Seq(S)
         /\ \E f \in [DOMAIN new -> DOMAIN list] :
              /\ \A j \in DOMAIN new : new[j] = list[f[j]] /\ f[j] # i
              /\ \A j, k \in DOMAIN new : f[j] = f[k] => j = k
         /\ \A k \in DOMAIN list : k # i => \E j \in DOMAIN new : new[j] = list[k]
<1>1. /\ new \in Seq(S) /\ Len(new) = Len(list) - 1 /\ DOMAIN new = 1 .. Len(list) - 1
      /\ \A j \in DOMAIN new : new[j] = IF j < i THEN list[j] ELSE list[j + 1]
  BY RemoveAtIs DEF Remains
<1>2. Len(list) \in Nat /\ DOMAIN list = 1 .. Len(list)
  BY LenProperties
<1> DEFINE f == [j \in DOMAIN new |-> IF j < i THEN j ELSE j + 1]
<1>3. \A j \in DOMAIN new : f[j] \in DOMAIN list /\ f[j] # i /\ new[j] = list[f[j]]
  BY <1>1, <1>2
<1>4. \A j, k \in DOMAIN new : f[j] = f[k] => j = k
  BY <1>1, <1>2
<1>5. f \in [DOMAIN new -> DOMAIN list]
  BY <1>3
<1>6. ASSUME NEW k \in DOMAIN list, k # i PROVE \E j \in DOMAIN new : new[j] = list[k]
  <2>1. CASE k < i
    <3>1. k \in DOMAIN new
      BY <1>1, <1>2, <2>1
    <3> QED BY <1>1, <2>1, <3>1
  <2>2. CASE ~(k < i)
    <3>1. k - 1 \in DOMAIN new /\ ~(k - 1 < i) /\ (k - 1) + 1 = k
      BY <1>1, <1>2, <1>6, <2>2
    <3> QED BY <1>1, <3>1
  <2> QED BY <2>1, <2>2
<1>7. \A j \in DOMAIN new : new[j] = list[f[j]] /\ f[j] # i
  BY <1>3
<1> HIDE DEF f
<1>8. \E g \in [DOMAIN new -> DOMAIN list] :
        /\ \A j \in DOMAIN new : new[j] = list[g[j]] /\ g[j] # i
        /\ \A j, k \in DOMAIN new : g[j] = g[k] => j = k
  BY <1>4, <1>5, <1>7, Zenon
<1> QED BY <1>1, <1>6, <1>8, Zenon

(* A call that names a channel of the app: the list it works on.           *)
LEMMA Joined ==
  ASSUME LocalsInv, NEW id \in Ids, slots' = With(id), NEW list, list = Having(id, slots'[id])
  PROVE  /\ SlotsOK' /\ IsInjective(slots') /\ list \in Seq(LocalRec) /\ OnePerSlot(list)
         /\ Place(list, slots'[id]) \in DOMAIN list
         /\ Reaches(locals, slots) => Reaches(list, slots')
         /\ (\E i \in DOMAIN list : list[i].solo) <=> SomeSolo
<1>1. /\ DOMAIN slots' = DOMAIN slots \union {id} /\ IsFiniteSet(DOMAIN slots')
      /\ \A i \in DOMAIN slots' : slots'[i] \in Nat
      /\ \A i \in DOMAIN slots : slots'[i] = slots[i]
      /\ IsInjective(slots')
  BY WithIs DEF LocalsInv
<1>2. SlotsOK'
  BY <1>1 DEF LocalsInv, SlotsOK
<1> DEFINE slot == slots'[id]
<1>3. slot \in Nat /\ id \in DOMAIN slots'
  BY <1>1
<1> HIDE DEF slot
<1>4. locals \in Seq(LocalRec) /\ OnePerSlot(locals)
  BY DEF LocalsInv
<1>5. Extended(list, locals, id, slot)
  BY DEF Having, Extended, slot
<1>6. /\ list \in Seq(LocalRec) /\ OnePerSlot(list) /\ Place(list, slot) \in DOMAIN list
      /\ \A i \in DOMAIN list : \/ i \in DOMAIN locals /\ list[i] = locals[i]
                                \/ list[i] = NewLocal(id, slot)
      /\ \A i \in DOMAIN locals : i \in DOMAIN list /\ list[i] = locals[i]
  BY <1>3, <1>4, <1>5, HavingIs
<1>7. NewLocal(id, slot).idx = slot /\ NewLocal(id, slot).whose = id /\ ~NewLocal(id, slot).solo
  BY DEF NewLocal
<1>8. Reaches(locals, slots) => Reaches(list, slots')
  BY <1>1, <1>3, <1>6, <1>7 DEF Reaches, slot
<1>9. (\E i \in DOMAIN list : list[i].solo) <=> SomeSolo
  <2>1. ASSUME NEW i \in DOMAIN list, list[i].solo PROVE SomeSolo
    <3>1. i \in DOMAIN locals /\ list[i] = locals[i]
      BY <1>6, <1>7, <2>1, Zenon
    <3> QED BY <2>1, <3>1 DEF SomeSolo
  <2>2. ASSUME NEW i \in DOMAIN locals, locals[i].solo PROVE i \in DOMAIN list /\ list[i].solo
    BY <1>6, <2>2
  <2> QED BY <2>1, <2>2, Zenon DEF SomeSolo
<1> QED BY <1>1, <1>2, <1>6, <1>8, <1>9 DEF slot

LEMMA NoSlots == DOMAIN << >> = {} /\ IsFiniteSet({})
  BY FS_EmptySet

LEMMA LocalsInitially == LocalInit => LocalsInv
<1>1. SUFFICES ASSUME slots = << >>, locals = << >> PROVE LocalsInv
  BY DEF LocalInit
<1>2. DOMAIN slots = {} /\ DOMAIN locals = {} /\ IsFiniteSet(DOMAIN slots)
  BY <1>1, NoSlots
<1>3. locals \in Seq(LocalRec)
  BY <1>1
<1> QED BY <1>2, <1>3 DEF LocalsInv, SlotsOK, IsInjective, OnePerSlot, Reaches

LEMMA NamedHolds ==
  ASSUME LocalsInv, NEW id \in Ids, SetLocalChannelInfo(id) \/ SetVideoChannel(id)
  PROVE  LocalsInv'
<1>1. slots' = With(id) /\ (stranded' <=> stranded)
  BY DEF SetLocalChannelInfo, SetVideoChannel
<1> DEFINE list == Having(id, slots'[id])
<1>2. /\ SlotsOK' /\ IsInjective(slots') /\ list \in Seq(LocalRec) /\ OnePerSlot(list)
      /\ Reaches(locals, slots) => Reaches(list, slots')
  <2> HIDE DEF list
  <2>1. list = Having(id, slots'[id])
    BY DEF list
  <2> QED BY <1>1, <2>1, Joined
<1>3. CASE SetLocalChannelInfo(id)
  <2>1. locals' = list
    BY <1>3 DEF SetLocalChannelInfo
  <2> HIDE DEF list
  <2> QED BY <1>1, <1>2, <2>1 DEF LocalsInv
<1>4. CASE SetVideoChannel(id)
  <2>1. locals' = locals
    BY <1>4 DEF SetVideoChannel
  <2>2. \A i \in DOMAIN slots : i \in DOMAIN slots' /\ slots'[i] = slots[i]
    <3>1. SlotsOK /\ IsInjective(slots)
      BY DEF LocalsInv
    <3>2. PICK m : m = With(id)
      OBVIOUS
    <3>3. DOMAIN m = DOMAIN slots \union {id} /\ \A i \in DOMAIN slots : m[i] = slots[i]
      BY <3>1, <3>2, WithIs
    <3> QED BY <1>1, <3>2, <3>3
  <2>3. Reaches(locals, slots) => Reaches(locals, slots')
    BY <2>2 DEF Reaches
  <2> HIDE DEF list
  <2> QED BY <1>1, <1>2, <2>1, <2>3 DEF LocalsInv
<1> QED BY <1>3, <1>4

LEMMA MonitoringHolds ==
  ASSUME LocalsInv, NEW id \in Ids, NEW mute \in BOOLEAN, NEW solo \in BOOLEAN,
         SetLocalChannelMonitoring(id, mute, solo)
  PROVE  LocalsInv'
<1>1. slots' = With(id) /\ (stranded' <=> stranded)
  BY DEF SetLocalChannelMonitoring
<1> DEFINE list == Having(id, slots'[id])
           i == Place(list, slots'[id])
<1>2. /\ SlotsOK' /\ IsInjective(slots') /\ list \in Seq(LocalRec) /\ OnePerSlot(list)
      /\ i \in DOMAIN list /\ (Reaches(locals, slots) => Reaches(list, slots'))
  <2> HIDE DEF list
  <2>1. list = Having(id, slots'[id])
    BY DEF list
  <2> QED BY <1>1, <2>1, Joined
<1>3. locals' = [list EXCEPT ![i].muted = mute, ![i].solo = solo]
  BY DEF SetLocalChannelMonitoring
<1> HIDE DEF list, i
<1>4. DOMAIN list = 1 .. Len(list) /\ \A j \in DOMAIN list : list[j] \in LocalRec
  BY <1>2, ElementOfSeq
<1>5. /\ DOMAIN locals' = DOMAIN list
      /\ \A j \in DOMAIN list : /\ locals'[j] \in LocalRec /\ locals'[j].idx = list[j].idx
                                /\ locals'[j].whose = list[j].whose
  BY <1>2, <1>3, <1>4 DEF LocalRec
<1>6. locals' \in Seq(LocalRec)
  <2>1. locals' \in [1 .. Len(list) -> LocalRec]
    BY <1>3, <1>4, <1>5
  <2> QED BY <1>2, <2>1, LenProperties, IsASeq
<1>7. OnePerSlot(locals') /\ (Reaches(list, slots') => Reaches(locals', slots'))
  BY <1>2, <1>5 DEF OnePerSlot, Reaches
<1> QED BY <1>1, <1>2, <1>6, <1>7 DEF LocalsInv

LEMMA RemoveHolds ==
  ASSUME LocalsInv, NEW id \in Ids, RemoveLocalChannel(id)
  PROVE  LocalsInv'
<1> DEFINE slot == IF id \in DOMAIN slots THEN slots[id] ELSE id
           i == Place(locals, slot)
<1>1. /\ locals' = IF i = 0 THEN locals ELSE RemoveAt(locals, i)
      /\ stranded' <=> (stranded \/ (id \notin DOMAIN slots /\ i # 0))
      /\ slots' = [j \in DOMAIN slots \ {id} |-> slots[j]]
  BY DEF RemoveLocalChannel, Restrict
<1>2. SlotsOK /\ locals \in Seq(LocalRec) /\ IsInjective(slots) /\ OnePerSlot(locals)
  BY DEF LocalsInv
<1>3. /\ DOMAIN slots' = DOMAIN slots \ {id} /\ \A j \in DOMAIN slots' : slots'[j] = slots[j]
      /\ IsFiniteSet(DOMAIN slots')
  BY <1>1, <1>2, FS_RemoveElement DEF SlotsOK
<1>4. SlotsOK' /\ IsInjective(slots')
  BY <1>2, <1>3 DEF SlotsOK, IsInjective
<1>5. \/ i = 0 /\ \A j \in DOMAIN locals : locals[j].idx # slot
      \/ i \in DOMAIN locals /\ locals[i].idx = slot
  BY <1>2, PlaceIs
<1>6. 0 \notin DOMAIN locals
  BY <1>2, LenProperties
<1> HIDE DEF i
<1>7. CASE i = 0
  <2>1. locals' = locals /\ (stranded' <=> stranded)
    BY <1>1, <1>7
  <2>2. Reaches(locals, slots) => Reaches(locals, slots')
    <3>1. SUFFICES ASSUME Reaches(locals, slots), NEW j \in DOMAIN locals PROVE locals[j].whose # id
      BY <1>3 DEF Reaches
    <3>2. locals[j].whose \in DOMAIN slots /\ locals[j].idx = slots[locals[j].whose]
      BY <3>1 DEF Reaches
    <3>3. locals[j].idx # slot
      BY <1>5, <1>6, <1>7
    <3> QED BY <3>2, <3>3
  <2> QED BY <1>2, <1>4, <2>1, <2>2 DEF LocalsInv
<1>8. CASE i # 0
  <2>1. i \in DOMAIN locals /\ locals[i].idx = slot
    BY <1>5, <1>8
  <2>2. Remains(locals', locals, i)
    BY <1>1, <1>8 DEF Remains
  <2>3. /\ locals' \in Seq(LocalRec)
        /\ \E f \in [DOMAIN locals' -> DOMAIN locals] :
             /\ \A j \in DOMAIN locals' : locals'[j] = locals[f[j]] /\ f[j] # i
             /\ \A j, k \in DOMAIN locals' : f[j] = f[k] => j = k
    BY <1>2, <2>1, <2>2, LeftIs
  <2>4. PICK f \in [DOMAIN locals' -> DOMAIN locals] :
             /\ \A j \in DOMAIN locals' : locals'[j] = locals[f[j]] /\ f[j] # i
             /\ \A j, k \in DOMAIN locals' : f[j] = f[k] => j = k
    BY <2>3
  <2>5. OnePerSlot(locals')
    <3>1. SUFFICES ASSUME NEW j \in DOMAIN locals', NEW k \in DOMAIN locals',
                          locals'[j].idx = locals'[k].idx
                   PROVE  j = k
      BY DEF OnePerSlot
    <3>2. f[j] = f[k]
      BY <1>2, <2>4, <3>1 DEF OnePerSlot
    <3> QED BY <2>4, <3>2
  <2>6. ASSUME ~stranded' PROVE Reaches(locals', slots')
    <3>1. id \in DOMAIN slots /\ Reaches(locals, slots) /\ slot = slots[id]
      BY <1>1, <1>8, <2>6 DEF LocalsInv
    <3>2. SUFFICES ASSUME NEW j \in DOMAIN locals'
                   PROVE  /\ locals'[j].whose \in DOMAIN slots' /\ locals'[j].idx = slots'[locals'[j].whose]
      BY DEF Reaches
    <3>3. /\ f[j] \in DOMAIN locals /\ locals'[j] = locals[f[j]] /\ f[j] # i
      BY <2>4, <3>2
    <3>4. locals[f[j]].idx # slot
      BY <1>2, <2>1, <3>3 DEF OnePerSlot
    <3>5. locals[f[j]].whose \in DOMAIN slots /\ locals[f[j]].idx = slots[locals[f[j]].whose]
      BY <3>1, <3>3 DEF Reaches
    <3>6. locals[f[j]].whose # id
      BY <3>1, <3>4, <3>5
    <3> QED BY <1>3, <3>3, <3>5, <3>6
  <2> QED BY <1>4, <2>3, <2>5, <2>6 DEF LocalsInv
<1> QED BY <1>7, <1>8

LEMMA RenumberedIs ==
  ASSUME NEW list \in Seq(LocalRec), NEW new, new = [i \in DOMAIN list |-> [list[i] EXCEPT !.idx = i - 1]]
  PROVE  /\ new \in Seq(LocalRec) /\ OnePerSlot(new) /\ DOMAIN new = DOMAIN list
         /\ \A i \in DOMAIN list : new[i].solo = list[i].solo /\ new[i].muted = list[i].muted
<1>1. DOMAIN list = 1 .. Len(list) /\ Len(list) \in Nat /\ \A j \in DOMAIN list : list[j] \in LocalRec
  BY LenProperties, ElementOfSeq
<1>2. \A i \in DOMAIN list : /\ new[i] \in LocalRec /\ new[i].idx = i - 1
                             /\ new[i].solo = list[i].solo /\ new[i].muted = list[i].muted
  <2> SUFFICES ASSUME NEW i \in DOMAIN list
               PROVE  /\ new[i] \in LocalRec /\ new[i].idx = i - 1
                      /\ new[i].solo = list[i].solo /\ new[i].muted = list[i].muted
    OBVIOUS
  <2>1. list[i] \in LocalRec /\ i \in Nat \ {0}
    BY <1>1
  <2> DEFINE c == list[i]
  <2>2. new[i] = [c EXCEPT !.idx = i - 1] /\ i - 1 \in Nat
    BY <2>1
  <2> HIDE DEF c
  <2>3. /\ new[i] \in LocalRec /\ new[i].idx = i - 1
        /\ new[i].solo = c.solo /\ new[i].muted = c.muted
    BY <2>1, <2>2 DEF LocalRec, c
  <2> QED BY <2>3 DEF c
<1>3. new \in [1 .. Len(list) -> LocalRec] /\ DOMAIN new = DOMAIN list
  BY <1>1, <1>2
<1>4. new \in Seq(LocalRec)
  BY <1>1, <1>3, IsASeq
<1>5. OnePerSlot(new)
  BY <1>1, <1>2, <1>3 DEF OnePerSlot
<1> QED BY <1>2, <1>3, <1>4, <1>5

LEMMA ReinitHolds ==
  ASSUME LocalsInv, Connect \/ Disconnect
  PROVE  LocalsInv'
<1>1. locals' = [i \in DOMAIN locals |-> [locals[i] EXCEPT !.idx = i - 1]]
  BY DEF Connect, Disconnect, Reinit, Renumbered
<1>2. locals' \in Seq(LocalRec) /\ OnePerSlot(locals') /\ DOMAIN locals' = DOMAIN locals
  BY <1>1, RenumberedIs DEF LocalsInv
<1>3. CASE Disconnect
  <2>1. slots' = slots /\ (~stranded' => ~stranded /\ locals' = locals)
    BY <1>3 DEF Disconnect
  <2>2. SlotsOK' /\ IsInjective(slots')
    BY <2>1 DEF LocalsInv, SlotsOK, IsInjective
  <2> QED BY <1>2, <2>1, <2>2 DEF LocalsInv
<1>4. CASE Connect
  <2>1. slots' = << >> /\ (~stranded' => locals = << >>)
    BY <1>4 DEF Connect
  <2>2. DOMAIN slots' = {} /\ IsFiniteSet(DOMAIN slots')
    BY <2>1, NoSlots
  <2>3. SlotsOK' /\ IsInjective(slots')
    BY <2>2 DEF SlotsOK, IsInjective
  <2>4. ~stranded' => DOMAIN locals' = {}
    BY <1>2, <2>1
  <2> QED BY <1>2, <2>3, <2>4 DEF LocalsInv, Reaches
<1> QED BY <1>3, <1>4

LEMMA LocalsUnchanged ==
  ASSUME LocalsInv, UNCHANGED <<slots, locals, stranded>> PROVE LocalsInv'
  BY DEF LocalsInv, SlotsOK, IsInjective, OnePerSlot, Reaches

LEMMA LocalsStep == LocalsInv /\ [LocalNext]_localVars => LocalsInv'
<1>1. SUFFICES ASSUME LocalsInv, [LocalNext]_localVars PROVE LocalsInv'
  OBVIOUS
<1>2. CASE UNCHANGED localVars
  BY <1>1, <1>2, LocalsUnchanged DEF localVars
<1>3. ASSUME NEW id \in Ids, SetLocalChannelInfo(id) \/ SetVideoChannel(id) PROVE LocalsInv'
  BY <1>1, <1>3, NamedHolds
<1>4. ASSUME NEW id \in Ids, RemoveLocalChannel(id) PROVE LocalsInv'
  BY <1>1, <1>4, RemoveHolds
<1>5. ASSUME NEW id \in Ids, NEW mute \in BOOLEAN, NEW solo \in BOOLEAN,
             SetLocalChannelMonitoring(id, mute, solo)
      PROVE  LocalsInv'
  BY <1>1, <1>5, MonitoringHolds
<1>6. CASE UpdateSolo
  BY <1>1, <1>6, LocalsUnchanged DEF UpdateSolo
<1>7. CASE Connect \/ Disconnect
  BY <1>1, <1>7, ReinitHolds
<1> QED BY <1>1, <1>2, <1>3, <1>4, <1>5, <1>6, <1>7 DEF LocalNext

(* Every call reaches the channel the app means, and no two of its channels*)
(* share a slot, as long as no connection has renumbered or forgotten them *)
(* and no number without a slot was taken for one.                         *)
THEOREM NumbersReachChannels == LocalSpec => []IdsReachChannels
<1>1. LocalsInv => IdsReachChannels
  BY DEF LocalsInv, Reaches, IdsReachChannels
<1>2. LocalSpec => []LocalsInv
  BY LocalsInitially, LocalsStep, PTL DEF LocalSpec
<1> QED BY <1>1, <1>2, PTL
-----------------------------------------------------------------------------
(***************************************************************************)
(* A call about a user acts on that user (CallReachesUser), and exactly    *)
(* those are heard who are to be (SoloIsHeard), for any number of users,   *)
(* channels and calls.                                                     *)
(*                                                                         *)
(* The first one rests on the cache: until somebody leaves it names the    *)
(* users at their places, because newcomers come last.  The second rests on*)
(* the two bits of m_issoloactive, each telling the truth about its masks  *)
(* but while the app is between a change of a channel and its update.      *)
(***************************************************************************)
UserRec == [name : Users, present : SUBSET UserChannels, muted : SUBSET UserChannels,
            solo : SUBSET UserChannels]
Bits == {"remote", "local"}

(* The names are those of the users at their places.                       *)
AtTheirPlaces(names, list) ==
  \A i \in DOMAIN names : i \in DOMAIN list /\ list[i].name = names[i]

CacheOK ==
  /\ cache \in [valid : BOOLEAN, names : Seq(Users), left : BOOLEAN]
  /\ cache.valid /\ ~cache.left => AtTheirPlaces(cache.names, users)

CallRec == [step : {"call"}, name : Users, at : Nat, ch : UserChannels \union {0},
            what : {"mute", "solo", "volume"}, on : BOOLEAN, left : BOOLEAN]
LeaveRec == [step : {"connect", "disconnect"}, left : BOOLEAN]

UiOK ==
  \/ ui = NoCall
  \/ ui \in LeaveRec
  \/ ui \in CallRec /\ (~ui.left => ui.at \in DOMAIN users /\ users[ui.at].name = ui.name)

Tells(bit, truth) == bit \in soloactive <=> truth
SoloOK ==
  /\ soloactive \subseteq Bits
  /\ updating = Quiet \/ updating \in [on : {TRUE}, read : SUBSET Bits]
  /\ ~raced => /\ Tells("remote", AnySolo(users))
               /\ updating = Quiet => Tells("local", SomeSolo)

UsersInv == LocalsInv /\ users \in Seq(UserRec) /\ CacheOK /\ UiOK /\ SoloOK

LEMMA UsersInitially == UsersInit => UsersInv
<1>1. SUFFICES ASSUME UsersInit PROVE UsersInv
  OBVIOUS
<1>2. LocalsInv
  BY <1>1, LocalsInitially DEF UsersInit
<1>3. /\ users = << >> /\ cache = [valid |-> FALSE, names |-> << >>, left |-> FALSE] /\ ui = NoCall
      /\ locals = << >> /\ soloactive = {} /\ updating = Quiet
  BY <1>1 DEF UsersInit, LocalInit, NoCache
<1>4. DOMAIN users = {} /\ DOMAIN locals = {} /\ users \in Seq(UserRec)
  BY <1>3, NoSlots
<1>5. CacheOK /\ UiOK
  BY <1>3 DEF CacheOK, UiOK
<1>6. SoloOK
  BY <1>3, <1>4 DEF SoloOK, AnySolo, SomeSolo, Tells
<1> QED BY <1>2, <1>4, <1>5, <1>6 DEF UsersInv

(* Nobody leaves and nobody moves.                                         *)
Stay(new) == \A j \in DOMAIN users : j \in DOMAIN new /\ new[j].name = users[j].name

LEMMA CacheStays ==
  ASSUME CacheOK, Stay(users'), cache' = cache PROVE CacheOK'
  BY DEF CacheOK, Stay, AtTheirPlaces

LEMMA UiStays ==
  ASSUME UiOK, Stay(users'), ui' = ui PROVE UiOK'
  BY DEF UiOK, Stay

LEMMA UserPlaceIs ==
  ASSUME NEW list \in Seq(UserRec), NEW name
  PROVE  \/ PlaceOf(list, name) = 0
         \/ PlaceOf(list, name) \in DOMAIN list /\ list[PlaceOf(list, name)].name = name
<1> DEFINE I == {i \in 1 .. Len(list) : list[i].name = name}
<1>1. PlaceOf(list, name) = IF I # {} THEN Min(I) ELSE 0
  BY DEF PlaceOf, SelectInSeq
<1>2. DOMAIN list = 1 .. Len(list) /\ I \subseteq Nat
  BY LenProperties
<1>3. I # {} => Min(I) \in I
  <2> HIDE DEF I
  <2> QED BY <1>2, LeastNumber
<1> QED BY <1>1, <1>2, <1>3

LEMMA NamePlaceIs ==
  ASSUME NEW names \in Seq(Users), NEW name
  PROVE  LET i == SelectInSeq(names, LAMBDA n : n = name) IN
         i = 0 \/ (i \in DOMAIN names /\ names[i] = name)
<1> DEFINE I == {i \in 1 .. Len(names) : names[i] = name}
           p == SelectInSeq(names, LAMBDA n : n = name)
<1>1. p = IF I # {} THEN Min(I) ELSE 0
  BY DEF SelectInSeq
<1>2. DOMAIN names = 1 .. Len(names) /\ I \subseteq Nat
  BY LenProperties
<1>3. I # {} => Min(I) \in I
  <2> HIDE DEF I
  <2> QED BY <1>2, LeastNumber
<1> QED BY <1>1, <1>2, <1>3

LEMMA UsersAre ==
  ASSUME NEW list \in Seq(UserRec)
  PROVE  DOMAIN list = 1 .. Len(list) /\ Len(list) \in Nat /\ \A j \in DOMAIN list : list[j] \in UserRec
  BY LenProperties, ElementOfSeq

LEMMA UserListIs ==
  ASSUME NEW list \in Seq(UserRec), NEW i, NEW e, i \in DOMAIN list => e \in UserRec,
         NEW new, new = [list EXCEPT ![i] = e]
  PROVE  /\ new \in Seq(UserRec) /\ DOMAIN new = DOMAIN list
         /\ \A j \in DOMAIN list : new[j] = IF j = i THEN e ELSE list[j]
<1>1. DOMAIN list = 1 .. Len(list) /\ Len(list) \in Nat /\ \A j \in DOMAIN list : list[j] \in UserRec
  BY UsersAre
<1>2. \A j \in DOMAIN list : new[j] = IF j = i THEN e ELSE list[j]
  BY <1>1
<1>3. DOMAIN new = DOMAIN list
  OBVIOUS
<1>4. new \in [1 .. Len(list) -> UserRec]
  BY <1>1, <1>2, <1>3
<1>5. new \in Seq(UserRec)
  BY <1>1, <1>4
<1> QED BY <1>2, <1>3, <1>5

LEMMA AppearsHolds ==
  ASSUME UsersInv, NEW name \in Users, NEW ch \in UserChannels, ChannelAppears(name, ch)
  PROVE  UsersInv'
<1> DEFINE list == IF PlaceOf(users, name) = 0 THEN Append(users, NewUser(name)) ELSE users
           i == PlaceOf(list, name)
<1>1. /\ UNCHANGED <<slots, locals, stranded, soloactive, updating, raced, cache, ui>>
      /\ users' = [list EXCEPT ![i].present = @ \union {ch}]
  BY DEF ChannelAppears, Info, Added
<1>2. users \in Seq(UserRec) /\ NewUser(name) \in UserRec /\ NewUser(name).solo = {}
  BY DEF UsersInv, NewUser, UserRec
<1>3. /\ list \in Seq(UserRec)
      /\ \A j \in DOMAIN users : j \in DOMAIN list /\ list[j] = users[j]
      /\ \A j \in DOMAIN list : j \notin DOMAIN users => list[j].solo = {}
  <2>1. CASE PlaceOf(users, name) # 0
    BY <1>2, <2>1
  <2>2. CASE PlaceOf(users, name) = 0
    <3> DEFINE c == NewUser(name)
    <3> HIDE DEF c
    <3>1. list = Append(users, c)
      BY <2>2 DEF c
    <3> HIDE DEF list
    <3>2. /\ list \in Seq(UserRec) /\ Len(list) = Len(users) + 1 /\ list[Len(users) + 1] = c
          /\ \A j \in 1 .. Len(users) : list[j] = users[j]
      BY <1>2, <3>1, AppendProperties DEF c
    <3>3. DOMAIN list = 1 .. Len(users) + 1 /\ DOMAIN users = 1 .. Len(users) /\ Len(users) \in Nat
      BY <1>2, <3>2, LenProperties
    <3> QED BY <1>2, <3>2, <3>3 DEF c
  <2> QED BY <2>1, <2>2
<1> HIDE DEF list, i
<1> DEFINE e == [list[i] EXCEPT !.present = @ \union {ch}]
<1>4. i \in DOMAIN list => /\ e \in UserRec /\ e.name = list[i].name /\ e.solo = list[i].solo
  <2>1. i \in DOMAIN list => list[i] \in UserRec
    BY <1>3, UsersAre
  <2> QED BY <2>1 DEF UserRec
<1>5. users' = [list EXCEPT ![i] = e]
  BY <1>1
<1> HIDE DEF e
<1>6. /\ users' \in Seq(UserRec) /\ DOMAIN users' = DOMAIN list
      /\ \A j \in DOMAIN list : users'[j] = IF j = i THEN e ELSE list[j]
  BY <1>3, <1>4, <1>5, UserListIs
<1>7. \A j \in DOMAIN list : users'[j].name = list[j].name /\ users'[j].solo = list[j].solo
  BY <1>4, <1>6
<1>8. Stay(users') /\ (AnySolo(users') <=> AnySolo(users))
  BY <1>3, <1>6, <1>7 DEF Stay, AnySolo
<1>9. CacheOK' /\ UiOK'
  BY <1>1, <1>8, CacheStays, UiStays DEF UsersInv
<1>10. SoloOK'
  BY <1>1, <1>8 DEF UsersInv, SoloOK, Tells, SomeSolo
<1>11. LocalsInv'
  BY <1>1, LocalsUnchanged DEF UsersInv
<1> QED BY <1>6, <1>9, <1>10, <1>11 DEF UsersInv

LEMMA GoesHolds ==
  ASSUME UsersInv, NEW name \in Users, NEW ch \in UserChannels, ChannelGoes(name, ch)
  PROVE  UsersInv'
<1> DEFINE i == PlaceOf(users, name)
           user == users[i]
           gone == [user EXCEPT !.present = @ \ {ch}, !.solo = @ \ {ch}]
           leaves == gone.present = {}
<1>1. /\ UNCHANGED <<slots, locals, stranded, updating, raced>> /\ i # 0
      /\ users' = IF leaves THEN RemoveAt(users, i) ELSE [users EXCEPT ![i] = gone]
      /\ soloactive' = IF leaves \/ user.solo = {ch} THEN RemoteBit(users') ELSE soloactive
      /\ cache' = [cache EXCEPT !.left = @ \/ leaves]
      /\ ui' = IF ui = NoCall THEN ui ELSE [ui EXCEPT !.left = @ \/ leaves]
  BY DEF ChannelGoes, Info, ChecksSolo
<1>2. users \in Seq(UserRec) /\ i \in DOMAIN users
  BY <1>1, UserPlaceIs DEF UsersInv
<1>3. user \in UserRec
  BY <1>2, UsersAre
<1>4. gone \in UserRec /\ gone.name = user.name /\ gone.solo = user.solo \ {ch} /\ leaves \in BOOLEAN
  BY <1>3 DEF UserRec
<1>5. LocalsInv'
  BY <1>1, LocalsUnchanged DEF UsersInv
<1> HIDE DEF i, user, gone, leaves
<1>6. users' \in Seq(UserRec)
  <2>1. CASE leaves
    <3>1. Remains(users', users, i)
      BY <1>1, <2>1 DEF Remains
    <3> QED BY <1>2, <3>1, LeftIs
  <2>2. CASE ~leaves
    <3>1. users' = [users EXCEPT ![i] = gone]
      BY <1>1, <2>2
    <3> QED BY <1>2, <1>4, <3>1, UserListIs
  <2> QED BY <2>1, <2>2
<1>7. ~leaves => Stay(users')
  <2>1. SUFFICES ASSUME ~leaves PROVE Stay(users')
    OBVIOUS
  <2>2. users' = [users EXCEPT ![i] = gone]
    BY <1>1, <2>1
  <2>3. /\ DOMAIN users' = DOMAIN users
        /\ \A j \in DOMAIN users : users'[j] = IF j = i THEN gone ELSE users[j]
    BY <1>2, <1>4, <2>2, UserListIs
  <2> QED BY <1>4, <2>3 DEF Stay, user
<1>8. CacheOK'
  <2>1. cache \in [valid : BOOLEAN, names : Seq(Users), left : BOOLEAN]
    BY DEF UsersInv, CacheOK
  <2>2. /\ cache' \in [valid : BOOLEAN, names : Seq(Users), left : BOOLEAN]
        /\ cache'.valid = cache.valid /\ cache'.names = cache.names
        /\ cache'.left <=> (cache.left \/ leaves)
    BY <1>1, <1>4, <2>1
  <2>3. ASSUME cache'.valid, ~cache'.left PROVE AtTheirPlaces(cache'.names, users')
    <3>1. cache.valid /\ ~cache.left /\ ~leaves
      BY <2>2, <2>3
    <3>2. AtTheirPlaces(cache.names, users) /\ Stay(users')
      BY <1>7, <3>1 DEF UsersInv, CacheOK
    <3> QED BY <2>2, <3>2 DEF AtTheirPlaces, Stay
  <2> QED BY <2>2, <2>3 DEF CacheOK
<1>9. UiOK'
  <2>1. CASE ui = NoCall
    BY <1>1, <2>1 DEF UiOK
  <2>2. CASE ui # NoCall /\ ui \in LeaveRec
    <3>1. ui' = [ui EXCEPT !.left = @ \/ leaves]
      BY <1>1, <2>2
    <3>2. ui' \in LeaveRec
      BY <1>4, <2>2, <3>1 DEF LeaveRec
    <3> QED BY <3>2 DEF UiOK
  <2>3. CASE ui # NoCall /\ ui \in CallRec /\ (~ui.left => ui.at \in DOMAIN users /\ users[ui.at].name = ui.name)
    <3>1. ui' = [ui EXCEPT !.left = @ \/ leaves]
      BY <1>1, <2>3
    <3>2. ui' \in CallRec /\ ui'.at = ui.at /\ ui'.name = ui.name /\ (ui'.left <=> (ui.left \/ leaves))
      BY <1>4, <2>3, <3>1 DEF CallRec
    <3>3. ~ui'.left => ui'.at \in DOMAIN users' /\ users'[ui'.at].name = ui'.name
      BY <1>7, <2>3, <3>2 DEF Stay
    <3> QED BY <3>2, <3>3 DEF UiOK
  <2> QED BY <2>1, <2>2, <2>3 DEF UsersInv, UiOK
<1>10. SoloOK'
  <2>1. /\ soloactive \subseteq Bits /\ (updating = Quiet \/ updating \in [on : {TRUE}, read : SUBSET Bits])
        /\ ~raced => /\ Tells("remote", AnySolo(users))
                     /\ updating = Quiet => Tells("local", SomeSolo)
    BY DEF UsersInv, SoloOK
  <2>2. CASE leaves \/ user.solo = {ch}
    <3>1. soloactive' = (soloactive \ {"remote"}) \union (IF AnySolo(users') THEN {"remote"} ELSE {})
      BY <1>1, <2>2 DEF RemoteBit
    <3>2. /\ soloactive' \subseteq Bits /\ ("remote" \in soloactive' <=> AnySolo(users'))
          /\ ("local" \in soloactive' <=> "local" \in soloactive)
      BY <2>1, <3>1 DEF Bits
    <3> QED BY <1>1, <2>1, <3>2 DEF SoloOK, Tells, SomeSolo
  <2>3. CASE ~(leaves \/ user.solo = {ch})
    <3>1. soloactive' = soloactive /\ users' = [users EXCEPT ![i] = gone]
      BY <1>1, <2>3
    <3>2. /\ DOMAIN users' = DOMAIN users
          /\ \A j \in DOMAIN users : users'[j] = IF j = i THEN gone ELSE users[j]
      BY <1>2, <1>4, <3>1, UserListIs
    <3>3. gone.solo = {} <=> users[i].solo = {}
      BY <1>4, <2>3 DEF user
    <3>4. AnySolo(users') <=> AnySolo(users)
      BY <1>2, <3>2, <3>3 DEF AnySolo
    <3> QED BY <1>1, <2>1, <3>1, <3>4 DEF SoloOK, Tells, SomeSolo
  <2> QED BY <2>2, <2>3
<1> QED BY <1>5, <1>6, <1>8, <1>9, <1>10 DEF UsersInv

LEMMA FilledIs ==
  ASSUME UsersInv
  PROVE  /\ Filled \in [valid : {TRUE}, names : Seq(Users), left : BOOLEAN]
         /\ ~Filled.left => AtTheirPlaces(Filled.names, users)
<1>1. /\ cache \in [valid : BOOLEAN, names : Seq(Users), left : BOOLEAN] /\ users \in Seq(UserRec)
      /\ cache.valid /\ ~cache.left => AtTheirPlaces(cache.names, users)
  BY DEF UsersInv, CacheOK
<1>2. CASE cache.valid
  <2>1. Filled = cache
    BY <1>2 DEF Filled
  <2> QED BY <1>1, <1>2, <2>1
<1>3. CASE ~cache.valid
  <2> DEFINE names == IF connected THEN [i \in DOMAIN users |-> users[i].name] ELSE << >>
  <2>1. Filled = [valid |-> TRUE, left |-> FALSE, names |-> names]
    BY <1>3 DEF Filled
  <2>2. CASE connected
    <3>1. names = [i \in DOMAIN users |-> users[i].name]
      BY <2>2
    <3>2. DOMAIN users = 1 .. Len(users) /\ Len(users) \in Nat /\ \A j \in DOMAIN users : users[j].name \in Users
      BY <1>1, UsersAre DEF UserRec
    <3> HIDE DEF names
    <3>3. names \in [1 .. Len(users) -> Users]
      BY <3>1, <3>2
    <3>4. names \in Seq(Users) /\ AtTheirPlaces(names, users)
      BY <3>1, <3>2, <3>3 DEF AtTheirPlaces
    <3> QED BY <2>1, <3>4
  <2>3. CASE ~connected
    <3>1. names = << >>
      BY <2>3
    <3> HIDE DEF names
    <3>2. names \in Seq(Users) /\ AtTheirPlaces(names, users)
      BY <3>1, NoSlots DEF AtTheirPlaces
    <3> QED BY <2>1, <3>2
  <2> QED BY <2>2, <2>3
<1> QED BY <1>2, <1>3

(* What leaves the channels, the users and the mix alone.                  *)
LEMMA NotMixed ==
  ASSUME UsersInv, UNCHANGED <<localVars, users>>, CacheOK', UiOK'
  PROVE  UsersInv'
<1>1. LocalsInv'
  BY LocalsUnchanged DEF UsersInv, localVars
<1>2. SoloOK' /\ users' \in Seq(UserRec)
  BY DEF UsersInv, SoloOK, Tells, SomeSolo, AnySolo, localVars
<1> QED BY <1>1, <1>2 DEF UsersInv

LEMMA CachingHolds ==
  ASSUME UsersInv, GetPeaks \/ InvalidateCache
  PROVE  UsersInv'
<1>1. UNCHANGED <<localVars, users, ui>> /\ (cache' = Filled \/ cache' = NoCache)
  BY DEF GetPeaks, InvalidateCache
<1>2. CacheOK'
  <2>1. CASE cache' = Filled
    <3>1. /\ cache' \in [valid : {TRUE}, names : Seq(Users), left : BOOLEAN]
          /\ ~cache'.left => AtTheirPlaces(cache'.names, users)
      BY <2>1, FilledIs
    <3> QED BY <1>1, <3>1 DEF CacheOK, AtTheirPlaces
  <2>2. CASE cache' = NoCache
    BY <2>2 DEF CacheOK, NoCache
  <2> QED BY <1>1, <2>1, <2>2
<1>3. UiOK'
  BY <1>1 DEF UsersInv, UiOK
<1> QED BY <1>1, <1>2, <1>3, NotMixed

LEMMA LookupHolds ==
  ASSUME UsersInv, NEW name \in Users, NEW ch \in UserChannels, NEW what \in {"mute", "solo"},
         NEW on \in BOOLEAN, Lookup(name, ch, what, on)
  PROVE  UsersInv'
<1> DEFINE i == SelectInSeq(cache'.names, LAMBDA n : n = name)
<1>1. /\ UNCHANGED <<localVars, users>> /\ cache' = Filled
      /\ ui' = IF i = 0 \/ ~connected THEN NoCall
               ELSE [step |-> "call", name |-> name, at |-> i, ch |-> ch, what |-> what, on |-> on,
                     left |-> cache'.left]
  BY DEF Lookup
<1>2. /\ cache' \in [valid : {TRUE}, names : Seq(Users), left : BOOLEAN]
      /\ ~cache'.left => AtTheirPlaces(cache'.names, users)
  BY <1>1, FilledIs
<1>3. CacheOK'
  BY <1>1, <1>2 DEF CacheOK, AtTheirPlaces
<1>4. i = 0 \/ (i \in DOMAIN cache'.names /\ cache'.names[i] = name)
  BY <1>2, NamePlaceIs
<1>5. DOMAIN cache'.names \subseteq Nat
  <2>1. DOMAIN cache'.names = 1 .. Len(cache'.names)
    BY <1>2, LenProperties
  <2> QED BY <2>1
<1> HIDE DEF i
<1>6. UiOK'
  <2>1. CASE i = 0 \/ ~connected
    BY <1>1, <2>1 DEF UiOK
  <2>2. CASE ~(i = 0 \/ ~connected)
    <3>1. ui' = [step |-> "call", name |-> name, at |-> i, ch |-> ch, what |-> what, on |-> on,
                 left |-> cache'.left]
      BY <1>1, <2>2
    <3>2. i \in DOMAIN cache'.names /\ cache'.names[i] = name
      BY <1>4, <2>2
    <3>3. ui' \in CallRec /\ ui'.at = i /\ ui'.name = name /\ ui'.left = cache'.left
      BY <1>2, <1>5, <3>1, <3>2 DEF CallRec
    <3>4. ~ui'.left => ui'.at \in DOMAIN users' /\ users'[ui'.at].name = ui'.name
      BY <1>1, <1>2, <3>2, <3>3 DEF AtTheirPlaces
    <3> QED BY <3>3, <3>4 DEF UiOK
  <2> QED BY <2>1, <2>2
<1> QED BY <1>1, <1>3, <1>6, NotMixed

LEMMA LookupFreshHolds ==
  ASSUME UsersInv, NEW name \in Users, LookupFresh(name)
  PROVE  UsersInv'
<1> DEFINE i == PlaceOf(users, name)
<1>1. /\ UNCHANGED <<localVars, users, cache>>
      /\ ui' = IF i = 0 \/ ~connected THEN NoCall
               ELSE [step |-> "call", name |-> name, at |-> i, ch |-> 0, what |-> "volume", on |-> TRUE,
                     left |-> FALSE]
  BY DEF LookupFresh
<1>2. i = 0 \/ (i \in DOMAIN users /\ users[i].name = name)
  BY UserPlaceIs DEF UsersInv
<1>3. DOMAIN users \subseteq Nat
  <2>1. DOMAIN users = 1 .. Len(users)
    BY UsersAre DEF UsersInv
  <2> QED BY <2>1
<1> HIDE DEF i
<1>4. CacheOK'
  BY <1>1 DEF UsersInv, CacheOK, AtTheirPlaces
<1>5. UiOK'
  <2>1. CASE i = 0 \/ ~connected
    BY <1>1, <2>1 DEF UiOK
  <2>2. CASE ~(i = 0 \/ ~connected)
    <3>1. ui' = [step |-> "call", name |-> name, at |-> i, ch |-> 0, what |-> "volume", on |-> TRUE,
                 left |-> FALSE]
      BY <1>1, <2>2
    <3>2. i \in DOMAIN users /\ users[i].name = name
      BY <1>2, <2>2
    <3>3. ui' \in CallRec /\ ui'.at = i /\ ui'.name = name
      BY <1>3, <3>1, <3>2 DEF CallRec
    <3> QED BY <1>1, <3>2, <3>3 DEF UiOK
  <2> QED BY <2>1, <2>2
<1> QED BY <1>1, <1>4, <1>5, NotMixed

LEMMA StateHolds ==
  ASSUME UsersInv, SetUserChannelState
  PROVE  UsersInv'
<1>1. /\ ui.step = "call" /\ ui' = NoCall
      /\ UNCHANGED <<slots, locals, updating, raced, stranded, cache>>
  BY DEF SetUserChannelState
<1>2. LocalsInv' /\ UiOK'
  BY <1>1, LocalsUnchanged DEF UsersInv, UiOK
<1>3. /\ users \in Seq(UserRec) /\ soloactive \subseteq Bits
      /\ updating = Quiet \/ updating \in [on : {TRUE}, read : SUBSET Bits]
      /\ ~raced => /\ Tells("remote", AnySolo(users))
                   /\ updating = Quiet => Tells("local", SomeSolo)
  BY DEF UsersInv, SoloOK
<1>4. CASE ui.at \notin DOMAIN users \/ ui.ch \notin users[ui.at].present
  <2>1. users' = users /\ soloactive' = soloactive
    BY <1>4 DEF SetUserChannelState
  <2>2. CacheOK' /\ SoloOK'
    BY <1>1, <2>1 DEF UsersInv, CacheOK, AtTheirPlaces, SoloOK, Tells, AnySolo, SomeSolo
  <2> QED BY <1>2, <1>3, <2>1, <2>2 DEF UsersInv
<1>5. CASE ~(ui.at \notin DOMAIN users \/ ui.ch \notin users[ui.at].present)
  <2> DEFINE user == users[ui.at]
             now == CASE ui.what = "mute" -> [user EXCEPT !.muted = Switched(@, ui.ch, ui.on)]
                      [] ui.what = "solo" -> [user EXCEPT !.solo = Switched(@, ui.ch, ui.on)]
                      [] OTHER            -> user
  <2>1. /\ users' = [users EXCEPT ![ui.at] = now]
        /\ soloactive' = IF ui.what = "solo" THEN RemoteBit(users') ELSE soloactive
    BY <1>5 DEF SetUserChannelState
  <2>2. user \in UserRec /\ ui.ch \in UserChannels
    <3>1. user \in UserRec
      BY <1>3, <1>5, UsersAre
    <3> QED BY <1>5, <3>1 DEF UserRec
  <2>3. ASSUME NEW mask \in SUBSET UserChannels PROVE Switched(mask, ui.ch, ui.on) \in SUBSET UserChannels
    BY <2>2 DEF Switched
  <2>4. now \in UserRec /\ now.name = user.name /\ (ui.what # "solo" => now.solo = user.solo)
    <3>1. CASE ui.what = "mute"
      <4>1. now = [user EXCEPT !.muted = Switched(@, ui.ch, ui.on)]
        BY <3>1
      <4>2. Switched(user.muted, ui.ch, ui.on) \in SUBSET UserChannels
        BY <2>2, <2>3 DEF UserRec
      <4> HIDE DEF now, user
      <4> QED BY <2>2, <4>1, <4>2 DEF UserRec
    <3>2. CASE ui.what = "solo"
      <4>1. now = [user EXCEPT !.solo = Switched(@, ui.ch, ui.on)]
        BY <3>2
      <4>2. Switched(user.solo, ui.ch, ui.on) \in SUBSET UserChannels
        BY <2>2, <2>3 DEF UserRec
      <4> HIDE DEF now, user
      <4> QED BY <2>2, <3>2, <4>1, <4>2 DEF UserRec
    <3>3. CASE ui.what \notin {"mute", "solo"}
      BY <2>2, <3>3
    <3> QED BY <3>1, <3>2, <3>3
  <2> DEFINE p == ui.at
  <2>9. users' = [users EXCEPT ![p] = now] /\ p \in DOMAIN users
    BY <1>5, <2>1
  <2> HIDE DEF now, p
  <2>10. /\ users' \in Seq(UserRec) /\ DOMAIN users' = DOMAIN users
        /\ \A j \in DOMAIN users : users'[j] = IF j = p THEN now ELSE users[j]
    BY <1>3, <2>4, <2>9, UserListIs
  <2>5. /\ users' \in Seq(UserRec) /\ DOMAIN users' = DOMAIN users
        /\ \A j \in DOMAIN users : users'[j] = IF j = ui.at THEN now ELSE users[j]
    BY <2>10 DEF p
  <2>6. Stay(users')
    BY <2>4, <2>5 DEF Stay
  <2>7. CacheOK'
    BY <1>1, <2>6, CacheStays DEF UsersInv
  <2>8. SoloOK'
    <3>1. CASE ui.what = "solo"
      <4>1. soloactive' = (soloactive \ {"remote"}) \union (IF AnySolo(users') THEN {"remote"} ELSE {})
        BY <2>1, <3>1 DEF RemoteBit
      <4>2. /\ soloactive' \subseteq Bits /\ ("remote" \in soloactive' <=> AnySolo(users'))
            /\ ("local" \in soloactive' <=> "local" \in soloactive)
        BY <1>3, <4>1 DEF Bits
      <4> QED BY <1>1, <1>3, <4>2 DEF SoloOK, Tells, SomeSolo
    <3>2. CASE ui.what # "solo"
      <4>1. soloactive' = soloactive
        BY <2>1, <3>2
      <4>2. AnySolo(users') <=> AnySolo(users)
        BY <2>4, <2>5, <3>2 DEF AnySolo
      <4> QED BY <1>1, <1>3, <4>1, <4>2 DEF SoloOK, Tells, SomeSolo
    <3> QED BY <3>1, <3>2
  <2> QED BY <1>2, <2>5, <2>7, <2>8 DEF UsersInv
<1> QED BY <1>4, <1>5

(* What is done to the channels here leaves the users alone.               *)
LEMMA TableStays ==
  ASSUME UsersInv, UNCHANGED tableVars, LocalsInv', SoloOK'
  PROVE  UsersInv'
  BY DEF UsersInv, tableVars, CacheOK, AtTheirPlaces, UiOK

LEMMA LocalCallHolds ==
  ASSUME UsersInv, LocalCall
  PROVE  UsersInv'
<1>1. UNCHANGED tableVars /\ users' = users /\ LocalsInv /\ users \in Seq(UserRec)
  BY DEF LocalCall, tableVars, UsersInv
<1>2. /\ soloactive \subseteq Bits
      /\ updating = Quiet \/ updating \in [on : {TRUE}, read : SUBSET Bits]
      /\ ~raced => /\ Tells("remote", AnySolo(users))
                   /\ updating = Quiet => Tells("local", SomeSolo)
  BY DEF UsersInv, SoloOK
<1>3. AnySolo(users') <=> AnySolo(users)
  BY <1>1 DEF AnySolo
<1>4. ASSUME NEW id \in Ids, SetLocalChannelInfo(id) \/ SetVideoChannel(id) PROVE UsersInv'
  <2>1. UNCHANGED <<soloactive, updating, raced>> /\ slots' = With(id)
        /\ (locals' = locals \/ locals' = Having(id, slots'[id]))
    BY <1>4 DEF SetLocalChannelInfo, SetVideoChannel
  <2>2. SomeSolo' <=> SomeSolo
    <3>1. CASE locals' = locals
      BY <3>1 DEF SomeSolo
    <3>2. CASE locals' = Having(id, slots'[id])
      <4> DEFINE list == Having(id, slots'[id])
      <4> HIDE DEF list
      <4>1. list = Having(id, slots'[id])
        BY DEF list
      <4>2. (\E i \in DOMAIN list : list[i].solo) <=> SomeSolo
        BY <1>1, <2>1, <4>1, Joined
      <4>3. locals' = list
        BY <3>2 DEF list
      <4> QED BY <4>2, <4>3 DEF SomeSolo
    <3> QED BY <2>1, <3>1, <3>2
  <2>3. SoloOK'
    BY <1>2, <1>3, <2>1, <2>2 DEF SoloOK, Tells
  <2>4. LocalsInv'
    BY <1>1, <1>4, NamedHolds
  <2> QED BY <1>1, <2>3, <2>4, TableStays
<1>5. ASSUME NEW id \in Ids, RemoveLocalChannel(id) PROVE UsersInv'
  <2> DEFINE slot == IF id \in DOMAIN slots THEN slots[id] ELSE id
             i == Place(locals, slot)
  <2>1. /\ UNCHANGED <<soloactive, raced>> /\ updating = Quiet
        /\ locals' = IF i = 0 THEN locals ELSE RemoveAt(locals, i)
        /\ updating' = IF i # 0 /\ locals[i].solo THEN [on |-> TRUE, read |-> soloactive] ELSE Quiet
    BY <1>5 DEF RemoveLocalChannel, Call
  <2>2. locals \in Seq(LocalRec)
    BY <1>1 DEF LocalsInv
  <2>3. i = 0 \/ i \in DOMAIN locals
    BY <2>2, PlaceIs
  <2> HIDE DEF i
  <2>4. SoloOK'
    <3>1. CASE i # 0 /\ locals[i].solo
      <4>1. updating' = [on |-> TRUE, read |-> soloactive]
        BY <2>1, <3>1
      <4>2. updating' \in [on : {TRUE}, read : SUBSET Bits] /\ updating' # Quiet
        BY <1>2, <4>1 DEF Quiet
      <4> QED BY <1>2, <1>3, <2>1, <4>2 DEF SoloOK, Tells
    <3>2. CASE ~(i # 0 /\ locals[i].solo)
      <4>1. updating' = Quiet
        BY <2>1, <3>2
      <4>2. SomeSolo' <=> SomeSolo
        <5>1. CASE i = 0
          BY <2>1, <5>1 DEF SomeSolo
        <5>2. CASE i # 0
          <6>1. i \in DOMAIN locals /\ ~locals[i].solo
            BY <2>3, <3>2, <5>2
          <6>2. Remains(locals', locals, i)
            BY <2>1, <5>2 DEF Remains
          <6>3. \A k \in DOMAIN locals : k # i => \E j \in DOMAIN locals' : locals'[j] = locals[k]
            BY <2>2, <6>1, <6>2, LeftIs
          <6>7. \E f \in [DOMAIN locals' -> DOMAIN locals] :
                     /\ \A j \in DOMAIN locals' : locals'[j] = locals[f[j]] /\ f[j] # i
                     /\ \A j, k \in DOMAIN locals' : f[j] = f[k] => j = k
            BY <2>2, <6>1, <6>2, LeftIs
          <6>4. PICK f \in [DOMAIN locals' -> DOMAIN locals] :
                  \A j \in DOMAIN locals' : locals'[j] = locals[f[j]] /\ f[j] # i
            BY <6>7
          <6>5. ASSUME SomeSolo' PROVE SomeSolo
            <7>1. PICK j \in DOMAIN locals' : locals'[j].solo
              BY <6>5 DEF SomeSolo
            <7>2. f[j] \in DOMAIN locals /\ locals[f[j]].solo
              BY <6>4, <7>1
            <7> QED BY <7>2 DEF SomeSolo
          <6>6. ASSUME SomeSolo PROVE SomeSolo'
            <7>1. PICK k \in DOMAIN locals : locals[k].solo
              BY <6>6 DEF SomeSolo
            <7>2. PICK j \in DOMAIN locals' : locals'[j] = locals[k]
              BY <6>1, <6>3, <7>1
            <7> QED BY <7>1, <7>2 DEF SomeSolo
          <6> QED BY <6>5, <6>6
        <5> QED BY <5>1, <5>2
      <4> QED BY <1>2, <1>3, <2>1, <4>1, <4>2 DEF SoloOK, Tells
    <3> QED BY <3>1, <3>2
  <2>5. LocalsInv'
    BY <1>1, <1>5, RemoveHolds
  <2> QED BY <1>1, <2>4, <2>5, TableStays
<1>6. ASSUME NEW id \in Ids, NEW mute \in BOOLEAN, NEW solo \in BOOLEAN,
             SetLocalChannelMonitoring(id, mute, solo)
      PROVE  UsersInv'
  <2>1. UNCHANGED <<soloactive, raced>> /\ updating' = [on |-> TRUE, read |-> soloactive]
    BY <1>6 DEF SetLocalChannelMonitoring
  <2>2. updating' \in [on : {TRUE}, read : SUBSET Bits] /\ updating' # Quiet
    BY <1>2, <2>1 DEF Quiet
  <2>3. SoloOK'
    BY <1>2, <1>3, <2>1, <2>2 DEF SoloOK, Tells
  <2>4. LocalsInv'
    BY <1>1, <1>6, MonitoringHolds
  <2> QED BY <1>1, <2>3, <2>4, TableStays
<1>7. CASE UpdateSolo
  <2>1. /\ UNCHANGED <<slots, locals, stranded>> /\ updating.on /\ updating' = Quiet
        /\ soloactive' \in {LocalBit(soloactive), LocalBit(updating.read), soloactive}
        /\ (~raced' => ~raced /\ soloactive' = LocalBit(soloactive))
    <3>1. /\ UNCHANGED <<slots, locals, stranded>> /\ updating.on /\ updating' = Quiet
          /\ raced' = (raced \/ soloactive' # LocalBit(soloactive))
          /\ soloactive' \in {LocalBit(soloactive), LocalBit(updating.read)}
                            \union (IF updating.read = soloactive THEN {} ELSE {soloactive})
      BY <1>7 DEF UpdateSolo
    <3>2. ~raced' => ~raced /\ soloactive' = LocalBit(soloactive)
      BY <3>1, Zenon
    <3>3. soloactive' \in {LocalBit(soloactive), LocalBit(updating.read), soloactive}
      BY <3>1
    <3> QED BY <3>1, <3>2, <3>3
  <2>2. updating.read \subseteq Bits
    <3>1. updating # Quiet
      BY <2>1 DEF Quiet
    <3> QED BY <1>2, <3>1
  <2>3. soloactive' \subseteq Bits
    BY <1>2, <2>1, <2>2 DEF LocalBit, Bits
  <2>4. SomeSolo' <=> SomeSolo
    BY <2>1 DEF SomeSolo
  <2>5. ~raced' => Tells("remote", AnySolo(users))' /\ Tells("local", SomeSolo)'
    BY <1>2, <1>3, <2>1, <2>4 DEF Tells, LocalBit
  <2>6. SoloOK'
    BY <2>1, <2>3, <2>5 DEF SoloOK, Tells
  <2>7. LocalsInv'
    BY <1>1, <2>1, LocalsUnchanged
  <2> QED BY <1>1, <2>6, <2>7, TableStays
<1> QED BY <1>4, <1>5, <1>6, <1>7 DEF LocalCall

LEMMA LeaveHolds ==
  ASSUME UsersInv, NEW goal \in {"connect", "disconnect"}, Leave(goal)
  PROVE  UsersInv'
<1>1. /\ UNCHANGED <<localVars, users>> /\ cache' = NoCache
      /\ ui' = [step |-> goal, left |-> FALSE]
  BY DEF Leave
<1>2. CacheOK'
  BY <1>1 DEF CacheOK, NoCache
<1>3. ui' \in LeaveRec
  BY <1>1 DEF LeaveRec
<1>4. UiOK'
  BY <1>3 DEF UiOK
<1> QED BY <1>1, <1>2, <1>4, NotMixed

LEMMA EndSessionHolds ==
  ASSUME UsersInv, EndSession
  PROVE  UsersInv'
<1>1. /\ Connect \/ Disconnect
      /\ ui' = NoCall /\ users' = << >> /\ cache' = [cache EXCEPT !.left = @ \/ users # << >>]
  BY DEF EndSession
<1>2. /\ updating = Quiet /\ updating' = updating /\ raced' = raced /\ soloactive' = soloactive \ {"remote"}
      /\ locals' = [i \in DOMAIN locals |-> [locals[i] EXCEPT !.idx = i - 1]]
  BY <1>1 DEF Connect, Disconnect, Call, Reinit, Renumbered
<1>3. DOMAIN users' = {} /\ users' \in Seq(UserRec) /\ ~AnySolo(users')
  BY <1>1, NoSlots DEF AnySolo
<1>4. LocalsInv' /\ UiOK'
  BY <1>1, ReinitHolds DEF UsersInv, UiOK
<1>5. CacheOK'
  <2>1. /\ cache \in [valid : BOOLEAN, names : Seq(Users), left : BOOLEAN]
        /\ cache.valid /\ ~cache.left => AtTheirPlaces(cache.names, users)
    BY DEF UsersInv, CacheOK
  <2>2. /\ cache' \in [valid : BOOLEAN, names : Seq(Users), left : BOOLEAN]
        /\ cache'.valid = cache.valid /\ cache'.names = cache.names
        /\ cache'.left <=> (cache.left \/ users # << >>)
    <3> DEFINE gone == cache.left \/ users # << >>
    <3>1. gone \in BOOLEAN
      OBVIOUS
    <3>2. cache' = [cache EXCEPT !.left = gone]
      BY <1>1
    <3> HIDE DEF gone
    <3>3. /\ cache' \in [valid : BOOLEAN, names : Seq(Users), left : BOOLEAN]
          /\ cache'.valid = cache.valid /\ cache'.names = cache.names /\ cache'.left = gone
      BY <2>1, <3>1, <3>2
    <3> QED BY <3>3 DEF gone
  <2>3. ASSUME cache'.valid, ~cache'.left PROVE AtTheirPlaces(cache'.names, users')
    <3>1. users = << >> /\ AtTheirPlaces(cache.names, users)
      BY <2>1, <2>2, <2>3
    <3>2. users' = users /\ cache'.names = cache.names
      BY <1>1, <2>2, <3>1
    <3> QED BY <3>1, <3>2 DEF AtTheirPlaces
  <2> QED BY <2>2, <2>3 DEF CacheOK
<1>6. SomeSolo' <=> SomeSolo
  <2>1. /\ DOMAIN locals' = DOMAIN locals
        /\ \A i \in DOMAIN locals : locals'[i].solo = locals[i].solo
    <3>1. locals \in Seq(LocalRec)
      BY DEF UsersInv, LocalsInv
    <3>2. \A i \in DOMAIN locals : locals[i] \in LocalRec
      BY <3>1, ElementOfSeq, LenProperties
    <3>3. \A i \in DOMAIN locals : locals'[i] = [locals[i] EXCEPT !.idx = i - 1]
      BY <1>2
    <3>4. DOMAIN locals' = DOMAIN locals
      BY <1>2
    <3>5. \A i \in DOMAIN locals : locals'[i].solo = locals[i].solo
      BY <3>2, <3>3 DEF LocalRec
    <3> QED BY <3>4, <3>5
  <2> QED BY <2>1 DEF SomeSolo
<1>7. SoloOK'
  BY <1>2, <1>3, <1>6 DEF UsersInv, SoloOK, Tells, Bits
<1> QED BY <1>3, <1>4, <1>5, <1>7 DEF UsersInv

LEMMA UsersStep == UsersInv /\ [UsersNext]_userVars => UsersInv'
<1>1. SUFFICES ASSUME UsersInv, [UsersNext]_userVars PROVE UsersInv'
  OBVIOUS
<1>2. CASE UNCHANGED userVars
  <2>1. UNCHANGED <<localVars, users, cache, ui>>
    BY <1>2 DEF userVars, tableVars
  <2>2. CacheOK' /\ UiOK'
    BY <1>1, <2>1 DEF UsersInv, CacheOK, AtTheirPlaces, UiOK
  <2> QED BY <1>1, <2>1, <2>2, NotMixed
<1>3. ASSUME NEW u \in Users, NEW ch \in UserChannels, ChannelAppears(u, ch) PROVE UsersInv'
  BY <1>1, <1>3, AppearsHolds
<1>4. ASSUME NEW u \in Users, NEW ch \in UserChannels, ChannelGoes(u, ch) PROVE UsersInv'
  BY <1>1, <1>4, GoesHolds
<1>5. CASE GetPeaks \/ InvalidateCache
  BY <1>1, <1>5, CachingHolds
<1>6. ASSUME NEW u \in Users, NEW ch \in UserChannels, NEW what \in {"mute", "solo"}, NEW on \in BOOLEAN,
             Lookup(u, ch, what, on)
      PROVE  UsersInv'
  BY <1>1, <1>6, LookupHolds
<1>7. ASSUME NEW u \in Users, LookupFresh(u) PROVE UsersInv'
  BY <1>1, <1>7, LookupFreshHolds
<1>8. CASE SetUserChannelState
  BY <1>1, <1>8, StateHolds
<1>9. CASE LocalCall
  BY <1>1, <1>9, LocalCallHolds
<1>10. CASE Leave("connect") \/ Leave("disconnect")
  BY <1>1, <1>10, LeaveHolds
<1>11. CASE EndSession
  BY <1>1, <1>11, EndSessionHolds
<1> QED BY <1>1, <1>2, <1>3, <1>4, <1>5, <1>6, <1>7, <1>8, <1>9, <1>10, <1>11 DEF UsersNext

LEMMA AlwaysUsersInv == UsersSpec => []UsersInv
  BY UsersInitially, UsersStep, PTL DEF UsersSpec

(* A call that names a user acts on that user, whoever comes and whatever  *)
(* is cached, unless somebody has left since the list was read.            *)
THEOREM CallsReachUsers == UsersSpec => []CallReachesUser
<1>1. UsersInv => CallReachesUser
  <2>1. SUFFICES ASSUME UsersInv, ui.step = "call", ~ui.left PROVE users[ui.at].name = ui.name
    BY DEF CallReachesUser
  <2>2. ui \notin LeaveRec /\ ui # NoCall
    BY <2>1 DEF LeaveRec, NoCall
  <2> QED BY <2>1, <2>2 DEF UsersInv, UiOK
<1> QED BY <1>1, AlwaysUsersInv, PTL

(* Exactly those are heard who are to be: the soloed while there are any,  *)
(* here or there, and otherwise all that are not muted, unless an update of*)
(* m_issoloactive was lost.                                                *)
THEOREM SolosAreHeard == UsersSpec => []SoloIsHeard
<1>1. UsersInv => SoloIsHeard
  <2>1. SUFFICES ASSUME UsersInv, ~raced, updating = Quiet PROVE SoloIsHeard
    BY DEF SoloIsHeard
  <2> DEFINE solo == AnySolo(users) \/ SomeSolo
  <2>2. soloactive = {} <=> ~solo
    BY <2>1 DEF UsersInv, SoloOK, Tells, Bits
  <2>3. ASSUME NEW i \in DOMAIN users, NEW ch \in users[i].present
        PROVE  UserHeard(users[i], ch) <=> IF solo THEN ch \in users[i].solo ELSE ch \notin users[i].muted
    <3> HIDE DEF solo
    <3> QED BY <2>2 DEF UserHeard
  <2>4. ASSUME NEW i \in DOMAIN locals
        PROVE  LocalHeard(locals[i]) <=> IF solo THEN locals[i].solo ELSE ~locals[i].muted
    <3>1. ~solo => ~locals[i].solo
      BY DEF SomeSolo
    <3> HIDE DEF solo
    <3> QED BY <2>2, <3>1, Zenon DEF LocalHeard
  <2> QED BY <2>3, <2>4 DEF SoloIsHeard
<1> QED BY <1>1, AlwaysUsersInv, PTL
-----------------------------------------------------------------------------
(***************************************************************************)
(* A block is mixed once (MixedOnce), for any hardware, mix, block sizes,  *)
(* rates and interval length, and any number of blocks.                    *)
(*                                                                         *)
(* A block is carried through the audio thread's phases (MixInv): silent   *)
(* between the staging and the mixing, then mixed up to piece.done and     *)
(* silent from there on, and the same of what the hardware was given.  That*)
(* a remote channel's frames are where one long piece would have read them *)
(* rests on the reader: what it has taken and the fraction it keeps are,   *)
(* together, the position in the interval (MixTypes).                      *)
(***************************************************************************)
(* A sound in its place on output c at frame f, which is at pos in the     *)
(* interval, and of this block; loose, that channel had been muted.        *)
Placed(s, c, f, pos, loose, number) ==
  CASE s.who[1] = "click"  -> s.scaled = 0 /\ s.from = f
    [] s.who[1] = "remote" -> /\ s.scaled = IF c < 2 THEN 1 ELSE 0
                              /\ pos >= 0 /\ ~loose => s.from = (SourceRate * pos) \div OutputRate
    [] OTHER -> s.scaled = (IF c < 2 THEN 1 ELSE 0) /\ s.from = f /\ s.block = number

Fine(b, c, f, pos, loose, number) ==
  \A s \in DOMAIN b : b[s] = 1 /\ Placed(s, c, f, pos, loose, number)

WhosIn(S) == {s.who : s \in S}

(* Who is to be heard on an output of port p with the settings m.          *)
InputWho(p, l, c) == IF c < InsOf(p) THEN {<<l.name, c>>} ELSE {}
RightOf(p, l) == IF l.wide /\ l.src < InsOf(p) /\ l.src + 1 < InsOf(p) THEN l.src + 1 ELSE l.src
LocalWho(p, l, c) == Sides(OutsOf(p), l, c, InputWho(p, l, l.src), InputWho(p, l, RightOf(p, l)))
RemoteWho(p, m, c) ==
  IF m.remote.active
    THEN Sides(OutsOf(p), m.remote, c, {<<"remote", "left">>},
               {<<"remote", IF m.remote.wide THEN "right" ELSE "left">>})
    ELSE {}
ClickWho(p, m, c) ==
  IF c < OutsOf(p) /\ (c = m.click.out \/ (c = m.click.out + 1 /\ ~m.click.mono))
    THEN {<<"click", c>>} ELSE {}
PlayingOf(m, begun) == {l \in m.locals : ~l.video /\ (begun => l.allowed) /\ l.active}
LocalsWho(p, m, begun, c) == UNION {LocalWho(p, l, c) : l \in PlayingOf(m, begun)}
Who(p, m, begun, c) ==
  LocalsWho(p, m, begun, c) \union IF begun THEN RemoteWho(p, m, c) \union ClickWho(p, m, c) ELSE {}
-----------------------------------------------------------------------------
LEMMA BagOfSet ==
  ASSUME NEW S
  PROVE  DOMAIN SetToBag(S) = S /\ \A e \in S : SetToBag(S)[e] = 1
BY DEF SetToBag

LEMMA NoBag == DOMAIN EmptyBag = {}
BY DEF EmptyBag, SetToBag

LEMMA Adding ==
  ASSUME NEW A, NEW S, DOMAIN A \intersect S = {}, \A e \in DOMAIN A : A[e] = 1
  PROVE  /\ DOMAIN (A (+) SetToBag(S)) = DOMAIN A \union S
         /\ \A e \in DOMAIN A \union S : (A (+) SetToBag(S))[e] = 1
<1> DEFINE B == SetToBag(S)
<1>1. DOMAIN B = S /\ \A e \in S : B[e] = 1
  BY BagOfSet
<1> HIDE DEF B
<1>2. A (+) B = [e \in DOMAIN A \union DOMAIN B |->
                  (IF e \in DOMAIN A THEN A[e] ELSE 0) + (IF e \in DOMAIN B THEN B[e] ELSE 0)]
  BY DEF (+)
<1>3. DOMAIN (A (+) B) = DOMAIN A \union S
  BY <1>1, <1>2
<1>4. ASSUME NEW e \in DOMAIN A \union S PROVE (A (+) B)[e] = 1
  <2>1. (A (+) B)[e] = (IF e \in DOMAIN A THEN A[e] ELSE 0) + (IF e \in S THEN B[e] ELSE 0)
    BY <1>1, <1>2
  <2>2. CASE e \in DOMAIN A
    <3>1. e \notin S /\ A[e] = 1
      BY <2>2
    <3>2. QED BY <2>1, <2>2, <3>1
  <2>3. CASE e \in S
    <3>1. e \notin DOMAIN A /\ B[e] = 1
      BY <1>1, <2>3
    <3>2. QED BY <2>1, <2>3, <3>1
  <2>4. QED BY <2>2, <2>3
<1>5. QED BY <1>3, <1>4 DEF B

(* A sound before the master.                                              *)
Dry(s) == /\ s = [who |-> s.who, from |-> s.from, block |-> s.block, scaled |-> s.scaled]
          /\ s.scaled = 0

LEMMA ScaledIs ==
  ASSUME NEW s, Dry(s)
  PROVE  /\ Scaled(s).who = s.who /\ Scaled(s).from = s.from /\ Scaled(s).block = s.block
         /\ Scaled(s).scaled = 1 /\ Unscaled(Scaled(s)) = s
<1>1. PICK w, f, b : s = [who |-> w, from |-> f, block |-> b, scaled |-> 0]
  BY DEF Dry
<1>2. Scaled(s) = [who |-> w, from |-> f, block |-> b, scaled |-> 1]
  BY <1>1 DEF Scaled
<1>3. Unscaled(Scaled(s)) = [who |-> w, from |-> f, block |-> b, scaled |-> 0]
  BY <1>2 DEF Unscaled
<1>4. QED BY <1>1, <1>2, <1>3

LEMMA MasteredIs ==
  ASSUME NEW c, NEW b, \A s \in DOMAIN b : Dry(s) /\ b[s] = 1
  PROVE  /\ \A e \in DOMAIN Mastered(c, b) :
              /\ Mastered(c, b)[e] = 1
              /\ \E s \in DOMAIN b :
                   /\ e.who = s.who /\ e.from = s.from /\ e.block = s.block
                   /\ e.scaled = IF c < 2 THEN 1 ELSE 0
         /\ WhosIn(DOMAIN Mastered(c, b)) = WhosIn(DOMAIN b)
<1>1. CASE c < 2
  <2> DEFINE T == {Scaled(x) : x \in DOMAIN b}
             m == [s \in T |-> b[Unscaled(s)]]
  <2>1. Mastered(c, b) = m
    BY <1>1 DEF Mastered
  <2>2. DOMAIN m = T
    OBVIOUS
  <2>3. ASSUME NEW e \in T
        PROVE  \E s \in DOMAIN b : /\ e = Scaled(s) /\ e.who = s.who /\ e.from = s.from
                                   /\ e.block = s.block /\ e.scaled = 1 /\ m[e] = 1
    <3>1. PICK s \in DOMAIN b : e = Scaled(s)
      OBVIOUS
    <3>2. m[e] = b[s]
      BY <3>1, ScaledIs
    <3> HIDE DEF m, T
    <3>3. QED BY <3>1, <3>2, ScaledIs
  <2>4. ASSUME NEW s \in DOMAIN b PROVE \E e \in T : e.who = s.who
    BY ScaledIs
  <2> HIDE DEF T, m
  <2>5. WhosIn(T) = WhosIn(DOMAIN b)
    BY <2>3, <2>4 DEF WhosIn
  <2>6. QED BY <1>1, <2>1, <2>2, <2>3, <2>5
<1>2. CASE ~(c < 2)
  <2>1. Mastered(c, b) = b
    BY <1>2 DEF Mastered
  <2>2. QED BY <1>2, <2>1 DEF Dry
<1>3. QED BY <1>1, <1>2
-----------------------------------------------------------------------------
LEMMA Larger ==
  ASSUME NEW a \in Int, NEW b \in Int
  PROVE  /\ Max({a, b}) = IF a >= b THEN a ELSE b
         /\ Min({a, b}) = IF a <= b THEN a ELSE b
<1>1. /\ \E x \in {a, b} : \A y \in {a, b} : x >= y
      /\ \E x \in {a, b} : \A y \in {a, b} : x <= y
  OBVIOUS
<1>2. Max({a, b}) \in {a, b} /\ \A y \in {a, b} : Max({a, b}) >= y
  BY <1>1 DEF Max
<1>3. Min({a, b}) \in {a, b} /\ \A y \in {a, b} : Min({a, b}) <= y
  BY <1>1 DEF Min
<1>4. QED BY <1>2, <1>3

PortOf == [call : {"stereo", "metro", "outs"}, ins : Nat, outs : Nat \ {0}, engine : {1, 2}]

LEMMA PortIs ==
  ASSUME NEW p \in Ports
  PROVE  /\ InsOf(p) \in Nat /\ InsOf(p) <= MaxIO
         /\ OutsOf(p) \in Nat \ {0} /\ OutsOf(p) <= MaxIO + 1 /\ OutsOf(p) <= p.outs
         /\ p.call # "outs" /\ p.engine = 1 => OutsOf(p) = 1
         /\ p.outs \in Nat
<1> DEFINE i == p.ins
           o == p.outs
           e == p.engine
<1>1. /\ i \in Nat /\ o \in Nat \ {0} /\ e \in {1, 2} /\ p.call \in {"stereo", "metro", "outs"}
      /\ p.call # "outs" /\ e = 2 => o >= (IF p.call = "metro" THEN 3 ELSE 2)
      /\ MaxIO \in Nat /\ MaxIO >= 2
  <2>1. p \in PortOf
    BY MixAssumption DEF PortOf
  <2>2. p.call # "outs" /\ e = 2 => o >= (IF p.call = "metro" THEN 3 ELSE 2)
    BY MixAssumption
  <2>3. QED BY <2>1, <2>2, MixAssumption DEF PortOf
<1> HIDE DEF i, o, e
<1>2. InsOf(p) = (IF i = 0 THEN e ELSE Min({Max({i, 1}), MaxIO}))
  BY DEF InsOf, i, e
<1>3. InsOf(p) \in Nat /\ InsOf(p) <= MaxIO
  <2>1. CASE i = 0
    BY <1>1, <1>2, <2>1
  <2>2. CASE i # 0
    <3>1. Max({i, 1}) = i
      BY <1>1, <2>2, Larger
    <3>2. i \in Int /\ MaxIO \in Int
      BY <1>1
    <3>3. Min({i, MaxIO}) = IF i <= MaxIO THEN i ELSE MaxIO
      BY <3>2, Larger
    <3>4. QED BY <1>1, <1>2, <2>2, <3>1, <3>3
  <2>3. QED BY <2>1, <2>2
<1>4. OutsOf(p) = (IF p.call = "outs" THEN Min({o, MaxIO + 1})
                   ELSE IF p.call = "metro" /\ e = 2 THEN 3 ELSE e)
  BY DEF OutsOf, o, e
<1>5. Min({o, MaxIO + 1}) = IF o <= MaxIO + 1 THEN o ELSE MaxIO + 1
  <2>1. o \in Int /\ MaxIO + 1 \in Int
    BY <1>1
  <2>2. QED BY <2>1, Larger
<1>6. /\ OutsOf(p) \in Nat \ {0} /\ OutsOf(p) <= MaxIO + 1 /\ OutsOf(p) <= o
      /\ p.call # "outs" /\ e = 1 => OutsOf(p) = 1
  BY <1>1, <1>4, <1>5
<1>7. QED BY <1>1, <1>3, <1>6 DEF o, e

(* A channel that wants any outputs gets some that are there.              *)
LEMMA FirstOutIs ==
  ASSUME NEW outs \in Nat \ {0}, NEW want \in Nat, NEW mono \in BOOLEAN
  PROVE  FirstOut(outs, want, Width(outs, mono)) \in 0 .. outs - 1
<1> DEFINE w == Width(outs, mono)
           x == IF want + w > outs THEN outs - w ELSE want
<1>1. w \in 1 .. 2 /\ w <= outs
  BY DEF Width
<1> HIDE DEF w
<1>2. x \in Int /\ x <= outs - 1
  BY <1>1
<1> HIDE DEF x
<1>3. FirstOut(outs, want, w) = Max({x, 0})
  BY DEF FirstOut, x
<1>4. Max({x, 0}) = IF x >= 0 THEN x ELSE 0
  BY <1>2, Larger
<1>5. QED BY <1>2, <1>3, <1>4 DEF w

LEMMA SidesAre ==
  ASSUME NEW outs, NEW r, NEW c, NEW A, NEW B
  PROVE  /\ Sides(outs, r, c, A, B) \subseteq A \union B
         /\ WhosIn(Sides(outs, r, c, A, B)) = Sides(outs, r, c, WhosIn(A), WhosIn(B))
         /\ c = FirstOut(outs, r.out, Width(outs, r.mono)) => A \subseteq Sides(outs, r, c, A, B)
<1> DEFINE k == FirstOut(outs, r.out, Width(outs, r.mono))
           n == Width(outs, r.mono)
           S(X, Y) == Sides(outs, r, c, X, Y)
<1>1. ASSUME NEW X, NEW Y
      PROVE  S(X, Y) = IF n = 1 THEN IF c = k THEN X \union Y ELSE {}
                       ELSE IF c = k THEN X ELSE IF c = k + 1 THEN Y ELSE {}
  BY DEF Sides
<1>2. WhosIn({}) = {} /\ WhosIn(A \union B) = WhosIn(A) \union WhosIn(B)
  BY DEF WhosIn
<1>3. c = FirstOut(outs, r.out, Width(outs, r.mono)) <=> c = k
  OBVIOUS
<1> HIDE DEF k, n, S
<1>4. \/ S(A, B) = A \union B /\ S(WhosIn(A), WhosIn(B)) = WhosIn(A) \union WhosIn(B)
      \/ S(A, B) = A /\ S(WhosIn(A), WhosIn(B)) = WhosIn(A)
      \/ c # k /\ S(A, B) = B /\ S(WhosIn(A), WhosIn(B)) = WhosIn(B)
      \/ c # k /\ S(A, B) = {} /\ S(WhosIn(A), WhosIn(B)) = {}
  BY <1>1
<1>5. /\ S(A, B) \subseteq A \union B /\ (c = k => A \subseteq S(A, B))
      /\ WhosIn(S(A, B)) = S(WhosIn(A), WhosIn(B))
  BY <1>2, <1>4
<1>6. QED BY <1>3, <1>5 DEF S

(* The state of the reader and the settings that a sample is mixed from.   *)
MixTypes ==
  /\ port \in Ports /\ mix \in Mixes
  /\ mixPos \in 0 .. SamplesPerInterval
  /\ reader.taken \in Nat /\ reader.state \in 0 .. OutputRate - 1
  /\ ~drifted => reader.taken * OutputRate + reader.state = SourceRate * mixPos
Staged == \A c \in Staging : c < InsOf(port) => inputs[c] = piece.block

LEMMA MixIs ==
  ASSUME NEW m \in Mixes
  PROVE  /\ m.enabled \in BOOLEAN /\ m.click.out \in Nat /\ m.click.mono \in BOOLEAN
         /\ m.remote.name = "remote" /\ m.remote.wide \in BOOLEAN /\ m.remote.out \in Nat
         /\ m.remote.mono \in BOOLEAN /\ m.remote.active \in BOOLEAN
         /\ \A l \in m.locals : l.name \notin {"remote", "click"} /\ l.src \in Nat /\ l.out \in Nat
                                /\ l.mono \in BOOLEAN /\ l.wide \in BOOLEAN
<1>1. m \in [enabled : BOOLEAN, locals : SUBSET Locals, remote : Remotes, click : Clickers]
  BY MixAssumption
<1>2. m.remote \in Remotes /\ m.click \in Clickers /\ m.locals \subseteq Locals /\ m.enabled \in BOOLEAN
  BY <1>1
<1>3. \A l \in m.locals : l.name \notin {"remote", "click"} /\ l.src \in Nat /\ l.out \in Nat
                          /\ l.mono \in BOOLEAN /\ l.wide \in BOOLEAN
  BY <1>2 DEF Locals
<1>4. QED BY <1>2, <1>3 DEF Remotes, Clickers

(* A sound that a local channel makes at frame f, and one of the remote's. *)
LocalDry(s, f) == Dry(s) /\ s.who[1] \notin {"remote", "click"} /\ s.from = f /\ s.block = piece.block
RemoteDry(s, x) == Dry(s) /\ s.who[1] = "remote" /\ s.from = ReadAt(x)

LEMMA InputIs ==
  ASSUME MixTypes, Staged, NEW l, l.name \notin {"remote", "click"}, NEW c \in Nat, NEW f
  PROVE  /\ \A s \in InputOf(l, c, f) : LocalDry(s, f)
         /\ WhosIn(InputOf(l, c, f)) = InputWho(port, l, c)
<1>1. CASE c < InsOf(port)
  <2>1. c \in Staging
    BY <1>1, PortIs, MixAssumption DEF MixTypes, Staging
  <2>2. inputs[c] = piece.block
    BY <1>1, <2>1 DEF Staged
  <2> DEFINE s == [who |-> <<l.name, c>>, from |-> f, block |-> inputs[c], scaled |-> 0]
  <2>3. InputOf(l, c, f) = {s}
    BY <1>1 DEF InputOf
  <2>4. s.who = <<l.name, c>> /\ s.who[1] = l.name
    OBVIOUS
  <2>5. LocalDry(s, f)
    BY <2>2, <2>4 DEF LocalDry, Dry
  <2> HIDE DEF s
  <2>6. WhosIn({s}) = {<<l.name, c>>}
    BY <2>4 DEF WhosIn
  <2>7. QED BY <1>1, <2>3, <2>5, <2>6 DEF InputWho
<1>2. CASE ~(c < InsOf(port))
  BY <1>2 DEF InputOf, InputWho, WhosIn
<1>3. QED BY <1>1, <1>2

LEMMA LocalIs ==
  ASSUME MixTypes, Staged, NEW l \in mix.locals, NEW c, NEW f
  PROVE  /\ \A s \in LocalSounds(l, c, f) : LocalDry(s, f)
         /\ WhosIn(LocalSounds(l, c, f)) = LocalWho(port, l, c)
<1>1. l.name \notin {"remote", "click"} /\ l.src \in Nat /\ l.src + 1 \in Nat
  BY MixIs DEF MixTypes
<1>2. RightOf(port, l) \in Nat
  BY <1>1 DEF RightOf
<1> DEFINE A == InputOf(l, l.src, f)
           B == InputOf(l, RightOf(port, l), f)
<1>3. LocalSounds(l, c, f) = Sides(OutsOf(port), l, c, A, B)
  BY DEF LocalSounds, RightOf
<1>4. /\ \A s \in A : LocalDry(s, f)
      /\ WhosIn(A) = InputWho(port, l, l.src)
  BY <1>1, InputIs
<1>5. /\ \A s \in B : LocalDry(s, f)
      /\ WhosIn(B) = InputWho(port, l, RightOf(port, l))
  BY <1>1, <1>2, InputIs
<1> HIDE DEF A, B
<1>6. QED BY <1>3, <1>4, <1>5, SidesAre DEF LocalWho

LEMMA LocalsAre ==
  ASSUME MixTypes, Staged, NEW begun, NEW c, NEW f
  PROVE  /\ \A s \in FromLocals(begun, c, f) : LocalDry(s, f)
         /\ WhosIn(FromLocals(begun, c, f)) = LocalsWho(port, mix, begun, c)
<1> DEFINE P == PlayingOf(mix, begun)
<1>1. FromLocals(begun, c, f) = UNION {LocalSounds(l, c, f) : l \in P}
  <2>1. {k \in MixedLocals(begun) : k.active} = P
    BY DEF MixedLocals, PlayingOf
  <2>2. QED BY <2>1 DEF FromLocals
<1>2. P \subseteq mix.locals
  BY DEF PlayingOf
<1>3. LocalsWho(port, mix, begun, c) = UNION {LocalWho(port, l, c) : l \in P}
  BY DEF LocalsWho
<1> HIDE DEF P
<1>4. \A l \in P : /\ \A s \in LocalSounds(l, c, f) : LocalDry(s, f)
                   /\ WhosIn(LocalSounds(l, c, f)) = LocalWho(port, l, c)
  BY <1>2, LocalIs
<1>5. ASSUME NEW w PROVE w \in WhosIn(FromLocals(begun, c, f)) <=> w \in LocalsWho(port, mix, begun, c)
  <2>1. ASSUME w \in WhosIn(FromLocals(begun, c, f)) PROVE w \in LocalsWho(port, mix, begun, c)
    <3>1. PICK l \in P : \E s \in LocalSounds(l, c, f) : w = s.who
      BY <1>1, <2>1 DEF WhosIn
    <3>2. w \in WhosIn(LocalSounds(l, c, f))
      BY <3>1 DEF WhosIn
    <3>3. QED BY <1>3, <1>4, <3>2
  <2>2. ASSUME w \in LocalsWho(port, mix, begun, c) PROVE w \in WhosIn(FromLocals(begun, c, f))
    <3>1. PICK l \in P : w \in LocalWho(port, l, c)
      BY <1>3, <2>2
    <3>2. w \in WhosIn(LocalSounds(l, c, f))
      BY <1>4, <3>1
    <3>3. PICK s \in LocalSounds(l, c, f) : w = s.who
      BY <3>2 DEF WhosIn
    <3>4. s \in FromLocals(begun, c, f)
      BY <1>1
    <3>5. QED BY <3>3, <3>4 DEF WhosIn
  <2>3. QED BY <2>1, <2>2
<1>6. \A s \in FromLocals(begun, c, f) : LocalDry(s, f)
  BY <1>1, <1>4
<1>7. QED BY <1>5, <1>6

LEMMA RemoteIs ==
  ASSUME MixTypes, NEW c, NEW x
  PROVE  /\ \A s \in FromRemote(c, x) : RemoteDry(s, x)
         /\ WhosIn(FromRemote(c, x)) = RemoteWho(port, mix, c)
<1> DEFINE r == mix.remote
           Tone(s) == [who |-> <<r.name, s>>, from |-> ReadAt(x), block |-> 0, scaled |-> 0]
           A == {Tone("left")}
           B == {Tone(IF r.wide THEN "right" ELSE "left")}
<1>1. r.name = "remote"
  BY MixIs DEF MixTypes
<1>2. ASSUME NEW s
      PROVE RemoteDry(Tone(s), x) /\ WhosIn({Tone(s)}) = {<<"remote", s>>}
  <2>1. Tone(s).who = <<"remote", s>> /\ Tone(s).who[1] = "remote"
    BY <1>1
  <2>2. RemoteDry(Tone(s), x)
    BY <2>1 DEF RemoteDry, Dry
  <2>3. WhosIn({Tone(s)}) = {<<"remote", s>>}
    BY <2>1 DEF WhosIn
  <2>4. QED BY <2>2, <2>3
<1>3. FromRemote(c, x) = IF r.active THEN Sides(OutsOf(port), r, c, A, B) ELSE {}
  BY DEF FromRemote, RemoteSounds
<1>4. /\ \A s \in A : RemoteDry(s, x)
      /\ WhosIn(A) = {<<"remote", "left">>}
  BY <1>2
<1>5. /\ \A s \in B : RemoteDry(s, x)
      /\ WhosIn(B) = {<<"remote", IF r.wide THEN "right" ELSE "left">>}
  BY <1>2
<1>6. RemoteWho(port, mix, c) =
        IF r.active THEN Sides(OutsOf(port), r, c, {<<"remote", "left">>},
                               {<<"remote", IF r.wide THEN "right" ELSE "left">>}) ELSE {}
  BY DEF RemoteWho
<1>7. WhosIn({}) = {}
  BY DEF WhosIn
<1> HIDE DEF A, B, r, Tone
<1> DEFINE S == Sides(OutsOf(port), r, c, A, B)
<1>8. /\ S \subseteq A \union B
      /\ WhosIn(S) = Sides(OutsOf(port), r, c, WhosIn(A), WhosIn(B))
  BY SidesAre
<1> HIDE DEF S
<1>9. \A s \in S : RemoteDry(s, x)
  BY <1>4, <1>5, <1>8
<1>10. CASE r.active
  <2>1. FromRemote(c, x) = S
    BY <1>3, <1>10 DEF S
  <2>2. WhosIn(S) = RemoteWho(port, mix, c)
    BY <1>4, <1>5, <1>6, <1>8, <1>10
  <2>3. QED BY <1>9, <2>1, <2>2
<1>11. CASE ~r.active
  BY <1>3, <1>6, <1>7, <1>11
<1>12. QED BY <1>10, <1>11

LEMMA ClickIs ==
  ASSUME NEW c, NEW f
  PROVE  /\ \A s \in Clicks(c, f) : s.who[1] = "click" /\ s.scaled = 0 /\ s.from = f
         /\ WhosIn(Clicks(c, f)) = ClickWho(port, mix, c)
<1> DEFINE s == [who |-> <<"click", c>>, from |-> f, block |-> 0, scaled |-> 0]
           on == c < OutsOf(port) /\ (c = mix.click.out \/ (c = mix.click.out + 1 /\ ~mix.click.mono))
<1>1. Clicks(c, f) = IF on THEN {s} ELSE {}
  BY DEF Clicks, ClickPlace
<1>2. ClickWho(port, mix, c) = IF on THEN {<<"click", c>>} ELSE {}
  BY DEF ClickWho
<1>3. s.who = <<"click", c>> /\ s.who[1] = "click" /\ s.scaled = 0 /\ s.from = f
  OBVIOUS
<1> HIDE DEF s, on
<1>4. WhosIn({s}) = {<<"click", c>>} /\ WhosIn({}) = {}
  BY <1>3 DEF WhosIn
<1>5. QED BY <1>1, <1>2, <1>3, <1>4

LEMMA QuotientIs ==
  ASSUME NEW n \in Nat \ {0}, NEW p \in Int, NEW r \in 0 .. n - 1
  PROVE  (n * p + r) \div n = p /\ (n * p + r) % n = r
<1> DEFINE y == n * p + r
           q == y \div n
           t == y % n
<1>1. y \in Int
  OBVIOUS
<1>2. y = n * q + t /\ q \in Int /\ t \in 0 .. n - 1
  <2> HIDE DEF y
  <2>1. QED BY <1>1, Dividing
<1>3. y = n * p + r
  OBVIOUS
<1> HIDE DEF y, q, t
<1>4. n * (p - q) = t - r
  BY <1>2, <1>3
<1>5. CASE p >= q + 1
  <2>1. n * (p - q) >= n
    BY <1>2, <1>5
  <2>2. QED BY <1>2, <1>4, <2>1
<1>6. CASE q >= p + 1
  <2>1. n * (q - p) >= n
    BY <1>2, <1>6
  <2>2. n * (q - p) = r - t
    BY <1>2, <1>3
  <2>3. QED BY <1>2, <2>1, <2>2
<1>7. CASE p = q
  <2>1. t = r
    BY <1>2, <1>3, <1>7
  <2>2. QED BY <1>7, <2>1 DEF q, t, y
<1>8. QED BY <1>2, <1>5, <1>6, <1>7

LEMMA ReadPlace ==
  ASSUME MixTypes, ~drifted, NEW x \in Nat
  PROVE  ReadAt(x) = (SourceRate * (mixPos + x)) \div OutputRate
<1> DEFINE a == reader.taken
           s == reader.state
           n == OutputRate
           k == SourceRate
           m == mixPos
           D == s + k * x
           q == D \div n
           r == D % n
<1>1. /\ a \in Nat /\ s \in 0 .. n - 1 /\ n \in Nat \ {0} /\ k \in Nat \ {0} /\ m \in Nat
      /\ a * n + s = k * m
  BY MixAssumption DEF MixTypes
<1>2. ReadAt(x) = a + q
  BY DEF ReadAt
<1>3. D \in Int
  BY <1>1
<1>4. D = n * q + r /\ q \in Int /\ r \in 0 .. n - 1
  <2> HIDE DEF D
  <2>1. QED BY <1>1, <1>3, Dividing
<1>5. k * (m + x) = k * m + k * x
  BY <1>1
<1>6. D = s + k * x
  OBVIOUS
<1> HIDE DEF D, q, r, a, s
<1>7. n * (a + q) = n * a + n * q /\ a * n = n * a
  BY <1>1, <1>4
<1>8. k * (m + x) = n * (a + q) + r
  BY <1>1, <1>3, <1>4, <1>5, <1>6, <1>7
<1>9. a + q \in Int
  BY <1>1, <1>4
<1>10. (n * (a + q) + r) \div n = a + q
  BY <1>1, <1>4, <1>9, QuotientIs
<1>11. QED BY <1>2, <1>8, <1>10

(* Where the reader is after a piece that was heard.                       *)
LEMMA ReaderGoesOn ==
  ASSUME MixTypes, NEW len \in Nat, NEW next, next = NextReader(len)
  PROVE  /\ next.taken \in Nat /\ next.state \in 0 .. OutputRate - 1
         /\ ~drifted /\ mix.remote.active =>
              next.taken * OutputRate + next.state = SourceRate * (mixPos + len)
<1> DEFINE a == reader.taken
           s == reader.state
           n == OutputRate
           k == SourceRate
           m == mixPos
           D == k * len + s
           q == D \div n
           r == D % n
<1>1. /\ a \in Nat /\ s \in 0 .. n - 1 /\ n \in Nat \ {0} /\ k \in Nat \ {0} /\ m \in Nat
      /\ ~drifted => a * n + s = k * m
  BY MixAssumption DEF MixTypes
<1>2. D \in Nat
  BY <1>1
<1>3. D = n * q + r /\ q \in Int /\ r \in 0 .. n - 1
  <2>1. D \in Int
    BY <1>2
  <2> HIDE DEF D
  <2>2. QED BY <1>1, <2>1, Dividing
<1>4. D % n = (s + k * len) % n
  BY <1>1
<1>5. next.taken = a + q /\ next.state = (IF mix.remote.active THEN r ELSE s)
  BY <1>4 DEF NextReader, Needed
<1>6. D = k * len + s
  OBVIOUS
<1> HIDE DEF D, q, r, a, s
<1>7. q \in Nat
  <2>1. CASE q < 0
    <3>1. n * q <= -n
      BY <1>1, <1>3, <2>1
    <3>2. QED BY <1>1, <1>2, <1>3, <3>1
  <2>2. QED BY <1>3, <2>1
<1>8. ASSUME ~drifted, mix.remote.active PROVE next.taken * n + next.state = k * (m + len)
  <2>1. (a + q) * n = a * n + q * n /\ q * n = n * q /\ k * (m + len) = k * m + k * len
    BY <1>1, <1>3
  <2>2. (a + q) * n + r = k * (m + len)
    BY <1>1, <1>3, <1>6, <1>8, <2>1
  <2>3. QED BY <1>5, <1>8, <2>2
<1>9. QED BY <1>1, <1>3, <1>5, <1>7, <1>8

(* A frame of the piece that is still silent, at pos in the interval; and, *)
(* once mixed, each sound once, in its place, and the sounds of all that   *)
(* play.                                                                   *)
ToMix(len, begun, c, f, pos) ==
  /\ begun \in BOOLEAN /\ len \in Nat /\ piece.done \in Nat
  /\ c \in Nat /\ c < OutsOf(port)
  /\ f \in Nat /\ f \in Frames /\ piece.done <= f /\ f < piece.done + len
  /\ outputs[c][f] = EmptyBag
  /\ begun => pos = mixPos + (f - piece.done)
MixedAt(len, begun, c, f, pos) ==
  LET b == Processed(len, begun)[c][f] IN
  /\ Fine(b, c, f, pos, drifted, piece.block)
  /\ WhosIn(DOMAIN b) = Who(port, mix, begun, c)

LEMMA SampleIs ==
  ASSUME MixTypes, Staged, NEW len, NEW begun, NEW c, NEW f, NEW pos, ToMix(len, begun, c, f, pos)
  PROVE  MixedAt(len, begun, c, f, pos)
<1>0. /\ begun \in BOOLEAN /\ len \in Nat /\ piece.done \in Nat
      /\ c \in Nat /\ c < OutsOf(port)
      /\ f \in Nat /\ f \in Frames /\ piece.done <= f /\ f < piece.done + len
      /\ outputs[c][f] = EmptyBag
      /\ begun => pos = mixPos + (f - piece.done)
  BY DEF ToMix
<1> DEFINE x == f - piece.done
           local == FromLocals(begun, c, f)
           remote == IF begun THEN FromRemote(c, x) ELSE {}
           music == local \union remote
           dry == EmptyBag (+) SetToBag(music)
           wet == Mastered(c, dry)
           beats == IF begun THEN Clicks(c, f) ELSE {}
           b == Processed(len, begun)[c][f]
           place == (SourceRate * pos) \div OutputRate
<1>1. c \in Staging /\ x \in Nat /\ f \in piece.done .. piece.done + len - 1
  BY <1>0, PortIs, MixAssumption DEF MixTypes, Staging
<1>2. b = wet (+) SetToBag(beats)
  <2>1. Processed(len, begun)[c][f] =
          IF c >= OutsOf(port) \/ f \notin piece.done .. piece.done + len - 1 THEN outputs[c][f]
          ELSE Mastered(c, outputs[c][f] (+) SetToBag(music)) (+) SetToBag(beats)
    BY <1>0, <1>1 DEF Processed
  <2>2. ~(c >= OutsOf(port) \/ f \notin piece.done .. piece.done + len - 1)
    BY <1>0, <1>1, PortIs DEF MixTypes
  <2>3. Processed(len, begun)[c][f] = Mastered(c, outputs[c][f] (+) SetToBag(music)) (+) SetToBag(beats)
    BY <2>1, <2>2
  <2>4. QED BY <1>0, <2>3
<1>3. /\ \A s \in local : LocalDry(s, f)
      /\ WhosIn(local) = LocalsWho(port, mix, begun, c)
  BY LocalsAre
<1>4. /\ \A s \in remote : RemoteDry(s, x)
      /\ WhosIn(remote) = IF begun THEN RemoteWho(port, mix, c) ELSE {}
  BY RemoteIs DEF WhosIn
<1>5. /\ \A s \in beats : s.who[1] = "click" /\ s.scaled = 0 /\ s.from = f
      /\ WhosIn(beats) = IF begun THEN ClickWho(port, mix, c) ELSE {}
  BY ClickIs DEF WhosIn
<1>6. begun /\ ~drifted => ReadAt(x) = place
  BY <1>0, <1>1, ReadPlace
<1> HIDE DEF local, remote, beats, place, x, b
<1>7. DOMAIN dry = music /\ \A s \in music : dry[s] = 1
  <2>1. DOMAIN EmptyBag \intersect music = {} /\ \A e \in DOMAIN EmptyBag : EmptyBag[e] = 1
    BY NoBag
  <2> HIDE DEF music
  <2>2. /\ DOMAIN (EmptyBag (+) SetToBag(music)) = DOMAIN EmptyBag \union music
        /\ \A e \in DOMAIN EmptyBag \union music : (EmptyBag (+) SetToBag(music))[e] = 1
    BY <2>1, Adding
  <2>3. QED BY <2>2, NoBag
<1>8. \A s \in music : Dry(s) /\ s.who[1] # "click"
  BY <1>3, <1>4 DEF LocalDry, RemoteDry
<1>9. WhosIn(music) = WhosIn(local) \union WhosIn(remote)
  BY DEF WhosIn
<1>10. \A s \in music : LocalDry(s, f) \/ (begun /\ RemoteDry(s, x))
  <2>1. remote # {} => begun
    BY DEF remote
  <2>2. QED BY <1>3, <1>4, <2>1
<1> HIDE DEF music, dry
<1>11. /\ \A e \in DOMAIN wet :
            /\ wet[e] = 1
            /\ \E s \in music :
                 /\ e.who = s.who /\ e.from = s.from /\ e.block = s.block
                 /\ e.scaled = IF c < 2 THEN 1 ELSE 0
       /\ WhosIn(DOMAIN wet) = WhosIn(music)
  <2>1. \A s \in DOMAIN dry : Dry(s) /\ dry[s] = 1
    BY <1>7, <1>8
  <2>2. QED BY <1>7, <2>1, MasteredIs
<1> HIDE DEF wet
<1>12. DOMAIN wet \intersect beats = {}
  BY <1>5, <1>8, <1>11
<1>13. DOMAIN b = DOMAIN wet \union beats /\ \A e \in DOMAIN wet \union beats : b[e] = 1
  BY <1>2, <1>11, <1>12, Adding
<1>14. ASSUME NEW e \in DOMAIN wet PROVE Placed(e, c, f, pos, drifted, piece.block)
  <2>1. PICK s \in music : /\ e.who = s.who /\ e.from = s.from /\ e.block = s.block
                           /\ e.scaled = IF c < 2 THEN 1 ELSE 0
    BY <1>11
  <2>2. CASE LocalDry(s, f)
    <3>1. e.who[1] \notin {"click", "remote"} /\ e.from = f /\ e.block = piece.block
      BY <2>1, <2>2 DEF LocalDry
    <3>2. QED BY <2>1, <3>1 DEF Placed
  <2>3. CASE begun /\ RemoteDry(s, x)
    <3>1. e.who[1] = "remote" /\ e.from = ReadAt(x)
      BY <2>1, <2>3 DEF RemoteDry
    <3>2. ~drifted => e.from = place
      BY <1>6, <2>3, <3>1
    <3>3. QED BY <2>1, <3>1, <3>2 DEF Placed, place
  <2>4. QED BY <1>10, <2>2, <2>3
<1>15. ASSUME NEW e \in beats PROVE Placed(e, c, f, pos, drifted, piece.block)
  BY <1>5 DEF Placed
<1>16. Fine(b, c, f, pos, drifted, piece.block)
  BY <1>13, <1>14, <1>15 DEF Fine
<1>17. WhosIn(DOMAIN b) = WhosIn(DOMAIN wet) \union WhosIn(beats)
  BY <1>13 DEF WhosIn
<1>18. WhosIn(DOMAIN b) = Who(port, mix, begun, c)
  BY <1>3, <1>4, <1>5, <1>9, <1>11, <1>17 DEF Who
<1>19. QED BY <1>16, <1>18 DEF MixedAt, b

LEMMA SampleKept ==
  ASSUME NEW len, NEW begun, NEW c \in Staging, NEW f \in Frames,
         c >= OutsOf(port) \/ f \notin piece.done .. piece.done + len - 1
  PROVE  Processed(len, begun)[c][f] = outputs[c][f]
BY DEF Processed
-----------------------------------------------------------------------------
(* How far a block has come: silent frames, and frames mixed.              *)
Hushed(o, p, from, len) ==
  \A c \in 0 .. OutsOf(p) - 1, f \in from .. len - 1 : o[c][f] = EmptyBag
Mixed(o, p, upto, start, loose, number) ==
  \A c \in 0 .. OutsOf(p) - 1, f \in 0 .. upto - 1 : Fine(o[c][f], c, f, start + f, loose, number)
Full(o, p, upto, m) ==
  \A c \in 0 .. OutsOf(p) - 1, f \in 0 .. upto - 1 :
    WhosIn(DOMAIN o[c][f]) = Who(p, m, m.enabled, c)

Phases ==
  CASE phase = "called"  -> way = "silent" /\ piece.done = 0
    [] phase = "checked" -> /\ way \in {"silent", "torn"} /\ piece.done = 0
                            /\ way = "silent" => Hushed(outputs, port, 0, piece.len)
    [] phase = "mixing"  -> /\ way = "mixed" /\ piece.done < piece.len
                            /\ Mixed(outputs, port, piece.done, mixPos - piece.done, drifted,
                                     piece.block)
                            /\ Hushed(outputs, port, piece.done, piece.len)
                            /\ ~changed => /\ piece.done > 0 => mix.enabled
                                           /\ Full(outputs, port, piece.done, mix)
    [] phase = "mixed"   -> /\ way = "silent" => Hushed(outputs, port, 0, piece.len)
                            /\ way = "mixed" =>
                                 /\ piece.done = piece.len
                                 /\ Mixed(outputs, port, piece.len, mixPos - piece.len, drifted,
                                          piece.block)
                                 /\ ~changed => Full(outputs, port, piece.len, mix)
    [] OTHER -> /\ way = "silent" =>
                     \A c \in DOMAIN hardware, f \in 0 .. piece.len - 1 : hardware[c][f] = EmptyBag
                /\ way = "mixed" =>
                     /\ piece.len \in Lengths
                     /\ 0 .. OutsOf(port) - 1 \subseteq DOMAIN hardware
                     /\ DOMAIN hardware \subseteq Nat
                     /\ Mixed(hardware, port, piece.len, mixPos - piece.len, drifted, piece.block)
                     /\ ~changed => Full(hardware, port, piece.len, mix)
                     /\ \A c \in DOMAIN hardware, f \in 0 .. piece.len - 1 :
                          c >= OutsOf(port) => hardware[c][f] = EmptyBag

BlockIs ==
  /\ phase \in {"away", "called", "checked", "mixing", "mixed"}
  /\ way \in {"silent", "torn", "mixed"}
  /\ piece = [len |-> piece.len, done |-> piece.done, block |-> piece.block]
  /\ piece.done \in Nat
  /\ piece.len \in Lengths \union {0}
  /\ phase # "away" => piece.len \in Lengths /\ Staged

MixInv == MixTypes /\ BlockIs /\ Phases

LEMMA FramesAre ==
  ASSUME NEW len \in Lengths
  PROVE  len \in Nat \ {0} /\ 0 .. len - 1 \subseteq Frames
<1>1. PICK most \in Lengths : \A k \in Lengths : k <= most
  BY MixAssumption
<1>2. Lengths \subseteq Nat \ {0}
  BY MixAssumption
<1>3. Max(Lengths) \in Lengths /\ \A k \in Lengths : Max(Lengths) >= k
  BY <1>1, <1>2 DEF Max
<1> DEFINE m == Max(Lengths)
<1>4. m \in Nat /\ len \in Nat /\ len <= m
  BY <1>2, <1>3
<1> HIDE DEF m
<1>5. 0 .. len - 1 \subseteq 0 .. m - 1
  BY <1>4
<1>6. QED BY <1>2, <1>5 DEF Frames, m

LEMMA OutsAre ==
  ASSUME MixTypes
  PROVE  OutsOf(port) \in Nat \ {0} /\ 0 .. OutsOf(port) - 1 \subseteq Staging /\ Staging \subseteq Nat
<1>1. OutsOf(port) \in Nat \ {0} /\ OutsOf(port) <= MaxIO + 1 /\ MaxIO \in Nat
  BY PortIs, MixAssumption DEF MixTypes
<1>2. QED BY <1>1 DEF Staging

LEMMA ClearedIs ==
  ASSUME MixTypes, NEW o, NEW len \in Lengths
  PROVE  Hushed(Cleared(o, OutsOf(port), len), port, 0, len)
<1> SUFFICES ASSUME NEW c \in 0 .. OutsOf(port) - 1, NEW f \in 0 .. len - 1
             PROVE  Cleared(o, OutsOf(port), len)[c][f] = EmptyBag
  BY DEF Hushed
<1>1. c \in Staging /\ f \in Frames /\ c < OutsOf(port) /\ f < len
  BY OutsAre, FramesAre
<1>2. QED BY <1>1 DEF Cleared

THEOREM MixInvInit == MixInit => MixInv
<1> SUFFICES ASSUME MixInit PROVE MixInv
  OBVIOUS
<1>1. /\ port \in Ports /\ mix \in Mixes /\ phase = "away" /\ way = "silent" /\ hardware = <<>>
      /\ mixPos = 0 /\ reader.taken = 0 /\ reader.state = 0
      /\ piece = [len |-> 0, done |-> 0, block |-> 0]
  BY DEF MixInit
<1>2. MixTypes
  <2>1. 0 \in 0 .. SamplesPerInterval /\ 0 \in 0 .. OutputRate - 1 /\ 0 * OutputRate + 0 = SourceRate * 0
    BY MixAssumption
  <2>2. QED BY <1>1, <2>1 DEF MixTypes
<1>3. BlockIs
  BY <1>1 DEF BlockIs
<1>4. Phases
  BY <1>1 DEF Phases
<1>5. QED BY <1>2, <1>3, <1>4 DEF MixInv

LEMMA InCallBlock ==
  ASSUME MixInv, NEW len \in Lengths, CallBlock(len)
  PROVE  MixInv'
<1>1. /\ phase = "away" /\ way' = "silent"
      /\ piece' = [len |-> len, done |-> 0, block |-> piece.block + 1]
      /\ UNCHANGED <<port, mix, mixPos, reader, drifted>>
  BY DEF CallBlock
<1>2. piece'.len = len /\ piece'.done = 0 /\ piece'.block = piece.block + 1
  BY <1>1
<1>3. MixTypes'
  BY <1>1 DEF MixInv, MixTypes
<1>4. CASE online
  <2>1. /\ phase' = "called"
        /\ inputs' = [c \in Staging |-> IF c < InsOf(port) THEN piece.block + 1 ELSE inputs[c]]
    BY <1>4 DEF CallBlock
  <2>2. Staged'
    BY <1>1, <1>2, <2>1 DEF Staged
  <2>3. BlockIs'
    BY <1>1, <1>2, <2>1, <2>2 DEF BlockIs
  <2>4. Phases'
    BY <1>1, <1>2, <2>1 DEF Phases
  <2>5. QED BY <1>3, <2>3, <2>4 DEF MixInv
<1>5. CASE ~online
  <2>1. phase' = "away" /\ hardware' = [c \in 0 .. port.outs - 1 |-> Silent]
    BY <1>1, <1>5 DEF CallBlock
  <2>2. BlockIs'
    BY <1>1, <1>2, <2>1 DEF BlockIs
  <2>3. ASSUME NEW c \in DOMAIN hardware', NEW f \in 0 .. piece'.len - 1
        PROVE  hardware'[c][f] = EmptyBag
    <3>1. f \in Frames
      BY <1>2, FramesAre
    <3>2. QED BY <2>1, <3>1 DEF Silent
  <2>4. Phases'
    BY <1>1, <2>1, <2>3 DEF Phases
  <2>5. QED BY <1>3, <2>2, <2>4 DEF MixInv
<1>6. QED BY <1>4, <1>5

LEMMA InCheckOffline ==
  ASSUME MixInv, CheckOffline
  PROVE  MixInv'
<1>1. /\ phase = "called" /\ phase' = "checked" /\ way' = (IF up THEN "torn" ELSE "silent")
      /\ outputs' = (IF up THEN outputs ELSE Cleared(outputs, OutsOf(port), piece.len))
      /\ UNCHANGED <<port, mix, piece, inputs, hardware, mixPos, reader, changed, drifted>>
  BY DEF CheckOffline
<1>2. piece.done = 0 /\ piece.len \in Lengths
  BY <1>1 DEF MixInv, BlockIs, Phases
<1>3. MixTypes'
  BY <1>1 DEF MixInv, MixTypes
<1>4. BlockIs'
  BY <1>1 DEF MixInv, BlockIs, Staged
<1>5. ~up => Hushed(outputs', port, 0, piece.len)
  BY <1>1, <1>2, ClearedIs DEF MixInv
<1>6. Phases'
  BY <1>1, <1>2, <1>5 DEF Phases
<1>7. QED BY <1>3, <1>4, <1>6 DEF MixInv

LEMMA InCheckOnline ==
  ASSUME MixInv, CheckOnline
  PROVE  MixInv'
<1>1. /\ phase = "checked"
      /\ UNCHANGED <<port, mix, piece, inputs, hardware, mixPos, reader, changed, drifted>>
  BY DEF CheckOnline
<1>2. piece.done = 0 /\ piece.len \in Lengths /\ way \in {"silent", "torn"}
      /\ (way = "silent" => Hushed(outputs, port, 0, piece.len))
  BY <1>1 DEF MixInv, BlockIs, Phases
<1>3. MixTypes'
  BY <1>1 DEF MixInv, MixTypes
<1>4. CASE up
  <2>1. phase' = "mixing" /\ way' = "mixed" /\ outputs' = Cleared(outputs, OutsOf(port), piece.len)
    BY <1>4 DEF CheckOnline
  <2>2. Hushed(outputs', port, 0, piece.len)
    BY <1>2, <2>1, ClearedIs DEF MixInv
  <2>3. \A c, f : f \notin 0 .. 0 - 1
    OBVIOUS
  <2>4. Mixed(outputs', port, 0, mixPos - 0, drifted, piece.block) /\ Full(outputs', port, 0, mix)
    BY <2>3 DEF Mixed, Full
  <2>5. 0 < piece.len
    BY <1>2, FramesAre
  <2>6. Phases'
    BY <1>1, <1>2, <2>1, <2>2, <2>4, <2>5 DEF Phases
  <2>7. BlockIs'
    BY <1>1, <2>1 DEF MixInv, BlockIs, Staged
  <2>8. QED BY <1>3, <2>6, <2>7 DEF MixInv
<1>5. CASE ~up
  <2>1. phase' = "mixed" /\ way' = way /\ outputs' = outputs
    BY <1>5 DEF CheckOnline
  <2>2. Phases'
    BY <1>1, <1>2, <2>1 DEF Phases
  <2>3. BlockIs'
    BY <1>1, <2>1 DEF MixInv, BlockIs, Staged
  <2>4. QED BY <1>3, <2>2, <2>3 DEF MixInv
<1>6. QED BY <1>4, <1>5

LEMMA InReturn ==
  ASSUME MixInv, Return
  PROVE  MixInv'
<1>1. /\ phase = "mixed" /\ phase' = "away" /\ hardware' = Given(port, outputs)
      /\ UNCHANGED <<port, mix, piece, inputs, outputs, mixPos, reader, way, changed, drifted>>
  BY DEF Return
<1>2. /\ piece.len \in Lengths
      /\ way = "silent" => Hushed(outputs, port, 0, piece.len)
      /\ way = "mixed" =>
           /\ Mixed(outputs, port, piece.len, mixPos - piece.len, drifted, piece.block)
           /\ ~changed => Full(outputs, port, piece.len, mix)
  BY <1>1 DEF MixInv, BlockIs, Phases
<1>3. MixTypes'
  BY <1>1 DEF MixInv, MixTypes
<1>4. BlockIs'
  BY <1>1 DEF MixInv, BlockIs
<1> DEFINE n == OutsOf(port)
           D == DOMAIN hardware'
<1>5. /\ port.outs \in Nat /\ n \in Nat \ {0} /\ n <= port.outs
      /\ port.call # "outs" /\ port.engine = 1 => n = 1
      /\ port.call = "outs" \/ port.engine \in {1, 2}
  <2>1. port \in Ports
    BY DEF MixInv, MixTypes
  <2>2. port.engine \in {1, 2}
    BY <2>1, MixAssumption
  <2>3. QED BY <2>1, <2>2, PortIs
<1>6. /\ D = {k \in 0 .. port.outs - 1 : port.call = "outs" \/ port.engine = 2 \/ k # 1}
      /\ \A c \in D : hardware'[c] = IF c < n THEN outputs[c] ELSE Silent
  BY <1>1 DEF Given
<1> HIDE DEF n, D
<1>7. D \subseteq Nat /\ 0 .. n - 1 \subseteq D
  <2>1. D \subseteq Nat
    BY <1>5, <1>6
  <2>2. ASSUME NEW k \in 0 .. n - 1 PROVE k \in D
    <3>1. k \in 0 .. port.outs - 1
      BY <1>5
    <3>2. port.call = "outs" \/ port.engine = 2 \/ k # 1
      BY <1>5
    <3>3. QED BY <1>6, <3>1, <3>2
  <2>3. QED BY <2>1, <2>2
<1>8. ASSUME NEW c \in D, NEW f \in 0 .. piece.len - 1, c >= n PROVE hardware'[c][f] = EmptyBag
  <2>1. ~(c < n) /\ f \in Frames
    BY <1>2, <1>5, <1>7, <1>8, FramesAre
  <2>2. QED BY <1>6, <2>1 DEF Silent
<1>9. \A c \in 0 .. n - 1 : c \in D /\ hardware'[c] = outputs[c]
  BY <1>5, <1>6, <1>7
<1>10. ASSUME way = "silent", NEW c \in D, NEW f \in 0 .. piece.len - 1 PROVE hardware'[c][f] = EmptyBag
  <2>1. CASE c >= n
    BY <1>8, <2>1
  <2>2. CASE ~(c >= n)
    <3>1. c \in 0 .. n - 1
      BY <1>5, <1>7, <2>2
    <3>2. outputs[c][f] = EmptyBag
      BY <1>2, <1>10, <3>1 DEF Hushed, n
    <3>3. QED BY <1>9, <3>1, <3>2
  <2>3. QED BY <2>1, <2>2
<1>11. ASSUME way = "mixed"
       PROVE  /\ Mixed(hardware', port, piece.len, mixPos - piece.len, drifted, piece.block)
              /\ ~changed => Full(hardware', port, piece.len, mix)
  <2>1. Mixed(hardware', port, piece.len, mixPos - piece.len, drifted, piece.block)
    BY <1>2, <1>9, <1>11 DEF Mixed, n
  <2>2. ~changed => Full(hardware', port, piece.len, mix)
    BY <1>2, <1>9, <1>11 DEF Full, n
  <2>3. QED BY <2>1, <2>2
<1>12. Phases'
  BY <1>1, <1>2, <1>7, <1>8, <1>10, <1>11 DEF Phases, n, D
<1>13. QED BY <1>3, <1>4, <1>12 DEF MixInv

LEMMA InNextInterval ==
  ASSUME MixInv, NextInterval
  PROVE  MixInv'
<1>1. /\ phase = "mixing" /\ mixPos = SamplesPerInterval /\ mixPos' = 0
      /\ reader' = [taken |-> 0, state |-> 0] /\ drifted' = FALSE
      /\ UNCHANGED <<port, mix, phase, piece, inputs, outputs, hardware, way, changed>>
  BY DEF NextInterval
<1>2. /\ way = "mixed" /\ piece.done < piece.len
      /\ Mixed(outputs, port, piece.done, mixPos - piece.done, drifted, piece.block)
      /\ Hushed(outputs, port, piece.done, piece.len)
      /\ ~changed => /\ piece.done > 0 => mix.enabled
                     /\ Full(outputs, port, piece.done, mix)
  BY <1>1 DEF MixInv, Phases
<1>3. MixTypes'
  <2>1. 0 \in 0 .. SamplesPerInterval /\ 0 \in 0 .. OutputRate - 1 /\ 0 * OutputRate + 0 = SourceRate * 0
    BY MixAssumption
  <2>2. QED BY <1>1, <2>1 DEF MixInv, MixTypes
<1>4. BlockIs'
  BY <1>1 DEF MixInv, BlockIs, Staged
<1>5. Mixed(outputs, port, piece.done, 0 - piece.done, FALSE, piece.block)
  <2> SUFFICES ASSUME NEW c \in 0 .. OutsOf(port) - 1, NEW f \in 0 .. piece.done - 1
               PROVE  Fine(outputs[c][f], c, f, (0 - piece.done) + f, FALSE, piece.block)
    BY DEF Mixed
  <2> DEFINE old == (mixPos - piece.done) + f
             pos == (0 - piece.done) + f
             b == outputs[c][f]
  <2>1. Fine(b, c, f, old, drifted, piece.block)
    BY <1>2 DEF Mixed
  <2>2. ~(pos >= 0)
    BY DEF MixInv, BlockIs
  <2> HIDE DEF old, pos, b
  <2>3. \A s : Placed(s, c, f, old, drifted, piece.block) => Placed(s, c, f, pos, FALSE, piece.block)
    BY <2>2 DEF Placed
  <2>4. Fine(b, c, f, pos, FALSE, piece.block)
    BY <2>1, <2>3 DEF Fine
  <2>5. QED BY <2>4 DEF pos, b
<1>6. Phases'
  BY <1>1, <1>2, <1>5 DEF Phases
<1>7. QED BY <1>3, <1>4, <1>6 DEF MixInv

LEMMA InChange ==
  ASSUME MixInv, Change
  PROVE  MixInv'
<1>1. UNCHANGED <<port, phase, piece, inputs, outputs, hardware, mixPos, reader, way, drifted>>
  BY DEF Change
<1>2. mix' \in Mixes /\ (changed' = TRUE \/ (changed' = changed /\ mix' = mix))
  BY DEF Change, MixInv, MixTypes
<1>3. MixTypes'
  BY <1>1, <1>2 DEF MixInv, MixTypes
<1>4. BlockIs'
  BY <1>1 DEF MixInv, BlockIs, Staged
<1>5. Phases'
  BY <1>1, <1>2 DEF MixInv, Phases
<1>6. QED BY <1>3, <1>4, <1>5 DEF MixInv

(* What len more frames add to the ones that were mixed.                   *)
LEMMA MoreMixed ==
  ASSUME MixTypes, Staged, NEW begun \in BOOLEAN, NEW len \in Nat, NEW loose, NEW start \in Int,
         piece.done \in Nat, piece.len \in Lengths, piece.done + len <= piece.len,
         drifted => loose, begun => start = mixPos - piece.done,
         Mixed(outputs, port, piece.done, start, drifted, piece.block),
         Hushed(outputs, port, piece.done, piece.len)
  PROVE  LET o == Processed(len, begun) IN
         /\ Mixed(o, port, piece.done + len, start, loose, piece.block)
         /\ Hushed(o, port, piece.done + len, piece.len)
         /\ (piece.done > 0 => Full(outputs, port, piece.done, mix)) /\ begun = mix.enabled
              => Full(o, port, piece.done + len, mix)
<1> DEFINE o == Processed(len, begun)
           d == piece.done
           n == OutsOf(port)
<1>1. /\ n \in Nat \ {0} /\ d \in Nat /\ mixPos \in Int /\ piece.len \in Nat
      /\ 0 .. piece.len - 1 \subseteq Frames
  BY OutsAre, FramesAre DEF MixTypes
<1>2. ASSUME NEW c \in 0 .. n - 1, NEW f \in 0 .. d + len - 1
      PROVE  /\ d <= f => /\ Fine(o[c][f], c, f, start + f, drifted, piece.block)
                          /\ WhosIn(DOMAIN o[c][f]) = Who(port, mix, begun, c)
             /\ ~(d <= f) => f \in 0 .. d - 1 /\ o[c][f] = outputs[c][f]
  <2>1. c \in Staging /\ f \in Frames /\ f \in Nat /\ c \in Nat /\ c < n
    BY <1>1, OutsAre
  <2>2. CASE d <= f
    <3>1. f \in d .. piece.len - 1 /\ f < d + len
      BY <1>1, <2>2
    <3>2. outputs[c][f] = EmptyBag
      BY <3>1 DEF Hushed
    <3>3. begun => start + f = mixPos + (f - d)
      BY <1>1, <2>1
    <3>4. /\ Fine(o[c][f], c, f, start + f, drifted, piece.block)
          /\ WhosIn(DOMAIN o[c][f]) = Who(port, mix, begun, c)
      <4> DEFINE pos == start + f
      <4>1. begun => pos = mixPos + (f - piece.done)
        BY <3>3
      <4>2. ToMix(len, begun, c, f, pos)
        BY <2>1, <2>2, <3>1, <3>2, <4>1 DEF ToMix
      <4>3. MixedAt(len, begun, c, f, pos)
        BY <4>2, SampleIs
      <4>4. QED BY <4>3 DEF MixedAt
    <3>5. QED BY <2>2, <3>4
  <2>3. CASE ~(d <= f)
    <3>1. f \notin d .. d + len - 1 /\ f \in 0 .. d - 1
      BY <1>1, <2>1, <2>3
    <3>2. o[c][f] = outputs[c][f]
      BY <2>1, <3>1, SampleKept
    <3>3. QED BY <2>3, <3>1, <3>2
  <2>4. QED BY <2>2, <2>3
<1>3. ASSUME NEW c \in 0 .. n - 1, NEW f \in 0 .. d + len - 1
      PROVE  Fine(o[c][f], c, f, start + f, loose, piece.block)
  <2> DEFINE b == o[c][f]
             pos == start + f
  <2>1. Fine(b, c, f, pos, drifted, piece.block)
    <3>1. CASE d <= f
      BY <1>2, <3>1
    <3>2. CASE ~(d <= f)
      <4>1. Fine(outputs[c][f], c, f, start + f, drifted, piece.block)
        BY <1>2, <3>2 DEF Mixed
      <4>2. QED BY <1>2, <3>2, <4>1
    <3>3. QED BY <3>1, <3>2
  <2> HIDE DEF b, pos
  <2>2. \A s : Placed(s, c, f, pos, drifted, piece.block) => Placed(s, c, f, pos, loose, piece.block)
    BY DEF Placed
  <2>3. Fine(b, c, f, pos, loose, piece.block)
    BY <2>1, <2>2 DEF Fine
  <2>4. QED BY <2>3 DEF b, pos
<1>4. ASSUME NEW c \in 0 .. n - 1, NEW f \in d + len .. piece.len - 1
      PROVE  o[c][f] = EmptyBag
  <2>1. c \in Staging /\ f \in Frames /\ f \notin d .. d + len - 1 /\ f \in d .. piece.len - 1
    BY <1>1, OutsAre
  <2>2. o[c][f] = outputs[c][f]
    BY <2>1, SampleKept
  <2>3. QED BY <2>1, <2>2 DEF Hushed
<1>5. ASSUME piece.done > 0 => Full(outputs, port, piece.done, mix), begun = mix.enabled,
             NEW c \in 0 .. n - 1, NEW f \in 0 .. d + len - 1
      PROVE  WhosIn(DOMAIN o[c][f]) = Who(port, mix, mix.enabled, c)
  <2>1. CASE d <= f
    BY <1>2, <1>5, <2>1
  <2>2. CASE ~(d <= f)
    <3>1. d > 0 /\ f \in 0 .. d - 1
      BY <1>1, <2>2
    <3>2. WhosIn(DOMAIN outputs[c][f]) = Who(port, mix, mix.enabled, c)
      BY <1>5, <3>1 DEF Full
    <3>3. QED BY <1>2, <2>2, <3>2
  <2>3. QED BY <2>1, <2>2
<1> HIDE DEF o, n
<1>6. Mixed(o, port, d + len, start, loose, piece.block)
  BY <1>3 DEF Mixed, n
<1>7. Hushed(o, port, d + len, piece.len)
  BY <1>4 DEF Hushed, n
<1>8. (d > 0 => Full(outputs, port, d, mix)) /\ begun = mix.enabled => Full(o, port, d + len, mix)
  BY <1>5 DEF Full, n
<1>9. QED BY <1>6, <1>7, <1>8 DEF o

LEMMA InMonitor ==
  ASSUME MixInv, Monitor
  PROVE  MixInv'
<1>1. /\ phase = "mixing" /\ phase' = "mixed" /\ piece.done = 0 /\ ~mix.enabled
      /\ outputs' = Processed(piece.len, FALSE) /\ piece' = [piece EXCEPT !.done = piece.len]
      /\ UNCHANGED <<port, mix, inputs, hardware, mixPos, reader, way, changed, drifted>>
  BY DEF Monitor
<1>2. /\ way = "mixed" /\ piece.done < piece.len
      /\ Mixed(outputs, port, piece.done, mixPos - piece.done, drifted, piece.block)
      /\ Hushed(outputs, port, piece.done, piece.len)
  BY <1>1 DEF MixInv, Phases
<1>3. /\ piece = [len |-> piece.len, done |-> piece.done, block |-> piece.block]
      /\ piece.len \in Lengths /\ piece.len \in Nat /\ Staged
  BY <1>1, FramesAre DEF MixInv, BlockIs
<1>4. piece' = [len |-> piece.len, done |-> piece.len, block |-> piece.block]
  BY <1>1, <1>3
<1>5. piece'.len = piece.len /\ piece'.done = piece.len /\ piece'.block = piece.block
  BY <1>4
<1>6. MixTypes'
  BY <1>1 DEF MixInv, MixTypes
<1>7. BlockIs'
  BY <1>1, <1>3, <1>4, <1>5 DEF MixInv, BlockIs, Staged
<1> DEFINE k == piece.len
<1>8. /\ MixTypes /\ mix.enabled = FALSE /\ mixPos \in Int
      /\ k \in Nat /\ 0 + k = k /\ k <= k
  <2>1. mix.enabled = FALSE
    BY <1>1, MixIs DEF MixInv, MixTypes
  <2>2. QED BY <1>3, <2>1 DEF MixInv, MixTypes
<1> HIDE DEF k
<1> DEFINE start == mixPos - k
<1>9. /\ Mixed(outputs', port, k, start, drifted, piece.block)
      /\ Full(outputs', port, k, mix)
  <2>1. /\ piece.done \in Nat /\ piece.done + k = k /\ piece.done + k <= piece.len /\ start \in Int
        /\ (piece.done > 0 => Full(outputs, port, piece.done, mix))
    BY <1>1, <1>8 DEF k
  <2> HIDE DEF start
  <2>2. Mixed(outputs, port, piece.done, start, drifted, piece.block)
    <3>1. \A f : f \notin 0 .. 0 - 1
      OBVIOUS
    <3>2. QED BY <1>1, <3>1 DEF Mixed
  <2>3. /\ Mixed(Processed(k, FALSE), port, piece.done + k, start, drifted, piece.block)
        /\ (piece.done > 0 => Full(outputs, port, piece.done, mix)) /\ FALSE = mix.enabled
              => Full(Processed(k, FALSE), port, piece.done + k, mix)
    BY <1>2, <1>3, <1>8, <2>1, <2>2, MoreMixed
  <2>4. outputs' = Processed(k, FALSE)
    BY <1>1 DEF k
  <2>5. QED BY <1>8, <2>1, <2>3, <2>4
<1>10. Phases'
  BY <1>1, <1>2, <1>5, <1>9 DEF Phases, k, start
<1>11. QED BY <1>6, <1>7, <1>10 DEF MixInv

LEMMA InMixPiece ==
  ASSUME MixInv, MixPiece
  PROVE  MixInv'
<1> DEFINE len == Min({piece.len - piece.done, SamplesPerInterval - mixPos})
           loose == drifted \/ ~mix.remote.active
<1>1. /\ phase = "mixing" /\ (mix.enabled \/ piece.done > 0) /\ mixPos < SamplesPerInterval
      /\ outputs' = Processed(len, TRUE) /\ reader' = NextReader(len) /\ drifted' = loose
      /\ piece' = [piece EXCEPT !.done = @ + len]
      /\ phase' = (IF piece'.done = piece.len THEN "mixed" ELSE "mixing")
      /\ mixPos' = mixPos + len
      /\ UNCHANGED <<port, mix, inputs, hardware, way, changed>>
  BY DEF MixPiece
<1>2. /\ way = "mixed" /\ piece.done < piece.len
      /\ Mixed(outputs, port, piece.done, mixPos - piece.done, drifted, piece.block)
      /\ Hushed(outputs, port, piece.done, piece.len)
      /\ ~changed => /\ piece.done > 0 => mix.enabled
                     /\ Full(outputs, port, piece.done, mix)
  BY <1>1 DEF MixInv, Phases
<1>3. /\ piece = [len |-> piece.len, done |-> piece.done, block |-> piece.block]
      /\ piece.len \in Lengths /\ piece.len \in Nat /\ piece.done \in Nat /\ Staged
      /\ SamplesPerInterval \in Nat /\ mixPos \in 0 .. SamplesPerInterval
  BY <1>1, FramesAre, MixAssumption DEF MixInv, MixTypes, BlockIs
<1>4. len \in Nat \ {0} /\ piece.done + len <= piece.len /\ mixPos + len <= SamplesPerInterval
  <2> DEFINE a == piece.len - piece.done
             b == SamplesPerInterval - mixPos
  <2>1. a \in Nat \ {0} /\ b \in Nat \ {0}
    BY <1>1, <1>2, <1>3
  <2> HIDE DEF a, b
  <2>2. Min({a, b}) = IF a <= b THEN a ELSE b
    BY <2>1, Larger
  <2>3. Min({a, b}) \in Nat \ {0} /\ Min({a, b}) <= a /\ Min({a, b}) <= b
    BY <2>1, <2>2
  <2>4. len = Min({a, b})
    BY DEF a, b
  <2> HIDE DEF len
  <2>5. QED BY <1>3, <2>3, <2>4 DEF a, b
<1> HIDE DEF len, loose
<1>5. piece' = [len |-> piece.len, done |-> piece.done + len, block |-> piece.block]
  BY <1>1, <1>3
<1>6. piece'.len = piece.len /\ piece'.done = piece.done + len /\ piece'.block = piece.block
  BY <1>5
<1>7. MixTypes'
  <2>1. MixTypes
    BY DEF MixInv
  <2>2. mixPos' \in 0 .. SamplesPerInterval
    BY <1>1, <1>3, <1>4
  <2>3. /\ reader'.taken \in Nat /\ reader'.state \in 0 .. OutputRate - 1
        /\ ~drifted /\ mix.remote.active =>
              reader'.taken * OutputRate + reader'.state = SourceRate * (mixPos + len)
    BY <1>1, <1>4, <2>1, ReaderGoesOn
  <2>4. ~drifted' => reader'.taken * OutputRate + reader'.state = SourceRate * mixPos'
    BY <1>1, <2>3 DEF loose
  <2>5. QED BY <1>1, <2>1, <2>2, <2>3, <2>4 DEF MixTypes
<1>8. BlockIs'
  <2>1. piece.done + len \in Nat
    BY <1>3, <1>4
  <2>2. phase' \in {"mixing", "mixed"} /\ inputs' = inputs /\ port' = port /\ way' = way
    BY <1>1
  <2>3. Staged'
    BY <1>3, <1>6, <2>2 DEF Staged
  <2>4. QED BY <1>2, <1>3, <1>5, <1>6, <2>1, <2>2, <2>3 DEF BlockIs
<1> DEFINE start == mixPos - piece.done
           d == piece.done + len
<1>9. /\ Mixed(outputs', port, d, start, loose, piece.block)
      /\ Hushed(outputs', port, d, piece.len)
      /\ (piece.done > 0 => Full(outputs, port, piece.done, mix)) /\ TRUE = mix.enabled
              => Full(outputs', port, d, mix)
  <2>1. start \in Int /\ MixTypes /\ (drifted => loose)
    BY <1>3 DEF MixInv, loose
  <2>2. QED BY <1>1, <1>2, <1>3, <1>4, <2>1, MoreMixed
<1>10. /\ start = mixPos' - d /\ d <= piece.len /\ d > 0 /\ d \in Nat
  BY <1>1, <1>3, <1>4
<1> HIDE DEF start
<1>11. ~changed => mix.enabled = TRUE /\ Full(outputs', port, d, mix)
  <2>1. ~changed => mix.enabled = TRUE
    BY <1>1, <1>2, MixIs DEF MixInv, MixTypes
  <2>2. QED BY <1>2, <1>9, <2>1
<1>12. piece'.done = d
  BY <1>6
<1> HIDE DEF d
<1>13. CASE d = piece.len
  <2>1. phase' = "mixed"
    BY <1>1, <1>12, <1>13
  <2>2. Phases'
    BY <1>1, <1>2, <1>6, <1>9, <1>10, <1>11, <1>12, <1>13, <2>1 DEF Phases
  <2>3. QED BY <1>7, <1>8, <2>2 DEF MixInv
<1>14. CASE d # piece.len
  <2>1. phase' = "mixing" /\ d < piece.len
    BY <1>1, <1>3, <1>10, <1>12, <1>14
  <2>2. Phases'
    BY <1>1, <1>2, <1>6, <1>9, <1>10, <1>11, <1>12, <2>1 DEF Phases
  <2>3. QED BY <1>7, <1>8, <2>2 DEF MixInv
<1>15. QED BY <1>13, <1>14
-----------------------------------------------------------------------------
LEMMA MixInvHolds == MixSpec => []MixInv
<1>1. MixInit => MixInv
  BY MixInvInit
<1>2. MixInv /\ [MixNext]_mixVars => MixInv'
  <2> SUFFICES ASSUME MixInv, [MixNext]_mixVars PROVE MixInv'
    OBVIOUS
  <2>1. CASE \E len \in Lengths : CallBlock(len)
    BY <2>1, InCallBlock
  <2>2. CASE CheckOffline
    BY <2>2, InCheckOffline
  <2>3. CASE CheckOnline
    BY <2>3, InCheckOnline
  <2>4. CASE Monitor
    BY <2>4, InMonitor
  <2>5. CASE NextInterval
    BY <2>5, InNextInterval
  <2>6. CASE MixPiece
    BY <2>6, InMixPiece
  <2>7. CASE Return
    BY <2>7, InReturn
  <2>8. CASE Change
    BY <2>8, InChange
  <2>9. CASE UNCHANGED mixVars
    <3>1. /\ UNCHANGED <<port, mix, phase, piece, inputs, outputs, hardware>>
          /\ UNCHANGED <<mixPos, reader, way, changed, drifted>>
      BY <2>9 DEF mixVars
    <3>2. MixTypes' /\ BlockIs'
      BY <3>1 DEF MixInv, MixTypes, BlockIs, Staged
    <3>3. Phases'
      BY <3>1 DEF MixInv, Phases
    <3>4. QED BY <3>2, <3>3 DEF MixInv
  <2>10. QED BY <2>1, <2>2, <2>3, <2>4, <2>5, <2>6, <2>7, <2>8, <2>9 DEF MixNext
<1>3. QED BY <1>1, <1>2, PTL DEF MixSpec

(* A channel that plays is among those to be heard, on some output.        *)
LEMMA WhoPlays ==
  ASSUME NEW p \in Ports, NEW m \in Mixes,
         NEW r \in {l \in PlayingOf(m, m.enabled) : l.src < InsOf(p)}
                  \union {q \in {m.remote} : q.active /\ m.enabled}
  PROVE  \E c \in 0 .. OutsOf(p) - 1 : \E w \in Who(p, m, m.enabled, c) : w[1] = r.name
<1>1. OutsOf(p) \in Nat \ {0}
  BY PortIs
<1>2. r.out \in Nat /\ r.mono \in BOOLEAN
  BY MixIs DEF PlayingOf
<1>3. PICK c \in 0 .. OutsOf(p) - 1 : c = FirstOut(OutsOf(p), r.out, Width(OutsOf(p), r.mono))
  BY <1>1, <1>2, FirstOutIs
<1>4. CASE r \in PlayingOf(m, m.enabled) /\ r.src < InsOf(p)
  <2>1. <<r.name, r.src>> \in InputWho(p, r, r.src)
    BY <1>4 DEF InputWho
  <2>2. <<r.name, r.src>> \in LocalWho(p, r, c)
    BY <1>3, <2>1, SidesAre DEF LocalWho
  <2>3. <<r.name, r.src>> \in Who(p, m, m.enabled, c)
    BY <1>4, <2>2 DEF Who, LocalsWho
  <2>4. <<r.name, r.src>>[1] = r.name
    OBVIOUS
  <2>5. QED BY <2>3, <2>4
<1>5. CASE r = m.remote /\ r.active /\ m.enabled
  <2>1. r.name = "remote"
    BY <1>5, MixIs
  <2>2. <<"remote", "left">> \in RemoteWho(p, m, c)
    BY <1>3, <1>5, SidesAre DEF RemoteWho
  <2>3. <<"remote", "left">> \in Who(p, m, m.enabled, c)
    BY <1>5, <2>2 DEF Who
  <2>4. <<"remote", "left">>[1] = r.name
    BY <2>1
  <2>5. QED BY <2>3, <2>4
<1>6. QED BY <1>4, <1>5

(* What the hardware gets back is its block, mixed once: each sound once,  *)
(* in its place and of this call's input, and whoever is to be heard heard *)
(* in all of it, wherever the interval's end cuts the block and whatever   *)
(* the app and the connection do meanwhile, except where the connection    *)
(* goes down between the two looks of audiostreamOnSamples.                *)
THEOREM MixingOnce == MixSpec => []MixedOnce
<1>1. MixInv => MixedOnce
  <2> SUFFICES ASSUME MixInv, phase = "away", way # "torn" PROVE MixedOnce
    BY DEF MixedOnce
  <2> DEFINE Now == 0 .. piece.len - 1
             D == DOMAIN hardware
             n == OutsOf(port)
             start == mixPos - piece.len
  <2>1. /\ way = "silent" => \A c \in D, f \in Now : hardware[c][f] = EmptyBag
        /\ way = "mixed" =>
             /\ piece.len \in Lengths
             /\ 0 .. n - 1 \subseteq D
             /\ D \subseteq Nat
             /\ Mixed(hardware, port, piece.len, start, drifted, piece.block)
             /\ ~changed => Full(hardware, port, piece.len, mix)
             /\ \A c \in D, f \in Now : c >= n => hardware[c][f] = EmptyBag
    BY DEF MixInv, Phases
  <2>2. way \in {"silent", "mixed"} /\ port \in Ports /\ mix \in Mixes
    BY DEF MixInv, BlockIs, MixTypes
  <2>3. n \in Nat \ {0}
    BY <2>2, PortIs
  <2>4. \A c \in D : way = "mixed" => c >= n \/ c \in 0 .. n - 1
    BY <2>1, <2>3
  <2> HIDE DEF n, D, Now, start
  <2>5. ASSUME NEW c \in D, NEW f \in Now, NEW s \in DOMAIN hardware[c][f]
        PROVE  hardware[c][f][s] = 1 /\ InPlace(s, c, f)
    <3>1. hardware[c][f] # EmptyBag
      BY NoBag
    <3>2. way = "mixed" /\ c \in 0 .. n - 1
      BY <2>1, <2>2, <2>4, <3>1
    <3>3. Fine(hardware[c][f], c, f, start + f, drifted, piece.block)
      BY <2>1, <3>2 DEF Mixed, n, Now
    <3>4. hardware[c][f][s] = 1 /\ Placed(s, c, f, start + f, drifted, piece.block)
      BY <3>3 DEF Fine
    <3>5. mix.remote.name = "remote"
      BY <2>2, MixIs
    <3>6. InPlace(s, c, f)
      BY <3>4, <3>5 DEF InPlace, Placed, PosOf, start
    <3>7. QED BY <3>4, <3>6
  <2>6. ASSUME way = "mixed", ~changed
        PROVE  /\ \A c \in D, f \in Now : HeardBy(c, f) = HeardBy(c, 0)
               /\ \A r \in {l \in MixedLocals(mix.enabled) : l.active /\ l.src < InsOf(port)}
                          \union {q \in {mix.remote} : q.active /\ mix.enabled} :
                    \E c \in D : \E w \in HeardBy(c, 0) : w[1] = r.name
    <3>1. 0 \in Now
      BY <2>1, <2>6, FramesAre DEF Now
    <3>2. ASSUME NEW c \in 0 .. n - 1, NEW f \in Now
          PROVE  HeardBy(c, f) = Who(port, mix, mix.enabled, c)
      <4>1. WhosIn(DOMAIN hardware[c][f]) = Who(port, mix, mix.enabled, c)
        BY <2>1, <2>6 DEF Full, n, Now
      <4>2. QED BY <4>1 DEF HeardBy, WhosIn
    <3>3. ASSUME NEW c \in D, NEW f \in Now, c >= n PROVE HeardBy(c, f) = {}
      <4>1. hardware[c][f] = EmptyBag
        BY <2>1, <2>6, <3>3
      <4>2. QED BY <4>1, NoBag DEF HeardBy
    <3>4. ASSUME NEW c \in D, NEW f \in Now PROVE HeardBy(c, f) = HeardBy(c, 0)
      BY <2>4, <2>6, <3>1, <3>2, <3>3
    <3>5. ASSUME NEW r \in {l \in MixedLocals(mix.enabled) : l.active /\ l.src < InsOf(port)}
                          \union {q \in {mix.remote} : q.active /\ mix.enabled}
          PROVE  \E c \in D : \E w \in HeardBy(c, 0) : w[1] = r.name
      <4>1. r \in {l \in PlayingOf(mix, mix.enabled) : l.src < InsOf(port)}
                 \union {q \in {mix.remote} : q.active /\ mix.enabled}
        BY DEF MixedLocals, PlayingOf
      <4>2. PICK c \in 0 .. n - 1 : \E w \in Who(port, mix, mix.enabled, c) : w[1] = r.name
        BY <2>2, <4>1, WhoPlays DEF n
      <4>3. c \in D /\ HeardBy(c, 0) = Who(port, mix, mix.enabled, c)
        BY <2>1, <2>6, <3>1, <3>2
      <4>4. QED BY <4>2, <4>3
    <3>6. QED BY <3>4, <3>5
  <2>7. QED BY <2>5, <2>6 DEF MixedOnce, D, Now
<1>2. QED BY <1>1, MixInvHolds, PTL
=============================================================================
