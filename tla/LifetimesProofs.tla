--------------------------- MODULE LifetimesProofs ---------------------------
(***************************************************************************)
(* The arithmetic of durations and lifetimes, for every duration, every    *)
(* lifetime and every moment.                                              *)
(***************************************************************************)
EXTENDS Lifetimes, TLAPS

\* What format_duration prints reads back as any duration, less its odd seconds, and
\* has no zero in front, unless it is minutes.
THEOREM DurationReadsBack == ASSUME NEW seconds \in Nat PROVE ReadsBack(seconds)
  <1>. DEFINE days == seconds \div DayLong
              hours == (seconds % DayLong) \div Hour
              minutes == (seconds % Hour) \div Minute
  <1>1. Clamp(seconds) = seconds
    BY DEF Clamp
  <1>2. /\ days \in Nat /\ hours \in 0 .. 23 /\ minutes \in 0 .. 59
        /\ seconds - (days * DayLong + hours * Hour + minutes * Minute) \in 0 .. 59
    BY SMT DEF DayLong, Hour, Minute
  <1>. DEFINE f == FormatDuration(seconds)
  <1>3. f = IF days > 0 THEN [d |-> days, h |-> hours, m |-> minutes]
            ELSE IF hours > 0 THEN [h |-> hours, m |-> minutes]
            ELSE [m |-> minutes]
    BY <1>1 DEF FormatDuration
  <1>. HIDE DEF days, hours, minutes
  <1>4. /\ Part(f, "d") = days /\ Part(f, "h") = hours /\ Part(f, "m") = minutes
        /\ \/ DOMAIN f = {"d", "h", "m"} /\ f.d > 0
           \/ DOMAIN f = {"h", "m"} /\ f.h > 0
           \/ DOMAIN f = {"m"}
    <2>1. CASE days > 0
      BY <1>3, <2>1 DEF Part
    <2>2. CASE ~(days > 0) /\ hours > 0
      BY <1>2, <1>3, <2>2 DEF Part
    <2>3. CASE ~(days > 0) /\ ~(hours > 0)
      BY <1>2, <1>3, <2>3 DEF Part
    <2>. QED
      BY <2>1, <2>2, <2>3
  <1>. QED
    BY <1>2, <1>4 DEF ReadsBack, ReadBack

\* A launch tag loses less than a second, so an age is a duration, and right to half
\* a second.
LEMMA AgeOfRun ==
    ASSUME NEW launch \in Nat, NEW moment \in Nat, moment >= launch
    PROVE  /\ Age(launch, moment) \in Nat
           /\ 2 * Age(launch, moment) - (moment - launch) \in -1 .. 1
  BY SMT DEF Age, Rfc3339

LEMMA InputTypes ==
    ASSUME NEW input \in Inputs
    PROVE  /\ input.launch \in Nat
           /\ input.offset \in Int
           /\ Seconds(input) \in Nat
           /\ Seconds(input) % Minute = 0
           /\ Moment(input) \in Nat
           /\ Moment(input) >= input.launch
  <1>1. /\ input.count \in Nat /\ input.launch \in Nat /\ input.unit \in {"m", "h", "d"}
        /\ Moment(input) >= input.launch
    BY LifetimesAssumption DEF Inputs, UnitSeconds
  <1>2. input.offset \in Int
    <2>1. /\ input.offset \in Offsets \cup {-k : k \in Offsets}
          /\ \A k \in Offsets : k \in Int /\ -k \in Int
      BY LifetimesAssumption DEF Inputs
    <2>2. CASE input.offset \in Offsets
      BY <2>1, <2>2
    <2>3. CASE \E k \in Offsets : input.offset = -k
      BY <2>1, <2>3
    <2>. QED
      BY <2>1, <2>2, <2>3
  <1>3. UnitSeconds[input.unit] \in {60, 3600, 86400}
    BY <1>1 DEF UnitSeconds, Minute, Hour, DayLong
  <1>4. Seconds(input) \in Nat /\ Seconds(input) % Minute = 0
    <2>. DEFINE count == input.count
                unit == UnitSeconds[input.unit]
    <2>1. \A c \in Nat : \A u \in {60, 3600, 86400} : c * u \in Nat /\ (c * u) % 60 = 0
      OBVIOUS
    <2>. QED
      BY <1>1, <1>3, <2>1 DEF Seconds, Minute
  <1>. QED
    BY <1>1, <1>2, <1>4 DEF Moment

LEMMA AskedIsInput == Spec => [](asked \in Inputs)
  <1>1. Init => asked \in Inputs
    BY DEF Init
  <1>2. asked \in Inputs /\ [Next]_asked => (asked \in Inputs)'
    BY DEF Next, Inputs, Moment, Seconds
  <1>. QED
    BY <1>1, <1>2, PTL DEF Spec

\* The age in a status is right to the minute, whenever it is asked for.
THEOREM AgeIsAlwaysRight == Spec => []AgeIsRight
  <1>1. asked \in Inputs => AgeIsRight
    BY InputTypes, AgeOfRun, DurationReadsBack DEF AgeIsRight
  <1>. QED
    BY <1>1, AskedIsInput, PTL

\* A lifetime of a minute to a year is taken, and is kept to the second.
THEOREM LifetimeIsAlwaysKept == Spec => []LifetimeIsKept
  <1>1. ASSUME asked \in Inputs PROVE LifetimeIsKept
    <2>. DEFINE s == Seconds(asked)
    <2>1. s \in Nat /\ s % Minute = 0 /\ asked.launch \in Nat /\ asked.offset \in Int
      BY <1>1, InputTypes
    <2>2. Accepted(s) <=> s \div Minute \in 1 .. 365 * 24 * 60
      <3>1. \A t \in Nat : t % 60 = 0 => t = 60 * (t \div 60) /\ t \div 60 \in Nat
        OBVIOUS
      <3>2. s = 60 * (s \div 60) /\ s \div 60 \in Nat
        BY <2>1, <3>1 DEF Minute
      <3>3. Accepted(s) <=> 60 <= s /\ s <= 365 * 86400
        BY SMT DEF Accepted, Minute, MaxTtl, DayLong
      <3>4. s \div Minute = s \div 60
        BY DEF Minute
      <3>. HIDE DEF s
      <3>. DEFINE k == s \div 60
      <3>5. s = 60 * k /\ k \in Nat
        BY <3>2
      <3>. HIDE DEF k
      <3>6. 60 <= 60 * k <=> 1 <= k
        BY <3>5, SMT
      <3>7. 60 * k <= 365 * 86400 <=> k <= 365 * 24 * 60
        BY <3>5, SMT
      <3>. DEFINE top == 365 * 24 * 60
      <3>. top \in Int
        BY SMT
      <3>. HIDE DEF top
      <3>8. k \in 1 .. top <=> 1 <= k /\ k <= top
        BY <3>5, SMT
      <3>9. 60 <= s /\ s <= 365 * 86400 <=> 1 <= k /\ k <= top
        BY <3>5, <3>6, <3>7 DEF top
      <3>10. s \div Minute = k
        BY <3>4 DEF k
      <3>11. Accepted(s) <=> s \div Minute \in 1 .. top
        BY <3>3, <3>8, <3>9, <3>10
      <3>. QED
        BY <3>11 DEF top
    <2>3. IsExpired(Expiry(asked), Moment(asked)) <=>
             2 * ((asked.launch + 2 * s) \div 2) <= asked.launch + 2 * s + asked.offset
      BY DEF IsExpired, Expiry, ParseTtl, Rfc3339, Moment
    <2>4. /\ asked.offset >= 0 => IsExpired(Expiry(asked), Moment(asked))
          /\ asked.offset <= -2 => ~IsExpired(Expiry(asked), Moment(asked))
      <3>. HIDE DEF s
      <3>. QED
        BY <2>1, <2>3, SMT
    <2>. QED
      BY <2>2, <2>4 DEF LifetimeIsKept
  <1>. QED
    BY <1>1, AskedIsInput, PTL
=============================================================================
