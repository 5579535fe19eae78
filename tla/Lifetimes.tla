------------------------------ MODULE Lifetimes ------------------------------
(***************************************************************************)
(* The arithmetic of ttl.py and of the age in a status document.  Moments  *)
(* are counted in half seconds, so that a moment need not fall on a        *)
(* second; tags hold whole seconds.  A lifetime is asked for as a number   *)
(* and a unit.                                                             *)
(***************************************************************************)
EXTENDS Integers

CONSTANTS
    Counts,     \* the numbers asked for
    Launches,   \* the moments of a launch
    Offsets,    \* how long before or after its end a node is looked at, in half seconds
    MaxAsked    \* bound on the lifetimes asked for, in seconds

ASSUME LifetimesAssumption == /\ Counts \subseteq Nat
                              /\ Launches \subseteq Nat
                              /\ Offsets \subseteq Nat
                              /\ MaxAsked \in Nat

VARIABLE asked      \* a lifetime, the moment of the launch and a later moment

Minute == 60
Hour == 3600
DayLong == 86400
UnitSeconds == [m |-> Minute, h |-> Hour, d |-> DayLong]
MaxTtl == 365 * DayLong

\* rfc3339: whole seconds, the rest cut off.
Rfc3339(moment) == moment \div 2

\* Mutant: the least lifetime is refused.
AcceptedAboveMinute(seconds) == Minute < seconds /\ seconds <= MaxTtl

\* The lifetimes parse_ttl takes; the others are refused with 400.
Accepted(seconds) == Minute <= seconds /\ seconds <= MaxTtl

\* The expiry tag, and whether it is past.
ParseTtl(seconds, launch) == Rfc3339(launch + 2 * seconds)
IsExpired(expires, moment) == 2 * expires <= moment

Clamp(seconds) == IF seconds > 0 THEN seconds ELSE 0

\* Mutant: the hours are looked at first.
FormatDurationByHours(seconds) ==
    LET s == Clamp(seconds)
        days == s \div DayLong
        hours == (s % DayLong) \div Hour
        minutes == (s % Hour) \div Minute
    IN  IF hours = 0 THEN [m |-> minutes]
        ELSE IF days = 0 THEN [h |-> hours, m |-> minutes]
        ELSE [d |-> days, h |-> hours, m |-> minutes]

\* format_duration: days, hours and minutes; what is zero in front is not printed.
FormatDuration(seconds) ==
    LET s == Clamp(seconds)
        days == s \div DayLong
        hours == (s % DayLong) \div Hour
        minutes == (s % Hour) \div Minute
    IN  IF days > 0 THEN [d |-> days, h |-> hours, m |-> minutes]
        ELSE IF hours > 0 THEN [h |-> hours, m |-> minutes]
        ELSE [m |-> minutes]

\* The age in the status: from the launch tag, in whole seconds.
Age(launch, moment) == (moment - 2 * Rfc3339(launch)) \div 2

-----------------------------------------------------------------------------
Seconds(input) == input.count * UnitSeconds[input.unit]
Expiry(input) == ParseTtl(Seconds(input), input.launch)
Moment(input) == input.launch + 2 * Seconds(input) + input.offset

Inputs ==
    {input \in [count: Counts, unit: DOMAIN UnitSeconds, launch: Launches,
                offset: Offsets \cup {-k : k \in Offsets}] :
        /\ input.count <= MaxAsked \div UnitSeconds[input.unit]
        /\ Moment(input) >= input.launch}

Init == asked \in Inputs
Next == asked' \in Inputs
Spec == Init /\ [][Next]_asked

-----------------------------------------------------------------------------
Part(f, unit) == IF unit \in DOMAIN f THEN f[unit] ELSE 0
ReadBack(f) == Part(f, "d") * DayLong + Part(f, "h") * Hour + Part(f, "m") * Minute

\* What format_duration prints reads back as the duration less its odd seconds, with
\* hours below 24 and minutes below 60; it leaves out days, or days and hours, that
\* are zero, and nothing in between.
ReadsBack(seconds) ==
    LET f == FormatDuration(seconds)
    IN  /\ Part(f, "h") \in 0 .. 23
        /\ Part(f, "m") \in 0 .. 59
        /\ seconds - ReadBack(f) \in 0 .. 59
        /\ \/ DOMAIN f = {"d", "h", "m"} /\ f.d > 0
           \/ DOMAIN f = {"h", "m"} /\ f.h > 0
           \/ DOMAIN f = {"m"}

\* The age that a status prints, in the shortest form, is short of the time since the
\* launch by less than a minute, and never ahead of it by more than the half second
\* that the launch tag lost.
AgeIsRight ==
    LET age == Age(asked.launch, Moment(asked))
    IN  /\ ReadsBack(age)
        /\ 2 * age - (Moment(asked) - asked.launch) \in -1 .. 1

\* A lifetime of a minute to a year is taken, in any unit; the node is past it when
\* it has run that long, and not a second earlier.
LifetimeIsKept ==
    /\ Accepted(Seconds(asked)) <=> Seconds(asked) \div Minute \in 1 .. 365 * 24 * 60
    /\ asked.offset >= 0 => IsExpired(Expiry(asked), Moment(asked))
    /\ asked.offset <= -2 => ~IsExpired(Expiry(asked), Moment(asked))
=============================================================================
