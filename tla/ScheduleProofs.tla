---------------------------- MODULE ScheduleProofs ----------------------------
(***************************************************************************)
(* Proofs about Schedule, for every set of calls, users, settings, times   *)
(* and faults.                                                             *)
(***************************************************************************)
EXTENDS Schedule, TLAPS

(***************************************************************************)
(* Reminder times, for every type and every time between creation and      *)
(* target                                                                  *)
(***************************************************************************)

\* Rounding moves a time by half a minute at most.
LEMMA Rounding ==
    ASSUME NEW h \in Nat, NEW o \in RoundToMinute(h)
    PROVE  \E q \in Nat : o = 60 * q /\ q * 6000 <= h + 3000 /\ h + 2999 < q * 6000 + 6000
<1>1. PICK half \in {2999, 3000} : o = Minute * ((h + half) \div 6000)
    BY DEF RoundToMinute
<1>2. PICK q : q = (h + half) \div 6000
    OBVIOUS
<1>3. q \in Nat /\ q * 6000 <= h + half /\ h + half < q * 6000 + 6000
    BY <1>2
<1>4. o = 60 * q
    BY <1>1, <1>2 DEF Minute
<1> QED BY <1>3, <1>4

\* Later fractions are rounded to later minutes.
LEMMA RoundingRises ==
    ASSUME NEW h \in Nat, NEW k \in Nat, NEW o \in RoundToMinute(h), NEW u \in RoundToMinute(k)
    PROVE  /\ o \in Nat /\ u \in Nat
           /\ h < k \/ h = 0 => o <= u
           /\ h + 6000 < k => o + 1 <= u
           /\ 3000 < h => 1 <= o
<1>1. PICK p \in Nat : o = 60 * p /\ p * 6000 <= h + 3000 /\ h + 2999 < p * 6000 + 6000
    BY Rounding
<1>2. PICK q \in Nat : u = 60 * q /\ q * 6000 <= k + 3000 /\ k + 2999 < q * 6000 + 6000
    BY Rounding
<1>3. h < k \/ h = 0 => p <= q
    BY <1>1, <1>2
<1>4. h + 6000 < k => p < q
    BY <1>1, <1>2
<1>5. 3000 < h => 0 < p
    BY <1>1
<1> QED BY <1>1, <1>2, <1>3, <1>4, <1>5

\* What the loop has collected after each offset.
Kept(f, created, target, o) ==
    /\ DOMAIN f = 0..Len(o) /\ f[0] = <<>>
    /\ \A n \in 1..Len(o) :
          f[n] = IF created + o[n] <= target THEN Append(f[n - 1], created + o[n]) ELSE f[n - 1]

\* The loop takes three steps at most, so its results can be written down.
LEMMA KeptExists ==
    ASSUME NEW created \in Int, NEW target \in Int, NEW o \in Seq(Nat), Len(o) <= 3
    PROVE  \E f : Kept(f, created, target, o) /\ UpToTarget(created, target, o) = f[Len(o)]
<1> DEFINE F(kept) == [n \in 0..Len(o) |->
            IF n = 0 THEN <<>>
            ELSE IF created + o[n] <= target THEN Append(kept[n - 1], created + o[n])
            ELSE kept[n - 1]]
           one == IF created + o[1] <= target THEN Append(<<>>, created + o[1]) ELSE <<>>
           two == IF created + o[2] <= target THEN Append(one, created + o[2]) ELSE one
           three == IF created + o[3] <= target THEN Append(two, created + o[3]) ELSE two
           g == [n \in 0..Len(o) |-> IF n = 0 THEN <<>> ELSE IF n = 1 THEN one
                                     ELSE IF n = 2 THEN two ELSE three]
           f == CHOOSE kept : kept = F(kept)
<1>1. g = F(g)
    <2>1. ASSUME NEW n \in 0..Len(o) PROVE g[n] = F(g)[n]
        <3>1. F(g)[n] = IF n = 0 THEN <<>>
                        ELSE IF created + o[n] <= target THEN Append(g[n - 1], created + o[n])
                        ELSE g[n - 1]
            OBVIOUS
        <3>2. \A i \in 0..Len(o) : g[i] = IF i = 0 THEN <<>> ELSE IF i = 1 THEN one
                                         ELSE IF i = 2 THEN two ELSE three
            OBVIOUS
        <3> HIDE DEF F, g
        <3>3. CASE n = 0
            BY <3>1, <3>2, <3>3
        <3>4. CASE n = 1
            <4>1. g[n - 1] = <<>> /\ g[n] = one
                BY <3>2, <3>4
            <4>2. F(g)[n] = IF created + o[1] <= target THEN Append(<<>>, created + o[1]) ELSE <<>>
                BY <3>1, <3>4, <4>1
            <4> QED BY <4>1, <4>2
        <3>5. CASE n = 2
            <4>1. g[1] = one /\ g[2] = two
                BY <3>2, <3>5
            <4> HIDE DEF one
            <4> QED BY <3>1, <3>5, <4>1
        <3>6. CASE n = 3
            <4>1. g[2] = two /\ g[3] = three
                BY <3>2, <3>6
            <4> HIDE DEF one, two
            <4> QED BY <3>1, <3>6, <4>1
        <3> QED BY <3>3, <3>4, <3>5, <3>6
    <2>2. DOMAIN g = 0..Len(o) /\ DOMAIN F(g) = 0..Len(o)
        OBVIOUS
    <2>3. g = [n \in 0..Len(o) |-> g[n]] /\ F(g) = [n \in 0..Len(o) |-> F(g)[n]]
        OBVIOUS
    <2> HIDE DEF F, g
    <2> QED BY <2>1, <2>3
<1>2. f = F(f)
    <2> HIDE DEF F, g
    <2> QED BY <1>1
<1>3. Kept(f, created, target, o)
    <2>1. f = [n \in 0..Len(o) |->
            IF n = 0 THEN <<>>
            ELSE IF created + o[n] <= target THEN Append(f[n - 1], created + o[n])
            ELSE f[n - 1]]
        BY <1>2
    <2> HIDE DEF f
    <2>2. DOMAIN f = 0..Len(o)
        BY <2>1
    <2>3. \A n \in 0..Len(o) : f[n] =
            IF n = 0 THEN <<>>
            ELSE IF created + o[n] <= target THEN Append(f[n - 1], created + o[n])
            ELSE f[n - 1]
        BY <2>1
    <2>4. f[0] = <<>>
        BY <2>3
    <2>5. \A n \in 1..Len(o) : n \in 0..Len(o) /\ n # 0
        OBVIOUS
    <2> QED BY <2>2, <2>3, <2>4, <2>5 DEF Kept
<1>4. UpToTarget(created, target, o) = f[Len(o)]
    BY DEF UpToTarget
<1> QED BY <1>3, <1>4

\* In order, between low and high, and at least so many seconds apart.
Apart(times, low, high, gap) ==
    /\ times \in Seq(Nat)
    /\ \A i \in 1..Len(times) : low + gap <= times[i] /\ times[i] <= high
    /\ \A i \in 1..Len(times) - 1 : times[i] + gap <= times[i + 1]

LEMMA AppendApart ==
    ASSUME NEW s, NEW low \in Nat, NEW high \in Nat, NEW gap \in Nat, NEW x \in Nat,
           Apart(s, low, high, gap), high <= x, low + gap <= x,
           s # <<>> => s[Len(s)] + gap <= x
    PROVE  Apart(Append(s, x), low, x, gap)
<1> DEFINE t == Append(s, x)
<1>1. /\ s \in Seq(Nat) /\ t \in Seq(Nat) /\ Len(t) = Len(s) + 1 /\ t[Len(s) + 1] = x
      /\ \A i \in 1..Len(s) : t[i] = s[i]
    BY DEF Apart
<1> HIDE DEF t
<1>2. /\ Len(s) \in Nat
      /\ \A i \in 1..Len(s) : s[i] \in Nat /\ low + gap <= s[i] /\ s[i] <= high
    BY DEF Apart
<1>3. ASSUME NEW i \in 1..Len(t) PROVE t[i] \in Nat /\ low + gap <= t[i] /\ t[i] <= x
    <2>1. CASE i = Len(s) + 1
        BY <1>1, <2>1
    <2>2. CASE i \in 1..Len(s)
        <3>1. t[i] = s[i]
            BY <1>1, <2>2
        <3>2. s[i] \in Nat /\ low + gap <= s[i] /\ s[i] <= high
            BY <1>2, <2>2
        <3> QED BY <3>1, <3>2
    <2> QED BY <1>1, <1>2, <2>1, <2>2
<1>4. ASSUME NEW i \in 1..Len(t) - 1 PROVE t[i] + gap <= t[i + 1]
    <2>1. CASE i = Len(s)
        BY <1>1, <1>2, <1>3, <2>1
    <2>2. CASE i \in 1..Len(s) - 1
        <3>1. i \in 1..Len(s) /\ i + 1 \in 1..Len(s)
            BY <1>2, <2>2
        <3>2. t[i] = s[i] /\ t[i + 1] = s[i + 1]
            BY <1>1, <3>1
        <3>3. s[i] + gap <= s[i + 1]
            BY <2>2 DEF Apart
        <3> QED BY <3>2, <3>3
    <2> QED BY <1>1, <1>2, <2>1, <2>2
<1> QED BY <1>1, <1>3, <1>4 DEF Apart, t

LEMMA WiderApart ==
    ASSUME NEW s, NEW low \in Nat, NEW high \in Nat, NEW gap \in Nat, NEW higher \in Nat,
           Apart(s, low, high, gap), high <= higher
    PROVE  Apart(s, low, higher, gap)
<1>1. \A i \in 1..Len(s) : s[i] \in Nat
    BY DEF Apart
<1> QED BY <1>1 DEF Apart

\* Offsets at least so many seconds apart, and from the creation.
Rise(o, gap) ==
    /\ o \in Seq(Nat) /\ Len(o) \in {2, 3}
    /\ gap <= o[1]
    /\ \A i \in 1..Len(o) - 1 : o[i] + gap <= o[i + 1]

LEMMA KeptApart ==
    ASSUME NEW created \in Nat, NEW target \in Nat, NEW gap \in Nat, NEW o,
           Rise(o, gap), created <= target
    PROVE  Apart(UpToTarget(created, target, o), created, target, gap)
<1>0. o \in Seq(Nat) /\ Len(o) \in {2, 3} /\ \A i \in 1..Len(o) : o[i] \in Nat
    BY DEF Rise
<1>1. PICK f : Kept(f, created, target, o) /\ UpToTarget(created, target, o) = f[Len(o)]
    BY <1>0, KeptExists
<1> DEFINE At(n) == created + o[n]
           Good(n) == /\ Apart(f[n], created, At(n), gap)
                      /\ Apart(f[n], created, target, gap)
<1>2. Apart(<<>>, created, target, gap)
    BY DEF Apart
<1>3. Good(1)
    <2>1. f[1] = IF At(1) <= target THEN Append(<<>>, At(1)) ELSE <<>>
        <3>1. 1 \in 1..Len(o) /\ 1 - 1 = 0
            <4>1. Len(o) = 2 \/ Len(o) = 3
                BY <1>0
            <4> QED BY <4>1
        <3>2. f[1] = IF created + o[1] <= target THEN Append(f[1 - 1], created + o[1]) ELSE f[1 - 1]
            BY <1>1, <3>1 DEF Kept
        <3> QED BY <1>1, <3>1, <3>2 DEF Kept
    <2>2. At(1) \in Nat /\ created + gap <= At(1)
        BY <1>0 DEF Rise
    <2>3. Apart(<<>>, created, created, gap) /\ Apart(<<>>, created, At(1), gap)
        BY <2>2 DEF Apart
    <2>4. Apart(Append(<<>>, At(1)), created, At(1), gap)
        <3> PICK a, none : a = At(1) /\ none = <<>>
            OBVIOUS
        <3>1. a \in Nat /\ created + gap <= a /\ created <= a /\ Apart(none, created, created, gap)
            BY <2>2, <2>3
        <3>2. Apart(Append(none, a), created, a, gap)
            BY <3>1, AppendApart
        <3> QED BY <3>2
    <2> HIDE DEF At
    <2> QED BY <1>2, <2>1, <2>2, <2>3, <2>4, WiderApart
<1>4. ASSUME NEW n \in 2..Len(o), Good(n - 1) PROVE Good(n)
    <2>1. f[n] = IF At(n) <= target THEN Append(f[n - 1], At(n)) ELSE f[n - 1]
        BY <1>0, <1>1 DEF Kept
    <2>2. /\ At(n) \in Nat /\ At(n - 1) \in Nat /\ At(n - 1) + gap <= At(n)
          /\ created + gap <= At(n)
        <3>1. o[n] \in Nat /\ o[n - 1] \in Nat /\ o[n - 1] + gap <= o[n]
            BY <1>0 DEF Rise
        <3> QED BY <3>1
    <2> PICK a, b, s : a = At(n) /\ b = At(n - 1) /\ s = f[n - 1]
        OBVIOUS
    <2>3. /\ f[n] = IF a <= target THEN Append(s, a) ELSE s
          /\ a \in Nat /\ b \in Nat /\ b + gap <= a /\ created + gap <= a
          /\ Apart(s, created, b, gap) /\ Apart(s, created, target, gap)
        BY <2>1, <2>2, <1>4
    <2>4. s # <<>> => s[Len(s)] + gap <= a
        <3> SUFFICES ASSUME s # <<>> PROVE s[Len(s)] + gap <= a
            OBVIOUS
        <3>1. s \in Seq(Nat) /\ Len(s) \in 1..Len(s)
            BY <2>3 DEF Apart
        <3>2. s[Len(s)] \in Nat
            BY <3>1
        <3>3. s[Len(s)] <= b
            BY <2>3, <3>1 DEF Apart
        <3> PICK last : last = s[Len(s)]
            OBVIOUS
        <3>4. last \in Nat /\ last <= b /\ b + gap <= a /\ a \in Nat /\ b \in Nat
            BY <2>3, <3>2, <3>3
        <3>5. last + gap <= a
            BY <3>4
        <3> QED BY <3>5
    <2>5. b <= a
        BY <2>3
    <2>6. Apart(s, created, a, gap)
        BY <2>3, <2>5, WiderApart
    <2>7. Apart(Append(s, a), created, a, gap)
        BY <2>3, <2>4, <2>5, AppendApart
    <2>8. a <= target => Apart(Append(s, a), created, target, gap)
        BY <2>3, <2>7, WiderApart
    <2>9. Apart(f[n], created, a, gap) /\ Apart(f[n], created, target, gap)
        BY <2>3, <2>6, <2>7, <2>8
    <2> QED BY <2>9
<1> HIDE DEF Good
<1>5. Good(2)
    <2>1. 2 \in 2..Len(o) /\ 2 - 1 = 1
        BY <1>0
    <2> QED BY <1>3, <1>4, <2>1
<1>6. CASE Len(o) = 2
    BY <1>1, <1>5, <1>6 DEF Good
<1>7. CASE Len(o) = 3
    <2>1. 3 \in 2..Len(o) /\ 3 - 1 = 2
        BY <1>7
    <2>2. Good(3)
        BY <1>4, <1>5, <2>1
    <2> QED BY <1>1, <1>7, <2>2 DEF Good
<1> QED BY <1>0, <1>6, <1>7

\* The target is the last reminder, and the others are before it.
LEMMA RemindersApart ==
    ASSUME NEW created \in Nat, NEW target \in Nat, NEW gap \in {0, 1}, NEW o,
           Rise(o, gap), created + gap <= target
    PROVE  LET times == Reminders(created, target, o)
           IN /\ Apart(times, created, target, gap)
              /\ times # <<>> /\ times[Len(times)] = target
<1> PICK kept : kept = UpToTarget(created, target, o)
    OBVIOUS
<1> PICK times : times = Reminders(created, target, o)
    OBVIOUS
<1>1. Apart(kept, created, target, gap)
    BY KeptApart
<1>2. kept \in Seq(Nat) /\ (kept # <<>> => kept[Len(kept)] \in Nat /\ kept[Len(kept)] <= target)
    <2>1. kept \in Seq(Nat) /\ (kept # <<>> => Len(kept) \in 1..Len(kept))
        BY <1>1 DEF Apart
    <2> QED BY <1>1, <2>1 DEF Apart
<1>3. CASE kept # <<>> /\ kept[Len(kept)] = target
    BY <1>1, <1>3 DEF Reminders
<1>4. CASE ~(kept # <<>> /\ kept[Len(kept)] = target)
    <2>1. times = Append(kept, target)
        BY <1>4 DEF Reminders
    <2>2. Apart(times, created, target, gap)
        BY <1>1, <1>2, <1>4, <2>1, AppendApart
    <2>3. times # <<>> /\ times[Len(times)] = target
        BY <1>2, <2>1
    <2> QED BY <2>2, <2>3
<1> QED BY <1>3, <1>4

LEMMA IntervalsAre ==
    ASSUME NEW type \in Types, NEW total \in Nat
    PROVE  IntervalsOf(type, total) \in {<<70, 96>>, <<56, 89>>, <<35, 65, 87>>}
BY DEF IntervalsOf, IntervalsForDuration, Intervals, Types, PeriodTypes

LEMMA OffsetsRise ==
    ASSUME NEW type \in Types, NEW total \in Nat, NEW o \in Offsets(type, total)
    PROVE  Rise(o, 0) /\ (total >= 5 * Minute => Rise(o, 1))
<1> PICK p : p = IntervalsOf(type, total)
    OBVIOUS
<1>1. p \in {<<70, 96>>, <<56, 89>>, <<35, 65, 87>>}
    BY IntervalsAre
<1>2. /\ DOMAIN o = DOMAIN p /\ \A i \in DOMAIN p : o[i] \in RoundToMinute(total * p[i])
      /\ \E S : o \in [DOMAIN p -> S]
    BY DEF Offsets
<1>3. DOMAIN p = 1..Len(p) /\ Len(p) \in {2, 3}
    BY <1>1
<1>4. \A i \in 1..Len(p) - 1 : p[i] \in Nat /\ p[i + 1] \in Nat /\ p[i] + 22 <= p[i + 1]
    BY <1>1
<1>5. /\ p[1] \in Nat /\ 35 <= p[1]
      /\ \A i \in DOMAIN p : p[i] \in Nat
    BY <1>1
<1>6. \A i \in DOMAIN p : total * p[i] \in Nat
    BY <1>5
<1>7. \A i \in DOMAIN p : o[i] \in Nat
    BY <1>2, <1>6, RoundingRises
<1>8. o \in Seq(Nat) /\ Len(o) = Len(p)
    <2>1. o \in [1..Len(p) -> Nat]
        BY <1>2, <1>3, <1>7
    <2> QED BY <1>3, <2>1
<1>9. total >= 5 * Minute => 1 <= o[1]
    <2>1. total >= 300 => 3000 < total * p[1]
        BY <1>1
    <2>2. 1 \in DOMAIN p
        BY <1>1
    <2> QED BY <1>2, <1>6, <2>1, <2>2, RoundingRises DEF Minute
<1>10. ASSUME NEW i \in 1..Len(p) - 1
       PROVE  o[i] <= o[i + 1] /\ (total >= 5 * Minute => o[i] + 1 <= o[i + 1])
    <2> PICK a, b, h, k : a = p[i] /\ b = p[i + 1] /\ h = total * a /\ k = total * b
        OBVIOUS
    <2>1. i \in DOMAIN p /\ i + 1 \in DOMAIN p
        BY <1>3
    <2>2. h \in Nat /\ k \in Nat
        BY <1>6, <2>1
    <2>3. (h < k \/ h = 0) /\ (total >= 300 => h + 6000 < k)
        <3>1. \/ a = 70 /\ b = 96
              \/ a = 56 /\ b = 89
              \/ a = 35 /\ b = 65
              \/ a = 65 /\ b = 87
            <4>1. i = 1 \/ (i = 2 /\ Len(p) = 3)
                BY <1>3
            <4> QED BY <1>1, <4>1
        <3>2. \/ h = total * 70 /\ k = total * 96
              \/ h = total * 56 /\ k = total * 89
              \/ h = total * 35 /\ k = total * 65
              \/ h = total * 65 /\ k = total * 87
            BY <3>1
        <3> QED BY <3>2
    <2>4. o[i] \in RoundToMinute(h) /\ o[i + 1] \in RoundToMinute(k)
        BY <1>2, <2>1
    <2> QED BY <2>2, <2>3, <2>4, RoundingRises DEF Minute
<1>11. 0 <= o[1]
    BY <1>7, <1>3
<1> QED BY <1>3, <1>8, <1>9, <1>10, <1>11 DEF Rise

\* What CalculateReminderTimes returns, for every type and whatever the times are,
\* is in order and ends at the target, and from five minutes on no two reminders
\* coincide (reminder_info.go:19-60).
THEOREM RemindersAreSpaced ==
    ASSUME NEW type \in Types, NEW created \in Nat, NEW target \in Nat, created <= target,
           NEW times \in CalculateReminderTimes(type, created, target)
    PROVE  /\ times \in Seq(Nat)
           /\ InOrder(times, created, target)
           /\ target - created >= 5 * Minute => Spread(times, created)
<1> PICK total : total = target - created
    OBVIOUS
<1>1. total \in Nat
    OBVIOUS
<1>2. PICK o \in Offsets(type, total) : times = Reminders(created, target, o)
    BY DEF CalculateReminderTimes
<1>3. Rise(o, 0) /\ (total >= 5 * Minute => Rise(o, 1))
    BY <1>1, OffsetsRise
<1>4. /\ Apart(times, created, target, 0)
      /\ times # <<>> /\ times[Len(times)] = target
    <2>1. created + 0 <= target
        OBVIOUS
    <2> QED BY <1>2, <1>3, <2>1, RemindersApart
<1>5. times \in Seq(Nat) /\ 1 \in 1..Len(times) /\ \A i \in 1..Len(times) : times[i] \in Nat
    BY <1>4 DEF Apart
<1>6. InOrder(times, created, target)
    <2>1. created <= times[1]
        BY <1>4, <1>5 DEF Apart
    <2>2. ASSUME NEW i \in 1..Len(times) - 1 PROVE times[i] <= times[i + 1]
        <3>1. i \in 1..Len(times) /\ times[i] \in Nat
            BY <1>5
        <3>2. times[i] + 0 <= times[i + 1]
            BY <1>4 DEF Apart
        <3> QED BY <3>1, <3>2
    <2> QED BY <1>4, <2>1, <2>2 DEF InOrder
<1>7. ASSUME target - created >= 5 * Minute PROVE Spread(times, created)
    <2>1. Apart(times, created, target, 1)
        <3>1. created + 1 <= target /\ Rise(o, 1)
            BY <1>3, <1>7 DEF Minute
        <3> QED BY <1>2, <3>1, RemindersApart
    <2>2. created < times[1]
        BY <1>5, <2>1 DEF Apart
    <2>3. ASSUME NEW i \in 1..Len(times) - 1 PROVE times[i] < times[i + 1]
        <3>1. i \in 1..Len(times) /\ i + 1 \in 1..Len(times)
            BY <1>5
        <3>2. times[i] + 1 <= times[i + 1]
            BY <2>1 DEF Apart
        <3> QED BY <1>5, <3>1, <3>2
    <2> QED BY <2>2, <2>3 DEF Spread
<1> QED BY <1>5, <1>6, <1>7

(***************************************************************************)
(* The inductive invariant                                                 *)
(***************************************************************************)

Asks(c, kind) == req[c] # None /\ req[c].kind = kind
Creates(c) == Asks(c, "create")
Updates(c) == Asks(c, "update") \/ Completes(c)

\* Calls have requests once they have begun; the rest are functions.
ShapesKnown ==
    /\ now \in Nat
    /\ DOMAIN settings = Users /\ DOMAIN rows \subseteq Calls
    /\ DOMAIN req = Calls /\ DOMAIN stage = Calls /\ DOMAIN task = Calls
    /\ \A c \in Calls : stage[c] = "idle" => req[c] = None
    /\ \A c \in Calls : req[c] = None \/ req[c] \in Requests

\* The time of a task is that of a period of its owner.
HasPeriod(t) ==
    t.type # "scheduled" =>
        \E p \in AskedFor(t.user) \cup {<<>>} : t.targetAt = t.createdAt + PeriodFor(t.type, p)

HasOwnTime(t) == t.type = "scheduled" /\ t.scheduledAt # None => t.targetAt = t.scheduledAt

\* The entity that a creation made, whatever came of it.
EntityKnown(c) ==
    Creates(c) =>
        /\ task[c] \in Task
        /\ task[c].user = req[c].user
        /\ task[c].type = req[c].type /\ task[c].scheduledAt = req[c].scheduledAt
        /\ HasPeriod(task[c]) /\ HasOwnTime(task[c])

\* An entity or a row that was made from the task of call c: updates move only
\* the times of scheduled tasks.
Descends(t, c) ==
    /\ c \in Calls /\ Creates(c)
    /\ t \in Task /\ IsTask(t) /\ HasOwnTime(t)
    /\ t.user = task[c].user /\ t.type = task[c].type /\ t.createdAt = task[c].createdAt
    /\ t.type # "scheduled" => t.targetAt = task[c].targetAt

Ended == {"ok", "database error"}

\* The copy an update or a completion has of a task of its user.
HasCopy(c) == Descends(task[c], req[c].task) /\ task[c].user = req[c].user

CreationSteps == {"Fetch", "SaveTask", "Register", "UpdateTaskStatus"}

\* What a call of each kind does next, or was told.
CreationKnown(c) ==
    \/ stage[c] \in CreationSteps /\ IsTask(task[c])
    \/ stage[c] \in Unreachable \cup Ended \cup {"ErrRemindQueueRegistrationFailed", "ErrTaskNotFound"}
    \/ stage[c] \in TaskErrors(task[c])

UpdateKnown(c) ==
    \/ stage[c] = "UpdateTask" /\ Asks(c, "update") /\ HasCopy(c)
    \/ stage[c] \in {"CancelRemind", "ArchiveTask"} /\ Completes(c) /\ HasCopy(c)
    \/ stage[c] \in Ended \cup {"ErrTaskNotFound"}
    \/ stage[c] \in {"ErrCancelRemindFailed", "duplicate key"} /\ Completes(c)
    \/ stage[c] \in InvalidTask /\ req[c].task \in Calls /\ Creates(req[c].task)
          /\ Impossible(req[c])

DeletionKnown(c) ==
    stage[c] \in {"CancelRemind", "DeleteTask", "ErrCancelRemindFailed", "ErrTaskNotFound"} \cup Ended

StageKnown(c) ==
    \/ stage[c] = "idle"
    \/ Creates(c) /\ CreationKnown(c)
    \/ Updates(c) /\ UpdateKnown(c)
    \/ Deletes(c) /\ DeletionKnown(c)
    \/ Asks(c, "get") /\ stage[c] \in Ended \cup {"ErrTaskNotFound"}
    \/ Asks(c, "list") /\ stage[c] \in Ended
    \/ Asks(c, "get_settings") /\ stage[c] \in Ended
    \/ /\ Asks(c, "settings")
       /\ stage[c] \in Ended \/ (stage[c] \in InvalidPeriods /\ ~IsValid(req[c].periods))

RowsKnown == \A t \in DOMAIN rows : Descends(rows[t], t)

ScheduleInv ==
    /\ ShapesKnown
    /\ SettingsAreOneRequest
    /\ \A c \in Calls : EntityKnown(c) /\ StageKnown(c)
    /\ RowsKnown

(***************************************************************************)
(* What a step leaves to the others                                        *)
(***************************************************************************)

\* Requests are made once, and so are the entities of creations and answers.
Fixed ==
    /\ \A c \in Calls : req[c] # None => req'[c] = req[c]
    /\ \A c \in Calls : Creates(c) => task'[c] = task[c]
    /\ \A c \in Calls : stage[c] \in Ended => stage'[c] = stage[c]

LEMMA AskedForGrows ==
    ASSUME Fixed, NEW u
    PROVE  AskedFor(u) \subseteq AskedFor(u)'
BY DEF Fixed, AskedFor

LEMMA PeriodStays ==
    ASSUME Fixed, NEW t, HasPeriod(t)
    PROVE  HasPeriod(t)'
BY AskedForGrows DEF HasPeriod

LEMMA DescendantStays ==
    ASSUME Fixed, NEW t, NEW c, Descends(t, c)
    PROVE  Descends(t, c)'
BY DEF Fixed, Descends, Creates, Asks

\* Call d takes no part in the step.
LEMMA OtherStays ==
    ASSUME Fixed, NEW d \in Calls, EntityKnown(d), StageKnown(d),
           stage'[d] = stage[d], req'[d] = req[d], task'[d] = task[d]
    PROVE  EntityKnown(d)' /\ StageKnown(d)'
<1>1. EntityKnown(d)'
    BY PeriodStays DEF EntityKnown, Creates, Asks, HasOwnTime
<1>2. ASSUME Updates(d), req[d].task \in Calls, Creates(req[d].task), Impossible(req[d])
      PROVE  Creates(req[d].task)' /\ Impossible(req[d])'
    BY <1>2 DEF Fixed, Creates, Updates, Completes, Asks, Impossible
<1>3. /\ \A kind : Asks(d, kind)' <=> Asks(d, kind)
      /\ (Updates(d)' <=> Updates(d)) /\ (Completes(d)' <=> Completes(d))
      /\ (Deletes(d)' <=> Deletes(d)) /\ (Creates(d)' <=> Creates(d))
    BY DEF Asks, Updates, Completes, Deletes, Creates
<1>4. CASE Updates(d) /\ UpdateKnown(d)
    <2> PICK t, c : t = task[d] /\ c = req[d].task
        OBVIOUS
    <2>1. Descends(t, c) => Descends(t, c)'
        BY DescendantStays
    <2>2. HasCopy(d) => HasCopy(d)'
        BY <2>1 DEF HasCopy
    <2>3. UpdateKnown(d)'
        BY <1>2, <1>3, <1>4, <2>2 DEF UpdateKnown
    <2> QED BY <1>1, <1>3, <1>4, <2>3 DEF StageKnown
<1>5. CASE ~(Updates(d) /\ UpdateKnown(d))
    BY <1>1, <1>3, <1>5 DEF StageKnown, CreationKnown, DeletionKnown
<1> QED BY <1>4, <1>5

\* A step of call c is good if what it makes of the tables and of c is.
LEMMA StepKeeps ==
    ASSUME ScheduleInv, Fixed, ShapesKnown', SettingsAreOneRequest',
           NEW c \in Calls,
           \A d \in Calls \ {c} : stage'[d] = stage[d] /\ req'[d] = req[d] /\ task'[d] = task[d],
           EntityKnown(c)', StageKnown(c)', RowsKnown'
    PROVE  ScheduleInv'
<1>1. \A d \in Calls \ {c} : EntityKnown(d)' /\ StageKnown(d)'
    BY OtherStays DEF ScheduleInv
<1> QED BY <1>1 DEF ScheduleInv

\* Settings that are not written stay somebody's.
LEMMA SettingsStay ==
    ASSUME ScheduleInv, Fixed, settings' = settings
    PROVE  SettingsAreOneRequest'
BY AskedForGrows DEF ScheduleInv, SettingsAreOneRequest

LEMMA RowsStay ==
    ASSUME ScheduleInv, Fixed, rows' = rows
    PROVE  RowsKnown'
<1> SUFFICES ASSUME NEW t \in DOMAIN rows PROVE Descends(rows[t], t)'
    BY DEF RowsKnown
<1> PICK x : x = rows[t]
    OBVIOUS
<1>1. Descends(x, t)'
    BY DescendantStays DEF ScheduleInv, RowsKnown
<1> QED BY <1>1


(***************************************************************************)
(* Period settings                                                         *)
(***************************************************************************)

LEMMA NoPeriodsAreValid == IsValid(<<>>)
<1>1. DOMAIN <<>> = {}
    OBVIOUS
<1> QED BY <1>1 DEF IsValid, PeriodErrors

LEMMA SettingsAreValid ==
    ASSUME SettingsAreOneRequest, NEW u \in Users
    PROVE  settings[u] \in AskedFor(u) \cup {<<>>} /\ IsValid(settings[u])
BY NoPeriodsAreValid DEF SettingsAreOneRequest, AskedFor

LEMMA PeriodErrorsAre ==
    ASSUME NEW periods, NEW e \in PeriodErrors(periods)
    PROVE  e \in InvalidPeriods /\ ~IsValid(periods)
<1>1. e \in InvalidPeriods
    BY DEF PeriodErrors, InvalidPeriods
<1> QED BY <1>1 DEF IsValid

\* What Begin and GoTo of one call do to the calls.
LEMMA CallBegins ==
    ASSUME ShapesKnown, NEW c \in Calls, NEW r \in Requests, NEW s,
           Begin(c, r), GoTo(c, s), s # "idle", now' \in Nat, DOMAIN settings' = Users,
           DOMAIN rows' \subseteq Calls, DOMAIN task' = Calls
    PROVE  /\ ShapesKnown' /\ req'[c] = r /\ r # None /\ stage'[c] = s
           /\ \A d \in Calls \ {c} : stage'[d] = stage[d] /\ req'[d] = req[d]
           /\ req[c] = None
           /\ (\A d \in Calls \ {c} : task'[d] = task[d]) => Fixed
BY ScheduleNoneAssumption DEF ShapesKnown, Begin, GoTo, Fixed, Creates, Asks, Ended

LEMMA CallGoesOn ==
    ASSUME ShapesKnown, NEW c \in Calls, NEW s, s # "idle", stage[c] \in Steps,
           GoTo(c, s), req' = req, task' = task, now' \in Nat, DOMAIN settings' = Users,
           DOMAIN rows' \subseteq Calls
    PROVE  /\ ShapesKnown' /\ stage'[c] = s /\ Fixed
           /\ \A d \in Calls \ {c} : stage'[d] = stage[d] /\ req'[d] = req[d] /\ task'[d] = task[d]
BY DEF ShapesKnown, GoTo, Fixed, Ended, Steps

\* A call is at a step of its own kind, with what that step needs.
LEMMA StepsTell ==
    ASSUME ScheduleInv, NEW c \in Calls
    PROVE  /\ stage[c] \in CreationSteps => Creates(c) /\ IsTask(task[c])
           /\ stage[c] = "UpdateTask" => Asks(c, "update") /\ HasCopy(c)
           /\ stage[c] = "ArchiveTask" => Completes(c) /\ HasCopy(c)
           /\ stage[c] = "CancelRemind" => (Completes(c) /\ HasCopy(c)) \/ Deletes(c)
           /\ stage[c] = "DeleteTask" => Deletes(c)
<1>1. \A e \in TaskErrors(task[c]) : e \in InvalidTask
    BY DEF TaskErrors, InvalidTask
<1>2. StageKnown(c)
    BY DEF ScheduleInv
<1>3. CASE stage[c] \notin CreationSteps \cup {"UpdateTask", "ArchiveTask", "CancelRemind", "DeleteTask"}
    BY <1>3
<1>4. CASE stage[c] \in CreationSteps \cup {"UpdateTask", "ArchiveTask", "CancelRemind", "DeleteTask"}
    <2>1. stage[c] \notin InvalidTask \cup InvalidPeriods \cup Unreachable \cup Ended
              \cup {"idle", "ErrTaskNotFound", "ErrRemindQueueRegistrationFailed",
                    "ErrCancelRemindFailed", "duplicate key"}
        BY <1>4 DEF CreationSteps, InvalidTask, InvalidPeriods, Unreachable, Ended
    <2> QED BY <1>1, <1>2, <2>1 DEF StageKnown, CreationKnown, UpdateKnown, DeletionKnown, CreationSteps
<1> QED BY <1>3, <1>4

LEMMA UpdatePeriodSettingsKeeps ==
    ASSUME ScheduleInv, NEW c \in Calls, UpdatePeriodSettings(c)
    PROVE  ScheduleInv'
<1> PICK r \in Requests :
        /\ r.kind = "settings" /\ r \in SettingsRequest
        /\ Begin(c, r)
        /\ \/ /\ \E e \in PeriodErrors(r.periods) : GoTo(c, e)
              /\ settings' = settings
           \/ /\ IsValid(r.periods)
              /\ settings' = [settings EXCEPT ![r.user] = Saved(settings[r.user], r.periods)]
              /\ GoTo(c, "ok") \/ ("db_ack_lost" \in Faults /\ GoTo(c, "database error"))
           \/ /\ IsValid(r.periods)
              /\ settings' = settings /\ DatabaseFails(c)
        /\ UNCHANGED <<now, rows, completed, reminders, task>>
    BY DEF UpdatePeriodSettings, SettingsRequest, Requests
<1> PICK s : /\ GoTo(c, s)
             /\ s \in Ended \/ (s \in InvalidPeriods /\ ~IsValid(r.periods))
             /\ settings' # settings => IsValid(r.periods)
    BY PeriodErrorsAre DEF DatabaseFails, Ended
<1>1. s # "idle"
    BY DEF Ended, InvalidPeriods
<1>2. DOMAIN settings' = Users /\ ShapesKnown
    BY DEF ScheduleInv, ShapesKnown
<1>3. /\ ShapesKnown' /\ req'[c] = r /\ r # None /\ stage'[c] = s /\ Fixed
      /\ \A d \in Calls \ {c} : stage'[d] = stage[d] /\ req'[d] = req[d] /\ task'[d] = task[d]
    BY <1>1, <1>2, CallBegins DEF ShapesKnown
<1>4. EntityKnown(c)' /\ StageKnown(c)'
    BY <1>3 DEF EntityKnown, StageKnown, Creates, Asks, Ended, InvalidPeriods
<1>5. SettingsAreOneRequest'
    <2>1. CASE settings' = settings
        BY <1>3, <2>1, SettingsStay
    <2>2. CASE settings' # settings
        <3>1. settings' = [settings EXCEPT ![r.user] = r.periods] /\ IsValid(r.periods)
            BY <2>2 DEF Saved
        <3>2. r.periods \in AskedFor(r.user)'
            BY <1>3, <3>1 DEF AskedFor
        <3>3. \A u \in Users : settings'[u] = settings[u] \/ (u = r.user /\ settings'[u] = r.periods)
            BY <1>2, <3>1 DEF ShapesKnown
        <3> QED BY <1>3, <3>2, <3>3, AskedForGrows DEF ScheduleInv, SettingsAreOneRequest
    <2> QED BY <2>1, <2>2
<1> QED BY <1>3, <1>4, <1>5, RowsStay, StepKeeps

LEMMA GetPeriodSettingsKeeps ==
    ASSUME ScheduleInv, NEW c \in Calls, GetPeriodSettings(c)
    PROVE  ScheduleInv'
<1> PICK r \in Requests :
        /\ r.kind = "get_settings" /\ r \in GetSettingsRequest
        /\ Begin(c, r)
        /\ \/ IsValid(settings[r.user]) /\ GoTo(c, "ok")
           \/ \E e \in PeriodErrors(settings[r.user]) : GoTo(c, e)
           \/ DatabaseFails(c)
        /\ UNCHANGED <<now, tables, task>>
    BY DEF GetPeriodSettings, GetSettingsRequest, Requests
<1>1. r.user \in Users
    BY DEF GetSettingsRequest
<1>2. IsValid(settings[r.user])
    BY <1>1, SettingsAreValid DEF ScheduleInv
<1> PICK s : GoTo(c, s) /\ s \in Ended
    BY <1>2, PeriodErrorsAre DEF DatabaseFails, Ended
<1>3. /\ ShapesKnown' /\ req'[c] = r /\ r # None /\ stage'[c] = s /\ Fixed
      /\ \A d \in Calls \ {c} : stage'[d] = stage[d] /\ req'[d] = req[d] /\ task'[d] = task[d]
    BY CallBegins DEF ScheduleInv, ShapesKnown, Ended, tables
<1>4. EntityKnown(c)' /\ StageKnown(c)'
    BY <1>3 DEF EntityKnown, StageKnown, Creates, Asks, Ended
<1> QED BY <1>3, <1>4, SettingsStay, RowsStay, StepKeeps DEF tables


(***************************************************************************)
(* CreateTask                                                              *)
(***************************************************************************)

LEMMA PeriodForType ==
    ASSUME NEW type \in PeriodTypes, NEW periods, IsValid(periods)
    PROVE  PeriodFor(type, periods) \in Nat
<1>1. CASE type \in DOMAIN periods
    <2>1. periods[type] \in MinPeriodMinutes..MaxPeriodMinutes
        BY <1>1 DEF IsValid, PeriodErrors
    <2>2. \A minutes \in MinPeriodMinutes..MaxPeriodMinutes : minutes * Minute \in Nat
        BY DEF MinPeriodMinutes, MaxPeriodMinutes, Minute
    <2>3. periods[type] * Minute \in Nat
        BY <2>1, <2>2
    <2> QED BY <1>1, <2>3 DEF PeriodFor
<1>2. CASE type \notin DOMAIN periods
    <2>1. PeriodFor(type, periods) = ActivePeriod[type]
        BY <1>2 DEF PeriodFor
    <2> QED BY <2>1 DEF ActivePeriod, Minute, PeriodTypes
<1> QED BY <1>1, <1>2

LEMMA CreateFields ==
    ASSUME NEW r \in CreateRequest
    PROVE  /\ r \in Requests /\ r.kind = "create"
           /\ r.user \in Users /\ r.type \in TaskTypes
           /\ r.scheduledAt \in ScheduledAts \cup {None}
BY DEF CreateRequest, Requests

\* The entity of a creation has a period of its owner or its own time.
LEMMA NewTaskIsTimed ==
    ASSUME ShapesKnown, SettingsAreOneRequest, NEW r \in CreateRequest,
           NEW p \in AskedFor(r.user) \cup {<<>>}, IsValid(p)
    PROVE  /\ NewTask(r, p) \in Task
           /\ NewTask(r, p).user = r.user
           /\ NewTask(r, p).type = r.type /\ NewTask(r, p).scheduledAt = r.scheduledAt
           /\ HasPeriod(NewTask(r, p)) /\ HasOwnTime(NewTask(r, p))
<1> DEFINE t == NewTask(r, p)
<1>1. /\ t.user = r.user /\ t.type = r.type /\ t.scheduledAt = r.scheduledAt
      /\ t.createdAt = now
      /\ t.targetAt = IF r.type # "scheduled" THEN now + PeriodFor(r.type, p)
                      ELSE IF r.scheduledAt = None THEN 0 ELSE r.scheduledAt
    BY DEF NewTask
<1>2. r.scheduledAt \in Nat \cup {None} /\ now \in Nat
    BY CreateFields, ScheduleTimesAssumption DEF ShapesKnown
<1>3. t.targetAt \in Nat
    <2>1. CASE r.type # "scheduled"
        <3>1. r.type \in PeriodTypes
            BY <2>1, CreateFields, ScheduleTypesAssumption DEF Types
        <3> QED BY <1>1, <1>2, <2>1, <3>1, PeriodForType
    <2>2. CASE r.type = "scheduled"
        BY <1>1, <1>2, <2>2
    <2> QED BY <2>1, <2>2
<1>4. t \in Task
    BY <1>1, <1>2, <1>3, CreateFields DEF NewTask, Task
<1>5. HasPeriod(t)
    BY <1>1 DEF HasPeriod
<1>6. HasOwnTime(t)
    BY <1>1 DEF HasOwnTime
<1> QED BY <1>1, <1>4, <1>5, <1>6

LEMMA TaskErrorsAre ==
    ASSUME NEW t, NEW e \in TaskErrors(t)
    PROVE  /\ e \in InvalidTask /\ ~IsTask(t)
           /\ e = "ErrScheduledAtBeforeCreatedAt" =>
                 t.type = "scheduled" /\ t.scheduledAt < t.createdAt
<1>1. e \in InvalidTask
    BY DEF TaskErrors, InvalidTask
<1>2. ~IsTask(t)
    BY DEF IsTask
<1> QED BY <1>1, <1>2 DEF TaskErrors

LEMMA BeginCreateTaskKeeps ==
    ASSUME ScheduleInv, NEW c \in Calls, BeginCreateTask(c)
    PROVE  ScheduleInv'
<1> PICK r \in CreateRequest :
        /\ Begin(c, r)
        /\ \/ \E p \in PeriodsOf(r.user) : task' = [task EXCEPT ![c] = NewTask(r, p)]
           \/ /\ "db_error" \in Faults /\ r.type # "scheduled"
              /\ task' = [task EXCEPT ![c] = NewTask(r, <<>>)]
        /\ \/ IsTask(task'[c]) /\ GoTo(c, "Fetch")
           \/ \E e \in TaskErrors(task'[c]) : GoTo(c, e)
           \/ DatabaseFails(c)
        /\ UNCHANGED <<now, tables>>
    BY DEF BeginCreateTask
<1>1. ShapesKnown /\ SettingsAreOneRequest
    BY DEF ScheduleInv
<1>2. r.user \in Users /\ r \in Requests /\ r.kind = "create"
    BY CreateFields
<1> PICK p : /\ p \in AskedFor(r.user) \cup {<<>>} /\ IsValid(p)
             /\ task' = [task EXCEPT ![c] = NewTask(r, p)]
    BY <1>1, <1>2, SettingsAreValid, NoPeriodsAreValid DEF PeriodsOf
<1> PICK t : t = NewTask(r, p)
    OBVIOUS
<1>3. /\ task'[c] = t /\ DOMAIN task' = Calls
      /\ \A d \in Calls \ {c} : task'[d] = task[d]
    BY <1>1 DEF ShapesKnown
<1>4. /\ t \in Task /\ t.user = r.user /\ t.type = r.type /\ t.scheduledAt = r.scheduledAt
      /\ HasPeriod(t) /\ HasOwnTime(t)
    BY <1>1, NewTaskIsTimed
<1> PICK s : /\ GoTo(c, s)
             /\ (s = "Fetch" /\ IsTask(t)) \/ s \in TaskErrors(t) \/ s = "database error"
    BY <1>3 DEF DatabaseFails
<1>5. s # "idle"
    BY TaskErrorsAre DEF InvalidTask
<1>6. UNCHANGED <<now, settings, rows, reminders>>
    BY DEF tables
<1>7. /\ ShapesKnown' /\ req'[c] = r /\ r # None /\ stage'[c] = s /\ Fixed
      /\ \A d \in Calls \ {c} : stage'[d] = stage[d] /\ req'[d] = req[d]
    <2>1. Begin(c, r) /\ GoTo(c, s) /\ r \in Requests
        BY <1>2
    <2>2. DOMAIN settings' = Users /\ DOMAIN rows' \subseteq Calls /\ now' \in Nat
        BY <1>1, <1>6 DEF ShapesKnown
    <2> QED BY ONLY <1>1, <1>3, <1>5, <2>1, <2>2, CallBegins
<1>8. EntityKnown(c)'
    <2>1. HasPeriod(t)'
        BY <1>4, <1>7, PeriodStays
    <2> QED BY <1>3, <1>4, <1>7, <2>1 DEF EntityKnown, HasOwnTime
<1>9. StageKnown(c)'
    <2>1. Creates(c)'
        BY <1>2, <1>7 DEF Creates, Asks
    <2>2. \/ stage'[c] = "Fetch" /\ IsTask(task'[c])
          \/ stage'[c] \in TaskErrors(task'[c])
          \/ stage'[c] = "database error"
        BY <1>3, <1>7
    <2> QED BY <2>1, <2>2 DEF StageKnown, CreationKnown, CreationSteps, Ended
<1> QED BY <1>3, <1>6, <1>7, <1>8, <1>9, SettingsStay, RowsStay, StepKeeps

\* A creation goes on with the entity it has.
LEMMA CreationGoesOn ==
    ASSUME ScheduleInv, NEW c \in Calls, stage[c] \in CreationSteps,
           NEW s \in {"SaveTask", "Register", "UpdateTaskStatus", "ErrTaskNotFound",
                      "ErrRemindQueueRegistrationFailed"} \cup Unreachable \cup Ended,
           GoTo(c, s), UNCHANGED <<now, settings, req, task>>,
           \A t \in DOMAIN rows' : \/ t = c /\ rows'[t] = task[c]
                                   \/ t \in DOMAIN rows /\ rows'[t] = rows[t]
    PROVE  ScheduleInv'
<1>1. Creates(c) /\ IsTask(task[c])
    BY StepsTell
<1>2. DOMAIN rows' \subseteq Calls /\ ShapesKnown
    BY DEF ScheduleInv, ShapesKnown
<1>3. s # "idle" /\ stage[c] \in Steps
    BY DEF Unreachable, Ended, CreationSteps, Steps
<1>4. /\ ShapesKnown' /\ stage'[c] = s /\ Fixed
      /\ \A d \in Calls \ {c} : stage'[d] = stage[d] /\ req'[d] = req[d] /\ task'[d] = task[d]
    BY <1>2, <1>3, CallGoesOn DEF ShapesKnown
<1>5. EntityKnown(c)'
    BY <1>4, PeriodStays DEF ScheduleInv, EntityKnown, Creates, Asks, HasOwnTime
<1>6. StageKnown(c)'
    BY <1>1, <1>4 DEF StageKnown, CreationKnown, CreationSteps, Creates, Asks
<1>7. Descends(task[c], c)
    BY <1>1 DEF ScheduleInv, EntityKnown, Descends
<1>8. RowsKnown'
    <2> SUFFICES ASSUME NEW t \in DOMAIN rows' PROVE Descends(rows[t], t)'
        BY DEF RowsKnown
    <2> PICK x : x = rows'[t]
        OBVIOUS
    <2>1. Descends(x, t)
        BY <1>7 DEF ScheduleInv, RowsKnown
    <2> QED BY <1>4, <2>1, DescendantStays
<1> QED BY <1>4, <1>5, <1>6, <1>8, SettingsStay, StepKeeps

LEMMA CreateTaskKeeps ==
    ASSUME ScheduleInv, NEW c \in Calls,
           FetchDevices(c) \/ SaveTask(c) \/ Register(c) \/ UpdateTaskStatus(c)
    PROVE  ScheduleInv'
<1>1. CASE FetchDevices(c)
    BY <1>1, CreationGoesOn DEF FetchDevices, tables, CreationSteps
<1>2. CASE SaveTask(c)
    BY <1>2, CreationGoesOn DEF SaveTask, Put, DatabaseFails, Ended, CreationSteps
<1>3. CASE Register(c)
    BY <1>3, CreationGoesOn DEF Register, Without, Ended, CreationSteps
<1>4. CASE UpdateTaskStatus(c)
    BY <1>4, CreationGoesOn DEF UpdateTaskStatus, DatabaseFails, Ended, tables, CreationSteps
<1> QED BY <1>1, <1>2, <1>3, <1>4


(***************************************************************************)
(* UpdateTask                                                              *)
(***************************************************************************)

LEMMA UpdateFields ==
    ASSUME NEW r \in UpdateRequest
    PROVE  /\ r \in Requests /\ r.kind \in {"update", "complete"}
           /\ r.user \in Users /\ r.task \in Calls
           /\ r.scheduledAt \in ScheduledAts \cup {None, Clear}
BY DEF UpdateRequest, Requests

\* Updates that are not refused keep what a row is.
LEMMA UpdatedDescends ==
    ASSUME NEW r \in UpdateRequest, NEW x, NEW c, Descends(x, c),
           UpdateErrors(r, x) = {}
    PROVE  Descends(ApplyUpdate(x, r), c)
<1> DEFINE y == ApplyUpdate(x, r)
           at == CASE r.scheduledAt = Clear -> None
                   [] r.scheduledAt = None -> x.scheduledAt
                   [] OTHER -> r.scheduledAt
<1>1. x \in Task /\ IsTask(x)
    BY DEF Descends
<1>2. r.scheduledAt \in Nat \cup {None, Clear} /\ None # Clear
    BY UpdateFields, ScheduleTimesAssumption, ScheduleMarksAssumption
<1>3. at \in Nat \cup {None}
    BY <1>1, <1>2 DEF Task
<1>4. y = [x EXCEPT !.scheduledAt = at,
                    !.targetAt = IF x.type = "scheduled" /\ at # None THEN at ELSE @]
    BY DEF ApplyUpdate
<1>5. /\ y \in Task /\ y.user = x.user /\ y.type = x.type /\ y.createdAt = x.createdAt
      /\ y.scheduledAt = at
      /\ y.targetAt = IF x.type = "scheduled" /\ at # None THEN at ELSE x.targetAt
    <2> HIDE DEF at
    <2> QED BY <1>1, <1>3, <1>4 DEF Task
<1>6. IsTask(y)
    BY DEF UpdateErrors, IsTask
<1>7. HasOwnTime(y)
    BY <1>5 DEF HasOwnTime
<1> QED BY <1>5, <1>6, <1>7 DEF Descends

\* Updates are refused for what never changes of a task.
LEMMA RefusedIsImpossible ==
    ASSUME NEW r \in UpdateRequest, NEW x, Descends(x, r.task),
           NEW e \in UpdateErrors(r, x)
    PROVE  e \in InvalidTask /\ Impossible(r)
<1>1. x.type = task[r.task].type /\ x.createdAt = task[r.task].createdAt /\ x \in Task /\ IsTask(x)
    BY DEF Descends
<1>2. None # Clear
    BY ScheduleMarksAssumption
<1>3. CASE r.scheduledAt # None /\ x.type # "scheduled"
    BY <1>1, <1>3 DEF UpdateErrors, InvalidTask, Impossible
<1>4. CASE ~(r.scheduledAt # None /\ x.type # "scheduled")
    <2> DEFINE y == ApplyUpdate(x, r)
               at == CASE r.scheduledAt = Clear -> None
                       [] r.scheduledAt = None -> x.scheduledAt
                       [] OTHER -> r.scheduledAt
    <2>1. e \in TaskErrors(y)
        BY <1>4 DEF UpdateErrors
    <2>2. y = [x EXCEPT !.scheduledAt = at,
                        !.targetAt = IF x.type = "scheduled" /\ at # None THEN at ELSE @]
        BY DEF ApplyUpdate
    <2>3. y.type = x.type /\ y.createdAt = x.createdAt /\ y.scheduledAt = at
        <3> HIDE DEF at
        <3> QED BY <1>1, <2>2 DEF Task
    <2>4. TaskErrors(x) = {}
        BY <1>1 DEF IsTask
    <2>5. r.scheduledAt # None
        <3> SUFFICES ASSUME r.scheduledAt = None PROVE FALSE
            OBVIOUS
        <3>1. at = x.scheduledAt
            BY <1>2
        <3> QED BY <2>1, <2>3, <2>4, <3>1 DEF TaskErrors
    <2>6. x.type = "scheduled"
        BY <1>4, <2>5
    <2>7. r.scheduledAt = Clear \/ r.scheduledAt < x.createdAt
        <3> SUFFICES ASSUME r.scheduledAt # Clear PROVE r.scheduledAt < x.createdAt
            OBVIOUS
        <3>1. at = r.scheduledAt
            BY <2>5
        <3> QED BY <2>1, <2>3, <2>5, <2>6, <3>1 DEF TaskErrors
    <2> QED BY <1>1, <2>1, <2>5, <2>6, <2>7, TaskErrorsAre DEF Impossible
<1> QED BY <1>3, <1>4

LEMMA OwnRow ==
    ASSUME ScheduleInv, NEW u, NEW t, Own(u, t)
    PROVE  /\ t \in DOMAIN rows /\ t \in Calls /\ Creates(t)
           /\ Descends(rows[t], t) /\ IsTask(rows[t]) /\ TaskErrors(rows[t]) = {}
BY DEF Own, ScheduleInv, RowsKnown, Descends, IsTask

\* An update that is refused, fails or goes on with a copy of its task.
LEMMA UpdateBegins ==
    ASSUME ScheduleInv, NEW c \in Calls, BeginUpdateTask(c)
    PROVE  \E r \in UpdateRequest, s \in Steps \cup Errors :
              /\ Begin(c, r) /\ GoTo(c, s)
              /\ \/ s \in {"ErrTaskNotFound", "database error"} /\ task'[c] = task[c]
                 \/ /\ Own(r.user, r.task) /\ s \in UpdateErrors(r, rows[r.task])
                    /\ task'[c] = task[c]
                 \/ /\ Own(r.user, r.task) /\ UpdateErrors(r, rows[r.task]) = {}
                    /\ s = AfterRead(r) /\ task'[c] = ApplyUpdate(rows[r.task], r)
              /\ DOMAIN task' = Calls /\ \A d \in Calls \ {c} : task'[d] = task[d]
              /\ UNCHANGED <<now, tables>>
<1> PICK r \in UpdateRequest :
        /\ Begin(c, r)
        /\ IF ~Own(r.user, r.task) THEN GoTo(c, "ErrTaskNotFound") \/ DatabaseFails(c)
           ELSE LET row == rows[r.task]
                IN \/ \E e \in TaskErrors(row) : GoTo(c, e)
                   \/ IsTask(row) /\ \E e \in UpdateErrors(r, row) : GoTo(c, e)
                   \/ IsTask(row) /\ UpdateErrors(r, row) = {} /\ GoTo(c, AfterRead(r))
                   \/ DatabaseFails(c)
        /\ task' = [task EXCEPT ![c] = IF stage'[c] = AfterRead(r)
                                      THEN ApplyUpdate(rows[r.task], r) ELSE @]
        /\ UNCHANGED <<now, tables>>
    BY DEF BeginUpdateTask
<1>1. DOMAIN task = Calls /\ DOMAIN stage = Calls
    BY DEF ScheduleInv, ShapesKnown
<1> PICK s : /\ GoTo(c, s)
             /\ \/ s \in {"ErrTaskNotFound", "database error"}
                \/ /\ Own(r.user, r.task)
                   /\ \/ s \in UpdateErrors(r, rows[r.task])
                      \/ s = AfterRead(r) /\ UpdateErrors(r, rows[r.task]) = {}
    BY OwnRow DEF DatabaseFails
<1>2. stage'[c] = s
    BY <1>1 DEF GoTo
<1>3. /\ s = AfterRead(r) => task'[c] = ApplyUpdate(rows[r.task], r)
      /\ s # AfterRead(r) => task'[c] = task[c]
      /\ DOMAIN task' = Calls /\ \A d \in Calls \ {c} : task'[d] = task[d]
    BY <1>1, <1>2
<1>4. /\ s \in Steps \cup Errors
      /\ s \in {"ErrTaskNotFound", "database error"} => s # AfterRead(r)
      /\ Own(r.user, r.task) /\ s \in UpdateErrors(r, rows[r.task]) => s # AfterRead(r)
    <2>1. Own(r.user, r.task) => Descends(rows[r.task], r.task)
        BY OwnRow
    <2>2. Own(r.user, r.task) /\ s \in UpdateErrors(r, rows[r.task]) => s \in InvalidTask
        BY <2>1, RefusedIsImpossible
    <2> QED BY <2>2 DEF Steps, Errors, AfterRead, InvalidTask
<1> QED BY <1>3, <1>4

LEMMA BeginUpdateTaskKeeps ==
    ASSUME ScheduleInv, NEW c \in Calls, BeginUpdateTask(c)
    PROVE  ScheduleInv'
<1> PICK r \in UpdateRequest, s \in Steps \cup Errors :
        /\ Begin(c, r) /\ GoTo(c, s)
        /\ \/ s \in {"ErrTaskNotFound", "database error"} /\ task'[c] = task[c]
           \/ /\ Own(r.user, r.task) /\ s \in UpdateErrors(r, rows[r.task])
              /\ task'[c] = task[c]
           \/ /\ Own(r.user, r.task) /\ UpdateErrors(r, rows[r.task]) = {}
              /\ s = AfterRead(r) /\ task'[c] = ApplyUpdate(rows[r.task], r)
        /\ DOMAIN task' = Calls /\ \A d \in Calls \ {c} : task'[d] = task[d]
        /\ UNCHANGED <<now, tables>>
    BY UpdateBegins
<1> PICK x : x = rows[r.task]
    OBVIOUS
<1> PICK t : t = r.task
    OBVIOUS
<1>1. /\ ShapesKnown
      /\ AfterRead(r) = IF r.kind = "complete" THEN "CancelRemind" ELSE "UpdateTask"
    BY DEF ScheduleInv, AfterRead
<1>2. Own(r.user, t) => /\ t \in Calls /\ Creates(t) /\ Descends(x, t)
                        /\ x.user = r.user
    BY OwnRow DEF Own
<1>3. s # "idle" /\ r \in Requests /\ r.kind \in {"update", "complete"}
    BY <1>1, <1>2, RefusedIsImpossible, UpdateFields DEF InvalidTask
<1>4. UNCHANGED <<now, settings, rows, reminders>>
    BY DEF tables
<1>5. DOMAIN settings' = Users /\ DOMAIN rows' \subseteq Calls /\ now' \in Nat
    BY <1>1, <1>4 DEF ShapesKnown
<1>6. /\ ShapesKnown' /\ req'[c] = r /\ r # None /\ stage'[c] = s /\ Fixed
      /\ \A d \in Calls \ {c} : stage'[d] = stage[d] /\ req'[d] = req[d]
    <2>1. Begin(c, r) /\ GoTo(c, s) /\ r \in Requests
        BY <1>3
    <2>2. DOMAIN task' = Calls /\ \A d \in Calls \ {c} : task'[d] = task[d]
        OBVIOUS
    <2> QED BY ONLY <1>1, <1>3, <1>5, <2>1, <2>2, CallBegins
<1>7. Updates(c)' /\ (r.kind = "complete" => Completes(c)') /\ (r.kind = "update" => Asks(c, "update")')
    BY <1>3, <1>6 DEF Asks, Updates, Completes
<1>8. EntityKnown(c)'
    BY <1>3, <1>6 DEF EntityKnown, Creates, Asks
<1>9. CASE s \in {"ErrTaskNotFound", "database error"}
    <2>1. StageKnown(c)'
        BY <1>6, <1>7, <1>9 DEF StageKnown, UpdateKnown, Ended
    <2> QED BY <1>4, <1>6, <1>8, <2>1, SettingsStay, RowsStay, StepKeeps
<1>10. CASE Own(r.user, t) /\ s \in UpdateErrors(r, x)
    <2>1. s \in InvalidTask /\ Impossible(r)
        BY <1>2, <1>10, RefusedIsImpossible
    <2>2. t \in Calls /\ Creates(t)' /\ task'[t] = task[t]
        BY <1>2, <1>6, <1>10 DEF Fixed, Creates, Asks
    <2>3. Impossible(req[c])'
        BY <1>6, <2>1, <2>2 DEF Impossible
    <2>4. StageKnown(c)'
        BY <1>6, <1>7, <2>1, <2>2, <2>3 DEF StageKnown, UpdateKnown
    <2> QED BY <1>4, <1>6, <1>8, <2>4, SettingsStay, RowsStay, StepKeeps
<1>11. CASE /\ Own(r.user, t) /\ UpdateErrors(r, x) = {}
            /\ s = AfterRead(r) /\ task'[c] = ApplyUpdate(x, r)
    <2> PICK y : y = ApplyUpdate(x, r)
        OBVIOUS
    <2>1. Descends(y, t) /\ Descends(y, t)' /\ y.user = r.user
        BY <1>2, <1>6, <1>11, UpdatedDescends, DescendantStays DEF Descends
    <2>2. HasCopy(c)'
        BY <1>6, <1>11, <2>1 DEF HasCopy
    <2>3. StageKnown(c)'
        BY <1>1, <1>3, <1>6, <1>7, <1>11, <2>2 DEF StageKnown, UpdateKnown
    <2> QED BY <1>4, <1>6, <1>8, <2>3, SettingsStay, RowsStay, StepKeeps
<1> QED BY <1>9, <1>10, <1>11

\* The row keeps what both its entity and the update have of the creation.
LEMMA WrittenDescends ==
    ASSUME NEW x, NEW y, NEW c, Descends(x, c), Descends(y, c)
    PROVE  Descends([x EXCEPT !.scheduledAt = y.scheduledAt, !.targetAt = y.targetAt], c)
<1> DEFINE z == [x EXCEPT !.scheduledAt = y.scheduledAt, !.targetAt = y.targetAt]
<1>1. x \in Task /\ y \in Task /\ x.type = y.type /\ x.createdAt = y.createdAt
    BY DEF Descends
<1>2. /\ z \in Task /\ z.user = x.user /\ z.type = x.type /\ z.createdAt = x.createdAt
      /\ z.scheduledAt = y.scheduledAt /\ z.targetAt = y.targetAt
    BY <1>1 DEF Task
<1>3. IsTask(z) /\ HasOwnTime(z)
    <2>1. IsTask(y) /\ HasOwnTime(y)
        BY DEF Descends
    <2>2. TaskErrors(z) = TaskErrors(y)
        BY <1>1, <1>2 DEF TaskErrors
    <2> QED BY <1>1, <1>2, <2>1, <2>2 DEF IsTask, HasOwnTime
<1> QED BY <1>2, <1>3 DEF Descends

LEMMA UpdateTaskKeeps ==
    ASSUME ScheduleInv, NEW c \in Calls, UpdateTask(c)
    PROVE  ScheduleInv'
<1> PICK t : t = req[c].task
    OBVIOUS
<1>1. ShapesKnown
    BY DEF ScheduleInv
<1>2. Asks(c, "update") /\ Descends(task[c], t)
    BY StepsTell DEF UpdateTask, HasCopy
<1> PICK s : GoTo(c, s) /\ s \in Ended \cup {"ErrTaskNotFound"}
    BY DEF UpdateTask, DatabaseFails, Ended
<1>3. s # "idle" /\ stage[c] \in Steps /\ UNCHANGED <<now, settings, reminders, req, task>>
    BY DEF Ended, UpdateTask, Steps
<1>4. \/ rows' = rows
      \/ /\ Own(req[c].user, t)
         /\ rows' = [rows EXCEPT ![t].scheduledAt = task[c].scheduledAt,
                                 ![t].targetAt = task[c].targetAt]
    BY DEF UpdateTask
<1>5. DOMAIN rows' = DOMAIN rows
    BY <1>4
<1>6. /\ ShapesKnown' /\ stage'[c] = s /\ Fixed
      /\ \A d \in Calls \ {c} : stage'[d] = stage[d] /\ req'[d] = req[d] /\ task'[d] = task[d]
    BY <1>1, <1>3, <1>5, CallGoesOn DEF ShapesKnown
<1>7. EntityKnown(c)' /\ StageKnown(c)'
    BY <1>2, <1>3, <1>6 DEF EntityKnown, StageKnown, UpdateKnown, Updates, Creates, Asks, Ended
<1>8. RowsKnown'
    <2>1. CASE rows' = rows
        BY <1>6, <2>1, RowsStay
    <2>2. CASE /\ Own(req[c].user, t)
               /\ rows' = [rows EXCEPT ![t].scheduledAt = task[c].scheduledAt,
                                       ![t].targetAt = task[c].targetAt]
        <3> SUFFICES ASSUME NEW d \in DOMAIN rows PROVE Descends(rows[d], d)'
            BY <1>5 DEF RowsKnown
        <3> PICK z : z = rows'[d]
            OBVIOUS
        <3>1. Descends(z, d)
            <4>1. CASE d = t
                <5>1. rows'[t] = [rows[t] EXCEPT !.scheduledAt = task[c].scheduledAt,
                                                 !.targetAt = task[c].targetAt]
                    BY <2>2, <4>1
                <5> QED BY <1>2, <2>2, <4>1, <5>1, OwnRow, WrittenDescends
            <4>2. CASE d # t
                BY <2>2, <4>2 DEF ScheduleInv, RowsKnown
            <4> QED BY <4>1, <4>2
        <3> QED BY <1>6, <3>1, DescendantStays
    <2> QED BY <1>4, <2>1, <2>2
<1> QED BY <1>3, <1>6, <1>7, <1>8, SettingsStay, StepKeeps


(***************************************************************************)
(* Completion and deletion                                                 *)
(***************************************************************************)

LEMMA BeginDeleteTaskKeeps ==
    ASSUME ScheduleInv, NEW c \in Calls, BeginDeleteTask(c)
    PROVE  ScheduleInv'
<1> PICK r \in Requests : r.kind = "delete" /\ Begin(c, r)
    BY DEF BeginDeleteTask, DeleteRequest, Requests
<1>1. GoTo(c, "CancelRemind") /\ UNCHANGED <<now, settings, rows, task>> /\ ShapesKnown
    BY DEF BeginDeleteTask, tables, ScheduleInv
<1>2. /\ ShapesKnown' /\ req'[c] = r /\ r # None /\ stage'[c] = "CancelRemind" /\ Fixed
      /\ \A d \in Calls \ {c} : stage'[d] = stage[d] /\ req'[d] = req[d] /\ task'[d] = task[d]
    BY <1>1, CallBegins DEF ShapesKnown
<1>3. EntityKnown(c)' /\ StageKnown(c)'
    BY <1>2 DEF EntityKnown, StageKnown, DeletionKnown, Deletes, Creates, Asks
<1> QED BY <1>1, <1>2, <1>3, SettingsStay, RowsStay, StepKeeps

\* The steps of completions and deletions after their beginning take rows away
\* at most.
EndingStep(c) == CancelRemind(c) \/ ArchiveTask(c) \/ DeleteTask(c)

LEMMA EndingStepGoes ==
    ASSUME NEW c \in Calls, EndingStep(c)
    PROVE  /\ stage[c] \in {"CancelRemind", "ArchiveTask", "DeleteTask"}
           /\ UNCHANGED <<now, settings, reminders, req, task>>
           /\ rows' = rows \/ rows' = Without(rows, req[c].task)
           /\ \E s \in Steps \cup Errors \cup {"ok"} :
                 /\ GoTo(c, s)
                 /\ \/ s \in Ended \cup {"ErrTaskNotFound"}
                    \/ stage[c] = "CancelRemind" /\ s = "ErrCancelRemindFailed"
                    \/ stage[c] = "ArchiveTask" /\ s = "duplicate key"
                    \/ /\ stage[c] = "CancelRemind"
                       /\ s = IF req[c].kind = "complete" THEN "ArchiveTask" ELSE "DeleteTask"
<1>1. CASE CancelRemind(c)
    BY <1>1 DEF CancelRemind, tables, Steps, Errors
<1>2. CASE ArchiveTask(c)
    BY <1>2 DEF ArchiveTask, DatabaseFails, Ended, Steps, Errors
<1>3. CASE DeleteTask(c)
    BY <1>3 DEF DeleteTask, DatabaseFails, Ended, Steps, Errors
<1> QED BY <1>1, <1>2, <1>3 DEF EndingStep

LEMMA EndingStepKeeps ==
    ASSUME ScheduleInv, NEW c \in Calls, EndingStep(c)
    PROVE  ScheduleInv'
<1> PICK s \in Steps \cup Errors \cup {"ok"} :
        /\ GoTo(c, s)
        /\ \/ s \in Ended \cup {"ErrTaskNotFound"}
           \/ stage[c] = "CancelRemind" /\ s = "ErrCancelRemindFailed"
           \/ stage[c] = "ArchiveTask" /\ s = "duplicate key"
           \/ /\ stage[c] = "CancelRemind"
              /\ s = IF req[c].kind = "complete" THEN "ArchiveTask" ELSE "DeleteTask"
    BY EndingStepGoes
<1>1. /\ stage[c] \in {"CancelRemind", "ArchiveTask", "DeleteTask"}
      /\ UNCHANGED <<now, settings, reminders, req, task>>
      /\ rows' = rows \/ rows' = Without(rows, req[c].task)
    BY EndingStepGoes
<1>2. \A t \in DOMAIN rows' : t \in DOMAIN rows /\ rows'[t] = rows[t]
    BY <1>1 DEF Without
<1>3. ShapesKnown /\ stage[c] \in Steps /\ s # "idle" /\ DOMAIN rows' \subseteq Calls
    BY <1>1, <1>2 DEF ScheduleInv, ShapesKnown, Steps, Ended
<1>4. /\ ShapesKnown' /\ stage'[c] = s /\ Fixed
      /\ \A d \in Calls \ {c} : stage'[d] = stage[d] /\ req'[d] = req[d] /\ task'[d] = task[d]
    BY <1>1, <1>3, CallGoesOn DEF ShapesKnown
<1>5. \/ Completes(c) /\ HasCopy(c) /\ stage[c] # "DeleteTask"
      \/ Deletes(c) /\ stage[c] # "ArchiveTask"
    <2>1. ~(Completes(c) /\ Deletes(c))
        BY DEF Completes, Deletes
    <2> QED BY <1>1, <2>1, StepsTell
<1>6. EntityKnown(c)'
    BY <1>1, <1>5 DEF EntityKnown, Creates, Asks, Completes, Deletes
<1>7. StageKnown(c)'
    <2>1. CASE Completes(c) /\ HasCopy(c) /\ stage[c] # "DeleteTask"
        <3>1. Descends(task[c], req[c].task)'
            <4> PICK x, t : x = task[c] /\ t = req[c].task
                OBVIOUS
            <4>1. Descends(x, t)'
                BY <1>4, <2>1, DescendantStays DEF HasCopy
            <4> QED BY <1>1, <4>1
        <3>2. HasCopy(c)' /\ Completes(c)' /\ Updates(c)' /\ req[c].kind = "complete"
            BY <1>1, <2>1, <3>1 DEF HasCopy, Completes, Updates
        <3>3. UpdateKnown(c)'
            BY <1>4, <2>1, <3>2 DEF UpdateKnown
        <3> QED BY <3>2, <3>3 DEF StageKnown
    <2>2. CASE Deletes(c) /\ stage[c] # "ArchiveTask"
        BY <1>1, <1>4, <2>2 DEF StageKnown, DeletionKnown, Deletes
    <2> QED BY <1>5, <2>1, <2>2
<1>8. RowsKnown'
    <2> SUFFICES ASSUME NEW t \in DOMAIN rows' PROVE Descends(rows[t], t)'
        BY DEF RowsKnown
    <2> PICK x : x = rows'[t]
        OBVIOUS
    <2>1. Descends(x, t)
        BY <1>2 DEF ScheduleInv, RowsKnown
    <2> QED BY <1>4, <2>1, DescendantStays
<1> QED BY <1>1, <1>4, <1>6, <1>7, <1>8, SettingsStay, StepKeeps


(***************************************************************************)
(* Reads, and the clock                                                    *)
(***************************************************************************)

LEMMA ReadFinds ==
    ASSUME ScheduleInv, NEW c, NEW u, NEW found, \A t \in found : Own(u, t), Read(c, found)
    PROVE  \E s \in Ended : GoTo(c, s)
<1>1. \A t \in found : TaskErrors(rows[t]) = {}
    BY OwnRow
<1> QED BY <1>1 DEF Read, DatabaseFails, Ended

LEMMA ReadsKeep ==
    ASSUME ScheduleInv, NEW c \in Calls, GetTask(c) \/ ListActiveTasks(c)
    PROVE  ScheduleInv'
<1>1. \E r \in Requests :
        /\ Begin(c, r) /\ UNCHANGED <<now, tables, task>>
        /\ \/ r.kind = "get" /\ \E s \in Ended \cup {"ErrTaskNotFound"} : GoTo(c, s)
           \/ r.kind = "list" /\ \E s \in Ended : GoTo(c, s)
    <2>1. CASE GetTask(c)
        <3> PICK r \in GetRequest :
                /\ Begin(c, r)
                /\ IF Own(r.user, r.task) THEN Read(c, {r.task})
                   ELSE GoTo(c, "ErrTaskNotFound") \/ DatabaseFails(c)
                /\ UNCHANGED <<now, tables, task>>
            BY <2>1 DEF GetTask
        <3>1. r \in Requests /\ r.kind = "get"
            BY DEF GetRequest, Requests
        <3>2. \E s \in Ended \cup {"ErrTaskNotFound"} : GoTo(c, s)
            <4>1. CASE Own(r.user, r.task)
                BY <4>1, ReadFinds
            <4>2. CASE ~Own(r.user, r.task)
                BY <4>2 DEF DatabaseFails, Ended
            <4> QED BY <4>1, <4>2
        <3> QED BY <3>1, <3>2
    <2>2. CASE ListActiveTasks(c)
        BY <2>2, ReadFinds DEF ListActiveTasks, ListRequest, Requests
    <2> QED BY <2>1, <2>2
<1> PICK r \in Requests :
        /\ Begin(c, r) /\ UNCHANGED <<now, tables, task>>
        /\ \/ r.kind = "get" /\ \E s \in Ended \cup {"ErrTaskNotFound"} : GoTo(c, s)
           \/ r.kind = "list" /\ \E s \in Ended : GoTo(c, s)
    BY <1>1
<1> PICK s : /\ GoTo(c, s)
             /\ \/ r.kind = "get" /\ s \in Ended \cup {"ErrTaskNotFound"}
                \/ r.kind = "list" /\ s \in Ended
    OBVIOUS
<1>2. UNCHANGED <<now, settings, rows, reminders, task>> /\ s # "idle" /\ ShapesKnown
    BY DEF tables, Ended, ScheduleInv
<1>3. /\ ShapesKnown' /\ req'[c] = r /\ r # None /\ stage'[c] = s /\ Fixed
      /\ \A d \in Calls \ {c} : stage'[d] = stage[d] /\ req'[d] = req[d] /\ task'[d] = task[d]
    BY <1>2, CallBegins DEF ShapesKnown
<1>4. EntityKnown(c)' /\ StageKnown(c)'
    BY <1>3 DEF EntityKnown, StageKnown, Creates, Asks
<1> QED BY <1>2, <1>3, <1>4, SettingsStay, RowsStay, StepKeeps

LEMMA NothingMoves ==
    ASSUME ScheduleInv, now' \in Nat, UNCHANGED <<settings, rows, req, stage, task>>
    PROVE  ScheduleInv'
<1>1. Fixed /\ ShapesKnown'
    BY DEF ScheduleInv, ShapesKnown, Fixed
<1>2. \A c \in Calls : EntityKnown(c)' /\ StageKnown(c)'
    BY <1>1, OtherStays DEF ScheduleInv
<1> QED BY <1>1, <1>2, SettingsStay, RowsStay DEF ScheduleInv

LEMMA ScheduleInit == Init => ScheduleInv
<1> SUFFICES ASSUME Init PROVE ScheduleInv
    OBVIOUS
<1>1. DOMAIN rows = {}
    BY DEF Init
<1>2. ShapesKnown
    BY <1>1, ScheduleTimesAssumption DEF Init, ShapesKnown
<1>3. SettingsAreOneRequest
    BY DEF Init, SettingsAreOneRequest
<1>4. \A c \in Calls : EntityKnown(c) /\ StageKnown(c)
    BY DEF Init, EntityKnown, StageKnown, Creates, Asks
<1> QED BY <1>1, <1>2, <1>3, <1>4 DEF ScheduleInv, RowsKnown

LEMMA ScheduleStep == ScheduleInv /\ [Next]_vars => ScheduleInv'
<1> SUFFICES ASSUME ScheduleInv, [Next]_vars PROVE ScheduleInv'
    OBVIOUS
<1>1. CASE Tick \/ UNCHANGED vars
    <2>1. now' \in Nat /\ UNCHANGED <<settings, rows, req, stage, task>>
        BY <1>1, ScheduleTimesAssumption DEF Tick, tables, vars, ScheduleInv, ShapesKnown
    <2> QED BY <2>1, NothingMoves
<1>2. ASSUME NEW c \in Calls, Step(c)
      PROVE  ScheduleInv'
    BY <1>2, UpdatePeriodSettingsKeeps, GetPeriodSettingsKeeps, BeginCreateTaskKeeps,
       CreateTaskKeeps, BeginUpdateTaskKeeps, UpdateTaskKeeps, BeginDeleteTaskKeeps,
       EndingStepKeeps, ReadsKeep DEF Step, Start, EndingStep
<1> QED BY <1>1, <1>2 DEF Next

-----------------------------------------------------------------------------
(***************************************************************************)
(* Targets, reminders and types                                            *)
(***************************************************************************)

\* The target of t, which was made from the task of call c, is that of the
\* creation or one that the owner asked for in an update.
Moved(t, c) ==
    \/ t.targetAt = task[c].targetAt
    \/ \E d \in Calls : /\ Asks(d, "update") /\ req[d].task = c /\ req[d].user = t.user
                        /\ req[d].scheduledAt = t.targetAt

\* Also of an update that is about to write, however old its copy is.
TargetsKnown ==
    /\ \A t \in DOMAIN rows : Moved(rows[t], t)
    /\ \A c \in Calls : stage[c] = "UpdateTask" => Moved(task[c], req[c].task)

\* Reminders are those of the entity that was created.
RemindersKnown ==
    \A m \in reminders : /\ m.task \in Calls /\ Creates(m.task) /\ IsTask(task[m.task])
                         /\ m.times \in RemindersFor(task[m.task])

EntitiesTyped ==
    /\ now \in Instants
    /\ stage = [c \in Calls |-> stage[c]]
    /\ \A c \in Calls : task[c] = None \/ task[c] \in Task

ReminderInv == TargetsKnown /\ RemindersKnown /\ EntitiesTyped

\* What each action leaves alone.
LEMMA TablesTouched ==
    ASSUME NEW c, Step(c)
    PROVE  /\ now' = now
           /\ reminders' = reminders \/ Register(c)
           /\ completed' = completed \/ ArchiveTask(c)
           /\ \/ rows' = rows \/ SaveTask(c) \/ Register(c)
              \/ UpdateTask(c) \/ ArchiveTask(c) \/ DeleteTask(c)
           /\ task' = task \/ BeginCreateTask(c) \/ BeginUpdateTask(c)
<1>1. CASE UpdatePeriodSettings(c) \/ GetPeriodSettings(c) \/ GetTask(c) \/ ListActiveTasks(c)
    BY <1>1 DEF UpdatePeriodSettings, GetPeriodSettings, GetTask, ListActiveTasks, tables
<1>2. CASE BeginCreateTask(c) \/ BeginUpdateTask(c) \/ BeginDeleteTask(c)
    BY <1>2 DEF BeginCreateTask, BeginUpdateTask, BeginDeleteTask, tables
<1>3. CASE FetchDevices(c) \/ SaveTask(c) \/ Register(c) \/ UpdateTaskStatus(c)
    BY <1>3 DEF FetchDevices, SaveTask, Register, UpdateTaskStatus, tables
<1>4. CASE UpdateTask(c) \/ CancelRemind(c) \/ ArchiveTask(c) \/ DeleteTask(c)
    BY <1>4 DEF UpdateTask, CancelRemind, ArchiveTask, DeleteTask, tables
<1> QED BY <1>1, <1>2, <1>3, <1>4 DEF Step, Start

\* A call begins, goes on with a creation, an update or an ending.
Begins(c) ==
    \/ UpdatePeriodSettings(c) \/ GetPeriodSettings(c) \/ GetTask(c) \/ ListActiveTasks(c)
    \/ BeginCreateTask(c) \/ BeginUpdateTask(c) \/ BeginDeleteTask(c)

GoesOn(c) ==
    \/ FetchDevices(c) \/ SaveTask(c) \/ Register(c) \/ UpdateTaskStatus(c)
    \/ UpdateTask(c) \/ EndingStep(c)

LEMMA BeginsOrGoesOn ==
    ASSUME NEW c, Step(c)
    PROVE  Begins(c) \/ GoesOn(c)
BY DEF Step, Start, Begins, GoesOn, EndingStep

LEMMA CreationStages ==
    ASSUME NEW c \in Calls, FetchDevices(c) \/ SaveTask(c) \/ Register(c) \/ UpdateTaskStatus(c)
    PROVE  /\ stage[c] \in CreationSteps /\ req' = req /\ task' = task
           /\ \E s \in {"SaveTask", "Register", "UpdateTaskStatus", "ErrTaskNotFound",
                         "ErrRemindQueueRegistrationFailed"} \cup Unreachable \cup Ended :
                 /\ GoTo(c, s)
                 /\ s = "Register" => SaveTask(c)
                 /\ s = "UpdateTaskStatus" => SaveTask(c) \/ Register(c)
                 /\ s = "ErrTaskNotFound" => UpdateTaskStatus(c)
<1>1. CASE FetchDevices(c)
    BY <1>1 DEF FetchDevices, CreationSteps, Unreachable, tables
<1>2. CASE SaveTask(c)
    BY <1>2 DEF SaveTask, DatabaseFails, Ended, CreationSteps
<1>3. CASE Register(c)
    BY <1>3 DEF Register, CreationSteps
<1>4. CASE UpdateTaskStatus(c)
    BY <1>4 DEF UpdateTaskStatus, DatabaseFails, Ended, CreationSteps, tables
<1> QED BY <1>1, <1>2, <1>3, <1>4

\* Where a call is after its first step.
LEMMA FirstStages ==
    ASSUME ScheduleInv, NEW c \in Calls, Begins(c)
    PROVE  /\ \E r \in Requests : Begin(c, r)
           /\ \A d \in Calls \ {c} : task'[d] = task[d]
           /\ \E s \in {"Fetch", "UpdateTask", "CancelRemind", "ErrTaskNotFound"}
                         \cup InvalidTask \cup InvalidPeriods \cup Ended :
                 /\ GoTo(c, s)
                 /\ s = "UpdateTask" => BeginUpdateTask(c)
                 /\ s = "ErrTaskNotFound" => ~Creates(c)'
<1>1. CASE UpdatePeriodSettings(c)
    <2>1. \E r \in SettingsRequest : Begin(c, r) /\ r \in Requests
        BY <1>1 DEF UpdatePeriodSettings, Requests
    <2>2. \E s \in InvalidPeriods \cup Ended : GoTo(c, s)
        <3>1. \A periods : \A e \in PeriodErrors(periods) : e \in InvalidPeriods
            BY PeriodErrorsAre
        <3> QED BY <1>1, <3>1 DEF UpdatePeriodSettings, DatabaseFails, Ended
    <2>3. task' = task
        BY <1>1 DEF UpdatePeriodSettings
    <2> QED BY <2>1, <2>2, <2>3 DEF Ended, InvalidPeriods
<1>2. CASE GetPeriodSettings(c)
    <2>1. \E r \in GetSettingsRequest : Begin(c, r) /\ r \in Requests
        BY <1>2 DEF GetPeriodSettings, Requests
    <2>2. \E s \in InvalidPeriods \cup Ended : GoTo(c, s)
        <3>1. \A periods : \A e \in PeriodErrors(periods) : e \in InvalidPeriods
            BY PeriodErrorsAre
        <3> QED BY <1>2, <3>1 DEF GetPeriodSettings, DatabaseFails, Ended
    <2>3. task' = task
        BY <1>2 DEF GetPeriodSettings
    <2> QED BY <2>1, <2>2, <2>3 DEF Ended, InvalidPeriods
<1>3. CASE GetTask(c) \/ ListActiveTasks(c)
    <2>1. \E r \in Requests :
            /\ r.kind # "create" /\ Begin(c, r) /\ task' = task
            /\ \E s \in Ended \cup {"ErrTaskNotFound"} \cup InvalidTask : GoTo(c, s)
        <3>1. \A found : Read(c, found) => \E s \in Ended \cup InvalidTask : GoTo(c, s)
            BY TaskErrorsAre DEF Read, DatabaseFails, Ended
        <3>2. CASE GetTask(c)
            BY <3>1, <3>2 DEF GetTask, GetRequest, Requests, DatabaseFails, Ended
        <3>3. CASE ListActiveTasks(c)
            BY <3>1, <3>3 DEF ListActiveTasks, ListRequest, Requests
        <3> QED BY <1>3, <3>2, <3>3
    <2> PICK r \in Requests, s \in Ended \cup {"ErrTaskNotFound"} \cup InvalidTask :
            r.kind # "create" /\ Begin(c, r) /\ task' = task /\ GoTo(c, s)
        BY <2>1
    <2>2. ~Creates(c)'
        BY DEF Creates, Asks, Begin, ScheduleInv, ShapesKnown
    <2>3. s # "UpdateTask"
        BY DEF Ended, InvalidTask
    <2> QED BY <2>2, <2>3
<1>4. CASE BeginCreateTask(c)
    <2> PICK r \in CreateRequest :
            /\ Begin(c, r)
            /\ \E e : task' = [task EXCEPT ![c] = e]
            /\ \/ GoTo(c, "Fetch") \/ GoTo(c, "database error")
               \/ \E e \in TaskErrors(task'[c]) : GoTo(c, e)
        BY <1>4 DEF BeginCreateTask, DatabaseFails
    <2>1. \E s \in {"Fetch", "database error"} \cup InvalidTask : GoTo(c, s)
        BY TaskErrorsAre
    <2>2. \A d \in Calls \ {c} : task'[d] = task[d]
        BY DEF ScheduleInv, ShapesKnown
    <2> QED BY <2>1, <2>2, CreateFields DEF Ended, InvalidTask
<1>5. CASE BeginUpdateTask(c)
    <2> PICK r \in UpdateRequest, s \in Steps \cup Errors :
            /\ Begin(c, r) /\ GoTo(c, s)
            /\ \/ s \in {"ErrTaskNotFound", "database error"}
               \/ Own(r.user, r.task) /\ s \in UpdateErrors(r, rows[r.task])
               \/ s = AfterRead(r)
            /\ \A d \in Calls \ {c} : task'[d] = task[d]
        BY <1>5, UpdateBegins
    <2>1. Own(r.user, r.task) => Descends(rows[r.task], r.task)
        BY OwnRow
    <2>2. s \in {"ErrTaskNotFound", "database error", "UpdateTask", "CancelRemind"} \cup InvalidTask
        BY <2>1, RefusedIsImpossible DEF AfterRead
    <2>3. ~Creates(c)' /\ r \in Requests
        BY UpdateFields DEF Creates, Asks, Begin, ScheduleInv, ShapesKnown
    <2> QED BY <1>5, <2>2, <2>3 DEF Ended
<1>6. CASE BeginDeleteTask(c)
    BY <1>6 DEF BeginDeleteTask, DeleteRequest, Requests
<1> QED BY <1>1, <1>2, <1>3, <1>4, <1>5, <1>6 DEF Begins

\* A step of a call begins it or goes on with what it has.
LEMMA CallMoves ==
    ASSUME ScheduleInv, NEW c \in Calls, Step(c)
    PROVE  /\ \E s : GoTo(c, s)
           /\ \/ stage[c] # "idle" /\ req' = req /\ task' = task
              \/ /\ req[c] = None
                 /\ \A d \in Calls \ {c} : req'[d] = req[d] /\ task'[d] = task[d]
           /\ Fixed
<1>1. CASE Begins(c)
    <2>1. /\ \E s : GoTo(c, s)
          /\ req[c] = None /\ stage[c] = "idle"
          /\ \A d \in Calls \ {c} : req'[d] = req[d] /\ task'[d] = task[d]
        BY <1>1, FirstStages DEF Begin, ScheduleInv, ShapesKnown
    <2> QED BY <2>1 DEF Fixed, Creates, Asks, GoTo, Ended, ScheduleInv, ShapesKnown
<1>2. CASE GoesOn(c)
    <2>1. stage[c] \in Steps /\ req' = req /\ task' = task /\ \E s : GoTo(c, s)
        <3>1. CASE UpdateTask(c)
            BY <3>1 DEF UpdateTask, DatabaseFails, Steps
        <3>2. CASE EndingStep(c)
            BY <3>2, EndingStepGoes DEF Steps
        <3>3. CASE ~UpdateTask(c) /\ ~EndingStep(c)
            BY <1>2, <3>3, CreationStages DEF GoesOn, CreationSteps, Steps
        <3> QED BY <3>1, <3>2, <3>3
    <2> QED BY <2>1 DEF Fixed, GoTo, Ended, Steps, ScheduleInv, ShapesKnown
<1> QED BY <1>1, <1>2, BeginsOrGoesOn

\* Which actions lead to the stages that matter below.
LEMMA StageReached ==
    ASSUME ScheduleInv, NEW c \in Calls, Step(c)
    PROVE  /\ stage'[c] = "UpdateTask" => BeginUpdateTask(c)
           /\ stage'[c] = "Register" => SaveTask(c)
           /\ stage'[c] = "UpdateTaskStatus" => SaveTask(c) \/ Register(c)
           /\ stage'[c] = "duplicate key" => ArchiveTask(c)
           /\ stage'[c] = "ErrTaskNotFound" /\ Creates(c)' => UpdateTaskStatus(c)
<1>1. \A s : GoTo(c, s) => stage'[c] = s
    BY DEF GoTo, ScheduleInv, ShapesKnown
<1>2. CASE Begins(c)
    BY <1>1, <1>2, FirstStages DEF Ended, InvalidTask, InvalidPeriods
<1>3. CASE FetchDevices(c) \/ SaveTask(c) \/ Register(c) \/ UpdateTaskStatus(c)
    BY <1>1, <1>3, CreationStages DEF Ended, Unreachable
<1>4. CASE UpdateTask(c)
    <2>1. stage'[c] \in Ended \cup {"ErrTaskNotFound"} /\ req' = req
        BY <1>1, <1>4 DEF UpdateTask, DatabaseFails, Ended
    <2>2. ~Creates(c)
        BY <1>4, StepsTell DEF UpdateTask, Creates, Asks
    <2> QED BY <2>1, <2>2 DEF Ended, Creates, Asks
<1>5. CASE EndingStep(c)
    <2>1. ~Creates(c)
        BY <1>5, EndingStepGoes, StepsTell DEF Completes, Deletes, Creates, Asks
    <2>2. /\ stage'[c] \in Ended \cup {"ErrTaskNotFound", "ErrCancelRemindFailed", "duplicate key",
                                    "ArchiveTask", "DeleteTask"}
          /\ stage'[c] = "duplicate key" => stage[c] = "ArchiveTask"
          /\ req' = req
        BY <1>1, <1>5, EndingStepGoes DEF Ended
    <2>3. stage[c] = "ArchiveTask" => ArchiveTask(c)
        BY <1>5 DEF EndingStep, CancelRemind, DeleteTask
    <2> QED BY <2>1, <2>2, <2>3 DEF Ended, Creates, Asks
<1> QED BY <1>2, <1>3, <1>4, <1>5, BeginsOrGoesOn DEF GoesOn

LEMMA MovedStays ==
    ASSUME Fixed, NEW t, NEW c \in Calls, Creates(c), Moved(t, c)
    PROVE  Moved(t, c)'
BY DEF Fixed, Moved, Creates, Asks

\* What was known of the rows and copies that are not touched stays known.
LEMMA TargetsStay ==
    ASSUME ScheduleInv, TargetsKnown, Fixed,
           \A t \in DOMAIN rows' : \/ t \in DOMAIN rows /\ rows'[t] = rows[t]
                                   \/ t \in Calls /\ Creates(t) /\ Moved(rows'[t], t),
           \A c \in Calls : stage'[c] = "UpdateTask" =>
               \/ stage[c] = "UpdateTask" /\ task'[c] = task[c] /\ req'[c] = req[c]
               \/ Moved(task[c], req[c].task)'
    PROVE  TargetsKnown'
<1>1. ASSUME NEW t \in DOMAIN rows' PROVE Moved(rows[t], t)'
    <2> PICK x : x = rows'[t]
        OBVIOUS
    <2>1. t \in Calls /\ Creates(t) /\ Moved(x, t)
        BY <1>1 DEF ScheduleInv, RowsKnown, Descends, TargetsKnown
    <2>2. Moved(x, t)'
        BY <2>1, MovedStays
    <2> QED BY <2>2
<1>2. ASSUME NEW c \in Calls, stage[c] = "UpdateTask", task'[c] = task[c], req'[c] = req[c]
      PROVE  Moved(task[c], req[c].task)'
    <2> PICK x, t : x = task[c] /\ t = req[c].task
        OBVIOUS
    <2>1. t \in Calls /\ Creates(t)
        BY <1>2, StepsTell DEF HasCopy, Descends
    <2>2. Moved(x, t)'
        BY <1>2, <2>1, MovedStays DEF TargetsKnown
    <2> QED BY <1>2, <2>2
<1> QED BY <1>1, <1>2 DEF TargetsKnown

LEMMA UpdateMoves ==
    ASSUME NEW x, NEW c \in Calls, NEW r \in UpdateRequest, Descends(x, c)
    PROVE  LET y == ApplyUpdate(x, r)
           IN y.user = x.user /\ (y.targetAt = x.targetAt \/ y.targetAt = r.scheduledAt)
<1> DEFINE at == CASE r.scheduledAt = Clear -> None
                   [] r.scheduledAt = None -> x.scheduledAt
                   [] OTHER -> r.scheduledAt
<1> PICK y : y = ApplyUpdate(x, r)
    OBVIOUS
<1>1. x \in Task /\ HasOwnTime(x)
    BY DEF Descends
<1>2. y = [x EXCEPT !.scheduledAt = at,
                    !.targetAt = IF x.type = "scheduled" /\ at # None THEN at ELSE @]
    BY DEF ApplyUpdate
<1>3. y.user = x.user /\ y.targetAt = IF x.type = "scheduled" /\ at # None THEN at ELSE x.targetAt
    <2> HIDE DEF at
    <2> QED BY <1>1, <1>2 DEF Task
<1>4. at # None => at = r.scheduledAt \/ at = x.scheduledAt
    OBVIOUS
<1> HIDE DEF at
<1> QED BY <1>1, <1>3, <1>4 DEF HasOwnTime

LEMMA BeginUpdateKeepsTargets ==
    ASSUME ScheduleInv, TargetsKnown, NEW c \in Calls, BeginUpdateTask(c)
    PROVE  TargetsKnown'
<1> PICK r \in UpdateRequest, s \in Steps \cup Errors :
        /\ Begin(c, r) /\ GoTo(c, s)
        /\ \/ s \in {"ErrTaskNotFound", "database error"} /\ task'[c] = task[c]
           \/ /\ Own(r.user, r.task) /\ s \in UpdateErrors(r, rows[r.task])
              /\ task'[c] = task[c]
           \/ /\ Own(r.user, r.task) /\ UpdateErrors(r, rows[r.task]) = {}
              /\ s = AfterRead(r) /\ task'[c] = ApplyUpdate(rows[r.task], r)
        /\ \A d \in Calls \ {c} : task'[d] = task[d]
        /\ UNCHANGED <<now, tables>>
    BY UpdateBegins
<1>1. /\ DOMAIN stage = Calls /\ DOMAIN req = Calls /\ DOMAIN task = Calls
      /\ req' = [req EXCEPT ![c] = r] /\ rows' = rows
    BY DEF ScheduleInv, ShapesKnown, Begin, tables
<1>2. Fixed
    BY CallMoves DEF Step, Start, Begin
<1>3. stage'[c] = "UpdateTask" => Moved(task[c], req[c].task)'
    <2> SUFFICES ASSUME stage'[c] = "UpdateTask" PROVE Moved(task[c], req[c].task)'
        OBVIOUS
    <2> PICK t, x, y : t = r.task /\ x = rows[r.task] /\ y = ApplyUpdate(x, r)
        OBVIOUS
    <2>1. /\ Own(r.user, t) /\ task'[c] = y /\ req'[c] = r
          /\ r.kind = "update" /\ r # None
        <3>1. stage'[c] = s
            BY <1>1 DEF GoTo
        <3>2. Own(r.user, r.task) => \A e \in UpdateErrors(r, rows[r.task]) : e \in InvalidTask
            BY OwnRow, RefusedIsImpossible
        <3>3. r \in Requests /\ r.kind \in {"update", "complete"}
            BY UpdateFields
        <3> QED BY <1>1, <3>1, <3>2, <3>3, ScheduleNoneAssumption DEF AfterRead, InvalidTask
    <2>2. t \in Calls /\ Creates(t) /\ Descends(x, t) /\ Moved(x, t) /\ x.user = r.user
        BY <2>1, OwnRow DEF TargetsKnown, Own
    <2>3. task'[c] = y /\ req'[c] = r
        BY <2>1
    <2>4. y.user = x.user /\ (y.targetAt = x.targetAt \/ y.targetAt = r.scheduledAt)
        BY <2>2, UpdateMoves
    <2>5. CASE y.targetAt = x.targetAt
        <3>1. Moved(y, t)
            BY <2>2, <2>4, <2>5 DEF Moved
        <3>2. Moved(y, t)'
            BY <1>2, <2>2, <3>1, MovedStays
        <3> QED BY <2>3, <3>2
    <2>6. CASE y.targetAt = r.scheduledAt
        <3>1. /\ Asks(c, "update")' /\ req'[c].task = t
              /\ req'[c].user = y.user /\ req'[c].scheduledAt = y.targetAt
            BY <2>1, <2>2, <2>4, <2>6 DEF Asks
        <3>2. Moved(y, t)'
            BY <3>1 DEF Moved
        <3> QED BY <2>3, <3>2
    <2> QED BY <2>4, <2>5, <2>6
<1>4. \A d \in Calls \ {c} : stage'[d] = stage[d] /\ req'[d] = req[d] /\ task'[d] = task[d]
    BY <1>1, <1>2 DEF GoTo
<1> QED BY <1>1, <1>2, <1>3, <1>4, TargetsStay

LEMMA UpdateTaskKeepsTargets ==
    ASSUME ScheduleInv, TargetsKnown, NEW c \in Calls, UpdateTask(c)
    PROVE  TargetsKnown'
<1> PICK t, y : t = req[c].task /\ y = task[c]
    OBVIOUS
<1>1. /\ stage[c] = "UpdateTask" /\ req' = req /\ task' = task
      /\ \/ rows' = rows
         \/ /\ Own(req[c].user, t)
            /\ rows' = [rows EXCEPT ![t].scheduledAt = y.scheduledAt, ![t].targetAt = y.targetAt]
    BY DEF UpdateTask
<1>2. Descends(y, t) /\ Moved(y, t)
    BY <1>1, StepsTell DEF HasCopy, TargetsKnown
<1>3. ASSUME NEW d \in DOMAIN rows'
      PROVE  \/ d \in DOMAIN rows /\ rows'[d] = rows[d]
             \/ d \in Calls /\ Creates(d) /\ Moved(rows'[d], d)
    <2>1. CASE rows' = rows \/ d # t
        BY <1>1, <2>1
    <2>2. CASE rows' # rows /\ d = t
        <3> PICK x, z : x = rows[t] /\ z = rows'[t]
            OBVIOUS
        <3>1. Own(req[c].user, t) /\ Descends(x, t)
            BY <1>1, <2>2, OwnRow
        <3>2. z = [x EXCEPT !.scheduledAt = y.scheduledAt, !.targetAt = y.targetAt]
            BY <1>1, <2>2, <3>1 DEF Own
        <3>3. z.targetAt = y.targetAt /\ z.user = y.user
            BY <1>2, <3>1, <3>2 DEF Descends, Task
        <3>4. Moved(z, t)
            BY <1>2, <3>3 DEF Moved
        <3> QED BY <2>2, <3>1, <3>4 DEF Descends
    <2> QED BY <2>1, <2>2
<1>4. Fixed /\ \E s : GoTo(c, s)
    BY CallMoves DEF Step
<1>5. ASSUME NEW d \in Calls, stage'[d] = "UpdateTask" PROVE stage[d] = "UpdateTask"
    BY <1>1, <1>4, <1>5 DEF GoTo, ScheduleInv, ShapesKnown
<1> QED BY <1>1, <1>3, <1>4, <1>5, TargetsStay

LEMMA StepKeepsTargets ==
    ASSUME ScheduleInv, TargetsKnown, NEW c \in Calls, Step(c)
    PROVE  TargetsKnown'
<1>1. CASE BeginUpdateTask(c)
    BY <1>1, BeginUpdateKeepsTargets
<1>2. CASE UpdateTask(c)
    BY <1>2, UpdateTaskKeepsTargets
<1>3. CASE ~BeginUpdateTask(c) /\ ~UpdateTask(c)
    <2>1. Fixed /\ \E s : GoTo(c, s)
        BY CallMoves
    <2>2. ASSUME NEW d \in DOMAIN rows'
          PROVE  \/ d \in DOMAIN rows /\ rows'[d] = rows[d]
                 \/ d \in Calls /\ Creates(d) /\ Moved(rows'[d], d)
        <3>1. CASE SaveTask(c)
            <4>1. Creates(c)
                BY <3>1, StepsTell DEF SaveTask, CreationSteps
            <4>2. rows' = rows \/ rows' = Put(rows, c, task[c])
                BY <3>1 DEF SaveTask
            <4> QED BY <4>1, <4>2 DEF Put, Moved
        <3>2. CASE Register(c) \/ ArchiveTask(c) \/ DeleteTask(c)
            <4>1. rows' = rows \/ \E t : rows' = Without(rows, t)
                BY <3>2 DEF Register, ArchiveTask, DeleteTask
            <4> QED BY <4>1 DEF Without
        <3> QED BY <1>3, <3>1, <3>2, TablesTouched
    <2>3. stage'[c] # "UpdateTask"
        BY <1>3, StageReached
    <2>4. ASSUME NEW d \in Calls, stage'[d] = "UpdateTask"
          PROVE  stage[d] = "UpdateTask" /\ task'[d] = task[d] /\ req'[d] = req[d]
        <3>1. d # c
            BY <2>3, <2>4
        <3>2. stage'[d] = stage[d]
            BY <2>1, <3>1 DEF GoTo, ScheduleInv, ShapesKnown
        <3> QED BY <2>4, <3>1, <3>2, CallMoves
    <2> QED BY <2>1, <2>2, <2>4, TargetsStay
<1> QED BY <1>1, <1>2, <1>3

LEMMA StepKeepsReminders ==
    ASSUME ScheduleInv, RemindersKnown, NEW c \in Calls, Step(c)
    PROVE  RemindersKnown'
<1>1. Fixed
    BY CallMoves
<1>2. ASSUME NEW m, m.task \in Calls, Creates(m.task), IsTask(task[m.task]),
             m.times \in RemindersFor(task[m.task])
      PROVE  /\ Creates(m.task)' /\ IsTask(task[m.task])'
             /\ m.times \in RemindersFor(task'[m.task])
    BY <1>1, <1>2 DEF Fixed, Creates, Asks
<1>3. CASE Register(c)
    <2>1. Creates(c) /\ IsTask(task[c])
        BY <1>3, StepsTell DEF Register, CreationSteps
    <2>2. ASSUME NEW m \in reminders'
          PROVE  m \in reminders \/ (m.task = c /\ m.times \in RemindersFor(task[c]))
        BY <1>3, <2>2 DEF Register
    <2>3. ASSUME NEW m \in reminders'
          PROVE  /\ m.task \in Calls /\ Creates(m.task) /\ IsTask(task[m.task])
                 /\ m.times \in RemindersFor(task[m.task])
        BY <2>1, <2>2, <2>3 DEF RemindersKnown
    <2> QED BY <1>2, <2>3 DEF RemindersKnown
<1>4. CASE ~Register(c)
    <2>1. reminders' = reminders
        BY <1>4, TablesTouched
    <2> QED BY <1>2, <2>1 DEF RemindersKnown
<1> QED BY <1>3, <1>4

LEMMA StepKeepsTypes ==
    ASSUME ScheduleInv, ScheduleInv', EntitiesTyped, NEW c \in Calls, Step(c)
    PROVE  EntitiesTyped'
<1>1. now' = now
    BY TablesTouched
<1>2. stage' = [d \in Calls |-> stage'[d]]
    <2> PICK s : GoTo(c, s)
        BY CallMoves
    <2>1. stage' = [d \in Calls |-> IF d = c THEN s ELSE stage[d]]
        BY DEF GoTo, EntitiesTyped
    <2> QED BY <2>1
<1>3. ASSUME NEW d \in Calls PROVE task'[d] = None \/ task'[d] \in Task
    <2>1. CASE task'[d] = task[d]
        BY <2>1 DEF EntitiesTyped
    <2>2. CASE BeginCreateTask(c) /\ d = c
        <3> PICK r \in CreateRequest : Begin(c, r)
            BY <2>2 DEF BeginCreateTask
        <3>1. Creates(c)'
            <4>1. req'[c] = r
                BY DEF Begin, ScheduleInv, ShapesKnown
            <4> QED BY <4>1, CreateFields, ScheduleNoneAssumption DEF Creates, Asks
        <3> QED BY <2>2, <3>1 DEF ScheduleInv, EntityKnown
    <2>3. CASE BeginUpdateTask(c) /\ d = c
        <3> PICK r \in UpdateRequest, s \in Steps \cup Errors :
                \/ /\ Own(r.user, r.task) /\ UpdateErrors(r, rows[r.task]) = {}
                   /\ task'[c] = ApplyUpdate(rows[r.task], r)
                \/ task'[c] = task[c]
            BY <2>3, UpdateBegins
        <3> PICK x, y : x = rows[r.task] /\ y = ApplyUpdate(x, r)
            OBVIOUS
        <3>1. Own(r.user, r.task) /\ UpdateErrors(r, x) = {} => Descends(y, r.task)
            BY OwnRow, UpdatedDescends
        <3> QED BY <2>1, <2>3, <3>1 DEF Descends
    <2>4. CASE ~BeginCreateTask(c) /\ ~BeginUpdateTask(c)
        BY <2>1, <2>4, TablesTouched
    <2>5. CASE d # c
        <3>1. task'[d] = task[d]
            BY <2>5, CallMoves
        <3> QED BY <2>1, <3>1
    <2> QED BY <2>2, <2>3, <2>4, <2>5
<1> QED BY <1>1, <1>2, <1>3 DEF EntitiesTyped

LEMMA ReminderStep == ScheduleInv /\ ScheduleInv' /\ ReminderInv /\ [Next]_vars => ReminderInv'
<1> SUFFICES ASSUME ScheduleInv, ScheduleInv', ReminderInv, [Next]_vars PROVE ReminderInv'
    OBVIOUS
<1>1. CASE Tick \/ UNCHANGED vars
    <2>1. UNCHANGED <<settings, rows, reminders, req, stage, task>> /\ now' \in Instants
        BY <1>1 DEF Tick, tables, vars, ReminderInv, EntitiesTyped
    <2>2. TargetsKnown'
        BY <2>1 DEF ReminderInv, TargetsKnown, Moved, Asks
    <2>3. RemindersKnown'
        BY <2>1 DEF ReminderInv, RemindersKnown, Creates, Asks
    <2>4. EntitiesTyped'
        BY <2>1 DEF ReminderInv, EntitiesTyped
    <2> QED BY <2>2, <2>3, <2>4 DEF ReminderInv
<1>2. ASSUME NEW c \in Calls, Step(c) PROVE ReminderInv'
    BY <1>2, StepKeepsTargets, StepKeepsReminders, StepKeepsTypes DEF ReminderInv
<1> QED BY <1>1, <1>2 DEF Next

LEMMA ReminderInit == Init => ReminderInv
BY DEF Init, ReminderInv, TargetsKnown, RemindersKnown, EntitiesTyped

\* A task is due after its creation at the earliest, so its reminders are spaced.
LEMMA SentReminders ==
    ASSUME ScheduleInv, RemindersKnown, NEW m \in reminders
    PROVE  /\ m.task \in Calls /\ m.times \in Seq(Nat)
           /\ InOrder(m.times, task[m.task].createdAt, task[m.task].targetAt)
           /\ task[m.task].targetAt - task[m.task].createdAt >= 5 * Minute
                 => Spread(m.times, task[m.task].createdAt)
<1> PICK t : t = task[m.task]
    OBVIOUS
<1>1. /\ m.task \in Calls /\ IsTask(t) /\ m.times \in RemindersFor(t)
      /\ t \in Task /\ HasPeriod(t) /\ HasOwnTime(t)
    BY DEF RemindersKnown, ScheduleInv, EntityKnown
<1>2. t.createdAt \in Nat /\ t.targetAt \in Nat /\ t.type \in Types
    BY <1>1, ScheduleTypesAssumption DEF Task
<1>3. t.createdAt <= t.targetAt
    <2>1. CASE t.type = "scheduled"
        <3>1. t.scheduledAt # None /\ ~(t.scheduledAt < t.createdAt) /\ t.targetAt = t.scheduledAt
            BY <1>1, <2>1 DEF IsTask, TaskErrors, HasOwnTime
        <3> QED BY <1>2, <3>1
    <2>2. CASE t.type # "scheduled"
        <3>1. PICK p \in AskedFor(t.user) \cup {<<>>} : t.targetAt = t.createdAt + PeriodFor(t.type, p)
            BY <1>1, <2>2 DEF HasPeriod
        <3>2. IsValid(p)
            BY <3>1, NoPeriodsAreValid DEF AskedFor
        <3>3. PeriodFor(t.type, p) \in Nat
            BY <1>2, <2>2, <3>2, PeriodForType DEF Types
        <3> QED BY <1>2, <3>1, <3>3
    <2> QED BY <2>1, <2>2
<1>4. m.times \in CalculateReminderTimes(t.type, t.createdAt, t.targetAt)
    BY <1>1 DEF RemindersFor
<1> QED BY <1>1, <1>2, <1>3, <1>4, RemindersAreSpaced

(***************************************************************************)
(* What completions and deletions leave                                    *)
(***************************************************************************)

EndedBy(t, u) == \E d \in Calls : MayEnd(d, t, u)

\* A completion of the owner was carried out, whether it could tell so or not.
CompletedBy(t, u) ==
    \E d \in Calls : Completes(d) /\ MayEnd(d, t, u) /\ stage[d] \in Ended

\* Rows that a creation has saved are there, or their owner has ended them.
CreationEnds(c) ==
    /\ stage[c] \in {"Register", "UpdateTaskStatus"} =>
          c \in DOMAIN rows \/ EndedBy(c, req[c].user)
    /\ Creates(c) /\ stage[c] = "ErrTaskNotFound" => EndedBy(c, req[c].user)

EndingInv ==
    /\ \A c \in Calls : CreationEnds(c)
    /\ \A t \in completed : t \in Calls /\ Creates(t) /\ CompletedBy(t, task[t].user)
    /\ \A c \in Calls : stage[c] = "duplicate key" => CompletedBy(req[c].task, req[c].user)

LEMMA EndingsStay ==
    ASSUME Fixed, NEW t, NEW u
    PROVE  /\ EndedBy(t, u) => EndedBy(t, u)'
           /\ CompletedBy(t, u) => CompletedBy(t, u)'
<1>1. ASSUME NEW d \in Calls, MayEnd(d, t, u) PROVE MayEnd(d, t, u)'
    BY <1>1 DEF Fixed, MayEnd, Completes, Deletes
<1>2. ASSUME NEW d \in Calls, Completes(d), stage[d] \in Ended
      PROVE  Completes(d)' /\ (stage[d] \in Ended)'
    BY <1>2 DEF Fixed, Completes, Ended
<1> QED BY <1>1, <1>2 DEF EndedBy, CompletedBy

\* A row goes only by its own creation, which gives up, or by its owner.
LEMMA RowsGo ==
    ASSUME ScheduleInv, NEW c \in Calls, Step(c), NEW t \in DOMAIN rows, t \notin DOMAIN rows'
    PROVE  \/ t = c /\ Register(c) /\ stage'[c] = "ErrRemindQueueRegistrationFailed"
           \/ EndedBy(t, req[t].user)
<1>1. CASE SaveTask(c) \/ UpdateTask(c)
    BY <1>1 DEF SaveTask, UpdateTask, Put
<1>2. CASE Register(c)
    BY <1>2 DEF Register, Without, GoTo, ScheduleInv, ShapesKnown
<1>3. CASE ArchiveTask(c) \/ DeleteTask(c)
    <2>1. t = req[c].task /\ Own(req[c].user, t)
        BY <1>3 DEF ArchiveTask, DeleteTask, Without
    <2>2. rows[t].user = req[t].user
        BY <2>1, OwnRow DEF ScheduleInv, EntityKnown, Descends
    <2>3. Completes(c) \/ Deletes(c)
        BY <1>3, StepsTell DEF ArchiveTask, DeleteTask
    <2> QED BY <2>1, <2>2, <2>3 DEF Own, EndedBy, MayEnd
<1> QED BY <1>1, <1>2, <1>3, TablesTouched

LEMMA StepKeepsEnds ==
    ASSUME ScheduleInv, ScheduleInv', EndingInv, NEW c \in Calls, Step(c)
    PROVE  \A d \in Calls : CreationEnds(d)'
<1> SUFFICES ASSUME NEW d \in Calls PROVE CreationEnds(d)'
    OBVIOUS
<1>1. Fixed /\ (d # c => stage'[d] = stage[d] /\ req'[d] = req[d])
    BY CallMoves DEF GoTo, ScheduleInv, ShapesKnown
<1>2. \A u : EndedBy(d, u) => EndedBy(d, u)'
    BY <1>1, EndingsStay
<1>3. ASSUME stage'[d] \in {"Register", "UpdateTaskStatus"}
      PROVE  d \in DOMAIN rows' \/ EndedBy(d, req[d].user)'
    <2>1. CASE d = c /\ SaveTask(c)
        <3>1. stage'[c] # "database error"
            BY <1>3, <2>1
        <3>2. d \in DOMAIN rows'
            BY <2>1, <3>1 DEF SaveTask, DatabaseFails, Put, GoTo, ScheduleInv, ShapesKnown
        <3> QED BY <3>2
    <2>2. CASE d # c \/ Register(c)
        <3>1. /\ stage[d] \in {"Register", "UpdateTaskStatus"} /\ req'[d] = req[d]
              /\ d = c => stage'[c] # "ErrRemindQueueRegistrationFailed"
            BY <1>1, <1>3, <2>2 DEF Register
        <3>2. CASE d \in DOMAIN rows /\ d \notin DOMAIN rows'
            BY <1>2, <3>1, <3>2, RowsGo
        <3>3. CASE d \notin DOMAIN rows
            BY <1>2, <3>1, <3>3 DEF EndingInv, CreationEnds
        <3> QED BY <3>2, <3>3
    <2> QED BY <1>3, <2>1, <2>2, StageReached
<1>4. ASSUME Creates(d)', stage'[d] = "ErrTaskNotFound"
      PROVE  EndedBy(d, req[d].user)'
    <2>1. CASE d = c
        <3>1. UpdateTaskStatus(c)
            BY <1>4, <2>1, StageReached
        <3>2. /\ stage[c] = "UpdateTaskStatus" /\ req' = req
              /\ c \notin DOMAIN rows
            BY <1>4, <2>1, <3>1 DEF UpdateTaskStatus, DatabaseFails, GoTo, ScheduleInv, ShapesKnown
        <3> QED BY <1>2, <2>1, <3>2 DEF EndingInv, CreationEnds
    <2>2. CASE d # c
        <3>1. Creates(d)
            BY <1>1, <1>4, <2>2 DEF Creates, Asks
        <3> QED BY <1>1, <1>2, <1>4, <2>2, <3>1 DEF EndingInv, CreationEnds
    <2> QED BY <2>1, <2>2
<1> QED BY <1>3, <1>4 DEF CreationEnds

LEMMA StepKeepsCompleted ==
    ASSUME ScheduleInv, EndingInv, NEW c \in Calls, Step(c)
    PROVE  /\ \A t \in completed' : t \in Calls /\ Creates(t)' /\ CompletedBy(t, task[t].user)'
           /\ \A d \in Calls : stage'[d] = "duplicate key" => CompletedBy(req[d].task, req[d].user)'
<1>1. Fixed /\ \A d \in Calls \ {c} : stage'[d] = stage[d] /\ req'[d] = req[d]
    BY CallMoves DEF GoTo, ScheduleInv, ShapesKnown
<1>2. ASSUME NEW t \in completed
      PROVE  t \in Calls /\ Creates(t)' /\ CompletedBy(t, task[t].user)'
    <2>1. t \in Calls /\ Creates(t)' /\ task'[t] = task[t]
        BY <1>1, <1>2 DEF EndingInv, Fixed, Creates, Asks
    <2> PICK u : u = task[t].user
        OBVIOUS
    <2>2. CompletedBy(t, u)'
        BY <1>1, <1>2, EndingsStay DEF EndingInv
    <2> QED BY <2>1, <2>2
<1>3. CASE ArchiveTask(c)
    <2> PICK t, u : t = req[c].task /\ u = req[c].user
        OBVIOUS
    <2>1. /\ Completes(c) /\ Descends(task[c], t) /\ task[c].user = u
          /\ req' = req /\ task' = task
        BY <1>3, StepsTell DEF ArchiveTask, HasCopy
    <2>2. t \in Calls /\ Creates(t) /\ task[t].user = u
        BY <2>1 DEF Descends
    <2>3. ASSUME completed' # completed PROVE CompletedBy(t, u)'
        <3>1. stage'[c] \in Ended
            BY <1>3, <2>3 DEF ArchiveTask, GoTo, Ended, ScheduleInv, ShapesKnown
        <3>2. Completes(c)' /\ MayEnd(c, t, u)'
            BY <2>1 DEF Completes, MayEnd
        <3> QED BY <3>1, <3>2 DEF CompletedBy
    <2>4. completed' = completed \/ completed' = completed \cup {t}
        BY <1>3 DEF ArchiveTask
    <2>5. ASSUME NEW x \in completed'
          PROVE  x \in Calls /\ Creates(x)' /\ CompletedBy(x, task[x].user)'
        <3>1. CASE x \in completed
            BY <1>2, <3>1
        <3>2. CASE x \notin completed
            <4>1. x = t /\ CompletedBy(t, u)'
                BY <2>3, <2>4, <2>5, <3>2
            <4>2. Creates(t)' /\ task'[t].user = u
                BY <1>1, <2>1, <2>2 DEF Creates, Asks
            <4> QED BY <2>2, <4>1, <4>2
        <3> QED BY <3>1, <3>2
    <2>6. ASSUME stage'[c] = "duplicate key" PROVE CompletedBy(t, u)'
        <3>1. t \in completed
            BY <1>3, <2>6 DEF ArchiveTask, DatabaseFails, GoTo, ScheduleInv, ShapesKnown
        <3>2. CompletedBy(t, u)
            BY <2>2, <3>1 DEF EndingInv
        <3> QED BY <1>1, <3>2, EndingsStay
    <2>7. ASSUME NEW d \in Calls, stage'[d] = "duplicate key"
          PROVE  CompletedBy(req[d].task, req[d].user)'
        <3>1. CASE d = c
            <4>1. req'[c].task = t /\ req'[c].user = u
                BY <2>1
            <4> QED BY <2>6, <2>7, <3>1, <4>1
        <3>2. CASE d # c
            <4> PICK x, v : x = req[d].task /\ v = req[d].user
                OBVIOUS
            <4>1. CompletedBy(x, v)'
                BY <1>1, <2>7, <3>2, EndingsStay DEF EndingInv
            <4> QED BY <2>1, <4>1
        <3> QED BY <3>1, <3>2
    <2> QED BY <2>5, <2>7
<1>4. CASE ~ArchiveTask(c)
    <2>1. completed' = completed
        BY <1>4, TablesTouched
    <2>2. ASSUME NEW d \in Calls, stage'[d] = "duplicate key"
          PROVE  CompletedBy(req[d].task, req[d].user)'
        <3> PICK x, v : x = req[d].task /\ v = req[d].user
            OBVIOUS
        <3>1. d # c
            BY <1>4, <2>2, StageReached
        <3>2. CompletedBy(x, v)'
            BY <1>1, <2>2, <3>1, EndingsStay DEF EndingInv
        <3> QED BY <1>1, <3>1, <3>2
    <2> QED BY <1>2, <2>1, <2>2
<1> QED BY <1>3, <1>4

LEMMA EndingStepIsKept == ScheduleInv /\ ScheduleInv' /\ EndingInv /\ [Next]_vars => EndingInv'
<1> SUFFICES ASSUME ScheduleInv, ScheduleInv', EndingInv, [Next]_vars PROVE EndingInv'
    OBVIOUS
<1>1. CASE Tick \/ UNCHANGED vars
    <2>1. UNCHANGED <<rows, completed, req, stage, task>>
        BY <1>1 DEF Tick, tables, vars
    <2> QED BY <2>1 DEF EndingInv, CreationEnds, EndedBy, CompletedBy, MayEnd, Completes,
            Deletes, Creates, Asks
<1>2. ASSUME NEW c \in Calls, Step(c) PROVE EndingInv'
    BY <1>2, StepKeepsEnds, StepKeepsCompleted DEF EndingInv
<1> QED BY <1>1, <1>2 DEF Next

LEMMA EndingInit == Init => EndingInv
BY DEF Init, EndingInv, CreationEnds

(***************************************************************************)
(* Theorems                                                                *)
(***************************************************************************)

\* What calls know at each step: requests and the entities of creations are
\* made once, and rows and updates descend from them (app/task/task.go:71-161,
\* 571-692).
THEOREM ScheduleInvariant == Spec => []ScheduleInv
<1> QED BY ScheduleInit, ScheduleStep, PTL DEF Spec

\* The settings of a user are the map of one valid request
\* (repository/period_setting.go:56-75).
THEOREM SettingsAreWhole == Spec => []SettingsAreOneRequest
<1>1. ScheduleInv => SettingsAreOneRequest
    BY DEF ScheduleInv
<1> QED BY <1>1, ScheduleInvariant, PTL

\* A task has a period of its owner, from one request or the defaults, whatever
\* is saved beside its creation (app/task/task.go:131-145).
THEOREM PeriodsAreOwners == Spec => []TasksUsePeriods
<1>1. ASSUME ScheduleInv PROVE TasksUsePeriods
    <2> SUFFICES ASSUME NEW t \in DOMAIN rows, rows[t].type # "scheduled"
                 PROVE  \E p \in AskedFor(rows[t].user) \cup {<<>>} :
                            rows[t].targetAt = rows[t].createdAt + PeriodFor(rows[t].type, p)
        BY DEF TasksUsePeriods
    <2>1. Descends(rows[t], t)
        BY <1>1 DEF ScheduleInv, RowsKnown
    <2>2. EntityKnown(t)
        BY <1>1, <2>1 DEF ScheduleInv, Descends
    <2> QED BY <2>1, <2>2 DEF Descends, EntityKnown, HasPeriod
<1> QED BY <1>1, ScheduleInvariant, PTL

\* No row is written that cannot be read (repository/task.go:133-162).
THEOREM RowsReadable == Spec => []RowsStayReadable
<1>1. ASSUME ScheduleInv PROVE RowsStayReadable
    <2> SUFFICES ASSUME NEW t \in DOMAIN rows
                 PROVE  /\ IsTask(rows[t])
                        /\ rows[t].type = "scheduled" => rows[t].targetAt = rows[t].scheduledAt
        BY DEF RowsStayReadable
    <2>1. IsTask(rows[t]) /\ HasOwnTime(rows[t])
        BY <1>1 DEF ScheduleInv, RowsKnown, Descends
    <2> QED BY <2>1 DEF IsTask, TaskErrors, HasOwnTime
<1> QED BY <1>1, ScheduleInvariant, PTL

\* Rows and completed rows, and the owners that ended them
\* (app/task/task.go:242-262, 642-668, 785-853).
THEOREM EndingsInvariant == Spec => []EndingInv
<1> QED BY EndingInit, EndingStepIsKept, ScheduleInvariant, PTL DEF Spec

\* Clients are told whose fault it is: internal is the answer to failures of the
\* database and in the four cases of IsExplained, invalid argument to requests
\* that cannot succeed and to creations that the device service refused
\* (infra/service/service.go).
THEOREM AnswersAreRight == Spec => []AnswersBlameRightly
<1>1. ASSUME ScheduleInv, EndingInv, NEW c \in Answered
      PROVE  /\ Code(c) = "internal" => IsExplained(c)
             /\ Code(c) = "invalid_argument" =>
                   \/ stage[c] = "ErrDeviceInvalidArgument"
                   \/ /\ req[c].kind = "create"
                      /\ (req[c].type = "scheduled") = (req[c].scheduledAt = None)
                   \/ req[c].kind = "settings" /\ ~IsValid(req[c].periods)
                   \/ req[c].kind \in {"update", "complete"} /\ Impossible(req[c])
    <2>1. c \in Calls /\ EntityKnown(c) /\ StageKnown(c)
        BY <1>1 DEF ScheduleInv, Answered
    <2>2. stage[c] \notin {"idle"} \cup Steps
        BY <1>1 DEF Answered, Errors, InvalidTask, InvalidPeriods, Unreachable, Steps
    <2>3. stage[c] = "database error" => IsExplained(c)
        BY DEF IsExplained
    <2>4. CASE Creates(c)
        <3>1. \/ stage[c] \in Unreachable \cup Ended
                    \cup {"ErrRemindQueueRegistrationFailed", "ErrTaskNotFound"}
              \/ stage[c] \in TaskErrors(task[c])
            BY <2>1, <2>2, <2>4 DEF StageKnown, CreationKnown, CreationSteps, Steps, Creates,
                Updates, Completes, Deletes, Asks
        <3>2. Code(c) = CreateTaskCode(stage[c]) /\ req[c].kind = "create"
            BY <2>4 DEF Code, Creates, Asks
        <3>3. CASE stage[c] \in TaskErrors(task[c])
            <4>1. /\ task[c].type = req[c].type /\ task[c].scheduledAt = req[c].scheduledAt
                  /\ stage[c] \in InvalidTask
                BY <2>1, <2>4, <3>3, TaskErrorsAre DEF EntityKnown
            <4>2. stage[c] = "ErrScheduledAtBeforeCreatedAt" => IsExplained(c)
                BY <3>2, <3>3, <4>1, TaskErrorsAre DEF IsExplained
            <4>3. stage[c] # "ErrScheduledAtBeforeCreatedAt" =>
                    (req[c].type = "scheduled") = (req[c].scheduledAt = None)
                BY <3>3, <4>1 DEF TaskErrors
            <4>4. /\ stage[c] # "ErrScheduledAtBeforeCreatedAt" => Code(c) = "invalid_argument"
                  /\ stage[c] = "ErrScheduledAtBeforeCreatedAt" => Code(c) = "internal"
                BY <3>2, <4>1 DEF CreateTaskCode, InvalidTask
            <4> QED BY <3>2, <4>2, <4>3, <4>4
        <3>4. CASE stage[c] = "ErrTaskNotFound"
            <4>1. IsExplained(c)
                BY <1>1, <2>1, <2>4, <3>2, <3>4 DEF EndingInv, CreationEnds, EndedBy, IsExplained
            <4> QED BY <3>2, <3>4, <4>1 DEF CreateTaskCode
        <3>5. CASE stage[c] \in Unreachable \cup Ended \cup {"ErrRemindQueueRegistrationFailed"}
            BY <2>3, <3>2, <3>5 DEF CreateTaskCode, Unreachable, Ended
        <3> QED BY <3>1, <3>3, <3>4, <3>5
    <2>5. CASE Updates(c)
        <3>1. \/ stage[c] \in Ended \cup {"ErrTaskNotFound"}
              \/ stage[c] \in {"ErrCancelRemindFailed", "duplicate key"} /\ Completes(c)
              \/ stage[c] \in InvalidTask /\ Impossible(req[c])
            BY <2>1, <2>2, <2>5 DEF StageKnown, UpdateKnown, Steps, Creates,
                Updates, Completes, Deletes, Asks
        <3>2. Code(c) = UpdateTaskCode(stage[c]) /\ req[c].kind \in {"update", "complete"}
            BY <2>5 DEF Code, Asks, Updates, Completes
        <3>3. ASSUME stage[c] = "duplicate key", Completes(c) PROVE IsExplained(c)
            <4>1. PICK d \in Calls : /\ Completes(d) /\ MayEnd(d, req[c].task, req[c].user)
                                     /\ stage[d] \in Ended
                BY <1>1, <2>1, <3>3 DEF EndingInv, CompletedBy
            <4>2. d # c
                BY <3>3, <4>1 DEF Ended
            <4> QED BY <3>3, <4>1, <4>2 DEF IsExplained, Ended
        <3>4. stage[c] = "ErrCancelRemindFailed" /\ Completes(c) => IsExplained(c)
            BY DEF IsExplained
        <3>5. Code(c) = "internal" =>
                stage[c] \in {"database error", "ErrCancelRemindFailed", "duplicate key"}
            BY <3>1, <3>2 DEF UpdateTaskCode, Ended
        <3>6. Code(c) = "invalid_argument" => stage[c] \in InvalidTask
            BY <3>1, <3>2 DEF UpdateTaskCode
        <3>7. stage[c] \in InvalidTask => stage[c] \notin Ended \cup
                {"ErrTaskNotFound", "ErrCancelRemindFailed", "duplicate key"}
            BY DEF InvalidTask, Ended
        <3>8. Code(c) = "internal" => IsExplained(c)
            <4>1. stage[c] \in {"ErrCancelRemindFailed", "duplicate key"} => Completes(c)
                BY <3>1, <3>7 DEF Ended
            <4> QED BY <2>3, <3>3, <3>4, <3>5, <4>1
        <3>9. Code(c) = "invalid_argument" => Impossible(req[c])
            BY <3>1, <3>6, <3>7
        <3> QED BY <3>2, <3>8, <3>9
    <2>6. CASE Deletes(c)
        <3>1. stage[c] \in {"ErrCancelRemindFailed", "ErrTaskNotFound"} \cup Ended
            BY <2>1, <2>2, <2>6 DEF StageKnown, DeletionKnown, Steps, Creates,
                Updates, Completes, Deletes, Asks
        <3>2. Code(c) = DeleteTaskCode(stage[c])
            BY <2>6 DEF Code, Deletes
        <3> QED BY <2>3, <3>1, <3>2 DEF DeleteTaskCode, Ended
    <2>7. CASE Asks(c, "settings")
        <3>1. \/ stage[c] \in Ended
              \/ stage[c] \in InvalidPeriods /\ ~IsValid(req[c].periods)
            BY <2>1, <2>2, <2>7 DEF StageKnown, Creates, Updates, Completes, Deletes, Asks
        <3>2. Code(c) = UpdatePeriodSettingsCode(stage[c]) /\ req[c].kind = "settings"
            BY <2>7 DEF Code, Asks
        <3> QED BY <2>3, <3>1, <3>2 DEF UpdatePeriodSettingsCode, Ended, InvalidPeriods
    <2>8. CASE Asks(c, "get")
        <3>1. stage[c] \in Ended \cup {"ErrTaskNotFound"}
            BY <2>1, <2>2, <2>8 DEF StageKnown, Creates, Updates, Completes, Deletes, Asks
        <3>2. Code(c) = GetTaskCode(stage[c])
            BY <2>8 DEF Code, Asks
        <3> QED BY <2>3, <3>1, <3>2 DEF GetTaskCode, Ended
    <2>9. CASE Asks(c, "list") \/ Asks(c, "get_settings")
        <3>1. stage[c] \in Ended
            BY <2>1, <2>2, <2>9 DEF StageKnown, Creates, Updates, Completes, Deletes, Asks
        <3>2. Code(c) \in {ListActiveTasksCode(stage[c]), GetPeriodSettingsCode(stage[c])}
            BY <2>9 DEF Code, Asks
        <3> QED BY <2>3, <3>1, <3>2 DEF ListActiveTasksCode, GetPeriodSettingsCode, Ended
    <2> QED BY <2>1, <2>2, <2>4, <2>5, <2>6, <2>7, <2>8, <2>9 DEF StageKnown
<1>2. ScheduleInv /\ EndingInv => AnswersBlameRightly
    BY <1>1 DEF AnswersBlameRightly
<1> QED BY <1>2, ScheduleInvariant, EndingsInvariant, PTL

\* Targets, reminders and the entities that calls hold (app/task/task.go:71-263,
\* 571-692).
THEOREM RemindersInvariant == Spec => []ReminderInv
<1> QED BY ReminderInit, ReminderStep, ScheduleInvariant, PTL DEF Spec

\* Tables, calls and messages keep their types.
THEOREM ScheduleTypeCorrect == Spec => []TypeOK
<1>1. ASSUME ScheduleInv, ReminderInv, EndingInv PROVE TypeOK
    <2>1. \A u \in Users : IsValid(settings[u])
        BY <1>1, SettingsAreValid DEF ScheduleInv
    <2>2. \A t \in DOMAIN rows : rows[t] \in Task
        BY <1>1 DEF ScheduleInv, RowsKnown, Descends
    <2>3. ASSUME NEW m \in reminders
          PROVE  m.task \in Calls /\ \A i \in DOMAIN m.times : m.times[i] \in Nat
        BY <1>1, <2>3, SentReminders DEF ReminderInv
    <2>4. ASSUME NEW c \in Calls PROVE stage[c] \in {"idle", "ok"} \cup Steps \cup Errors
        <3>1. StageKnown(c) /\ \A e \in TaskErrors(task[c]) : e \in InvalidTask
            BY <1>1, TaskErrorsAre DEF ScheduleInv
        <3> QED BY <3>1 DEF StageKnown, CreationKnown, CreationSteps, UpdateKnown, DeletionKnown,
                Steps, Errors, Unreachable, Ended
    <2>5. stage \in [Calls -> {"idle", "ok"} \cup Steps \cup Errors]
        BY <1>1, <2>4 DEF ReminderInv, EntitiesTyped
    <2>6. completed \subseteq Calls
        BY <1>1 DEF EndingInv
    <2> QED BY <1>1, <2>1, <2>2, <2>3, <2>5, <2>6 DEF TypeOK, ScheduleInv, ShapesKnown,
            ReminderInv, EntitiesTyped
<1> QED BY <1>1, ScheduleInvariant, RemindersInvariant, EndingsInvariant, PTL

\* Reminders end at the target of their task, unless its owner has moved it
\* since (app/task/task.go:571-692).
THEOREM DriftExplained == Spec => []ReminderDriftIsExplained
<1>1. ASSUME ScheduleInv, ReminderInv PROVE ReminderDriftIsExplained
    <2> SUFFICES ASSUME NEW m \in reminders, m.task \in DOMAIN rows
                 PROVE  \/ m.times[Len(m.times)] = rows[m.task].targetAt
                        \/ \E c \in Calls : /\ req[c] # None /\ req[c].kind = "update"
                                            /\ req[c].task = m.task
                                            /\ req[c].user = rows[m.task].user
                                            /\ req[c].scheduledAt = rows[m.task].targetAt
        BY DEF ReminderDriftIsExplained
    <2>1. m.times[Len(m.times)] = task[m.task].targetAt
        BY <1>1, SentReminders DEF ReminderInv, InOrder
    <2>2. Moved(rows[m.task], m.task)
        BY <1>1 DEF ReminderInv, TargetsKnown
    <2> QED BY <2>1, <2>2 DEF Moved, Asks
<1> QED BY <1>1, ScheduleInvariant, RemindersInvariant, PTL

\* Whatever is created and whenever: reminders in order, none outside the task's
\* time and, from five minutes on, no two at once (reminder_info.go:19-60).
THEOREM RemindersPlausible == Spec => []RemindersArePlausible
<1>1. ASSUME ScheduleInv, ReminderInv PROVE RemindersArePlausible
    BY <1>1, SentReminders DEF ReminderInv, RemindersArePlausible
<1> QED BY <1>1, ScheduleInvariant, RemindersInvariant, PTL

===============================================================================
