-------------------------- MODULE RlBridgeLogProofs --------------------------
(***************************************************************************)
(* What the bridge shows to the policy, for every value of the constants:  *)
(* the cadence of the observations, the window of frames and the previous  *)
(* action are those computed from the log of all that was published and    *)
(* executed.  The argument is a second inductive invariant beside the one  *)
(* of RlBridgeProofs, which ties the runtime state to that log.            *)
(***************************************************************************)
EXTENDS RlBridgeProofs, SequenceTheorems, WellFoundedInduction

----------------------------------------------------------------------------
(* Arithmetic. *)

LEMMA ProductGrows ==
    ASSUME NEW p \in Nat, NEW a \in Int, NEW b \in Int, a <= b
    PROVE  p * a <= p * b
<1> DEFINE d == b - a
<1>1. d \in Nat /\ b = a + d
    OBVIOUS
<1> HIDE DEF d
<1>2. p * b = p * a + p * d /\ p * d >= 0
    BY <1>1
<1> QED
    BY <1>1, <1>2

LEMMA DivisionMeans ==
    ASSUME NEW p \in Nat, p > 0, NEW x \in Int
    PROVE  /\ x \div p \in Int /\ p * (x \div p) \in Int
           /\ p * (x \div p) <= x /\ x < p * (x \div p) + p
           /\ x >= p => x \div p >= 1
<1> DEFINE d == x \div p
<1>1. d \in Int /\ p * d \in Int /\ p * d <= x /\ x < p * d + p
    BY SMT
<1> HIDE DEF d
<1>2. ASSUME x >= p, d <= 0 PROVE FALSE
    <2>1. p * d <= p * 0
        BY <1>1, <1>2, ProductGrows
    <2> QED
        BY <1>1, <1>2, <2>1
<1>3. x >= p => d >= 1
    BY <1>1, <1>2
<1> QED
    BY <1>1, <1>3 DEF d

LEMMA DivisionIs ==
    ASSUME NEW p \in Nat, p > 0, NEW q \in Int, NEW r \in 0..p - 1
    PROVE  (q * p + r) \div p = q
<1> DEFINE x == q * p + r
           d == x \div p
<1>1. x \in Int /\ d \in Int /\ p * d <= x /\ x < p * d + p
    BY SMT
<1>2. x = p * q + r
    BY SMT
<1> HIDE DEF x, d
<1>3. CASE d >= q + 1
    <2>1. p * d >= p * (q + 1)
        BY <1>1, <1>3, ProductGrows
    <2> QED
        BY <1>1, <1>2, <2>1
<1>4. CASE d <= q - 1
    <2>1. p * d <= p * (q - 1)
        BY <1>1, <1>4, ProductGrows
    <2> QED
        BY <1>1, <1>2, <2>1
<1> QED
    BY <1>1, <1>3, <1>4 DEF x, d

LEMMA DivisionGives ==
    ASSUME NEW p \in Nat, p > 0, NEW q \in Int, NEW r, r \in 0..p - 1
    PROVE  (q * p + r) \div p = q
BY DivisionIs

----------------------------------------------------------------------------
(* Maxima. *)

LEMMA MaxIs ==
    ASSUME NEW S \in SUBSET Int, NEW m \in S, \A x \in S : m >= x
    PROVE  Max(S) = m
<1> DEFINE P(x) == \A y \in S : x >= y
<1>1. (CHOOSE x \in S : P(x)) \in S /\ P(CHOOSE x \in S : P(x))
    <2>1. \E x \in S : P(x)
        OBVIOUS
    <2> HIDE DEF P
    <2> QED
        BY <2>1
<1>2. Max(S) = CHOOSE x \in S : P(x)
    BY DEF Max
<1>3. Max(S) \in S /\ Max(S) >= m
    BY <1>1, <1>2
<1>4. m \in Int /\ Max(S) \in Int /\ m >= Max(S)
    BY <1>3
<1> QED
    BY <1>3, <1>4

LEMMA MaxExists ==
    ASSUME NEW S \in SUBSET Nat, S # {}, NEW n \in Nat, \A x \in S : x <= n
    PROVE  Max(S) \in S /\ \A x \in S : Max(S) >= x
<1> DEFINE T == {m \in Nat : \A x \in S : x <= m}
<1>1. n \in T
    OBVIOUS
<1>2. IsWellFoundedOn({p \in Nat \X Nat : p[1] < p[2]}, Nat)
    BY NatLessThanWellFounded DEF OpToRel
<1>3. PICK m \in T : \A k \in T : ~(k < m)
    <2> DEFINE R == {p \in Nat \X Nat : p[1] < p[2]}
    <2>1. T \subseteq Nat /\ T # {}
        BY <1>1
    <2>2. \E m \in T : \A k \in T : ~(<<k, m>> \in R)
        BY <1>2, <2>1, WFMin
    <2> QED
        BY <2>1, <2>2
<1>4. m \in S
    <2>1. SUFFICES ASSUME m \notin S PROVE FALSE
        OBVIOUS
    <2>2. m \in Nat /\ \A x \in S : x \in Nat /\ x < m
        BY <2>1, <1>3
    <2>3. PICK x \in S : TRUE
        OBVIOUS
    <2>4. m - 1 \in Nat /\ \A y \in S : y <= m - 1
        BY <2>2, <2>3
    <2> QED
        BY <1>3, <2>2, <2>4
<1>5. \A x \in S : m >= x
    BY <1>3
<1> QED
    BY <1>3, <1>4, <1>5, MaxIs

\* Where the loops over the samples stop.
LEMMA LatestAtIs ==
    ASSUME NEW samples, Len(samples) \in Nat, Len(samples) > 0, DOMAIN samples = 1..Len(samples),
           NEW t
    PROVE  /\ LatestAt(samples, t) \in 1..Len(samples)
           /\ LatestAt(samples, t) = 1 \/ samples[LatestAt(samples, t)].time <= t
           /\ \A i \in DOMAIN samples : samples[i].time <= t => i <= LatestAt(samples, t)
<1> DEFINE S == {1} \cup {i \in DOMAIN samples : samples[i].time <= t}
<1>1. S \in SUBSET Nat /\ S # {} /\ \A i \in S : i <= Len(samples)
    OBVIOUS
<1>2. Max(S) \in S /\ \A i \in S : Max(S) >= i
    BY <1>1, MaxExists
<1>3. LatestAt(samples, t) = Max(S)
    BY DEF LatestAt
<1> HIDE DEF S
<1>4. LatestAt(samples, t) \in S /\ \A i \in S : LatestAt(samples, t) >= i
    BY <1>2, <1>3
<1> QED
    BY <1>4 DEF S

----------------------------------------------------------------------------
(* The cadence.  times is the log, past the number of the last observation *)
(* of an earlier control period.                                           *)

\* The schedule is on the grid of the control period and less than a period behind.
OnGrid(tl, times, past) ==
    /\ tl.scheduled <= tl.current /\ tl.current < tl.scheduled + PubPeriod
    /\ \E k \in Nat : tl.scheduled = times[past + 1] + k * PubPeriod

TimesAscend(times, past) ==
    \A m, n \in past + 1..Len(times) : m < n => times[m] < times[n]

CadenceHolds(tl, times, past) ==
    /\ ~tl.started => past = Len(times)
    /\ tl.started => OnGrid(tl, times, past)
    /\ TimesAscend(times, past)

LEMMA CadenceAppend ==
    ASSUME PubPeriod > 0, NEW tl \in Timelines, NEW times \in Seq(Int), NEW past \in 0..Len(times),
           TimelineMatches(tl, times, past), CadenceHolds(tl, times, past),
           NEW t \in Int, Due(tl, t, PubPeriod)
    PROVE  CadenceHolds(PublishFrame(tl, t, PubPeriod), Append(times, t), past)
<1> DEFINE N == Len(times)
           new == PublishFrame(tl, t, PubPeriod)
           log == Append(times, t)
<1>1. /\ N \in Nat /\ Len(log) = N + 1 /\ log[N + 1] = t
      /\ \A n \in 1..N : log[n] = times[n] /\ times[n] \in Int
    OBVIOUS
<1>2. new.started /\ new.current = t /\ new.scheduled = Slot(tl, t, PubPeriod)
    BY DEF PublishFrame
<1>3. CASE ~tl.started
    <2>1. past = N /\ new.scheduled = t
        BY <1>2, <1>3 DEF CadenceHolds, OnGrid, TimesAscend, Slot
    <2>2. new.scheduled = log[past + 1] + 0 * PubPeriod
        BY <1>1, <2>1, BridgeAssumption
    <2> HIDE DEF new, log, N
    <2> QED
        BY <1>1, <1>2, <2>1, <2>2, BridgeAssumption DEF CadenceHolds, OnGrid, TimesAscend, N, new, log
<1>4. CASE tl.started
    <2>1. PICK k \in Nat : tl.scheduled = times[past + 1] + k * PubPeriod
        BY <1>4 DEF CadenceHolds, OnGrid, TimesAscend
    <2>2. /\ N > past /\ tl.current = times[N] /\ past + 1 \in 1..N
          /\ tl.scheduled <= tl.current /\ tl.current < tl.scheduled + PubPeriod
          /\ tl.scheduled \in Int /\ tl.current \in Int /\ PubPeriod \in Nat
          /\ t - tl.scheduled >= PubPeriod
        BY <1>4, BridgeAssumption DEF TimelineMatches, CadenceHolds, OnGrid, Timelines, Due
    <2> DEFINE q == (t - tl.scheduled) \div PubPeriod
               first == times[past + 1]
    <2>3. /\ q \in Int /\ PubPeriod * q \in Int /\ PubPeriod * q <= t - tl.scheduled
          /\ t - tl.scheduled < PubPeriod * q + PubPeriod
          /\ q >= 1
        <3>1. t - tl.scheduled \in Int
            BY <2>2
        <3> QED
            BY <2>2, <3>1, DivisionMeans
    <2>4. new.scheduled = tl.scheduled + PubPeriod * q
        BY <1>2, <1>4, <2>2 DEF Slot
    <2> HIDE DEF q
    <2>6. first \in Int
        BY <1>1, <2>2
    <2> HIDE DEF first, new, log, N
    <2>7. tl.scheduled = first + k * PubPeriod
        BY <2>1 DEF first
    <2>8. (k + q) * PubPeriod = k * PubPeriod + PubPeriod * q /\ k * PubPeriod \in Int
          /\ PubPeriod * q \in Int
        BY <2>2, <2>3
    <2>9. new.scheduled = first + (k + q) * PubPeriod /\ k + q \in Nat
        BY <2>2, <2>3, <2>4, <2>6, <2>7, <2>8
    <2>10. new.scheduled <= new.current /\ new.current < new.scheduled + PubPeriod
        BY <1>2, <2>2, <2>3, <2>4, <2>8
    <2>11. \A n \in past + 1..N : times[n] < t
        <3> SUFFICES ASSUME NEW n \in past + 1..N PROVE times[n] < t
            OBVIOUS
        <3>1. n \in 1..N /\ times[n] \in Int /\ times[N] \in Int
            BY <1>1, <2>2
        <3>2. n = N \/ times[n] < times[N]
            BY <1>1, <2>2 DEF CadenceHolds, OnGrid, TimesAscend, N
        <3> QED
            BY <2>2, <3>1, <3>2
    <2>12. \A m, n \in past + 1..N + 1 : m < n => log[m] < log[n]
        <3> SUFFICES ASSUME NEW m \in past + 1..N + 1, NEW n \in past + 1..N + 1, m < n
                     PROVE  log[m] < log[n]
            OBVIOUS
        <3>1. m \in past + 1..N /\ m \in 1..N /\ log[m] = times[m]
            BY <1>1, <2>2
        <3>2. CASE n = N + 1
            BY <1>1, <2>11, <3>1, <3>2
        <3>3. CASE n # N + 1
            <4>1. n \in past + 1..N /\ n \in 1..N /\ log[n] = times[n]
                BY <1>1, <2>2, <3>3
            <4> QED
                BY <3>1, <4>1 DEF CadenceHolds, OnGrid, TimesAscend, N
        <3> QED
            BY <3>2, <3>3
    <2>13. new.scheduled = log[past + 1] + (k + q) * PubPeriod
        BY <1>1, <2>2, <2>9 DEF first
    <2>14. Len(log) = N + 1 /\ Len(log) - 1 = N
        BY <1>1
    <2>15. CadenceHolds(new, log, past)
        <3>1. OnGrid(new, log, past)
            BY <2>9, <2>10, <2>13 DEF OnGrid
        <3>2. TimesAscend(log, past)
            BY <2>12, <2>14 DEF TimesAscend
        <3> QED
            BY <1>2, <3>1, <3>2 DEF CadenceHolds
    <2> QED
        BY <2>15 DEF new, log
<1> QED
    BY <1>3, <1>4

\* An observation is due exactly from the slot on after the one of the last observation.
LEMMA DueMeansNextSlot ==
    ASSUME PubPeriod > 0, NEW tl \in Timelines, NEW times \in Seq(Int), NEW past \in 0..Len(times),
           TimelineMatches(tl, times, past), CadenceHolds(tl, times, past), tl.started,
           NEW t \in Int
    PROVE  Due(tl, t, PubPeriod) <=>
                (t - times[past + 1]) \div PubPeriod
                    > (times[Len(times)] - times[past + 1]) \div PubPeriod
<1> DEFINE first == times[past + 1]
           last == times[Len(times)]
           slot == (t - first) \div PubPeriod
<1>1. /\ Len(times) \in Nat /\ Len(times) > past /\ tl.current = last
      /\ tl.scheduled <= last /\ last < tl.scheduled + PubPeriod
      /\ tl.scheduled \in Int /\ PubPeriod \in Nat
    BY BridgeAssumption DEF TimelineMatches, CadenceHolds, OnGrid, Timelines
<1>2. PICK k \in Nat : tl.scheduled = first + k * PubPeriod
    BY DEF CadenceHolds, OnGrid
<1>3. first \in Int /\ last \in Int
    BY <1>1
<1>4. Due(tl, t, PubPeriod) <=> t - tl.scheduled >= PubPeriod
    BY DEF Due
<1> HIDE DEF first, last
<1>5. (last - first) \div PubPeriod = k
    <2>1. k * PubPeriod \in Int /\ last - first = k * PubPeriod + (last - tl.scheduled)
        BY <1>1, <1>2, <1>3
    <2>2. last - tl.scheduled \in 0..PubPeriod - 1
        BY <1>1, <1>3
    <2>3. (k * PubPeriod + (last - tl.scheduled)) \div PubPeriod = k
        BY <1>1, <2>2, DivisionGives
    <2> QED
        BY <2>1, <2>3
<1>6. /\ slot \in Int /\ PubPeriod * slot \in Int
      /\ PubPeriod * slot <= t - first /\ t - first < PubPeriod * slot + PubPeriod
    <2>1. t - first \in Int
        BY <1>3
    <2> QED
        BY <1>1, <2>1, DivisionMeans
<1> HIDE DEF slot
<1>7. PubPeriod * (k + 1) = k * PubPeriod + PubPeriod /\ k * PubPeriod \in Int
    BY <1>1
<1>8. ASSUME slot > k PROVE t - tl.scheduled >= PubPeriod
    <2>1. PubPeriod * (k + 1) <= PubPeriod * slot
        BY <1>1, <1>6, <1>8, ProductGrows
    <2> QED
        BY <1>1, <1>2, <1>3, <1>6, <1>7, <2>1
<1>9. ASSUME ~(slot > k) PROVE ~(t - tl.scheduled >= PubPeriod)
    <2>1. PubPeriod * (slot + 1) <= PubPeriod * (k + 1)
        BY <1>1, <1>6, <1>9, ProductGrows
    <2>2. PubPeriod * (slot + 1) = PubPeriod * slot + PubPeriod
        BY <1>1, <1>6
    <2> QED
        BY <1>1, <1>2, <1>3, <1>6, <1>7, <2>1, <2>2
<1> QED
    BY <1>4, <1>5, <1>8, <1>9 DEF first, last, slot

----------------------------------------------------------------------------
(* The window of frames.  first is the number of the first observation of the control  *)
(* period, so past + 1 above.                                                          *)

Frames == [seq : Nat, last_action : Int]

IsHistory(h) == h = [initialized |-> h.initialized, values |-> h.values, samples |-> h.samples]

\* Without a period: the last frames, the first of the control period in front of them.
ShiftHolds(h, times, first) ==
    /\ h.initialized
    /\ h.values \in [Window -> Frames]
    /\ \A i \in Window : h.values[i].seq = Max({first, Len(times) - HistoryLength + i})

\* Where an unbroken run of frames begins.
RunStarts(times, first) ==
    {first} \cup {m \in first + 1..Len(times) : times[m] - times[m - 1] > 2 * HistoryPeriod}

\* The samples are the log from observation k on.
SamplesFrom(samples, times, k) ==
    /\ samples \in Seq([time : Int, frame : Frames])
    /\ Len(samples) = Len(times) - k + 1
    /\ \A j \in 1..Len(samples) : samples[j].time = times[k + j - 1]
                                  /\ samples[j].frame.seq = k + j - 1

\* With a period: of the unbroken run, what the window may still need.
SamplesHold(samples, times, first) ==
    LET start == Max(RunStarts(times, first))
    IN  \E k \in start..Len(times) :
            /\ SamplesFrom(samples, times, k)
            /\ k = start \/ times[k] <= Target(times[Len(times)], 1)

HistoryHolds(h, tl, times, first) ==
    /\ IsHistory(h)
    /\ ~tl.started => h = EmptyHistory
    /\ tl.started => IF HistoryPeriod = 0 THEN ShiftHolds(h, times, first)
                                          ELSE SamplesHold(h.samples, times, first)

WindowIsRight(values, times, first) ==
    /\ values \in [Window -> Frames]
    /\ \A i \in Window : values[i].seq = WindowSource(i, times, first)

LEMMA MaxOfTwo ==
    ASSUME NEW a \in Int, NEW b \in Int
    PROVE  Max({a, b}) = IF a >= b THEN a ELSE b
<1>1. CASE a >= b
    <2>1. a \in {a, b} /\ {a, b} \in SUBSET Int /\ \A x \in {a, b} : a >= x
        BY <1>1
    <2> QED
        BY <1>1, <2>1, MaxIs
<1>2. CASE b > a
    <2>1. b \in {a, b} /\ {a, b} \in SUBSET Int /\ \A x \in {a, b} : b >= x
        BY <1>2
    <2> QED
        BY <1>2, <2>1, MaxIs
<1> QED
    BY <1>1, <1>2

\* Appending to a full window pushes its oldest frame out.
LEMMA PushedIs ==
    ASSUME NEW v \in [Window -> Frames], NEW x \in Frames
    PROVE  /\ Append(Tail(v), x) \in [Window -> Frames]
           /\ \A i \in Window :
                Append(Tail(v), x)[i] = IF i = HistoryLength THEN x ELSE v[i + 1]
<1> DEFINE new == Append(Tail(v), x)
<1>1. HistoryLength \in Nat /\ HistoryLength >= 1 /\ Window = 1..HistoryLength
    BY HistoryAssumption DEF Window
<1>2. v \in Seq(Frames) /\ Len(v) = HistoryLength
    <2>1. v \in Seq(Frames)
        BY <1>1, SeqDef
    <2>2. Len(v) \in Nat /\ DOMAIN v = 1..Len(v) /\ DOMAIN v = 1..HistoryLength
        BY <1>1, <2>1, LenProperties
    <2> QED
        BY <1>1, <2>1, <2>2
<1>3. /\ Tail(v) \in Seq(Frames) /\ Len(Tail(v)) = HistoryLength - 1
      /\ \A i \in 1..HistoryLength - 1 : Tail(v)[i] = v[i + 1]
    <2>1. v # <<>>
        BY <1>1, <1>2
    <2> QED
        BY <1>2, <2>1, HeadTailProperties
<1>4. /\ new \in Seq(Frames) /\ Len(new) = HistoryLength
      /\ new[HistoryLength] = x
      /\ \A i \in 1..HistoryLength - 1 : new[i] = v[i + 1]
    BY <1>1, <1>3
<1>5. new \in [Window -> Frames]
    BY <1>1, <1>4, LenProperties
<1> QED
    BY <1>1, <1>4, <1>5

LEMMA ShiftAppend ==
    ASSUME HistoryPeriod = 0, NEW h, IsHistory(h), NEW times \in Seq(Int),
           NEW first \in 1..Len(times) + 1,
           \/ h = EmptyHistory /\ first = Len(times) + 1
           \/ ShiftHolds(h, times, first) /\ first <= Len(times),
           NEW frame \in Frames, frame.seq = Len(times) + 1, NEW t \in Int
    PROVE  LET new == AppendFrame(h, frame, t)
           IN  /\ IsHistory(new)
               /\ ShiftHolds(new, Append(times, t), first)
               /\ WindowIsRight(new.values, Append(times, t), first)
               /\ new.values[HistoryLength] = frame
<1> DEFINE N == Len(times)
           log == Append(times, t)
           values == IF h.initialized THEN Append(Tail(h.values), frame)
                                      ELSE [i \in Window |-> frame]
           new == AppendFrame(h, frame, t)
           Shown(i) == Max({first, N + 1 - HistoryLength + i})
<1>1. N \in Nat /\ Len(log) = N + 1
    OBVIOUS
<1>2. HistoryLength \in Nat /\ HistoryLength >= 1 /\ Window = 1..HistoryLength
    BY HistoryAssumption DEF Window
<1>3. new = [initialized |-> TRUE, values |-> values, samples |-> h.samples]
    BY DEF AppendFrame, ShiftFrame, IsHistory
<1>4. /\ values \in [Window -> Frames] /\ values[HistoryLength] = frame
      /\ \A i \in Window : values[i].seq = Shown(i)
    <2>1. CASE h = EmptyHistory /\ first = N + 1
        <3>1. values = [i \in Window |-> frame]
            BY <2>1 DEF EmptyHistory
        <3>2. \A i \in Window : Shown(i) = N + 1
            <4> SUFFICES ASSUME NEW i \in Window PROVE Shown(i) = N + 1
                OBVIOUS
            <4>1. /\ first \in Int /\ N + 1 - HistoryLength + i \in Int
                  /\ first >= N + 1 - HistoryLength + i
                BY <1>1, <1>2, <2>1
            <4> QED
                BY <2>1, <4>1, MaxOfTwo
        <3>3. frame.seq = N + 1
            OBVIOUS
        <3> HIDE DEF values, Shown, N
        <3> QED
            BY <1>2, <3>1, <3>2, <3>3
    <2>2. CASE ShiftHolds(h, times, first) /\ first <= N
        <3>1. h.values \in [Window -> Frames] /\ values = Append(Tail(h.values), frame)
            BY <2>2 DEF ShiftHolds
        <3>2. /\ values \in [Window -> Frames]
              /\ \A i \in Window : values[i] = IF i = HistoryLength THEN frame ELSE h.values[i + 1]
            <4> DEFINE v == h.values
            <4>1. v \in [Window -> Frames] /\ values = Append(Tail(v), frame)
                BY <3>1
            <4> HIDE DEF v, values
            <4>2. /\ Append(Tail(v), frame) \in [Window -> Frames]
                  /\ \A i \in Window :
                        Append(Tail(v), frame)[i] = IF i = HistoryLength THEN frame ELSE v[i + 1]
                BY <4>1, PushedIs
            <4> QED
                BY <4>1, <4>2 DEF v
        <3> HIDE DEF values
        <3>3. ASSUME NEW i \in Window
              PROVE  values[i].seq = Shown(i)
            <4>1. CASE i = HistoryLength
                <5>1. Shown(i) = N + 1
                    <6>1. first \in Int /\ N + 1 - HistoryLength + i = N + 1
                        BY <1>1, <1>2, <4>1
                    <6> QED
                        BY <1>1, <2>2, <6>1, MaxOfTwo
                <5> QED
                    BY <3>2, <4>1, <5>1
            <4>2. CASE i # HistoryLength
                <5>1. i + 1 \in Window /\ N - HistoryLength + (i + 1) = N + 1 - HistoryLength + i
                    BY <1>1, <1>2, <4>2
                <5>2. h.values[i + 1].seq = Max({first, N - HistoryLength + (i + 1)})
                    BY <2>2, <5>1 DEF ShiftHolds
                <5> QED
                    BY <3>2, <4>2, <5>1, <5>2
            <4> QED
                BY <4>1, <4>2
        <3>4. HistoryLength \in Window
            BY <1>2
        <3> QED
            BY <3>2, <3>3, <3>4
    <2> QED
        BY <2>1, <2>2
<1> HIDE DEF values, N, log
<1>5. \A i \in Window : Shown(i) = Max({first, Len(log) - HistoryLength + i})
    <2> SUFFICES ASSUME NEW i \in Window
                 PROVE  Shown(i) = Max({first, Len(log) - HistoryLength + i})
        OBVIOUS
    <2> DEFINE x == N + 1 - HistoryLength + i
               y == Len(log) - HistoryLength + i
    <2>1. x = y
        BY <1>1, <1>2
    <2> HIDE DEF x, y
    <2>2. Max({first, x}) = Max({first, y})
        BY <2>1
    <2> QED
        BY <2>2 DEF x, y
<1> HIDE DEF Shown
<1>6. IsHistory(new) /\ new.initialized /\ new.values = values
    BY <1>3 DEF IsHistory
<1> HIDE DEF new
<1>7. ShiftHolds(new, log, first)
    BY <1>4, <1>5, <1>6 DEF ShiftHolds
<1>8. WindowIsRight(new.values, log, first)
    <2>1. \A i \in Window : WindowSource(i, log, first) = Shown(i)
        BY <1>5 DEF WindowSource
    <2> QED
        BY <1>4, <1>6, <2>1 DEF WindowIsRight
<1> QED
    BY <1>4, <1>6, <1>7, <1>8 DEF new, log

LEMMA TargetIs ==
    ASSUME NEW t \in Int, NEW i \in Window
    PROVE  /\ Target(t, i) \in Int /\ Target(t, 1) <= Target(t, i) /\ Target(t, i) <= t
           /\ Target(t, HistoryLength) = t
           /\ \A u \in Int : u >= t => Target(u, i) >= Target(t, i)
<1>1. /\ HistoryLength \in Nat /\ HistoryPeriod \in Nat /\ i \in 1..HistoryLength
    BY HistoryAssumption DEF Window
<1> DEFINE a == HistoryPeriod * (HistoryLength - i)
           b == HistoryPeriod * (HistoryLength - 1)
<1>2. a \in Int /\ b \in Int /\ a <= b /\ 0 <= a
    <2>1. HistoryLength - i \in Int /\ HistoryLength - 1 \in Int /\ 0 <= HistoryLength - i
          /\ HistoryLength - i <= HistoryLength - 1
        BY <1>1
    <2>2. a \in Int /\ b \in Int /\ HistoryPeriod * 0 = 0
        BY <1>1, <2>1
    <2>3. a <= b /\ HistoryPeriod * 0 <= a
        BY <1>1, <2>1, ProductGrows
    <2> QED
        BY <2>2, <2>3
<1>3. HistoryPeriod * (HistoryLength - HistoryLength) = 0
    BY <1>1
<1>4. Target(t, i) = t - a /\ Target(t, 1) = t - b
      /\ Target(t, HistoryLength) = t - HistoryPeriod * (HistoryLength - HistoryLength)
      /\ \A u \in Int : Target(u, i) = u - a
    BY DEF Target
<1> HIDE DEF a, b
<1> QED
    BY <1>2, <1>3, <1>4

LEMMA StartIs ==
    ASSUME NEW times \in Seq(Int), NEW first \in 1..Len(times)
    PROVE  /\ Max(RunStarts(times, first)) \in first..Len(times)
           /\ Max(RunStarts(times, first)) \in RunStarts(times, first)
           /\ \A m \in RunStarts(times, first) : m <= Max(RunStarts(times, first))
<1>1. /\ RunStarts(times, first) \in SUBSET Nat /\ RunStarts(times, first) # {}
      /\ \A m \in RunStarts(times, first) : m \in first..Len(times)
    BY DEF RunStarts
<1>2. Len(times) \in Nat /\ \A m \in RunStarts(times, first) : m <= Len(times)
    BY <1>1
<1>3. /\ Max(RunStarts(times, first)) \in RunStarts(times, first)
      /\ \A m \in RunStarts(times, first) : Max(RunStarts(times, first)) >= m
    BY <1>1, <1>2, MaxExists
<1> QED
    BY <1>1, <1>3

\* A frame that comes late begins a new run, and no other does.
LEMMA StartAppend ==
    ASSUME NEW times \in Seq(Int), NEW first \in 1..Len(times) + 1, NEW t \in Int
    PROVE  LET start == Max(RunStarts(Append(times, t), first))
           IN  IF first = Len(times) + 1 \/ t - times[Len(times)] > 2 * HistoryPeriod
               THEN start = Len(times) + 1
               ELSE start = Max(RunStarts(times, first))
<1> DEFINE N == Len(times)
           log == Append(times, t)
<1>1. /\ N \in Nat /\ Len(log) = N + 1 /\ log[N + 1] = t /\ log \in Seq(Int)
      /\ \A n \in 1..N : log[n] = times[n]
    OBVIOUS
<1>2. HistoryPeriod \in Nat
    BY HistoryAssumption
<1>3. CASE first = N + 1
    <2>1. Max(RunStarts(log, first)) \in N + 1..N + 1
        BY <1>1, <1>3, StartIs
    <2> QED
        BY <1>1, <1>3, <2>1
<1>4. CASE first # N + 1 /\ t - times[N] > 2 * HistoryPeriod
    <2>1. N + 1 \in RunStarts(log, first)
        <3>1. N + 1 - 1 = N /\ N \in 1..N /\ N + 1 \in first + 1..Len(log)
            BY <1>1, <1>4
        <3> HIDE DEF log, N
        <3> QED
            BY <1>1, <1>4, <3>1 DEF RunStarts
    <2>2. /\ Max(RunStarts(log, first)) \in first..N + 1 /\ N + 1 <= Max(RunStarts(log, first))
        BY <1>1, <2>1, StartIs
    <2> QED
        BY <1>1, <1>4, <2>2
<1>5. CASE first # N + 1 /\ ~(t - times[N] > 2 * HistoryPeriod)
    <2>1. RunStarts(log, first) = RunStarts(times, first)
        <3> DEFINE Gap(s, m) == s[m] - s[m - 1] > 2 * HistoryPeriod
        <3>1. /\ \A m \in first + 1..N : Gap(log, m) <=> Gap(times, m)
              /\ ~Gap(log, N + 1)
              /\ first \in 1..N
            BY <1>1, <1>2, <1>5
        <3>2. RunStarts(log, first) = {first} \cup {m \in first + 1..N + 1 : Gap(log, m)}
              /\ RunStarts(times, first) = {first} \cup {m \in first + 1..N : Gap(times, m)}
            BY <1>1 DEF RunStarts
        <3> HIDE DEF Gap, log, N
        <3>3. \A m \in first + 1..N + 1 : m \in first + 1..N \/ m = N + 1
            BY <1>1, <3>1
        <3>4. \A m \in first + 1..N : m \in first + 1..N + 1
            BY <1>1, <3>1
        <3> QED
            BY <3>1, <3>2, <3>3, <3>4
    <2> QED
        BY <1>5, <2>1
<1> QED
    BY <1>3, <1>4, <1>5

LEMMA DroppedIs ==
    ASSUME NEW S, NEW samples \in Seq(S), samples # <<>>, NEW t
    PROVE  LET L == LatestAt(samples, t)
               kept == DropReplaced(samples, t)
           IN  /\ L \in 1..Len(samples)
               /\ L = 1 \/ samples[L].time <= t
               /\ \A i \in 1..Len(samples) : samples[i].time <= t => i <= L
               /\ kept \in Seq(S) /\ Len(kept) = Len(samples) - L + 1
               /\ \A j \in 1..Len(kept) : kept[j] = samples[L + j - 1]
<1> DEFINE L == LatestAt(samples, t)
<1>1. Len(samples) \in Nat /\ Len(samples) > 0 /\ DOMAIN samples = 1..Len(samples)
    BY LenProperties
<1>2. /\ L \in 1..Len(samples)
      /\ L = 1 \/ samples[L].time <= t
      /\ \A i \in 1..Len(samples) : samples[i].time <= t => i <= L
    BY <1>1, LatestAtIs
<1>3. DropReplaced(samples, t) = SubSeq(samples, L, Len(samples))
    BY DEF DropReplaced
<1> HIDE DEF L
<1>4. \A i \in L..Len(samples) : samples[i] \in S
    BY <1>1, <1>2
<1>5. /\ SubSeq(samples, L, Len(samples)) \in Seq(S)
      /\ Len(SubSeq(samples, L, Len(samples))) = Len(samples) - L + 1
      /\ \A j \in 1..Len(samples) - L + 1 :
            SubSeq(samples, L, Len(samples))[j] = samples[L + j - 1]
    BY <1>1, <1>2, <1>4, SubSeqProperties
<1> QED
    BY <1>2, <1>3, <1>5 DEF L

\* The observations of a run that may stand for a time.
Candidates(log, start, due) == {start} \cup {m \in start..Len(log) : log[m] <= due}

\* The frame the samples give for a time is the one the log has for it.
LEMMA WindowOfSamples ==
    ASSUME NEW log \in Seq(Int), NEW start \in 1..Len(log), NEW k \in start..Len(log),
           NEW samples, SamplesFrom(samples, log, k),
           NEW i \in Window, k = start \/ log[k] <= Target(log[Len(log)], 1)
    PROVE  LET due == Target(log[Len(log)], i)
               frame == samples[LatestAt(samples, due)].frame
           IN  /\ frame \in Frames
               /\ frame.seq = Max(Candidates(log, start, due))
               /\ i = HistoryLength => LatestAt(samples, due) = Len(samples)
<1> DEFINE n == Len(log)
           due == Target(log[n], i)
           L == LatestAt(samples, due)
           S == {start} \cup {m \in start..n : log[m] <= due}
<1>1. /\ n \in Nat /\ log[n] \in Int /\ \A m \in 1..n : log[m] \in Int
      /\ k \in 1..n /\ start \in Nat
    OBVIOUS
<1>2. /\ samples \in Seq([time : Int, frame : Frames])
      /\ Len(samples) = n - k + 1
      /\ \A j \in 1..Len(samples) : samples[j].time = log[k + j - 1]
                                    /\ samples[j].frame.seq = k + j - 1
    BY DEF SamplesFrom
<1>3. samples # <<>> /\ Len(samples) >= 1
    BY <1>1, <1>2
<1>4. /\ due \in Int /\ Target(log[n], 1) <= due /\ Target(log[n], 1) \in Int
      /\ i = HistoryLength => due = log[n]
    <2>1. 1 \in Window
        BY HistoryAssumption DEF Window
    <2> QED
        BY <1>1, <2>1, TargetIs
<1> HIDE DEF due
<1>5. /\ L \in 1..Len(samples)
      /\ L = 1 \/ samples[L].time <= due
      /\ \A j \in 1..Len(samples) : samples[j].time <= due => j <= L
    BY <1>2, <1>3, DroppedIs
<1> HIDE DEF L, n
<1>6. samples[L] \in [time : Int, frame : Frames] /\ samples[L].frame.seq = k + L - 1
      /\ samples[L].time = log[k + L - 1] /\ k + L - 1 \in k..n
    <2>1. samples[L] \in [time : Int, frame : Frames]
        BY <1>2, <1>5, ElementOfSeq
    <2>2. samples[L].frame.seq = k + L - 1 /\ samples[L].time = log[k + L - 1]
        BY <1>2, <1>5
    <2>3. k + L - 1 \in k..n
        BY <1>1, <1>2, <1>5
    <2> QED
        BY <2>1, <2>2, <2>3
<1>7. k + L - 1 \in S
    <2>1. CASE log[k + L - 1] <= due
        BY <1>1, <1>6, <2>1
    <2>2. CASE ~(log[k + L - 1] <= due)
        <3>1. L = 1
            BY <1>5, <1>6, <2>2
        <3>2. k + L - 1 = k
            BY <1>1, <3>1
        <3>3. k = start
            BY <1>1, <1>4, <2>2, <3>2 DEF n
        <3> QED
            BY <3>2, <3>3
    <2> QED
        BY <2>1, <2>2
<1>8. \A m \in S : k + L - 1 >= m
    <2> SUFFICES ASSUME NEW m \in S PROVE k + L - 1 >= m
        OBVIOUS
    <2>1. m \in start..n
        BY <1>1, <1>6 DEF n
    <2>2. CASE m <= k
        BY <1>1, <1>5, <2>1, <2>2
    <2>3. CASE m > k
        <3>1. log[m] <= due /\ m - k + 1 \in 1..Len(samples) /\ k + (m - k + 1) - 1 = m
            BY <1>1, <1>2, <2>1, <2>3
        <3>2. samples[m - k + 1].time <= due
            BY <1>2, <3>1
        <3>3. m - k + 1 <= L
            BY <1>5, <3>1, <3>2
        <3> QED
            BY <1>1, <1>5, <2>1, <3>3
    <2> QED
        BY <1>1, <2>1, <2>2, <2>3
<1>9. S \in SUBSET Int
    BY <1>1
<1>10. Max(S) = k + L - 1
    BY <1>7, <1>8, <1>9, MaxIs
<1>11. samples[L].frame \in Frames /\ samples[L].frame.seq = Max(S)
    BY <1>6, <1>10
<1>12. i = HistoryLength => L = Len(samples)
    <2> SUFFICES ASSUME i = HistoryLength PROVE L = Len(samples)
        OBVIOUS
    <2>1. Len(samples) \in 1..Len(samples) /\ k + Len(samples) - 1 = n
        BY <1>1, <1>2, <1>3
    <2>2. samples[Len(samples)].time <= due
        BY <1>1, <1>2, <1>4, <2>1
    <2> QED
        BY <1>5, <2>1, <2>2
<1> QED
    BY <1>11, <1>12 DEF L, due, n, Candidates

\* The samples with the new frame behind them, before old ones are dropped.
LEMMA SamplesGrow ==
    ASSUME NEW samples, NEW times \in Seq(Int), NEW first \in 1..Len(times) + 1,
           NEW t \in Int, NEW frame \in Frames, frame.seq = Len(times) + 1,
           \/ samples = <<>> /\ first = Len(times) + 1
           \/ SamplesHold(samples, times, first) /\ first <= Len(times) /\ t > times[Len(times)]
    PROVE  LET log == Append(times, t)
               start == Max(RunStarts(log, first))
               all == Append(Unbroken(samples, t), [time |-> t, frame |-> frame])
           IN  /\ start \in 1..Len(log)
               /\ \E k \in start..Len(log) :
                    /\ SamplesFrom(all, log, k)
                    /\ k = start \/ log[k] <= Target(t, 1)
<1> DEFINE N == Len(times)
           log == Append(times, t)
           start == Max(RunStarts(log, first))
           new == [time |-> t, frame |-> frame]
           all == Append(Unbroken(samples, t), new)
           Sample == [time : Int, frame : Frames]
<1>1. /\ N \in Nat /\ Len(log) = N + 1 /\ log[N + 1] = t /\ log \in Seq(Int)
      /\ \A n \in 1..N : log[n] = times[n] /\ times[n] \in Int
    OBVIOUS
<1>2. new \in Sample /\ new.time = t /\ new.frame.seq = N + 1
    OBVIOUS
<1>3. start \in 1..Len(log)
    <2>1. first \in 1..Len(log)
        BY <1>1
    <2> HIDE DEF log
    <2>2. start \in first..Len(log)
        BY <1>1, <2>1, StartIs
    <2> QED
        BY <1>1, <2>1, <2>2
<1>4. IF first = N + 1 \/ t - times[N] > 2 * HistoryPeriod
      THEN start = N + 1 ELSE start = Max(RunStarts(times, first))
    BY StartAppend
<1> HIDE DEF start, log, N, new
\* The new frame begins a run.
<1>5. ASSUME Unbroken(samples, t) = <<>>, start = N + 1
      PROVE  SamplesFrom(all, log, N + 1)
    <2>1. /\ all = <<new>>
        BY <1>5
    <2>2. /\ all \in Seq(Sample) /\ Len(all) = 1 /\ all[1] = new
        BY <1>2, <2>1
    <2>3. \A j \in 1..Len(all) : j = 1 /\ N + 1 + j - 1 = N + 1
        BY <1>1, <2>2
    <2>4. Len(all) = Len(log) - (N + 1) + 1
        BY <1>1, <2>2
    <2> HIDE DEF all
    <2> QED
        BY <1>1, <1>2, <2>2, <2>3, <2>4 DEF SamplesFrom
<1>6. CASE samples = <<>> /\ first = N + 1
    <2>1. Unbroken(samples, t) = <<>> /\ start = N + 1
        BY <1>4, <1>6 DEF Unbroken
    <2> QED
        BY <1>1, <1>3, <1>5, <2>1 DEF start, log, new, N
<1>7. CASE SamplesHold(samples, times, first) /\ first <= N /\ t > times[N]
    <2>1. PICK k \in Max(RunStarts(times, first))..N :
            /\ SamplesFrom(samples, times, k)
            /\ k = Max(RunStarts(times, first)) \/ times[k] <= Target(times[N], 1)
        BY <1>7 DEF SamplesHold, N
    <2>2. Max(RunStarts(times, first)) \in first..N
        BY <1>7, StartIs DEF N
    <2>3. /\ samples \in Seq(Sample) /\ Len(samples) = N - k + 1
          /\ \A j \in 1..Len(samples) : samples[j].time = times[k + j - 1]
                                        /\ samples[j].frame.seq = k + j - 1
        BY <2>1 DEF SamplesFrom, N
    <2>4. k \in 1..N /\ k \in Nat /\ first \in Nat
        BY <1>1, <2>1, <2>2
    <2>5. samples # <<>> /\ Last(samples).time = times[N]
        <3>1. Len(samples) \in 1..Len(samples) /\ k + Len(samples) - 1 = N
            BY <1>1, <2>3, <2>4
        <3> QED
            BY <2>3, <3>1 DEF Last
    <2>6. CASE t - times[N] > 2 * HistoryPeriod
        <3>1. Unbroken(samples, t) = <<>> /\ start = N + 1
            BY <1>4, <2>5, <2>6 DEF Unbroken
        <3> QED
            BY <1>1, <1>3, <1>5, <3>1 DEF start, log, new, N
    <2>7. CASE ~(t - times[N] > 2 * HistoryPeriod)
        <3>1. Unbroken(samples, t) = samples /\ start = Max(RunStarts(times, first))
            BY <1>1, <1>4, <1>7, <2>4, <2>5, <2>7 DEF Unbroken
        <3>2. all = Append(samples, new)
            BY <3>1
        <3>3. /\ all \in Seq(Sample) /\ Len(all) = Len(samples) + 1
              /\ all[Len(samples) + 1] = new
              /\ \A j \in 1..Len(samples) : all[j] = samples[j]
            BY <1>2, <2>3, <3>2
        <3> HIDE DEF all
        <3>4. Len(all) = Len(log) - k + 1
            BY <1>1, <2>3, <2>4, <3>3
        <3>5. ASSUME NEW j \in 1..Len(all)
              PROVE  all[j].time = log[k + j - 1] /\ all[j].frame.seq = k + j - 1
            <4>1. CASE j = Len(samples) + 1
                <5>1. k + j - 1 = N + 1 /\ all[j] = new
                    BY <1>1, <2>3, <2>4, <3>3, <4>1
                <5> QED
                    BY <1>1, <1>2, <5>1
            <4>2. CASE j # Len(samples) + 1
                <5>1. j \in 1..Len(samples) /\ k + j - 1 \in 1..N
                    BY <1>1, <2>3, <2>4, <3>3, <4>2
                <5> QED
                    BY <1>1, <2>3, <3>3, <5>1
            <4> QED
                BY <4>1, <4>2
        <3>6. SamplesFrom(all, log, k)
            BY <3>3, <3>4, <3>5 DEF SamplesFrom
        <3>7. k = start \/ log[k] <= Target(t, 1)
            <4>1. CASE k = start
                BY <4>1
            <4>2. CASE times[k] <= Target(times[N], 1)
                <5>1. 1 \in Window /\ times[N] \in Int /\ t >= times[N]
                    BY <1>1, <1>7, <2>4, HistoryAssumption DEF Window
                <5>2. Target(times[N], 1) <= Target(t, 1) /\ Target(t, 1) \in Int
                      /\ Target(times[N], 1) \in Int
                    BY <5>1, TargetIs
                <5> QED
                    BY <1>1, <2>4, <4>2, <5>2
            <4> QED
                BY <2>1, <3>1, <4>1, <4>2
        <3>8. k \in start..Len(log)
            BY <1>1, <2>1, <2>2, <2>4, <3>1
        <3> QED
            BY <1>3, <3>6, <3>7, <3>8 DEF start, log, new, N, all
    <2> QED
        BY <2>6, <2>7
<1> QED
    BY <1>6, <1>7 DEF N

LEMMA SampleAppend ==
    ASSUME HistoryPeriod # 0, NEW h, IsHistory(h), NEW times \in Seq(Int),
           NEW first \in 1..Len(times) + 1, NEW t \in Int,
           \/ h = EmptyHistory /\ first = Len(times) + 1
           \/ /\ SamplesHold(h.samples, times, first)
              /\ first <= Len(times) /\ t > times[Len(times)],
           NEW frame \in Frames, frame.seq = Len(times) + 1
    PROVE  LET new == AppendFrame(h, frame, t)
           IN  /\ IsHistory(new)
               /\ SamplesHold(new.samples, Append(times, t), first)
               /\ WindowIsRight(new.values, Append(times, t), first)
               /\ new.values[HistoryLength] = frame
<1> DEFINE N == Len(times)
           log == Append(times, t)
           start == Max(RunStarts(log, first))
           all == Append(Unbroken(h.samples, t), [time |-> t, frame |-> frame])
           due(i) == Target(t, i)
           kept == DropReplaced(all, due(1))
           values == [i \in Window |-> kept[LatestAt(kept, due(i))].frame]
           new == AppendFrame(h, frame, t)
           Sample == [time : Int, frame : Frames]
<1>1. /\ N \in Nat /\ Len(log) = N + 1 /\ log[N + 1] = t /\ log \in Seq(Int)
      /\ log[Len(log)] = t
    OBVIOUS
<1>2. new = [initialized |-> h.initialized, values |-> values, samples |-> kept]
    BY DEF AppendFrame, SampleFrame, DropOld, IsHistory
<1>3. /\ start \in 1..Len(log)
      /\ \E k \in start..Len(log) :
            /\ SamplesFrom(all, log, k)
            /\ k = start \/ log[k] <= due(1)
    <2>1. \/ h.samples = <<>> /\ first = Len(times) + 1
          \/ /\ SamplesHold(h.samples, times, first)
             /\ first <= Len(times) /\ t > times[Len(times)]
        BY DEF EmptyHistory
    <2> QED
        BY <2>1, SamplesGrow
<1>4. all[Len(all)] = [time |-> t, frame |-> frame]
    <2>1. Unbroken(h.samples, t) \in Seq(Sample)
        <3>1. h.samples \in Seq(Sample)
            <4>1. CASE h = EmptyHistory
                BY <4>1 DEF EmptyHistory
            <4>2. CASE SamplesHold(h.samples, times, first)
                BY <4>2 DEF SamplesHold, SamplesFrom
            <4> QED
                BY <4>1, <4>2
        <3> QED
            BY <3>1 DEF Unbroken
    <2> QED
        BY <2>1
<1> HIDE DEF start, log, N, all, due, Sample
<1>5. PICK k \in start..Len(log) : SamplesFrom(all, log, k) /\ (k = start \/ log[k] <= due(1))
    BY <1>3
<1>6. /\ all \in Seq(Sample) /\ Len(all) = Len(log) - k + 1
      /\ \A j \in 1..Len(all) : all[j].time = log[k + j - 1] /\ all[j].frame.seq = k + j - 1
    BY <1>5 DEF SamplesFrom, Sample
<1>7. /\ k \in Int /\ start \in Int /\ 1 <= start /\ start <= k /\ k <= Len(log)
      /\ Len(log) \in Int /\ Len(all) \in Int /\ Len(all) >= 1 /\ all # <<>>
    <2>1. Len(log) \in Int
        BY <1>1
    <2>2. start \in Int /\ 1 <= start
        BY <1>3, <2>1
    <2>3. k \in Int /\ start <= k /\ k <= Len(log)
        BY <1>5, <2>1, <2>2
    <2>4. Len(all) \in Int /\ Len(all) >= 1
        BY <1>6, <2>1, <2>3
    <2>5. all # <<>>
        BY <2>4
    <2> QED
        BY <2>1, <2>2, <2>3, <2>4, <2>5
<1> DEFINE L == LatestAt(all, due(1))
<1>8. /\ L \in 1..Len(all)
      /\ L = 1 \/ all[L].time <= due(1)
      /\ kept \in Seq(Sample) /\ Len(kept) = Len(all) - L + 1
      /\ \A j \in 1..Len(kept) : kept[j] = all[L + j - 1]
    BY <1>6, <1>7, DroppedIs
<1> HIDE DEF kept, L
<1> DEFINE k2 == k + L - 1
<1>9. k2 \in start..Len(log) /\ Len(kept) = Len(log) - k2 + 1
    <2>1. L \in Int /\ 1 <= L /\ L <= Len(all)
        BY <1>7, <1>8
    <2>2. Len(all) = Len(log) - k + 1 /\ Len(kept) = Len(all) - L + 1
        BY <1>6, <1>8
    <2> QED
        BY <1>7, <2>1, <2>2
<1>10. SamplesFrom(kept, log, k2)
    <2>1. ASSUME NEW j \in 1..Len(kept)
          PROVE  kept[j].time = log[k2 + j - 1] /\ kept[j].frame.seq = k2 + j - 1
        <3>1. L + j - 1 \in 1..Len(all) /\ k2 + j - 1 = k + (L + j - 1) - 1
            BY <1>1, <1>6, <1>7, <1>8, <1>9
        <3>2. kept[j] = all[L + j - 1]
            BY <1>8
        <3> HIDE DEF k2
        <3> QED
            BY <1>6, <3>1, <3>2
    <2> QED
        BY <1>8, <1>9, <2>1 DEF SamplesFrom, Sample
<1>11. k2 = start \/ log[k2] <= due(1)
    <2>1. CASE L = 1
        BY <1>5, <1>7, <2>1
    <2>2. CASE L # 1
        BY <1>6, <1>8, <2>2
    <2> QED
        BY <2>1, <2>2
<1> HIDE DEF k2
<1>12. ASSUME NEW i \in Window
       PROVE  /\ kept[LatestAt(kept, due(i))].frame \in Frames
              /\ kept[LatestAt(kept, due(i))].frame.seq = WindowSource(i, log, first)
              /\ i = HistoryLength => LatestAt(kept, due(i)) = Len(kept)
    <2>1. \A j \in Window : due(j) = Target(log[Len(log)], j)
        BY <1>1 DEF due
    <2>2. 1 \in Window
        BY HistoryAssumption DEF Window
    <2>3. k2 = start \/ log[k2] <= Target(log[Len(log)], 1)
        BY <1>11, <2>1, <2>2
    <2>4. /\ kept[LatestAt(kept, Target(log[Len(log)], i))].frame \in Frames
          /\ kept[LatestAt(kept, Target(log[Len(log)], i))].frame.seq =
                Max(Candidates(log, start, Target(log[Len(log)], i)))
          /\ i = HistoryLength => LatestAt(kept, Target(log[Len(log)], i)) = Len(kept)
        <3>1. log \in Seq(Int) /\ start \in 1..Len(log)
            BY <1>1, <1>3
        <3> QED
            BY <1>9, <1>10, <2>3, <3>1, WindowOfSamples
    <2>5. WindowSource(i, log, first) = Max(Candidates(log, start, Target(log[Len(log)], i)))
        BY DEF WindowSource, start, RunStarts, Candidates
    <2> QED
        BY <2>1, <2>4, <2>5
<1>13. WindowIsRight(values, log, first)
    BY <1>12 DEF WindowIsRight
<1>14. values[HistoryLength] = frame
    <2>1. HistoryLength \in Window
        BY HistoryAssumption DEF Window
    <2>2. values[HistoryLength] = kept[Len(kept)].frame
        BY <1>12, <2>1
    <2>3. Len(kept) \in 1..Len(kept) /\ L + Len(kept) - 1 = Len(all)
        BY <1>1, <1>6, <1>7, <1>8
    <2>4. kept[Len(kept)] = all[Len(all)]
        BY <1>8, <2>3
    <2> HIDE DEF values
    <2> QED
        BY <1>4, <2>2, <2>4
<1> HIDE DEF values
<1>15. IsHistory(new) /\ new.values = values /\ new.samples = kept
    BY <1>2 DEF IsHistory
<1>16. SamplesHold(kept, log, first)
    <2>1. k2 = start \/ log[k2] <= Target(log[Len(log)], 1)
        BY <1>1, <1>11 DEF due
    <2> QED
        BY <1>9, <1>10, <2>1 DEF SamplesHold, start
<1> HIDE DEF new
<1> QED
    BY <1>13, <1>14, <1>15, <1>16 DEF new, log

----------------------------------------------------------------------------
(* The previous action under resampled frames.  ans are the observations of the        *)
(* control period that were answered in order, the action for observation n being n.   *)

FiledActions == [time : Int, action : Int]

\* The samples are answers in order, and those missing are older than the first.
FilesAnswers(samples, times, ans) ==
    /\ samples \in Seq(FiledActions)
    /\ \A j \in 1..Len(samples) : samples[j].action \in ans
                                  /\ samples[j].time = times[samples[j].action]
    /\ \A i, j \in 1..Len(samples) : i < j => samples[i].action < samples[j].action
    /\ samples = <<>> => ans = {}
    /\ \A m \in ans : m < samples[1].action \/ \E j \in 1..Len(samples) : samples[j].action = m

\* Nothing was due yet, or the first sample has been since the last observation.
FeedbackDue(fb, times, ans) ==
    \/ /\ fb.value = 0
       /\ \A m \in ans : \E j \in 1..Len(fb.samples) : fb.samples[j].action = m
    \/ fb.samples # <<>> /\ fb.samples[1].time <= times[Len(times)] - HistoryPeriod

FeedbackHolds(fb, times, past, ans) ==
    /\ fb = [samples |-> fb.samples, value |-> fb.value] /\ fb.value \in Int
    /\ ans \subseteq past + 1..Len(times)
    /\ FilesAnswers(fb.samples, times, ans)
    /\ FeedbackDue(fb, times, ans)

\* Under flat hold zeros are filed.
FlatFeedback(fb) ==
    /\ fb = [samples |-> fb.samples, value |-> 0]
    /\ fb.samples \in Seq(FiledActions)
    /\ \A j \in 1..Len(fb.samples) : fb.samples[j].action = 0

\* The answers an observation may show.
DueAnswers(ans, times, due) == {0} \cup {m \in ans : times[m] <= due}

LEMMA EmptyStaysEmpty == ASSUME NEW t PROVE DropReplaced(<<>>, t) = <<>>
<1>1. LatestAt(<<>>, t) = 1
    <2> DEFINE S == {1} \cup {i \in DOMAIN <<>> : <<>>[i].time <= t}
    <2>1. S = {1}
        OBVIOUS
    <2>2. LatestAt(<<>>, t) = Max(S)
        BY DEF LatestAt
    <2>3. Max({1}) = 1
        <3>1. {1} \in SUBSET Int /\ 1 \in {1} /\ \A x \in {1} : 1 >= x
            OBVIOUS
        <3> QED
            BY <3>1, MaxIs
    <2> HIDE DEF S
    <2> QED
        BY <2>1, <2>2, <2>3
<1>2. Len(<<>>) < 1
    OBVIOUS
<1> QED
    BY <1>1, <1>2, SubSeqEmpty DEF DropReplaced

LEMMA FlatSampled ==
    ASSUME NEW fb, FlatFeedback(fb), NEW t \in Int
    PROVE  LET new == SampleFeedback(fb, t, HistoryPeriod)
           IN  FlatFeedback(new) /\ new.value = 0
<1> DEFINE due == t - HistoryPeriod
           kept == DropReplaced(fb.samples, due)
           new == SampleFeedback(fb, t, HistoryPeriod)
<1>1. /\ fb.samples \in Seq(FiledActions) /\ fb.value = 0
      /\ \A j \in 1..Len(fb.samples) : fb.samples[j].action = 0
    BY DEF FlatFeedback
<1>2. /\ kept \in Seq(FiledActions)
      /\ \A j \in 1..Len(kept) : kept[j].action = 0
    <2>1. CASE fb.samples = <<>>
        <3>1. kept = <<>>
            BY <2>1, EmptyStaysEmpty
        <3> HIDE DEF kept
        <3>2. kept \in Seq(FiledActions) /\ Len(kept) = 0
            BY <3>1
        <3> QED
            BY <3>2
    <2>2. CASE fb.samples # <<>>
        <3> DEFINE L == LatestAt(fb.samples, due)
        <3>1. /\ L \in 1..Len(fb.samples)
              /\ kept \in Seq(FiledActions) /\ Len(kept) = Len(fb.samples) - L + 1
              /\ \A j \in 1..Len(kept) : kept[j] = fb.samples[L + j - 1]
            BY <1>1, <2>2, DroppedIs
        <3> HIDE DEF L, kept
        <3>2. \A j \in 1..Len(kept) : L + j - 1 \in 1..Len(fb.samples)
            BY <1>1, <3>1
        <3> QED
            BY <1>1, <3>1, <3>2
    <2> QED
        BY <2>1, <2>2
<1>3. new = [samples |-> kept, value |-> IF kept # <<>> /\ Head(kept).time <= due
                                         THEN Head(kept).action ELSE fb.value]
    BY DEF SampleFeedback
<1> HIDE DEF kept
<1>4. kept # <<>> => Head(kept).action = 0
    BY <1>2
<1>5. new = [samples |-> kept, value |-> 0]
    BY <1>1, <1>3, <1>4
<1> QED
    BY <1>2, <1>5 DEF FlatFeedback

LEMMA FeedbackSampled ==
    ASSUME NEW times \in Seq(Int), NEW past \in 0..Len(times), TimesAscend(times, past),
           NEW ans, NEW fb, FeedbackHolds(fb, times, past, ans),
           NEW t \in Int, past < Len(times) => t > times[Len(times)]
    PROVE  LET new == SampleFeedback(fb, t, HistoryPeriod)
               log == Append(times, t)
           IN  /\ FeedbackHolds(new, log, past, ans)
               /\ new.value = Max(DueAnswers(ans, log, t - HistoryPeriod))
<1> DEFINE N == Len(times)
           log == Append(times, t)
           due == t - HistoryPeriod
           s == fb.samples
           kept == DropReplaced(s, due)
           new == SampleFeedback(fb, t, HistoryPeriod)
<1>1. /\ N \in Nat /\ Len(log) = N + 1 /\ log[N + 1] = t /\ due \in Int
      /\ \A n \in 1..N : log[n] = times[n] /\ times[n] \in Int
    BY HistoryAssumption
<1>2. /\ fb.value \in Int /\ ans \subseteq past + 1..N
      /\ FilesAnswers(s, times, ans) /\ FeedbackDue(fb, times, ans)
    BY DEF FeedbackHolds
<1>3. \A m \in ans : m \in 1..N /\ m \in Int /\ m > 0 /\ log[m] = times[m] /\ times[m] \in Int
                     /\ m \in past + 1..Len(log)
    BY <1>1, <1>2
<1>4. new = [samples |-> kept, value |-> IF kept # <<>> /\ Head(kept).time <= due
                                         THEN Head(kept).action ELSE fb.value]
    BY DEF SampleFeedback
<1>5. DueAnswers(ans, log, due) \in SUBSET Int /\ 0 \in DueAnswers(ans, log, due)
    BY <1>3 DEF DueAnswers
<1> HIDE DEF new
<1>6. CASE s = <<>>
    <2>1. ans = {} /\ kept = <<>> /\ fb.value = 0
        BY <1>2, <1>6, EmptyStaysEmpty DEF FilesAnswers, FeedbackDue
    <2>2. new = [samples |-> <<>>, value |-> 0]
        BY <1>4, <2>1
    <2>3. FeedbackHolds(new, log, past, ans)
        BY <2>1, <2>2 DEF FeedbackHolds, FilesAnswers, FeedbackDue
    <2>4. DueAnswers(ans, log, due) = {0}
        BY <2>1 DEF DueAnswers
    <2>5. Max(DueAnswers(ans, log, due)) = 0
        BY <1>5, <2>4, MaxIs
    <2> QED
        BY <2>2, <2>3, <2>5 DEF new
<1>7. CASE s # <<>>
    <2> DEFINE L == LatestAt(s, due)
    <2>1. /\ s \in Seq(FiledActions) /\ Len(s) \in Nat
          /\ \A j \in 1..Len(s) : s[j].action \in ans /\ s[j].time = times[s[j].action]
          /\ \A i, j \in 1..Len(s) : i < j => s[i].action < s[j].action
          /\ \A m \in ans : m < s[1].action \/ \E j \in 1..Len(s) : s[j].action = m
        <3> HIDE DEF s
        <3>1. FilesAnswers(s, times, ans)
            BY <1>2
        <3>2. s \in Seq(FiledActions)
            BY <3>1 DEF FilesAnswers
        <3>3. \A m \in ans : m < s[1].action \/ \E j \in 1..Len(s) : s[j].action = m
            BY <3>1, Zenon DEF FilesAnswers
        <3>4. /\ \A j \in 1..Len(s) : s[j].action \in ans /\ s[j].time = times[s[j].action]
              /\ \A i, j \in 1..Len(s) : i < j => s[i].action < s[j].action
            BY <3>1, Zenon DEF FilesAnswers
        <3> QED
            BY <3>2, <3>3, <3>4
    <2>2. /\ L \in 1..Len(s) /\ L \in Int /\ L >= 1
          /\ L = 1 \/ s[L].time <= due
          /\ \A i \in 1..Len(s) : s[i].time <= due => i <= L
          /\ kept \in Seq(FiledActions) /\ Len(kept) = Len(s) - L + 1
          /\ \A j \in 1..Len(kept) : kept[j] = s[L + j - 1]
        BY <1>7, <2>1, DroppedIs
    <2> HIDE DEF L, kept, s, log, N, due
    <2>3. /\ Len(kept) \in Nat /\ Len(kept) >= 1 /\ 1 \in 1..Len(kept)
          /\ kept # <<>> /\ kept[1] = s[L] /\ Head(kept) = s[L]
          /\ 1 \in 1..Len(s)
        <3>1. Len(kept) \in Nat /\ Len(kept) >= 1 /\ 1 \in 1..Len(kept) /\ 1 \in 1..Len(s)
            BY <2>1, <2>2
        <3>2. kept[1] = s[L + 1 - 1] /\ L + 1 - 1 = L
            BY <2>2, <3>1
        <3>3. kept # <<>> /\ Head(kept) = kept[1]
            BY <2>2, <3>1
        <3> QED
            BY <3>1, <3>2, <3>3
    <2>4. \A j \in 1..Len(kept) : L + j - 1 \in 1..Len(s) /\ j \in Int
        BY <2>1, <2>2, <2>3
    <2>5. \A i \in 1..Len(s) : i >= L => i - L + 1 \in 1..Len(kept) /\ kept[i - L + 1] = s[i]
        <3> SUFFICES ASSUME NEW i \in 1..Len(s), i >= L
                     PROVE  i - L + 1 \in 1..Len(kept) /\ kept[i - L + 1] = s[i]
            OBVIOUS
        <3>1. i \in Int /\ L \in Int /\ i <= Len(s) /\ Len(s) \in Nat /\ Len(kept) = Len(s) - L + 1
            BY <2>1, <2>2
        <3>2. i - L + 1 \in 1..Len(kept) /\ L + (i - L + 1) - 1 = i
            BY <3>1
        <3> QED
            BY <2>2, <3>2
    <2>6. FilesAnswers(kept, log, ans)
        <3>1. ASSUME NEW j \in 1..Len(kept)
              PROVE  kept[j].action \in ans /\ kept[j].time = log[kept[j].action]
            <4>1. L + j - 1 \in 1..Len(s) /\ kept[j] = s[L + j - 1]
                BY <2>2, <2>4
            <4>2. s[L + j - 1].action \in ans
                  /\ s[L + j - 1].time = times[s[L + j - 1].action]
                BY <2>1, <4>1
            <4> QED
                BY <1>3, <4>1, <4>2
        <3>2. ASSUME NEW i \in 1..Len(kept), NEW j \in 1..Len(kept), i < j
              PROVE  kept[i].action < kept[j].action
            <4>1. L + i - 1 < L + j - 1 /\ L + i - 1 \in 1..Len(s) /\ L + j - 1 \in 1..Len(s)
                BY <2>2, <2>4, <3>2
            <4>2. s[L + i - 1].action < s[L + j - 1].action
                BY <2>1, <4>1
            <4> QED
                BY <2>2, <4>2
        <3>3. ASSUME NEW m \in ans
              PROVE  m < kept[1].action \/ \E j \in 1..Len(kept) : kept[j].action = m
            <4>1. CASE m < s[1].action
                <5>1. L = 1 \/ s[1].action < s[L].action
                    BY <2>1, <2>2, <2>3
                <5>2. s[1].action \in Int /\ s[L].action \in Int /\ m \in Int
                    BY <1>3, <2>1, <2>2, <2>3
                <5> QED
                    BY <2>3, <4>1, <5>1, <5>2
            <4>2. CASE \E i \in 1..Len(s) : s[i].action = m
                <5>1. PICK i \in 1..Len(s) : s[i].action = m
                    BY <4>2
                <5>2. CASE i >= L
                    BY <2>5, <5>1, <5>2
                <5>3. CASE i < L
                    BY <2>1, <2>2, <2>3, <5>1, <5>3
                <5> QED
                    BY <2>1, <2>2, <5>2, <5>3
            <4> QED
                BY <2>1, <4>1, <4>2
        <3> QED
            BY <2>2, <2>3, <3>1, <3>2, <3>3 DEF FilesAnswers
    <2>7. /\ s[L].action \in ans /\ s[L].time = times[s[L].action] /\ s[L].time = log[s[L].action]
          /\ s[L].action \in Int /\ s[L].action > 0 /\ s[L].time \in Int
        BY <1>3, <2>1, <2>2
    <2>8. CASE s[L].time <= due
        <3>1. new = [samples |-> kept, value |-> s[L].action]
            BY <1>4, <2>3, <2>8
        <3>2. FeedbackDue(new, log, ans)
            <4>1. kept[1].time <= log[Len(log)] - HistoryPeriod
                BY <1>1, <2>3, <2>8 DEF due
            <4> QED
                BY <2>3, <3>1, <4>1 DEF FeedbackDue
        <3>3. FeedbackHolds(new, log, past, ans)
            BY <1>3, <2>6, <2>7, <3>1, <3>2 DEF FeedbackHolds
        <3>4. \A m \in DueAnswers(ans, log, due) : s[L].action >= m
            <4> SUFFICES ASSUME NEW m \in ans, times[m] <= due PROVE s[L].action >= m
                BY <1>3, <2>7 DEF DueAnswers
            <4>1. CASE m < s[1].action
                <5>1. L = 1 \/ s[1].action < s[L].action
                    BY <2>1, <2>2, <2>3
                <5>2. s[1].action \in Int /\ m \in Int
                    BY <1>3, <2>1, <2>3
                <5> QED
                    BY <2>7, <4>1, <5>1, <5>2
            <4>2. CASE \E i \in 1..Len(s) : s[i].action = m
                <5>1. PICK i \in 1..Len(s) : s[i].action = m
                    BY <4>2
                <5>2. i <= L
                    BY <2>1, <2>2, <5>1
                <5>3. i = L \/ s[i].action < s[L].action
                    BY <2>1, <2>2, <5>2
                <5> QED
                    BY <1>3, <2>7, <5>1, <5>3
            <4> QED
                BY <2>1, <4>1, <4>2
        <3>5. s[L].action \in DueAnswers(ans, log, due)
            BY <2>7, <2>8 DEF DueAnswers
        <3>6. Max(DueAnswers(ans, log, due)) = s[L].action
            BY <1>5, <3>4, <3>5, MaxIs
        <3> QED
            BY <3>1, <3>3, <3>6 DEF new, log, due
    <2>9. CASE ~(s[L].time <= due)
        <3>1. L = 1
            BY <2>2, <2>9
        <3>2. new = [samples |-> kept, value |-> fb.value] /\ kept[1] = s[1]
            BY <1>4, <2>3, <2>9, <3>1
        <3>3. /\ fb.value = 0
              /\ \A m \in ans : \E j \in 1..Len(s) : s[j].action = m
            <4>1. ~(s[1].time <= times[N] - HistoryPeriod)
                <5>1. N \in 1..N /\ times[N] \in Int /\ t > times[N] /\ HistoryPeriod \in Nat
                    BY <1>1, <1>2, <1>3, <2>7, HistoryAssumption DEF N
                <5> QED
                    BY <2>7, <2>9, <3>1, <5>1 DEF due
            <4> QED
                BY <1>2, <4>1 DEF FeedbackDue, s, N
        <3>4. \A m \in ans : \E j \in 1..Len(kept) : kept[j].action = m
            <4> SUFFICES ASSUME NEW m \in ans
                         PROVE  \E j \in 1..Len(kept) : kept[j].action = m
                OBVIOUS
            <4>1. PICK i \in 1..Len(s) : s[i].action = m
                BY <3>3
            <4>2. i >= L
                BY <2>1, <3>1
            <4> QED
                BY <2>5, <4>1, <4>2
        <3>5. FeedbackHolds(new, log, past, ans)
            BY <1>3, <2>6, <3>2, <3>3, <3>4 DEF FeedbackHolds, FeedbackDue
        <3>6. DueAnswers(ans, log, due) = {0}
            <4> SUFFICES ASSUME NEW m \in ans PROVE ~(log[m] <= due)
                BY DEF DueAnswers
            <4>1. PICK i \in 1..Len(s) : s[i].action = m
                BY <3>3
            <4>2. s[i].time = log[m]
                BY <1>3, <2>1, <4>1
            <4>3. i = 1 \/ ~(s[i].time <= due)
                BY <2>1, <2>2, <3>1
            <4> QED
                BY <2>9, <3>1, <4>2, <4>3
        <3>7. Max(DueAnswers(ans, log, due)) = 0
            <4>1. \A x \in DueAnswers(ans, log, due) : 0 >= x
                BY <3>6
            <4> QED
                BY <1>5, <4>1, MaxIs
        <3> QED
            BY <3>2, <3>3, <3>5, <3>7 DEF new, log, due
    <2> QED
        BY <2>8, <2>9
<1> QED
    BY <1>6, <1>7

LEMMA FlatStored ==
    ASSUME NEW fb, FlatFeedback(fb), NEW time \in Int
    PROVE  FlatFeedback(StoreFeedback(fb, time, 0))
<1> DEFINE new == [time |-> time, action |-> 0]
           s == Append(fb.samples, new)
<1>1. /\ fb = [samples |-> fb.samples, value |-> 0] /\ fb.samples \in Seq(FiledActions)
      /\ \A j \in 1..Len(fb.samples) : fb.samples[j].action = 0
    BY DEF FlatFeedback
<1>2. StoreFeedback(fb, time, 0) = fb \/ StoreFeedback(fb, time, 0) = [samples |-> s, value |-> 0]
    <2>1. StoreFeedback(fb, time, 0) = fb \/ StoreFeedback(fb, time, 0) = [fb EXCEPT !.samples = s]
        BY DEF StoreFeedback
    <2>2. [fb EXCEPT !.samples = s] = [samples |-> s, value |-> 0]
        <3> HIDE DEF s
        <3> QED
            BY <1>1
    <2> QED
        BY <2>1, <2>2
<1>3. s \in Seq(FiledActions) /\ \A j \in 1..Len(s) : s[j].action = 0
    <2>1. new \in FiledActions /\ new.action = 0
        BY DEF FiledActions
    <2> HIDE DEF new
    <2>2. /\ s \in Seq(FiledActions) /\ Len(s) = Len(fb.samples) + 1
          /\ s[Len(fb.samples) + 1] = new
          /\ \A j \in 1..Len(fb.samples) : s[j] = fb.samples[j]
        BY <1>1, <2>1
    <2>3. \A j \in 1..Len(s) : j \in 1..Len(fb.samples) \/ j = Len(fb.samples) + 1
        BY <1>1, <2>2
    <2> HIDE DEF s
    <2> QED
        BY <1>1, <2>1, <2>2, <2>3
<1> HIDE DEF s
<1> QED
    BY <1>1, <1>2, <1>3 DEF FlatFeedback

\* What the next answer makes of those recorded: only a newer one counts.
Recorded(ans, n) == IF \A m \in ans : m < n THEN ans \cup {n} ELSE ans

LEMMA FeedbackStored ==
    ASSUME NEW times \in Seq(Int), NEW past \in 0..Len(times), TimesAscend(times, past),
           NEW ans, NEW fb, FeedbackHolds(fb, times, past, ans), NEW n \in past + 1..Len(times)
    PROVE  FeedbackHolds(StoreFeedback(fb, times[n], n), times, past, Recorded(ans, n))
<1> DEFINE N == Len(times)
           s == fb.samples
           new == [time |-> times[n], action |-> n]
           s2 == Append(s, new)
<1>1. /\ fb = [samples |-> s, value |-> fb.value] /\ fb.value \in Int
      /\ ans \subseteq past + 1..N
      /\ FilesAnswers(s, times, ans) /\ FeedbackDue(fb, times, ans)
    BY DEF FeedbackHolds
<1>2. /\ n \in Int /\ n > 0 /\ times[n] \in Int
      /\ \A m \in ans : m \in Int /\ m \in past + 1..N /\ times[m] \in Int
    BY <1>1
<1>3. /\ s \in Seq(FiledActions) /\ Len(s) \in Nat
      /\ s = <<>> => ans = {}
    BY <1>1 DEF FilesAnswers
<1>4. /\ \A j \in 1..Len(s) : s[j].action \in ans /\ s[j].time = times[s[j].action]
      /\ \A i, j \in 1..Len(s) : i < j => s[i].action < s[j].action
      /\ \A m \in ans : m < s[1].action \/ \E j \in 1..Len(s) : s[j].action = m
    <2> HIDE DEF s
    <2> QED
        BY <1>1, Zenon DEF FilesAnswers
<1> DEFINE last == s[Len(s)].action
<1>5. ASSUME s # <<>>
      PROVE  /\ last \in ans /\ Last(s).time = times[last] /\ 1 \in 1..Len(s)
             /\ \A m \in ans : m <= last
    <2>1. Len(s) \in 1..Len(s) /\ 1 \in 1..Len(s)
        BY <1>3, <1>5
    <2>2. last \in ans /\ Last(s).time = times[last]
        BY <1>4, <2>1 DEF Last
    <2> HIDE DEF last
    <2>3. ASSUME NEW j \in 1..Len(s) PROVE s[j].action <= last
        <3>1. j = Len(s) \/ s[j].action < s[Len(s)].action
            BY <1>3, <1>4, <2>1
        <3> QED
            BY <1>2, <1>4, <2>2, <3>1 DEF last
    <2>4. ASSUME NEW m \in ans PROVE m <= last
        <3>1. CASE m < s[1].action
            <4>1. s[1].action <= last /\ s[1].action \in Int
                BY <1>2, <1>4, <2>1, <2>3
            <4> QED
                BY <1>2, <2>2, <3>1, <4>1
        <3>2. CASE \E j \in 1..Len(s) : s[j].action = m
            BY <2>3, <3>2
        <3> QED
            BY <1>4, <3>1, <3>2
    <2> QED
        BY <2>1, <2>2, <2>4
<1> HIDE DEF last, s, new
\* A late answer is dropped.
<1>6. CASE s # <<>> /\ times[n] <= Last(s).time
    <2>1. StoreFeedback(fb, times[n], n) = fb
        BY <1>6 DEF StoreFeedback, s
    <2>2. n <= last
        <3>1. last \in past + 1..N /\ times[n] <= times[last] /\ last \in Int /\ times[last] \in Int
            BY <1>2, <1>5, <1>6
        <3>2. last < n => times[last] < times[n]
            BY <3>1 DEF TimesAscend
        <3> QED
            BY <1>2, <3>1, <3>2
    <2>3. Recorded(ans, n) = ans
        <3>1. ~(last < n)
            BY <1>2, <1>5, <1>6, <2>2
        <3> QED
            BY <1>5, <1>6, <3>1 DEF Recorded
    <2> QED
        BY <2>1, <2>3
<1>7. CASE ~(s # <<>> /\ times[n] <= Last(s).time)
    <2>1. StoreFeedback(fb, times[n], n) = [samples |-> s2, value |-> fb.value]
        <3>1. ~(fb.samples # <<>> /\ times[n] <= Last(fb.samples).time)
            BY <1>7 DEF s
        <3>2. StoreFeedback(fb, times[n], n) = [fb EXCEPT !.samples = s2]
            BY <3>1 DEF StoreFeedback, s, new
        <3> QED
            BY <1>1, <3>2
    <2>2. new \in FiledActions /\ new.time = times[n] /\ new.action = n
        BY <1>2 DEF FiledActions, new
    <2>3. /\ s2 \in Seq(FiledActions) /\ Len(s2) = Len(s) + 1 /\ s2[Len(s) + 1] = new
          /\ \A j \in 1..Len(s) : s2[j] = s[j] /\ j \in 1..Len(s2)
          /\ Len(s) + 1 \in 1..Len(s2)
        BY <1>3, <2>2
    <2>4. \A j \in 1..Len(s2) : j \in 1..Len(s) \/ j = Len(s) + 1
        BY <1>3, <2>3
    <2> HIDE DEF s2
    <2>5. \A m \in ans : m < n
        <3>1. CASE s = <<>>
            BY <1>3, <3>1
        <3>2. CASE s # <<>>
            <4>1. /\ last \in past + 1..N /\ last \in Int /\ times[last] \in Int
                  /\ ~(times[n] <= times[last])
                BY <1>2, <1>5, <1>7, <3>2
            <4>2. n < last => times[n] < times[last]
                BY <4>1 DEF TimesAscend
            <4>3. last < n
                BY <1>2, <4>1, <4>2
            <4> QED
                BY <1>2, <1>5, <3>2, <4>1, <4>3
        <3> QED
            BY <3>1, <3>2
    <2>6. Recorded(ans, n) = ans \cup {n}
        BY <2>5 DEF Recorded
    <2> DEFINE ans2 == ans \cup {n}
    <2>7. ans2 \subseteq past + 1..N
        BY <1>1
    <2>8. \A j \in 1..Len(s2) : s2[j].action \in ans2 /\ s2[j].time = times[s2[j].action]
        BY <1>4, <2>2, <2>3, <2>4
    <2>9. ASSUME NEW i \in 1..Len(s2), NEW j \in 1..Len(s2), i < j
          PROVE  s2[i].action < s2[j].action
        <3>1. i \in 1..Len(s)
            BY <1>3, <2>3, <2>4, <2>9
        <3>2. CASE j \in 1..Len(s)
            BY <1>4, <2>3, <2>9, <3>1, <3>2
        <3>3. CASE j = Len(s) + 1
            BY <1>4, <2>2, <2>3, <2>5, <3>1, <3>3
        <3> QED
            BY <2>4, <3>2, <3>3
    <2>10. ASSUME NEW m \in ans2
           PROVE  m < s2[1].action \/ \E j \in 1..Len(s2) : s2[j].action = m
        <3>1. CASE m = n
            BY <2>2, <2>3, <3>1
        <3>2. CASE m \in ans /\ \E j \in 1..Len(s) : s[j].action = m
            BY <2>3, <3>2
        <3>3. CASE m \in ans /\ m < s[1].action
            <4>1. s # <<>>
                BY <1>3, <3>3
            <4>2. s2[1] = s[1]
                BY <1>5, <2>3, <4>1
            <4> QED
                BY <3>3, <4>2
        <3> QED
            BY <1>4, <3>1, <3>2, <3>3
    <2>11. s2 # <<>>
        BY <2>3
    <2>12. FilesAnswers(s2, times, ans2)
        BY <2>3, <2>8, <2>9, <2>10, <2>11 DEF FilesAnswers
    <2> DEFINE fb2 == [samples |-> s2, value |-> fb.value]
    <2>13. FeedbackDue(fb2, times, ans2)
        <3>1. CASE /\ fb.value = 0
                   /\ \A m \in ans : \E j \in 1..Len(s) : s[j].action = m
            <4>1. \A m \in ans2 : \E j \in 1..Len(s2) : s2[j].action = m
                <5> SUFFICES ASSUME NEW m \in ans2
                             PROVE  \E j \in 1..Len(s2) : s2[j].action = m
                    OBVIOUS
                <5>1. CASE m = n
                    BY <2>2, <2>3, <5>1
                <5>2. CASE m \in ans
                    <6>1. PICK j \in 1..Len(s) : s[j].action = m
                        BY <3>1, <5>2
                    <6> QED
                        BY <2>3, <6>1
                <5> QED
                    BY <5>1, <5>2
            <4> QED
                BY <3>1, <4>1 DEF FeedbackDue
        <3>2. CASE s # <<>> /\ s[1].time <= times[N] - HistoryPeriod
            <4>1. s2[1] = s[1]
                BY <1>5, <2>3, <3>2
            <4> QED
                BY <2>11, <3>2, <4>1 DEF FeedbackDue
        <3>3. \/ fb.value = 0 /\ \A m \in ans : \E j \in 1..Len(s) : s[j].action = m
              \/ s # <<>> /\ s[1].time <= times[N] - HistoryPeriod
            BY <1>1 DEF FeedbackDue, s
        <3> QED
            BY <3>1, <3>2, <3>3
    <2> HIDE DEF ans2
    <2>14. FeedbackHolds(fb2, times, past, ans2)
        BY <1>1, <2>7, <2>12, <2>13 DEF FeedbackHolds
    <2> QED
        BY <2>1, <2>6, <2>14 DEF ans2
<1> QED
    BY <1>6, <1>7

----------------------------------------------------------------------------
(* The invariant: what the runtime state says of the log.                              *)

\* The observation the feedback was last filed for has been recorded, or a later one.
CreditHolds(credited, ans) ==
    credited \in Nat /\ (credited # 0 => \E m \in ans : m >= credited)

FeedbackInMode(fb, times, past, ans, flat) ==
    IF flat THEN FlatFeedback(fb) ELSE FeedbackHolds(fb, times, past, ans)

RuntimeHolds(r, times, past, done, ans, flat) ==
    /\ CadenceHolds(r.timeline, times, past)
    /\ HistoryHolds(r.history, r.timeline, times, past + 1)
    /\ ans \subseteq past + 1..Len(times)
    /\ r.last_actions \in Int
    /\ CreditHolds(r.last_feedback_obs_seq, ans)
    /\ HistoryPeriod = 0 => r.last_actions = done
    /\ HistoryPeriod # 0 => FeedbackInMode(r.feedback, times, past, ans, flat)

LogInv ==
    /\ RuntimeHolds(runtime, published, disowned, executed, answered, last_flat_hold)
    /\ executed \in Int
    /\ ~last_enabled => executed = 0

LEMMA EmptyFeedbackHolds ==
    ASSUME NEW times \in Seq(Int), NEW past, NEW flat
    PROVE  FeedbackInMode(EmptyFeedback, times, past, {}, flat)
<1>1. FlatFeedback(EmptyFeedback)
    BY DEF FlatFeedback, EmptyFeedback
<1>2. FeedbackHolds(EmptyFeedback, times, past, {})
    BY DEF FeedbackHolds, FilesAnswers, FeedbackDue, EmptyFeedback
<1> QED
    BY <1>1, <1>2 DEF FeedbackInMode

LEMMA ResetHolds ==
    ASSUME NEW r, NEW times \in Seq(Int), NEW flat
    PROVE  RuntimeHolds(ResetRuntime(r), times, Len(times), 0, {}, flat)
<1> DEFINE new == ResetRuntime(r)
<1>1. /\ new.timeline = ResetTimeline(r.timeline) /\ new.history = EmptyHistory
      /\ new.feedback = EmptyFeedback /\ new.last_actions = 0 /\ new.last_feedback_obs_seq = 0
    BY DEF ResetRuntime, NewRuntime
<1> HIDE DEF new
<1>2. CadenceHolds(new.timeline, times, Len(times))
    <2>1. ~new.timeline.started
        BY <1>1 DEF ResetTimeline
    <2>2. TimesAscend(times, Len(times))
        BY DEF TimesAscend
    <2> QED
        BY <2>1, <2>2 DEF CadenceHolds
<1>3. HistoryHolds(new.history, new.timeline, times, Len(times) + 1)
    BY <1>1 DEF HistoryHolds, ResetTimeline, IsHistory, EmptyHistory
<1>4. CreditHolds(0, {})
    BY DEF CreditHolds
<1> QED
    BY <1>1, <1>2, <1>3, <1>4, EmptyFeedbackHolds DEF RuntimeHolds, new

LEMMA DisabledFields ==
    ASSUME NEW r, IsRuntime(r)
    PROVE  LET new == [r EXCEPT !.last_actions = 0, !.written = 0, !.history = EmptyHistory]
           IN  /\ new.last_actions = 0 /\ new.history = EmptyHistory
               /\ new.timeline = r.timeline /\ new.feedback = r.feedback
               /\ new.last_feedback_obs_seq = r.last_feedback_obs_seq
<1> DEFINE r1 == [r EXCEPT !.last_actions = 0]
           r2 == [r1 EXCEPT !.written = 0]
           r3 == [r2 EXCEPT !.history = EmptyHistory]
<1>1. [r EXCEPT !.last_actions = 0, !.written = 0, !.history = EmptyHistory] = r3
    OBVIOUS
<1>2. /\ IsRuntime(r1) /\ r1.last_actions = 0 /\ r1.timeline = r.timeline
      /\ r1.feedback = r.feedback /\ r1.last_feedback_obs_seq = r.last_feedback_obs_seq
    BY DEF IsRuntime
<1> HIDE DEF r1
<1>3. /\ IsRuntime(r2) /\ r2.last_actions = 0 /\ r2.timeline = r.timeline
      /\ r2.feedback = r.feedback /\ r2.last_feedback_obs_seq = r.last_feedback_obs_seq
    BY <1>2 DEF IsRuntime
<1> HIDE DEF r2
<1>4. /\ r3.last_actions = 0 /\ r3.history = EmptyHistory /\ r3.timeline = r.timeline
      /\ r3.feedback = r.feedback /\ r3.last_feedback_obs_seq = r.last_feedback_obs_seq
    BY <1>3 DEF IsRuntime
<1> HIDE DEF r3
<1> QED
    BY <1>1, <1>4

LEMMA PreparedHolds ==
    ASSUME BridgeInv, LogInv, NEW e, NEW f, NEW r, KeepOrGiveUp(e, f, r)
    PROVE  /\ RuntimeHolds(Prepared(e, f, r), published, disowned', executed', answered', FlatHold(f))
           /\ executed' \in Int
           /\ ~Enabled(e) => executed' = 0
<1> DEFINE kept == IF ResetRequested(r) \/ ModeChanged(e, f) THEN ResetRuntime(runtime)
                                                             ELSE runtime
           new == Prepared(e, f, r)
<1>1. published \in Seq(Int) /\ IsRuntime(runtime)
    BY BridgeAssumption DEF BridgeInv, ControlTypeOK
<1>2. /\ RuntimeHolds(kept, published, disowned', executed', answered', FlatHold(f))
      /\ executed' \in Int
      /\ ~Enabled(e) => executed' = 0
      /\ IsRuntime(kept)
    <2>1. CASE ResetRequested(r) \/ ModeChanged(e, f)
        <3>1. /\ kept = ResetRuntime(runtime)
              /\ disowned' = Len(published) /\ executed' = 0 /\ answered' = {}
            BY <2>1 DEF KeepOrGiveUp, GiveUp
        <3> HIDE DEF kept
        <3> QED
            BY <1>1, <3>1, ResetHolds, ResetRuntimeIs
    <2>2. CASE ~(ResetRequested(r) \/ ModeChanged(e, f))
        <3>1. /\ kept = runtime
              /\ disowned' = disowned /\ executed' = executed /\ answered' = answered
              /\ Enabled(e) = last_enabled /\ FlatHold(f) = last_flat_hold
            BY <2>2 DEF KeepOrGiveUp, ModeChanged
        <3> HIDE DEF kept
        <3> QED
            BY <1>1, <3>1 DEF LogInv
    <2> QED
        BY <2>1, <2>2
<1>3. Prepared(e, f, r) =
        IF Enabled(e) THEN kept
        ELSE [kept EXCEPT !.last_actions = 0, !.written = 0, !.history = EmptyHistory]
    BY DEF Prepared
<1> HIDE DEF kept, new
<1>4. CASE Enabled(e)
    BY <1>2, <1>3, <1>4
<1>5. CASE ~Enabled(e)
    <2>1. new = [kept EXCEPT !.last_actions = 0, !.written = 0, !.history = EmptyHistory]
        BY <1>3, <1>5 DEF new
    <2>2. /\ new.last_actions = 0 /\ new.history = EmptyHistory
          /\ new.timeline = kept.timeline /\ new.feedback = kept.feedback
          /\ new.last_feedback_obs_seq = kept.last_feedback_obs_seq
        BY <1>2, <2>1, DisabledFields
    <2>3. ~new.timeline.started
        BY <1>5, PreparedMatches DEF new
    <2>4. HistoryHolds(new.history, new.timeline, published, disowned' + 1)
        BY <2>2, <2>3 DEF HistoryHolds, IsHistory, EmptyHistory
    <2>5. RuntimeHolds(new, published, disowned', executed', answered', FlatHold(f))
        BY <1>2, <1>5, <2>2, <2>4 DEF RuntimeHolds
    <2> QED
        BY <1>2, <2>5 DEF new
<1> QED
    BY <1>4, <1>5

----------------------------------------------------------------------------
(* Publishing. *)

LEMMA PublishedFields ==
    ASSUME NEW r, IsRuntime(r), NEW t
    PROVE  LET new == Published(r, t)
           IN  /\ new.timeline = PublishFrame(r.timeline, t, PubPeriod)
               /\ new.history =
                    AppendFrame(r.history, Frame(r.timeline.sequence + 1, r.last_actions), t)
               /\ new.last_actions = r.last_actions /\ new.feedback = r.feedback
               /\ new.last_feedback_obs_seq = r.last_feedback_obs_seq
<1> DEFINE h == AppendFrame(r.history, Frame(r.timeline.sequence + 1, r.last_actions), t)
           p == PublishFrame(r.timeline, t, PubPeriod)
           r1 == [r EXCEPT !.history = h]
           r2 == [r1 EXCEPT !.timeline = p]
<1>1. Published(r, t) = r2
    BY DEF Published
<1> HIDE DEF h, p
<1>2. /\ IsRuntime(r1) /\ r1.history = h /\ r1.last_actions = r.last_actions
      /\ r1.feedback = r.feedback /\ r1.last_feedback_obs_seq = r.last_feedback_obs_seq
    BY DEF IsRuntime
<1> HIDE DEF r1
<1>3. /\ r2.timeline = p /\ r2.history = h /\ r2.last_actions = r.last_actions
      /\ r2.feedback = r.feedback /\ r2.last_feedback_obs_seq = r.last_feedback_obs_seq
    BY <1>2 DEF IsRuntime
<1> HIDE DEF r2
<1> QED
    BY <1>1, <1>3 DEF h, p

LEMMA WithFeedbackFields ==
    ASSUME NEW r, IsRuntime(r), NEW t
    PROVE  LET new == WithFeedback(r, t)
               fb == SampleFeedback(r.feedback, t, HistoryPeriod)
           IN  /\ IsRuntime(new) /\ new.timeline = r.timeline /\ new.history = r.history
               /\ new.last_feedback_obs_seq = r.last_feedback_obs_seq
               /\ HistoryPeriod = 0 => new = r
               /\ HistoryPeriod # 0 => new.feedback = fb /\ new.last_actions = fb.value
<1> DEFINE fb == SampleFeedback(r.feedback, t, HistoryPeriod)
           r1 == [r EXCEPT !.feedback = fb]
           r2 == [r1 EXCEPT !.last_actions = fb.value]
<1>1. CASE HistoryPeriod = 0
    BY <1>1 DEF WithFeedback
<1>2. CASE HistoryPeriod # 0
    <2>1. WithFeedback(r, t) = r2
        BY <1>2 DEF WithFeedback
    <2> HIDE DEF fb
    <2>2. /\ IsRuntime(r1) /\ r1.timeline = r.timeline /\ r1.history = r.history
          /\ r1.last_feedback_obs_seq = r.last_feedback_obs_seq /\ r1.feedback = fb
        BY DEF IsRuntime
    <2> HIDE DEF r1
    <2>3. /\ IsRuntime(r2) /\ r2.timeline = r.timeline /\ r2.history = r.history
          /\ r2.last_feedback_obs_seq = r.last_feedback_obs_seq /\ r2.feedback = fb
          /\ r2.last_actions = fb.value
        BY <2>2 DEF IsRuntime
    <2> HIDE DEF r2
    <2> QED
        BY <1>2, <2>1, <2>3 DEF fb
<1> QED
    BY <1>1, <1>2

\* What the previous action of an observation taken at t must be.
PreviousAction(done, ans, flat, times, t) ==
    IF HistoryPeriod = 0 THEN done
    ELSE IF flat THEN 0
    ELSE Max(DueAnswers(ans, times, t - HistoryPeriod))

\* Sampling the feedback keeps what the runtime says, but for the log it says it of.
LEMMA FeedbackReady ==
    ASSUME NEW r, IsRuntime(r), NEW times \in Seq(Int), NEW past \in 0..Len(times),
           NEW done \in Int, NEW ans, NEW flat \in BOOLEAN,
           RuntimeHolds(r, times, past, done, ans, flat),
           NEW t \in Int, past < Len(times) => t > times[Len(times)]
    PROVE  LET new == WithFeedback(r, t)
           IN  /\ new.last_actions \in Int
               /\ new.last_actions = PreviousAction(done, ans, flat, Append(times, t), t)
               /\ HistoryPeriod # 0 =>
                    FeedbackInMode(new.feedback, Append(times, t), past, ans, flat)
<1> DEFINE new == WithFeedback(r, t)
           fb == SampleFeedback(r.feedback, t, HistoryPeriod)
           log == Append(times, t)
<1>1. /\ HistoryPeriod = 0 => new = r
      /\ HistoryPeriod # 0 => new.feedback = fb /\ new.last_actions = fb.value
    BY WithFeedbackFields
<1>2. /\ TimesAscend(times, past)
      /\ r.last_actions \in Int
      /\ HistoryPeriod = 0 => r.last_actions = done
      /\ HistoryPeriod # 0 => FeedbackInMode(r.feedback, times, past, ans, flat)
    BY DEF RuntimeHolds, CadenceHolds
<1> HIDE DEF new
<1>3. CASE HistoryPeriod = 0
    BY <1>1, <1>2, <1>3 DEF PreviousAction, new
<1>4. CASE HistoryPeriod # 0 /\ flat
    <2>1. FlatFeedback(fb) /\ fb.value = 0
        BY <1>2, <1>4, FlatSampled DEF FeedbackInMode
    <2> HIDE DEF fb
    <2> QED
        BY <1>1, <1>4, <2>1 DEF PreviousAction, FeedbackInMode, new
<1>5. CASE HistoryPeriod # 0 /\ ~flat
    <2>1. FeedbackHolds(r.feedback, times, past, ans)
        BY <1>2, <1>5 DEF FeedbackInMode
    <2>2. /\ FeedbackHolds(fb, log, past, ans)
          /\ fb.value = Max(DueAnswers(ans, log, t - HistoryPeriod))
        BY <1>2, <2>1, FeedbackSampled
    <2>3. fb.value \in Int
        BY <2>2 DEF FeedbackHolds
    <2> HIDE DEF fb, log
    <2> QED
        BY <1>1, <1>5, <2>2, <2>3 DEF PreviousAction, FeedbackInMode, new, log
<1> QED
    BY <1>3, <1>4, <1>5

\* What the runtime holds when an observation is published.
ShowsTheLog(r, times, past, done, ans, flat, t) ==
    /\ WindowIsRight(r.history.values, times, past + 1)
    /\ r.history.values[HistoryLength].last_action = PreviousAction(done, ans, flat, times, t)

LEMMA PublishedHolds ==
    ASSUME PubPeriod # 0, NEW r, IsRuntime(r), r.timeline \in Timelines,
           NEW times \in Seq(Int), NEW past \in 0..Len(times),
           TimelineMatches(r.timeline, times, past),
           NEW done \in Int, NEW ans, NEW flat \in BOOLEAN,
           RuntimeHolds(r, times, past, done, ans, flat),
           NEW t \in Int, Due(r.timeline, t, PubPeriod)
    PROVE  LET new == Published(WithFeedback(r, t), t)
           IN  /\ RuntimeHolds(new, Append(times, t), past, done, ans, flat)
               /\ ShowsTheLog(new, Append(times, t), past, done, ans, flat, t)
<1> DEFINE N == Len(times)
           log == Append(times, t)
           shown == WithFeedback(r, t)
           new == Published(shown, t)
           frame == Frame(r.timeline.sequence + 1, shown.last_actions)
           first == past + 1
<1>1. N \in Nat /\ Len(log) = N + 1 /\ past \in Nat /\ past <= N
    OBVIOUS
<1>2. PubPeriod \in Nat /\ PubPeriod > 0
    BY BridgeAssumption
<1>3. /\ r.timeline.sequence = N /\ r.timeline.started \in BOOLEAN
      /\ r.timeline.started => past < N /\ r.timeline.current = times[N]
      /\ ~r.timeline.started => past = N
      /\ r.timeline.started => OnGrid(r.timeline, times, past)
      /\ r.timeline.scheduled \in Int /\ r.timeline.current \in Int
    BY DEF TimelineMatches, Timelines, RuntimeHolds, CadenceHolds
<1>4. past < N => t > times[N]
    <2>1. SUFFICES ASSUME r.timeline.started PROVE t > times[N]
        BY <1>1, <1>3
    <2>2. t - r.timeline.scheduled >= PubPeriod
        BY <2>1 DEF Due
    <2>3. r.timeline.current < r.timeline.scheduled + PubPeriod
        BY <1>3, <2>1 DEF OnGrid
    <2> QED
        BY <1>2, <1>3, <2>1, <2>2, <2>3
<1>5. /\ shown.timeline = r.timeline /\ shown.history = r.history /\ IsRuntime(shown)
      /\ shown.last_feedback_obs_seq = r.last_feedback_obs_seq
      /\ HistoryPeriod = 0 => shown = r
    BY WithFeedbackFields
<1>6. /\ shown.last_actions \in Int
      /\ shown.last_actions = PreviousAction(done, ans, flat, log, t)
      /\ HistoryPeriod # 0 => FeedbackInMode(shown.feedback, log, past, ans, flat)
    BY <1>4, FeedbackReady
<1> HIDE DEF shown
<1>7. /\ new.timeline = PublishFrame(r.timeline, t, PubPeriod)
      /\ new.history = AppendFrame(r.history, frame, t)
      /\ new.last_actions = shown.last_actions /\ new.feedback = shown.feedback
      /\ new.last_feedback_obs_seq = r.last_feedback_obs_seq
    BY <1>5, PublishedFields
<1>8. frame \in Frames /\ frame.seq = Len(times) + 1 /\ frame.last_action = shown.last_actions
    BY <1>1, <1>3, <1>6 DEF Frames, Frame
<1> HIDE DEF new, frame
<1>9. CadenceHolds(new.timeline, log, past)
    <2>1. CadenceHolds(r.timeline, times, past)
        BY DEF RuntimeHolds
    <2> QED
        BY <1>2, <1>7, <2>1, CadenceAppend
<1>10. /\ IsHistory(new.history)
       /\ IF HistoryPeriod = 0 THEN ShiftHolds(new.history, log, first)
                               ELSE SamplesHold(new.history.samples, log, first)
       /\ WindowIsRight(new.history.values, log, first)
       /\ new.history.values[HistoryLength] = frame
    <2>1. /\ IsHistory(r.history)
          /\ ~r.timeline.started => r.history = EmptyHistory
          /\ r.timeline.started => IF HistoryPeriod = 0 THEN ShiftHolds(r.history, times, first)
                                   ELSE SamplesHold(r.history.samples, times, first)
        BY DEF RuntimeHolds, HistoryHolds
    <2>2. first \in 1..Len(times) + 1
        BY <1>1
    <2>3. ~r.timeline.started => first = Len(times) + 1
        BY <1>1, <1>3
    <2>4. r.timeline.started => first <= Len(times) /\ t > times[Len(times)]
        BY <1>1, <1>3, <1>4
    <2> HIDE DEF first, log
    <2>5. CASE HistoryPeriod = 0
        <3>1. \/ r.history = EmptyHistory /\ first = Len(times) + 1
              \/ ShiftHolds(r.history, times, first) /\ first <= Len(times)
            BY <1>3, <2>1, <2>3, <2>4, <2>5
        <3> QED
            BY <1>7, <1>8, <2>1, <2>2, <2>5, <3>1, ShiftAppend DEF log
    <2>6. CASE HistoryPeriod # 0
        <3>1. \/ r.history = EmptyHistory /\ first = Len(times) + 1
              \/ /\ SamplesHold(r.history.samples, times, first)
                 /\ first <= Len(times) /\ t > times[Len(times)]
            BY <1>3, <2>1, <2>3, <2>4, <2>6
        <3> QED
            BY <1>7, <1>8, <2>1, <2>2, <2>6, <3>1, SampleAppend DEF log
    <2> QED
        BY <2>5, <2>6
<1>11. HistoryHolds(new.history, new.timeline, log, first)
    <2>1. new.timeline.started = TRUE
        BY <1>7 DEF PublishFrame
    <2> QED
        BY <1>10, <2>1 DEF HistoryHolds
<1>12. ans \subseteq past + 1..Len(log)
    <2>1. ans \subseteq past + 1..Len(times)
        BY DEF RuntimeHolds
    <2> QED
        BY <1>1, <2>1
<1>13. CreditHolds(new.last_feedback_obs_seq, ans) /\ (HistoryPeriod = 0 => r.last_actions = done)
    BY <1>7 DEF RuntimeHolds
<1>14. RuntimeHolds(new, log, past, done, ans, flat)
    BY <1>5, <1>6, <1>7, <1>9, <1>11, <1>12, <1>13 DEF RuntimeHolds
<1>15. ShowsTheLog(new, log, past, done, ans, flat, t)
    BY <1>6, <1>8, <1>10 DEF ShowsTheLog
<1> QED
    BY <1>14, <1>15 DEF new, shown

----------------------------------------------------------------------------
(* The steps. *)

LEMMA InitLogInv == Init => LogInv
<1> SUFFICES ASSUME Init PROVE LogInv
    OBVIOUS
<1>1. /\ runtime = NewRuntime /\ published = <<>> /\ disowned = 0 /\ executed = 0
      /\ answered = {}
    BY DEF Init
<1>2. NewRuntime = ResetRuntime(NewRuntime)
    <2>1. ResetTimeline(NewTimeline) = NewTimeline /\ NewRuntime.timeline = NewTimeline
        BY DEF ResetTimeline, NewTimeline, NewRuntime
    <2>2. ResetRuntime(NewRuntime) = [NewRuntime EXCEPT !.timeline = NewTimeline]
        BY <2>1 DEF ResetRuntime
    <2> QED
        BY <2>2 DEF NewRuntime
<1>3. RuntimeHolds(ResetRuntime(NewRuntime), <<>>, Len(<<>>), 0, {}, last_flat_hold)
    <2>1. <<>> \in Seq(Int)
        OBVIOUS
    <2> QED
        BY <2>1, ResetHolds
<1>4. Len(<<>>) = 0
    OBVIOUS
<1> QED
    BY <1>1, <1>2, <1>3, <1>4 DEF LogInv

LEMMA SkipKeepsLog ==
    ASSUME BridgeInv, LogInv, NEW t, NEW e, NEW f, NEW r, SkipObservation(t, e, f, r)
    PROVE  LogInv'
<1>1. /\ KeepOrGiveUp(e, f, r) /\ runtime' = Prepared(e, f, r) /\ published' = published
      /\ last_enabled' = Enabled(e) /\ last_flat_hold' = FlatHold(f)
    BY DEF SkipObservation, LatchInputs
<1>2. /\ RuntimeHolds(Prepared(e, f, r), published, disowned', executed', answered', FlatHold(f))
      /\ executed' \in Int
      /\ ~Enabled(e) => executed' = 0
    BY <1>1, PreparedHolds
<1> QED
    BY <1>1, <1>2 DEF LogInv

LEMMA PublishKeepsLog ==
    ASSUME PubPeriod # 0, BridgeInv, LogInv, NEW t \in now..now + MaxStep,
           NEW e, NEW f, NEW r, PublishObservation(t, e, f, r)
    PROVE  /\ LogInv'
           /\ ShowsTheLog(runtime', published', disowned', executed', answered',
                          last_flat_hold', now')
<1> DEFINE ready == Prepared(e, f, r)
<1>1. /\ KeepOrGiveUp(e, f, r) /\ runtime' = Published(WithFeedback(ready, t), t)
      /\ published' = Append(published, t)
      /\ last_enabled' = Enabled(e) /\ last_flat_hold' = FlatHold(f) /\ now' = t
      /\ Enabled(e) /\ Due(ready.timeline, t, PubPeriod)
    BY DEF PublishObservation, MayPublish, LatchInputs
<1>2. /\ RuntimeHolds(ready, published, disowned', executed', answered', FlatHold(f))
      /\ executed' \in Int
    BY <1>1, PreparedHolds
<1>3. /\ IsRuntime(ready) /\ ready.timeline \in Timelines
      /\ TimelineMatches(ready.timeline, published, disowned')
      /\ disowned' = Len(published) \/ disowned' = disowned
    BY <1>1, PreparedMatches
<1>4. /\ published \in Seq(Int) /\ disowned' \in 0..Len(published) /\ t \in Int
    BY <1>3, BridgeAssumption DEF BridgeInv, ControlTypeOK
<1>5. FlatHold(f) \in BOOLEAN
    BY DEF FlatHold
<1> HIDE DEF ready
<1> DEFINE new == Published(WithFeedback(ready, t), t)
<1>6. /\ RuntimeHolds(new, Append(published, t), disowned', executed', answered', FlatHold(f))
      /\ ShowsTheLog(new, Append(published, t), disowned', executed', answered', FlatHold(f), t)
    BY <1>1, <1>2, <1>3, <1>4, <1>5, PublishedHolds
<1> HIDE DEF new
<1>7. runtime' = new
    BY <1>1 DEF new
<1> QED
    BY <1>1, <1>2, <1>6, <1>7 DEF LogInv

LEMMA RejectKeepsLog ==
    ASSUME BridgeInv, NEW t, NEW e, NEW f, NEW r, RejectObservation(t, e, f, r)
    PROVE  LogInv'
<1>1. /\ runtime' = ResetRuntime(Prepared(e, f, r)) /\ published' = published
      /\ disowned' = Len(published) /\ executed' = 0 /\ answered' = {}
    BY DEF RejectObservation, GiveUp
<1>2. published \in Seq(Int)
    BY BridgeAssumption DEF BridgeInv, ControlTypeOK
<1> QED
    BY <1>1, <1>2, ResetHolds DEF LogInv

LEMMA WithholdKeepsLog ==
    ASSUME BridgeInv, LogInv, NEW busy, Withhold(busy)
    PROVE  LogInv'
<1>1. CASE last_valid
    <2>1. /\ runtime' = ResetRuntime(runtime) /\ published' = published
          /\ disowned' = Len(published) /\ executed' = 0 /\ answered' = {}
        BY <1>1 DEF Withhold, GiveUp
    <2>2. published \in Seq(Int)
        BY BridgeAssumption DEF BridgeInv, ControlTypeOK
    <2> QED
        BY <2>1, <2>2, ResetHolds DEF LogInv
<1>2. CASE ~last_valid
    <2>1. UNCHANGED <<runtime, published, disowned, executed, answered, last_flat_hold, last_enabled>>
        BY <1>2 DEF Withhold
    <2> QED
        BY <2>1 DEF LogInv
<1> QED
    BY <1>1, <1>2

LEMMA WithWrittenFields ==
    ASSUME NEW r, IsRuntime(r), NEW w
    PROVE  LET new == [r EXCEPT !.written = w]
           IN  /\ IsRuntime(new) /\ new.timeline = r.timeline /\ new.history = r.history
               /\ new.feedback = r.feedback /\ new.last_actions = r.last_actions
               /\ new.last_feedback_obs_seq = r.last_feedback_obs_seq
BY DEF IsRuntime

LEMMA RememberedFields ==
    ASSUME NEW r, IsRuntime(r), NEW seq, NEW a, NEW age
    PROVE  LET new == Remembered(r, seq, a, age)
           IN  /\ new.timeline = r.timeline /\ new.history = r.history
               /\ HistoryPeriod = 0 =>
                    new.last_actions = a /\ new.last_feedback_obs_seq = r.last_feedback_obs_seq
               /\ HistoryPeriod # 0 => new.last_actions = r.last_actions
               /\ HistoryPeriod # 0 /\ seq = r.last_feedback_obs_seq => new = r
               /\ HistoryPeriod # 0 /\ seq # r.last_feedback_obs_seq =>
                    /\ new.feedback = StoreFeedback(r.feedback, now - age, a)
                    /\ new.last_feedback_obs_seq = seq
<1> DEFINE fb == StoreFeedback(r.feedback, now - age, a)
           r2 == [r EXCEPT !.feedback = fb]
           r3 == [r2 EXCEPT !.last_feedback_obs_seq = seq]
           r4 == [r EXCEPT !.last_actions = a]
           new == Remembered(r, seq, a, age)
<1> HIDE DEF fb
<1>1. /\ IsRuntime(r2) /\ r2.timeline = r.timeline /\ r2.history = r.history
      /\ r2.feedback = fb /\ r2.last_actions = r.last_actions
    BY DEF IsRuntime
<1>2. /\ r4.timeline = r.timeline /\ r4.history = r.history /\ r4.last_actions = a
      /\ r4.last_feedback_obs_seq = r.last_feedback_obs_seq
    BY DEF IsRuntime
<1> HIDE DEF r2, r4
<1>3. /\ r3.timeline = r.timeline /\ r3.history = r.history
      /\ r3.feedback = fb /\ r3.last_actions = r.last_actions /\ r3.last_feedback_obs_seq = seq
    BY <1>1 DEF IsRuntime
<1> HIDE DEF r3
<1>4. CASE HistoryPeriod = 0
    <2>1. new = r4
        BY <1>4 DEF Remembered, r4
    <2> QED
        BY <1>2, <1>4, <2>1
<1>5. CASE HistoryPeriod # 0 /\ seq = r.last_feedback_obs_seq
    BY <1>5 DEF Remembered
<1>6. CASE HistoryPeriod # 0 /\ seq # r.last_feedback_obs_seq
    <2>1. new = r3
        BY <1>6 DEF Remembered, r2, r3, fb
    <2> QED
        BY <1>3, <1>6, <2>1 DEF fb
<1> QED
    BY <1>4, <1>5, <1>6

LEMMA CreditRecorded ==
    ASSUME NEW ans \in SUBSET Int, NEW credited, CreditHolds(credited, ans), NEW n \in Nat, n > 0
    PROVE  /\ CreditHolds(credited, Recorded(ans, n))
           /\ CreditHolds(n, Recorded(ans, n))
           /\ n = credited => Recorded(ans, n) = ans
<1>1. CASE \A m \in ans : m < n
    <2>1. Recorded(ans, n) = ans \cup {n} /\ n # credited
        BY <1>1 DEF Recorded, CreditHolds
    <2> QED
        BY <2>1 DEF CreditHolds
<1>2. CASE ~(\A m \in ans : m < n)
    <2>1. Recorded(ans, n) = ans
        BY <1>2 DEF Recorded
    <2>2. PICK m \in ans : ~(m < n)
        BY <1>2
    <2> QED
        BY <2>1, <2>2 DEF CreditHolds
<1> QED
    BY <1>1, <1>2

LEMMA DriveKeepsLog ==
    ASSUME BridgeInv, LogInv, NEW busy \in BOOLEAN, Drive(busy)
    PROVE  LogInv'
<1> DEFINE n == Snapshot(busy).obs_seq
           a == IF last_flat_hold THEN 0 ELSE Snapshot(busy).action
           written == [runtime EXCEPT !.written = Command(a)]
           new == Remembered(written, n, a, Age(busy))
           ans == Recorded(answered, n)
<1>1. last_enabled /\ Finite(busy) /\ Age(busy) # NaN
    BY DEF Drive, Valid, Fresh
<1>2. /\ runtime' = new /\ executed' = a /\ answered' = ans
      /\ UNCHANGED <<last_enabled, last_flat_hold, published, disowned>>
    BY DEF Drive, Recorded
<1>3. /\ HasSnapshot(busy) /\ n \in DOMAIN published /\ n > disowned
      /\ Age(busy) = now - published[n]
    BY <1>1, FreshMeans
<1>4. /\ published \in Seq(Int) /\ disowned \in 0..Len(published) /\ now \in Int
      /\ IsRuntime(runtime) /\ last_flat_hold \in BOOLEAN
    BY BridgeAssumption DEF BridgeInv, ControlTypeOK
<1>5. n \in disowned + 1..Len(published) /\ n \in Nat /\ n > 0 /\ published[n] \in Int
    BY <1>3, <1>4
<1>6. a \in Int /\ (last_flat_hold => a = 0) /\ (~last_flat_hold => a = n)
    <2>1. Snapshot(busy).action = n \/ (Snapshot(busy).action = 0 /\ last_flat_hold)
        BY <1>1, <1>3, <1>4, <1>5, SnapshotIs DEF Finite
    <2> QED
        BY <1>5, <2>1
<1>7. now - Age(busy) = published[n]
    BY <1>3, <1>4, <1>5
<1> HIDE DEF a, n
<1>8. /\ new.timeline = runtime.timeline /\ new.history = runtime.history
      /\ HistoryPeriod = 0 =>
            new.last_actions = a /\ new.last_feedback_obs_seq = runtime.last_feedback_obs_seq
      /\ HistoryPeriod # 0 => new.last_actions = runtime.last_actions
      /\ HistoryPeriod # 0 /\ n = runtime.last_feedback_obs_seq =>
            /\ new.feedback = runtime.feedback
            /\ new.last_feedback_obs_seq = runtime.last_feedback_obs_seq
      /\ HistoryPeriod # 0 /\ n # runtime.last_feedback_obs_seq =>
            /\ new.feedback = StoreFeedback(runtime.feedback, published[n], a)
            /\ new.last_feedback_obs_seq = n
    <2>1. /\ IsRuntime(written) /\ written.timeline = runtime.timeline
          /\ written.history = runtime.history /\ written.feedback = runtime.feedback
          /\ written.last_actions = runtime.last_actions
          /\ written.last_feedback_obs_seq = runtime.last_feedback_obs_seq
        BY <1>4, WithWrittenFields
    <2> HIDE DEF written
    <2>2. /\ new.timeline = written.timeline /\ new.history = written.history
          /\ HistoryPeriod = 0 =>
                /\ new.last_actions = a
                /\ new.last_feedback_obs_seq = written.last_feedback_obs_seq
          /\ HistoryPeriod # 0 => new.last_actions = written.last_actions
          /\ HistoryPeriod # 0 /\ n = written.last_feedback_obs_seq => new = written
          /\ HistoryPeriod # 0 /\ n # written.last_feedback_obs_seq =>
                /\ new.feedback = StoreFeedback(written.feedback, now - Age(busy), a)
                /\ new.last_feedback_obs_seq = n
        BY <2>1, RememberedFields
    <2> HIDE DEF new
    <2> QED
        BY <1>7, <2>1, <2>2
<1>9. /\ CadenceHolds(runtime.timeline, published, disowned)
      /\ HistoryHolds(runtime.history, runtime.timeline, published, disowned + 1)
      /\ answered \subseteq disowned + 1..Len(published)
      /\ runtime.last_actions \in Int
      /\ CreditHolds(runtime.last_feedback_obs_seq, answered)
      /\ HistoryPeriod # 0 =>
            FeedbackInMode(runtime.feedback, published, disowned, answered, last_flat_hold)
    BY DEF LogInv, RuntimeHolds
<1> HIDE DEF new, ans
<1>10. /\ CreditHolds(runtime.last_feedback_obs_seq, ans) /\ CreditHolds(n, ans)
       /\ n = runtime.last_feedback_obs_seq => ans = answered
    <2>1. answered \in SUBSET Int
        BY <1>4, <1>9
    <2> QED
        BY <1>5, <1>9, <2>1, CreditRecorded DEF ans
<1>11. CreditHolds(new.last_feedback_obs_seq, ans)
    BY <1>8, <1>10
<1>12. new.last_actions \in Int /\ (HistoryPeriod = 0 => new.last_actions = a)
    BY <1>6, <1>8, <1>9
<1>13. ans \subseteq disowned + 1..Len(published)
    BY <1>5, <1>9 DEF ans, Recorded
<1>14. ASSUME HistoryPeriod # 0
       PROVE  FeedbackInMode(new.feedback, published, disowned, ans, last_flat_hold)
    <2>1. CASE n = runtime.last_feedback_obs_seq
        BY <1>8, <1>9, <1>10, <1>14, <2>1
    <2>2. CASE n # runtime.last_feedback_obs_seq
        <3>1. new.feedback = StoreFeedback(runtime.feedback, published[n], a)
            BY <1>8, <1>14, <2>2
        <3>2. CASE last_flat_hold
            <4>1. FlatFeedback(runtime.feedback) /\ a = 0
                BY <1>6, <1>9, <1>14, <3>2 DEF FeedbackInMode
            <4> QED
                BY <1>5, <3>1, <3>2, <4>1, FlatStored DEF FeedbackInMode
        <3>3. CASE ~last_flat_hold
            <4>1. FeedbackHolds(runtime.feedback, published, disowned, answered) /\ a = n
                BY <1>6, <1>9, <1>14, <3>3 DEF FeedbackInMode
            <4>2. TimesAscend(published, disowned)
                BY <1>9 DEF CadenceHolds
            <4>3. FeedbackHolds(StoreFeedback(runtime.feedback, published[n], n),
                                published, disowned, ans)
                BY <1>4, <1>5, <4>1, <4>2, FeedbackStored DEF ans
            <4> QED
                BY <3>1, <3>3, <4>1, <4>3 DEF FeedbackInMode
        <3> QED
            BY <3>2, <3>3
    <2> QED
        BY <2>1, <2>2
<1>15. RuntimeHolds(new, published, disowned, a, ans, last_flat_hold)
    BY <1>8, <1>9, <1>11, <1>12, <1>13, <1>14 DEF RuntimeHolds
<1> QED
    BY <1>1, <1>2, <1>6, <1>15 DEF LogInv

LEMMA NextLogInv ==
    ASSUME PubPeriod # 0, BridgeInv, LogInv, [Next]_vars
    PROVE  LogInv'
<1>1. CASE Observe
    BY <1>1, SkipKeepsLog, PublishKeepsLog, RejectKeepsLog DEF Observe
<1>2. CASE Act
    BY <1>2, DriveKeepsLog, WithholdKeepsLog DEF Act
<1>3. CASE Arrive
    <2>1. UNCHANGED <<runtime, published, disowned, executed, answered, last_flat_hold, last_enabled>>
        BY <1>3 DEF Arrive, Store
    <2> QED
        BY <2>1 DEF LogInv
<1>4. CASE UNCHANGED vars
    BY <1>4 DEF vars, LogInv
<1> QED
    BY <1>1, <1>2, <1>3, <1>4 DEF Next

LEMMA OnlyPublishing ==
    ASSUME PubPeriod # 0, BridgeInv, LogInv, [Next]_vars, published' # published
    PROVE  ShowsTheLog(runtime', published', disowned', executed', answered', last_flat_hold', now')
<1>1. CASE Observe
    BY <1>1, PublishKeepsLog DEF Observe, SkipObservation, RejectObservation
<1>2. CASE Act \/ Arrive \/ UNCHANGED vars
    BY <1>2 DEF Act, Drive, Withhold, Arrive, Store, vars
<1> QED
    BY <1>1, <1>2 DEF Next

\* The state of update() stays tied to the log (rl_bridge.cpp:101-177), when frames are
\* published at a finite rate.
THEOREM LogInvariance == ASSUME PubPeriod # 0 PROVE Spec => []LogInv
<1>1. LogInv /\ BridgeInv /\ [Next]_vars => LogInv'
    BY NextLogInv
<1> QED
    BY <1>1, InitLogInv, BridgeInvariance, PTL DEF Spec

\* The history never gets a frame that is not later than its last, so that
\* ObservationHistory::append() never throws into the control loop.
THEOREM BridgeAppendNeverThrows == ASSUME PubPeriod # 0 PROVE Spec => []AppendNeverThrows
<1>1. ASSUME BridgeInv, LogInv PROVE AppendNeverThrows
    <2> SUFFICES ASSUME NEW t \in now..now + MaxStep, Due(runtime.timeline, t, PubPeriod)
                 PROVE  CanAppend(runtime.history, t)
        BY DEF AppendNeverThrows
    <2> DEFINE h == runtime.history
               tl == runtime.timeline
    <2>1. /\ HistoryHolds(h, tl, published, disowned + 1)
          /\ CadenceHolds(tl, published, disowned)
          /\ TimelineMatches(tl, published, disowned) /\ tl \in Timelines
          /\ published \in Seq(Int) /\ disowned \in Nat /\ t \in Int
        BY <1>1, BridgeAssumption DEF BridgeInv, LogInv, RuntimeHolds, TimelineInv, ControlTypeOK
    <2>2. CASE ~tl.started
        BY <2>1, <2>2 DEF HistoryHolds, EmptyHistory, CanAppend
    <2>3. CASE tl.started /\ HistoryPeriod = 0
        BY <2>3 DEF CanAppend
    <2>4. CASE tl.started /\ HistoryPeriod # 0
        <3>1. SamplesHold(h.samples, published, disowned + 1)
            BY <2>1, <2>4 DEF HistoryHolds
        <3>2. Len(published) > disowned /\ tl.current = published[Len(published)]
            BY <2>1, <2>4 DEF TimelineMatches
        <3>3. Max(RunStarts(published, disowned + 1)) \in disowned + 1..Len(published)
            BY <2>1, <3>2, StartIs
        <3>4. PICK k \in Max(RunStarts(published, disowned + 1))..Len(published) :
                SamplesFrom(h.samples, published, k)
            BY <3>1 DEF SamplesHold
        <3>5. Last(h.samples).time = tl.current
            <4>1. k \in 1..Len(published) /\ k \in Nat
                BY <2>1, <3>3, <3>4
            <4>2. /\ Len(h.samples) = Len(published) - k + 1
                  /\ \A j \in 1..Len(h.samples) : h.samples[j].time = published[k + j - 1]
                BY <3>4 DEF SamplesFrom
            <4>3. Len(h.samples) \in 1..Len(h.samples) /\ k + Len(h.samples) - 1 = Len(published)
                BY <2>1, <4>1, <4>2
            <4> QED
                BY <3>2, <4>2, <4>3 DEF Last
        <3>6. t > tl.current
            <4>1. tl.current < tl.scheduled + PubPeriod /\ t - tl.scheduled >= PubPeriod
                BY <2>1, <2>4 DEF CadenceHolds, OnGrid, Due
            <4> QED
                BY <2>1, <4>1, BridgeAssumption DEF Timelines
        <3> QED
            BY <3>5, <3>6 DEF CanAppend
    <2> QED
        BY <2>2, <2>3, <2>4
<1> QED
    BY <1>1, LogInvariance, BridgeInvariance, PTL

\* A cycle that leaves the control period as it is publishes exactly when its time is in a
\* later slot than the last observation.
LEMMA PublishesInNextSlot ==
    ASSUME PubPeriod # 0, BridgeInv, LogInv, [Next]_vars, phase = "idle", phase' = "act",
           disowned' = disowned, disowned < Len(published)
    PROVE  published' # published <=>
                (now' - published[disowned + 1]) \div PubPeriod
                    > (published[Len(published)] - published[disowned + 1]) \div PubPeriod
<1>1. Observe
    BY DEF Next, Act, Drive, Withhold, Arrive, Store, vars
<1>2. PICK t \in now..now + MaxStep, e \in EnableInputs, f \in FlatHoldInputs, r \in ResetInputs :
        \/ SkipObservation(t, e, f, r)
        \/ PublishObservation(t, e, f, r)
        \/ RejectObservation(t, e, f, r)
    BY <1>1 DEF Observe
<1>3. /\ runtime.timeline \in Timelines /\ TimelineMatches(runtime.timeline, published, disowned)
      /\ CadenceHolds(runtime.timeline, published, disowned)
      /\ ~last_enabled => ~runtime.timeline.started
      /\ published \in Seq(Int) /\ disowned \in 0..Len(published) /\ t \in Int /\ PubPeriod > 0
      /\ Len(published) \in Nat /\ disowned # Len(published)
      /\ IsRuntime(runtime) /\ runtime.written \in Int
    BY BridgeAssumption DEF BridgeInv, LogInv, RuntimeHolds, TimelineInv, ControlTypeOK
<1>4. runtime.timeline.started /\ last_enabled
    BY <1>3 DEF CadenceHolds
<1>5. ~RejectObservation(t, e, f, r) /\ KeepOrGiveUp(e, f, r) /\ now' = t
    BY <1>2, <1>3 DEF RejectObservation, SkipObservation, PublishObservation, GiveUp, LatchInputs
<1>6. ~(ResetRequested(r) \/ ModeChanged(e, f))
    BY <1>3, <1>5 DEF KeepOrGiveUp, GiveUp
<1>7. Enabled(e)
    BY <1>4, <1>6, Zenon DEF ModeChanged
<1>8. MayPublish(t, e, f, r) <=> Due(runtime.timeline, t, PubPeriod)
    BY <1>3, <1>6, <1>7, PreparedIs DEF MayPublish
<1>9. published' # published <=> MayPublish(t, e, f, r)
    <2>1. Append(published, t) # published
        <3>1. Len(Append(published, t)) = Len(published) + 1 /\ Len(published) \in Nat
            BY <1>3
        <3> QED
            BY <3>1
    <2> QED
        BY <1>2, <1>5, <2>1 DEF SkipObservation, PublishObservation
<1> QED
    BY <1>3, <1>4, <1>5, <1>8, <1>9, DueMeansNextSlot

\* However late the cycles come, a control period has one observation for every slot of the
\* grid of its first one in which there is a cycle, and it is that slot's first cycle.
THEOREM BridgeKeepsCadence == ASSUME PubPeriod # 0 PROVE Spec => KeepsCadence
<1> DEFINE Begins == phase = "idle" /\ phase' = "act" /\ disowned' = disowned
                        /\ disowned < Len(published)
           Cadence == published' # published <=>
                        (now' - published[disowned + 1]) \div PubPeriod
                            > (published[Len(published)] - published[disowned + 1]) \div PubPeriod
<1>1. BridgeInv /\ LogInv /\ [Next]_vars => [Begins => Cadence]_vars
    BY PublishesInNextSlot
<1> QED
    BY <1>1, LogInvariance, BridgeInvariance, PTL DEF Spec, KeepsCadence

\* Every window that is published is the one the whole log gives, for every length,
\* sample period and rate.
THEOREM BridgeWindowMatchesLog == ASSUME PubPeriod # 0 PROVE Spec => WindowMatchesLog
<1> DEFINE Right == \A i \in Window :
                        /\ runtime'.history.values[i] # Blank
                        /\ runtime'.history.values[i].seq
                            = WindowSource(i, published', disowned' + 1)
<1>1. ASSUME BridgeInv, LogInv, [Next]_vars, published' # published PROVE Right
    <2>1. WindowIsRight(runtime'.history.values, published', disowned' + 1)
        BY <1>1, OnlyPublishing DEF ShowsTheLog
    <2>2. \A i \in Window : runtime'.history.values[i] \in Frames
        BY <2>1 DEF WindowIsRight
    <2> QED
        BY <2>1, <2>2, FrameAssumption DEF WindowIsRight, Frames
<1>2. BridgeInv /\ LogInv /\ [Next]_vars => [published' # published => Right]_vars
    BY <1>1
<1> QED
    BY <1>2, LogInvariance, BridgeInvariance, PTL DEF Spec, WindowMatchesLog

\* The previous action every observation shows is what was executed, or with resampled
\* frames the latest answer that is old enough, whatever arrived late or twice.
THEOREM BridgeFeedbackIsExecution == ASSUME PubPeriod # 0 PROVE Spec => FeedbackIsExecution
<1> DEFINE Shown == Last(runtime'.history.values).last_action =
                        IF HistoryPeriod = 0 THEN executed'
                        ELSE IF last_flat_hold' THEN 0
                        ELSE Max({0} \cup {m \in answered' : published'[m] <= now' - HistoryPeriod})
<1>1. ASSUME BridgeInv, LogInv, [Next]_vars, published' # published PROVE Shown
    <2>1. ShowsTheLog(runtime', published', disowned', executed', answered', last_flat_hold', now')
        BY <1>1, OnlyPublishing
    <2>2. Last(runtime'.history.values) = runtime'.history.values[HistoryLength]
        <3> DEFINE v == runtime'.history.values
        <3>1. v \in [1..HistoryLength -> Frames] /\ HistoryLength \in Nat
            BY <2>1, HistoryAssumption DEF ShowsTheLog, WindowIsRight, Window
        <3> HIDE DEF v
        <3>2. v \in Seq(Frames)
            BY <3>1, SeqDef
        <3>3. Len(v) \in Nat /\ DOMAIN v = 1..Len(v) /\ DOMAIN v = 1..HistoryLength
            BY <3>1, <3>2, LenProperties
        <3>4. Len(v) = HistoryLength
            BY <3>1, <3>3
        <3> QED
            BY <3>4 DEF Last, v
    <2> QED
        BY <2>1, <2>2 DEF ShowsTheLog, PreviousAction, DueAnswers
<1>2. BridgeInv /\ LogInv /\ [Next]_vars => [published' # published => Shown]_vars
    BY <1>1
<1> QED
    BY <1>2, LogInvariance, BridgeInvariance, PTL DEF Spec, FeedbackIsExecution

\* The whole state has its type.
THEOREM BridgeTypes == ASSUME PubPeriod # 0 PROVE Spec => []TypeOK
<1>1. ASSUME BridgeInv, LogInv PROVE TypeOK
    <2>1. ControlTypeOK /\ disowned \in Nat
        BY <1>1 DEF BridgeInv, ControlTypeOK
    <2>2. /\ answered \subseteq disowned + 1..Len(published)
          /\ runtime.last_actions \in Int /\ runtime.last_feedback_obs_seq \in Nat
          /\ executed \in Int
        BY <1>1 DEF LogInv, RuntimeHolds, CreditHolds
    <2> QED
        BY <2>1, <2>2 DEF TypeOK
<1> QED
    BY <1>1, LogInvariance, BridgeInvariance, PTL
=============================================================================
