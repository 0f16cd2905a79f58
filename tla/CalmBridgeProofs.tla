-------------------------- MODULE CalmBridgeProofs --------------------------
(***************************************************************************)
(* The bound of CalmBridge on the time to recover, for every period,       *)
(* latency and jitter that LatencyAssumption admits.  The invariant says   *)
(* where the timeline, the deadlines of the answers and the contents of    *)
(* the channel stand, as a function of the time since the last             *)
(* disturbance.                                                            *)
(***************************************************************************)
EXTENDS CalmBridge, RlBridgeProofs

CalmTypeOK == disturbed \in 0..now /\ newest \in 0..Len(published)

\* The channel holds an answer to the newest observation answered, one that can drive,
\* or that observation is older than the last disturbance.
Clean ==
    /\ channel.incoming.obs_seq = newest
    /\ channel.incoming.action # NaN
    /\ channel.incoming.layout_hash = layout_hash

ChannelInv ==
    /\ channel.received <=> newest >= 1
    /\ channel.received =>
        /\ channel.incoming.obs_seq <= newest
        /\ Clean \/ published[newest] <= disturbed

\* The schedule of the control period: observations follow each other a period apart,
\* less or more than the jitter.
CadenceInv ==
    LET tl == runtime.timeline
    IN  /\ tl.started <=> disowned < Len(published)
        /\ tl.previous_valid <=> disowned + 1 < Len(published)
        /\ tl.started =>
            /\ tl.scheduled <= tl.current /\ tl.current < tl.scheduled + MaxStep
            /\ now < tl.scheduled + PubPeriod
        /\ tl.previous_valid =>
            /\ tl.previous + PubPeriod < tl.current + MaxStep
            /\ tl.current < tl.previous + PubPeriod + MaxStep

\* What the log says of times is in the past.
LogInv == \A n \in 1..Len(published) : published[n] <= now

\* No deadline has passed since the last disturbance without an answer.
DeadlineInv ==
    \A n \in disowned + 1..Len(published) :
        published[n] + Latency \in disturbed..now - 1 => n <= newest

\* A control period ends, and the next one begins, soon after a disturbance only.
ResumeInv ==
    LET tl == runtime.timeline
    IN  /\ phase = "act" /\ ~tl.started => disturbed = now
        /\ phase = "idle" /\ ~tl.started => ~last_valid /\ now < disturbed + PubPeriod + MaxStep
        /\ tl.started => published[disowned + 1] < disturbed + PubPeriod + 2 * MaxStep

\* The channel holds an answer that drives as long as it is not too old.
Drivable ==
    /\ channel.received
    /\ channel.incoming.obs_seq > disowned /\ channel.incoming.obs_seq >= Len(published) - 1
    /\ channel.incoming.action # NaN
    /\ channel.incoming.layout_hash = layout_hash

\* After the first observation since the disturbance, whoever drives goes on.
DrivenInv ==
    LET tl == runtime.timeline
    IN  /\ last_valid /\ tl.started /\ tl.current > disturbed
        /\ phase = "idle" \/ now > tl.current \/ ~tl.previous_valid
        => Drivable

CalmInv ==
    /\ CalmTypeOK /\ ChannelInv /\ CadenceInv /\ LogInv
    /\ DeadlineInv /\ ResumeInv /\ DrivenInv /\ CalmLoopDrives
----------------------------------------------------------------------------
(* The facts the arithmetic below needs, in plain terms.                    *)

LEMMA CalmConstants ==
    /\ PubPeriod \in Nat /\ MaxStep \in Nat /\ Latency \in Nat /\ MaxActionAge \in Nat
    /\ MaxStep > 0 /\ Latency + MaxStep <= PubPeriod
    /\ PubPeriod + Latency + MaxStep - 1 <= MaxActionAge
BY BridgeAssumption, LatencyAssumption

LEMMA LongerSince ==
    ASSUME NEW t \in Int, NEW r \in Int, NEW before \in Int, NEW after \in 0..t,
           after >= before, t - after >= r
    PROVE  t - before >= r
OBVIOUS

LEMMA CalmFacts ==
    ASSUME BridgeInv, CalmInv
    PROVE  LET tl == runtime.timeline
               N  == Len(published)
           IN  /\ now \in Nat /\ N \in Nat /\ disowned \in 0..N
               /\ disturbed \in 0..now /\ newest \in 0..N
               /\ published \in Seq(Int) /\ DOMAIN published = 1..N
               /\ \A n \in 1..N : published[n] \in Nat /\ published[n] <= now
               /\ tl \in Timelines /\ tl.current \in Int /\ tl.previous \in Int
               /\ tl.scheduled \in Int /\ tl.sequence = N
               /\ tl.started \in BOOLEAN /\ tl.previous_valid \in BOOLEAN
               /\ tl.started => tl.current = published[N]
               /\ tl.previous_valid => tl.started /\ tl.previous = published[N - 1]
               /\ tl.started <=> disowned < N
               /\ tl.previous_valid <=> disowned + 1 < N
<1>1. /\ now \in Nat /\ published \in Seq(0..MaxNow) /\ disowned \in 0..Len(published)
      /\ runtime.timeline \in Timelines
      /\ TimelineMatches(runtime.timeline, published, disowned)
    BY BridgeAssumption DEF BridgeInv, ControlTypeOK, TimelineInv
<1>2. /\ DOMAIN published = 1..Len(published) /\ Len(published) \in Nat
      /\ \A n \in 1..Len(published) : published[n] \in 0..MaxNow
      /\ published \in Seq(Int)
    BY <1>1, BridgeAssumption
<1>3. disturbed \in 0..now /\ newest \in 0..Len(published) /\ CadenceInv /\ LogInv
    BY DEF CalmInv, CalmTypeOK
<1>4. \A n \in 1..Len(published) : published[n] \in Nat /\ published[n] <= now
    BY <1>2, <1>3, BridgeAssumption DEF LogInv
<1> QED
    BY <1>1, <1>2, <1>3, <1>4 DEF TimelineMatches, Timelines, CadenceInv

----------------------------------------------------------------------------
(* What the first half of a cycle does to the control period.               *)

PeriodEnds ==
    /\ published' = published /\ disowned' = Len(published)
    /\ ~runtime'.timeline.started /\ ~runtime'.timeline.previous_valid

PeriodGoesOn(t) ==
    /\ published' = published /\ disowned' = disowned
    /\ runtime'.timeline = runtime.timeline
    /\ runtime.timeline.started /\ t < runtime.timeline.scheduled + PubPeriod

PeriodObserves(t) ==
    /\ published' = Append(published, t) /\ disowned' = disowned
    /\ runtime'.timeline = PublishFrame(runtime.timeline, t, PubPeriod)
    /\ runtime.timeline.started => t >= runtime.timeline.scheduled + PubPeriod

PeriodBegins(t) ==
    /\ published' = Append(published, t) /\ disowned' = Len(published)
    /\ runtime'.timeline = PublishFrame(ResetTimeline(runtime.timeline), t, PubPeriod)
    /\ Interrupted

LatchedAt(t) ==
    /\ phase = "idle" /\ phase' = "act" /\ now' = t
    /\ UNCHANGED <<layout_hash, contract_ok, last_valid, channel, snapshot, outputs>>

\* The timeline the cycle comes to publishing with.
LEMMA PreparedTimeline ==
    ASSUME BridgeInv, NEW t, NEW e, NEW f, NEW r, LatchInputs(t, e, f, r)
    PROVE  /\ IsRuntime(Prepared(e, f, r))
           /\ ResetRequested(r) \/ ModeChanged(e, f) =>
                /\ Interrupted
                /\ Prepared(e, f, r).timeline = ResetTimeline(runtime.timeline)
           /\ ~(ResetRequested(r) \/ ModeChanged(e, f)) =>
                /\ Enabled(e) = last_enabled
                /\ Prepared(e, f, r).timeline = runtime.timeline
<1>1. /\ IsRuntime(Prepared(e, f, r))
      /\ Prepared(e, f, r).timeline =
            IF ResetRequested(r) \/ ModeChanged(e, f)
            THEN ResetTimeline(runtime.timeline) ELSE runtime.timeline
    BY PreparedIs DEF BridgeInv, ControlTypeOK
<1>2. ResetRequested(r) \/ ModeChanged(e, f) => Interrupted
    BY DEF LatchInputs, ResetRequested, ModeChanged, Interrupted
<1>3. ~ModeChanged(e, f) => Enabled(e) = last_enabled
    BY DEF ModeChanged
<1> QED
    BY <1>1, <1>2, <1>3

LEMMA SkipPeriod ==
    ASSUME BridgeInv, CalmInv, NEW t \in now..now + MaxStep, NEW e, NEW f, NEW r,
           SkipObservation(t, e, f, r)
    PROVE  LatchedAt(t) /\ (PeriodEnds \/ PeriodGoesOn(t))
<1> DEFINE ready == Prepared(e, f, r)
<1>1. /\ LatchInputs(t, e, f, r) /\ ~MayPublish(t, e, f, r)
      /\ runtime' = ready /\ KeepOrGiveUp(e, f, r) /\ published' = published
    BY DEF SkipObservation
<1>2. LatchedAt(t)
    BY <1>1 DEF LatchInputs, LatchedAt
<1>3. ~Enabled(e) \/ ~Due(ready.timeline, t, PubPeriod)
    BY <1>1 DEF MayPublish
<1>4. /\ ResetRequested(r) \/ ModeChanged(e, f) =>
            ready.timeline = ResetTimeline(runtime.timeline)
      /\ ~(ResetRequested(r) \/ ModeChanged(e, f)) =>
            Enabled(e) = last_enabled /\ ready.timeline = runtime.timeline
    BY <1>1, PreparedTimeline
<1> HIDE DEF ready
<1>5. CASE ResetRequested(r) \/ ModeChanged(e, f)
    BY <1>1, <1>2, <1>4, <1>5 DEF KeepOrGiveUp, GiveUp, ResetTimeline, PeriodEnds
<1>6. CASE ~(ResetRequested(r) \/ ModeChanged(e, f))
    <2>1. runtime'.timeline = runtime.timeline /\ disowned' = disowned
        BY <1>1, <1>4, <1>6 DEF KeepOrGiveUp
    <2>2. CASE ~runtime.timeline.started
        BY <1>1, <1>2, <2>1, <2>2, CalmFacts DEF PeriodEnds
    <2>3. CASE runtime.timeline.started
        <3>1. last_enabled
            BY <2>3 DEF BridgeInv, TimelineInv
        <3>2. ~Due(runtime.timeline, t, PubPeriod)
            BY <1>3, <1>4, <1>6, <3>1
        <3>3. t < runtime.timeline.scheduled + PubPeriod
            BY <3>2, CalmFacts, CalmConstants DEF Due
        <3> QED
            BY <1>1, <1>2, <2>1, <2>3, <3>3 DEF PeriodGoesOn
    <2> QED
        BY <2>2, <2>3
<1> QED
    BY <1>2, <1>5, <1>6

LEMMA PublishPeriod ==
    ASSUME BridgeInv, CalmInv, NEW t \in now..now + MaxStep, NEW e, NEW f, NEW r,
           PublishObservation(t, e, f, r)
    PROVE  LatchedAt(t) /\ (PeriodObserves(t) \/ PeriodBegins(t))
<1> DEFINE ready == Prepared(e, f, r)
           shown == WithFeedback(ready, t)
<1>1. /\ LatchInputs(t, e, f, r) /\ Due(ready.timeline, t, PubPeriod)
      /\ runtime' = Published(shown, t)
      /\ KeepOrGiveUp(e, f, r) /\ published' = Append(published, t)
    BY DEF PublishObservation, MayPublish
<1>2. LatchedAt(t)
    BY <1>1 DEF LatchInputs, LatchedAt
<1>3. /\ IsRuntime(ready)
      /\ ResetRequested(r) \/ ModeChanged(e, f) =>
            Interrupted /\ ready.timeline = ResetTimeline(runtime.timeline)
      /\ ~(ResetRequested(r) \/ ModeChanged(e, f)) => ready.timeline = runtime.timeline
    BY <1>1, PreparedTimeline
<1> HIDE DEF ready
<1>4. IsRuntime(shown) /\ shown.timeline = ready.timeline
    BY <1>3, WithFeedbackIs
<1> HIDE DEF shown
<1>5. runtime'.timeline = PublishFrame(ready.timeline, t, PubPeriod)
    BY <1>1, <1>4, PublishedIs
<1>6. CASE ResetRequested(r) \/ ModeChanged(e, f)
    BY <1>1, <1>2, <1>3, <1>5, <1>6 DEF KeepOrGiveUp, GiveUp, PeriodBegins
<1>7. CASE ~(ResetRequested(r) \/ ModeChanged(e, f))
    <2>1. ready.timeline = runtime.timeline /\ disowned' = disowned
        BY <1>1, <1>3, <1>7 DEF KeepOrGiveUp
    <2>2. Due(runtime.timeline, t, PubPeriod)
        BY <1>1, <2>1
    <2>3. runtime.timeline.started => t >= runtime.timeline.scheduled + PubPeriod
        BY <2>2, CalmFacts, CalmConstants DEF Due
    <2>4. PeriodObserves(t)
        BY <1>1, <1>5, <2>1, <2>3 DEF PeriodObserves
    <2> QED
        BY <1>2, <2>4
<1> QED
    BY <1>2, <1>6, <1>7

LEMMA RejectPeriod ==
    ASSUME BridgeInv, NEW t, NEW e, NEW f, NEW r, RejectObservation(t, e, f, r)
    PROVE  LatchedAt(t) /\ PeriodEnds
<1>1. /\ LatchInputs(t, e, f, r) /\ runtime' = ResetRuntime(Prepared(e, f, r))
      /\ published' = published /\ disowned' = Len(published)
    BY DEF RejectObservation, GiveUp
<1>2. runtime'.timeline = ResetTimeline(Prepared(e, f, r).timeline)
    BY <1>1, ResetRuntimeIs
<1> QED
    BY <1>1, <1>2 DEF LatchInputs, LatchedAt, PeriodEnds, ResetTimeline
----------------------------------------------------------------------------
(* The cadence of a control period.                                         *)

LEMMA OneSlotFurther ==
    ASSUME NEW p \in Nat, NEW x \in Int, p <= x, x < 2 * p
    PROVE  p * (x \div p) = p
<1>1. x \div p = 1
    BY SMT
<1> QED
    BY <1>1

LEMMA LogKept ==
    ASSUME BridgeInv, CalmInv, NEW t \in now..now + MaxStep, now' = t,
           published' = published \/ published' = Append(published, t)
    PROVE  /\ \A n \in 1..Len(published) : published'[n] = published[n]
           /\ Len(published') \in Nat
           /\ published' = published => Len(published') = Len(published)
           /\ published' = Append(published, t) =>
                Len(published') = Len(published) + 1 /\ published'[Len(published) + 1] = t
           /\ LogInv'
<1>1. /\ published \in Seq(Int) /\ now \in Nat /\ t \in Int /\ t >= now
      /\ \A n \in 1..Len(published) : published[n] \in Int /\ published[n] <= now
    BY CalmFacts, CalmConstants
<1>2. CASE published' = published
    BY <1>1, <1>2 DEF LogInv
<1>3. CASE published' = Append(published, t)
    <2>1. /\ Len(published') = Len(published) + 1 /\ published'[Len(published) + 1] = t
          /\ \A n \in 1..Len(published) : published'[n] = published[n]
        BY <1>1, <1>3
    <2>2. LogInv'
        BY <1>1, <2>1 DEF LogInv
    <2> QED
        BY <1>1, <1>3, <2>1, <2>2
<1> QED
    BY <1>2, <1>3

\* An observation of a running period falls into the next slot, within the jitter.
LEMMA NextSlot ==
    ASSUME BridgeInv, CalmInv, NEW t \in now..now + MaxStep,
           runtime.timeline.started, t >= runtime.timeline.scheduled + PubPeriod
    PROVE  LET tl  == runtime.timeline
               new == PublishFrame(tl, t, PubPeriod)
           IN  /\ new.scheduled = tl.scheduled + PubPeriod
               /\ t < tl.scheduled + PubPeriod + MaxStep
<1> DEFINE tl == runtime.timeline
<1>1. /\ tl.scheduled \in Int /\ t \in Int /\ now \in Int
      /\ now < tl.scheduled + PubPeriod
    BY CalmFacts, CalmConstants DEF CalmInv, CadenceInv
<1>2. t < tl.scheduled + PubPeriod + MaxStep
    BY <1>1, CalmConstants
<1>3. PubPeriod * ((t - tl.scheduled) \div PubPeriod) = PubPeriod
    <2>1. /\ PubPeriod \in Nat /\ t - tl.scheduled \in Int
          /\ PubPeriod <= t - tl.scheduled /\ t - tl.scheduled < 2 * PubPeriod
        BY <1>1, <1>2, CalmConstants
    <2> QED
        BY <2>1, OneSlotFurther
<1>4. Slot(tl, t, PubPeriod) = tl.scheduled + PubPeriod
    BY <1>3, CalmConstants DEF Slot
<1> QED
    BY <1>2, <1>4 DEF PublishFrame

LEMMA CadenceKept ==
    ASSUME BridgeInv, CalmInv, NEW t \in now..now + MaxStep, now' = t,
           PeriodEnds \/ PeriodGoesOn(t) \/ PeriodObserves(t) \/ PeriodBegins(t)
    PROVE  CadenceInv'
<1>1. /\ now \in Nat /\ t \in Int /\ t >= now /\ Len(published) \in Nat
      /\ disowned \in 0..Len(published)
    BY CalmFacts, CalmConstants
<1>2. CASE PeriodEnds
    BY <1>1, <1>2 DEF PeriodEnds, CadenceInv
<1>3. CASE PeriodGoesOn(t)
    BY <1>3 DEF PeriodGoesOn, CadenceInv, CalmInv
<1>4. CASE PeriodObserves(t) /\ runtime.timeline.started
    <2> DEFINE tl  == runtime.timeline
               new == PublishFrame(tl, t, PubPeriod)
    <2>1. /\ new.scheduled = tl.scheduled + PubPeriod
          /\ t < tl.scheduled + PubPeriod + MaxStep
          /\ t >= tl.scheduled + PubPeriod
        BY <1>4, NextSlot DEF PeriodObserves
    <2>2. /\ new.started /\ new.previous_valid
          /\ new.current = t /\ new.previous = tl.current
        BY <1>4 DEF PublishFrame
    <2>3. Len(published') = Len(published) + 1 /\ disowned' = disowned
        BY <1>4, LogKept DEF PeriodObserves
    <2>4. /\ tl.scheduled \in Int /\ tl.current \in Int /\ disowned < Len(published)
          /\ tl.scheduled <= tl.current /\ tl.current < tl.scheduled + MaxStep
        BY <1>4, CalmFacts DEF CalmInv, CadenceInv
    <2>5. runtime'.timeline = new
        BY <1>4 DEF PeriodObserves
    <2> HIDE DEF new, tl
    <2>6. /\ runtime'.timeline.started = TRUE /\ runtime'.timeline.previous_valid = TRUE
          /\ runtime'.timeline.current = t /\ runtime'.timeline.previous = tl.current
          /\ runtime'.timeline.scheduled = tl.scheduled + PubPeriod
        BY <1>4, <2>1, <2>5 DEF new, tl, PublishFrame
    <2>7. /\ tl.scheduled + PubPeriod <= t /\ t < tl.scheduled + PubPeriod + MaxStep
          /\ t < tl.scheduled + PubPeriod + PubPeriod
          /\ tl.current + PubPeriod < t + MaxStep /\ t < tl.current + PubPeriod + MaxStep
        BY <1>1, <2>1, <2>4, CalmConstants
    <2>8. disowned' < Len(published') /\ disowned' + 1 < Len(published')
        BY <1>1, <2>3, <2>4
    <2> QED
        BY <2>6, <2>7, <2>8 DEF CadenceInv
<1>5. CASE PeriodBegins(t) \/ (PeriodObserves(t) /\ ~runtime.timeline.started)
    <2>1. PICK tl : ~tl.started /\ runtime'.timeline = PublishFrame(tl, t, PubPeriod)
        BY <1>5 DEF PeriodBegins, PeriodObserves, ResetTimeline
    <2>2. /\ runtime'.timeline.started = TRUE
          /\ runtime'.timeline.previous_valid = FALSE
          /\ runtime'.timeline.current = t /\ runtime'.timeline.scheduled = t
        BY <2>1 DEF PublishFrame, Slot
    <2>3. disowned' = Len(published) /\ Len(published') = Len(published) + 1
        BY <1>5, LogKept, CalmFacts DEF PeriodBegins, PeriodObserves
    <2> QED
        BY <1>1, <2>2, <2>3, CalmConstants DEF CadenceInv
<1> QED
    BY <1>2, <1>3, <1>4, <1>5

----------------------------------------------------------------------------
(* The first half of a cycle.                                               *)

\* A cycle that counts as a disturbance has little to keep.
LEMMA DisturbedKeepsCalm ==
    ASSUME BridgeInv, BridgeInv', CalmInv, NEW t \in now..now + MaxStep, LatchedAt(t),
           PeriodEnds \/ PeriodGoesOn(t) \/ PeriodObserves(t) \/ PeriodBegins(t),
           disturbed' = t, newest' = newest
    PROVE  CalmInv'
<1>1. published' = published \/ published' = Append(published, t)
    BY DEF PeriodEnds, PeriodGoesOn, PeriodObserves, PeriodBegins
<1>2. /\ \A n \in 1..Len(published) : published'[n] = published[n]
      /\ Len(published') \in Nat /\ Len(published') >= Len(published)
      /\ LogInv' /\ CadenceInv' /\ now' = t
    BY <1>1, LogKept, CadenceKept, CalmFacts DEF LatchedAt
<1>3. /\ t \in Nat /\ t >= now /\ newest \in 0..Len(published) /\ Len(published) \in Nat
      /\ \A n \in 1..Len(published) : published[n] \in Nat /\ published[n] <= now
      /\ now \in Nat
    BY CalmFacts, CalmConstants
<1>4. CalmTypeOK'
    BY <1>2, <1>3 DEF CalmTypeOK
<1>5. ChannelInv'
    BY <1>2, <1>3 DEF ChannelInv, Clean, CalmInv, LatchedAt
<1>6. DeadlineInv'
    BY <1>2, CalmConstants DEF DeadlineInv
<1>7. /\ disowned' \in 0..Len(published') /\ published' \in Seq(Int)
      /\ runtime'.timeline.started => runtime'.timeline.current = published'[Len(published')]
    BY BridgeAssumption DEF BridgeInv, ControlTypeOK, TimelineInv, TimelineMatches
<1>8. ResumeInv'
    <2>1. runtime'.timeline.started => published'[disowned' + 1] <= t
        BY <1>2, <1>7 DEF LogInv, CadenceInv
    <2>2. \A n \in 1..Len(published') : published'[n] \in Int
        BY <1>7
    <2> QED
        BY <1>2, <1>3, <1>7, <2>1, <2>2, CalmConstants DEF ResumeInv, CadenceInv, LatchedAt
<1>9. DrivenInv'
    <2>1. runtime'.timeline.started => Len(published') \in 1..Len(published')
        BY <1>2, <1>7 DEF CadenceInv
    <2>2. runtime'.timeline.started => runtime'.timeline.current <= t
        BY <1>2, <1>7, <2>1 DEF LogInv
    <2>3. runtime'.timeline.current \in Int
        BY DEF BridgeInv, ControlTypeOK, Timelines
    <2> QED
        BY <1>3, <2>2, <2>3 DEF DrivenInv
<1>10. CalmLoopDrives'
    BY DEF CalmLoopDrives, LatchedAt
<1> QED
    BY <1>2, <1>4, <1>5, <1>6, <1>8, <1>9, <1>10 DEF CalmInv

LEMMA UndisturbedKeepsCalm ==
    ASSUME BridgeInv, BridgeInv', CalmInv, NEW t \in now..now + MaxStep, LatchedAt(t),
           PeriodGoesOn(t) \/ PeriodObserves(t), ~Missed(t),
           disturbed' = disturbed, newest' = newest
    PROVE  CalmInv'
<1> DEFINE tl == runtime.timeline
           N  == Len(published)
<1>1. published' = published \/ published' = Append(published, t)
    BY DEF PeriodGoesOn, PeriodObserves
<1>2. /\ \A n \in 1..N : published'[n] = published[n]
      /\ Len(published') \in Nat /\ Len(published') >= N
      /\ published' = published => Len(published') = N
      /\ published' = Append(published, t) => Len(published') = N + 1 /\ published'[N + 1] = t
      /\ LogInv' /\ CadenceInv' /\ now' = t /\ disowned' = disowned
    BY <1>1, LogKept, CadenceKept, CalmFacts DEF LatchedAt, PeriodGoesOn, PeriodObserves
<1>3. /\ t \in Nat /\ t >= now /\ t <= now + MaxStep /\ newest \in 0..N /\ N \in Nat
      /\ \A n \in 1..N : published[n] \in Nat /\ published[n] <= now
      /\ now \in Nat /\ disturbed \in 0..now /\ disowned \in 0..N
    BY CalmFacts, CalmConstants
<1>4. CalmTypeOK'
    BY <1>2, <1>3 DEF CalmTypeOK
<1>5. ChannelInv'
    BY <1>2, <1>3 DEF ChannelInv, Clean, CalmInv, LatchedAt
<1>6. DeadlineInv'
    <2> SUFFICES ASSUME NEW n \in disowned + 1..Len(published'),
                        published'[n] + Latency \in disturbed..t - 1
                 PROVE  n <= newest
        BY <1>2 DEF DeadlineInv
    <2>1. n \in 1..N /\ published[n] + Latency \in disturbed..t - 1
        <3>1. CASE published' = published
            BY <1>2, <1>3, <3>1
        <3>2. CASE published' = Append(published, t)
            BY <1>2, <1>3, <3>2, CalmConstants
        <3> QED
            BY <1>1, <3>1, <3>2
    <2>2. CASE published[n] + Latency < now
        BY <1>3, <2>1, <2>2, CalmConstants DEF CalmInv, DeadlineInv
    <2>3. CASE published[n] + Latency >= now
        <3>1. published[n] + Latency \in now..t - 1
            BY <1>3, <2>1, <2>3, CalmConstants
        <3>2. ~(newest < n)
            BY <1>3, <2>1, <3>1 DEF Missed
        <3> QED
            BY <1>3, <2>1, <3>2
    <2> QED
        BY <1>3, <2>1, <2>2, <2>3, CalmConstants
<1>7. runtime'.timeline.started /\ (~tl.started => ~last_valid)
    BY DEF PeriodGoesOn, PeriodObserves, PublishFrame, LatchedAt, CalmInv, ResumeInv
<1>8. ResumeInv'
    <2>1. CASE tl.started
        <3>1. /\ disowned < N /\ published[disowned + 1] < disturbed + PubPeriod + 2 * MaxStep
            BY <2>1, CalmFacts DEF CalmInv, ResumeInv
        <3>2. published'[disowned + 1] = published[disowned + 1]
            BY <1>2, <1>3, <3>1
        <3> QED
            BY <1>2, <1>7, <3>1, <3>2 DEF ResumeInv, LatchedAt
    <2>2. CASE ~tl.started
        <3>1. disowned = N /\ published' = Append(published, t)
            BY <2>2, CalmFacts DEF PeriodGoesOn, PeriodObserves
        <3>2. now < disturbed + PubPeriod + MaxStep
            BY <2>2 DEF CalmInv, ResumeInv, LatchedAt
        <3>3. published'[disowned' + 1] < disturbed + PubPeriod + 2 * MaxStep
            BY <1>2, <1>3, <3>1, <3>2, CalmConstants
        <3> QED
            BY <1>7, <3>3 DEF ResumeInv, LatchedAt
    <2> QED
        BY <2>1, <2>2
<1>9. DrivenInv'
    <2>1. CASE PeriodGoesOn(t)
        <3> SUFFICES ASSUME last_valid, tl.started, tl.current > disturbed
                     PROVE  Drivable'
            BY <1>2, <2>1 DEF DrivenInv, PeriodGoesOn, LatchedAt
        <3>1. Drivable
            BY DEF CalmInv, DrivenInv, LatchedAt
        <3> QED
            BY <2>1, <3>1 DEF Drivable, PeriodGoesOn, LatchedAt
    <2>2. CASE PeriodObserves(t)
        <3>1. /\ runtime'.timeline.current = t
              /\ runtime'.timeline.previous_valid = tl.started
            BY <2>2 DEF PeriodObserves, PublishFrame
        <3> QED
            BY <1>2, <1>3, <1>7, <3>1 DEF DrivenInv, LatchedAt
    <2> QED
        BY <2>1, <2>2
<1>10. CalmLoopDrives'
    BY DEF CalmLoopDrives, LatchedAt
<1> QED
    BY <1>2, <1>4, <1>5, <1>6, <1>8, <1>9, <1>10 DEF CalmInv
----------------------------------------------------------------------------
(* What the second half of a cycle finds.                                   *)

\* An answer in the channel that can drive is not too old yet.
LEMMA DrivableIsValid ==
    ASSUME BridgeInv, CalmInv, contract_ok, runtime.timeline.started,
           runtime.timeline.current > disturbed, Drivable
    PROVE  Valid(FALSE)
<1> DEFINE tl  == runtime.timeline
           N   == Len(published)
           seq == channel.incoming.obs_seq
<1>1. Snapshot(FALSE) = channel.incoming /\ HasSnapshot(FALSE)
    BY DEF Drivable, Snapshot, HasSnapshot
<1>2. last_enabled
    BY DEF BridgeInv, TimelineInv
<1>3. ContractHolds(FALSE) /\ Finite(FALSE)
    BY <1>1 DEF Drivable, ContractHolds, Finite
<1>4. seq \in {N - 1, N} /\ seq > disowned /\ seq <= newest
    <2>1. seq \in Nat /\ seq <= newest
        BY DEF BridgeInv, ControlTypeOK, Messages, CalmInv, ChannelInv, Drivable
    <2> QED
        BY <2>1, CalmFacts DEF Drivable
<1>5. AgeOf(tl, seq, now) \in Int /\ AgeOf(tl, seq, now) <= MaxActionAge
    <2>1. /\ tl.scheduled <= tl.current /\ now < tl.scheduled + PubPeriod
          /\ tl.previous_valid => tl.current < tl.previous + PubPeriod + MaxStep
          /\ tl.scheduled \in Int /\ tl.current \in Int /\ tl.previous \in Int /\ now \in Int
        BY CalmFacts DEF CalmInv, CadenceInv
    <2>2. CASE seq = N
        <3>1. AgeOf(tl, seq, now) = now - tl.current
            BY <2>2, CalmFacts DEF AgeOf
        <3> QED
            BY <2>1, <3>1, CalmConstants
    <2>3. CASE seq = N - 1
        <3>1. tl.previous_valid /\ AgeOf(tl, seq, now) = now - tl.previous
            BY <1>4, <2>3, CalmFacts DEF AgeOf
        <3>2. newest = N - 1
            <4>1. CASE newest = N
                <5>1. Clean
                    BY <4>1, CalmFacts DEF CalmInv, ChannelInv, Drivable
                <5> QED
                    BY <2>3, <4>1, <5>1, CalmFacts DEF Clean
            <4> QED
                BY <1>4, <2>3, <4>1, CalmFacts
        <3>3. now <= tl.current + Latency
            <4>1. N \in disowned + 1..N /\ ~(N <= newest) /\ tl.current = published[N]
                BY <3>2, CalmFacts
            <4>2. ~(tl.current + Latency \in disturbed..now - 1)
                BY <4>1 DEF CalmInv, DeadlineInv
            <4> QED
                BY <4>2, CalmFacts, CalmConstants
        <3> QED
            BY <2>1, <3>1, <3>3, CalmConstants
    <2> QED
        BY <1>4, <2>2, <2>3
<1>6. Fresh(FALSE)
    <2>1. Age(FALSE) = AgeOf(tl, seq, now)
        BY <1>1 DEF Age
    <2> QED
        BY <1>5, <2>1, NaNAssumption DEF Fresh
<1> QED
    BY <1>2, <1>3, <1>6 DEF Valid

\* From a period and the jitter after the disturbance on, whoever drives finds such an
\* answer, and from Recovery on there is one in any case.
LEMMA FindsDrivable ==
    ASSUME BridgeInv, CalmInv, phase = "act", runtime.timeline.started,
           now >= disturbed + PubPeriod + MaxStep,
           last_valid \/ now >= disturbed + Recovery
    PROVE  runtime.timeline.current > disturbed /\ Drivable
<1> DEFINE tl == runtime.timeline
           N  == Len(published)
<1>1. /\ N \in Nat /\ disowned \in Nat /\ disowned < N /\ newest \in 0..N
      /\ now \in Nat /\ disturbed \in Nat
      /\ tl.current = published[N] /\ tl.current \in Int /\ tl.scheduled \in Int
      /\ tl.scheduled <= tl.current /\ now < tl.scheduled + PubPeriod
    BY CalmFacts DEF CalmInv, CadenceInv
<1>2. tl.current > disturbed
    BY <1>1, CalmConstants
<1>3. newest >= N - 1 /\ newest > disowned /\ published[newest] > disturbed => Drivable
    <2> SUFFICES ASSUME newest >= N - 1, newest > disowned, published[newest] > disturbed
                 PROVE  Drivable
        OBVIOUS
    <2>1. published[newest] \in Int
        BY <1>1, CalmFacts
    <2>2. channel.received /\ Clean
        BY <1>1, <2>1 DEF CalmInv, ChannelInv
    <2> QED
        BY <2>2 DEF Clean, Drivable
<1>4. \A n \in disowned + 1..N : published[n] \in Int /\
        (published[n] + Latency < now /\ published[n] > disturbed => n <= newest)
    <2>1. \A n \in disowned + 1..N : published[n] \in Int
        BY <1>1, CalmFacts
    <2>2. \A n \in disowned + 1..N : published[n] + Latency \in disturbed..now - 1 => n <= newest
        BY DEF CalmInv, DeadlineInv
    <2> QED
        BY <1>1, <2>1, <2>2, CalmConstants
<1>5. tl.current + Latency < now => Drivable
    BY <1>1, <1>2, <1>3, <1>4
<1>6. CASE tl.previous_valid /\ tl.previous > disturbed
    <2>1. /\ N - 1 \in disowned + 1..N /\ tl.previous = published[N - 1]
          /\ tl.previous + PubPeriod < tl.current + MaxStep
          /\ tl.current <= now /\ tl.previous \in Int
        BY <1>1, <1>6, CalmFacts DEF CalmInv, CadenceInv
    <2>2. N - 1 <= newest
        <3>1. tl.previous + Latency < now
            BY <1>1, <2>1, CalmConstants
        <3> QED
            BY <1>4, <1>6, <2>1, <3>1
    <2>3. newest \in {N - 1, N}
        BY <1>1, <2>2
    <2>4. published[newest] > disturbed
        BY <1>1, <1>2, <1>6, <2>1, <2>3
    <2> QED
        BY <1>1, <1>2, <1>3, <2>1, <2>2, <2>4
<1>7. CASE tl.previous_valid /\ tl.previous <= disturbed
    <2>1. tl.current < disturbed + PubPeriod + MaxStep
        <3>1. tl.current < tl.previous + PubPeriod + MaxStep /\ tl.previous \in Int
            BY <1>7, CalmFacts DEF CalmInv, CadenceInv
        <3> QED
            BY <1>1, <1>7, <3>1, CalmConstants
    <2>2. CASE last_valid
        BY <1>1, <1>2, <2>1, <2>2, CalmConstants DEF CalmInv, DrivenInv
    <2>3. CASE now >= disturbed + Recovery
        BY <1>1, <1>2, <1>5, <2>1, <2>3, CalmConstants DEF Recovery
    <2> QED
        BY <2>2, <2>3
<1>8. CASE ~tl.previous_valid
    <2>1. CASE last_valid
        BY <1>2, <1>8, <2>1 DEF CalmInv, DrivenInv
    <2>2. CASE now >= disturbed + Recovery
        <3>1. N = disowned + 1
            <4>1. ~(disowned + 1 < N)
                BY <1>8, CalmFacts
            <4> QED
                BY <1>1, <4>1
        <3>2. tl.current < disturbed + PubPeriod + 2 * MaxStep
            BY <1>1, <3>1 DEF CalmInv, ResumeInv
        <3> QED
            BY <1>1, <1>2, <1>5, <2>2, <3>2, CalmConstants DEF Recovery
    <2> QED
        BY <2>1, <2>2
<1> QED
    BY <1>1, <1>6, <1>7, <1>8, CalmFacts
----------------------------------------------------------------------------
(* The second half of a cycle.                                              *)

\* What both ways to finish a cycle leave as it is.
FinishedAct ==
    /\ phase = "act" /\ phase' = "idle"
    /\ UNCHANGED <<now, published, layout_hash>>
    /\ channel'.incoming = channel.incoming /\ channel'.received = channel.received
    /\ newest' = newest

LEMMA ActTimes ==
    ASSUME BridgeInv, CalmInv, UNCHANGED <<now, published>>,
           disturbed' \in {disturbed, now}, newest' = newest
    PROVE  /\ CalmTypeOK' /\ LogInv' /\ disturbed' >= disturbed /\ disturbed' \in 0..now
           /\ disowned' = disowned => DeadlineInv'
           /\ disowned' = Len(published) => DeadlineInv'
<1>1. disturbed' \in 0..now /\ disturbed' >= disturbed /\ disturbed \in 0..now
      /\ now \in Nat /\ Len(published) \in Nat
      /\ \A n \in 1..Len(published) : published[n] \in Nat
      /\ disowned \in 0..Len(published)
    BY CalmFacts
<1>2. CalmTypeOK' /\ LogInv'
    BY <1>1 DEF CalmInv, CalmTypeOK, LogInv
<1>3. ASSUME disowned' = disowned PROVE DeadlineInv'
    <2> SUFFICES ASSUME NEW n \in disowned + 1..Len(published),
                        published[n] + Latency \in disturbed'..now - 1
                 PROVE  n <= newest
        BY <1>3 DEF DeadlineInv
    <2>1. published[n] + Latency \in disturbed..now - 1
        BY <1>1, CalmConstants
    <2> QED
        BY <2>1 DEF CalmInv, DeadlineInv
<1>4. ASSUME disowned' = Len(published) PROVE DeadlineInv'
    BY <1>1, <1>4 DEF DeadlineInv
<1> QED
    BY <1>1, <1>2, <1>3, <1>4

LEMMA DriveKeepsCalm ==
    ASSUME BridgeInv, CalmInv, NEW busy \in BOOLEAN, Drive(busy),
           disturbed' = IF busy THEN now ELSE disturbed, newest' = newest
    PROVE  CalmInv'
<1> DEFINE seq == Snapshot(busy).obs_seq
           a   == IF last_flat_hold THEN 0 ELSE Snapshot(busy).action
           written == [runtime EXCEPT !.written = Command(a)]
<1>1. /\ Valid(busy) /\ TryRead(busy)
      /\ runtime' = Remembered(written, seq, a, Age(busy))
      /\ outputs'.valid = TRUE
      /\ phase = "act" /\ phase' = "idle"
      /\ UNCHANGED <<now, layout_hash, published, disowned>>
    BY DEF Drive
<1>2. runtime'.timeline = runtime.timeline
    <2>1. IsRuntime(written) /\ written.timeline = runtime.timeline
        BY WithWrittenIs DEF BridgeInv
    <2> HIDE DEF written
    <2> QED
        BY <1>1, <2>1, RememberedIs
<1> HIDE DEF seq, a, written
<1>3. channel'.incoming = channel.incoming /\ channel'.received = channel.received
    BY <1>1 DEF TryRead, BridgeInv, ControlTypeOK
<1>4. /\ HasSnapshot(busy) /\ seq >= Len(published) - 1 /\ seq > disowned
      /\ seq \in DOMAIN published
      /\ ContractHolds(busy) /\ Finite(busy)
    BY <1>1, FreshMeans DEF Valid, Fresh, seq
<1>5. runtime.timeline.started
    BY <1>4, CalmFacts
<1>6. CalmTypeOK' /\ LogInv' /\ DeadlineInv' /\ disturbed' >= disturbed /\ disturbed' \in 0..now
    BY <1>1, ActTimes, CalmFacts
<1>7. ChannelInv'
    <2>1. channel.received => published[newest] \in Int
        BY CalmFacts DEF CalmInv, ChannelInv
    <2> QED
        BY <1>1, <1>3, <1>6, <2>1, CalmFacts DEF CalmInv, ChannelInv, Clean
<1>8. CadenceInv'
    BY <1>1, <1>2 DEF CalmInv, CadenceInv
<1>9. ResumeInv'
    <2>1. published[disowned + 1] \in Int /\ published[disowned + 1] < disturbed + PubPeriod + 2 * MaxStep
        BY <1>5, CalmFacts DEF CalmInv, ResumeInv
    <2>2. published[disowned + 1] < disturbed' + PubPeriod + 2 * MaxStep
        BY <1>6, <2>1, CalmFacts, CalmConstants
    <2> QED
        BY <1>1, <1>2, <1>5, <2>2 DEF ResumeInv
<1>10. DrivenInv'
    <2>1. CASE busy
        BY <1>1, <1>2, <1>5, <2>1, CalmFacts DEF DrivenInv
    <2>2. CASE ~busy
        <3>1. Snapshot(busy) = channel.incoming /\ channel.received
            BY <1>4, <2>2 DEF Snapshot, HasSnapshot
        <3> QED
            BY <1>1, <1>3, <1>4, <3>1 DEF DrivenInv, Drivable, ContractHolds, Finite, seq
    <2> QED
        BY <2>1, <2>2
<1>11. CalmLoopDrives'
    BY <1>1 DEF CalmLoopDrives
<1> QED
    BY <1>6, <1>7, <1>8, <1>9, <1>10, <1>11 DEF CalmInv

LEMMA WithholdKeepsCalm ==
    ASSUME BridgeInv, CalmInv, NEW busy \in BOOLEAN, Withhold(busy),
           disturbed' = IF busy THEN now ELSE disturbed, newest' = newest
    PROVE  CalmInv'
<1>1. /\ ~Valid(busy) /\ TryRead(busy)
      /\ contract_ok' = ContractHolds(busy)
      /\ last_valid' = FALSE
      /\ phase = "act" /\ phase' = "idle"
      /\ UNCHANGED <<now, layout_hash, published>>
      /\ \/ /\ last_valid
            /\ runtime'.timeline = ResetTimeline(runtime.timeline)
            /\ disowned' = Len(published)
         \/ /\ ~last_valid
            /\ runtime' = runtime /\ disowned' = disowned
    <2>1. CASE last_valid
        BY <2>1, ResetRuntimeIs DEF Withhold, GiveUp
    <2>2. CASE ~last_valid
        BY <2>2 DEF Withhold
    <2> QED
        BY <2>1, <2>2 DEF Withhold
<1>2. channel'.incoming = channel.incoming /\ channel'.received = channel.received
    BY <1>1 DEF TryRead, BridgeInv, ControlTypeOK
<1>3. CalmTypeOK' /\ LogInv' /\ DeadlineInv' /\ disturbed' >= disturbed /\ disturbed' \in 0..now
    BY <1>1, ActTimes, CalmFacts
<1>4. ChannelInv'
    <2>1. channel.received => published[newest] \in Int
        BY CalmFacts DEF CalmInv, ChannelInv
    <2> QED
        BY <1>1, <1>2, <1>3, <2>1, CalmFacts DEF CalmInv, ChannelInv, Clean
<1>5. CadenceInv'
    BY <1>1, CalmFacts DEF CalmInv, CadenceInv, ResetTimeline
\* A cycle that could have known better does not withhold.
<1>6. ASSUME ~busy, contract_ok, now >= disturbed + PubPeriod + MaxStep,
             last_valid \/ now >= disturbed + Recovery
      PROVE  FALSE
    <2>1. runtime.timeline.started
        BY <1>1, <1>6, CalmFacts, CalmConstants DEF CalmInv, ResumeInv
    <2>2. Valid(FALSE)
        BY <1>1, <1>6, <2>1, FindsDrivable, DrivableIsValid
    <2> QED
        BY <1>1, <1>6, <2>2
<1>7. ResumeInv'
    <2>1. ~runtime'.timeline.started => now < disturbed' + PubPeriod + MaxStep
        <3>1. CASE busy
            BY <3>1, CalmFacts, CalmConstants
        <3>2. CASE ~busy /\ last_valid
            BY <1>6, <3>2, CalmFacts, CalmConstants DEF BridgeInv, ContractInv
        <3>3. CASE ~busy /\ ~last_valid
            BY <1>1, <3>3, CalmFacts, CalmConstants DEF CalmInv, ResumeInv
        <3> QED
            BY <3>1, <3>2, <3>3
    <2>2. ASSUME runtime'.timeline.started
          PROVE  published[disowned' + 1] < disturbed' + PubPeriod + 2 * MaxStep
        <3>1. ~last_valid /\ runtime' = runtime /\ disowned' = disowned
            BY <1>1, <2>2 DEF ResetTimeline
        <3>2. /\ published[disowned + 1] \in Int
              /\ published[disowned + 1] < disturbed + PubPeriod + 2 * MaxStep
            BY <2>2, <3>1, CalmFacts DEF CalmInv, ResumeInv
        <3>3. disturbed \in Int /\ now \in Int
            BY CalmFacts
        <3>4. published[disowned + 1] < disturbed' + PubPeriod + 2 * MaxStep
            BY <1>3, <3>2, <3>3, CalmConstants
        <3> QED
            BY <3>1, <3>4
    <2> QED
        BY <1>1, <2>1, <2>2 DEF ResumeInv
<1>8. DrivenInv'
    BY <1>1 DEF DrivenInv
<1>9. CalmLoopDrives'
    <2> SUFFICES ASSUME contract_ok', now - disturbed' >= Recovery
                 PROVE  FALSE
        BY <1>1 DEF CalmLoopDrives
    <2>1. /\ ~busy /\ now >= disturbed + Recovery /\ now >= disturbed + PubPeriod + MaxStep
        BY CalmFacts, CalmConstants DEF Recovery
    <2>2. contract_ok
        BY <1>1 DEF ContractHolds
    <2> QED
        BY <1>6, <2>1, <2>2
<1> QED
    BY <1>3, <1>4, <1>5, <1>7, <1>8, <1>9 DEF CalmInv

----------------------------------------------------------------------------
(* The ROS thread, and all steps together.                                  *)

LEMMA ArriveKeepsCalm ==
    ASSUME BridgeInv, CalmInv, Arrive, DisturbedIf(Unwelcome(channel'.incoming)),
           newest' = IF channel'.incoming.obs_seq > newest THEN channel'.incoming.obs_seq
                     ELSE newest
    PROVE  CalmInv'
<1> DEFINE m == channel'.incoming
<1>1. /\ m.obs_seq \in 1..Len(published) /\ channel'.received
      /\ UNCHANGED <<now, phase, runtime, layout_hash, contract_ok, last_valid, outputs,
                     published, disowned>>
    <2>1. PICK n \in 1..Len(published), hash \in LayoutHashes, id \in ModelIds :
            \E a \in {n} \cup NonFinite :
                Store([obs_seq |-> n, layout_hash |-> hash, model_id |-> id, action |-> a])
        BY DEF Arrive
    <2>2. PICK a \in {n} \cup NonFinite :
            Store([obs_seq |-> n, layout_hash |-> hash, model_id |-> id, action |-> a])
        BY <2>1
    <2> DEFINE new == [obs_seq |-> n, layout_hash |-> hash, model_id |-> id, action |-> a]
    <2>3. /\ channel' = [channel EXCEPT !.incoming = new, !.received = TRUE]
          /\ UNCHANGED <<now, phase, runtime, layout_hash, contract_ok, last_valid, outputs,
                         published, disowned>>
        BY <2>2 DEF Store
    <2>4. new.obs_seq \in 1..Len(published)
        OBVIOUS
    <2> HIDE DEF new
    <2>5. channel'.incoming = new /\ channel'.received
        <3> DEFINE c1 == [channel EXCEPT !.incoming = new]
                   c2 == [c1 EXCEPT !.received = TRUE]
        <3>1. channel' = c2
            BY <2>3
        <3>2. /\ c1.incoming = new
              /\ c1 = [incoming |-> new, received |-> channel.received, has_read |-> channel.has_read]
            BY DEF BridgeInv, ControlTypeOK
        <3> HIDE DEF c1
        <3>3. c2.incoming = c1.incoming /\ c2.received
            BY <3>2
        <3> QED
            BY <3>1, <3>2, <3>3
    <2> QED
        BY <2>3, <2>4, <2>5
<1> HIDE DEF m
<1>2. /\ newest' = IF m.obs_seq > newest THEN m.obs_seq ELSE newest
      /\ disturbed' = IF Unwelcome(m) THEN now ELSE disturbed
    BY <1>1 DEF DisturbedIf, m
<1>3. /\ now \in Nat /\ disturbed \in 0..now /\ newest \in 0..Len(published)
      /\ Len(published) \in Nat /\ disowned \in 0..Len(published)
      /\ \A n \in 1..Len(published) : published[n] \in Nat /\ published[n] <= now
      /\ runtime.timeline.current \in Int
      /\ runtime.timeline.started => runtime.timeline.current <= now
    BY CalmFacts
<1>4. /\ newest' \in 1..Len(published) /\ newest' >= newest /\ newest' >= m.obs_seq
      /\ disturbed' \in 0..now /\ disturbed' >= disturbed
      /\ ~Unwelcome(m) => newest' = m.obs_seq /\ disturbed' = disturbed
      /\ Unwelcome(m) => disturbed' = now
    BY <1>1, <1>2, <1>3 DEF Unwelcome
<1>5. CalmTypeOK' /\ LogInv' /\ CadenceInv'
    BY <1>1, <1>3, <1>4 DEF CalmInv, CalmTypeOK, LogInv, CadenceInv
<1>6. ChannelInv'
    <2>1. m.obs_seq <= newest'
        BY <1>4
    <2>2. CASE Unwelcome(m)
        BY <1>1, <1>3, <1>4, <2>1, <2>2 DEF ChannelInv, m
    <2>3. CASE ~Unwelcome(m)
        BY <1>1, <1>4, <2>1, <2>3 DEF ChannelInv, Clean, Unwelcome, m
    <2> QED
        BY <2>2, <2>3
<1>7. DeadlineInv'
    <2> SUFFICES ASSUME NEW n \in disowned + 1..Len(published),
                        published[n] + Latency \in disturbed'..now - 1
                 PROVE  n <= newest'
        BY <1>1 DEF DeadlineInv
    <2>1. published[n] + Latency \in disturbed..now - 1
        BY <1>3, <1>4, CalmConstants
    <2>2. n <= newest
        BY <2>1 DEF CalmInv, DeadlineInv
    <2> QED
        BY <1>3, <1>4, <2>2
<1>8. ResumeInv'
    <2>1. ASSUME runtime.timeline.started
          PROVE  published[disowned + 1] < disturbed' + PubPeriod + 2 * MaxStep
        <3>1. /\ published[disowned + 1] \in Int
              /\ published[disowned + 1] < disturbed + PubPeriod + 2 * MaxStep
            BY <2>1, CalmFacts DEF CalmInv, ResumeInv
        <3> QED
            BY <1>3, <1>4, <3>1, CalmConstants
    <2>2. /\ phase = "act" /\ ~runtime.timeline.started => disturbed' = now
          /\ phase = "idle" /\ ~runtime.timeline.started =>
                ~last_valid /\ now < disturbed' + PubPeriod + MaxStep
        BY <1>3, <1>4, CalmConstants DEF CalmInv, ResumeInv
    <2> QED
        BY <1>1, <2>1, <2>2 DEF ResumeInv
<1>9. DrivenInv'
    <2> SUFFICES ASSUME last_valid, runtime.timeline.started,
                        runtime.timeline.current > disturbed',
                        \/ phase = "idle" \/ now > runtime.timeline.current
                        \/ ~runtime.timeline.previous_valid
                 PROVE  Drivable'
        BY <1>1 DEF DrivenInv
    <2>1. ~Unwelcome(m) /\ disturbed' = disturbed
        BY <1>3, <1>4
    <2>2. Drivable
        BY <2>1 DEF CalmInv, DrivenInv
    <2>3. channel.incoming.obs_seq \in Nat /\ channel.incoming.obs_seq <= newest
        BY <2>2 DEF Drivable, CalmInv, ChannelInv, BridgeInv, ControlTypeOK, Messages
    <2>4. m.obs_seq \in Nat /\ m.obs_seq >= channel.incoming.obs_seq
        BY <1>1, <1>3, <1>4, <2>1, <2>3
    <2> QED
        BY <1>1, <1>3, <2>1, <2>2, <2>3, <2>4 DEF Drivable, Unwelcome, m
<1>10. CalmLoopDrives'
    <2>1. Recovery \in Int
        BY CalmConstants DEF Recovery
    <2>2. now - disturbed' >= Recovery => now - disturbed >= Recovery
        <3>1. now \in Int /\ disturbed \in Int
            BY <1>3
        <3>2. disturbed' \in 0..now /\ disturbed' >= disturbed
            BY <1>4
        <3> QED
            BY <2>1, <3>1, <3>2, LongerSince
    <2> QED
        BY <1>1, <2>2 DEF CalmInv, CalmLoopDrives
<1> QED
    BY <1>5, <1>6, <1>7, <1>8, <1>9, <1>10 DEF CalmInv

LEMMA ObserveKeepsCalm ==
    ASSUME BridgeInv, BridgeInv', CalmInv, Observe,
           DisturbedIf(Interrupted \/ Missed(now')), newest' = newest
    PROVE  CalmInv'
<1>1. PICK t \in now..now + MaxStep :
        /\ LatchedAt(t)
        /\ PeriodEnds \/ PeriodGoesOn(t) \/ PeriodObserves(t) \/ PeriodBegins(t)
    BY SkipPeriod, PublishPeriod, RejectPeriod DEF Observe
<1>2. now' = t
    BY <1>1 DEF LatchedAt
<1>3. CASE Interrupted \/ Missed(t)
    BY <1>1, <1>2, <1>3, DisturbedKeepsCalm DEF DisturbedIf
<1>4. CASE ~(Interrupted \/ Missed(t))
    <2>1. PeriodGoesOn(t) \/ PeriodObserves(t)
        BY <1>1, <1>4 DEF PeriodEnds, PeriodBegins, Interrupted
    <2> QED
        BY <1>1, <1>2, <1>4, <2>1, UndisturbedKeepsCalm DEF DisturbedIf
<1> QED
    BY <1>3, <1>4

LEMMA InitCalmInv == CalmInit => CalmInv
<1> SUFFICES ASSUME CalmInit PROVE CalmInv
    OBVIOUS
<1>1. /\ now = 0 /\ phase = "idle" /\ published = <<>> /\ disowned = 0
      /\ disturbed = 0 /\ newest = 0 /\ last_valid = FALSE
      /\ channel.received = FALSE
      /\ runtime.timeline.started = FALSE /\ runtime.timeline.previous_valid = FALSE
    BY DEF CalmInit, Init, NewRuntime, NewTimeline
<1> QED
    BY <1>1, CalmConstants
    DEF CalmInv, CalmTypeOK, ChannelInv, CadenceInv, LogInv, DeadlineInv, ResumeInv,
        DrivenInv, CalmLoopDrives, Recovery

LEMMA NextCalmInv == BridgeInv /\ BridgeInv' /\ CalmInv /\ [CalmNext]_calmVars => CalmInv'
<1> SUFFICES ASSUME BridgeInv, BridgeInv', CalmInv, [CalmNext]_calmVars PROVE CalmInv'
    OBVIOUS
<1>1. CASE Observe /\ DisturbedIf(Interrupted \/ Missed(now')) /\ newest' = newest
    BY <1>1, ObserveKeepsCalm
<1>2. ASSUME NEW busy \in BOOLEAN, Drive(busy) \/ Withhold(busy), DisturbedIf(busy),
             newest' = newest
      PROVE  CalmInv'
    <2>1. disturbed' = IF busy THEN now ELSE disturbed
        BY <1>2 DEF DisturbedIf, Drive, Withhold
    <2> QED
        BY <1>2, <2>1, DriveKeepsCalm, WithholdKeepsCalm
<1>3. CASE /\ Arrive /\ DisturbedIf(Unwelcome(channel'.incoming))
           /\ newest' = IF channel'.incoming.obs_seq > newest THEN channel'.incoming.obs_seq
                        ELSE newest
    BY <1>3, ArriveKeepsCalm
<1>4. CASE UNCHANGED calmVars
    BY <1>4 DEF calmVars, vars, CalmInv, CalmTypeOK, ChannelInv, Clean, CadenceInv, LogInv,
       DeadlineInv, ResumeInv, DrivenInv, Drivable, CalmLoopDrives
<1> QED
    BY <1>1, <1>2, <1>3, <1>4 DEF CalmNext

\* The history variables restrict nothing: CalmSpec is Spec.
LEMMA CalmIsBridge == CalmSpec => Spec
<1>1. CalmInit => Init
    BY DEF CalmInit
<1>2. [CalmNext]_calmVars => [Next]_vars
    BY DEF CalmNext, calmVars, Next, Act
<1> QED
    BY <1>1, <1>2, PTL DEF CalmSpec, Spec

\* Whatever the period, latency and jitter, as long as an answer takes at most a period
\* less the jitter and may be used for the two of them and the jitter: update()
\* (rl_bridge.cpp:101-177) drives from Recovery after the last disturbance on.
THEOREM CalmBridgeDrives == CalmSpec => []CalmLoopDrives
<1>1. CalmInv => CalmLoopDrives
    BY DEF CalmInv
<1>2. CalmSpec => []BridgeInv
    BY CalmIsBridge, BridgeInvariance, PTL
<1> QED
    BY <1>1, <1>2, InitCalmInv, NextCalmInv, PTL DEF CalmSpec
=============================================================================
