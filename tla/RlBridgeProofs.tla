--------------------------- MODULE RlBridgeProofs ---------------------------
(***************************************************************************)
(* Who may drive, for every value of the constants: any periods, history,  *)
(* limits of age, fallback, layouts and bounds.  The argument is one       *)
(* inductive invariant that ties the timeline, which the code decides on,  *)
(* to the log of what was published, which the properties speak of.        *)
(***************************************************************************)
EXTENDS RlBridge, TLAPS

\* The fields of the runtime record; what the history and the feedback hold is of no
\* concern to who drives.
IsRuntime(r) ==
    r = [last_actions |-> r.last_actions, written |-> r.written, history |-> r.history,
         feedback |-> r.feedback, last_feedback_obs_seq |-> r.last_feedback_obs_seq,
         timeline |-> r.timeline]

\* What a timeline says of the observations it still knows is true, they are of the
\* present control period, and a disabled bridge knows none.
TimelineMatches(tl, times, past) ==
    /\ tl.sequence = Len(times)
    /\ tl.started => Len(times) > past /\ tl.current = times[Len(times)]
    /\ tl.previous_valid =>
        tl.started /\ Len(times) - 1 > past /\ tl.previous = times[Len(times) - 1]

TimelineInv ==
    /\ TimelineMatches(runtime.timeline, published, disowned)
    /\ ~last_enabled => ~runtime.timeline.started

\* A message carries what was computed for the observation it answers, or NaN; the
\* snapshot may hold zeros instead, under flat hold or from a past control period.
MessageInv ==
    /\ channel.has_read => channel.received
    /\ channel.received =>
        /\ channel.incoming.obs_seq \in 1..Len(published)
        /\ channel.incoming.action \in {channel.incoming.obs_seq, NaN}
    /\ channel.has_read =>
        /\ snapshot.obs_seq \in 1..Len(published)
        /\ \/ snapshot.action \in {snapshot.obs_seq, NaN}
           \/ snapshot.action = 0 /\ (last_flat_hold \/ snapshot.obs_seq <= disowned)

ContractInv ==
    /\ MismatchIsLatched
    /\ ~contract_ok => ~last_valid

BridgeInv ==
    /\ ControlTypeOK /\ IsRuntime(runtime)
    /\ TimelineInv /\ MessageInv /\ ContractInv
    /\ DrivesOnlyCurrent /\ ControlIsRegainedAfresh
    /\ ExecutesTheAnswer /\ HealthyMeansDrivable
----------------------------------------------------------------------------
(* The timeline. *)

LEMMA ResetTimelineMatches ==
    ASSUME NEW tl \in Timelines, NEW times, NEW past, tl.sequence = Len(times)
    PROVE  /\ ResetTimeline(tl) \in Timelines
           /\ TimelineMatches(ResetTimeline(tl), times, past)
           /\ ~ResetTimeline(tl).started
BY DEF Timelines, ResetTimeline, TimelineMatches

LEMMA PublishFrameMatches ==
    ASSUME NEW tl \in Timelines, NEW times \in Seq(Int), NEW past \in 0..Len(times),
           NEW t \in Int, TimelineMatches(tl, times, past)
    PROVE  /\ PublishFrame(tl, t, PubPeriod) \in Timelines
           /\ TimelineMatches(PublishFrame(tl, t, PubPeriod), Append(times, t), past)
<1>1. Slot(tl, t, PubPeriod) \in Int
    BY BridgeAssumption DEF Slot, Timelines
<1>2. PublishFrame(tl, t, PubPeriod) \in Timelines
    BY <1>1 DEF PublishFrame, Timelines
<1>3. TimelineMatches(PublishFrame(tl, t, PubPeriod), Append(times, t), past)
    BY DEF PublishFrame, TimelineMatches, Timelines
<1> QED
    BY <1>2, <1>3

\* An age that is a number is the age of one of the last two observations, of this
\* control period.
LEMMA AgeMeans ==
    ASSUME NEW tl \in Timelines, NEW times \in Seq(Int), NEW past \in Nat, NEW t \in Int,
           NEW seq \in Nat, TimelineMatches(tl, times, past), AgeOf(tl, seq, t) # NaN
    PROVE  /\ tl.started
           /\ seq \in DOMAIN times /\ seq >= Len(times) - 1 /\ seq > past
           /\ AgeOf(tl, seq, t) = t - times[seq]
<1>1. CASE tl.started /\ seq = tl.sequence
    BY <1>1 DEF AgeOf, TimelineMatches, Timelines
<1>2. CASE ~(tl.started /\ seq = tl.sequence)
    <2>1. tl.previous_valid /\ seq = tl.sequence - 1
        BY <1>2 DEF AgeOf
    <2> QED
        BY <1>2, <2>1 DEF AgeOf, TimelineMatches, Timelines
<1> QED
    BY <1>1, <1>2

LEMMA CommandType == ASSUME NEW a \in Int PROVE Command(a) \in Int
BY BridgeAssumption DEF Command

----------------------------------------------------------------------------

LEMMA InitBridgeInv == Init => BridgeInv
<1> SUFFICES ASSUME Init PROVE BridgeInv
    OBVIOUS
<1>1. ControlTypeOK
    <2>1. runtime.timeline \in Timelines /\ runtime.written \in Int
        BY DEF Init, NewRuntime, NewTimeline, Timelines
    <2>2. NoMessage \in Messages
        BY BridgeAssumption DEF NoMessage, Messages
    <2>3. /\ channel \in [incoming : Messages, received : BOOLEAN, has_read : BOOLEAN]
          /\ snapshot \in Messages
        BY <2>2 DEF Init
    <2>4. outputs \in [action : Int \cup {NaN}, valid : BOOLEAN, healthy : BOOLEAN,
                      action_age : Int \cup {NaN}, obs_seq : Nat]
        BY DEF Init, NoOutputs
    <2>5. published \in Seq(0..MaxNow) /\ Len(published) <= MaxSequence
          /\ disowned \in 0..Len(published)
        BY BridgeAssumption DEF Init
    <2>6. now \in 0..MaxNow /\ phase \in {"idle", "act"}
        BY BridgeAssumption DEF Init
    <2>7. /\ layout_hash \in LayoutHashes
          /\ contract_ok \in BOOLEAN /\ last_valid \in BOOLEAN
          /\ last_enabled \in BOOLEAN /\ last_flat_hold \in BOOLEAN
          /\ last_reset_count \in Nat
        BY BridgeAssumption DEF Init
    <2> QED
        BY <2>1, <2>3, <2>4, <2>5, <2>6, <2>7 DEF ControlTypeOK
<1>2. IsRuntime(runtime)
    BY DEF Init, IsRuntime, NewRuntime
<1>3. TimelineInv
    BY DEF Init, TimelineInv, TimelineMatches, NewRuntime, NewTimeline
<1>4. MessageInv /\ ContractInv
    BY DEF Init, MessageInv, ContractInv, MismatchIsLatched
<1>5. DrivesOnlyCurrent /\ ControlIsRegainedAfresh /\ ExecutesTheAnswer /\ HealthyMeansDrivable
    BY DEF Init, NoOutputs, DrivesOnlyCurrent, ControlIsRegainedAfresh, ExecutesTheAnswer,
       HealthyMeansDrivable, Driving
<1> QED
    BY <1>1, <1>2, <1>3, <1>4, <1>5 DEF BridgeInv

----------------------------------------------------------------------------
(* The runtime record. *)

LEMMA ResetRuntimeIs ==
    ASSUME NEW r
    PROVE  /\ IsRuntime(ResetRuntime(r))
           /\ ResetRuntime(r).timeline = ResetTimeline(r.timeline)
           /\ ResetRuntime(r).written = 0
BY DEF ResetRuntime, NewRuntime, IsRuntime

LEMMA WithFeedbackIs ==
    ASSUME NEW r, IsRuntime(r), NEW t
    PROVE  /\ IsRuntime(WithFeedback(r, t))
           /\ WithFeedback(r, t).timeline = r.timeline
           /\ WithFeedback(r, t).written = r.written
BY DEF WithFeedback, IsRuntime

LEMMA PublishedIs ==
    ASSUME NEW r, IsRuntime(r), NEW t
    PROVE  /\ IsRuntime(Published(r, t))
           /\ Published(r, t).timeline = PublishFrame(r.timeline, t, PubPeriod)
           /\ Published(r, t).written = r.written
<1> DEFINE r1 == [r EXCEPT !.history =
                    AppendFrame(@, Frame(r.timeline.sequence + 1, r.last_actions), t)]
           r2 == [r1 EXCEPT !.timeline = PublishFrame(r.timeline, t, PubPeriod)]
<1>1. Published(r, t) = r2
    BY DEF Published
<1>2. IsRuntime(r1) /\ r1.timeline = r.timeline /\ r1.written = r.written
    BY DEF IsRuntime
<1> HIDE DEF r1
<1>3. IsRuntime(r2) /\ r2.timeline = PublishFrame(r.timeline, t, PubPeriod)
      /\ r2.written = r1.written
    BY <1>2 DEF IsRuntime
<1> HIDE DEF r2
<1> QED
    BY <1>1, <1>2, <1>3

LEMMA WithWrittenIs ==
    ASSUME NEW r, IsRuntime(r), NEW w
    PROVE  LET new == [r EXCEPT !.written = w]
           IN  IsRuntime(new) /\ new.timeline = r.timeline /\ new.written = w
BY DEF IsRuntime

LEMMA RememberedIs ==
    ASSUME NEW r, IsRuntime(r), NEW seq, NEW a, NEW age
    PROVE  LET new == Remembered(r, seq, a, age)
           IN  IsRuntime(new) /\ new.timeline = r.timeline /\ new.written = r.written
<1>1. CASE HistoryPeriod = 0
    BY <1>1 DEF Remembered, IsRuntime
<1>2. CASE HistoryPeriod # 0 /\ seq = r.last_feedback_obs_seq
    BY <1>2 DEF Remembered
<1>3. CASE HistoryPeriod # 0 /\ seq # r.last_feedback_obs_seq
    BY <1>3 DEF Remembered, IsRuntime
<1> QED
    BY <1>1, <1>2, <1>3

LEMMA DisabledIs ==
    ASSUME NEW r, IsRuntime(r), NEW h
    PROVE  LET new == [r EXCEPT !.last_actions = 0, !.written = 0, !.history = h]
           IN  IsRuntime(new) /\ new.timeline = r.timeline /\ new.written = 0
<1> DEFINE r1 == [r EXCEPT !.last_actions = 0]
           r2 == [r1 EXCEPT !.written = 0]
           r3 == [r2 EXCEPT !.history = h]
<1>1. [r EXCEPT !.last_actions = 0, !.written = 0, !.history = h] = r3
    OBVIOUS
<1>2. IsRuntime(r1) /\ r1.timeline = r.timeline
    BY DEF IsRuntime
<1> HIDE DEF r1
<1>3. IsRuntime(r2) /\ r2.timeline = r1.timeline /\ r2.written = 0
    BY <1>2 DEF IsRuntime
<1> HIDE DEF r2
<1>4. IsRuntime(r3) /\ r3.timeline = r2.timeline /\ r3.written = r2.written
    BY <1>3 DEF IsRuntime
<1> HIDE DEF r3
<1> QED
    BY <1>1, <1>2, <1>3, <1>4

LEMMA PreparedIs ==
    ASSUME IsRuntime(runtime), runtime.written \in Int, NEW e, NEW f, NEW r
    PROVE  /\ IsRuntime(Prepared(e, f, r))
           /\ Prepared(e, f, r).timeline =
                IF ResetRequested(r) \/ ModeChanged(e, f)
                THEN ResetTimeline(runtime.timeline) ELSE runtime.timeline
           /\ Prepared(e, f, r).written \in Int
<1> DEFINE kept == IF ResetRequested(r) \/ ModeChanged(e, f) THEN ResetRuntime(runtime)
                                                             ELSE runtime
<1>1. /\ IsRuntime(kept)
      /\ kept.timeline = IF ResetRequested(r) \/ ModeChanged(e, f)
                         THEN ResetTimeline(runtime.timeline) ELSE runtime.timeline
      /\ kept.written \in Int
    BY ResetRuntimeIs
<1>2. Prepared(e, f, r) =
        IF Enabled(e) THEN kept
        ELSE [kept EXCEPT !.last_actions = 0, !.written = 0, !.history = EmptyHistory]
    BY DEF Prepared
<1> HIDE DEF kept
<1>3. CASE Enabled(e)
    BY <1>1, <1>2, <1>3
<1>4. CASE ~Enabled(e)
    <2> DEFINE new == [kept EXCEPT !.last_actions = 0, !.written = 0, !.history = EmptyHistory]
    <2>1. IsRuntime(new) /\ new.timeline = kept.timeline /\ new.written = 0
        BY <1>1, DisabledIs
    <2>2. Prepared(e, f, r) = new
        BY <1>2, <1>4
    <2> HIDE DEF new
    <2> QED
        BY <1>1, <2>1, <2>2
<1> QED
    BY <1>3, <1>4

----------------------------------------------------------------------------
(* The first half of a cycle.  Between the two halves nobody drives, so what is left   *)
(* to keep is the timeline, what the snapshot may hold, and the types.                 *)

\* After the inputs are latched, whatever way the runtime comes out.
LEMMA LatchedBridgeInv ==
    ASSUME BridgeInv,
           NEW t \in now..now + MaxStep, t <= MaxNow, NEW e, NEW f, NEW r \in ResetInputs,
           LatchInputs(t, e, f, r),
           IsRuntime(runtime'), runtime'.timeline \in Timelines, runtime'.written \in Int,
           TimelineMatches(runtime'.timeline, published', disowned'),
           ~Enabled(e) => ~runtime'.timeline.started,
           \/ published' = published
           \/ Len(published) < MaxSequence /\ published' = Append(published, t),
           \/ disowned' = Len(published)
           \/ disowned' = disowned /\ ~ModeChanged(e, f)
    PROVE  BridgeInv'
<1>1. /\ published \in Seq(0..MaxNow) /\ disowned \in 0..Len(published) /\ now \in 0..MaxNow
      /\ Len(published) <= MaxSequence
    BY DEF BridgeInv, ControlTypeOK
<1>2. /\ published' \in Seq(0..MaxNow) /\ Len(published') <= MaxSequence
      /\ Len(published) <= Len(published') /\ Len(published') \in Nat
    <2>1. CASE published' = published
        BY <1>1, <2>1
    <2>2. CASE Len(published) < MaxSequence /\ published' = Append(published, t)
        <3>1. t \in 0..MaxNow
            BY <1>1, BridgeAssumption
        <3>2. /\ published' \in Seq(0..MaxNow) /\ Len(published') = Len(published) + 1
            BY <1>1, <2>2, <3>1
        <3> QED
            BY <1>1, <2>2, <3>2, BridgeAssumption
    <2> QED
        BY <2>1, <2>2
<1>3. disowned' \in 0..Len(published')
    BY <1>1, <1>2
<1>4. ControlTypeOK'
    <2>1. /\ now' \in 0..MaxNow /\ phase' \in {"idle", "act"}
        BY <1>1, BridgeAssumption DEF LatchInputs
    <2>2. Enabled(e) \in BOOLEAN /\ FlatHold(f) \in BOOLEAN
        BY BridgeAssumption DEF Enabled, FlatHold
    <2>3. last_enabled' \in BOOLEAN /\ last_flat_hold' \in BOOLEAN
        BY <2>2, Zenon DEF LatchInputs
    <2>4. last_reset_count' \in Nat
        BY BridgeAssumption DEF LatchInputs, ResetRequested, BridgeInv, ControlTypeOK
    <2> QED
        BY <1>2, <1>3, <2>1, <2>3, <2>4 DEF LatchInputs, BridgeInv, ControlTypeOK
<1>5. TimelineInv'
    BY DEF TimelineInv, LatchInputs
<1>6. MessageInv'
    BY <1>1, <1>2 DEF LatchInputs, ModeChanged, BridgeInv, MessageInv
<1>7. ContractInv'
    BY DEF LatchInputs, BridgeInv, ContractInv, MismatchIsLatched
<1>8. phase' # "idle"
    BY DEF LatchInputs
<1>9. DrivesOnlyCurrent' /\ ControlIsRegainedAfresh' /\ ExecutesTheAnswer' /\ HealthyMeansDrivable'
    BY <1>8 DEF DrivesOnlyCurrent, ControlIsRegainedAfresh, ExecutesTheAnswer,
       HealthyMeansDrivable, Driving
<1> QED
    BY <1>4, <1>5, <1>6, <1>7, <1>9 DEF BridgeInv

\* The runtime when the cycle comes to publishing agrees with the log, and a disabled
\* bridge knows no observation.
LEMMA PreparedMatches ==
    ASSUME BridgeInv, NEW e, NEW f, NEW r, KeepOrGiveUp(e, f, r)
    PROVE  LET new == Prepared(e, f, r)
           IN  /\ IsRuntime(new) /\ new.timeline \in Timelines /\ new.written \in Int
               /\ TimelineMatches(new.timeline, published, disowned')
               /\ ~Enabled(e) => ~new.timeline.started
               /\ \/ disowned' = Len(published)
                  \/ disowned' = disowned /\ ~ModeChanged(e, f)
<1> DEFINE new == Prepared(e, f, r)
<1>1. /\ IsRuntime(runtime) /\ runtime.written \in Int /\ runtime.timeline \in Timelines
      /\ TimelineMatches(runtime.timeline, published, disowned)
      /\ ~last_enabled => ~runtime.timeline.started
    BY DEF BridgeInv, ControlTypeOK, TimelineInv
<1>2. /\ IsRuntime(new) /\ new.written \in Int
      /\ new.timeline = IF ResetRequested(r) \/ ModeChanged(e, f)
                        THEN ResetTimeline(runtime.timeline) ELSE runtime.timeline
    BY <1>1, PreparedIs
<1> HIDE DEF new
<1>3. CASE ResetRequested(r) \/ ModeChanged(e, f)
    <2>1. disowned' = Len(published)
        BY <1>3 DEF KeepOrGiveUp, GiveUp
    <2>2. runtime.timeline.sequence = Len(published)
        BY <1>1 DEF TimelineMatches
    <2>3. /\ ResetTimeline(runtime.timeline) \in Timelines
          /\ TimelineMatches(ResetTimeline(runtime.timeline), published, disowned')
          /\ ~ResetTimeline(runtime.timeline).started
        BY <1>1, <2>2, ResetTimelineMatches
    <2> QED
        BY <1>2, <1>3, <2>1, <2>3 DEF new
<1>4. CASE ~(ResetRequested(r) \/ ModeChanged(e, f))
    <2>1. disowned' = disowned /\ Enabled(e) = last_enabled
        BY <1>4 DEF KeepOrGiveUp, ModeChanged
    <2> QED
        BY <1>1, <1>2, <1>4, <2>1 DEF new
<1> QED
    BY <1>3, <1>4

LEMMA SkipKeepsInv ==
    ASSUME BridgeInv, NEW t \in now..now + MaxStep, t <= MaxNow, NEW e, NEW f,
           NEW r \in ResetInputs, SkipObservation(t, e, f, r)
    PROVE  BridgeInv'
<1>1. /\ LatchInputs(t, e, f, r) /\ KeepOrGiveUp(e, f, r)
      /\ runtime' = Prepared(e, f, r) /\ published' = published
    BY DEF SkipObservation
<1> QED
    BY <1>1, PreparedMatches, LatchedBridgeInv

LEMMA PublishKeepsInv ==
    ASSUME BridgeInv, NEW t \in now..now + MaxStep, t <= MaxNow, NEW e, NEW f,
           NEW r \in ResetInputs, PublishObservation(t, e, f, r)
    PROVE  BridgeInv'
<1> DEFINE ready == Prepared(e, f, r)
           shown == WithFeedback(ready, t)
<1>1. /\ LatchInputs(t, e, f, r) /\ KeepOrGiveUp(e, f, r)
      /\ Enabled(e) /\ Len(published) < MaxSequence
      /\ runtime' = Published(shown, t) /\ published' = Append(published, t)
    BY DEF PublishObservation, MayPublish
<1>2. /\ IsRuntime(ready) /\ ready.timeline \in Timelines /\ ready.written \in Int
      /\ TimelineMatches(ready.timeline, published, disowned')
      /\ \/ disowned' = Len(published)
         \/ disowned' = disowned /\ ~ModeChanged(e, f)
    BY <1>1, PreparedMatches
<1> HIDE DEF ready
<1>3. IsRuntime(shown) /\ shown.timeline = ready.timeline /\ shown.written = ready.written
    BY <1>2, WithFeedbackIs
<1> HIDE DEF shown
<1>4. /\ IsRuntime(runtime') /\ runtime'.written \in Int
      /\ runtime'.timeline = PublishFrame(ready.timeline, t, PubPeriod)
    BY <1>1, <1>2, <1>3, PublishedIs
<1>5. /\ runtime'.timeline \in Timelines
      /\ TimelineMatches(runtime'.timeline, published', disowned')
    <2>1. /\ published \in Seq(Int) /\ disowned' \in 0..Len(published) /\ t \in Int
        BY <1>2, BridgeAssumption DEF BridgeInv, ControlTypeOK
    <2> QED
        BY <1>1, <1>2, <1>4, <2>1, PublishFrameMatches
<1> QED
    BY <1>1, <1>2, <1>4, <1>5, LatchedBridgeInv

LEMMA RejectKeepsInv ==
    ASSUME BridgeInv, NEW t \in now..now + MaxStep, t <= MaxNow, NEW e, NEW f,
           NEW r \in ResetInputs, RejectObservation(t, e, f, r)
    PROVE  BridgeInv'
<1> DEFINE ready == Prepared(e, f, r)
<1>1. /\ LatchInputs(t, e, f, r)
      /\ runtime' = ResetRuntime(ready)
      /\ published' = published /\ disowned' = Len(published)
    BY DEF RejectObservation, GiveUp
<1>2. ready.timeline = IF ResetRequested(r) \/ ModeChanged(e, f)
                       THEN ResetTimeline(runtime.timeline) ELSE runtime.timeline
    BY PreparedIs DEF BridgeInv, ControlTypeOK
<1>3. ready.timeline \in Timelines /\ ready.timeline.sequence = Len(published)
    BY <1>2, ResetTimelineMatches
    DEF BridgeInv, ControlTypeOK, TimelineInv, TimelineMatches
<1> HIDE DEF ready
<1>4. /\ IsRuntime(runtime') /\ runtime'.written \in Int
      /\ runtime'.timeline = ResetTimeline(ready.timeline)
    BY <1>1, ResetRuntimeIs
<1>5. /\ runtime'.timeline \in Timelines /\ ~runtime'.timeline.started
      /\ TimelineMatches(runtime'.timeline, published', disowned')
    BY <1>1, <1>3, <1>4, ResetTimelineMatches
<1> QED
    BY <1>1, <1>4, <1>5, LatchedBridgeInv

----------------------------------------------------------------------------
(* The second half of a cycle: the snapshot, what its age says of it, and who drives.  *)

\* The snapshot a cycle works with is one of the two the channel remembers.
LEMMA SnapshotIs ==
    ASSUME BridgeInv, NEW busy \in BOOLEAN
    PROVE  /\ Snapshot(busy) \in Messages
           /\ channel.has_read \/ (~busy /\ channel.received) <=> HasSnapshot(busy)
           /\ HasSnapshot(busy) =>
                /\ Snapshot(busy).obs_seq \in 1..Len(published)
                /\ \/ Snapshot(busy).action \in {Snapshot(busy).obs_seq, NaN}
                   \/ /\ Snapshot(busy).action = 0
                      /\ last_flat_hold \/ Snapshot(busy).obs_seq <= disowned
           /\ ~HasSnapshot(busy) => ~channel.has_read
<1>1. CASE ~busy /\ channel.received
    BY <1>1 DEF Snapshot, HasSnapshot, BridgeInv, ControlTypeOK, MessageInv
<1>2. CASE ~(~busy /\ channel.received)
    BY <1>2 DEF Snapshot, HasSnapshot, BridgeInv, ControlTypeOK, MessageInv
<1> QED
    BY <1>1, <1>2

LEMMA AgeType ==
    ASSUME BridgeInv, NEW busy \in BOOLEAN
    PROVE  Age(busy) \in Int \cup {NaN} /\ (Age(busy) # NaN => HasSnapshot(busy))
BY DEF Age, AgeOf, BridgeInv, ControlTypeOK, Timelines

\* A fresh snapshot answers one of the last two observations of this control period.
LEMMA FreshMeans ==
    ASSUME BridgeInv, NEW busy \in BOOLEAN, Age(busy) # NaN
    PROVE  LET n == Snapshot(busy).obs_seq
           IN  /\ HasSnapshot(busy) /\ last_enabled
               /\ n \in DOMAIN published /\ n >= Len(published) - 1 /\ n > disowned
               /\ Age(busy) = now - published[n]
<1>1. Snapshot(busy).obs_seq \in Nat
    BY SnapshotIs DEF Messages
<1>2. HasSnapshot(busy) /\ AgeOf(runtime.timeline, Snapshot(busy).obs_seq, now) # NaN
      /\ Age(busy) = AgeOf(runtime.timeline, Snapshot(busy).obs_seq, now)
    BY DEF Age
<1>3. /\ runtime.timeline \in Timelines /\ published \in Seq(Int) /\ disowned \in Nat
      /\ now \in Int /\ TimelineMatches(runtime.timeline, published, disowned)
      /\ ~last_enabled => ~runtime.timeline.started
    BY BridgeAssumption DEF BridgeInv, ControlTypeOK, TimelineInv
<1> QED
    BY <1>1, <1>2, <1>3, AgeMeans

LEMMA DriveKeepsInv ==
    ASSUME BridgeInv, NEW busy \in BOOLEAN, Drive(busy)
    PROVE  BridgeInv'
<1> DEFINE n == Snapshot(busy).obs_seq
           a == IF last_flat_hold THEN 0 ELSE Snapshot(busy).action
           written == [runtime EXCEPT !.written = Command(a)]
<1>1. /\ last_enabled /\ ContractHolds(busy) /\ Finite(busy)
      /\ Age(busy) # NaN /\ Age(busy) <= MaxActionAge
    BY DEF Drive, Valid, Fresh
<1>2. /\ snapshot' = [Snapshot(busy) EXCEPT !.action = a]
      /\ runtime' = Remembered(written, n, a, Age(busy))
      /\ channel' = [channel EXCEPT !.has_read = @ \/ (~busy /\ channel.received)]
      /\ outputs' = [action |-> Command(a), valid |-> TRUE, healthy |-> TRUE,
                     action_age |-> Age(busy), obs_seq |-> runtime.timeline.sequence]
      /\ phase' = "idle" /\ last_valid' = TRUE
      /\ UNCHANGED <<now, layout_hash, contract_ok, last_enabled, last_flat_hold,
                     last_reset_count, published, disowned>>
    BY DEF Drive, TryRead
<1>3. /\ HasSnapshot(busy)
      /\ n \in DOMAIN published /\ n >= Len(published) - 1 /\ n > disowned
      /\ Age(busy) = now - published[n]
    BY <1>1, FreshMeans
<1>4. a \in 0..MaxSequence /\ (a = 0 \/ a = n) /\ (~last_flat_hold => a = n)
    <2>1. n \in Nat /\ n <= MaxSequence /\ disowned \in Nat
        BY <1>3, BridgeAssumption DEF BridgeInv, ControlTypeOK
    <2>2. Snapshot(busy).action = n \/ (Snapshot(busy).action = 0 /\ last_flat_hold)
        BY <1>1, <1>3, <2>1, SnapshotIs DEF Finite
    <2> QED
        BY <2>1, <2>2, BridgeAssumption
<1>5. snapshot' \in Messages /\ snapshot'.obs_seq = n /\ snapshot'.action = a
      /\ snapshot'.layout_hash = Snapshot(busy).layout_hash
    BY <1>2, <1>4, SnapshotIs DEF Messages
<1>6. IsRuntime(runtime') /\ runtime'.timeline = runtime.timeline
      /\ runtime'.written = Command(a)
    <2>1. IsRuntime(written) /\ written.timeline = runtime.timeline
          /\ written.written = Command(a)
        BY WithWrittenIs DEF BridgeInv
    <2> HIDE DEF written
    <2> QED
        BY <1>2, <2>1, RememberedIs
<1>7. channel'.incoming = channel.incoming /\ channel'.received = channel.received
      /\ channel'.has_read
      /\ channel' \in [incoming : Messages, received : BOOLEAN, has_read : BOOLEAN]
    BY <1>2, <1>3, SnapshotIs DEF BridgeInv, ControlTypeOK
<1>8. Command(a) \in Int
    BY <1>4, CommandType
<1> HIDE DEF n, a, written
<1>9. ControlTypeOK'
    <2>1. outputs' \in [action : Int \cup {NaN}, valid : BOOLEAN, healthy : BOOLEAN,
                        action_age : Int \cup {NaN}, obs_seq : Nat]
        BY <1>2, <1>8, AgeType DEF BridgeInv, ControlTypeOK, Timelines
    <2> QED
        BY <1>2, <1>5, <1>6, <1>7, <1>8, <2>1 DEF BridgeInv, ControlTypeOK
<1>10. TimelineInv'
    BY <1>2, <1>6 DEF BridgeInv, TimelineInv
<1>11. MessageInv'
    BY <1>2, <1>3, <1>4, <1>5, <1>7 DEF BridgeInv, MessageInv, HasSnapshot, ControlTypeOK
<1>12. ContractInv'
    BY <1>1, <1>2, <1>3, <1>5
    DEF BridgeInv, ContractInv, MismatchIsLatched, ContractHolds
<1>13. DrivesOnlyCurrent' /\ ControlIsRegainedAfresh'
    BY <1>1, <1>2, <1>3, <1>5 DEF DrivesOnlyCurrent, ControlIsRegainedAfresh, Driving
<1>14. ExecutesTheAnswer'
    BY <1>2, <1>4, <1>5 DEF ExecutesTheAnswer, Driving, a, Command
<1>15. HealthyMeansDrivable'
    BY <1>1, <1>2 DEF HealthyMeansDrivable
<1> QED
    BY <1>2, <1>6, <1>9, <1>10, <1>11, <1>12, <1>13, <1>14, <1>15 DEF BridgeInv

LEMMA WithholdKeepsInv ==
    ASSUME BridgeInv, NEW busy \in BOOLEAN, Withhold(busy)
    PROVE  BridgeInv'
<1>1. /\ snapshot' = Snapshot(busy)
      /\ channel' = [channel EXCEPT !.has_read = @ \/ (~busy /\ channel.received)]
      /\ contract_ok' = ContractHolds(busy)
      /\ outputs' = [action |-> Fallback, valid |-> FALSE,
                     healthy |-> ContractHolds(busy) /\ Fresh(busy),
                     action_age |-> Age(busy), obs_seq |-> runtime.timeline.sequence]
      /\ phase' = "idle" /\ last_valid' = FALSE
      /\ UNCHANGED <<now, layout_hash, last_enabled, last_flat_hold, last_reset_count, published>>
      /\ ~Valid(busy)
    BY DEF Withhold, TryRead
<1>2. /\ IsRuntime(runtime') /\ runtime'.timeline \in Timelines /\ runtime'.written \in Int
      /\ TimelineMatches(runtime'.timeline, published, disowned')
      /\ ~last_enabled => ~runtime'.timeline.started
      /\ disowned' \in 0..Len(published) /\ disowned' >= disowned
    <2>1. CASE last_valid
        <3>1. runtime' = ResetRuntime(runtime) /\ disowned' = Len(published)
            BY <2>1 DEF Withhold, GiveUp
        <3>2. runtime.timeline.sequence = Len(published) /\ runtime.timeline \in Timelines
              /\ disowned \in 0..Len(published) /\ Len(published) \in Nat
            BY DEF BridgeInv, ControlTypeOK, TimelineInv, TimelineMatches
        <3>3. IsRuntime(runtime') /\ runtime'.written = 0
              /\ runtime'.timeline = ResetTimeline(runtime.timeline)
            BY <3>1, ResetRuntimeIs
        <3> QED
            BY <3>1, <3>2, <3>3, ResetTimelineMatches
    <2>2. CASE ~last_valid
        BY <2>2 DEF Withhold, BridgeInv, ControlTypeOK, TimelineInv
    <2> QED
        BY <2>1, <2>2 DEF BridgeInv, ControlTypeOK
<1>3. /\ channel' \in [incoming : Messages, received : BOOLEAN, has_read : BOOLEAN]
      /\ channel'.incoming = channel.incoming /\ channel'.received = channel.received
      /\ channel'.has_read <=> HasSnapshot(busy)
    BY <1>1, SnapshotIs DEF BridgeInv, ControlTypeOK
<1>4. ContractHolds(busy) \in BOOLEAN /\ (ContractHolds(busy) /\ Fresh(busy)) \in BOOLEAN
    BY DEF ContractHolds, BridgeInv, ControlTypeOK
<1>5. ControlTypeOK'
    <2>1. Fallback \in Int \cup {NaN}
        BY BridgeAssumption DEF Fallback, BridgeInv, ControlTypeOK
    <2>2. outputs' \in [action : Int \cup {NaN}, valid : BOOLEAN, healthy : BOOLEAN,
                        action_age : Int \cup {NaN}, obs_seq : Nat]
        BY <1>1, <1>4, <2>1, AgeType DEF BridgeInv, ControlTypeOK, Timelines
    <2>3. contract_ok' \in BOOLEAN
        BY <1>1, <1>4
    <2> QED
        BY <1>1, <1>2, <1>3, <2>2, <2>3, SnapshotIs DEF BridgeInv, ControlTypeOK
<1>6. TimelineInv'
    BY <1>1, <1>2 DEF TimelineInv
<1>7. MessageInv'
    BY <1>1, <1>2, <1>3, SnapshotIs DEF BridgeInv, MessageInv, HasSnapshot, ControlTypeOK
<1>8. ContractInv'
    BY <1>1, <1>3 DEF ContractInv, MismatchIsLatched, ContractHolds
<1>9. DrivesOnlyCurrent' /\ ControlIsRegainedAfresh' /\ ExecutesTheAnswer'
    BY <1>1 DEF DrivesOnlyCurrent, ControlIsRegainedAfresh, ExecutesTheAnswer, Driving
<1>10. HealthyMeansDrivable'
    BY <1>1, FreshMeans DEF HealthyMeansDrivable, Valid, Fresh, Finite
<1> QED
    BY <1>2, <1>5, <1>6, <1>7, <1>8, <1>9, <1>10 DEF BridgeInv

----------------------------------------------------------------------------
(* The ROS thread, and all steps together.                                             *)

LEMMA StoreKeepsInv ==
    ASSUME BridgeInv, NEW n \in 1..Len(published), NEW hash \in LayoutHashes,
           NEW id \in ModelIds, NEW a \in {n} \cup NonFinite,
           Store([obs_seq |-> n, layout_hash |-> hash, model_id |-> id, action |-> a])
    PROVE  BridgeInv'
<1> DEFINE m == [obs_seq |-> n, layout_hash |-> hash, model_id |-> id, action |-> a]
<1>1. /\ channel' = [channel EXCEPT !.incoming = m, !.received = TRUE]
      /\ UNCHANGED <<now, phase, runtime, layout_hash, contract_ok, last_valid,
                     last_enabled, last_flat_hold, last_reset_count, snapshot, outputs, published,
                     disowned, executed, answered>>
    BY DEF Store
<1>2. m \in Messages /\ m.obs_seq = n /\ m.action \in {n, NaN}
    BY BridgeAssumption DEF Messages, BridgeInv, ControlTypeOK
<1> HIDE DEF m
<1>3. /\ channel' \in [incoming : Messages, received : BOOLEAN, has_read : BOOLEAN]
      /\ channel'.incoming = m /\ channel'.received /\ channel'.has_read = channel.has_read
    <2> DEFINE c1 == [channel EXCEPT !.incoming = m]
               c2 == [c1 EXCEPT !.received = TRUE]
    <2>1. channel' = c2
        BY <1>1
    <2>2. /\ c1 \in [incoming : Messages, received : BOOLEAN, has_read : BOOLEAN]
          /\ c1.incoming = m /\ c1.has_read = channel.has_read
        BY <1>2 DEF BridgeInv, ControlTypeOK
    <2> HIDE DEF c1
    <2>3. /\ c2 \in [incoming : Messages, received : BOOLEAN, has_read : BOOLEAN]
          /\ c2.incoming = c1.incoming /\ c2.received /\ c2.has_read = c1.has_read
        BY <2>2
    <2> QED
        BY <2>1, <2>2, <2>3
<1>4. ControlTypeOK' /\ TimelineInv'
    BY <1>1, <1>3 DEF BridgeInv, ControlTypeOK, TimelineInv
<1>5. MessageInv' /\ ContractInv'
    BY <1>1, <1>2, <1>3 DEF BridgeInv, MessageInv, ContractInv, MismatchIsLatched
<1>6. DrivesOnlyCurrent' /\ ControlIsRegainedAfresh' /\ ExecutesTheAnswer'
      /\ HealthyMeansDrivable'
    BY <1>1 DEF BridgeInv, DrivesOnlyCurrent, ControlIsRegainedAfresh, ExecutesTheAnswer,
       HealthyMeansDrivable, Driving
<1> QED
    BY <1>1, <1>4, <1>5, <1>6 DEF BridgeInv

LEMMA NextBridgeInv == BridgeInv /\ [Next]_vars => BridgeInv'
<1> SUFFICES ASSUME BridgeInv, [Next]_vars PROVE BridgeInv'
    OBVIOUS
<1>1. CASE Observe
    BY <1>1, SkipKeepsInv, PublishKeepsInv, RejectKeepsInv DEF Observe
<1>2. CASE Act
    BY <1>2, DriveKeepsInv, WithholdKeepsInv DEF Act
<1>3. CASE Arrive
    BY <1>3, StoreKeepsInv DEF Arrive
<1>4. CASE UNCHANGED vars
    BY <1>4 DEF vars, BridgeInv, ControlTypeOK, TimelineInv, MessageInv, ContractInv,
       MismatchIsLatched, DrivesOnlyCurrent, ControlIsRegainedAfresh, ExecutesTheAnswer,
       HealthyMeansDrivable, Driving
<1> QED
    BY <1>1, <1>2, <1>3, <1>4 DEF Next

\* The invariant of update() (rl_bridge.cpp:101-177) and on_action_() on any input.
THEOREM BridgeInvariance == Spec => []BridgeInv
<1> QED
    BY InitBridgeInv, NextBridgeInv, PTL DEF Spec

\* What the decisions of update() read always has its type.
THEOREM BridgeControlType == Spec => []ControlTypeOK
<1>1. BridgeInv => ControlTypeOK
    BY DEF BridgeInv
<1> QED
    BY <1>1, BridgeInvariance, PTL

\* Whatever the periods, the limit and the inputs, an action that drives answers one of
\* the last two observations and is younger than max_action_age.
THEOREM BridgeDrivesOnlyCurrent == Spec => []DrivesOnlyCurrent
<1>1. BridgeInv => DrivesOnlyCurrent
    BY DEF BridgeInv
<1> QED
    BY <1>1, BridgeInvariance, PTL

\* No answer from before a reset, a change of mode or a loss of validity drives.
THEOREM BridgeRegainsAfresh == Spec => []ControlIsRegainedAfresh
<1>1. BridgeInv => ControlIsRegainedAfresh
    BY DEF BridgeInv
<1> QED
    BY <1>1, BridgeInvariance, PTL

\* What drives is the answer to the credited observation: the zeros that flat hold
\* leaves in the snapshot never pass for one.
THEOREM BridgeExecutesTheAnswer == Spec => []ExecutesTheAnswer
<1>1. BridgeInv => ExecutesTheAnswer
    BY DEF BridgeInv
<1> QED
    BY <1>1, BridgeInvariance, PTL

\* healthy without valid can only mean a non-finite action.
THEOREM BridgeHealthyMeansDrivable == Spec => []HealthyMeansDrivable
<1>1. BridgeInv => HealthyMeansDrivable
    BY DEF BridgeInv
<1> QED
    BY <1>1, BridgeInvariance, PTL

\* A layout mismatch that was read is latched.
THEOREM BridgeLatchesMismatch == Spec => []MismatchIsLatched
<1>1. BridgeInv => MismatchIsLatched
    BY DEF BridgeInv, ContractInv
<1> QED
    BY <1>1, BridgeInvariance, PTL

\* And the latch is never released: after a refusal no step leaves the bridge driven.
THEOREM BridgeRefusalIsFinal == Spec => RefusalIsFinal
<1>1. BridgeInv /\ BridgeInv' /\ [Next]_vars => [~contract_ok => ~contract_ok' /\ ~last_valid']_vars
    <2> SUFFICES ASSUME BridgeInv, BridgeInv', [Next]_vars, ~contract_ok
                 PROVE  ~contract_ok'
        BY DEF BridgeInv, ContractInv
    <2>1. CASE Observe
        BY <2>1 DEF Observe, SkipObservation, PublishObservation, RejectObservation,
           LatchInputs
    <2>2. CASE Act
        <3>1. PICK busy \in BOOLEAN : Drive(busy) \/ Withhold(busy)
            BY <2>2 DEF Act
        <3>2. CASE Drive(busy)
            BY <3>2 DEF Drive
        <3>3. CASE Withhold(busy)
            BY <3>3 DEF Withhold, ContractHolds
        <3> QED
            BY <3>1, <3>2, <3>3
    <2>3. CASE Arrive
        BY <2>3 DEF Arrive, Store
    <2>4. CASE UNCHANGED vars
        BY <2>4 DEF vars
    <2> QED
        BY <2>1, <2>2, <2>3, <2>4 DEF Next
<1> QED
    BY <1>1, BridgeInvariance, PTL DEF Spec, RefusalIsFinal
=============================================================================
