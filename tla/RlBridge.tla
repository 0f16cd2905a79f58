------------------------------ MODULE RlBridge ------------------------------
(***************************************************************************)
(* The bridge component (src/rl_bridge.cpp) between the control loop and   *)
(* the policy process.  The executor calls update() once per cycle; a ROS  *)
(* thread stores arriving actions in the action channel at any time.       *)
(*                                                                         *)
(* update() is two steps, the first ending where it is about to look into  *)
(* the channel: Observe (lines 101-120: reset, enable and flat-hold        *)
(* inputs, publication) and Act (lines 122-177: read the channel, decide   *)
(* who drives, write the outputs).  An action can arrive between them.     *)
(* The channel is the atomic register module ActionChannel implements.     *)
(*                                                                         *)
(* The environment is open: it chooses every input of every cycle and      *)
(* stores any answer to any observation published so far.  The action      *)
(* computed for observation n is written n, so that a value tells which    *)
(* observation it answers; 0 is the vector of zeros.                       *)
(***************************************************************************)
EXTENDS ObservationTimeline, ObservationHistory, ActionFeedbackHistory

CONSTANTS PubPeriod, MaxActionAge,      \* config_.pub_period, config_.max_action_age
          InvalidMode,                  \* config_.invalid_mode: "nan", "zero" or "hold"
          LayoutHashes, Layouts,        \* the hashes of messages; those a bridge may be built with
          ModelIds,                     \* the model ids of messages
          EnableDefault,                \* config_.enable_default
          Scale, ClipMin, ClipMax,      \* of the action term
          Unready,                      \* what an input interface without a value reads as
          EnableInputs, FlatHoldInputs, ResetInputs,  \* what the control inputs may read
          NonFinite,                    \* non-finite actions a policy may send: {} or {NaN}
          MaxNow, MaxStep, MaxSequence  \* bounds of the model

ASSUME BridgeAssumption ==
    /\ PubPeriod \in Nat
    /\ MaxActionAge \in Nat
    /\ InvalidMode \in {"nan", "zero", "hold"}
    /\ Layouts \subseteq LayoutHashes
    /\ EnableDefault \in BOOLEAN
    /\ Scale \in Int /\ ClipMin \in Int /\ ClipMax \in Int
    /\ ResetInputs \subseteq Nat \cup {Unready}
    /\ NonFinite \subseteq {NaN}
    /\ MaxNow \in Nat /\ MaxStep \in Nat /\ MaxSequence \in Nat

VARIABLES
    now,                \* the time update() reads at its start
    phase,              \* where the executor is: "idle" or "act"
    runtime,            \* the state reset_runtime_() clears
    layout_hash,        \* of the observation terms, set by before_pairing()
    contract_ok, last_valid, last_enabled, last_flat_hold, last_reset_count,
    channel,            \* incoming_, received_ and has_read_ of the ActionChannel
    snapshot,           \* read_snapshot_
    outputs,            \* the output interfaces, as last written
    \* History variables, read by no action:
    published,          \* the time of every observation published, by number
    disowned,           \* number of the last one published before control was last given up
    executed,           \* the raw action the last cycle executed, 0 if it executed none
    answered            \* the observations answered in order since control was given up

vars == <<now, phase, runtime, layout_hash, contract_ok, last_valid, last_enabled,
          last_flat_hold, last_reset_count, channel, snapshot, outputs, published, disowned, executed, answered>>

----------------------------------------------------------------------------
(* The values the state is made of. *)

\* What is put on the action topic: msg/Action.msg.
Messages == [obs_seq : 0..MaxSequence, layout_hash : LayoutHashes \cup {0}, model_id : ModelIds \cup {0},
             action : (0..MaxSequence) \cup {NaN}]

NewRuntime == [last_actions |-> 0, written |-> 0, history |-> EmptyHistory,
               feedback |-> EmptyFeedback, last_feedback_obs_seq |-> 0,
               timeline |-> NewTimeline]

NoMessage == [obs_seq |-> 0, layout_hash |-> 0, model_id |-> 0, action |-> 0]

NoOutputs == [action |-> 0, valid |-> FALSE, healthy |-> FALSE, action_age |-> NaN, obs_seq |-> 0]

\* The frame build_observation() returns: the sensors as sampled for the seq-th
\* observation, and the previous action next to them.
Frame(seq, last) == [seq |-> seq, last_action |-> last]

\* No frame is mistaken for a frame of zeros.
ASSUME FrameAssumption == Blank \notin [seq : Nat, last_action : Int]

Init ==
    /\ now = 0 /\ phase = "idle"
    /\ runtime = NewRuntime
    /\ layout_hash \in Layouts
    /\ contract_ok = TRUE /\ last_valid = FALSE
    /\ last_enabled = FALSE /\ last_flat_hold = FALSE /\ last_reset_count = 0
    /\ channel = [incoming |-> NoMessage, received |-> FALSE, has_read |-> FALSE]
    /\ snapshot = NoMessage
    /\ outputs = NoOutputs
    /\ published = <<>> /\ disowned = 0 /\ executed = 0 /\ answered = {}
----------------------------------------------------------------------------
(* update() up to the channel, lines 101-120. *)

\* Seeded faults: a reset that forgets the history, a reset counter read before its
\* interface is ready, mode changes that go unnoticed.
ResetKeepsHistory(r) ==
    [NewRuntime EXCEPT !.timeline = ResetTimeline(r.timeline), !.history = r.history]
ResetWithoutReady(r) == r # last_reset_count

\* reset_runtime_(): a new control period starts with no memory but the numbering.
ResetRuntime(r) == [NewRuntime EXCEPT !.timeline = ResetTimeline(r.timeline)]

\* maybe_handle_reset_(): the operator's reset counter moved.
ResetRequested(r) == r # Unready /\ r # last_reset_count

\* read_enable_() and the flat-hold input.
Enabled(e) == IF e = Unready THEN EnableDefault ELSE e \notin {0, NaN}
FlatHold(f) == f \notin {Unready, 0, NaN}

FlatHoldUnnoticed(e, f) == Enabled(e) # last_enabled
EnableUnnoticed(e, f) == FlatHold(f) # last_flat_hold

ModeChanged(e, f) == Enabled(e) # last_enabled \/ FlatHold(f) # last_flat_hold

\* The runtime state when the cycle comes to publishing.
Prepared(e, f, r) ==
    LET kept == IF ResetRequested(r) \/ ModeChanged(e, f) THEN ResetRuntime(runtime)
                                                          ELSE runtime
    IN  IF Enabled(e) THEN kept
        ELSE [kept EXCEPT !.last_actions = 0, !.written = 0, !.history = EmptyHistory]

\* With resampled frames, the previous action an observation shows is a delayed one.
WithFeedback(r, t) ==
    IF HistoryPeriod = 0 THEN r
    ELSE LET fb == SampleFeedback(r.feedback, t, HistoryPeriod)
         IN  [r EXCEPT !.feedback = fb, !.last_actions = fb.value]

\* append(), then publish_observation_().
Published(r, t) ==
    [r EXCEPT !.history = AppendFrame(@, Frame(r.timeline.sequence + 1, r.last_actions), t),
              !.timeline = PublishFrame(@, t, PubPeriod)]

\* What every cycle does first: read the clock and latch the control inputs.
LatchInputs(t, e, f, r) ==
    /\ phase = "idle" /\ phase' = "act"
    /\ now' = t
    /\ last_enabled' = Enabled(e)
    /\ last_flat_hold' = FlatHold(f)
    /\ last_reset_count' = IF ResetRequested(r) THEN r ELSE last_reset_count
    /\ UNCHANGED <<layout_hash, contract_ok, last_valid, channel, snapshot, outputs>>

\* History: everything published and executed so far belongs to a past control period.
GiveUp ==
    /\ disowned' = Len(published)
    /\ executed' = 0
    /\ answered' = {}

KeepOrGiveUp(e, f, r) ==
    IF ResetRequested(r) \/ ModeChanged(e, f) THEN GiveUp
    ELSE UNCHANGED <<disowned, executed, answered>>

MayPublish(t, e, f, r) ==
    Enabled(e) /\ Due(Prepared(e, f, r).timeline, t, PubPeriod)

SkipObservation(t, e, f, r) ==
    /\ LatchInputs(t, e, f, r)
    /\ ~MayPublish(t, e, f, r)
    /\ runtime' = Prepared(e, f, r)
    /\ KeepOrGiveUp(e, f, r)
    /\ UNCHANGED published

PublishObservation(t, e, f, r) ==
    /\ LatchInputs(t, e, f, r)
    /\ MayPublish(t, e, f, r)
    /\ Len(published) < MaxSequence
    /\ runtime' = Published(WithFeedback(Prepared(e, f, r), t), t)
    /\ published' = Append(published, t)
    /\ KeepOrGiveUp(e, f, r)

\* build_observation() fails: a source is not ready or not finite.
RejectObservation(t, e, f, r) ==
    /\ LatchInputs(t, e, f, r)
    /\ MayPublish(t, e, f, r)
    /\ runtime' = ResetRuntime(Prepared(e, f, r))
    /\ GiveUp
    /\ UNCHANGED published

----------------------------------------------------------------------------
(* update() from the channel on, lines 122-177.  busy: try_lock() failed,  *)
(* because a callback holds the mutex or spuriously.                       *)

\* try_read(): what it returns, and the snapshot it leaves.
HasSnapshot(busy) == IF busy THEN channel.has_read ELSE channel.received
Snapshot(busy) == IF ~busy /\ channel.received THEN channel.incoming ELSE snapshot

Age(busy) ==
    IF HasSnapshot(busy) THEN AgeOf(runtime.timeline, Snapshot(busy).obs_seq, now) ELSE NaN

Fresh(busy) == Age(busy) # NaN /\ Age(busy) <= MaxActionAge

\* Seeded faults: no latch, and a check of fresh actions only.
ContractUnlatched(busy) == HasSnapshot(busy) => Snapshot(busy).layout_hash = layout_hash
ContractWhenFresh(busy) == contract_ok /\ (Fresh(busy) => Snapshot(busy).layout_hash = layout_hash)

\* check_contract_(): one mismatch latches the refusal.
ContractHolds(busy) ==
    contract_ok /\ (HasSnapshot(busy) => Snapshot(busy).layout_hash = layout_hash)

Finite(busy) == Snapshot(busy).action # NaN

Valid(busy) == last_enabled /\ ContractHolds(busy) /\ Fresh(busy) /\ Finite(busy)

\* What the output interface gets for a raw action, and when nobody drives.
Command(a) == IF Scale * a > ClipMax THEN ClipMax
              ELSE IF Scale * a < ClipMin THEN ClipMin
              ELSE Scale * a

Fallback == CASE InvalidMode = "nan"  -> NaN
              [] InvalidMode = "zero" -> 0
              [] InvalidMode = "hold" -> runtime.written

\* Seeded fault: the scaled and clipped command is remembered.
RememberCommand(r, seq, a, age) == [r EXCEPT !.last_actions = Command(a)]

\* The action an observation will show as the previous one, given that the
\* answer to observation seq, age old, is executed.
Remembered(r, seq, a, age) ==
    IF HistoryPeriod = 0 THEN [r EXCEPT !.last_actions = a]
    ELSE IF seq = r.last_feedback_obs_seq THEN r
    ELSE [r EXCEPT !.feedback = StoreFeedback(@, now - age, a), !.last_feedback_obs_seq = seq]

TryRead(busy) ==
    channel' = [channel EXCEPT !.has_read = @ \/ (~busy /\ channel.received)]

\* Under flat hold the snapshot itself is overwritten with zeros.
Drive(busy) ==
    LET seq == Snapshot(busy).obs_seq
        a   == IF last_flat_hold THEN 0 ELSE Snapshot(busy).action
    IN  /\ phase = "act" /\ phase' = "idle"
        /\ Valid(busy)
        /\ TryRead(busy)
        /\ snapshot' = [Snapshot(busy) EXCEPT !.action = a]
        /\ runtime' = Remembered([runtime EXCEPT !.written = Command(a)], seq, a, Age(busy))
        /\ outputs' = [action |-> Command(a), valid |-> TRUE, healthy |-> TRUE,
                       action_age |-> Age(busy), obs_seq |-> runtime.timeline.sequence]
        /\ last_valid' = TRUE
        /\ executed' = a
        /\ answered' = IF \A m \in answered : m < seq THEN answered \cup {seq} ELSE answered
        /\ UNCHANGED <<now, layout_hash, contract_ok, last_enabled, last_flat_hold,
                       last_reset_count, published, disowned>>

Withhold(busy) ==
    /\ phase = "act" /\ phase' = "idle"
    /\ ~Valid(busy)
    /\ TryRead(busy)
    /\ snapshot' = Snapshot(busy)
    /\ contract_ok' = ContractHolds(busy)
    /\ outputs' = [action |-> Fallback, valid |-> FALSE,
                   healthy |-> ContractHolds(busy) /\ Fresh(busy),
                   action_age |-> Age(busy), obs_seq |-> runtime.timeline.sequence]
    /\ runtime' = IF last_valid THEN ResetRuntime(runtime) ELSE runtime
    /\ last_valid' = FALSE
    /\ IF last_valid THEN GiveUp ELSE UNCHANGED <<disowned, executed, answered>>
    /\ UNCHANGED <<now, layout_hash, last_enabled, last_flat_hold, last_reset_count, published>>

----------------------------------------------------------------------------
(* The ROS thread: on_action_() of a message with action_size values. *)

Store(m) ==
    /\ channel' = [channel EXCEPT !.incoming = m, !.received = TRUE]
    /\ UNCHANGED <<now, phase, runtime, layout_hash, contract_ok, last_valid, last_enabled,
                   last_flat_hold, last_reset_count, snapshot, outputs, published, disowned, executed, answered>>

----------------------------------------------------------------------------

Observe ==
    \E t \in now..now + MaxStep, e \in EnableInputs, f \in FlatHoldInputs, r \in ResetInputs :
        /\ t <= MaxNow
        /\ \/ SkipObservation(t, e, f, r)
           \/ PublishObservation(t, e, f, r)
           \/ RejectObservation(t, e, f, r)

Act == \E busy \in BOOLEAN : Drive(busy) \/ Withhold(busy)

\* A policy answers observations it has received, in any order and more than
\* once, possibly with a non-finite action or for another layout.
Arrive ==
    \E n \in 1..Len(published), hash \in LayoutHashes, id \in ModelIds :
        \E a \in {n} \cup NonFinite :
            Store([obs_seq |-> n, layout_hash |-> hash, model_id |-> id, action |-> a])

Next == Observe \/ Act \/ Arrive

Spec == Init /\ [][Next]_vars
----------------------------------------------------------------------------
(* Properties. *)

\* What the decisions of update() read.
ControlTypeOK ==
    /\ now \in 0..MaxNow
    /\ phase \in {"idle", "act"}
    /\ runtime.timeline \in Timelines
    /\ runtime.written \in Int
    /\ layout_hash \in LayoutHashes
    /\ contract_ok \in BOOLEAN /\ last_valid \in BOOLEAN
    /\ last_enabled \in BOOLEAN /\ last_flat_hold \in BOOLEAN
    /\ last_reset_count \in Nat
    /\ channel \in [incoming : Messages, received : BOOLEAN, has_read : BOOLEAN]
    /\ snapshot \in Messages
    /\ outputs \in [action : Int \cup {NaN}, valid : BOOLEAN, healthy : BOOLEAN,
                    action_age : Int \cup {NaN}, obs_seq : Nat]
    /\ published \in Seq(0..MaxNow) /\ Len(published) <= MaxSequence
    /\ disowned \in 0..Len(published)

TypeOK ==
    /\ ControlTypeOK
    /\ runtime.last_actions \in Int
    /\ runtime.last_feedback_obs_seq \in Nat
    /\ executed \in Int
    /\ answered \subseteq 1..Len(published)

\* The outputs are those of a finished cycle and an action drives them.
Driving == phase = "idle" /\ outputs.valid

\* README.md:166, first half: an action that drives answers one of the last two
\* published observations and is not older than max_action_age, and the age put
\* on the interface is the true one.  update(), lines 122-159, and the timeline.
DrivesOnlyCurrent ==
    Driving =>
        LET n == snapshot.obs_seq
        IN  /\ n \in DOMAIN published /\ n >= Len(published) - 1
            /\ outputs.action_age = now - published[n]
            /\ now - published[n] <= MaxActionAge

\* README.md:166, second half: after a reset, a change of mode, a rejected frame or
\* a loss of validity, only the answer to an observation published since then gets
\* control, although older answers stay in the channel and in the snapshot.
ControlIsRegainedAfresh == Driving => last_enabled /\ snapshot.obs_seq > disowned

\* What drives is the policy's own answer to the observation it is credited to, or
\* zero under flat hold.  The flat-hold fill overwrites the snapshot that a busy
\* channel hands out again (lines 141-142; try_read(), action_channel.cpp:27-40).
ExecutesTheAnswer ==
    Driving => outputs.action = Command(IF last_flat_hold THEN 0 ELSE snapshot.obs_seq)

\* A snapshot of another layout that was read once refuses every action for good,
\* even if the next message overwrites it: check_contract_(), lines 290-301.
MismatchIsLatched ==
    channel.has_read /\ snapshot.layout_hash # layout_hash => ~contract_ok
RefusalIsFinal == [][~contract_ok => ~contract_ok' /\ ~last_valid']_vars

\* healthy does not look at the enable input, nor at the values of the action; it
\* still implies that the bridge is enabled, and what is missing for the action to
\* drive can only be a non-finite value.
HealthyMeansDrivable ==
    phase = "idle" /\ outputs.healthy => last_enabled /\ (outputs.valid \/ snapshot.action = NaN)

\* Within a control period a cycle publishes exactly if it is the first one in its slot of
\* the grid that the first observation set up: however late the cycles are, observations do
\* not bunch, and a late one does not move those after it.
KeepsCadence ==
    [][phase = "idle" /\ phase' = "act" /\ disowned' = disowned /\ disowned < Len(published) =>
        LET SlotOf(t) == (t - published[disowned + 1]) \div PubPeriod
        IN  published' # published <=> SlotOf(now') > SlotOf(published[Len(published)])
      ]_vars

\* ObservationHistory::append() never throws out of update(): whenever the next
\* observation is due, its time is later than the last frame kept.
AppendNeverThrows ==
    phase = "idle" =>
        \A t \in now..now + MaxStep :
            Due(runtime.timeline, t, PubPeriod) => CanAppend(runtime.history, t)

\* Where the frames of the window of the last observation come from: shifted from
\* the start of the control period, or the latest frame at each target time out of
\* the unbroken run of frames that ends now.
WindowSource(i, times, first) ==
    LET n      == Len(times)
        Starts == {first} \cup {m \in first + 1..n : times[m] - times[m - 1] > 2 * HistoryPeriod}
    IN  IF HistoryPeriod = 0 THEN Max({first, n - HistoryLength + i})
        ELSE Max({Max(Starts)} \cup {m \in Max(Starts)..n : times[m] <= Target(times[n], i)})

\* The window published with an observation is the one computed from the log of all
\* observations, whatever was trimmed, shifted, padded or reset on the way.
WindowMatchesLog ==
    [][published' # published =>
        \A i \in Window :
            /\ runtime'.history.values[i] # Blank
            /\ runtime'.history.values[i].seq = WindowSource(i, published', disowned' + 1)
      ]_vars

\* The previous action an observation shows is the one executed in the last cycle
\* or, with resampled frames, the latest one whose own observation is at least
\* HistoryPeriod old; nothing executed in an earlier control period shows.
FeedbackIsExecution ==
    [][published' # published =>
        Last(runtime'.history.values).last_action =
            IF HistoryPeriod = 0 THEN executed'
            ELSE IF last_flat_hold' THEN 0
            ELSE Max({0} \cup {m \in answered' : published'[m] <= now' - HistoryPeriod})
      ]_vars
=============================================================================
