# rmcs_rl in TLA+

`rmcs_rl` lets a reinforcement-learning policy drive a vehicle. The control process builds
observations and executes actions in a hard loop; a second process runs the neural network;
two best-effort ROS topics connect them. This directory specifies that system, model-checks
it with TLC and proves its central safety properties with TLAPS. Line numbers refer to the
repository; `src/` stands for its root.

## 1. The system

| part | source | state | operations |
| --- | --- | --- | --- |
| control bridge | `src/src/rl_bridge.cpp` | `contract_ok_`, `last_valid_`, `last_enabled_`, `last_flat_hold_`, `last_reset_count_`, `read_snapshot_`, `last_actions_`, `written_`, outputs | `update()` (executor thread), `on_action_()` (ROS thread), `before_pairing()` |
| observation timeline | `observation_timeline.hpp` | sequence, times of the last two observations, schedule | `due`, `publish`, `age`, `reset` |
| observation history | `rl_bridge/observation_history.cpp` | the window, timed samples | `append` (shifted or resampled), `reset` |
| action feedback | `action_feedback_history.hpp` | timed executed actions, the value shown | `store`, `sample`, `reset` |
| action channel | `rl_bridge/action_channel.cpp` | `incoming_`, mutex, `received_`, `has_read_` | `store` (ROS thread), `try_read` (executor thread) |
| observation building, binding | `rl_bridge/observation.cpp`, `interface_binding.cpp` | input slots | `acquire_slot`, `read_double`, `build_observation`, signatures |
| configuration, terms | `rl_bridge/config.cpp`, `term_parser.cpp`, `joint_config.cpp`, `utility.cpp` | none after startup | `load_bridge_config()`: parsing, offsets, rates and periods, validation |
| policy server | `src/src/policy_server.cpp` | the model, a window of inference times | `on_observation`, optional status timer |
| policy model, backend | `src/src/policy/*.cpp` | shapes, normalisation, session | constructor, `run` |
| launcher | `src/src/policy_server_launcher.cpp` | `child_pid_`, `last_poll_time_`, `next_start_time_` | `before_updating`, `update`, destructor, the forked child |
| layout contract | `rl_layout.hpp`, `src/tool/*.py` | none | FNV-1a hash, signatures, offline check and stamping |
| parameters | `src/src/parameters.cpp` | none | typed parameter reads, with defaults and refusals |

How they interact: the executor calls `update()` of bridge and launcher once per cycle. The
bridge publishes a numbered observation with its layout hash; the policy server checks the
hash against its model's, infers and echoes number and hash on the action; a ROS thread of
the control process stores the action in the channel; a later `update()` reads it, decides
whether it may drive, and writes the outputs. The launcher forks the policy server, polls it
with `waitpid()` and starts it again.

What is hard about it: the channel between two threads; answers that are late, lost,
repeated or from before a reset; state cleared in some places and kept in others (the
runtime is reset, the channel and the snapshot are not); a snapshot that is modified in
place and handed out again when the mutex is busy; two kinds of history on a clock with late
cycles; a policy process that dies, hangs, or comes back with another model; a control
process that dies between `fork()` and `exec()`, or restarts with another configuration;
configurations and model files that contradict themselves. `PROJECT.json` lists each under
`hazards` at its line.

What makes each part correct, in short: *bridge*: only a fresh answer to a recent
observation of the present control period drives, with exactly the values that answer
carries; refusal is final. *Timeline*: numbers are never reused within a process, the
cadence survives late cycles. *Loop*: it regains control by itself, and it does not lose it
by itself. *Histories*: what the policy is shown equals what the log of the control period
says. *Channel*: an atomic, wait-free register. *Builder*: a frame has the layout that was
hashed. *Configuration*: one that is accepted has the periods and sizes the control loop
relies on. *Server and topics*: no worse than the environment the bridge is designed for.
*Launcher*: one known child, spaced restarts, no orphans.

## 2. Modules

```
ObservationTimeline   TimedSamples
        |              /        \
        |  ObservationHistory  ActionFeedbackHistory
        |        |               |
        +---- RlBridge ----------+ ---- RlBridgeProofs ---- RlBridgeLogProofs
               /     \                        |
   CalmBridge -       \                       +---- CalmBridgeProofs
                       \
   PolicyServer --- ControlLoop -- MCControlLoop

   RlBridgeLogProofs, ControlLoop -- ControlLoopProofs

   SnapshotRegister <-- implemented by -- ActionChannel -- ActionChannelProofs, MCActionChannel

   Parameters -- JointConfig -- TermParser -- BridgeConfig -- ObservationBuilder
        |                            \                             |
        |                         LayoutTool -- LayoutContract -- LayoutContractProofs,
        |                                                MCObservationBuilder
        +------- PolicyModel -- PolicyModelProofs, MCPolicyModel

   PolicyServerLauncher -- PolicyServerLauncherProofs
```

* **ObservationTimeline, ObservationHistory, ActionFeedbackHistory, TimedSamples**: the
  value classes. Their operations are operators from the old value to the new one; a time
  point or duration is an integer. No operator is `RECURSIVE`: the loops of the code stop at
  a place that is described directly (`LatestAt`).
* **RlBridge**: the component. `update()` is two actions because an action can arrive at any
  moment and the only place it matters is the read of the channel: *Observe* (lines 101-120,
  three outcomes: `SkipObservation`, `PublishObservation`, `RejectObservation`) and *Act*
  (lines 122-177: `Drive`, `Withhold`). `Store` is the ROS callback. The record `runtime`
  holds what `reset_runtime_()` clears. Inputs (enable, flat hold, reset counter, time,
  failure of `build_observation()`, a failed `try_lock()`) are chosen freely in every cycle.
  The vector of actions is one integer: the raw action computed for observation *n* is *n*,
  so a value tells which observation it answers; 0 is the vector of zeros. Four history
  variables (`published`, `disowned`, `executed`, `answered`) record what happened for the
  properties; no action reads them.
* **CalmBridge**: RlBridge with two history variables: the time of the last disturbance (a
  loss, an answer that is late, old, non-finite or of another layout, a busy channel, a
  rejected frame, an intervention of the operator) and the newest observation answered. It
  states in how long the bridge drives again, and that it does not stop by itself, as a
  safety property over the clock, so that it can be proved.
* **ActionChannel**: `store()` and `try_read()` field by field under the mutex, with
  spurious failures of `try_lock()`. It implements **SnapshotRegister**, the atomic register
  RlBridge uses: while a copy is under way the register already has the new value.
* **PolicyServer, ControlLoop**: the other process and the topics. A topic is the sequence
  of messages that can still be seen; taking one drops everything before it, which gives
  loss, delay and the replacement of a queue of one, but no reordering. `ControlLoop` adds
  restarts of both processes, of the control process perhaps with another layout;
  `predecessors` remembers the layouts of the bridges before this one.
* **Parameters**: `parameters.cpp`: what each typed read accepts and returns. A value is a
  pair of type and value; infinite, NaN and not an integer are values of their own.
* **JointConfig**: `load_joint_config()`, the overrides of single interfaces, paths.
* **BridgeConfig**: the rest of `load_bridge_config()`: action terms, declared sizes, rates
  and the periods made of them, the fallback, the control inputs.
* **TermParser**: the grammar of the terms as the bridge reads it: which specs are accepted
  and what the term is, from tokens whose values are already strings, lists or numbers (a
  number that cannot be read, an infinite one and NaN are values of their own).
* **ObservationBuilder**: from the parameters of the node to a frame:
  `load_bridge_config()`, terms, offsets, sizes, one `acquire_slot()` per interface, the
  control inputs, the self-reference check, and `build_observation()` on inputs that may be
  unready, infinite or NaN. An element of a frame is its origin. `LayoutPayload` is what the
  layout hash is taken over.
* **LayoutTool, LayoutContract**: the same grammar and `load_config()` of the Python tools,
  and the statement that ties the two.
* **PolicyModel**: from the parameters of the process over the constructors of
  `OnnxRuntime`, `PolicyModel` and `PolicyServer` to `run()`. Each stage goes on or throws:
  parameters, tensors, type, the declared lengths, the input, the constants of the other
  inputs, the output, the layout hash, the normalization, the topics; then an inference
  gives the session one tensor per input. A model file is a record of what the code reads
  from it; its text is parsed.
* **PolicyServerLauncher**: the component, its forked child between system calls, signals,
  time, and the death of the control process. `autostart`, `respawn`, an inherited SIGTERM
  handler and someone else who reaps children are fixed at construction, in every
  combination.

Operators under the comment "Seeded faults" are plausible bugs. None is used; putting one in
the place of the operator it varies makes a property fail, which shows that the property can
fail (`mutants` in `PROJECT.json`).

## 3. What is checked

| run | module | what it shows |
| --- | --- | --- |
| `bridge_untimed` | RlBridge | shifted history, one layout: who drives, the values that drive, windows and previous actions |
| `bridge_calm` | CalmBridge | after any disturbance the bridge drives again within a bounded time and goes on driving; answers for two layouts, `hold` as the fallback: a mismatch that was read is latched, refusal is final |
| `bridge_timed` | RlBridge | resampled history with late cycles: a cycle publishes exactly if it is the first in its slot of the grid, timestamps increase, windows and the delayed feedback are those of the log |
| `channel` | MCActionChannel | no torn snapshot, implements the register, the executor never waits |
| `builder` | MCObservationBuilder | a bridge that starts has the settings its control loop relies on, whatever the parameters (`PubPeriod # 0` and `LatencyAssumption` are not among them, see section 4); frames follow the hashed layout, one registration per interface, null members only after a conflict, tools and bridge hash the same |
| `loop` | MCControlLoop | process and topics are an environment RlBridge allows; driving never rewinds |
| `loop_reboot` | MCControlLoop | with restarts, also into another configuration, a model of another layout or size never drives, and a refusal for good means that the bridge had a predecessor with another layout; `README.md:151` says that a mismatch of the model latches one too, which the code does not do (`RefusalMeansPredecessor`, see "Met on the way") |
| `model` | MCPolicyModel | an accepted model: the window it takes is the one its layout signature describes, its sizes are those of the YAML, every input of the session gets a tensor that fits it, normalization stays in range |
| `launcher` | PolicyServerLauncher | one tracked child, spaced restarts that happen, no orphans, a destructor that ends, in every combination of the settings |

Three runs end in a counterexample, each against a sentence of the repository:

| run | the repository says | the code does |
| --- | --- | --- |
| `builder_accepts` | `interface_binding.cpp:73-76`: a term the type does not suit is refused | a slot that exists for the path is reused unchecked (line 57): a `take=x` term after a scalar one on a `double` interface reads a null pointer in every cycle |
| `model_declared` | `README.md:83-84`: the lengths of a sequence, from the YAML or from metadata, are refused if inconsistent | without a layout signature the YAML wins over contradicting metadata and nothing compares them |
| `loop_restart` | `README.md:166`: an action answers one of the last two observations; none from before a reset drives | numbering starts over in a new control process, an old answer can match |

### Bounds

All bounds are constants of the cfg files. *Bridge*: `MaxSequence` observations (3 in
`bridge_untimed`, 5 in the other two), `MaxNow` units of time (6, 8, 8), a publication
period of 2, so that a slot of the grid has two instants, a history period of 3 in
`bridge_timed`, a cycle at most `MaxStep` late (2, 1, 7): enough for both remembered
observations to be superseded, for two cycles in one slot of the grid, for one that skips
slots, for a gap of more than two history periods, and for an action to expire; a reset, a
mode change and a second control period fit in between. Windows of 1 to 3 frames. Inputs:
not ready, off, on; three reset counts.
`bridge_calm` has the tightest values `LatencyAssumption` admits and time for a recovery
(`Recovery`) after a disturbance. *Channel*: four fields, three messages. *Loop*: five
models (stamped, stamped for another layout, unstamped, another action size, another
observation size), 2 or 3 observations, any number of crashes of the server, at most one
restart of the control process (`MaxBoots`), in `loop_reboot` with either of two layouts.

*Builder*: families of configurations, each varied in every combination in one respect: up
to three specs of eleven kinds on two interfaces of any of six types or missing; about five
thousand single specs with every value of every token, most of them wrong for one side;
action terms and sizes that fit and that do not; every parameter with a value of every type;
joints with overrides good and bad; rates that divide a second and that do not; control
inputs on interfaces of any type. *Model*: the same way: every way to declare a window of
six elements or so, in ranks 0 to 4, with and without dynamic dimensions, layouts and
contradictions; types, names, single parameters, constants of every element type and count,
two constants around the observation, outputs, normalizations; observations of a right and a
wrong size. *Launcher*: two pids, periods of 2 and 3 units (the first one the replacement of
a value that makes no sense), two stop attempts. A property that holds because of a bound is
not stated.

### Fairness

Safety is checked without fairness, and so is `CalmLoopDrives`, a bound in time.
`ExecutorNeverWaits` assumes only that the executor thread runs, and nothing of the ROS
thread. `ServerComesBack` assumes that the executor keeps calling `update()` and that time
passes (weak fairness), and that neither `fork()` fails forever nor every child dies before
`exec()` (strong fairness of a start with a successful `fork()` and of the child's three
steps): where one does, there is no policy process. It says nothing of a policy process that
hangs: the launcher looks at the exit only. `StopEnds` assumes the destructor's loop runs.
`NoOrphans` assumes that a child is scheduled, that a signal is delivered and that init
reaps; it does not assume that the policy process exits by itself, and it is stated for a
control process without a SIGTERM handler: with one, a child between `prctl()` and `exec()`
swallows the signal.

Deadlock is checked where the system never stops. It is not in the launcher (the destructor
ends it), nor in the builder and the model, where construction ends, well or in an
exception.

## 4. What is proved

Every theorem holds for all values of the constants that satisfy the named assumptions of
the modules. Each rests on an inductive invariant, as none of the properties is inductive by
itself.

**`RlBridgeProofs`**: who drives. `BridgeControlType`, `BridgeDrivesOnlyCurrent`,
`BridgeRegainsAfresh`, `BridgeExecutesTheAnswer`, `BridgeHealthyMeansDrivable`,
`BridgeLatchesMismatch`, `BridgeRefusalIsFinal`. `BridgeInv` adds what ties the code's
variables to the log: the timeline knows the last one or two entries of `published`, both
from after `disowned`, and a disabled bridge knows none (`TimelineInv`); a stored or taken
message carries the number of something published and that number or NaN as its value,
except that a snapshot may hold zeros under flat hold or if it is from a past period
(`MessageInv`); a refused bridge is not valid (`ContractInv`). Then an age that is a number
means a recent observation of this period (`AgeMeans`, `FreshMeans`), so the zeros are never
taken for an answer, which is the point of `BridgeExecutesTheAnswer`.

**`RlBridgeLogProofs`**: what the policy is shown. `BridgeKeepsCadence`,
`BridgeAppendNeverThrows`, `BridgeWindowMatchesLog`, `BridgeFeedbackIsExecution`,
`BridgeTypes`. `LogInv` ties the rest of the runtime to the log, again with one lemma per
action: *the timeline* (`CadenceHolds`): the schedule lies on the grid the first observation
of the period set up, and the last observation less than a period after it, so that an
observation is due exactly from the next slot on (`DueMeansNextSlot`); *the history*
(`SamplesHold`): what is left after trimming is the log from some observation on, the start
of the unbroken run or one that is old enough for the oldest target, so that the window
computed from the samples is the one computed from the log (`WindowOfSamples`); for a
shifted window `ShiftAppend`; *the feedback* (`FeedbackHolds`): the samples are the answers
in the order of their observations, an answer that is missing is older than the first
sample, and the value shown is the latest due. Hypothesis of each: `PubPeriod # 0`. The code
cuts a period to nanoseconds, so that it is 0 for rates above 1 GHz only, where the schedule
divides by it.

**`CalmBridgeProofs`**: `CalmBridgeDrives`, the bound on recovery, for every period, latency
and jitter under `LatencyAssumption` (an answer comes within a period less the jitter, and
`max_action_age` covers it). Two sub-invariants carry it: `DeadlineInv`, that an observation
whose deadline has passed undisturbed is answered in the channel, and `DrivenInv`, that who
drives goes on. `LatencyAssumption` is what an operator has to see to when `policy_rate` and
`max_action_age` are chosen; the default of two periods meets it.

**`ControlLoopProofs`**: `LoopImplementsBridge` (the loop with `MaxBoots = 0` refines
`RlBridge`, so that all of the above holds with the policy process and the topics in place),
`LoopTypes` and `LoopNeverRewinds` for the same loop, and over any number of restarts
`LoopRefusalMeansPredecessor` and `LoopMismatchNeverDrives`. `LoopInv` follows the layout
hash and the model id of a message on its way round the loop: every hash comes from this
bridge or a predecessor, every answer from a model that takes it. `NumberInv` follows its
number: along the way from the observation topic to the snapshot the numbers descend.
`LoopTypes` takes the types of the bridge from `BridgeTypes` through the refinement, with
its hypothesis `PubPeriod # 0`. With restarts the types of `RlBridge` do not hold of the
loop: an answer to a predecessor is not one of its messages, which `loop_restart` shows to
matter.

**`ActionChannelProofs`**: `ChannelTypes`, `ChannelNeverTears` and
`ChannelImplementsRegister`, from `MutexInv`: the holder of the mutex has copied exactly the
fields it is through with.

**`PolicyServerLauncherProofs`**: `LauncherTypes`, `LauncherTracksChild`,
`LauncherSpacesRespawn`, from `PhaseInv` (which pid is known in which phase) and
`SpacingInv` (what has gone by since the last attempt and what is left of the wait are
together a whole delay).

**`LayoutContractProofs`**: the builder and the layout contract, for every configuration
and every set of outputs. `SlotsSafe`, `CrashSafe`, `SettingsSafe`, `FrameSafe`, `LayoutSafe`.
The invariant `Built` says for each phase what the steps before it have established: the
terms are those the specs parse to, but for the index (`ConfigRead`); the terms before the
cursor lie one after the other (`OffsetsAssigned`); sizes and settings were accepted
(`SettingsRead`); no path has two slots, a slot has the type of its output (`SlotsFit`) and
was bound by a term that accepts it (`TermsBound`), which is what `CrashSafe` needs: a member
that is not there was left out by another term. None of the properties says anything of the
phases in between, so none is inductive. `FrameSafe` then needs that the terms cut the frame
into rows that touch and do not overlap (`Rows`), `SettingsSafe` that the division behind
the periods is monotone (`QuotientGreatest`), and `LayoutSafe` that a spec both grammars
accept has the same entry in both (`EntriesAgree`, form by form), and equal entries equal
sums. Assumptions: `BuilderAssumption` (what the value of a parameter and of a token can be;
a rate or an age that is a number is a whole number of its unit), `NumbersAssumption`,
`SecondAssumption`, and `LowerCaseAssumption`: the keywords have no capital letters, so that
the tools, which ignore the case of some tokens, do not change them.

**`PolicyModelProofs`**: what an accepted model is, for any file and any parameters of the
policy process. `WindowSafe`, `SizesSafe`, `InputsSafe`, `NormalizationSafe`. The invariant
`Settled` is a chain, one link for each stage that can throw: parameters, tensors, the
declared lengths (`WindowDeclared`), the input (`InputShaped`), the constants
(`ConstantsBound`), the output, the normalization. Each link is established by its stage and
kept by the others, and the property is read off at the end. The effort is in the second
half of the chain: the product of a shape with dynamic dimensions, the quotient that a
missing length is taken from, and the numbering of the constants around the observation.
Assumptions: `CasesAssumption` (a file is one the ONNX runtime can describe, its dimensions
integers) and `NumbersAssumption`.

In both, the code sums and multiplies in loops, which the model writes as the folds of the
community modules. A fold is a `CHOOSE` of a table over the subsets of its indices; that the
table exists for a list of any length is proved from the shortest list without one (`WFMin`;
the induction theorems of the library cannot be instantiated), and then the fold is a running
sum, product or concatenation (`DimUnfolds`, `FlattenUnfolds`).

Every invariant and every action property of the runs that pass is stated by a theorem. Only
model-checked are the liveness properties (`ExecutorNeverWaits`, `ServerComesBack`,
`StopEnds`, `NoOrphans`), which are out of the prover's reach, as is anything that needs
`ENABLED`. The three runs that end in a counterexample have no theorem, of course.

## 5. What is not modelled

* Numbers of observations and actions: scaling and clipping of an action is modelled; of the
  rotation and angle wrap of sensors only that they make NaN of an infinity, which no clip
  repairs; nothing of the inference of the session.
* Rounding of ages to `double`. Policy rates above 1 GHz (the period is 0) or so low that
  the period overflows. Sequence numbers and products of sizes do not wrap.
* Text: splitting of strings, number formats and letter case of metadata, the hash itself.
  Layout hashes are equal when what is hashed is.
* The status topic and its window of inference times, logging, model files as bytes (reading
  and writing by the Python tools), deployment scripts.
* PR_SET_PDEATHSIG is taken to follow the process; it follows the thread that forked.
* `parse_u64()`, which nothing calls.

### Met on the way

Places where text and code differ and no run is spent on it:

* `src/README.md:151` says that a mismatch of the model or the layout latches a refusal that
  only a restart releases. A policy process whose model has another layout drops the
  observation; the bridge never hears of it, withholds by age, and recovers when the model
  is replaced. Only an answer to a bridge with another layout latches
  (`RefusalMeansPredecessor`).
* `src/tool/rl_layout.py:676` says the C++ side takes nothing but integers for declared
  sizes; `integer_parameter()` takes a double without a fraction too.
* `src/src/rl_bridge/config.cpp:101-104` has a hint for an `invalid_value` that is no
  string; `string_or()` refuses such a parameter before.
* `rl_bridge.expected_model_id` (`src/README.md:143`) is read by no source file; the id
  travels with every action and nothing compares it.

## 6. Plan

Done: the bridge with its value classes, its recovery in bounded time, the channel and its
register, the loop with restarts into other configurations, parameters, joints,
configuration, parser, builder and its counterpart in the tools, the model from its
parameters to an inference, the launcher with its settings; proofs of all invariants and
action properties that the runs check. What could be added is recovery in
the loop: that a policy process that comes back meets `LatencyAssumption`.
