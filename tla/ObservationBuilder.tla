------------------------- MODULE ObservationBuilder -------------------------
(***************************************************************************)
(* From a configuration to a frame: the terms (load_bridge_config()), the  *)
(* input slots they are bound to (before_pairing(), acquire_slot()), and   *)
(* the values copied out of them in every cycle (build_observation()).     *)
(*                                                                         *)
(* The configuration is chosen at the start, and the interfaces that the   *)
(* other components produce when they are paired.  An element of a frame   *)
(* is not a number but its origin: the interface, constant or last action  *)
(* it comes from and the element of it.                                    *)
(***************************************************************************)
EXTENDS BridgeConfig

CONSTANTS Configurations,   \* see JointConfig
          Outputs           \* tables of the produced interfaces: path -> type, "event" for
                            \* an Event interface

\* The lists of terms hold specs; rates and ages are whole numbers of their units, if numbers.
IsConfiguration(c) ==
    /\ DOMAIN c = {"parameters", "overrides", "default_joint_pos"}
    /\ \A name \in DOMAIN c.parameters : IsParameter(c.parameters[name])
    /\ \A name \in {"action_terms", "observation_terms"} :
        IsSet(c.parameters, name) /\ StringsOk(c.parameters, name) =>
            LET specs == c.parameters[name][2]
            IN  DOMAIN specs = 1..Len(specs) /\ \A i \in DOMAIN specs : IsSpec(specs[i])
    /\ \A name \in {"policy_rate", "history_rate", "max_action_age"} \cap DOMAIN c.parameters :
        c.parameters[name][2] # Fraction

ASSUME BuilderAssumption == \A c \in Configurations : IsConfiguration(c)

VARIABLES
    phase,      \* "joints", "actions", "terms", "indexing", "settings", "binding", "control",
                \* "running", or how it ended: "refused" by an exception, "crashed" on a
                \* member of a slot that is not there
    config,
    terms,      \* obs_terms
    output_map,
    cursor,     \* the running offset, in the frame or in what is to be bound
    slots,      \* slots_: the registered inputs, [path, binding, required]
    term_slots, \* slot or joint_slots of every term, 0 for kNoSlot
    frame       \* where the elements of the last frame built come from, <<>> without one

vars == <<phase, config, terms, output_map, cursor, slots, term_slots, frame>>

Start == [term |-> 1, offset |-> 0]

Init ==
    /\ phase = "joints"
    /\ config \in Configurations
    /\ terms = <<>> /\ output_map = <<>> /\ cursor = Start
    /\ slots = <<>> /\ term_slots = <<>> /\ frame = <<>>

Refuse == phase' = "refused" /\ UNCHANGED <<terms, output_map, cursor, slots, term_slots, frame>>

----------------------------------------------------------------------------
(* load_bridge_config(): the joints, the terms, the offset of each, the    *)
(* sizes and the settings.                                                 *)

LoadJoints ==
    /\ phase = "joints"
    /\ IF JointConfigOk(config)
       THEN phase' = "actions" /\ UNCHANGED <<terms, output_map, cursor, slots, term_slots, frame>>
       ELSE Refuse
    /\ UNCHANGED config

ParseActions ==
    /\ phase = "actions"
    /\ IF /\ ActionTermsOk(config)
          /\ StringsOk(config.parameters, "observation_terms") /\ ObservationSpecs(config) # <<>>
       THEN phase' = "terms" /\ UNCHANGED <<terms, output_map, cursor, slots, term_slots, frame>>
       ELSE Refuse
    /\ UNCHANGED config

ParseTerm ==
    /\ phase = "terms" /\ Len(terms) < Len(ObservationSpecs(config))
    /\ LET spec == ObservationSpecs(config)[Len(terms) + 1]
       IN  IF ObsTermOk(spec, config, ActionSize(config))
           THEN /\ terms' = Append(terms, ObsTerm(spec, config, ActionSize(config)))
                /\ term_slots' = Append(term_slots, <<>>)
                /\ UNCHANGED <<phase, output_map, cursor, slots, frame>>
           ELSE Refuse
    /\ UNCHANGED config

StartIndexing ==
    /\ phase = "terms" /\ Len(terms) = Len(ObservationSpecs(config))
    /\ phase' = "indexing"
    /\ UNCHANGED <<config, terms, output_map, cursor, slots, term_slots, frame>>

\* Seeded fault: terms counted instead of their elements.
OffsetByTerm(term, offset) == offset + 1

OffsetAfter(term, offset) == offset + term.dim

\* index= is an assertion about the running offset, not a reorder.
AssignIndex ==
    /\ phase = "indexing" /\ cursor.term <= Len(terms)
    /\ LET term == terms[cursor.term]
       IN  IF term.has_index /\ term.index # cursor.offset
           THEN Refuse
           ELSE /\ terms' = [terms EXCEPT ![cursor.term].index = cursor.offset]
                /\ cursor' = [term |-> cursor.term + 1,
                              offset |-> OffsetAfter(term, cursor.offset)]
                /\ UNCHANGED <<phase, output_map, slots, term_slots, frame>>
    /\ UNCHANGED config

FrameSize == FoldLeft(LAMBDA sum, term : sum + term.dim, 0, terms)
ObsSize == FrameSize * HistoryLength(config)

CheckSizes ==
    /\ phase = "indexing" /\ cursor.term > Len(terms)
    /\ IF HistoryLengthOk(config) /\ DeclaredOk(config, "rl_obs_size", ObsSize)
       THEN phase' = "settings" /\ UNCHANGED <<terms, output_map, cursor, slots, term_slots, frame>>
       ELSE Refuse
    /\ UNCHANGED config

\* The settings, the constructor of ObservationHistory, which takes no empty frame, and
\* what the other components have produced by the time of before_pairing().
LoadSettings ==
    /\ phase = "settings"
    /\ IF SettingsOk(config) /\ FrameSize # 0
       THEN /\ phase' = "binding" /\ cursor' = Start
            /\ output_map' \in Outputs
            /\ UNCHANGED <<terms, slots, term_slots, frame>>
       ELSE Refuse
    /\ UNCHANGED config

\* What the layout hash is taken over, computed once everything is bound.
LayoutPayload ==
    [observations |-> [history |-> HistoryLength(config), entries |-> [i \in DOMAIN terms |-> ObsEntry(terms[i])]],
     actions      |-> [i \in DOMAIN ActionSpecs(config) |-> ActionEntry(ActionTerm(ActionSpecs(config)[i]))],
     obs_size     |-> ObsSize,
     action_size  |-> ActionSize(config)]

----------------------------------------------------------------------------
(* before_pairing(): the slots. *)

\* The bindings a term accepts: the one it pins, or those that suit what it takes.
Candidates(term) ==
    IF term.kind \in JointKinds THEN {"double"}
    ELSE IF term.type # "" THEN {term.type}
    ELSE Suited(term.take)

\* Seeded faults: a slot of its own for every use, and one of any type.
AlwaysNewSlot(path) == {}
AnyCandidate(path, candidates) == TRUE

SlotsOf(path) == {i \in DOMAIN slots : slots[i].path = path}

\* acquire_slot() returns a slot that is there already, whatever it is wanted for ...
Reusable(path) == {i \in SlotsOf(path) : slots[i].binding = output_map[path]}

\* ... and checks the type of the producer against the candidates for a new one only.
MayBind(path, candidates) == output_map[path] \in candidates

Throws(path, candidates, required) ==
    IF path \notin DOMAIN output_map THEN required
    ELSE \/ output_map[path] = "event"
         \/ Reusable(path) = {} /\ ~MayBind(path, candidates)

\* What acquire_slot() returns, 0 for kNoSlot, and the slots after it.
Acquired(path) ==
    IF path \notin DOMAIN output_map THEN 0
    ELSE IF Reusable(path) # {} THEN Min(Reusable(path))
    ELSE Len(slots) + 1

SlotsAfter(path, required) ==
    IF Acquired(path) <= Len(slots) THEN slots
    ELSE Append(slots, [path |-> path, binding |-> output_map[path], required |-> required])

Term == terms[cursor.term]
PathToBind == Term.paths[Len(term_slots[cursor.term]) + 1]
Required == Term.kind \in JointKinds \/ ~Term.has_default

\* One call of acquire_slot() for an interface of a term.
BindTerm ==
    /\ phase = "binding" /\ cursor.term <= Len(terms)
    /\ Len(term_slots[cursor.term]) < Len(Term.paths)
    /\ IF Throws(PathToBind, Candidates(Term), Required)
       THEN Refuse
       ELSE /\ slots' = SlotsAfter(PathToBind, Required)
            /\ term_slots' = [term_slots EXCEPT ![cursor.term] = Append(@, Acquired(PathToBind))]
            /\ UNCHANGED <<phase, terms, output_map, cursor, frame>>
    /\ UNCHANGED config

NextTerm ==
    /\ phase = "binding" /\ cursor.term <= Len(terms)
    /\ Len(term_slots[cursor.term]) = Len(Term.paths)
    /\ cursor' = [cursor EXCEPT !.term = @ + 1]
    /\ UNCHANGED <<phase, config, terms, output_map, slots, term_slots, frame>>

StartControl ==
    /\ phase = "binding" /\ cursor.term > Len(terms)
    /\ phase' = "control" /\ cursor' = Start
    /\ UNCHANGED <<config, terms, output_map, slots, term_slots, frame>>

\* The enable, reset and flat-hold inputs: what they accept, and which is required.
ControlCandidates == <<{"bool", "double"}, {"size", "int", "double"}, {"bool", "double"}>>
ControlRequired == <<FALSE, FALSE, TRUE>>

BindControl ==
    /\ phase = "control" /\ cursor.term <= Len(ControlPaths(config))
    /\ LET path == ControlPaths(config)[cursor.term]
           required == ControlRequired[cursor.term]
       IN  IF path = "" THEN UNCHANGED <<phase, slots>>
           ELSE IF Throws(path, ControlCandidates[cursor.term], required)
                THEN phase' = "refused" /\ UNCHANGED slots
                ELSE slots' = SlotsAfter(path, required) /\ UNCHANGED phase
    /\ cursor' = [cursor EXCEPT !.term = @ + 1]
    /\ UNCHANGED <<config, terms, output_map, term_slots, frame>>

\* What the bridge produces itself.
OwnPaths ==
    {ActionTerm(ActionSpecs(config)[i]).output : i \in 1..ActionSize(config)}
    \cup {RlBase(config) \o name : name \in {"/valid", "/healthy", "/action_age", "/obs_seq"}}

\* No input may be an output of the bridge itself.
FinishPairing ==
    /\ phase = "control" /\ cursor.term > Len(ControlPaths(config))
    /\ phase' = IF \E i \in DOMAIN slots : slots[i].path \in OwnPaths THEN "refused" ELSE "running"
    /\ UNCHANGED <<config, terms, output_map, cursor, slots, term_slots, frame>>

----------------------------------------------------------------------------
(* build_observation(), with the values the inputs have in this cycle.     *)

\* What becomes of a reading: an angle relative to its default goes through atan2() and a
\* gravity vector through a rotation, which make NaN of an infinity.
Transformed(value, term) ==
    IF value = "infinite" /\ (term.relative \/ term.take = "gravity") THEN "nan" ELSE value

\* What a value is after scaling and clipping: a clip turns an infinite one finite.
Passes(value, term) == value = "finite" \/ (value = "infinite" /\ term.has_clip)

\* A configured constant may be a text like "inf".
ClassOf(constant) == CASE constant = Infinite -> "infinite" [] constant = NaN -> "nan" [] OTHER -> "finite"

\* One read of a term: the value, "unready", or a null member of the slot.
Reading(term, slot, inputs) ==
    LET value == Transformed(inputs[slots[slot].path], term)
        binding == slots[slot].binding
    IN  CASE term.take = "scalar" -> IF binding \in ScalarTypes THEN value ELSE "unready"
          [] term.take \in {"component", "vector"} -> IF binding \in VectorTypes THEN value ELSE "null"
          [] term.take = "gravity" -> IF binding = "quaternion" THEN value ELSE "null"

\* How a term ends: a frame is given up at the first term that is not ready or whose
\* elements are not all finite.
TermOutcome(i, inputs) ==
    LET term == terms[i]
        Readings == {Reading(term, term_slots[i][j], inputs) :
                        j \in {k \in DOMAIN term_slots[i] : term_slots[i][k] # 0}}
                    \cup {ClassOf(constant) : constant \in ToSet(term.constants)}
    IN  IF term.zero THEN "pushed"
        ELSE IF "null" \in Readings THEN "null"
        ELSE IF \A value \in Readings : Passes(value, term) THEN "pushed"
        ELSE "rejected"

\* Where the k-th element of the i-th term comes from.
Origin(i, k) ==
    LET term == terms[i]
        path == term.paths[IF term.kind \in JointKinds THEN k + 1 ELSE 1]
    IN  CASE term.kind = "constant" -> [from |-> term.kind, element |-> k]
          [] term.kind = "last_action" -> [from |-> term.kind, element |-> term.indices[k + 1]]
          [] term.kind \in JointKinds -> [from |-> IF term.zero THEN "zero" ELSE path, element |-> 0]
          [] term.kind = "path" ->
                [from |-> IF term_slots[i] = <<0>> THEN "default" ELSE path,
                 element |-> IF term.take = "component" THEN term.component ELSE k]

\* push() of every element at the offset of its term, into a frame of zeros.
Pushed ==
    LET Writers(at) == {i \in DOMAIN terms : at - terms[i].index \in 0..terms[i].dim - 1}
    IN  [at \in 0..FrameSize - 1 |->
            IF Writers(at) = {} THEN [from |-> "nothing", element |-> 0]
            ELSE Origin(Max(Writers(at)), at - terms[Max(Writers(at))].index)]

Build ==
    /\ phase = "running"
    /\ \E inputs \in [DOMAIN output_map -> {"unready", "finite", "infinite", "nan"}] :
        LET Stops == {i \in DOMAIN terms : TermOutcome(i, inputs) # "pushed"}
        IN  IF Stops = {} THEN frame' = Pushed /\ UNCHANGED phase
            ELSE /\ frame' = <<>>
                 /\ phase' = IF TermOutcome(Min(Stops), inputs) = "null" THEN "crashed" ELSE phase
    /\ UNCHANGED <<config, terms, output_map, cursor, slots, term_slots>>

Next == \/ LoadJoints \/ ParseActions \/ ParseTerm \/ StartIndexing
        \/ AssignIndex \/ CheckSizes \/ LoadSettings
        \/ BindTerm \/ NextTerm \/ StartControl \/ BindControl \/ FinishPairing
        \/ Build

Spec == Init /\ [][Next]_vars

----------------------------------------------------------------------------
(* Properties. *)

\* What RlBridge and CalmBridge take for granted of these constants is what the settings
\* of a bridge that starts are (config.cpp:66-98): frames published on time lie no further
\* apart than the history samples them, so that they never restart it
\* (observation_history.cpp:41), and an action without max_action_age outlives the next
\* two publications.  Not among it are that frames come at a finite rate, which a
\* policy_rate above the clock's resolution breaks (PubPeriod # 0), and how fast a policy
\* answers (LatencyAssumption), which no configuration can ensure.
SettingsFitBridge ==
    phase \in {"binding", "control", "running", "crashed"} =>
        /\ HistoryPeriod(config) = 0 \/ HistoryPeriod(config) >= PubPeriod(config)
        /\ ~IsSet(config.parameters, "max_action_age") => MaxActionAge(config) >= 2 * PubPeriod(config)
        /\ HistoryLength(config) \in Nat \ {0} /\ InvalidMode(config) \in {"nan", "zero", "hold"}

\* The frame the policy gets is the layout the signature hashes (obs_layout_signature(),
\* observation.cpp:137-146, names the terms with their dims in order and no offsets): the
\* elements of the terms one after the other, none overwritten and none left out.
FrameFollowsLayout ==
    frame # <<>> =>
        LET Elements(i) == [k \in 1..terms[i].dim |-> Origin(i, k - 1)]
            Layout == FlattenSeq([i \in DOMAIN terms |-> Elements(i)])
        IN  \A at \in 0..FrameSize - 1 : frame[at] = Layout[at + 1]

\* An interface is registered with the executor once, however many terms and control
\* inputs read it, and every term reads the interface it names.
OneSlotPerPath ==
    /\ \A i, j \in DOMAIN slots : slots[i].path = slots[j].path => i = j
    /\ \A i \in DOMAIN terms : \A j \in DOMAIN term_slots[i] :
            term_slots[i][j] # 0 => slots[term_slots[i][j]].path = terms[i].paths[j]

\* A cycle reads a member of a slot that is not there only if another input of the
\* bridge has bound the same interface for a different kind of value.
CrashNeedsConflict ==
    phase = "crashed" =>
        \E i, j \in DOMAIN terms :
            /\ ToSet(terms[i].paths) \cap ToSet(terms[j].paths) # {}
            /\ Candidates(terms[i]) \cap Candidates(terms[j]) = {}

\* The error of interface_binding.cpp:73-76 promises that a term is bound to a type it
\* accepts or the bridge does not start.
BoundAsAccepted ==
    phase = "running" =>
        \A i \in DOMAIN terms : \A j \in DOMAIN term_slots[i] :
            term_slots[i][j] # 0 => slots[term_slots[i][j]].binding \in Candidates(terms[i])
=============================================================================
