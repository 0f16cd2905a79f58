----------------------------- MODULE LayoutTool -----------------------------
(***************************************************************************)
(* The second implementation of the term grammar: src/tool/rl_layout.py,   *)
(* with which a model is stamped and a deployment is checked offline.  It  *)
(* reads the same YAML as the bridge; specs are those of TermParser.       *)
(***************************************************************************)
EXTENDS TermParser

CONSTANT LowerCase      \* texts with capital letters -> the text in small ones

\* The keywords of both sides, which have no capital letters.
Keywords ==
    {"", "joint_pos", "joint_vel", "joint_torque", "last_action", "constant", "true", "1", "false", "0",
     "scalar", "double", "bool", "int", "size", "size_t", "vector3", "vec3", "direction_vector",
     "quaternion", "x", "y", "z", "vec", "all", "vector", "gravity", "projected_gravity"}

ASSUME LowerCaseAssumption == DOMAIN LowerCase \cap Keywords = {}

Lower(text) == IF text \in DOMAIN LowerCase THEN LowerCase[text] ELSE text
LowerText(spec, key) == Lower(Text(spec, key))

OBS_KEYS == {"path", "take", "transform", "type", "index", "scale", "clip", "default", "name",
             "joints", "relative", "zero", "indices", "value", "history_length"}

SCALAR_INTERFACE_TYPES == {"scalar", "double", "bool", "int", "size", "size_t"}
VECTOR_INTERFACE_TYPES == {"vector3", "vec3", "direction_vector"}
INTERFACE_TYPES == SCALAR_INTERFACE_TYPES \cup VECTOR_INTERFACE_TYPES \cup {"quaternion"}
GRAVITY_TRANSFORMS == {"projected_gravity", "gravity"}

HasNone(spec, keys) == Keys(spec) \cap keys = {}

ToolTrue(text) == Lower(text) \in {"true", "1", "yes", "on"}
ToolBoolOk(spec, key) ==
    Has(spec, key) => LowerText(spec, key) \in {"true", "1", "yes", "on", "false", "0", "no", "off"}

ToolCommonOk(spec) == ScaleOk(spec) /\ ClipOk(spec) /\ DefaultOk(spec) /\ NameOk(spec)

ToolJointOk(spec) ==
    /\ HasNone(spec, {"path", "take", "transform", "indices", "value"})
    /\ Has(spec, "joints") /\ Empty \notin ToSet(Value(spec, "joints"))
    /\ IF LowerText(spec, "type") = "joint_pos"
       THEN /\ ToolBoolOk(spec, "relative") /\ ToolBoolOk(spec, "zero")
            /\ ~(ToolTrue(Text(spec, "relative")) /\ ToolTrue(Text(spec, "zero")))
       ELSE HasNone(spec, {"relative", "zero"})

ToolPieceOk(piece, limit) ==
    /\ piece # Empty
    /\ \A i \in DOMAIN piece : Finite(piece[i]) /\ piece[i] \in 0..limit - 1
    /\ piece[1] <= piece[Len(piece)]

ToolExpanded(piece) ==
    IF Len(piece) = 1 THEN piece ELSE [i \in 1..piece[2] - piece[1] + 1 |-> piece[1] + i - 1]
ToolIndices(pieces) == FlattenSeq([i \in DOMAIN pieces |-> ToolExpanded(pieces[i])])

ToolLastActionOk(spec, action_size) ==
    /\ HasNone(spec, {"path", "take", "transform", "joints", "value"})
    /\ IF Has(spec, "indices")
       THEN LET pieces == Value(spec, "indices")
            IN  /\ \A piece \in ToSet(pieces) : ToolPieceOk(piece, action_size)
                /\ IsInjective(ToolIndices(pieces))
       ELSE action_size > 0

ToolConstantOk(spec) ==
    /\ HasNone(spec, {"path", "take", "transform", "joints", "indices"})
    /\ Has(spec, "value") /\ \A number \in ToSet(Value(spec, "value")) : Finite(number)

\* What a path term takes, "unknown" if it is refused.
ToolTake(spec) ==
    LET type == LowerText(spec, "type")
        take == LowerText(spec, "take")
        turned == type \notin SCALAR_INTERFACE_TYPES \cup VECTOR_INTERFACE_TYPES
    IN  IF Has(spec, "transform")
        THEN IF ~Has(spec, "take") /\ LowerText(spec, "transform") \in GRAVITY_TRANSFORMS /\ turned
             THEN "gravity" ELSE "unknown"
        ELSE IF type = "quaternion" THEN "unknown"
        ELSE IF ~Has(spec, "take") THEN "scalar"
        ELSE CASE take \in GRAVITY_TRANSFORMS /\ turned -> "gravity"
               [] take \in ToSet(Axes) -> "component"
               [] take \in VectorTakes -> "vector"
               [] OTHER -> "unknown"

ToolPathOk(spec) ==
    /\ HasNone(spec, {"joints", "relative", "zero", "indices", "value"})
    /\ Text(spec, "path") # "" /\ ToolTake(spec) # "unknown"

ToolObsTermOk(spec, action_size) ==
    LET type == LowerText(spec, "type")
    IN  /\ WellFormed(spec) /\ spec # <<>> /\ Keys(spec) \subseteq OBS_KEYS
        /\ ToolCommonOk(spec)
        /\ CASE ~Has(spec, "type") -> ToolPathOk(spec)
             [] type \in JointKinds -> ToolJointOk(spec)
             [] type = "last_action" -> ToolLastActionOk(spec, action_size)
             [] type = "constant" -> ToolConstantOk(spec)
             [] type \in INTERFACE_TYPES -> ToolPathOk(spec)
             [] OTHER -> FALSE

\* parse_obs_term(): the entry of a term in the signature.
ToolObsEntry(spec, action_size) ==
    LET type == LowerText(spec, "type")
        path == Text(spec, "path")
        take == ToolTake(spec)
        joints == Value(spec, "joints")
        indices == IF Has(spec, "indices") THEN ToolIndices(Value(spec, "indices"))
                   ELSE [i \in 1..action_size |-> i - 1]
        mode == IF type # "joint_pos" THEN "abs"
                ELSE IF ToolTrue(Text(spec, "relative")) THEN "rel"
                ELSE IF ToolTrue(Text(spec, "zero")) THEN "zero" ELSE "abs"
        Entry(id, dim) ==
            [id |-> IF Has(spec, "name") THEN <<Value(spec, "name")>> ELSE id,
             scale |-> ScaleOf(spec), dim |-> dim]
    IN  CASE type \in JointKinds    -> Entry(<<type, mode, joints>>, Len(joints))
          [] type = "last_action" -> Entry(<<type, indices>>, Len(indices))
          [] type = "constant"    -> Entry(<<type, Value(spec, "value")>>, Len(Value(spec, "value")))
          [] OTHER -> CASE take = "scalar"    -> Entry(<<path>>, 1)
                        [] take = "component" -> Entry(<<"vec3c", path, LowerText(spec, "take")>>, 1)
                        [] take = "vector"    -> Entry(<<"vec3", path>>, 3)
                        [] take = "gravity"   -> Entry(<<"gravity", path>>, 3)

----------------------------------------------------------------------------
(* load_config(), which reads the sizes and the lists of specs only.       *)

ToolTermsOk(config, key) ==
    /\ IsSet(config.parameters, key) /\ StringsOk(config.parameters, key)
    /\ config.parameters[key][2] # <<>>

\* _declared_size(): no double is taken, though the bridge takes it.
ToolSizeOk(config, key) == OfType(config.parameters, key, {"integer"})
ToolSize(config, key, fallback) == ValueOr(config.parameters, key, fallback)

ToolActions(config) == config.parameters.action_terms[2]
ToolObservations(config) == config.parameters.observation_terms[2]

ToolActionOk(spec) ==
    /\ WellFormed(spec) /\ spec # <<>>
    /\ Keys(spec) \subseteq {"index", "output", "name", "scale", "clip"}
    /\ Has(spec, "index") /\ IndexOk(spec)
    /\ Text(spec, "output") # ""
    /\ NameOk(spec) /\ ScaleOk(spec) /\ ClipOk(spec)

ToolActionEntry(spec) ==
    [index |-> Value(spec, "index"), scale |-> ScaleOf(spec),
     id |-> Value(spec, IF Has(spec, "name") THEN "name" ELSE "output")]

\* action_signature() and _check_action_index_order()
ToolActionsOk(specs) ==
    /\ specs # <<>>
    /\ \A i \in DOMAIN specs : ToolActionOk(specs[i]) /\ Value(specs[i], "index") = i - 1

ToolObsEntries(config) ==
    [i \in DOMAIN ToolObservations(config) |->
        ToolObsEntry(ToolObservations(config)[i], Len(ToolActions(config)))]

ToolOffset(entries, i) == FoldLeft(LAMBDA sum, entry : sum + entry.dim, 0, SubSeq(entries, 1, i - 1))

\* _check_obs_index_order(): the indices are compared if every term has one.
ToolIndexOrderOk(config) ==
    LET specs == ToolObservations(config)
    IN  /\ \A i \in DOMAIN specs : Has(specs[i], "index") => Finite(Value(specs[i], "index"))
        /\ (\A i \in DOMAIN specs : Has(specs[i], "index")) =>
            \A i \in DOMAIN specs : Value(specs[i], "index") = ToolOffset(ToolObsEntries(config), i)

\* A length of 0 counts as none.
ToolHistory(config) ==
    IF ToolSize(config, "history_length", 0) = 0 THEN 1 ELSE ToolSize(config, "history_length", 0)

ToolFrameSize(config) == ToolOffset(ToolObsEntries(config), Len(ToolObservations(config)) + 1)
ToolObsSize(config) == ToolFrameSize(config) * ToolHistory(config)

ToolAccepts(config) ==
    /\ \A key \in {"action_terms", "observation_terms"} : ToolTermsOk(config, key)
    /\ \A key \in {"rl_action_size", "rl_obs_size", "history_length"} : ToolSizeOk(config, key)
    /\ LET actions == ToolActions(config)
           observations == ToolObservations(config)
       IN  /\ ToolSize(config, "rl_action_size", Len(actions)) = Len(actions)
           /\ ToolActionsOk(actions)
           /\ \A i \in DOMAIN observations : ToolObsTermOk(observations[i], Len(actions))
    /\ ToolHistory(config) >= 1
    /\ ToolSize(config, "rl_obs_size", ToolObsSize(config)) = ToolObsSize(config)
    /\ ToolIndexOrderOk(config)

\* layout_payload(): what is hashed.
ToolPayload(config) ==
    [observations |-> [history |-> ToolHistory(config), entries |-> ToolObsEntries(config)],
     actions      |-> [i \in DOMAIN ToolActions(config) |-> ToolActionEntry(ToolActions(config)[i])],
     obs_size     |-> ToolObsSize(config),
     action_size  |-> Len(ToolActions(config))]
=============================================================================
