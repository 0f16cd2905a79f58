----------------------------- MODULE TermParser -----------------------------
(***************************************************************************)
(* How the bridge reads a configured term (term_parser.cpp, utility.cpp).  *)
(* A spec is the sequence of its key=value tokens <<key, value>>; a token  *)
(* without a key or without "=" has the key "".  The value of               *)
(*   path, take, transform, type, name, relative, zero, output is a string,*)
(*   joints and value is the list of its comma-separated pieces,           *)
(*   indices is such a list of <<i>> and <<first, last>>,                  *)
(*   clip is <<symmetric>> or <<min, max>>,                                *)
(*   index, scale and default is a number.                                 *)
(* Whether a spec is accepted and what the term is are separate operators; *)
(* the order of the exceptions does not matter, they all end the bridge.   *)
(***************************************************************************)
EXTENDS JointConfig

CONSTANTS Unreadable,   \* the text of a number that is none
          Empty         \* an empty piece of a list

\* What the value of a token can be, where it is not a text.
Numbers == Int \cup {Unreadable, Empty, Infinite, NaN}

IsToken(token) ==
    CASE token[1] = "joints"  -> token[2] \in Seq(STRING \cup {Empty}) \ {<<>>}
      [] token[1] = "value"   -> token[2] \in Seq(Numbers) \ {<<>>}
      [] token[1] = "indices" ->
            /\ token[2] \in Seq({Empty} \cup Seq(Numbers)) \ {<<>>}
            /\ \A i \in DOMAIN token[2] : token[2][i] # Empty => Len(token[2][i]) \in 1..2
      [] OTHER                -> TRUE

IsSpec(spec) ==
    Len(spec) \in Nat /\ DOMAIN spec = 1..Len(spec) /\ \A i \in DOMAIN spec : IsToken(spec[i])

Keys(spec) == {spec[i][1] : i \in DOMAIN spec}
Has(spec, key) == key \in Keys(spec)
Value(spec, key) == spec[SelectInSeq(spec, LAMBDA token : token[1] = key)][2]
Text(spec, key) == IF Has(spec, key) THEN Value(spec, key) ELSE ""

\* parse_tokens()
WellFormed(spec) == ~Has(spec, "") /\ Cardinality(Keys(spec)) = Len(spec)

Readable(number) == number \notin {Unreadable, Empty}
Finite(number) == number \notin {Unreadable, Empty, Infinite, NaN}

\* split_by(): getline() returns no empty piece at the end.
SplitBy(pieces) == IF Last(pieces) = Empty THEN Front(pieces) ELSE pieces

IsBoolean(text) == text \in {"true", "1", "false", "0"}
IsTrue(text) == text \in {"true", "1"}
BoolTokenOk(spec, key) == Has(spec, key) => IsBoolean(Value(spec, key))

ScaleOf(spec) == IF Has(spec, "scale") THEN Value(spec, "scale") ELSE 1
ScaleOk(spec) == Finite(ScaleOf(spec)) /\ ScaleOf(spec) # 0

ClipOk(spec) ==
    Has(spec, "clip") =>
        LET clip == Value(spec, "clip")
        IN  /\ \A i \in DOMAIN clip : Finite(clip[i])
            /\ IF Len(clip) = 1 THEN clip[1] > 0 ELSE clip[1] <= clip[2]

IndexOk(spec) == Has(spec, "index") => Finite(Value(spec, "index")) /\ Value(spec, "index") >= 0
NameOk(spec) == Has(spec, "name") => Value(spec, "name") # ""
DefaultOk(spec) == Has(spec, "default") => Finite(Value(spec, "default"))

----------------------------------------------------------------------------
(* Observation terms. *)

\* A term: what it reads, how, and where its elements go.  A joint term reads one
\* interface for each joint, a path term one; a term of last actions or constants none.
\* An id is the tuple of its parts.
NewTerm == [kind |-> "path", paths |-> <<>>, take |-> "scalar", component |-> 0, type |-> "",
            indices |-> <<>>, constants |-> <<>>, relative |-> FALSE, zero |-> FALSE, id |-> <<>>,
            dim |-> 1, scale |-> 1, has_clip |-> FALSE, has_default |-> FALSE, has_index |-> FALSE, index |-> 0]

JointField == [joint_pos |-> "angle", joint_vel |-> "velocity", joint_torque |-> "torque"]
JointKinds == DOMAIN JointField
CommonKeys == {"type", "index", "scale", "clip", "name"}

CommonOk(spec, keys) ==
    Keys(spec) \subseteq keys \cup CommonKeys /\ IndexOk(spec) /\ ScaleOk(spec) /\ ClipOk(spec) /\ NameOk(spec)

Finished(spec, term) ==
    [term EXCEPT !.id = IF Has(spec, "name") THEN <<Value(spec, "name")>> ELSE @,
                 !.scale = ScaleOf(spec), !.has_clip = Has(spec, "clip"),
                 !.has_default = Has(spec, "default"), !.has_index = Has(spec, "index"),
                 !.index = IF Has(spec, "index") THEN Value(spec, "index") ELSE @]

Relative(spec) == IsTrue(Text(spec, "relative"))
Zero(spec) == IsTrue(Text(spec, "zero"))

JointTermOk(spec, config) ==
    /\ CommonOk(spec, {"joints", "relative", "zero"})
    /\ Has(spec, "joints") /\ Value(spec, "joints") # <<Empty>>
    /\ ToSet(SplitBy(Value(spec, "joints"))) \subseteq ToSet(JointNames(config))
    /\ BoolTokenOk(spec, "relative") /\ BoolTokenOk(spec, "zero")
    /\ Relative(spec) \/ Zero(spec) => Text(spec, "type") = "joint_pos"
    /\ ~(Relative(spec) /\ Zero(spec))
    /\ Relative(spec) => \A joint \in ToSet(SplitBy(Value(spec, "joints"))) : HasDefaultPos(config, joint)

JointTerm(spec, config) ==
    LET kind == Text(spec, "type")
        joints == SplitBy(Value(spec, "joints"))
        flag == IF Zero(spec) THEN "zero" ELSE IF Relative(spec) THEN "rel" ELSE "abs"
    IN  [NewTerm EXCEPT !.kind = kind, !.relative = Relative(spec), !.zero = Zero(spec), !.dim = Len(joints),
                        !.paths = [i \in DOMAIN joints |-> JointPath(config, joints[i], JointField[kind])],
                        !.id = <<kind, flag, joints>>]

\* Seeded fault: a range without its last index.
HalfOpen(piece) == IF Len(piece) = 1 THEN piece ELSE [i \in 1..piece[2] - piece[1] |-> piece[1] + i - 1]

\* The indices of a piece: one, or a range with both ends.
Expanded(piece) ==
    IF Len(piece) = 1 THEN piece ELSE [i \in 1..piece[2] - piece[1] + 1 |-> piece[1] + i - 1]

PieceOk(piece, limit) ==
    /\ piece # Empty
    /\ \A i \in DOMAIN piece : Finite(piece[i]) /\ piece[i] >= 0 /\ piece[i] < limit
    /\ piece[1] <= piece[Len(piece)]

ExpandedAll(pieces) == FlattenSeq([i \in DOMAIN pieces |-> Expanded(pieces[i])])

LastActionOk(spec, action_size) ==
    /\ CommonOk(spec, {"indices"})
    /\ Has(spec, "indices") =>
        \A piece \in ToSet(SplitBy(Value(spec, "indices"))) : PieceOk(piece, action_size)

LastActionTerm(spec, action_size) ==
    LET indices == IF Has(spec, "indices") THEN ExpandedAll(SplitBy(Value(spec, "indices")))
                   ELSE [i \in 1..action_size |-> i - 1]
    IN  [NewTerm EXCEPT !.kind = "last_action", !.indices = indices, !.dim = Len(indices),
                        !.id = <<"last_action", indices>>]

ConstantOk(spec) ==
    /\ CommonOk(spec, {"value"})
    /\ Has(spec, "value") /\ Value(spec, "value") # <<Empty>>
    /\ \A number \in ToSet(SplitBy(Value(spec, "value"))) : Readable(number)

ConstantTerm(spec) ==
    LET constants == SplitBy(Value(spec, "value"))
    IN  [NewTerm EXCEPT !.kind = "constant", !.constants = constants, !.dim = Len(constants),
                        !.id = <<"constant", constants>>]

ScalarTypes == {"double", "bool", "int", "size"}
VectorTypes == {"vector3", "direction_vector"}

\* The interface types that suit what a term takes.
Suited(take) ==
    CASE take = "scalar" -> ScalarTypes
      [] take \in {"component", "vector"} -> VectorTypes
      [] take = "gravity" -> {"quaternion"}

\* The binding a type= names.
Binding(type) ==
    CASE type \in {"scalar", "double"} -> "double"
      [] type \in {"size", "size_t"} -> "size"
      [] type \in {"vector3", "vec3"} -> "vector3"
      [] type \in {"bool", "int", "direction_vector", "quaternion"} -> type
      [] OTHER -> "unknown"

Axes == <<"x", "y", "z">>
VectorTakes == {"vec3", "vec", "all", "vector"}

\* What a path term takes, from take= and transform=, which may say the same.
TakeOf(take, transform) ==
    IF transform # ""
    THEN IF transform = "projected_gravity" /\ take \in {"", "gravity"} THEN "gravity" ELSE "unknown"
    ELSE CASE take = "" -> "scalar"
           [] take \in ToSet(Axes) -> "component"
           [] take \in VectorTakes -> "vector"
           [] take = "gravity" -> "gravity"
           [] OTHER -> "unknown"

PathTermOk(spec) ==
    LET take == TakeOf(Text(spec, "take"), Text(spec, "transform"))
    IN  /\ CommonOk(spec, {"path", "take", "transform", "default"})
        /\ Text(spec, "path") # ""
        /\ take # "unknown"
        /\ Text(spec, "type") # "" => Binding(Text(spec, "type")) \in Suited(take)
        /\ Has(spec, "default") => take = "scalar" /\ DefaultOk(spec)

PathTerm(spec) ==
    LET path == Text(spec, "path")
        axis == Text(spec, "take")
        take == TakeOf(axis, Text(spec, "transform"))
    IN  [NewTerm EXCEPT
            !.paths = <<path>>, !.take = take,
            !.component = IF take = "component" THEN SelectInSeq(Axes, LAMBDA name : name = axis) - 1 ELSE @,
            !.type = IF Text(spec, "type") = "" THEN @ ELSE Binding(Text(spec, "type")),
            !.dim = IF take \in {"vector", "gravity"} THEN 3 ELSE 1,
            !.id = CASE take = "scalar"    -> <<path>>
                     [] take = "component" -> <<"vec3c", path, axis>>
                     [] take = "vector"    -> <<"vec3", path>>
                     [] take = "gravity"   -> <<"gravity", path>>]

ObsTermOk(spec, config, action_size) ==
    /\ WellFormed(spec) /\ spec # <<>>
    /\ CASE Text(spec, "type") \in JointKinds    -> JointTermOk(spec, config)
         [] Text(spec, "type") = "last_action" -> LastActionOk(spec, action_size)
         [] Text(spec, "type") = "constant"    -> ConstantOk(spec)
         [] OTHER                               -> PathTermOk(spec)

ObsTerm(spec, config, action_size) ==
    Finished(spec,
        CASE Text(spec, "type") \in JointKinds    -> JointTerm(spec, config)
          [] Text(spec, "type") = "last_action" -> LastActionTerm(spec, action_size)
          [] Text(spec, "type") = "constant"    -> ConstantTerm(spec)
          [] OTHER                               -> PathTerm(spec))

----------------------------------------------------------------------------
(* Action terms. *)

ActionTermOk(spec) ==
    /\ WellFormed(spec)
    /\ Keys(spec) \subseteq {"index", "output", "name", "scale", "clip"}
    /\ Has(spec, "index") /\ IndexOk(spec)
    /\ Text(spec, "output") # ""
    /\ NameOk(spec) /\ ScaleOk(spec) /\ ClipOk(spec)

ActionTerm(spec) ==
    [index |-> Value(spec, "index"), output |-> Value(spec, "output"), scale |-> ScaleOf(spec),
     id |-> IF Has(spec, "name") THEN Value(spec, "name") ELSE Value(spec, "output")]

----------------------------------------------------------------------------
(* The signatures that are hashed: clip, default and type are not part of them. *)

ObsEntry(term) == [id |-> term.id, scale |-> term.scale, dim |-> term.dim]
ActionEntry(term) == [index |-> term.index, id |-> term.id, scale |-> term.scale]
=============================================================================
