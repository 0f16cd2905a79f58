------------------------ MODULE MCObservationBuilder ------------------------
(***************************************************************************)
(* LayoutContract on families of configurations: every sequence of up to   *)
(* three specs out of one of each kind, some of them on the same interface *)
(* and with every type for the two interfaces they read; single specs of   *)
(* every form, acceptable to both sides, to one, or to none; and action    *)
(* terms, sizes, parameters of every type, joints, rates and control       *)
(* inputs, right and wrong.                                                *)
(***************************************************************************)
EXTENDS LayoutContract

MCLowerCase == [Quaternion |-> "quaternion", X |-> "x", TRUE |-> "true"]

T(key, value) == <<key, value>>

MCActions == <<<<T("index", 0), T("output", "m")>>, <<T("index", 1), T("output", "n"), T("scale", 2)>>>>

Param(type, value) == <<type, value>>
Text1(value) == Param("string", value)
Int1(value) == Param("integer", value)

\* The interfaces of two joints: P and Q are the angles, P the velocity of joint a too.
P == "r/a/angle"
Q == "r/b/angle"

MCParameters ==
    [action_terms |-> Param("strings", MCActions), joint_names |-> Param("strings", <<"a", "b">>),
     joint_base_path |-> Text1("r"), enable_interface |-> Text1(Q), flat_hold_interface |-> Text1("hold")]

Configuration(observations) ==
    [parameters |-> ("observation_terms" :> Param("strings", observations)) @@ MCParameters,
     overrides |-> (<<"a", "velocity">> :> Text1("/angle")),
     default_joint_pos |-> [a |-> Param("double", 1)]]

\* A configuration in which further parameters are set, or set otherwise.
With(configuration, parameters) == [configuration EXCEPT !.parameters = parameters @@ @]

MCSpecs ==
    {<<T("path", P), T("clip", <<1>>)>>,
     <<T("path", P), T("default", 0)>>,
     <<T("path", Q), T("type", "int")>>,
     <<T("path", "m")>>,
     <<T("path", P), T("take", "y")>>,
     <<T("path", P), T("take", "vec3")>>,
     <<T("path", Q), T("transform", "projected_gravity")>>,
     <<T("type", "joint_pos"), T("joints", <<"a", "b">>)>>,
     <<T("type", "joint_pos"), T("joints", <<"b">>), T("zero", "true")>>,
     <<T("type", "last_action"), T("index", 3)>>,
     <<T("type", "constant"), T("value", <<1>>)>>}

SequenceCases ==
    {Configuration(<<a>>) : a \in MCSpecs} \cup {Configuration(<<a, b>>) : a, b \in MCSpecs}
    \cup {Configuration(<<a, b, c>>) : a, b, c \in MCSpecs}

\* A token with a value of the set, or no token.
Maybe(key, values) == {<<>>} \cup {<<T(key, value)>> : value \in values}

PathSpecs ==
    {path \o take \o transform \o type :
        path \in Maybe("path", {"", P}), take \in Maybe("take", {"", "x", "X", "all", "gravity", "w"}),
        transform \in Maybe("transform", {"", "projected_gravity", "gravity", "w"}),
        type \in Maybe("type", {"", "scalar", "size_t", "vec3", "direction_vector", "quaternion",
                                "Quaternion", "w"})}

JointSpecs ==
    {<<T("type", type)>> \o joints \o relative \o zero :
        type \in JointKinds,
        joints \in Maybe("joints", {<<"a">>, <<"b", "a">>, <<"a", "a">>, <<"w">>, <<Empty>>, <<"a", Empty>>}),
        relative \in Maybe("relative", {"true", "0", "TRUE", "yes"}), zero \in Maybe("zero", {"1", "false", "w"})}

ListSpecs ==
    {<<T("type", "last_action")>> \o indices :
        indices \in Maybe("indices", {<<Empty>>, <<<<0>>>>, <<<<1>>, <<0>>>>, <<<<0, 1>>>>, <<<<0>>, <<0>>>>,
                                      <<<<1, 0>>>>, <<<<2>>>>, <<<<1, 2>>>>, <<<<0>>, Empty>>,
                                      <<<<Unreadable>>>>})}
    \cup {<<T("type", "constant")>> \o value :
        value \in Maybe("value", {<<Empty>>, <<0, 2>>, <<1, Empty>>, <<Infinite>>, <<NaN>>, <<Unreadable>>})}

\* Specs of every kind with everything any of them may have besides, and too much of it.
CommonSpecs ==
    {spec \o scale \o clip \o default \o name :
        spec \in MCSpecs, scale \in Maybe("scale", {1, 2, 0, Infinite}),
        clip \in Maybe("clip", {<<0>>, <<2>>, <<-1, 1>>, <<1, 0>>, <<0, Infinite>>}),
        default \in Maybe("default", {1, NaN}), name \in Maybe("name", {"", "w"})}
    \cup {spec \o extra :
        spec \in MCSpecs,
        extra \in {<<T("history_length", 1)>>, <<T("joints", <<"a">>)>>, <<T("relative", "true")>>,
                   <<T("value", <<1>>)>>, <<T("indices", <<<<0>>>>)>>, <<T("path", P)>>,
                   <<T("", "")>>, <<T("index", -1)>>}}

\* The last spec contradicts the offset, so that these end before anything is bound.
SingleCases ==
    {Configuration(<<spec, <<T("path", P), T("index", 9)>>>>) :
        spec \in PathSpecs \cup JointSpecs \cup ListSpecs \cup CommonSpecs}

MCActionSpecs ==
    {index \o output \o name \o scale :
        index \in Maybe("index", {0, 1, -1}), output \in Maybe("output", {"", "m"}),
        name \in Maybe("name", {"", "w"}), scale \in Maybe("scale", {2, 0})}

LastAction == <<T("type", "last_action")>>

ActionCases ==
    {With(Configuration(<<LastAction>>), [action_terms |-> Param("strings", actions)] @@ size) :
        actions \in {<<>>, <<MCActions[2], MCActions[1]>>} \cup {<<a>> : a \in MCActionSpecs}
                    \cup {<<MCActions[1], b>> : b \in MCActionSpecs},
        size \in {<<>>} \cup {[rl_action_size |-> Int1(n)] : n \in {1, 2}}}

SizeCases ==
    {With(Configuration(<<spec>>), history @@ size) :
        spec \in {<<T("path", P)>>, <<T("type", "last_action"), T("indices", <<Empty>>)>>,
                  <<T("type", "constant"), T("value", <<Infinite>>)>>,
                  <<T("type", "last_action"), T("index", 0)>>,
                  <<T("type", "joint_pos"), T("joints", <<"a">>), T("relative", "1"), T("clip", <<1>>)>>},
        history \in {<<>>} \cup {[history_length |-> Int1(n)] : n \in {0, 1, 2, 65}},
        size \in {<<>>} \cup {[rl_obs_size |-> Int1(n)] : n \in {0, 1, 2, 4}}}

\* Every parameter with a value of each type, of which most refuse the bridge.
Names == {"action_terms", "observation_terms", "joint_names", "joint_base_path", "joint_angle_suffix",
          "joint_torque_suffix", "rl_action_size", "rl_obs_size", "history_length", "policy_rate",
          "history_rate", "max_action_age", "rl_base", "invalid_value", "enable_interface",
          "enable_default", "reset_interface", "flat_hold_interface"}
Values == {Param("bool", TRUE), Int1(2), Param("double", 2), Param("double", NaN),
           Param("double", Infinite), Text1("zero"), Text1(""), Param("strings", <<>>)}

TypeCases ==
    {With(Configuration(<<LastAction>>), name :> value) : name \in Names, value \in Values}
    \cup {With(Configuration(<<LastAction>>), name :> Param("double", Fraction)) :
            name \in {"rl_action_size", "rl_obs_size", "history_length"}}

JointTerms == {<<T("type", kind), T("joints", <<joint>>)>> : kind \in JointKinds, joint \in {"a", "b"}}

JointCases ==
    {[Configuration(<<spec, <<T("type", "joint_pos"), T("joints", <<"a">>), T("relative", "1")>>>>) EXCEPT
        !.overrides = overrides, !.default_joint_pos = defaults] :
        spec \in JointTerms,
        overrides \in {<<>>, <<"b", "torque">> :> Text1("/angle"), <<"b", "angle">> :> Int1(0),
                       <<"c", "angle">> :> Text1(""), <<"a", "mass">> :> Text1(""), <<"a">> :> Text1("")},
        defaults \in {<<>>} \cup {[a |-> value] : value \in {Int1(0), Param("double", NaN), Text1("1")}}}
    \cup {With(Configuration(<<spec>>), parameters) :
        spec \in JointTerms,
        parameters \in {[joint_names |-> Param("strings", names)] : names \in {<<"a">>, <<"a", "a">>, <<"">>}}
                       \cup {[joint_velocity_suffix |-> Text1("/angle")], [rl_base |-> Text1("")]}}

\* Rates that divide a second and rates that do not, and actions of any age.
SettingCases ==
    {With(Configuration(<<LastAction>>), rate @@ history @@ age) :
        rate \in {<<>>} \cup {[policy_rate |-> Int1(n)] : n \in {-1, 0, 7, 30, 100}},
        history \in {<<>>} \cup {[history_rate |-> Int1(n)] : n \in {0, 3, 7, 30, 50, 100}},
        age \in {<<>>} \cup {[max_action_age |-> Int1(n)] : n \in {0, 1}}}

\* Control inputs on interfaces of any type, of observations, and of the bridge.
ControlCases ==
    {With(Configuration(<<spec>>), name :> Text1(path)) :
        spec \in {LastAction, <<T("path", P)>>},
        name \in {"enable_interface", "reset_interface", "flat_hold_interface"},
        path \in {P, "none", "m", "/rl/valid"}}

MCConfigurations ==
    SequenceCases \cup SingleCases \cup ActionCases \cup SizeCases \cup TypeCases \cup JointCases
    \cup SettingCases \cup ControlCases

MCTypes == {"double", "int", "vector3", "quaternion", "float", "event"}

MCOutputs ==
    {[path \in produced \cup {"m", "hold", "/rl/valid"} |->
        CASE path = P -> a [] path = Q -> b [] path = "hold" -> "bool" [] OTHER -> "double"] :
            produced \in SUBSET {P, Q}, a, b \in MCTypes}
=============================================================================
