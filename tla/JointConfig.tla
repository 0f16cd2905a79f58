---------------------------- MODULE JointConfig ----------------------------
(***************************************************************************)
(* The joints of a configuration and the interfaces they stand for         *)
(* (joint_config.cpp).  A configuration is a record of the parameters of   *)
(* the node and of the two groups that have a name in theirs:              *)
(*   overrides         : <<joint, field>>, or <<name>> for a name without  *)
(*                       a separator, of joint_interface_overrides,        *)
(*   default_joint_pos : a joint.                                          *)
(***************************************************************************)
EXTENDS Parameters, SequencesExt

SuffixParameter ==
    [angle |-> "joint_angle_suffix", velocity |-> "joint_velocity_suffix", torque |-> "joint_torque_suffix"]
DefaultSuffix == [angle |-> "/angle", velocity |-> "/velocity", torque |-> "/torque"]
Fields == DOMAIN DefaultSuffix

JointNames(config) == ValueOr(config.parameters, "joint_names", <<>>)
BasePath(config) == ValueOr(config.parameters, "joint_base_path", "")

\* load_joint_config(): what it accepts.
JointConfigOk(config) ==
    /\ StringsOk(config.parameters, "joint_names") /\ StringOk(config.parameters, "joint_base_path")
    /\ JointNames(config) # <<>> => BasePath(config) # ""
    /\ "" \notin ToSet(JointNames(config)) /\ IsInjective(JointNames(config))
    /\ \A field \in Fields : StringOk(config.parameters, SuffixParameter[field])
    /\ \A key \in DOMAIN config.overrides :
        /\ Len(key) = 2
        /\ key[1] \in ToSet(JointNames(config)) /\ key[2] \in Fields
        /\ StringOk(config.overrides, key)

\* The suffix of a joint: its override, the configured one, or the default.
Suffix(config, joint, field) ==
    ValueOr(config.overrides, <<joint, field>>,
            ValueOr(config.parameters, SuffixParameter[field], DefaultSuffix[field]))

JointPath(config, joint, field) == BasePath(config) \o "/" \o joint \o Suffix(config, joint, field)

\* default_joint_pos() finds a value for the joint.
HasDefaultPos(config, joint) ==
    IsSet(config.default_joint_pos, joint) /\ NumberOk(config.default_joint_pos, joint)
=============================================================================
