---------------------------- MODULE MCControlLoop ----------------------------
(***************************************************************************)
(* ControlLoop with one model of every kind: stamped for this layout,      *)
(* stamped for another one, not stamped, and with another action size or   *)
(* another observation size.                                               *)
(***************************************************************************)
EXTENDS ControlLoop

MCModel(id, hash, obs, action) ==
    [id |-> id, layout_hash |-> hash, obs_size |-> obs, action_size |-> action]

MCModels ==
    {MCModel(1, 7, 1, 1), MCModel(2, 8, 1, 1), MCModel(3, 0, 1, 1), MCModel(4, 0, 1, 2), MCModel(5, 0, 2, 1)}
=============================================================================
