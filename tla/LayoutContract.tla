--------------------------- MODULE LayoutContract ---------------------------
(***************************************************************************)
(* The bridge and the offline tools on the same configuration: the tools   *)
(* stamp a model with a layout hash, the bridge compares it with its own.  *)
(***************************************************************************)
EXTENDS ObservationBuilder, LayoutTool

\* rl_layout.py:4: the bridge implements the grammar of the tools a second time.  Whenever
\* the tools accept a configuration and the bridge has parsed it, the signatures agree
\* entry by entry; once the bridge has accepted the sizes too, everything that the layout
\* hash is taken over agrees.
SameLayout ==
    ToolAccepts(config) =>
        /\ phase = "indexing" =>
            /\ LayoutPayload.observations.entries = ToolPayload(config).observations.entries
            /\ LayoutPayload.actions = ToolPayload(config).actions
        /\ phase \in {"settings", "binding", "control", "running", "crashed"} => LayoutPayload = ToolPayload(config)
=============================================================================
