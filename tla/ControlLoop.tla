----------------------------- MODULE ControlLoop -----------------------------
(***************************************************************************)
(* The bridge and the policy process around it, connected by the topics    *)
(* <rl_base>/obs and <rl_base>/action.  The policy process may crash and   *)
(* come back with another model; in one configuration the control process  *)
(* restarts too, and the bridge starts from nothing next to a policy       *)
(* process that is still running.                                          *)
(***************************************************************************)
EXTENDS RlBridge, PolicyServer

CONSTANTS ActionSize,       \* config_.action_size
          MaxBoots          \* bound: restarts of the control process

ASSUME LoopAssumption == {model.id : model \in Models} \subseteq ModelIds /\ MaxBoots \in Nat

VARIABLE predecessors       \* history: the layouts of the bridges before this one

loopVars == <<vars, serverVars, predecessors>>

LoopInit == Init /\ ServerInit /\ predecessors = <<>>

\* The contents of the n-th observation since the last restart of the bridge.
Contents(n) == Len(predecessors) * MaxSequence + n

\* publish_observation_(): the message of the observation this cycle published.
ObserveAndSend ==
    /\ Observe
    /\ obs_topic' =
        IF Len(published') = Len(published) THEN obs_topic
        ELSE Append(obs_topic, [obs_seq |-> runtime'.timeline.sequence,
                                layout_hash |-> layout_hash,
                                obs |-> Contents(Len(published'))])
    /\ UNCHANGED <<action_topic, server, predecessors>>

\* on_action_(): a message of another size is ignored.
DeliverAction(i) ==
    LET m == action_topic[i]
    IN  /\ action_topic' = From(action_topic, i + 1)
        /\ IF m.action_size = ActionSize
           THEN Store([obs_seq |-> m.obs_seq, layout_hash |-> m.layout_hash,
                       model_id |-> m.model_id, action |-> m.action])
           ELSE UNCHANGED vars

\* The control process dies and comes back, perhaps with another configuration: a new
\* bridge with new subscriptions, on the same clock.
RestartBridge ==
    /\ Len(predecessors) < MaxBoots
    /\ predecessors' = Append(predecessors, layout_hash)
    /\ phase' = "idle" /\ runtime' = NewRuntime
    /\ layout_hash' \in Layouts
    /\ contract_ok' = TRUE /\ last_valid' = FALSE
    /\ last_enabled' = FALSE /\ last_flat_hold' = FALSE /\ last_reset_count' = 0
    /\ channel' = [incoming |-> NoMessage, received |-> FALSE, has_read |-> FALSE]
    /\ snapshot' = NoMessage
    /\ outputs' = NoOutputs
    /\ published' = <<>> /\ disowned' = 0 /\ executed' = 0 /\ answered' = {}
    /\ action_topic' = <<>>
    /\ UNCHANGED <<now, obs_topic, server>>

LoopNext ==
    \/ ObserveAndSend
    \/ Act /\ UNCHANGED <<serverVars, predecessors>>
    \/ \E i \in DOMAIN action_topic :
            DeliverAction(i) /\ UNCHANGED <<obs_topic, server, predecessors>>
    \/ ServerNext /\ UNCHANGED <<vars, predecessors>>
    \/ RestartBridge

LoopSpec == LoopInit /\ [][LoopNext]_loopVars

----------------------------------------------------------------------------
(* Properties. *)

LoopTypeOK ==
    /\ TypeOK
    /\ server.status \in {"down", "ready", "inferring"}
    /\ server.model \in Models \cup {NoModel}
    /\ \A i \in DOMAIN obs_topic : obs_topic[i].obs_seq \in 1..MaxSequence
    /\ \A i \in DOMAIN action_topic : action_topic[i].obs_seq \in 1..MaxSequence
    /\ predecessors \in Seq(Layouts) /\ Len(predecessors) <= MaxBoots

\* With a bridge that is not restarted, the policy process and the topics are an
\* environment RlBridge allows: every action answers, with what was computed for it,
\* an observation that was published.  All that is checked and proved of RlBridge
\* therefore holds of the loop.
ImplementsBridge == Spec

\* A model whose layout metadata or whose sizes are not the bridge's never drives,
\* although the bridge only sees the hash of its own observation echoed.
MismatchedModelNeverDrives ==
    Driving =>
        \E model \in Models :
            /\ model.id = snapshot.model_id
            /\ model.layout_hash \in {0, layout_hash}
            /\ model.obs_size = ObsSize /\ model.action_size = ActionSize

\* The refusal that only a restart releases (check_contract_(), rl_bridge.cpp:290-301)
\* is never due to the model: the policy process echoes the hash of the observation it
\* answers.  It takes an answer to an observation of another bridge, the one this
\* bridge replaced, sent before the policy process heard of the new configuration.
\* README.md:151 says otherwise, that a mismatch of the model or of the layout latches a
\* refusal until a restart.  The code latches neither for a wrong model: the policy
\* process drops what its model does not take, the bridge withholds by age and drives
\* again as soon as the model is replaced.
RefusalMeansPredecessor ==
    ~contract_ok => \E i \in DOMAIN predecessors : predecessors[i] # layout_hash

\* Whatever is lost and however often the policy process is replaced, as long as
\* actions keep driving they never go back to an older observation.
NeverRewinds ==
    [][last_valid /\ last_valid' => snapshot'.obs_seq >= snapshot.obs_seq]_loopVars

\* README.md:166: what drives answers an observation of this very bridge.
DrivenByOwnObservation ==
    Driving /\ ~last_flat_hold => snapshot.action = Contents(snapshot.obs_seq)
=============================================================================
