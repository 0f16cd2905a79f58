---------------------------- MODULE PolicyServer ----------------------------
(***************************************************************************)
(* The policy process (src/policy_server.cpp) and the two topics between   *)
(* it and the bridge.  Both are best effort with a queue of one: a reader  *)
(* sees a subsequence of what was written, in order.  A topic is the       *)
(* sequence of what was written and can still be seen; taking a message    *)
(* forgets everything before it, and not taking one loses it.              *)
(*                                                                         *)
(* The process has one thread.  It can die at any point, and is started    *)
(* again, possibly with another model on disk.  The contents of an         *)
(* observation are a number, and so is the action computed from them: the  *)
(* same one.                                                               *)
(***************************************************************************)
EXTENDS Integers, Sequences

CONSTANTS Models,       \* [id, layout_hash, obs_size, action_size]; the hash of a model
                        \* without layout metadata is 0
          ObsSize       \* of what the bridge publishes

VARIABLES obs_topic, action_topic,
          server        \* [status, model, observation]

serverVars == <<obs_topic, action_topic, server>>

NoModel == [id |-> 0, layout_hash |-> 0, obs_size |-> 0, action_size |-> 0]
NoObservation == [obs_seq |-> 0, layout_hash |-> 0, obs |-> 0]

ServerInit ==
    /\ obs_topic = <<>> /\ action_topic = <<>>
    /\ server = [status |-> "down", model |-> NoModel, observation |-> NoObservation]

From(topic, i) == SubSeq(topic, i, Len(topic))

\* Seeded faults: no check of the layout, an answer credited to the next observation
\* or carrying the layout of the model, and an observation answered without being taken.
AcceptsAny(model, observation) == TRUE
NextFrame(model, observation) ==
    [obs_seq |-> observation.obs_seq + 1, layout_hash |-> observation.layout_hash,
     model_id |-> model.id, action_size |-> model.action_size, action |-> observation.obs]
ModelsLayout(model, observation) ==
    [obs_seq |-> observation.obs_seq, layout_hash |-> model.layout_hash,
     model_id |-> model.id, action_size |-> model.action_size, action |-> observation.obs]
KeepObservation(i) ==
    /\ server.status = "ready"
    /\ server' = [server EXCEPT !.status = "inferring", !.observation = obs_topic[i]]
    /\ UNCHANGED <<obs_topic, action_topic>>

----------------------------------------------------------------------------

\* The check at the head of on_observation(): a model without a layout accepts any.
Accepts(model, observation) ==
    model.layout_hash = 0 \/ observation.layout_hash = model.layout_hash

\* The answer carries the number and the layout hash of the observation, not the
\* layout hash of the model.
ActionFor(model, observation) ==
    [obs_seq |-> observation.obs_seq, layout_hash |-> observation.layout_hash,
     model_id |-> model.id, action_size |-> model.action_size, action |-> observation.obs]

\* The process comes up with a model; what was published before is not for it.
ServerStart(model) ==
    /\ server.status = "down"
    /\ server' = [status |-> "ready", model |-> model, observation |-> NoObservation]
    /\ obs_topic' = <<>>
    /\ UNCHANGED action_topic

\* on_observation() returns at once on a layout mismatch.
RefuseObservation(i) ==
    /\ server.status = "ready"
    /\ ~Accepts(server.model, obs_topic[i])
    /\ obs_topic' = From(obs_topic, i + 1)
    /\ UNCHANGED <<action_topic, server>>

TakeObservation(i) ==
    /\ server.status = "ready"
    /\ Accepts(server.model, obs_topic[i])
    /\ server' = [server EXCEPT !.status = "inferring", !.observation = obs_topic[i]]
    /\ obs_topic' = From(obs_topic, i + 1)
    /\ UNCHANGED action_topic

FinishWith(topic) ==
    /\ server.status = "inferring"
    /\ server' = [server EXCEPT !.status = "ready", !.observation = NoObservation]
    /\ action_topic' = topic
    /\ UNCHANGED obs_topic

\* run() returns false: the sizes differ, or some value is not finite.
RejectInference == FinishWith(action_topic)

PublishAction ==
    /\ server.model.obs_size = ObsSize
    /\ FinishWith(Append(action_topic, ActionFor(server.model, server.observation)))

\* What the process published before it died is still delivered.
ServerCrash ==
    /\ server.status # "down"
    /\ server' = [status |-> "down", model |-> NoModel, observation |-> NoObservation]
    /\ UNCHANGED <<obs_topic, action_topic>>

ServerNext ==
    \/ \E model \in Models : ServerStart(model)
    \/ \E i \in DOMAIN obs_topic : RefuseObservation(i) \/ TakeObservation(i)
    \/ RejectInference
    \/ PublishAction
    \/ ServerCrash
=============================================================================
