------------------------- MODULE ControlLoopProofs -------------------------
(***************************************************************************)
(* The loop around the bridge, for every set of models and layouts, any    *)
(* number of restarts and any bounds.  The first invariant follows the     *)
(* layout hash and the model id of a message on its way round the loop,    *)
(* also over restarts; the second one, for a bridge that is not restarted, *)
(* its number, and shows that the loop is an environment RlBridge allows.  *)
(***************************************************************************)
EXTENDS ControlLoop, RlBridgeLogProofs

\* What is where on its way: the fields and types the argument needs.
IsSequence(topic) == topic \in Seq({topic[i] : i \in DOMAIN topic})

IsServer(s) == s = [status |-> s.status, model |-> s.model, observation |-> s.observation]

IsMessage(m) == m = [obs_seq |-> m.obs_seq, layout_hash |-> m.layout_hash,
                     model_id |-> m.model_id, action |-> m.action]

IsChannel(c) == c \in [incoming : {c.incoming}, received : BOOLEAN, has_read : BOOLEAN]

LoopShape ==
    /\ IsSequence(obs_topic) /\ IsSequence(action_topic) /\ IsSequence(predecessors)
    /\ IsServer(server) /\ contract_ok \in BOOLEAN
    /\ IsChannel(channel) /\ IsMessage(channel.incoming) /\ IsMessage(snapshot)

\* The layouts of this bridge and of those before it.
KnownHashes == {layout_hash} \cup {predecessors[i] : i \in DOMAIN predecessors}

\* Some model whose layout and sizes allow it answers so.
AnsweredBySome(hash, id, size) ==
    \E model \in Models :
        /\ model.id = id /\ model.layout_hash \in {0, hash}
        /\ model.obs_size = ObsSize /\ model.action_size = size

\* Every hash in the loop is one a bridge put on the observation topic, and every answer
\* comes from a model that takes observations with that hash.
RoundTripInv ==
    /\ \A i \in DOMAIN obs_topic : obs_topic[i].layout_hash \in KnownHashes
    /\ server.status # "down" => server.model \in Models
    /\ server.status = "inferring" =>
        /\ server.observation.layout_hash \in KnownHashes
        /\ Accepts(server.model, server.observation)
    /\ \A i \in DOMAIN action_topic :
        LET m == action_topic[i]
        IN  m.layout_hash \in KnownHashes /\ AnsweredBySome(m.layout_hash, m.model_id, m.action_size)

\* What the bridge has of it.
HeldInv ==
    /\ channel.received =>
        LET m == channel.incoming
        IN  m.layout_hash \in KnownHashes /\ AnsweredBySome(m.layout_hash, m.model_id, ActionSize)
    /\ channel.has_read =>
        /\ channel.received
        /\ snapshot.layout_hash \in KnownHashes
        /\ AnsweredBySome(snapshot.layout_hash, snapshot.model_id, ActionSize)
    /\ last_valid => channel.has_read
    /\ Driving => channel.has_read /\ snapshot.layout_hash = layout_hash

LoopInv ==
    /\ LoopShape /\ RoundTripInv /\ HeldInv
    /\ RefusalMeansPredecessor
----------------------------------------------------------------------------
(* Topics. *)

LEMMA AnySequence == ASSUME NEW S, NEW s \in Seq(S) PROVE IsSequence(s)
<1> DEFINE R == {s[i] : i \in DOMAIN s}
<1>1. \A i \in 1..Len(s) : s[i] \in R
    OBVIOUS
<1> HIDE DEF R
<1>2. s \in Seq(R)
    BY <1>1
<1> QED
    BY <1>2 DEF IsSequence, R

LEMMA AppendIs ==
    ASSUME NEW topic, IsSequence(topic), NEW m
    PROVE  LET new == Append(topic, m)
           IN  /\ IsSequence(new)
               /\ DOMAIN new = 1..Len(topic) + 1 /\ Len(topic) \in Nat
               /\ DOMAIN topic = 1..Len(topic)
               /\ \A i \in DOMAIN topic : new[i] = topic[i]
               /\ new[Len(topic) + 1] = m
<1> DEFINE S == {topic[i] : i \in DOMAIN topic} \cup {m}
           new == Append(topic, m)
<1>1. topic \in Seq(S)
    BY DEF IsSequence
<1> HIDE DEF S
<1>2. /\ new \in Seq(S) /\ Len(topic) \in Nat
      /\ DOMAIN new = 1..Len(topic) + 1 /\ DOMAIN topic = 1..Len(topic)
      /\ \A i \in DOMAIN topic : new[i] = topic[i]
      /\ new[Len(topic) + 1] = m
      /\ Len(new) = Len(topic) + 1
    BY <1>1, m \in S DEF S
<1>3. IsSequence(new)
    BY <1>2, AnySequence
<1> QED
    BY <1>2, <1>3

LEMMA FromIs ==
    ASSUME NEW topic, IsSequence(topic), NEW i \in DOMAIN topic
    PROVE  LET new == From(topic, i + 1)
           IN  /\ IsSequence(new)
               /\ DOMAIN topic = 1..Len(topic) /\ Len(topic) \in Nat
               /\ DOMAIN new = 1..Len(topic) - i
               /\ \A j \in DOMAIN new : j + i \in DOMAIN topic /\ new[j] = topic[j + i]
<1> DEFINE S == {topic[k] : k \in DOMAIN topic}
           new == SubSeq(topic, i + 1, Len(topic))
<1>1. topic \in Seq(S)
    BY DEF IsSequence
<1> HIDE DEF S
<1>2. /\ Len(topic) \in Nat /\ DOMAIN topic = 1..Len(topic)
      /\ DOMAIN new = 1..Len(topic) - i /\ Len(new) = Len(topic) - i
      /\ \A j \in 1..Len(topic) - i : new[j] = topic[j + i]
      /\ new \in Seq(S)
    BY <1>1
<1>3. IsSequence(new)
    BY <1>2, AnySequence
<1>4. \A j \in DOMAIN new : j + i \in DOMAIN topic
    BY <1>2
<1> QED
    BY <1>2, <1>3, <1>4 DEF From

LEMMA EmptyIs == IsSequence(<<>>) /\ DOMAIN <<>> = {}
<1>1. <<>> \in Seq({}) /\ DOMAIN <<>> = {}
    OBVIOUS
<1>2. {<<>>[i] : i \in DOMAIN <<>>} = {}
    BY <1>1
<1> QED
    BY <1>1, <1>2 DEF IsSequence

----------------------------------------------------------------------------
(* The invariant.                                                              *)

LEMMA InitLoopInv == LoopInit => LoopInv
<1> SUFFICES ASSUME LoopInit PROVE LoopInv
    OBVIOUS
<1>1. LoopShape
    BY EmptyIs DEF LoopInit, Init, ServerInit, LoopShape, NoMessage, IsServer, IsMessage,
       IsChannel
<1>2. RoundTripInv
    BY EmptyIs DEF LoopInit, ServerInit, RoundTripInv
<1>3. HeldInv /\ RefusalMeansPredecessor
    BY DEF LoopInit, Init, HeldInv, RefusalMeansPredecessor, Driving, NoOutputs
<1> QED
    BY <1>1, <1>2, <1>3 DEF LoopInv

\* A step of the bridge that leaves what it holds and what it refuses alone.
LEMMA ObserveIs ==
    ASSUME Observe
    PROVE  /\ UNCHANGED <<layout_hash, contract_ok, last_valid, channel, snapshot, outputs>>
           /\ phase' = "act"
BY DEF Observe, SkipObservation, PublishObservation, RejectObservation, LatchInputs

LEMMA ObserveKeepsLoopInv == LoopInv /\ ObserveAndSend => LoopInv'
<1> SUFFICES ASSUME LoopInv, ObserveAndSend PROVE LoopInv'
    OBVIOUS
<1> DEFINE m == [obs_seq |-> runtime'.timeline.sequence, layout_hash |-> layout_hash,
                 obs |-> Contents(Len(published'))]
<1>1. /\ UNCHANGED <<layout_hash, contract_ok, last_valid, channel, snapshot, outputs,
                     action_topic, server, predecessors>>
      /\ phase' = "act"
      /\ obs_topic' \in {obs_topic, Append(obs_topic, m)}
    BY ObserveIs DEF ObserveAndSend
<1>2. m.layout_hash = layout_hash
    OBVIOUS
<1> HIDE DEF m
<1>3. IsSequence(obs_topic')
    <2>1. IsSequence(obs_topic) /\ IsSequence(Append(obs_topic, m))
        BY AppendIs DEF LoopInv, LoopShape
    <2> QED
        BY <1>1, <2>1
<1>4. \A i \in DOMAIN obs_topic' : obs_topic'[i].layout_hash \in KnownHashes'
    <2>1. CASE obs_topic' = obs_topic
        BY <1>1, <2>1 DEF LoopInv, RoundTripInv, KnownHashes
    <2>2. CASE obs_topic' = Append(obs_topic, m)
        <3>1. \A i \in DOMAIN obs_topic' : i \in DOMAIN obs_topic \/ i = Len(obs_topic) + 1
            BY <2>2, AppendIs DEF LoopInv, LoopShape
        <3> QED
            BY <1>1, <1>2, <2>2, <3>1, AppendIs DEF LoopInv, LoopShape, RoundTripInv, KnownHashes
    <2> QED
        BY <1>1, <2>1, <2>2
<1>5. LoopShape' /\ RoundTripInv'
    BY <1>1, <1>3, <1>4 DEF LoopInv, LoopShape, RoundTripInv, KnownHashes
<1>6. HeldInv' /\ RefusalMeansPredecessor'
    BY <1>1 DEF LoopInv, HeldInv, RefusalMeansPredecessor, Driving, KnownHashes
<1> QED
    BY <1>5, <1>6 DEF LoopInv

LEMMA FilledIs ==
    ASSUME NEW m, IsMessage(m), NEW a
    PROVE  LET new == [m EXCEPT !.action = a]
           IN  /\ IsMessage(new) /\ new.action = a
               /\ new.obs_seq = m.obs_seq /\ new.layout_hash = m.layout_hash
               /\ new.model_id = m.model_id
BY DEF IsMessage

\* What a cycle reads is what was stored or read before.
LEMMA ReadIs ==
    ASSUME LoopInv, NEW busy \in BOOLEAN
    PROVE  /\ IsMessage(Snapshot(busy))
           /\ HasSnapshot(busy) =>
                /\ channel.received
                /\ Snapshot(busy).layout_hash \in KnownHashes
                /\ AnsweredBySome(Snapshot(busy).layout_hash, Snapshot(busy).model_id, ActionSize)
BY DEF LoopInv, LoopShape, HeldInv, Snapshot, HasSnapshot

LEMMA TryReadIs ==
    ASSUME LoopInv, NEW busy \in BOOLEAN, TryRead(busy)
    PROVE  /\ IsChannel(channel') /\ channel'.incoming = channel.incoming
           /\ channel'.received = channel.received
           /\ channel'.has_read => HasSnapshot(busy)
           /\ HasSnapshot(busy) => channel'.has_read
BY DEF LoopInv, LoopShape, HeldInv, TryRead, IsChannel, HasSnapshot

\* A refusal that is new comes from the layout of a predecessor.
LEMMA ActKeepsLoopInv == LoopInv /\ Act /\ UNCHANGED <<serverVars, predecessors>> => LoopInv'
<1> SUFFICES ASSUME LoopInv, NEW busy \in BOOLEAN, Drive(busy) \/ Withhold(busy),
                    UNCHANGED <<serverVars, predecessors>>
             PROVE  LoopInv'
    BY DEF Act
<1> DEFINE a == IF last_flat_hold THEN 0 ELSE Snapshot(busy).action
<1>1. /\ UNCHANGED <<layout_hash, obs_topic, action_topic, server, predecessors>>
      /\ TryRead(busy)
      /\ snapshot' \in {Snapshot(busy), [Snapshot(busy) EXCEPT !.action = a]}
      /\ contract_ok' \in BOOLEAN /\ (contract_ok' => contract_ok)
      /\ ~contract_ok' =>
            \/ ~contract_ok
            \/ HasSnapshot(busy) /\ Snapshot(busy).layout_hash # layout_hash
      /\ Driving' \/ last_valid' => Drive(busy)
    <2>1. CASE Drive(busy)
        BY <2>1 DEF Drive, serverVars, LoopInv, LoopShape
    <2>2. CASE Withhold(busy)
        BY <2>2 DEF Withhold, serverVars, ContractHolds, Driving, LoopInv, LoopShape
    <2> QED
        BY <2>1, <2>2
<1> HIDE DEF a
<1>2. /\ IsMessage(snapshot')
      /\ snapshot'.layout_hash = Snapshot(busy).layout_hash
      /\ snapshot'.model_id = Snapshot(busy).model_id
    <2> DEFINE read == Snapshot(busy)
    <2>1. IsMessage(read)
        BY ReadIs
    <2> HIDE DEF read
    <2>2. LET new == [read EXCEPT !.action = a]
          IN  /\ IsMessage(new)
              /\ new.layout_hash = read.layout_hash /\ new.model_id = read.model_id
        BY <2>1, FilledIs
    <2> QED
        BY <1>1, <2>1, <2>2 DEF read
<1>3. LoopShape' /\ RoundTripInv'
    BY <1>1, <1>2, TryReadIs DEF LoopInv, LoopShape, RoundTripInv, KnownHashes
<1>4. HeldInv'
    <2>1. Driving' \/ last_valid' => HasSnapshot(busy) /\ Snapshot(busy).layout_hash = layout_hash
        BY <1>1 DEF Drive, Valid, Fresh, Age, ContractHolds
    <2> QED
        BY <1>1, <1>2, <2>1, ReadIs, TryReadIs DEF LoopInv, HeldInv, KnownHashes
<1>5. RefusalMeansPredecessor'
    BY <1>1, ReadIs DEF LoopInv, RefusalMeansPredecessor, KnownHashes
<1> QED
    BY <1>3, <1>4, <1>5 DEF LoopInv

\* A message that is taken off a topic is one of those that were on it, and so are the
\* ones left behind it.
LEMMA TakenOff ==
    ASSUME NEW topic, IsSequence(topic), NEW i \in DOMAIN topic,
           NEW S, \A j \in DOMAIN topic : topic[j] \in S
    PROVE  LET new == From(topic, i + 1)
           IN  IsSequence(new) /\ \A j \in DOMAIN new : new[j] \in S
BY FromIs

\* The messages of a topic that are as RoundTripInv has them.
KnownObservations == {m \in {obs_topic[i] : i \in DOMAIN obs_topic} : m.layout_hash \in KnownHashes}

KnownActions ==
    {m \in {action_topic[i] : i \in DOMAIN action_topic} :
        m.layout_hash \in KnownHashes /\ AnsweredBySome(m.layout_hash, m.model_id, m.action_size)}

LEMMA StoredIs ==
    ASSUME LoopInv, NEW m, IsMessage(m), Store(m)
    PROVE  /\ IsChannel(channel') /\ channel'.incoming = m /\ channel'.received
           /\ channel'.has_read = channel.has_read
<1> DEFINE S == {channel.incoming, m}
           Channels == [incoming : S, received : BOOLEAN, has_read : BOOLEAN]
           c1 == [channel EXCEPT !.incoming = m]
           c2 == [c1 EXCEPT !.received = TRUE]
<1>1. channel \in Channels /\ m \in S
    BY DEF LoopInv, LoopShape, IsChannel
<1>2. channel' = c2
    BY DEF Store
<1> HIDE DEF S
<1>3. c1 \in Channels /\ c1.incoming = m /\ c1.has_read = channel.has_read
    BY <1>1
<1> HIDE DEF c1
<1>4. c2 \in Channels /\ c2.incoming = c1.incoming /\ c2.received /\ c2.has_read = c1.has_read
    BY <1>3
<1> HIDE DEF c2
<1> QED
    BY <1>2, <1>3, <1>4 DEF IsChannel

LEMMA DeliverKeepsLoopInv ==
    ASSUME LoopInv, NEW i \in DOMAIN action_topic, DeliverAction(i),
           UNCHANGED <<obs_topic, server, predecessors>>
    PROVE  LoopInv'
<1> DEFINE m == action_topic[i]
           stored == [obs_seq |-> m.obs_seq, layout_hash |-> m.layout_hash,
                      model_id |-> m.model_id, action |-> m.action]
<1>1. /\ action_topic' = From(action_topic, i + 1)
      /\ IF m.action_size = ActionSize THEN Store(stored) ELSE UNCHANGED vars
    BY DEF DeliverAction
<1>2. UNCHANGED <<phase, layout_hash, contract_ok, last_valid, snapshot, outputs, obs_topic,
                  server, predecessors>>
    BY <1>1 DEF Store, vars
<1>3. /\ IsSequence(action_topic')
      /\ \A j \in DOMAIN action_topic' : action_topic'[j] \in KnownActions
    <2>1. \A j \in DOMAIN action_topic : action_topic[j] \in KnownActions
        BY DEF LoopInv, RoundTripInv, KnownActions
    <2>2. LET new == From(action_topic, i + 1)
          IN  IsSequence(new) /\ \A j \in DOMAIN new : new[j] \in KnownActions
        BY <2>1, TakenOff DEF LoopInv, LoopShape
    <2> QED
        BY <1>1, <2>2
<1>4. /\ IsChannel(channel') /\ IsMessage(channel'.incoming)
      /\ channel'.has_read = channel.has_read
      /\ channel.received => channel'.received
      /\ channel'.received =>
            /\ channel'.incoming.layout_hash \in KnownHashes
            /\ AnsweredBySome(channel'.incoming.layout_hash, channel'.incoming.model_id, ActionSize)
    <2>1. CASE m.action_size = ActionSize
        <3>1. IsMessage(stored) /\ stored.layout_hash = m.layout_hash /\ stored.model_id = m.model_id
            BY DEF IsMessage
        <3>2. Store(stored)
            BY <1>1, <2>1
        <3> HIDE DEF stored
        <3>3. channel'.incoming = stored /\ channel'.received /\ IsChannel(channel')
              /\ channel'.has_read = channel.has_read
            BY <3>1, <3>2, StoredIs
        <3> QED
            BY <2>1, <3>1, <3>3 DEF LoopInv, RoundTripInv
    <2>2. CASE m.action_size # ActionSize
        BY <1>1, <2>2 DEF vars, LoopInv, LoopShape, HeldInv
    <2> QED
        BY <2>1, <2>2
<1>5. LoopShape'
    BY <1>2, <1>3, <1>4 DEF LoopInv, LoopShape
<1>6. RoundTripInv'
    BY <1>2, <1>3 DEF LoopInv, RoundTripInv, KnownActions, KnownHashes
<1>7. HeldInv' /\ RefusalMeansPredecessor'
    BY <1>2, <1>4 DEF LoopInv, HeldInv, RefusalMeansPredecessor, Driving, KnownHashes
<1> QED
    BY <1>5, <1>6, <1>7 DEF LoopInv

\* What the policy process does leaves the bridge as it is.
LEMMA ServerKeepsHeld ==
    LoopInv /\ UNCHANGED <<vars, predecessors>> => HeldInv' /\ RefusalMeansPredecessor'
BY DEF LoopInv, HeldInv, RefusalMeansPredecessor, Driving, KnownHashes, vars

LEMMA ServerKeepsLoopInv == LoopInv /\ ServerNext /\ UNCHANGED <<vars, predecessors>> => LoopInv'
<1> SUFFICES ASSUME LoopInv, ServerNext, UNCHANGED <<vars, predecessors>>
             PROVE  LoopShape' /\ RoundTripInv'
    BY ServerKeepsHeld DEF LoopInv
<1>1. UNCHANGED <<layout_hash, contract_ok, channel, snapshot, predecessors>>
    BY DEF vars
<1>2. ASSUME NEW model \in Models, ServerStart(model)
      PROVE  LoopShape' /\ RoundTripInv'
    BY <1>1, <1>2, EmptyIs
    DEF ServerStart, LoopInv, LoopShape, RoundTripInv, KnownHashes, IsServer
<1>3. ASSUME NEW i \in DOMAIN obs_topic
      PROVE  LET left == From(obs_topic, i + 1)
             IN  IsSequence(left) /\ \A j \in DOMAIN left : left[j] \in KnownObservations
    <2>1. \A j \in DOMAIN obs_topic : obs_topic[j] \in KnownObservations
        BY DEF LoopInv, RoundTripInv, KnownObservations
    <2> QED
        BY <2>1, TakenOff DEF LoopInv, LoopShape
<1>4. ASSUME NEW i \in DOMAIN obs_topic, RefuseObservation(i)
      PROVE  LoopShape' /\ RoundTripInv'
    <2>1. UNCHANGED <<action_topic, server>> /\ obs_topic' = From(obs_topic, i + 1)
        BY <1>4 DEF RefuseObservation
    <2>2. IsSequence(obs_topic') /\ \A j \in DOMAIN obs_topic' : obs_topic'[j] \in KnownObservations
        BY <1>3, <2>1
    <2> QED
        BY <1>1, <2>1, <2>2 DEF LoopInv, LoopShape, RoundTripInv, KnownHashes, KnownObservations
<1>5. ASSUME NEW i \in DOMAIN obs_topic, TakeObservation(i)
      PROVE  LoopShape' /\ RoundTripInv'
    <2>1. /\ server' = [status |-> "inferring", model |-> server.model, observation |-> obs_topic[i]]
          /\ Accepts(server.model, obs_topic[i]) /\ server.status = "ready"
          /\ action_topic' = action_topic /\ obs_topic' = From(obs_topic, i + 1)
        BY <1>5 DEF TakeObservation, LoopInv, LoopShape, IsServer
    <2>2. IsSequence(obs_topic') /\ \A j \in DOMAIN obs_topic' : obs_topic'[j] \in KnownObservations
        BY <1>3, <2>1
    <2>3. LoopShape'
        BY <1>1, <2>1, <2>2 DEF LoopInv, LoopShape, IsServer
    <2> QED
        BY <1>1, <2>1, <2>2, <2>3 DEF LoopInv, RoundTripInv, KnownHashes, KnownObservations
<1>6. ASSUME NEW topic, FinishWith(topic)
      PROVE  /\ server' = [status |-> "ready", model |-> server.model, observation |-> NoObservation]
             /\ server.status = "inferring" /\ obs_topic' = obs_topic /\ action_topic' = topic
    BY <1>6 DEF FinishWith, LoopInv, LoopShape, IsServer
<1>7. CASE RejectInference
    BY <1>1, <1>6, <1>7
    DEF RejectInference, LoopInv, LoopShape, RoundTripInv, KnownHashes, IsServer
<1>8. CASE PublishAction
    <2> DEFINE m == ActionFor(server.model, server.observation)
    <2>1. /\ server' = [status |-> "ready", model |-> server.model, observation |-> NoObservation]
          /\ server.status = "inferring" /\ obs_topic' = obs_topic
          /\ action_topic' = Append(action_topic, m)
          /\ server.model.obs_size = ObsSize
        BY <1>6, <1>8 DEF PublishAction
    <2>2. /\ m.layout_hash \in KnownHashes
          /\ AnsweredBySome(m.layout_hash, m.model_id, m.action_size)
        BY <2>1 DEF ActionFor, LoopInv, RoundTripInv, Accepts, AnsweredBySome
    <2> HIDE DEF m
    <2>3. /\ IsSequence(action_topic')
          /\ \A j \in DOMAIN action_topic' :
                action_topic'[j] = m \/ \E k \in DOMAIN action_topic : action_topic'[j] = action_topic[k]
        <3>1. LET new == Append(action_topic, m)
              IN  /\ IsSequence(new)
                  /\ \A j \in DOMAIN new : j \in DOMAIN action_topic \/ j = Len(action_topic) + 1
            BY AppendIs DEF LoopInv, LoopShape
        <3> QED
            BY <2>1, <3>1, AppendIs DEF LoopInv, LoopShape
    <2>4. LoopShape'
        BY <1>1, <2>1, <2>3 DEF LoopInv, LoopShape, IsServer
    <2>5. \A j \in DOMAIN action_topic' :
            /\ action_topic'[j].layout_hash \in KnownHashes
            /\ AnsweredBySome(action_topic'[j].layout_hash, action_topic'[j].model_id,
                              action_topic'[j].action_size)
        BY <2>2, <2>3 DEF LoopInv, RoundTripInv
    <2> QED
        BY <1>1, <2>1, <2>4, <2>5 DEF LoopInv, RoundTripInv, KnownHashes
<1>9. CASE ServerCrash
    BY <1>1, <1>9 DEF ServerCrash, LoopInv, LoopShape, RoundTripInv, KnownHashes, IsServer
<1> QED
    BY <1>2, <1>4, <1>5, <1>7, <1>8, <1>9 DEF ServerNext

\* The layout of the bridge that is replaced stays known.
LEMMA RestartKeepsLoopInv == LoopInv /\ RestartBridge => LoopInv'
<1> SUFFICES ASSUME LoopInv, RestartBridge PROVE LoopInv'
    OBVIOUS
<1>1. /\ IsSequence(predecessors')
      /\ \A hash \in KnownHashes : \E i \in DOMAIN predecessors' : predecessors'[i] = hash
    <2>1. predecessors' = Append(predecessors, layout_hash)
        BY DEF RestartBridge
    <2>2. LET new == Append(predecessors, layout_hash)
          IN  /\ IsSequence(new)
              /\ \A i \in DOMAIN predecessors : i \in DOMAIN new /\ new[i] = predecessors[i]
              /\ \E i \in DOMAIN new : new[i] = layout_hash
        BY AppendIs DEF LoopInv, LoopShape
    <2> QED
        BY <2>1, <2>2 DEF KnownHashes
<1>2. KnownHashes \subseteq KnownHashes'
    BY <1>1 DEF KnownHashes
<1>3. LoopShape'
    BY <1>1, EmptyIs DEF RestartBridge, LoopInv, LoopShape, IsChannel, IsMessage, NoMessage
<1>4. RoundTripInv'
    BY <1>2, EmptyIs DEF RestartBridge, LoopInv, RoundTripInv
<1>5. HeldInv' /\ RefusalMeansPredecessor'
    BY DEF RestartBridge, HeldInv, RefusalMeansPredecessor, Driving, NoOutputs
<1> QED
    BY <1>3, <1>4, <1>5 DEF LoopInv

LEMMA NextLoopInv == LoopInv /\ [LoopNext]_loopVars => LoopInv'
<1> SUFFICES ASSUME LoopInv, [LoopNext]_loopVars PROVE LoopInv'
    OBVIOUS
<1>1. CASE UNCHANGED loopVars
    BY <1>1 DEF loopVars, vars, serverVars, LoopInv, LoopShape, RoundTripInv, HeldInv,
       RefusalMeansPredecessor, Driving, KnownHashes
<1> QED
    BY <1>1, ObserveKeepsLoopInv, ActKeepsLoopInv, DeliverKeepsLoopInv, ServerKeepsLoopInv,
       RestartKeepsLoopInv DEF LoopNext

THEOREM LoopInvariance == LoopSpec => []LoopInv
<1> QED
    BY InitLoopInv, NextLoopInv, PTL DEF LoopSpec

\* Whatever models and layouts there are and however often both processes restart, a
\* bridge that refuses for good was preceded by one with another layout.
THEOREM LoopRefusalMeansPredecessor == LoopSpec => []RefusalMeansPredecessor
<1>1. LoopInv => RefusalMeansPredecessor
    BY DEF LoopInv
<1> QED
    BY <1>1, LoopInvariance, PTL

\* And a model of another layout or size never drives.
THEOREM LoopMismatchNeverDrives == LoopSpec => []MismatchedModelNeverDrives
<1>1. LoopInv => MismatchedModelNeverDrives
    BY DEF LoopInv, HeldInv, AnsweredBySome, MismatchedModelNeverDrives
<1> QED
    BY <1>1, LoopInvariance, PTL
----------------------------------------------------------------------------
(* A bridge that is not restarted: numbers.                                    *)

Ascending(topic) ==
    \A i, j \in DOMAIN topic : i < j => topic[i].obs_seq < topic[j].obs_seq

Before(m, topic) == \A i \in DOMAIN topic : m.obs_seq < topic[i].obs_seq

\* Every message speaks of an observation that was published, and an answer is computed
\* from the contents of that one.
Numbered(m, contents) == m.obs_seq \in 1..Len(published) /\ contents = m.obs_seq

ContentsInv ==
    /\ \A i \in DOMAIN obs_topic : Numbered(obs_topic[i], obs_topic[i].obs)
    /\ server.status = "inferring" => Numbered(server.observation, server.observation.obs)
    /\ \A i \in DOMAIN action_topic : Numbered(action_topic[i], action_topic[i].action)

\* Along the way from the observation topic to the snapshot the numbers descend.
OrderInv ==
    /\ Ascending(obs_topic) /\ Ascending(action_topic)
    /\ \A i \in DOMAIN action_topic : Before(action_topic[i], obs_topic)
    /\ server.status = "inferring" =>
        /\ Before(server.observation, obs_topic)
        /\ \A i \in DOMAIN action_topic : action_topic[i].obs_seq < server.observation.obs_seq
    /\ channel.received =>
        /\ Before(channel.incoming, action_topic) /\ Before(channel.incoming, obs_topic)
        /\ server.status = "inferring" => channel.incoming.obs_seq < server.observation.obs_seq
    /\ channel.has_read => snapshot.obs_seq <= channel.incoming.obs_seq

FirstBridge == MaxBoots = 0 /\ predecessors = <<>>

NumberInv == FirstBridge /\ BridgeInv /\ LoopInv /\ ContentsInv /\ OrderInv

LEMMA InitNumberInv == MaxBoots = 0 /\ LoopInit => NumberInv
<1> SUFFICES ASSUME MaxBoots = 0, LoopInit PROVE NumberInv
    OBVIOUS
<1>1. BridgeInv /\ LoopInv /\ FirstBridge
    BY InitBridgeInv, InitLoopInv DEF LoopInit, FirstBridge
<1>2. ContentsInv /\ OrderInv
    BY EmptyIs DEF LoopInit, Init, ServerInit, ContentsInv, OrderInv, Ascending, Before
<1> QED
    BY <1>1, <1>2 DEF NumberInv

LEMMA FirstLayout == NumberInv => KnownHashes = {layout_hash}
BY EmptyIs DEF NumberInv, FirstBridge, KnownHashes

\* An answer that arrives is one RlBridge allows for.
LEMMA DeliveryArrives ==
    ASSUME NumberInv, NEW i \in DOMAIN action_topic, DeliverAction(i)
    PROVE  Arrive \/ UNCHANGED vars
<1> DEFINE m == action_topic[i]
<1>1. CASE m.action_size = ActionSize
    <2>1. /\ m.obs_seq \in 1..Len(published) /\ m.action \in {m.obs_seq} \cup NonFinite
          /\ m.layout_hash \in LayoutHashes
        BY FirstLayout
        DEF NumberInv, ContentsInv, Numbered, LoopInv, RoundTripInv, BridgeInv, ControlTypeOK
    <2>2. m.model_id \in ModelIds
        BY LoopAssumption DEF NumberInv, LoopInv, RoundTripInv, AnsweredBySome
    <2>3. Store([obs_seq |-> m.obs_seq, layout_hash |-> m.layout_hash,
                 model_id |-> m.model_id, action |-> m.action])
        BY <1>1 DEF DeliverAction
    <2> HIDE DEF m
    <2> QED
        BY <2>1, <2>2, <2>3 DEF Arrive
<1>2. CASE m.action_size # ActionSize
    BY <1>2 DEF DeliverAction
<1> QED
    BY <1>1, <1>2

LEMMA LoopStepIs == NumberInv /\ [LoopNext]_loopVars => [Next]_vars
<1> SUFFICES ASSUME NumberInv, [LoopNext]_loopVars PROVE [Next]_vars
    OBVIOUS
<1>1. CASE ObserveAndSend
    BY <1>1 DEF ObserveAndSend, Next
<1>2. CASE \E i \in DOMAIN action_topic : DeliverAction(i)
    BY <1>2, DeliveryArrives DEF Next
<1>3. CASE RestartBridge
    BY <1>3 DEF RestartBridge, NumberInv, FirstBridge
<1>4. CASE UNCHANGED loopVars
    BY <1>4 DEF loopVars
<1> QED
    BY <1>1, <1>2, <1>3, <1>4 DEF LoopNext, Next

LEMMA AscendingAppend ==
    ASSUME NEW topic, IsSequence(topic), Ascending(topic), NEW m,
           \A i \in DOMAIN topic : topic[i].obs_seq < m.obs_seq
    PROVE  Ascending(Append(topic, m))
<1> DEFINE new == Append(topic, m)
<1>1. /\ DOMAIN new = 1..Len(topic) + 1 /\ Len(topic) \in Nat /\ DOMAIN topic = 1..Len(topic)
      /\ \A i \in DOMAIN topic : new[i] = topic[i]
      /\ new[Len(topic) + 1] = m
    BY AppendIs
<1> HIDE DEF new
<1> SUFFICES ASSUME NEW i \in DOMAIN new, NEW j \in DOMAIN new, i < j
             PROVE  new[i].obs_seq < new[j].obs_seq
    BY DEF Ascending, new
<1>2. i \in DOMAIN topic /\ new[i] = topic[i]
    BY <1>1
<1>3. CASE j \in DOMAIN topic
    BY <1>1, <1>2, <1>3 DEF Ascending
<1>4. CASE j = Len(topic) + 1
    BY <1>1, <1>2, <1>4
<1> QED
    BY <1>1, <1>3, <1>4

LEMMA AscendingFrom ==
    ASSUME NEW topic, IsSequence(topic), Ascending(topic), NEW i \in DOMAIN topic
    PROVE  LET new == From(topic, i + 1)
           IN  /\ Ascending(new) /\ Before(topic[i], new)
               /\ \A j \in DOMAIN new : \E k \in DOMAIN topic : new[j] = topic[k]
<1> DEFINE new == From(topic, i + 1)
<1>1. /\ DOMAIN topic = 1..Len(topic) /\ Len(topic) \in Nat
      /\ DOMAIN new = 1..Len(topic) - i
      /\ \A j \in DOMAIN new : j + i \in DOMAIN topic /\ new[j] = topic[j + i]
    BY FromIs
<1> HIDE DEF new
<1>2. Ascending(new)
    <2> SUFFICES ASSUME NEW j \in DOMAIN new, NEW k \in DOMAIN new, j < k
                 PROVE  new[j].obs_seq < new[k].obs_seq
        BY DEF Ascending
    <2>1. j + i < k + i /\ j + i \in DOMAIN topic /\ k + i \in DOMAIN topic
        BY <1>1
    <2> QED
        BY <1>1, <2>1 DEF Ascending
<1>3. Before(topic[i], new)
    <2> SUFFICES ASSUME NEW j \in DOMAIN new PROVE topic[i].obs_seq < new[j].obs_seq
        BY DEF Before
    <2>1. i < j + i /\ j + i \in DOMAIN topic
        BY <1>1
    <2> QED
        BY <1>1, <2>1 DEF Ascending
<1> QED
    BY <1>1, <1>2, <1>3 DEF new

\* The observation a cycle publishes has a number above all others.
LEMMA ObserveKeepsNumbers ==
    NumberInv /\ BridgeInv' /\ ObserveAndSend => ContentsInv' /\ OrderInv'
<1> SUFFICES ASSUME NumberInv, BridgeInv', ObserveAndSend PROVE ContentsInv' /\ OrderInv'
    OBVIOUS
<1> DEFINE N == Len(published)
           m == [obs_seq |-> runtime'.timeline.sequence, layout_hash |-> layout_hash,
                 obs |-> Contents(Len(published'))]
<1>1. UNCHANGED <<channel, snapshot, action_topic, server, predecessors>>
    BY ObserveIs DEF ObserveAndSend
<1>2. N \in Nat /\ Len(published') \in {N, N + 1}
    BY DEF ObserveAndSend, Observe, SkipObservation, PublishObservation, RejectObservation,
       NumberInv, BridgeInv, ControlTypeOK
<1>3. \/ Len(published') = N /\ obs_topic' = obs_topic
      \/ Len(published') = N + 1 /\ obs_topic' = Append(obs_topic, m)
    BY <1>2 DEF ObserveAndSend
<1>4. m.obs_seq = Len(published') /\ m.obs = Len(published')
    <2>1. runtime'.timeline.sequence = Len(published')
        BY DEF BridgeInv, TimelineInv, TimelineMatches
    <2>2. Contents(Len(published')) = Len(published')
        <3>1. Len(predecessors) = 0 /\ MaxSequence \in Nat
            BY BridgeAssumption DEF NumberInv, FirstBridge
        <3>2. Contents(Len(published')) = 0 * MaxSequence + Len(published')
            BY <3>1 DEF Contents
        <3> QED
            BY <1>2, <3>1, <3>2
    <2> QED
        BY <2>1, <2>2
<1> HIDE DEF m
<1>5. /\ \A i \in DOMAIN obs_topic : obs_topic[i].obs_seq \in 1..N
      /\ \A i \in DOMAIN action_topic : action_topic[i].obs_seq \in 1..N
      /\ server.status = "inferring" => server.observation.obs_seq \in 1..N
      /\ channel.received => channel.incoming.obs_seq \in 1..N
    BY DEF NumberInv, ContentsInv, Numbered, BridgeInv, MessageInv
<1>6. CASE Len(published') = N /\ obs_topic' = obs_topic
    BY <1>1, <1>6 DEF NumberInv, ContentsInv, Numbered, OrderInv, Ascending, Before
<1>7. CASE Len(published') = N + 1 /\ obs_topic' = Append(obs_topic, m)
    <2>1. /\ Ascending(obs_topic')
          /\ \A i \in DOMAIN obs_topic' :
                obs_topic'[i] = m \/ \E j \in DOMAIN obs_topic : obs_topic'[i] = obs_topic[j]
        <3>1. Ascending(Append(obs_topic, m))
            BY <1>2, <1>4, <1>5, <1>7, AscendingAppend
            DEF NumberInv, LoopInv, LoopShape, OrderInv
        <3>2. LET new == Append(obs_topic, m)
              IN  \A i \in DOMAIN new :
                    new[i] = m \/ \E j \in DOMAIN obs_topic : new[i] = obs_topic[j]
            <4>1. LET new == Append(obs_topic, m)
                  IN  \A i \in DOMAIN new : i \in DOMAIN obs_topic \/ i = Len(obs_topic) + 1
                BY AppendIs DEF NumberInv, LoopInv, LoopShape
            <4> QED
                BY <4>1, AppendIs DEF NumberInv, LoopInv, LoopShape
        <3> QED
            BY <1>7, <3>1, <3>2
    <2>2. \A m1 : (m1.obs_seq \in 1..N /\ Before(m1, obs_topic)) => Before(m1, obs_topic')
        BY <1>2, <1>4, <1>7, <2>1 DEF Before
    <2>3. ContentsInv'
        BY <1>1, <1>2, <1>4, <1>7, <2>1 DEF NumberInv, ContentsInv, Numbered
    <2>4. OrderInv'
        BY <1>1, <1>5, <2>1, <2>2 DEF NumberInv, OrderInv, Ascending, Before
    <2> QED
        BY <2>3, <2>4
<1> QED
    BY <1>3, <1>6, <1>7

\* A cycle takes the stored action or keeps the one it has: the number does not fall.
LEMMA SnapshotGrows ==
    ASSUME NumberInv, NEW busy \in BOOLEAN, Drive(busy) \/ Withhold(busy)
    PROVE  /\ published' = published
           /\ channel.has_read => snapshot'.obs_seq >= snapshot.obs_seq
           /\ channel'.has_read => snapshot'.obs_seq <= channel.incoming.obs_seq
           /\ channel'.incoming = channel.incoming /\ channel'.received = channel.received
<1> DEFINE read == Snapshot(busy)
           a == IF last_flat_hold THEN 0 ELSE read.action
<1>1. /\ TryRead(busy) /\ published' = published
      /\ snapshot' \in {read, [read EXCEPT !.action = a]}
    BY DEF Drive, Withhold
<1>2. snapshot'.obs_seq = read.obs_seq
    <2>1. IsMessage(read)
        BY ReadIs DEF NumberInv
    <2> HIDE DEF read, a
    <2>2. [read EXCEPT !.action = a].obs_seq = read.obs_seq
        BY <2>1, FilledIs
    <2> QED
        BY <1>1, <2>2
<1>3. /\ channel.has_read => /\ snapshot.obs_seq \in Int /\ channel.received
                             /\ snapshot.obs_seq <= channel.incoming.obs_seq
      /\ channel.received => channel.incoming.obs_seq \in Int
    BY DEF NumberInv, OrderInv, BridgeInv, MessageInv
<1>4. /\ channel'.has_read => HasSnapshot(busy)
      /\ channel'.incoming = channel.incoming /\ channel'.received = channel.received
    BY <1>1, TryReadIs DEF NumberInv
<1> QED
    BY <1>1, <1>2, <1>3, <1>4 DEF Snapshot, HasSnapshot

LEMMA ActKeepsNumbers ==
    NumberInv /\ Act /\ UNCHANGED <<serverVars, predecessors>> => ContentsInv' /\ OrderInv'
<1> SUFFICES ASSUME NumberInv, NEW busy \in BOOLEAN, Drive(busy) \/ Withhold(busy),
                    UNCHANGED <<serverVars, predecessors>>
             PROVE  ContentsInv' /\ OrderInv'
    BY DEF Act
<1>1. UNCHANGED <<obs_topic, action_topic, server>>
    BY DEF serverVars
<1> QED
    BY <1>1, SnapshotGrows
    DEF NumberInv, ContentsInv, Numbered, OrderInv, Ascending, Before

LEMMA DeliverKeepsNumbers ==
    ASSUME NumberInv, NEW i \in DOMAIN action_topic, DeliverAction(i),
           UNCHANGED <<obs_topic, server, predecessors>>
    PROVE  ContentsInv' /\ OrderInv'
<1> DEFINE m == action_topic[i]
           stored == [obs_seq |-> m.obs_seq, layout_hash |-> m.layout_hash,
                      model_id |-> m.model_id, action |-> m.action]
<1>1. /\ action_topic' = From(action_topic, i + 1)
      /\ IF m.action_size = ActionSize THEN Store(stored) ELSE UNCHANGED vars
    BY DEF DeliverAction
<1>2. published' = published /\ snapshot' = snapshot
    BY <1>1 DEF Store, vars
<1>3. /\ Ascending(action_topic') /\ Before(m, action_topic')
      /\ \A j \in DOMAIN action_topic' : \E k \in DOMAIN action_topic :
            action_topic'[j] = action_topic[k]
    BY <1>1, AscendingFrom DEF NumberInv, LoopInv, LoopShape, OrderInv
<1>4. /\ channel'.has_read = channel.has_read
      /\ \/ channel'.incoming = channel.incoming /\ channel'.received = channel.received
         \/ channel'.received /\ channel'.incoming.obs_seq = m.obs_seq
    <2>1. CASE m.action_size = ActionSize
        <3>1. IsMessage(stored) /\ stored.obs_seq = m.obs_seq
            BY DEF IsMessage
        <3>2. Store(stored)
            BY <1>1, <2>1
        <3> HIDE DEF stored
        <3> QED
            BY <3>1, <3>2, StoredIs DEF NumberInv
    <2>2. CASE m.action_size # ActionSize
        BY <1>1, <2>2 DEF vars
    <2> QED
        BY <2>1, <2>2
<1>5. /\ m.obs_seq \in Int
      /\ channel.has_read => channel.received /\ snapshot.obs_seq \in Int
      /\ channel.received => channel.incoming.obs_seq \in Int /\ channel.incoming.obs_seq < m.obs_seq
      /\ server.status = "inferring" => m.obs_seq < server.observation.obs_seq
      /\ Before(m, obs_topic)
    BY DEF NumberInv, ContentsInv, Numbered, OrderInv, Before, BridgeInv, MessageInv
<1> HIDE DEF m
<1>6. ContentsInv'
    BY <1>2, <1>3 DEF NumberInv, ContentsInv, Numbered
<1>7. /\ Ascending(obs_topic') /\ \A j \in DOMAIN action_topic' : Before(action_topic'[j], obs_topic')
      /\ server'.status = "inferring" =>
            /\ Before(server'.observation, obs_topic')
            /\ \A j \in DOMAIN action_topic' : action_topic'[j].obs_seq < server'.observation.obs_seq
    BY <1>3 DEF NumberInv, OrderInv, Ascending, Before
<1>8. /\ channel'.received =>
            /\ Before(channel'.incoming, action_topic') /\ Before(channel'.incoming, obs_topic')
            /\ server'.status = "inferring" => channel'.incoming.obs_seq < server'.observation.obs_seq
      /\ channel'.has_read => snapshot'.obs_seq <= channel'.incoming.obs_seq
    BY <1>2, <1>3, <1>4, <1>5 DEF NumberInv, OrderInv, Before
<1> QED
    BY <1>3, <1>6, <1>7, <1>8 DEF OrderInv

LEMMA ServerKeepsNumbers ==
    NumberInv /\ ServerNext /\ UNCHANGED <<vars, predecessors>> => ContentsInv' /\ OrderInv'
<1> SUFFICES ASSUME NumberInv, ServerNext, UNCHANGED <<vars, predecessors>>
             PROVE  ContentsInv' /\ OrderInv'
    OBVIOUS
<1>1. UNCHANGED <<published, channel, snapshot>>
    BY DEF vars
<1>2. ASSUME NEW model \in Models, ServerStart(model)
      PROVE  ContentsInv' /\ OrderInv'
    BY <1>1, <1>2, EmptyIs
    DEF ServerStart, NumberInv, ContentsInv, Numbered, OrderInv, Ascending, Before
<1>3. ASSUME NEW i \in DOMAIN obs_topic
      PROVE  LET left == From(obs_topic, i + 1)
             IN  /\ Ascending(left) /\ Before(obs_topic[i], left)
                 /\ \A j \in DOMAIN left : \E k \in DOMAIN obs_topic : left[j] = obs_topic[k]
    BY AscendingFrom DEF NumberInv, LoopInv, LoopShape, OrderInv
<1>4. ASSUME NEW i \in DOMAIN obs_topic, RefuseObservation(i)
      PROVE  ContentsInv' /\ OrderInv'
    <2>1. UNCHANGED <<action_topic, server>> /\ obs_topic' = From(obs_topic, i + 1)
        BY <1>4 DEF RefuseObservation
    <2>2. /\ Ascending(obs_topic')
          /\ \A j \in DOMAIN obs_topic' : \E k \in DOMAIN obs_topic : obs_topic'[j] = obs_topic[k]
        BY <1>3, <2>1
    <2> QED
        BY <1>1, <2>1, <2>2 DEF NumberInv, ContentsInv, Numbered, OrderInv, Ascending, Before
<1>5. ASSUME NEW i \in DOMAIN obs_topic, TakeObservation(i)
      PROVE  ContentsInv' /\ OrderInv'
    <2>1. /\ server' = [status |-> "inferring", model |-> server.model, observation |-> obs_topic[i]]
          /\ action_topic' = action_topic /\ obs_topic' = From(obs_topic, i + 1)
        BY <1>5 DEF TakeObservation, NumberInv, LoopInv, LoopShape, IsServer
    <2>2. /\ Ascending(obs_topic') /\ Before(obs_topic[i], obs_topic')
          /\ \A j \in DOMAIN obs_topic' : \E k \in DOMAIN obs_topic : obs_topic'[j] = obs_topic[k]
        BY <1>3, <2>1
    <2>3. server'.status = "inferring" /\ server'.observation = obs_topic[i]
        BY <2>1
    <2>4. ContentsInv'
        BY <1>1, <2>1, <2>2, <2>3 DEF NumberInv, ContentsInv, Numbered
    <2>5. OrderInv'
        BY <1>1, <2>1, <2>2, <2>3 DEF NumberInv, OrderInv, Ascending, Before
    <2> QED
        BY <2>4, <2>5
<1>6. ASSUME NEW topic, FinishWith(topic)
      PROVE  /\ server'.status = "ready"
             /\ server.status = "inferring" /\ obs_topic' = obs_topic /\ action_topic' = topic
    BY <1>6 DEF FinishWith, NumberInv, LoopInv, LoopShape, IsServer
<1>7. CASE RejectInference
    BY <1>1, <1>6, <1>7
    DEF RejectInference, NumberInv, ContentsInv, Numbered, OrderInv, Ascending, Before
<1>8. CASE PublishAction
    <2> DEFINE m == ActionFor(server.model, server.observation)
    <2>1. /\ server'.status = "ready" /\ server.status = "inferring" /\ obs_topic' = obs_topic
          /\ action_topic' = Append(action_topic, m)
        BY <1>6, <1>8 DEF PublishAction
    <2>2. m.obs_seq = server.observation.obs_seq /\ m.action = server.observation.obs
        BY DEF ActionFor
    <2> HIDE DEF m
    <2>3. /\ Numbered(m, m.action) /\ Before(m, obs_topic)
          /\ \A j \in DOMAIN action_topic : action_topic[j].obs_seq < m.obs_seq
          /\ channel.received => channel.incoming.obs_seq < m.obs_seq
        BY <2>1, <2>2 DEF NumberInv, ContentsInv, Numbered, OrderInv, Before
    <2>4. /\ Ascending(action_topic')
          /\ \A j \in DOMAIN action_topic' :
                action_topic'[j] = m \/ \E k \in DOMAIN action_topic : action_topic'[j] = action_topic[k]
        <3>1. Ascending(Append(action_topic, m))
            BY <2>3, AscendingAppend DEF NumberInv, LoopInv, LoopShape, OrderInv
        <3>2. LET new == Append(action_topic, m)
              IN  \A j \in DOMAIN new : j \in DOMAIN action_topic \/ j = Len(action_topic) + 1
            BY AppendIs DEF NumberInv, LoopInv, LoopShape
        <3> QED
            BY <2>1, <3>1, <3>2, AppendIs DEF NumberInv, LoopInv, LoopShape
    <2>5. ContentsInv'
        BY <1>1, <2>1, <2>3, <2>4 DEF NumberInv, ContentsInv, Numbered
    <2>6. OrderInv'
        BY <1>1, <2>1, <2>3, <2>4 DEF NumberInv, OrderInv, Ascending, Before
    <2> QED
        BY <2>5, <2>6
<1>9. CASE ServerCrash
    BY <1>1, <1>9
    DEF ServerCrash, NumberInv, ContentsInv, Numbered, OrderInv, Ascending, Before
<1> QED
    BY <1>2, <1>4, <1>5, <1>7, <1>8, <1>9 DEF ServerNext

LEMMA NextNumberInv == NumberInv /\ [LoopNext]_loopVars => NumberInv'
<1> SUFFICES ASSUME NumberInv, [LoopNext]_loopVars PROVE NumberInv'
    OBVIOUS
<1>1. BridgeInv' /\ LoopInv'
    BY LoopStepIs, NextBridgeInv, NextLoopInv DEF NumberInv
<1>2. ~RestartBridge
    BY DEF RestartBridge, NumberInv, FirstBridge
<1>3. FirstBridge'
    BY <1>2 DEF NumberInv, FirstBridge, LoopNext, ObserveAndSend, loopVars
<1>4. ContentsInv' /\ OrderInv'
    <2>1. CASE UNCHANGED loopVars
        BY <2>1 DEF loopVars, vars, serverVars, NumberInv, ContentsInv, Numbered, OrderInv,
           Ascending, Before
    <2> QED
        BY <1>1, <1>2, <2>1, ObserveKeepsNumbers, ActKeepsNumbers, DeliverKeepsNumbers,
           ServerKeepsNumbers DEF LoopNext
<1> QED
    BY <1>1, <1>3, <1>4 DEF NumberInv

LEMMA NumberInvariance == MaxBoots = 0 /\ LoopSpec => []NumberInv
<1> QED
    BY InitNumberInv, NextNumberInv, PTL DEF LoopSpec

\* The policy process, its crashes and the lossy topics are an environment RlBridge
\* allows: what is proved of the bridge holds in the loop.
THEOREM LoopImplementsBridge == MaxBoots = 0 /\ LoopSpec => ImplementsBridge
<1>1. LoopInit => Init
    BY DEF LoopInit
<1> QED
    BY <1>1, NumberInvariance, LoopStepIs, PTL DEF LoopSpec, ImplementsBridge, Spec

\* While actions drive, they do not go back to an older observation.
THEOREM LoopNeverRewinds == MaxBoots = 0 /\ LoopSpec => NeverRewinds
<1>1. NumberInv /\ [LoopNext]_loopVars =>
        [last_valid /\ last_valid' => snapshot'.obs_seq >= snapshot.obs_seq]_loopVars
    <2> SUFFICES ASSUME NumberInv, LoopNext, last_valid, last_valid'
                 PROVE  snapshot'.obs_seq >= snapshot.obs_seq
        OBVIOUS
    <2>1. CASE Act
        <3>1. PICK busy \in BOOLEAN : Drive(busy) \/ Withhold(busy)
            BY <2>1 DEF Act
        <3>2. channel.has_read
            BY DEF NumberInv, LoopInv, HeldInv
        <3> QED
            BY <3>1, <3>2, SnapshotGrows
    <2>2. CASE snapshot' = snapshot
        <3>1. snapshot.obs_seq \in Int
            BY DEF NumberInv, BridgeInv, ControlTypeOK, Messages
        <3> QED
            BY <2>2, <3>1
    <2>3. Act \/ snapshot' = snapshot
        <3>1. [Next]_vars
            BY LoopStepIs
        <3>2. Arrive => snapshot' = snapshot
            BY DEF Arrive, Store
        <3>3. UNCHANGED vars => snapshot' = snapshot
            BY DEF vars
        <3> QED
            BY <3>1, <3>2, <3>3, ObserveIs DEF Next
    <2> QED
        BY <2>1, <2>2, <2>3
<1> QED
    BY <1>1, NumberInvariance, PTL DEF LoopSpec, NeverRewinds
----------------------------------------------------------------------------
(* Types.                                                                      *)

\* The policy process runs one of the models or none.
ServerTyped ==
    /\ server.status \in {"down", "ready", "inferring"}
    /\ server.model \in Models \cup {NoModel}

LEMMA InitServerTyped == LoopInit => ServerTyped
BY DEF LoopInit, ServerInit, ServerTyped

LEMMA NextServerTyped == LoopInv /\ ServerTyped /\ [LoopNext]_loopVars => ServerTyped'
<1> SUFFICES ASSUME LoopInv, ServerTyped, [LoopNext]_loopVars PROVE ServerTyped'
    OBVIOUS
<1>1. CASE ServerNext
    <2>1. ASSUME NEW model \in Models, ServerStart(model) PROVE ServerTyped'
        BY <2>1 DEF ServerStart, ServerTyped
    <2>2. ASSUME NEW i \in DOMAIN obs_topic, RefuseObservation(i) \/ TakeObservation(i)
          PROVE  ServerTyped'
        BY <2>2 DEF RefuseObservation, TakeObservation, ServerTyped, LoopInv, LoopShape, IsServer
    <2>3. ASSUME NEW topic, FinishWith(topic) PROVE ServerTyped'
        BY <2>3 DEF FinishWith, ServerTyped, LoopInv, LoopShape, IsServer
    <2>4. CASE RejectInference
        BY <2>3, <2>4 DEF RejectInference
    <2>5. CASE PublishAction
        BY <2>3, <2>5 DEF PublishAction
    <2>6. CASE ServerCrash
        BY <2>6 DEF ServerCrash, ServerTyped
    <2> QED
        BY <1>1, <2>1, <2>2, <2>4, <2>5, <2>6 DEF ServerNext
<1>2. CASE server' = server
    BY <1>2 DEF ServerTyped
<1>3. ServerNext \/ server' = server
    BY DEF LoopNext, ObserveAndSend, RestartBridge, loopVars, serverVars
<1> QED
    BY <1>1, <1>2, <1>3

LEMMA ServerTypes == LoopSpec => []ServerTyped
BY LoopInvariance, InitServerTyped, NextServerTyped, PTL DEF LoopSpec

\* The whole loop keeps its types for a bridge that publishes at all: in particular
\* every number on either topic is one of an observation the model lets it publish.
THEOREM LoopTypes == ASSUME PubPeriod # 0 PROVE MaxBoots = 0 /\ LoopSpec => []LoopTypeOK
<1>1. ASSUME TypeOK, ServerTyped, NumberInv PROVE LoopTypeOK
    <2>1. Len(published) \in Nat /\ Len(published) <= MaxSequence /\ MaxSequence \in Nat
        BY <1>1, BridgeAssumption DEF NumberInv, BridgeInv, ControlTypeOK
    <2>2. /\ \A i \in DOMAIN obs_topic : obs_topic[i].obs_seq \in 1..MaxSequence
          /\ \A i \in DOMAIN action_topic : action_topic[i].obs_seq \in 1..MaxSequence
        BY <1>1, <2>1 DEF NumberInv, ContentsInv, Numbered
    <2>3. predecessors \in Seq(Layouts) /\ Len(predecessors) <= MaxBoots
        BY <1>1 DEF NumberInv, FirstBridge
    <2> QED
        BY <1>1, <2>2, <2>3 DEF LoopTypeOK, ServerTyped
<1>2. MaxBoots = 0 /\ LoopSpec => Spec
    BY LoopImplementsBridge DEF ImplementsBridge
<1> QED
    BY <1>1, <1>2, BridgeTypes, ServerTypes, NumberInvariance, PTL
=============================================================================
