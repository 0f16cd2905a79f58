----------------------------- MODULE CalmBridge -----------------------------
(***************************************************************************)
(* How soon the bridge of RlBridge drives.  The environment stays as open  *)
(* as it is there; a history variable remembers when something last        *)
(* happened that a loop which works undisturbed does without.  A loop that *)
(* has been undisturbed for long enough drives: the bridge does not bring  *)
(* a loss of control on itself.                                            *)
(***************************************************************************)
EXTENDS RlBridge

CONSTANT Latency        \* the longest time an undisturbed policy takes to answer

\* An observation is answered before the next one is published, whatever the jitter of
\* the cycle, and its answer is in force until the next one is answered.
ASSUME LatencyAssumption ==
    /\ Latency \in Nat /\ MaxStep > 0
    /\ Latency + MaxStep <= PubPeriod
    /\ PubPeriod + Latency + MaxStep - 1 <= MaxActionAge

\* History: the time of the last disturbance, the newest observation answered so far.
VARIABLES disturbed, newest

calmVars == <<vars, disturbed, newest>>

CalmInit == Init /\ disturbed = 0 /\ newest = 0

\* The cycle was disabled or its frame was rejected, or the operator intervened.
Interrupted ==
    \/ ~runtime'.timeline.started
    \/ last_enabled' # last_enabled \/ last_flat_hold' # last_flat_hold
    \/ last_reset_count' # last_reset_count

\* The deadline of an observation of this control period passes without an answer.
Missed(t) ==
    \E n \in disowned + 1..Len(published) :
        newest < n /\ published[n] + Latency \in now..t - 1

\* The message cannot drive, or takes the place of a later answer.
Unwelcome(m) == m.action = NaN \/ m.layout_hash # layout_hash \/ m.obs_seq < newest

DisturbedIf(event) == disturbed' = IF event THEN now' ELSE disturbed

CalmNext ==
    \/ /\ Observe
       /\ DisturbedIf(Interrupted \/ Missed(now'))
       /\ UNCHANGED newest
    \/ \E busy \in BOOLEAN :
       /\ Drive(busy) \/ Withhold(busy)
       /\ DisturbedIf(busy)
       /\ UNCHANGED newest
    \/ /\ Arrive
       /\ DisturbedIf(Unwelcome(channel'.incoming))
       /\ newest' = IF channel'.incoming.obs_seq > newest THEN channel'.incoming.obs_seq
                    ELSE newest

CalmSpec == CalmInit /\ [][CalmNext]_calmVars
----------------------------------------------------------------------------
(* Properties. *)

\* The longest time from the last disturbance to the cycle that drives: the running
\* period ends, an observation is published and answered, each found out a cycle late.
Recovery == PubPeriod + Latency + 2 * MaxStep

\* Once undisturbed for that long, every cycle drives, and goes on driving until the
\* next disturbance: no order of resets, publications, late cycles and answers makes
\* update() (rl_bridge.cpp:101-177) drop an action that it has.  With the default
\* max_action_age of two periods it takes only answers within a period less the jitter.
CalmLoopDrives ==
    phase = "idle" /\ contract_ok /\ now - disturbed >= Recovery => outputs.valid
=============================================================================
