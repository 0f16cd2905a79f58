------------------------ MODULE ObservationTimeline ------------------------
(***************************************************************************)
(* The publication clock of the bridge                                     *)
(* (include/rmcs_rl/rl_bridge/observation_timeline.hpp): when an           *)
(* observation is due, which number it gets, and how old the observation   *)
(* answered by an action is.  A timeline is a value; its operations return *)
(* the new one.  Time points and durations are integers of one unit.       *)
(***************************************************************************)
EXTENDS Integers

CONSTANT NaN    \* the quiet NaN of a double

ASSUME NaNAssumption == NaN \notin Int

Timelines == [sequence : Nat, started : BOOLEAN, previous_valid : BOOLEAN,
              current : Int, previous : Int, scheduled : Int]

NewTimeline == [sequence |-> 0, started |-> FALSE, previous_valid |-> FALSE,
                current |-> 0, previous |-> 0, scheduled |-> 0]

\* Seeded faults, each put in the place of an operator below to see a property fail:
\* a schedule that starts anew with every observation, an age that takes the last frame
\* for the one before or knows the last one only, a reset that leaves it answerable.
SlotIsNow(tl, now, period) == now
AgeOfLastForBoth(tl, seq, now) ==
    IF tl.started /\ seq \in {tl.sequence, tl.sequence - 1} THEN now - tl.current ELSE NaN
AgeOfLastOnly(tl, seq, now) == IF tl.started /\ seq = tl.sequence THEN now - tl.current ELSE NaN
ResetKeepsPrevious(tl) == [tl EXCEPT !.started = FALSE, !.scheduled = 0]

----------------------------------------------------------------------------

\* due(): the first observation is due at once, the next ones every period.
Due(tl, now, period) == ~tl.started \/ now - tl.scheduled >= period

\* The slot of the schedule `now' falls in: the phase of the first
\* observation is kept however late the later ones are.
Slot(tl, now, period) ==
    IF ~tl.started \/ period <= 0 THEN now
    ELSE tl.scheduled + period * ((now - tl.scheduled) \div period)

\* publish(): number a frame and remember the times of the last two.
PublishFrame(tl, now, period) ==
    [sequence |-> tl.sequence + 1, started |-> TRUE, previous_valid |-> tl.started,
     current |-> now, previous |-> tl.current, scheduled |-> Slot(tl, now, period)]

\* age(): of the observation numbered seq; NaN unless it is one of the last two.
AgeOf(tl, seq, now) ==
    IF tl.started /\ seq = tl.sequence THEN now - tl.current
    ELSE IF tl.previous_valid /\ seq = tl.sequence - 1 THEN now - tl.previous
    ELSE NaN

\* reset(): forget both observations, keep the numbering.
ResetTimeline(tl) ==
    [sequence |-> tl.sequence, started |-> FALSE, previous_valid |-> FALSE,
     current |-> 0, previous |-> 0, scheduled |-> 0]
=============================================================================
