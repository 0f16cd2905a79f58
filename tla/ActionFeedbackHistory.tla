----------------------- MODULE ActionFeedbackHistory -----------------------
(***************************************************************************)
(* The executed actions an observation shows to the policy when frames are *)
(* resampled (include/rmcs_rl/rl_bridge/action_feedback_history.hpp): each *)
(* action is filed under the time of the observation it answers and read   *)
(* back HistoryPeriod later, the delay the policy was trained with.  An    *)
(* action is an integer, 0 standing for the vector of zeros.               *)
(***************************************************************************)
EXTENDS TimedSamples

EmptyFeedback == [samples |-> <<>>, value |-> 0]

\* Seeded fault: late answers are filed too, and the samples are out of order.
FileLateAnswers(fb, time, action) ==
    [fb EXCEPT !.samples = Append(@, [time |-> time, action |-> action])]

\* store(): an answer to an observation no newer than the last filed one is dropped.
StoreFeedback(fb, time, action) ==
    IF fb.samples # <<>> /\ time <= Last(fb.samples).time THEN fb
    ELSE [fb EXCEPT !.samples = Append(@, [time |-> time, action |-> action])]

\* sample(): drop what a later due sample replaces; keep the value while none is due.
SampleFeedback(fb, now, delay) ==
    LET due  == now - delay
        kept == DropReplaced(fb.samples, due)
    IN  [samples |-> kept,
         value   |-> IF kept # <<>> /\ Head(kept).time <= due THEN Head(kept).action
                                                                ELSE fb.value]
=============================================================================
