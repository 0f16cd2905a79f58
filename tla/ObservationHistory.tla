------------------------- MODULE ObservationHistory -------------------------
(***************************************************************************)
(* The frame window handed to the policy                                   *)
(* (src/rl_bridge/observation_history.cpp).  Without a sample period the   *)
(* window is a shift register of the last HistoryLength frames; with one   *)
(* it is resampled from timed frames, HistoryPeriod apart and ending now.  *)
(* A frame is opaque here.                                                 *)
(***************************************************************************)
EXTENDS TimedSamples

CONSTANTS HistoryLength,    \* frames in a window
          HistoryPeriod,    \* time between two of them; 0 for untimed shifting
          Blank             \* a frame of zeros

ASSUME HistoryAssumption == /\ HistoryLength \in Nat \ {0}
                            /\ HistoryPeriod \in Nat

Window == 1..HistoryLength

\* initialized_, values_ and samples_ of the class.
EmptyHistory == [initialized |-> FALSE, values |-> [i \in Window |-> Blank], samples |-> <<>>]

\* Seeded faults: no filling of the window at the start, and a window that reaches
\* across a gap.
ShiftWithoutFill(h, frame) == [h EXCEPT !.initialized = TRUE,
                                        !.values = Append(Tail(h.values), frame)]
SamplesNeverBreak(samples, now) == samples

\* append(frame): the first frame fills the whole window.
ShiftFrame(h, frame) ==
    [h EXCEPT !.initialized = TRUE,
              !.values = IF h.initialized THEN Append(Tail(h.values), frame)
                                          ELSE [i \in Window |-> frame]]

\* Samples separated from now by more than two periods are of another run.
Unbroken(samples, now) ==
    IF samples # <<>> /\ now - Last(samples).time > 2 * HistoryPeriod THEN <<>> ELSE samples

\* The time the i-th frame of the window stands for.
Target(now, i) == now - HistoryPeriod * (HistoryLength - i)

\* Samples older than the one the window starts with are dropped.
DropOld(samples, now) == DropReplaced(samples, Target(now, 1))

SampleFrame(h, frame, now) ==
    LET kept == DropOld(Append(Unbroken(h.samples, now), [time |-> now, frame |-> frame]), now)
    IN  [h EXCEPT !.samples = kept,
                  !.values = [i \in Window |-> kept[LatestAt(kept, Target(now, i))].frame]]

\* append() throws "timestamps must increase" when this does not hold.
CanAppend(h, now) == HistoryPeriod = 0 \/ h.samples = <<>> \/ now > Last(h.samples).time

AppendFrame(h, frame, now) ==
    IF HistoryPeriod = 0 THEN ShiftFrame(h, frame) ELSE SampleFrame(h, frame, now)
=============================================================================
