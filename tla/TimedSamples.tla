---------------------------- MODULE TimedSamples ----------------------------
(***************************************************************************)
(* Queues of samples, oldest first, each with the time it stands for: the  *)
(* std::deque<Sample> of ObservationHistory and of ActionFeedbackHistory.  *)
(***************************************************************************)
EXTENDS Integers, SequencesExt

\* Where the loops of append() and sample() stop: at the last sample taken at
\* or before t, or at the first one when there is none.
LatestAt(samples, t) == Max({1} \cup {i \in DOMAIN samples : samples[i].time <= t})

\* pop_front() of every sample that a later one at or before t replaces.
DropReplaced(samples, t) == SubSeq(samples, LatestAt(samples, t), Len(samples))
=============================================================================
