---------------------- MODULE PolicyServerLauncherProofs ----------------------
(***************************************************************************)
(* No policy process runs unattended and none is started in a loop, for    *)
(* any number of pids, any periods and any number of polls in the          *)
(* destructor.                                                             *)
(***************************************************************************)
EXTENDS PolicyServerLauncher, TLAPS

\* Which pid the launcher may know in which phase of its life.
PhaseInv ==
    /\ launcher # "updating" => child_pid = NoChild
    /\ launcher \in {"stopping", "killing"} <=> stop_pid # NoChild

\* What has gone by since the last attempt and what is left of the wait are together
\* a whole delay.
SpacingInv == since_attempt + until_start >= RespawnPeriod

LauncherInv == TypeOK /\ PhaseInv /\ ChildIsTracked /\ SpacingInv

LEMMA PeriodTypes == PollPeriod \in Nat /\ RespawnPeriod \in Nat
BY LauncherAssumption DEF PollPeriod, RespawnPeriod

\* TypeOK says the settings are four Booleans, one by one.
SettingsOK ==
    /\ autostart \in BOOLEAN /\ respawn \in BOOLEAN
    /\ handles_term \in BOOLEAN /\ reaps_elsewhere \in BOOLEAN

LEMMA SettingsAre == settings \in BOOLEAN \X BOOLEAN \X BOOLEAN \X BOOLEAN <=> SettingsOK
BY DEF settings, SettingsOK

LEMMA InitLauncherInv == Init => LauncherInv
<1> SUFFICES ASSUME Init PROVE LauncherInv
    OBVIOUS
<1>1. SettingsOK
    BY DEF Init, MayAutostart, SettingsOK
<1>2. TypeOK
    BY <1>1, SettingsAre, PeriodTypes, LauncherAssumption DEF Init, TypeOK, Alive
<1>3. PhaseInv /\ SpacingInv
    BY PeriodTypes DEF Init, PhaseInv, SpacingInv
<1>4. ChildIsTracked
    BY DEF Init, ChildIsTracked, Existing
<1> QED
    BY <1>2, <1>3, <1>4 DEF LauncherInv

----------------------------------------------------------------------------
(* The steps of update(). *)

\* Before a child is started there is no process.
LEMMA NothingLeft ==
    ASSUME LauncherInv, launcher \in {"built", "updating"}, Kept = NoChild
    PROVE  Reaped = [p \in Pids |-> "none"]
<1>1. stop_pid = NoChild /\ \A p \in Pids : process[p] # "none" => p = child_pid
    BY LauncherAssumption DEF LauncherInv, PhaseInv, ChildIsTracked, Existing
<1>2. \A p \in Pids : (Exited /\ p = child_pid) \/ process[p] = "none"
    BY <1>1, LauncherAssumption DEF Kept, Exited
<1> QED
    BY <1>2 DEF Reaped

LEMMA ForkKeepsInv ==
    ASSUME LauncherInv, launcher' = "updating", UNCHANGED <<stop_pid, attempt>>,
           launcher \in {"built", "updating"}, since_poll' = 0,
           NEW table, table = [p \in Pids |-> "none"],
           ForkSucceeds(table) \/ ForkFails(table)
    PROVE  LauncherInv'
<1>1. TypeOK'
    <2>1. /\ launcher' \in {"built", "updating", "stopping", "killing", "gone", "dead"}
          /\ stop_pid' \in Pids \cup {NoChild} /\ attempt' \in 0..StopAttempts
          /\ since_poll' \in 0..PollPeriod
          /\ until_start' \in 0..RespawnPeriod /\ since_attempt' \in 0..RespawnPeriod
        BY PeriodTypes DEF ForkSucceeds, ForkFails, LauncherInv, TypeOK
    <2>2. /\ child_pid' \in Pids \cup {NoChild} /\ signalled' \subseteq Pids
          /\ process' \in [Pids -> Alive \cup {"none", "zombie"}]
        BY DEF ForkSucceeds, ForkFails, LauncherInv, TypeOK, Alive, Starting
    <2>3. settings' \in BOOLEAN \X BOOLEAN \X BOOLEAN \X BOOLEAN
        BY DEF ForkSucceeds, ForkFails, LauncherInv, TypeOK
    <2> QED
        BY <2>1, <2>2, <2>3 DEF TypeOK
<1>2. PhaseInv' /\ SpacingInv'
    BY PeriodTypes DEF ForkSucceeds, ForkFails, LauncherInv, PhaseInv, SpacingInv, RespawnPeriod
<1>3. ChildIsTracked'
    <2>1. stop_pid' = NoChild
        BY DEF LauncherInv, PhaseInv
    <2>2. CASE ForkFails(table)
        BY <2>1, <2>2 DEF ForkFails, ChildIsTracked, Existing
    <2>3. CASE ForkSucceeds(table)
        <3>1. PICK pid \in Pids : child_pid' = pid /\ process' = [table EXCEPT ![pid] = "forked"]
            BY <2>3 DEF ForkSucceeds
        <3>2. Existing' = {pid}
            BY <3>1 DEF Existing
        <3> QED
            BY <2>1, <3>1, <3>2 DEF ChildIsTracked
    <2> QED
        BY <2>2, <2>3
<1> QED
    BY <1>1, <1>2, <1>3 DEF LauncherInv

LEMMA BeforeUpdatingKeepsInv == LauncherInv /\ BeforeUpdating => LauncherInv'
<1> SUFFICES ASSUME LauncherInv, BeforeUpdating PROVE LauncherInv'
    OBVIOUS
<1>1. child_pid = NoChild /\ stop_pid = NoChild
    BY DEF BeforeUpdating, LauncherInv, PhaseInv
<1>2. CASE autostart
    <2>1. process = [p \in Pids |-> "none"]
        <3>1. \A p \in Pids : process[p] = "none"
            BY <1>1, LauncherAssumption
            DEF BeforeUpdating, LauncherInv, ChildIsTracked, Existing
        <3> QED
            BY <3>1 DEF LauncherInv, TypeOK
    <2> QED
        BY <1>2, <2>1, ForkKeepsInv DEF BeforeUpdating
<1>3. CASE ~autostart
    <2>1. /\ launcher' = "updating" /\ since_poll' = 0
          /\ UNCHANGED <<child_pid, stop_pid, attempt, process, signalled, settings,
                         until_start, since_attempt>>
        BY <1>3 DEF BeforeUpdating, childVars
    <2>2. TypeOK'
        BY <2>1, PeriodTypes DEF LauncherInv, TypeOK
    <2>3. PhaseInv' /\ SpacingInv'
        BY <1>1, <2>1 DEF LauncherInv, PhaseInv, SpacingInv, RespawnPeriod
    <2>4. ChildIsTracked'
        BY <2>1 DEF BeforeUpdating, LauncherInv, ChildIsTracked, Existing, settings
    <2> QED
        BY <2>2, <2>3, <2>4 DEF LauncherInv
<1> QED
    BY <1>2, <1>3

LEMMA PollKeepsInv == LauncherInv /\ Poll => LauncherInv'
<1> SUFFICES ASSUME LauncherInv, Poll PROVE LauncherInv'
    OBVIOUS
<1>1. CASE PollStarts \/ PollFailsToStart
    BY <1>1, NothingLeft, ForkKeepsInv DEF PollStarts, PollFailsToStart, Polls, MayStart
<1>2. CASE PollOnly
    <2>1. /\ launcher = "updating" /\ launcher' = "updating" /\ since_poll' = 0
          /\ UNCHANGED <<stop_pid, attempt, signalled, settings>>
          /\ child_pid' = Kept /\ process' = Reaped /\ until_start' = Wait
          /\ since_attempt' = IF Exited THEN 0 ELSE since_attempt
        BY <1>2 DEF PollOnly, Polls
    <2>2. TypeOK'
        <3>1. Wait \in 0..RespawnPeriod /\ since_attempt' \in 0..RespawnPeriod
            BY <2>1, PeriodTypes DEF Wait, LauncherInv, TypeOK
        <3>2. /\ Kept \in Pids \cup {NoChild}
              /\ Reaped \in [Pids -> Alive \cup {"none", "zombie"}]
            BY DEF Kept, Reaped, LauncherInv, TypeOK
        <3> QED
            BY <2>1, <3>1, <3>2, PeriodTypes DEF LauncherInv, TypeOK
    <2>3. PhaseInv'
        BY <2>1 DEF LauncherInv, PhaseInv
    <2>4. SpacingInv'
        BY <2>1, PeriodTypes DEF LauncherInv, SpacingInv, Wait, RespawnPeriod
    <2>5. ChildIsTracked'
        <3>1. CASE Exited
            <4>1. child_pid' = NoChild /\ process' = [p \in Pids |-> "none"]
                BY <2>1, <3>1, NothingLeft DEF Kept
            <4> QED
                BY <2>1, <4>1 DEF LauncherInv, PhaseInv, ChildIsTracked, Existing
        <3>2. CASE ~Exited
            <4>1. child_pid' = child_pid /\ \A p \in Pids : process'[p] = process[p]
                BY <2>1, <3>2 DEF Kept, Reaped
            <4> QED
                BY <2>1, <4>1 DEF LauncherInv, ChildIsTracked, Existing, settings
        <3> QED
            BY <3>1, <3>2
    <2> QED
        BY <2>2, <2>3, <2>4, <2>5 DEF LauncherInv
<1> QED
    BY <1>1, <1>2 DEF Poll

----------------------------------------------------------------------------
(* The destructor, the processes and time. *)

LEMMA StopKeepsInv == LauncherInv /\ (BeginStop \/ Stop) => LauncherInv'
<1> SUFFICES ASSUME LauncherInv, BeginStop \/ Stop PROVE LauncherInv'
    OBVIOUS
<1>1. /\ UNCHANGED timers /\ UNCHANGED settings
      /\ launcher' \in {"stopping", "killing", "gone"}
    BY DEF BeginStop, Stop, StopReaps, StopWaits, StopKills
<1>2. child_pid' = NoChild
    BY DEF BeginStop, Stop, StopReaps, StopWaits, StopKills, LauncherInv, PhaseInv
<1>3. /\ launcher' \in {"stopping", "killing"} <=> stop_pid' # NoChild
      /\ stop_pid' \in Pids \cup {NoChild}
    BY LauncherAssumption
    DEF BeginStop, Stop, StopReaps, StopWaits, StopKills, LauncherInv, PhaseInv, TypeOK
<1>4. attempt' \in 0..StopAttempts /\ signalled' \subseteq Pids
    BY LauncherAssumption
    DEF BeginStop, Stop, StopReaps, StopWaits, StopKills, childVars, Existing, LauncherInv, TypeOK
<1>5. process' \in [Pids -> Alive \cup {"none", "zombie"}]
    BY DEF BeginStop, Stop, StopReaps, StopWaits, StopKills, childVars, LauncherInv, TypeOK
<1>6. TypeOK'
    BY <1>1, <1>2, <1>3, <1>4, <1>5 DEF LauncherInv, TypeOK, timers
<1>7. PhaseInv' /\ SpacingInv'
    BY <1>1, <1>2, <1>3 DEF LauncherInv, PhaseInv, SpacingInv, timers, RespawnPeriod
<1>8. ChildIsTracked'
    <2>1. reaps_elsewhere' = reaps_elsewhere /\ process \in [Pids -> Alive \cup {"none", "zombie"}]
        BY <1>1 DEF settings, LauncherInv, TypeOK
    <2>2. CASE BeginStop
        BY <1>2, <2>1, <2>2, LauncherAssumption
        DEF BeginStop, LauncherInv, PhaseInv, ChildIsTracked, Existing
    <2>3. CASE StopReaps
        <3>1. stop_pid' = NoChild /\ Existing \subseteq {stop_pid}
            BY <2>3, LauncherAssumption DEF StopReaps, LauncherInv, PhaseInv, ChildIsTracked, Existing
        <3>2. Existing' = {}
            BY <2>1, <2>3, <3>1 DEF StopReaps, Existing
        <3> QED
            BY <1>2, <3>1, <3>2 DEF ChildIsTracked
    <2>4. CASE StopWaits
        BY <1>2, <2>1, <2>4
        DEF StopWaits, childVars, LauncherInv, PhaseInv, ChildIsTracked, Existing
    <2>5. CASE StopKills
        <3>1. Existing' = Existing /\ stop_pid' = stop_pid /\ launcher = "stopping"
            BY <2>1, <2>5 DEF StopKills, Existing
        <3> QED
            BY <1>2, <2>1, <3>1 DEF LauncherInv, PhaseInv, ChildIsTracked
    <2> QED
        BY <2>2, <2>3, <2>4, <2>5 DEF Stop
<1> QED
    BY <1>6, <1>7, <1>8 DEF LauncherInv

\* A child makes and ends no process; only someone else's reaping takes one away while
\* the control process lives.
LEMMA ChildKeepsInv ==
    ASSUME LauncherInv, NEW p \in Pids, Child(p)
    PROVE  LauncherInv'
<1>1. UNCHANGED <<launcher, child_pid, stop_pid, attempt, timers, settings>>
    BY DEF Child
<1>2. /\ process' \in [Pids -> Alive \cup {"none", "zombie"}] /\ signalled' \subseteq Pids
      /\ Existing' \subseteq Existing
      /\ launcher # "dead" /\ ~reaps_elsewhere => Existing' = Existing
    <2>1. process \in [Pids -> Alive \cup {"none", "zombie"}] /\ signalled \subseteq Pids
        BY DEF LauncherInv, TypeOK
    <2>2. CASE \E state \in Alive \cup {"zombie"} :
                    Become(p, state) /\ process[p] # "none" /\ signalled' \subseteq signalled
        BY <2>1, <2>2 DEF Become, Existing, Alive, Starting
    <2>3. CASE Vanish(p) \/ TakeAway(p)
        BY <2>1, <2>3 DEF Vanish, TakeAway, Become, Existing
    <2>4. CASE Swallow(p)
        BY <2>1, <2>4 DEF Swallow, Existing
    <2>5. CASE Arm(p) \/ Check(p) \/ Exec(p) \/ Exit(p) \/ Hang(p) \/ Obey(p)
        <3>1. process[p] # "none" /\ signalled' \subseteq signalled
            BY <2>5 DEF Arm, Check, Exec, Exit, Hang, Obey, Alive, Starting
        <3>2. \E state \in Alive \cup {"zombie"} : Become(p, state)
            BY <2>5 DEF Arm, Check, Exec, Exit, Hang, Obey, Alive, Starting
        <3> QED
            BY <2>2, <3>1, <3>2
    <2> QED
        BY <2>3, <2>4, <2>5 DEF Child
<1>3. TypeOK'
    BY <1>1, <1>2 DEF LauncherInv, TypeOK, timers
<1>4. PhaseInv' /\ SpacingInv'
    BY <1>1 DEF LauncherInv, PhaseInv, SpacingInv, timers, RespawnPeriod
<1>5. ChildIsTracked'
    BY <1>1, <1>2 DEF LauncherInv, ChildIsTracked, settings
<1> QED
    BY <1>3, <1>4, <1>5 DEF LauncherInv

LEMMA DieKeepsInv == LauncherInv /\ Die => LauncherInv'
<1> SUFFICES ASSUME LauncherInv, Die PROVE LauncherInv'
    OBVIOUS
<1>1. TypeOK'
    BY DEF Die, Armed, timers, LauncherInv, TypeOK
<1>2. PhaseInv' /\ SpacingInv' /\ ChildIsTracked'
    BY DEF Die, timers, LauncherInv, PhaseInv, SpacingInv, ChildIsTracked, RespawnPeriod
<1> QED
    BY <1>1, <1>2 DEF LauncherInv

LEMMA TickKeepsInv == LauncherInv /\ Tick => LauncherInv'
<1> SUFFICES ASSUME LauncherInv, Tick PROVE LauncherInv'
    OBVIOUS
<1>1. /\ since_poll' \in 0..PollPeriod
      /\ until_start' \in 0..RespawnPeriod /\ since_attempt' \in 0..RespawnPeriod
      /\ since_attempt' + until_start' >= RespawnPeriod
    BY PeriodTypes DEF Tick, Smaller, LauncherInv, TypeOK, SpacingInv
<1>2. TypeOK'
    BY <1>1 DEF Tick, childVars, LauncherInv, TypeOK
<1>3. PhaseInv' /\ SpacingInv' /\ ChildIsTracked'
    BY <1>1 DEF Tick, childVars, settings, LauncherInv, PhaseInv, SpacingInv, ChildIsTracked, Existing
<1> QED
    BY <1>2, <1>3 DEF LauncherInv

LEMMA NextLauncherInv == LauncherInv /\ [Next]_vars => LauncherInv'
<1> SUFFICES ASSUME LauncherInv, [Next]_vars PROVE LauncherInv'
    OBVIOUS
<1>1. CASE Next
    BY <1>1, BeforeUpdatingKeepsInv, PollKeepsInv, StopKeepsInv, ChildKeepsInv, DieKeepsInv,
       TickKeepsInv DEF Next
<1>2. CASE UNCHANGED vars
    <2>1. TypeOK' /\ PhaseInv' /\ SpacingInv'
        BY <1>2 DEF vars, timers, childVars, LauncherInv, TypeOK, PhaseInv, SpacingInv, RespawnPeriod
    <2>2. ChildIsTracked'
        BY <1>2 DEF vars, childVars, settings, LauncherInv, ChildIsTracked, Existing
    <2> QED
        BY <2>1, <2>2 DEF LauncherInv
<1> QED
    BY <1>1, <1>2

----------------------------------------------------------------------------

\* The strengthened invariant, from the steps alone.
THEOREM LauncherInvariance == Spec => []LauncherInv
BY InitLauncherInv, NextLauncherInv, PTL DEF Spec

\* Every variable keeps its type, the loop of stop_child_() its bound and the timers theirs.
THEOREM LauncherTypes == Spec => []TypeOK
<1>1. LauncherInv => TypeOK
    BY DEF LauncherInv
<1> QED
    BY <1>1, LauncherInvariance, PTL

\* launcher.cpp:134-200: as long as the control process lives, no policy process runs that
\* it does not know, there is never a second one, and no stale pid is kept.
THEOREM LauncherTracksChild == Spec => []ChildIsTracked
<1>1. LauncherInv => ChildIsTracked
    BY DEF LauncherInv
<1> QED
    BY <1>1, LauncherInvariance, PTL

\* launcher.cpp:46-60: respawn_delay lies between any two attempts to start a child, and
\* between the exit of one and the next attempt.
THEOREM LauncherSpacesRespawn == Spec => RespawnIsSpaced
<1>1. LauncherInv /\ [Next]_vars =>
        [PollStarts \/ PollFailsToStart => since_attempt = RespawnPeriod]_vars
    <2> SUFFICES ASSUME LauncherInv, PollStarts \/ PollFailsToStart
                 PROVE  since_attempt = RespawnPeriod
        OBVIOUS
    <2>1. Wait = 0
        BY DEF PollStarts, PollFailsToStart, MayStart
    <2>2. since_attempt \in 0..RespawnPeriod /\ until_start \in 0..RespawnPeriod
        BY DEF LauncherInv, TypeOK
    <2> QED
        BY <2>1, <2>2, PeriodTypes DEF Wait, LauncherInv, SpacingInv
<1> QED
    BY <1>1, LauncherInvariance, PTL DEF Spec, RespawnIsSpaced
=============================================================================
