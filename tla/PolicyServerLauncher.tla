------------------------ MODULE PolicyServerLauncher ------------------------
(***************************************************************************)
(* The component that keeps the policy process running                     *)
(* (src/policy_server_launcher.cpp) with the processes it forks.           *)
(*                                                                         *)
(* Time points are kept as the time since the last poll and the time left  *)
(* until the next start, in one unit, which Tick advances.  update() is a  *)
(* step only when a poll is due, and it is one step, as all it decides on  *)
(* is read by a single waitpid().  The child runs between the calls it     *)
(* makes after fork(), and signals, crashes and the death of the control   *)
(* process come at any time.                                               *)
(***************************************************************************)
EXTENDS Integers, FiniteSets

CONSTANTS Pids, NoChild,
          PollInterval, RespawnDelay,   \* poll_interval_, respawn_delay_
          Second,                       \* their unit
          StopAttempts                  \* polls of stop_child_(), 40 in the code

ASSUME LauncherAssumption ==
    /\ NoChild \notin Pids
    /\ PollInterval \in Int /\ RespawnDelay \in Int /\ StopAttempts \in Nat
    /\ Second \in Nat \ {0, 1}

\* resolve_paths_(): a value that makes no sense is replaced.
PollPeriod == IF PollInterval > 0 THEN PollInterval ELSE Second \div 2
RespawnPeriod == IF RespawnDelay >= 0 THEN RespawnDelay ELSE Second

VARIABLES
    autostart,      \* autostart_ and respawn_, which do not change once constructed
    respawn,
    launcher,       \* "built", "updating", "stopping" and "killing" in the destructor,
                    \* "gone" after it, or "dead": the control process was killed
    child_pid,      \* child_pid_, NoChild for -1
    stop_pid,       \* the pid stop_child_() works on
    attempt,        \* its loop counter
    since_poll,     \* now - last_poll_time_, up to PollPeriod
    until_start,    \* next_start_time_ - now, down to 0
    process,        \* of each pid: "none", "forked", "armed" (prctl() done), "checked"
                    \* (getppid() done), "serving", "stuck" (deaf to SIGTERM), "zombie"
    signalled,      \* the processes with a SIGTERM pending
    handles_term,   \* the control process has a SIGTERM handler, which a child inherits
                    \* until exec() and where it does nothing
    reaps_elsewhere,\* something else in it reaps children too, or it ignores SIGCHLD
    since_attempt   \* History: time since the last fork() or reaped exit, up to RespawnPeriod

childVars == <<process, signalled>>
timers == <<since_poll, until_start, since_attempt>>
settings == <<autostart, respawn, handles_term, reaps_elsewhere>>
vars == <<launcher, child_pid, stop_pid, attempt, timers, childVars, settings>>

Starting == {"forked", "armed", "checked"}
Alive == Starting \cup {"serving", "stuck"}

\* resolve_paths_() on whether there is an executable and a readable parameter file.
MayAutostart(configured, executable, params_file) == configured /\ executable /\ params_file

Init ==
    /\ launcher = "built" /\ child_pid = NoChild /\ stop_pid = NoChild /\ attempt = 0
    /\ since_poll = 0 /\ until_start = 0 /\ since_attempt = RespawnPeriod
    /\ process = [p \in Pids |-> "none"] /\ signalled = {}
    /\ \E configured, executable, params_file \in BOOLEAN :
        autostart = MayAutostart(configured, executable, params_file)
    /\ respawn \in BOOLEAN
    /\ handles_term \in BOOLEAN /\ reaps_elsewhere \in BOOLEAN

Smaller(a, b) == IF a < b THEN a ELSE b

\* Seeded faults: no delay after an exit, a start over a child that is there, no
\* respawn at all, no check of the parent, a loop that ends late, and a destructor
\* that does not kill.
WaitSinceStart == until_start
StartOverChild(child, wait) == autostart /\ respawn /\ wait = 0
StartOnlyOnce(child, wait) == FALSE
CheckNothing(p) ==
    /\ process[p] = "armed"
    /\ process' = [process EXCEPT ![p] = "checked"]
    /\ UNCHANGED signalled
WaitsOnceMore ==
    /\ launcher = "stopping" /\ attempt <= StopAttempts
    /\ process[stop_pid] # "zombie"
    /\ attempt' = attempt + 1
    /\ UNCHANGED <<launcher, child_pid, stop_pid, timers, childVars, settings>>
OnlyTerminates ==
    /\ launcher = "stopping" /\ attempt = StopAttempts
    /\ signalled' = signalled \cup {stop_pid}
    /\ UNCHANGED <<launcher, child_pid, stop_pid, attempt, timers, process, settings>>

----------------------------------------------------------------------------
(* update() and before_updating(). *)

\* The child after reap_child_(), the wait it leaves and the process table.  waitpid()
\* returns the pid, or ECHILD for one that was reaped elsewhere.
Exited == child_pid # NoChild /\ process[child_pid] \in {"zombie", "none"}
Kept == IF Exited THEN NoChild ELSE child_pid
Wait == IF Exited THEN RespawnPeriod ELSE until_start
Reaped == [p \in Pids |-> IF Exited /\ p = child_pid THEN "none" ELSE process[p]]

MayStart(child, wait) == autostart /\ respawn /\ child = NoChild /\ wait = 0

\* start_child_(), with either result of fork().
ForkSucceeds(table) ==
    \E pid \in Pids :
        /\ table[pid] = "none"
        /\ child_pid' = pid
        /\ process' = [table EXCEPT ![pid] = "forked"]
        /\ signalled' = signalled \ {pid}
        /\ until_start' = RespawnPeriod /\ since_attempt' = 0
        /\ UNCHANGED settings

ForkFails(table) ==
    /\ child_pid' = NoChild
    /\ process' = table
    /\ until_start' = RespawnPeriod /\ since_attempt' = 0
    /\ UNCHANGED <<signalled, settings>>

BeforeUpdating ==
    /\ launcher = "built" /\ launcher' = "updating"
    /\ since_poll' = 0
    /\ IF autostart THEN ForkSucceeds(process) \/ ForkFails(process)
       ELSE UNCHANGED <<child_pid, childVars, settings, until_start, since_attempt>>
    /\ UNCHANGED <<stop_pid, attempt>>

Polls ==
    /\ launcher = "updating" /\ since_poll = PollPeriod
    /\ since_poll' = 0
    /\ UNCHANGED <<launcher, stop_pid, attempt>>

PollStarts == Polls /\ MayStart(Kept, Wait) /\ ForkSucceeds(Reaped)

PollFailsToStart == Polls /\ MayStart(Kept, Wait) /\ ForkFails(Reaped)

PollOnly ==
    /\ Polls /\ ~MayStart(Kept, Wait)
    /\ child_pid' = Kept /\ process' = Reaped
    /\ until_start' = Wait
    /\ since_attempt' = IF Exited THEN 0 ELSE since_attempt
    /\ UNCHANGED <<signalled, settings>>

----------------------------------------------------------------------------
(* The destructor: stop_child_(). *)

Existing == {p \in Pids : process[p] # "none"}

BeginStop ==
    /\ launcher \in {"built", "updating"}
    /\ IF child_pid = NoChild
       THEN launcher' = "gone" /\ UNCHANGED <<child_pid, stop_pid, signalled>>
       ELSE /\ launcher' = "stopping"
            /\ stop_pid' = child_pid /\ child_pid' = NoChild
            /\ signalled' = signalled \cup ({child_pid} \cap Existing)
    /\ UNCHANGED <<attempt, timers, process, settings>>

\* waitpid() returned the pid, or the last one failed: the process is gone for good.
StopReaps ==
    /\ \/ launcher = "stopping" /\ attempt < StopAttempts /\ process[stop_pid] = "zombie"
       \/ launcher = "killing" /\ process[stop_pid] \in {"zombie", "none"}
    /\ launcher' = "gone" /\ stop_pid' = NoChild
    /\ process' = [process EXCEPT ![stop_pid] = "none"]
    /\ signalled' = signalled \ {stop_pid}
    /\ UNCHANGED <<child_pid, attempt, timers, settings>>

\* Any other result counts as a process that still runs, ECHILD too.
StopWaits ==
    /\ launcher = "stopping" /\ attempt < StopAttempts
    /\ process[stop_pid] # "zombie"
    /\ attempt' = attempt + 1
    /\ UNCHANGED <<launcher, child_pid, stop_pid, timers, childVars, settings>>

StopKills ==
    /\ launcher = "stopping" /\ attempt = StopAttempts
    /\ launcher' = "killing"
    /\ process' = [process EXCEPT ![stop_pid] = IF @ = "none" THEN @ ELSE "zombie"]
    /\ UNCHANGED <<child_pid, stop_pid, attempt, timers, signalled, settings>>

----------------------------------------------------------------------------
(* The child, the control process around the component, and time. *)

Become(p, state) == process' = [process EXCEPT ![p] = state]

Arm(p) == process[p] = "forked" /\ Become(p, "armed") /\ UNCHANGED signalled

\* getppid() tells a child whose parent died before prctl() that no signal will come.
Check(p) ==
    /\ process[p] = "armed"
    /\ Become(p, IF launcher = "dead" THEN "zombie" ELSE "checked")
    /\ UNCHANGED signalled

Exec(p) == process[p] = "checked" /\ Become(p, "serving") /\ UNCHANGED signalled

\* exec() fails, or the process exits, crashes or is killed from elsewhere.
Exit(p) == process[p] \in Alive /\ Become(p, "zombie") /\ UNCHANGED signalled

Hang(p) == process[p] = "serving" /\ Become(p, "stuck") /\ UNCHANGED signalled

Obey(p) ==
    /\ p \in signalled
    /\ process[p] \in {"serving"} \cup (IF handles_term THEN {} ELSE Starting)
    /\ Become(p, "zombie")
    /\ signalled' = signalled \ {p}

\* The handler inherited from the control process swallows the signal.
Swallow(p) ==
    /\ p \in signalled /\ process[p] \in Starting /\ handles_term
    /\ signalled' = signalled \ {p}
    /\ UNCHANGED process

\* A process without a parent is reaped by init.
Vanish(p) ==
    /\ launcher = "dead" /\ process[p] = "zombie"
    /\ Become(p, "none")
    /\ signalled' = signalled \ {p}

\* Or by whatever else reaps in the control process.
TakeAway(p) ==
    /\ launcher # "dead" /\ reaps_elsewhere /\ process[p] = "zombie"
    /\ Become(p, "none")
    /\ signalled' = signalled \ {p}

Child(p) ==
    /\ Arm(p) \/ Check(p) \/ Exec(p) \/ Exit(p) \/ Hang(p) \/ Obey(p) \/ Swallow(p)
       \/ Vanish(p) \/ TakeAway(p)
    /\ UNCHANGED <<launcher, child_pid, stop_pid, attempt, timers, settings>>

\* The children that have called prctl(PR_SET_PDEATHSIG, SIGTERM) get the signal.
Armed == {p \in Pids : process[p] \in Alive \ {"forked"}}

Die ==
    /\ launcher \notin {"gone", "dead"}
    /\ launcher' = "dead"
    /\ child_pid' = NoChild /\ stop_pid' = NoChild
    /\ signalled' = signalled \cup Armed
    /\ UNCHANGED <<attempt, timers, process, settings>>

Tick ==
    /\ launcher = "updating"
    /\ since_poll' = Smaller(since_poll + 1, PollPeriod)
    /\ until_start' = IF until_start = 0 THEN 0 ELSE until_start - 1
    /\ since_attempt' = Smaller(since_attempt + 1, RespawnPeriod)
    /\ UNCHANGED <<launcher, child_pid, stop_pid, attempt, childVars, settings>>

----------------------------------------------------------------------------

Poll == PollStarts \/ PollFailsToStart \/ PollOnly
Stop == StopReaps \/ StopWaits \/ StopKills

Next == \/ BeforeUpdating \/ Poll \/ BeginStop \/ Stop
        \/ \E p \in Pids : Child(p)
        \/ Die \/ Tick

\* The executor keeps calling update(), time passes, the destructor runs to its end,
\* neither fork() fails forever nor does every child die between fork() and exec().
LauncherFairness ==
    /\ WF_vars(Tick) /\ WF_vars(Poll) /\ WF_vars(Stop)
    /\ SF_vars(PollStarts)
    /\ SF_vars(\E p \in Pids : Child(p) /\ Arm(p)) /\ SF_vars(\E p \in Pids : Child(p) /\ Check(p))
    /\ SF_vars(\E p \in Pids : Child(p) /\ Exec(p))

\* A child gets to run, a signal is delivered and init reaps.
ChildFairness ==
    \A p \in Pids :
        /\ WF_vars(Child(p) /\ (Arm(p) \/ Check(p) \/ Exec(p)))
        /\ WF_vars(Child(p) /\ (Obey(p) \/ Swallow(p)))
        /\ WF_vars(Child(p) /\ Vanish(p))

Spec == Init /\ [][Next]_vars /\ LauncherFairness /\ ChildFairness

----------------------------------------------------------------------------
(* Properties. *)

TypeOK ==
    /\ launcher \in {"built", "updating", "stopping", "killing", "gone", "dead"}
    /\ child_pid \in Pids \cup {NoChild} /\ stop_pid \in Pids \cup {NoChild}
    /\ attempt \in 0..StopAttempts
    /\ since_poll \in 0..PollPeriod
    /\ until_start \in 0..RespawnPeriod /\ since_attempt \in 0..RespawnPeriod
    /\ process \in [Pids -> Alive \cup {"none", "zombie"}]
    /\ signalled \subseteq Pids
    /\ settings \in BOOLEAN \X BOOLEAN \X BOOLEAN \X BOOLEAN

\* As long as the control process lives, the processes it has forked and not reaped
\* are exactly the one it knows, and there is at most one: no policy process is left
\* running unattended, not by a failed or repeated start nor by the destructor, and no
\* pid is kept, polled or signalled that the system may have given to another process.
ChildIsTracked ==
    launcher # "dead" =>
        /\ Existing \subseteq {child_pid, stop_pid}
        /\ ~reaps_elsewhere => {child_pid, stop_pid} \subseteq Existing \cup {NoChild}
        /\ child_pid = NoChild \/ stop_pid = NoChild

\* A policy process that dies at once is not forked again and again: respawn_delay
\* lies between two attempts, failed ones included, and after every exit.
RespawnIsSpaced ==
    [][PollStarts \/ PollFailsToStart => since_attempt = RespawnPeriod]_vars

\* With respawn, whenever no policy process serves, because it exited, was killed before
\* exec(), could not be forked or was reaped by someone else, one does again.  One that
\* hangs is left alone: nothing looks at more than the exit (launcher.cpp:157-160).
ServerComesBack ==
    launcher = "updating" /\ autostart /\ respawn
        ~> launcher # "updating" \/ \E p \in Pids : p = child_pid /\ process[p] \in {"serving", "stuck"}

\* The destructor ends, whatever the policy process does with SIGTERM.
StopEnds == launcher \in {"stopping", "killing"} ~> launcher \in {"gone", "dead"}

\* When the control process is killed, its policy process goes too, at whatever point
\* of its start it was, unless the signal meets an inherited handler; one that is stuck
\* gets no SIGKILL.
NoOrphans ==
    launcher = "dead" /\ ~handles_term ~> \A p \in Pids : process[p] \in {"none", "stuck"}
=============================================================================
