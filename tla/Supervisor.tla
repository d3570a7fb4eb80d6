------------------------------ MODULE Supervisor ------------------------------
(***************************************************************************)
(* run_container of rlvr/v3/supervisor.py: the calling thread, the docker  *)
(* command it waits for, the thread that guards the size of the workspace, *)
(* and the container, which is the daemon's and can outlive all of them.   *)
(* The daemon (docker run, kill, inspect, rm) is external; each of its     *)
(* operations can fail, or be done although the command that asked for it  *)
(* was given up.                                                           *)
(***************************************************************************)
EXTENDS Integers

CONSTANT Writable  \* some mount of the request is writable, so a guard runs

\* What is assumed of the constants; evaluated in ValidatorParts.
SupervisorAssumption == Writable \in BOOLEAN

VARIABLES main,       \* where the calling thread is
          cli,        \* the docker run process: "none", "alive" or "gone"
          request,    \* what docker run has asked of the daemon: create, start
          container,  \* "none", "created", "running", "exited" or "removed"
          ended,      \* ghost: who ended it: itself, its timeout, oom, a kill
          exitCode,   \* State.ExitCode of an exited container
          oom,        \* State.OOMKilled
          guard,      \* "off", "watching", "killing" or "gone"
          stopGuard,  \* the stop_guard event
          over,       \* the writable mounts hold more than the budget
          runStarted, \* run_started
          watchdog,   \* watchdog_expired
          pending,    \* pending_error is set
          result      \* the ContainerResult

vars == <<main, cli, request, container, ended, exitCode, oom, guard, stopGuard, over,
          runStarted, watchdog, pending, result>>
daemon == <<request, container, ended, exitCode, oom>>

ExitCodes == {0, 1, 124, 137}
NoResult == [made |-> FALSE, exitCode |-> 0, oom |-> FALSE, timedOut |-> FALSE]

Init ==
    /\ main = "starting" /\ cli = "none" /\ request = "none"
    /\ container = "none" /\ ended = "not" /\ exitCode = 0 /\ oom = FALSE
    /\ guard = "off" /\ stopGuard = FALSE /\ over = FALSE
    /\ runStarted = FALSE /\ watchdog = FALSE /\ pending = FALSE /\ result = NoResult
-----------------------------------------------------------------------------
\* The calling thread up to docker run.

\* The runtime or a mount is not what it was: nothing was started.
Unavailable ==
    /\ main = "starting"
    /\ main' = "raised"
    /\ UNCHANGED <<cli, daemon, guard, stopGuard, over, runStarted, watchdog, pending, result>>

\* The guard thread cannot be started.
GuardUnavailable ==
    /\ main = "starting" /\ Writable
    /\ main' = "joining" /\ pending' = TRUE
    /\ UNCHANGED <<cli, daemon, guard, stopGuard, over, runStarted, watchdog, result>>

\* The guard starts and docker run is launched, or cannot be.
Launch ==
    /\ main = "starting"
    /\ guard' = IF Writable THEN "watching" ELSE "off"
    /\ runStarted' = TRUE
    /\ \/ main' = "waiting" /\ cli' = "alive" /\ pending' = FALSE
       \/ main' = "joining" /\ cli' = "none" /\ pending' = TRUE
    /\ UNCHANGED <<daemon, stopGuard, over, watchdog, result>>
-----------------------------------------------------------------------------
\* docker run and the daemon.

Ask ==
    /\ cli = "alive"
    /\ \/ request = "none" /\ request' = "create"
       \/ request = "created" /\ request' = "start"
    /\ UNCHANGED <<main, cli, container, ended, exitCode, oom, guard, stopGuard, over,
                   runStarted, watchdog, pending, result>>

\* The daemon does what it was asked, even if nobody waits for it any more.
Create ==
    /\ request = "create" /\ container = "none"
    /\ request' = "created" /\ container' = "created"
    /\ UNCHANGED <<main, cli, ended, exitCode, oom, guard, stopGuard, over, runStarted,
                   watchdog, pending, result>>

Start ==
    /\ request = "start" /\ container = "created"
    /\ request' = "started" /\ container' = "running"
    /\ UNCHANGED <<main, cli, ended, exitCode, oom, guard, stopGuard, over, runStarted,
                   watchdog, pending, result>>

\* The command ends, /usr/bin/timeout ends it, or the memory limit does. The
\* memory limit can also take a child and leave the command running.
ContainerEnds ==
    /\ container = "running"
    /\ container' = "exited"
    /\ \/ ended' = "itself" /\ exitCode' \in ExitCodes /\ UNCHANGED oom
       \/ ended' = "timeout" /\ exitCode' \in {124, 137} /\ UNCHANGED oom
       \/ ended' = "oom" /\ exitCode' = 137 /\ oom' = TRUE
    /\ UNCHANGED <<main, cli, request, guard, stopGuard, over, runStarted, watchdog,
                   pending, result>>

ContainerGrows ==
    /\ container = "running"
    /\ over' \in BOOLEAN
    /\ oom' \in {oom, TRUE}
    /\ UNCHANGED <<main, cli, request, container, ended, exitCode, guard, stopGuard,
                   runStarted, watchdog, pending, result>>

\* docker run returns after the container, because it could not be started, or
\* because it lost the daemon.
CliReturns ==
    /\ cli = "alive"
    /\ cli' = "gone"
    /\ UNCHANGED <<main, daemon, guard, stopGuard, over, runStarted, watchdog, pending, result>>

\* docker kill ends a running container and fails on any other.
Kill(who) ==
    /\ container = "running"
    /\ container' = "exited" /\ ended' = who /\ exitCode' = 137
    /\ UNCHANGED <<request, oom>>
-----------------------------------------------------------------------------
\* The guard thread. An operation of _control that is given up raises, and the
\* exception ends the thread.

GuardLooks ==
    /\ guard = "watching"
    /\ guard' = IF stopGuard THEN "gone" ELSE IF over THEN "killing" ELSE guard
    /\ UNCHANGED <<main, cli, daemon, stopGuard, over, runStarted, watchdog, pending, result>>

GuardKills ==
    /\ guard = "killing"
    /\ \/ Kill("guard") /\ guard' = "gone"
       \/ UNCHANGED daemon /\ guard' \in {"watching", "gone"}
    /\ UNCHANGED <<main, cli, stopGuard, over, runStarted, watchdog, pending, result>>
-----------------------------------------------------------------------------
\* The calling thread after docker run.

\* child.wait() returns, or its timeout kills the process group of docker run; the wait
\* that follows has no timeout of its own and relies on SIGKILL.
Wait ==
    /\ main = "waiting"
    /\ cli' = "gone"
    /\ stopGuard' = TRUE
    /\ \/ cli = "gone" /\ watchdog' = FALSE /\ main' = "inspecting"
       \/ cli = "alive" /\ watchdog' = TRUE /\ main' = "stopping"
    /\ UNCHANGED <<daemon, guard, over, runStarted, pending, result>>

Fail == main' = "joining" /\ pending' = TRUE /\ result' = result

\* docker kill after the watchdog; its return code is not looked at.
Stop ==
    /\ main = "stopping"
    /\ Kill("watchdog") \/ UNCHANGED daemon
    /\ Fail \/ (main' = "inspecting" /\ UNCHANGED <<pending, result>>)
    /\ UNCHANGED <<cli, guard, stopGuard, over, runStarted, watchdog>>

\* Faulty variant: only docker run's own timeout counts.
TimedOutWatchdog(code, memory) == watchdog

\* 124 and 137 are what timeout and a kill leave.
TimedOut(code, memory) == watchdog \/ (code \in {124, 137} /\ ~memory)

\* Faulty variant: the status is not looked at.
InspectedAny == container \in {"created", "running", "exited"}

\* docker inspect must report a container that has exited.
Inspected == container = "exited"

Inspect ==
    /\ main = "inspecting"
    /\ \/ Fail
       \/ /\ Inspected
          /\ result' = [made |-> TRUE, exitCode |-> exitCode, oom |-> oom,
                        timedOut |-> TimedOut(exitCode, oom)]
          /\ main' = "joining" /\ UNCHANGED pending
    /\ UNCHANGED <<cli, daemon, guard, stopGuard, over, runStarted, watchdog>>

\* Faulty variant: the guard is joined however long it takes.
JoinForever ==
    /\ main = "joining" /\ guard \in {"off", "gone"}
    /\ stopGuard' = TRUE
    /\ main' = IF runStarted THEN "removing" ELSE "raised"
    /\ UNCHANGED <<cli, daemon, guard, over, runStarted, watchdog, pending, result>>

\* guard.join(timeout=10) returns with the guard ended or not.
Join ==
    /\ main = "joining"
    /\ stopGuard' = TRUE
    /\ main' = IF runStarted THEN "removing" ELSE "raised"
    /\ UNCHANGED <<cli, daemon, guard, over, runStarted, watchdog, pending, result>>

Removal ==
    /\ container \in {"created", "running", "exited"}
    /\ container' = "removed"
    /\ ended' = IF container = "running" THEN "removal" ELSE ended
    /\ UNCHANGED <<request, exitCode, oom>>

\* docker rm -f. A failure, or a command that was given up, raises; there may be
\* nothing to remove, which some versions report and others do not.
Remove ==
    /\ main = "removing"
    /\ \/ /\ Removal \/ (container = "none" /\ UNCHANGED daemon)
          /\ main' = IF pending THEN "raised" ELSE "returned"
       \/ /\ Removal \/ UNCHANGED daemon
          /\ main' = "raised"
    /\ UNCHANGED <<cli, guard, stopGuard, over, runStarted, watchdog, pending, result>>

Done == main \in {"returned", "raised"} /\ UNCHANGED vars

Caller == Unavailable \/ GuardUnavailable \/ Launch \/ Wait \/ Stop \/ Inspect \/ Join \/ Remove

Next == Caller \/ Ask \/ Create \/ Start \/ ContainerEnds \/ ContainerGrows \/ CliReturns
        \/ GuardLooks \/ GuardKills \/ Done

Spec == Init /\ [][Next]_vars

\* Every wait of the calling thread has a timeout; nobody else owes it anything.
FairSpec == Spec /\ WF_vars(Caller)
-----------------------------------------------------------------------------
TypeOK ==
    /\ main \in {"starting", "waiting", "stopping", "inspecting", "joining", "removing",
                 "returned", "raised"}
    /\ cli \in {"none", "alive", "gone"}
    /\ request \in {"none", "create", "created", "start", "started"}
    /\ container \in {"none", "created", "running", "exited", "removed"}
    /\ ended \in {"not", "itself", "timeout", "oom", "guard", "watchdog", "removal"}
    /\ exitCode \in ExitCodes /\ oom \in BOOLEAN
    /\ guard \in {"off", "watching", "killing", "gone"}
    /\ stopGuard \in BOOLEAN /\ over \in BOOLEAN /\ runStarted \in BOOLEAN
    /\ watchdog \in BOOLEAN /\ pending \in BOOLEAN
    /\ result \in [made : BOOLEAN, exitCode : ExitCodes, oom : BOOLEAN, timedOut : BOOLEAN]

\* A result is only returned for a container that has exited and is gone: nothing
\* of it is left running beside the next check, and the exit code that is graded
\* is the one it ended with, whoever else was killing it at the time.
ResultIsSettled ==
    main = "returned" =>
        /\ container = "removed" /\ ended \notin {"not", "removal"}
        /\ result.made /\ result.exitCode = exitCode /\ result.oom = oom

\* A container that was cut short, by its timeout, the memory limit, the guard or
\* the watchdog, is never graded as one that finished.
CutShortIsReported ==
    main = "returned" /\ ended # "itself" => result.timedOut \/ result.oom

\* run_container returns or raises, with a guard that hangs, a daemon that does
\* not answer and a container that never ends.
Returns == <>(main \in {"returned", "raised"})

\* What a returned ContainerResult is worth (run_container).
ResultSound == TypeOK /\ ResultIsSettled /\ CutShortIsReported
=============================================================================
