-------------------------- MODULE ServiceOwnership --------------------------
(***************************************************************************)
(* Which process owns a data directory: `agentgenome start` launches a     *)
(* detached service process or joins one, `serve` claims the directory,    *)
(* runs the control loop and the network surface, and `stop` ends it.      *)
(*                                                                         *)
(* The processes share three files and a lock.  host.json names the        *)
(* claimant, host.launch.json a process that a start has launched and      *)
(* that has not claimed yet, service.json the service that clients should  *)
(* talk to.  host.lock is a kernel lock: a process that dies lets go of    *)
(* it, so who holds it follows from where the processes are.               *)
(*                                                                         *)
(* A process is named by the start that launched it.  No name is used      *)
(* twice, as a pid together with its start time is not, and a dead process *)
(* is reaped at once.  A status request is one step: it reads service.json *)
(* and asks the endpoint named there who answers and whether it is ready.  *)
(***************************************************************************)
EXTENDS Naturals, FiniteSets

CONSTANTS
  Starts,   \* `start` commands, and the processes they launch
  Manual,   \* those of them that may be a `serve` in the foreground instead
  Stops,    \* `stop` commands
  Configs,  \* how each of them may be configured
  Timeouts, \* whether the time of a command or of a claim may run out
  Mortal,   \* commands and service processes that may be killed at any time
  None      \* no process

Commands == Starts \cup Stops

ASSUME NamesAssumption ==
  /\ Manual \subseteq Starts /\ Starts \cap Stops = {}
  /\ None \notin Starts

ASSUME ConfigAssumption ==
  \A c \in Configs : Starts \subseteq DOMAIN c

ASSUME FaultAssumption ==
  /\ Timeouts \in BOOLEAN
  /\ Mortal \subseteq Commands

VARIABLES
  config,   \* the configuration of every start and foreground serve
  host,     \* the claimant host.json names
  launch,   \* the process host.launch.json names
  service,  \* the process service.json names
  pc,       \* where each service process is
  loop,     \* its control thread: off, in a tick, idle between ticks, done
  healthy,  \* processes whose last tick succeeded and is recent
  exit,     \* processes told to shut down gracefully
  cmd,      \* where each command is, or what it answered
  pending   \* the process a command waits for

files == <<host, launch, service>>
processes == <<pc, loop, healthy, exit>>
commands == <<cmd, pending>>
vars == <<config, files, processes, commands>>

Steps == {"absent", "starting", "claiming", "claimed", "bound", "looping",
          "published", "handled", "serving", "draining", "joining",
          "closing", "marking", "releasing", "exiting", "dead"}

\* "error" is any other answer, and none: another configuration, a service
\* that stays unready, one that is not the command's to stop, time run out.
Answers == {"ready", "failed", "stopped", "not_running", "error"}

CommandSteps == Answers \cup
  {"foreground", "new", "deciding", "waiting", "spawned", "polling", "terminating",
   "reaping", "cleaning", "unlinking", "checking", "awaiting"}

TypeOK ==
  /\ config \in Configs
  /\ {host, launch, service} \subseteq Starts \cup {None}
  /\ pc \in [Starts -> Steps]
  /\ loop \in [Starts -> {"off", "tick", "idle", "done"}]
  /\ healthy \subseteq Starts
  /\ exit \subseteq Starts
  /\ cmd \in [Commands -> CommandSteps]
  /\ pending \in [Commands -> Starts \cup {None}]
  /\ \A i \in Starts : pc[i] \in {"absent", "dead"} => loop[i] = "off"

Init ==
  /\ config \in Configs
  /\ host = None /\ launch = None /\ service = None
  /\ \E manual \in SUBSET Manual :
       /\ pc = [i \in Starts |->
                  IF i \in manual THEN "starting" ELSE "absent"]
       /\ cmd = [c \in Commands |->
                   IF c \in manual THEN "foreground" ELSE "new"]
  /\ loop = [i \in Starts |-> "off"]
  /\ healthy = {} /\ exit = {}
  /\ pending = [c \in Commands |-> None]

-----------------------------------------------------------------------------
(* What processes can tell of each other.                                  *)

Alive(i) == i # None /\ pc[i] \notin {"absent", "dead"}

\* The control thread of i may reconcile Runs.
Looping(i) == loop[i] \in {"tick", "idle"}

\* The service is running: the endpoint of service.json answers health
\* requests, under the identity that service.json gives it.
Running == service # None /\ pc[service] = "serving"

Ready == Running /\ service \in healthy /\ Looping(service)

\* Deviation, a stop that has sent its signal lets go of the lock.
LockFreeOfWaits ==
  /\ \A i \in Starts : pc[i] # "claiming"
  /\ \A c \in Commands : cmd[c] \notin {"deciding", "waiting", "spawned", "checking"}

\* Nobody holds host.lock.
LockFree ==
  /\ \A i \in Starts : pc[i] # "claiming"
  /\ \A c \in Commands :
       cmd[c] \notin {"deciding", "waiting", "spawned", "checking", "awaiting"}

-----------------------------------------------------------------------------
(* The service process.                                                    *)

Goto(i, step) == pc' = [pc EXCEPT ![i] = step]

\* Deviation, a control thread that outlives its process.
DieButWork(i) ==
  /\ Goto(i, "dead")
  /\ healthy' = healthy \ {i} /\ exit' = exit \ {i} /\ UNCHANGED loop

\* A process dies: its threads, its socket and its locks go with it.
Die(i) ==
  /\ Goto(i, "dead")
  /\ loop' = [loop EXCEPT ![i] = "off"]
  /\ healthy' = healthy \ {i} /\ exit' = exit \ {i}

\* The claimant of host.json is not alive, and neither is a process another
\* start has launched.
Claimable(i) == ~Alive(host) /\ (launch = i \/ ~Alive(launch))

\* A claim takes the lock and looks at both records, or gives up after
\* lock_timeout.
Claim(i) ==
  /\ pc[i] = "starting"
  /\ \/ LockFree /\ Claimable(i) /\ Goto(i, "claiming")
        /\ UNCHANGED <<loop, healthy, exit>>
     \/ LockFree /\ ~Claimable(i) /\ Die(i)
     \/ ~LockFree /\ Timeouts /\ Die(i)
  /\ UNCHANGED <<files, commands>>

\* It then publishes the claim; its launch record has served its purpose.
Publish(i) ==
  /\ pc[i] = "claiming" /\ Goto(i, "claimed")
  /\ host' = i
  /\ launch' = IF launch = i THEN None ELSE launch
  /\ UNCHANGED <<service, loop, healthy, exit, commands>>

\* The port service.json publishes is bound again; it may be taken.
Bind(i) ==
  /\ pc[i] = "claimed"
  /\ Goto(i, "bound") \/ Goto(i, "closing")
  /\ UNCHANGED <<files, loop, healthy, exit, commands>>

StartControlLoop(i) ==
  /\ pc[i] = "bound" /\ Goto(i, "looping")
  /\ loop' = [loop EXCEPT ![i] = "tick"]
  /\ UNCHANGED <<files, healthy, exit, commands>>

WriteServiceRecord(i) ==
  /\ pc[i] = "looping" /\ Goto(i, "published")
  /\ service' = i
  /\ UNCHANGED <<host, launch, loop, healthy, exit, commands>>

\* Signal handlers come after that, then the network surface.
InstallHandlers(i) ==
  /\ pc[i] = "published" /\ Goto(i, "handled")
  /\ UNCHANGED <<files, loop, healthy, exit, commands>>

Listen(i) ==
  /\ pc[i] = "handled" /\ Goto(i, "serving")
  /\ UNCHANGED <<files, loop, healthy, exit, commands>>

\* The network surface closes once it is told to, and then waits for the
\* requests that are under way.
Shut(i) ==
  /\ pc[i] = "serving" /\ i \in exit /\ Goto(i, "draining")
  /\ UNCHANGED <<files, loop, healthy, exit, commands>>

Drain(i) ==
  /\ pc[i] = "draining" /\ Goto(i, "joining")
  /\ UNCHANGED <<files, loop, healthy, exit, commands, config>>

\* Deviation, the control thread is waited for as long as it takes.
JoinWithoutTimeout(i) ==
  /\ pc[i] = "joining" /\ ~Looping(i) /\ Goto(i, "closing")
  /\ UNCHANGED <<files, loop, healthy, exit, commands>>

\* The control thread is joined for a while, whether it ends or not.
Join(i) ==
  /\ pc[i] = "joining" /\ Goto(i, "closing")
  /\ UNCHANGED <<files, loop, healthy, exit, commands>>

\* Deviation, the claim is given up while the control thread still works.
FinishAnyway(i) ==
  /\ pc[i] = "closing"
  /\ IF service = i THEN Goto(i, "marking") ELSE Goto(i, "releasing")
  /\ UNCHANGED <<files, loop, healthy, exit, commands>>

\* With work pending the process ends as it is, its claim still in place;
\* else it reads service.json to mark its own record stopped.
Finish(i) ==
  /\ pc[i] = "closing"
  /\ \/ Looping(i) /\ Die(i)
     \/ ~Looping(i) /\ service = i /\ Goto(i, "marking")
        /\ UNCHANGED <<loop, healthy, exit>>
     \/ ~Looping(i) /\ service # i /\ Goto(i, "releasing")
        /\ UNCHANGED <<loop, healthy, exit>>
  /\ UNCHANGED <<files, commands>>

\* Deviation, the claim is released before the record is written.
MarkAfterRelease(i) ==
  /\ pc[i] = "marking"
  /\ IF host = i THEN host' = None /\ UNCHANGED <<service, pc>>
                 ELSE service' = i /\ Goto(i, "releasing") /\ UNCHANGED host
  /\ UNCHANGED <<launch, loop, healthy, exit, commands>>

\* It writes back the record it has read, stopped_at filled in.
MarkStopped(i) ==
  /\ pc[i] = "marking" /\ Goto(i, "releasing")
  /\ service' = i
  /\ UNCHANGED <<host, launch, loop, healthy, exit, commands>>

\* The claim goes last.
Release(i) ==
  /\ pc[i] = "releasing" /\ Goto(i, "exiting")
  /\ host' = IF host = i THEN None ELSE host
  /\ UNCHANGED <<launch, service, loop, healthy, exit, commands>>

Exit(i) ==
  /\ pc[i] = "exiting" /\ Die(i)
  /\ UNCHANGED <<files, commands>>

\* The control thread ends between two ticks, once the shutdown has got
\* that far.
Stopping(i) ==
  pc[i] \in {"joining", "closing", "marking", "releasing", "exiting"}

\* A tick succeeds, fails, or takes so long that the last one is not recent
\* any more; without a recent success the service is not ready.
Tick(i) ==
  /\ loop[i] = "tick"
  /\ \/ loop' = [loop EXCEPT ![i] = "idle"]
        /\ healthy' \in {healthy \cup {i}, healthy \ {i}}
     \/ healthy' = healthy \ {i} /\ UNCHANGED loop
  /\ UNCHANGED <<files, pc, exit, commands, config>>

NextTick(i) ==
  /\ loop[i] = "idle"
  /\ loop' = [loop EXCEPT ![i] = IF Stopping(i) THEN "done" ELSE "tick"]
  /\ UNCHANGED <<files, pc, healthy, exit, commands, config>>

\* SIGTERM: a handler asks for a graceful shutdown, where one is installed.
Terminate(i) ==
  IF pc[i] \in {"handled", "serving", "draining"}
  THEN exit' = exit \cup {i} /\ UNCHANGED <<pc, loop, healthy>>
  ELSE Die(i)

Serve(i) ==
  /\ \/ Claim(i) \/ Publish(i) \/ Bind(i) \/ StartControlLoop(i)
     \/ WriteServiceRecord(i) \/ InstallHandlers(i) \/ Listen(i) \/ Shut(i)
     \/ Join(i) \/ Finish(i) \/ MarkStopped(i) \/ Release(i) \/ Exit(i)
  /\ UNCHANGED config

-----------------------------------------------------------------------------
(* The start command.                                                      *)

Becomes(c, step) == cmd' = [cmd EXCEPT ![c] = step]

\* A command gets the lock, or gives up when its time is over.
Lock(c, step) ==
  /\ cmd[c] = "new"
  /\ \/ LockFree /\ Becomes(c, step)
     \/ ~LockFree /\ Timeouts /\ Becomes(c, "error")
  /\ UNCHANGED <<files, processes, pending>>

\* The directory's service is configured otherwise than s asks for.
Mismatch(s, i) == i # None /\ config[i] # config[s]

\* A service that runs is reused: at once when it is ready, after waiting
\* for it when it is not, and not at all when it is configured otherwise.
Reuse(s) ==
  /\ cmd[s] = "deciding" /\ Running
  /\ Becomes(s, IF Mismatch(s, host) THEN "error"
                ELSE IF Ready THEN "ready" ELSE "waiting")
  /\ UNCHANGED <<files, processes, pending>>

\* Waiting for it, the lock held, ends with the service ready, gone, or late.
AwaitReady(s) ==
  /\ cmd[s] = "waiting"
  /\ \/ Ready /\ Becomes(s, "ready")
     \/ ~Running /\ Becomes(s, "error")
     \/ Timeouts /\ Becomes(s, "error")
  /\ UNCHANGED <<files, processes, pending>>

\* Another start has launched a process that has not claimed yet: join it.
JoinLaunch(s) ==
  /\ cmd[s] = "deciding" /\ ~Running /\ Alive(launch)
  /\ Becomes(s, "polling")
  /\ pending' = [pending EXCEPT ![s] = launch]
  /\ UNCHANGED <<files, processes>>

\* Otherwise launch one.
Spawn(s) ==
  /\ cmd[s] = "deciding" /\ ~Running /\ ~Alive(launch)
  /\ Becomes(s, "spawned")
  /\ pending' = [pending EXCEPT ![s] = s]
  /\ Goto(s, "starting")
  /\ UNCHANGED <<files, loop, healthy, exit>>

\* The lock is let go only when its record is written.
WriteLaunch(s) ==
  /\ cmd[s] = "spawned" /\ Becomes(s, "polling")
  /\ launch' = s
  /\ UNCHANGED <<host, service, processes, pending>>

\* The service is ready and is the one this start waits for.
Expected(s) == Ready /\ service = pending[s]

\* A start that joined another one's process asks how it is configured, once
\* that has claimed.
JoinedOtherwise(s) ==
  pending[s] # s /\ host = pending[s] /\ Mismatch(s, host)

\* A start polls until its service is ready, turns out to be configured
\* otherwise, has ended, or is late; then it ends what it has launched.
Poll(s) ==
  /\ cmd[s] = "polling"
  /\ \/ JoinedOtherwise(s) /\ Becomes(s, "error")
     \/ ~JoinedOtherwise(s) /\ Expected(s) /\ Becomes(s, "ready")
     \/ /\ Timeouts \/ ~(JoinedOtherwise(s) \/ Expected(s) \/ Alive(pending[s]))
        /\ Becomes(s, IF pending[s] = s THEN "terminating" ELSE "failed")
  /\ UNCHANGED <<files, processes, pending>>

TerminateOwn(s) ==
  /\ cmd[s] = "terminating"
  /\ IF Alive(s) THEN Terminate(s) /\ Becomes(s, "reaping")
                 ELSE Becomes(s, "cleaning") /\ UNCHANGED processes
  /\ UNCHANGED <<files, pending>>

\* Deviation, the process is left to end by itself.
ReapPatiently(s) ==
  /\ cmd[s] = "reaping" /\ ~Alive(s) /\ Becomes(s, "cleaning")
  /\ UNCHANGED <<files, processes, pending>>

\* A process that does not end in time is killed.
Reap(s) ==
  /\ cmd[s] = "reaping"
  /\ IF Alive(s) THEN Die(s) /\ UNCHANGED cmd
                 ELSE Becomes(s, "cleaning") /\ UNCHANGED processes
  /\ UNCHANGED <<files, pending>>

\* Its launch record, if it is still there, goes with it.
FindLaunch(s) ==
  /\ cmd[s] = "cleaning"
  /\ Becomes(s, IF launch = s THEN "unlinking" ELSE "failed")
  /\ UNCHANGED <<files, processes, pending>>

Unlink(s) ==
  /\ cmd[s] = "unlinking" /\ Becomes(s, "failed")
  /\ launch' = None
  /\ UNCHANGED <<host, service, processes, pending>>

Start(s) ==
  /\ \/ Lock(s, "deciding") \/ Reuse(s) \/ AwaitReady(s) \/ JoinLaunch(s)
     \/ Spawn(s) \/ WriteLaunch(s) \/ Poll(s) \/ TerminateOwn(s) \/ Reap(s)
     \/ FindLaunch(s) \/ Unlink(s)
  /\ UNCHANGED config

-----------------------------------------------------------------------------
(* The stop command.                                                       *)

\* The lock held, it looks for the process of service.json and terminates
\* it; one that was not launched by a start it does not recognise.
Check(t) ==
  /\ cmd[t] = "checking"
  /\ \/ ~Alive(service) /\ Becomes(t, "not_running")
        /\ UNCHANGED <<processes, pending>>
     \/ Alive(service) /\ cmd[service] = "foreground" /\ Becomes(t, "error")
        /\ UNCHANGED <<processes, pending>>
     \/ Alive(service) /\ cmd[service] # "foreground" /\ Becomes(t, "awaiting")
        /\ pending' = [pending EXCEPT ![t] = service]
        /\ Terminate(service)
  /\ UNCHANGED files

Gone(t) == ~Alive(pending[t]) /\ ~Running

AwaitEnd(t) ==
  /\ cmd[t] = "awaiting"
  /\ \/ Gone(t) /\ Becomes(t, "stopped")
     \/ Timeouts /\ Becomes(t, "error")
  /\ UNCHANGED <<files, processes, pending>>

Stop(t) ==
  /\ Lock(t, "checking") \/ Check(t) \/ AwaitEnd(t)
  /\ UNCHANGED config

-----------------------------------------------------------------------------
(* Everybody.                                                              *)

Kill(i) ==
  /\ i \in Mortal /\ Alive(i) /\ Die(i)
  /\ UNCHANGED <<files, commands, config>>

KillCommand(c) ==
  /\ c \in Mortal /\ cmd[c] \notin Answers \cup {"foreground"} /\ Becomes(c, "error")
  /\ UNCHANGED <<files, processes, pending, config>>

Next ==
  \/ \E i \in Starts :
       Serve(i) \/ Drain(i) \/ Tick(i) \/ NextTick(i) \/ Kill(i)
  \/ \E s \in Starts : Start(s)
  \/ \E t \in Stops : Stop(t)
  \/ \E c \in Commands : KillCommand(c)

Spec == Init /\ [][Next]_vars

\* Every process gets on with its own steps, in both threads.  A tick need
\* not end, nor a request that is under way.
Fairness ==
  /\ \A i \in Starts : WF_vars(Serve(i)) /\ WF_vars(NextTick(i))
  /\ \A s \in Starts : WF_vars(Start(s))
  /\ \A t \in Stops : WF_vars(Stop(t))

FairSpec == Spec /\ Fairness

-----------------------------------------------------------------------------
(* What it promises.                                                       *)

LiveOwner == IF Alive(host) THEN host ELSE None

\* At most one process reconciles the Runs of a directory, and it has
\* claimed the directory for as long as it may do so: the claim changes hands
\* only through nobody's, when the control thread of the old claimant has
\* ended or died with it (_claim, _finish, release).
Promise == INSTANCE DirectoryPromise
             WITH owner <- LiveOwner, working <- {i \in Starts : Looping(i)}

OneOwner == Promise!Spec

\* Clients find the service: as long as a service answers, service.json names
\* it and host.json still does, whoever starts and stops meanwhile (_write_
\* service_record before the handlers, _update_service_record before release).
RecordNamesService ==
  \A i \in Starts : pc[i] = "serving" => service = i /\ host = i

\* A stop sees one service: while it waits for a process that has the record
\* and that nobody has succeeded as the owner, nobody claims the directory and
\* nobody else writes the record.  So what it concludes from the process, the
\* record and the endpoint is about that process, and "stopped" leaves the
\* directory nobody's (_command_stop waits under host.lock, _finish marks the
\* record before it releases the claim).
StopSeesOneService ==
  [][\A t \in Stops :
       cmd[t] = "awaiting" /\ service = pending[t] /\ LiveOwner \in {service, None}
         => service' = service /\ LiveOwner' \in {service, None}]_vars

\* Every command answers, although ticks and requests need not end.
CommandsAnswer ==
  \A c \in Commands : <>(cmd[c] \in Answers \cup {"foreground"})

\* A process that is told to shut down ends, unless a request that is under
\* way never does: a tick that hangs cannot keep it (join's timeout).
ShutdownEnds ==
  \A i \in Starts :
    [](i \in exit => <>(~Alive(i)) \/ <>[](pc[i] = "draining"))

\* "start/reuse the detached service and wait for ready" (host.py:10): a
\* start does not fail while the directory's service is ready.
StartReuses ==
  [][\A s \in Starts : cmd[s] # "failed" /\ cmd'[s] = "failed" =>
       ~Ready]_vars

\* A stop that has ended the service answers that nothing runs (_command_stop):
\* "stopped" leaves the directory nobody's.  Not when the process it came upon
\* had released its claim and another one has claimed since.
StoppedIsFree ==
  [][\A t \in Stops : cmd[t] # "stopped" /\ cmd'[t] = "stopped" =>
       LiveOwner = None]_vars

=============================================================================
