---------------------- MODULE ServiceOwnershipProofs ----------------------
(***************************************************************************)
(* What ServiceOwnership promises, for any number of starts and stops, any *)
(* configurations and any deaths.                                          *)
(***************************************************************************)
EXTENDS ServiceOwnership, TLAPS

USE NamesAssumption DEF Commands

-----------------------------------------------------------------------------
(* Types.                                                                  *)

LEMMA InitType == Init => TypeOK
BY DEF Init, TypeOK, Steps, CommandSteps, Answers

LEMMA DieType ==
  ASSUME TypeOK, NEW i \in Starts, Die(i), UNCHANGED <<config, files, commands>>
  PROVE  TypeOK'
BY DEF TypeOK, Die, Goto, Steps, files, commands

LEMMA ServeType ==
  ASSUME TypeOK, NEW i \in Starts, Serve(i)
  PROVE  TypeOK'
<1> USE DEF TypeOK, Goto, Steps, files, commands
<1> UNCHANGED config
  BY DEF Serve
<1>1. CASE Claim(i)
  BY <1>1, DieType DEF Claim
<1>2. CASE Publish(i)
  BY <1>2 DEF Publish
<1>3. CASE Bind(i) \/ InstallHandlers(i) \/ Listen(i) \/ Shut(i) \/ Join(i)
  BY <1>3 DEF Bind, InstallHandlers, Listen, Shut, Join
<1>4. CASE StartControlLoop(i) \/ WriteServiceRecord(i)
  BY <1>4 DEF StartControlLoop, WriteServiceRecord
<1>5. CASE Finish(i) \/ Exit(i)
  BY <1>5, DieType DEF Finish, Exit
<1>6. CASE MarkStopped(i) \/ Release(i)
  BY <1>6 DEF MarkStopped, Release
<1> QED
  BY <1>1, <1>2, <1>3, <1>4, <1>5, <1>6 DEF Serve

LEMMA ThreadType ==
  ASSUME TypeOK, NEW i \in Starts, Drain(i) \/ Tick(i) \/ NextTick(i) \/ Kill(i)
  PROVE  TypeOK'
<1>1. CASE Drain(i) \/ Tick(i) \/ NextTick(i)
  BY <1>1 DEF TypeOK, Drain, Tick, NextTick, Goto, Steps, files, commands
<1>2. CASE Kill(i)
  BY <1>2, DieType DEF Kill
<1> QED
  BY <1>1, <1>2

LEMMA TerminateType ==
  ASSUME TypeOK, NEW i \in Starts, Terminate(i)
  PROVE  /\ pc' \in [Starts -> Steps]
         /\ loop' \in [Starts -> {"off", "tick", "idle", "done"}]
         /\ healthy' \subseteq Starts /\ exit' \subseteq Starts
         /\ \A j \in Starts : pc'[j] \in {"absent", "dead"} => loop'[j] = "off"
BY DEF TypeOK, Terminate, Die, Goto, Steps

LEMMA StartType ==
  ASSUME TypeOK, NEW s \in Starts, Start(s)
  PROVE  TypeOK'
<1> USE DEF TypeOK, Becomes, CommandSteps, Answers, files, processes
<1> UNCHANGED config
  BY DEF Start
<1>1. CASE Lock(s, "deciding") \/ Reuse(s) \/ AwaitReady(s)
  BY <1>1 DEF Lock, Reuse, AwaitReady
<1>2. CASE JoinLaunch(s) \/ WriteLaunch(s) \/ Poll(s)
  BY <1>2 DEF JoinLaunch, WriteLaunch, Poll
<1>3. CASE Spawn(s)
  BY <1>3 DEF Spawn, Goto, Steps
<1>4. CASE TerminateOwn(s)
  BY <1>4, TerminateType DEF TerminateOwn
<1>5. CASE Reap(s)
  BY <1>5 DEF Reap, Die, Goto, Steps
<1>6. CASE FindLaunch(s) \/ Unlink(s)
  BY <1>6 DEF FindLaunch, Unlink
<1> QED
  BY <1>1, <1>2, <1>3, <1>4, <1>5, <1>6 DEF Start

LEMMA StopType ==
  ASSUME TypeOK, NEW t \in Stops, Stop(t)
  PROVE  TypeOK'
<1> USE DEF TypeOK, Becomes, CommandSteps, Answers, files, processes
<1> UNCHANGED config
  BY DEF Stop
<1>1. CASE Lock(t, "checking") \/ AwaitEnd(t)
  BY <1>1 DEF Lock, AwaitEnd
<1>2. CASE Check(t)
  <2>1. CASE UNCHANGED <<processes, pending>>
    BY <1>2, <2>1 DEF Check
  <2>2. CASE Alive(service) /\ Terminate(service)
    BY <1>2, <2>2, TerminateType DEF Check, Alive
  <2> QED
    BY <1>2, <2>1, <2>2 DEF Check
<1> QED
  BY <1>1, <1>2 DEF Stop

LEMMA TypeStep == TypeOK /\ [Next]_vars => TypeOK'
<1> SUFFICES ASSUME TypeOK, [Next]_vars PROVE TypeOK'
  OBVIOUS
<1>1. ASSUME NEW c \in Commands, KillCommand(c) PROVE TypeOK'
  BY <1>1 DEF KillCommand, TypeOK, Becomes, CommandSteps, Answers, files, processes
<1>2. CASE UNCHANGED vars
  BY <1>2 DEF vars, TypeOK, files, processes, commands
<1> QED
  BY <1>1, <1>2, ServeType, ThreadType, StartType, StopType DEF Next

\* Every variable keeps its type, and a process that is not there has no
\* control thread.
THEOREM TypeCorrect == Spec => []TypeOK
<1> QED
  BY InitType, TypeStep, PTL DEF Spec

-----------------------------------------------------------------------------
(* The inductive invariant.  Where a process is says what it holds: the    *)
(* claim from its publication to its release, the right to claim while it  *)
(* decides about that, service.json while it serves.                       *)

Claimed == {"claimed", "bound", "looping", "published", "handled", "serving",
            "draining", "joining", "closing", "marking", "releasing"}

MayWork == {"looping", "published", "handled", "serving", "draining", "joining",
            "closing"}

\* Whoever has claimed is the claimant, who has not released yet or is dead.
ClaimHeld == \A i \in Starts : pc[i] \in Claimed => host = i
ClaimSeen == host # None => pc[host] \in Claimed \cup {"dead"}

\* One process at a time decides to claim, and none while a claimant lives.
ClaimTurn ==
  \A i \in Starts : pc[i] = "claiming" =>
    /\ ~Alive(host)
    /\ \A j \in Starts : pc[j] = "claiming" => j = i

\* Control threads belong to processes with a claim.
WorkOwned == \A i \in Starts : Looping(i) => pc[i] \in MayWork

\* A start launches its process once.
Unlaunched == \A s \in Starts : cmd[s] \in {"new", "deciding"} => pc[s] = "absent"

Published ==
  \A i \in Starts : pc[i] \in {"published", "handled", "serving"} => service = i

Owned ==
  TypeOK /\ ClaimHeld /\ ClaimSeen /\ ClaimTurn /\ WorkOwned /\ Unlaunched /\ Published

LEMMA OwnedInit == Init => Owned
<1> SUFFICES ASSUME Init PROVE Owned
  OBVIOUS
<1>1. TypeOK
  BY InitType
<1>2. ClaimHeld /\ ClaimSeen /\ ClaimTurn /\ WorkOwned
  BY DEF Init, ClaimHeld, ClaimSeen, ClaimTurn, WorkOwned, Claimed, Looping
<1>3. Unlaunched /\ Published
  BY DEF Init, Unlaunched, Published
<1> QED
  BY <1>1, <1>2, <1>3 DEF Owned

\* A death keeps all of it.
LEMMA OwnedDies ==
  ASSUME Owned, NEW i \in Starts, pc[i] # "absent", Die(i),
         UNCHANGED <<host, service, cmd>>, TypeOK'
  PROVE  Owned'
<1> USE DEF Owned, TypeOK, Die, Goto
<1>1. ClaimHeld' /\ ClaimSeen'
  BY DEF ClaimHeld, ClaimSeen, Claimed
<1>2. ClaimTurn'
  BY DEF ClaimTurn, Alive
<1>3. WorkOwned' /\ Unlaunched' /\ Published'
  BY DEF WorkOwned, Looping, Unlaunched, Published
<1> QED
  BY <1>1, <1>2, <1>3

\* So does a step to the next place that claims, releases and writes nothing.
LEMMA OwnedMoves ==
  ASSUME Owned, NEW i \in Starts, NEW step \in Claimed, pc[i] \in Claimed,
         Goto(i, step), UNCHANGED <<host, service, loop, cmd>>, TypeOK',
         Looping(i) => step \in MayWork,
         step \in {"published", "handled", "serving"} => service = i
  PROVE  Owned'
<1> USE DEF Owned, TypeOK, Goto
<1>1. ClaimHeld' /\ ClaimSeen'
  BY DEF ClaimHeld, ClaimSeen
<1>2. ClaimTurn'
  BY DEF ClaimTurn, Alive, Claimed
<1>3. WorkOwned' /\ Unlaunched' /\ Published'
  BY DEF WorkOwned, Looping, Unlaunched, Published, Claimed
<1> QED
  BY <1>1, <1>2, <1>3

\* And one that moves no process.
LEMMA OwnedRests ==
  ASSUME Owned, UNCHANGED <<host, service, pc>>, TypeOK',
         \A i \in Starts : Looping(i)' => Looping(i),
         \A s \in Starts : cmd'[s] \in {"new", "deciding"} => cmd[s] \in {"new", "deciding"}
  PROVE  Owned'
<1>1. ClaimHeld' /\ ClaimSeen' /\ ClaimTurn'
  BY DEF Owned, ClaimHeld, ClaimSeen, ClaimTurn, Alive
<1>2. WorkOwned' /\ Unlaunched' /\ Published'
  BY DEF Owned, WorkOwned, Unlaunched, Published
<1> QED
  BY <1>1, <1>2 DEF Owned

LEMMA OwnedServes ==
  ASSUME Owned, NEW i \in Starts, Serve(i), TypeOK'
  PROVE  Owned'
<1> USE DEF files, commands
<1> TypeOK /\ WorkOwned /\ Published
  BY DEF Owned
<1>1. CASE Claim(i)
  <2>1. CASE Die(i)
    BY <1>1, <2>1, OwnedDies DEF Claim
  <2>2. CASE LockFree /\ Claimable(i) /\ Goto(i, "claiming") /\ UNCHANGED <<loop, healthy, exit>>
    <3> USE <2>2 DEF Owned, TypeOK, Goto
    <3> /\ pc[i] = "starting" /\ UNCHANGED <<host, service, cmd>>
      BY <1>1 DEF Claim
    <3>1. ClaimHeld' /\ ClaimSeen'
      BY DEF ClaimHeld, ClaimSeen, Claimed
    <3>2. ClaimTurn'
      BY DEF ClaimTurn, ClaimSeen, Claimed, Alive, Claimable, LockFree
    <3>3. WorkOwned' /\ Unlaunched' /\ Published'
      BY DEF WorkOwned, Looping, MayWork, Unlaunched, Published
    <3> QED
      BY <3>1, <3>2, <3>3
  <2> QED
    BY <1>1, <2>1, <2>2 DEF Claim
<1>2. CASE Publish(i)
  <2> USE DEF Owned, TypeOK, Goto
  <2> /\ pc[i] = "claiming" /\ Goto(i, "claimed") /\ host' = i
      /\ UNCHANGED <<service, loop, cmd>>
    BY <1>2 DEF Publish
  <2>1. \A j \in Starts : pc[j] \notin Claimed
    BY DEF ClaimHeld, ClaimTurn, Alive, Claimed
  <2>2. ClaimHeld' /\ ClaimSeen'
    BY <2>1 DEF ClaimHeld, ClaimSeen, Claimed
  <2>3. ClaimTurn'
    BY DEF ClaimTurn
  <2>4. WorkOwned' /\ Unlaunched' /\ Published'
    BY DEF WorkOwned, Looping, MayWork, Unlaunched, Published
  <2> QED
    BY <2>2, <2>3, <2>4
<1>3. CASE Bind(i)
  <2> pc[i] \in Claimed /\ ~Looping(i)
    BY <1>3 DEF Bind, Claimed, WorkOwned, MayWork
  <2> QED
    BY <1>3, OwnedMoves DEF Bind, Claimed
<1>4. CASE StartControlLoop(i)
  <2> USE DEF Owned, TypeOK, Goto
  <2> /\ pc[i] = "bound" /\ Goto(i, "looping") /\ loop' = [loop EXCEPT ![i] = "tick"]
      /\ UNCHANGED <<host, service, cmd>>
    BY <1>4 DEF StartControlLoop
  <2>1. ClaimHeld' /\ ClaimSeen'
    BY DEF ClaimHeld, ClaimSeen, Claimed
  <2>2. ClaimTurn'
    BY DEF ClaimTurn, Alive
  <2>3. WorkOwned' /\ Unlaunched' /\ Published'
    BY DEF WorkOwned, Looping, MayWork, Unlaunched, Published
  <2> QED
    BY <2>1, <2>2, <2>3
<1>5. CASE WriteServiceRecord(i)
  <2> USE DEF Owned, TypeOK, Goto
  <2> /\ pc[i] = "looping" /\ Goto(i, "published") /\ service' = i
      /\ UNCHANGED <<host, loop, cmd>>
    BY <1>5 DEF WriteServiceRecord
  <2>1. ClaimHeld' /\ ClaimSeen'
    BY DEF ClaimHeld, ClaimSeen, Claimed
  <2>2. ClaimTurn'
    BY DEF ClaimTurn, Alive
  <2>3. WorkOwned' /\ Unlaunched'
    BY DEF WorkOwned, Looping, MayWork, Unlaunched
  <2>4. Published'
    BY DEF Published, ClaimHeld, Claimed
  <2> QED
    BY <2>1, <2>2, <2>3, <2>4
<1>6. CASE InstallHandlers(i) \/ Listen(i)
  BY <1>6, OwnedMoves DEF InstallHandlers, Listen, Claimed, MayWork, Published
<1>7. CASE Shut(i) \/ Join(i)
  BY <1>7, OwnedMoves DEF Shut, Join, Claimed, MayWork
<1>8. CASE Finish(i)
  <2>1. CASE Die(i)
    BY <1>8, <2>1, OwnedDies DEF Finish
  <2>2. CASE ~Looping(i) /\ (Goto(i, "marking") \/ Goto(i, "releasing")) /\ UNCHANGED loop
    BY <1>8, <2>2, OwnedMoves DEF Finish, Claimed
  <2> QED
    BY <1>8, <2>1, <2>2 DEF Finish
<1>9. CASE MarkStopped(i)
  <2> USE DEF Owned, TypeOK, Goto
  <2> /\ pc[i] = "marking" /\ Goto(i, "releasing") /\ service' = i
      /\ UNCHANGED <<host, loop, cmd>>
    BY <1>9 DEF MarkStopped
  <2>1. ClaimHeld' /\ ClaimSeen'
    BY DEF ClaimHeld, ClaimSeen, Claimed
  <2>2. ClaimTurn'
    BY DEF ClaimTurn, Alive
  <2>3. WorkOwned' /\ Unlaunched'
    BY DEF WorkOwned, Looping, MayWork, Unlaunched
  <2>4. Published'
    BY DEF Published, ClaimHeld, Claimed
  <2> QED
    BY <2>1, <2>2, <2>3, <2>4
<1>10. CASE Release(i)
  <2> USE DEF Owned, TypeOK, Goto
  <2> /\ pc[i] = "releasing" /\ Goto(i, "exiting") /\ host = i /\ host' = None
      /\ UNCHANGED <<service, loop, cmd>>
    BY <1>10 DEF Release, ClaimHeld, Claimed
  <2>1. ClaimHeld' /\ ClaimSeen'
    BY DEF ClaimHeld, ClaimSeen, Claimed
  <2>2. ClaimTurn'
    BY DEF ClaimTurn, Alive
  <2>3. WorkOwned' /\ Unlaunched' /\ Published'
    BY DEF WorkOwned, Looping, MayWork, Unlaunched, Published
  <2> QED
    BY <2>1, <2>2, <2>3
<1>11. CASE Exit(i)
  BY <1>11, OwnedDies DEF Exit
<1> QED
  BY <1>1, <1>2, <1>3, <1>4, <1>5, <1>6, <1>7, <1>8, <1>9, <1>10, <1>11 DEF Serve

\* A signal is a death or a request.
LEMMA OwnedTerminates ==
  ASSUME Owned, NEW i \in Starts, Alive(i), Terminate(i), UNCHANGED <<host, service>>,
         TypeOK', \A s \in Starts : cmd'[s] \in {"new", "deciding"} => cmd'[s] = cmd[s]
  PROVE  Owned'
<1> USE DEF Owned, TypeOK
<1>1. CASE UNCHANGED <<pc, loop>>
  BY <1>1, OwnedRests DEF Looping
<1>2. CASE Die(i)
  <2> USE <1>2 DEF Die, Goto
  <2>1. ClaimHeld' /\ ClaimSeen'
    BY DEF ClaimHeld, ClaimSeen, Claimed
  <2>2. ClaimTurn'
    BY DEF ClaimTurn, Alive
  <2>3. WorkOwned' /\ Published'
    BY DEF WorkOwned, Looping, Published
  <2>4. Unlaunched'
    BY DEF Unlaunched, Alive
  <2> QED
    BY <2>1, <2>2, <2>3, <2>4
<1> QED
  BY <1>1, <1>2 DEF Terminate

LEMMA OwnedStarts ==
  ASSUME Owned, NEW s \in Starts, Start(s), TypeOK'
  PROVE  Owned'
<1> USE DEF files, processes, Becomes
<1> TypeOK
  BY DEF Owned
<1>1. CASE Lock(s, "deciding") \/ Reuse(s) \/ AwaitReady(s) \/ JoinLaunch(s)
  <2>1. UNCHANGED <<host, service, pc, loop>>
    BY <1>1 DEF Lock, Reuse, AwaitReady, JoinLaunch
  <2>2. cmd[s] \in {"new", "deciding"} \/ cmd'[s] \notin {"new", "deciding"}
    BY <1>1 DEF Lock, Reuse, AwaitReady, JoinLaunch, TypeOK
  <2>3. \A r \in Starts \ {s} : cmd'[r] = cmd[r]
    BY <1>1 DEF Lock, Reuse, AwaitReady, JoinLaunch, TypeOK
  <2> QED
    BY <2>1, <2>2, <2>3, OwnedRests DEF Looping
<1>2. CASE WriteLaunch(s) \/ Poll(s) \/ FindLaunch(s) \/ Unlink(s)
  <2>1. UNCHANGED <<host, service, pc, loop>>
    BY <1>2 DEF WriteLaunch, Poll, FindLaunch, Unlink
  <2>2. cmd'[s] \notin {"new", "deciding"} /\ \A r \in Starts \ {s} : cmd'[r] = cmd[r]
    BY <1>2 DEF WriteLaunch, Poll, FindLaunch, Unlink, TypeOK
  <2> QED
    BY <2>1, <2>2, OwnedRests DEF Looping
<1>3. CASE Spawn(s)
  <2> USE DEF Owned, TypeOK, Goto
  <2> /\ pc[s] = "absent" /\ Goto(s, "starting") /\ cmd' = [cmd EXCEPT ![s] = "spawned"]
      /\ UNCHANGED <<host, service, loop>>
    BY <1>3 DEF Spawn, Unlaunched
  <2>1. ClaimHeld' /\ ClaimSeen'
    BY DEF ClaimHeld, ClaimSeen, Claimed
  <2>2. ClaimTurn'
    BY DEF ClaimTurn, ClaimSeen, Claimed, Alive
  <2>3. WorkOwned' /\ Unlaunched' /\ Published'
    BY DEF WorkOwned, Looping, MayWork, Unlaunched, Published
  <2> QED
    BY <2>1, <2>2, <2>3
<1>4. CASE TerminateOwn(s)
  <2>1. CASE Alive(s)
    BY <1>4, <2>1, OwnedTerminates DEF TerminateOwn, TypeOK
  <2>2. CASE ~Alive(s)
    BY <1>4, <2>2, OwnedRests DEF TerminateOwn, TypeOK, Looping
  <2> QED
    BY <2>1, <2>2
<1>5. CASE Reap(s)
  <2>1. CASE Alive(s)
    BY <1>5, <2>1, OwnedDies DEF Reap, Alive
  <2>2. CASE ~Alive(s)
    BY <1>5, <2>2, OwnedRests DEF Reap, TypeOK, Looping
  <2> QED
    BY <2>1, <2>2
<1> QED
  BY <1>1, <1>2, <1>3, <1>4, <1>5 DEF Start

LEMMA OwnedStops ==
  ASSUME Owned, NEW t \in Stops, Stop(t), TypeOK'
  PROVE  Owned'
<1> USE DEF files, processes, Becomes
<1> TypeOK
  BY DEF Owned
<1>1. UNCHANGED <<host, service>> /\ \A s \in Starts : cmd'[s] = cmd[s]
  BY DEF Stop, Lock, Check, AwaitEnd, TypeOK
<1>2. CASE UNCHANGED <<pc, loop>>
  BY <1>1, <1>2, OwnedRests DEF Looping
<1>3. CASE Check(t) /\ Alive(service) /\ Terminate(service)
  BY <1>1, <1>3, OwnedTerminates DEF Alive, TypeOK
<1> QED
  BY <1>2, <1>3 DEF Stop, Lock, Check, AwaitEnd

LEMMA OwnedStep == Owned /\ [Next]_vars => Owned'
<1> SUFFICES ASSUME Owned, [Next]_vars PROVE Owned'
  OBVIOUS
<1> USE DEF files, processes, commands
<1>0. TypeOK /\ TypeOK'
  BY TypeStep DEF Owned
<1>1. ASSUME NEW i \in Starts, Drain(i) PROVE Owned'
  BY <1>0, <1>1, OwnedMoves DEF Drain, Claimed, MayWork
<1>2. ASSUME NEW i \in Starts, Tick(i) \/ NextTick(i) PROVE Owned'
  BY <1>0, <1>2, OwnedRests DEF Tick, NextTick, TypeOK, Looping
<1>3. ASSUME NEW i \in Starts, Kill(i) PROVE Owned'
  BY <1>0, <1>3, OwnedDies DEF Kill, Alive
<1>4. ASSUME NEW c \in Commands, KillCommand(c) PROVE Owned'
  BY <1>0, <1>4, OwnedRests DEF KillCommand, Becomes, TypeOK, Looping
<1>5. CASE UNCHANGED vars
  BY <1>0, <1>5, OwnedRests DEF vars, Looping
<1> QED
  BY <1>0, <1>1, <1>2, <1>3, <1>4, <1>5, OwnedServes, OwnedStarts, OwnedStops DEF Next

LEMMA AlwaysOwned == Spec => []Owned
<1> QED
  BY OwnedInit, OwnedStep, PTL DEF Spec

\* As long as a service answers, service.json names it, and host.json does.
THEOREM RecordNamesServiceHolds == Spec => []RecordNamesService
<1>1. Owned => RecordNamesService
  BY DEF Owned, ClaimHeld, Claimed, Published, RecordNamesService
<1> QED
  BY <1>1, AlwaysOwned, PTL

-----------------------------------------------------------------------------
(* The promise.                                                            *)

Working == {i \in Starts : Looping(i)}

LEMMA OwnerWorks ==
  ASSUME Owned
  PROVE  Working \subseteq {LiveOwner} \ {None}
BY DEF Owned, Working, WorkOwned, MayWork, ClaimHeld, Claimed, LiveOwner, Alive

\* Where neither host.json nor a process's life changes, the owner stays.
LEMMA OwnerStays ==
  ASSUME Owned, Owned', UNCHANGED host, Alive(host)' = Alive(host)
  PROVE  LiveOwner' = LiveOwner
BY DEF LiveOwner

\* Of a death the promise sees the owner's only.
LEMMA PromiseDies ==
  ASSUME Owned, Owned', NEW i \in Starts, Alive(i), Die(i), UNCHANGED host
  PROVE  [Promise!Next]_<<LiveOwner, Working>>
<1> USE DEF Owned, TypeOK, Die, Goto
<1>1. CASE host = i
  <2>1. LiveOwner' = None
    BY <1>1 DEF LiveOwner, Alive
  <2>2. LiveOwner = i
    BY <1>1 DEF LiveOwner
  <2>3. Working' = {}
    BY <2>2, OwnerWorks DEF Working, Looping
  <2> QED
    BY <2>1, <2>3 DEF Promise!Next, Promise!Leave, Working
<1>2. CASE host # i
  <2>1. LiveOwner' = LiveOwner
    BY <1>2 DEF LiveOwner, Alive
  <2>2. Working' = Working
    BY <1>2, OwnerWorks DEF Working, Looping, LiveOwner
  <2> QED
    BY <2>1, <2>2
<1> QED
  BY <1>1, <1>2

\* A step that moves no claim and no control thread is none of the promise.
LEMMA PromiseRests ==
  ASSUME Owned, Owned', UNCHANGED <<host, loop>>, Alive(host)' = Alive(host)
  PROVE  [Promise!Next]_<<LiveOwner, Working>>
BY DEF LiveOwner, Working, Looping

LEMMA PromiseServes ==
  ASSUME Owned, Owned', NEW i \in Starts, Serve(i)
  PROVE  [Promise!Next]_<<LiveOwner, Working>>
<1> USE DEF files, commands
<1> TypeOK /\ ClaimHeld /\ ClaimSeen /\ ClaimTurn /\ WorkOwned
  BY DEF Owned
<1>1. CASE Claim(i)
  <2>1. CASE Die(i)
    BY <1>1, <2>1, PromiseDies DEF Claim, Alive
  <2>2. CASE Goto(i, "claiming") /\ UNCHANGED <<loop, healthy, exit>>
    <3>1. host # i
      BY <1>1 DEF Claim, ClaimSeen, Claimed
    <3>2. Alive(host)' = Alive(host) /\ UNCHANGED <<host, loop>>
      BY <1>1, <2>2, <3>1 DEF Claim, Goto, Alive, TypeOK
    <3> QED
      BY <3>2, PromiseRests
  <2> QED
    BY <1>1, <2>1, <2>2 DEF Claim
<1>2. CASE Publish(i)
  <2>1. LiveOwner = None
    BY <1>2 DEF Publish, ClaimTurn, LiveOwner
  <2>2. LiveOwner' = i
    BY <1>2 DEF Publish, LiveOwner, Alive, Goto, TypeOK
  <2>3. Working' = Working
    BY <1>2 DEF Publish, Working, Looping
  <2> QED
    BY <2>1, <2>2, <2>3 DEF Promise!Next, Promise!Take, Working
<1>3. CASE Bind(i) \/ InstallHandlers(i) \/ Listen(i) \/ Shut(i) \/ Join(i)
  <2>1. UNCHANGED <<host, loop>>
    BY <1>3 DEF Bind, InstallHandlers, Listen, Shut, Join
  <2>2. Alive(host)' = Alive(host)
    BY <1>3 DEF Bind, InstallHandlers, Listen, Shut, Join, Goto, Alive, TypeOK
  <2> QED
    BY <2>1, <2>2, PromiseRests
<1>4. CASE StartControlLoop(i)
  <2>1. LiveOwner = i
    BY <1>4 DEF StartControlLoop, ClaimHeld, Claimed, LiveOwner, Alive
  <2>2. LiveOwner' = LiveOwner
    BY <1>4, <2>1 DEF StartControlLoop, LiveOwner, Alive, Goto, TypeOK
  <2>3. Working' = {i}
    BY <1>4, <2>1, OwnerWorks DEF StartControlLoop, Working, Looping, TypeOK
  <2> QED
    BY <2>1, <2>2, <2>3 DEF Promise!Next, Promise!Work, Working
<1>5. CASE WriteServiceRecord(i) \/ MarkStopped(i)
  <2>1. UNCHANGED <<host, loop>>
    BY <1>5 DEF WriteServiceRecord, MarkStopped
  <2>2. Alive(host)' = Alive(host)
    BY <1>5 DEF WriteServiceRecord, MarkStopped, Goto, Alive, TypeOK
  <2> QED
    BY <2>1, <2>2, PromiseRests
<1>6. CASE Finish(i)
  <2>1. CASE Die(i)
    BY <1>6, <2>1, PromiseDies DEF Finish, Alive
  <2>2. CASE (Goto(i, "marking") \/ Goto(i, "releasing")) /\ UNCHANGED loop
    <3>1. Alive(host)' = Alive(host) /\ UNCHANGED <<host, loop>>
      BY <1>6, <2>2 DEF Finish, Goto, Alive, TypeOK
    <3> QED
      BY <3>1, PromiseRests
  <2> QED
    BY <1>6, <2>1, <2>2 DEF Finish
<1>7. CASE Release(i)
  <2>1. host = i /\ host' = None
    BY <1>7 DEF Release, ClaimHeld, Claimed
  <2>2. LiveOwner = i /\ LiveOwner' = None
    BY <1>7, <2>1 DEF Release, LiveOwner, Alive
  <2>3. Working = {} /\ Working' = Working
    BY <1>7, <2>2, OwnerWorks DEF Release, Working, Looping, WorkOwned, MayWork
  <2> QED
    BY <2>2, <2>3 DEF Promise!Next, Promise!Leave, Working
<1>8. CASE Exit(i)
  BY <1>8, PromiseDies DEF Exit, Alive
<1> QED
  BY <1>1, <1>2, <1>3, <1>4, <1>5, <1>6, <1>7, <1>8 DEF Serve

LEMMA PromiseTerminates ==
  ASSUME Owned, Owned', NEW i \in Starts, Alive(i), Terminate(i), UNCHANGED host
  PROVE  [Promise!Next]_<<LiveOwner, Working>>
<1>1. CASE UNCHANGED <<pc, loop>>
  BY <1>1, PromiseRests DEF Alive
<1>2. CASE Die(i)
  BY <1>2, PromiseDies
<1> QED
  BY <1>1, <1>2 DEF Terminate

LEMMA PromiseCommands ==
  ASSUME Owned, Owned', \/ \E s \in Starts : Start(s)
                        \/ \E t \in Stops : Stop(t)
  PROVE  [Promise!Next]_<<LiveOwner, Working>>
<1> USE DEF files, processes
<1> TypeOK /\ ClaimSeen /\ Unlaunched
  BY DEF Owned
<1>1. UNCHANGED host
  BY DEF Start, Stop, Lock, Reuse, AwaitReady, JoinLaunch, Spawn, WriteLaunch, Poll,
         TerminateOwn, Reap, FindLaunch, Unlink, Check, AwaitEnd
<1>2. CASE UNCHANGED <<pc, loop>>
  BY <1>1, <1>2, PromiseRests DEF Alive
<1>3. ASSUME NEW s \in Starts, Spawn(s) PROVE [Promise!Next]_<<LiveOwner, Working>>
  <2>1. host # s
    BY <1>3 DEF Spawn, Unlaunched, ClaimSeen, Claimed
  <2>2. Alive(host)' = Alive(host) /\ UNCHANGED loop
    BY <1>1, <1>3, <2>1 DEF Spawn, Goto, Alive, TypeOK
  <2> QED
    BY <1>1, <2>2, PromiseRests
<1>4. ASSUME NEW s \in Starts, TerminateOwn(s) \/ Reap(s)
      PROVE  [Promise!Next]_<<LiveOwner, Working>>
  <2>1. CASE Alive(s) /\ (Terminate(s) \/ Die(s))
    BY <1>1, <2>1, PromiseTerminates, PromiseDies
  <2> QED
    BY <1>2, <1>4, <2>1 DEF TerminateOwn, Reap
<1>5. ASSUME NEW t \in Stops, Check(t) PROVE [Promise!Next]_<<LiveOwner, Working>>
  <2>1. CASE Alive(service) /\ Terminate(service)
    BY <1>1, <2>1, PromiseTerminates DEF Alive, TypeOK
  <2> QED
    BY <1>2, <1>5, <2>1 DEF Check
<1>6. ASSUME NEW s \in Starts, Start(s) PROVE [Promise!Next]_<<LiveOwner, Working>>
  BY <1>2, <1>3, <1>4, <1>6 DEF Start, Lock, Reuse, AwaitReady, JoinLaunch,
     WriteLaunch, Poll, FindLaunch, Unlink
<1>7. ASSUME NEW t \in Stops, Stop(t) PROVE [Promise!Next]_<<LiveOwner, Working>>
  BY <1>2, <1>5, <1>7 DEF Stop, Lock, AwaitEnd
<1> QED
  BY <1>6, <1>7

LEMMA PromiseStep ==
  ASSUME Owned, Owned', [Next]_vars
  PROVE  [Promise!Next]_<<LiveOwner, Working>>
<1> USE DEF files, processes, commands
<1> TypeOK
  BY DEF Owned
<1>1. ASSUME NEW i \in Starts, Drain(i) PROVE [Promise!Next]_<<LiveOwner, Working>>
  <2>1. Alive(host)' = Alive(host) /\ UNCHANGED <<host, loop>>
    BY <1>1 DEF Drain, Goto, Alive, TypeOK
  <2> QED
    BY <2>1, PromiseRests
<1>2. ASSUME NEW i \in Starts, Tick(i) \/ NextTick(i)
      PROVE  [Promise!Next]_<<LiveOwner, Working>>
  <2>1. LiveOwner' = LiveOwner
    BY <1>2 DEF Tick, NextTick, LiveOwner, Alive
  <2>2. Working' = Working \/ Working' = Working \ {i}
    BY <1>2 DEF Tick, NextTick, Working, Looping, TypeOK
  <2>3. Working' = Working \/ Working' = {}
    BY <2>2, OwnerWorks
  <2> QED
    BY <2>1, <2>3 DEF Promise!Next, Promise!Rest, Working
<1>3. ASSUME NEW i \in Starts, Kill(i) PROVE [Promise!Next]_<<LiveOwner, Working>>
  BY <1>3, PromiseDies DEF Kill
<1>4. ASSUME NEW c \in Commands, KillCommand(c)
      PROVE  [Promise!Next]_<<LiveOwner, Working>>
  BY <1>4, PromiseRests DEF KillCommand, Alive
<1>5. CASE UNCHANGED vars
  BY <1>5, PromiseRests DEF vars, Alive
<1> QED
  BY <1>1, <1>2, <1>3, <1>4, <1>5, PromiseServes, PromiseCommands DEF Next

\* At most one process works on a directory, the live process that has claimed
\* it, and the claim changes hands only through nobody's.
THEOREM OneOwnerHolds == Spec => OneOwner
<1>1. Init => Promise!Init
  BY DEF Init, Promise!Init, LiveOwner, Alive, Looping
<1>2. Owned /\ Owned' /\ [Next]_vars => [Promise!Next]_<<LiveOwner, Working>>
  BY PromiseStep
<1> QED
  BY <1>1, <1>2, AlwaysOwned, PTL DEF Spec, OneOwner, Promise!Spec, Working

-----------------------------------------------------------------------------
(* Stopping.                                                               *)

\* Nobody decides about a claim while a stop holds the lock.
StopLocks ==
  \A i \in Starts, t \in Stops :
    pc[i] = "claiming" => cmd[t] \notin {"checking", "awaiting"}

\* A claim is only decided about where one was, or with the lock.
LEMMA ClaimsLock ==
  ASSUME TypeOK, [Next]_vars, NEW i \in Starts, pc[i] # "claiming", pc'[i] = "claiming"
  PROVE  LockFree /\ UNCHANGED cmd
<1> USE DEF TypeOK, files, processes, commands, Goto, Die
<1>1. ASSUME NEW j \in Starts, Serve(j) PROVE LockFree /\ UNCHANGED cmd
  BY <1>1 DEF Serve, Claim, Publish, Bind, StartControlLoop, WriteServiceRecord,
     InstallHandlers, Listen, Shut, Join, Finish, MarkStopped, Release, Exit
<1>2. ASSUME NEW j \in Starts, Drain(j) \/ Tick(j) \/ NextTick(j) \/ Kill(j) PROVE FALSE
  BY <1>2 DEF Drain, Tick, NextTick, Kill
<1>3. ASSUME NEW s \in Starts, Start(s) PROVE FALSE
  BY <1>3 DEF Start, Lock, Reuse, AwaitReady, JoinLaunch, Spawn, WriteLaunch, Poll,
     TerminateOwn, Terminate, Reap, FindLaunch, Unlink
<1>4. ASSUME NEW t \in Stops, Stop(t) PROVE FALSE
  BY <1>4 DEF Stop, Lock, Check, Terminate, AwaitEnd
<1>5. ASSUME NEW c \in Commands, KillCommand(c) PROVE FALSE
  BY <1>5 DEF KillCommand
<1> QED
  BY <1>1, <1>2, <1>3, <1>4, <1>5 DEF Next, vars

\* A stop takes the lock before it looks, and looks before it waits.
LEMMA StopsLock ==
  ASSUME TypeOK, [Next]_vars, NEW t \in Stops, cmd'[t] \in {"checking", "awaiting"}
  PROVE  cmd[t] \in {"checking", "awaiting"} \/ (LockFree /\ UNCHANGED pc)
<1> USE DEF TypeOK, files, processes, commands, Becomes
<1>1. ASSUME NEW i \in Starts, Serve(i) \/ Drain(i) \/ Tick(i) \/ NextTick(i) \/ Kill(i)
      PROVE  UNCHANGED cmd
  BY <1>1 DEF Serve, Drain, Tick, NextTick, Kill, Claim, Publish, Bind, StartControlLoop,
     WriteServiceRecord, InstallHandlers, Listen, Shut, Join, Finish, MarkStopped, Release,
     Exit
<1>2. ASSUME NEW s \in Starts, Start(s) PROVE cmd'[t] = cmd[t]
  BY <1>2 DEF Start, Lock, Reuse, AwaitReady, JoinLaunch, Spawn, WriteLaunch, Poll,
     TerminateOwn, Reap, FindLaunch, Unlink
<1>3. ASSUME NEW u \in Stops, Stop(u)
      PROVE  cmd[t] \in {"checking", "awaiting"} \/ (LockFree /\ UNCHANGED pc)
  BY <1>3 DEF Stop, Lock, Check, AwaitEnd
<1>4. ASSUME NEW c \in Commands, KillCommand(c) PROVE cmd'[t] \in {cmd[t], "error"}
  BY <1>4 DEF KillCommand
<1> QED
  BY <1>1, <1>2, <1>3, <1>4 DEF Next, vars

LEMMA StopLocksStep ==
  ASSUME TypeOK, StopLocks, [Next]_vars
  PROVE  StopLocks'
<1> SUFFICES ASSUME NEW i \in Starts, NEW t \in Stops,
                    pc'[i] = "claiming", cmd'[t] \in {"checking", "awaiting"}
             PROVE  FALSE
  BY DEF StopLocks
<1>1. CASE pc[i] = "claiming"
  BY <1>1, StopsLock DEF StopLocks, LockFree
<1>2. CASE pc[i] # "claiming"
  BY <1>2, ClaimsLock DEF LockFree
<1> QED
  BY <1>1, <1>2

\* A process that has claimed and not released is the live owner.
LEMMA ClaimedOwns ==
  ASSUME Owned, NEW i \in Starts, pc[i] \in Claimed
  PROVE  LiveOwner = i
BY DEF Owned, ClaimHeld, LiveOwner, Alive, Claimed

\* host.json names a process that claims, and nobody who was named before
\* comes to life.
LEMMA OwnerStep ==
  ASSUME Owned, [Next]_vars, \A i \in Starts : pc[i] # "claiming"
  PROVE  LiveOwner' \in {LiveOwner, None}
<1> USE DEF TypeOK, files, processes, commands, Goto, Die
<1> TypeOK /\ ClaimSeen
  BY DEF Owned
<1>1. host' \in {host, None} /\ (host # None => (Alive(host)' => Alive(host)))
  <2>1. ASSUME NEW i \in Starts, Serve(i)
        PROVE  host' \in {host, None} /\ \A j \in Starts : pc[j] = "dead" => pc'[j] = "dead"
    BY <2>1 DEF Serve, Claim, Publish, Bind, StartControlLoop, WriteServiceRecord,
       InstallHandlers, Listen, Shut, Join, Finish, MarkStopped, Release, Exit
  <2>2. ASSUME NEW i \in Starts, Drain(i) \/ Tick(i) \/ NextTick(i) \/ Kill(i)
        PROVE  host' = host /\ \A j \in Starts : pc[j] = "dead" => pc'[j] = "dead"
    BY <2>2 DEF Drain, Tick, NextTick, Kill
  <2>3. ASSUME NEW s \in Starts, Start(s)
        PROVE  host' = host /\ \A j \in Starts : pc[j] = "dead" => pc'[j] = "dead"
    BY <2>3 DEF Owned, Unlaunched, Start, Lock, Reuse, AwaitReady, JoinLaunch, Spawn,
       WriteLaunch, Poll, TerminateOwn, Terminate, Reap, FindLaunch, Unlink
  <2>4. ASSUME NEW t \in Stops, Stop(t)
        PROVE  host' = host /\ \A j \in Starts : pc[j] = "dead" => pc'[j] = "dead"
    BY <2>4 DEF Stop, Lock, Check, Terminate, AwaitEnd
  <2>5. ASSUME NEW c \in Commands, KillCommand(c) PROVE UNCHANGED <<host, pc>>
    BY <2>5 DEF KillCommand
  <2>6. host' \in {host, None} /\ \A j \in Starts : pc[j] = "dead" => pc'[j] = "dead"
    BY <2>1, <2>2, <2>3, <2>4, <2>5 DEF Next, vars
  <2> QED
    BY <2>6 DEF ClaimSeen, Claimed, Alive
<1> QED
  BY <1>1 DEF LiveOwner, Alive

\* service.json is written by a process with a claim, and names it.
LEMMA RecordStep ==
  ASSUME Owned, [Next]_vars
  PROVE  service' = service \/ (LiveOwner # None /\ service' = LiveOwner)
<1> USE DEF files, processes, commands
<1>1. ASSUME NEW i \in Starts, Serve(i)
      PROVE  service' = service \/ (service' = i /\ pc[i] \in Claimed)
  BY <1>1 DEF Serve, Claim, Publish, Bind, StartControlLoop, WriteServiceRecord,
     InstallHandlers, Listen, Shut, Join, Finish, MarkStopped, Release, Exit, Claimed
<1>2. ASSUME NEW i \in Starts, Drain(i) \/ Tick(i) \/ NextTick(i) \/ Kill(i)
      PROVE  service' = service
  BY <1>2 DEF Drain, Tick, NextTick, Kill
<1>3. ASSUME NEW s \in Starts, Start(s) PROVE service' = service
  BY <1>3 DEF Start, Lock, Reuse, AwaitReady, JoinLaunch, Spawn, WriteLaunch, Poll,
     TerminateOwn, Reap, FindLaunch, Unlink
<1>4. ASSUME NEW t \in Stops, Stop(t) PROVE service' = service
  BY <1>4 DEF Stop, Lock, Check, AwaitEnd
<1>5. ASSUME NEW c \in Commands, KillCommand(c) PROVE service' = service
  BY <1>5 DEF KillCommand
<1> QED
  BY <1>1, <1>2, <1>3, <1>4, <1>5, ClaimedOwns DEF Next, vars

LEMMA StopSeesStep ==
  ASSUME Owned, StopLocks, [Next]_vars, NEW t \in Stops, cmd[t] = "awaiting",
         service = pending[t], LiveOwner \in {service, None}
  PROVE  service' = service /\ LiveOwner' \in {service, None}
<1>1. LiveOwner' \in {service, None}
  BY OwnerStep DEF StopLocks
<1>2. service' = service
  BY RecordStep
<1> QED
  BY <1>1, <1>2

\* While a stop waits for a process that has the record and no successor,
\* nobody claims the directory and nobody else writes the record.
THEOREM StopSeesOneServiceHolds == Spec => StopSeesOneService
<1>1. Init => StopLocks
  BY DEF Init, StopLocks
<1>2. Owned /\ StopLocks /\ [Next]_vars => StopLocks'
  BY StopLocksStep DEF Owned
<1>3. Owned /\ StopLocks /\ [Next]_vars
        => [\A t \in Stops :
              cmd[t] = "awaiting" /\ service = pending[t] /\ LiveOwner \in {service, None}
                => service' = service /\ LiveOwner' \in {service, None}]_vars
  BY StopSeesStep
<1> QED
  BY <1>1, <1>2, <1>3, AlwaysOwned, PTL DEF Spec, StopSeesOneService

=============================================================================
