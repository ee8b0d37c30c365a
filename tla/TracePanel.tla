----------------------------- MODULE TracePanel -----------------------------
(***************************************************************************)
(* The panel that shows a Run in a Pi terminal, as a client of the service *)
(* (backends/pi_trace.mjs, and the trace routes it reads).                 *)
(*                                                                         *)
(* Expanded, the panel reads a snapshot of the selected Run and follows    *)
(* the Run's events from the snapshot's cursor over a stream; an event     *)
(* makes it read the snapshot again a little later.  Each request, timer   *)
(* and stream is a continuation of its own in one event loop, which runs   *)
(* between two awaits without interruption: that is a step here.  What a   *)
(* request was made for may be over when its answer comes.                 *)
(*                                                                         *)
(* A snapshot is the number of events it reflects: the service reads it in *)
(* one transaction with the cursor.  Credentials and Runs do not go away.  *)
(***************************************************************************)
EXTENDS Naturals, SequencesExt

CONSTANTS
  Runs,
  None,       \* no Run, no answer, no request
  MaxEvents,  \* of a Run
  MaxInputs,  \* of the user
  MaxFaults   \* of the connection

ASSUME PanelAssumption ==
  /\ MaxEvents \in Nat \ {0} /\ MaxInputs \in Nat /\ MaxFaults \in Nat
  /\ None \notin Runs \cup (0..MaxEvents)
  /\ None \notin [run : Runs, seq : 0..MaxEvents]

VARIABLES
  log,         \* Run -> events committed for it
  created,     \* the Runs there are, the newest first
  expanded,    \* or a line in a corner
  selected,    \* the Run to show
  session,     \* the last Run this session created
  manual,      \* the last one the user chose
  listed,      \* the Runs the last list contained
  listing,     \* the request for a list that counts, with its answer
  shown,       \* the snapshot on the screen
  cursor,      \* the last event known from a snapshot's cursor or the stream
  opens,       \* snapshot requests that start to follow a Run
  backoff,     \* whether such a request failed and is to be made again
  refresh,     \* the snapshot request an event made necessary
  timer,       \* whether one is due
  queued,      \* whether another one is due after it
  watch,       \* the stream of the selected Run's events
  connection,  \* what the panel says about it
  missed,      \* whether the last refresh failed or was older than shown
  inputs, faults

service == <<log, created>>
choices == <<selected, session, manual, listed, listing>>
view == <<shown, cursor, missed>>
requests == <<opens, backoff, refresh>>
bounds == <<inputs, faults>>
vars == <<service, expanded, choices, view, requests, timer, queued, watch,
          connection, bounds>>

Init ==
  /\ log = [r \in Runs |-> 0] /\ created = <<>>
  /\ expanded = FALSE
  /\ selected = None /\ session = None /\ manual = None
  /\ listed = <<>> /\ listing = [runs |-> None]
  /\ shown = None /\ cursor = None /\ missed = FALSE
  /\ opens = {} /\ backoff = FALSE /\ refresh = None
  /\ timer = FALSE /\ queued = FALSE
  /\ watch = "none" /\ connection = "idle"
  /\ inputs = 0 /\ faults = 0

Request(r) == [run |-> r, current |-> TRUE, seq |-> None]
Outdated(q) == [q EXCEPT !.current = FALSE]
OutdatedRefresh == IF refresh = None THEN None ELSE Outdated(refresh)

\* Deviation, an answer is taken whatever became of its request.
CurrentIfExpanded(q) == expanded

\* Whether the answer to request q still matters.
Current(q) == expanded /\ q.current /\ q.run = selected

\* Deviation, the stream is left open.
KeepStream ==
  /\ opens' = {Outdated(q) : q \in opens} /\ backoff' = FALSE
  /\ refresh' = OutdatedRefresh /\ UNCHANGED watch

\* Every request under way is void, and the stream is closed.
Abandon ==
  /\ opens' = {Outdated(q) : q \in opens} /\ backoff' = FALSE
  /\ refresh' = OutdatedRefresh /\ watch' = "none"

\* openRun: a fresh snapshot of r owns the connection.
OpenRun(r) ==
  /\ opens' = {Outdated(q) : q \in opens} \cup {Request(r)} /\ backoff' = FALSE
  /\ refresh' = OutdatedRefresh /\ watch' = "none"
  /\ connection' = "connecting"

\* applyRunSelection.
Select(r) ==
  /\ selected' = r
  /\ shown' = None /\ cursor' = None /\ missed' = FALSE /\ timer' = FALSE
  /\ IF expanded THEN OpenRun(r) ELSE Abandon /\ UNCHANGED connection

Same == UNCHANGED <<selected, view, requests, timer, watch, connection>>

ListRuns == listing' = [runs |-> None]

-----------------------------------------------------------------------------
(* The service.                                                            *)

Create(r) ==
  /\ r \notin ToSet(created)
  /\ created' = <<r>> \o created /\ log' = [log EXCEPT ![r] = 1]
  /\ UNCHANGED <<expanded, choices, view, requests, timer, queued, watch,
                 connection, bounds>>

CommitEvent(r) ==
  /\ log[r] \in 1..(MaxEvents - 1)
  /\ log' = [log EXCEPT ![r] = @ + 1]
  /\ UNCHANGED <<created, expanded, choices, view, requests, timer, queued, watch,
                 connection, bounds>>

\* It answers a request with what is committed then.
Snapshot(q) == [q EXCEPT !.seq = log[q.run]]

AnswerOpen(q) ==
  /\ q \in opens /\ q.seq = None
  /\ opens' = (opens \ {q}) \cup {Snapshot(q)}
  /\ UNCHANGED <<service, expanded, choices, view, backoff, refresh, timer,
                 queued, watch, connection, bounds>>

AnswerRefresh ==
  /\ refresh # None /\ refresh.seq = None
  /\ refresh' = Snapshot(refresh)
  /\ UNCHANGED <<service, expanded, choices, view, opens, backoff, timer,
                 queued, watch, connection, bounds>>

AnswerList ==
  /\ listing # None /\ listing.runs = None
  /\ listing' = [runs |-> created]
  /\ UNCHANGED <<service, expanded, selected, session, manual, listed, view,
                 requests, timer, queued, watch, connection, bounds>>

-----------------------------------------------------------------------------
(* The user.                                                               *)

Input == inputs < MaxInputs /\ inputs' = inputs + 1 /\ UNCHANGED <<service, faults>>

Expand ==
  /\ Input
  /\ ~expanded /\ expanded' = TRUE
  /\ IF selected # None
       THEN OpenRun(selected) /\ UNCHANGED listing
       ELSE ListRuns /\ UNCHANGED <<requests, watch, connection>>
  /\ UNCHANGED <<selected, session, manual, listed, view, timer, queued>>

Collapse ==
  /\ Input
  /\ expanded /\ expanded' = FALSE
  /\ Abandon /\ timer' = FALSE
  /\ UNCHANGED <<choices, view, queued, connection>>

OpenPicker ==
  /\ Input
  /\ expanded /\ ListRuns
  /\ UNCHANGED <<expanded, selected, session, manual, listed, view, requests, timer,
                 queued, watch, connection>>

Pick(r) ==
  /\ Input
  /\ expanded /\ r \in ToSet(listed)
  /\ manual' = r
  /\ IF r # selected THEN Select(r) ELSE Same
  /\ UNCHANGED <<expanded, session, listed, listing, queued>>

\* The session learns that it has created r; others create Runs too.
NoteSessionRun(r) ==
  /\ r \in ToSet(created)
  /\ session # None => \E i, j \in DOMAIN created :
                         i < j /\ created[i] = r /\ created[j] = session
  /\ session' = r
  /\ IF manual = None /\ selected # r THEN Select(r) ELSE Same
  /\ ListRuns
  /\ UNCHANGED <<service, expanded, manual, listed, queued, bounds>>

-----------------------------------------------------------------------------
(* Answers.                                                                *)

\* Deviation, polling prefers the session's Run to the user's choice.
PreferredSession(runs) ==
  IF session \in ToSet(runs) /\ session # selected THEN session
  ELSE IF selected = None /\ runs # <<>> THEN Head(runs) ELSE None

\* The Run a list selects: at first the session's or the newest one, then the
\* session's one unless the user has chosen.
Preferred(runs) ==
  LET own == IF session \in ToSet(runs) THEN session ELSE None
      first == IF own # None THEN own ELSE IF manual \in ToSet(runs) THEN manual
               ELSE IF runs # <<>> THEN Head(runs) ELSE None
  IN IF selected = None THEN first
     ELSE IF manual = None /\ own # selected THEN own ELSE None

ListArrives ==
  /\ listing # None /\ listing.runs # None
  /\ listing' = None /\ listed' = listing.runs
  /\ LET r == Preferred(listing.runs) IN IF r # None THEN Select(r) ELSE Same
  /\ UNCHANGED <<service, expanded, session, manual, queued, bounds>>

\* The first snapshot of a Run starts its stream.
OpenArrives(q) ==
  /\ q \in opens /\ q.seq # None
  /\ opens' = opens \ {q}
  /\ IF Current(q)
       THEN /\ shown' = [run |-> q.run, seq |-> q.seq] /\ cursor' = q.seq
            /\ missed' = FALSE /\ watch' = "connect" /\ connection' = "connected"
       ELSE UNCHANGED <<view, watch, connection>>
  /\ UNCHANGED <<service, expanded, choices, backoff, refresh, timer, queued, bounds>>

\* Deviation, a refresh that became due meanwhile is forgotten.
ForgetQueued == refresh' = None /\ queued' = FALSE /\ UNCHANGED timer

\* One refresh is under way at a time; one more follows if it became due.
RefreshOver == refresh' = None /\ queued' = FALSE /\ timer' = (timer \/ queued)

RefreshArrives ==
  /\ refresh # None /\ refresh.seq # None
  /\ RefreshOver
  /\ IF Current(refresh)
       THEN /\ shown' = [run |-> refresh.run, seq |-> refresh.seq]
            /\ missed' = (refresh.seq < shown.seq) /\ connection' = "connected"
       ELSE UNCHANGED <<shown, missed, connection>>
  /\ UNCHANGED <<service, expanded, choices, cursor, opens, backoff, watch, bounds>>

-----------------------------------------------------------------------------
(* Timers and the stream.                                                  *)

RetryOpen ==
  /\ backoff /\ backoff' = FALSE
  /\ opens' = opens \cup {Request(selected)} /\ connection' = "connecting"
  /\ UNCHANGED <<service, expanded, choices, view, refresh, timer, queued, watch, bounds>>

RefreshDue ==
  /\ timer /\ timer' = FALSE
  /\ IF ~expanded \/ shown = None THEN UNCHANGED <<refresh, queued>>
     ELSE IF refresh # None THEN queued' = TRUE /\ UNCHANGED refresh
     ELSE refresh' = Request(selected) /\ UNCHANGED queued
  /\ UNCHANGED <<service, expanded, choices, view, opens, backoff, watch,
                 connection, bounds>>

WatchMoves(from, to) ==
  /\ watch = from /\ watch' = to
  /\ UNCHANGED <<service, expanded, choices, shown, missed, requests, queued, bounds>>

WatchOpens == WatchMoves("connect", "open") /\ UNCHANGED <<cursor, timer, connection>>

\* The stream delivers the events after the cursor one by one, and a sign of
\* life that says there were none.
Frame ==
  /\ WatchMoves("open", "open")
  /\ cursor < log[selected] /\ cursor' = cursor + 1
  /\ timer' = TRUE /\ connection' = "connected"

Heartbeat ==
  /\ WatchMoves("open", "open")
  /\ connection # "connected" /\ connection' = "connected"
  /\ UNCHANGED <<cursor, timer>>

\* An expanded panel that hears nothing for long says so.
CheckStale ==
  /\ expanded /\ watch # "open"
  /\ connection = "connected" /\ connection' = "stale"
  /\ UNCHANGED <<service, expanded, choices, view, requests, timer, queued, watch,
                 bounds>>

\* A stream that is silent for longer is given up.
IdleTimeout ==
  /\ WatchMoves("silent", "delay")
  /\ connection' = "reconnecting" /\ UNCHANGED <<cursor, timer>>

RetryWatch == WatchMoves("delay", "connect") /\ UNCHANGED <<cursor, timer, connection>>

-----------------------------------------------------------------------------
(* Faults of the connection.                                               *)

Fault == faults < MaxFaults /\ faults' = faults + 1 /\ UNCHANGED <<service, inputs>>

\* Deviation, a request that failed is not made again.
GiveUp == connection' = "reconnecting" /\ UNCHANGED backoff

Reopen == connection' = "reconnecting" /\ backoff' = TRUE

OpenFails(q) ==
  /\ Fault
  /\ q \in opens /\ Current(q) /\ opens' = opens \ {q}
  /\ Reopen
  /\ UNCHANGED <<expanded, choices, view, refresh, timer, queued, watch>>

RefreshFails ==
  /\ Fault
  /\ refresh # None /\ RefreshOver
  /\ IF Current(refresh) THEN missed' = TRUE /\ connection' = "disconnected"
                         ELSE UNCHANGED <<missed, connection>>
  /\ UNCHANGED <<expanded, choices, shown, cursor, opens, backoff, watch>>

ListFails ==
  /\ Fault
  /\ listing # None /\ listing' = None /\ connection' = "disconnected"
  /\ UNCHANGED <<expanded, selected, session, manual, listed, view, requests,
                 timer, queued, watch>>

\* The stream ends, or cannot be opened; or it is dead and nobody says so.
WatchBreaks ==
  /\ Fault
  /\ \/ /\ watch \in {"connect", "open"} /\ watch' = "delay"
        /\ connection' = "reconnecting"
     \/ watch = "open" /\ watch' = "silent" /\ UNCHANGED connection
  /\ UNCHANGED <<expanded, choices, view, requests, timer, queued>>

-----------------------------------------------------------------------------

Progress ==
  \/ AnswerList \/ ListArrives
  \/ AnswerRefresh \/ RefreshArrives \/ RefreshDue
  \/ \E q \in opens : AnswerOpen(q) \/ OpenArrives(q)
  \/ RetryOpen \/ RetryWatch \/ WatchOpens \/ Frame \/ Heartbeat
  \/ CheckStale \/ IdleTimeout

User == Expand \/ Collapse \/ OpenPicker \/ \E r \in Runs : Pick(r) \/ NoteSessionRun(r)

Faults ==
  \/ \E q \in opens : OpenFails(q)
  \/ RefreshFails \/ ListFails \/ WatchBreaks

Next == Progress \/ User \/ Faults \/ \E r \in Runs : Create(r) \/ CommitEvent(r)

\* Requests are answered, timers run and the stream is read.
Spec == Init /\ [][Next]_vars /\ WF_vars(Progress)

-----------------------------------------------------------------------------
(* Properties.                                                             *)

Seqs == 0..MaxEvents \cup {None}
Requests == [run : Runs, current : BOOLEAN, seq : Seqs]

ServiceType == log \in [Runs -> 0..MaxEvents] /\ created \in Seq(Runs)

ChoiceType ==
  /\ expanded \in BOOLEAN
  /\ selected \in Runs \cup {None} /\ session \in Runs \cup {None}
  /\ manual \in Runs \cup {None}
  /\ listed \in Seq(Runs) /\ listing \in [runs : Seq(Runs) \cup {None}] \cup {None}

ViewType ==
  /\ shown \in [run : Runs, seq : 0..MaxEvents] \cup {None}
  /\ cursor \in Seqs /\ missed \in BOOLEAN
  /\ timer \in BOOLEAN /\ queued \in BOOLEAN
  /\ connection \in {"idle", "connecting", "connected", "reconnecting", "stale",
                     "disconnected"}

RequestType ==
  /\ opens \subseteq Requests /\ refresh \in Requests \cup {None}
  /\ backoff \in BOOLEAN
  /\ watch \in {"none", "connect", "open", "silent", "delay"}

Asking == {q \in opens : q.current}

\* One of a snapshot request, a retry of it and a stream is in charge of the
\* connection of an expanded panel, and none of a collapsed one.
InCharge ==
  IF expanded /\ selected # None
  THEN \/ ~backoff /\ watch = "none" /\ \E q \in opens : Asking = {q} /\ q.run = selected
       \/ backoff /\ watch = "none" /\ Asking = {}
       \/ ~backoff /\ watch # "none" /\ Asking = {} /\ cursor # None
  ELSE ~backoff /\ watch = "none" /\ Asking = {}

\* The state is as the panel keeps it: neither two loops nor none follow a Run.
TypeOK == ServiceType /\ ChoiceType /\ ViewType /\ RequestType /\ InCharge

\* What is on the screen is the selected Run, and that is the user's choice
\* from the first choice on: neither an answer that comes late nor polling
\* replaces it (current, loadRuns, noteSessionRun).
ShowsChosenRun ==
  /\ shown # None => shown.run = selected
  /\ manual # None => selected = manual

\* An expanded panel comes to show all that has happened to its Run, whatever
\* was pending when it happened, unless a refresh failed or an older snapshot
\* overtook a newer one: neither is asked for again (scheduleRefresh,
\* refreshSnapshot, watchLoop).
UpToDate == shown # None /\ shown.seq = log[selected]

CatchesUp ==
  (expanded /\ selected # None /\ ~UpToDate) ~> (UpToDate \/ ~expanded \/ missed)

\* A panel that has lost its connection gets it back once the service answers
\* (openRun, watchLoop).
Reconnects ==
  (expanded /\ selected # None /\ connection # "connected")
    ~> (connection = "connected" \/ ~expanded)

\* A panel that is behind its Run says so for good or catches up: "interruption,
\* expiry and authentication failure all have an explicit state"
\* (docs/pi-extension.md).
BehindIsSaid ==
  (expanded /\ selected # None /\ ~UpToDate)
    ~> (UpToDate \/ ~expanded \/ connection # "connected")

=============================================================================
