-------------------------- MODULE TracePanelProofs --------------------------
(***************************************************************************)
(* What TracePanel keeps, for any Runs, events, users and faults.          *)
(***************************************************************************)
EXTENDS TracePanel, TLAPS

\* A refresh that still matters finds a snapshot to compare itself with.
RefreshOfShown == refresh # None /\ refresh.current => shown # None

Typed == TypeOK /\ RefreshOfShown

Kept == Typed /\ ShowsChosenRun

LEMMA InitKept == Init => Kept
<1> SUFFICES ASSUME Init PROVE Kept
  OBVIOUS
<1>1. log \in [Runs -> 0..MaxEvents]
  BY PanelAssumption DEF Init
<1>2. created \in Seq(Runs) /\ listed \in Seq(Runs)
  BY DEF Init
<1>3. listing \in [runs : Seq(Runs) \cup {None}]
  BY DEF Init
<1>4. ServiceType /\ ChoiceType
  BY <1>1, <1>2, <1>3 DEF Init, ServiceType, ChoiceType
<1>5. ViewType /\ RequestType
  BY DEF Init, ViewType, RequestType, Seqs
<1>6. InCharge /\ RefreshOfShown
  BY DEF Init, InCharge, Asking, RefreshOfShown
<1> QED
  BY <1>4, <1>5, <1>6 DEF Kept, Typed, TypeOK, ShowsChosenRun, Init

-----------------------------------------------------------------------------
(* Opening and abandoning.                                                 *)

LEMMA OutdatedType ==
  ASSUME NEW q \in Requests
  PROVE  Outdated(q) \in Requests /\ ~Outdated(q).current
BY DEF Outdated, Requests

LEMMA OutdatedRefreshType ==
  ASSUME RequestType, refresh' = OutdatedRefresh
  PROVE  refresh' \in Requests \cup {None} /\ RefreshOfShown'
BY OutdatedType DEF RequestType, OutdatedRefresh, RefreshOfShown

\* Once everything is abandoned nothing is asking.
LEMMA AbandonType ==
  ASSUME RequestType, Abandon
  PROVE  /\ RequestType' /\ RefreshOfShown'
         /\ ~backoff' /\ watch' = "none" /\ Asking' = {}
<1>1. \A q \in opens' : q \in Requests /\ ~q.current
  BY OutdatedType DEF RequestType, Abandon
<1> QED
  BY <1>1, OutdatedRefreshType DEF RequestType, Abandon, Asking

LEMMA RequestIsType ==
  ASSUME NEW r \in Runs
  PROVE  Request(r) \in Requests /\ Request(r).current
BY DEF Request, Requests, Seqs

LEMMA OpenRunType ==
  ASSUME RequestType, NEW r \in Runs, OpenRun(r)
  PROVE  /\ RequestType' /\ RefreshOfShown'
         /\ ~backoff' /\ watch' = "none" /\ connection' = "connecting"
         /\ \E q \in opens' : Asking' = {q} /\ q.run = r
<1>1. \A q \in opens' : q \in Requests /\ (q.current <=> q = Request(r))
  BY RequestIsType, OutdatedType DEF RequestType, OpenRun
<1>2. Request(r) \in opens' /\ Asking' = {Request(r)} /\ Request(r).run = r
  BY <1>1 DEF OpenRun, Asking, Request
<1> QED
  BY <1>1, <1>2, OutdatedRefreshType DEF RequestType, OpenRun

\* Selecting a Run keeps an expanded panel asking for it.
LEMMA SelectType ==
  ASSUME Kept, NEW r \in Runs, Select(r), UNCHANGED <<expanded, queued>>
  PROVE  /\ ViewType' /\ RequestType' /\ InCharge' /\ RefreshOfShown'
         /\ selected' = r /\ shown' = None
<1> RequestType /\ ViewType /\ ChoiceType /\ r # None
  BY PanelAssumption DEF Kept, Typed, TypeOK
<1>1. CASE expanded
  <2>1. OpenRun(r) /\ selected' = r /\ expanded'
    BY <1>1 DEF Select
  <2>2. RequestType' /\ InCharge' /\ RefreshOfShown'
    BY <2>1, OpenRunType DEF InCharge
  <2>3. ViewType'
    BY <2>1, OpenRunType DEF ViewType, Select, Seqs
  <2> QED
    BY <2>2, <2>3 DEF Select
<1>2. CASE ~expanded
  <2>1. Abandon /\ UNCHANGED connection /\ ~expanded'
    BY <1>2 DEF Select
  <2>2. RequestType' /\ InCharge' /\ RefreshOfShown'
    BY <2>1, AbandonType DEF InCharge
  <2>3. ViewType'
    BY <2>1 DEF ViewType, Select, Seqs
  <2> QED
    BY <2>2, <2>3 DEF Select
<1> QED
  BY <1>1, <1>2

-----------------------------------------------------------------------------
(* Every step.                                                             *)

LEMMA SameKept == Kept /\ UNCHANGED vars => Typed'
BY DEF Kept, Typed, TypeOK, ServiceType, ChoiceType, ViewType, RequestType, InCharge, Asking,
       RefreshOfShown, vars, service, choices, view, requests, bounds

\* The service commits, and answers.
LEMMA CreateKept == ASSUME Kept, NEW r \in Runs, Create(r) PROVE Typed'
<1>1. ServiceType'
  <2>1. <<r>> \o created \in Seq(Runs)
    BY DEF Kept, Typed, TypeOK, ServiceType
  <2>2. [log EXCEPT ![r] = 1] \in [Runs -> 0..MaxEvents]
    BY PanelAssumption DEF Kept, Typed, TypeOK, ServiceType
  <2> QED
    BY <2>1, <2>2 DEF Create, ServiceType
<1>2. ChoiceType' /\ ViewType' /\ RequestType' /\ RefreshOfShown'
  BY DEF Kept, Typed, TypeOK, Create, ChoiceType, ViewType, RequestType, RefreshOfShown, choices,
         view, requests
<1>3. InCharge'
  BY DEF Kept, Typed, TypeOK, Create, InCharge, Asking, choices, view, requests
<1> QED
  BY <1>1, <1>2, <1>3 DEF Kept, Typed, TypeOK

LEMMA CommitKept == ASSUME Kept, NEW r \in Runs, CommitEvent(r) PROVE Typed'
<1>1. ServiceType'
  <2>1. log[r] + 1 \in 0..MaxEvents
    BY PanelAssumption DEF Kept, Typed, TypeOK, ServiceType, CommitEvent
  <2> QED
    BY <2>1 DEF Kept, Typed, TypeOK, CommitEvent, ServiceType
<1>2. ChoiceType' /\ ViewType' /\ RequestType' /\ RefreshOfShown'
  BY DEF Kept, Typed, TypeOK, CommitEvent, ChoiceType, ViewType, RequestType, RefreshOfShown,
         choices, view, requests
<1>3. InCharge'
  BY DEF Kept, Typed, TypeOK, CommitEvent, InCharge, Asking, choices, view, requests
<1> QED
  BY <1>1, <1>2, <1>3 DEF Kept, Typed, TypeOK

LEMMA SnapshotType ==
  ASSUME ServiceType, NEW q \in Requests
  PROVE  /\ Snapshot(q) \in Requests /\ Snapshot(q).current = q.current
         /\ Snapshot(q).run = q.run
         /\ Snapshot(q).seq \in 0..MaxEvents
<1>1. log[q.run] \in 0..MaxEvents
  BY DEF ServiceType, Requests
<1> QED
  BY <1>1 DEF Snapshot, Requests, Seqs

LEMMA AnswerOpenKept == ASSUME Kept, NEW q \in opens, AnswerOpen(q) PROVE Typed'
<1> ServiceType /\ q \in Requests /\ InCharge
  BY DEF Kept, Typed, TypeOK, RequestType
<1>1. RequestType'
  BY SnapshotType DEF Kept, Typed, TypeOK, RequestType, AnswerOpen
<1>2. Asking' = IF q.current THEN (Asking \ {q}) \cup {Snapshot(q)} ELSE Asking
  BY SnapshotType DEF Asking, AnswerOpen
<1>3. (Asking = {} => Asking' = {})
      /\ ((\E x \in opens : Asking = {x} /\ x.run = selected)
            => \E x \in opens' : Asking' = {x} /\ x.run = selected)
  <2>1. CASE q.current
    <3>1. q \in Asking /\ Asking' = (Asking \ {q}) \cup {Snapshot(q)}
      BY <1>2, <2>1 DEF Asking
    <3>2. (\E x \in opens : Asking = {x} /\ x.run = selected)
            => Asking' = {Snapshot(q)} /\ Snapshot(q).run = selected
      BY <3>1, SnapshotType
    <3> QED
      BY <3>1, <3>2 DEF AnswerOpen
  <2>2. CASE ~q.current
    <3>1. Asking' = Asking
      BY <1>2, <2>2
    <3>2. \A x \in Asking : x \in opens'
      BY <2>2 DEF Asking, AnswerOpen
    <3> QED
      BY <3>1, <3>2
  <2> QED
    BY <2>1, <2>2
<1>4. InCharge'
  BY <1>3 DEF InCharge, AnswerOpen, choices, view
<1>5. ServiceType' /\ ChoiceType' /\ ViewType' /\ RefreshOfShown'
  BY DEF Kept, Typed, TypeOK, AnswerOpen, ServiceType, ChoiceType, ViewType, RefreshOfShown,
         service, choices, view
<1> QED
  BY <1>1, <1>4, <1>5 DEF Kept, Typed, TypeOK

LEMMA AnswerRefreshKept == ASSUME Kept, AnswerRefresh PROVE Typed'
<1> ServiceType /\ refresh \in Requests
  BY DEF Kept, Typed, TypeOK, RequestType, AnswerRefresh
<1>1. RequestType' /\ RefreshOfShown'
  BY SnapshotType DEF Kept, Typed, TypeOK, RequestType, AnswerRefresh, RefreshOfShown, view
<1>2. InCharge'
  BY DEF Kept, Typed, TypeOK, AnswerRefresh, InCharge, Asking, choices, view
<1>3. ServiceType' /\ ChoiceType' /\ ViewType'
  BY DEF Kept, Typed, TypeOK, AnswerRefresh, ServiceType, ChoiceType, ViewType, service, choices,
         view
<1> QED
  BY <1>1, <1>2, <1>3 DEF Kept, Typed, TypeOK

LEMMA AnswerListKept == ASSUME Kept, AnswerList PROVE Typed'
<1>1. listing' \in [runs : Seq(Runs) \cup {None}]
  BY DEF Kept, Typed, TypeOK, ServiceType, AnswerList
<1>2. ServiceType' /\ ChoiceType' /\ ViewType' /\ RequestType' /\ RefreshOfShown'
  BY <1>1 DEF Kept, Typed, TypeOK, AnswerList, ServiceType, ChoiceType, ViewType, RequestType,
              RefreshOfShown, service, view, requests
<1>3. InCharge'
  BY DEF Kept, Typed, TypeOK, AnswerList, InCharge, Asking, view, requests
<1> QED
  BY <1>2, <1>3 DEF Kept, Typed, TypeOK

-----------------------------------------------------------------------------
(* The user.                                                               *)

LEMMA ExpandKept == ASSUME Kept, Expand PROVE Typed'
<1> RequestType /\ ViewType /\ ChoiceType /\ ServiceType /\ InCharge
  BY DEF Kept, Typed, TypeOK
<1>1. listing' \in [runs : Seq(Runs) \cup {None}] \cup {None}
  BY DEF ChoiceType, Expand, ListRuns
<1>2. ServiceType' /\ ChoiceType'
  BY <1>1 DEF Expand, Input, ServiceType, ChoiceType, service
<1>3. ViewType' /\ RequestType' /\ RefreshOfShown' /\ InCharge'
  <2>1. CASE selected # None
    <3>1. OpenRun(selected) /\ selected \in Runs
      BY <2>1 DEF Expand, ChoiceType
    <3>2. /\ RequestType' /\ RefreshOfShown' /\ ~backoff' /\ watch' = "none"
          /\ connection' = "connecting"
          /\ \E q \in opens' : Asking' = {q} /\ q.run = selected
      BY <3>1, OpenRunType
    <3>3. selected' = selected /\ expanded'
      BY DEF Expand
    <3>4. \E q \in opens' : Asking' = {q} /\ q.run = selected'
      BY <3>2, <3>3
    <3>5. InCharge'
      BY <2>1, <3>2, <3>3, <3>4 DEF InCharge
    <3>6. ViewType'
      BY <3>2 DEF Expand, ViewType, view
    <3> QED
      BY <3>2, <3>5, <3>6
  <2>2. CASE selected = None
    BY <2>2 DEF Kept, Typed, Expand, ViewType, RequestType, RefreshOfShown, InCharge, Asking,
                requests, view
  <2> QED
    BY <2>1, <2>2
<1> QED
  BY <1>2, <1>3 DEF Kept, Typed, TypeOK

LEMMA CollapseKept == ASSUME Kept, Collapse PROVE Typed'
<1> RequestType /\ ViewType /\ ChoiceType /\ ServiceType /\ Abandon
  BY DEF Kept, Typed, TypeOK, Collapse
<1>1. ServiceType' /\ ChoiceType' /\ ViewType'
  BY DEF Collapse, Input, ServiceType, ChoiceType, ViewType, service, choices, view
<1>2. RequestType' /\ RefreshOfShown' /\ InCharge'
  BY AbandonType DEF Collapse, InCharge
<1> QED
  BY <1>1, <1>2 DEF Kept, Typed, TypeOK

LEMMA OpenPickerKept == ASSUME Kept, OpenPicker PROVE Typed'
<1>1. listing' \in [runs : Seq(Runs) \cup {None}]
  BY DEF OpenPicker, ListRuns
<1>2. ServiceType' /\ ChoiceType' /\ ViewType' /\ RequestType' /\ RefreshOfShown'
  BY <1>1 DEF Kept, Typed, TypeOK, OpenPicker, Input, ServiceType, ChoiceType, ViewType,
              RequestType, RefreshOfShown, service, view, requests
<1>3. InCharge'
  BY DEF Kept, Typed, TypeOK, OpenPicker, InCharge, Asking, view, requests
<1> QED
  BY <1>2, <1>3 DEF Kept, Typed, TypeOK

\* A Run is selected, or nothing changes.
LEMMA MaybeSelectType ==
  ASSUME Kept, NEW r \in Runs, Select(r) \/ Same, UNCHANGED <<expanded, queued>>
  PROVE  /\ ViewType' /\ RequestType' /\ InCharge' /\ RefreshOfShown'
         /\ selected' \in Runs \cup {None}
<1>1. CASE Select(r)
  BY <1>1, SelectType
<1>2. CASE Same
  BY <1>2 DEF Kept, Typed, TypeOK, Same, ChoiceType, ViewType, RequestType, InCharge, Asking,
              RefreshOfShown, view, requests
<1> QED
  BY <1>1, <1>2

LEMMA PickKept == ASSUME Kept, NEW r \in Runs, Pick(r) PROVE Typed'
<1>1. ViewType' /\ RequestType' /\ InCharge' /\ RefreshOfShown'
      /\ selected' \in Runs \cup {None}
  BY MaybeSelectType DEF Pick
<1>2. ServiceType' /\ ChoiceType'
  BY <1>1 DEF Kept, Typed, TypeOK, Pick, Input, ServiceType, ChoiceType, service
<1> QED
  BY <1>1, <1>2 DEF Kept, Typed, TypeOK

LEMMA NoteSessionRunKept == ASSUME Kept, NEW r \in Runs, NoteSessionRun(r) PROVE Typed'
<1>1. ViewType' /\ RequestType' /\ InCharge' /\ RefreshOfShown'
      /\ selected' \in Runs \cup {None}
  BY MaybeSelectType DEF NoteSessionRun
<1>2. listing' \in [runs : Seq(Runs) \cup {None}]
  BY DEF NoteSessionRun, ListRuns
<1>3. ServiceType' /\ ChoiceType'
  BY <1>1, <1>2 DEF Kept, Typed, TypeOK, NoteSessionRun, ServiceType, ChoiceType, service
<1> QED
  BY <1>1, <1>3 DEF Kept, Typed, TypeOK

-----------------------------------------------------------------------------
(* Answers.                                                                *)

LEMMA PreferredType ==
  ASSUME ChoiceType, NEW runs \in Seq(Runs)
  PROVE  Preferred(runs) \in Runs \cup {None}
<1>1. runs # <<>> => Head(runs) \in Runs
  OBVIOUS
<1> QED
  BY <1>1 DEF Preferred, ChoiceType

LEMMA ListArrivesKept == ASSUME Kept, ListArrives PROVE Typed'
<1> DEFINE r == Preferred(listing.runs)
<1>1. listing.runs \in Seq(Runs)
  BY DEF Kept, Typed, TypeOK, ChoiceType, ListArrives
<1>2. r \in Runs \cup {None}
  BY <1>1, PreferredType DEF Kept, Typed, TypeOK
<1>3. IF r # None THEN Select(r) ELSE Same
  BY DEF ListArrives
<1> HIDE DEF r
<1>4. UNCHANGED <<expanded, queued>>
  BY DEF ListArrives
<1>5. ViewType' /\ RequestType' /\ InCharge' /\ RefreshOfShown'
      /\ selected' \in Runs \cup {None}
  <2>1. CASE r \in Runs
    BY <2>1, <1>3, <1>4, MaybeSelectType
  <2>2. CASE r = None
    <3>1. Same
      BY <2>2, <1>3
    <3> QED
      BY <3>1, <1>4 DEF Kept, Typed, TypeOK, Same, ChoiceType, ViewType, RequestType, InCharge,
                        Asking, RefreshOfShown, view, requests
  <2> QED
    BY <1>2, <2>1, <2>2
<1>6. ServiceType' /\ ChoiceType'
  BY <1>1, <1>5 DEF Kept, Typed, TypeOK, ListArrives, ServiceType, ChoiceType, service
<1> QED
  BY <1>5, <1>6 DEF Kept, Typed, TypeOK

LEMMA OpenArrivesKept == ASSUME Kept, NEW q \in opens, OpenArrives(q) PROVE Typed'
<1> /\ ServiceType /\ ChoiceType /\ ViewType /\ RequestType /\ InCharge
    /\ q \in Requests /\ q.seq \in 0..MaxEvents
  BY DEF Kept, Typed, TypeOK, RequestType, Requests, Seqs, OpenArrives
<1>1. ServiceType' /\ ChoiceType' /\ Asking' = Asking \ {q}
  BY DEF OpenArrives, ServiceType, ChoiceType, Asking, service, choices
<1>2. CASE Current(q)
  <2>1. shown' = [run |-> q.run, seq |-> q.seq] /\ cursor' = q.seq /\ missed' = FALSE
        /\ watch' = "connect" /\ connection' = "connected"
    BY <1>2 DEF OpenArrives
  <2>2. shown' \in [run : Runs, seq : 0..MaxEvents] /\ cursor' # None
    BY <2>1, PanelAssumption DEF Requests
  <2>3. ViewType' /\ RequestType' /\ RefreshOfShown'
    BY <2>1, <2>2, PanelAssumption
    DEF OpenArrives, ViewType, RequestType, RefreshOfShown, Seqs
  <2>4. expanded /\ selected # None /\ q \in Asking
    BY <1>2, PanelAssumption DEF Current, Asking, Requests
  <2>5. ~backoff /\ Asking = {q}
    BY <2>4 DEF InCharge
  <2>6. InCharge'
    BY <1>1, <2>1, <2>2, <2>4, <2>5 DEF OpenArrives, InCharge, choices
  <2> QED
    BY <1>1, <2>3, <2>6 DEF Kept, Typed, TypeOK
<1>3. CASE ~Current(q)
  <2>1. UNCHANGED <<view, watch, connection>>
    BY <1>3 DEF OpenArrives
  <2>2. ViewType' /\ RequestType' /\ RefreshOfShown'
    BY <2>1 DEF Kept, Typed, OpenArrives, ViewType, RequestType, RefreshOfShown, view
  <2>3. ~q.current
    BY <1>3 DEF Current, InCharge, Asking
  <2>4. opens' = opens \ {q} /\ Asking' = Asking
    BY <1>1, <2>3 DEF OpenArrives, Asking
  <2>5. \A x \in Asking : x \in opens'
    BY <2>3, <2>4 DEF Asking
  <2>6. InCharge'
    BY <2>1, <2>4, <2>5 DEF OpenArrives, InCharge, choices, view
  <2> QED
    BY <1>1, <2>2, <2>6 DEF Kept, Typed, TypeOK
<1> QED
  BY <1>2, <1>3

LEMMA RefreshArrivesKept == ASSUME Kept, RefreshArrives PROVE Typed'
<1> ViewType /\ RequestType /\ InCharge
  BY DEF Kept, Typed, TypeOK
<1>1. refresh \in Requests /\ refresh.seq \in 0..MaxEvents
  BY DEF RequestType, Requests, Seqs, RefreshArrives
<1>2. RequestType' /\ RefreshOfShown'
  BY DEF RequestType, RefreshOfShown, RefreshArrives, RefreshOver
<1>3. shown' \in [run : Runs, seq : 0..MaxEvents] \cup {None} /\ missed' \in BOOLEAN
      /\ connection' \in {connection, "connected"}
  <2>1. CASE Current(refresh)
    <3>1. shown' = [run |-> refresh.run, seq |-> refresh.seq]
          /\ missed' = (refresh.seq < shown.seq) /\ connection' = "connected"
      BY <2>1 DEF RefreshArrives
    <3>2. shown.seq \in 0..MaxEvents
      BY <1>1, <2>1 DEF Kept, Typed, RefreshOfShown, Current, ViewType, RefreshArrives
    <3>3. (refresh.seq < shown.seq) \in BOOLEAN
      BY <1>1, <3>2
    <3> QED
      BY <1>1, <3>1, <3>3 DEF Requests
  <2>2. CASE ~Current(refresh)
    BY <2>2 DEF RefreshArrives, ViewType
  <2> QED
    BY <2>1, <2>2
<1>4. timer' \in BOOLEAN /\ queued' \in BOOLEAN /\ cursor' \in Seqs
  BY DEF ViewType, RefreshArrives, RefreshOver
<1>5. ViewType'
  BY <1>3, <1>4 DEF ViewType
<1>6. ServiceType' /\ ChoiceType' /\ InCharge'
  BY DEF Kept, Typed, TypeOK, ServiceType, ChoiceType, InCharge, Asking, RefreshArrives, service,
         choices
<1> QED
  BY <1>2, <1>5, <1>6 DEF Kept, Typed, TypeOK

-----------------------------------------------------------------------------
(* Timers and the stream.                                                  *)

LEMMA RetryOpenKept == ASSUME Kept, RetryOpen PROVE Typed'
<1> RequestType /\ InCharge /\ ChoiceType
  BY DEF Kept, Typed, TypeOK
<1>1. expanded /\ selected \in Runs /\ watch = "none" /\ Asking = {}
  BY DEF RetryOpen, InCharge, ChoiceType
<1>2. Request(selected) \in Requests /\ Request(selected).current
      /\ Request(selected).run = selected
  BY <1>1, RequestIsType DEF Request
<1>3. Asking' = {Request(selected)}
  BY <1>1, <1>2 DEF Asking, RetryOpen
<1>4. Request(selected) \in opens' /\ ~backoff' /\ watch' = "none"
      /\ UNCHANGED <<expanded, selected>>
  BY <1>1 DEF RetryOpen, choices
<1>5. InCharge'
  <2>1. \E q \in opens' : Asking' = {q} /\ q.run = selected'
    BY <1>2, <1>3, <1>4
  <2> QED
    BY <1>1, <1>4, <2>1, PanelAssumption DEF InCharge
<1>6. RequestType' /\ RefreshOfShown'
  BY <1>2 DEF Kept, Typed, RequestType, RefreshOfShown, RetryOpen, view
<1>7. ServiceType' /\ ChoiceType' /\ ViewType'
  BY DEF Kept, Typed, TypeOK, RetryOpen, ServiceType, ChoiceType, ViewType, service, choices, view
<1> QED
  BY <1>5, <1>6, <1>7 DEF Kept, Typed, TypeOK

LEMMA RefreshDueKept == ASSUME Kept, RefreshDue PROVE Typed'
<1> RequestType /\ ChoiceType /\ ViewType
  BY DEF Kept, Typed, TypeOK
<1>1. refresh' \in Requests \cup {None} /\ queued' \in BOOLEAN /\ RefreshOfShown'
  <2>1. CASE UNCHANGED refresh /\ queued' \in BOOLEAN
    BY <2>1 DEF Kept, Typed, RequestType, RefreshOfShown, RefreshDue, view
  <2>2. CASE ~(~expanded \/ shown = None) /\ refresh = None
    <3>1. expanded /\ shown # None /\ refresh' = Request(selected) /\ UNCHANGED queued
      BY <2>2 DEF RefreshDue
    <3>2. selected \in Runs
      BY <3>1 DEF Kept, ShowsChosenRun, ViewType
    <3> QED
      BY <3>1, <3>2, RequestIsType DEF ViewType, RefreshOfShown, RefreshDue, view
  <2> QED
    BY <2>1, <2>2 DEF RefreshDue, ViewType
<1>2. RequestType' /\ ViewType'
  BY <1>1 DEF RefreshDue, RequestType, ViewType, view
<1>3. ServiceType' /\ ChoiceType' /\ InCharge'
  BY DEF Kept, Typed, TypeOK, RefreshDue, ServiceType, ChoiceType, InCharge, Asking, service,
         choices, view
<1> QED
  BY <1>1, <1>2, <1>3 DEF Kept, Typed, TypeOK

\* The stream moves from one of its states to another.
LEMMA WatchMovesType ==
  ASSUME Kept, NEW from \in {"connect", "open", "silent", "delay"},
         NEW to \in {"connect", "open", "silent", "delay"}, WatchMoves(from, to),
         cursor' \in 0..MaxEvents \/ UNCHANGED cursor,
         timer' \in BOOLEAN,
         connection' \in {connection, "connected", "reconnecting"}
  PROVE  Typed'
<1>1. RequestType' /\ ViewType' /\ RefreshOfShown'
  BY DEF Kept, Typed, TypeOK, RequestType, ViewType, RefreshOfShown, Seqs, WatchMoves,
         requests
<1>2. cursor # None => cursor' # None
  BY PanelAssumption
<1>3. ServiceType' /\ ChoiceType' /\ InCharge'
  BY <1>2 DEF Kept, Typed, TypeOK, ServiceType, ChoiceType, InCharge, Asking, WatchMoves,
              service, choices, requests
<1> QED
  BY <1>1, <1>3 DEF Typed, TypeOK

LEMMA FrameKept == ASSUME Kept, Frame PROVE Typed'
<1>1. expanded /\ selected \in Runs /\ cursor \in 0..MaxEvents
  BY DEF Kept, Typed, TypeOK, InCharge, ChoiceType, ViewType, Seqs, Frame, WatchMoves
<1>2. log[selected] \in 0..MaxEvents
  BY <1>1 DEF Kept, Typed, TypeOK, ServiceType
<1>3. cursor' \in 0..MaxEvents
  BY <1>1, <1>2, PanelAssumption DEF Frame
<1> QED
  BY <1>3, WatchMovesType DEF Frame

LEMMA StreamKept ==
  ASSUME Kept, WatchOpens \/ Heartbeat \/ IdleTimeout \/ RetryWatch
  PROVE  Typed'
<1>1. timer \in BOOLEAN
  BY DEF Kept, Typed, TypeOK, ViewType
<1>2. CASE WatchOpens
  BY <1>1, <1>2, WatchMovesType DEF WatchOpens
<1>3. CASE Heartbeat
  BY <1>1, <1>3, WatchMovesType DEF Heartbeat
<1>4. CASE IdleTimeout
  BY <1>1, <1>4, WatchMovesType DEF IdleTimeout
<1>5. CASE RetryWatch
  BY <1>1, <1>5, WatchMovesType DEF RetryWatch
<1> QED
  BY <1>2, <1>3, <1>4, <1>5

LEMMA CheckStaleKept == ASSUME Kept, CheckStale PROVE Typed'
<1>1. ServiceType' /\ ChoiceType' /\ ViewType' /\ RequestType' /\ RefreshOfShown'
  BY DEF Kept, Typed, TypeOK, CheckStale, ServiceType, ChoiceType, ViewType, RequestType,
         RefreshOfShown, service, choices, view, requests
<1>2. InCharge'
  BY DEF Kept, Typed, TypeOK, CheckStale, InCharge, Asking, choices, view, requests
<1> QED
  BY <1>1, <1>2 DEF Typed, TypeOK

-----------------------------------------------------------------------------
(* Faults.                                                                 *)

\* The request that fails was in charge, and its retry takes over.
LEMMA OpenFailsKept == ASSUME Kept, NEW q \in opens, OpenFails(q) PROVE Typed'
<1> RequestType /\ InCharge
  BY DEF Kept, Typed, TypeOK
<1>1. expanded /\ selected # None /\ q \in Asking
  BY PanelAssumption DEF OpenFails, Current, Asking, RequestType, Requests
<1>2. watch = "none" /\ Asking = {q}
  BY <1>1 DEF InCharge
<1>3. Asking' = {} /\ backoff' /\ watch' = "none" /\ UNCHANGED <<expanded, selected>>
  BY <1>2 DEF OpenFails, Reopen, Asking, choices
<1>4. InCharge'
  BY <1>1, <1>3 DEF InCharge
<1>5. ServiceType' /\ ChoiceType' /\ ViewType' /\ RequestType' /\ RefreshOfShown'
  BY DEF Kept, Typed, TypeOK, OpenFails, Fault, Reopen, ServiceType, ChoiceType, ViewType,
         RequestType, RefreshOfShown, service, choices, view
<1> QED
  BY <1>4, <1>5 DEF Typed, TypeOK

LEMMA RefreshFailsKept == ASSUME Kept, RefreshFails PROVE Typed'
<1>1. ServiceType' /\ ChoiceType' /\ InCharge'
  BY DEF Kept, Typed, TypeOK, RefreshFails, Fault, ServiceType, ChoiceType, InCharge,
         Asking, service, choices
<1>2. ViewType' /\ RequestType' /\ RefreshOfShown'
  BY DEF Kept, Typed, TypeOK, RefreshFails, RefreshOver, ViewType, RequestType,
         RefreshOfShown
<1> QED
  BY <1>1, <1>2 DEF Typed, TypeOK

LEMMA ListFailsKept == ASSUME Kept, ListFails PROVE Typed'
<1>1. ServiceType' /\ ChoiceType' /\ ViewType' /\ RequestType' /\ RefreshOfShown'
  BY DEF Kept, Typed, TypeOK, ListFails, Fault, ServiceType, ChoiceType, ViewType,
         RequestType, RefreshOfShown, service, view, requests
<1>2. InCharge'
  BY DEF Kept, Typed, TypeOK, ListFails, InCharge, Asking, view, requests
<1> QED
  BY <1>1, <1>2 DEF Typed, TypeOK

LEMMA WatchBreaksKept == ASSUME Kept, WatchBreaks PROVE Typed'
<1>1. ServiceType' /\ ChoiceType' /\ ViewType' /\ RequestType' /\ RefreshOfShown'
  BY DEF Kept, Typed, TypeOK, WatchBreaks, Fault, ServiceType, ChoiceType, ViewType,
         RequestType, RefreshOfShown, service, choices, view, requests
<1>2. InCharge'
  BY DEF Kept, Typed, TypeOK, WatchBreaks, InCharge, Asking, choices, view, requests
<1> QED
  BY <1>1, <1>2 DEF Typed, TypeOK

LEMMA NextKept == ASSUME Kept, [Next]_vars PROVE Typed'
<1>1. CASE Progress
  BY <1>1, AnswerListKept, ListArrivesKept, AnswerRefreshKept, RefreshArrivesKept,
     RefreshDueKept, AnswerOpenKept, OpenArrivesKept, RetryOpenKept, StreamKept, FrameKept,
     CheckStaleKept DEF Progress
<1>2. CASE User
  BY <1>2, ExpandKept, CollapseKept, OpenPickerKept, PickKept, NoteSessionRunKept DEF User
<1>3. CASE Faults
  BY <1>3, OpenFailsKept, RefreshFailsKept, ListFailsKept, WatchBreaksKept DEF Faults
<1>4. CASE \E r \in Runs : Create(r) \/ CommitEvent(r)
  BY <1>4, CreateKept, CommitKept
<1>5. CASE UNCHANGED vars
  BY <1>5, SameKept
<1> QED
  BY <1>1, <1>2, <1>3, <1>4, <1>5 DEF Next

-----------------------------------------------------------------------------
(* The screen and the user's choice.                                       *)

\* The user's choice stands against a list: another Run is selected from it
\* only while there is no choice.
LEMMA PreferredRespects ==
  ASSUME Kept, NEW runs, Preferred(runs) # None
  PROVE  manual = None
<1> USE PanelAssumption
<1>1. selected = None => manual = None
  BY DEF Kept, ShowsChosenRun
<1>2. selected # None => manual = None
  BY DEF Preferred
<1> QED
  BY <1>1, <1>2

LEMMA SelectShows ==
  ASSUME NEW r \in Runs, Select(r), manual' \in {None, r}
  PROVE  ShowsChosenRun'
BY DEF Select, ShowsChosenRun

LEMMA SameShows == Kept /\ Same /\ UNCHANGED manual => ShowsChosenRun'
BY DEF Kept, ShowsChosenRun, Same, view

LEMMA NextShows == ASSUME Kept, [Next]_vars PROVE ShowsChosenRun'
<1> ChoiceType
  BY DEF Kept, Typed, TypeOK
<1>1. CASE UNCHANGED <<selected, manual, shown>>
  BY <1>1 DEF Kept, ShowsChosenRun
<1>2. ASSUME NEW r \in Runs, Pick(r) PROVE ShowsChosenRun'
  <2>1. CASE r # selected
    BY <1>2, <2>1, SelectShows DEF Pick
  <2>2. CASE r = selected
    BY <1>2, <2>2 DEF Pick, Same, view, Kept, ShowsChosenRun
  <2> QED
    BY <2>1, <2>2
<1>3. ASSUME NEW r \in Runs, NoteSessionRun(r) PROVE ShowsChosenRun'
  <2>1. CASE manual = None /\ selected # r
    BY <1>3, <2>1, SelectShows DEF NoteSessionRun
  <2>2. CASE ~(manual = None /\ selected # r)
    BY <1>3, <2>2, SameShows DEF NoteSessionRun
  <2> QED
    BY <2>1, <2>2
<1>4. CASE ListArrives
  <2> DEFINE r == Preferred(listing.runs)
  <2>1. r \in Runs \cup {None} /\ (r # None => manual = None)
    BY <1>4, PreferredType, PreferredRespects DEF ListArrives, ChoiceType
  <2>2. IF r # None THEN Select(r) ELSE Same
    BY <1>4 DEF ListArrives
  <2>3. UNCHANGED manual
    BY <1>4 DEF ListArrives
  <2> HIDE DEF r
  <2> QED
    BY <2>1, <2>2, <2>3, SelectShows, SameShows
<1>5. ASSUME NEW q \in opens, OpenArrives(q) PROVE ShowsChosenRun'
  BY <1>5 DEF OpenArrives, Current, Kept, ShowsChosenRun, choices, view
<1>6. CASE RefreshArrives
  BY <1>6 DEF RefreshArrives, Current, Kept, ShowsChosenRun, choices
<1>7. CASE (\E r \in Runs : Create(r) \/ CommitEvent(r)) \/ UNCHANGED vars
  BY <1>1, <1>7 DEF Create, CommitEvent, vars, choices, view
<1>8. CASE AnswerList \/ AnswerRefresh \/ RefreshDue \/ (\E q \in opens : AnswerOpen(q))
           \/ RetryOpen \/ RetryWatch \/ WatchOpens \/ Frame \/ Heartbeat \/ CheckStale
           \/ IdleTimeout
  BY <1>1, <1>8 DEF AnswerList, AnswerRefresh, RefreshDue, AnswerOpen, RetryOpen, RetryWatch,
                    WatchOpens, Frame, Heartbeat, CheckStale, IdleTimeout, WatchMoves,
                    choices, view
<1>9. CASE Expand \/ Collapse \/ OpenPicker
  BY <1>1, <1>9 DEF Expand, Collapse, OpenPicker, choices, view
<1>10. CASE Faults
  BY <1>1, <1>10 DEF Faults, OpenFails, RefreshFails, ListFails, WatchBreaks, choices, view
<1> QED
  BY <1>2, <1>3, <1>4, <1>5, <1>6, <1>7, <1>8, <1>9, <1>10 DEF Next, Progress, User

LEMMA KeptHolds == Spec => []Kept
<1>1. Kept /\ [Next]_vars => Kept'
  BY NextKept, NextShows DEF Kept
<1> QED
  BY InitKept, <1>1, PTL DEF Spec

-----------------------------------------------------------------------------

\* One of a request, a retry and a stream is in charge of the connection of an
\* expanded panel and none of a collapsed one, however answers, timers, faults
\* and the user's choices interleave (openRun, watchLoop, stopConnections).
THEOREM TypeCorrect == Spec => []TypeOK
<1>1. Kept => TypeOK
  BY DEF Kept, Typed
<1> QED
  BY KeptHolds, <1>1, PTL

\* The screen shows the selected Run, and that is the user's choice from the
\* first choice on (current, loadRuns, noteSessionRun).
THEOREM ShowsChosenRunHolds == Spec => []ShowsChosenRun
<1>1. Kept => ShowsChosenRun
  BY DEF Kept
<1> QED
  BY KeptHolds, <1>1, PTL

=============================================================================
