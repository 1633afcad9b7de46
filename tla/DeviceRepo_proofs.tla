------------------------- MODULE DeviceRepo_proofs -------------------------
(***************************************************************************)
(* Proofs about DeviceRepo for every set of keys, every length of          *)
(* behaviour, and both writing screens.                                    *)
(***************************************************************************)
EXTENDS DeviceRepo, SequenceTheorems, TLAPS

LEMMA HidBoardPresent ==
  ASSUME TypeOK PROVE HidBoard \in Present /\ Fingerprint \in Present
<1>1. Fingerprint \in Present
  BY DEF TypeOK, Fingerprint, Present
<1>2. HidBoard \in Present
  BY <1>1 DEF HidBoard, TypeOK, Present
<1> QED BY <1>1, <1>2

LEMMA DiscoveredReading ==
  ASSUME TypeOK
  PROVE  /\ Discovered \in Present \cup {Many}
         /\ Reselected \in Present
<1>1. Discovered \in Present \cup {Many}
  <2>1. CASE Len(bus) = 1
    <3>1. bus # <<>>
      BY <2>1
    <3>2. Head(bus) \in Boards
      BY <3>1 DEF TypeOK
    <3> QED BY <2>1, <3>2 DEF Discovered, Present
  <2>2. CASE Len(bus) # 1
    BY <2>2 DEF Discovered, Present
  <2> QED BY <2>1, <2>2
<1> QED BY <1>1 DEF Reselected, TypeOK

LEMMA ReadingSets ==
  ASSUME TypeOK, NEW t
  PROVE  /\ CardReadings(t) \subseteq Readings
         /\ HidReadings(t) \subseteq Present
         /\ ExtraReadings(t) \subseteq Present
<1>1. Failures \subseteq Present
  BY DEF Failures, Present
<1>2. CardReadings(t) \subseteq Readings
  BY <1>1, DiscoveredReading DEF CardReadings, Readings
<1>3. HidReadings(t) \subseteq Present
  BY <1>1, HidBoardPresent DEF HidReadings, Present
<1>4. ExtraBoard(t) \in Present
  BY HidBoardPresent, DiscoveredReading DEF ExtraBoard, Present
<1>5. ExtraReadings(t) \subseteq Present
  BY <1>1, <1>4 DEF ExtraReadings, Present
<1> QED BY <1>2, <1>3, <1>5

LEMMA SerialsOfReads ==
  ASSUME NEW c, NEW h
  PROVE  SerialOf([card |-> c, hid |-> h]) \in Serials
BY DEF SerialOf, Serials

LEMMA GoodReadIsStatus ==
  ASSUME TypeOK, NEW t \in Tasks, ~ReadFailed(t)
  PROVE  StatusRead(t) \in [card : Present, hid : Present]
BY DEF TypeOK, ReadFailed, StatusRead, Readings, Present

-----------------------------------------------------------------------------
\* Each action keeps the types.

LEMMA SelectionsPresent ==
  ASSUME TypeOK, NEW r \in Readings PROVE Selections(r) \subseteq Present
<1>1. Len(bus) = 1 => Head(bus) \in Boards
  <2>1. Len(bus) = 1 => bus # <<>>
    OBVIOUS
  <2> QED BY <2>1 DEF TypeOK
<1>2. CASE r \in {Busy, Many}
  BY <1>2, RepoAssumption DEF Selections, TypeOK, Present
<1>3. CASE r \in Present
  BY <1>1, <1>3, RepoAssumption DEF Selections, Present
<1> QED BY <1>2, <1>3 DEF Readings

LEMMA Type_ReadCard ==
  ASSUME TypeOK, NEW t \in Tasks, ReadCard(t)
  PROVE  TypeOK'
<1>1. PICK r \in Readings :
        /\ read' = [read EXCEPT ![t].card = r]
        /\ selected' \in Selections(r)
        /\ at' = [at EXCEPT ![t] =
                    IF at[t] = "checkCard"
                    THEN IF r \in {Busy, Many} THEN "write" ELSE "checkHid"
                    ELSE IF r \in {Busy, Many} THEN "land" ELSE "hid"]
  BY ReadingSets DEF ReadCard
<1>2. selected' \in Present
  BY <1>1, SelectionsPresent
<1>3. at' \in [Tasks -> Steps]
  BY <1>1 DEF TypeOK, Steps
<1>4. read' \in [Tasks -> [card : Readings, hid : Present, info : Present, apps : Present]]
  BY <1>1 DEF TypeOK
<1> QED BY <1>2, <1>3, <1>4 DEF TypeOK, ReadCard, repo, watcher

LEMMA Type_ReadHid ==
  ASSUME TypeOK, NEW t \in Tasks, ReadHid(t)
  PROVE  TypeOK'
BY ReadingSets DEF TypeOK, ReadHid, AfterHid, Steps, vars, bound, repo, watcher, tasks

LEMMA Type_ReadInfo ==
  ASSUME TypeOK, NEW t \in Tasks, ReadInfo(t)
  PROVE  TypeOK'
BY ReadingSets DEF TypeOK, ReadInfo, Steps, vars, bound, repo, watcher, tasks

LEMMA Type_ReadApps ==
  ASSUME TypeOK, NEW t \in Tasks, ReadApps(t)
  PROVE  TypeOK'
BY ReadingSets, DiscoveredReading DEF TypeOK, ReadApps, Steps, vars, bound, repo, watcher, tasks

LEMMA Type_CheckSerial ==
  ASSUME TypeOK, NEW t \in Writers, CheckSerial(t)
  PROVE  TypeOK'
BY ReadingSets DEF TypeOK, CheckSerial, Steps, Tasks, vars, bound, repo, watcher, tasks

LEMMA Type_ReadFidoInfo ==
  ASSUME TypeOK, ReadFidoInfo
  PROVE  TypeOK'
BY ReadingSets DEF TypeOK, ReadFidoInfo, vars, bound, repo, watcher, tasks

LEMMA Type_LandFidoInfo ==
  ASSUME TypeOK, LandFidoInfo
  PROVE  TypeOK'
BY DEF TypeOK, LandFidoInfo, Emit, Present, vars, bound, repo, watcher, tasks

LEMMA Type_Seed ==
  ASSUME TypeOK, Seed
  PROVE  TypeOK'
BY HidBoardPresent DEF TypeOK, Seed, vars, bound, repo, watcher, tasks

LEMMA Type_Sample ==
  ASSUME TypeOK, Sample
  PROVE  TypeOK'
BY HidBoardPresent DEF TypeOK, Sample, vars, bound, repo, watcher, tasks

LEMMA SerialTyped ==
  /\ SerialOf(status) \in Serials
  /\ \A t \in Tasks : SerialOf(StatusRead(t)) \in Serials
<1>1. SerialOf(status) \in Serials
  BY DEF SerialOf, Serials
<1>2. ASSUME NEW t \in Tasks PROVE SerialOf(StatusRead(t)) \in Serials
  BY SerialsOfReads DEF StatusRead
<1> QED BY <1>1, <1>2

LEMMA NoneTyped == NoSerial \in Serials /\ SerialOf(NoStatus) = NoSerial /\ NoBoard \in Present
BY RepoAssumption DEF Serials, SerialOf, NoStatus, Present

\* What refresh() does to the caller's step.
LEMMA Type_Refresh ==
  ASSUME TypeOK, NEW then \in [Tasks -> Steps], Refresh(then)
  PROVE  /\ at' \in [Tasks -> Steps] /\ expected' \in [Tasks -> Serials]
         /\ loading' \in BOOLEAN /\ error' \in BOOLEAN
BY SerialTyped DEF TypeOK, Refresh, BeginLoad, Tasks, Steps

LEMMA Type_End ==
  ASSUME TypeOK, NEW t \in Tasks, End(t)
  PROVE  /\ at' \in [Tasks -> Steps] /\ expected' \in [Tasks -> Serials]
         /\ read' \in [Tasks -> [card : Readings, hid : Present, info : Present, apps : Present]]
         /\ applyingApps' \in BOOLEAN
BY NoneTyped DEF TypeOK, End, Steps, Nothing, Readings

LEMMA Type_Show ==
  ASSUME TypeOK, NEW s \in {NoStatus} \cup {StatusRead(t) : t \in Tasks},
         s \in [card : Present, hid : Present], Show(s)
  PROVE  status' \in [card : Present, hid : Present] /\ shown' \in Serials
BY SerialTyped, NoneTyped DEF TypeOK, Show

LEMMA Type_LandRefresh ==
  ASSUME TypeOK, LandRefresh
  PROVE  TypeOK'
<1> DEFINE t == "refresh"
<1>1. t \in Tasks
  BY DEF Tasks
<1>2. /\ at' \in [Tasks -> Steps] /\ expected' \in [Tasks -> Serials]
      /\ read' \in [Tasks -> [card : Readings, hid : Present, info : Present, apps : Present]]
      /\ applyingApps' \in BOOLEAN
  BY <1>1, Type_End DEF LandRefresh
<1>3. /\ status' \in [card : Present, hid : Present] /\ shown' \in Serials
      /\ fidoInfo' \in Present /\ apps' \in Present
      /\ error' \in BOOLEAN /\ deviceChanged' \in BOOLEAN
  <2>1. CASE /\ ~ReadFailed(t)
             /\ deviceChanged' = ChangedFrom(expected[t], SerialOf(StatusRead(t)))
             /\ Show(StatusRead(t)) /\ fidoInfo' = read[t].info /\ apps' = read[t].apps
             /\ UNCHANGED error
    <3>1. StatusRead(t) \in [card : Present, hid : Present]
      BY <1>1, <2>1, GoodReadIsStatus
    <3>2. status' \in [card : Present, hid : Present] /\ shown' \in Serials
      BY <1>1, <2>1, <3>1, Type_Show
    <3> QED BY <1>1, <2>1, <3>2 DEF TypeOK, ChangedFrom
  <2>2. CASE /\ deviceChanged' = FALSE
             /\ UNCHANGED <<status, fidoInfo, apps, error, shown>>
    BY <2>2 DEF TypeOK
  <2>3. CASE deviceChanged' = FALSE /\ SetError
    <3>1. NoStatus \in [card : Present, hid : Present]
      BY NoneTyped DEF NoStatus
    <3>2. status' \in [card : Present, hid : Present] /\ shown' \in Serials
      BY <2>3, <3>1, Type_Show DEF SetError
    <3> QED BY <2>3, <3>2, NoneTyped DEF SetError
  <2> QED BY <2>1, <2>2, <2>3 DEF LandRefresh
<1>4. loading' \in BOOLEAN /\ held' \in Present
  BY NoneTyped DEF LandRefresh, EndLoad, Emit, TypeOK
<1> QED BY <1>2, <1>3, <1>4 DEF LandRefresh, TypeOK, bound, watcher

LEMMA Type_Write ==
  ASSUME TypeOK, NEW t \in Writers, Write(t)
  PROVE  TypeOK'
<1>1. t \in Tasks
  BY DEF Tasks
<1>2. CASE /\ at' = [at EXCEPT ![t] = "card"]
           /\ read' = [read EXCEPT ![t] = Nothing]
           /\ UNCHANGED <<repo, expected, held, shown>>
  BY <1>2, NoneTyped DEF Write, TypeOK, Steps, Nothing, Readings, repo, bound, watcher
<1>3. CASE /\ End(t)
           /\ UNCHANGED <<status, fidoInfo, apps, error, loading, deviceChanged, held, shown>>
  BY <1>1, <1>3, Type_End DEF Write, TypeOK, bound, watcher
<1>4. CASE Refresh([at EXCEPT ![t] = "idle"]) /\ UNCHANGED applyingApps
  <2>1. [at EXCEPT ![t] = "idle"] \in [Tasks -> Steps]
    BY DEF TypeOK, Steps
  <2>2. /\ at' \in [Tasks -> Steps] /\ expected' \in [Tasks -> Serials]
        /\ loading' \in BOOLEAN /\ error' \in BOOLEAN
    BY <1>4, <2>1, Type_Refresh
  <2> QED BY <1>4, <2>2 DEF Write, Refresh, TypeOK, bound, watcher
<1> QED BY <1>2, <1>3, <1>4 DEF Write

LEMMA Type_LandWrite ==
  ASSUME TypeOK, NEW t \in Writers, LandWrite(t)
  PROVE  TypeOK'
<1>1. t \in Tasks
  BY DEF Tasks
<1>2. CASE ~ReadFailed(t) /\ End(t) /\ ApplyFreshState(t)
  <2>1. StatusRead(t) \in [card : Present, hid : Present]
    BY <1>1, <1>2, GoodReadIsStatus
  <2>2. status' \in [card : Present, hid : Present] /\ shown' \in Serials
    BY <1>1, <1>2, <2>1, Type_Show DEF ApplyFreshState
  <2>3. held' \in Present /\ apps' \in Present /\ fidoTask' = "read" /\ deviceChanged' \in BOOLEAN
    BY <1>1, <1>2, NoneTyped DEF ApplyFreshState, Emit, TypeOK
  <2> QED BY <1>1, <1>2, <2>2, <2>3, Type_End DEF ApplyFreshState, LandWrite, TypeOK, bound, watcher
<1>3. CASE /\ End(t)
           /\ UNCHANGED <<status, fidoInfo, apps, error, loading, deviceChanged, fidoTask, held, shown>>
  BY <1>1, <1>3, Type_End DEF LandWrite, TypeOK, bound, watcher
<1>4. CASE /\ at' = [at EXCEPT ![t] = "card"]
           /\ UNCHANGED <<repo, expected, read, fidoTask, held, shown>>
  BY <1>4 DEF LandWrite, TypeOK, Steps, repo, bound, watcher
<1> QED BY <1>2, <1>3, <1>4 DEF LandWrite

LEMMA Type_React ==
  ASSUME TypeOK, React
  PROVE  TypeOK'
<1>1. /\ at' \in [Tasks -> Steps] /\ expected' \in [Tasks -> Serials]
      /\ loading' \in BOOLEAN /\ error' \in BOOLEAN
  BY Type_Refresh DEF React, TypeOK
<1> QED BY <1>1 DEF React, Refresh, TypeOK, bound

LEMMA Type_User ==
  ASSUME TypeOK, User \/ CloseSwitch \/ Hold \/ ScreenEnds
  PROVE  TypeOK'
<1> USE DEF Input
<1>0. MaxInputs \in Nat
  BY RepoAssumption
<1>1. ASSUME NEW b \in Boards, Plug(b) PROVE TypeOK'
  <2>1. <<b>> \o bus \in Seq(Boards) /\ Append(bus, b) \in Seq(Boards)
    BY ConcatProperties DEF TypeOK
  <2>2. bus' \in Seq(Boards)
    BY <1>1, <2>1 DEF Plug
  <2> QED BY <1>0, <1>1, <2>2 DEF TypeOK, Plug, repo, watcher, tasks
<1>2. ASSUME NEW b \in Boards, Pull(b) PROVE TypeOK'
  <2>1. PICK i \in 1..Len(bus) :
          bus' = SubSeq(bus, 1, i - 1) \o SubSeq(bus, i + 1, Len(bus))
    BY <1>2 DEF Pull
  <2>2. bus' \in Seq(Boards)
    BY <2>1, SubSeqProperties, ConcatProperties DEF TypeOK
  <2> QED BY <1>0, <1>2, <2>2 DEF TypeOK, Pull, repo, watcher, tasks
<1>3. CASE RefreshDevice
  <2>1. /\ at' \in [Tasks -> Steps] /\ expected' \in [Tasks -> Serials]
        /\ loading' \in BOOLEAN /\ error' \in BOOLEAN
    BY <1>3, Type_Refresh DEF RefreshDevice, TypeOK
  <2> QED BY <1>0, <1>3, <2>1 DEF RefreshDevice, Refresh, TypeOK, watcher
<1>4. CASE OpenSwitch
  <2>1. at' \in [Tasks -> Steps]
    BY <1>4 DEF OpenSwitch, TypeOK, Steps
  <2>2. expected' \in [Tasks -> Serials]
    BY <1>4, SerialTyped DEF OpenSwitch, TypeOK
  <2> QED BY <1>0, <1>4, <2>1, <2>2 DEF OpenSwitch, TypeOK, repo, watcher
<1>5. CASE CommitConfig
  <2>1. at' \in [Tasks -> Steps]
    BY <1>5 DEF CommitConfig, TypeOK, Steps
  <2>2. expected' \in [Tasks -> Serials]
    BY <1>5, SerialTyped DEF CommitConfig, TypeOK
  <2> QED BY <1>0, <1>5, <2>1, <2>2 DEF CommitConfig, TypeOK, repo, watcher
<1>6. CASE ScreenStarts
  BY <1>0, <1>6 DEF ScreenStarts, TypeOK, repo, watcher, tasks
<1>7. CASE CloseSwitch
  <2>1. "switch" \in Tasks
    BY <1>7 DEF CloseSwitch, Tasks
  <2> QED BY <1>7, <2>1, Type_End DEF CloseSwitch, TypeOK, Steps, bound, watcher
<1>8. CASE Hold
  BY <1>8, HidBoardPresent DEF Hold, TypeOK, repo, watcher, tasks
<1>9. CASE ScreenEnds
  BY <1>9 DEF ScreenEnds, TypeOK, repo, watcher, tasks
<1> QED BY <1>1, <1>2, <1>3, <1>4, <1>5, <1>6, <1>7, <1>8, <1>9 DEF User

LEMMA TypeStep == TypeOK /\ [Next]_vars => TypeOK'
<1> SUFFICES ASSUME TypeOK, [Next]_vars PROVE TypeOK'
  OBVIOUS
<1>1. ASSUME NEW t \in Tasks, ReadCard(t) \/ ReadHid(t) \/ ReadInfo(t) \/ ReadApps(t)
      PROVE  TypeOK'
  BY <1>1, Type_ReadCard, Type_ReadHid, Type_ReadInfo, Type_ReadApps
<1>2. ASSUME NEW t \in Writers, CheckSerial(t) \/ Write(t) \/ LandWrite(t)
      PROVE  TypeOK'
  BY <1>2, Type_CheckSerial, Type_Write, Type_LandWrite
<1>3. CASE LandRefresh \/ ReadFidoInfo \/ LandFidoInfo \/ Seed \/ Sample \/ React
  BY <1>3, Type_LandRefresh, Type_ReadFidoInfo, Type_LandFidoInfo, Type_Seed, Type_Sample, Type_React
<1>4. CASE User \/ CloseSwitch \/ Hold \/ ScreenEnds
  BY <1>4, Type_User
<1>5. CASE UNCHANGED vars
  BY <1>5 DEF vars, bound, repo, watcher, tasks, TypeOK
<1> QED BY <1>1, <1>2, <1>3, <1>4, <1>5 DEF Next, Background

LEMMA TypeInit == Init => TypeOK
<1> SUFFICES ASSUME Init PROVE TypeOK
  OBVIOUS
<1>1. bus \in Seq(Boards) /\ inputs \in 0..MaxInputs
  <2>1. <<>> \in Seq(Boards) /\ \A b \in Boards : <<b>> \in Seq(Boards)
    OBVIOUS
  <2>2. bus = <<>> \/ \E b \in Boards : bus = <<b>>
    BY Zenon DEF Init
  <2>3. bus \in Seq(Boards)
    BY <2>1, <2>2, Zenon
  <2>4. inputs \in 0..MaxInputs
    BY RepoAssumption DEF Init
  <2> QED BY <2>3, <2>4
<1>2. read \in [Tasks -> [card : Readings, hid : Present, info : Present, apps : Present]]
  BY NoneTyped DEF Init, Nothing, Readings
<1>3. status \in [card : Present, hid : Present]
  BY NoneTyped DEF Init, NoStatus
<1> QED BY <1>1, <1>2, <1>3, NoneTyped DEF Init, TypeOK, Steps

\* DeviceRepo's fields and the tasks' locals keep their types.
THEOREM Typing == Spec => []TypeOK
BY TypeInit, TypeStep, PTL DEF Spec

-----------------------------------------------------------------------------
\* The guards.

Guards == LoadingIsRefresh /\ ApplyingIsSwitch

LEMMA GuardsInit == Init => Guards
BY RepoAssumption DEF Init, Guards, LoadingIsRefresh, ApplyingIsSwitch, Tasks

\* One lemma for the steps that move a task from one read to the next.
LEMMA GuardsMove ==
  ASSUME TypeOK, Guards, NEW t \in Tasks, NEW s \in Steps \ {"idle", "dialog"},
         at[t] \notin {"idle", "dialog"},
         at' = [at EXCEPT ![t] = s], UNCHANGED <<loading, applyingApps>>
  PROVE  Guards'
BY DEF TypeOK, Guards, LoadingIsRefresh, ApplyingIsSwitch, Tasks

\* One for the end of a writing task.
LEMMA GuardsEnd ==
  ASSUME TypeOK, Guards, NEW t \in Writers, End(t), UNCHANGED loading
  PROVE  Guards'
BY RepoAssumption DEF TypeOK, Guards, LoadingIsRefresh, ApplyingIsSwitch, Tasks, End

\* One for refresh(), whose caller may end its own task.
LEMMA GuardsRefresh ==
  ASSUME TypeOK, Guards, UNCHANGED applyingApps,
         NEW then \in [Tasks -> Steps], Refresh(then),
         then["refresh"] = at["refresh"],
         "switch" \in Writers => then["switch"] = at["switch"]
  PROVE  Guards'
BY RepoAssumption DEF TypeOK, Guards, LoadingIsRefresh, ApplyingIsSwitch, Tasks, Refresh, BeginLoad

LEMMA GuardsStep == TypeOK /\ Guards /\ [Next]_vars => Guards'
<1> SUFFICES ASSUME TypeOK, Guards, [Next]_vars PROVE Guards'
  OBVIOUS
<1>1. ASSUME NEW t \in Tasks, ReadCard(t) PROVE Guards'
  <2>1. PICK s \in Steps \ {"idle", "dialog"} : at' = [at EXCEPT ![t] = s]
    BY <1>1 DEF ReadCard, Steps
  <2> QED BY <1>1, <2>1, GuardsMove DEF ReadCard, repo
<1>2. ASSUME NEW t \in Tasks, ReadHid(t) \/ ReadInfo(t) \/ ReadApps(t) PROVE Guards'
  <2>1. PICK s \in Steps \ {"idle", "dialog"} : at' = [at EXCEPT ![t] = s]
    BY <1>2 DEF ReadHid, ReadInfo, ReadApps, AfterHid, Steps
  <2> QED BY <1>2, <2>1, GuardsMove DEF ReadHid, ReadInfo, ReadApps, repo
<1>3. ASSUME NEW t \in Writers, CheckSerial(t) PROVE Guards'
  BY <1>3, GuardsMove DEF CheckSerial, Tasks, Steps, repo
<1>4. ASSUME NEW t \in Writers, Write(t) PROVE Guards'
  <2>1. CASE at' = [at EXCEPT ![t] = "card"] /\ UNCHANGED repo
    BY <1>4, <2>1, GuardsMove DEF Write, Tasks, Steps, repo
  <2>2. CASE End(t) /\ UNCHANGED loading
    BY <2>2, GuardsEnd
  <2>3. CASE t = "config" /\ Refresh([at EXCEPT ![t] = "idle"]) /\ UNCHANGED applyingApps
    <3>1. [at EXCEPT ![t] = "idle"] \in [Tasks -> Steps]
      BY DEF TypeOK, Steps
    <3> QED BY <2>3, <3>1, GuardsRefresh DEF TypeOK, Tasks
  <2> QED BY <1>4, <2>1, <2>2, <2>3 DEF Write
<1>5. ASSUME NEW t \in Writers, LandWrite(t) PROVE Guards'
  <2>1. CASE End(t) /\ UNCHANGED loading
    BY <2>1, GuardsEnd
  <2>2. CASE at' = [at EXCEPT ![t] = "card"] /\ UNCHANGED repo
    BY <1>5, <2>2, GuardsMove DEF LandWrite, Tasks, Steps, repo
  <2> QED BY <1>5, <2>1, <2>2 DEF LandWrite, ApplyFreshState
<1>6. CASE LandRefresh
  BY <1>6, RepoAssumption DEF LandRefresh, EndLoad, End, TypeOK, Guards, LoadingIsRefresh, ApplyingIsSwitch, Tasks
<1>7. CASE React \/ RefreshDevice
  BY <1>7, GuardsRefresh DEF React, RefreshDevice, TypeOK
<1>8. CASE OpenSwitch
  BY <1>8, RepoAssumption DEF OpenSwitch, TypeOK, Guards, LoadingIsRefresh, ApplyingIsSwitch, Tasks, repo
<1>9. CASE CommitConfig
  BY <1>9, RepoAssumption DEF CommitConfig, TypeOK, Guards, LoadingIsRefresh, ApplyingIsSwitch, Tasks, repo
<1>10. CASE CloseSwitch
  BY <1>10, RepoAssumption DEF CloseSwitch, End, TypeOK, Guards, LoadingIsRefresh, ApplyingIsSwitch, Tasks
<1>11. CASE UNCHANGED <<at, loading, applyingApps>>
  BY <1>11 DEF Guards, LoadingIsRefresh, ApplyingIsSwitch
<1>12. ASSUME NEW b \in Boards, Plug(b) \/ Pull(b) PROVE UNCHANGED <<at, loading, applyingApps>>
  BY <1>12 DEF Plug, Pull, repo, tasks
<1>13. ASSUME ReadFidoInfo \/ LandFidoInfo \/ Seed \/ Sample \/ ScreenStarts \/ Hold \/ ScreenEnds \/ UNCHANGED vars
       PROVE  UNCHANGED <<at, loading, applyingApps>>
  BY <1>13 DEF ReadFidoInfo, LandFidoInfo, Seed, Sample, ScreenStarts, Hold, ScreenEnds, vars, repo, tasks
<1> QED
  BY <1>1, <1>2, <1>3, <1>4, <1>5, <1>6, <1>7, <1>8, <1>9, <1>10, <1>11, <1>12, <1>13
     DEF Next, Background, User

LEMMA GuardsHold == Spec => [](TypeOK /\ Guards)
BY TypeInit, GuardsInit, TypeStep, GuardsStep, PTL DEF Spec

\* At most one refresh runs, and every way it can end lets the next one start.
THEOREM OneRefresh == Spec => []LoadingIsRefresh
BY GuardsHold, PTL DEF Guards

\* The switches are locked exactly while one of them is being applied.
THEOREM OneSwitch == Spec => []ApplyingIsSwitch
BY GuardsHold, PTL DEF Guards

\* A change the watcher accepts is followed by a refresh; one it meets while a
\* refresh is in flight stays to be seen.
THEOREM ChangesAreKept == Spec => NoChangeDropped
<1>1. ASSUME TypeOK, Guards, [Next]_vars
      PROVE  last' # last /\ watch = "sampled"
               => at["refresh"] = "idle" /\ at'["refresh"] = "card"
  <2> SUFFICES ASSUME last' # last, watch = "sampled"
               PROVE  at["refresh"] = "idle" /\ at'["refresh"] = "card"
    OBVIOUS
  <2>1. React
    <3>1. CASE User \/ CloseSwitch \/ Hold \/ ScreenEnds
      BY <3>1 DEF User, Plug, Pull, RefreshDevice, OpenSwitch, CommitConfig, ScreenStarts,
                  CloseSwitch, Hold, ScreenEnds, watcher
    <3>2. CASE \E t \in Tasks : ReadCard(t) \/ ReadHid(t) \/ ReadInfo(t) \/ ReadApps(t)
      BY <3>2 DEF ReadCard, ReadHid, ReadInfo, ReadApps, watcher
    <3>3. CASE \E t \in Writers : CheckSerial(t) \/ Write(t) \/ LandWrite(t)
      BY <3>3 DEF CheckSerial, Write, LandWrite, watcher
    <3>4. CASE LandRefresh \/ ReadFidoInfo \/ LandFidoInfo \/ Seed \/ Sample \/ UNCHANGED vars
      BY <3>4 DEF LandRefresh, ReadFidoInfo, LandFidoInfo, Seed, Sample, watcher, vars
    <3> QED BY <1>1, <3>1, <3>2, <3>3, <3>4 DEF Next, Background
  <2>2. ~loading
    BY <2>1 DEF React
  <2> QED BY <1>1, <2>1, <2>2 DEF React, Refresh, BeginLoad, Guards, LoadingIsRefresh, TypeOK, Tasks
<1> QED BY <1>1, GuardsHold, PTL DEF NoChangeDropped, Spec

-----------------------------------------------------------------------------
\* A swap of keys.

\* What makes the comparison in refresh() right: the serial it was started with
\* is still the one in the status, and that is the last one shown, if any.
OldSerialIsShown ==
  /\ loading => expected["refresh"] = SerialOf(status)
  /\ SerialOf(status) \in {NoSerial, shown}

LEMMA OldSerialInit == Init => OldSerialIsShown
BY NoneTyped DEF Init, OldSerialIsShown, Tasks

LEMMA OldSerialStep ==
  ASSUME Writers = {}, TypeOK, Guards, OldSerialIsShown, [Next]_vars
  PROVE  /\ OldSerialIsShown'
         /\ shown' # shown => held' \in {NoBoard, status'.card, status'.hid}
<1>1. CASE LandRefresh
  <2> DEFINE t == "refresh"
  <2>1. loading' = FALSE
    BY <1>1 DEF LandRefresh, EndLoad
  <2>2. loading
    BY <1>1 DEF LandRefresh, Guards, LoadingIsRefresh
  <2>3. CASE /\ deviceChanged' = ChangedFrom(expected[t], SerialOf(StatusRead(t)))
             /\ Show(StatusRead(t))
    <3>1. expected[t] \in {NoSerial, shown}
      BY <2>2 DEF OldSerialIsShown
    <3>2. shown' # shown => deviceChanged'
      BY <2>3, <3>1 DEF Show, ChangedFrom
    <3>3. SerialOf(status') \in {NoSerial, shown'}
      BY <2>3 DEF Show
    <3>4. SerialOf(status)' = SerialOf(status')
      BY DEF SerialOf
    <3> QED BY <1>1, <2>1, <3>2, <3>3, <3>4 DEF LandRefresh, Emit, OldSerialIsShown
  <2>4. CASE UNCHANGED <<status, shown>>
    BY <2>1, <2>4 DEF OldSerialIsShown, SerialOf
  <2>5. CASE SetError
    <3>1. SerialOf(status') = NoSerial /\ shown' = shown
      BY <2>5, NoneTyped DEF SetError, Show
    <3>2. SerialOf(status)' = SerialOf(status')
      BY DEF SerialOf
    <3> QED BY <2>1, <3>1, <3>2 DEF OldSerialIsShown
  <2> QED BY <1>1, <2>3, <2>4, <2>5 DEF LandRefresh
<1>2. CASE React \/ RefreshDevice
  <2>1. UNCHANGED <<status, shown>>
    BY <1>2 DEF React, RefreshDevice, Refresh
  <2>2. loading' => expected'["refresh"] = SerialOf(status)
    BY <1>2 DEF React, RefreshDevice, Refresh, BeginLoad, OldSerialIsShown, TypeOK, Tasks
  <2> QED BY <2>1, <2>2 DEF OldSerialIsShown, SerialOf
<1>3. CASE UNCHANGED <<status, shown, loading, expected>>
  BY <1>3 DEF OldSerialIsShown, SerialOf
<1>4. ASSUME NEW b \in Boards, Plug(b) \/ Pull(b)
      PROVE  UNCHANGED <<status, shown, loading, expected>>
  BY <1>4 DEF Plug, Pull, repo, tasks
<1>5. ASSUME NEW t \in Tasks, ReadCard(t) \/ ReadHid(t) \/ ReadInfo(t) \/ ReadApps(t)
      PROVE  UNCHANGED <<status, shown, loading, expected>>
  BY <1>5 DEF ReadCard, ReadHid, ReadInfo, ReadApps, repo
<1>6. ASSUME \/ ReadFidoInfo \/ LandFidoInfo \/ Seed \/ Sample
             \/ ScreenStarts \/ Hold \/ ScreenEnds \/ UNCHANGED vars
      PROVE  UNCHANGED <<status, shown, loading, expected>>
  BY <1>6 DEF ReadFidoInfo, LandFidoInfo, Seed, Sample, ScreenStarts, Hold, ScreenEnds, vars, repo, tasks
<1>7. ~OpenSwitch /\ ~CloseSwitch /\ ~CommitConfig
  BY DEF OpenSwitch, CloseSwitch, CommitConfig
<1> QED BY <1>1, <1>2, <1>3, <1>4, <1>5, <1>6, <1>7 DEF Next, Background, User

\* As long as no screen pushes a state of its own while a refresh is in flight,
\* the screens keep nothing of a key that is no longer the one shown.
THEOREM SwapIsForgotten == ASSUME Writers = {} PROVE Spec => SwapForgets
<1>1. OldSerialIsShown /\ TypeOK /\ Guards /\ [Next]_vars => OldSerialIsShown'
  BY OldSerialStep
<1>2. OldSerialIsShown /\ TypeOK /\ Guards /\ [Next]_vars
        => [ForgetsOthers]_vars
  BY OldSerialStep DEF ForgetsOthers
<1> QED BY <1>1, <1>2, OldSerialInit, GuardsHold, PTL DEF SwapForgets, Spec
=============================================================================
