--------------------------- MODULE CondorJobProofs ---------------------------
(***************************************************************************)
(* That CondorJob is type correct and calls no destroyed handle, for any   *)
(* number of threads, handles, clusters and processes, and a log of any    *)
(* length.                                                                 *)
(***************************************************************************)
EXTENDS CondorJob, TLAPS

-----------------------------------------------------------------------------
(* The operators of the module.                                             *)

\* The translations of process_log_entry and of condor::job::status are total.
LEMMA StateOfEventType ==
    ASSUME NEW type \in EventTypes, IsStateEvent(type)
    PROVE  StateOfEvent[type] \in States
BY DEF EventTypes, IsStateEvent, StateOfEvent, States

LEMMA StateOfStatusType ==
    ASSUME NEW place \in Queued
    PROVE  StateOfStatus[JobStatus(place)] \in States
BY DEF Queued, JobStatus, StateOfStatus, States

LEMMA PoolType ==
    /\ \A cl : PoolOf(cl) \in Pools
    /\ \A id : PoolOfId(id) \in Pools
BY DEF PoolOf, PoolOfId, Pools

LEMMA IdType ==
    /\ \A cl \in Clusters, pr \in Processes : <<cl>> \in Ids /\ <<cl, pr>> \in Ids
    /\ <<Unknown>> \in Ids
BY DEF Ids

\* Appending an event to a log keeps it a log, and makes it longer.
LEMMA LogEventType ==
    ASSUME QueueTypeOK,
           NEW cl \in Clusters, NEW pr \in Processes, NEW type \in EventTypes,
           LogEvent(cl, pr, type)
    PROVE  /\ file' \in [Pools -> Seq(Event)]
           /\ \A p \in Pools : Len(file[p]) \in Nat /\ Len(file'[p]) >= Len(file[p])
<1> DEFINE e == [cluster |-> cl, proc |-> pr, type |-> type]
<1>1. e \in Event
  BY DEF Event
<1>2. \A p \in Pools : /\ Append(file[p], e) \in Seq(Event)
                       /\ Len(file[p]) \in Nat
                       /\ Len(Append(file[p], e)) = Len(file[p]) + 1
  BY <1>1 DEF QueueTypeOK
<1>3. PoolOf(cl) \in Pools
  BY PoolType
<1> HIDE DEF e
<1>4. file' = [file EXCEPT ![PoolOf(cl)] = Append(@, e)]
  BY DEF LogEvent, e
<1> QED
  BY <1>2, <1>3, <1>4 DEF QueueTypeOK

\* The steps of Condor and of its commands.
LEMMA HappeningType ==
    ASSUME NEW h \in Happenings
    PROVE  h[2] \in EventTypes /\ h[3] \in Places
BY DEF Happenings, EventTypes, StateOfEvent, Places, Queued, Over

LEMMA CondorTypes ==
    ASSUME QueueTypeOK, NEW cl \in Clusters, NEW pr \in Processes
    PROVE  /\ CondorStep(cl, pr) => QueueTypeOK'
           /\ CondorSubmit(cl, pr) => QueueTypeOK'
<1>1. CASE CondorStep(cl, pr)
  <2>1. PICK h \in Happenings : /\ queue' = [queue EXCEPT ![cl][pr] = h[3]]
                                /\ LogEvent(cl, pr, h[2])
    BY <1>1 DEF CondorStep
  <2>2. h[2] \in EventTypes /\ h[3] \in Places
    BY HappeningType
  <2>3. queue' \in [Clusters -> [Processes -> Places]]
    BY <2>1, <2>2 DEF QueueTypeOK
  <2> QED
    BY <2>1, <2>2, <2>3, LogEventType DEF QueueTypeOK
<1>2. CASE CondorSubmit(cl, pr)
  <2>1. "submit" \in EventTypes
    BY DEF EventTypes, StateOfEvent
  <2>2. queue' \in [Clusters -> [Processes -> Places]]
    BY <1>2 DEF CondorSubmit, QueueTypeOK, Places, Queued, Over
  <2> QED
    BY <1>2, <2>1, <2>2, LogEventType DEF QueueTypeOK, CondorSubmit
<1> QED
  BY <1>1, <1>2

LEMMA RemoveType ==
    ASSUME QueueTypeOK, NEW cl, NEW prs, CondorRemove(cl, prs)
    PROVE  QueueTypeOK'
<1>1. queue' \in [Clusters -> [Processes -> Places]]
  BY DEF CondorRemove, QueueTypeOK, Places, Queued, Over
<1> QED
  BY <1>1 DEF CondorRemove, QueueTypeOK


(* Whatever moves, the queue and the logs stay well typed, and no log gets  *)
(* shorter.                                                                 *)
LEMMA QueueStep ==
    ASSUME TypeOK, Next \/ UNCHANGED vars
    PROVE  /\ QueueTypeOK'
           /\ \A p \in Pools : Len(file[p]) \in Nat /\ Len(file'[p]) >= Len(file[p])
<1> USE DEF TypeOK
<1>0. \A p \in Pools : Len(file[p]) \in Nat
  BY DEF QueueTypeOK
<1>1. CASE UNCHANGED condor_vars
  BY <1>0, <1>1 DEF condor_vars, QueueTypeOK
<1>2. ASSUME NEW t \in Threads, Submit(t)
      PROVE  \/ UNCHANGED condor_vars
             \/ \E cl \in Clusters, pr \in Processes : CondorSubmit(cl, pr)
  BY <1>2 DEF Submit, Clusters
<1>3. ASSUME NEW t \in Threads, CancelRm(t)
      PROVE  UNCHANGED file /\ QueueTypeOK'
  <2>1. CASE UNCHANGED condor_vars
    BY <2>1 DEF condor_vars, QueueTypeOK
  <2>2. CASE \E cl, prs : CondorRemove(cl, prs)
    <3>1. PICK cl, prs : CondorRemove(cl, prs)
      BY <2>2
    <3> QED
      BY <3>1, RemoveType DEF CondorRemove
  <2> QED
    BY <1>3, <2>1, <2>2 DEF CancelRm
<1>4. CASE Condor
  <2>1. PICK cl \in Clusters, pr \in Processes : CondorStep(cl, pr)
    BY <1>4 DEF Condor
  <2>2. PICK h \in Happenings : LogEvent(cl, pr, h[2])
    BY <2>1 DEF CondorStep
  <2> QED
    BY <1>0, <2>1, <2>2, CondorTypes, LogEventType, HappeningType
<1>5. ASSUME NEW cl \in Clusters, NEW pr \in Processes, CondorSubmit(cl, pr)
      PROVE  QueueTypeOK' /\ \A p \in Pools : Len(file'[p]) >= Len(file[p])
  BY <1>5, CondorTypes, LogEventType DEF CondorSubmit, EventTypes, StateOfEvent
<1>6. ASSUME NEW t \in Threads, Begin(t) \/ SpuriousWake(t)
      PROVE  UNCHANGED condor_vars
  <2>1. ASSUME NEW c \in Cpis, \/ NewJob(t, c) \/ RunCheck(t, c) \/ GetState(t, c)
                               \/ Release(t, c) \/ SpuriousWake(t)
        PROVE  UNCHANGED condor_vars
    BY <2>1, Zenon DEF condor_vars, NewJob, RunCheck, GetState, Release, SpuriousWake
  <2>2. ASSUME NEW c \in Cpis, NEW id, FindJob(t, c, id)
        PROVE  UNCHANGED condor_vars
    BY <2>2, Zenon DEF condor_vars, FindJob
  <2>3. ASSUME NEW c \in Cpis, NEW bound,
               WaitEnter(t, c, bound) \/ CancelCheck(t, c, bound)
        PROVE  UNCHANGED condor_vars
    BY <2>3, Zenon DEF condor_vars, WaitEnter, CancelCheck
  <2> QED
    BY <1>6, <2>1, <2>2, <2>3, Zenon DEF Begin, SpuriousWake, condor_vars
<1>7. ASSUME NEW t \in Threads, Continue(t)
      PROVE  UNCHANGED condor_vars \/ Submit(t) \/ CancelRm(t)
  BY <1>7, Zenon DEF condor_vars, Continue, QueryJob, OpenLog, Register, Attach,
         RunGetLog, RunLock, Publish, WaitLock, Timeout, CancelWait, Destroy, Abort
<1>8. ASSUME NEW p \in Pools, LogStep(p)
      PROVE  UNCHANGED condor_vars
  BY <1>8, Zenon DEF condor_vars, LogStep, Find, Apply, UpdateState, UpdateDone, NotifyAll
<1>9. \/ UNCHANGED condor_vars \/ Condor
      \/ \E t \in Threads : Submit(t) \/ CancelRm(t)
  BY <1>6, <1>7, <1>8, Zenon DEF Next, vars, condor_vars
<1> QED
  BY <1>0, <1>1, <1>2, <1>3, <1>4, <1>5, <1>9

-----------------------------------------------------------------------------
(* What the parts of the actions do to the variables they change.           *)

(* get_state answers with a state, and changes nothing but the cache.       *)
LEMMA RefreshType ==
    ASSUME TypeOK, HandlesHaveData, NEW c \in Cpis, Refresh(c)
    PROVE  HandleTypeOK'
<1>1. Got(c) \in States
  BY DEF TypeOK, HandleTypeOK, DataTypeOK, HandlesHaveData, Got
<1> QED
  BY <1>1 DEF TypeOK, HandleTypeOK, Refresh

(* The moves of a thread keep it well typed.                                *)
LEMMA CallType ==
    ASSUME ThreadTypeOK, NEW t \in Threads, NEW point \in Calls, NEW c \in Cpis \cup {None},
           NEW id \in Ids \cup {NoId}, NEW bound \in Patience,
           Call(t, point, c, id, bound)
    PROVE  ThreadTypeOK'
BY DEF ThreadTypeOK, Call

LEMMA MoveType ==
    ASSUME ThreadTypeOK, NEW t \in Threads
    PROVE  /\ Return(t) => ThreadTypeOK'
           /\ \A point \in Calls : Goto(t, point) => ThreadTypeOK'
<1>1. Return(t) => ThreadTypeOK'
  <2>1. "idle" \in Calls
    BY DEF Calls
  <2> QED
    BY <2>1, CallType DEF Return, Patience
<1>2. \A point \in Calls : Goto(t, point) => ThreadTypeOK'
  BY DEF ThreadTypeOK, Goto
<1> QED
  BY <1>1, <1>2

(* The moves of a log processor keep it well typed.                         *)
LEMMA StartLogType ==
    ASSUME QueueTypeOK, LogTypeOK, NEW p \in Pools, StartLog(p)
    PROVE  LogTypeOK'
<1>1. Len(file[p]) \in Nat
  BY DEF QueueTypeOK
<1> QED
  BY <1>1 DEF LogTypeOK, StartLog, LogProcessor, log_vars, LogPoints

LEMMA AdvanceType ==
    ASSUME LogTypeOK, NEW p \in Pools, Advance(p)
    PROVE  LogTypeOK'
BY DEF LogTypeOK, Advance, LogPoints

LEMMA RegisterType ==
    ASSUME TypeOK, NEW d \in Cpis, NEW id \in Ids \cup {NoId}, NEW s \in States,
           RegisterJob(d, id, s)
    PROVE  /\ registry' \in [Pools -> [Ids -> Cpis \cup {None}]]
           /\ joined' \in [Cpis -> [at : Nat, as : States]]
<1>1. PoolOfId(id) \in Pools
  BY PoolType
<1>2. Passed(PoolOfId(id)) \in Nat
  BY <1>1 DEF TypeOK, LogTypeOK, Passed
<1> QED
  BY <1>1, <1>2 DEF TypeOK, RegistryTypeOK, RegisterJob

LEMMA ForgetType ==
    ASSUME life \in [Cpis -> Lives], instances \in [Cpis -> SUBSET Cpis],
           NEW c \in Cpis, Forget(c)
    PROVE  life' \in [Cpis -> Lives] /\ instances' \in [Cpis -> SUBSET Cpis]
BY DEF Forget, Lives

\* The next event of a log that has one is an event.
LEMMA NextEventType ==
    ASSUME TypeOK, NEW p \in Pools, tail[p] < Len(file[p])
    PROVE  /\ NextEvent(p) \in Event
           /\ FindTarget(p, NextEvent(p)) \in Cpis \cup {None}
<1>1. NextEvent(p) \in Event
  BY DEF TypeOK, LogTypeOK, QueueTypeOK, NextEvent
<1>2. NextEvent(p).cluster \in Clusters /\ NextEvent(p).proc \in Processes
  BY <1>1 DEF Event
<1> QED
  BY <1>1, <1>2, IdType DEF TypeOK, RegistryTypeOK, FindTarget

(* What a step leaves alone stays well typed.                               *)
LEMMA SameType ==
    ASSUME TypeOK
    PROVE  /\ UNCHANGED handle_vars => HandleTypeOK'
           /\ UNCHANGED data_vars => DataTypeOK'
           /\ UNCHANGED <<reg_vars, reg_lock>> => RegistryTypeOK'
           /\ UNCHANGED log_vars => LogTypeOK'
           /\ UNCHANGED thread_vars => ThreadTypeOK'
           /\ UNCHANGED fault => (fault \subseteq {"abort", "dangling"})'
<1>1. UNCHANGED handle_vars => HandleTypeOK'
  BY DEF TypeOK, HandleTypeOK, handle_vars
<1>2. UNCHANGED data_vars => DataTypeOK'
  BY DEF TypeOK, DataTypeOK, data_vars
<1>3. UNCHANGED <<reg_vars, reg_lock>> => RegistryTypeOK'
  BY DEF TypeOK, RegistryTypeOK, reg_vars
<1>4. UNCHANGED log_vars => LogTypeOK'
  BY DEF TypeOK, LogTypeOK, log_vars
<1>5. UNCHANGED thread_vars => ThreadTypeOK'
  BY DEF TypeOK, ThreadTypeOK, thread_vars
<1> QED
  BY <1>1, <1>2, <1>3, <1>4, <1>5 DEF TypeOK

-----------------------------------------------------------------------------
(* Every step keeps the variables well typed.                               *)

\* The constructor.
LEMMA ConstructType ==
    ASSUME TypeOK, HandlesHaveData, CallsOnHandles, QueueTypeOK', NEW t \in Threads
    PROVE  /\ \A c \in Cpis : NewJob(t, c) => TypeOK'
           /\ \A c \in Cpis, id \in PickIds : FindJob(t, c, id) => TypeOK'
           /\ QueryJob(t) \/ OpenLog(t) \/ Register(t) \/ Attach(t) => TypeOK'
<1> USE SameType
<1>0. HandleTypeOK /\ DataTypeOK /\ RegistryTypeOK /\ LogTypeOK /\ ThreadTypeOK
  BY DEF TypeOK
<1>1. ASSUME NEW c \in Cpis, NewJob(t, c)
      PROVE  TypeOK'
  <2>1. HandleTypeOK' /\ DataTypeOK'
    BY <1>0, <1>1 DEF NewJob, HandleTypeOK, DataTypeOK, Lives
  <2> QED
    BY <1>0, <1>1, <2>1 DEF NewJob, TypeOK
<1>2. ASSUME NEW c \in Cpis, NEW id \in PickIds, FindJob(t, c, id)
      PROVE  TypeOK'
  <2>1. id \in Ids /\ registry[PoolOfId(id)][id] \in Cpis \cup {None}
    BY <1>0, JobAssumption, PoolType DEF RegistryTypeOK
  <2>2. HandleTypeOK'
    BY <1>0, <1>2, <2>1 DEF FindJob, FoundJob, HandleTypeOK, Lives
  <2>3. ThreadTypeOK'
    BY <1>0, <1>2, <2>1, CallType DEF FindJob, Calls, Patience
  <2> QED
    BY <1>2, <2>2, <2>3 DEF FindJob, TypeOK
<1>3. ASSUME QueryJob(t)
      PROVE  TypeOK'
  <2>1. me[t] \in Cpis /\ want[t] \in Ids \cup {NoId}
    BY <1>0, <1>3 DEF QueryJob, Step, At, CallsOnHandles, ThreadTypeOK
  <2>2. \A pr \in Printed(want[t]) :
            StateOfStatus[JobStatus(queue[want[t][1]][pr])] \in States
    BY StateOfStatusType DEF Printed
  <2>3. HandleTypeOK'
    BY <1>0, <1>3, <2>1 DEF QueryJob, HandleTypeOK, Lives
  <2>4. DataTypeOK'
    BY <1>0, <1>3, <2>1, <2>2 DEF QueryJob, DataTypeOK
  <2>5. ThreadTypeOK'
    BY <1>0, <1>3, MoveType DEF QueryJob, Calls
  <2> QED
    BY <1>3, <2>3, <2>4, <2>5 DEF QueryJob, TypeOK
<1>4. ASSUME OpenLog(t)
      PROVE  TypeOK'
  <2>1. LogTypeOK' /\ ThreadTypeOK'
    BY <1>0, <1>4, PoolType, StartLogType, MoveType DEF OpenLog, TypeOK, Calls
  <2> QED
    BY <1>4, <2>1 DEF OpenLog, TypeOK
<1>5. ASSUME Register(t)
      PROVE  TypeOK'
  <2>1. CASE Abort
    BY <1>0, <2>1 DEF Abort, TypeOK
  <2>2. CASE ~Abort
    <3>1. me[t] \in Cpis /\ want[t] \in Ids \cup {NoId}
      BY <1>0, <1>5 DEF Register, Step, At, CallsOnHandles, ThreadTypeOK
    <3>2. RegisterJob(me[t], want[t], state[me[t]]) /\ UNCHANGED reg_lock
      BY <1>5, <2>2 DEF Register
    <3>3. RegistryTypeOK'
      BY <1>0, <3>1, <3>2, RegisterType DEF DataTypeOK, RegistryTypeOK
    <3>4. HandleTypeOK'
      BY <1>0, <1>5, <2>2, <3>1 DEF Register, HandleTypeOK
    <3>5. ThreadTypeOK'
      BY <1>0, <1>5, <2>2, MoveType DEF Register, Calls
    <3> QED
      BY <1>5, <2>2, <3>3, <3>4, <3>5 DEF Register, TypeOK
  <2> QED
    BY <2>1, <2>2
<1>6. ASSUME Attach(t)
      PROVE  TypeOK'
  <2>1. me[t] \in Cpis
    BY <1>0, <1>6 DEF Attach, Step, At, CallsOnHandles
  <2>2. HandleTypeOK'
    BY <1>0, <1>6, <2>1 DEF Attach, HandleTypeOK, Lives
  <2>3. DataTypeOK'
    <3>1. instances' = [instances EXCEPT ![MyData(t)] = @ \cup {me[t]}]
      BY <1>6 DEF Attach
    <3>2. instances' \in [Cpis -> SUBSET Cpis]
      BY <1>0, <2>1, <3>1 DEF DataTypeOK
    <3> QED
      BY <1>0, <1>6, <3>2 DEF Attach, DataTypeOK
  <2>4. ThreadTypeOK'
    BY <1>0, <1>6, MoveType DEF Attach
  <2> QED
    BY <1>6, <2>2, <2>3, <2>4 DEF Attach, TypeOK
<1> QED
  BY <1>1, <1>2, <1>3, <1>4, <1>5, <1>6

\* sync_run.
LEMMA RunType ==
    ASSUME TypeOK, HandlesHaveData, CallsOnHandles, QueueTypeOK', NEW t \in Threads
    PROVE  /\ \A c \in Cpis : RunCheck(t, c) => TypeOK'
           /\ RunGetLog(t) \/ RunLock(t) \/ Submit(t) \/ Publish(t) => TypeOK'
<1> USE SameType
<1>0. HandleTypeOK /\ DataTypeOK /\ RegistryTypeOK /\ LogTypeOK /\ ThreadTypeOK
  BY DEF TypeOK
<1>1. ASSUME NEW c \in Cpis, RunCheck(t, c)
      PROVE  TypeOK'
  <2>1. HandleTypeOK' /\ ThreadTypeOK'
    BY <1>0, <1>1, RefreshType, CallType DEF RunCheck, Calls, Patience
  <2> QED
    BY <1>1, <2>1 DEF RunCheck, TypeOK
<1>2. ASSUME RunGetLog(t)
      PROVE  TypeOK'
  <2>1. LogTypeOK' /\ ThreadTypeOK'
    BY <1>0, <1>2, StartLogType, MoveType DEF RunGetLog, TypeOK, Calls, Pools
  <2> QED
    BY <1>2, <2>1 DEF RunGetLog, TypeOK
<1>3. ASSUME RunLock(t)
      PROVE  TypeOK'
  <2>1. RegistryTypeOK' /\ ThreadTypeOK'
    BY <1>0, <1>3, MoveType DEF RunLock, Calls, RegistryTypeOK, reg_vars
  <2> QED
    BY <1>3, <2>1 DEF RunLock, TypeOK
<1>4. ASSUME Submit(t)
      PROVE  TypeOK'
  <2>1. me[t] \in Cpis
    BY <1>0, <1>4 DEF Submit, Step, At, CallsOnHandles
  <2>2. CASE Unlock /\ Return(t)
    <3>1. RegistryTypeOK' /\ ThreadTypeOK'
      BY <1>0, <1>4, <2>2, MoveType DEF Submit, Unlock, RegistryTypeOK, reg_vars
    <3> QED
      BY <1>4, <3>1 DEF Submit, TypeOK
  <2>3. CASE ~(Unlock /\ Return(t))
    <3>1. PICK cl \in Own : \E id \in {<<cl>>, <<Unknown>>} :
             Call(t, "publish", me[t], id, "zero")
      BY <1>4, <2>3 DEF Submit
    <3>2. <<cl>> \in Ids /\ <<Unknown>> \in Ids
      BY DEF Ids, Clusters
    <3>3. ThreadTypeOK'
      BY <1>0, <2>1, <3>1, <3>2, CallType DEF Calls, Patience
    <3> QED
      BY <1>4, <2>3, <3>3 DEF Submit, TypeOK
  <2> QED
    BY <1>4, <2>2, <2>3 DEF Submit
<1>5. ASSUME Publish(t)
      PROVE  TypeOK'
  <2>1. CASE Abort
    BY <1>0, <2>1 DEF Abort, TypeOK
  <2>2. CASE ~Abort
    <3>1. me[t] \in Cpis /\ want[t] \in Ids \cup {NoId} /\ MyData(t) \in Cpis
      BY <1>0, <1>5 DEF Publish, Step, At, HandlesHaveData, CallsOnHandles, ThreadTypeOK, MyData, LifeAt
    <3>2. RegisterJob(MyData(t), want[t], "Running") /\ Unlock
      BY <1>5, <2>2 DEF Publish
    <3>3. RegistryTypeOK'
      BY <1>0, <3>1, <3>2, RegisterType DEF States, RegistryTypeOK, Unlock
    <3>4. HandleTypeOK'
      BY <1>0, <1>5, <2>2, <3>1 DEF Publish, HandleTypeOK
    <3>5. DataTypeOK'
      BY <1>0, <1>5, <2>2, <3>1 DEF Publish, DataTypeOK, States
    <3>6. ThreadTypeOK'
      BY <1>0, <1>5, <2>2, MoveType DEF Publish
    <3> QED
      BY <1>5, <2>2, <3>3, <3>4, <3>5, <3>6 DEF Publish, TypeOK
  <2> QED
    BY <2>1, <2>2
<1> QED
  BY <1>1, <1>2, <1>3, <1>4, <1>5

\* sync_get_state, sync_wait, sync_cancel and the end of a handle.
LEMMA WaitType ==
    ASSUME TypeOK, HandlesHaveData, CallsOnHandles, QueueTypeOK', NEW t \in Threads
    PROVE  /\ \A c \in Cpis : GetState(t, c) \/ Release(t, c) => TypeOK'
           /\ \A c \in Cpis, bound \in Patiences :
                 WaitEnter(t, c, bound) \/ CancelCheck(t, c, bound) => TypeOK'
           /\ WaitLock(t) \/ Timeout(t) \/ SpuriousWake(t) => TypeOK'
           /\ CancelRm(t) \/ CancelWait(t) \/ Destroy(t) => TypeOK'
<1> USE SameType
<1>0. HandleTypeOK /\ DataTypeOK /\ RegistryTypeOK /\ LogTypeOK /\ ThreadTypeOK
  BY DEF TypeOK
<1>a. ~At(t, "idle") => me[t] \in Cpis
  BY DEF CallsOnHandles
<1>1. ASSUME NEW c \in Cpis, GetState(t, c)
      PROVE  TypeOK'
  BY <1>0, <1>1, RefreshType DEF GetState, TypeOK
<1>2. ASSUME NEW c \in Cpis, Release(t, c)
      PROVE  TypeOK'
  <2>1. HandleTypeOK'
    BY <1>0, <1>2 DEF Release, HandleTypeOK, Lives
  <2>2. ThreadTypeOK'
    BY <1>0, <1>2, MoveType, CallType DEF Release, Calls, Patience
  <2> QED
    BY <1>2, <2>1, <2>2 DEF Release, TypeOK
<1>3. ASSUME NEW c \in Cpis, NEW bound \in Patiences,
             WaitEnter(t, c, bound) \/ CancelCheck(t, c, bound)
      PROVE  TypeOK'
  <2>1. HandleTypeOK'
    BY <1>3, RefreshType DEF WaitEnter, CancelCheck
  <2>2. ThreadTypeOK'
    BY <1>0, <1>3, CallType, JobAssumption DEF WaitEnter, CancelCheck, Calls, Patience
  <2> QED
    BY <1>3, <2>1, <2>2 DEF WaitEnter, CancelCheck, TypeOK
<1>4. ASSUME WaitLock(t) \/ CancelWait(t)
      PROVE  TypeOK'
  <2>1. HandleTypeOK'
    BY <1>4, <1>a, RefreshType DEF WaitLock, CancelWait, Step, At
  <2>2. ThreadTypeOK'
    BY <1>0, <1>4, MoveType DEF WaitLock, CancelWait, Calls
  <2> QED
    BY <1>4, <2>1, <2>2 DEF WaitLock, CancelWait, TypeOK
<1>5. ASSUME Timeout(t) \/ SpuriousWake(t)
      PROVE  TypeOK'
  <2>1. ThreadTypeOK'
    BY <1>0, <1>5, <1>a, MoveType, CallType DEF Timeout, SpuriousWake, Step, At, Calls, Patience
  <2> QED
    BY <1>5, <2>1 DEF Timeout, SpuriousWake, TypeOK
<1>6. ASSUME CancelRm(t)
      PROVE  TypeOK'
  <2>1. ThreadTypeOK'
    BY <1>0, <1>6, MoveType DEF CancelRm, Calls
  <2> QED
    BY <1>6, <2>1 DEF CancelRm, TypeOK
<1>7. ASSUME Destroy(t)
      PROVE  TypeOK'
  <2>1. me[t] \in Cpis
    BY <1>7, <1>a DEF Destroy, Step, At
  <2>2. HandleTypeOK' /\ DataTypeOK'
    BY <1>0, <1>7, <2>1, ForgetType DEF Destroy, HandleTypeOK, DataTypeOK
  <2>3. ThreadTypeOK'
    BY <1>0, <1>7, MoveType DEF Destroy
  <2> QED
    BY <1>7, <2>2, <2>3 DEF Destroy, TypeOK
<1> QED
  BY <1>1, <1>2, <1>3, <1>4, <1>5, <1>6, <1>7

\* The log processors.
LEMMA LogType ==
    ASSUME TypeOK, LogsLock, QueueTypeOK', NEW p \in Pools, LogStep(p)
    PROVE  TypeOK'
<1> USE SameType
<1>0. HandleTypeOK /\ DataTypeOK /\ RegistryTypeOK /\ LogTypeOK /\ ThreadTypeOK
  BY DEF TypeOK
<1>1. CASE Find(p)
  <2>1. FindTarget(p, NextEvent(p)) \in Cpis \cup {None}
    BY <1>1, NextEventType DEF Find
  <2>2. LogTypeOK'
    BY <1>0, <1>1, <2>1, AdvanceType DEF Find, LogTypeOK, LogPoints
  <2> QED
    BY <1>0, <1>1, <2>2 DEF Find, TypeOK
<1>2. CASE Apply(p)
  <2>1. target[p] \in Cpis /\ NextEvent(p) \in Event
    BY <1>2, NextEventType DEF Apply, LogAt, LogsLock
  <2>2. IsStateEvent(NextEvent(p).type) => StateOfEvent[NextEvent(p).type] \in States
    BY <2>1, StateOfEventType DEF Event
  <2>3. DataTypeOK'
    <3>1. CASE UNCHANGED data_vars
      BY <1>0, <3>1 DEF DataTypeOK, data_vars
    <3>2. CASE ~UNCHANGED data_vars
      <4>1. /\ IsStateEvent(NextEvent(p).type)
            /\ state' = [state EXCEPT ![target[p]] = StateOfEvent[NextEvent(p).type]]
            /\ locked' = [locked EXCEPT ![target[p]] = TRUE]
            /\ UNCHANGED <<cluster_id, instances>>
        BY <1>2, <3>2 DEF Apply
      <4> QED
        BY <1>0, <2>1, <2>2, <4>1 DEF DataTypeOK
    <3> QED
      BY <3>1, <3>2
  <2>4. LogTypeOK'
    BY <1>0, <1>2, <2>1, AdvanceType DEF Apply, LogTypeOK, DataTypeOK, LogPoints
  <2> QED
    BY <1>0, <1>2, <2>3, <2>4 DEF Apply, TypeOK
<1>3. ASSUME NEW c \in Cpis, UpdateState(p, c)
      PROVE  TypeOK'
  <2>1. LogTypeOK'
    BY <1>0, <1>3 DEF UpdateState, LogTypeOK, LogPoints
  <2> QED
    BY <1>0, <1>3, <2>1 DEF UpdateState, TypeOK
<1>4. CASE UpdateDone(p)
  <2>1. pin[p] \in Cpis
    BY <1>0, <1>4 DEF UpdateDone, LogAt, LogsLock, LogTypeOK
  <2>2. HandleTypeOK'
    BY <1>0, <1>4, <2>1, ForgetType DEF UpdateDone, Told, HandleTypeOK, DataTypeOK
  <2>3. DataTypeOK'
    BY <1>0, <1>4, <2>1, ForgetType DEF UpdateDone, HandleTypeOK, DataTypeOK
  <2>4. LogTypeOK'
    BY <1>0, <1>4 DEF UpdateDone, LogTypeOK, LogPoints
  <2>5. (fault \subseteq {"abort", "dangling"})'
    BY <1>4 DEF UpdateDone, TypeOK
  <2> QED
    BY <1>0, <1>4, <2>2, <2>3, <2>4, <2>5 DEF UpdateDone, TypeOK
<1>5. CASE NotifyAll(p)
  <2>1. DataTypeOK'
    BY <1>0, <1>5 DEF NotifyAll, DataTypeOK
  <2>2. LogTypeOK'
    BY <1>0, <1>5, AdvanceType DEF NotifyAll
  <2>3. ThreadTypeOK'
    BY <1>0, <1>5 DEF NotifyAll, ThreadTypeOK, Calls
  <2> QED
    BY <1>5, <2>1, <2>2, <2>3 DEF NotifyAll, TypeOK
<1> QED
  BY <1>1, <1>2, <1>3, <1>4, <1>5 DEF LogStep

LEMMA TypeStep ==
    ASSUME TypeOK, HandlesHaveData, CallsOnHandles, LogsLock, Next \/ UNCHANGED vars
    PROVE  TypeOK'
<1>1. QueueTypeOK'
  BY QueueStep
<1>2. CASE \E t \in Threads : Begin(t) \/ Continue(t) \/ SpuriousWake(t)
  BY <1>1, <1>2, ConstructType, RunType, WaitType DEF Begin, Continue
<1>3. CASE \E p \in Pools : LogStep(p)
  BY <1>1, <1>3, LogType
<1>4. CASE Condor \/ UNCHANGED vars
  BY <1>1, <1>4, SameType DEF Condor, vars, job_vars, TypeOK
<1> QED
  BY <1>2, <1>3, <1>4 DEF Next

-----------------------------------------------------------------------------
(* Every step leaves every call on a handle of the right life, and no two   *)
(* calls construct or destroy one handle.                                   *)

(* What is to be shown of a step of thread t, on handle c if it is then in  *)
(* a call: only the life of c changes, and only if no other thread has a    *)
(* call on it.                                                              *)
StepOn(t, c) ==
    /\ \A u \in Threads \ {t} : pc'[u] = pc[u] /\ me'[u] = me[u]
    /\ \A x \in Cpis \ {c} : life'[x] = life[x]
    /\ \/ life'[c] = life[c]
       \/ \A u \in Threads \ {t} : me[u] # c
    /\ \/ pc'[t] = "idle" /\ me'[t] = None
       \/ /\ pc'[t] # "idle" /\ me'[t] = c /\ life'[c] = LifeAt(pc'[t])
          /\ LifeAt(pc'[t]) = "live" \/ \A u \in Threads \ {t} : me[u] # c

LEMMA OneThreadSteps ==
    ASSUME CallsOnHandles, CallsExclude, NEW t \in Threads, NEW c \in Cpis, StepOn(t, c)
    PROVE  CallsOnHandles' /\ CallsExclude'
<1>1. CallsOnHandles'
  BY DEF CallsOnHandles, StepOn, At
<1>2. ASSUME NEW u \in Threads, NEW v \in Threads, u # v, LifeAt(pc'[u]) # "live"
      PROVE  me'[u] # me'[v]
  <2>1. LifeAt("idle") = "live"
    BY DEF LifeAt
  <2>2. CASE u = t
    BY <1>2, <2>1, <2>2 DEF StepOn
  <2>3. CASE v = t
    <3>1. me'[u] = me[u] /\ me[u] \in Cpis /\ life[me[u]] = LifeAt(pc[u]) /\ pc'[u] = pc[u]
      BY <1>2, <2>1, <2>3 DEF StepOn, CallsOnHandles, At
    <3>2. CASE me'[t] = None
      BY <2>3, <3>1, <3>2, JobAssumption
    <3>3. CASE me'[t] # None
      BY <1>2, <2>3, <3>1, <3>3 DEF StepOn
    <3> QED
      BY <3>2, <3>3
  <2>4. CASE u # t /\ v # t
    BY <1>2, <2>4 DEF StepOn, CallsExclude
  <2> QED
    BY <2>2, <2>3, <2>4
<1>3. CallsExclude'
  BY <1>2 DEF CallsExclude
<1> QED
  BY <1>1, <1>3

(* A handle that is not constructed is in no call and listens to nothing.   *)
LEMMA FreshHandle ==
    ASSUME CallsOnHandles, ListenersAlive, NEW c \in Cpis, life[c] = "none"
    PROVE  /\ \A u \in Threads : me[u] # c
           /\ \A d \in Cpis : c \notin instances[d]
BY JobAssumption DEF CallsOnHandles, ListenersAlive, LifeAt

(* A handle that is constructed, destroyed or used by nobody else.          *)
LEMMA OwnHandle ==
    ASSUME CallsOnHandles, CallsExclude, NEW t \in Threads, LifeAt(pc[t]) # "live"
    PROVE  /\ me[t] \in Cpis /\ life[me[t]] = LifeAt(pc[t])
           /\ \A u \in Threads \ {t} : me[u] # me[t]
BY DEF CallsOnHandles, CallsExclude, LifeAt, At

LEMMA ConstructStepsOn ==
    ASSUME TypeOK, CallsOnHandles, CallsExclude, ListenersAlive, NEW t \in Threads
    PROVE  /\ \A c \in Cpis : NewJob(t, c) => StepOn(t, c)
           /\ \A c \in Cpis, id \in PickIds : FindJob(t, c, id) => StepOn(t, c)
           /\ QueryJob(t) \/ OpenLog(t) \/ Register(t) \/ Attach(t)
                 => me[t] \in Cpis /\ StepOn(t, me[t])
<1>0. HandleTypeOK /\ ThreadTypeOK
  BY DEF TypeOK
<1>1. ASSUME NEW c \in Cpis, NewJob(t, c)
      PROVE  StepOn(t, c)
  <2>1. \A u \in Threads : me[u] # c
    BY <1>1, FreshHandle DEF NewJob
  <2>2. pc[t] = "idle" /\ me[t] = None
    BY <1>1 DEF NewJob, Step, At, CallsOnHandles
  <2> QED
    BY <1>0, <1>1, <2>1, <2>2 DEF NewJob, StepOn, HandleTypeOK, thread_vars
<1>2. ASSUME NEW c \in Cpis, NEW id \in PickIds, FindJob(t, c, id)
      PROVE  StepOn(t, c)
  <2>1. \A u \in Threads : me[u] # c
    BY <1>2, FreshHandle DEF FindJob
  <2> QED
    BY <1>0, <1>2, <2>1 DEF FindJob, StepOn, Call, LifeAt, HandleTypeOK, ThreadTypeOK
<1>3. ASSUME QueryJob(t) \/ OpenLog(t) \/ Register(t) \/ Attach(t)
      PROVE  me[t] \in Cpis /\ StepOn(t, me[t])
  <2>1. pc[t] \in {"query", "openlog", "register", "attach"}
    BY <1>3 DEF QueryJob, OpenLog, Register, Attach, Step, At
  <2>2. /\ me[t] \in Cpis /\ life[me[t]] = "ctor"
        /\ \A u \in Threads \ {t} : me[u] # me[t]
    BY <2>1, OwnHandle DEF LifeAt
  <2>3. CASE QueryJob(t)
    BY <1>0, <2>2, <2>3 DEF QueryJob, StepOn, Return, Call, Goto, LifeAt, HandleTypeOK, ThreadTypeOK
  <2>4. CASE OpenLog(t)
    BY <1>0, <2>2, <2>4 DEF OpenLog, StepOn, Goto, LifeAt, HandleTypeOK, ThreadTypeOK, handle_vars
  <2>5. CASE Register(t)
    BY <1>0, <2>1, <2>2, <2>5 DEF Register, Abort, StepOn, Goto, LifeAt, HandleTypeOK, ThreadTypeOK,
                             handle_vars, thread_vars
  <2>6. CASE Attach(t)
    BY <1>0, <2>2, <2>6 DEF Attach, StepOn, Return, Call, HandleTypeOK, ThreadTypeOK
  <2> QED
    BY <1>3, <2>2, <2>3, <2>4, <2>5, <2>6
<1> QED
  BY <1>1, <1>2, <1>3

LEMMA UseStepsOn ==
    ASSUME TypeOK, CallsOnHandles, CallsExclude, NEW t \in Threads
    PROVE  /\ \A c \in Cpis : RunCheck(t, c) \/ GetState(t, c) \/ Release(t, c) => StepOn(t, c)
           /\ \A c \in Cpis, bound \in Patiences :
                 WaitEnter(t, c, bound) \/ CancelCheck(t, c, bound) => StepOn(t, c)
           /\ RunGetLog(t) \/ RunLock(t) \/ Submit(t) \/ Publish(t)
                 => me[t] \in Cpis /\ StepOn(t, me[t])
           /\ WaitLock(t) \/ Timeout(t) \/ SpuriousWake(t) \/ CancelRm(t) \/ CancelWait(t)
                 => me[t] \in Cpis /\ StepOn(t, me[t])
           /\ Destroy(t) => me[t] \in Cpis /\ StepOn(t, me[t])
<1>0. HandleTypeOK /\ ThreadTypeOK
  BY DEF TypeOK
<1>1. ASSUME NEW c \in Cpis, RunCheck(t, c)
      PROVE  StepOn(t, c)
  BY <1>0, <1>1 DEF RunCheck, Refresh, StepOn, Call, LifeAt, ThreadTypeOK
<1>2. ASSUME NEW c \in Cpis, GetState(t, c)
      PROVE  StepOn(t, c)
  BY <1>2 DEF GetState, Refresh, StepOn, Step, At, CallsOnHandles, thread_vars
<1>3. ASSUME NEW c \in Cpis, Release(t, c)
      PROVE  StepOn(t, c)
  <2>1. pc[t] = "idle" /\ me[t] = None /\ \A u \in Threads : me[u] # c
    BY <1>3 DEF Release, Step, At, CallsOnHandles, InUse
  <2> QED
    BY <1>0, <1>3, <2>1 DEF Release, StepOn, Call, LifeAt, HandleTypeOK, ThreadTypeOK, thread_vars
<1>4. ASSUME NEW c \in Cpis, NEW bound \in Patiences,
             WaitEnter(t, c, bound) \/ CancelCheck(t, c, bound)
      PROVE  StepOn(t, c)
  BY <1>0, <1>4 DEF WaitEnter, CancelCheck, Refresh, StepOn, Call, LifeAt, ThreadTypeOK
<1>5. ASSUME RunGetLog(t) \/ RunLock(t) \/ Submit(t) \/ Publish(t)
      PROVE  me[t] \in Cpis /\ StepOn(t, me[t])
  <2>1. pc[t] \in {"run_log", "run_lock", "submit", "publish"}
    BY <1>5 DEF RunGetLog, RunLock, Submit, Publish, Step, At
  <2>2. me[t] \in Cpis /\ life[me[t]] = "live"
    BY <2>1 DEF CallsOnHandles, At, LifeAt
  <2>3. CASE RunGetLog(t) \/ RunLock(t)
    BY <1>0, <2>2, <2>3 DEF RunGetLog, RunLock, StepOn, Goto, LifeAt, ThreadTypeOK, handle_vars
  <2>4. CASE Submit(t)
    BY <1>0, <2>2, <2>4 DEF Submit, StepOn, Return, Call, LifeAt, ThreadTypeOK, handle_vars
  <2>5. CASE Publish(t)
    BY <1>0, <2>1, <2>2, <2>5 DEF Publish, Abort, StepOn, Return, Call, LifeAt, ThreadTypeOK,
                             handle_vars, thread_vars
  <2> QED
    BY <1>5, <2>2, <2>3, <2>4, <2>5
<1>6. ASSUME WaitLock(t) \/ Timeout(t) \/ SpuriousWake(t) \/ CancelRm(t) \/ CancelWait(t)
      PROVE  me[t] \in Cpis /\ StepOn(t, me[t])
  <2>1. pc[t] \in {"wait_lock", "waiting", "cancel_rm", "cancel_check"}
    BY <1>6 DEF WaitLock, Timeout, SpuriousWake, CancelRm, CancelWait, Step, At
  <2>2. me[t] \in Cpis /\ life[me[t]] = "live"
    BY <2>1 DEF CallsOnHandles, At, LifeAt
  <2>3. CASE WaitLock(t) \/ CancelWait(t)
    BY <1>0, <2>2, <2>3 DEF WaitLock, CancelWait, Refresh, StepOn, Return, Call, Goto, LifeAt,
                            ThreadTypeOK
  <2>4. CASE Timeout(t) \/ SpuriousWake(t)
    BY <1>0, <2>2, <2>4 DEF Timeout, SpuriousWake, StepOn, Call, Goto, LifeAt, ThreadTypeOK,
                            handle_vars
  <2>5. CASE CancelRm(t)
    BY <1>0, <2>2, <2>5 DEF CancelRm, StepOn, Return, Call, Goto, LifeAt, ThreadTypeOK,
                            handle_vars
  <2> QED
    BY <1>6, <2>2, <2>3, <2>4, <2>5
<1>7. ASSUME Destroy(t)
      PROVE  me[t] \in Cpis /\ StepOn(t, me[t])
  <2>1. me[t] \in Cpis /\ \A u \in Threads \ {t} : me[u] # me[t]
    BY <1>7, OwnHandle DEF Destroy, Step, At, LifeAt
  <2> QED
    BY <1>0, <1>7, <2>1 DEF Destroy, Forget, StepOn, Return, Call, HandleTypeOK, ThreadTypeOK
<1> QED
  BY <1>1, <1>2, <1>3, <1>4, <1>5, <1>6, <1>7

(* update_state never reaches a handle that is being constructed or was     *)
(* destroyed.                                                               *)
LEMMA PinnedAlive ==
    ASSUME TypeOK, LogsLock, InstancesAlive, NEW p \in Pools, lpc[p] = "pinned"
    PROVE  /\ pin[p] \in Cpis /\ target[p] \in Cpis
           /\ pin[p] \in instances[target[p]] /\ job_data[pin[p]] = target[p]
           /\ life[pin[p]] \in {"live", "dying", "orphan"}
<1>1. pin[p] \in todo[p] /\ target[p] \in Cpis
  BY DEF LogsLock, Notifying
<1>2. pin[p] \in instances[target[p]]
  BY <1>1 DEF InstancesAlive, LoopsOnListeners
<1>3. pin[p] \in Cpis
  BY <1>1 DEF TypeOK, LogTypeOK
<1> QED
  BY <1>1, <1>2, <1>3 DEF InstancesAlive, ListenersAlive

LEMMA LogStepsCalls ==
    ASSUME TypeOK, CallsOnHandles, CallsExclude, LogsLock, InstancesAlive,
           NEW p \in Pools, LogStep(p)
    PROVE  CallsOnHandles' /\ CallsExclude'
<1>0. HandleTypeOK /\ ThreadTypeOK
  BY DEF TypeOK
<1>1. CASE UNCHANGED <<life, thread_vars>>
  BY <1>1 DEF CallsOnHandles, CallsExclude, At, thread_vars
<1>2. CASE UpdateDone(p)
  <2>1. life[pin[p]] \in {"live", "dying", "orphan"} /\ pin[p] \in Cpis
    BY <1>2, PinnedAlive DEF UpdateDone, LogAt
  <2>2. \A t \in Threads : ~At(t, "idle") => life'[me[t]] = life[me[t]]
    BY <1>0, <1>2, <2>1 DEF UpdateDone, Forget, HandleTypeOK, CallsOnHandles, LifeAt
  <2> QED
    BY <1>2, <2>2 DEF UpdateDone, CallsOnHandles, CallsExclude, At, thread_vars
<1>3. CASE NotifyAll(p)
  <2>1. \A t \in Threads : /\ LifeAt(pc'[t]) = LifeAt(pc[t])
                           /\ pc'[t] = "idle" <=> pc[t] = "idle"
    BY <1>3 DEF NotifyAll, Woken, At, LifeAt
  <2> QED
    BY <1>3, <2>1 DEF NotifyAll, CallsOnHandles, CallsExclude, At, handle_vars
<1>4. \/ UNCHANGED <<life, thread_vars>> \/ UpdateDone(p) \/ NotifyAll(p)
  BY Zenon DEF LogStep, Find, Apply, UpdateState, handle_vars
<1> QED
  BY <1>1, <1>2, <1>3, <1>4

LEMMA CallsStep ==
    ASSUME Inv, Next \/ UNCHANGED vars
    PROVE  CallsOnHandles' /\ CallsExclude'
<1>1. /\ TypeOK /\ CallsOnHandles /\ CallsExclude
      /\ LogsLock /\ InstancesAlive /\ ListenersAlive
  BY DEF Inv, InstancesAlive
<1>2. ASSUME NEW t \in Threads, Begin(t)
      PROVE  \E c \in Cpis : StepOn(t, c)
  BY <1>1, <1>2, ConstructStepsOn, UseStepsOn DEF Begin
<1>3. ASSUME NEW t \in Threads, Continue(t) \/ SpuriousWake(t)
      PROVE  \E c \in Cpis : StepOn(t, c)
  BY <1>1, <1>3, ConstructStepsOn, UseStepsOn DEF Continue
<1>4. CASE \E p \in Pools : LogStep(p)
  BY <1>1, <1>4, LogStepsCalls
<1>5. CASE Condor \/ UNCHANGED vars
  <2>1. UNCHANGED <<life, pc, me>>
    BY <1>5 DEF Condor, vars, job_vars, handle_vars, thread_vars
  <2> QED
    BY <1>1, <2>1 DEF CallsOnHandles, CallsExclude, At
<1> QED
  BY <1>1, <1>2, <1>3, <1>4, <1>5, OneThreadSteps DEF Next

-----------------------------------------------------------------------------
(* Every step leaves a constructed handle with data, and no event waiting   *)
(* for one that is not constructed.                                         *)
LEMMA DataStep ==
    ASSUME Inv, Next \/ UNCHANGED vars
    PROVE  HandlesHaveData'
<1>0. /\ TypeOK /\ HandleTypeOK /\ RegistryTypeOK /\ HandlesHaveData /\ CallsOnHandles
      /\ LogsLock /\ InstancesAlive
  BY DEF Inv, TypeOK
<1>1. CASE UNCHANGED <<life, job_data, state_changed>>
  BY <1>0, <1>1 DEF HandlesHaveData
<1>2. ASSUME NEW c \in Cpis, life[c] # "none", Refresh(c)
      PROVE  HandlesHaveData'
  BY <1>0, <1>2 DEF Refresh, HandlesHaveData, HandleTypeOK
<1>3. ASSUME NEW t \in Threads, NEW c \in Cpis, NewJob(t, c)
      PROVE  HandlesHaveData'
  BY <1>0, <1>3 DEF NewJob, HandlesHaveData, HandleTypeOK
<1>4. ASSUME NEW t \in Threads, NEW c \in Cpis, NEW id \in PickIds, FindJob(t, c, id)
      PROVE  HandlesHaveData'
  <2>1. registry[PoolOfId(id)][id] \in Cpis \cup {None}
    BY <1>0, JobAssumption, PoolType DEF RegistryTypeOK
  <2>2. job_data'[c] \in Cpis /\ life'[c] = "ctor"
    BY <1>0, <1>4, <2>1 DEF FindJob, FoundJob, HandleTypeOK
  <2>3. \A x \in Cpis \ {c} : life'[x] = life[x] /\ job_data'[x] = job_data[x]
    BY <1>0, <1>4 DEF FindJob, FoundJob, HandleTypeOK
  <2> QED
    BY <1>0, <1>4, <2>2, <2>3 DEF FindJob, HandlesHaveData
<1>5. ASSUME NEW t \in Threads, NEW c \in Cpis, Release(t, c)
      PROVE  HandlesHaveData'
  BY <1>0, <1>5 DEF Release, HandlesHaveData, HandleTypeOK
<1>6. ASSUME NEW t \in Threads, QueryJob(t) \/ Attach(t) \/ Publish(t) \/ Destroy(t)
      PROVE  HandlesHaveData'
  <2>1. me[t] \in Cpis /\ life[me[t]] # "none"
    BY <1>0, <1>6 DEF QueryJob, Attach, Publish, Destroy, Step, At, CallsOnHandles, LifeAt
  <2>2. CASE QueryJob(t)
    BY <1>0, <2>1, <2>2 DEF QueryJob, HandlesHaveData, HandleTypeOK
  <2>3. CASE Attach(t)
    BY <1>0, <2>1, <2>3 DEF Attach, HandlesHaveData, HandleTypeOK
  <2>4. CASE Publish(t)
    BY <1>0, <1>1, <2>1, <2>4 DEF Publish, Abort, HandlesHaveData, HandleTypeOK, handle_vars
  <2>5. CASE Destroy(t)
    BY <1>0, <2>1, <2>5 DEF Destroy, Forget, HandlesHaveData, HandleTypeOK
  <2> QED
    BY <1>6, <2>2, <2>3, <2>4, <2>5
<1>7. ASSUME NEW t \in Threads, WaitLock(t) \/ CancelWait(t)
      PROVE  HandlesHaveData'
  <2>1. me[t] \in Cpis /\ life[me[t]] # "none" /\ Refresh(me[t])
    BY <1>0, <1>7 DEF WaitLock, CancelWait, Step, At, CallsOnHandles, LifeAt
  <2> QED
    BY <1>2, <2>1
<1>8. ASSUME NEW t \in Threads, NEW c \in Cpis,
             \/ RunCheck(t, c) \/ GetState(t, c)
             \/ \E bound \in Patiences : WaitEnter(t, c, bound) \/ CancelCheck(t, c, bound)
      PROVE  HandlesHaveData'
  BY <1>2, <1>8 DEF RunCheck, GetState, WaitEnter, CancelCheck
<1>9. ASSUME NEW p \in Pools, UpdateDone(p)
      PROVE  HandlesHaveData'
  <2>1. pin[p] \in Cpis /\ life[pin[p]] # "none"
    BY <1>0, <1>9, PinnedAlive DEF UpdateDone, LogAt
  <2> QED
    BY <1>0, <1>9, <2>1 DEF UpdateDone, Forget, Told, HandlesHaveData, HandleTypeOK
<1>10. ASSUME NEW t \in Threads,
              \/ OpenLog(t) \/ RunGetLog(t) \/ RunLock(t) \/ Submit(t)
              \/ Timeout(t) \/ SpuriousWake(t) \/ CancelRm(t)
       PROVE  UNCHANGED <<life, job_data, state_changed>>
  BY <1>10, Zenon DEF OpenLog, RunGetLog, RunLock, Submit, Timeout, SpuriousWake, CancelRm,
                      handle_vars
<1>11. ASSUME NEW t \in Threads, Register(t)
       PROVE  UNCHANGED <<life, job_data, state_changed>>
  BY <1>11, Zenon DEF Register, Abort, handle_vars
<1>12. ASSUME NEW p \in Pools, LogStep(p)
       PROVE  UNCHANGED <<life, job_data, state_changed>> \/ UpdateDone(p)
  BY <1>12, Zenon DEF LogStep, Find, Apply, UpdateState, NotifyAll, handle_vars
<1>13. ASSUME Condor \/ UNCHANGED vars
       PROVE  UNCHANGED <<life, job_data, state_changed>>
  BY <1>13, Zenon DEF Condor, vars, job_vars, handle_vars
<1>14. ASSUME NEW t \in Threads, Begin(t)
       PROVE  HandlesHaveData'
  BY <1>3, <1>4, <1>5, <1>8, <1>14 DEF Begin
<1>15. ASSUME NEW t \in Threads, Continue(t) \/ SpuriousWake(t)
       PROVE  HandlesHaveData'
  BY <1>1, <1>6, <1>7, <1>10, <1>11, <1>15 DEF Continue
<1> QED
  BY <1>1, <1>9, <1>12, <1>13, <1>14, <1>15 DEF Next

-----------------------------------------------------------------------------
(* Every step leaves a log processor that notifies with the lock, alone.    *)

\* Calls and Condor leave the log processors alone, but may start one.
LEMMA StartLogLocks ==
    ASSUME TypeOK, LogsLock, NEW p \in Pools, StartLog(p), UNCHANGED <<locked, file>>
    PROVE  LogsLock'
<1>1. CASE UNCHANGED log_vars
  BY <1>1 DEF LogsLock, Notifying, log_vars
<1>2. CASE ~UNCHANGED log_vars
  <2>1. lpc[p] = "off" /\ lpc' = [lpc EXCEPT ![p] = "reading"]
    BY <1>2 DEF StartLog, LogProcessor
  <2>2. UNCHANGED <<target, todo, pin>> /\ \A q \in Pools \ {p} : tail'[q] = tail[q]
    BY <1>2 DEF StartLog, LogProcessor, TypeOK, LogTypeOK
  <2> QED
    BY <2>1, <2>2 DEF LogsLock, Notifying, TypeOK, LogTypeOK
<1> QED
  BY <1>1, <1>2

LEMMA CallsLocks ==
    ASSUME TypeOK, LogsLock, Next \/ UNCHANGED vars, ~\E p \in Pools : LogStep(p)
    PROVE  LogsLock'
<1>1. CASE UNCHANGED <<log_vars, locked>>
  <2>1. \A p \in Pools : /\ Len(file[p]) \in Nat /\ Len(file'[p]) >= Len(file[p])
                         /\ Len(file'[p]) \in Nat /\ tail[p] \in Nat
    BY QueueStep DEF QueueTypeOK, TypeOK, LogTypeOK
  <2> QED
    BY <1>1, <2>1 DEF LogsLock, Notifying, log_vars
<1>2. ASSUME NEW t \in Threads, OpenLog(t) \/ RunGetLog(t)
      PROVE  \E p \in Pools : StartLog(p) /\ UNCHANGED <<locked, file>>
  BY <1>2, PoolType DEF OpenLog, RunGetLog, data_vars, condor_vars, Pools
<1>3. ASSUME NEW t \in Threads, Begin(t) \/ SpuriousWake(t)
      PROVE  UNCHANGED <<log_vars, locked>>
  <2>1. ASSUME NEW c \in Cpis, \/ NewJob(t, c) \/ RunCheck(t, c) \/ GetState(t, c)
                               \/ Release(t, c) \/ SpuriousWake(t)
        PROVE  UNCHANGED <<log_vars, locked>>
    BY <2>1, Zenon DEF data_vars, NewJob, RunCheck, GetState, Release, SpuriousWake
  <2>2. ASSUME NEW c \in Cpis, NEW id, FindJob(t, c, id)
        PROVE  UNCHANGED <<log_vars, locked>>
    BY <2>2, Zenon DEF data_vars, FindJob
  <2>3. ASSUME NEW c \in Cpis, NEW bound, WaitEnter(t, c, bound) \/ CancelCheck(t, c, bound)
        PROVE  UNCHANGED <<log_vars, locked>>
    BY <2>3, Zenon DEF data_vars, WaitEnter, CancelCheck
  <2>4. SpuriousWake(t) => UNCHANGED <<log_vars, locked>>
    BY Zenon DEF data_vars, SpuriousWake
  <2> QED
    BY <1>3, <2>1, <2>2, <2>3, <2>4, Zenon DEF Begin
<1>4. ASSUME NEW t \in Threads, Continue(t)
      PROVE  UNCHANGED <<log_vars, locked>> \/ OpenLog(t) \/ RunGetLog(t)
  BY <1>4, Zenon DEF data_vars, Continue, QueryJob, Register, Attach, RunLock, Submit,
         Publish, WaitLock, Timeout, CancelRm, CancelWait, Destroy, Abort
<1>5. ASSUME Condor \/ UNCHANGED vars
      PROVE  UNCHANGED <<log_vars, locked>>
  BY <1>5, Zenon DEF Condor, vars, job_vars, data_vars
<1> QED
  BY <1>1, <1>2, <1>3, <1>4, <1>5, StartLogLocks DEF Next

\* The steps of a log processor itself.
LEMMA LogStepsLock ==
    ASSUME TypeOK, LogsLock, NEW p \in Pools, LogStep(p)
    PROVE  LogsLock'
<1>0. LogTypeOK /\ DataTypeOK
  BY DEF TypeOK
<1>a. UNCHANGED file
  BY Zenon DEF LogStep, Find, Apply, UpdateState, UpdateDone, NotifyAll, condor_vars
<1>b. ASSUME Advance(p)
      PROVE  /\ lpc' = [lpc EXCEPT ![p] = "reading"]
             /\ lpc'[p] = "reading"
             /\ \A q \in Pools \ {p} : /\ lpc'[q] = lpc[q] /\ target'[q] = target[q]
                                       /\ tail'[q] = tail[q]
             /\ UNCHANGED <<todo, pin>>
  BY <1>0, <1>b DEF Advance, LogTypeOK
<1>1. CASE Find(p)
  <2>1. lpc[p] = "reading" /\ tail[p] < Len(file[p]) /\ UNCHANGED locked
    BY <1>1 DEF Find, LogAt, data_vars
  <2>2. CASE Advance(p)
    BY <1>0, <1>a, <1>b, <2>1, <2>2 DEF LogsLock, Notifying, LogTypeOK
  <2>3. CASE ~Advance(p)
    <3>1. FindTarget(p, NextEvent(p)) \in Cpis
      BY <1>1, <2>1, <2>3, NextEventType DEF Find
    <3> QED
      BY <1>0, <1>1, <1>a, <2>1, <2>3, <3>1 DEF Find, LogsLock, Notifying, LogTypeOK
  <2> QED
    BY <2>2, <2>3
<1>2. CASE Apply(p)
  <2>1. lpc[p] = "found" /\ target[p] \in Cpis /\ ~locked[target[p]]
    BY <1>2 DEF Apply, LogAt, LogsLock, MtxFree
  <2>2. CASE Advance(p) /\ UNCHANGED data_vars
    BY <1>0, <1>a, <1>b, <2>1, <2>2 DEF LogsLock, Notifying, LogTypeOK, data_vars
  <2>3. CASE ~(Advance(p) /\ UNCHANGED data_vars)
    <3>1. \A q \in Pools : Notifying(q) => target[q] # target[p]
      BY <2>1 DEF LogsLock
    <3>2. /\ lpc'[p] = "updating" /\ UNCHANGED <<target, tail, pin>>
          /\ \A q \in Pools \ {p} : lpc'[q] = lpc[q] /\ todo'[q] = todo[q]
          /\ \A d \in Cpis \ {target[p]} : locked'[d] = locked[d]
          /\ locked'[target[p]]
      BY <1>0, <1>2, <2>1, <2>3 DEF Apply, LogTypeOK, DataTypeOK
    <3> QED
      BY <1>a, <2>1, <3>1, <3>2 DEF LogsLock, Notifying
  <2> QED
    BY <2>2, <2>3
<1>3. ASSUME NEW c \in Cpis, UpdateState(p, c)
      PROVE  LogsLock'
  BY <1>0, <1>a, <1>3 DEF UpdateState, LogAt, LogsLock, Notifying, LogTypeOK, data_vars
<1>4. CASE UpdateDone(p)
  <2>1. lpc[p] = "pinned" /\ lpc' = [lpc EXCEPT ![p] = "updating"]
    BY <1>4 DEF UpdateDone, LogAt
  <2>2. /\ UNCHANGED <<locked, target, tail>>
        /\ \A q \in Pools \ {p} : todo'[q] = todo[q] /\ pin'[q] = pin[q]
    BY <1>0, <1>4 DEF UpdateDone, LogTypeOK
  <2> QED
    BY <1>0, <1>a, <2>1, <2>2 DEF LogsLock, Notifying, LogTypeOK
<1>5. CASE NotifyAll(p)
  <2>1. lpc[p] = "updating" /\ todo[p] = {} /\ Advance(p)
    BY <1>5 DEF NotifyAll, LogAt
  <2>2. \A q \in Pools \ {p} :
            Notifying(q) => target[q] \in Cpis /\ target[q] # target[p] /\ locked[target[q]]
    BY <2>1 DEF LogsLock, Notifying
  <2>3. \A q \in Pools \ {p} : Notifying(q) => locked'[target[q]]
    BY <1>0, <1>5, <2>2 DEF NotifyAll, DataTypeOK
  <2> QED
    BY <1>a, <1>b, <2>1, <2>3 DEF LogsLock, Notifying
<1> QED
  BY <1>1, <1>2, <1>3, <1>4, <1>5 DEF LogStep

-----------------------------------------------------------------------------
(* Every step leaves the instances alive.                                   *)

\* A handle that is being constructed does not listen yet.
LEMMA NotListening ==
    ASSUME CallsOnHandles, ListenersAlive, NEW t \in Threads,
           pc[t] \in {"query", "openlog", "register", "attach"}
    PROVE  \A d \in Cpis : me[t] \notin instances[d]
BY DEF CallsOnHandles, ListenersAlive, At, LifeAt

LEMMA ConstructAlive ==
    ASSUME Inv, NEW t \in Threads
    PROVE  /\ \A c \in Cpis : NewJob(t, c) => InstancesAlive'
           /\ \A c \in Cpis, id \in PickIds : FindJob(t, c, id) => InstancesAlive'
           /\ QueryJob(t) \/ Attach(t) => InstancesAlive'
<1>0. /\ HandleTypeOK /\ DataTypeOK /\ LogTypeOK /\ HandlesHaveData /\ CallsOnHandles
      /\ LogsLock /\ ListenersAlive /\ LoopsOnListeners
  BY DEF Inv, TypeOK, InstancesAlive
<1>1. ASSUME NEW c \in Cpis, NewJob(t, c)
      PROVE  InstancesAlive'
  <2>1. \A d \in Cpis : c \notin instances[d]
    BY <1>0, <1>1, FreshHandle DEF NewJob
  <2>2. ListenersAlive'
    BY <1>0, <1>1, <2>1 DEF NewJob, ListenersAlive, HandleTypeOK, DataTypeOK
  <2>3. LoopsOnListeners'
    BY <1>0, <1>1 DEF NewJob, LoopsOnListeners, LogsLock, DataTypeOK, log_vars
  <2> QED
    BY <2>2, <2>3 DEF InstancesAlive
<1>2. ASSUME NEW c \in Cpis, NEW id \in PickIds, FindJob(t, c, id)
      PROVE  InstancesAlive'
  <2>1. \A d \in Cpis : c \notin instances[d]
    BY <1>0, <1>2, FreshHandle DEF FindJob
  <2>2. \A x \in Cpis \ {c} : life'[x] = life[x] /\ job_data'[x] = job_data[x]
    BY <1>0, <1>2 DEF FindJob, FoundJob, HandleTypeOK
  <2>3. UNCHANGED <<instances, todo, target>>
    BY <1>2 DEF FindJob, data_vars, log_vars
  <2> QED
    BY <1>0, <2>1, <2>2, <2>3 DEF InstancesAlive, ListenersAlive, LoopsOnListeners, DataTypeOK
<1>3. ASSUME QueryJob(t)
      PROVE  InstancesAlive'
  <2>1. \A d \in Cpis : me[t] \notin instances[d]
    BY <1>0, <1>3, NotListening DEF QueryJob, Step, At
  <2>2. \A x \in Cpis \ {me[t]} : life'[x] = life[x]
    BY <1>0, <1>3 DEF QueryJob, HandleTypeOK
  <2>3. UNCHANGED <<job_data, instances, todo, target>>
    BY <1>3 DEF QueryJob, log_vars
  <2> QED
    BY <1>0, <2>1, <2>2, <2>3 DEF InstancesAlive, ListenersAlive, LoopsOnListeners, DataTypeOK
<1>4. ASSUME Attach(t)
      PROVE  InstancesAlive'
  <2>1. me[t] \in Cpis /\ MyData(t) \in Cpis
    BY <1>0, <1>4 DEF Attach, Step, At, CallsOnHandles, HandlesHaveData, MyData, LifeAt
  <2>2. life'[me[t]] = "live" /\ \A x \in Cpis \ {me[t]} : life'[x] = life[x]
    BY <1>0, <1>4, <2>1 DEF Attach, HandleTypeOK
  <2>3. /\ instances'[MyData(t)] = instances[MyData(t)] \cup {me[t]}
        /\ \A d \in Cpis \ {MyData(t)} : instances'[d] = instances[d]
    BY <1>0, <1>4, <2>1 DEF Attach, DataTypeOK
  <2>4. UNCHANGED <<job_data, todo, target>>
    BY <1>4 DEF Attach, log_vars
  <2>5. ListenersAlive'
    BY <1>0, <2>1, <2>2, <2>3, <2>4 DEF ListenersAlive, MyData, DataTypeOK
  <2>6. LoopsOnListeners'
    <3>1. \A d \in Cpis : instances[d] \subseteq instances'[d]
      BY <2>3
    <3>2. \A p \in Pools : todo[p] # {} => target[p] \in Cpis
      BY <1>0 DEF LogsLock
    <3> QED
      BY <1>0, <2>4, <3>1, <3>2 DEF LoopsOnListeners
  <2> QED
    BY <2>5, <2>6 DEF InstancesAlive
<1> QED
  BY <1>1, <1>2, <1>3, <1>4

\* The destructor takes a handle out of the one set it is in.
LEMMA ForgetAlive ==
    ASSUME HandleTypeOK, DataTypeOK, HandlesHaveData, ListenersAlive,
           NEW c \in Cpis, life[c] # "none", Forget(c), UNCHANGED job_data
    PROVE  /\ ListenersAlive'
           /\ \A d \in Cpis : instances'[d] = instances[d] \ {c}
<1>1. job_data[c] \in Cpis
  BY DEF HandlesHaveData
<1>2. \A d \in Cpis : instances'[d] = instances[d] \ {c}
  BY <1>1 DEF Forget, ListenersAlive, DataTypeOK
<1>3. \A x \in Cpis \ {c} : life'[x] = life[x]
  BY DEF Forget, HandleTypeOK
<1> QED
  BY <1>2, <1>3 DEF ListenersAlive, DataTypeOK

LEMMA EndAlive ==
    ASSUME Inv, NEW t \in Threads
    PROVE  /\ \A c \in Cpis : Release(t, c) => InstancesAlive'
           /\ Destroy(t) => InstancesAlive'
<1>0. /\ HandleTypeOK /\ DataTypeOK /\ LogTypeOK /\ HandlesHaveData /\ CallsOnHandles
      /\ LogsLock /\ ListenersAlive /\ LoopsOnListeners
  BY DEF Inv, TypeOK, InstancesAlive
<1>1. ASSUME NEW c \in Cpis, Release(t, c)
      PROVE  InstancesAlive'
  <2>1. UNCHANGED <<job_data, instances, todo, target>>
    BY <1>1 DEF Release, data_vars, log_vars
  <2>2. /\ life'[c] \in {"dying", "orphan"}
        /\ \A x \in Cpis \ {c} : life'[x] = life[x]
    BY <1>0, <1>1 DEF Release, HandleTypeOK
  <2> QED
    BY <1>0, <2>1, <2>2 DEF InstancesAlive, ListenersAlive, LoopsOnListeners, DataTypeOK
<1>2. ASSUME Destroy(t)
      PROVE  InstancesAlive'
  <2>1. me[t] \in Cpis /\ life[me[t]] = "dying" /\ ~locked[MyData(t)]
    BY <1>0, <1>2 DEF Destroy, Step, At, CallsOnHandles, LifeAt, MtxFree
  <2>2. UNCHANGED <<job_data, todo, target>>
    BY <1>2 DEF Destroy, log_vars
  <2>3. ListenersAlive' /\ \A d \in Cpis : instances'[d] = instances[d] \ {me[t]}
    BY <1>0, <1>2, <2>1, <2>2, ForgetAlive DEF Destroy
  <2>4. \A p \in Pools : todo[p] # {} =>
            target[p] \in Cpis /\ target[p] # MyData(t) /\ me[t] \notin todo[p]
    BY <1>0, <2>1 DEF LogsLock, LoopsOnListeners, ListenersAlive, MyData
  <2>5. LoopsOnListeners'
    BY <1>0, <2>2, <2>3, <2>4 DEF LoopsOnListeners
  <2> QED
    BY <2>3, <2>5 DEF InstancesAlive
<1> QED
  BY <1>1, <1>2

\* The loop of process_log_entry.
LEMMA LogStepsAlive ==
    ASSUME Inv, NEW p \in Pools, LogStep(p)
    PROVE  InstancesAlive'
<1>0. /\ HandleTypeOK /\ DataTypeOK /\ LogTypeOK /\ HandlesHaveData
      /\ LogsLock /\ ListenersAlive /\ LoopsOnListeners
  BY DEF Inv, TypeOK, InstancesAlive
<1>a. ASSUME UNCHANGED <<life, job_data, instances>>,
             \A q \in Pools \ {p} : todo'[q] = todo[q] /\ target'[q] = target[q],
             todo'[p] # {} => todo'[p] \subseteq instances[target'[p]]
      PROVE  InstancesAlive'
  <2>1. ListenersAlive'
    BY <1>0, <1>a DEF ListenersAlive
  <2>2. LoopsOnListeners'
    BY <1>0, <1>a DEF LoopsOnListeners
  <2> QED
    BY <2>1, <2>2 DEF InstancesAlive
<1>b. ASSUME Advance(p), ~Notifying(p) \/ todo[p] = {}
      PROVE  /\ todo'[p] = {}
             /\ \A q \in Pools \ {p} : todo'[q] = todo[q] /\ target'[q] = target[q]
  BY <1>0, <1>b DEF Advance, LogsLock, LogTypeOK
<1>1. CASE Find(p)
  <2>1. ~Notifying(p) /\ UNCHANGED <<life, job_data, instances>>
    BY <1>1 DEF Find, LogAt, Notifying, handle_vars, data_vars
  <2>2. \A q \in Pools \ {p} : todo'[q] = todo[q] /\ target'[q] = target[q]
    BY <1>0, <1>1, <1>b, <2>1 DEF Find, LogTypeOK
  <2>3. todo'[p] = {}
    BY <1>0, <1>1, <1>b, <2>1 DEF Find, LogsLock
  <2> QED
    BY <1>a, <2>1, <2>2, <2>3
<1>2. CASE Apply(p)
  <2>1. ~Notifying(p) /\ UNCHANGED <<life, job_data, instances>>
    BY <1>2 DEF Apply, LogAt, Notifying, handle_vars, data_vars
  <2>2. CASE Advance(p)
    BY <1>a, <1>b, <2>1, <2>2
  <2>3. CASE ~Advance(p)
    <3>1. todo' = [todo EXCEPT ![p] = instances[target[p]]] /\ UNCHANGED target
      BY <1>2, <2>3 DEF Apply
    <3> QED
      BY <1>0, <1>a, <2>1, <3>1 DEF LogTypeOK
  <2> QED
    BY <2>2, <2>3
<1>3. ASSUME NEW c \in Cpis, UpdateState(p, c)
      PROVE  InstancesAlive'
  <2>1. UNCHANGED <<life, job_data, instances, target>>
    BY <1>3 DEF UpdateState, handle_vars, data_vars
  <2>2. todo'[p] \subseteq todo[p] /\ \A q \in Pools \ {p} : todo'[q] = todo[q]
    BY <1>0, <1>3 DEF UpdateState, LogTypeOK
  <2> QED
    BY <1>0, <1>a, <2>1, <2>2 DEF LoopsOnListeners
<1>4. CASE UpdateDone(p)
  <2>1. /\ pin[p] \in Cpis /\ target[p] \in Cpis /\ job_data[pin[p]] = target[p]
        /\ life[pin[p]] # "none"
    BY <1>4, PinnedAlive DEF UpdateDone, LogAt, Inv
  <2>2. UNCHANGED <<job_data, target>>
    BY <1>4 DEF UpdateDone
  <2>3. /\ todo'[p] \subseteq todo[p] \ {pin[p]}
        /\ \A q \in Pools \ {p} : todo'[q] = todo[q]
    BY <1>0, <1>4 DEF UpdateDone, LogTypeOK
  <2>4. CASE UNCHANGED <<life, instances>>
    BY <1>0, <1>a, <2>2, <2>3, <2>4 DEF LoopsOnListeners
  <2>5. CASE Forget(pin[p])
    <3>1. ListenersAlive' /\ \A d \in Cpis : instances'[d] = instances[d] \ {pin[p]}
      BY <1>0, <2>1, <2>2, <2>5, ForgetAlive
    <3>2. \A q \in Pools \ {p} : todo[q] # {} =>
              target[q] \in Cpis /\ target[q] # target[p]
      BY <1>0, <1>4 DEF UpdateDone, LogAt, LogsLock, Notifying
    <3>3. \A q \in Pools \ {p} : todo[q] # {} => pin[p] \notin todo[q]
      BY <1>0, <2>1, <3>2 DEF LoopsOnListeners, ListenersAlive
    <3>4. LoopsOnListeners'
      BY <1>0, <2>1, <2>2, <2>3, <3>1, <3>2, <3>3 DEF LoopsOnListeners
    <3> QED
      BY <3>1, <3>4 DEF InstancesAlive
  <2> QED
    BY <1>4, <2>4, <2>5 DEF UpdateDone
<1>5. CASE NotifyAll(p)
  <2>1. Advance(p) /\ todo[p] = {} /\ UNCHANGED <<life, job_data, instances>>
    BY <1>5 DEF NotifyAll, handle_vars
  <2> QED
    BY <1>a, <1>b, <2>1
<1> QED
  BY <1>1, <1>2, <1>3, <1>4, <1>5 DEF LogStep

LEMMA AliveStep ==
    ASSUME Inv, Next \/ UNCHANGED vars
    PROVE  InstancesAlive'
<1>1. CASE UNCHANGED <<life, job_data, instances, todo, target>>
  BY <1>1 DEF Inv, InstancesAlive, ListenersAlive, LoopsOnListeners
<1>2. ASSUME NEW t \in Threads, NEW c \in Cpis, RunCheck(t, c) \/ GetState(t, c)
      PROVE  UNCHANGED <<life, job_data, instances, todo, target>>
  BY <1>2, Zenon DEF RunCheck, GetState, Refresh, data_vars, log_vars
<1>3. ASSUME NEW t \in Threads, NEW c \in Cpis, NEW bound,
             WaitEnter(t, c, bound) \/ CancelCheck(t, c, bound)
      PROVE  UNCHANGED <<life, job_data, instances, todo, target>>
  BY <1>3, Zenon DEF WaitEnter, CancelCheck, Refresh, data_vars, log_vars
<1>4. ASSUME NEW t \in Threads, OpenLog(t) \/ RunGetLog(t)
      PROVE  UNCHANGED <<life, job_data, instances, todo, target>>
  BY <1>4, Zenon DEF OpenLog, RunGetLog, StartLog, LogProcessor, handle_vars, data_vars, log_vars
<1>5. ASSUME NEW t \in Threads, Continue(t) \/ SpuriousWake(t)
      PROVE  \/ UNCHANGED <<life, job_data, instances, todo, target>>
             \/ OpenLog(t) \/ RunGetLog(t) \/ QueryJob(t) \/ Attach(t) \/ Destroy(t)
  BY <1>5, Zenon DEF Continue, Register, RunLock, Submit, Publish, WaitLock, Timeout,
         SpuriousWake, CancelRm, CancelWait, Abort, Refresh, handle_vars, data_vars, log_vars
<1>6. ASSUME Condor
      PROVE  UNCHANGED <<life, job_data, instances, todo, target>>
  BY <1>6, Zenon DEF Condor, job_vars, handle_vars, data_vars, log_vars
<1>7. ASSUME UNCHANGED vars
      PROVE  UNCHANGED <<life, job_data, instances, todo, target>>
  BY <1>7, Zenon DEF vars, job_vars, handle_vars, data_vars, log_vars
<1>8. ASSUME NEW t \in Threads, Begin(t)
      PROVE  InstancesAlive'
  BY <1>1, <1>2, <1>3, <1>8, ConstructAlive, EndAlive DEF Begin
<1>9. ASSUME NEW t \in Threads, Continue(t) \/ SpuriousWake(t)
      PROVE  InstancesAlive'
  BY <1>1, <1>4, <1>5, <1>9, ConstructAlive, EndAlive
<1> QED
  BY <1>1, <1>6, <1>7, <1>8, <1>9, LogStepsAlive DEF Next

-----------------------------------------------------------------------------
(* The invariant.                                                           *)
LEMMA InitInv == Init => Inv
<1> SUFFICES ASSUME Init
             PROVE  Inv
  OBVIOUS
<1>1. QueueTypeOK
  <2>1. <<>> \in Seq(Event)
    OBVIOUS
  <2> QED
    BY <2>1 DEF Init, QueueInit, QueueTypeOK, Places, Queued, Over, Clusters
<1>2. HandleTypeOK /\ DataTypeOK
  BY DEF Init, HandleTypeOK, DataTypeOK, Lives, States
<1>3. RegistryTypeOK
  BY DEF Init, RegistryTypeOK, States
<1>4. LogTypeOK /\ ThreadTypeOK
  BY DEF Init, LogTypeOK, LogPoints, ThreadTypeOK, Calls, Patience
<1>5. TypeOK
  BY <1>1, <1>2, <1>3, <1>4 DEF Init, TypeOK
<1>6. HandlesHaveData /\ CallsOnHandles /\ CallsExclude
  BY DEF Init, HandlesHaveData, CallsOnHandles, CallsExclude, At, LifeAt
<1>7. LogsLock /\ InstancesAlive
  BY DEF Init, LogsLock, Notifying, InstancesAlive, ListenersAlive, LoopsOnListeners
<1> QED
  BY <1>5, <1>6, <1>7 DEF Inv

LEMMA StepInv == Inv /\ [Next]_vars => Inv'
<1> SUFFICES ASSUME Inv, Next \/ UNCHANGED vars
             PROVE  Inv'
  OBVIOUS
<1>1. TypeOK'
  BY TypeStep DEF Inv
<1>2. HandlesHaveData' /\ CallsOnHandles' /\ CallsExclude'
  BY DataStep, CallsStep
<1>3. LogsLock'
  BY CallsLocks, LogStepsLock DEF Inv
<1>4. InstancesAlive'
  BY AliveStep
<1> QED
  BY <1>1, <1>2, <1>3, <1>4 DEF Inv

(* The strengthened invariant: calls are made on handles of the right life, *)
(* construction and destruction exclude other calls, and the log processor  *)
(* that notifies a job is the one that has its lock.                        *)
THEOREM Invariance == Spec => []Inv
<1>1. Init => Inv
  BY InitInv
<1>2. Inv /\ [Next]_vars => Inv'
  BY StepInv
<1> QED
  BY <1>1, <1>2, PTL DEF Spec

(* The variables of the handles, of the jobs, of the registries, of the log *)
(* processors and of the threads keep their types.                          *)
THEOREM TypeCorrect == Spec => []TypeOK
<1>1. Inv => TypeOK
  BY DEF Inv
<1> QED
  BY <1>1, Invariance, PTL

(* process_log_entry, which goes through plain pointers, calls update_state *)
(* of no handle that was destroyed or is not constructed, although handles  *)
(* come and go while it iterates over them.                                 *)
THEOREM NoDestroyedHandleCalled == Spec => []InstancesAlive
<1>1. Inv => InstancesAlive
  BY DEF Inv
<1> QED
  BY <1>1, Invariance, PTL

=============================================================================
