------------------------- MODULE CondorJobRefinement -------------------------
(***************************************************************************)
(* That the caches of the handles are coherent, and that CondorJob         *)
(* implements SagaJob, for any number of threads, handles, clusters and    *)
(* processes, and a log of any length. Invariance is proved first, from    *)
(* one lemma per conjunct of CacheInv; the refinement follows from it, and *)
(* so does who holds the locks and that no wakeup is lost.                 *)
(***************************************************************************)
EXTENDS CondorJobProofs

-----------------------------------------------------------------------------
(* Which steps change what the handles of a job share.                      *)

shared_vars == <<life, job_data, jobid, instances, registry, cluster_id, state>>

\* A thread that changes one of them, and the log processors that do.
Constructs(t) ==
    \/ \E c \in Cpis : NewJob(t, c) \/ \E id \in PickIds : FindJob(t, c, id)
    \/ QueryJob(t) \/ Register(t) \/ Attach(t)
Ends(t) == Destroy(t) \/ \E c \in Cpis : Release(t, c)

LEMMA SharedSteps ==
    ASSUME Next \/ UNCHANGED vars
    PROVE  \/ UNCHANGED shared_vars
           \/ \E t \in Threads : Constructs(t) \/ Publish(t) \/ Ends(t)
           \/ \E p \in Pools : Apply(p) \/ UpdateDone(p)
<1>1. ASSUME NEW t \in Threads, NEW c \in Cpis,
             \/ RunCheck(t, c) \/ GetState(t, c)
             \/ \E bound \in Patiences : WaitEnter(t, c, bound) \/ CancelCheck(t, c, bound)
      PROVE  UNCHANGED shared_vars
  BY <1>1, Zenon DEF RunCheck, GetState, WaitEnter, CancelCheck, Refresh, shared_vars,
                     data_vars, reg_vars
<1>2. ASSUME NEW t \in Threads, WaitLock(t) \/ CancelWait(t)
      PROVE  UNCHANGED shared_vars
  BY <1>2, Zenon DEF WaitLock, CancelWait, Refresh, shared_vars, data_vars, reg_vars
<1>3. ASSUME NEW t \in Threads,
             \/ OpenLog(t) \/ RunGetLog(t) \/ RunLock(t) \/ Submit(t)
             \/ Timeout(t) \/ SpuriousWake(t) \/ CancelRm(t)
      PROVE  UNCHANGED shared_vars
  BY <1>3, Zenon DEF OpenLog, RunGetLog, RunLock, Submit, Timeout, SpuriousWake, CancelRm,
                     shared_vars, handle_vars, data_vars, reg_vars
<1>4. ASSUME NEW p \in Pools, Find(p) \/ NotifyAll(p) \/ \E c \in Cpis : UpdateState(p, c)
      PROVE  UNCHANGED shared_vars
  BY <1>4, Zenon DEF Find, NotifyAll, UpdateState, shared_vars, handle_vars, data_vars, reg_vars
<1>5. ASSUME Condor \/ UNCHANGED vars
      PROVE  UNCHANGED shared_vars
  BY <1>5, Zenon DEF Condor, vars, job_vars, shared_vars, handle_vars, data_vars, reg_vars
<1>6. ASSUME NEW t \in Threads, Begin(t) \/ Continue(t) \/ SpuriousWake(t)
      PROVE  UNCHANGED shared_vars \/ Constructs(t) \/ Publish(t) \/ Ends(t)
  BY <1>1, <1>2, <1>3, <1>6 DEF Begin, Continue, Constructs, Ends
<1> QED
  BY <1>4, <1>5, <1>6 DEF Next, LogStep

\* No step takes a handle back to before its construction.
LEMMA NoneBefore ==
    ASSUME HandleTypeOK, Next \/ UNCHANGED vars, NEW x \in Cpis, life'[x] = "none"
    PROVE  life[x] = "none"
<1>1. CASE UNCHANGED shared_vars
  BY <1>1 DEF shared_vars
<1>2. ASSUME NEW t \in Threads, Constructs(t)
      PROVE  life[x] = "none"
  <2>1. ASSUME NEW c \in Cpis, NewJob(t, c) \/ \E id \in PickIds : FindJob(t, c, id)
        PROVE  life[x] = "none"
    BY <2>1 DEF NewJob, FindJob, HandleTypeOK
  <2>2. CASE QueryJob(t) \/ Attach(t)
    BY <2>2 DEF QueryJob, Attach, HandleTypeOK
  <2>3. CASE Register(t)
    BY <2>3 DEF Register, Abort, HandleTypeOK, handle_vars
  <2> QED
    BY <1>2, <2>1, <2>2, <2>3 DEF Constructs
<1>3. ASSUME NEW t \in Threads, Publish(t) \/ Ends(t)
      PROVE  life[x] = "none"
  BY <1>3 DEF Publish, Abort, Ends, Destroy, Forget, Release, HandleTypeOK, handle_vars
<1>4. ASSUME NEW p \in Pools, Apply(p) \/ UpdateDone(p)
      PROVE  life[x] = "none"
  BY <1>4 DEF Apply, UpdateDone, Forget, HandleTypeOK, handle_vars
<1> QED
  BY <1>1, <1>2, <1>3, <1>4, SharedSteps

\* The registry after a registration.
LEMMA Registration ==
    ASSUME RegistryTypeOK, NEW d \in Cpis, NEW id \in Ids, NEW s, RegisterJob(d, id, s),
           NEW p \in Pools, NEW i \in Ids
    PROVE  registry'[p][i] = d \/ registry'[p][i] = registry[p][i]
BY PoolType DEF RegistryTypeOK, RegisterJob

LEMMA NoIdType == NoId \notin Ids
BY DEF NoId, Ids

-----------------------------------------------------------------------------
(* Every step leaves the usable handles among the instances of their data.  *)

LEMMA ForgetOne ==
    ASSUME HandleTypeOK, DataTypeOK, NEW c \in Cpis, Forget(c), UNCHANGED job_data, LiveListen
    PROVE  LiveListen'
<1>1. life'[c] = "gone" /\ \A x \in Cpis \ {c} : life'[x] = life[x]
  BY DEF Forget, HandleTypeOK
<1>2. \A d \in Cpis : instances[d] \ {c} \subseteq instances'[d]
  BY DEF Forget, DataTypeOK
<1>3. ASSUME NEW x \in Cpis, life'[x] = "live", job_data[x] \in Cpis
      PROVE  x \in instances'[job_data'[x]]
  BY <1>1, <1>2, <1>3 DEF LiveListen
<1>4. ASSUME NEW x \in Cpis, life'[x] = "live", job_data[x] \notin Cpis
      PROVE  x \in instances'[job_data'[x]]
  BY <1>1, <1>4 DEF LiveListen, Forget, DataTypeOK
<1> QED
  BY <1>3, <1>4 DEF LiveListen

LEMMA LiveListenStep ==
    ASSUME Inv, LiveListen, Next \/ UNCHANGED vars
    PROVE  LiveListen'
<1>0. HandleTypeOK /\ DataTypeOK /\ HandlesHaveData
  BY DEF Inv, TypeOK
<1>1. CASE UNCHANGED <<life, job_data, instances>>
  BY <1>1 DEF LiveListen
<1>2. ASSUME NEW t \in Threads, NEW c \in Cpis, NewJob(t, c)
      PROVE  LiveListen'
  <2>1. job_data'[c] = c /\ c \in instances'[c]
    BY <1>0, <1>2 DEF NewJob, HandleTypeOK, DataTypeOK
  <2>2. /\ \A x \in Cpis \ {c} : life'[x] = life[x] /\ job_data'[x] = job_data[x]
        /\ \A d \in Cpis : instances[d] \subseteq instances'[d]
    BY <1>0, <1>2 DEF NewJob, HandleTypeOK, DataTypeOK
  <2> QED
    BY <1>0, <2>1, <2>2 DEF LiveListen, HandlesHaveData
<1>3. ASSUME NEW t \in Threads, NEW c \in Cpis, NEW id \in PickIds, FindJob(t, c, id)
      PROVE  LiveListen'
  <2>1. /\ life'[c] = "ctor" /\ UNCHANGED instances
        /\ \A x \in Cpis \ {c} : life'[x] = life[x] /\ job_data'[x] = job_data[x]
    BY <1>0, <1>3 DEF FindJob, HandleTypeOK, data_vars
  <2> QED
    BY <2>1 DEF LiveListen
<1>4. ASSUME NEW t \in Threads, QueryJob(t) \/ \E c \in Cpis : Release(t, c)
      PROVE  LiveListen'
  <2>1. UNCHANGED <<job_data, instances>>
    BY <1>4, Zenon DEF QueryJob, Release, data_vars
  <2>2. \A x \in Cpis : life'[x] = "live" => life[x] = "live"
    BY <1>0, <1>4 DEF QueryJob, Release, HandleTypeOK
  <2> QED
    BY <2>1, <2>2 DEF LiveListen
<1>5. ASSUME NEW t \in Threads, Attach(t)
      PROVE  LiveListen'
  <2>1. me[t] \in Cpis /\ MyData(t) \in Cpis
    BY <1>5 DEF Attach, Step, At, Inv, CallsOnHandles, HandlesHaveData, MyData, LifeAt
  <2>2. /\ UNCHANGED job_data
        /\ me[t] \in instances'[MyData(t)]
        /\ \A d \in Cpis : instances[d] \subseteq instances'[d]
        /\ \A x \in Cpis \ {me[t]} : life'[x] = life[x]
    BY <1>0, <1>5, <2>1 DEF Attach, HandleTypeOK, DataTypeOK
  <2> QED
    BY <1>0, <2>1, <2>2 DEF LiveListen, HandlesHaveData, MyData
<1>6. ASSUME NEW t \in Threads, Destroy(t)
      PROVE  LiveListen'
  <2>1. me[t] \in Cpis
    BY <1>6 DEF Destroy, Step, At, Inv, CallsOnHandles
  <2> QED
    BY <1>0, <1>6, <2>1, ForgetOne DEF Destroy
<1>7. ASSUME NEW p \in Pools, UpdateDone(p)
      PROVE  LiveListen'
  <2>1. pin[p] \in Cpis
    BY <1>7, PinnedAlive DEF Inv, UpdateDone, LogAt
  <2> QED
    BY <1>0, <1>1, <1>7, <2>1, ForgetOne DEF UpdateDone
<1>8. ASSUME NEW t \in Threads, Register(t) \/ Publish(t)
      PROVE  UNCHANGED <<life, job_data, instances>>
  BY <1>8, Zenon DEF Register, Publish, Abort, handle_vars, data_vars
<1>9. ASSUME NEW p \in Pools, Apply(p)
      PROVE  UNCHANGED <<life, job_data, instances>>
  BY <1>9, Zenon DEF Apply, handle_vars, data_vars
<1>10. CASE UNCHANGED shared_vars
  BY <1>1, <1>10 DEF shared_vars
<1> QED
  BY <1>1, <1>2, <1>3, <1>4, <1>5, <1>6, <1>7, <1>8, <1>9, <1>10, SharedSteps
     DEF Constructs, Ends

-----------------------------------------------------------------------------
(* Every step leaves the data of a handle without a job id to that handle.  *)

\* A thread that submits has a handle whose data is its own.
LEMMA OwnData ==
    ASSUME HandlesHaveData, CallsOnHandles, UnnamedAlone,
           NEW t \in Threads, At(t, "publish"), Unnamed(me[t])
    PROVE  me[t] \in Cpis /\ life[me[t]] = "live" /\ MyData(t) = me[t]
<1>1. me[t] \in Cpis /\ life[me[t]] = "live"
  BY DEF CallsOnHandles, At, LifeAt
<1>2. job_data[me[t]] \in Cpis /\ job_data[me[t]] \in {me[t], None}
  BY <1>1 DEF HandlesHaveData, UnnamedAlone
<1> QED
  BY <1>1, <1>2, JobAssumption DEF MyData

LEMMA UnnamedStep ==
    ASSUME Inv, UnnamedAlone, CallsNamed, Next \/ UNCHANGED vars
    PROVE  UnnamedAlone'
<1>0. /\ TypeOK /\ HandleTypeOK /\ RegistryTypeOK /\ ThreadTypeOK
      /\ HandlesHaveData /\ CallsOnHandles
  BY DEF Inv, TypeOK
<1>a. \A x \in Cpis : life'[x] = "none" => life[x] = "none"
  BY <1>0, NoneBefore
<1>1. CASE UNCHANGED <<job_data, jobid, registry>>
  BY <1>1, <1>a DEF UnnamedAlone, Unnamed
<1>2. ASSUME NEW c \in Cpis, life[c] = "none",
             job_data' = [job_data EXCEPT ![c] = c], UNCHANGED <<jobid, registry>>
      PROVE  UnnamedAlone'
  <2>1. job_data'[c] = c /\ \A x \in Cpis \ {c} : job_data'[x] = job_data[x]
    BY <1>0, <1>2 DEF HandleTypeOK
  <2> QED
    BY <1>2, <1>a, <2>1 DEF UnnamedAlone, Unnamed
<1>3. ASSUME NEW t \in Threads, NEW c \in Cpis, NEW id \in PickIds, FindJob(t, c, id)
      PROVE  UnnamedAlone'
  <2>1. life[c] = "none" /\ UNCHANGED registry
    BY <1>3 DEF FindJob, reg_vars
  <2>2. CASE FoundJob(id) = None
    BY <1>2, <1>3, <2>1, <2>2 DEF FindJob
  <2>3. CASE FoundJob(id) # None
    <3>1. id \in Ids /\ id # NoId /\ PoolOfId(id) \in Pools
      BY JobAssumption, NoIdType, PoolType
    <3>2. /\ job_data'[c] = FoundJob(id) /\ jobid'[c] = id /\ life'[c] = "ctor"
          /\ \A x \in Cpis \ {c} : job_data'[x] = job_data[x] /\ jobid'[x] = jobid[x]
      BY <1>0, <1>3, <2>3 DEF FindJob, HandleTypeOK
    <3>3. ASSUME NEW y \in Cpis, jobid'[y] = NoId
          PROVE  y # c /\ jobid[y] = NoId /\ FoundJob(id) # y
      BY <3>1, <3>2, <3>3 DEF UnnamedAlone, Unnamed, FoundJob
    <3>4. ASSUME NEW y \in Cpis, life'[y] = "none"
          PROVE  jobid'[y] = NoId
      BY <1>a, <3>2, <3>4 DEF UnnamedAlone, Unnamed
    <3> QED
      BY <2>1, <3>2, <3>3, <3>4 DEF UnnamedAlone, Unnamed
  <2> QED
    BY <2>2, <2>3
<1>4. ASSUME NEW c \in Cpis, life[c] # "none", NEW id \in Ids, NEW s,
             RegisterJob(c, id, s), jobid' = [jobid EXCEPT ![c] = id], UNCHANGED job_data
      PROVE  UnnamedAlone'
  <2>1. jobid'[c] # NoId /\ \A x \in Cpis \ {c} : jobid'[x] = jobid[x]
    BY <1>0, <1>4, NoIdType DEF HandleTypeOK
  <2>2. \A p \in Pools, i \in Ids : registry'[p][i] = c \/ registry'[p][i] = registry[p][i]
    BY <1>0, <1>4, Registration
  <2> QED
    BY <1>4, <1>a, <2>1, <2>2 DEF UnnamedAlone, Unnamed
<1>5. ASSUME NEW t \in Threads, Register(t)
      PROVE  UnnamedAlone'
  <2>1. me[t] \in Cpis /\ life[me[t]] # "none" /\ want[t] \in Ids
    BY <1>0, <1>5 DEF Register, Step, At, CallsOnHandles, CallsNamed, LifeAt
  <2>2. CASE Abort
    BY <1>1, <2>2 DEF Abort, handle_vars, reg_vars
  <2>3. CASE ~Abort
    BY <1>4, <1>5, <2>1, <2>3 DEF Register
  <2> QED
    BY <2>2, <2>3
<1>6. ASSUME NEW t \in Threads, Publish(t)
      PROVE  UnnamedAlone'
  <2>1. CASE Abort
    BY <1>1, <2>1 DEF Abort, handle_vars, reg_vars
  <2>2. CASE ~Abort
    <3>1. At(t, "publish") /\ Unnamed(me[t]) /\ want[t] \in Ids
      BY <1>6, <2>2 DEF Publish, Step, At, Unnamed, CallsNamed
    <3>2. me[t] \in Cpis /\ life[me[t]] # "none" /\ MyData(t) = me[t]
      BY <1>0, <3>1, OwnData
    <3>3. /\ RegisterJob(me[t], want[t], "Running") /\ UNCHANGED job_data
          /\ jobid' = [jobid EXCEPT ![me[t]] = want[t]]
      BY <1>6, <2>2, <3>2 DEF Publish
    <3> QED
      BY <1>4, <3>1, <3>2, <3>3
  <2> QED
    BY <2>1, <2>2
<1>7. ASSUME NEW t \in Threads, NEW c \in Cpis, NewJob(t, c)
      PROVE  UnnamedAlone'
  BY <1>2, <1>7 DEF NewJob, reg_vars
<1>8. ASSUME NEW t \in Threads, QueryJob(t) \/ Attach(t) \/ Ends(t)
      PROVE  UNCHANGED <<job_data, jobid, registry>>
  BY <1>8, Zenon DEF QueryJob, Attach, Ends, Destroy, Release, reg_vars
<1>9. ASSUME NEW p \in Pools, Apply(p) \/ UpdateDone(p)
      PROVE  UNCHANGED <<job_data, jobid, registry>>
  BY <1>9, Zenon DEF Apply, UpdateDone, handle_vars, reg_vars
<1>10. CASE UNCHANGED shared_vars
  BY <1>1, <1>10 DEF shared_vars
<1> QED
  BY <1>1, <1>3, <1>5, <1>6, <1>7, <1>8, <1>9, <1>10, SharedSteps DEF Constructs

-----------------------------------------------------------------------------
(* Every step leaves the calls with the ids they need, and data that has a  *)
(* cluster id with one.                                                     *)

\* CallsNamed and StartedKnown of the call of one thread.
CallKnown(t) ==
    /\ pc[t] \in {"query", "openlog", "register"} => Unnamed(me[t])
    /\ pc[t] \in {"query", "openlog", "register", "publish"} => want[t] \in Ids
    /\ At(t, "attach") => ~Unnamed(me[t])
    /\ At(t, "query") => ~ClusterKnown(me[t])
    /\ pc[t] \in {"openlog", "register"} => ClusterKnown(me[t])
    /\ pc[t] \in {"cancel_rm", "cancel_check", "wait_lock", "waiting"}
          => ClusterKnown(MyData(t))

\* StartedKnown of the handles and of the pools.
HandlesKnown ==
    \A c \in Cpis : life[c] = "none" \/ (life[c] = "live" /\ Unnamed(c))
                      => ~ClusterKnown(c)
PoolsKnown ==
    \A p \in Pools :
        /\ target[p] # None => ClusterKnown(target[p])
        /\ \A id \in Ids : registry[p][id] # None => ClusterKnown(registry[p][id])

LEMMA KnownParts ==
    CallsNamed /\ StartedKnown <=> HandlesKnown /\ PoolsKnown /\ \A t \in Threads : CallKnown(t)
BY DEF CallsNamed, StartedKnown, HandlesKnown, PoolsKnown, CallKnown

(* A step of thread t changes the calls of no other thread, and gives ids   *)
(* to a fresh handle or to that of t only; ids are not taken back.          *)
IdsFrame(t) ==
    /\ \A u \in Threads \ {t} : /\ pc'[u] = pc[u] /\ me'[u] = me[u]
                                /\ want'[u] = want[u] /\ patience'[u] = patience[u]
    /\ \A c \in Cpis :
          /\ \/ life[c] = "none" \/ me[t] = c
             \/ jobid'[c] = jobid[c] /\ cluster_id'[c] = cluster_id[c]
          /\ life[c] = "none" \/ job_data'[c] = job_data[c]

IdsKept == /\ \A c \in Cpis : ~Unnamed(c) => ~Unnamed(c)'
           /\ \A d \in Cpis : ClusterKnown(d) => ClusterKnown(d)'

\* Two ways to change the ids of a handle.
LEMMA NameIt ==
    ASSUME HandleTypeOK, NEW c \in Cpis, NEW id \in Ids,
           jobid' = [jobid EXCEPT ![c] = id] \/ UNCHANGED jobid,
           cluster_id \in [Cpis -> Ids \cup {NoId}],
           cluster_id' = [cluster_id EXCEPT ![c] = id] \/ UNCHANGED cluster_id
    PROVE  /\ IdsKept
           /\ \A x \in Cpis \ {c} : jobid'[x] = jobid[x] /\ cluster_id'[x] = cluster_id[x]
BY NoIdType DEF HandleTypeOK, IdsKept, Unnamed, ClusterKnown

LEMMA FrameOfCalls ==
    ASSUME Inv, UnnamedAlone, CallsNamed, NEW t \in Threads,
           Begin(t) \/ Continue(t) \/ SpuriousWake(t)
    PROVE  IdsFrame(t) /\ IdsKept
<1>0. /\ HandleTypeOK /\ ThreadTypeOK /\ HandlesHaveData /\ CallsOnHandles
      /\ cluster_id \in [Cpis -> Ids \cup {NoId}]
  BY DEF Inv, TypeOK, DataTypeOK
<1> DEFINE Others == \A u \in Threads \ {t} : /\ pc'[u] = pc[u] /\ me'[u] = me[u]
                                              /\ want'[u] = want[u]
                                              /\ patience'[u] = patience[u]
<1>1. Others
  <2>1. CASE UNCHANGED thread_vars
    BY <2>1 DEF thread_vars
  <2>2. ASSUME NEW point, NEW c, NEW id, NEW bound, Call(t, point, c, id, bound)
        PROVE  Others
    BY <1>0, <2>2 DEF Call, ThreadTypeOK
  <2>3. ASSUME NEW point, Goto(t, point)
        PROVE  Others
    BY <1>0, <2>3 DEF Goto, ThreadTypeOK
  <2>4. Return(t) => Others
    BY <2>2 DEF Return
  <2>5. Begin(t) => Others
    BY <2>1, <2>2 DEF Begin, NewJob, FindJob, RunCheck, GetState, WaitEnter, CancelCheck, Release
  <2>6. QueryJob(t) \/ OpenLog(t) \/ Register(t) \/ Attach(t) => Others
    BY <2>1, <2>3, <2>4 DEF QueryJob, OpenLog, Register, Attach, Abort
  <2>7. RunGetLog(t) \/ RunLock(t) \/ Submit(t) \/ Publish(t) => Others
    BY <2>1, <2>2, <2>3, <2>4 DEF RunGetLog, RunLock, Submit, Publish, Abort
  <2>8. WaitLock(t) \/ Timeout(t) \/ SpuriousWake(t) \/ CancelRm(t) => Others
    BY <2>2, <2>3, <2>4 DEF WaitLock, Timeout, SpuriousWake, CancelRm
  <2>9. CancelWait(t) \/ Destroy(t) => Others
    BY <2>3, <2>4 DEF CancelWait, Destroy
  <2> QED
    BY <2>5, <2>6, <2>7, <2>8, <2>9 DEF Continue
<1> HIDE DEF Others
<1>a. Others => (/\ \A c \in Cpis : /\ \/ life[c] = "none" \/ me[t] = c
                                       \/ jobid'[c] = jobid[c] /\ cluster_id'[c] = cluster_id[c]
                                    /\ life[c] = "none" \/ job_data'[c] = job_data[c]
                 => IdsFrame(t))
  BY DEF IdsFrame, Others
<1>2. CASE UNCHANGED <<job_data, jobid, cluster_id>>
  BY <1>1, <1>2, <1>a DEF IdsKept, Unnamed, ClusterKnown
<1>3. ASSUME NEW c \in Cpis, NewJob(t, c)
      PROVE  IdsFrame(t) /\ IdsKept
  BY <1>0, <1>1, <1>3, <1>a DEF NewJob, HandleTypeOK, IdsKept, Unnamed, ClusterKnown
<1>4. ASSUME NEW c \in Cpis, NEW id \in PickIds, FindJob(t, c, id)
      PROVE  IdsFrame(t) /\ IdsKept
  <2>1. id \in Ids
    BY JobAssumption
  <2>2. /\ life[c] = "none" /\ \A x \in Cpis \ {c} : job_data'[x] = job_data[x]
        /\ jobid' = [jobid EXCEPT ![c] = id] \/ UNCHANGED jobid
        /\ UNCHANGED cluster_id
    BY <1>0, <1>4 DEF FindJob, HandleTypeOK, data_vars
  <2> QED
    BY <1>0, <1>1, <1>a, <2>1, <2>2, NameIt
<1>5. ASSUME NEW c \in Cpis, NEW id \in Ids, me[t] = c, UNCHANGED job_data,
             jobid' = [jobid EXCEPT ![c] = id] \/ UNCHANGED jobid,
             cluster_id' = [cluster_id EXCEPT ![c] = id] \/ UNCHANGED cluster_id
      PROVE  IdsFrame(t) /\ IdsKept
  BY <1>0, <1>1, <1>5, <1>a, NameIt
<1>6. ASSUME QueryJob(t) \/ Register(t)
      PROVE  IdsFrame(t) /\ IdsKept
  <2>1. me[t] \in Cpis /\ want[t] \in Ids
    BY <1>0, <1>6 DEF QueryJob, Register, Step, At, CallsOnHandles, CallsNamed
  <2> QED
    BY <1>5, <1>6, <2>1 DEF QueryJob, Register, Abort, handle_vars, data_vars
<1>7. ASSUME Publish(t)
      PROVE  IdsFrame(t) /\ IdsKept
  <2>1. CASE Abort
    BY <1>2, <2>1 DEF Abort, handle_vars, data_vars
  <2>2. CASE ~Abort
    <3>1. At(t, "publish") /\ Unnamed(me[t]) /\ want[t] \in Ids
      BY <1>7, <2>2 DEF Publish, Step, At, Unnamed, CallsNamed
    <3>2. me[t] \in Cpis /\ MyData(t) = me[t]
      BY <1>0, <3>1, OwnData
    <3> QED
      BY <1>5, <1>7, <2>2, <3>1, <3>2 DEF Publish
  <2> QED
    BY <2>1, <2>2
<1>8. Attach(t) \/ Destroy(t) => UNCHANGED <<job_data, jobid, cluster_id>>
  BY Zenon DEF Attach, Destroy
<1>9. ASSUME NEW c \in Cpis,
             \/ RunCheck(t, c) \/ GetState(t, c) \/ Release(t, c)
             \/ \E bound \in Patiences : WaitEnter(t, c, bound) \/ CancelCheck(t, c, bound)
      PROVE  UNCHANGED <<job_data, jobid, cluster_id>>
  BY <1>9, Zenon DEF RunCheck, GetState, Release, WaitEnter, CancelCheck, Refresh, data_vars
<1>10. OpenLog(t) \/ RunGetLog(t) \/ RunLock(t) \/ Submit(t)
          => UNCHANGED <<job_data, jobid, cluster_id>>
  BY Zenon DEF OpenLog, RunGetLog, RunLock, Submit, handle_vars, data_vars
<1>11. WaitLock(t) \/ Timeout(t) \/ SpuriousWake(t) \/ CancelRm(t) \/ CancelWait(t)
          => UNCHANGED <<job_data, jobid, cluster_id>>
  BY Zenon DEF WaitLock, Timeout, SpuriousWake, CancelRm, CancelWait, Refresh,
               handle_vars, data_vars
<1> QED
  BY <1>2, <1>3, <1>4, <1>6, <1>7, <1>8, <1>9, <1>10, <1>11 DEF Begin, Continue

\* The calls of the other threads.
LEMMA OthersKnown ==
    ASSUME CallsOnHandles, CallsExclude, NEW t \in Threads, IdsFrame(t), IdsKept,
           NEW u \in Threads \ {t}, CallKnown(u), HandlesHaveData, HandleTypeOK
    PROVE  CallKnown(u)'
<1>1. pc'[u] = pc[u] /\ me'[u] = me[u] /\ want'[u] = want[u]
  BY DEF IdsFrame
<1>2. ASSUME pc[u] # "idle"
      PROVE  me[u] \in Cpis /\ life[me[u]] # "none"
  BY <1>2 DEF CallsOnHandles, At, LifeAt
<1>3. ASSUME pc[u] \in {"query", "openlog", "register"}
      PROVE  jobid'[me[u]] = jobid[me[u]] /\ cluster_id'[me[u]] = cluster_id[me[u]]
  <2>1. me[t] # me[u]
    BY <1>3 DEF CallsExclude, LifeAt
  <2> QED
    BY <1>2, <1>3, <2>1 DEF IdsFrame
<1>4. ASSUME pc[u] \in {"cancel_rm", "cancel_check", "wait_lock", "waiting"}
      PROVE  ClusterKnown(MyData(u))'
  <2>1. job_data'[me[u]] = job_data[me[u]] /\ job_data[me[u]] \in Cpis
    BY <1>2, <1>4 DEF IdsFrame, HandlesHaveData
  <2>2. ClusterKnown(MyData(u))
    BY <1>4 DEF CallKnown
  <2> QED
    BY <1>1, <2>1, <2>2 DEF IdsKept, ClusterKnown, MyData
<1>5. At(u, "attach") => ~Unnamed(me[u])'
  BY <1>1, <1>2 DEF At, CallKnown, IdsKept, Unnamed
<1> QED
  BY <1>1, <1>3, <1>4, <1>5 DEF CallKnown, At, Unnamed, ClusterKnown

\* The call of the thread itself: in the constructor,
LEMMA ConstructKnown ==
    ASSUME Inv, UnnamedAlone, HandlesKnown, NEW t \in Threads, CallKnown(t)
    PROVE  /\ \A c \in Cpis : NewJob(t, c) => CallKnown(t)'
           /\ \A c \in Cpis, id \in PickIds : FindJob(t, c, id) => CallKnown(t)'
           /\ QueryJob(t) \/ OpenLog(t) \/ Register(t) \/ Attach(t) => CallKnown(t)'
<1>0. /\ HandleTypeOK /\ ThreadTypeOK /\ HandlesHaveData /\ CallsOnHandles
      /\ cluster_id \in [Cpis -> Ids \cup {NoId}]
  BY DEF Inv, TypeOK, DataTypeOK
<1>1. ASSUME NEW c \in Cpis, NewJob(t, c)
      PROVE  CallKnown(t)'
  BY <1>1 DEF NewJob, Step, At, CallKnown, thread_vars
<1>2. ASSUME NEW c \in Cpis, NEW id \in PickIds, FindJob(t, c, id)
      PROVE  CallKnown(t)'
  <2>1. id \in Ids /\ id # NoId
    BY JobAssumption, NoIdType
  <2>2. Unnamed(c) /\ ~ClusterKnown(c) /\ UNCHANGED cluster_id
    BY <1>2 DEF FindJob, UnnamedAlone, HandlesKnown, data_vars
  <2>3. me'[t] = c /\ want'[t] = id
    BY <1>0, <1>2 DEF FindJob, Call, ThreadTypeOK
  <2>4. CASE pc'[t] = "query" /\ UNCHANGED jobid
    BY <2>1, <2>2, <2>3, <2>4 DEF CallKnown, At, Unnamed, ClusterKnown
  <2>5. CASE pc'[t] = "attach" /\ jobid'[c] = id
    BY <2>1, <2>3, <2>5 DEF CallKnown, At, Unnamed
  <2> QED
    BY <1>0, <1>2, <2>4, <2>5 DEF FindJob, Call, ThreadTypeOK, HandleTypeOK
<1>3. ASSUME QueryJob(t)
      PROVE  CallKnown(t)'
  <2>1. me[t] \in Cpis /\ want[t] \in Ids /\ Unnamed(me[t]) /\ UNCHANGED jobid
    BY <1>0, <1>3 DEF QueryJob, Step, At, CallsOnHandles, CallKnown
  <2>2. CASE Return(t)
    BY <1>0, <2>2 DEF Return, Call, ThreadTypeOK, CallKnown, At
  <2>3. CASE ~Return(t)
    <3>1. /\ pc'[t] \in {"register", "openlog"} /\ UNCHANGED <<me, want>>
          /\ cluster_id'[me[t]] = want[t]
      BY <1>0, <1>3, <2>1, <2>3 DEF QueryJob, Goto, ThreadTypeOK
    <3> QED
      BY <2>1, <3>1, NoIdType DEF CallKnown, At, Unnamed, ClusterKnown
  <2> QED
    BY <2>2, <2>3
<1>4. ASSUME OpenLog(t)
      PROVE  CallKnown(t)'
  <2>1. /\ pc[t] = "openlog" /\ pc'[t] = "register"
        /\ UNCHANGED <<me, want, jobid, cluster_id>>
    BY <1>0, <1>4 DEF OpenLog, Step, At, Goto, ThreadTypeOK, handle_vars, data_vars
  <2> QED
    BY <2>1 DEF CallKnown, At, Unnamed, ClusterKnown
<1>5. ASSUME Register(t)
      PROVE  CallKnown(t)'
  <2>1. CASE Abort
    BY <2>1 DEF Abort, CallKnown, At, Unnamed, ClusterKnown, MyData,
                handle_vars, data_vars, thread_vars
  <2>2. CASE ~Abort
    <3>1. me[t] \in Cpis /\ want[t] \in Ids
      BY <1>0, <1>5 DEF Register, Step, At, CallsOnHandles, CallKnown
    <3>2. pc'[t] = "attach" /\ me'[t] = me[t] /\ jobid'[me[t]] = want[t]
      BY <1>0, <1>5, <2>2, <3>1 DEF Register, Goto, ThreadTypeOK, HandleTypeOK
    <3> QED
      BY <3>1, <3>2, NoIdType DEF CallKnown, At, Unnamed
  <2> QED
    BY <2>1, <2>2
<1>6. ASSUME Attach(t)
      PROVE  CallKnown(t)'
  BY <1>0, <1>6 DEF Attach, Return, Call, ThreadTypeOK, CallKnown, At
<1> QED
  BY <1>1, <1>2, <1>3, <1>4, <1>5, <1>6

\* and in the other calls.
LEMMA UseKnown ==
    ASSUME Inv, NEW t \in Threads, CallKnown(t)
    PROVE  /\ \A c \in Cpis : RunCheck(t, c) \/ GetState(t, c) \/ Release(t, c) => CallKnown(t)'
           /\ \A c \in Cpis, bound \in Patiences :
                 WaitEnter(t, c, bound) \/ CancelCheck(t, c, bound) => CallKnown(t)'
           /\ RunGetLog(t) \/ RunLock(t) \/ Submit(t) \/ Publish(t) => CallKnown(t)'
           /\ WaitLock(t) \/ Timeout(t) \/ SpuriousWake(t) \/ CancelRm(t) \/ CancelWait(t)
                 => CallKnown(t)'
           /\ Destroy(t) => CallKnown(t)'
<1>0. ThreadTypeOK
  BY DEF Inv, TypeOK
<1>a. ASSUME pc'[t] \in {"idle", "run_log", "run_lock", "submit", "destroy"}
      PROVE  CallKnown(t)'
  BY <1>a DEF CallKnown, At
<1>b. ASSUME Return(t)
      PROVE  CallKnown(t)'
  BY <1>0, <1>a, <1>b DEF Return, Call, ThreadTypeOK
<1>1. ASSUME NEW c \in Cpis, RunCheck(t, c) \/ GetState(t, c) \/ Release(t, c)
      PROVE  CallKnown(t)'
  BY <1>0, <1>1, <1>a DEF RunCheck, GetState, Release, Step, At, Call, ThreadTypeOK, thread_vars
<1>2. ASSUME NEW c \in Cpis, NEW bound \in Patiences,
             WaitEnter(t, c, bound) \/ CancelCheck(t, c, bound)
      PROVE  CallKnown(t)'
  <2>1. ClusterKnown(job_data[c]) /\ UNCHANGED <<cluster_id, job_data>>
    BY <1>2 DEF WaitEnter, CancelCheck, Started, Refresh, ClusterKnown, data_vars
  <2>2. pc'[t] \in {"wait_lock", "cancel_rm"} /\ me'[t] = c
    BY <1>0, <1>2 DEF WaitEnter, CancelCheck, Call, ThreadTypeOK
  <2> QED
    BY <2>1, <2>2 DEF CallKnown, At, MyData, ClusterKnown
<1>3. ASSUME RunGetLog(t) \/ RunLock(t)
      PROVE  CallKnown(t)'
  BY <1>0, <1>3, <1>a DEF RunGetLog, RunLock, Goto, ThreadTypeOK
<1>4. ASSUME Submit(t)
      PROVE  CallKnown(t)'
  <2>1. CASE ~Return(t)
    <3>1. PICK cl \in Own : \E id \in {<<cl>>, <<Unknown>>} :
                                 Call(t, "publish", me[t], id, "zero")
      BY <1>4, <2>1 DEF Submit
    <3>2. <<cl>> \in Ids /\ <<Unknown>> \in Ids
      BY DEF Ids, Clusters
    <3>3. pc'[t] = "publish" /\ want'[t] \in {<<cl>>, <<Unknown>>}
      BY <1>0, <3>1 DEF Call, ThreadTypeOK
    <3> QED
      BY <3>2, <3>3 DEF CallKnown, At
  <2> QED
    BY <1>b, <2>1
<1>5. ASSUME Publish(t)
      PROVE  CallKnown(t)'
  <2>1. CASE Abort
    BY <2>1 DEF Abort, CallKnown, At, Unnamed, ClusterKnown, MyData,
                handle_vars, data_vars, thread_vars
  <2> QED
    BY <1>5, <1>b, <2>1 DEF Publish
<1>6. ASSUME WaitLock(t) \/ Timeout(t) \/ SpuriousWake(t) \/ CancelRm(t) \/ CancelWait(t)
      PROVE  CallKnown(t)'
  <2>1. pc[t] \in {"wait_lock", "waiting", "cancel_rm", "cancel_check"}
    BY <1>6 DEF WaitLock, Timeout, SpuriousWake, CancelRm, CancelWait, Step, At
  <2>2. UNCHANGED <<cluster_id, job_data>>
    BY <1>6, Zenon DEF WaitLock, Timeout, SpuriousWake, CancelRm, CancelWait, Refresh,
                       handle_vars, data_vars
  <2>3. CASE ~Return(t)
    <3>1. pc'[t] \in {"wait_lock", "waiting", "cancel_check"} /\ me'[t] = me[t]
      BY <1>0, <1>6, <2>3 DEF WaitLock, Timeout, SpuriousWake, CancelRm, CancelWait,
                              Goto, Call, ThreadTypeOK
    <3> QED
      BY <2>1, <2>2, <3>1 DEF CallKnown, At, MyData, ClusterKnown
  <2> QED
    BY <1>b, <2>3
<1>7. ASSUME Destroy(t)
      PROVE  CallKnown(t)'
  BY <1>7, <1>b DEF Destroy
<1> QED
  BY <1>1, <1>2, <1>3, <1>4, <1>5, <1>6, <1>7

\* The handles.
LEMMA HandlesKnownStep ==
    ASSUME Inv, UnnamedAlone, CallsNamed, StartedKnown, Next \/ UNCHANGED vars
    PROVE  HandlesKnown'
<1>0. /\ HandleTypeOK /\ HandlesHaveData /\ CallsOnHandles /\ HandlesKnown
      /\ cluster_id \in [Cpis -> Ids \cup {NoId}]
  BY KnownParts DEF Inv, TypeOK, DataTypeOK
<1>1. ASSUME UNCHANGED <<jobid, cluster_id>>,
             \A x \in Cpis : life'[x] \in {"none", "live"} => life'[x] = life[x]
      PROVE  HandlesKnown'
  BY <1>0, <1>1 DEF HandlesKnown, Unnamed, ClusterKnown
<1>2. ASSUME NEW c \in Cpis, life'[c] # "none", life'[c] # "live" \/ ~Unnamed(c)',
             \A x \in Cpis \ {c} : /\ life'[x] = life[x] /\ jobid'[x] = jobid[x]
                                   /\ cluster_id'[x] = cluster_id[x]
      PROVE  HandlesKnown'
  BY <1>0, <1>2 DEF HandlesKnown, Unnamed, ClusterKnown
<1>3. ASSUME NEW t \in Threads, NEW c \in Cpis, NewJob(t, c)
      PROVE  HandlesKnown'
  BY <1>0, <1>3 DEF NewJob, HandleTypeOK, HandlesKnown, Unnamed, ClusterKnown
<1>4. ASSUME NEW t \in Threads, NEW c \in Cpis, NEW id \in PickIds, FindJob(t, c, id)
      PROVE  HandlesKnown'
  BY <1>0, <1>2, <1>4 DEF FindJob, HandleTypeOK, data_vars
<1>5. ASSUME NEW t \in Threads, QueryJob(t) \/ Register(t)
      PROVE  HandlesKnown'
  <2>1. me[t] \in Cpis /\ life[me[t]] = "ctor"
    BY <1>0, <1>5 DEF QueryJob, Register, Step, At, CallsOnHandles, LifeAt
  <2>2. CASE QueryJob(t)
    BY <1>0, <1>2, <2>1, <2>2 DEF QueryJob, HandleTypeOK
  <2>3. CASE Register(t)
    BY <1>0, <1>2, <2>1, <2>3 DEF Register, Abort, HandleTypeOK, handle_vars, data_vars
  <2> QED
    BY <1>5, <2>2, <2>3
<1>6. ASSUME NEW t \in Threads, Attach(t)
      PROVE  HandlesKnown'
  <2>1. me[t] \in Cpis /\ ~Unnamed(me[t])
    BY <1>0, <1>6 DEF Attach, Step, At, CallsOnHandles, CallsNamed
  <2> QED
    BY <1>0, <1>2, <1>6, <2>1 DEF Attach, HandleTypeOK, Unnamed
<1>7. ASSUME NEW t \in Threads, Publish(t)
      PROVE  HandlesKnown'
  <2>1. CASE Abort
    BY <1>1, <2>1 DEF Abort, handle_vars, data_vars
  <2>2. CASE ~Abort
    <3>1. At(t, "publish") /\ Unnamed(me[t]) /\ want[t] \in Ids
      BY <1>7, <2>2 DEF Publish, Step, At, Unnamed, CallsNamed
    <3>2. me[t] \in Cpis /\ life[me[t]] = "live" /\ MyData(t) = me[t]
      BY <1>0, <3>1, OwnData
    <3>3. /\ jobid' = [jobid EXCEPT ![me[t]] = want[t]] /\ UNCHANGED life
          /\ cluster_id' = [cluster_id EXCEPT ![me[t]] = want[t]]
      BY <1>7, <2>2, <3>2 DEF Publish
    <3> QED
      BY <1>0, <1>2, <3>1, <3>2, <3>3, NoIdType DEF HandleTypeOK, Unnamed
  <2> QED
    BY <2>1, <2>2
<1>8. ASSUME NEW t \in Threads, Ends(t)
      PROVE  HandlesKnown'
  BY <1>0, <1>1, <1>8 DEF Ends, Destroy, Release, Forget, HandleTypeOK, data_vars
<1>9. ASSUME NEW p \in Pools, Apply(p) \/ UpdateDone(p)
      PROVE  HandlesKnown'
  BY <1>0, <1>1, <1>9 DEF Apply, UpdateDone, Forget, HandleTypeOK, handle_vars, data_vars
<1>10. CASE UNCHANGED shared_vars
  BY <1>1, <1>10 DEF shared_vars
<1> QED
  BY <1>3, <1>4, <1>5, <1>6, <1>7, <1>8, <1>9, <1>10, SharedSteps DEF Constructs

\* Log processors and Condor give no ids.
LEMMA OthersNameNothing ==
    ASSUME \/ \E p \in Pools : LogStep(p)
           \/ Condor \/ UNCHANGED vars
    PROVE  UNCHANGED <<jobid, cluster_id, job_data, registry, me, want>>
<1>1. ASSUME NEW p \in Pools, LogStep(p)
      PROVE  UNCHANGED <<jobid, cluster_id, job_data, registry, me, want>>
  BY <1>1, Zenon DEF LogStep, Find, Apply, UpdateState, UpdateDone, NotifyAll,
                     handle_vars, data_vars, reg_vars, thread_vars
<1>2. ASSUME Condor \/ UNCHANGED vars
      PROVE  UNCHANGED <<jobid, cluster_id, job_data, registry, me, want>>
  BY <1>2, Zenon DEF Condor, vars, job_vars, handle_vars, data_vars, reg_vars, thread_vars
<1> QED
  BY <1>1, <1>2

LEMMA IdsKeptStep ==
    ASSUME Inv, UnnamedAlone, CallsNamed, Next \/ UNCHANGED vars
    PROVE  IdsKept
<1>1. UNCHANGED <<jobid, cluster_id>> => IdsKept
  BY DEF IdsKept, Unnamed, ClusterKnown
<1> QED
  BY <1>1, FrameOfCalls, OthersNameNothing DEF Next

\* The log processors and the registries.
LEMMA PoolsKnownStep ==
    ASSUME Inv, UnnamedAlone, CallsNamed, StartedKnown, Next \/ UNCHANGED vars
    PROVE  PoolsKnown'
<1>0. /\ HandleTypeOK /\ RegistryTypeOK /\ LogTypeOK /\ HandlesHaveData /\ CallsOnHandles
      /\ PoolsKnown /\ IdsKept /\ cluster_id \in [Cpis -> Ids \cup {NoId}]
  BY KnownParts, IdsKeptStep DEF Inv, TypeOK, DataTypeOK
<1>a. ASSUME NEW x \in Cpis \cup {None}, x # None, ClusterKnown(x)
      PROVE  cluster_id'[x] # NoId
  BY <1>0, <1>a DEF IdsKept, ClusterKnown
<1>1. ASSUME NEW p \in Pools, target'[p] # None
      PROVE  cluster_id'[target'[p]] # NoId
  <2>1. CASE target'[p] = target[p]
    BY <1>0, <1>1, <1>a, <2>1 DEF PoolsKnown, LogTypeOK
  <2>2. ASSUME NEW q \in Pools, Find(q), target'[p] # target[p]
        PROVE  cluster_id'[target'[p]] # NoId
    <3>1. target'[p] = FindTarget(p, NextEvent(p)) /\ NextEvent(p) \in Event
      BY <1>0, <1>1, <2>2, NextEventType DEF Find, Advance, LogTypeOK, Inv
    <3>2. NextEvent(p).cluster \in Clusters /\ NextEvent(p).proc \in Processes
      BY <3>1 DEF Event
    <3>3. \E id \in Ids : target'[p] = registry[p][id]
      BY <3>1, <3>2, IdType DEF FindTarget
    <3> QED
      BY <1>0, <1>1, <1>a, <3>3 DEF PoolsKnown, RegistryTypeOK
  <2>3. ASSUME NEW q \in Pools, LogStep(q), ~Find(q)
        PROVE  target'[p] = None \/ target'[p] = target[p]
    BY <1>0, <2>3 DEF LogStep, Apply, UpdateState, UpdateDone, NotifyAll, Advance, LogTypeOK
  <2>4. ASSUME NEW t \in Threads, Begin(t)
        PROVE  UNCHANGED target
    BY <2>4, Zenon DEF Begin, NewJob, FindJob, RunCheck, GetState, WaitEnter, CancelCheck,
                       Release, log_vars
  <2>5. ASSUME NEW t \in Threads, Continue(t) \/ SpuriousWake(t)
        PROVE  UNCHANGED target
    BY <2>5, Zenon DEF Continue, QueryJob, OpenLog, Register, Attach, RunGetLog, RunLock,
         Submit, Publish, WaitLock, Timeout, SpuriousWake, CancelRm, CancelWait, Destroy,
         Abort, StartLog, LogProcessor, log_vars
  <2>6. Condor \/ UNCHANGED vars => UNCHANGED target
    BY Zenon DEF Condor, vars, job_vars, log_vars
  <2> QED
    BY <1>1, <2>1, <2>2, <2>3, <2>4, <2>5, <2>6 DEF Next
<1>2. ASSUME NEW p \in Pools, NEW id \in Ids, registry'[p][id] # None
      PROVE  cluster_id'[registry'[p][id]] # NoId
  <2>1. CASE registry'[p][id] = registry[p][id]
    BY <1>0, <1>2, <1>a, <2>1 DEF PoolsKnown, RegistryTypeOK
  <2>2. ASSUME NEW t \in Threads, Register(t), ~Abort
        PROVE  cluster_id'[registry'[p][id]] # NoId
    <3>1. me[t] \in Cpis /\ want[t] \in Ids /\ ClusterKnown(me[t])
      BY <1>0, <2>2 DEF Register, Step, At, CallsOnHandles, CallsNamed, StartedKnown
    <3>2. registry'[p][id] = me[t] \/ registry'[p][id] = registry[p][id]
      BY <1>0, <2>2, <3>1, Registration DEF Register
    <3> QED
      BY <1>a, <2>1, <3>1, <3>2, JobAssumption
  <2>3. ASSUME NEW t \in Threads, Publish(t), ~Abort
        PROVE  cluster_id'[registry'[p][id]] # NoId
    <3>1. At(t, "publish") /\ Unnamed(me[t]) /\ want[t] \in Ids
      BY <2>3 DEF Publish, Step, At, Unnamed, CallsNamed
    <3>2. me[t] \in Cpis /\ MyData(t) = me[t]
      BY <1>0, <3>1, OwnData
    <3>3. cluster_id'[me[t]] = want[t] /\ RegisterJob(me[t], want[t], "Running")
      BY <1>0, <2>3, <3>2 DEF Publish
    <3>4. registry'[p][id] = me[t] \/ registry'[p][id] = registry[p][id]
      BY <1>0, <3>1, <3>2, <3>3, Registration
    <3> QED
      BY <2>1, <3>1, <3>3, <3>4, NoIdType
  <2>4. CASE UNCHANGED shared_vars \/ Abort
    BY <2>1, <2>4 DEF shared_vars, Abort, reg_vars
  <2>5. ASSUME NEW t \in Threads, Constructs(t), ~Register(t)
        PROVE  UNCHANGED registry
    BY <2>5, Zenon DEF Constructs, NewJob, FindJob, QueryJob, Attach, reg_vars
  <2>6. ASSUME NEW t \in Threads, Ends(t)
        PROVE  UNCHANGED registry
    BY <2>6, Zenon DEF Ends, Destroy, Release, reg_vars
  <2>7. ASSUME NEW q \in Pools, Apply(q) \/ UpdateDone(q)
        PROVE  UNCHANGED registry
    BY <2>7, Zenon DEF Apply, UpdateDone, reg_vars
  <2> QED
    BY <2>1, <2>2, <2>3, <2>4, <2>5, <2>6, <2>7, SharedSteps
<1> QED
  BY <1>1, <1>2 DEF PoolsKnown, ClusterKnown

LEMMA KnownStep ==
    ASSUME Inv, UnnamedAlone, CallsNamed, StartedKnown, Next \/ UNCHANGED vars
    PROVE  CallsNamed' /\ StartedKnown'
<1>0. /\ HandlesHaveData /\ CallsOnHandles /\ CallsExclude /\ HandlesKnown /\ HandleTypeOK
      /\ \A t \in Threads : CallKnown(t)
  BY KnownParts DEF Inv, TypeOK
<1>1. ASSUME NEW t \in Threads, Begin(t) \/ Continue(t) \/ SpuriousWake(t)
      PROVE  \A u \in Threads : CallKnown(u)'
  <2>1. IdsFrame(t) /\ IdsKept
    BY <1>1, FrameOfCalls
  <2>2. CallKnown(t)'
    BY <1>0, <1>1, ConstructKnown, UseKnown DEF Begin, Continue
  <2> QED
    BY <1>0, <2>1, <2>2, OthersKnown
<1>2. ASSUME (\E p \in Pools : LogStep(p)) \/ Condor \/ UNCHANGED vars
      PROVE  \A u \in Threads : CallKnown(u)'
  <2>1. UNCHANGED <<jobid, cluster_id, job_data, me, want>>
    BY <1>2, OthersNameNothing
  <2>2. ASSUME NEW t \in Threads
        PROVE  pc'[t] = pc[t] \/ (pc[t] = "waiting" /\ pc'[t] = "wait_lock")
    <3>1. ASSUME NEW p \in Pools, NotifyAll(p)
          PROVE  pc'[t] = pc[t] \/ (pc[t] = "waiting" /\ pc'[t] = "wait_lock")
      BY <3>1 DEF NotifyAll, Woken, At
    <3>2. ASSUME NEW p \in Pools, LogStep(p), ~NotifyAll(p)
          PROVE  UNCHANGED pc
      BY <3>2, Zenon DEF LogStep, Find, Apply, UpdateState, UpdateDone, thread_vars
    <3>3. Condor \/ UNCHANGED vars => UNCHANGED pc
      BY Zenon DEF Condor, vars, job_vars, thread_vars
    <3> QED
      BY <1>2, <3>1, <3>2, <3>3
  <2> QED
    BY <1>0, <2>1, <2>2 DEF CallKnown, At, Unnamed, ClusterKnown, MyData
<1>3. \A t \in Threads : CallKnown(t)'
  BY <1>1, <1>2 DEF Next
<1>4. HandlesKnown' /\ PoolsKnown'
  BY HandlesKnownStep, PoolsKnownStep
<1> QED
  BY <1>3, <1>4 DEF CallsNamed, StartedKnown, HandlesKnown, PoolsKnown, CallKnown

-----------------------------------------------------------------------------
(* Every step leaves the caches coherent.                                   *)

\* The handles whose cache is trusted.
Trusted(c) == life[c] = "live" /\ ~state_changed[c]

(* What a step may do without harm: trust no more handles, change neither   *)
(* the caches nor the states behind those that are trusted, and take none   *)
(* of them from the loop of a log processor.                                *)
LEMMA CoherentFrame ==
    ASSUME CacheCoherent, fault \subseteq fault',
           \A c \in Cpis : Trusted(c)' =>
              /\ Trusted(c)
              /\ job_data'[c] = job_data[c] /\ cached_state'[c] = cached_state[c]
              /\ state'[job_data[c]] = state[job_data[c]]
              /\ \A p \in Pools : c \in todo[p] => c \in todo'[p] /\ target'[p] = target[p]
    PROVE  CacheCoherent'
BY DEF CacheCoherent, Trusted

\* The log processors, but for those that notify, leave the loops alone.
LoopsKept == \A p \in Pools : todo[p] # {} => todo'[p] = todo[p] /\ target'[p] = target[p]

LEMMA LoopsOfCalls ==
    ASSUME NEW t \in Threads, Begin(t) \/ Continue(t) \/ SpuriousWake(t)
    PROVE  LoopsKept
<1>1. Begin(t) => UNCHANGED <<todo, target>>
  BY Zenon DEF Begin, NewJob, FindJob, RunCheck, GetState, WaitEnter, CancelCheck,
               Release, log_vars
<1>2. Continue(t) \/ SpuriousWake(t) => UNCHANGED <<todo, target>>
  BY Zenon DEF Continue, QueryJob, OpenLog, Register, Attach, RunGetLog, RunLock,
       Submit, Publish, WaitLock, Timeout, SpuriousWake, CancelRm, CancelWait, Destroy,
       Abort, StartLog, LogProcessor, log_vars
<1> QED
  BY <1>1, <1>2 DEF LoopsKept

\* What a cache is compared with.
cache_vars == <<life, job_data, state_changed, cached_state, state, fault>>

LEMMA CoherentCalls ==
    ASSUME CacheInv, NEW t \in Threads, Begin(t) \/ Continue(t) \/ SpuriousWake(t)
    PROVE  CacheCoherent'
<1>0. /\ HandleTypeOK /\ DataTypeOK /\ HandlesHaveData /\ CallsOnHandles
      /\ CacheCoherent /\ UnnamedAlone /\ CallsNamed /\ LoopsKept
  BY LoopsOfCalls DEF CacheInv, Inv, TypeOK
<1>1. CASE UNCHANGED cache_vars
  BY <1>0, <1>1, CoherentFrame DEF cache_vars, Trusted, LoopsKept
<1>2. ASSUME NEW c \in Cpis, UNCHANGED <<state, fault>>, Refresh(c)
      PROVE  CacheCoherent'
  BY <1>0, <1>2 DEF CacheCoherent, Refresh, Got, HandleTypeOK, LoopsKept
<1>3. ASSUME NEW c \in Cpis, UNCHANGED <<cached_state, fault>>,
             life'[c] # "live" \/ state_changed'[c],
             \A x \in Cpis \ {c} : /\ life'[x] = life[x] /\ job_data'[x] = job_data[x]
                                   /\ state_changed'[x] = state_changed[x]
                                   /\ Trusted(x) => state'[job_data[x]] = state[job_data[x]]
      PROVE  CacheCoherent'
  BY <1>0, <1>3, CoherentFrame DEF Trusted, LoopsKept
<1>4. ASSUME NEW c \in Cpis, NewJob(t, c) \/ \E id \in PickIds : FindJob(t, c, id)
      PROVE  CacheCoherent'
  BY <1>0, <1>3, <1>4 DEF NewJob, FindJob, HandleTypeOK, data_vars
<1>5. ASSUME QueryJob(t)
      PROVE  CacheCoherent'
  <2>1. me[t] \in Cpis /\ life[me[t]] = "ctor" /\ Unnamed(me[t])
    BY <1>0, <1>5 DEF QueryJob, Step, At, CallsOnHandles, CallsNamed, LifeAt
  <2>2. \A x \in Cpis \ {me[t]} : job_data[x] # me[t]
    BY <1>0, <2>1 DEF UnnamedAlone
  <2>3. /\ life'[me[t]] # "live" /\ \A x \in Cpis \ {me[t]} : life'[x] = life[x]
        /\ \A d \in Cpis \ {me[t]} : state'[d] = state[d]
        /\ UNCHANGED <<job_data, state_changed, cached_state, fault>>
    BY <1>0, <1>5, <2>1 DEF QueryJob, HandleTypeOK, DataTypeOK
  <2>4. \A x \in Cpis : Trusted(x) => job_data[x] \in Cpis
    BY <1>0 DEF HandlesHaveData, Trusted
  <2> QED
    BY <1>3, <2>1, <2>2, <2>3, <2>4
<1>6. ASSUME Publish(t)
      PROVE  CacheCoherent'
  <2>1. CASE Abort
    BY <1>0, <2>1, CoherentFrame DEF Abort, Trusted, LoopsKept, handle_vars, data_vars
  <2>2. CASE ~Abort
    <3>1. At(t, "publish") /\ Unnamed(me[t])
      BY <1>6, <2>2 DEF Publish, Step, Unnamed
    <3>2. me[t] \in Cpis /\ MyData(t) = me[t]
      BY <1>0, <3>1, OwnData
    <3>3. \A x \in Cpis \ {me[t]} : job_data[x] # me[t]
      BY <1>0, <3>1, <3>2 DEF UnnamedAlone
    <3>4. /\ state_changed'[me[t]]
          /\ \A x \in Cpis \ {me[t]} : state_changed'[x] = state_changed[x]
          /\ \A d \in Cpis \ {me[t]} : state'[d] = state[d]
          /\ UNCHANGED <<life, job_data, cached_state, fault>>
      BY <1>0, <1>6, <2>2, <3>2 DEF Publish, HandleTypeOK, DataTypeOK
    <3>5. \A x \in Cpis : Trusted(x) => job_data[x] \in Cpis
      BY <1>0 DEF HandlesHaveData, Trusted
    <3> QED
      BY <1>3, <3>2, <3>3, <3>4, <3>5
  <2> QED
    BY <2>1, <2>2
<1>7. ASSUME Attach(t) \/ Destroy(t)
      PROVE  CacheCoherent'
  <2>1. me[t] \in Cpis
    BY <1>0, <1>7 DEF Attach, Destroy, Step, At, CallsOnHandles
  <2> QED
    BY <1>0, <1>3, <1>7, <2>1 DEF Attach, Destroy, Forget, HandleTypeOK
<1>8. ASSUME NEW c \in Cpis, Release(t, c)
      PROVE  CacheCoherent'
  BY <1>0, <1>3, <1>8 DEF Release, HandleTypeOK, data_vars
<1>9. ASSUME NEW c \in Cpis,
             \/ RunCheck(t, c) \/ GetState(t, c)
             \/ \E bound \in Patiences : WaitEnter(t, c, bound) \/ CancelCheck(t, c, bound)
      PROVE  CacheCoherent'
  BY <1>2, <1>9 DEF RunCheck, GetState, WaitEnter, CancelCheck, data_vars
<1>10. ASSUME WaitLock(t) \/ CancelWait(t)
       PROVE  CacheCoherent'
  <2>1. me[t] \in Cpis
    BY <1>0, <1>10 DEF WaitLock, CancelWait, Step, At, CallsOnHandles
  <2> QED
    BY <1>2, <1>10, <2>1 DEF WaitLock, CancelWait, data_vars
<1>11. OpenLog(t) \/ RunGetLog(t) \/ RunLock(t) \/ Submit(t) => UNCHANGED cache_vars
  BY Zenon DEF OpenLog, RunGetLog, RunLock, Submit, cache_vars, handle_vars, data_vars
<1>12. Timeout(t) \/ SpuriousWake(t) \/ CancelRm(t) => UNCHANGED cache_vars
  BY Zenon DEF Timeout, SpuriousWake, CancelRm, cache_vars, handle_vars, data_vars
<1>13. ASSUME Register(t)
       PROVE  CacheCoherent'
  BY <1>0, <1>13, CoherentFrame DEF Register, Abort, Trusted, LoopsKept, handle_vars, data_vars
<1> QED
  BY <1>1, <1>4, <1>5, <1>6, <1>7, <1>8, <1>9, <1>10, <1>11, <1>12, <1>13
     DEF Begin, Continue

LEMMA CoherentLogs ==
    ASSUME CacheInv, NEW p \in Pools, LogStep(p)
    PROVE  CacheCoherent'
<1>0. /\ TypeOK /\ HandleTypeOK /\ DataTypeOK /\ LogTypeOK /\ LogsLock /\ InstancesAlive
      /\ CacheCoherent /\ LiveListen /\ HandlesHaveData
  BY DEF CacheInv, Inv, TypeOK
<1>a. ASSUME Advance(p), todo[p] = {}
      PROVE  LoopsKept
  BY <1>0, <1>a DEF Advance, LoopsKept, LogTypeOK
<1>b. ASSUME UNCHANGED cache_vars, LoopsKept
      PROVE  CacheCoherent'
  BY <1>0, <1>b, CoherentFrame DEF cache_vars, Trusted, LoopsKept
<1>1. CASE Find(p)
  <2>1. todo[p] = {} /\ UNCHANGED cache_vars
    BY <1>0, <1>1 DEF Find, LogAt, LogsLock, Notifying, cache_vars, handle_vars, data_vars
  <2>2. LoopsKept
    BY <1>0, <1>1, <1>a, <2>1 DEF Find, LoopsKept, LogTypeOK
  <2> QED
    BY <1>b, <2>1, <2>2
<1>2. CASE Apply(p)
  <2>1. todo[p] = {} /\ target[p] \in Cpis
    BY <1>0, <1>2 DEF Apply, LogAt, LogsLock, Notifying
  <2>2. CASE UNCHANGED data_vars /\ Advance(p)
    BY <1>2, <1>a, <1>b, <2>1, <2>2 DEF Apply, cache_vars, handle_vars, data_vars
  <2>3. CASE ~(UNCHANGED data_vars /\ Advance(p))
    <3>1. /\ \A d \in Cpis \ {target[p]} : state'[d] = state[d]
          /\ todo'[p] = instances[target[p]] /\ UNCHANGED target
          /\ \A q \in Pools \ {p} : todo'[q] = todo[q]
      BY <1>0, <1>2, <2>1, <2>3 DEF Apply, DataTypeOK, LogTypeOK
    <3>2. UNCHANGED <<life, job_data, state_changed, cached_state, fault>>
      BY <1>2 DEF Apply, handle_vars
    <3>3. ASSUME NEW c \in Cpis, life[c] = "live", job_data[c] = target[p]
          PROVE  c \in todo'[p]
      BY <1>0, <3>1, <3>3 DEF LiveListen
    <3>4. ASSUME NEW c \in Cpis, life[c] = "live", job_data[c] # target[p]
          PROVE  state'[job_data[c]] = state[job_data[c]]
      BY <1>0, <3>1, <3>4 DEF HandlesHaveData
    <3> QED
      BY <1>0, <2>1, <3>1, <3>2, <3>3, <3>4 DEF CacheCoherent
  <2> QED
    BY <2>2, <2>3
<1>3. ASSUME NEW c \in Cpis, UpdateState(p, c)
      PROVE  CacheCoherent'
  <2>1. UNCHANGED cache_vars /\ UNCHANGED target
    BY <1>3 DEF UpdateState, cache_vars, handle_vars, data_vars
  <2>2. \A q \in Pools, x \in Cpis : x \in todo[q] /\ life[x] = "live" => x \in todo'[q]
    BY <1>0, <1>3 DEF UpdateState, LogTypeOK
  <2> QED
    BY <1>0, <2>1, <2>2, CoherentFrame DEF cache_vars, Trusted
<1>4. CASE UpdateDone(p)
  <2>1. lpc[p] = "pinned" /\ UNCHANGED <<target, job_data, cached_state, state>>
    BY <1>4 DEF UpdateDone, LogAt
  <2>2. pin[p] \in Cpis
    BY <1>0, <2>1, PinnedAlive
  <2>3. CASE "dangling" \in fault'
    BY <2>3 DEF CacheCoherent
  <2>4. CASE "dangling" \notin fault'
    <3>1. /\ fault \subseteq fault'
          /\ \A q \in Pools, x \in Cpis \ {pin[p]} : x \in todo[q] => x \in todo'[q]
      BY <1>0, <1>4, <2>4 DEF UpdateDone, LogTypeOK
    <3>2. /\ life'[pin[p]] # "live" \/ state_changed'[pin[p]]
          /\ \A x \in Cpis \ {pin[p]} : /\ life'[x] = life[x]
                                        /\ state_changed'[x] = state_changed[x]
      BY <1>0, <1>4, <2>2 DEF UpdateDone, Told, Forget, HandleTypeOK
    <3> QED
      BY <1>0, <2>1, <3>1, <3>2, CoherentFrame DEF Trusted
  <2> QED
    BY <2>3, <2>4
<1>5. CASE NotifyAll(p)
  <2>1. todo[p] = {} /\ Advance(p) /\ UNCHANGED cache_vars
    BY <1>5 DEF NotifyAll, cache_vars, handle_vars
  <2> QED
    BY <1>a, <1>b, <2>1
<1> QED
  BY <1>1, <1>2, <1>3, <1>4, <1>5 DEF LogStep

LEMMA CoherentStep ==
    ASSUME CacheInv, Next \/ UNCHANGED vars
    PROVE  CacheCoherent'
<1>1. CASE Condor \/ UNCHANGED vars
  <2>1. UNCHANGED <<cache_vars, todo, target>>
    BY <1>1, Zenon DEF Condor, vars, job_vars, cache_vars, handle_vars, data_vars, log_vars
  <2> QED
    BY <2>1, CoherentFrame DEF CacheInv, cache_vars, Trusted
<1> QED
  BY <1>1, CoherentCalls, CoherentLogs DEF Next

-----------------------------------------------------------------------------
(* The invariant.                                                           *)

LEMMA InitCacheInv == Init => CacheInv
<1> SUFFICES ASSUME Init
             PROVE  CacheInv
  OBVIOUS
<1>1. CacheCoherent /\ LiveListen
  BY DEF Init, CacheCoherent, LiveListen
<1>2. UnnamedAlone
  BY JobAssumption DEF Init, UnnamedAlone, Unnamed
<1>3. CallsNamed /\ StartedKnown
  BY DEF Init, CallsNamed, StartedKnown, ClusterKnown, Unnamed, At
<1> QED
  BY <1>1, <1>2, <1>3, InitInv DEF CacheInv

LEMMA StepCacheInv == CacheInv /\ [Next]_vars => CacheInv'
<1> SUFFICES ASSUME CacheInv, Next \/ UNCHANGED vars
             PROVE  CacheInv'
  OBVIOUS
<1>1. Inv' /\ CacheCoherent'
  BY StepInv, CoherentStep DEF CacheInv
<1>2. LiveListen' /\ UnnamedAlone'
  BY LiveListenStep, UnnamedStep DEF CacheInv
<1>3. CallsNamed' /\ StartedKnown'
  BY KnownStep DEF CacheInv
<1> QED
  BY <1>1, <1>2, <1>3 DEF CacheInv

(* The second strengthening: usable handles are among the instances of      *)
(* their data, a handle without an id has data nobody else knows, ids are   *)
(* given at registration, and the data of started jobs has a cluster id.    *)
THEOREM CacheInvariance == Spec => []CacheInv
<1>1. Init => CacheInv
  BY InitCacheInv
<1>2. CacheInv /\ [Next]_vars => CacheInv'
  BY StepCacheInv
<1> QED
  BY <1>1, <1>2, PTL DEF Spec

(* get_state answers from the cache of a handle only when that is the state *)
(* of the job, or the log processor is about to tell the handle, whatever   *)
(* other handles, threads and pools do meanwhile.                           *)
THEOREM CachesCoherent == Spec => []CacheCoherent
<1>1. CacheInv => CacheCoherent
  BY DEF CacheInv
<1> QED
  BY <1>1, CacheInvariance, PTL

-----------------------------------------------------------------------------
(* That CondorJob implements SagaJob.                                       *)

\* The waits that a step leaves as they are.
SameWait(t) == WaitsFor(t)' = WaitsFor(t)

\* The translations never give a job the state New.
LEMMA NeverNew ==
    /\ \A type \in EventTypes : IsStateEvent(type) => StateOfEvent[type] \in States \ {"New"}
    /\ \A place \in Queued : StateOfStatus[JobStatus(place)] \in States \ {"New"}
BY DEF EventTypes, IsStateEvent, StateOfEvent, Queued, JobStatus, StateOfStatus, States

\* The steps of the abstract job, in the terms of this one.
LEMMA StartImplemented ==
    ASSUME NEW d \in Cpis, NEW s \in States \ {"New"}, NEW id \in Ids, fault = {},
           UNCHANGED fault, ~ClusterKnown(d),
           state' = [state EXCEPT ![d] = s], cluster_id \in [Cpis -> Ids \cup {NoId}],
           cluster_id' = [cluster_id EXCEPT ![d] = id],
           \A t \in Threads : SameWait(t)
    PROVE  Job!Next
<1>1. [x \in Cpis |-> ClusterKnown(x)]' = [[x \in Cpis |-> ClusterKnown(x)] EXCEPT ![d] = TRUE]
  BY NoIdType DEF ClusterKnown
<1>2. [t \in Threads |-> WaitsFor(t)]' = [t \in Threads |-> WaitsFor(t)]
  BY DEF SameWait
<1>3. Job!Start(d)
  BY <1>1, <1>2 DEF Job!Start, Job!States, States
<1> QED
  BY <1>3 DEF Job!Next

LEMMA ChangeImplemented ==
    ASSUME NEW d \in Cpis, NEW s \in States \ {"New"}, fault = {}, ClusterKnown(d),
           state' = [state EXCEPT ![d] = s], UNCHANGED <<cluster_id, fault>>,
           \A t \in Threads : SameWait(t)
    PROVE  Job!Next
<1>1. [x \in Cpis |-> ClusterKnown(x)]' = [x \in Cpis |-> ClusterKnown(x)]
  BY DEF ClusterKnown
<1>2. [t \in Threads |-> WaitsFor(t)]' = [t \in Threads |-> WaitsFor(t)]
  BY DEF SameWait
<1>3. Job!Change(d)
  BY <1>1, <1>2 DEF Job!Change, Job!States, States
<1> QED
  BY <1>3 DEF Job!Next

LEMMA WaitImplemented ==
    ASSUME NEW t \in Threads, NEW d \in Cpis, fault = {}, ClusterKnown(d),
           WaitsFor(t) = None, WaitsFor(t)' = d, UNCHANGED <<state, cluster_id, fault>>,
           \A u \in Threads \ {t} : SameWait(u)
    PROVE  Job!Next
<1>1. [x \in Cpis |-> ClusterKnown(x)]' = [x \in Cpis |-> ClusterKnown(x)]
  BY DEF ClusterKnown
<1>2. [u \in Threads |-> WaitsFor(u)]' = [[u \in Threads |-> WaitsFor(u)] EXCEPT ![t] = d]
  BY DEF SameWait
<1>3. Job!Wait(t, d)
  BY <1>1, <1>2 DEF Job!Wait
<1> QED
  BY <1>3 DEF Job!Next

LEMMA ReturnImplemented ==
    ASSUME NEW t \in Threads, fault = {}, WaitsFor(t) # None,
           state[WaitsFor(t)] \in FinalStates,
           WaitsFor(t)' = None, UNCHANGED <<state, cluster_id, fault>>,
           \A u \in Threads \ {t} : SameWait(u)
    PROVE  Job!Next
<1>1. [x \in Cpis |-> ClusterKnown(x)]' = [x \in Cpis |-> ClusterKnown(x)]
  BY DEF ClusterKnown
<1>2. [u \in Threads |-> WaitsFor(u)]' = [[u \in Threads |-> WaitsFor(u)] EXCEPT ![t] = None]
  <2>1. \A u \in Threads : WaitsFor(u)' = IF u = t THEN None ELSE WaitsFor(u)
    BY DEF SameWait
  <2> QED
    BY <2>1
<1>3. Job!Return(t)
  BY <1>1, <1>2 DEF Job!Return, Job!FinalStates, FinalStates
<1> QED
  BY <1>3 DEF Job!Next

LEMMA BreakImplemented ==
    ASSUME fault = {}, fault' # {}, UNCHANGED <<state, cluster_id>>,
           \A t \in Threads : SameWait(t)
    PROVE  Job!Next
<1>1. [x \in Cpis |-> ClusterKnown(x)]' = [x \in Cpis |-> ClusterKnown(x)]
  BY DEF ClusterKnown
<1>2. [u \in Threads |-> WaitsFor(u)]' = [u \in Threads |-> WaitsFor(u)]
  BY DEF SameWait
<1>3. Job!Break
  BY <1>1, <1>2 DEF Job!Break
<1> QED
  BY <1>3 DEF Job!Next

LEMMA StutterImplemented ==
    ASSUME UNCHANGED <<state, cluster_id, fault>>, \A t \in Threads : SameWait(t)
    PROVE  UNCHANGED Job!vars
<1>1. [x \in Cpis |-> ClusterKnown(x)]' = [x \in Cpis |-> ClusterKnown(x)]
  BY DEF ClusterKnown
<1>2. [u \in Threads |-> WaitsFor(u)]' = [u \in Threads |-> WaitsFor(u)]
  BY DEF SameWait
<1> QED
  BY <1>1, <1>2 DEF Job!vars

LEMMA BrokenStays ==
    ASSUME fault # {}, fault \subseteq fault'
    PROVE  Job!Next
<1>1. fault' # {}
  OBVIOUS
<1> QED
  BY <1>1 DEF Job!Next

(* What a thread sees when it decides whether its wait is over: it has the  *)
(* lock of the job, so no log processor is on its way to the handle.        *)
LEMMA LockedSeesState ==
    ASSUME CacheInv, "dangling" \notin fault, NEW t \in Threads, WaitLock(t)
    PROVE  Got(me[t]) = state[MyData(t)]
<1>1. me[t] \in Cpis /\ life[me[t]] = "live"
  BY DEF CacheInv, Inv, WaitLock, Step, At, CallsOnHandles, LifeAt
<1>2. CASE state_changed[me[t]]
  BY <1>2 DEF Got, MyData
<1>3. CASE ~state_changed[me[t]]
  <2>1. ASSUME NEW p \in Pools, target[p] = MyData(t), todo[p] # {}
        PROVE  FALSE
    BY <2>1 DEF WaitLock, MtxFree, CacheInv, Inv, LogsLock
  <2> QED
    BY <1>1, <1>3, <2>1 DEF CacheInv, CacheCoherent, Got, MyData
<1> QED
  BY <1>2, <1>3

\* The waits of the other threads, and of one that does not wait.
LEMMA OthersWait ==
    ASSUME CallsOnHandles, NEW t \in Threads, IdsFrame(t), NEW u \in Threads \ {t}
    PROVE  SameWait(u)
<1>1. /\ pc'[u] = pc[u] /\ me'[u] = me[u] /\ patience'[u] = patience[u]
      /\ pc[u] \in {"wait_lock", "waiting"} => job_data'[me[u]] = job_data[me[u]]
  BY DEF IdsFrame, CallsOnHandles, At, LifeAt
<1> QED
  BY <1>1 DEF SameWait, WaitsFor, MyData

LEMMA NoWait ==
    ASSUME NEW t \in Threads
    PROVE  /\ pc[t] \notin {"wait_lock", "waiting"} \/ patience[t] # "forever"
                 => WaitsFor(t) = None
           /\ pc'[t] \notin {"wait_lock", "waiting"} \/ patience'[t] # "forever"
                 => WaitsFor(t)' = None
BY DEF WaitsFor

\* A step that goes on waiting as before.
LEMMA StillWaits ==
    ASSUME ThreadTypeOK, NEW t \in Threads, UNCHANGED job_data,
           pc[t] \in {"wait_lock", "waiting"},
           NEW point \in {"wait_lock", "waiting"}, Goto(t, point)
    PROVE  SameWait(t)
<1>1. pc'[t] = point /\ UNCHANGED <<me, patience>>
  BY DEF Goto, ThreadTypeOK
<1> QED
  BY <1>1 DEF SameWait, WaitsFor, MyData

\* Each step of a thread, but for those that start a job or end the program.
LEMMA CallsImplement ==
    ASSUME CacheInv, fault = {}, NEW t \in Threads, Begin(t) \/ Continue(t) \/ SpuriousWake(t)
    PROVE  Job!Next \/ UNCHANGED Job!vars
<1>0. /\ HandleTypeOK /\ DataTypeOK /\ ThreadTypeOK /\ CallsOnHandles /\ HandlesHaveData
      /\ UnnamedAlone /\ CallsNamed /\ StartedKnown /\ IdsFrame(t)
      /\ cluster_id \in [Cpis -> Ids \cup {NoId}]
  BY FrameOfCalls DEF CacheInv, Inv, TypeOK, DataTypeOK
<1>a. \A u \in Threads \ {t} : SameWait(u)
  BY <1>0, OthersWait
<1> DEFINE Same == UNCHANGED <<state, cluster_id, fault>>
           Outside == /\ pc[t] \notin {"wait_lock", "waiting"}
                      /\ pc'[t] \notin {"wait_lock", "waiting"}
<1>b. Outside => SameWait(t)
  BY NoWait DEF SameWait
<1>c. ASSUME Same, SameWait(t)
      PROVE  UNCHANGED Job!vars
  BY <1>a, <1>c, StutterImplemented
<1>d. ASSUME Abort
      PROVE  Job!Next
  <2>1. /\ fault' # {} /\ UNCHANGED <<state, cluster_id, job_data, pc, me, patience>>
    BY <1>d DEF Abort, handle_vars, data_vars, thread_vars
  <2>2. \A u \in Threads : SameWait(u)
    BY <2>1 DEF SameWait, WaitsFor, MyData
  <2> QED
    BY <2>1, <2>2, BreakImplemented
<1>1. ASSUME NEW c \in Cpis, \/ NewJob(t, c) \/ RunCheck(t, c) \/ GetState(t, c) \/ Release(t, c)
                             \/ \E id \in PickIds : FindJob(t, c, id)
                             \/ \E bound \in Patiences : CancelCheck(t, c, bound)
      PROVE  UNCHANGED Job!vars
  <2>1. Same
    BY <1>1, Zenon DEF NewJob, RunCheck, GetState, Release, FindJob, CancelCheck, data_vars
  <2>2. pc[t] = "idle"
    BY <1>1 DEF NewJob, RunCheck, GetState, Release, FindJob, CancelCheck, Step, At
  <2>3. pc'[t] \in {"idle", "run_log", "destroy", "query", "attach", "cancel_rm"}
    BY <1>0, <1>1, <2>2 DEF NewJob, RunCheck, GetState, Release, FindJob, CancelCheck,
                            Call, ThreadTypeOK, thread_vars
  <2> QED
    BY <1>b, <1>c, <2>1, <2>2, <2>3
<1>2. ASSUME OpenLog(t) \/ RunGetLog(t) \/ RunLock(t) \/ Submit(t) \/ CancelRm(t)
      PROVE  UNCHANGED Job!vars
  <2>1. Same
    BY <1>2, Zenon DEF OpenLog, RunGetLog, RunLock, Submit, CancelRm, data_vars
  <2>2. pc[t] \in {"openlog", "run_log", "run_lock", "submit", "cancel_rm"}
    BY <1>2 DEF OpenLog, RunGetLog, RunLock, Submit, CancelRm, Step, At
  <2>3. pc'[t] \in {"register", "run_lock", "submit", "idle", "publish", "cancel_check"}
    BY <1>0, <1>2 DEF OpenLog, RunGetLog, RunLock, Submit, CancelRm, Goto, Return, Call,
                      ThreadTypeOK
  <2> QED
    BY <1>b, <1>c, <2>1, <2>2, <2>3
<1>3. ASSUME Attach(t) \/ Destroy(t)
      PROVE  UNCHANGED Job!vars
  BY <1>0, <1>3, <1>b, <1>c DEF Attach, Destroy, Step, At, Return, Call, ThreadTypeOK
<1>4. ASSUME Register(t)
      PROVE  Job!Next \/ UNCHANGED Job!vars
  BY <1>0, <1>4, <1>b, <1>c, <1>d DEF Register, Step, At, Goto, ThreadTypeOK, data_vars
<1>5. ASSUME QueryJob(t)
      PROVE  Job!Next \/ UNCHANGED Job!vars
  <2>1. /\ pc[t] = "query" /\ me[t] \in Cpis /\ want[t] \in Ids /\ ~ClusterKnown(me[t])
        /\ UNCHANGED fault
    BY <1>0, <1>5 DEF QueryJob, Step, At, CallsOnHandles, CallsNamed, StartedKnown
  <2>2. pc'[t] \in {"idle", "register", "openlog"}
    BY <1>0, <1>5 DEF QueryJob, Return, Call, Goto, ThreadTypeOK
  <2>3. SameWait(t)
    BY <1>b, <2>1, <2>2
  <2>4. CASE UNCHANGED <<state, cluster_id>>
    BY <1>c, <2>1, <2>3, <2>4
  <2>5. ASSUME NEW pr \in Printed(want[t]),
               state' = [state EXCEPT ![me[t]] =
                             StateOfStatus[JobStatus(queue[want[t][1]][pr])]],
               cluster_id' = [cluster_id EXCEPT ![me[t]] = want[t]]
        PROVE  Job!Next
    <3>1. StateOfStatus[JobStatus(queue[want[t][1]][pr])] \in States \ {"New"}
      BY NeverNew DEF Printed
    <3> QED
      BY <1>0, <1>a, <2>1, <2>3, <2>5, <3>1, StartImplemented
  <2> QED
    BY <1>5, <2>4, <2>5 DEF QueryJob
<1>6. ASSUME Publish(t)
      PROVE  Job!Next
  <2>1. CASE ~Abort
    <3>1. At(t, "publish") /\ Unnamed(me[t]) /\ want[t] \in Ids
      BY <1>0, <1>6, <2>1 DEF Publish, Step, At, Unnamed, CallsNamed
    <3>2. me[t] \in Cpis /\ life[me[t]] = "live" /\ MyData(t) = me[t]
      BY <1>0, <3>1, OwnData
    <3>3. ~ClusterKnown(me[t])
      BY <1>0, <3>1, <3>2 DEF StartedKnown
    <3>4. /\ state' = [state EXCEPT ![me[t]] = "Running"]
          /\ cluster_id' = [cluster_id EXCEPT ![me[t]] = want[t]]
          /\ Return(t) /\ UNCHANGED fault
      BY <1>6, <2>1, <3>2 DEF Publish
    <3>5. SameWait(t)
      BY <1>0, <1>b, <3>1, <3>4 DEF At, Return, Call, ThreadTypeOK
    <3>6. "Running" \in States \ {"New"}
      BY DEF States
    <3> QED
      BY <1>0, <1>a, <3>1, <3>2, <3>3, <3>4, <3>5, <3>6, StartImplemented
  <2> QED
    BY <1>d, <2>1
<1>7. ASSUME NEW c \in Cpis, NEW bound \in Patiences, WaitEnter(t, c, bound)
      PROVE  Job!Next \/ UNCHANGED Job!vars
  <2>1. /\ pc[t] = "idle" /\ Same /\ UNCHANGED job_data
        /\ ClusterKnown(job_data[c]) /\ job_data[c] \in Cpis
    BY <1>0, <1>7 DEF WaitEnter, Step, At, Refresh, Started, ClusterKnown, HandlesHaveData, data_vars
  <2>2. pc'[t] = "wait_lock" /\ me'[t] = c /\ patience'[t] = bound
    BY <1>0, <1>7 DEF WaitEnter, Call, ThreadTypeOK
  <2>3. WaitsFor(t) = None
    BY <2>1, NoWait
  <2>4. CASE bound = "forever"
    <3>1. WaitsFor(t)' = job_data[c]
      BY <2>1, <2>2, <2>4 DEF WaitsFor, MyData
    <3> QED
      BY <1>a, <2>1, <2>3, <3>1, WaitImplemented
  <2>5. CASE bound # "forever"
    <3>1. SameWait(t)
      BY <2>2, <2>3, <2>5, NoWait DEF SameWait
    <3> QED
      BY <1>c, <2>1, <3>1
  <2> QED
    BY <2>4, <2>5
<1>8. ASSUME CancelWait(t)
      PROVE  Job!Next \/ UNCHANGED Job!vars
  <2>1. /\ pc[t] = "cancel_check" /\ Same /\ UNCHANGED job_data /\ me[t] \in Cpis
        /\ ClusterKnown(MyData(t)) /\ MyData(t) \in Cpis
    BY <1>0, <1>8 DEF CancelWait, Step, At, Refresh, StartedKnown, CallsOnHandles, LifeAt,
                      HandlesHaveData, MyData, data_vars
  <2>2. WaitsFor(t) = None
    BY <2>1, NoWait
  <2>3. \/ pc'[t] = "idle"
        \/ pc'[t] = "wait_lock" /\ me'[t] = me[t] /\ patience'[t] = patience[t]
    BY <1>0, <1>8 DEF CancelWait, Return, Call, Goto, ThreadTypeOK
  <2>4. CASE pc'[t] = "wait_lock" /\ me'[t] = me[t] /\ patience'[t] = "forever"
    <3>1. WaitsFor(t)' = MyData(t)
      BY <2>1, <2>4 DEF WaitsFor, MyData
    <3> QED
      BY <1>a, <2>1, <2>2, <3>1, WaitImplemented
  <2>5. CASE pc'[t] = "idle" \/ patience'[t] # "forever"
    <3>1. SameWait(t)
      BY <2>2, <2>5, NoWait DEF SameWait
    <3> QED
      BY <1>c, <2>1, <3>1
  <2> QED
    BY <2>3, <2>4, <2>5
<1>9. ASSUME WaitLock(t)
      PROVE  Job!Next \/ UNCHANGED Job!vars
  <2>1. /\ pc[t] = "wait_lock" /\ Same /\ UNCHANGED job_data
        /\ MyData(t) \in Cpis
    BY <1>0, <1>9 DEF WaitLock, Step, At, Refresh, CallsOnHandles, LifeAt, HandlesHaveData,
                      MyData, data_vars
  <2>2. CASE Goto(t, "waiting")
    BY <1>0, <1>c, <2>1, <2>2, StillWaits
  <2>3. CASE Return(t) /\ patience[t] = "forever"
    <3>1. WaitsFor(t) = MyData(t) /\ WaitsFor(t) # None
      BY <2>1, <2>3, JobAssumption DEF WaitsFor
    <3>2. WaitsFor(t)' = None
      BY <1>0, <2>3, NoWait DEF Return, Call, ThreadTypeOK
    <3>3. ~Goto(t, "waiting")
      BY <1>0, <2>3 DEF Return, Call, Goto, ThreadTypeOK
    <3>4. Got(me[t]) \in FinalStates
      BY <1>9, <2>3, <3>3 DEF WaitLock
    <3>5. state[WaitsFor(t)] \in FinalStates
      BY <1>9, <3>1, <3>4, LockedSeesState
    <3> QED
      BY <1>a, <2>1, <3>1, <3>2, <3>5, ReturnImplemented
  <2>4. CASE Return(t) /\ patience[t] # "forever"
    <3>1. pc'[t] = "idle"
      BY <1>0, <2>4 DEF Return, Call, ThreadTypeOK
    <3>2. SameWait(t)
      BY <2>4, <3>1, NoWait DEF SameWait
    <3> QED
      BY <1>c, <2>1, <3>2
  <2> QED
    BY <1>9, <2>2, <2>3, <2>4 DEF WaitLock
<1>10. ASSUME Timeout(t) \/ SpuriousWake(t)
       PROVE  UNCHANGED Job!vars
  <2>1. pc[t] = "waiting" /\ Same /\ UNCHANGED job_data
    BY <1>10 DEF Timeout, SpuriousWake, Step, At, handle_vars, data_vars
  <2>2. CASE SpuriousWake(t)
    BY <1>0, <1>c, <2>1, <2>2, StillWaits DEF SpuriousWake
  <2>3. CASE Timeout(t)
    <3>1. patience[t] = "some" /\ patience'[t] = "expired"
      BY <1>0, <2>3 DEF Timeout, Call, ThreadTypeOK
    <3>2. SameWait(t)
      BY <3>1, NoWait DEF SameWait
    <3> QED
      BY <1>c, <2>1, <3>2
  <2> QED
    BY <1>10, <2>2, <2>3
<1> QED
  BY <1>1, <1>2, <1>3, <1>4, <1>5, <1>6, <1>7, <1>8, <1>9, <1>10 DEF Begin, Continue

LEMMA LogsImplement ==
    ASSUME CacheInv, fault = {}, NEW p \in Pools, LogStep(p)
    PROVE  Job!Next \/ UNCHANGED Job!vars
<1>0. /\ HandleTypeOK /\ DataTypeOK /\ ThreadTypeOK /\ StartedKnown /\ LogsLock
  BY DEF CacheInv, Inv, TypeOK
<1>a. UNCHANGED <<cluster_id, job_data, me, patience>>
  BY Zenon DEF LogStep, Find, Apply, UpdateState, UpdateDone, NotifyAll,
               handle_vars, data_vars, thread_vars
<1>b. ASSUME NEW t \in Threads
      PROVE  pc'[t] = pc[t] \/ (pc[t] = "waiting" /\ pc'[t] = "wait_lock")
  <2>1. CASE NotifyAll(p)
    BY <2>1 DEF NotifyAll, Woken, At
  <2>2. CASE ~NotifyAll(p)
    BY <2>2, Zenon DEF LogStep, Find, Apply, UpdateState, UpdateDone, thread_vars
  <2> QED
    BY <2>1, <2>2
<1>c. \A t \in Threads : SameWait(t)
  BY <1>a, <1>b DEF SameWait, WaitsFor, MyData
<1>1. CASE UNCHANGED <<state, fault>>
  BY <1>1, <1>a, <1>c, StutterImplemented
<1>2. CASE Apply(p)
  <2>1. /\ target[p] \in Cpis /\ target[p] # None /\ UNCHANGED fault
        /\ NextEvent(p) \in Event
    BY <1>2, JobAssumption, NextEventType DEF Apply, LogAt, LogsLock, CacheInv, Inv
  <2>2. CASE UNCHANGED state
    BY <1>1, <2>1, <2>2
  <2>3. CASE ~UNCHANGED state
    <3>1. /\ IsStateEvent(NextEvent(p).type)
          /\ state' = [state EXCEPT ![target[p]] = StateOfEvent[NextEvent(p).type]]
      BY <1>2, <2>3 DEF Apply, data_vars
    <3>2. StateOfEvent[NextEvent(p).type] \in States \ {"New"}
      BY <2>1, <3>1, NeverNew DEF Event
    <3>3. ClusterKnown(target[p])
      BY <1>0, <2>1 DEF StartedKnown
    <3> QED
      BY <1>a, <1>c, <2>1, <3>1, <3>2, <3>3, ChangeImplemented
  <2> QED
    BY <2>2, <2>3
<1>3. CASE UpdateDone(p)
  <2>1. UNCHANGED state /\ (UNCHANGED fault \/ fault' # {})
    BY <1>3 DEF UpdateDone
  <2> QED
    BY <1>1, <1>a, <1>c, <2>1, BreakImplemented
<1>4. CASE Find(p) \/ NotifyAll(p) \/ \E c \in Cpis : UpdateState(p, c)
  BY <1>1, <1>4, Zenon DEF Find, NotifyAll, UpdateState, data_vars
<1> QED
  BY <1>2, <1>3, <1>4 DEF LogStep

\* Nothing mends a program that has broken down.
LEMMA FaultsStay ==
    ASSUME Next \/ UNCHANGED vars
    PROVE  fault \subseteq fault'
<1>1. ASSUME NEW t \in Threads, Begin(t)
      PROVE  UNCHANGED fault
  BY <1>1, Zenon DEF Begin, NewJob, FindJob, RunCheck, GetState, WaitEnter, CancelCheck, Release
<1>2. ASSUME NEW t \in Threads, Continue(t) \/ SpuriousWake(t)
      PROVE  UNCHANGED fault \/ Abort
  BY <1>2, Zenon DEF Continue, QueryJob, OpenLog, Register, Attach, RunGetLog, RunLock,
       Submit, Publish, WaitLock, Timeout, SpuriousWake, CancelRm, CancelWait, Destroy
<1>3. ASSUME NEW p \in Pools, LogStep(p)
      PROVE  UNCHANGED fault \/ UpdateDone(p)
  BY <1>3, Zenon DEF LogStep, Find, Apply, UpdateState, NotifyAll
<1>4. Condor \/ UNCHANGED vars => UNCHANGED fault
  BY Zenon DEF Condor, vars, job_vars
<1>5. ASSUME Abort \/ \E p \in Pools : UpdateDone(p)
      PROVE  fault \subseteq fault'
  BY <1>5 DEF Abort, UpdateDone
<1> QED
  BY <1>1, <1>2, <1>3, <1>4, <1>5 DEF Next

LEMMA StepImplements == CacheInv /\ [Next]_vars => [Job!Next]_(Job!vars)
<1> SUFFICES ASSUME CacheInv, Next \/ UNCHANGED vars
             PROVE  Job!Next \/ UNCHANGED Job!vars
  OBVIOUS
<1>1. CASE fault # {}
  BY <1>1, FaultsStay, BrokenStays
<1>2. CASE Condor \/ UNCHANGED vars
  <2>1. UNCHANGED <<state, cluster_id, job_data, fault, pc, me, patience>>
    BY <1>2, Zenon DEF Condor, vars, job_vars, handle_vars, data_vars, thread_vars
  <2>2. \A t \in Threads : SameWait(t)
    BY <2>1 DEF SameWait, WaitsFor, MyData
  <2> QED
    BY <2>1, <2>2, StutterImplemented
<1> QED
  BY <1>1, <1>2, CallsImplement, LogsImplement DEF Next

LEMMA InitImplements == Init => Job!Init
<1> SUFFICES ASSUME Init
             PROVE  Job!Init
  OBVIOUS
<1>1. [d \in Cpis |-> ClusterKnown(d)] = [d \in Cpis |-> FALSE]
  BY DEF Init, ClusterKnown
<1>2. [t \in Threads |-> WaitsFor(t)] = [t \in Threads |-> None]
  BY DEF Init, WaitsFor
<1>3. (fault # {}) = FALSE
  BY DEF Init
<1> QED
  BY <1>1, <1>2, <1>3, Zenon DEF Init, Job!Init

(* The refinement: with handles, caches, locks, registries, logs and any    *)
(* number of threads, a job still starts once and never becomes New again,  *)
(* and a wait without a bound returns only when the job is final, as long   *)
(* as no assertion failed and no loop went on from a dangling iterator.     *)
THEOREM ImplementsSagaJob == Spec => JobSafety
<1>1. Init => Job!Init
  BY InitImplements
<1>2. CacheInv /\ [Next]_vars => [Job!Next]_(Job!vars)
  BY StepImplements
<1> QED
  BY <1>1, <1>2, CacheInvariance, PTL DEF Spec, JobSafety, Job!Safety

-----------------------------------------------------------------------------
(* Who holds the locks, and that nobody sleeps through the end of a job.    *)

\* What a step of thread t leaves to the log processors, and of the states.
LEMMA CallsHold ==
    ASSUME Inv, NEW t \in Threads, Begin(t) \/ Continue(t) \/ SpuriousWake(t)
    PROVE  /\ UNCHANGED locked
           /\ \A p \in Pools, d \in Cpis : Holds(p, d)' <=> Holds(p, d)
<1>0. LogTypeOK
  BY DEF Inv, TypeOK
<1>1. ASSUME NEW c \in Cpis, \/ NewJob(t, c) \/ RunCheck(t, c) \/ GetState(t, c) \/ Release(t, c)
                             \/ \E id \in PickIds : FindJob(t, c, id)
                             \/ \E bound \in Patiences :
                                    WaitEnter(t, c, bound) \/ CancelCheck(t, c, bound)
      PROVE  UNCHANGED <<locked, lpc, target>>
  BY <1>1, Zenon DEF NewJob, RunCheck, GetState, Release, FindJob, WaitEnter, CancelCheck,
                     data_vars, log_vars
<1>2. ASSUME \/ QueryJob(t) \/ Register(t) \/ Attach(t) \/ RunLock(t) \/ Submit(t) \/ Publish(t)
             \/ WaitLock(t) \/ Timeout(t) \/ SpuriousWake(t) \/ CancelRm(t) \/ CancelWait(t)
             \/ Destroy(t)
      PROVE  UNCHANGED <<locked, lpc, target>>
  BY <1>2, Zenon DEF QueryJob, Register, Attach, RunLock, Submit, Publish, WaitLock, Timeout,
                     SpuriousWake, CancelRm, CancelWait, Destroy, Abort, data_vars, log_vars
<1>3. CASE UNCHANGED <<locked, lpc, target>>
  BY <1>3 DEF Holds, Notifying
<1>4. CASE OpenLog(t) \/ RunGetLog(t)
  <2>1. PICK p \in Pools : StartLog(p) /\ UNCHANGED locked
    BY <1>4, PoolType DEF OpenLog, RunGetLog, data_vars, Pools
  <2>2. CASE UNCHANGED log_vars
    BY <1>3, <2>1, <2>2 DEF log_vars
  <2>3. CASE ~UNCHANGED log_vars
    BY <1>0, <2>1, <2>3 DEF StartLog, LogProcessor, Holds, Notifying, LogTypeOK
  <2> QED
    BY <2>2, <2>3
<1> QED
  BY <1>1, <1>2, <1>3, <1>4 DEF Begin, Continue

LEMMA CallsSubmit ==
    ASSUME TypeOK, NEW t \in Threads, Begin(t) \/ Continue(t) \/ SpuriousWake(t)
    PROVE  \/ /\ UNCHANGED reg_lock
              /\ pc[t] \in {"submit", "publish"} <=> pc'[t] \in {"submit", "publish"}
           \/ reg_lock = None /\ reg_lock' = t /\ pc'[t] = "submit"
           \/ /\ pc[t] \in {"submit", "publish"} /\ pc'[t] = "idle"
              /\ reg_lock' = None
<1>0. ThreadTypeOK
  BY DEF TypeOK
<1> DEFINE Apart == /\ UNCHANGED reg_lock
                    /\ pc[t] \in {"submit", "publish"} <=> pc'[t] \in {"submit", "publish"}
<1>a. Abort => Apart
  BY DEF Abort, thread_vars
<1>1. ASSUME NEW c \in Cpis, \/ NewJob(t, c) \/ RunCheck(t, c) \/ GetState(t, c) \/ Release(t, c)
                             \/ \E id \in PickIds : FindJob(t, c, id)
                             \/ \E bound \in Patiences :
                                    WaitEnter(t, c, bound) \/ CancelCheck(t, c, bound)
      PROVE  Apart
  <2>1. UNCHANGED reg_lock
    BY <1>1, Zenon DEF NewJob, RunCheck, GetState, Release, FindJob, WaitEnter, CancelCheck
  <2>2. pc[t] = "idle"
    BY <1>1, Zenon DEF NewJob, RunCheck, GetState, Release, FindJob, WaitEnter, CancelCheck,
                       Step, At
  <2>3. pc'[t] \in {"idle", "run_log", "destroy", "query", "attach", "cancel_rm", "wait_lock"}
    BY <1>0, <1>1, <2>2 DEF NewJob, RunCheck, GetState, Release, FindJob, WaitEnter,
                            CancelCheck, Call, ThreadTypeOK, thread_vars
  <2> QED
    BY <2>1, <2>2, <2>3
<1>2. ASSUME QueryJob(t) \/ OpenLog(t) \/ Attach(t) \/ RunGetLog(t)
      PROVE  Apart
  BY <1>0, <1>2 DEF QueryJob, OpenLog, Attach, RunGetLog, Step, At, Goto, Return, Call,
                    ThreadTypeOK
<1>3. ASSUME WaitLock(t) \/ Timeout(t) \/ SpuriousWake(t) \/ CancelRm(t) \/ CancelWait(t)
             \/ Destroy(t)
      PROVE  Apart
  BY <1>0, <1>3 DEF WaitLock, Timeout, SpuriousWake, CancelRm, CancelWait, Destroy, Step, At,
                    Goto, Return, Call, ThreadTypeOK
<1>4. CASE Register(t)
  BY <1>0, <1>4, <1>a DEF Register, Step, At, Goto, ThreadTypeOK
<1>5. CASE RunLock(t)
  BY <1>0, <1>5 DEF RunLock, RegistryFree, Step, At, Goto, ThreadTypeOK
<1>6. CASE Submit(t)
  BY <1>0, <1>6 DEF Submit, Unlock, Step, At, Return, Call, ThreadTypeOK
<1>7. CASE Publish(t)
  BY <1>0, <1>7, <1>a DEF Publish, Unlock, Step, At, Return, Call, ThreadTypeOK
<1> QED
  BY <1>1, <1>2, <1>3, <1>4, <1>5, <1>6, <1>7 DEF Begin, Continue

LEMMA RegistryOwnedStep ==
    ASSUME CacheInv, RegistryOwned, Next \/ UNCHANGED vars
    PROVE  RegistryOwned'
<1>1. ASSUME NEW t \in Threads, Begin(t) \/ Continue(t) \/ SpuriousWake(t)
      PROVE  RegistryOwned'
  <2>1. \A u \in Threads \ {t} : pc'[u] = pc[u]
    BY <1>1, FrameOfCalls DEF CacheInv, IdsFrame
  <2> QED
    BY <1>1, <2>1, CallsSubmit, JobAssumption DEF CacheInv, Inv, RegistryOwned
<1>2. ASSUME NEW p \in Pools, LogStep(p)
      PROVE  RegistryOwned'
  <2>1. UNCHANGED reg_lock
    BY <1>2, Zenon DEF LogStep, Find, Apply, UpdateState, UpdateDone, NotifyAll
  <2>2. \A t \in Threads : pc[t] \in {"submit", "publish"} <=> pc'[t] \in {"submit", "publish"}
    <3>1. CASE NotifyAll(p)
      BY <3>1 DEF NotifyAll, Woken, At
    <3>2. CASE ~NotifyAll(p)
      BY <1>2, <3>2, Zenon DEF LogStep, Find, Apply, UpdateState, UpdateDone, thread_vars
    <3> QED
      BY <3>1, <3>2
  <2> QED
    BY <2>1, <2>2 DEF RegistryOwned
<1>3. CASE Condor \/ UNCHANGED vars
  BY <1>3, Zenon DEF Condor, vars, job_vars, thread_vars, RegistryOwned
<1> QED
  BY <1>1, <1>2, <1>3 DEF Next

(* A step of a log processor leaves the locks alone; or it applies an event *)
(* and takes the lock of its job; or it is done, and gives it back.         *)
SameHold == /\ UNCHANGED <<locked, state>>
            /\ \A q \in Pools, d \in Cpis : Holds(q, d)' <=> Holds(q, d)

TakesHold(p) ==
    /\ target[p] \in Cpis /\ \A d \in Cpis : d = target[p] => Holds(p, d)'
    /\ locked' = [locked EXCEPT ![target[p]] = TRUE]
    /\ \A d \in Cpis \ {target[p]} : state'[d] = state[d]
    /\ \A q \in Pools, d \in Cpis :
          d # target[p] \/ q # p => (Holds(q, d)' <=> Holds(q, d))

LetsGo(p) ==
    /\ NotifyAll(p) /\ Holds(p, target[p]) /\ UNCHANGED state
    /\ locked' = [locked EXCEPT ![target[p]] = FALSE]
    /\ \A q \in Pools, d \in Cpis : Holds(q, d)' <=> Holds(q, d) /\ q # p

LEMMA LogsHold ==
    ASSUME Inv, NEW p \in Pools, LogStep(p)
    PROVE  SameHold \/ TakesHold(p) \/ LetsGo(p)
<1>0. LogTypeOK /\ DataTypeOK /\ LogsLock
  BY DEF Inv, TypeOK
<1>a. ASSUME Advance(p)
      PROVE  /\ ~Notifying(p)'
             /\ \A q \in Pools \ {p}, d \in Cpis : Holds(q, d)' <=> Holds(q, d)
  BY <1>0, <1>a DEF Advance, Holds, Notifying, LogTypeOK
<1>b. ASSUME ~Notifying(p), ~Notifying(p)',
             \A q \in Pools \ {p}, d \in Cpis : Holds(q, d)' <=> Holds(q, d)
      PROVE  \A q \in Pools, d \in Cpis : Holds(q, d)' <=> Holds(q, d)
  BY <1>b DEF Holds
<1>1. CASE Find(p)
  <2>1. ~Notifying(p) /\ UNCHANGED <<locked, state>>
    BY <1>1 DEF Find, LogAt, Notifying, data_vars
  <2>2. CASE Advance(p)
    BY <1>a, <1>b, <2>1, <2>2 DEF SameHold
  <2>3. CASE ~Advance(p)
    <3>1. /\ ~Notifying(p)'
          /\ \A q \in Pools \ {p}, d \in Cpis : Holds(q, d)' <=> Holds(q, d)
      BY <1>0, <1>1, <2>3 DEF Find, Holds, Notifying, LogTypeOK
    <3> QED
      BY <1>b, <2>1, <3>1 DEF SameHold
  <2> QED
    BY <2>2, <2>3
<1>2. CASE Apply(p)
  <2>1. lpc[p] = "found" /\ target[p] \in Cpis
    BY <1>0, <1>2 DEF Apply, LogAt, LogsLock
  <2>2. CASE Advance(p) /\ UNCHANGED data_vars
    <3>1. ~Notifying(p) /\ UNCHANGED <<locked, state>>
      BY <2>1, <2>2 DEF Notifying, data_vars
    <3> QED
      BY <1>a, <1>b, <2>2, <3>1 DEF SameHold
  <2>3. CASE ~(Advance(p) /\ UNCHANGED data_vars)
    <3>1. /\ locked' = [locked EXCEPT ![target[p]] = TRUE]
          /\ \A d \in Cpis \ {target[p]} : state'[d] = state[d]
      BY <1>0, <1>2, <2>3 DEF Apply, DataTypeOK
    <3>2. /\ lpc'[p] = "updating" /\ UNCHANGED target
          /\ \A q \in Pools \ {p} : lpc'[q] = lpc[q]
      BY <1>0, <1>2, <2>3 DEF Apply, LogTypeOK
    <3> QED
      BY <2>1, <3>1, <3>2 DEF Holds, Notifying, TakesHold
  <2> QED
    BY <2>2, <2>3
<1>3. ASSUME UpdateDone(p) \/ \E c \in Cpis : UpdateState(p, c)
      PROVE  SameHold
  <2>1. UNCHANGED <<locked, state, target>>
    BY <1>3, Zenon DEF UpdateDone, UpdateState, data_vars
  <2>2. \A q \in Pools : Notifying(q)' <=> Notifying(q)
    BY <1>0, <1>3 DEF UpdateDone, UpdateState, LogAt, Notifying, LogTypeOK
  <2> QED
    BY <2>1, <2>2 DEF Holds, SameHold
<1>4. CASE NotifyAll(p)
  <2>1. Holds(p, target[p]) /\ Advance(p) /\ UNCHANGED state
    BY <1>4 DEF NotifyAll, LogAt, Holds, Notifying
  <2>2. locked' = [locked EXCEPT ![target[p]] = FALSE]
    BY <1>4 DEF NotifyAll
  <2>3. \A q \in Pools, d \in Cpis : Holds(q, d)' <=> Holds(q, d) /\ q # p
    BY <1>a, <2>1 DEF Holds
  <2> QED
    BY <1>4, <2>1, <2>2, <2>3 DEF LetsGo
<1> QED
  BY <1>1, <1>2, <1>3, <1>4 DEF LogStep

LEMMA JobsOwnedStep ==
    ASSUME Inv, JobsOwned, Next \/ UNCHANGED vars
    PROVE  JobsOwned'
<1>0. locked \in [Cpis -> BOOLEAN]
  BY DEF Inv, TypeOK, DataTypeOK
<1>1. ASSUME UNCHANGED locked,
             \A p \in Pools, d \in Cpis : Holds(p, d)' <=> Holds(p, d)
      PROVE  JobsOwned'
  BY <1>1 DEF JobsOwned
<1>2. ASSUME NEW p \in Pools, TakesHold(p)
      PROVE  JobsOwned'
  <2>1. ASSUME NEW d \in Cpis, d # target[p]
        PROVE  locked'[d] <=> \E q \in Pools : Holds(q, d)'
    BY <1>0, <1>2, <2>1 DEF JobsOwned, TakesHold
  <2>2. locked'[target[p]]
    BY <1>0, <1>2 DEF TakesHold
  <2> QED
    BY <1>2, <2>1, <2>2 DEF JobsOwned, TakesHold
<1>3. ASSUME NEW p \in Pools, LetsGo(p)
      PROVE  JobsOwned'
  <2>1. ASSUME NEW d \in Cpis, d # target[p]
        PROVE  locked'[d] <=> \E q \in Pools : Holds(q, d)'
    <3>1. locked'[d] = locked[d]
      BY <1>0, <1>3, <2>1 DEF LetsGo
    <3>2. \A q \in Pools : Holds(q, d)' <=> Holds(q, d)
      BY <1>3, <2>1 DEF Holds, LetsGo
    <3> QED
      BY <3>1, <3>2 DEF JobsOwned
  <2>2. ASSUME NEW d \in Cpis, d = target[p]
        PROVE  ~locked'[d] /\ ~\E q \in Pools : Holds(q, d)'
    <3>1. ~locked'[d]
      BY <1>0, <1>3, <2>2 DEF LetsGo
    <3>2. ASSUME NEW q \in Pools, q # p
          PROVE  ~Holds(q, d)
      BY <1>3, <2>2, <3>2 DEF Inv, LogsLock, Holds, LetsGo
    <3> QED
      BY <1>3, <3>1, <3>2 DEF LetsGo
  <2> QED
    BY <2>1, <2>2 DEF JobsOwned
<1>4. ASSUME NEW t \in Threads, Begin(t) \/ Continue(t) \/ SpuriousWake(t)
      PROVE  JobsOwned'
  BY <1>1, <1>4, CallsHold
<1>5. ASSUME NEW p \in Pools, LogStep(p)
      PROVE  JobsOwned'
  BY <1>1, <1>2, <1>3, <1>5, LogsHold DEF SameHold
<1>6. CASE Condor \/ UNCHANGED vars
  <2>1. UNCHANGED <<locked, lpc, target>>
    BY <1>6, Zenon DEF Condor, vars, job_vars, data_vars, log_vars
  <2> QED
    BY <1>1, <2>1 DEF Holds, Notifying
<1> QED
  BY <1>4, <1>5, <1>6 DEF Next

\* The steps of a thread that put it to sleep, and that change a state.
LEMMA SleepsFrom ==
    ASSUME ThreadTypeOK, NEW t \in Threads, Begin(t) \/ Continue(t) \/ SpuriousWake(t),
           pc'[t] = "waiting"
    PROVE  WaitLock(t) /\ Goto(t, "waiting")
<1>1. ASSUME NEW c \in Cpis, \/ NewJob(t, c) \/ RunCheck(t, c) \/ GetState(t, c) \/ Release(t, c)
                             \/ \E id \in PickIds : FindJob(t, c, id)
                             \/ \E bound \in Patiences :
                                    WaitEnter(t, c, bound) \/ CancelCheck(t, c, bound)
      PROVE  FALSE
  BY <1>1 DEF NewJob, RunCheck, GetState, Release, FindJob, WaitEnter, CancelCheck, Step, At,
              Call, ThreadTypeOK, thread_vars
<1>2. ~(QueryJob(t) \/ OpenLog(t) \/ Attach(t) \/ RunGetLog(t) \/ RunLock(t))
  BY DEF QueryJob, OpenLog, Attach, RunGetLog, RunLock, Goto, Return, Call, ThreadTypeOK
<1>3. ~(Register(t) \/ Submit(t) \/ Publish(t))
  BY DEF Register, Submit, Publish, Abort, Step, At, Goto, Return, Call, ThreadTypeOK, thread_vars
<1>4. ~(Timeout(t) \/ SpuriousWake(t) \/ CancelRm(t) \/ CancelWait(t) \/ Destroy(t))
  BY DEF Timeout, SpuriousWake, CancelRm, CancelWait, Destroy, Goto, Return, Call, ThreadTypeOK
<1>5. WaitLock(t)
  BY <1>1, <1>2, <1>3, <1>4 DEF Begin, Continue
<1>6. ~Return(t)
  BY DEF Return, Call, ThreadTypeOK
<1> QED
  BY <1>5, <1>6 DEF WaitLock

LEMMA CallsLeaveStates ==
    ASSUME CacheInv, NEW t \in Threads, Begin(t) \/ Continue(t) \/ SpuriousWake(t),
           NEW c \in Cpis, life[c] = "live"
    PROVE  state'[job_data[c]] \in {state[job_data[c]], "Running"}
<1>0. state \in [Cpis -> States] /\ job_data[c] \in Cpis
  BY DEF CacheInv, Inv, TypeOK, DataTypeOK, HandlesHaveData
<1>1. CASE QueryJob(t)
  <2>1. /\ me[t] \in Cpis /\ life[me[t]] = "ctor" /\ Unnamed(me[t])
    BY <1>1 DEF CacheInv, Inv, CallsOnHandles, CallsNamed, QueryJob, Step, At, LifeAt
  <2>2. job_data[c] # me[t]
    BY <2>1 DEF CacheInv, UnnamedAlone
  <2> QED
    BY <1>0, <1>1, <2>2 DEF QueryJob
<1>2. CASE Publish(t)
  BY <1>0, <1>2 DEF Publish, Abort, data_vars
<1>3. ASSUME NEW x \in Cpis, \/ NewJob(t, x) \/ RunCheck(t, x) \/ GetState(t, x) \/ Release(t, x)
                             \/ \E id \in PickIds : FindJob(t, x, id)
                             \/ \E bound \in Patiences :
                                    WaitEnter(t, x, bound) \/ CancelCheck(t, x, bound)
      PROVE  UNCHANGED state
  BY <1>3, Zenon DEF NewJob, RunCheck, GetState, Release, FindJob, WaitEnter, CancelCheck,
                     data_vars
<1>4. ASSUME \/ OpenLog(t) \/ Register(t) \/ Attach(t) \/ RunGetLog(t) \/ RunLock(t) \/ Submit(t)
             \/ WaitLock(t) \/ Timeout(t) \/ SpuriousWake(t) \/ CancelRm(t) \/ CancelWait(t)
             \/ Destroy(t)
      PROVE  UNCHANGED state
  BY <1>4, Zenon DEF OpenLog, Register, Attach, RunGetLog, RunLock, Submit, WaitLock, Timeout,
                     SpuriousWake, CancelRm, CancelWait, Destroy, Abort, data_vars
<1> QED
  BY <1>1, <1>2, <1>3, <1>4 DEF Begin, Continue

(* Nobody sleeps through the end of the job: whoever goes to sleep saw the  *)
(* state under the lock of the job, and it changes to a final one only      *)
(* under that lock, which is kept until the sleepers have been woken.       *)
LEMMA WakeupStep ==
    ASSUME CacheInv, NoLostWakeup, Next \/ UNCHANGED vars
    PROVE  NoLostWakeup'
<1> SUFFICES ASSUME "dangling" \notin fault', NEW t \in Threads, pc'[t] = "waiting",
                    state'[MyData(t)'] \in FinalStates
             PROVE  \E p \in Pools : Holds(p, MyData(t))'
  BY DEF NoLostWakeup, At
<1>0. /\ "dangling" \notin fault /\ Inv /\ ThreadTypeOK /\ CallsOnHandles /\ HandlesHaveData
      /\ UnnamedAlone /\ CallsNamed
  BY FaultsStay DEF CacheInv, Inv, TypeOK
<1>a. ASSUME pc[t] = "waiting"
      PROVE  /\ me[t] \in Cpis /\ life[me[t]] = "live" /\ MyData(t) \in Cpis
             /\ state[MyData(t)] \in FinalStates => \E p \in Pools : Holds(p, MyData(t))
  BY <1>0, <1>a DEF CallsOnHandles, HandlesHaveData, LifeAt, At, MyData, NoLostWakeup
<1>1. ASSUME NEW u \in Threads \ {t}, Begin(u) \/ Continue(u) \/ SpuriousWake(u)
      PROVE  \E p \in Pools : Holds(p, MyData(t))'
  <2>1. IdsFrame(u)
    BY <1>0, <1>1, FrameOfCalls
  <2>2. pc[t] = "waiting" /\ me'[t] = me[t]
    BY <2>1 DEF IdsFrame
  <2>3. MyData(t)' = MyData(t)
    BY <1>a, <2>1, <2>2 DEF IdsFrame, MyData
  <2>4. state'[MyData(t)] \in {state[MyData(t)], "Running"}
    BY <1>1, <1>a, <2>2, CallsLeaveStates DEF MyData
  <2>5. state[MyData(t)] \in FinalStates
    BY <2>3, <2>4 DEF FinalStates
  <2>6. PICK p \in Pools : Holds(p, MyData(t))
    BY <1>a, <2>2, <2>5
  <2>7. Holds(p, MyData(t))' <=> Holds(p, MyData(t))
    BY <1>0, <1>1, <1>a, <2>2, <2>3, CallsHold
  <2> QED
    BY <2>3, <2>6, <2>7
<1>2. ASSUME Begin(t) \/ Continue(t) \/ SpuriousWake(t)
      PROVE  FALSE
  <2>1. WaitLock(t) /\ Goto(t, "waiting")
    BY <1>0, <1>2, SleepsFrom
  <2>2. me'[t] = me[t] /\ UNCHANGED <<job_data, state>>
    BY <2>1, Zenon DEF WaitLock, Goto, Refresh, data_vars
  <2>3. Got(me[t]) \notin FinalStates
    BY <1>0, <2>1 DEF WaitLock, Return, Call, Goto, ThreadTypeOK
  <2>4. Got(me[t]) = state[MyData(t)]
    BY <1>0, <2>1, LockedSeesState
  <2> QED
    BY <2>2, <2>3, <2>4 DEF MyData
<1>3. ASSUME NEW p \in Pools, LogStep(p)
      PROVE  \E q \in Pools : Holds(q, MyData(t))'
  <2>1. UNCHANGED <<job_data, me>>
    BY <1>3, Zenon DEF LogStep, Find, Apply, UpdateState, UpdateDone, NotifyAll,
                       handle_vars, thread_vars
  <2>2. /\ pc[t] = "waiting"
        /\ NotifyAll(p) => target[p] # MyData(t)
    <3>1. CASE NotifyAll(p)
      BY <3>1 DEF NotifyAll, Woken, At
    <3>2. CASE ~NotifyAll(p)
      BY <1>3, <3>2, Zenon DEF LogStep, Find, Apply, UpdateState, UpdateDone, thread_vars
    <3> QED
      BY <3>1, <3>2
  <2>3. MyData(t)' = MyData(t) /\ MyData(t) \in Cpis
    BY <1>a, <2>1, <2>2 DEF MyData
  <2>4. ASSUME state[MyData(t)] = state'[MyData(t)]
        PROVE  \E q \in Pools : Holds(q, MyData(t))
    BY <1>a, <2>2, <2>3, <2>4
  <2>5. CASE SameHold
    BY <2>3, <2>4, <2>5 DEF SameHold, Holds
  <2>6. CASE TakesHold(p)
    <3>1. CASE MyData(t) = target[p]
      BY <2>3, <2>6, <3>1 DEF TakesHold, Holds
    <3>2. CASE MyData(t) # target[p]
      <4>1. PICK q \in Pools : Holds(q, MyData(t))
        BY <2>3, <2>4, <2>6, <3>2 DEF TakesHold
      <4>2. target'[q] = MyData(t) /\ Notifying(q)'
        BY <2>3, <2>6, <3>2, <4>1 DEF TakesHold, Holds
      <4> QED
        BY <2>3, <4>2 DEF Holds
    <3> QED
      BY <3>1, <3>2
  <2>7. CASE LetsGo(p)
    <3>1. target[p] # MyData(t)
      BY <2>2, <2>7 DEF LetsGo
    <3>2. PICK q \in Pools : Holds(q, MyData(t)) /\ q # p
      BY <2>4, <2>7, <3>1 DEF LetsGo, Holds
    <3>3. target'[q] = MyData(t) /\ Notifying(q)'
      BY <2>3, <2>7, <3>2 DEF LetsGo, Holds
    <3> QED
      BY <2>3, <3>3 DEF Holds
  <2> QED
    BY <1>0, <1>3, <2>5, <2>6, <2>7, LogsHold
<1>4. ASSUME Condor \/ UNCHANGED vars
      PROVE  \E p \in Pools : Holds(p, MyData(t))'
  <2>1. UNCHANGED <<pc, me, job_data, state, lpc, target>>
    BY <1>4, Zenon DEF Condor, vars, job_vars, thread_vars, handle_vars, data_vars, log_vars
  <2> QED
    BY <1>a, <2>1 DEF MyData, Holds, Notifying
<1> QED
  BY <1>1, <1>2, <1>3, <1>4 DEF Next

(* Every lock has the owner the code gives it: the registry belongs to the  *)
(* thread between the start and the end of its submission and to nobody     *)
(* else, the lock of a job to the log processor that tells its handles.     *)
THEOREM LocksNotLeaked == Spec => []LocksOwned
<1> DEFINE LockInv == CacheInv /\ LocksOwned
<1>1. Init => LockInv
  BY InitCacheInv, JobAssumption DEF Init, LocksOwned, RegistryOwned, JobsOwned, Holds, Notifying
<1>2. LockInv /\ [Next]_vars => LockInv'
  BY StepCacheInv, RegistryOwnedStep, JobsOwnedStep DEF LocksOwned, CacheInv
<1>3. LockInv => LocksOwned
  OBVIOUS
<1> QED
  BY <1>1, <1>2, <1>3, PTL DEF Spec

(* A thread that waits for a job that has become final is about to be       *)
(* woken: the condition variable misses no change of the state, whichever   *)
(* way threads, timeouts and log processors interleave.                     *)
THEOREM NoWakeupLost == Spec => []NoLostWakeup
<1> DEFINE WakeInv == CacheInv /\ NoLostWakeup
<1>1. Init => WakeInv
  BY InitCacheInv DEF Init, NoLostWakeup, At
<1>2. WakeInv /\ [Next]_vars => WakeInv'
  BY StepCacheInv, WakeupStep
<1>3. WakeInv => NoLostWakeup
  OBVIOUS
<1> QED
  BY <1>1, <1>2, <1>3, PTL DEF Spec

(* A thread that has the registry locked finds the lock of its job free,    *)
(* unless another thread has run the job before it: no log processor, and   *)
(* no search, waits for a submission that waits for it.                     *)
SubmitterRuns ==
    \A t \in Threads :
        reg_lock = t /\ At(t, "publish") /\ Unnamed(me[t]) => MtxFree(MyData(t))

THEOREM NoCircleThroughRegistry == Spec => []SubmitterRuns
<1>1. ASSUME CacheInv, LocksOwned, NEW t \in Threads, At(t, "publish"), Unnamed(me[t])
      PROVE  MtxFree(MyData(t))
  <2>1. me[t] \in Cpis /\ life[me[t]] = "live" /\ MyData(t) = me[t]
    BY <1>1, OwnData DEF CacheInv, Inv
  <2>2. ~ClusterKnown(me[t])
    BY <1>1, <2>1 DEF CacheInv, StartedKnown
  <2>3. ASSUME NEW p \in Pools, target[p] = me[t]
        PROVE  FALSE
    BY <1>1, <2>1, <2>2, <2>3, JobAssumption DEF CacheInv, StartedKnown
  <2> QED
    BY <1>1, <2>1, <2>3 DEF LocksOwned, JobsOwned, Holds, MtxFree
<1>2. CacheInv /\ LocksOwned => SubmitterRuns
  BY <1>1 DEF SubmitterRuns
<1> QED
  BY <1>2, CacheInvariance, LocksNotLeaked, PTL

=============================================================================
