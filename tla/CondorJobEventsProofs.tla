----------------------- MODULE CondorJobEventsProofs -----------------------
(***************************************************************************)
(* That ids lead to the data of their job, that no submission is forgotten *)
(* and no event passed over, and that the state of each registered job is  *)
(* what the events of its log make of it, for any number of threads,       *)
(* handles, clusters and processes, and a log of any length.               *)
(*                                                                         *)
(* EventInv is proved inductive on top of CacheInv, from one lemma per     *)
(* conjunct. Most of them follow from what a step does to the registries:  *)
(* nothing, or one thread enters the data of its own handle under an id    *)
(* that was free.                                                          *)
(***************************************************************************)
EXTENDS CondorJobRefinement

-----------------------------------------------------------------------------
(* Data is registered under its own id and in the pool of that id, and the  *)
(* data of each handle with a job id is registered.                         *)
IdsLead ==
    /\ \A p \in Pools, id \in Ids : registry[p][id] # None =>
          p = PoolOfId(id) /\ cluster_id[registry[p][id]] = id
    /\ \A c \in Cpis : ~Unnamed(c) => Registered(job_data[c])

\* What a thread that is about to register data can rely on.
CallReady(t) ==
    /\ pc[t] \in {"query", "openlog", "register"} => want[t][1] \in Foreign
    /\ At(t, "openlog") => want[t][1] \notin Quiet
    /\ pc[t] \in {"openlog", "register"} => cluster_id[me[t]] = want[t]
    /\ At(t, "register") => want[t][1] \in Quiet \/ lpc["log"] # "off"
    /\ pc[t] \in {"run_lock", "submit", "publish"} => lpc["rm"] # "off"
    /\ pc[t] \in {"submit", "publish"} => reg_lock = t
    /\ At(t, "publish") =>
          \/ want[t] = <<Unknown>>
          \/ \E cl \in Own : /\ want[t] = <<cl>>
                             /\ \A i \in 1..Passed("rm") : file["rm"][i].cluster # cl

\* Logs tell of clusters that are or were in the queue, each in its place.
Submitted(cl) == \E pr \in Processes : queue[cl][pr] # "none"

LogsTell ==
    /\ \A p \in Pools : tail[p] <= Len(file[p])
    /\ \A p \in Pools : \A i \in 1..Len(file[p]) :
          PoolOf(file[p][i].cluster) = p /\ Submitted(file[p][i].cluster)

\* The submission of each own cluster leads, or is about to lead, to its data.
SubmittedKnown ==
    \A cl \in Own : Submitted(cl) =>
        \/ \E t \in Threads : At(t, "publish") /\ want[t] \in {<<cl>>, <<Unknown>>}
        \/ registry["rm"][<<cl>>] # None
        \/ registry["rm"][<<Unknown>>] # None

\* Data was registered before the events that are still to be looked up.
JoinedBefore ==
    \A d \in Cpis : Registered(d) =>
        /\ joined[d].at <= Passed(PoolOfData(d))
        /\ PoolOfData(d) # "nolog" => lpc[PoolOfData(d)] # "off"

(* The target of a log processor is the data its event is for: if several   *)
(* handles are registered, that on the cluster; and none registered later.  *)
Busy(p) == lpc[p] = "found" \/ Notifying(p)

TargetRight ==
    \A p \in Pools : Busy(p) =>
        LET e == NextEvent(p)
        IN  /\ target[p] \in {registry[p][<<e.cluster>>], registry[p][<<e.cluster, e.proc>>]}
            /\ joined[target[p]].at <= tail[p]
            /\ \A d \in Cpis :
                  /\ Registered(d) /\ PoolOfData(d) = p /\ ~Shadowed(d)
                  /\ joined[d].at <= tail[p] /\ IsFor(e, cluster_id[d])
                  => target[p] = d

EventInv == /\ CacheInv /\ IdsLead /\ \A t \in Threads : CallReady(t)
            /\ LogsTell /\ SubmittedKnown /\ JoinedBefore /\ NothingMissed
            /\ TargetRight /\ EventsApplied

-----------------------------------------------------------------------------
(* What a step does to what is registered.                                  *)

\* Thread t enters the data of its handle under its id.
Enters(t) ==
    /\ me[t] \in Cpis /\ want[t] \in Ids
    /\ pc[t] \in {"register", "publish"}
    /\ Unnamed(me[t]) /\ job_data[me[t]] = me[t]
    /\ IdFree(want[t])
    /\ RegisterJob(me[t], want[t], state'[me[t]])
    /\ At(t, "publish") => state'[me[t]] = "Running"
    /\ jobid'[me[t]] = want[t] /\ cluster_id'[me[t]] = want[t]
    /\ \A x \in Cpis \ {me[t]} : /\ jobid'[x] = jobid[x] /\ cluster_id'[x] = cluster_id[x]
                                 /\ state'[x] = state[x]
    /\ UNCHANGED <<job_data, log_vars, condor_vars>>

\* Thread t starts a log processor, if there is none yet.
Opens(t) ==
    /\ \/ At(t, "openlog") /\ StartLog(PoolOfId(want[t]))
       \/ At(t, "run_log") /\ StartLog("rm")
    /\ UNCHANGED <<handle_vars, data_vars, reg_vars, reg_lock, condor_vars>>

LEMMA EntersStep ==
    ASSUME CacheInv, NEW t \in Threads, CallReady(t), Register(t) \/ Publish(t), ~Abort
    PROVE  Enters(t)
<1>0. /\ HandleTypeOK /\ DataTypeOK /\ ThreadTypeOK /\ HandlesHaveData /\ CallsOnHandles
      /\ UnnamedAlone /\ CallsNamed
  BY DEF CacheInv, Inv, TypeOK
<1>1. CASE Register(t)
  <2>1. /\ pc[t] = "register" /\ me[t] \in Cpis /\ want[t] \in Ids /\ Unnamed(me[t])
        /\ life[me[t]] = "ctor" /\ cluster_id[me[t]] = want[t]
    BY <1>0, <1>1 DEF Register, Step, At, CallsOnHandles, CallsNamed, LifeAt, CallReady
  <2>2. job_data[me[t]] = me[t]
    BY <1>0, <2>1, JobAssumption DEF HandlesHaveData, UnnamedAlone
  <2>3. /\ IdFree(want[t]) /\ RegisterJob(me[t], want[t], state[me[t]])
        /\ jobid' = [jobid EXCEPT ![me[t]] = want[t]]
        /\ UNCHANGED <<state, cluster_id, job_data, log_vars, condor_vars>>
    BY <1>1 DEF Register, data_vars
  <2>4. jobid'[me[t]] = want[t] /\ \A x \in Cpis \ {me[t]} : jobid'[x] = jobid[x]
    BY <1>0, <2>1, <2>3 DEF HandleTypeOK
  <2>5. ~At(t, "publish")
    BY <2>1 DEF At
  <2> QED
    BY <2>1, <2>2, <2>3, <2>4, <2>5 DEF Enters
<1>2. CASE Publish(t)
  <2>1. At(t, "publish") /\ Unnamed(me[t]) /\ want[t] \in Ids
    BY <1>0, <1>2 DEF Publish, Step, At, Unnamed, CallsNamed
  <2>2. me[t] \in Cpis /\ MyData(t) = me[t]
    BY <1>0, <2>1, OwnData
  <2>3. /\ RegisterJob(me[t], want[t], "Running") /\ IdFree(want[t])
        /\ state' = [state EXCEPT ![me[t]] = "Running"]
        /\ cluster_id' = [cluster_id EXCEPT ![me[t]] = want[t]]
        /\ jobid' = [jobid EXCEPT ![me[t]] = want[t]]
        /\ UNCHANGED <<job_data, log_vars, condor_vars>>
    BY <1>2, <2>2 DEF Publish
  <2>4. state'[me[t]] = "Running"
    BY <1>0, <2>2, <2>3 DEF DataTypeOK
  <2> QED
    BY <1>0, <2>1, <2>2, <2>3, <2>4 DEF Enters, HandleTypeOK, DataTypeOK, At, MyData
<1> QED
  BY <1>1, <1>2

reg_data == <<registry, joined, cluster_id, state>>

LEMMA StepKinds ==
    ASSUME CacheInv, \A t \in Threads : CallReady(t), Next \/ UNCHANGED vars
    PROVE  \/ \E t \in Threads : Enters(t) \/ QueryJob(t) \/ Opens(t)
           \/ \E p \in Pools : LogStep(p)
           \/ UNCHANGED <<reg_data, log_vars>>
<1>1. ASSUME NEW t \in Threads, Begin(t)
      PROVE  UNCHANGED <<reg_data, log_vars>>
  BY <1>1, Zenon DEF Begin, NewJob, FindJob, RunCheck, GetState, WaitEnter, CancelCheck,
                     Release, reg_data, data_vars, reg_vars
<1>2. ASSUME NEW t \in Threads, OpenLog(t) \/ RunGetLog(t)
      PROVE  Opens(t)
  BY <1>2, Zenon DEF OpenLog, RunGetLog, Opens, Step
<1>3. Abort => UNCHANGED <<reg_data, log_vars>>
  BY Zenon DEF Abort, reg_data, data_vars, reg_vars
<1>4. ASSUME NEW t \in Threads, Continue(t) \/ SpuriousWake(t)
      PROVE  \/ UNCHANGED <<reg_data, log_vars>>
             \/ QueryJob(t) \/ OpenLog(t) \/ RunGetLog(t) \/ Register(t) \/ Publish(t)
  BY <1>4, Zenon DEF Continue, SpuriousWake, Attach, RunLock, Submit, WaitLock, Timeout,
                     CancelRm, CancelWait, Destroy, reg_data, data_vars, reg_vars
<1>5. Condor \/ UNCHANGED vars => UNCHANGED <<reg_data, log_vars>>
  BY Zenon DEF Condor, vars, job_vars, reg_data, data_vars, reg_vars
<1> QED
  BY <1>1, <1>2, <1>3, <1>4, <1>5, EntersStep DEF Next

LEMMA QueryShape ==
    ASSUME CacheInv, NEW t \in Threads, QueryJob(t)
    PROVE  /\ me[t] \in Cpis /\ Unnamed(me[t])
           /\ \A p \in Pools, id \in Ids : registry[p][id] # me[t]
           /\ \A x \in Cpis \ {me[t]} : state'[x] = state[x] /\ cluster_id'[x] = cluster_id[x]
           /\ UNCHANGED <<registry, joined, jobid, job_data, reg_lock, log_vars, condor_vars>>
<1>0. DataTypeOK /\ CallsOnHandles /\ UnnamedAlone /\ CallsNamed
  BY DEF CacheInv, Inv, TypeOK
<1>1. me[t] \in Cpis /\ Unnamed(me[t])
  BY <1>0 DEF QueryJob, Step, At, CallsOnHandles, CallsNamed
<1>2. \A p \in Pools, id \in Ids : registry[p][id] # me[t]
  BY <1>0, <1>1 DEF UnnamedAlone
<1>3. /\ \A x \in Cpis \ {me[t]} : state'[x] = state[x] /\ cluster_id'[x] = cluster_id[x]
      /\ UNCHANGED <<registry, joined, jobid, job_data, reg_lock, log_vars, condor_vars>>
  BY <1>0, <1>1 DEF QueryJob, DataTypeOK, reg_vars
<1> QED
  BY <1>1, <1>2, <1>3

LEMMA LogShape ==
    ASSUME CacheInv, NEW p \in Pools, LogStep(p)
    PROVE  /\ UNCHANGED <<registry, joined, cluster_id, jobid, job_data, reg_lock,
                          condor_vars, me, want>>
           /\ \A d \in Cpis : state'[d] = state[d] \/ (Apply(p) /\ target[p] = d)
           /\ \A q \in Pools \ {p} : lpc'[q] = lpc[q] /\ tail'[q] = tail[q]
                                     /\ target'[q] = target[q]
<1>0. DataTypeOK /\ LogTypeOK
  BY DEF CacheInv, Inv, TypeOK
<1>1. UNCHANGED <<registry, joined, cluster_id, jobid, job_data, reg_lock,
                  condor_vars, me, want>>
  BY Zenon DEF LogStep, Find, Apply, UpdateState, UpdateDone, NotifyAll, handle_vars,
               data_vars, reg_vars, thread_vars
<1>2. Apply(p) \/ UNCHANGED state
  BY Zenon DEF LogStep, Find, UpdateState, UpdateDone, NotifyAll, data_vars
<1>3. ASSUME NEW d \in Cpis, Apply(p), target[p] # d
      PROVE  state'[d] = state[d]
  BY <1>0, <1>3 DEF Apply, DataTypeOK, data_vars
<1>4. ASSUME NEW q \in Pools \ {p}
      PROVE  lpc'[q] = lpc[q] /\ tail'[q] = tail[q] /\ target'[q] = target[q]
  <2>1. Advance(p) => lpc'[q] = lpc[q] /\ tail'[q] = tail[q] /\ target'[q] = target[q]
    BY <1>0 DEF Advance, LogTypeOK
  <2>2. Find(p) \/ Apply(p) => lpc'[q] = lpc[q] /\ tail'[q] = tail[q] /\ target'[q] = target[q]
    BY <1>0, <2>1 DEF Find, Apply, LogTypeOK
  <2>3. UpdateDone(p) \/ NotifyAll(p) \/ (\E c \in Cpis : UpdateState(p, c))
           => lpc'[q] = lpc[q] /\ tail'[q] = tail[q] /\ target'[q] = target[q]
    BY <1>0, <2>1 DEF UpdateState, UpdateDone, NotifyAll, LogTypeOK
  <2> QED
    BY <2>2, <2>3 DEF LogStep
<1> QED
  BY <1>1, <1>2, <1>3, <1>4

LEMMA EntersShape ==
    ASSUME CacheInv, NEW t \in Threads, Enters(t)
    PROVE  /\ \A p \in Pools, id \in Ids :
                 \/ registry'[p][id] = registry[p][id]
                 \/ /\ p = PoolOfId(want[t]) /\ id = want[t]
                    /\ registry[p][id] = None /\ registry'[p][id] = me[t]
           /\ registry'[PoolOfId(want[t])][want[t]] = me[t]
           /\ joined'[me[t]] = [at |-> Passed(PoolOfId(want[t])), as |-> state'[me[t]]]
           /\ \A d \in Cpis \ {me[t]} : joined'[d] = joined[d]
           /\ \A p \in Pools, id \in Ids : registry[p][id] # me[t]
BY PoolType DEF Enters, RegisterJob, IdFree, CacheInv, Inv, TypeOK, RegistryTypeOK,
                UnnamedAlone

(* What is registered stays so, and only the log processor whose target it  *)
(* is changes its state.                                                    *)
LEMMA RegisteredKept ==
    ASSUME CacheInv, \A t \in Threads : CallReady(t), Next \/ UNCHANGED vars
    PROVE  /\ \A p \in Pools, id \in Ids :
                 registry[p][id] # None => registry'[p][id] = registry[p][id]
           /\ \A d \in Cpis : Registered(d) =>
                 /\ Registered(d)' /\ cluster_id'[d] = cluster_id[d] /\ joined'[d] = joined[d]
                 /\ state'[d] = state[d] \/ \E p \in Pools : Apply(p) /\ target[p] = d
<1>0. cluster_id \in [Cpis -> Ids \cup {NoId}]
  BY DEF CacheInv, Inv, TypeOK, DataTypeOK
<1>1. ASSUME NEW t \in Threads, Enters(t)
      PROVE  /\ \A p \in Pools, id \in Ids :
                   registry[p][id] # None => registry'[p][id] = registry[p][id]
             /\ \A d \in Cpis : Registered(d) =>
                   /\ Registered(d)' /\ cluster_id'[d] = cluster_id[d] /\ joined'[d] = joined[d]
                   /\ state'[d] = state[d]
  <2>a. \A p \in Pools, id \in Ids :
                 \/ registry'[p][id] = registry[p][id]
                 \/ /\ p = PoolOfId(want[t]) /\ id = want[t]
                    /\ registry[p][id] = None /\ registry'[p][id] = me[t]
    BY <1>1, EntersShape
  <2>1. \A p \in Pools, id \in Ids :
           registry[p][id] # None => registry'[p][id] = registry[p][id]
    BY <2>a
  <2>2. ASSUME NEW d \in Cpis, Registered(d)
        PROVE  /\ Registered(d)' /\ cluster_id'[d] = cluster_id[d] /\ joined'[d] = joined[d]
               /\ state'[d] = state[d]
    <3>1. cluster_id[d] \in Ids /\ PoolOfId(cluster_id[d]) \in Pools
      BY <1>0, <2>2, PoolType DEF Registered
    <3>2. d # me[t]
      <4>1. \A p \in Pools, id \in Ids : registry[p][id] # me[t]
        BY <1>1, EntersShape
      <4>2. registry[PoolOfId(cluster_id[d])][cluster_id[d]] = d
        BY <2>2 DEF Registered
      <4> QED
        BY <3>1, <4>1, <4>2
    <3>3. cluster_id'[d] = cluster_id[d] /\ joined'[d] = joined[d] /\ state'[d] = state[d]
      BY <1>1, <3>2, EntersShape DEF Enters
    <3> QED
      BY <2>1, <2>2, <3>1, <3>3, JobAssumption DEF Registered, PoolOfId
  <2> QED
    BY <2>1, <2>2
<1>2. ASSUME NEW t \in Threads, QueryJob(t), NEW d \in Cpis, Registered(d)
      PROVE  /\ Registered(d)' /\ cluster_id'[d] = cluster_id[d] /\ joined'[d] = joined[d]
             /\ state'[d] = state[d]
  <2>1. d # me[t]
    BY <1>0, <1>2, QueryShape, PoolType DEF Registered
  <2> QED
    BY <1>2, <2>1, QueryShape DEF Registered, PoolOfId
<1>3. ASSUME NEW p \in Pools, LogStep(p), NEW d \in Cpis, Registered(d)
      PROVE  /\ Registered(d)' /\ cluster_id'[d] = cluster_id[d] /\ joined'[d] = joined[d]
             /\ state'[d] = state[d] \/ (Apply(p) /\ target[p] = d)
  BY <1>3, LogShape DEF Registered, PoolOfId
<1>4. ASSUME \/ UNCHANGED <<reg_data, log_vars>> \/ \E t \in Threads : Opens(t)
      PROVE  UNCHANGED reg_data
  BY <1>4 DEF reg_data, Opens, data_vars, reg_vars
<1>5. ASSUME NEW d \in Cpis, Registered(d), UNCHANGED reg_data
      PROVE  /\ Registered(d)' /\ cluster_id'[d] = cluster_id[d] /\ joined'[d] = joined[d]
             /\ state'[d] = state[d]
  BY <1>5 DEF reg_data, Registered, PoolOfId
<1>6. ASSUME \/ \E t \in Threads : QueryJob(t)
             \/ \E p \in Pools : LogStep(p)
             \/ UNCHANGED reg_data
      PROVE  UNCHANGED registry
  BY <1>6, QueryShape, LogShape DEF reg_data
<1> QED
  BY <1>1, <1>2, <1>3, <1>4, <1>5, <1>6, StepKinds

\* Data is registered by being entered.
LEMMA RegisteredNew ==
    ASSUME CacheInv, \A t \in Threads : CallReady(t), Next \/ UNCHANGED vars,
           NEW d \in Cpis, Registered(d)'
    PROVE  Registered(d) \/ \E t \in Threads : Enters(t) /\ d = me[t]
<1>0. cluster_id' \in [Cpis -> Ids \cup {NoId}]
  BY StepCacheInv DEF CacheInv, Inv, TypeOK, DataTypeOK
<1>1. cluster_id'[d] \in Ids /\ PoolOfId(cluster_id'[d]) \in Pools
  BY <1>0, PoolType DEF Registered, PoolOfId
<1>2. ASSUME NEW t \in Threads, Enters(t), d # me[t]
      PROVE  Registered(d)
  <2>1. cluster_id'[d] = cluster_id[d]
    BY <1>2 DEF Enters
  <2>2. /\ registry'[PoolOfId(cluster_id[d])][cluster_id[d]] = d
        /\ cluster_id[d] \in Ids /\ PoolOfId(cluster_id[d]) \in Pools
    BY <1>1, <2>1 DEF Registered, PoolOfId
  <2>a. \A p \in Pools, id \in Ids :
                 \/ registry'[p][id] = registry[p][id]
                 \/ /\ p = PoolOfId(want[t]) /\ id = want[t]
                    /\ registry[p][id] = None /\ registry'[p][id] = me[t]
    BY <1>2, EntersShape
  <2>3. \A p \in Pools, id \in Ids : registry'[p][id] = registry[p][id] \/ registry'[p][id] = me[t]
    BY <2>a
  <2>4. registry[PoolOfId(cluster_id[d])][cluster_id[d]] = d
    BY <1>2, <2>2, <2>3
  <2> QED
    BY <2>2, <2>4, NoIdType DEF Registered
<1>3. ASSUME NEW t \in Threads, QueryJob(t)
      PROVE  Registered(d)
  <2>1. d # me[t]
    BY <1>1, <1>3, QueryShape DEF Registered, PoolOfId
  <2> QED
    BY <1>3, <2>1, QueryShape DEF Registered, PoolOfId
<1>4. ASSUME UNCHANGED <<registry, cluster_id>>
      PROVE  Registered(d)
  BY <1>4 DEF Registered, PoolOfId
<1>5. ASSUME \/ \E t \in Threads : Opens(t)
             \/ \E p \in Pools : LogStep(p)
             \/ UNCHANGED reg_data
      PROVE  UNCHANGED <<registry, cluster_id>>
  BY <1>5, LogShape DEF reg_data, Opens, data_vars, reg_vars
<1> QED
  BY <1>2, <1>3, <1>4, <1>5, StepKinds

-----------------------------------------------------------------------------
(* Every step leaves ids leading to the data of their job.                  *)

LEMMA NameKinds ==
    ASSUME CacheInv, \A t \in Threads : CallReady(t), Next \/ UNCHANGED vars
    PROVE  \/ UNCHANGED <<jobid, job_data>>
           \/ \E t \in Threads :
                 \/ Enters(t)
                 \/ \E c \in Cpis : NewJob(t, c) \/ \E id \in PickIds : FindJob(t, c, id)
<1>1. ASSUME NEW t \in Threads, NEW c \in Cpis,
             \/ RunCheck(t, c) \/ GetState(t, c) \/ Release(t, c)
             \/ \E bound \in Patiences : WaitEnter(t, c, bound) \/ CancelCheck(t, c, bound)
      PROVE  UNCHANGED <<jobid, job_data>>
  BY <1>1, Zenon DEF RunCheck, GetState, WaitEnter, CancelCheck, Release, Refresh
<1>2. Abort => UNCHANGED <<jobid, job_data>>
  BY Zenon DEF Abort, handle_vars
<1>3. ASSUME NEW t \in Threads, Continue(t) \/ SpuriousWake(t)
      PROVE  UNCHANGED <<jobid, job_data>> \/ Register(t) \/ Publish(t)
  BY <1>3, Zenon DEF Continue, SpuriousWake, QueryJob, OpenLog, Attach, RunGetLog, RunLock,
                     Submit, WaitLock, Timeout, CancelRm, CancelWait, Destroy, Refresh,
                     handle_vars
<1>4. \/ \E p \in Pools : LogStep(p)
      \/ Condor \/ UNCHANGED vars
      => UNCHANGED <<jobid, job_data>>
  BY OthersNameNothing
<1> QED
  BY <1>1, <1>2, <1>3, <1>4, EntersStep DEF Next, Begin

LEMMA IdsLeadStep ==
    ASSUME CacheInv, IdsLead, \A t \in Threads : CallReady(t), Next \/ UNCHANGED vars
    PROVE  IdsLead'
<1>0. /\ HandleTypeOK /\ RegistryTypeOK /\ UnnamedAlone /\ HandlesHaveData
      /\ cluster_id \in [Cpis -> Ids \cup {NoId}]
  BY DEF CacheInv, Inv, TypeOK, DataTypeOK
<1>a. ASSUME NEW p \in Pools, NEW id \in Ids, registry[p][id] # None
      PROVE  /\ registry[p][id] \in Cpis /\ p = PoolOfId(id)
             /\ cluster_id[registry[p][id]] = id /\ Registered(registry[p][id])
  BY <1>0, <1>a, NoIdType DEF RegistryTypeOK, IdsLead, Registered
<1>1. ASSUME NEW p \in Pools, NEW id \in Ids, registry'[p][id] # None
      PROVE  p = PoolOfId(id) /\ cluster_id'[registry'[p][id]] = id
  <2>1. CASE registry[p][id] # None
    <3>1. registry'[p][id] = registry[p][id]
      BY <2>1, RegisteredKept
    <3>2. cluster_id'[registry[p][id]] = cluster_id[registry[p][id]]
      BY <1>a, <2>1, RegisteredKept
    <3> QED
      BY <1>a, <2>1, <3>1, <3>2
  <2>2. CASE registry[p][id] = None
    <3>1. \/ UNCHANGED registry
          \/ \E t \in Threads : Enters(t)
      BY StepKinds, QueryShape, LogShape DEF Opens, reg_data, reg_vars
    <3>2. PICK t \in Threads : Enters(t)
      BY <1>1, <2>2, <3>1
    <3>a. \A q \in Pools, i \in Ids :
                 \/ registry'[q][i] = registry[q][i]
                 \/ /\ q = PoolOfId(want[t]) /\ i = want[t]
                    /\ registry[q][i] = None /\ registry'[q][i] = me[t]
      BY <3>2, EntersShape
    <3>3. p = PoolOfId(want[t]) /\ id = want[t] /\ registry'[p][id] = me[t]
      BY <1>1, <2>2, <3>a
    <3> QED
      BY <1>1, <2>2, <3>2, <3>3 DEF Enters
  <2> QED
    BY <2>1, <2>2
<1>2. ASSUME NEW c \in Cpis, jobid'[c] # NoId
      PROVE  Registered(job_data[c])'
  <2>1. ASSUME NEW d \in Cpis, Registered(d), job_data'[c] = d
        PROVE  Registered(job_data[c])'
    <3>1. Registered(d)'
      BY <2>1, RegisteredKept
    <3> QED
      BY <2>1, <3>1 DEF Registered, PoolOfId
  <2>2. ASSUME ~Unnamed(c), job_data'[c] = job_data[c]
        PROVE  Registered(job_data[c])'
    <3>1. job_data[c] \in Cpis /\ Registered(job_data[c])
      BY <1>0, <2>2 DEF IdsLead, UnnamedAlone, HandlesHaveData
    <3> QED
      BY <2>1, <2>2, <3>1
  <2>3. CASE UNCHANGED <<jobid, job_data>>
    BY <1>2, <2>2, <2>3 DEF Unnamed
  <2>4. ASSUME NEW t \in Threads, Enters(t)
        PROVE  Registered(job_data[c])'
    <3>1. CASE c # me[t]
      BY <1>2, <2>2, <2>4, <3>1 DEF Enters, Unnamed
    <3>2. CASE c = me[t]
      <4>1. job_data'[c] = me[t] /\ cluster_id'[me[t]] = want[t] /\ want[t] \in Ids
        BY <2>4, <3>2 DEF Enters
      <4>2. registry'[PoolOfId(want[t])][want[t]] = me[t]
        BY <2>4, EntersShape
      <4> QED
        BY <4>1, <4>2, NoIdType DEF Registered, PoolOfId
    <3> QED
      BY <3>1, <3>2
  <2>5. ASSUME NEW t \in Threads, NEW x \in Cpis, NewJob(t, x)
        PROVE  Registered(job_data[c])'
    <3>1. ~Unnamed(c) /\ life[x] = "none" /\ Unnamed(x)
      BY <1>0, <1>2, <2>5 DEF NewJob, Unnamed, UnnamedAlone
    <3>2. job_data'[c] = job_data[c]
      BY <1>0, <2>5, <3>1 DEF NewJob, HandleTypeOK
    <3> QED
      BY <2>2, <3>1, <3>2
  <2>6. ASSUME NEW t \in Threads, NEW x \in Cpis, NEW id \in PickIds, FindJob(t, x, id)
        PROVE  Registered(job_data[c])'
    <3>1. life[x] = "none" /\ Unnamed(x) /\ id \in Ids
      BY <1>0, <2>6, JobAssumption DEF FindJob, UnnamedAlone
    <3>2. CASE c # x
      <4>1. jobid'[c] = jobid[c] /\ job_data'[c] = job_data[c]
        BY <1>0, <2>6, <3>2 DEF FindJob, HandleTypeOK
      <4> QED
        BY <1>2, <2>2, <4>1 DEF Unnamed
    <3>3. CASE c = x
      <4>1. FoundJob(id) # None /\ job_data'[c] = FoundJob(id)
        BY <1>0, <1>2, <2>6, <3>1, <3>3 DEF FindJob, HandleTypeOK, Unnamed
      <4>2. FoundJob(id) \in Cpis /\ Registered(FoundJob(id))
        BY <1>a, <3>1, <4>1, PoolType DEF FoundJob
      <4> QED
        BY <2>1, <4>1, <4>2
    <3> QED
      BY <3>2, <3>3
  <2> QED
    BY <2>3, <2>4, <2>5, <2>6, NameKinds
<1>3. \A p \in Pools, id \in Ids : registry'[p][id] # None =>
          p = PoolOfId(id)' /\ cluster_id'[registry'[p][id]] = id
  BY <1>1 DEF PoolOfId
<1> QED
  BY <1>2, <1>3 DEF IdsLead, Unnamed, PoolOfId

-----------------------------------------------------------------------------
(* Every step leaves the logs telling of submitted clusters.                *)

\* What a step does to Condor.
LEMMA CondorKinds ==
    ASSUME TypeOK, Next \/ UNCHANGED vars
    PROVE  \/ UNCHANGED condor_vars
           \/ \E cl \in Clusters, pr \in Processes : CondorStep(cl, pr)
           \/ \E t \in Threads, cl \in Own, pr \in Processes :
                 /\ Submit(t) /\ CondorSubmit(cl, pr)
                 /\ At(t, "publish")' /\ want'[t] \in {<<cl>>, <<Unknown>>}
           \/ \E cl, prs : CondorRemove(cl, prs)
<1>1. ASSUME NEW t \in Threads, NEW c \in Cpis,
             \/ NewJob(t, c) \/ RunCheck(t, c) \/ GetState(t, c) \/ Release(t, c)
             \/ \E id \in PickIds : FindJob(t, c, id)
             \/ \E bound \in Patiences : WaitEnter(t, c, bound) \/ CancelCheck(t, c, bound)
      PROVE  UNCHANGED condor_vars
  BY <1>1, Zenon DEF NewJob, FindJob, RunCheck, GetState, WaitEnter, CancelCheck, Release
<1>2. ASSUME NEW t \in Threads, Continue(t) \/ SpuriousWake(t)
      PROVE  UNCHANGED condor_vars \/ Submit(t) \/ CancelRm(t)
  BY <1>2, Zenon DEF condor_vars, Continue, SpuriousWake, QueryJob, OpenLog, Register,
         Attach, RunGetLog, RunLock, Publish, WaitLock, Timeout, CancelWait, Destroy, Abort
<1>3. ASSUME NEW t \in Threads, Submit(t)
      PROVE  \/ UNCHANGED condor_vars
             \/ \E cl \in Own, pr \in Processes :
                   /\ CondorSubmit(cl, pr)
                   /\ At(t, "publish")' /\ want'[t] \in {<<cl>>, <<Unknown>>}
  <2>1. CASE UNCHANGED condor_vars
    BY <2>1
  <2>2. CASE ~UNCHANGED condor_vars
    <3>1. PICK cl \in Own, pr \in Processes : \E id \in {<<cl>>, <<Unknown>>} :
             CondorSubmit(cl, pr) /\ Call(t, "publish", me[t], id, "zero")
      BY <1>3, <2>2 DEF Submit
    <3> QED
      BY <3>1 DEF Call, At, TypeOK, ThreadTypeOK
  <2> QED
    BY <2>1, <2>2
<1>4. ASSUME NEW t \in Threads, CancelRm(t)
      PROVE  UNCHANGED condor_vars \/ \E cl, prs : CondorRemove(cl, prs)
  BY <1>4 DEF CancelRm
<1>5. ASSUME NEW p \in Pools, LogStep(p)
      PROVE  UNCHANGED condor_vars
  BY <1>5, Zenon DEF condor_vars, LogStep, Find, Apply, UpdateState, UpdateDone, NotifyAll
<1>6. Condor => \E cl \in Clusters, pr \in Processes : CondorStep(cl, pr)
  BY DEF Condor
<1>7. UNCHANGED vars => UNCHANGED condor_vars
  BY DEF vars
<1> QED
  BY <1>1, <1>2, <1>3, <1>4, <1>5, <1>6, <1>7 DEF Next, Begin

\* A log gets longer at its end, and there with events of its own clusters.
LEMMA FileGrows ==
    ASSUME TypeOK, NEW cl \in Clusters, NEW pr \in Processes, NEW type \in EventTypes,
           LogEvent(cl, pr, type)
    PROVE  \A p \in Pools :
              /\ \A i \in 1..Len(file[p]) : file'[p][i] = file[p][i]
              /\ \A i \in 1..Len(file'[p]) :
                    \/ i \in 1..Len(file[p])
                    \/ p = PoolOf(cl) /\ file'[p][i].cluster = cl
<1> DEFINE e == [cluster |-> cl, proc |-> pr, type |-> type]
<1>1. file \in [Pools -> Seq(Event)] /\ e \in Event /\ PoolOf(cl) \in Pools
  BY PoolType DEF TypeOK, QueueTypeOK, Event
<1>2. file' = [file EXCEPT ![PoolOf(cl)] = Append(@, e)]
  BY DEF LogEvent
<1> HIDE DEF e
<1>3. ASSUME NEW p \in Pools, p # PoolOf(cl)
      PROVE  file'[p] = file[p]
  BY <1>1, <1>2, <1>3
<1>4. file'[PoolOf(cl)] = Append(file[PoolOf(cl)], e) /\ file[PoolOf(cl)] \in Seq(Event)
  BY <1>1, <1>2
<1>5. /\ Len(file'[PoolOf(cl)]) = Len(file[PoolOf(cl)]) + 1
      /\ \A i \in 1..Len(file[PoolOf(cl)]) : file'[PoolOf(cl)][i] = file[PoolOf(cl)][i]
      /\ file'[PoolOf(cl)][Len(file[PoolOf(cl)]) + 1] = e
  BY <1>1, <1>4
<1>6. \A i \in 1..Len(file'[PoolOf(cl)]) :
         i \in 1..Len(file[PoolOf(cl)]) \/ i = Len(file[PoolOf(cl)]) + 1
  BY <1>1, <1>5
<1> QED
  BY <1>3, <1>5, <1>6 DEF e

LEMMA SubmittedStep ==
    ASSUME TypeOK, Next \/ UNCHANGED vars, NEW cl \in Clusters
    PROVE  /\ Submitted(cl) => Submitted(cl)'
           /\ Submitted(cl)' =>
                 \/ Submitted(cl)
                 \/ \E t \in Threads : /\ Submit(t) /\ At(t, "publish")'
                                       /\ want'[t] \in {<<cl>>, <<Unknown>>}
<1>0. queue \in [Clusters -> [Processes -> Places]]
  BY DEF TypeOK, QueueTypeOK
<1>1. ASSUME NEW k \in Clusters, NEW pr \in Processes, CondorStep(k, pr)
      PROVE  Submitted(cl) <=> Submitted(cl)'
  <2>1. PICK h \in Happenings : /\ queue[k][pr] = h[1]
                                /\ queue' = [queue EXCEPT ![k][pr] = h[3]]
    BY <1>1 DEF CondorStep
  <2>2. h[1] # "none" /\ h[3] # "none"
    BY DEF Happenings
  <2>3. /\ queue[k][pr] # "none" /\ queue'[k][pr] # "none"
        /\ \A c \in Clusters, q \in Processes :
              c # k \/ q # pr => queue'[c][q] = queue[c][q]
    BY <1>0, <2>1, <2>2
  <2> QED
    BY <2>3 DEF Submitted
<1>2. ASSUME NEW k \in Own, NEW pr \in Processes, CondorSubmit(k, pr)
      PROVE  /\ cl # k => (Submitted(cl) <=> Submitted(cl)')
             /\ cl = k => Submitted(cl)'
  <2>1. k \in Clusters
    BY DEF Clusters
  <2>2. /\ \A c \in Clusters \ {k} : queue'[c] = queue[c]
        /\ queue'[k] = [q \in Processes |-> "idle"]
    BY <1>0, <1>2, <2>1 DEF CondorSubmit
  <2> QED
    BY <2>2 DEF Submitted
<1>3. ASSUME NEW k, NEW prs, CondorRemove(k, prs)
      PROVE  Submitted(cl) <=> Submitted(cl)'
  <2>1. \A pr \in Processes : \/ queue'[cl][pr] = queue[cl][pr]
                              \/ queue'[cl][pr] = "removing" /\ queue[cl][pr] \in Queued
    BY <1>0, <1>3 DEF CondorRemove, Removable
  <2>2. "none" \notin Queued /\ "removing" # "none"
    BY DEF Queued
  <2> QED
    BY <2>1, <2>2 DEF Submitted
<1>4. UNCHANGED condor_vars => (Submitted(cl) <=> Submitted(cl)')
  BY DEF condor_vars, Submitted
<1> QED
  BY <1>1, <1>2, <1>3, <1>4, CondorKinds

LEMMA FileStep ==
    ASSUME TypeOK, Next \/ UNCHANGED vars, NEW p \in Pools
    PROVE  /\ Len(file[p]) \in Nat /\ Len(file'[p]) \in Nat /\ Len(file'[p]) >= Len(file[p])
           /\ \A i \in 1..Len(file[p]) : file'[p][i] = file[p][i] /\ file[p][i] \in Event
           /\ \A i \in 1..Len(file'[p]) :
                 \/ i \in 1..Len(file[p])
                 \/ PoolOf(file'[p][i].cluster) = p /\ Submitted(file[p][i].cluster)'
<1>0. file \in [Pools -> Seq(Event)] /\ file' \in [Pools -> Seq(Event)]
  BY QueueStep DEF TypeOK, QueueTypeOK
<1>1. /\ Len(file[p]) \in Nat /\ Len(file'[p]) \in Nat /\ Len(file'[p]) >= Len(file[p])
      /\ \A i \in 1..Len(file[p]) : file[p][i] \in Event
  BY <1>0, QueueStep
<1>2. ASSUME NEW cl \in Clusters, NEW pr \in Processes,
             CondorStep(cl, pr) \/ CondorSubmit(cl, pr)
      PROVE  \E type \in EventTypes : LogEvent(cl, pr, type)
  BY <1>2, HappeningType DEF CondorStep, CondorSubmit, EventTypes, StateOfEvent
<1>3. ASSUME NEW cl \in Clusters, NEW pr \in Processes,
             CondorStep(cl, pr) \/ CondorSubmit(cl, pr)
      PROVE  Submitted(cl)'
  <2>0. queue \in [Clusters -> [Processes -> Places]]
    BY DEF TypeOK, QueueTypeOK
  <2>1. CASE CondorStep(cl, pr)
    <3>1. PICK h \in Happenings : queue' = [queue EXCEPT ![cl][pr] = h[3]]
      BY <2>1 DEF CondorStep
    <3>2. queue'[cl][pr] # "none"
      BY <2>0, <3>1 DEF Happenings
    <3> QED
      BY <3>2 DEF Submitted
  <2>2. CASE CondorSubmit(cl, pr)
    BY <2>0, <2>2 DEF CondorSubmit, Submitted
  <2> QED
    BY <1>3, <2>1, <2>2
<1>4. ASSUME NEW cl \in Clusters, NEW pr \in Processes,
             CondorStep(cl, pr) \/ CondorSubmit(cl, pr)
      PROVE  /\ \A i \in 1..Len(file[p]) : file'[p][i] = file[p][i]
             /\ \A i \in 1..Len(file'[p]) :
                   \/ i \in 1..Len(file[p])
                   \/ PoolOf(file'[p][i].cluster) = p /\ Submitted(file[p][i].cluster)'
  <2>1. PICK type \in EventTypes : LogEvent(cl, pr, type)
    BY <1>2, <1>4
  <2>2. /\ \A i \in 1..Len(file[p]) : file'[p][i] = file[p][i]
        /\ \A i \in 1..Len(file'[p]) :
              \/ i \in 1..Len(file[p])
              \/ p = PoolOf(cl) /\ file'[p][i].cluster = cl
    BY <2>1, FileGrows
  <2>3. Submitted(cl)'
    BY <1>3, <1>4
  <2> QED
    BY <2>2, <2>3 DEF Submitted
<1>5. UNCHANGED condor_vars \/ (\E cl, prs : CondorRemove(cl, prs)) => UNCHANGED file
  BY DEF condor_vars, CondorRemove
<1>6. Own \subseteq Clusters
  BY DEF Clusters
<1> QED
  BY <1>1, <1>4, <1>5, <1>6, CondorKinds

-----------------------------------------------------------------------------
(* How far a step takes the log processors.                                 *)

LEMMA PassedStep ==
    ASSUME CacheInv, LogsTell, \A t \in Threads : CallReady(t), Next \/ UNCHANGED vars,
           NEW p \in Pools
    PROVE  /\ Passed(p) \in Nat /\ Passed(p) <= Len(file[p])
           /\ Passed(p)' \in Nat /\ Passed(p)' >= Passed(p)
           /\ tail'[p] <= Len(file'[p])
           /\ lpc[p] # "off" => lpc'[p] # "off"
           /\ lpc[p] # "off" /\ ~Find(p) => Passed(p)' = Passed(p)
           /\ lpc[p] = "off" => \/ lpc'[p] = "off" /\ tail'[p] = tail[p]
                                \/ \E t \in Threads : Opens(t) /\ StartLog(p)
<1>0. /\ LogTypeOK /\ LogsLock /\ tail[p] <= Len(file[p]) /\ lpc[p] \in LogPoints
      /\ tail[p] \in Nat /\ Len(file[p]) \in Nat
      /\ Len(file'[p]) \in Nat /\ Len(file'[p]) >= Len(file[p])
  BY FileStep DEF CacheInv, Inv, TypeOK, LogsTell, LogTypeOK
<1>1. lpc[p] \notin {"off", "reading"} => tail[p] < Len(file[p])
  BY <1>0 DEF LogsLock, Notifying, LogPoints
<1>2. Passed(p) \in Nat /\ Passed(p) <= Len(file[p])
  BY <1>0, <1>1 DEF Passed
<1> DEFINE Moved == /\ Passed(p)' \in Nat /\ Passed(p)' >= Passed(p)
                    /\ tail'[p] <= Len(file'[p])
                    /\ lpc[p] # "off" => lpc'[p] # "off"
                    /\ lpc[p] # "off" /\ ~Find(p) => Passed(p)' = Passed(p)
                    /\ lpc[p] = "off" =>
                          \/ lpc'[p] = "off" /\ tail'[p] = tail[p]
                          \/ \E t \in Threads : Opens(t) /\ StartLog(p)
<1>3. ASSUME lpc'[p] = lpc[p], tail'[p] = tail[p]
      PROVE  Moved
  BY <1>0, <1>2, <1>3 DEF Passed
<1>4. ASSUME UNCHANGED log_vars
      PROVE  Moved
  BY <1>3, <1>4 DEF log_vars
<1>5. ASSUME NEW t \in Threads, Opens(t)
      PROVE  Moved
  <2>1. PICK q \in Pools : StartLog(q)
    BY <1>5, PoolType DEF Opens, Pools
  <2>2. CASE q # p
    <3>1. lpc'[p] = lpc[p] /\ tail'[p] = tail[p]
      BY <1>0, <2>1, <2>2 DEF StartLog, LogProcessor, LogTypeOK, log_vars
    <3> QED
      BY <1>3, <3>1
  <2>3. CASE q = p /\ lpc[p] # "off"
    BY <1>4, <2>1, <2>3 DEF StartLog
  <2>4. CASE q = p /\ lpc[p] = "off"
    <3>1. lpc'[p] = "reading" /\ tail'[p] = Len(file[p])
      BY <1>0, <2>1, <2>4 DEF StartLog, LogProcessor, LogTypeOK
    <3> QED
      BY <1>0, <1>5, <2>1, <2>4, <3>1 DEF Passed
  <2> QED
    BY <2>2, <2>3, <2>4
<1>6. ASSUME NEW q \in Pools, LogStep(q), q # p
      PROVE  Moved
  BY <1>3, <1>6, LogShape
<1>7. ASSUME LogStep(p)
      PROVE  Moved
  <2>1. Advance(p) => lpc'[p] = "reading" /\ tail'[p] = tail[p] + 1
    BY <1>0 DEF Advance, LogTypeOK
  <2>2. CASE Find(p)
    <3>1. lpc[p] = "reading" /\ tail[p] < Len(file[p])
      BY <2>2 DEF Find, LogAt
    <3>2. \/ lpc'[p] = "reading" /\ tail'[p] = tail[p] + 1
          \/ lpc'[p] = "found" /\ tail'[p] = tail[p]
      BY <1>0, <2>1, <2>2 DEF Find, LogTypeOK
    <3> QED
      BY <1>0, <2>2, <3>1, <3>2 DEF Passed
  <2>3. CASE Apply(p) \/ NotifyAll(p)
    <3>1. lpc[p] \in {"found", "updating"}
      BY <2>3 DEF Apply, NotifyAll, LogAt
    <3>2. \/ lpc'[p] = "reading" /\ tail'[p] = tail[p] + 1
          \/ lpc'[p] = "updating" /\ tail'[p] = tail[p]
      BY <1>0, <2>1, <2>3 DEF Apply, NotifyAll, LogTypeOK
    <3> QED
      BY <1>0, <1>1, <3>1, <3>2 DEF Passed
  <2>4. CASE UpdateDone(p) \/ \E c \in Cpis : UpdateState(p, c)
    <3>1. /\ lpc[p] \in {"updating", "pinned"} /\ lpc'[p] \in {"updating", "pinned"}
          /\ tail'[p] = tail[p]
      BY <1>0, <2>4 DEF UpdateDone, UpdateState, LogAt, LogTypeOK
    <3> QED
      BY <1>0, <1>1, <3>1 DEF Passed
  <2> QED
    BY <1>7, <2>2, <2>3, <2>4 DEF LogStep
<1>8. Moved
  <2>1. ASSUME NEW t \in Threads, Enters(t) \/ QueryJob(t)
        PROVE  UNCHANGED log_vars
    BY <2>1, QueryShape DEF Enters
  <2> QED
    BY <1>4, <1>5, <1>6, <1>7, <2>1, StepKinds
<1> QED
  BY <1>2, <1>8

LEMMA LogsTellStep ==
    ASSUME CacheInv, LogsTell, \A t \in Threads : CallReady(t), Next \/ UNCHANGED vars
    PROVE  LogsTell'
<1>0. TypeOK
  BY DEF CacheInv, Inv
<1>1. \A p \in Pools : tail'[p] <= Len(file'[p])
  BY PassedStep
<1>2. ASSUME NEW p \in Pools, NEW i \in 1..Len(file'[p])
      PROVE  PoolOf(file'[p][i].cluster) = p /\ Submitted(file[p][i].cluster)'
  <2>1. CASE i \in 1..Len(file[p])
    <3>1. file'[p][i] = file[p][i] /\ file[p][i].cluster \in Clusters
      BY <1>0, <2>1, FileStep DEF Event
    <3>2. PoolOf(file[p][i].cluster) = p /\ Submitted(file[p][i].cluster)
      BY <2>1 DEF LogsTell
    <3>3. \A cl \in Clusters : Submitted(cl) => \E pr \in Processes : queue'[cl][pr] # "none"
      BY <1>0, SubmittedStep DEF Submitted
    <3>4. \E pr \in Processes : queue'[file[p][i].cluster][pr] # "none"
      BY <3>1, <3>2, <3>3
    <3> QED
      BY <3>1, <3>2, <3>4 DEF Submitted
  <2>2. CASE i \notin 1..Len(file[p])
    BY <1>0, <2>2, FileStep
  <2> QED
    BY <2>1, <2>2
<1> QED
  BY <1>1, <1>2 DEF LogsTell, PoolOf

-----------------------------------------------------------------------------
(* Every step leaves the threads ready for what they are about to register. *)

\* A thread that the step leaves where it is.
LEMMA ReadyKept ==
    ASSUME CacheInv, LogsTell, \A u \in Threads : CallReady(u), Next \/ UNCHANGED vars,
           NEW t \in Threads, pc'[t] = pc[t], me'[t] = me[t], want'[t] = want[t],
           pc[t] \in {"openlog", "register"} => cluster_id'[me[t]] = cluster_id[me[t]],
           pc[t] \in {"submit", "publish"} => UNCHANGED reg_lock
    PROVE  CallReady(t)'
<1>0. CallReady(t) /\ TypeOK /\ "log" \in Pools /\ "rm" \in Pools
  BY DEF CacheInv, Inv, Pools
<1>1. /\ lpc["log"] # "off" => lpc'["log"] # "off"
      /\ lpc["rm"] # "off" => lpc'["rm"] # "off"
  BY <1>0, PassedStep
<1>2. ASSUME pc[t] = "publish", NEW cl \in Own,
             \A i \in 1..Passed("rm") : file["rm"][i].cluster # cl
      PROVE  \A i \in 1..Passed("rm")' : file'["rm"][i].cluster # cl
  <2>1. lpc["rm"] # "off" /\ reg_lock # None
    BY <1>0, <1>2, JobAssumption DEF CallReady
  <2>2. ~Find("rm")
    BY <2>1 DEF Find, RegistryFree
  <2>3. /\ Passed("rm")' = Passed("rm") /\ Passed("rm") \in Nat
        /\ Passed("rm") <= Len(file["rm"]) /\ Len(file["rm"]) \in Nat
    BY <1>0, <2>1, <2>2, PassedStep, FileStep
  <2>4. \A i \in 1..Passed("rm") : file'["rm"][i] = file["rm"][i]
    BY <1>0, <2>3, FileStep
  <2> QED
    BY <1>2, <2>3, <2>4
<1>3. pc[t] = "publish" =>
         \/ want[t] = <<Unknown>>
         \/ \E cl \in Own : /\ want[t] = <<cl>>
                            /\ \A i \in 1..Passed("rm")' : file'["rm"][i].cluster # cl
  BY <1>0, <1>2 DEF CallReady, At
<1> QED
  BY <1>0, <1>1, <1>3 DEF CallReady, At

\* A step of another thread.
LEMMA OthersReady ==
    ASSUME CacheInv, LogsTell, \A u \in Threads : CallReady(u), Next \/ UNCHANGED vars,
           NEW t \in Threads, NEW u \in Threads \ {t},
           Begin(u) \/ Continue(u) \/ SpuriousWake(u)
    PROVE  CallReady(t)'
<1>0. CallsOnHandles /\ CallsExclude /\ CallReady(t) /\ CallReady(u)
  BY DEF CacheInv, Inv
<1>1. IdsFrame(u)
  BY FrameOfCalls DEF CacheInv
<1>2. pc'[t] = pc[t] /\ me'[t] = me[t] /\ want'[t] = want[t]
  BY <1>1 DEF IdsFrame
<1>3. ASSUME pc[t] \in {"openlog", "register"}
      PROVE  cluster_id'[me[t]] = cluster_id[me[t]]
  <2>1. me[t] \in Cpis /\ life[me[t]] = "ctor" /\ me[u] # me[t]
    BY <1>0, <1>3 DEF CallsOnHandles, CallsExclude, LifeAt, At
  <2> QED
    BY <1>1, <2>1 DEF IdsFrame
<1>4. ASSUME pc[t] \in {"submit", "publish"}
      PROVE  UNCHANGED reg_lock
  <2>1. reg_lock = t /\ t # None
    BY <1>0, <1>4, JobAssumption DEF CallReady
  <2>2. ~RunLock(u)
    BY <2>1 DEF RunLock, RegistryFree
  <2>3. pc[u] \notin {"submit", "publish"}
    BY <1>0, <2>1 DEF CallReady
  <2>4. ~Submit(u) /\ ~Publish(u)
    BY <2>3 DEF Submit, Publish, Step, At
  <2>5. Begin(u) => UNCHANGED reg_lock
    BY Zenon DEF Begin, NewJob, FindJob, RunCheck, GetState, WaitEnter, CancelCheck, Release
  <2>6. Continue(u) \/ SpuriousWake(u)
           => UNCHANGED reg_lock \/ RunLock(u) \/ Submit(u) \/ Publish(u)
    BY Zenon DEF Continue, SpuriousWake, QueryJob, OpenLog, Register, Attach, RunGetLog,
                 WaitLock, Timeout, CancelRm, CancelWait, Destroy, Abort
  <2> QED
    BY <2>2, <2>4, <2>5, <2>6
<1> QED
  BY <1>2, <1>3, <1>4, ReadyKept

\* The constructor.
LEMMA ConstructReady ==
    ASSUME CacheInv, LogsTell, \A u \in Threads : CallReady(u), Next \/ UNCHANGED vars,
           NEW t \in Threads
    PROVE  /\ \A c \in Cpis : NewJob(t, c) => CallReady(t)'
           /\ \A c \in Cpis, id \in PickIds : FindJob(t, c, id) => CallReady(t)'
           /\ QueryJob(t) \/ OpenLog(t) \/ Register(t) \/ Attach(t) => CallReady(t)'
<1>0. /\ HandleTypeOK /\ DataTypeOK /\ LogTypeOK /\ ThreadTypeOK /\ CallsOnHandles
      /\ CallReady(t)
  BY DEF CacheInv, Inv, TypeOK
<1>a. ASSUME pc'[t] \in {"idle", "attach"}
      PROVE  CallReady(t)'
  BY <1>a DEF CallReady, At
<1>b. ASSUME UNCHANGED <<pc, me, want, cluster_id, reg_lock>>
      PROVE  CallReady(t)'
  BY <1>b, ReadyKept
<1>1. ASSUME NEW c \in Cpis, NewJob(t, c)
      PROVE  CallReady(t)'
  BY <1>1, <1>b DEF NewJob, thread_vars
<1>2. ASSUME NEW c \in Cpis, NEW id \in PickIds, FindJob(t, c, id)
      PROVE  CallReady(t)'
  <2>1. id \in Ids /\ id[1] \in Clusters
    BY JobAssumption DEF Ids
  <2>2. CASE pc'[t] = "query"
    <3>1. want'[t] = id /\ id[1] \notin Own
      BY <1>0, <1>2, <2>2 DEF FindJob, Call, ThreadTypeOK
    <3> QED
      BY <2>1, <2>2, <3>1 DEF CallReady, At, Clusters
  <2>3. CASE pc'[t] # "query"
    BY <1>0, <1>2, <1>a, <2>3 DEF FindJob, Call, ThreadTypeOK
  <2> QED
    BY <2>2, <2>3
<1>3. CASE QueryJob(t)
  <2>1. /\ pc[t] = "query" /\ me[t] \in Cpis /\ want[t][1] \in Foreign
    BY <1>0, <1>3 DEF QueryJob, Step, At, CallsOnHandles, CallReady
  <2>2. CASE pc'[t] = "idle"
    BY <1>a, <2>2
  <2>3. CASE pc'[t] # "idle"
    <3>1. /\ me'[t] = me[t] /\ want'[t] = want[t]
          /\ pc'[t] = IF want[t][1] \in Quiet THEN "register" ELSE "openlog"
          /\ cluster_id'[me[t]] = want[t]
      BY <1>0, <1>3, <2>1, <2>3 DEF QueryJob, Return, Call, Goto, ThreadTypeOK, DataTypeOK
    <3> QED
      BY <2>1, <3>1 DEF CallReady, At
  <2> QED
    BY <2>2, <2>3
<1>4. CASE OpenLog(t)
  <2>1. /\ pc[t] = "openlog" /\ want[t][1] \in Foreign /\ want[t][1] \notin Quiet
        /\ cluster_id[me[t]] = want[t]
    BY <1>0, <1>4 DEF OpenLog, Step, At, CallReady
  <2>2. PoolOfId(want[t]) = "log"
    BY <2>1, JobAssumption, QueueAssumption DEF PoolOfId, PoolOf, Clusters
  <2>3. lpc'["log"] # "off"
    BY <1>0, <1>4, <2>2 DEF OpenLog, StartLog, LogProcessor, LogTypeOK, Pools, log_vars
  <2>4. /\ pc'[t] = "register" /\ want'[t] = want[t] /\ me'[t] = me[t]
        /\ UNCHANGED cluster_id
    BY <1>0, <1>4 DEF OpenLog, Goto, ThreadTypeOK, data_vars
  <2> QED
    BY <2>1, <2>3, <2>4 DEF CallReady, At
<1>5. CASE Register(t)
  <2>1. CASE Abort
    BY <1>b, <2>1 DEF Abort, thread_vars, data_vars
  <2>2. CASE ~Abort
    BY <1>0, <1>5, <1>a, <2>2 DEF Register, Goto, ThreadTypeOK
  <2> QED
    BY <2>1, <2>2
<1>6. CASE Attach(t)
  BY <1>0, <1>6, <1>a DEF Attach, Return, Call, ThreadTypeOK
<1> QED
  BY <1>1, <1>2, <1>3, <1>4, <1>5, <1>6

\* sync_run.
LEMMA RunReady ==
    ASSUME CacheInv, LogsTell, \A u \in Threads : CallReady(u), Next \/ UNCHANGED vars,
           NEW t \in Threads
    PROVE  RunGetLog(t) \/ RunLock(t) \/ Submit(t) \/ Publish(t) => CallReady(t)'
<1>0. /\ TypeOK /\ LogTypeOK /\ ThreadTypeOK /\ RegistryTypeOK /\ CallReady(t)
      /\ "rm" \in Pools
  BY DEF CacheInv, Inv, TypeOK, Pools
<1>1. CASE RunGetLog(t)
  <2>1. lpc'["rm"] # "off" /\ pc'[t] = "run_lock"
    BY <1>0, <1>1 DEF RunGetLog, StartLog, LogProcessor, LogTypeOK, log_vars, Goto, ThreadTypeOK
  <2> QED
    BY <2>1 DEF CallReady, At
<1>2. CASE RunLock(t)
  <2>1. pc[t] = "run_lock" /\ lpc["rm"] # "off"
    BY <1>0, <1>2 DEF RunLock, Step, At, CallReady
  <2>2. pc'[t] = "submit" /\ reg_lock' = t /\ UNCHANGED lpc
    BY <1>0, <1>2 DEF RunLock, Goto, ThreadTypeOK, log_vars
  <2> QED
    BY <2>1, <2>2 DEF CallReady, At
<1>3. CASE Submit(t)
  <2>1. pc[t] = "submit" /\ lpc["rm"] # "off" /\ reg_lock = t
    BY <1>0, <1>3 DEF Submit, Step, At, CallReady
  <2>2. CASE Return(t)
    <3>1. pc'[t] = "idle"
      BY <1>0, <2>2 DEF Return, Call, ThreadTypeOK
    <3> QED
      BY <3>1 DEF CallReady, At
  <2>3. CASE ~Return(t)
    <3>1. /\ UNCHANGED <<reg_lock, lpc, tail>>
          /\ \E cl \in Own, pr \in Processes : \E id \in {<<cl>>, <<Unknown>>} :
                CondorSubmit(cl, pr) /\ Call(t, "publish", me[t], id, "zero")
      BY <1>3, <2>3 DEF Submit, log_vars
    <3>2. PICK cl \in Own, pr \in Processes : \E id \in {<<cl>>, <<Unknown>>} :
             CondorSubmit(cl, pr) /\ Call(t, "publish", me[t], id, "zero")
      BY <3>1
    <3>3. want'[t] \in {<<cl>>, <<Unknown>>} /\ pc'[t] = "publish"
      BY <1>0, <3>2 DEF Call, ThreadTypeOK
    <3>4. ~Submitted(cl)
      BY <3>2 DEF CondorSubmit, Submitted
    <3>5. \A i \in 1..Len(file["rm"]) : file["rm"][i].cluster # cl
      BY <1>0, <3>4 DEF LogsTell
    <3>6. /\ Passed("rm") \in Nat /\ Passed("rm") <= Len(file["rm"])
          /\ Len(file["rm"]) \in Nat /\ Passed("rm")' = Passed("rm")
      BY <1>0, <3>1, PassedStep, FileStep DEF Passed
    <3>7. \A i \in 1..Passed("rm")' : file'["rm"][i].cluster # cl
      <4>1. \A i \in 1..Passed("rm") : i \in 1..Len(file["rm"])
        BY <3>6
      <4>2. \A i \in 1..Len(file["rm"]) : file'["rm"][i] = file["rm"][i]
        BY <1>0, FileStep
      <4> QED
        BY <3>5, <3>6, <4>1, <4>2
    <3> QED
      BY <2>1, <3>1, <3>3, <3>7 DEF CallReady, At
  <2> QED
    BY <2>2, <2>3
<1>4. CASE Publish(t)
  <2>1. CASE Abort
    BY <2>1, ReadyKept DEF Abort, thread_vars, data_vars
  <2>2. CASE ~Abort
    <3>1. pc'[t] = "idle"
      BY <1>0, <1>4, <2>2 DEF Publish, Return, Call, ThreadTypeOK
    <3> QED
      BY <3>1 DEF CallReady, At
  <2> QED
    BY <2>1, <2>2
<1> QED
  BY <1>1, <1>2, <1>3, <1>4

LEMMA CallReadyStep ==
    ASSUME CacheInv, LogsTell, \A u \in Threads : CallReady(u), Next \/ UNCHANGED vars,
           NEW t \in Threads
    PROVE  CallReady(t)'
<1>0. ThreadTypeOK
  BY DEF CacheInv, Inv, TypeOK
<1>a. ASSUME pc'[t] \in {"idle", "run_log", "cancel_rm", "cancel_check", "wait_lock",
                         "waiting", "destroy"}
      PROVE  CallReady(t)'
  BY <1>a DEF CallReady, At
<1>b. ASSUME UNCHANGED <<pc, me, want, cluster_id, reg_lock>>
      PROVE  CallReady(t)'
  BY <1>b, ReadyKept
<1>1. ASSUME NEW c \in Cpis,
             \/ RunCheck(t, c) \/ GetState(t, c) \/ Release(t, c)
             \/ \E bound \in Patiences : WaitEnter(t, c, bound) \/ CancelCheck(t, c, bound)
      PROVE  CallReady(t)'
  <2>1. RunCheck(t, c) \/ (\E bound \in Patiences : WaitEnter(t, c, bound) \/ CancelCheck(t, c, bound))
           => pc'[t] \in {"run_log", "wait_lock", "cancel_rm"}
    BY <1>0 DEF RunCheck, WaitEnter, CancelCheck, Call, ThreadTypeOK
  <2>2. GetState(t, c) \/ Release(t, c)
           => pc'[t] = "destroy" \/ UNCHANGED <<pc, me, want, cluster_id, reg_lock>>
    BY <1>0 DEF GetState, Release, Call, ThreadTypeOK, thread_vars, data_vars
  <2> QED
    BY <1>1, <1>a, <1>b, <2>1, <2>2
<1>2. ASSUME WaitLock(t) \/ Timeout(t) \/ SpuriousWake(t) \/ CancelRm(t) \/ CancelWait(t)
             \/ Destroy(t)
      PROVE  CallReady(t)'
  <2>1. pc'[t] \in {"idle", "cancel_check", "wait_lock", "waiting"}
    BY <1>0, <1>2 DEF WaitLock, Timeout, SpuriousWake, CancelRm, CancelWait, Destroy,
                      Return, Goto, Call, ThreadTypeOK
  <2> QED
    BY <1>a, <2>1
<1>3. ASSUME Begin(t) \/ Continue(t) \/ SpuriousWake(t)
      PROVE  CallReady(t)'
  BY <1>1, <1>2, <1>3, ConstructReady, RunReady DEF Begin, Continue
<1>4. ASSUME NEW p \in Pools, LogStep(p)
      PROVE  CallReady(t)'
  <2>1. UNCHANGED <<me, want, cluster_id, reg_lock>>
    BY <1>4, LogShape
  <2>2. UNCHANGED pc \/ NotifyAll(p)
    BY <1>4, Zenon DEF LogStep, Find, Apply, UpdateState, UpdateDone, thread_vars
  <2>3. CASE NotifyAll(p)
    <3>1. pc'[t] = pc[t] \/ pc'[t] = "wait_lock"
      BY <1>0, <2>3 DEF NotifyAll, ThreadTypeOK
    <3> QED
      BY <1>a, <2>1, <3>1, ReadyKept
  <2> QED
    BY <1>b, <2>1, <2>2, <2>3
<1>5. ASSUME Condor \/ UNCHANGED vars
      PROVE  CallReady(t)'
  <2>1. UNCHANGED <<pc, me, want, cluster_id, reg_lock>>
    BY <1>5 DEF Condor, vars, job_vars, thread_vars, data_vars
  <2> QED
    BY <1>b, <2>1
<1> QED
  BY <1>3, <1>4, <1>5, OthersReady DEF Next

-----------------------------------------------------------------------------
(* Every step leaves the submissions known.                                 *)

\* Only by registering its submission does a thread forget it.
LEMMA PublishKept ==
    ASSUME CacheInv, \A u \in Threads : CallReady(u), Next \/ UNCHANGED vars,
           NEW t \in Threads, At(t, "publish")
    PROVE  \/ At(t, "publish")' /\ want'[t] = want[t]
           \/ Enters(t)
<1> DEFINE Stays == At(t, "publish")' /\ want'[t] = want[t]
<1>0. pc[t] = "publish" /\ ThreadTypeOK
  BY DEF At, CacheInv, Inv, TypeOK
<1>1. ASSUME pc'[t] = pc[t], want'[t] = want[t]
      PROVE  Stays
  BY <1>0, <1>1 DEF At
<1>2. ASSUME NEW u \in Threads, u # t, Begin(u) \/ Continue(u) \/ SpuriousWake(u)
      PROVE  Stays
  <2>1. IdsFrame(u)
    BY <1>2, FrameOfCalls DEF CacheInv
  <2> QED
    BY <1>1, <1>2, <2>1 DEF IdsFrame
<1>3. ASSUME Begin(t) \/ Continue(t) \/ SpuriousWake(t)
      PROVE  Stays \/ Enters(t)
  <2>1. ~Begin(t)
    BY <1>0 DEF Begin, NewJob, FindJob, RunCheck, GetState, WaitEnter, CancelCheck, Release,
                Step, At
  <2>2. ~SpuriousWake(t) /\ (Continue(t) => Publish(t))
    BY <1>0 DEF Continue, SpuriousWake, QueryJob, OpenLog, Register, Attach, RunGetLog,
                RunLock, Submit, WaitLock, Timeout, CancelRm, CancelWait, Destroy, Step, At
  <2>3. Abort => Stays
    BY <1>1 DEF Abort, thread_vars
  <2> QED
    BY <1>3, <2>1, <2>2, <2>3, EntersStep
<1>4. ASSUME NEW p \in Pools, LogStep(p)
      PROVE  Stays
  <2>1. UNCHANGED want
    BY <1>4, LogShape
  <2>2. UNCHANGED pc \/ NotifyAll(p)
    BY <1>4, Zenon DEF LogStep, Find, Apply, UpdateState, UpdateDone, thread_vars
  <2>3. NotifyAll(p) => pc'[t] = pc[t]
    BY <1>0 DEF NotifyAll, Woken, At
  <2> QED
    BY <1>1, <2>1, <2>2, <2>3
<1>5. ASSUME Condor \/ UNCHANGED vars
      PROVE  Stays
  BY <1>1, <1>5 DEF Condor, vars, job_vars, thread_vars
<1> QED
  BY <1>2, <1>3, <1>4, <1>5 DEF Next

LEMMA SubmittedKnownStep ==
    ASSUME CacheInv, SubmittedKnown, \A u \in Threads : CallReady(u), Next \/ UNCHANGED vars
    PROVE  SubmittedKnown'
<1> DEFINE Known(cl) == \/ \E t \in Threads : At(t, "publish") /\ want[t] \in {<<cl>>, <<Unknown>>}
                        \/ registry["rm"][<<cl>>] # None
                        \/ registry["rm"][<<Unknown>>] # None
<1>1. ASSUME NEW cl \in Own, Submitted(cl)'
      PROVE  Known(cl)'
  <2>0. /\ cl \in Clusters /\ <<cl>> \in Ids /\ <<Unknown>> \in Ids /\ "rm" \in Pools
        /\ PoolOfId(<<cl>>) = "rm" /\ PoolOfId(<<Unknown>>) = "rm" /\ TypeOK
    BY JobAssumption DEF Clusters, Ids, PoolOfId, PoolOf, Pools, CacheInv, Inv
  <2>1. ASSUME NEW t \in Threads, Submit(t), At(t, "publish")',
               want'[t] \in {<<cl>>, <<Unknown>>}
        PROVE  Known(cl)'
    BY <2>1
  <2>2. ASSUME registry["rm"][<<cl>>] # None \/ registry["rm"][<<Unknown>>] # None
        PROVE  Known(cl)'
    <3>1. \A id \in Ids : registry["rm"][id] # None => registry'["rm"][id] # None
      BY <2>0, RegisteredKept
    <3> QED
      BY <2>0, <2>2, <3>1
  <2>3. ASSUME NEW t \in Threads, At(t, "publish"), want[t] \in {<<cl>>, <<Unknown>>}
        PROVE  Known(cl)'
    <3>1. CASE Enters(t)
      <4>1. registry'[PoolOfId(want[t])][want[t]] = me[t] /\ me[t] \in Cpis
        BY <3>1, EntersShape DEF Enters
      <4>2. registry'["rm"][want[t]] # None
        BY <2>0, <2>3, <4>1, JobAssumption
      <4> QED
        BY <2>3, <4>2
    <3>2. CASE At(t, "publish")' /\ want'[t] = want[t]
      BY <2>3, <3>2
    <3> QED
      BY <2>3, <3>1, <3>2, PublishKept
  <2>4. Submitted(cl) => Known(cl)
    BY DEF SubmittedKnown
  <2> QED
    BY <1>1, <2>0, <2>1, <2>2, <2>3, <2>4, SubmittedStep
<1> QED
  BY <1>1 DEF SubmittedKnown, Submitted

-----------------------------------------------------------------------------
(* Every step leaves data registered before the events to be looked up.     *)

LEMMA JoinedBeforeStep ==
    ASSUME CacheInv, LogsTell, JoinedBefore, \A u \in Threads : CallReady(u),
           Next \/ UNCHANGED vars
    PROVE  JoinedBefore'
<1>0. /\ \A d \in Cpis : cluster_id[d] \in Ids \cup {NoId} /\ joined[d].at \in Nat
      /\ ThreadTypeOK
  BY DEF CacheInv, Inv, TypeOK, DataTypeOK, RegistryTypeOK
<1> DEFINE Joined(d) == /\ joined[d].at <= Passed(PoolOfData(d))
                        /\ PoolOfData(d) # "nolog" => lpc[PoolOfData(d)] # "off"
<1>1. ASSUME NEW d \in Cpis, Registered(d)
      PROVE  Joined(d)'
  <2>1. cluster_id'[d] = cluster_id[d] /\ joined'[d] = joined[d]
    BY <1>1, RegisteredKept
  <2>2. PoolOfData(d) \in Pools /\ PoolOfData(d)' = PoolOfData(d)
    BY <1>0, <1>1, <2>1, PoolType DEF Registered, PoolOfData, PoolOfId
  <2>3. /\ joined[d].at <= Passed(PoolOfData(d))
        /\ PoolOfData(d) # "nolog" => lpc[PoolOfData(d)] # "off"
    BY <1>1 DEF JoinedBefore
  <2> DEFINE p == PoolOfData(d)
  <2> HIDE DEF p
  <2>4. /\ Passed(p) \in Nat /\ Passed(p)' \in Nat /\ Passed(p)' >= Passed(p)
        /\ lpc[p] # "off" => lpc'[p] # "off"
    BY <2>2, PassedStep DEF p
  <2>5. Passed(PoolOfData(d))' = (IF lpc'[p] \in {"off", "reading"} THEN tail'[p] ELSE tail'[p] + 1)
    BY <2>2 DEF p, Passed
  <2>6. Passed(p)' = (IF lpc'[p] \in {"off", "reading"} THEN tail'[p] ELSE tail'[p] + 1)
    BY <2>1, <2>2 DEF p, Passed, PoolOfData, PoolOfId
  <2> QED
    BY <1>0, <2>1, <2>2, <2>3, <2>4, <2>5, <2>6 DEF p
<1>2. ASSUME NEW d \in Cpis, NEW t \in Threads, Enters(t), d = me[t]
      PROVE  Joined(d)'
  <2>1. /\ want[t] \in Ids /\ cluster_id'[d] = want[t]
        /\ UNCHANGED log_vars /\ pc[t] \in {"register", "publish"}
    BY <1>2 DEF Enters
  <2>2. joined'[d].at = Passed(PoolOfId(want[t]))
    <3>1. joined'[me[t]] = [at |-> Passed(PoolOfId(want[t])), as |-> state'[me[t]]]
      BY <1>2, EntersShape
    <3> QED
      BY <1>2, <3>1
  <2>3. PoolOfData(d)' = PoolOfId(want[t]) /\ PoolOfId(want[t]) \in Pools
    BY <2>1, PoolType DEF PoolOfData, PoolOfId
  <2>4. Passed(PoolOfData(d))' = Passed(PoolOfId(want[t]))
    BY <2>1, <2>3 DEF Passed, log_vars
  <2>5. Passed(PoolOfId(want[t])) \in Nat
    BY <2>3, PassedStep
  <2>6. PoolOfId(want[t]) # "nolog" => lpc[PoolOfId(want[t])] # "off"
    <3>1. CallReady(t)
      OBVIOUS
    <3>2. CASE pc[t] = "register"
      <4>1. want[t][1] \in Foreign /\ (want[t][1] \in Quiet \/ lpc["log"] # "off")
        BY <3>1, <3>2 DEF CallReady, At
      <4>2. PoolOfId(want[t]) = IF want[t][1] \in Quiet THEN "nolog" ELSE "log"
        BY <4>1, JobAssumption, QueueAssumption DEF PoolOfId, PoolOf, Clusters
      <4> QED
        BY <4>1, <4>2
    <3>3. CASE pc[t] = "publish"
      <4>1. /\ lpc["rm"] # "off"
            /\ want[t] = <<Unknown>> \/ \E cl \in Own : want[t] = <<cl>>
        BY <3>1, <3>3 DEF CallReady, At
      <4>2. PoolOfId(want[t]) = "rm"
        BY <4>1, JobAssumption DEF PoolOfId, PoolOf, Clusters
      <4> QED
        BY <4>1, <4>2
    <3> QED
      BY <2>1, <3>2, <3>3
  <2> QED
    BY <2>1, <2>2, <2>3, <2>4, <2>5, <2>6 DEF log_vars
<1> HIDE DEF Joined
<1>3. ASSUME NEW d \in Cpis, Registered(d)'
      PROVE  Joined(d)'
  BY <1>1, <1>2, <1>3, RegisteredNew
<1> QED
  BY <1>3 DEF JoinedBefore, Joined

LEMMA NothingMissedStep ==
    ASSUME CacheInv, LogsTell, JoinedBefore, NothingMissed, \A u \in Threads : CallReady(u),
           Next \/ UNCHANGED vars
    PROVE  NothingMissed'
<1>0. /\ \A d \in Cpis : cluster_id[d] \in Ids \cup {NoId} /\ joined[d].at \in Nat
      /\ TypeOK /\ "rm" \in Pools
  BY DEF CacheInv, Inv, TypeOK, DataTypeOK, RegistryTypeOK, Pools
<1>a. ASSUME NEW n \in Nat, n <= Passed("rm")
      PROVE  \A i \in 1..n : file'["rm"][i] = file["rm"][i]
  <2>1. /\ Passed("rm") \in Nat /\ Passed("rm") <= Len(file["rm"]) /\ Len(file["rm"]) \in Nat
    BY <1>0, PassedStep, FileStep
  <2>2. \A i \in 1..Len(file["rm"]) : file'["rm"][i] = file["rm"][i]
    BY <1>0, FileStep
  <2> QED
    BY <1>a, <2>1, <2>2
<1> DEFINE Heard(d) == cluster_id[d][1] \in Own =>
                         \A i \in 1..joined[d].at : file["rm"][i].cluster # cluster_id[d][1]
<1>1. ASSUME NEW d \in Cpis, Registered(d)
      PROVE  Heard(d)'
  <2>1. cluster_id'[d] = cluster_id[d] /\ joined'[d] = joined[d]
    BY <1>1, RegisteredKept
  <2>2. ASSUME cluster_id[d][1] \in Own
        PROVE  \A i \in 1..joined[d].at : file'["rm"][i].cluster # cluster_id[d][1]
    <3>1. PoolOfData(d) = "rm"
      BY <2>2, JobAssumption DEF PoolOfData, PoolOfId, PoolOf
    <3>2. joined[d].at <= Passed("rm")
      BY <1>1, <3>1 DEF JoinedBefore
    <3>3. \A i \in 1..joined[d].at : file["rm"][i].cluster # cluster_id[d][1]
      BY <1>1, <2>2 DEF NothingMissed
    <3>4. \A i \in 1..joined[d].at : file'["rm"][i] = file["rm"][i]
      BY <1>0, <1>a, <3>2
    <3> QED
      BY <3>3, <3>4
  <2> QED
    BY <2>1, <2>2
<1>2. ASSUME NEW d \in Cpis, NEW t \in Threads, Enters(t), d = me[t]
      PROVE  Heard(d)'
  <2>1. /\ cluster_id'[d] = want[t] /\ pc[t] \in {"register", "publish"}
        /\ UNCHANGED condor_vars
    BY <1>2 DEF Enters
  <2>2. joined'[d].at = Passed(PoolOfId(want[t]))
    <3>1. joined'[me[t]] = [at |-> Passed(PoolOfId(want[t])), as |-> state'[me[t]]]
      BY <1>2, EntersShape
    <3> QED
      BY <1>2, <3>1
  <2>3. ASSUME want[t][1] \in Own
        PROVE  \A i \in 1..Passed(PoolOfId(want[t])) : file["rm"][i].cluster # want[t][1]
    <3>1. CallReady(t)
      OBVIOUS
    <3>2. pc[t] = "publish"
      BY <2>1, <2>3, <3>1, QueueAssumption DEF CallReady
    <3>3. want[t] # <<Unknown>>
      BY <2>3, JobAssumption DEF Clusters
    <3>4. PICK cl \in Own : /\ want[t] = <<cl>>
                            /\ \A i \in 1..Passed("rm") : file["rm"][i].cluster # cl
      BY <3>1, <3>2, <3>3 DEF CallReady, At
    <3>5. PoolOfId(want[t]) = "rm"
      BY <2>3, JobAssumption DEF PoolOfId, PoolOf, Clusters
    <3> QED
      BY <3>4, <3>5
  <2> QED
    BY <2>1, <2>2, <2>3 DEF condor_vars
<1> HIDE DEF Heard
<1>3. ASSUME NEW d \in Cpis, Registered(d)'
      PROVE  Heard(d)'
  BY <1>1, <1>2, <1>3, RegisteredNew
<1> QED
  BY <1>3 DEF NothingMissed, Heard

-----------------------------------------------------------------------------
(* Every step leaves the target of a log processor right.                   *)

\* What a step does to the log processor of p.
LEMMA LogKinds ==
    ASSUME CacheInv, \A t \in Threads : CallReady(t), Next \/ UNCHANGED vars,
           NEW p \in Pools
    PROVE  \/ /\ tail'[p] = tail[p] /\ target'[p] = target[p] /\ ~Apply(p)
              /\ Busy(p)' <=> Busy(p)
              /\ Notifying(p)' <=> Notifying(p)
           \/ Find(p)
           \/ Apply(p)
           \/ NotifyAll(p) /\ lpc[p] = "updating" /\ lpc'[p] = "reading" /\ tail'[p] = tail[p] + 1
           \/ \E t \in Threads : Opens(t) /\ StartLog(p) /\ lpc[p] = "off" /\ lpc'[p] = "reading"
<1>0. LogTypeOK /\ lpc[p] \in LogPoints /\ tail[p] \in Nat
  BY DEF CacheInv, Inv, TypeOK, LogTypeOK
<1> DEFINE Quiescent == /\ tail'[p] = tail[p] /\ target'[p] = target[p]
                        /\ Busy(p)' <=> Busy(p)
                        /\ Notifying(p)' <=> Notifying(p)
<1>1. ASSUME lpc'[p] = lpc[p], tail'[p] = tail[p], target'[p] = target[p]
      PROVE  Quiescent
  BY <1>1 DEF Busy, Notifying
<1>2. ASSUME UNCHANGED log_vars
      PROVE  Quiescent
  BY <1>1, <1>2 DEF log_vars
<1>3. ASSUME NEW t \in Threads, Opens(t)
      PROVE  Quiescent \/ (Opens(t) /\ StartLog(p) /\ lpc[p] = "off" /\ lpc'[p] = "reading")
  <2>1. PICK q \in Pools : StartLog(q)
    BY <1>3, PoolType DEF Opens, Pools
  <2>2. CASE q # p
    <3>1. lpc'[p] = lpc[p] /\ tail'[p] = tail[p] /\ target'[p] = target[p]
      BY <1>0, <2>1, <2>2 DEF StartLog, LogProcessor, LogTypeOK, log_vars
    <3> QED
      BY <1>1, <3>1
  <2>3. CASE q = p /\ lpc[p] # "off"
    BY <1>2, <2>1, <2>3 DEF StartLog
  <2>4. CASE q = p /\ lpc[p] = "off"
    BY <1>0, <1>3, <2>1, <2>4 DEF StartLog, LogProcessor, LogTypeOK
  <2> QED
    BY <2>2, <2>3, <2>4
<1>4. ASSUME NEW q \in Pools, LogStep(q), q # p
      PROVE  Quiescent
  <2>1. lpc'[p] = lpc[p] /\ tail'[p] = tail[p] /\ target'[p] = target[p]
    BY <1>4, LogShape
  <2> QED
    BY <1>1, <2>1
<1>5. ASSUME LogStep(p)
      PROVE  \/ Quiescent \/ Find(p) \/ Apply(p)
             \/ NotifyAll(p) /\ lpc[p] = "updating" /\ lpc'[p] = "reading"
                             /\ tail'[p] = tail[p] + 1
  <2>1. CASE NotifyAll(p)
    BY <1>0, <2>1 DEF NotifyAll, Advance, LogAt, LogTypeOK
  <2>2. CASE UpdateDone(p) \/ \E c \in Cpis : UpdateState(p, c)
    <3>1. /\ lpc[p] \in {"updating", "pinned"} /\ lpc'[p] \in {"updating", "pinned"}
          /\ tail'[p] = tail[p] /\ target'[p] = target[p]
      BY <1>0, <2>2 DEF UpdateDone, UpdateState, LogAt, LogTypeOK
    <3> QED
      BY <3>1 DEF Busy, Notifying
  <2> QED
    BY <1>5, <2>1, <2>2 DEF LogStep
<1>6. ASSUME NEW t \in Threads, Enters(t) \/ QueryJob(t)
      PROVE  UNCHANGED log_vars
  BY <1>6, QueryShape DEF Enters
<1> HIDE DEF Quiescent
<1>7. \/ Quiescent \/ Find(p) \/ Apply(p)
      \/ NotifyAll(p) /\ lpc[p] = "updating" /\ lpc'[p] = "reading" /\ tail'[p] = tail[p] + 1
      \/ \E t \in Threads : Opens(t) /\ StartLog(p) /\ lpc[p] = "off" /\ lpc'[p] = "reading"
  BY <1>2, <1>3, <1>4, <1>5, <1>6, StepKinds
<1> QED
  BY <1>7 DEF Quiescent

\* The ids an event is for.
LEMMA IdsOfEvent ==
    ASSUME NEW e \in Event, NEW id \in Ids, IsFor(e, id)
    PROVE  id = <<e.cluster>> \/ (id = <<e.cluster, e.proc>> /\ Len(id) = 2)
<1>1. e.cluster \in Clusters
  BY DEF Event
<1>2. CASE \E cl \in Clusters \cup {Unknown} : id = <<cl>>
  BY <1>2 DEF IsFor
<1>3. CASE \E cl \in Clusters, pr \in Processes : id = <<cl, pr>>
  BY <1>3 DEF IsFor
<1> QED
  BY <1>2, <1>3 DEF Ids

LEMMA EventIds ==
    ASSUME NEW e \in Event
    PROVE  /\ <<e.cluster>> \in Ids /\ IsFor(e, <<e.cluster>>)
           /\ <<e.cluster, e.proc>> \in Ids /\ IsFor(e, <<e.cluster, e.proc>>)
BY DEF Event, Ids, IsFor

\* What is found for an event is the data registered for it.
LEMMA FoundRight ==
    ASSUME CacheInv, IdsLead, NEW p \in Pools, NEW e \in Event
    PROVE  /\ FindTarget(p, e) # None =>
                 /\ FindTarget(p, e) \in Cpis /\ Registered(FindTarget(p, e))
                 /\ PoolOfData(FindTarget(p, e)) = p
           /\ \A d \in Cpis :
                 Registered(d) /\ PoolOfData(d) = p /\ ~Shadowed(d) /\ IsFor(e, cluster_id[d])
                 => FindTarget(p, e) = d
<1>0. /\ \A q \in Pools, id \in Ids : registry[q][id] \in Cpis \cup {None}
      /\ \A d \in Cpis : cluster_id[d] \in Ids \cup {NoId}
  BY DEF CacheInv, Inv, TypeOK, RegistryTypeOK, DataTypeOK
<1>1. ASSUME NEW id \in Ids, registry[p][id] # None
      PROVE  /\ registry[p][id] \in Cpis /\ Registered(registry[p][id])
             /\ PoolOfData(registry[p][id]) = p
  BY <1>0, <1>1, NoIdType DEF IdsLead, Registered, PoolOfData
<1>2. FindTarget(p, e) # None => \E id \in Ids : FindTarget(p, e) = registry[p][id]
  BY EventIds DEF FindTarget
<1>3. ASSUME NEW d \in Cpis, Registered(d), PoolOfData(d) = p, ~Shadowed(d),
             IsFor(e, cluster_id[d])
      PROVE  FindTarget(p, e) = d
  <2>1. cluster_id[d] \in Ids /\ registry[p][cluster_id[d]] = d /\ d # None
    BY <1>0, <1>3, JobAssumption DEF Registered, PoolOfData
  <2>2. CASE cluster_id[d] = <<e.cluster>>
    BY <2>1, <2>2 DEF FindTarget
  <2>3. CASE cluster_id[d] = <<e.cluster, e.proc>> /\ Len(cluster_id[d]) = 2
    <3>1. registry[p][<<e.cluster>>] = None
      BY <1>3, <2>3 DEF Shadowed
    <3> QED
      BY <2>1, <2>3, <3>1 DEF FindTarget
  <2> QED
    BY <1>3, <2>1, <2>2, <2>3, IdsOfEvent
<1> QED
  BY <1>1, <1>2, <1>3

\* Data that was shadowed stays so.
LEMMA ShadowedKept ==
    ASSUME CacheInv, \A t \in Threads : CallReady(t), Next \/ UNCHANGED vars,
           NEW d \in Cpis, Registered(d), ~Shadowed(d)'
    PROVE  ~Shadowed(d) /\ PoolOfData(d)' = PoolOfData(d) /\ PoolOfData(d) \in Pools
<1>1. cluster_id'[d] = cluster_id[d]
  BY RegisteredKept
<1>2. cluster_id[d] \in Ids
  BY DEF CacheInv, Inv, TypeOK, DataTypeOK, Registered
<1>3. PoolOfData(d)' = PoolOfData(d) /\ PoolOfData(d) \in Pools
  BY <1>1, <1>2, PoolType DEF PoolOfData, PoolOfId
<1>4. Len(cluster_id[d]) = 2 => <<cluster_id[d][1]>> \in Ids
  BY <1>2 DEF Ids
<1>5. ASSUME Shadowed(d)
      PROVE  FALSE
  <2>1. /\ Len(cluster_id[d]) = 2 /\ registry[PoolOfData(d)][<<cluster_id[d][1]>>] # None
    BY <1>5 DEF Shadowed
  <2>2. registry'[PoolOfData(d)][<<cluster_id[d][1]>>] # None
    BY <1>3, <1>4, <2>1, RegisteredKept
  <2>3. Shadowed(d)'
    BY <1>1, <1>3, <2>1, <2>2 DEF Shadowed
  <2> QED
    BY <2>3
<1> QED
  BY <1>3, <1>5

LEMMA TargetRightStep ==
    ASSUME CacheInv, IdsLead, LogsTell, JoinedBefore, TargetRight,
           \A t \in Threads : CallReady(t), Next \/ UNCHANGED vars
    PROVE  TargetRight'
<1>0. /\ TypeOK /\ LogTypeOK /\ LogsLock
      /\ \A d \in Cpis : cluster_id[d] \in Ids \cup {NoId} /\ joined[d].at \in Nat
      /\ \A q \in Pools, id \in Ids : registry[q][id] \in Cpis \cup {None}
  BY DEF CacheInv, Inv, TypeOK, DataTypeOK, RegistryTypeOK
<1> SUFFICES ASSUME NEW p \in Pools, Busy(p)'
             PROVE  LET e == NextEvent(p)'
                    IN  /\ target'[p] \in {registry'[p][<<e.cluster>>],
                                           registry'[p][<<e.cluster, e.proc>>]}
                        /\ joined'[target'[p]].at <= tail'[p]
                        /\ \A d \in Cpis :
                              /\ Registered(d)' /\ PoolOfData(d)' = p /\ ~Shadowed(d)'
                              /\ joined'[d].at <= tail'[p] /\ IsFor(e, cluster_id'[d])
                              => target'[p] = d
  BY DEF TargetRight, IsFor, NextEvent, Shadowed, PoolOfData, PoolOfId
<1> DEFINE e == NextEvent(p)
<1>1. /\ tail[p] \in Nat /\ tail[p] < Len(file[p]) /\ tail'[p] = tail[p]
      /\ target'[p] \in Cpis
      /\ \/ Busy(p) /\ target'[p] = target[p]
         \/ Find(p) /\ lpc[p] = "reading" /\ FindTarget(p, e) # None
            /\ target'[p] = FindTarget(p, e)
  <2>1. tail[p] \in Nat /\ Len(file[p]) \in Nat
    BY <1>0, FileStep DEF LogTypeOK
  <2>2. ASSUME Busy(p)
        PROVE  tail[p] < Len(file[p]) /\ target[p] \in Cpis
    BY <1>0, <2>2 DEF LogsLock, Busy
  <2>3. Advance(p) => ~Busy(p)'
    BY <1>0 DEF Advance, LogTypeOK, Busy, Notifying
  <2>4. ASSUME Find(p)
        PROVE  /\ tail[p] < Len(file[p]) /\ tail'[p] = tail[p] /\ lpc[p] = "reading"
               /\ FindTarget(p, e) # None /\ target'[p] = FindTarget(p, e)
    BY <1>0, <2>3, <2>4 DEF Find, LogAt, LogTypeOK
  <2>5. Find(p) => FindTarget(p, e) \in Cpis
    <3>1. ASSUME Find(p)
          PROVE  e \in Event
      BY <1>0, <2>1, <2>4, <3>1, FileStep DEF NextEvent
    <3> QED
      BY <2>4, <3>1, FoundRight
  <2>6. ASSUME Apply(p)
        PROVE  Busy(p) /\ tail'[p] = tail[p] /\ target'[p] = target[p]
    BY <1>0, <2>3, <2>6 DEF Apply, LogAt, LogTypeOK, Busy
  <2>7. lpc'[p] # "reading"
    BY DEF Busy, Notifying
  <2> HIDE DEF e
  <2> QED
    BY <2>1, <2>2, <2>4, <2>5, <2>6, <2>7, LogKinds
<1>2. e \in Event /\ NextEvent(p)' = e
  <2>1. tail[p] + 1 \in 1..Len(file[p])
    BY <1>0, <1>1, FileStep
  <2> QED
    BY <1>0, <1>1, <2>1, FileStep DEF NextEvent
<1> HIDE DEF e
<1>3. ASSUME NEW d \in Cpis, Registered(d)', PoolOfData(d)' = p, ~Shadowed(d)',
             joined'[d].at <= tail[p], IsFor(e, cluster_id'[d])
      PROVE  /\ Registered(d) /\ PoolOfData(d) = p /\ ~Shadowed(d)
             /\ joined[d].at <= tail[p] /\ IsFor(e, cluster_id[d])
             /\ cluster_id'[d] = cluster_id[d]
  <2>1. CASE Registered(d)
    BY <1>3, <2>1, RegisteredKept, ShadowedKept
  <2>2. ASSUME NEW t \in Threads, Enters(t), d = me[t]
        PROVE  FALSE
    <3>1. want[t] \in Ids /\ cluster_id'[d] = want[t] /\ UNCHANGED log_vars
      BY <2>2 DEF Enters
    <3>2. joined'[me[t]] = [at |-> Passed(PoolOfId(want[t])), as |-> state'[me[t]]]
      BY <2>2, EntersShape
    <3>3. PoolOfId(want[t]) = p
      BY <1>3, <3>1 DEF PoolOfData, PoolOfId
    <3>4. joined'[d].at = Passed(p)
      BY <2>2, <3>2, <3>3
    <3>5. lpc[p] \notin {"off", "reading"}
      BY <3>1 DEF Busy, Notifying, log_vars
    <3> QED
      BY <1>1, <1>3, <3>4, <3>5 DEF Passed
  <2> QED
    BY <1>3, <2>1, <2>2, RegisteredNew
<1> DEFINE Candidates == {registry[p][<<e.cluster>>], registry[p][<<e.cluster, e.proc>>]}
<1>4. /\ target'[p] \in Candidates
      /\ Registered(target'[p]) /\ joined[target'[p]].at <= tail[p]
      /\ \A d \in Cpis :
            /\ Registered(d) /\ PoolOfData(d) = p /\ ~Shadowed(d)
            /\ joined[d].at <= tail[p] /\ IsFor(e, cluster_id[d])
            => target'[p] = d
  <2>1. CASE Busy(p) /\ target'[p] = target[p]
    <3>1. /\ target[p] \in Candidates /\ joined[target[p]].at <= tail[p]
          /\ \A d \in Cpis :
                /\ Registered(d) /\ PoolOfData(d) = p /\ ~Shadowed(d)
                /\ joined[d].at <= tail[p] /\ IsFor(e, cluster_id[d])
                => target[p] = d
      BY <2>1 DEF TargetRight, e
    <3>2. Registered(target[p])
      <4>1. PICK id \in Ids : target[p] = registry[p][id]
        BY <1>2, <3>1, EventIds
      <4>2. target[p] # None
        BY <1>1, <2>1, JobAssumption
      <4>3. p = PoolOfId(id) /\ cluster_id[target[p]] = id
        BY <4>1, <4>2 DEF IdsLead
      <4> QED
        BY <4>1, <4>3, NoIdType DEF Registered
    <3> QED
      BY <2>1, <3>1, <3>2
  <2>2. CASE /\ lpc[p] = "reading" /\ FindTarget(p, e) # None
             /\ target'[p] = FindTarget(p, e)
    <3>1. /\ Registered(FindTarget(p, e)) /\ PoolOfData(FindTarget(p, e)) = p
          /\ FindTarget(p, e) \in Cpis
          /\ \A d \in Cpis :
                Registered(d) /\ PoolOfData(d) = p /\ ~Shadowed(d) /\ IsFor(e, cluster_id[d])
                => FindTarget(p, e) = d
      BY <1>2, <2>2, FoundRight
    <3>2. joined[FindTarget(p, e)].at <= tail[p]
      BY <2>2, <3>1 DEF JoinedBefore, Passed
    <3>3. FindTarget(p, e) \in Candidates
      BY DEF FindTarget
    <3> HIDE DEF Candidates
    <3> QED
      BY <2>2, <3>1, <3>2, <3>3
  <2> QED
    BY <1>1, <2>1, <2>2 DEF e
<1>5. target'[p] \in {registry'[p][<<e.cluster>>], registry'[p][<<e.cluster, e.proc>>]}
  <2>1. PICK id \in {<<e.cluster>>, <<e.cluster, e.proc>>} : target'[p] = registry[p][id]
    BY <1>4
  <2>2. id \in Ids /\ registry[p][id] # None
    BY <1>1, <1>2, <2>1, EventIds, JobAssumption
  <2>3. registry'[p][id] = registry[p][id]
    BY <2>2, RegisteredKept
  <2> QED
    BY <2>1, <2>3
<1>6. joined'[target'[p]].at <= tail'[p]
  <2>1. joined'[target'[p]] = joined[target'[p]]
    BY <1>1, <1>4, RegisteredKept
  <2> QED
    BY <1>1, <1>4, <2>1
<1> HIDE DEF Candidates
<1> QED
  BY <1>1, <1>2, <1>3, <1>4, <1>5, <1>6

-----------------------------------------------------------------------------
(* Every step leaves the state of each registered job what its events make  *)
(* of it.                                                                   *)

\* The events of the log of p that have been applied or dropped.
Seen(p) == IF Notifying(p) THEN tail[p] + 1 ELSE tail[p]

\* How many events of a log are seen after a step, and whom it changes.
LEMMA SeenStep ==
    ASSUME CacheInv, LogsTell, JoinedBefore, \A t \in Threads : CallReady(t),
           Next \/ UNCHANGED vars, NEW p \in Pools
    PROVE  /\ Seen(p) \in Nat /\ Seen(p) <= Len(file[p]) /\ Seen(p) <= Passed(p)
           /\ lpc[p] # "off" \/ (\E d \in Cpis : Registered(d) /\ PoolOfData(d) = p) =>
                 \/ Seen(p)' = Seen(p) /\ ~Apply(p)
                 \/ /\ Seen(p) = tail[p] /\ Seen(p)' = tail[p] + 1 /\ tail[p] < Len(file[p])
                    /\ Find(p) /\ FindTarget(p, NextEvent(p)) = None
                 \/ /\ Seen(p) = tail[p] /\ Seen(p)' = tail[p] + 1 /\ tail[p] < Len(file[p])
                    /\ Apply(p)
<1>0. /\ LogTypeOK /\ LogsLock /\ tail[p] <= Len(file[p]) /\ lpc[p] \in LogPoints
      /\ tail[p] \in Nat /\ Len(file[p]) \in Nat
  BY FileStep DEF CacheInv, Inv, TypeOK, LogsTell, LogTypeOK
<1>1. lpc[p] \in {"found", "updating", "pinned"} => tail[p] < Len(file[p])
  BY <1>0 DEF LogsLock, Notifying
<1>2. Seen(p) \in Nat /\ Seen(p) <= Len(file[p]) /\ Seen(p) <= Passed(p)
  BY <1>0, <1>1 DEF Seen, Passed, Notifying
<1>3. Seen(p)' = IF Notifying(p)' THEN tail'[p] + 1 ELSE tail'[p]
  BY DEF Seen
<1>4. ASSUME tail'[p] = tail[p], Notifying(p)' <=> Notifying(p)
      PROVE  Seen(p)' = Seen(p)
  BY <1>3, <1>4 DEF Seen
<1>5. ASSUME Find(p)
      PROVE  \/ Seen(p)' = Seen(p) /\ ~Apply(p)
             \/ /\ Seen(p) = tail[p] /\ Seen(p)' = tail[p] + 1 /\ tail[p] < Len(file[p])
                /\ FindTarget(p, NextEvent(p)) = None
  <2>1. lpc[p] = "reading" /\ tail[p] < Len(file[p]) /\ ~Apply(p) /\ ~Notifying(p)
    BY <1>5 DEF Find, Apply, LogAt, Notifying
  <2>2. \/ /\ FindTarget(p, NextEvent(p)) = None
           /\ lpc'[p] = "reading" /\ tail'[p] = tail[p] + 1
        \/ lpc'[p] = "found" /\ tail'[p] = tail[p]
    BY <1>0, <1>5 DEF Find, Advance, LogTypeOK
  <2> QED
    BY <1>3, <2>1, <2>2 DEF Seen, Notifying
<1>6. ASSUME Apply(p)
      PROVE  /\ Seen(p) = tail[p] /\ Seen(p)' = tail[p] + 1 /\ tail[p] < Len(file[p])
  <2>1. lpc[p] = "found" /\ ~Notifying(p)
    BY <1>6 DEF Apply, LogAt, Notifying
  <2>2. \/ lpc'[p] = "reading" /\ tail'[p] = tail[p] + 1
        \/ lpc'[p] = "updating" /\ tail'[p] = tail[p]
    BY <1>0, <1>6 DEF Apply, Advance, LogTypeOK
  <2> QED
    BY <1>1, <1>3, <2>1, <2>2 DEF Seen, Notifying
<1>7. ASSUME NotifyAll(p), lpc[p] = "updating", lpc'[p] = "reading", tail'[p] = tail[p] + 1
      PROVE  Seen(p)' = Seen(p) /\ ~Apply(p)
  BY <1>3, <1>7 DEF Seen, Notifying, Apply, LogAt
<1>8. ASSUME NEW t \in Threads, Opens(t), StartLog(p), lpc[p] = "off", lpc'[p] = "reading",
             NEW d \in Cpis, Registered(d), PoolOfData(d) = p
      PROVE  FALSE
  <2>1. p = "nolog"
    BY <1>8 DEF JoinedBefore
  <2>2. CallReady(t)
    OBVIOUS
  <2>3. ASSUME pc[t] = "openlog"
        PROVE  PoolOfId(want[t]) = "log"
    <3>1. want[t][1] \in Foreign /\ want[t][1] \notin Quiet
      BY <2>2, <2>3 DEF CallReady, At
    <3> QED
      BY <3>1, JobAssumption, QueueAssumption DEF PoolOfId, PoolOf, Clusters
  <2>4. StartLog("log") \/ StartLog("rm") => lpc'["nolog"] = lpc["nolog"]
    BY <1>0 DEF StartLog, LogProcessor, LogTypeOK, log_vars, Pools
  <2>5. StartLog(PoolOfId(want[t])) \/ StartLog("rm")
    BY <1>8 DEF Opens
  <2>6. pc[t] = "openlog" \/ StartLog("rm")
    BY <1>8 DEF Opens, At
  <2> QED
    BY <1>8, <2>1, <2>3, <2>4, <2>5, <2>6
<1> QED
  BY <1>2, <1>4, <1>5, <1>6, <1>7, <1>8, LogKinds

LEMMA EventsAppliedStep ==
    ASSUME CacheInv, IdsLead, LogsTell, JoinedBefore, TargetRight, EventsApplied,
           \A t \in Threads : CallReady(t), Next \/ UNCHANGED vars
    PROVE  EventsApplied'
<1>0. /\ TypeOK /\ LogTypeOK /\ LogsLock /\ state \in [Cpis -> States]
      /\ \A d \in Cpis : cluster_id[d] \in Ids \cup {NoId} /\ joined[d].at \in Nat
      /\ \A q \in Pools, id \in Ids : registry[q][id] \in Cpis \cup {None}
  BY DEF CacheInv, Inv, TypeOK, DataTypeOK, RegistryTypeOK
<1> DEFINE Follows(d) ==
      IF Applied(d) = {} THEN state[d] = joined[d].as
      ELSE \E i \in Applied(d) :
              /\ \A j \in Applied(d) : j <= i
              /\ state[d] = StateOfEvent[file[PoolOfData(d)][i].type]
<1>1. ASSUME NEW d \in Cpis, Registered(d), ~Shadowed(d)'
      PROVE  Follows(d)'
  <2>0. /\ ~Shadowed(d) /\ PoolOfData(d)' = PoolOfData(d) /\ PoolOfData(d) \in Pools
        /\ cluster_id'[d] = cluster_id[d] /\ joined'[d] = joined[d] /\ cluster_id[d] \in Ids
        /\ state'[d] = state[d] \/ \E q \in Pools : Apply(q) /\ target[q] = d
    BY <1>0, <1>1, ShadowedKept, RegisteredKept DEF Registered
  <2>p. PICK p \in Pools : p = PoolOfData(d)
    BY <2>0
  <2>i. PICK id \in Ids : id = cluster_id[d]
    BY <2>0
  <2>a. PICK a \in Nat : a = joined[d].at
    BY <1>0
  <2>1. Follows(d)
    BY <1>1, <2>0 DEF EventsApplied
  <2>2. /\ Seen(p) \in Nat /\ Seen(p) <= Len(file[p]) /\ tail[p] \in Nat
        /\ Len(file[p]) \in Nat
        /\ \A i \in 1..Len(file[p]) : file'[p][i] = file[p][i] /\ file[p][i] \in Event
    BY <1>0, SeenStep, FileStep DEF LogTypeOK
  <2>3. /\ Applied(d) = {i \in (a + 1)..Seen(p) :
                            IsFor(file[p][i], id) /\ IsStateEvent(file[p][i].type)}
        /\ Applied(d)' = {i \in (a + 1)..Seen(p)' :
                            IsFor(file'[p][i], id) /\ IsStateEvent(file'[p][i].type)}
    BY <2>0, <2>p, <2>i, <2>a DEF Applied, Seen, Notifying, IsFor, IsStateEvent
  <2>4. ASSUME Applied(d)' = Applied(d), state'[d] = state[d]
        PROVE  Follows(d)'
    <3>1. \A i \in Applied(d) : file'[p][i] = file[p][i]
      BY <2>2, <2>3
    <3>2. CASE Applied(d) = {}
      BY <2>0, <2>1, <2>4, <3>2
    <3>3. CASE Applied(d) # {}
      <4>1. PICK i \in Applied(d) : /\ \A j \in Applied(d) : j <= i
                                    /\ state[d] = StateOfEvent[file[p][i].type]
        BY <2>1, <2>p, <3>3
      <4>2. state'[d] = StateOfEvent[file'[PoolOfData(d)'][i].type]
        BY <2>0, <2>4, <2>p, <3>1, <4>1
      <4> QED
        BY <2>4, <3>3, <4>1, <4>2
    <3> QED
      BY <3>2, <3>3
  <2>5. ASSUME NEW q \in Pools, Apply(q)
        PROVE  /\ tail[q] + 1 \in 1..Len(file[q]) /\ NextEvent(q) \in Event
               /\ target[q] = d => /\ q = p /\ a <= tail[p]
                                   /\ IsFor(NextEvent(p), id)
               /\ q = p /\ target[p] # d /\ a <= tail[p] => ~IsFor(NextEvent(p), id)
    <3>1. lpc[q] = "found" /\ Busy(q)
      BY <2>5 DEF Apply, LogAt, Busy
    <3>2. tail[q] \in Nat /\ tail[q] < Len(file[q]) /\ Len(file[q]) \in Nat
      BY <1>0, <3>1, FileStep DEF LogsLock, LogTypeOK
    <3>3. tail[q] + 1 \in 1..Len(file[q]) /\ NextEvent(q) \in Event
      BY <1>0, <3>2, FileStep DEF NextEvent
    <3>4. /\ target[q] \in {registry[q][<<NextEvent(q).cluster>>],
                            registry[q][<<NextEvent(q).cluster, NextEvent(q).proc>>]}
          /\ joined[target[q]].at <= tail[q]
          /\ \A x \in Cpis :
                /\ Registered(x) /\ PoolOfData(x) = q /\ ~Shadowed(x)
                /\ joined[x].at <= tail[q] /\ IsFor(NextEvent(q), cluster_id[x])
                => target[q] = x
      BY <3>1 DEF TargetRight
    <3>5. ASSUME target[q] = d
          PROVE  q = p /\ a <= tail[p] /\ IsFor(NextEvent(p), id)
      <4>1. PICK x \in {<<NextEvent(q).cluster>>, <<NextEvent(q).cluster, NextEvent(q).proc>>} :
               d = registry[q][x]
        BY <3>4, <3>5
      <4>2. x \in Ids /\ IsFor(NextEvent(q), x)
        BY <3>3, EventIds
      <4>3. q = PoolOfId(x) /\ cluster_id[d] = x
        BY <4>1, <4>2, JobAssumption DEF IdsLead
      <4>4. q = p /\ id = x
        BY <2>p, <2>i, <4>3 DEF PoolOfData
      <4> QED
        BY <2>a, <3>4, <3>5, <4>2, <4>4
    <3>6. ASSUME q = p, target[p] # d, a <= tail[p]
          PROVE  ~IsFor(NextEvent(p), id)
      BY <1>1, <2>0, <2>p, <2>i, <2>a, <3>4, <3>6
    <3> QED
      BY <3>3, <3>5, <3>6
  <2>6. CASE Seen(p)' = Seen(p) /\ ~Apply(p)
    <3>1. state'[d] = state[d]
      BY <2>0, <2>5, <2>6
    <3>2. Applied(d)' = Applied(d)
      BY <2>2, <2>3, <2>6
    <3> QED
      BY <2>4, <3>1, <3>2
  <2>7. ASSUME Seen(p) = tail[p], Seen(p)' = tail[p] + 1, tail[p] < Len(file[p]),
               \/ tail[p] + 1 <= a
               \/ ~IsFor(NextEvent(p), id)
               \/ ~IsStateEvent(NextEvent(p).type)
        PROVE  Applied(d)' = Applied(d)
    <3>1. tail[p] + 1 \in 1..Len(file[p]) /\ file'[p][tail[p] + 1] = NextEvent(p)
      BY <2>2, <2>7 DEF NextEvent
    <3>2. tail[p] + 1 \notin Applied(d)'
      BY <2>3, <2>7, <3>1
    <3>3. \A i \in (a + 1)..(tail[p] + 1) : i # tail[p] + 1 =>
             i \in (a + 1)..Seen(p) /\ file'[p][i] = file[p][i]
      BY <2>2, <2>7
    <3>4. \A i \in (a + 1)..Seen(p) : i \in (a + 1)..Seen(p)' /\ file'[p][i] = file[p][i]
      BY <2>2, <2>7
    <3> QED
      BY <2>3, <2>7, <3>2, <3>3, <3>4
  <2>8. ASSUME Seen(p) = tail[p], Seen(p)' = tail[p] + 1, tail[p] < Len(file[p]),
               Find(p), FindTarget(p, NextEvent(p)) = None
        PROVE  Follows(d)'
    <3>1. NextEvent(p) \in Event
      BY <2>2, <2>8 DEF NextEvent
    <3>2. ~IsFor(NextEvent(p), id)
      BY <1>1, <2>0, <2>p, <2>i, <2>8, <3>1, FoundRight, JobAssumption
    <3>3. ~Apply(p)
      BY <2>8 DEF Find, Apply, LogAt
    <3> QED
      BY <2>0, <2>4, <2>5, <2>7, <2>8, <3>2, <3>3
  <2>9. ASSUME Seen(p) = tail[p], Seen(p)' = tail[p] + 1, tail[p] < Len(file[p]), Apply(p)
        PROVE  Follows(d)'
    <3>1. CASE ~IsStateEvent(NextEvent(p).type)
      <4>1. state' = state
        BY <2>9, <3>1 DEF Apply, data_vars
      <4> QED
        BY <2>4, <2>7, <2>9, <3>1, <4>1
    <3>2. CASE target[p] # d
      <4>1. state'[d] = state[d]
        BY <2>0, <2>5, <3>2
      <4>2. ~IsFor(NextEvent(p), id) \/ tail[p] + 1 <= a
        BY <2>2, <2>5, <2>9, <3>2
      <4> QED
        BY <2>4, <2>7, <2>9, <4>1, <4>2
    <3>3. CASE target[p] = d /\ IsStateEvent(NextEvent(p).type)
      <4>1. state'[d] = StateOfEvent[NextEvent(p).type]
        BY <1>0, <2>9, <3>3 DEF Apply
      <4>2. a <= tail[p] /\ IsFor(NextEvent(p), id) /\ tail[p] + 1 \in 1..Len(file[p])
        BY <2>5, <2>9, <3>3
      <4>3. file'[p][tail[p] + 1] = NextEvent(p)
        BY <2>2, <4>2 DEF NextEvent
      <4>4. tail[p] + 1 \in Applied(d)'
        BY <2>2, <2>3, <2>9, <3>3, <4>2, <4>3
      <4>5. \A j \in Applied(d)' : j <= tail[p] + 1
        BY <2>2, <2>3, <2>9
      <4>6. state'[d] = StateOfEvent[file'[PoolOfData(d)'][tail[p] + 1].type]
        BY <2>0, <2>p, <4>1, <4>3
      <4> QED
        BY <4>4, <4>5, <4>6
    <3> QED
      BY <3>1, <3>2, <3>3
  <2> HIDE DEF Follows
  <2> QED
    BY <1>1, <2>p, <2>6, <2>8, <2>9, SeenStep
<1>2. ASSUME NEW d \in Cpis, NEW t \in Threads, Enters(t), d = me[t]
      PROVE  Follows(d)'
  <2>1. want[t] \in Ids /\ cluster_id'[d] = want[t] /\ UNCHANGED log_vars
    BY <1>2 DEF Enters
  <2>2. PICK p \in Pools : p = PoolOfId(want[t])
    BY <2>1, PoolType
  <2>3. joined'[d] = [at |-> Passed(p), as |-> state'[d]]
    <3>1. joined'[me[t]] = [at |-> Passed(PoolOfId(want[t])), as |-> state'[me[t]]]
      BY <1>2, EntersShape
    <3> QED
      BY <1>2, <2>2, <3>1
  <2>4. /\ Seen(p)' = Seen(p) /\ Seen(p) \in Nat /\ Passed(p) \in Nat /\ Seen(p) <= Passed(p)
        /\ PoolOfData(d)' = p
    BY <2>1, <2>2, PassedStep, SeenStep DEF Seen, Notifying, log_vars, PoolOfData, PoolOfId
  <2>5. \A i \in Applied(d)' : i \in (Passed(p) + 1)..Seen(p)'
    BY <2>3, <2>4 DEF Applied, Seen, Notifying
  <2>6. Applied(d)' = {}
    BY <2>4, <2>5
  <2> QED
    BY <2>3, <2>6
<1> HIDE DEF Follows
<1>3. ASSUME NEW d \in Cpis, Registered(d)', ~Shadowed(d)'
      PROVE  Follows(d)'
  BY <1>1, <1>2, <1>3, RegisteredNew
<1> QED
  BY <1>3 DEF EventsApplied, Follows

-----------------------------------------------------------------------------
(* The invariant.                                                           *)

LEMMA InitEventInv == Init => EventInv
<1> SUFFICES ASSUME Init
             PROVE  EventInv
  OBVIOUS
<1>1. \A d \in Cpis : ~Registered(d)
  BY DEF Init, Registered
<1>2. IdsLead
  BY DEF Init, IdsLead, Unnamed
<1>3. \A t \in Threads : CallReady(t)
  BY DEF Init, CallReady, At
<1>4. LogsTell
  BY DEF Init, QueueInit, LogsTell
<1>5. SubmittedKnown
  BY QueueAssumption DEF Init, QueueInit, SubmittedKnown, Submitted, Clusters
<1>6. JoinedBefore /\ NothingMissed /\ EventsApplied
  BY <1>1 DEF JoinedBefore, NothingMissed, EventsApplied
<1>7. TargetRight
  BY DEF Init, TargetRight, Busy, Notifying
<1> QED
  BY <1>2, <1>3, <1>4, <1>5, <1>6, <1>7, InitCacheInv DEF EventInv

LEMMA StepEventInv == EventInv /\ [Next]_vars => EventInv'
<1> SUFFICES ASSUME EventInv, Next \/ UNCHANGED vars
             PROVE  EventInv'
  OBVIOUS
<1>0. /\ CacheInv /\ IdsLead /\ \A t \in Threads : CallReady(t)
      /\ LogsTell /\ SubmittedKnown /\ JoinedBefore /\ NothingMissed
      /\ TargetRight /\ EventsApplied
  BY DEF EventInv
<1>1. CacheInv'
  BY <1>0, StepCacheInv
<1>2. IdsLead' /\ SubmittedKnown' /\ LogsTell'
  BY <1>0, IdsLeadStep, SubmittedKnownStep, LogsTellStep
<1>3. \A t \in Threads : CallReady(t)'
  BY <1>0, CallReadyStep
<1>4. JoinedBefore' /\ NothingMissed'
  BY <1>0, JoinedBeforeStep, NothingMissedStep
<1>5. TargetRight' /\ EventsApplied'
  BY <1>0, TargetRightStep, EventsAppliedStep
<1> QED
  BY <1>1, <1>2, <1>3, <1>4, <1>5 DEF EventInv

(* EventInv holds of every reachable state of the program, whatever its     *)
(* threads, its log processors and Condor do.                               *)
THEOREM EventInvariance == Spec => []EventInv
<1>1. Init => EventInv
  BY InitEventInv
<1>2. EventInv /\ [Next]_vars => EventInv'
  BY StepEventInv
<1> QED
  BY <1>1, <1>2, PTL DEF Spec

(* No log processor passes over an event of a job that sync_run submits     *)
(* before the job is registered.                                            *)
THEOREM NoSubmissionMissed == Spec => []NothingMissed
<1>1. EventInv => NothingMissed
  BY DEF EventInv
<1> QED
  BY <1>1, EventInvariance, PTL

(* The state of a registered job is what its last event makes of it: events *)
(* are neither lost, nor applied twice, out of order or to another job.     *)
THEOREM StateFollowsLog == Spec => []EventsApplied
<1>1. EventInv => EventsApplied
  BY DEF EventInv
<1> QED
  BY <1>1, EventInvariance, PTL

(* A cluster that condor_submit created for this process is registered, or  *)
(* the thread that submitted it is about to do so.                          *)
THEOREM NoSubmissionForgotten == Spec => []SubmissionsKnown
<1>1. EventInv => SubmissionsKnown
  BY DEF EventInv, SubmittedKnown, Submitted, SubmissionsKnown
<1> QED
  BY <1>1, EventInvariance, PTL

(* A handle the application can use is told of the events of its job, and   *)
(* the id of the job leads to the data the handle shows.                    *)
THEOREM HandlesListen == Spec => []EveryHandleListens
<1>1. ASSUME EventInv, NEW c \in Cpis, life[c] = "live"
      PROVE  /\ c \in instances[job_data[c]]
             /\ cluster_id[job_data[c]] # NoId => Registered(job_data[c])
  <2>1. /\ LiveListen /\ UnnamedAlone /\ HandlesHaveData /\ StartedKnown /\ IdsLead
    BY <1>1 DEF EventInv, CacheInv, Inv
  <2>2. CASE ~Unnamed(c)
    BY <1>1, <2>1, <2>2 DEF IdsLead, LiveListen
  <2>3. CASE Unnamed(c)
    <3>1. job_data[c] = c
      BY <1>1, <2>1, <2>3, JobAssumption DEF UnnamedAlone, HandlesHaveData
    <3> QED
      BY <1>1, <2>1, <2>3, <3>1 DEF StartedKnown, ClusterKnown, LiveListen
  <2> QED
    BY <2>2, <2>3
<1>2. EventInv => EveryHandleListens
  BY <1>1 DEF EveryHandleListens
<1> QED
  BY <1>2, EventInvariance, PTL

=============================================================================
