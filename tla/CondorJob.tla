------------------------------ MODULE CondorJob ------------------------------
(***************************************************************************)
(* The job handles of the adaptor (job_cpi_impl), the data the handles of  *)
(* one job share (shared_job_data), the registry of each pool that maps    *)
(* job ids to that data (job_registry), and the thread of each pool that   *)
(* reads the Condor user log and applies its events (log_processor), with  *)
(* Condor itself taken from CondorQueue.                                   *)
(*                                                                         *)
(* Threads are the application's threads. A step runs to the next point    *)
(* where another thread can tell the difference: a lock that is taken or   *)
(* held across calls, a Condor command, a callback. A critical section     *)
(* without such a point inside is one step.                                *)
(*                                                                         *)
(* Assertions are on, as in a build without NDEBUG: a failed BOOST_ASSERT  *)
(* ends the program.                                                       *)
(***************************************************************************)
EXTENDS CondorQueue

CONSTANTS Threads,   \* threads of the application
          Cpis,      \* handles; each is constructed at most once
          PickIds,   \* job ids the application asks for
          Patiences, \* how long it is ready to wait in a call
          Unknown,   \* the cluster id of a job whose id could not be read
          None

Ids == {<<cl>> : cl \in Clusters \cup {Unknown}}
         \cup {<<cl, pr>> : cl \in Clusters, pr \in Processes}
NoId == <<>>

\* A timeout of 0, a positive one, one that has run out, and a negative one.
Patience == {"zero", "some", "expired", "forever"}

ASSUME JobAssumption ==
    /\ Unknown \notin Clusters
    /\ None \notin Cpis /\ None \notin Threads
    /\ Patiences \subseteq Patience \ {"expired"}
    /\ PickIds \subseteq {id \in Ids : id[1] # Unknown}

VARIABLES
    \* of each handle, a job_cpi_impl
    life,           \* see Lives
    job_data,       \* the shared_job_data of the handle
    state_changed,  \* is the cached state out of date?
    cached_state,
    jobid,          \* the JobID attribute
    \* of each shared_job_data, named after the handle that created it
    state,
    cluster_id,     \* full_job_id is made from it, at the same time
    instances,      \* the handles that listen
    locked,         \* is state_change_mtx held by a log processor?
    \* of the registries
    registry,       \* registry[p][id]: the data registered in pool p, or None
    reg_lock,       \* the thread that holds the registry of pool "rm", or None
    joined,         \* history: where in the log, and as what, data was registered
    \* of the log processor of each pool
    lpc,            \* see LogPoints
    tail,           \* events read so far
    target,         \* the data whose event is processed
    todo,           \* the instances still to be updated
    pin,            \* the handle whose proxy is locked
    \* of each thread of the application
    pc,             \* see Calls
    me,             \* the handle the call is made on
    want,           \* the id asked for, or submitted
    patience,
    \* of the program
    fault           \* has "abort" when it is gone; "dangling": see UpdateDone

handle_vars == <<life, job_data, state_changed, cached_state, jobid>>
data_vars   == <<state, cluster_id, instances, locked>>
reg_vars    == <<registry, joined>>
log_vars    == <<lpc, tail, target, todo, pin>>
thread_vars == <<pc, me, want, patience>>
job_vars    == <<handle_vars, data_vars, reg_vars, reg_lock, log_vars, thread_vars, fault>>
vars        == <<job_vars, condor_vars>>

(* The life of a handle: not constructed, in its constructor, usable, its   *)
(* last reference dropped by a thread that now runs the destructor, its     *)
(* last reference left with a log processor, and destroyed.                 *)
Lives == {"none", "ctor", "live", "dying", "orphan", "gone"}

(* A log processor: not started; between events; about to lock the data of  *)
(* an event; in the loop over the instances; in update_state of one.        *)
LogPoints == {"off", "reading", "found", "updating", "pinned"}

\* The calls of a thread, by the step that comes next.
Calls == {"idle", "query", "openlog", "register", "attach",
          "run_log", "run_lock", "submit", "publish",
          "cancel_rm", "cancel_check", "wait_lock", "waiting", "destroy"}

HandleTypeOK ==
    /\ life \in [Cpis -> Lives]
    /\ job_data \in [Cpis -> Cpis \cup {None}]
    /\ state_changed \in [Cpis -> BOOLEAN]
    /\ cached_state \in [Cpis -> States]
    /\ jobid \in [Cpis -> Ids \cup {NoId}]

DataTypeOK ==
    /\ state \in [Cpis -> States]
    /\ cluster_id \in [Cpis -> Ids \cup {NoId}]
    /\ instances \in [Cpis -> SUBSET Cpis]
    /\ locked \in [Cpis -> BOOLEAN]

RegistryTypeOK ==
    /\ registry \in [Pools -> [Ids -> Cpis \cup {None}]]
    /\ reg_lock \in Threads \cup {None}
    /\ joined \in [Cpis -> [at : Nat, as : States]]

LogTypeOK ==
    /\ lpc \in [Pools -> LogPoints]
    /\ tail \in [Pools -> Nat]
    /\ target \in [Pools -> Cpis \cup {None}]
    /\ todo \in [Pools -> SUBSET Cpis]
    /\ pin \in [Pools -> Cpis \cup {None}]

ThreadTypeOK ==
    /\ pc \in [Threads -> Calls]
    /\ me \in [Threads -> Cpis \cup {None}]
    /\ want \in [Threads -> Ids \cup {NoId}]
    /\ patience \in [Threads -> Patience]

\* Each variable of the handles, the data, the registries and the threads has its type.
TypeOK == /\ QueueTypeOK
          /\ HandleTypeOK /\ DataTypeOK /\ RegistryTypeOK
          /\ LogTypeOK /\ ThreadTypeOK
          /\ fault \subseteq {"abort", "dangling"}

Init ==
    /\ QueueInit
    /\ life = [c \in Cpis |-> "none"]
    /\ job_data = [c \in Cpis |-> None]
    /\ state_changed = [c \in Cpis |-> FALSE]
    /\ cached_state = [c \in Cpis |-> "New"]
    /\ jobid = [c \in Cpis |-> NoId]
    /\ state = [d \in Cpis |-> "New"]
    /\ cluster_id = [d \in Cpis |-> NoId]
    /\ instances = [d \in Cpis |-> {}]
    /\ locked = [d \in Cpis |-> FALSE]
    /\ registry = [p \in Pools |-> [id \in Ids |-> None]]
    /\ reg_lock = None
    /\ joined = [d \in Cpis |-> [at |-> 0, as |-> "New"]]
    /\ lpc = [p \in Pools |-> "off"]
    /\ tail = [p \in Pools |-> 0]
    /\ target = [p \in Pools |-> None]
    /\ todo = [p \in Pools |-> {}]
    /\ pin = [p \in Pools |-> None]
    /\ pc = [t \in Threads |-> "idle"]
    /\ me = [t \in Threads |-> None]
    /\ want = [t \in Threads |-> NoId]
    /\ patience = [t \in Threads |-> "zero"]
    /\ fault = {}

-----------------------------------------------------------------------------
(* Parts of the actions.                                                    *)

\* Thread t, or the log processor of p, is at a point; and may go on from it.
At(t, point) == pc[t] = point
Step(t, point) == "abort" \notin fault /\ At(t, point)
LogAt(p, point) == "abort" \notin fault /\ lpc[p] = point

\* Inside a call; into one; and back from it.
Goto(t, point) == /\ pc' = [pc EXCEPT ![t] = point]
                  /\ UNCHANGED <<me, want, patience>>
Call(t, point, c, id, bound) ==
    /\ pc' = [pc EXCEPT ![t] = point]
    /\ me' = [me EXCEPT ![t] = c]
    /\ want' = [want EXCEPT ![t] = id]
    /\ patience' = [patience EXCEPT ![t] = bound]
Return(t) == Call(t, "idle", None, NoId, "zero")

\* The data of the handle that t makes its call on.
MyData(t) == job_data[me[t]]

\* A failed assertion.
Abort == /\ fault' = fault \cup {"abort"}
         /\ UNCHANGED <<handle_vars, data_vars, reg_vars, reg_lock, log_vars,
                        thread_vars, condor_vars>>

\* The pool of an id. A job of unknown id was submitted here.
PoolOfId(id) == IF id[1] = Unknown THEN "rm" ELSE PoolOf(id[1])

\* Mutant: sync_run does not keep the others out of the registry.
RegistryUnlocked == TRUE

\* The registry of pool "rm" can be locked by a log processor, or by a lookup.
RegistryFree == reg_lock = None

\* Mutant: the lock is leaked.
LockKept == UNCHANGED reg_lock

\* The scope of the lock in sync_run ends.
Unlock == reg_lock' = None

\* Can state_change_mtx of d be taken?
MtxFree(d) == ~locked[d]

\* job_cpi_impl::get_state: blocks, returns and updates the cache.
CanGet(c) == state_changed[c] => MtxFree(job_data[c])
Got(c) == IF state_changed[c] THEN state[job_data[c]] ELSE cached_state[c]
Refresh(c) == /\ state_changed' = [state_changed EXCEPT ![c] = FALSE]
              /\ cached_state' = [cached_state EXCEPT ![c] = Got(c)]
              /\ UNCHANGED <<life, job_data, jobid>>

(* Mutants: the end of the log is missed by one; every call starts another  *)
(* log processor, which reads from the beginning.                           *)
StartLogEarly(p) == /\ lpc' = [lpc EXCEPT ![p] = "reading"]
                    /\ tail' = [tail EXCEPT ![p] = Len(file[p]) - 1]
                    /\ UNCHANGED <<target, todo, pin>>
StartLogAgain(p) == /\ lpc' = [lpc EXCEPT ![p] = "reading"]
                    /\ tail' = [tail EXCEPT ![p] = 0]
                    /\ UNCHANGED <<target, todo, pin>>

(* The constructor of log_processor returns when its thread has sought the  *)
(* end of the log.                                                          *)
LogProcessor(p) == /\ lpc' = [lpc EXCEPT ![p] = "reading"]
                   /\ tail' = [tail EXCEPT ![p] = Len(file[p])]
                   /\ UNCHANGED <<target, todo, pin>>

\* pool::get_log: the first call starts the log processor.
StartLog(p) == IF lpc[p] = "off" THEN LogProcessor(p) ELSE UNCHANGED log_vars

\* The number of events that pool p will not look up again.
Passed(p) == IF lpc[p] \in {"off", "reading"} THEN tail[p] ELSE tail[p] + 1

\* Mutant: the assertions of register_job are gone.
IdUnchecked(id) == TRUE

(* job_registry::register_job of data d under id, in state s. Its           *)
(* assertions say that the id is not taken yet.                             *)
IdFree(id) == registry[PoolOfId(id)][id] = None

\* Mutant: a job without a cluster id is not worth registering.
RegisterKnown(d, id, s) ==
    /\ registry' = IF id[1] = Unknown THEN registry
                   ELSE [registry EXCEPT ![PoolOfId(id)][id] = d]
    /\ joined' = [joined EXCEPT ![d] = [at |-> Passed(PoolOfId(id)), as |-> s]]

RegisterJob(d, id, s) ==
    /\ registry' = [registry EXCEPT ![PoolOfId(id)][id] = d]
    /\ joined' = [joined EXCEPT ![d] = [at |-> Passed(PoolOfId(id)), as |-> s]]

-----------------------------------------------------------------------------
(* The constructor of job_cpi_impl.                                         *)

(* For a new job. Nobody else knows the handle or its data before the       *)
(* constructor has returned, so it is one step.                             *)
NewJob(t, c) ==
    /\ Step(t, "idle") /\ life[c] = "none"
    /\ life' = [life EXCEPT ![c] = "live"]
    /\ job_data' = [job_data EXCEPT ![c] = c]
    /\ state_changed' = [state_changed EXCEPT ![c] = TRUE]
    /\ instances' = [instances EXCEPT ![c] = @ \cup {c}]
    /\ UNCHANGED <<cached_state, jobid, state, cluster_id, locked, reg_vars,
                   reg_lock, log_vars, thread_vars, fault, condor_vars>>

(* job_adaptor::find_job locks the registries of all pools of the resource  *)
(* manager in turn.                                                         *)
FoundJob(id) == registry[PoolOfId(id)][id]

(* For a job id. A job this process submitted is asked for by an id it has  *)
(* been given.                                                              *)
FindJob(t, c, id) ==
    LET d == FoundJob(id)
    IN  /\ Step(t, "idle") /\ life[c] = "none" /\ RegistryFree
        /\ id[1] \in Own => d # None
        /\ life' = [life EXCEPT ![c] = "ctor"]
        /\ \/ /\ d = None
              /\ job_data' = [job_data EXCEPT ![c] = c]
              /\ Call(t, "query", c, id, "zero")
              /\ UNCHANGED jobid
           \/ /\ d # None
              /\ job_data' = [job_data EXCEPT ![c] = d]
              /\ jobid' = [jobid EXCEPT ![c] = id]
              /\ Call(t, "attach", c, id, "zero")
        /\ UNCHANGED <<state_changed, cached_state, data_vars, reg_vars, reg_lock,
                       log_vars, fault, condor_vars>>

\* The processes that condor_q prints for an id; the first ClassAd counts.
Printed(id) == {pr \in Processes : /\ queue[id[1]][pr] \in Queued
                                   /\ Len(id) = 2 => pr = id[2]}

(* condor_q: a job that has left the queue does not exist. One without an   *)
(* XML log goes to the pool of such jobs, which has no log processor.       *)
QueryJob(t) ==
    LET c == me[t]
        id == want[t]
    IN  /\ Step(t, "query")
        /\ \/ /\ Printed(id) = {}
              /\ life' = [life EXCEPT ![c] = "gone"]
              /\ Return(t)
              /\ UNCHANGED <<state, cluster_id>>
           \/ \E pr \in Printed(id) :
              /\ state' = [state EXCEPT ![c] =
                             StateOfStatus[JobStatus(queue[id[1]][pr])]]
              /\ cluster_id' = [cluster_id EXCEPT ![c] = id]
              /\ Goto(t, IF id[1] \in Quiet THEN "register" ELSE "openlog")
              /\ UNCHANGED life
        /\ UNCHANGED <<job_data, state_changed, cached_state, jobid, instances, locked,
                       reg_vars, reg_lock, log_vars, fault, condor_vars>>

OpenLog(t) ==
    /\ Step(t, "openlog")
    /\ StartLog(PoolOfId(want[t]))
    /\ Goto(t, "register")
    /\ UNCHANGED <<handle_vars, data_vars, reg_vars, reg_lock, fault, condor_vars>>

\* set_job_id in the constructor.
Register(t) ==
    LET c == me[t]
        id == want[t]
    IN  /\ Step(t, "register")
        /\ \/ ~IdFree(id) /\ Abort
           \/ /\ IdFree(id)
              /\ RegisterJob(c, id, state[c])
              /\ jobid' = [jobid EXCEPT ![c] = id]
              /\ Goto(t, "attach")
              /\ UNCHANGED <<life, job_data, state_changed, cached_state, data_vars,
                             reg_lock, log_vars, fault, condor_vars>>

\* "Update status and start receiving events", under the lock.
Attach(t) ==
    LET c == me[t]
        d == MyData(t)
    IN  /\ Step(t, "attach") /\ MtxFree(d)
        /\ life' = [life EXCEPT ![c] = "live"]
        /\ state_changed' = [state_changed EXCEPT ![c] = TRUE]
        /\ instances' = [instances EXCEPT ![d] = @ \cup {c}]
        /\ Return(t)
        /\ UNCHANGED <<job_data, cached_state, jobid, state, cluster_id, locked,
                       reg_vars, reg_lock, log_vars, fault, condor_vars>>

-----------------------------------------------------------------------------
(* sync_run.                                                                *)

(* The job must be New and have no cluster id, or the call throws. Nothing  *)
(* is locked while the call goes on from here.                              *)
RunCheck(t, c) ==
    /\ Step(t, "idle") /\ life[c] = "live" /\ CanGet(c)
    /\ Got(c) = "New" /\ cluster_id[job_data[c]] = NoId
    /\ Refresh(c)
    /\ Call(t, "run_log", c, NoId, "zero")
    /\ UNCHANGED <<data_vars, reg_vars, reg_lock, log_vars, fault, condor_vars>>

RunGetLog(t) ==
    /\ Step(t, "run_log") /\ RegistryFree
    /\ StartLog("rm")
    /\ Goto(t, "run_lock")
    /\ UNCHANGED <<handle_vars, data_vars, reg_vars, reg_lock, fault, condor_vars>>

\* "Prevent processing of events, so we don't lose any..."
RunLock(t) ==
    /\ Step(t, "run_lock") /\ RegistryFree
    /\ reg_lock' = t
    /\ Goto(t, "submit")
    /\ UNCHANGED <<handle_vars, data_vars, reg_vars, log_vars, fault, condor_vars>>

(* condor_submit fails, and the exception releases the registry; or it      *)
(* creates a cluster, whose id its output tells or not.                     *)
Submit(t) ==
    /\ Step(t, "submit")
    /\ \/ /\ Unlock
          /\ Return(t)
          /\ UNCHANGED condor_vars
       \/ /\ \E cl \in Own, pr \in Processes : \E id \in {<<cl>>, <<Unknown>>} :
               /\ CondorSubmit(cl, pr)
               /\ Call(t, "publish", me[t], id, "zero")
          /\ UNCHANGED reg_lock
    /\ UNCHANGED <<handle_vars, data_vars, reg_vars, log_vars, fault>>

(* State, ids, registration and update_state, with the registry and the     *)
(* state lock held. set_job_id asserts that the handle has no id yet.       *)
Publish(t) ==
    LET c == me[t]
        d == MyData(t)
        id == want[t]
    IN  /\ Step(t, "publish") /\ MtxFree(d)
        /\ \/ (jobid[c] # NoId \/ ~IdFree(id)) /\ Abort
           \/ /\ jobid[c] = NoId /\ IdFree(id)
              /\ RegisterJob(d, id, "Running")
              /\ state' = [state EXCEPT ![d] = "Running"]
              /\ cluster_id' = [cluster_id EXCEPT ![d] = id]
              /\ jobid' = [jobid EXCEPT ![c] = id]
              /\ state_changed' = [state_changed EXCEPT ![c] = TRUE]
              /\ Unlock
              /\ Return(t)
              /\ UNCHANGED <<life, job_data, cached_state, instances, locked,
                             log_vars, fault, condor_vars>>

-----------------------------------------------------------------------------
(* sync_get_state, sync_wait and sync_cancel.                               *)

(* Also a run, wait or cancel that throws before it does anything, a wait   *)
(* that finds the job final, and suspend and resume, which are not          *)
(* implemented and always throw.                                            *)
GetState(t, c) ==
    /\ Step(t, "idle") /\ life[c] = "live" /\ CanGet(c)
    /\ Refresh(c)
    /\ UNCHANGED <<data_vars, reg_vars, reg_lock, log_vars, thread_vars, fault, condor_vars>>

\* A handle that wait and cancel accept: started, with a cluster id.
Started(c) == Got(c) # "New" /\ cluster_id[job_data[c]] # NoId

WaitEnter(t, c, bound) ==
    /\ Step(t, "idle") /\ life[c] = "live" /\ CanGet(c) /\ Started(c)
    /\ Got(c) \notin FinalStates /\ bound # "zero"
    /\ Refresh(c)
    /\ Call(t, "wait_lock", c, NoId, bound)
    /\ UNCHANGED <<data_vars, reg_vars, reg_lock, log_vars, fault, condor_vars>>

(* With the lock taken: the predicate is_state_final decides, and so does   *)
(* the clock for a bounded wait.                                            *)
WaitLock(t) ==
    LET c == me[t]
    IN  /\ Step(t, "wait_lock") /\ MtxFree(MyData(t))
        /\ Refresh(c)
        /\ IF Got(c) \in FinalStates \/ patience[t] = "expired"
             THEN Return(t)
             ELSE Goto(t, "waiting")
        /\ UNCHANGED <<data_vars, reg_vars, reg_lock, log_vars, fault, condor_vars>>

Timeout(t) ==
    /\ Step(t, "waiting") /\ patience[t] = "some"
    /\ Call(t, "wait_lock", me[t], NoId, "expired")
    /\ UNCHANGED <<handle_vars, data_vars, reg_vars, reg_lock, log_vars, fault, condor_vars>>

SpuriousWake(t) ==
    /\ Step(t, "waiting")
    /\ Goto(t, "wait_lock")
    /\ UNCHANGED <<handle_vars, data_vars, reg_vars, reg_lock, log_vars, fault, condor_vars>>

CancelCheck(t, c, bound) ==
    /\ Step(t, "idle") /\ life[c] = "live" /\ CanGet(c) /\ Started(c)
    /\ Refresh(c)
    /\ Call(t, "cancel_rm", c, NoId, bound)
    /\ UNCHANGED <<data_vars, reg_vars, reg_lock, log_vars, fault, condor_vars>>

(* condor_rm takes the cluster id as it is; it fails when it finds nothing  *)
(* to remove, and the call throws.                                          *)
Removes(id) == IF id[1] = Unknown THEN {} ELSE Printed(id)

CancelRm(t) ==
    LET id == cluster_id[MyData(t)]
    IN  /\ Step(t, "cancel_rm")
        /\ \/ Removes(id) = {} /\ Return(t) /\ UNCHANGED condor_vars
           \/ /\ Removes(id) # {}
              /\ CondorRemove(id[1], Removes(id))
              /\ Goto(t, "cancel_check")
        /\ UNCHANGED <<handle_vars, data_vars, reg_vars, reg_lock, log_vars, fault>>

CancelWait(t) ==
    LET c == me[t]
    IN  /\ Step(t, "cancel_check") /\ CanGet(c)
        /\ Refresh(c)
        /\ IF Got(c) \in FinalStates \/ patience[t] = "zero"
             THEN Return(t)
             ELSE Goto(t, "wait_lock")
        /\ UNCHANGED <<data_vars, reg_vars, reg_lock, log_vars, fault, condor_vars>>

-----------------------------------------------------------------------------
(* The end of a handle. The application drops its last reference while no   *)
(* call is being made on it.                                                *)

InUse(c) == \E t \in Threads : me[t] = c
Pinned(c) == \E p \in Pools : pin[p] = c

(* If a log processor has locked the proxy, the destructor is left to it.   *)
Release(t, c) ==
    /\ Step(t, "idle") /\ life[c] = "live" /\ ~InUse(c)
    /\ \/ /\ Pinned(c)
          /\ life' = [life EXCEPT ![c] = "orphan"]
          /\ UNCHANGED thread_vars
       \/ /\ ~Pinned(c)
          /\ life' = [life EXCEPT ![c] = "dying"]
          /\ Call(t, "destroy", c, NoId, "zero")
    /\ UNCHANGED <<job_data, state_changed, cached_state, jobid, data_vars, reg_vars,
                   reg_lock, log_vars, fault, condor_vars>>

\* Mutant: the destructor does not erase the handle from the instances.
ForgetLife(c) == life' = [life EXCEPT ![c] = "gone"] /\ UNCHANGED instances

\* ~job_cpi_impl: forget the handle.
Forget(c) ==
    /\ life' = [life EXCEPT ![c] = "gone"]
    /\ instances' = [instances EXCEPT ![job_data[c]] = @ \ {c}]

Destroy(t) ==
    /\ Step(t, "destroy") /\ MtxFree(MyData(t))
    /\ Forget(me[t])
    /\ Return(t)
    /\ UNCHANGED <<job_data, state_changed, cached_state, jobid, state, cluster_id,
                   locked, reg_vars, reg_lock, log_vars, fault, condor_vars>>

-----------------------------------------------------------------------------
(* log_processor::process_log_entry, for the next event of the log of p.    *)

NextEvent(p) == file[p][tail[p] + 1]

\* Mutant: events are looked up by cluster only.
FindCluster(p, e) == registry[p][<<e.cluster>>]

\* The data registered for the cluster comes before that for the process.
FindTarget(p, e) ==
    IF registry[p][<<e.cluster>>] # None
      THEN registry[p][<<e.cluster>>]
      ELSE registry[p][<<e.cluster, e.proc>>]

\* Done with the event.
Advance(p) == /\ lpc' = [lpc EXCEPT ![p] = "reading"]
              /\ tail' = [tail EXCEPT ![p] = @ + 1]
              /\ target' = [target EXCEPT ![p] = None]
              /\ UNCHANGED <<todo, pin>>

\* An event of a job that is not registered is dropped.
Find(p) ==
    LET d == FindTarget(p, NextEvent(p))
    IN  /\ LogAt(p, "reading") /\ tail[p] < Len(file[p])
        /\ p = "rm" => RegistryFree
        /\ \/ d = None /\ Advance(p)
           \/ /\ d # None
              /\ lpc' = [lpc EXCEPT ![p] = "found"]
              /\ target' = [target EXCEPT ![p] = d]
              /\ UNCHANGED <<tail, todo, pin>>
        /\ UNCHANGED <<handle_vars, data_vars, reg_vars, reg_lock, thread_vars,
                       fault, condor_vars>>

\* Take the lock of the data and set the state.
Apply(p) ==
    LET d == target[p]
        type == NextEvent(p).type
    IN  /\ LogAt(p, "found") /\ MtxFree(d)
        /\ \/ ~IsStateEvent(type) /\ Advance(p) /\ UNCHANGED data_vars
           \/ /\ IsStateEvent(type)
              /\ state' = [state EXCEPT ![d] = StateOfEvent[type]]
              /\ locked' = [locked EXCEPT ![d] = TRUE]
              /\ lpc' = [lpc EXCEPT ![p] = "updating"]
              /\ todo' = [todo EXCEPT ![p] = instances[d]]
              /\ UNCHANGED <<cluster_id, instances, tail, target, pin>>
        /\ UNCHANGED <<handle_vars, reg_vars, reg_lock, thread_vars, fault, condor_vars>>

(* update_state of one instance, up to the callbacks of m.fire(). It does   *)
(* nothing if the proxy no longer exists.                                   *)
UpdateState(p, c) ==
    /\ LogAt(p, "updating") /\ c \in todo[p]
    /\ \/ /\ life[c] = "live"
          /\ lpc' = [lpc EXCEPT ![p] = "pinned"]
          /\ pin' = [pin EXCEPT ![p] = c]
          /\ UNCHANGED todo
       \/ /\ life[c] # "live"
          /\ todo' = [todo EXCEPT ![p] = @ \ {c}]
          /\ UNCHANGED <<lpc, pin>>
    /\ UNCHANGED <<tail, target, handle_vars, data_vars, reg_vars, reg_lock,
                   thread_vars, fault, condor_vars>>

(* Mutants: update_state does not tell get_state to look again; it does     *)
(* only when the job is final.                                              *)
ToldNothing(c) == UNCHANGED state_changed
ToldFinal(c) == state_changed' = [state_changed EXCEPT
                                    ![c] = @ \/ state[job_data[c]] \in FinalStates]

\* The end of update_state.
Told(c) == state_changed' = [state_changed EXCEPT ![c] = TRUE]

(* The rest of update_state, which lets go of the proxy. If that was the    *)
(* last reference, the destructor erases the instance from the set the loop *)
(* of process_log_entry iterates over, and the loop goes on from a dangling *)
(* iterator: it may crash, or visit any of the instances that remain.       *)
UpdateDone(p) ==
    LET c == pin[p]
        rest == todo[p] \ {c}
    IN  /\ LogAt(p, "pinned")
        /\ lpc' = [lpc EXCEPT ![p] = "updating"]
        /\ pin' = [pin EXCEPT ![p] = None]
        /\ \/ /\ life[c] # "orphan"
              /\ Told(c)
              /\ todo' = [todo EXCEPT ![p] = rest]
              /\ UNCHANGED <<life, instances, fault>>
           \/ /\ life[c] = "orphan"
              /\ Forget(c)
              /\ \/ /\ fault' = fault \cup {"abort"}
                    /\ todo' = [todo EXCEPT ![p] = rest]
                 \/ /\ fault' = fault \cup {"dangling"}
                    /\ \E some \in SUBSET rest : todo' = [todo EXCEPT ![p] = some]
              /\ UNCHANGED state_changed
        /\ UNCHANGED <<tail, target, job_data, cached_state, jobid, state, cluster_id,
                       locked, reg_vars, reg_lock, thread_vars, condor_vars>>

\* Mutant: nobody is notified.
WokenNever(t, d) == FALSE

\* Does notify_all on the condition variable of d wake thread t?
Woken(t, d) == At(t, "waiting") /\ MyData(t) = d

\* state_change.notify_all(), and the lock is released.
NotifyAll(p) ==
    LET d == target[p]
    IN  /\ LogAt(p, "updating") /\ todo[p] = {}
        /\ pc' = [t \in Threads |-> IF Woken(t, d) THEN "wait_lock" ELSE pc[t]]
        /\ locked' = [locked EXCEPT ![d] = FALSE]
        /\ Advance(p)
        /\ UNCHANGED <<me, want, patience, handle_vars, state, cluster_id, instances,
                       reg_vars, reg_lock, fault, condor_vars>>

-----------------------------------------------------------------------------
\* A thread goes on with the call it is in.
Continue(t) ==
    \/ QueryJob(t) \/ OpenLog(t) \/ Register(t) \/ Attach(t)
    \/ RunGetLog(t) \/ RunLock(t) \/ Submit(t) \/ Publish(t)
    \/ WaitLock(t) \/ Timeout(t)
    \/ CancelRm(t) \/ CancelWait(t)
    \/ Destroy(t)

\* A thread begins a call.
Begin(t) ==
    \E c \in Cpis :
        \/ NewJob(t, c)
        \/ \E id \in PickIds : FindJob(t, c, id)
        \/ RunCheck(t, c)
        \/ GetState(t, c)
        \/ \E bound \in Patiences : WaitEnter(t, c, bound) \/ CancelCheck(t, c, bound)
        \/ Release(t, c)

LogStep(p) ==
    \/ Find(p) \/ Apply(p) \/ UpdateDone(p) \/ NotifyAll(p)
    \/ \E c \in Cpis : UpdateState(p, c)

\* Nothing is observed of Condor once the program is gone.
Condor == /\ "abort" \notin fault
          /\ \E cl \in Clusters, pr \in Processes : CondorStep(cl, pr)
          /\ UNCHANGED job_vars

Next ==
    \/ \E t \in Threads : Begin(t) \/ Continue(t) \/ SpuriousWake(t)
    \/ \E p \in Pools : LogStep(p)
    \/ Condor

Spec == Init /\ [][Next]_vars

(* A thread inside a call goes on whenever it can: locks are held for a     *)
(* bounded time, Condor's commands come back, and time passes for a bounded *)
(* wait. A log processor polls its log for ever. condor_submit does not     *)
(* fail for ever when it is tried again and again. Nothing makes the        *)
(* application begin a call, or Condor move a job.                          *)
Fairness ==
    /\ \A t \in Threads : WF_vars(Continue(t))
    /\ \A p \in Pools : WF_vars(LogStep(p))
    /\ SF_vars(\E t \in Threads : Submit(t) /\ queue' # queue)

FairSpec == Spec /\ Fairness

-----------------------------------------------------------------------------
(* What should be true.                                                     *)

\* The data registered for an id of pool p, with that id.
Registered(d) == /\ cluster_id[d] # NoId
                 /\ registry[PoolOfId(cluster_id[d])][cluster_id[d]] = d

\* The pool whose log tells of d.
PoolOfData(d) == PoolOfId(cluster_id[d])

(* No event about a job this process submitted is passed over before the    *)
(* job is registered: sync_run holds the registry from before condor_submit *)
(* until it has registered the cluster, "so we don't lose any...".          *)
NothingMissed ==
    \A d \in Cpis :
        Registered(d) /\ cluster_id[d][1] \in Own =>
            \A i \in 1..joined[d].at : file["rm"][i].cluster # cluster_id[d][1]

(* The events that the log processor has applied to d, by index: those of   *)
(* its job it found after d was registered.                                 *)
IsFor(e, id) == /\ e.cluster = id[1]
                /\ Len(id) = 2 => e.proc = id[2]

Applied(d) ==
    LET p == PoolOfData(d)
        seen == IF lpc[p] \in {"updating", "pinned"} THEN tail[p] + 1
                                                      ELSE tail[p]
    IN  {i \in (joined[d].at + 1)..seen :
            IsFor(file[p][i], cluster_id[d]) /\ IsStateEvent(file[p][i].type)}

\* An event goes to the handle on the whole cluster if there is one.
Shadowed(d) == LET id == cluster_id[d]
               IN  Len(id) = 2 /\ registry[PoolOfData(d)][<<id[1]>>] # None

(* The state of a registered job is what its last event says, or, without   *)
(* one, the state it was registered with: no event is lost, applied twice,  *)
(* out of order or to another job, whatever handles and threads do.         *)
EventsApplied ==
    \A d \in Cpis :
        Registered(d) /\ ~Shadowed(d) =>
            IF Applied(d) = {}
              THEN state[d] = joined[d].as
              ELSE \E i \in Applied(d) :
                     /\ \A j \in Applied(d) : j <= i
                     /\ state[d] = StateOfEvent[file[PoolOfData(d)][i].type]

(* get_state trusts its cache while state_changed_ is not set. A handle     *)
(* whose flag is clear has the state of the job, or is about to be told by  *)
(* the log processor that has the lock. The loop of process_log_entry may   *)
(* break this once it went on from a dangling iterator.                     *)
CacheCoherent ==
    "dangling" \notin fault =>
        \A c \in Cpis :
            life[c] = "live" /\ ~state_changed[c] =>
                \/ cached_state[c] = state[job_data[c]]
                \/ \E p \in Pools : target[p] = job_data[c] /\ c \in todo[p]

(* The handles that process_log_entry will reach by their plain pointers,   *)
(* for a later event and for the one it is processing.                      *)
ListenersAlive ==
    \A d \in Cpis : \A c \in instances[d] :
        life[c] \in {"live", "dying", "orphan"} /\ job_data[c] = d

LoopsOnListeners ==
    \A p \in Pools : todo[p] # {} => todo[p] \subseteq instances[target[p]]

(* process_log_entry calls update_state through plain pointers: no handle   *)
(* it is going to call, or that a later event will reach, is destroyed, and *)
(* each listens to its own job only.                                        *)
InstancesAlive == ListenersAlive /\ LoopsOnListeners

-----------------------------------------------------------------------------
(* Why no destroyed handle is called: the strengthening of InstancesAlive   *)
(* that every step preserves.                                               *)

\* The life of a handle during a call that is at a point.
LifeAt(point) ==
    IF point \in {"query", "openlog", "register", "attach"} THEN "ctor"
    ELSE IF point = "destroy" THEN "dying" ELSE "live"

\* A constructed handle has data.
HandlesHaveData ==
    \A c \in Cpis : /\ life[c] # "none" => job_data[c] \in Cpis
                    /\ state_changed[c] => life[c] # "none"

\* A call is made on a handle, of the right life.
CallsOnHandles ==
    \A t \in Threads : IF At(t, "idle") THEN me[t] = None
                       ELSE me[t] \in Cpis /\ life[me[t]] = LifeAt(pc[t])

\* No two threads construct or destroy one handle, or one that is in use.
CallsExclude ==
    \A t, u \in Threads : t # u /\ LifeAt(pc[t]) # "live" => me[t] # me[u]

\* A log processor that notifies has the lock, and has it alone.
Notifying(p) == lpc[p] \in {"updating", "pinned"}

LogsLock ==
    /\ \A p \in Pools :
          /\ Notifying(p) \/ lpc[p] = "found" =>
                target[p] \in Cpis /\ tail[p] < Len(file[p])
          /\ Notifying(p) => locked[target[p]]
          /\ ~Notifying(p) => todo[p] = {}
          /\ lpc[p] = "pinned" => pin[p] \in todo[p]
    /\ \A p, q \in Pools :
          p # q /\ Notifying(p) /\ Notifying(q) => target[p] # target[q]

(* Calls are made on handles of the right life, construction and            *)
(* destruction exclude other calls, a log processor notifies only under the *)
(* lock of the job, and so it calls no destroyed handle.                    *)
Inv == /\ TypeOK
       /\ HandlesHaveData /\ CallsOnHandles /\ CallsExclude
       /\ LogsLock /\ InstancesAlive

-----------------------------------------------------------------------------
(* Why the cache is coherent, and why waits end on final states only: the   *)
(* strengthening of CacheCoherent and JobSafety that every step preserves.  *)

\* process_log_entry reaches every handle the application can use.
LiveListen ==
    \A c \in Cpis : life[c] = "live" => c \in instances[job_data[c]]

(* A handle without a job id has data of its own, if any: no other handle   *)
(* and no registry has it.                                                  *)
Unnamed(c) == jobid[c] = NoId

UnnamedAlone ==
    \A c \in Cpis :
        /\ life[c] = "none" => Unnamed(c)
        /\ Unnamed(c) =>
              /\ job_data[c] \in {c, None}
              /\ \A x \in Cpis : job_data[x] = c => x = c
              /\ \A p \in Pools, id \in Ids : registry[p][id] # c

\* A handle gets its job id as its data is registered.
CallsNamed ==
    \A t \in Threads :
        /\ pc[t] \in {"query", "openlog", "register"} => Unnamed(me[t])
        /\ pc[t] \in {"query", "openlog", "register", "publish"} => want[t] \in Ids
        /\ At(t, "attach") => ~Unnamed(me[t])

\* Data has a cluster id once it has been submitted or found, and keeps it.
ClusterKnown(d) == cluster_id[d] # NoId

StartedKnown ==
    /\ \A c \in Cpis : life[c] = "none" \/ (life[c] = "live" /\ Unnamed(c))
                         => ~ClusterKnown(c)
    /\ \A t \in Threads :
          /\ At(t, "query") => ~ClusterKnown(me[t])
          /\ pc[t] \in {"openlog", "register"} => ClusterKnown(me[t])
          /\ pc[t] \in {"cancel_rm", "cancel_check", "wait_lock", "waiting"}
                => ClusterKnown(MyData(t))
    /\ \A p \in Pools :
          /\ target[p] # None => ClusterKnown(target[p])
          /\ \A id \in Ids : registry[p][id] # None => ClusterKnown(registry[p][id])

CacheInv == /\ Inv /\ CacheCoherent /\ LiveListen
            /\ UnnamedAlone /\ CallsNamed /\ StartedKnown

-----------------------------------------------------------------------------
\* The owners of the locks.
RegistryOwned == \A t \in Threads : reg_lock = t <=> pc[t] \in {"submit", "publish"}
Holds(p, d) == Notifying(p) /\ target[p] = d
JobsOwned == \A d \in Cpis : locked[d] <=> \E p \in Pools : Holds(p, d)

(* The registry is locked by the one thread that submits, and the lock of a *)
(* job by the one log processor that tells its handles of an event, which   *)
(* waits for no other lock. None is leaked, also not by a condor_submit     *)
(* that fails, and nobody waits in a circle.                                *)
LocksOwned == RegistryOwned /\ JobsOwned

(* A thread that sleeps in wait although the job is final is about to be    *)
(* woken: the final event was not applied between its look at the state and *)
(* its sleep, and notify_all reaches it.                                    *)
NoLostWakeup ==
    "dangling" \notin fault =>
        \A t \in Threads :
            At(t, "waiting") /\ state[MyData(t)] \in FinalStates =>
                \E p \in Pools : Holds(p, MyData(t))

(* A handle the application can use is among the instances of its data, and *)
(* if its job has an id, that id leads to its data, and to no other: all    *)
(* handles on one job id show the same state and are told of its events.    *)
EveryHandleListens ==
    \A c \in Cpis :
        life[c] = "live" =>
            /\ c \in instances[job_data[c]]
            /\ cluster_id[job_data[c]] # NoId => Registered(job_data[c])

(* A cluster this process created is known to it: a thread is about to      *)
(* register it, or it is registered, perhaps as the job of unknown id.      *)
SubmissionsKnown ==
    \A cl \in Own : (\E pr \in Processes : queue[cl][pr] # "none") =>
        \/ \E t \in Threads : At(t, "publish")
        \/ registry["rm"][<<cl>>] # None
        \/ registry["rm"][<<Unknown>>] # None

(* The assertion of set_job_id, "Tried to reset previously set job ID":     *)
(* a job is never submitted again.                                          *)
JobIdSetOnce ==
    \A t \in Threads : At(t, "publish") => jobid[me[t]] = NoId

(* The assertion of register_job, "Duplicate job ID: Another job has        *)
(* registered this ID".                                                     *)
IdsRegisteredOnce ==
    \A t \in Threads : At(t, "register") => IdFree(want[t])

(* The state model: the table of the documentation (webpage.wiki, "State    *)
(* Model"), which the job should show once its log has been read.           *)
Drained(p) == lpc[p] = "reading" /\ tail[p] = Len(file[p])

Documented(place) == StateOfStatus[JobStatus(place)]

\* Where a process of the job of d is, when its log has been read.
PlacesRead(d) ==
    {queue[cluster_id[d][1]][pr] : pr \in {pr \in Processes :
        Len(cluster_id[d]) = 2 => pr = cluster_id[d][2]}}

ShouldTell(d) ==
    Registered(d) /\ cluster_id[d][1] # Unknown /\ Drained(PoolOfData(d))

(* What a job does show: what is documented, with two exceptions where the  *)
(* code and the table disagree. A process that crashed has completed, which *)
(* is documented as Done, and is Failed; and one that is being removed,     *)
(* documented as Canceled, stays Running or Suspended until it is aborted.  *)
Shown(place) == CASE place = "crashed" -> {"Failed"}
                  [] place = "removing" -> {"Running", "Suspended"}
                  [] OTHER -> {Documented(place)}

(* Once the events of the log have been read, the state of a job is what    *)
(* the place of one of its processes in Condor shows as: the documented     *)
(* state of its status, but for the two exceptions of Shown.                *)
StateModel ==
    \A d \in Cpis :
        ShouldTell(d) => \E place \in PlacesRead(d) : state[d] \in Shown(place)

(* A wait without a bound on a job that has left the queue returns.         *)
Ended(d) == /\ cluster_id[d] # NoId
            /\ cluster_id[d][1] # Unknown
            /\ \A pr \in Processes : queue[cluster_id[d][1]][pr] \in Over

WaitersReturn ==
    \A t \in Threads :
        At(t, "waiting") /\ Ended(MyData(t)) ~> At(t, "idle") \/ fault # {}

(* A job as the application sees it through its handles: the abstract job,  *)
(* of which the threads that wait without a bound are the waiters.          *)
WaitsFor(t) ==
    IF pc[t] \in {"wait_lock", "waiting"} /\ patience[t] = "forever"
      THEN MyData(t) ELSE None

Job == INSTANCE SagaJob
    WITH Jobs    <- Cpis,
         Waiters <- Threads,
         started <- [d \in Cpis |-> ClusterKnown(d)],
         waiting <- [t \in Threads |-> WaitsFor(t)],
         broken  <- fault # {}

(* This module implements SagaJob: whatever Condor says, a job starts once, *)
(* and a wait without a bound ends only when the job is final.              *)
JobSafety == Job!Safety

(* On a pool that does not evict, a job of one process also stays Done,     *)
(* Canceled or Failed, and then each wait returns.                          *)
JobSpec == Job!Spec

(* Every other call returns: the registry lock, the lock of the job and the *)
(* lock of the log processor are never waited for in a circle.              *)
CallsReturn ==
    \A t \in Threads :
        pc[t] \notin {"idle", "wait_lock", "waiting"}
            ~> pc[t] \in {"idle", "wait_lock", "waiting"} \/ "abort" \in fault

=============================================================================
