------------------------------- MODULE Adaptor -------------------------------
(***************************************************************************)
(* The adaptor (job_adaptor), its map of pools, and the lifetime of what   *)
(* hangs on it: pools with their registries, log processors and temporary  *)
(* log files. CondorJob has one job's data, locks and events in detail and *)
(* pools that are always there; this module has the pools in detail, and   *)
(* of a job only where it is registered.                                   *)
(*                                                                         *)
(* A handle is named after the thread that made it, and a thread has at    *)
(* most one at a time. Shared data is named by the pool and the cluster it *)
(* is registered for. Assertions are on.                                   *)
(***************************************************************************)
EXTENDS JobService

CONSTANTS Threads,     \* threads of the application
          Services,    \* the resource managers its job services are made for
          PickRms,     \* the URLs in the job ids it asks for
          Own,         \* clusters that may be submitted
          Foreign,     \* clusters other programs have submitted
          Logs,        \* user logs of those clusters
          XmlLog,      \* of each of them, its XML log, or None
          MaxHandles,  \* bound on the handles made, for model checking
          CondorLogs,  \* what the ini file may set condor_log to; None: nothing
          Engine,      \* the SAGA engine, as the one that runs the destructor
          None

Clusters == Own \cup Foreign
Urls == PickRms \cup {Validated(s) : s \in Services}

(* The keys of pools_: the URL of a resource manager, or the name of a log. *)
(* "temp" is the temporary log of the pool for a URL.                       *)
RmKeys == {<<"rm", u>> : u \in Urls}
LogKeys == {<<"log", l>> : l \in Logs} \cup {<<"temp", u>> : u \in Urls}
NoXmlLog == <<"//-- No XML Log --//">>
Keys == RmKeys \cup LogKeys \cup {NoXmlLog}

ASSUME AdaptorAssumption ==
    /\ Own \cap Foreign = {}
    /\ Services \cup PickRms \subseteq [scheme : STRING, host : STRING, port : Int]
    /\ XmlLog \in [Foreign -> Logs \cup {None}]
    /\ MaxHandles \in Nat
    /\ CondorLogs \subseteq Logs \cup {None}
    /\ None \notin Keys /\ None \notin Urls
    /\ None \notin Clusters /\ None \notin Logs
    /\ None \notin Threads /\ Engine \notin Keys /\ Threads \cap Keys = {}

VARIABLES
    \* of the adaptor
    condor_log,    \* the setting, read by init
    entry,         \* pools_: of each key, no entry, a null pointer, a pool
    adaptor_lock,  \* the thread that has lock_data, or None
    engine,        \* does the SAGA engine still have the adaptor?
    adaptor,       \* "up", in its destructor, "gone"
    ender,         \* who runs the destructor: the engine, a thread, a log thread
    joining,       \* the pool whose log thread it waits for
    \* of each pool
    url,           \* url_, None when there is no pool
    jobs,          \* the registry: of each cluster, the URL in the id of its job
    reg_lock,      \* the thread that holds the registry in get_log, or None
    reader,        \* the thread of the log processor, see Readers
    pin,           \* the handle whose proxy that thread holds
    temp,          \* the pools whose temporary file exists
    \* of each thread of the application, and the handle it made
    pc,            \* see Calls
    life,          \* see Lives
    key,           \* the pool of the job
    rm,            \* the URL in its id
    cl,            \* its cluster, None for a job that has not been run
    cand,          \* candidate_pools of find_job
    raced,         \* has an insertion overlapped its iteration in find_job?
    missed,        \* history: has such an iteration missed a pool?
    late,          \* history: was the id registered since the constructor began?
    \* of the program and of Condor
    made,          \* counts the handles, for the bound
    fault,         \* why the program is gone, or "none"
    submitted      \* of each own cluster, the log it was submitted with, or None

map_vars    == <<condor_log, entry, adaptor_lock>>
end_vars    == <<engine, adaptor, ender, joining>>
pool_vars   == <<url, jobs, reg_lock, reader, pin, temp>>
job_vars    == <<life, key, rm, cl>>
find_vars   == <<cand, raced, missed, late>>
vars == <<map_vars, end_vars, pool_vars, pc, job_vars, find_vars, made, fault, submitted>>

(* A thread of a log processor: not started; started and not yet at the end *)
(* of the log; in its loop; told to stop; returned.                         *)
Readers == {"off", "starting", "running", "stopping", "ended"}

\* The calls of a thread, by the step that comes next.
Calls == {"idle", "scan", "lookup", "getpool", "reset",
          "openlog", "init", "submit", "register"}

(* A handle: none, in its constructor, usable, let go of by the application *)
(* while a log processor holds its proxy.                                   *)
Lives == {"none", "ctor", "live", "orphan"}

Faults == {"none", "temp", "registered", "race"}

TypeOK ==
    /\ condor_log \in CondorLogs
    /\ entry \in [Keys -> {"none", "null", "set"}]
    /\ adaptor_lock \in Threads \cup {None}
    /\ engine \in BOOLEAN
    /\ adaptor \in {"up", "ending", "gone"}
    /\ ender \in Threads \cup Keys \cup {Engine, None}
    /\ joining \in Keys \cup {None}
    /\ url \in [Keys -> Urls \cup {None}]
    /\ jobs \in [Keys -> [Clusters -> Urls \cup {None}]]
    /\ reg_lock \in [Keys -> Threads \cup {None}]
    /\ reader \in [Keys -> Readers]
    /\ pin \in [Keys -> Threads \cup {None}]
    /\ temp \subseteq Keys
    /\ pc \in [Threads -> Calls]
    /\ life \in [Threads -> Lives]
    /\ key \in [Threads -> Keys \cup {None}]
    /\ rm \in [Threads -> Urls \cup {None}]
    /\ cl \in [Threads -> Clusters \cup {None}]
    /\ cand \in [Threads -> SUBSET Keys]
    /\ raced \in [Threads -> BOOLEAN]
    /\ missed \in BOOLEAN
    /\ late \in [Threads -> BOOLEAN]
    /\ made \in Nat
    /\ fault \in Faults
    /\ submitted \in [Own -> LogKeys \cup {None}]

Init ==
    /\ condor_log \in CondorLogs
    /\ entry = [k \in Keys |-> "none"]
    /\ adaptor_lock = None
    /\ engine = TRUE /\ adaptor = "up" /\ ender = None /\ joining = None
    /\ url = [k \in Keys |-> None]
    /\ jobs = [k \in Keys |-> [c \in Clusters |-> None]]
    /\ reg_lock = [k \in Keys |-> None]
    /\ reader = [k \in Keys |-> "off"]
    /\ pin = [k \in Keys |-> None]
    /\ temp = {}
    /\ pc = [t \in Threads |-> "idle"]
    /\ life = [t \in Threads |-> "none"]
    /\ key = [t \in Threads |-> None]
    /\ rm = [t \in Threads |-> None]
    /\ cl = [t \in Threads |-> None]
    /\ cand = [t \in Threads |-> {}]
    /\ raced = [t \in Threads |-> FALSE]
    /\ missed = FALSE
    /\ late = [t \in Threads |-> FALSE]
    /\ made = 0
    /\ fault = "none"
    /\ submitted = [c \in Own |-> None]

-----------------------------------------------------------------------------
\* The log of a pool: what it was made with, or its temporary file.
NeedsTemp(k) == k \in RmKeys /\ condor_log = None

\* Mutant: what names the pool is taken for its log.
LogIsKey(k) == k

LogOf(k) == IF k \notin RmKeys THEN k
            ELSE IF condor_log = None THEN <<"temp", k[2]>>
            ELSE <<"log", condor_log>>

\* What condor_q prints as the XML log of a cluster.
UserLog(c) == IF c \in Own THEN submitted[c]
              ELSE IF XmlLog[c] = None THEN NoXmlLog
              ELSE <<"log", XmlLog[c]>>

Known(c) == c \in Own => submitted[c] # None

RegistryFree(k) == reg_lock[k] = None

\* Mutants: the shared data does not hold its pool; the log thread does.
HeldByHandles(k) == \E t \in Threads : key[t] = k
HeldByLog(k) == HeldByHandles(k) \/ reader[k] # "off"

(* Has the pool owners besides pools_? The data of a job holds it, and is   *)
(* held by the handles of the job and, once registered, by the registry of  *)
(* that same pool. Nothing takes it out of there again.                     *)
Held(k) == \/ \E t \in Threads : key[t] = k
           \/ \E c \in Clusters : jobs[k][c] # None

(* A handle is destroyed, by thread or log thread w, and with it a reference*)
(* to the adaptor. The last one takes the adaptor along.                    *)
Leave(t, w) ==
    /\ life' = [life EXCEPT ![t] = "none"]
    /\ key' = [key EXCEPT ![t] = None]
    /\ rm' = [rm EXCEPT ![t] = None]
    /\ cl' = [cl EXCEPT ![t] = None]
    /\ IF engine \/ \E s \in Threads \ {t} : life[s] # "none"
       THEN UNCHANGED <<adaptor, ender>>
       ELSE adaptor' = "ending" /\ ender' = w

\* The constructor throws.
Throw(t) == /\ pc' = [pc EXCEPT ![t] = "idle"]
            /\ Leave(t, t)
            /\ UNCHANGED <<engine, joining>>

\* It is done: the handle is among the instances and usable.
Built(t) == /\ pc' = [pc EXCEPT ![t] = "idle"]
            /\ life' = [life EXCEPT ![t] = "live"]

-----------------------------------------------------------------------------
(* Constructing a handle.                                                   *)

CanMake(t) == engine /\ pc[t] = "idle" /\ life[t] = "none" /\ made < MaxHandles

\* For a new job, through a service for s: create_job.
NewJob(t, s) ==
    /\ CanMake(t)
    /\ ValidRm(s)
    /\ pc' = [pc EXCEPT ![t] = "getpool"]
    /\ life' = [life EXCEPT ![t] = "ctor"]
    /\ made' = made + 1
    /\ key' = [key EXCEPT ![t] = <<"rm", Validated(s)>>]
    /\ rm' = [rm EXCEPT ![t] = Validated(s)]
    /\ UNCHANGED <<map_vars, end_vars, pool_vars, cl, find_vars, fault, submitted>>

\* From the id of a job that can be known, through a service for s: get_job.
GetJob(t, s, u, c) ==
    /\ CanMake(t)
    /\ Known(c)
    /\ ValidRm(s) /\ Accepts(s, JobId(u, c))
    /\ pc' = [pc EXCEPT ![t] = "scan"]
    /\ life' = [life EXCEPT ![t] = "ctor"]
    /\ made' = made + 1
    /\ rm' = [rm EXCEPT ![t] = u]
    /\ cl' = [cl EXCEPT ![t] = c]
    /\ raced' = [raced EXCEPT ![t] = adaptor_lock # None]
    /\ late' = [late EXCEPT ![t] = FALSE]
    /\ UNCHANGED <<map_vars, end_vars, pool_vars, key, cand, missed, fault, submitted>>

\* Mutants: pools found by log are left out; and those found by URL.
CandidatesByLog(u) == {k \in LogKeys \cup {NoXmlLog} : entry[k] = "set" /\ url[k] = u}
CandidatesByRm(u) == {k \in RmKeys : entry[k] = "set" /\ url[k] = u}

\* The pools whose registry may have a job of that URL.
Candidates(u) == {k \in Keys : entry[k] = "set" /\ url[k] = u}

(* find_job iterates over pools_ without the lock. When an insertion        *)
(* overlaps, it may miss entries or crash.                                  *)
Scan(t) ==
    /\ pc[t] = "scan"
    /\ \/ \E ks \in SUBSET Candidates(rm[t]) :
             /\ ks # Candidates(rm[t]) => raced[t]
             /\ cand' = [cand EXCEPT ![t] = ks]
             /\ missed' = (missed \/ ks # Candidates(rm[t]))
             /\ pc' = [pc EXCEPT ![t] = "lookup"]
             /\ UNCHANGED fault
       \/ /\ raced[t]
          /\ fault' = "race"
          /\ UNCHANGED <<pc, cand, missed>>
    /\ raced' = [raced EXCEPT ![t] = FALSE]
    /\ UNCHANGED <<map_vars, end_vars, pool_vars, job_vars, late, made, submitted>>

\* It asks their registries, one after the other, and stops at a hit.
Lookup(t) ==
    /\ pc[t] = "lookup"
    /\ \E k \in cand[t] :
          /\ RegistryFree(k)
          /\ IF jobs[k][cl[t]] # None
             THEN /\ key' = [key EXCEPT ![t] = k]
                  /\ cand' = [cand EXCEPT ![t] = {}]
                  /\ Built(t)
             ELSE /\ cand' = [cand EXCEPT ![t] = @ \ {k}]
                  /\ UNCHANGED <<pc, life, key>>
    /\ UNCHANGED <<map_vars, end_vars, pool_vars, rm, cl, raced, missed, late, made, fault, submitted>>

(* A miss: condor_q is asked. It may not know the job any more, and         *)
(* get_pool may not take the URL.                                           *)
Query(t) ==
    /\ pc[t] = "lookup" /\ cand[t] = {}
    /\ \/ /\ ValidRm(rm[t])
          /\ key' = [key EXCEPT ![t] = UserLog(cl[t])]
          /\ pc' = [pc EXCEPT ![t] = "getpool"]
          /\ UNCHANGED <<life, rm, cl, end_vars>>
       \/ Throw(t)
    /\ UNCHANGED <<map_vars, pool_vars, find_vars, made, fault, submitted>>

(* get_pool: the entry is made under the lock of the adaptor, first as a    *)
(* null pointer. A new job is in the pool of its resource manager and known *)
(* to nobody; one from an id is in the pool of its log.                     *)
AfterPool(t) == IF cl[t] = None THEN Built(t)
                ELSE /\ pc' = [pc EXCEPT ![t] = IF key[t] = NoXmlLog
                                                THEN "register" ELSE "openlog"]
                     /\ UNCHANGED life

GetPool(t) ==
    /\ pc[t] = "getpool"
    /\ adaptor_lock = None
    /\ \/ /\ entry[key[t]] = "set"
          /\ AfterPool(t)
          /\ UNCHANGED <<entry, adaptor_lock, raced>>
       \/ /\ entry[key[t]] # "set"
          /\ entry' = [entry EXCEPT ![key[t]] = "null"]
          /\ adaptor_lock' = t
          /\ raced' = [s \in Threads |-> raced[s] \/ pc[s] = "scan"]
          /\ pc' = [pc EXCEPT ![t] = "reset"]
          /\ UNCHANGED life
    /\ UNCHANGED <<condor_log, end_vars, pool_vars, key, rm, cl, cand, missed,
                   late, made, fault, submitted>>

MakePool(t) ==
    /\ pc[t] = "reset"
    /\ entry' = [entry EXCEPT ![key[t]] = "set"]
    /\ url' = [url EXCEPT ![key[t]] = Validated(rm[t])]
    /\ adaptor_lock' = None
    /\ AfterPool(t)
    /\ UNCHANGED <<condor_log, end_vars, jobs, reg_lock, reader, pin, temp,
                   key, rm, cl, find_vars, made, fault, submitted>>

AfterLog(t) == pc' = [pc EXCEPT ![t] = IF cl[t] = None THEN "submit" ELSE "register"]

(* get_log, with the registry locked: the temporary file, for which there   *)
(* may be no room, and the log processor, whose constructor waits for its   *)
(* thread to be at the end of the log.                                      *)
OpenLog(t) ==
    /\ pc[t] = "openlog"
    /\ RegistryFree(key[t])
    /\ \/ /\ reader[key[t]] # "off"
          /\ AfterLog(t)
          /\ UNCHANGED <<reg_lock, reader, temp, fault>>
       \/ /\ reader[key[t]] = "off"
          /\ temp' = IF NeedsTemp(key[t]) THEN temp \cup {key[t]} ELSE temp
          /\ reader' = [reader EXCEPT ![key[t]] = "starting"]
          /\ reg_lock' = [reg_lock EXCEPT ![key[t]] = t]
          /\ pc' = [pc EXCEPT ![t] = "init"]
          /\ UNCHANGED fault
       \/ /\ reader[key[t]] = "off" /\ NeedsTemp(key[t])
          /\ fault' = "temp"
          /\ UNCHANGED <<pc, reg_lock, reader, temp>>
    /\ UNCHANGED <<map_vars, end_vars, url, jobs, pin, job_vars, find_vars, made, submitted>>

\* Mutant: get_log keeps the registry.
NeverFree(k) == reg_lock[k]

\* The registry of pool k is given back.
Freed(k) == None

LogInit(t) ==
    /\ pc[t] = "init"
    /\ reader[key[t]] # "starting"
    /\ reg_lock' = [reg_lock EXCEPT ![key[t]] = Freed(key[t])]
    /\ AfterLog(t)
    /\ UNCHANGED <<map_vars, end_vars, url, jobs, reader, pin, temp,
                   job_vars, find_vars, made, fault, submitted>>

\* Registered for cluster c of pool k, under an id with URL u.
Registered(k, c, u) == jobs' = [jobs EXCEPT ![k][c] = u]

(* set_job_id of a job from an id, then the rest of its constructor. The    *)
(* assertion of register_job fails if the cluster is taken.                 *)
Register(t) ==
    /\ pc[t] = "register"
    /\ RegistryFree(key[t])
    /\ \/ /\ jobs[key[t]][cl[t]] = None
          /\ Registered(key[t], cl[t], rm[t])
          /\ late' = [s \in Threads |-> s # t /\ life[s] = "ctor"
                                         /\ (late[s] \/ cl[s] = cl[t])]
          /\ Built(t)
          /\ UNCHANGED fault
       \/ /\ jobs[key[t]][cl[t]] # None
          /\ fault' = "registered"
          /\ UNCHANGED <<pc, life, jobs, late>>
    /\ UNCHANGED <<map_vars, end_vars, url, reg_lock, reader, pin, temp,
                   key, rm, cl, cand, raced, missed, made, submitted>>

-----------------------------------------------------------------------------
(* Using a handle.                                                          *)

\* sync_run, first part.
Run(t) ==
    /\ pc[t] = "idle" /\ life[t] = "live" /\ cl[t] = None
    /\ pc' = [pc EXCEPT ![t] = "openlog"]
    /\ UNCHANGED <<map_vars, end_vars, pool_vars, job_vars, find_vars, made, fault, submitted>>

(* The rest of it, which holds the registry throughout: condor_submit, the  *)
(* job id, the registration. Translation or submission may fail.            *)
Submit(t) ==
    /\ pc[t] = "submit"
    /\ RegistryFree(key[t])
    /\ pc' = [pc EXCEPT ![t] = "idle"]
    /\ \/ \E c \in Own :
             /\ submitted[c] = None
             /\ submitted' = [submitted EXCEPT ![c] = LogOf(key[t])]
             /\ Registered(key[t], c, url[key[t]])
             /\ cl' = [cl EXCEPT ![t] = c]
             /\ rm' = [rm EXCEPT ![t] = url[key[t]]]
       \/ UNCHANGED <<submitted, jobs, cl, rm>>
    /\ UNCHANGED <<map_vars, end_vars, url, reg_lock, reader, pin, temp,
                   life, key, find_vars, made, fault>>

(* The application lets go of its handle. The handle is destroyed here, or  *)
(* by a log processor that holds its proxy.                                 *)
Drop(t) ==
    /\ pc[t] = "idle" /\ life[t] = "live"
    /\ IF \E k \in Keys : pin[k] = t
       THEN /\ life' = [life EXCEPT ![t] = "orphan"]
            /\ UNCHANGED <<key, rm, cl, adaptor, ender>>
       ELSE Leave(t, t)
    /\ UNCHANGED <<map_vars, engine, joining, pool_vars, pc, find_vars, made, fault, submitted>>

-----------------------------------------------------------------------------
(* The thread of the log processor of pool k.                               *)

\* It opens the log, seeks to its end, and says so.
ReaderStart(k) ==
    /\ reader[k] = "starting"
    /\ reader' = [reader EXCEPT ![k] = "running"]
    /\ UNCHANGED <<map_vars, end_vars, url, jobs, reg_lock, pin, temp, pc,
                   job_vars, find_vars, made, fault, submitted>>

(* An event of a job of the pool: update_state of a handle holds its proxy. *)
(* Being told to stop is noticed between events only.                       *)
Deliver(k) ==
    /\ reader[k] \in {"running", "stopping"} /\ pin[k] = None /\ ender # k
    /\ RegistryFree(k)
    /\ \E t \in Threads :
          /\ life[t] = "live" /\ key[t] = k /\ cl[t] # None
          /\ pin' = [pin EXCEPT ![k] = t]
    /\ UNCHANGED <<map_vars, end_vars, url, jobs, reg_lock, reader, temp, pc,
                   job_vars, find_vars, made, fault, submitted>>

\* It lets go of the proxy, and destroys the handle if nobody else will.
Unpin(k) ==
    /\ pin[k] # None
    /\ pin' = [pin EXCEPT ![k] = None]
    /\ IF life[pin[k]] = "orphan"
       THEN Leave(pin[k], k)
       ELSE UNCHANGED <<job_vars, adaptor, ender>>
    /\ UNCHANGED <<map_vars, engine, joining, url, jobs, reg_lock, reader, temp,
                   pc, find_vars, made, fault, submitted>>

\* It returns, if it is not the one that runs the destructor.
ReaderEnd(k) ==
    /\ reader[k] = "stopping" /\ pin[k] = None /\ ender # k
    /\ reader' = [reader EXCEPT ![k] = "ended"]
    /\ UNCHANGED <<map_vars, end_vars, url, jobs, reg_lock, pin, temp, pc,
                   job_vars, find_vars, made, fault, submitted>>

-----------------------------------------------------------------------------
(* The end of the adaptor.                                                  *)

\* The engine lets go of the adaptor.
Unload ==
    /\ engine
    /\ engine' = FALSE
    /\ IF \E t \in Threads : life[t] # "none"
       THEN UNCHANGED <<adaptor, ender>>
       ELSE adaptor' = "ending" /\ ender' = Engine
    /\ UNCHANGED <<map_vars, joining, pool_vars, pc, job_vars, find_vars, made, fault, submitted>>

\* Mutant: ~log_processor does not interrupt the thread.
StoppedNot(state) == state

\* A log thread that is told to stop; none may have been started.
Stopped(state) == IF state = "off" THEN "off" ELSE "stopping"

(* ~job_adaptor gives up an entry of pools_. If that was the last owner of  *)
(* the pool, ~log_processor tells the thread to stop and waits for it.      *)
EndEntry(k) ==
    /\ adaptor = "ending" /\ joining = None
    /\ entry[k] = "set"
    /\ IF Held(k)
       THEN /\ entry' = [entry EXCEPT ![k] = "none"]
            /\ UNCHANGED <<joining, reader>>
       ELSE /\ joining' = k
            /\ reader' = [reader EXCEPT ![k] = Stopped(@)]
            /\ UNCHANGED entry
    /\ UNCHANGED <<condor_log, adaptor_lock, engine, adaptor, ender, url, jobs,
                   reg_lock, pin, temp, pc, job_vars, find_vars, made, fault, submitted>>

\* Mutant: the thread is told to stop and not waited for.
NotJoined(k) == TRUE

\* thread_.join() returns.
Joined(k) == reader[k] \in {"off", "ended"}

(* Then ~pool removes the temporary file and destroys the registry.         *)
EndPool(k) ==
    /\ joining = k
    /\ Joined(k)
    /\ joining' = None
    /\ entry' = [entry EXCEPT ![k] = "none"]
    /\ url' = [url EXCEPT ![k] = None]
    /\ reader' = [reader EXCEPT ![k] = IF @ = "ended" THEN "off" ELSE @]
    /\ temp' = temp \ {k}
    /\ UNCHANGED <<condor_log, adaptor_lock, engine, adaptor, ender, jobs, reg_lock,
                   pin, pc, job_vars, find_vars, made, fault, submitted>>

EndAdaptor ==
    /\ adaptor = "ending" /\ joining = None
    /\ \A k \in Keys : entry[k] = "none"
    /\ adaptor' = "gone" /\ ender' = None
    /\ UNCHANGED <<map_vars, engine, joining, pool_vars, pc, job_vars, find_vars,
                   made, fault, submitted>>

-----------------------------------------------------------------------------
\* A thread inside a call.
CallStep(t) == \/ Scan(t) \/ Lookup(t) \/ Query(t)
               \/ GetPool(t) \/ MakePool(t)
               \/ OpenLog(t) \/ LogInit(t)
               \/ Submit(t) \/ Register(t)

\* A thread of the application begins a call.
Begin(t) == \/ \E s \in Services : NewJob(t, s)
            \/ \E s \in Services, u \in PickRms, c \in Clusters : GetJob(t, s, u, c)
            \/ Run(t)
            \/ Drop(t)

ReaderStep(k) == ReaderStart(k) \/ Unpin(k) \/ ReaderEnd(k)

EndStep == (\E k \in Keys : EndEntry(k) \/ EndPool(k)) \/ EndAdaptor

\* Nothing happens after a failed assertion or a crash.
Next == /\ fault = "none"
        /\ \/ \E t \in Threads : CallStep(t) \/ Begin(t)
           \/ \E k \in Keys : ReaderStep(k) \/ Deliver(k)
           \/ Unload
           \/ EndStep

Spec == Init /\ [][Next]_vars

(* Threads that are in a call, log threads, and whoever runs the destructor *)
(* go on; the application need not call, nor the engine let go.             *)
FairSpec == /\ Spec
            /\ \A t \in Threads : WF_vars(fault = "none" /\ CallStep(t))
            /\ \A k \in Keys : WF_vars(fault = "none" /\ ReaderStep(k))
            /\ WF_vars(fault = "none" /\ EndStep)

-----------------------------------------------------------------------------
(* What a pool is used by exists: the log thread, which works on the        *)
(* registry by reference; the handles, which hold the pool of their job;    *)
(* and a held proxy is that of a handle not yet destroyed. No member of a   *)
(* pool is destroyed under its log thread.                                  *)
NothingDangles ==
    /\ \A k \in Keys : reader[k] # "off" => url[k] # None
    /\ \A t \in Threads : life[t] \in {"live", "orphan"} => url[key[t]] # None
    /\ \A k \in Keys : pin[k] # None =>
          /\ life[pin[k]] \in {"live", "orphan"}
          /\ key[pin[k]] = k
          /\ reader[k] \in {"running", "stopping"}

(* The temporary log that a job was submitted with stays: Condor writes to  *)
(* it, and its events are read from it, also after the adaptor has gone.    *)
LogsKept ==
    \A c \in Own, u \in Urls :
        submitted[c] = <<"temp", u>> => <<"rm", u>> \in temp /\ reader[<<"rm", u>>] # "off"

(* "Temporary files are deleted on program exit": once the adaptor is gone, *)
(* the pools without a registered job are gone with their files and log     *)
(* threads. The others are never freed: shared data and pool own each other.*)
OnlyJobsKeepPools ==
    adaptor = "gone" =>
        \A k \in Keys :
            /\ url[k] # None <=> \E c \in Clusters : jobs[k][c] # None
            /\ (reader[k] # "off" \/ k \in temp) => url[k] # None

(* No thread waits for itself: the log thread that destroys the last handle,*)
(* and the adaptor with it, does not come to the end of its own pool.       *)
NoSelfJoin == joining # None => joining # ender

(* There is one shared data for each job id, whichever pool it is in, unless*)
(* an iteration of find_job has missed a pool. The data of a cluster may be *)
(* there several times, under ids with different URLs.                      *)
OneDataPerId ==
    \/ missed
    \/ \A c \in Clusters, k, l \in Keys :
          jobs[k][c] # None /\ jobs[k][c] = jobs[l][c] => k = l

(* When the assertion of register_job ends the program, one of these has    *)
(* happened: the pool was made for another URL, so find_job did not ask it; *)
(* another thread registered the job since the constructor began; or the    *)
(* iteration of find_job was overlapped by an insertion and missed a pool.  *)
AbortExplained ==
    fault = "registered" =>
        \E t \in Threads :
            /\ pc[t] = "register" /\ jobs[key[t]][cl[t]] # None
            /\ \/ url[key[t]] # rm[t]
               \/ late[t]
               \/ missed

(* The id of a job leads back to it: each service that could have made the  *)
(* job accepts the id, and the search finds the pool. Not so for a service  *)
(* without a URL, as the default is never set: its ids cannot be parsed.    *)
IdsLeadBack ==
    \A t \in Threads, s \in Services :
        life[t] = "live" /\ cl[t] \in Own /\ ValidRm(s)
        /\ key[t] = <<"rm", Validated(s)>> =>
              /\ Accepts(s, JobId(rm[t], cl[t])) <=> s # EmptyUrl
              /\ key[t] \in Candidates(rm[t]) /\ jobs[key[t]][cl[t]] # None

(* Every call returns: no thread waits for ever for a registry, the lock of *)
(* the adaptor, or a log thread that is starting.                           *)
CallsReturn ==
    \A t \in Threads : pc[t] # "idle" ~> pc[t] = "idle" \/ fault # "none"

(* The destructor of the adaptor ends, whichever thread runs it: the log    *)
(* threads it waits for can always finish what they are doing.              *)
UnloadEnds == adaptor = "ending" ~> adaptor = "gone"

=============================================================================
