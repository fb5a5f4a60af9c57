---------------------------- MODULE AdaptorProofs ----------------------------
(***************************************************************************)
(* That Adaptor is type correct, destroys nothing that is in use, keeps the*)
(* logs of submitted jobs, joins no thread with itself, and leaves behind  *)
(* the pools of registered jobs and no others: for any number of threads,  *)
(* job services, clusters, logs and URLs.                                  *)
(***************************************************************************)
EXTENDS Adaptor, TLAPS

-----------------------------------------------------------------------------
(* The inductive invariant.                                                 *)

\* What a handle has at each step of its calls.
CallingOf(t) ==
    /\ life[t] = "none" => pc[t] = "idle" /\ key[t] = None /\ cl[t] = None
    /\ life[t] = "ctor" => pc[t] \notin {"idle", "submit"}
    /\ life[t] = "ctor" => rm[t] # None /\ Validated(rm[t]) = rm[t]
    /\ life[t] = "live" => pc[t] \in {"idle", "openlog", "init", "submit"}
    /\ life[t] = "live" /\ pc[t] # "idle" => cl[t] = None
    /\ life[t] = "orphan" => pc[t] = "idle"
    /\ life[t] # "none" /\ cl[t] = None =>
          key[t] \in RmKeys /\ (life[t] = "ctor" => pc[t] \in {"getpool", "reset"})
    /\ life[t] # "none" /\ key[t] = None => pc[t] \in {"scan", "lookup"}
    /\ cl[t] \in Own => submitted[cl[t]] # None

Calling == \A t \in Threads : CallingOf(t)

\* Who needs a pool has it, with its log thread if it needs that.
AttachedOf(t) ==
    /\ life[t] \in {"live", "orphan"} => url[key[t]] # None
    /\ life[t] \in {"live", "orphan"} /\ cl[t] # None => jobs[key[t]][cl[t]] # None
    /\ pc[t] \in {"openlog", "init", "register"} => url[key[t]] # None
    /\ pc[t] \in {"init", "submit"} => reader[key[t]] # "off"

Attached == \A t \in Threads : AttachedOf(t)

\* What there is of a pool.
PoolInvOf(k) ==
    /\ entry[k] = "set" => url[k] # None
    /\ url[k] # None => \/ entry[k] = "set"
                        \/ adaptor # "up" /\ \E c \in Clusters : jobs[k][c] # None
    /\ (\E c \in Clusters : jobs[k][c] # None) => url[k] # None
    /\ reader[k] # "off" => url[k] # None
    /\ k \in temp <=> NeedsTemp(k) /\ reader[k] # "off"
    /\ pin[k] # None => /\ life[pin[k]] \in {"live", "orphan"}
                        /\ key[pin[k]] = k
                        /\ cl[pin[k]] # None
                        /\ reader[k] \in {"running", "stopping"}

PoolInv == \A k \in Keys : PoolInvOf(k)

(* At the end there are no handles, and the pools that hold a job are out   *)
(* of reach of the destructor: that of a log thread which runs it is one.   *)
Ending ==
    /\ adaptor # "up" => ~engine /\ \A t \in Threads : life[t] = "none"
    /\ adaptor = "gone" => \A k \in Keys : entry[k] = "none"
    /\ joining # None => /\ adaptor = "ending"
                         /\ entry[joining] = "set"
                         /\ \A c \in Clusters : jobs[joining][c] = None
    /\ ender \in Keys => \E c \in Clusters : jobs[ender][c] # None

\* A job submitted with a temporary log is registered in the pool of that log.
Files ==
    \A c \in Own, u \in Urls :
        submitted[c] = <<"temp", u>> =>
            /\ jobs[<<"rm", u>>][c] # None
            /\ <<"rm", u>> \in temp

IInv == TypeOK /\ Calling /\ Attached /\ PoolInv /\ Ending /\ Files

-----------------------------------------------------------------------------
(* The sets of the module.                                                  *)

\* A URL that validate_rm has returned is returned as it is.
LEMMA ValidatedTwice ==
    ASSUME NEW s \in Services
    PROVE  Validated(Validated(s)) = Validated(s)
<1>1. s \in [scheme : STRING, host : STRING, port : Int]
  BY AdaptorAssumption
<1>2. CASE s = EmptyUrl
  BY <1>2 DEF Validated, DefaultRm
<1>3. CASE s # EmptyUrl /\ s.scheme = "condor" /\ s.host = ""
  <2> DEFINE v == [s EXCEPT !.host = "localhost"]
  <2>1. v.host = "localhost"
    BY <1>1
  <2>2. v # EmptyUrl
    BY <2>1 DEF EmptyUrl
  <2>3. Validated(s) = v
    BY <1>3 DEF Validated
  <2>4. Validated(v) = v
    BY <2>1, <2>2 DEF Validated
  <2> QED
    BY <2>3, <2>4
<1> QED
  BY <1>2, <1>3 DEF Validated

\* The id of a job has a host, so its URL is not touched either.
LEMMA ValidatedId ==
    ASSUME NEW s, NEW u, NEW c, Accepts(s, JobId(u, c))
    PROVE  Validated(u) = u
<1>1. u.host # ""
  BY DEF Accepts, Parses, JobId
<1>2. EmptyUrl.host = ""
  BY DEF EmptyUrl
<1> QED
  BY <1>1, <1>2 DEF Validated

\* What is in which set, and that None is in none of them.
LEMMA UrlSets ==
    /\ \A s \in Services : Validated(s) \in Urls /\ <<"rm", Validated(s)>> \in RmKeys
    /\ PickRms \subseteq Urls
    /\ RmKeys \subseteq Keys /\ LogKeys \subseteq Keys /\ NoXmlLog \in Keys
    /\ \A c \in Own : c \in Clusters
    /\ None \notin Keys /\ None \notin Urls /\ None \notin Clusters /\ None \notin Threads
    /\ Engine \notin Keys /\ \A t \in Threads : t \notin Keys
BY AdaptorAssumption DEF Urls, RmKeys, Keys, Clusters

\* The pool that a job from an id is put in.
LEMMA UserLogType ==
    ASSUME TypeOK, NEW c \in Clusters
    PROVE  UserLog(c) \in Keys \cup {None} /\ (Known(c) => UserLog(c) \in Keys)
<1>1. CASE c \in Own
  BY <1>1, UrlSets DEF TypeOK, UserLog, Known
<1>2. CASE c \notin Own /\ XmlLog[c] = None
  BY <1>2, UrlSets DEF UserLog
<1>3. CASE c \notin Own /\ XmlLog[c] # None
  <2>1. XmlLog[c] \in Logs
    BY <1>3, AdaptorAssumption DEF Clusters
  <2>2. <<"log", XmlLog[c]>> \in LogKeys
    BY <2>1 DEF LogKeys
  <2> QED
    BY <1>3, <2>2, UrlSets DEF UserLog
<1> QED
  BY <1>1, <1>2, <1>3

\* Every pool of a resource manager has a log.
LEMMA LogOfType ==
    ASSUME TypeOK, NEW k \in RmKeys
    PROVE  LogOf(k) \in LogKeys
<1>1. PICK u \in Urls : k = <<"rm", u>>
  BY DEF RmKeys
<1>2. <<"temp", u>> \in LogKeys /\ k[2] = u
  BY <1>1 DEF LogKeys
<1>3. condor_log # None => <<"log", condor_log>> \in LogKeys
  BY AdaptorAssumption DEF TypeOK, LogKeys
<1> QED
  BY <1>2, <1>3 DEF LogOf

\* What a registration changes.
LEMMA RegisteredFor ==
    ASSUME TypeOK, NEW k \in Keys, NEW c \in Clusters, NEW u \in Urls \cup {None},
           Registered(k, c, u)
    PROVE  /\ jobs' \in [Keys -> [Clusters -> Urls \cup {None}]]
           /\ \A l \in Keys, d \in Clusters :
                 jobs'[l][d] = IF l = k /\ d = c THEN u ELSE jobs[l][d]
<1>1. jobs' = [jobs EXCEPT ![k] = [jobs[k] EXCEPT ![c] = u]]
  BY DEF Registered
<1>2. jobs \in [Keys -> [Clusters -> Urls \cup {None}]]
  BY DEF TypeOK
<1>3. [jobs[k] EXCEPT ![c] = u] \in [Clusters -> Urls \cup {None}]
  BY <1>2
<1> QED
  BY <1>1, <1>2, <1>3

\* A pool whose log is temporary is the one the log is named after.
LEMMA LogOfTemp ==
    ASSUME NEW k \in RmKeys, NEW u \in Urls, LogOf(k) = <<"temp", u>>
    PROVE  k = <<"rm", u>> /\ NeedsTemp(k)
<1>1. PICK v \in Urls : k = <<"rm", v>>
  BY DEF RmKeys
<1>2. condor_log = None
  BY DEF LogOf
<1>3. <<"temp", v>> = <<"temp", u>>
  BY <1>1, <1>2 DEF LogOf
<1> QED
  BY <1>1, <1>2, <1>3 DEF NeedsTemp

\* Where a thread is once it has a pool, and once it has a log.
LEMMA AfterPoolShape ==
    ASSUME TypeOK, NEW t \in Threads, AfterPool(t)
    PROVE  /\ pc' \in [Threads -> Calls] /\ life' \in [Threads -> Lives]
           /\ \A s \in Threads : s # t => pc'[s] = pc[s] /\ life'[s] = life[s]
           /\ cl[t] = None => pc'[t] = "idle" /\ life'[t] = "live"
           /\ cl[t] # None => pc'[t] \in {"register", "openlog"} /\ life'[t] = life[t]
<1>1. pc \in [Threads -> Calls] /\ life \in [Threads -> Lives]
  BY DEF TypeOK
<1>2. CASE cl[t] = None
  BY <1>1, <1>2 DEF AfterPool, Built, Calls, Lives
<1>3. CASE cl[t] # None
  BY <1>1, <1>3 DEF AfterPool, Calls
<1> QED
  BY <1>2, <1>3

LEMMA AfterLogShape ==
    ASSUME TypeOK, NEW t \in Threads, AfterLog(t)
    PROVE  /\ pc' \in [Threads -> Calls]
           /\ \A s \in Threads : s # t => pc'[s] = pc[s]
           /\ pc'[t] = IF cl[t] = None THEN "submit" ELSE "register"
BY DEF AfterLog, TypeOK, Calls

\* A thread that is past get_pool has a pool.
LEMMA BusyKey ==
    ASSUME TypeOK, Calling, NEW t \in Threads,
           pc[t] \in {"getpool", "reset", "openlog", "init", "submit", "register"}
    PROVE  key[t] \in Keys /\ life[t] \in {"ctor", "live"}
<1>1. key[t] \in Keys \cup {None} /\ life[t] \in Lives
  BY DEF TypeOK
<1>2. CallingOf(t)
  BY DEF Calling
<1>3. life[t] # "none" /\ life[t] # "orphan"
  BY <1>2 DEF CallingOf
<1>4. key[t] # None
  BY <1>2, <1>3 DEF CallingOf
<1> QED
  BY <1>1, <1>3, <1>4 DEF Lives

-----------------------------------------------------------------------------
\* Every step keeps the types.
LEMMA TypeStep ==
    ASSUME TypeOK, Calling, Next \/ UNCHANGED vars
    PROVE  TypeOK'
<1>1. ASSUME NEW t \in Threads, NEW s \in Services, NewJob(t, s)
      PROVE  TypeOK'
  BY <1>1, UrlSets DEF TypeOK, NewJob, CanMake, map_vars, end_vars, pool_vars,
     find_vars, Calls, Lives, Readers, Faults
<1>2. ASSUME NEW t \in Threads, NEW s \in Services, NEW u \in PickRms,
             NEW c \in Clusters, GetJob(t, s, u, c)
      PROVE  TypeOK'
  BY <1>2, UrlSets DEF TypeOK, GetJob, CanMake, map_vars, end_vars, pool_vars,
     Calls, Lives, Readers, Faults
<1>3. ASSUME NEW t \in Threads, Scan(t)
      PROVE  TypeOK'
  <2>1. raced' \in [Threads -> BOOLEAN] /\ pc' \in [Threads -> Calls] /\ fault' \in Faults
    BY <1>3 DEF Scan, TypeOK, Calls, Lives, Readers, Faults
  <2>2. cand' \in [Threads -> SUBSET Keys]
    BY <1>3 DEF Scan, Candidates, TypeOK, Calls, Lives, Readers, Faults
  <2>3. missed' \in BOOLEAN
    BY <1>3 DEF Scan, TypeOK
  <2> QED
    BY <1>3, <2>1, <2>2, <2>3
    DEF TypeOK, Scan, map_vars, end_vars, pool_vars, job_vars
<1>4. ASSUME NEW t \in Threads, Lookup(t)
      PROVE  TypeOK'
  <2>1. PICK k \in Keys : IF jobs[k][cl[t]] # None
                             THEN /\ key' = [key EXCEPT ![t] = k]
                                  /\ cand' = [cand EXCEPT ![t] = {}]
                                  /\ Built(t)
                             ELSE /\ cand' = [cand EXCEPT ![t] = @ \ {k}]
                                  /\ UNCHANGED <<pc, life, key>>
    BY <1>4 DEF Lookup, TypeOK
  <2>2. /\ cand' \in [Threads -> SUBSET Keys] /\ key' \in [Threads -> Keys \cup {None}]
        /\ pc' \in [Threads -> Calls] /\ life' \in [Threads -> Lives]
    <3>1. CASE jobs[k][cl[t]] # None
      <4>1. key' = [key EXCEPT ![t] = k] /\ cand' = [cand EXCEPT ![t] = {}]
        BY <2>1, <3>1
      <4>2. /\ pc' = [pc EXCEPT ![t] = "idle"]
            /\ life' = [life EXCEPT ![t] = "live"]
        BY <2>1, <3>1 DEF Built
      <4>3. cand' \in [Threads -> SUBSET Keys] /\ key' \in [Threads -> Keys \cup {None}]
        BY <4>1 DEF TypeOK
      <4> QED
        BY <4>2, <4>3 DEF TypeOK, Calls, Lives
    <3>2. CASE jobs[k][cl[t]] = None
      <4>1. cand' = [cand EXCEPT ![t] = @ \ {k}] /\ UNCHANGED <<pc, life, key>>
        BY <2>1, <3>2
      <4>2. cand[t] \ {k} \in SUBSET Keys
        BY DEF TypeOK
      <4> QED
        BY <4>1, <4>2 DEF TypeOK
    <3> QED
      BY <3>1, <3>2
  <2> QED
    BY <1>4, <2>2 DEF TypeOK, Lookup, map_vars, end_vars, pool_vars
<1>5. ASSUME NEW t \in Threads, Query(t)
      PROVE  TypeOK'
  <2>1. /\ pc' \in [Threads -> Calls] /\ life' \in [Threads -> Lives]
        /\ key' \in [Threads -> Keys \cup {None}]
    <3>1. CASE Throw(t)
      BY <3>1 DEF Throw, Leave, TypeOK, Calls, Lives, Readers, Faults
    <3>2. CASE ~Throw(t)
      <4>1. cl[t] \in Clusters
        BY <1>5 DEF Query, Calling, CallingOf, TypeOK, Lives
      <4>2. UserLog(cl[t]) \in Keys \cup {None}
        BY <4>1, UserLogType
      <4>3. /\ key' = [key EXCEPT ![t] = UserLog(cl[t])]
            /\ pc' = [pc EXCEPT ![t] = "getpool"]
            /\ life' = life
        BY <1>5, <3>2 DEF Query
      <4> QED
        BY <4>2, <4>3 DEF TypeOK, Calls, Lives, Readers, Faults
    <3> QED
      BY <3>1, <3>2
  <2>2. /\ rm' \in [Threads -> Urls \cup {None}] /\ cl' \in [Threads -> Clusters \cup {None}]
        /\ adaptor' \in {"up", "ending", "gone"}
        /\ ender' \in Threads \cup Keys \cup {Engine, None}
        /\ UNCHANGED <<engine, joining>>
    BY <1>5 DEF Query, Throw, Leave, end_vars, TypeOK
  <2> QED
    BY <1>5, <2>1, <2>2 DEF TypeOK, Query, map_vars, pool_vars, find_vars
<1>6. ASSUME NEW t \in Threads, GetPool(t)
      PROVE  TypeOK'
  <2>1. key[t] \in Keys
    BY <1>6, BusyKey DEF GetPool
  <2>2. /\ entry' \in [Keys -> {"none", "null", "set"}]
        /\ adaptor_lock' \in Threads \cup {None}
    BY <1>6, <2>1 DEF GetPool, TypeOK
  <2>3. pc' \in [Threads -> Calls] /\ life' \in [Threads -> Lives]
    <3>1. CASE AfterPool(t)
      BY <3>1, AfterPoolShape
    <3>2. CASE pc' = [pc EXCEPT ![t] = "reset"] /\ UNCHANGED life
      BY <3>2 DEF TypeOK, Calls
    <3> QED
      BY <1>6, <3>1, <3>2 DEF GetPool
  <2>4. raced' \in [Threads -> BOOLEAN]
    <3>1. raced \in [Threads -> BOOLEAN]
      BY DEF TypeOK
    <3>2. raced' = raced \/ raced' = [s \in Threads |-> raced[s] \/ pc[s] = "scan"]
      BY <1>6 DEF GetPool
    <3> QED
      BY <3>1, <3>2
  <2> QED
    BY <1>6, <2>2, <2>3, <2>4 DEF TypeOK, GetPool, end_vars, pool_vars
<1>7. ASSUME NEW t \in Threads, MakePool(t)
      PROVE  TypeOK'
  <2>1. key[t] \in Keys /\ Validated(rm[t]) \in Urls
    <3>1. pc[t] = "reset" /\ CallingOf(t)
      BY <1>7 DEF MakePool, Calling
    <3>2. key[t] \in Keys /\ life[t] = "ctor"
      BY <3>1, BusyKey DEF CallingOf
    <3>3. rm[t] \in Urls /\ Validated(rm[t]) = rm[t]
      BY <3>1, <3>2 DEF CallingOf, TypeOK
    <3> QED
      BY <3>2, <3>3
  <2>2. entry' \in [Keys -> {"none", "null", "set"}] /\ url' \in [Keys -> Urls \cup {None}]
    BY <1>7, <2>1 DEF MakePool, TypeOK
  <2>3. pc' \in [Threads -> Calls] /\ life' \in [Threads -> Lives]
    BY <1>7, AfterPoolShape DEF MakePool
  <2> QED
    BY <1>7, <2>2, <2>3 DEF TypeOK, MakePool, end_vars, find_vars
<1>8. ASSUME NEW t \in Threads, OpenLog(t)
      PROVE  TypeOK'
  <2>1. key[t] \in Keys
    BY <1>8, BusyKey DEF OpenLog
  <2>2. reg_lock' \in [Keys -> Threads \cup {None}]
    <3>1. reg_lock' = reg_lock \/ reg_lock' = [reg_lock EXCEPT ![key[t]] = t]
      BY <1>8 DEF OpenLog
    <3> QED
      BY <2>1, <3>1 DEF TypeOK
  <2>4. reader' \in [Keys -> Readers] /\ fault' \in Faults
    <3>1. reader' = reader \/ reader' = [reader EXCEPT ![key[t]] = "starting"]
      BY <1>8 DEF OpenLog
    <3>2. fault' = fault \/ fault' = "temp"
      BY <1>8 DEF OpenLog
    <3>3. reader \in [Keys -> Readers] /\ "starting" \in Readers
      BY DEF TypeOK, Readers
    <3>4. reader' \in [Keys -> Readers]
      BY <3>1, <3>3
    <3>5. fault' \in Faults
      BY <3>2 DEF TypeOK, Faults
    <3> QED
      BY <3>4, <3>5
  <2>5. temp' \subseteq Keys
    <3>1. temp' \in {temp, temp \cup {key[t]}}
      BY <1>8 DEF OpenLog
    <3> QED
      BY <2>1, <3>1 DEF TypeOK
  <2>3. pc' \in [Threads -> Calls]
    <3>1. CASE AfterLog(t)
      BY <3>1, AfterLogShape
    <3>2. CASE pc' = [pc EXCEPT ![t] = "init"] \/ UNCHANGED pc
      BY <3>2 DEF TypeOK, Calls
    <3> QED
      BY <1>8, <3>1, <3>2 DEF OpenLog
  <2> QED
    BY <1>8, <2>2, <2>3, <2>4, <2>5 DEF TypeOK, OpenLog, map_vars, end_vars,
       job_vars, find_vars
<1>9. ASSUME NEW t \in Threads, LogInit(t)
      PROVE  TypeOK'
  <2>1. pc' \in [Threads -> Calls]
    BY <1>9, AfterLogShape DEF LogInit
  <2>2. reg_lock' \in [Keys -> Threads \cup {None}]
    BY <1>9 DEF LogInit, Freed, TypeOK
  <2> QED
    BY <1>9, <2>1, <2>2 DEF TypeOK, LogInit, map_vars, end_vars, job_vars,
       find_vars
<1>10. ASSUME NEW t \in Threads, Register(t)
      PROVE  TypeOK'
  <2>1. key[t] \in Keys /\ cl[t] \in Clusters /\ rm[t] \in Urls \cup {None}
    <3>1. pc[t] = "register" /\ CallingOf(t)
      BY <1>10 DEF Register, Calling
    <3>2. key[t] \in Keys /\ life[t] = "ctor"
      BY <3>1, BusyKey DEF CallingOf
    <3>3. cl[t] # None
      BY <3>1, <3>2 DEF CallingOf
    <3> QED
      BY <3>2, <3>3 DEF TypeOK
  <2>2. jobs' \in [Keys -> [Clusters -> Urls \cup {None}]]
    BY <1>10, <2>1, RegisteredFor DEF Register, TypeOK
  <2>3. /\ pc' \in [Threads -> Calls] /\ life' \in [Threads -> Lives]
        /\ fault' \in Faults
    BY <1>10 DEF Register, Built, TypeOK, Calls, Lives, Readers, Faults
  <2>4. late' \in [Threads -> BOOLEAN]
    BY <1>10 DEF Register, TypeOK
  <2> QED
    BY <1>10, <2>2, <2>3, <2>4 DEF TypeOK, Register, map_vars, end_vars
<1>11. ASSUME NEW t \in Threads, Run(t)
      PROVE  TypeOK'
  BY <1>11 DEF TypeOK, Run, map_vars, end_vars, pool_vars, job_vars,
     find_vars, Calls, Lives, Readers, Faults
<1>12. ASSUME NEW t \in Threads, Submit(t)
      PROVE  TypeOK'
  <2>1. key[t] \in RmKeys /\ key[t] \in Keys /\ url[key[t]] \in Urls \cup {None}
    BY <1>12, UrlSets DEF Submit, TypeOK, Calls, Lives, Readers, Faults,
       Calling, CallingOf
  <2>2. pc' \in [Threads -> Calls]
    BY <1>12 DEF Submit, TypeOK, Calls, Lives, Readers, Faults
  <2>3. ASSUME NEW c \in Own, submitted' = [submitted EXCEPT ![c] = LogOf(key[t])],
               Registered(key[t], c, url[key[t]]),
               cl' = [cl EXCEPT ![t] = c], rm' = [rm EXCEPT ![t] = url[key[t]]]
        PROVE  /\ submitted' \in [Own -> LogKeys \cup {None}]
               /\ jobs' \in [Keys -> [Clusters -> Urls \cup {None}]]
               /\ cl' \in [Threads -> Clusters \cup {None}]
               /\ rm' \in [Threads -> Urls \cup {None}]
    BY <2>1, <2>3, UrlSets, LogOfType, RegisteredFor DEF TypeOK
  <2>4. /\ submitted' \in [Own -> LogKeys \cup {None}]
        /\ jobs' \in [Keys -> [Clusters -> Urls \cup {None}]]
        /\ cl' \in [Threads -> Clusters \cup {None}]
        /\ rm' \in [Threads -> Urls \cup {None}]
    BY <1>12, <2>3 DEF Submit, TypeOK
  <2> QED
    BY <1>12, <2>2, <2>4 DEF TypeOK, Submit, map_vars, end_vars, find_vars
<1>13. ASSUME NEW t \in Threads, Drop(t)
      PROVE  TypeOK'
  <2>1. CASE life' = [life EXCEPT ![t] = "orphan"] /\ UNCHANGED <<key, rm, cl, adaptor, ender>>
    BY <1>13, <2>1 DEF TypeOK, Drop, map_vars, pool_vars, find_vars, Lives
  <2>2. CASE Leave(t, t)
    <3>1. /\ life' \in [Threads -> Lives] /\ key' \in [Threads -> Keys \cup {None}]
          /\ rm' \in [Threads -> Urls \cup {None}] /\ cl' \in [Threads -> Clusters \cup {None}]
      BY <2>2 DEF Leave, TypeOK, Lives
    <3>2. /\ adaptor' \in {"up", "ending", "gone"}
          /\ ender' \in Threads \cup Keys \cup {Engine, None}
      BY <2>2 DEF Leave, TypeOK
    <3> QED
      BY <1>13, <3>1, <3>2 DEF TypeOK, Drop, map_vars, pool_vars, find_vars
  <2> QED
    BY <1>13, <2>1, <2>2 DEF Drop
<1>14. ASSUME NEW k \in Keys, ReaderStart(k)
      PROVE  TypeOK'
  BY <1>14 DEF TypeOK, ReaderStart, map_vars, end_vars, job_vars, find_vars,
     Calls, Lives, Readers, Faults
<1>15. ASSUME NEW k \in Keys, Deliver(k)
      PROVE  TypeOK'
  BY <1>15 DEF TypeOK, Deliver, map_vars, end_vars, job_vars, find_vars,
     Calls, Lives, Readers, Faults
<1>16. ASSUME NEW k \in Keys, Unpin(k)
      PROVE  TypeOK'
  <2>1. pin' \in [Keys -> Threads \cup {None}] /\ pin[k] \in Threads
    BY <1>16, UrlSets DEF Unpin, TypeOK
  <2>2. /\ life' \in [Threads -> Lives] /\ key' \in [Threads -> Keys \cup {None}]
        /\ rm' \in [Threads -> Urls \cup {None}] /\ cl' \in [Threads -> Clusters \cup {None}]
        /\ adaptor' \in {"up", "ending", "gone"}
        /\ ender' \in Threads \cup Keys \cup {Engine, None}
    <3>1. CASE Leave(pin[k], k)
      BY <2>1, <3>1 DEF Leave, TypeOK, Lives
    <3>2. CASE UNCHANGED <<job_vars, adaptor, ender>>
      BY <3>2 DEF job_vars, TypeOK
    <3> QED
      BY <1>16, <3>1, <3>2 DEF Unpin
  <2> QED
    BY <1>16, <2>1, <2>2 DEF TypeOK, Unpin, map_vars, find_vars
<1>17. ASSUME NEW k \in Keys, ReaderEnd(k)
      PROVE  TypeOK'
  BY <1>17 DEF TypeOK, ReaderEnd, map_vars, end_vars, job_vars, find_vars,
     Calls, Lives, Readers, Faults
<1>18. CASE Unload
  BY <1>18 DEF TypeOK, Unload, map_vars, pool_vars, job_vars, find_vars,
     Calls, Lives, Readers, Faults
<1>19. ASSUME NEW k \in Keys, EndEntry(k)
      PROVE  TypeOK'
  BY <1>19 DEF TypeOK, EndEntry, Stopped, job_vars, find_vars, Calls, Lives,
     Readers, Faults
<1>20. ASSUME NEW k \in Keys, EndPool(k)
      PROVE  TypeOK'
  BY <1>20 DEF TypeOK, EndPool, Joined, job_vars, find_vars, Calls, Lives,
     Readers, Faults
<1>21. CASE EndAdaptor
  BY <1>21 DEF TypeOK, EndAdaptor, map_vars, pool_vars, job_vars, find_vars,
     Calls, Lives, Readers, Faults
<1>22. CASE UNCHANGED vars
  BY <1>22 DEF TypeOK, vars, map_vars, end_vars, pool_vars, job_vars, find_vars
<1> QED
  BY <1>1, <1>2, <1>3, <1>4, <1>5, <1>6, <1>7, <1>8, <1>9, <1>10, <1>11,
     <1>12, <1>13, <1>14, <1>15, <1>16, <1>17, <1>18, <1>19, <1>20, <1>21,
     <1>22
  DEF Next, CallStep, Begin, ReaderStep, EndStep

-----------------------------------------------------------------------------
(* What the longer steps come to.                                           *)

\* A handle that is destroyed takes nothing from the others.
LEMMA LeftHandle ==
    ASSUME TypeOK, NEW t \in Threads, NEW w, Leave(t, w)
    PROVE  /\ \A s \in Threads : s # t => /\ life'[s] = life[s] /\ key'[s] = key[s]
                                         /\ rm'[s] = rm[s] /\ cl'[s] = cl[s]
           /\ life'[t] = "none" /\ key'[t] = None /\ cl'[t] = None
BY DEF Leave, TypeOK

\* A lookup gives the handle its pool, or changes no handle.
LEMMA LookupOutcome ==
    ASSUME TypeOK, NEW t \in Threads, Lookup(t)
    PROVE  \/ \E k \in Keys : /\ jobs[k][cl[t]] # None
                             /\ key' = [key EXCEPT ![t] = k]
                             /\ pc' = [pc EXCEPT ![t] = "idle"]
                             /\ life' = [life EXCEPT ![t] = "live"]
           \/ UNCHANGED <<pc, life, key>>
BY DEF Lookup, Built, TypeOK

\* A miss goes on to the pool of the job's log, or ends the constructor.
LEMMA QueryOutcome ==
    ASSUME IInv, NEW t \in Threads, Query(t)
    PROVE  /\ UNCHANGED <<map_vars, pool_vars, submitted, engine, joining>>
           /\ life[t] = "ctor" /\ cl[t] # None
           /\ \/ /\ key' = [key EXCEPT ![t] = UserLog(cl[t])]
                 /\ UserLog(cl[t]) \in Keys
                 /\ pc' = [pc EXCEPT ![t] = "getpool"]
                 /\ UNCHANGED <<life, rm, cl, adaptor, ender>>
              \/ pc' = [pc EXCEPT ![t] = "idle"] /\ Leave(t, t)
<1>1. life[t] = "ctor" /\ cl[t] \in Clusters /\ cl[t] # None /\ Known(cl[t])
  BY DEF Query, IInv, Calling, CallingOf, TypeOK, Lives, Known
<1>2. UserLog(cl[t]) \in Keys
  BY <1>1, UserLogType DEF IInv
<1>3. CASE Throw(t)
  BY <1>1, <1>3 DEF Query, Throw, pool_vars, map_vars
<1>4. CASE ~Throw(t)
  BY <1>1, <1>2, <1>4 DEF Query, end_vars
<1> QED
  BY <1>3, <1>4

\* A submission registers a cluster that was not submitted before, or fails.
LEMMA SubmitOutcome ==
    ASSUME IInv, NEW t \in Threads, Submit(t)
    PROVE  /\ UNCHANGED <<map_vars, end_vars, url, reg_lock, reader, pin, temp, life, key>>
           /\ pc' = [pc EXCEPT ![t] = "idle"]
           /\ life[t] = "live" /\ cl[t] = None /\ key[t] \in RmKeys /\ key[t] \in Keys
           /\ reader[key[t]] # "off" /\ url[key[t]] \in Urls
           /\ \/ \E c \in Own : /\ submitted[c] = None
                                /\ submitted' = [submitted EXCEPT ![c] = LogOf(key[t])]
                                /\ LogOf(key[t]) # None
                                /\ cl' = [cl EXCEPT ![t] = c]
                                /\ \A l \in Keys, d \in Clusters :
                                      jobs'[l][d] = IF l = key[t] /\ d = c THEN url[key[t]]
                                                    ELSE jobs[l][d]
              \/ UNCHANGED <<submitted, jobs, cl>>
<1>1. /\ life[t] = "live" /\ cl[t] = None /\ key[t] \in RmKeys /\ key[t] \in Keys
      /\ reader[key[t]] # "off" /\ url[key[t]] \in Urls
  <2>1. life[t] = "live" /\ cl[t] = None /\ key[t] \in RmKeys
    BY DEF Submit, IInv, Calling, CallingOf, TypeOK, Lives
  <2>2. key[t] \in Keys /\ url[key[t]] # None /\ reader[key[t]] # "off"
    BY <2>1, UrlSets DEF Submit, IInv, Attached, AttachedOf
  <2> QED
    BY <2>1, <2>2 DEF IInv, TypeOK
<1>2. LogOf(key[t]) \in Keys /\ LogOf(key[t]) # None
  BY <1>1, LogOfType, UrlSets DEF IInv
<1>3. ASSUME NEW c \in Own, Registered(key[t], c, url[key[t]])
      PROVE  \A l \in Keys, d \in Clusters :
                jobs'[l][d] = IF l = key[t] /\ d = c THEN url[key[t]] ELSE jobs[l][d]
  BY <1>1, <1>3, RegisteredFor, UrlSets DEF IInv
<1> QED
  BY <1>1, <1>2, <1>3 DEF Submit, find_vars

\* A registration makes the handle usable, or ends the program.
LEMMA RegisterOutcome ==
    ASSUME IInv, NEW t \in Threads, Register(t)
    PROVE  /\ UNCHANGED <<map_vars, end_vars, url, reg_lock, reader, pin, temp,
                          key, rm, cl, submitted>>
           /\ life[t] = "ctor" /\ cl[t] # None /\ key[t] \in Keys /\ cl[t] \in Clusters
           /\ \/ /\ pc' = [pc EXCEPT ![t] = "idle"]
                 /\ life' = [life EXCEPT ![t] = "live"]
                 /\ rm[t] # None
                 /\ \A l \in Keys, d \in Clusters :
                       jobs'[l][d] = IF l = key[t] /\ d = cl[t] THEN rm[t] ELSE jobs[l][d]
              \/ UNCHANGED <<pc, life, jobs>>
<1>1. /\ life[t] = "ctor" /\ cl[t] # None /\ cl[t] \in Clusters
      /\ rm[t] \in Urls \cup {None} /\ rm[t] # None
  BY DEF Register, IInv, Calling, CallingOf, TypeOK, Lives
<1>2. key[t] \in Keys
  BY <1>1 DEF Register, IInv, Calling, CallingOf, TypeOK
<1>3. ASSUME Registered(key[t], cl[t], rm[t])
      PROVE  \A l \in Keys, d \in Clusters :
                jobs'[l][d] = IF l = key[t] /\ d = cl[t] THEN rm[t] ELSE jobs[l][d]
  BY <1>1, <1>2, <1>3, RegisteredFor DEF IInv
<1> QED
  BY <1>1, <1>2, <1>3 DEF Register, Built

-----------------------------------------------------------------------------
(* Every step keeps each part of the invariant.                             *)

\* A handle has what its next step needs.
LEMMA CallingStep ==
    ASSUME IInv, Next \/ UNCHANGED vars
    PROVE  Calling'
<1>1. ASSUME NEW t \in Threads, NEW s \in Services, NewJob(t, s)
      PROVE  Calling'
  BY <1>1, UrlSets, ValidatedTwice DEF IInv, Calling, CallingOf, NewJob,
     CanMake, map_vars, end_vars, pool_vars, find_vars, TypeOK
<1>2. ASSUME NEW t \in Threads, NEW s \in Services, NEW u \in PickRms,
             NEW c \in Clusters, GetJob(t, s, u, c)
      PROVE  Calling'
  BY <1>2, UrlSets, ValidatedId DEF IInv, Calling, CallingOf, GetJob, CanMake,
     map_vars, end_vars, pool_vars, TypeOK, Known
<1>3. ASSUME NEW t \in Threads, Scan(t)
      PROVE  Calling'
  BY <1>3 DEF IInv, Calling, CallingOf, Scan, Candidates, map_vars, end_vars,
     pool_vars, job_vars, TypeOK
<1>4. ASSUME NEW t \in Threads, Lookup(t)
      PROVE  Calling'
  <2> SUFFICES ASSUME NEW s \in Threads PROVE CallingOf(s)'
    BY DEF Calling
  <2>1. UNCHANGED <<rm, cl, submitted>>
    BY <1>4 DEF Lookup
  <2>2. CASE UNCHANGED <<pc, life, key>>
    BY <2>1, <2>2 DEF IInv, TypeOK, Calling, CallingOf
  <2>3. CASE \E k \in Keys : /\ key' = [key EXCEPT ![t] = k]
                           /\ pc' = [pc EXCEPT ![t] = "idle"]
                           /\ life' = [life EXCEPT ![t] = "live"]
    <3>1. pc[t] = "lookup" /\ cl[t] # None
      BY <1>4 DEF IInv, TypeOK, Calling, CallingOf, Lookup, Lives
    <3>2. CASE s = t
      BY <2>1, <2>3, <3>1, <3>2, UrlSets DEF IInv, TypeOK, Calling, CallingOf
    <3>3. CASE s # t
      BY <2>1, <2>3, <3>3 DEF IInv, TypeOK, Calling, CallingOf
    <3> QED
      BY <3>2, <3>3
  <2> QED
    BY <1>4, <2>2, <2>3, LookupOutcome DEF IInv
<1>5. ASSUME NEW t \in Threads, Query(t)
      PROVE  Calling'
  <2> SUFFICES ASSUME NEW s \in Threads PROVE CallingOf(s)'
    BY DEF Calling
  <2>1. CASE Leave(t, t) /\ pc' = [pc EXCEPT ![t] = "idle"]
    <3>1. submitted' = submitted
      BY <1>5 DEF Query
    <3>2. /\ s # t => /\ life'[s] = life[s] /\ key'[s] = key[s]
                      /\ rm'[s] = rm[s] /\ cl'[s] = cl[s]
          /\ life'[t] = "none" /\ key'[t] = None /\ cl'[t] = None
      BY <2>1, LeftHandle DEF IInv
    <3> QED
      BY <2>1, <3>1, <3>2, UrlSets DEF IInv, TypeOK, Calling, CallingOf
  <2>2. CASE /\ key' = [key EXCEPT ![t] = UserLog(cl[t])] /\ UserLog(cl[t]) \in Keys
             /\ pc' = [pc EXCEPT ![t] = "getpool"]
             /\ UNCHANGED <<life, rm, cl, adaptor, ender>>
    <3>1. submitted' = submitted /\ life[t] = "ctor" /\ cl[t] # None
      BY <1>5, QueryOutcome
    <3> QED
      BY <2>2, <3>1, UrlSets DEF IInv, TypeOK, Calling, CallingOf
  <2> QED
    BY <1>5, <2>1, <2>2, QueryOutcome
<1>6. ASSUME NEW t \in Threads, GetPool(t)
      PROVE  Calling'
  BY <1>6 DEF IInv, Calling, CallingOf, GetPool, AfterPool, Built, end_vars,
     pool_vars, TypeOK
<1>7. ASSUME NEW t \in Threads, MakePool(t)
      PROVE  Calling'
  <2> SUFFICES ASSUME NEW s \in Threads PROVE CallingOf(s)'
    BY DEF Calling
  <2>1. UNCHANGED <<rm, cl, key, submitted>> /\ pc[t] = "reset" /\ AfterPool(t)
    BY <1>7 DEF MakePool
  <2>2. CallingOf(s) /\ CallingOf(t) /\ TypeOK
    BY DEF IInv, Calling
  <2>3. life[t] = "ctor"
    BY <2>1, <2>2, BusyKey DEF IInv, CallingOf
  <2>4. CASE s # t
    BY <2>1, <2>2, <2>4, AfterPoolShape DEF CallingOf
  <2>5. CASE s = t /\ cl[t] = None
    BY <2>1, <2>2, <2>3, <2>5, AfterPoolShape, UrlSets DEF CallingOf
  <2>6. CASE s = t /\ cl[t] # None
    BY <2>1, <2>2, <2>3, <2>6, AfterPoolShape DEF CallingOf
  <2> QED
    BY <2>4, <2>5, <2>6
<1>8. ASSUME NEW t \in Threads, OpenLog(t)
      PROVE  Calling'
  BY <1>8 DEF IInv, Calling, CallingOf, OpenLog, AfterLog, map_vars, end_vars,
     job_vars, find_vars, TypeOK
<1>9. ASSUME NEW t \in Threads, LogInit(t)
      PROVE  Calling'
  BY <1>9 DEF IInv, Calling, CallingOf, LogInit, AfterLog, Freed, map_vars,
     end_vars, job_vars, find_vars, TypeOK
<1>10. ASSUME NEW t \in Threads, Register(t)
      PROVE  Calling'
  BY <1>10 DEF IInv, Calling, CallingOf, Register, Registered, Built,
     map_vars, end_vars, TypeOK
<1>11. ASSUME NEW t \in Threads, Run(t)
      PROVE  Calling'
  BY <1>11 DEF IInv, Calling, CallingOf, Run, map_vars, end_vars, pool_vars,
     job_vars, find_vars, TypeOK
<1>12. ASSUME NEW t \in Threads, Submit(t)
      PROVE  Calling'
  <2> SUFFICES ASSUME NEW s \in Threads PROVE CallingOf(s)'
    BY DEF Calling
  <2>1. \A d \in Own : submitted[d] # None => submitted'[d] # None
    BY <1>12, SubmitOutcome DEF IInv, TypeOK
  <2>2. /\ pc' = [pc EXCEPT ![t] = "idle"] /\ UNCHANGED <<life, key>>
        /\ life[t] = "live" /\ key[t] \in RmKeys /\ key[t] \in Keys
    BY <1>12, SubmitOutcome
  <2>3. CASE s = t
    BY <1>12, <2>1, <2>2, <2>3, SubmitOutcome, UrlSets DEF IInv, TypeOK,
       Calling, CallingOf
  <2>4. CASE s # t
    <3>1. cl'[s] = cl[s] /\ rm'[s] = rm[s]
      BY <1>12, <2>4 DEF Submit, IInv, TypeOK
    <3> QED
      BY <2>1, <2>2, <2>4, <3>1 DEF IInv, TypeOK, Calling, CallingOf
  <2> QED
    BY <2>3, <2>4
<1>13. ASSUME NEW t \in Threads, Drop(t)
      PROVE  Calling'
  <2> SUFFICES ASSUME NEW s \in Threads PROVE CallingOf(s)'
    BY DEF Calling
  <2>1. UNCHANGED <<pc, submitted>> /\ pc[t] = "idle" /\ life[t] = "live"
    BY <1>13 DEF Drop
  <2>2. CASE Leave(t, t)
    <3>1. /\ s # t => /\ life'[s] = life[s] /\ key'[s] = key[s]
                      /\ rm'[s] = rm[s] /\ cl'[s] = cl[s]
          /\ life'[t] = "none" /\ key'[t] = None /\ cl'[t] = None
      BY <2>2, LeftHandle DEF IInv
    <3> QED
      BY <2>1, <3>1, UrlSets DEF IInv, TypeOK, Calling, CallingOf
  <2>3. CASE life' = [life EXCEPT ![t] = "orphan"] /\ UNCHANGED <<key, rm, cl>>
    BY <2>1, <2>3 DEF IInv, TypeOK, Calling, CallingOf
  <2> QED
    BY <1>13, <2>2, <2>3 DEF Drop
<1>14. ASSUME NEW k \in Keys, ReaderStart(k)
      PROVE  Calling'
  BY <1>14 DEF IInv, Calling, CallingOf, ReaderStart, map_vars, end_vars,
     job_vars, find_vars, TypeOK
<1>15. ASSUME NEW k \in Keys, Deliver(k)
      PROVE  Calling'
  BY <1>15 DEF IInv, Calling, CallingOf, Deliver, map_vars, end_vars,
     job_vars, find_vars, TypeOK
<1>16. ASSUME NEW k \in Keys, Unpin(k)
      PROVE  Calling'
  <2> SUFFICES ASSUME NEW s \in Threads PROVE CallingOf(s)'
    BY DEF Calling
  <2>1. pin[k] \in Threads /\ UNCHANGED <<pc, submitted>>
    BY <1>16 DEF Unpin, IInv, TypeOK
  <2>2. CASE Leave(pin[k], k) /\ life[pin[k]] = "orphan"
    <3>1. /\ s # pin[k] => /\ life'[s] = life[s] /\ key'[s] = key[s]
                      /\ rm'[s] = rm[s] /\ cl'[s] = cl[s]
          /\ life'[pin[k]] = "none" /\ key'[pin[k]] = None /\ cl'[pin[k]] = None
      BY <2>1, <2>2, LeftHandle DEF IInv
    <3> QED
      BY <2>1, <2>2, <3>1, UrlSets DEF IInv, TypeOK, Calling, CallingOf
  <2>3. CASE UNCHANGED job_vars
    BY <2>1, <2>3 DEF IInv, TypeOK, Calling, CallingOf, job_vars
  <2> QED
    BY <1>16, <2>2, <2>3 DEF Unpin
<1>17. ASSUME NEW k \in Keys, ReaderEnd(k)
      PROVE  Calling'
  BY <1>17 DEF IInv, Calling, CallingOf, ReaderEnd, map_vars, end_vars,
     job_vars, find_vars, TypeOK
<1>18. CASE Unload
  BY <1>18 DEF IInv, Calling, CallingOf, Unload, map_vars, pool_vars,
     job_vars, find_vars, TypeOK
<1>19. ASSUME NEW k \in Keys, EndEntry(k)
      PROVE  Calling'
  BY <1>19 DEF IInv, Calling, CallingOf, EndEntry, Stopped, job_vars,
     find_vars, TypeOK
<1>20. ASSUME NEW k \in Keys, EndPool(k)
      PROVE  Calling'
  BY <1>20 DEF IInv, Calling, CallingOf, EndPool, Joined, job_vars, find_vars,
     TypeOK
<1>21. CASE EndAdaptor
  BY <1>21 DEF IInv, Calling, CallingOf, EndAdaptor, map_vars, pool_vars,
     job_vars, find_vars, TypeOK
<1>22. CASE UNCHANGED vars
  BY <1>22 DEF IInv, Calling, CallingOf, vars, map_vars, end_vars, pool_vars,
     job_vars, find_vars
<1> QED
  BY <1>1, <1>2, <1>3, <1>4, <1>5, <1>6, <1>7, <1>8, <1>9, <1>10, <1>11,
     <1>12, <1>13, <1>14, <1>15, <1>16, <1>17, <1>18, <1>19, <1>20, <1>21,
     <1>22
  DEF Next, CallStep, Begin, ReaderStep, EndStep

\* Who needs a pool keeps it.
LEMMA AttachedStep ==
    ASSUME IInv, Next \/ UNCHANGED vars
    PROVE  Attached'
<1>1. ASSUME NEW t \in Threads, NEW s \in Services, NewJob(t, s)
      PROVE  Attached'
  BY <1>1 DEF IInv, Attached, AttachedOf, NewJob, CanMake, map_vars, end_vars,
     pool_vars, find_vars, TypeOK, Calling, CallingOf
<1>2. ASSUME NEW t \in Threads, NEW s \in Services, NEW u \in PickRms,
             NEW c \in Clusters, GetJob(t, s, u, c)
      PROVE  Attached'
  BY <1>2 DEF IInv, Attached, AttachedOf, GetJob, CanMake, map_vars, end_vars,
     pool_vars, TypeOK, Calling, CallingOf
<1>3. ASSUME NEW t \in Threads, Scan(t)
      PROVE  Attached'
  BY <1>3 DEF IInv, Attached, AttachedOf, Scan, Candidates, map_vars,
     end_vars, pool_vars, job_vars, TypeOK, Calling, CallingOf
<1>4. ASSUME NEW t \in Threads, Lookup(t)
      PROVE  Attached'
  <2> SUFFICES ASSUME NEW s \in Threads PROVE AttachedOf(s)'
    BY DEF Attached
  <2>1. UNCHANGED <<url, jobs, reader, cl>> /\ cl[t] # None /\ cl[t] \in Clusters
    <3>1. UNCHANGED <<url, jobs, reader, cl>> /\ pc[t] = "lookup"
      BY <1>4 DEF Lookup, pool_vars
    <3>2. CallingOf(t) /\ life[t] \in Lives /\ cl[t] \in Clusters \cup {None}
      BY DEF IInv, Calling, TypeOK
    <3> QED
      BY <3>1, <3>2 DEF CallingOf, Lives
  <2>2. CASE UNCHANGED <<pc, life, key>>
    BY <2>1, <2>2 DEF IInv, TypeOK, Calling, CallingOf, Attached, AttachedOf
  <2>3. CASE \E k \in Keys : /\ jobs[k][cl[t]] # None
                           /\ key' = [key EXCEPT ![t] = k]
                           /\ pc' = [pc EXCEPT ![t] = "idle"]
                           /\ life' = [life EXCEPT ![t] = "live"]
    <3>1. PICK k \in Keys : /\ jobs[k][cl[t]] # None
                            /\ key' = [key EXCEPT ![t] = k]
                            /\ pc' = [pc EXCEPT ![t] = "idle"]
                            /\ life' = [life EXCEPT ![t] = "live"]
      BY <2>3
    <3>2. url[k] # None
      BY <2>1, <3>1 DEF IInv, PoolInv, PoolInvOf
    <3> QED
      BY <2>1, <3>1, <3>2 DEF IInv, TypeOK, Calling, CallingOf, Attached,
         AttachedOf
  <2> QED
    BY <1>4, <2>2, <2>3, LookupOutcome DEF IInv
<1>5. ASSUME NEW t \in Threads, Query(t)
      PROVE  Attached'
  <2> SUFFICES ASSUME NEW s \in Threads PROVE AttachedOf(s)'
    BY DEF Attached
  <2>1. UNCHANGED <<url, jobs, reader>> /\ pc[t] = "lookup" /\ AttachedOf(s)
    BY <1>5 DEF Query, pool_vars, IInv, Attached
  <2>2. life[t] = "ctor"
    BY <2>1 DEF IInv, TypeOK, Calling, CallingOf, Lives
  <2>3. CASE Leave(t, t) /\ pc' = [pc EXCEPT ![t] = "idle"]
    <3>1. /\ s # t => /\ life'[s] = life[s] /\ key'[s] = key[s] /\ cl'[s] = cl[s]
                      /\ pc'[s] = pc[s]
          /\ life'[t] = "none" /\ pc'[t] = "idle"
      BY <2>3, LeftHandle DEF IInv, TypeOK
    <3> QED
      BY <2>1, <3>1 DEF AttachedOf
  <2>4. CASE /\ key' = [key EXCEPT ![t] = UserLog(cl[t])]
             /\ pc' = [pc EXCEPT ![t] = "getpool"]
             /\ UNCHANGED <<life, cl>>
    <3>1. /\ s # t => key'[s] = key[s] /\ pc'[s] = pc[s]
          /\ pc'[t] = "getpool"
      BY <2>4 DEF IInv, TypeOK
    <3> QED
      BY <2>1, <2>2, <2>4, <3>1 DEF AttachedOf
  <2> QED
    BY <1>5, <2>3, <2>4, QueryOutcome
<1>6. ASSUME NEW t \in Threads, GetPool(t)
      PROVE  Attached'
  <2> SUFFICES ASSUME NEW s \in Threads PROVE AttachedOf(s)'
    BY DEF Attached
  <2>1. UNCHANGED <<url, jobs, reader, key, cl>> /\ key[t] \in Keys
    BY <1>6, BusyKey DEF IInv, GetPool, pool_vars
  <2>2. CASE entry[key[t]] = "set" /\ AfterPool(t)
    <3>1. url[key[t]] # None
      BY <2>1, <2>2 DEF IInv, PoolInv, PoolInvOf
    <3> QED
      BY <2>1, <2>2, <3>1 DEF IInv, TypeOK, Calling, CallingOf, Attached,
         AttachedOf, AfterPool, Built
  <2>3. CASE pc' = [pc EXCEPT ![t] = "reset"] /\ UNCHANGED life
    BY <2>1, <2>3 DEF IInv, TypeOK, Calling, CallingOf, Attached, AttachedOf
  <2> QED
    BY <1>6, <2>2, <2>3 DEF GetPool
<1>7. ASSUME NEW t \in Threads, MakePool(t)
      PROVE  Attached'
  <2> SUFFICES ASSUME NEW s \in Threads PROVE AttachedOf(s)'
    BY DEF Attached
  <2>1. /\ UNCHANGED <<jobs, reader, key, cl>> /\ key[t] \in Keys
        /\ url' = [url EXCEPT ![key[t]] = Validated(rm[t])]
    BY <1>7 DEF IInv, TypeOK, Calling, CallingOf, Attached, AttachedOf,
       MakePool
  <2>5. rm[t] \in Urls /\ Validated(rm[t]) = rm[t]
    BY <1>7 DEF IInv, TypeOK, Calling, CallingOf, Attached, AttachedOf,
       MakePool, Lives
  <2>6. url' = [url EXCEPT ![key[t]] = rm[t]] /\ rm[t] # None
    BY <2>1, <2>5, UrlSets
  <2>2. \A k \in Keys : url[k] # None => url'[k] # None
    BY <2>1, <2>6 DEF IInv, TypeOK
  <2>3. url'[key[t]] # None
    BY <2>1, <2>6 DEF IInv, TypeOK
  <2>4. AfterPool(t)
    BY <1>7 DEF MakePool
  <2>7. key[s] \in Keys \cup {None} /\ (key[s] = None => pc[s] \in {"idle", "scan", "lookup"})
    BY DEF IInv, TypeOK, Calling, CallingOf, Attached, AttachedOf, Lives
  <2>8. life[s] \in {"live", "orphan"} => key[s] # None
    BY DEF IInv, TypeOK, Calling, CallingOf, Attached, AttachedOf
  <2>9. s # t => pc'[s] = pc[s] /\ life'[s] = life[s]
    BY <2>4 DEF AfterPool, Built, IInv, TypeOK
  <2>10. CASE s = t
    BY <2>1, <2>2, <2>3, <2>4, <2>7, <2>10 DEF IInv, TypeOK, Calling,
       CallingOf, Attached, AttachedOf, AfterPool, Built
  <2>11. CASE s # t
    BY <2>1, <2>2, <2>7, <2>8, <2>9, <2>11 DEF IInv, Attached, AttachedOf
  <2> QED
    BY <2>10, <2>11
<1>8. ASSUME NEW t \in Threads, OpenLog(t)
      PROVE  Attached'
  <2> SUFFICES ASSUME NEW s \in Threads PROVE AttachedOf(s)'
    BY DEF Attached
  <2>1. UNCHANGED <<url, jobs, key, cl, life>> /\ pc[t] = "openlog"
    BY <1>8 DEF OpenLog, job_vars
  <2>2. key[t] \in Keys
    BY <2>1, BusyKey DEF IInv
  <2>3. \A k \in Keys : reader[k] # "off" => reader'[k] # "off"
    BY <1>8, <2>2 DEF OpenLog, IInv, TypeOK
  <2>4. /\ pc' \in [Threads -> Calls]
        /\ s # t => pc'[s] = pc[s]
        /\ pc'[t] \in {"init", "submit", "register", "openlog"}
        /\ pc'[t] \in {"init", "submit"} => reader'[key[t]] # "off"
    BY <1>8, <2>2, TypeStep DEF OpenLog, AfterLog, IInv, TypeOK
  <2>5. key[s] \in Keys \cup {None} /\ (pc[s] \in {"init", "submit"} => key[s] \in Keys)
    BY BusyKey DEF IInv, TypeOK
  <2> QED
    BY <2>1, <2>2, <2>3, <2>4, <2>5 DEF IInv, Attached, AttachedOf
<1>9. ASSUME NEW t \in Threads, LogInit(t)
      PROVE  Attached'
  BY <1>9 DEF IInv, Attached, AttachedOf, LogInit, AfterLog, Freed, map_vars,
     end_vars, job_vars, find_vars, TypeOK, Calling, CallingOf
<1>10. ASSUME NEW t \in Threads, Register(t)
      PROVE  Attached'
  <2> SUFFICES ASSUME NEW s \in Threads PROVE AttachedOf(s)'
    BY DEF Attached
  <2>1. /\ UNCHANGED <<url, reader, key, cl>>
        /\ life[t] = "ctor" /\ pc[t] = "register"
        /\ key[t] \in Keys /\ cl[t] \in Clusters
    BY <1>10, RegisterOutcome DEF Register
  <2>2. CASE UNCHANGED <<pc, life, jobs>>
    BY <2>1, <2>2 DEF IInv, Attached, AttachedOf
  <2>3. CASE /\ pc' = [pc EXCEPT ![t] = "idle"]
             /\ life' = [life EXCEPT ![t] = "live"]
             /\ rm[t] # None
             /\ \A l \in Keys, d \in Clusters :
                   jobs'[l][d] = IF l = key[t] /\ d = cl[t] THEN rm[t] ELSE jobs[l][d]
    <3>1. \A l \in Keys, d \in Clusters : jobs[l][d] # None => jobs'[l][d] # None
      BY <2>3
    <3>2. jobs'[key[t]][cl[t]] # None
      BY <2>1, <2>3
    <3>3. url[key[t]] # None
      BY <2>1 DEF IInv, Attached, AttachedOf
    <3>4. CASE s = t
      BY <2>1, <2>3, <3>2, <3>3, <3>4 DEF IInv, TypeOK, Calling, CallingOf,
         Attached, AttachedOf
    <3>5. CASE s # t
      <4>1. pc'[s] = pc[s] /\ life'[s] = life[s] /\ AttachedOf(s)
        BY <2>3, <3>5 DEF IInv, TypeOK, Calling, CallingOf, Attached,
           AttachedOf
      <4>2. cl[s] # None => cl[s] \in Clusters
        BY DEF IInv, TypeOK
      <4>3. life[s] \in {"live", "orphan"} => key[s] \in Keys
        BY UrlSets DEF IInv, TypeOK, Calling, CallingOf
      <4> QED
        BY <2>1, <3>1, <4>1, <4>2, <4>3 DEF AttachedOf
    <3> QED
      BY <3>4, <3>5
  <2> QED
    BY <1>10, <2>2, <2>3, RegisterOutcome
<1>11. ASSUME NEW t \in Threads, Run(t)
      PROVE  Attached'
  BY <1>11 DEF IInv, Attached, AttachedOf, Run, map_vars, end_vars, pool_vars,
     job_vars, find_vars, TypeOK, Calling, CallingOf
<1>12. ASSUME NEW t \in Threads, Submit(t)
      PROVE  Attached'
  <2> SUFFICES ASSUME NEW s \in Threads PROVE AttachedOf(s)'
    BY DEF Attached
  <2>1. /\ UNCHANGED <<url, reader, key, life>> /\ key[t] \in Keys
        /\ pc' = [pc EXCEPT ![t] = "idle"] /\ url[key[t]] # None
    BY <1>12, SubmitOutcome, UrlSets
  <2>2. CASE UNCHANGED <<submitted, jobs, cl>>
    BY <2>1, <2>2 DEF IInv, TypeOK, Calling, CallingOf, Attached, AttachedOf
  <2>3. CASE \E c \in Own : /\ cl' = [cl EXCEPT ![t] = c]
                          /\ \A l \in Keys, d \in Clusters :
                                jobs'[l][d] = IF l = key[t] /\ d = c THEN url[key[t]]
                                              ELSE jobs[l][d]
    <3>1. PICK c \in Own : /\ cl' = [cl EXCEPT ![t] = c]
                           /\ \A l \in Keys, d \in Clusters :
                                 jobs'[l][d] = IF l = key[t] /\ d = c THEN url[key[t]]
                                               ELSE jobs[l][d]
      BY <2>3
    <3>2. \A l \in Keys, d \in Clusters : jobs[l][d] # None => jobs'[l][d] # None
      BY <2>1, <3>1
    <3>3. jobs'[key[t]][c] # None
      BY <2>1, <3>1, UrlSets
    <3>4. CASE s = t
      <4>1. cl'[s] = c /\ pc'[s] = "idle" /\ AttachedOf(s)
        BY <2>1, <3>1, <3>4 DEF IInv, TypeOK, Calling, CallingOf, Attached,
           AttachedOf
      <4> QED
        BY <2>1, <3>3, <3>4, <4>1 DEF AttachedOf
    <3>5. CASE s # t
      <4>1. pc'[s] = pc[s] /\ cl'[s] = cl[s] /\ AttachedOf(s)
        BY <2>1, <3>1, <3>5 DEF IInv, TypeOK, Attached
      <4>2. cl[s] # None => cl[s] \in Clusters
        BY DEF IInv, TypeOK
      <4>3. life[s] \in {"live", "orphan"} => key[s] \in Keys
        BY UrlSets DEF IInv, TypeOK, Calling, CallingOf
      <4>4. cl[s] # None /\ life[s] \in {"live", "orphan"} =>
               jobs'[key[s]][cl[s]] # None
        BY <3>2, <4>1, <4>2, <4>3 DEF AttachedOf
      <4> QED
        BY <2>1, <4>1, <4>4 DEF AttachedOf
    <3> QED
      BY <3>4, <3>5
  <2> QED
    BY <1>12, <2>2, <2>3, SubmitOutcome
<1>13. ASSUME NEW t \in Threads, Drop(t)
      PROVE  Attached'
  <2> SUFFICES ASSUME NEW s \in Threads PROVE AttachedOf(s)'
    BY DEF Attached
  <2>1. /\ UNCHANGED <<url, jobs, reader, pc>> /\ pc[t] = "idle" /\ life[t] = "live"
        /\ AttachedOf(s)
    BY <1>13 DEF Drop, pool_vars, IInv, Attached
  <2>2. CASE life' = [life EXCEPT ![t] = "orphan"] /\ UNCHANGED <<key, cl>>
    BY <2>1, <2>2 DEF AttachedOf, IInv, TypeOK
  <2>3. CASE Leave(t, t)
    <3>1. /\ s # t => life'[s] = life[s] /\ key'[s] = key[s] /\ cl'[s] = cl[s]
          /\ life'[t] = "none"
      BY <2>3, LeftHandle DEF IInv
    <3> QED
      BY <2>1, <3>1 DEF AttachedOf
  <2> QED
    BY <1>13, <2>2, <2>3 DEF Drop
<1>14. ASSUME NEW k \in Keys, ReaderStart(k)
      PROVE  Attached'
  BY <1>14 DEF IInv, Attached, AttachedOf, ReaderStart, map_vars, end_vars,
     job_vars, find_vars, TypeOK, Calling, CallingOf
<1>15. ASSUME NEW k \in Keys, Deliver(k)
      PROVE  Attached'
  BY <1>15 DEF IInv, Attached, AttachedOf, Deliver, map_vars, end_vars,
     job_vars, find_vars, TypeOK, Calling, CallingOf
<1>16. ASSUME NEW k \in Keys, Unpin(k)
      PROVE  Attached'
  <2> SUFFICES ASSUME NEW s \in Threads PROVE AttachedOf(s)'
    BY DEF Attached
  <2>1. UNCHANGED <<url, jobs, reader, pc>> /\ AttachedOf(s) /\ pin[k] \in Threads
    BY <1>16 DEF Unpin, IInv, Attached, TypeOK
  <2>2. CASE UNCHANGED job_vars
    BY <2>1, <2>2 DEF AttachedOf, job_vars
  <2>3. CASE life[pin[k]] = "orphan" /\ Leave(pin[k], k)
    <3>1. /\ s # pin[k] => life'[s] = life[s] /\ key'[s] = key[s] /\ cl'[s] = cl[s]
          /\ life'[pin[k]] = "none"
      BY <2>1, <2>3, LeftHandle DEF IInv
    <3>2. pc[pin[k]] = "idle"
      BY <2>1, <2>3 DEF IInv, Calling, CallingOf
    <3> QED
      BY <2>1, <3>1, <3>2 DEF AttachedOf
  <2> QED
    BY <1>16, <2>2, <2>3 DEF Unpin
<1>17. ASSUME NEW k \in Keys, ReaderEnd(k)
      PROVE  Attached'
  BY <1>17 DEF IInv, Attached, AttachedOf, ReaderEnd, map_vars, end_vars,
     job_vars, find_vars, TypeOK, Calling, CallingOf
<1>18. CASE Unload
  BY <1>18 DEF IInv, Attached, AttachedOf, Unload, map_vars, pool_vars,
     job_vars, find_vars, TypeOK, Calling, CallingOf
<1>19. ASSUME NEW k \in Keys, EndEntry(k)
      PROVE  Attached'
  BY <1>19 DEF IInv, Attached, AttachedOf, EndEntry, Stopped, job_vars,
     find_vars, TypeOK, Calling, CallingOf
<1>20. ASSUME NEW k \in Keys, EndPool(k)
      PROVE  Attached'
  <2> SUFFICES ASSUME NEW s \in Threads PROVE AttachedOf(s)'
    BY DEF Attached
  <2>1. life[s] = "none" /\ pc[s] = "idle" /\ UNCHANGED <<life, pc>>
    BY <1>20, UrlSets DEF IInv, TypeOK, Calling, CallingOf, Attached,
       AttachedOf, EndPool, Ending, job_vars
  <2> QED
    BY <2>1 DEF AttachedOf
<1>21. CASE EndAdaptor
  BY <1>21 DEF IInv, Attached, AttachedOf, EndAdaptor, map_vars, pool_vars,
     job_vars, find_vars, TypeOK, Calling, CallingOf
<1>22. CASE UNCHANGED vars
  BY <1>22 DEF IInv, Attached, AttachedOf, vars, map_vars, end_vars,
     pool_vars, job_vars, find_vars
<1> QED
  BY <1>1, <1>2, <1>3, <1>4, <1>5, <1>6, <1>7, <1>8, <1>9, <1>10, <1>11,
     <1>12, <1>13, <1>14, <1>15, <1>16, <1>17, <1>18, <1>19, <1>20, <1>21,
     <1>22
  DEF Next, CallStep, Begin, ReaderStep, EndStep

\* What there is of a pool stays together.
LEMMA PoolStep ==
    ASSUME IInv, Next \/ UNCHANGED vars
    PROVE  PoolInv'
<1>1. ASSUME NEW t \in Threads, NEW s \in Services, NewJob(t, s)
      PROVE  PoolInv'
  BY <1>1 DEF IInv, PoolInv, PoolInvOf, NeedsTemp, NewJob, CanMake, map_vars,
     end_vars, pool_vars, find_vars, TypeOK, Calling, CallingOf, Attached,
     AttachedOf
<1>2. ASSUME NEW t \in Threads, NEW s \in Services, NEW u \in PickRms,
             NEW c \in Clusters, GetJob(t, s, u, c)
      PROVE  PoolInv'
  BY <1>2 DEF IInv, PoolInv, PoolInvOf, NeedsTemp, GetJob, CanMake, map_vars,
     end_vars, pool_vars, TypeOK, Calling, CallingOf, Attached, AttachedOf
<1>3. ASSUME NEW t \in Threads, Scan(t)
      PROVE  PoolInv'
  BY <1>3 DEF IInv, PoolInv, PoolInvOf, NeedsTemp, Scan, Candidates, map_vars,
     end_vars, pool_vars, job_vars, TypeOK, Calling, CallingOf, Attached,
     AttachedOf
<1>4. ASSUME NEW t \in Threads, Lookup(t)
      PROVE  PoolInv'
  BY <1>4 DEF IInv, PoolInv, PoolInvOf, NeedsTemp, Lookup, Built, map_vars,
     end_vars, pool_vars, TypeOK, Calling, CallingOf, Attached, AttachedOf
<1>5. ASSUME NEW t \in Threads, Query(t)
      PROVE  PoolInv'
  BY <1>5 DEF IInv, PoolInv, PoolInvOf, NeedsTemp, Query, Throw, Leave,
     map_vars, end_vars, pool_vars, find_vars, TypeOK, Calling, CallingOf,
     Attached, AttachedOf
<1>6. ASSUME NEW t \in Threads, GetPool(t)
      PROVE  PoolInv'
  BY <1>6 DEF IInv, PoolInv, PoolInvOf, NeedsTemp, GetPool, AfterPool, Built,
     end_vars, pool_vars, TypeOK, Calling, CallingOf, Attached, AttachedOf
<1>7. ASSUME NEW t \in Threads, MakePool(t)
      PROVE  PoolInv'
  <2> SUFFICES ASSUME NEW k \in Keys PROVE PoolInvOf(k)'
    BY DEF PoolInv
  <2>1. key[t] \in Keys /\ life[t] = "ctor" /\ rm[t] \in Urls
        /\ Validated(rm[t]) = rm[t]
    <3>1. pc[t] = "reset" /\ CallingOf(t)
      BY <1>7 DEF MakePool, IInv, Calling
    <3>2. key[t] \in Keys /\ life[t] = "ctor"
      BY <3>1, BusyKey DEF CallingOf, IInv
    <3> QED
      BY <3>1, <3>2 DEF CallingOf, IInv, TypeOK
  <2>2. /\ UNCHANGED <<jobs, reader, pin, temp, key, cl, condor_log, adaptor>>
        /\ url' = [url EXCEPT ![key[t]] = rm[t]] /\ rm[t] # None
        /\ entry' = [entry EXCEPT ![key[t]] = "set"]
    BY <1>7, <2>1, UrlSets DEF MakePool, end_vars
  <2>3. \A s \in Threads : life[s] \in {"live", "orphan"} => life'[s] = life[s]
    BY <1>7, <2>1 DEF MakePool, AfterPool, Built, IInv, TypeOK
  <2>4. CASE k = key[t]
    BY <2>1, <2>2, <2>3, <2>4 DEF IInv, TypeOK, PoolInv, PoolInvOf, NeedsTemp
  <2>5. CASE k # key[t]
    BY <2>1, <2>2, <2>3, <2>5 DEF IInv, TypeOK, PoolInv, PoolInvOf, NeedsTemp
  <2> QED
    BY <2>4, <2>5
<1>8. ASSUME NEW t \in Threads, OpenLog(t)
      PROVE  PoolInv'
  BY <1>8 DEF IInv, PoolInv, PoolInvOf, NeedsTemp, OpenLog, AfterLog,
     map_vars, end_vars, job_vars, find_vars, TypeOK, Calling, CallingOf,
     Attached, AttachedOf
<1>9. ASSUME NEW t \in Threads, LogInit(t)
      PROVE  PoolInv'
  BY <1>9 DEF IInv, PoolInv, PoolInvOf, NeedsTemp, LogInit, AfterLog, Freed,
     map_vars, end_vars, job_vars, find_vars, TypeOK, Calling, CallingOf,
     Attached, AttachedOf
<1>10. ASSUME NEW t \in Threads, Register(t)
      PROVE  PoolInv'
  <2> SUFFICES ASSUME NEW k \in Keys PROVE PoolInvOf(k)'
    BY DEF PoolInv
  <2>1. /\ UNCHANGED <<entry, url, reader, pin, temp, key, cl, condor_log, adaptor>>
        /\ life[t] = "ctor" /\ key[t] \in Keys /\ cl[t] \in Clusters
    BY <1>10, RegisterOutcome DEF map_vars, end_vars
  <2>2. CASE UNCHANGED <<pc, life, jobs>>
    BY <2>1, <2>2 DEF IInv, PoolInv, PoolInvOf, NeedsTemp
  <2>3. CASE /\ life' = [life EXCEPT ![t] = "live"]
             /\ rm[t] # None
             /\ \A l \in Keys, d \in Clusters :
                   jobs'[l][d] = IF l = key[t] /\ d = cl[t] THEN rm[t] ELSE jobs[l][d]
    <3>1. \A l \in Keys, d \in Clusters : jobs[l][d] # None => jobs'[l][d] # None
      BY <2>3
    <3>2. url[key[t]] # None
      BY <1>10 DEF Register, IInv, Attached, AttachedOf
    <3>3. (\E d \in Clusters : jobs'[k][d] # None) => url[k] # None
      BY <2>3, <3>2 DEF IInv, PoolInv, PoolInvOf
    <3>4. \A s \in Threads : life[s] \in {"live", "orphan"} => life'[s] = life[s]
      BY <2>1, <2>3 DEF IInv, TypeOK
    <3> QED
      BY <2>1, <3>1, <3>3, <3>4 DEF IInv, TypeOK, PoolInv, PoolInvOf, NeedsTemp
  <2> QED
    BY <1>10, <2>2, <2>3, RegisterOutcome
<1>11. ASSUME NEW t \in Threads, Run(t)
      PROVE  PoolInv'
  BY <1>11 DEF IInv, PoolInv, PoolInvOf, NeedsTemp, Run, map_vars, end_vars,
     pool_vars, job_vars, find_vars, TypeOK, Calling, CallingOf, Attached,
     AttachedOf
<1>12. ASSUME NEW t \in Threads, Submit(t)
      PROVE  PoolInv'
  <2> SUFFICES ASSUME NEW k \in Keys PROVE PoolInvOf(k)'
    BY DEF PoolInv
  <2>1. /\ UNCHANGED <<entry, url, reader, pin, temp, life, key, condor_log, adaptor>>
        /\ key[t] \in Keys /\ url[key[t]] \in Urls /\ cl[t] = None
    BY <1>12, SubmitOutcome DEF map_vars, end_vars
  <2>2. CASE UNCHANGED <<submitted, jobs, cl>>
    BY <2>1, <2>2 DEF IInv, PoolInv, PoolInvOf, NeedsTemp
  <2>3. CASE \E c \in Own : /\ cl' = [cl EXCEPT ![t] = c]
                          /\ \A l \in Keys, d \in Clusters :
                                jobs'[l][d] = IF l = key[t] /\ d = c THEN url[key[t]]
                                              ELSE jobs[l][d]
    <3>1. PICK c \in Own : /\ cl' = [cl EXCEPT ![t] = c]
                           /\ \A l \in Keys, d \in Clusters :
                                 jobs'[l][d] = IF l = key[t] /\ d = c THEN url[key[t]]
                                               ELSE jobs[l][d]
      BY <2>3
    <3>2. url[key[t]] # None
      BY <2>1, UrlSets
    <3>3. \A l \in Keys, d \in Clusters : jobs[l][d] # None => jobs'[l][d] # None
      BY <3>1, <3>2
    <3>4. (\E d \in Clusters : jobs'[k][d] # None) => url[k] # None
      BY <3>1, <3>2 DEF IInv, PoolInv, PoolInvOf
    <3>5. \A s \in Threads : cl[s] # None => cl'[s] = cl[s]
      BY <2>1, <3>1 DEF IInv, TypeOK
    <3> QED
      BY <2>1, <3>3, <3>4, <3>5 DEF IInv, TypeOK, PoolInv, PoolInvOf, NeedsTemp
  <2> QED
    BY <1>12, <2>2, <2>3, SubmitOutcome
<1>13. ASSUME NEW t \in Threads, Drop(t)
      PROVE  PoolInv'
  BY <1>13 DEF IInv, PoolInv, PoolInvOf, NeedsTemp, Drop, Leave, map_vars,
     pool_vars, find_vars, TypeOK, Calling, CallingOf, Attached, AttachedOf
<1>14. ASSUME NEW k \in Keys, ReaderStart(k)
      PROVE  PoolInv'
  BY <1>14 DEF IInv, PoolInv, PoolInvOf, NeedsTemp, ReaderStart, map_vars,
     end_vars, job_vars, find_vars, TypeOK, Calling, CallingOf, Attached,
     AttachedOf
<1>15. ASSUME NEW k \in Keys, Deliver(k)
      PROVE  PoolInv'
  BY <1>15 DEF IInv, PoolInv, PoolInvOf, NeedsTemp, Deliver, map_vars,
     end_vars, job_vars, find_vars, TypeOK, Calling, CallingOf, Attached,
     AttachedOf
<1>16. ASSUME NEW k \in Keys, Unpin(k)
      PROVE  PoolInv'
  BY <1>16 DEF IInv, PoolInv, PoolInvOf, NeedsTemp, Unpin, Leave, map_vars,
     job_vars, find_vars, TypeOK, Calling, CallingOf, Attached, AttachedOf
<1>17. ASSUME NEW k \in Keys, ReaderEnd(k)
      PROVE  PoolInv'
  BY <1>17 DEF IInv, PoolInv, PoolInvOf, NeedsTemp, ReaderEnd, map_vars,
     end_vars, job_vars, find_vars, TypeOK, Calling, CallingOf, Attached,
     AttachedOf
<1>18. CASE Unload
  BY <1>18 DEF IInv, PoolInv, PoolInvOf, NeedsTemp, Unload, map_vars,
     pool_vars, job_vars, find_vars, TypeOK, Calling, CallingOf, Attached,
     AttachedOf
<1>19. ASSUME NEW k \in Keys, EndEntry(k)
      PROVE  PoolInv'
  <2> SUFFICES ASSUME NEW l \in Keys PROVE PoolInvOf(l)'
    BY DEF PoolInv
  <2>1. /\ UNCHANGED <<url, jobs, pin, temp, life, key, cl, condor_log, adaptor>>
        /\ adaptor = "ending"
    BY <1>19 DEF EndEntry, job_vars
  <2>2. \A s \in Threads : life[s] = "none" /\ key[s] = None
    BY <2>1 DEF IInv, Ending, Calling, CallingOf
  <2>3. pin[l] = None
    <3>1. pin[l] \in Threads \cup {None}
      BY DEF IInv, TypeOK
    <3> QED
      BY <2>2, <3>1 DEF IInv, PoolInv, PoolInvOf
  <2>4. CASE Held(k)
    <3>1. \E c \in Clusters : jobs[k][c] # None
      BY <2>2, <2>4, UrlSets DEF Held
    <3>2. entry' = [entry EXCEPT ![k] = "none"] /\ reader' = reader
      BY <1>19, <2>4 DEF EndEntry
    <3> QED
      BY <2>1, <2>3, <3>1, <3>2 DEF IInv, TypeOK, PoolInv, PoolInvOf, NeedsTemp
  <2>5. CASE ~Held(k)
    <3>1. reader' = [reader EXCEPT ![k] = Stopped(@)] /\ entry' = entry
      BY <1>19, <2>5 DEF EndEntry
    <3>2. reader'[l] = "off" <=> reader[l] = "off"
      BY <3>1 DEF Stopped, IInv, TypeOK
    <3> QED
      BY <2>1, <2>3, <3>1, <3>2 DEF IInv, PoolInv, PoolInvOf, NeedsTemp
  <2> QED
    BY <2>4, <2>5
<1>20. ASSUME NEW k \in Keys, EndPool(k)
      PROVE  PoolInv'
  <2> SUFFICES ASSUME NEW l \in Keys PROVE PoolInvOf(l)'
    BY DEF PoolInv
  <2>1. /\ UNCHANGED <<jobs, pin, life, key, cl, condor_log, adaptor>>
        /\ joining = k /\ Joined(k)
        /\ entry' = [entry EXCEPT ![k] = "none"]
        /\ url' = [url EXCEPT ![k] = None]
        /\ reader' = [reader EXCEPT ![k] = IF @ = "ended" THEN "off" ELSE @]
        /\ temp' = temp \ {k}
    BY <1>20 DEF EndPool, job_vars
  <2>2. /\ adaptor = "ending" /\ \A s \in Threads : life[s] = "none"
        /\ \A c \in Clusters : jobs[k][c] = None
    BY <2>1, UrlSets DEF IInv, Ending
  <2>3. pin[l] = None
    <3>1. pin[l] \in Threads \cup {None}
      BY DEF IInv, TypeOK
    <3> QED
      BY <2>2, <3>1 DEF IInv, PoolInv, PoolInvOf
  <2>4. CASE l = k
    BY <2>1, <2>2, <2>3, <2>4 DEF IInv, TypeOK, PoolInv, PoolInvOf, NeedsTemp,
       Joined
  <2>5. CASE l # k
    BY <2>1, <2>3, <2>5 DEF IInv, TypeOK, PoolInv, PoolInvOf, NeedsTemp
  <2> QED
    BY <2>4, <2>5
<1>21. CASE EndAdaptor
  BY <1>21 DEF IInv, PoolInv, PoolInvOf, NeedsTemp, EndAdaptor, map_vars,
     pool_vars, job_vars, find_vars, TypeOK, Calling, CallingOf, Attached,
     AttachedOf
<1>22. CASE UNCHANGED vars
  BY <1>22 DEF IInv, PoolInv, PoolInvOf, NeedsTemp, vars, map_vars, end_vars,
     pool_vars, job_vars, find_vars
<1> QED
  BY <1>1, <1>2, <1>3, <1>4, <1>5, <1>6, <1>7, <1>8, <1>9, <1>10, <1>11,
     <1>12, <1>13, <1>14, <1>15, <1>16, <1>17, <1>18, <1>19, <1>20, <1>21,
     <1>22
  DEF Next, CallStep, Begin, ReaderStep, EndStep

\* A handle keeps the adaptor, and nobody's destructor waits.
LEMMA HandleKeepsAdaptor ==
    ASSUME IInv, NEW t \in Threads, life[t] # "none"
    PROVE  adaptor = "up" /\ joining = None
BY DEF IInv, Ending

\* The destructor of the adaptor starts after the last handle has gone.
LEMMA EndingStep ==
    ASSUME IInv, Next \/ UNCHANGED vars
    PROVE  Ending'
<1>1. ASSUME NEW t \in Threads, NEW s \in Services, NewJob(t, s)
      PROVE  Ending'
  BY <1>1 DEF IInv, Ending, PoolInv, PoolInvOf, NewJob, CanMake, map_vars,
     end_vars, pool_vars, find_vars, TypeOK, Calling, CallingOf, Attached,
     AttachedOf
<1>2. ASSUME NEW t \in Threads, NEW s \in Services, NEW u \in PickRms,
             NEW c \in Clusters, GetJob(t, s, u, c)
      PROVE  Ending'
  BY <1>2 DEF IInv, Ending, PoolInv, PoolInvOf, GetJob, CanMake, map_vars,
     end_vars, pool_vars, TypeOK, Calling, CallingOf, Attached, AttachedOf
<1>3. ASSUME NEW t \in Threads, Scan(t)
      PROVE  Ending'
  BY <1>3 DEF IInv, Ending, PoolInv, PoolInvOf, Scan, Candidates, map_vars,
     end_vars, pool_vars, job_vars, TypeOK, Calling, CallingOf, Attached,
     AttachedOf
<1>4. ASSUME NEW t \in Threads, Lookup(t)
      PROVE  Ending'
  BY <1>4 DEF IInv, Ending, PoolInv, PoolInvOf, Lookup, Built, map_vars,
     end_vars, pool_vars, TypeOK, Calling, CallingOf, Attached, AttachedOf
<1>5. ASSUME NEW t \in Threads, Query(t)
      PROVE  Ending'
  <2>1. adaptor = "up" /\ joining = None
    BY <1>5, QueryOutcome, HandleKeepsAdaptor
  <2>2. UNCHANGED <<entry, jobs, engine, joining>>
    BY <1>5, QueryOutcome DEF map_vars, pool_vars
  <2>3. CASE UNCHANGED <<life, adaptor, ender>>
    BY <2>1, <2>2, <2>3 DEF IInv, Ending
  <2>4. CASE Leave(t, t)
    <3>1. CASE UNCHANGED <<adaptor, ender>>
      BY <2>1, <2>2, <3>1 DEF IInv, Ending
    <3>2. CASE /\ adaptor' = "ending" /\ ender' = t /\ ~engine
               /\ \A s \in Threads \ {t} : life[s] = "none"
      <4>1. \A s \in Threads : life'[s] = "none"
        BY <2>4, <3>2, LeftHandle DEF IInv
      <4> QED
        BY <2>1, <2>2, <3>2, <4>1, UrlSets DEF Ending
    <3> QED
      BY <2>4, <3>1, <3>2 DEF Leave
  <2> QED
    BY <1>5, <2>3, <2>4, QueryOutcome
<1>6. ASSUME NEW t \in Threads, GetPool(t)
      PROVE  Ending'
  BY <1>6 DEF IInv, Ending, PoolInv, PoolInvOf, GetPool, AfterPool, Built,
     end_vars, pool_vars, TypeOK, Calling, CallingOf, Attached, AttachedOf
<1>7. ASSUME NEW t \in Threads, MakePool(t)
      PROVE  Ending'
  BY <1>7 DEF IInv, Ending, PoolInv, PoolInvOf, MakePool, AfterPool, Built,
     end_vars, find_vars, TypeOK, Calling, CallingOf, Attached, AttachedOf
<1>8. ASSUME NEW t \in Threads, OpenLog(t)
      PROVE  Ending'
  BY <1>8 DEF IInv, Ending, PoolInv, PoolInvOf, OpenLog, AfterLog, map_vars,
     end_vars, job_vars, find_vars, TypeOK, Calling, CallingOf, Attached,
     AttachedOf
<1>9. ASSUME NEW t \in Threads, LogInit(t)
      PROVE  Ending'
  BY <1>9 DEF IInv, Ending, PoolInv, PoolInvOf, LogInit, AfterLog, Freed,
     map_vars, end_vars, job_vars, find_vars, TypeOK, Calling, CallingOf,
     Attached, AttachedOf
<1>10. ASSUME NEW t \in Threads, Register(t)
      PROVE  Ending'
  <2>1. adaptor = "up" /\ joining = None /\ UNCHANGED end_vars
    BY <1>10, RegisterOutcome, HandleKeepsAdaptor
  <2>2. \A k \in Keys, d \in Clusters : jobs[k][d] # None => jobs'[k][d] # None
    BY <1>10, RegisterOutcome
  <2> QED
    BY <2>1, <2>2 DEF IInv, Ending, end_vars
<1>11. ASSUME NEW t \in Threads, Run(t)
      PROVE  Ending'
  BY <1>11 DEF IInv, Ending, PoolInv, PoolInvOf, Run, map_vars, end_vars,
     pool_vars, job_vars, find_vars, TypeOK, Calling, CallingOf, Attached,
     AttachedOf
<1>12. ASSUME NEW t \in Threads, Submit(t)
      PROVE  Ending'
  <2>1. adaptor = "up" /\ joining = None /\ UNCHANGED end_vars
    BY <1>12, SubmitOutcome, HandleKeepsAdaptor
  <2>2. \A k \in Keys, d \in Clusters : jobs[k][d] # None => jobs'[k][d] # None
    BY <1>12, SubmitOutcome, UrlSets
  <2> QED
    BY <2>1, <2>2 DEF IInv, Ending, end_vars
<1>13. ASSUME NEW t \in Threads, Drop(t)
      PROVE  Ending'
  <2>1. adaptor = "up" /\ joining = None /\ UNCHANGED <<entry, jobs, engine, joining>>
    BY <1>13, HandleKeepsAdaptor DEF Drop, map_vars, pool_vars
  <2>2. CASE UNCHANGED <<adaptor, ender>>
    BY <2>1, <2>2 DEF IInv, Ending
  <2>3. CASE Leave(t, t) /\ ~UNCHANGED <<adaptor, ender>>
    <3>1. /\ adaptor' = "ending" /\ ender' = t /\ ~engine
          /\ \A s \in Threads \ {t} : life[s] = "none"
      BY <2>3 DEF Leave
    <3>2. \A s \in Threads : life'[s] = "none"
      BY <2>3, <3>1, LeftHandle DEF IInv
    <3> QED
      BY <2>1, <3>1, <3>2, UrlSets DEF Ending
  <2> QED
    BY <1>13, <2>2, <2>3 DEF Drop
<1>14. ASSUME NEW k \in Keys, ReaderStart(k)
      PROVE  Ending'
  BY <1>14 DEF IInv, Ending, PoolInv, PoolInvOf, ReaderStart, map_vars,
     end_vars, job_vars, find_vars, TypeOK, Calling, CallingOf, Attached,
     AttachedOf
<1>15. ASSUME NEW k \in Keys, Deliver(k)
      PROVE  Ending'
  BY <1>15 DEF IInv, Ending, PoolInv, PoolInvOf, Deliver, map_vars, end_vars,
     job_vars, find_vars, TypeOK, Calling, CallingOf, Attached, AttachedOf
<1>16. ASSUME NEW k \in Keys, Unpin(k)
      PROVE  Ending'
  <2>1. /\ pin[k] \in Threads /\ life[pin[k]] \in {"live", "orphan"} /\ key[pin[k]] = k
        /\ cl[pin[k]] # None
    BY <1>16 DEF Unpin, IInv, PoolInv, PoolInvOf, TypeOK
  <2>2. jobs[k][cl[pin[k]]] # None /\ cl[pin[k]] \in Clusters
    BY <2>1 DEF IInv, Attached, AttachedOf, TypeOK
  <2>3. adaptor = "up" /\ joining = None /\ UNCHANGED <<entry, jobs, engine, joining>>
    BY <1>16, <2>1, HandleKeepsAdaptor DEF Unpin, map_vars
  <2>4. CASE UNCHANGED <<adaptor, ender>>
    BY <2>3, <2>4 DEF IInv, Ending
  <2>5. CASE Leave(pin[k], k) /\ ~UNCHANGED <<adaptor, ender>>
    <3>1. /\ adaptor' = "ending" /\ ender' = k /\ ~engine
          /\ \A s \in Threads \ {pin[k]} : life[s] = "none"
      BY <2>5 DEF Leave
    <3>2. \A s \in Threads : life'[s] = "none"
      BY <2>1, <2>5, <3>1, LeftHandle DEF IInv
    <3> QED
      BY <2>2, <2>3, <3>1, <3>2 DEF Ending
  <2> QED
    BY <1>16, <2>4, <2>5 DEF Unpin
<1>17. ASSUME NEW k \in Keys, ReaderEnd(k)
      PROVE  Ending'
  BY <1>17 DEF IInv, Ending, PoolInv, PoolInvOf, ReaderEnd, map_vars,
     end_vars, job_vars, find_vars, TypeOK, Calling, CallingOf, Attached,
     AttachedOf
<1>18. CASE Unload
  <2>1. adaptor = "up" /\ joining = None /\ engine' = FALSE
        /\ UNCHANGED <<entry, jobs, joining, life>>
    BY <1>18 DEF Unload, IInv, Ending, map_vars, pool_vars, job_vars
  <2>2. CASE \E t \in Threads : life[t] # "none"
    <3>1. UNCHANGED <<adaptor, ender>>
      BY <1>18, <2>2 DEF Unload
    <3> QED
      BY <2>1, <3>1 DEF IInv, Ending
  <2>3. CASE \A t \in Threads : life[t] = "none"
    <3>1. adaptor' = "ending" /\ ender' = Engine
      BY <1>18, <2>3 DEF Unload
    <3> QED
      BY <2>1, <2>3, <3>1, UrlSets DEF Ending
  <2> QED
    BY <2>2, <2>3
<1>19. ASSUME NEW k \in Keys, EndEntry(k)
      PROVE  Ending'
  <2>1. UNCHANGED <<engine, adaptor, ender, jobs, life>> /\ adaptor = "ending"
    BY <1>19 DEF EndEntry, job_vars
  <2>2. CASE Held(k)
    <3>1. joining' = None
      BY <1>19, <2>2 DEF EndEntry
    <3> QED
      BY <2>1, <3>1 DEF IInv, Ending
  <2>3. CASE ~Held(k)
    <3>1. joining' = k /\ entry[k] = "set" /\ entry' = entry
      BY <1>19, <2>3 DEF EndEntry
    <3>2. \A c \in Clusters : jobs[k][c] = None
      BY <2>3 DEF Held
    <3> QED
      BY <2>1, <3>1, <3>2 DEF IInv, Ending
  <2> QED
    BY <2>2, <2>3
<1>20. ASSUME NEW k \in Keys, EndPool(k)
      PROVE  Ending'
  <2>1. UNCHANGED <<engine, adaptor, ender, jobs, life>> /\ joining' = None
    BY <1>20 DEF EndPool, job_vars
  <2>2. adaptor = "ending"
    BY <1>20, UrlSets DEF EndPool, IInv, Ending
  <2> QED
    BY <2>1, <2>2 DEF IInv, Ending
<1>21. CASE EndAdaptor
  <2>1. /\ adaptor' = "gone" /\ ender' = None /\ adaptor = "ending" /\ joining = None
        /\ UNCHANGED <<entry, engine, joining, jobs, life>>
        /\ \A k \in Keys : entry[k] = "none"
    BY <1>21 DEF EndAdaptor, map_vars, pool_vars, job_vars
  <2> QED
    BY <2>1, UrlSets DEF IInv, Ending
<1>22. CASE UNCHANGED vars
  BY <1>22 DEF IInv, Ending, PoolInv, PoolInvOf, vars, map_vars, end_vars,
     pool_vars, job_vars, find_vars
<1> QED
  BY <1>1, <1>2, <1>3, <1>4, <1>5, <1>6, <1>7, <1>8, <1>9, <1>10, <1>11,
     <1>12, <1>13, <1>14, <1>15, <1>16, <1>17, <1>18, <1>19, <1>20, <1>21,
     <1>22
  DEF Next, CallStep, Begin, ReaderStep, EndStep

\* Temporary logs with jobs are not removed.
LEMMA FilesStep ==
    ASSUME IInv, Next \/ UNCHANGED vars
    PROVE  Files'
<1>1. ASSUME NEW t \in Threads, NEW s \in Services, NewJob(t, s)
      PROVE  Files'
  BY <1>1 DEF IInv, Files, PoolInv, PoolInvOf, NewJob, CanMake, map_vars,
     end_vars, pool_vars, find_vars, TypeOK, Calling, CallingOf, Attached,
     AttachedOf
<1>2. ASSUME NEW t \in Threads, NEW s \in Services, NEW u \in PickRms,
             NEW c \in Clusters, GetJob(t, s, u, c)
      PROVE  Files'
  BY <1>2 DEF IInv, Files, PoolInv, PoolInvOf, GetJob, CanMake, map_vars,
     end_vars, pool_vars, TypeOK, Calling, CallingOf, Attached, AttachedOf
<1>3. ASSUME NEW t \in Threads, Scan(t)
      PROVE  Files'
  BY <1>3 DEF IInv, Files, PoolInv, PoolInvOf, Scan, Candidates, map_vars,
     end_vars, pool_vars, job_vars, TypeOK, Calling, CallingOf, Attached,
     AttachedOf
<1>4. ASSUME NEW t \in Threads, Lookup(t)
      PROVE  Files'
  BY <1>4 DEF IInv, Files, PoolInv, PoolInvOf, Lookup, Built, map_vars,
     end_vars, pool_vars, TypeOK, Calling, CallingOf, Attached, AttachedOf
<1>5. ASSUME NEW t \in Threads, Query(t)
      PROVE  Files'
  BY <1>5 DEF IInv, Files, PoolInv, PoolInvOf, Query, Throw, Leave, map_vars,
     end_vars, pool_vars, find_vars, TypeOK, Calling, CallingOf, Attached,
     AttachedOf
<1>6. ASSUME NEW t \in Threads, GetPool(t)
      PROVE  Files'
  BY <1>6 DEF IInv, Files, PoolInv, PoolInvOf, GetPool, AfterPool, Built,
     end_vars, pool_vars, TypeOK, Calling, CallingOf, Attached, AttachedOf
<1>7. ASSUME NEW t \in Threads, MakePool(t)
      PROVE  Files'
  BY <1>7 DEF IInv, Files, PoolInv, PoolInvOf, MakePool, AfterPool, Built,
     end_vars, find_vars, TypeOK, Calling, CallingOf, Attached, AttachedOf
<1>8. ASSUME NEW t \in Threads, OpenLog(t)
      PROVE  Files'
  BY <1>8 DEF IInv, Files, PoolInv, PoolInvOf, OpenLog, AfterLog, map_vars,
     end_vars, job_vars, find_vars, TypeOK, Calling, CallingOf, Attached,
     AttachedOf
<1>9. ASSUME NEW t \in Threads, LogInit(t)
      PROVE  Files'
  BY <1>9 DEF IInv, Files, PoolInv, PoolInvOf, LogInit, AfterLog, Freed,
     map_vars, end_vars, job_vars, find_vars, TypeOK, Calling, CallingOf,
     Attached, AttachedOf
<1>10. ASSUME NEW t \in Threads, Register(t)
      PROVE  Files'
  <2>1. \A k \in Keys, d \in Clusters : jobs[k][d] # None => jobs'[k][d] # None
    BY <1>10, RegisterOutcome
  <2>2. UNCHANGED <<submitted, temp>>
    BY <1>10, RegisterOutcome
  <2>3. \A c \in Own, u \in Urls : c \in Clusters /\ <<"rm", u>> \in Keys
    BY UrlSets DEF RmKeys
  <2> QED
    BY <2>1, <2>2, <2>3 DEF IInv, Files
<1>11. ASSUME NEW t \in Threads, Run(t)
      PROVE  Files'
  BY <1>11 DEF IInv, Files, PoolInv, PoolInvOf, Run, map_vars, end_vars,
     pool_vars, job_vars, find_vars, TypeOK, Calling, CallingOf, Attached,
     AttachedOf
<1>12. ASSUME NEW t \in Threads, Submit(t)
      PROVE  Files'
  <2>1. \A k \in Keys, d \in Clusters : jobs[k][d] # None => jobs'[k][d] # None
    BY <1>12, SubmitOutcome, UrlSets
  <2>2. /\ UNCHANGED temp /\ key[t] \in RmKeys /\ key[t] \in Keys
        /\ url[key[t]] # None /\ reader[key[t]] # "off"
    BY <1>12, SubmitOutcome, UrlSets
  <2>3. \A c \in Own, u \in Urls : c \in Clusters /\ <<"rm", u>> \in Keys
    BY UrlSets DEF RmKeys
  <2>4. CASE UNCHANGED <<submitted, jobs, cl>>
    BY <2>2, <2>4 DEF IInv, Files
  <2>5. ASSUME NEW c \in Own, submitted' = [submitted EXCEPT ![c] = LogOf(key[t])],
               jobs'[key[t]][c] = url[key[t]]
        PROVE  Files'
    <3> SUFFICES ASSUME NEW d \in Own, NEW u \in Urls, submitted'[d] = <<"temp", u>>
                 PROVE  jobs'[<<"rm", u>>][d] # None /\ <<"rm", u>> \in temp'
      BY DEF Files
    <3>1. CASE d = c
      <4>1. LogOf(key[t]) = <<"temp", u>>
        BY <2>5, <3>1 DEF IInv, TypeOK
      <4>2. key[t] = <<"rm", u>> /\ NeedsTemp(key[t])
        BY <2>2, <4>1, LogOfTemp
      <4>3. key[t] \in temp
        BY <2>2, <4>2 DEF IInv, PoolInv, PoolInvOf
      <4> QED
        BY <2>2, <2>5, <3>1, <4>2, <4>3
    <3>2. CASE d # c
      <4>1. submitted[d] = <<"temp", u>>
        BY <2>5, <3>2 DEF IInv, TypeOK
      <4> QED
        BY <2>1, <2>2, <2>3, <4>1 DEF IInv, Files
    <3> QED
      BY <3>1, <3>2
  <2> QED
    BY <1>12, <2>2, <2>3, <2>4, <2>5, SubmitOutcome
<1>13. ASSUME NEW t \in Threads, Drop(t)
      PROVE  Files'
  BY <1>13 DEF IInv, Files, PoolInv, PoolInvOf, Drop, Leave, map_vars,
     pool_vars, find_vars, TypeOK, Calling, CallingOf, Attached, AttachedOf
<1>14. ASSUME NEW k \in Keys, ReaderStart(k)
      PROVE  Files'
  BY <1>14 DEF IInv, Files, PoolInv, PoolInvOf, ReaderStart, map_vars,
     end_vars, job_vars, find_vars, TypeOK, Calling, CallingOf, Attached,
     AttachedOf
<1>15. ASSUME NEW k \in Keys, Deliver(k)
      PROVE  Files'
  BY <1>15 DEF IInv, Files, PoolInv, PoolInvOf, Deliver, map_vars, end_vars,
     job_vars, find_vars, TypeOK, Calling, CallingOf, Attached, AttachedOf
<1>16. ASSUME NEW k \in Keys, Unpin(k)
      PROVE  Files'
  BY <1>16 DEF IInv, Files, PoolInv, PoolInvOf, Unpin, Leave, map_vars,
     job_vars, find_vars, TypeOK, Calling, CallingOf, Attached, AttachedOf
<1>17. ASSUME NEW k \in Keys, ReaderEnd(k)
      PROVE  Files'
  BY <1>17 DEF IInv, Files, PoolInv, PoolInvOf, ReaderEnd, map_vars, end_vars,
     job_vars, find_vars, TypeOK, Calling, CallingOf, Attached, AttachedOf
<1>18. CASE Unload
  BY <1>18 DEF IInv, Files, PoolInv, PoolInvOf, Unload, map_vars, pool_vars,
     job_vars, find_vars, TypeOK, Calling, CallingOf, Attached, AttachedOf
<1>19. ASSUME NEW k \in Keys, EndEntry(k)
      PROVE  Files'
  BY <1>19 DEF IInv, Files, PoolInv, PoolInvOf, EndEntry, Stopped, job_vars,
     find_vars, TypeOK, Calling, CallingOf, Attached, AttachedOf
<1>20. ASSUME NEW k \in Keys, EndPool(k)
      PROVE  Files'
  <2>1. UNCHANGED <<jobs, submitted>> /\ temp' = temp \ {k} /\ joining = k
    BY <1>20 DEF EndPool
  <2>2. \A c \in Clusters : jobs[k][c] = None
    BY <2>1, UrlSets DEF IInv, Ending
  <2>3. \A c \in Own : c \in Clusters
    BY UrlSets
  <2> QED
    BY <2>1, <2>2, <2>3 DEF IInv, Files
<1>21. CASE EndAdaptor
  BY <1>21 DEF IInv, Files, PoolInv, PoolInvOf, EndAdaptor, map_vars,
     pool_vars, job_vars, find_vars, TypeOK, Calling, CallingOf, Attached,
     AttachedOf
<1>22. CASE UNCHANGED vars
  BY <1>22 DEF IInv, Files, PoolInv, PoolInvOf, vars, map_vars, end_vars,
     pool_vars, job_vars, find_vars
<1> QED
  BY <1>1, <1>2, <1>3, <1>4, <1>5, <1>6, <1>7, <1>8, <1>9, <1>10, <1>11,
     <1>12, <1>13, <1>14, <1>15, <1>16, <1>17, <1>18, <1>19, <1>20, <1>21,
     <1>22
  DEF Next, CallStep, Begin, ReaderStep, EndStep

-----------------------------------------------------------------------------
\* It holds at the start.
LEMMA Initially ==
    Init => IInv
<1> SUFFICES ASSUME Init
             PROVE  IInv
  OBVIOUS
<1>1. TypeOK
  BY UrlSets DEF Init, TypeOK, Readers, Calls, Lives, Faults
<1>2. Calling
  BY UrlSets DEF Init, Calling, CallingOf
<1>3. Attached
  BY DEF Init, Attached, AttachedOf
<1>4. PoolInv
  BY DEF Init, PoolInv, PoolInvOf
<1>5. Ending
  BY UrlSets DEF Init, Ending
<1>6. Files
  <2>1. \A u \in Urls : <<"temp", u>> # None
    BY UrlSets DEF LogKeys
  <2> QED
    BY <2>1 DEF Init, Files
<1> QED
  BY <1>1, <1>2, <1>3, <1>4, <1>5, <1>6 DEF IInv

\* Every step keeps it.
LEMMA Inductive ==
    IInv /\ [Next]_vars => IInv'
<1> SUFFICES ASSUME IInv, Next \/ UNCHANGED vars
             PROVE  IInv'
  OBVIOUS
<1>1. TypeOK /\ Calling
  BY DEF IInv
<1>2. TypeOK'
  BY <1>1, TypeStep
<1> QED
  BY <1>2, CallingStep, AttachedStep, PoolStep, EndingStep, FilesStep DEF IInv

\* So it always holds.
LEMMA Invariance ==
    Spec => []IInv
BY Initially, Inductive, PTL DEF Spec

(* Every variable keeps its type: handles, pools and log threads only ever  *)
(* go through the states their code has.                                    *)
THEOREM TypeCorrect ==
    Spec => []TypeOK
<1>1. IInv => TypeOK
  BY DEF IInv
<1> QED
  BY <1>1, Invariance, PTL

(* Pools outlive the log threads and the handles that use them, and a proxy *)
(* held by a log thread is one of a handle that exists, of its own pool.    *)
THEOREM UsedPoolsExist ==
    Spec => []NothingDangles
<1>1. IInv => NothingDangles
  BY DEF IInv, NothingDangles, PoolInv, PoolInvOf, Attached, AttachedOf
<1> QED
  BY <1>1, Invariance, PTL

(* The file and the log thread of a temporary log stay as long as a job has *)
(* been submitted with it, through every way the adaptor can end.           *)
THEOREM TemporaryLogsKept ==
    Spec => []LogsKept
<1>1. ASSUME IInv
      PROVE  LogsKept
  <2>1. \A u \in Urls : <<"rm", u>> \in Keys
    BY UrlSets DEF RmKeys
  <2> QED
    BY <1>1, <2>1 DEF IInv, LogsKept, Files, PoolInv, PoolInvOf
<1> QED
  BY <1>1, Invariance, PTL

(* What the destructor of the adaptor leaves behind are the pools with a    *)
(* registered job: they and their registries own each other.                *)
THEOREM JobsKeepPools ==
    Spec => []OnlyJobsKeepPools
<1>1. ASSUME IInv
      PROVE  OnlyJobsKeepPools
  BY <1>1 DEF IInv, OnlyJobsKeepPools, Ending, PoolInv, PoolInvOf
<1> QED
  BY <1>1, Invariance, PTL

(* A log thread that destroys the last handle runs the destructor of the    *)
(* adaptor, and never joins itself there: its pool has a registered job.    *)
THEOREM NoThreadJoinsItself ==
    Spec => []NoSelfJoin
<1>1. ASSUME IInv
      PROVE  NoSelfJoin
  BY <1>1 DEF IInv, NoSelfJoin, Ending, TypeOK
<1> QED
  BY <1>1, Invariance, PTL

=============================================================================
