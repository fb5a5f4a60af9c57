-------------------------- MODULE AdaptorIdsProofs --------------------------
(***************************************************************************)
(* That the search of Adaptor for the data of a job id is right: there is  *)
(* one shared data for each id, the id of a job leads back to it, and when *)
(* a registration aborts the program, there is a reason outside the search.*)
(***************************************************************************)
EXTENDS AdaptorProofs

-----------------------------------------------------------------------------
(* The second inductive invariant, on top of IInv.                          *)

(* A new job is in the pool of its resource manager, a job from an id in the*)
(* pool of its log, and the entry of a pool is made by one thread.          *)
NamedOf(t) ==
    /\ life[t] # "none" /\ cl[t] = None => key[t] = <<"rm", rm[t]>>
    /\ life[t] = "ctor" /\ cl[t] # None /\ pc[t] \notin {"scan", "lookup"} =>
          key[t] = UserLog(cl[t])
    /\ life[t] \in {"live", "orphan"} /\ key[t] \in RmKeys => rm[t] = url[key[t]]
    /\ pc[t] = "reset" => adaptor_lock = t /\ entry[key[t]] = "null"

Named == \A t \in Threads : NamedOf(t)

\* The pool of a resource manager has the URL it is named after.
UrlsKept == \A k \in RmKeys : url[k] # None => k = <<"rm", url[k]>>

(* A pool of a resource manager has jobs submitted here, each in one of     *)
(* them and under its URL; the others have the jobs of their log.           *)
JobOf(k, c) ==
    jobs[k][c] # None =>
        /\ k \in RmKeys => c \in Own /\ jobs[k][c] = url[k]
        /\ k \notin RmKeys => k = UserLog(c)
        /\ c \in Own => submitted[c] # None

Jobs == /\ \A k \in Keys, c \in Clusters : JobOf(k, c)
        /\ \A k, l \in RmKeys, c \in Clusters :
              jobs[k][c] # None /\ jobs[l][c] # None => k = l

(* A search that has gone on from a pool has not found the job in it, unless*)
(* the job has come there since, or a pool was missed.                      *)
SearchOf(t) ==
    /\ life[t] = "ctor" /\ pc[t] # "scan" /\ cl[t] # None /\ ~missed =>
          \A k \in Keys :
              /\ jobs[k][cl[t]] # None /\ url[k] = rm[t]
              /\ k \in RmKeys \/ ~late[t]
              => pc[t] = "lookup" /\ k \in cand[t]
    /\ pc[t] = "lookup" => \A k \in cand[t] \cap RmKeys : url[k] = rm[t]

Search == \A t \in Threads : SearchOf(t)

IdsInv == Named /\ UrlsKept /\ Jobs /\ Search /\ OneDataPerId /\ AbortExplained

-----------------------------------------------------------------------------
\* The two kinds of keys are apart: the pools of jobs from ids are of logs.
LEMMA KeyKinds ==
    /\ \A k \in LogKeys : k \notin RmKeys
    /\ NoXmlLog \notin RmKeys
    /\ \A u, v : <<"rm", u>> = <<"rm", v>> => u = v
<1>1. \A k \in LogKeys : k \notin RmKeys
  BY DEF LogKeys, RmKeys
<1>2. NoXmlLog \notin RmKeys
  <2>1. NoXmlLog[1] # "rm"
    BY DEF NoXmlLog
  <2>2. \A u : <<"rm", u>>[1] = "rm"
    OBVIOUS
  <2> QED
    BY <2>1, <2>2 DEF RmKeys
<1> QED
  BY <1>1, <1>2

\* The pool of a log is of no resource manager.
LEMMA UserLogKind ==
    ASSUME TypeOK, NEW c \in Clusters
    PROVE  UserLog(c) \notin RmKeys
<1>1. CASE c \in Own
  BY <1>1, KeyKinds, UrlSets DEF TypeOK, UserLog
<1>2. CASE c \notin Own /\ XmlLog[c] = None
  BY <1>2, KeyKinds DEF UserLog
<1>3. CASE c \notin Own /\ XmlLog[c] # None
  <2>1. <<"log", XmlLog[c]>> \in LogKeys
    BY <1>3, AdaptorAssumption DEF Clusters, LogKeys
  <2> QED
    BY <1>3, <2>1, KeyKinds DEF UserLog
<1> QED
  BY <1>1, <1>2, <1>3

-----------------------------------------------------------------------------
(* What the steps that change a pool come to.                               *)

\* A hit of the lookup is in a pool the scan has found.
LEMMA LookupFound ==
    ASSUME TypeOK, NEW t \in Threads, Lookup(t)
    PROVE  /\ pc[t] = "lookup"
           /\ UNCHANGED <<map_vars, end_vars, pool_vars, rm, cl, missed, late, submitted>>
           /\ \/ \E k \in cand[t] : /\ k \in Keys /\ jobs[k][cl[t]] # None
                                    /\ key' = [key EXCEPT ![t] = k]
                                    /\ pc' = [pc EXCEPT ![t] = "idle"]
                                    /\ life' = [life EXCEPT ![t] = "live"]
                                    /\ cand' = [cand EXCEPT ![t] = {}]
              \/ \E k \in cand[t] : /\ jobs[k][cl[t]] = None
                                    /\ cand' = [cand EXCEPT ![t] = @ \ {k}]
                                    /\ UNCHANGED <<pc, life, key>>
BY DEF Lookup, Built, TypeOK

\* A pool is made where there was none, and so no job.
LEMMA MakePoolOutcome ==
    ASSUME IInv, IdsInv, NEW t \in Threads, MakePool(t)
    PROVE  /\ life[t] = "ctor" /\ key[t] \in Keys /\ rm[t] \in Urls /\ rm[t] # None
           /\ url[key[t]] = None
           /\ \A c \in Clusters : jobs[key[t]][c] = None
           /\ adaptor_lock = t
           /\ key[t] \in RmKeys => key[t] = <<"rm", rm[t]>> /\ cl[t] = None
           /\ url' = [url EXCEPT ![key[t]] = rm[t]]
           /\ UNCHANGED <<jobs, key, rm, cl, cand, missed, late, submitted>>
<1>1. pc[t] = "reset" /\ life[t] = "ctor" /\ key[t] \in Keys
  BY DEF MakePool, IInv, TypeOK, Calling, CallingOf, Lives
<1>2. rm[t] \in Urls /\ rm[t] # None /\ Validated(rm[t]) = rm[t]
  BY <1>1 DEF IInv, TypeOK, Calling, CallingOf
<1>3. adaptor = "up"
  BY <1>1, HandleKeepsAdaptor
<1>4. entry[key[t]] = "null" /\ adaptor_lock = t
  BY <1>1 DEF IdsInv, Named, NamedOf
<1>5. url[key[t]] = None
  BY <1>1, <1>3, <1>4 DEF IInv, PoolInv, PoolInvOf
<1>6. \A c \in Clusters : jobs[key[t]][c] = None
  BY <1>1, <1>5 DEF IInv, PoolInv, PoolInvOf
<1>7. cl[t] # None => key[t] \notin RmKeys
  <2>1. cl[t] # None => cl[t] \in Clusters
    BY DEF IInv, TypeOK
  <2>2. cl[t] # None => key[t] = UserLog(cl[t])
    BY <1>1 DEF IdsInv, Named, NamedOf
  <2> QED
    BY <2>1, <2>2, UserLogKind DEF IInv
<1>8. cl[t] = None => key[t] = <<"rm", rm[t]>>
  BY <1>1 DEF IdsInv, Named, NamedOf
<1> QED
  BY <1>1, <1>2, <1>4, <1>5, <1>6, <1>7, <1>8 DEF MakePool, find_vars

\* A registration of a job from an id is in the pool of its log.
LEMMA RegisterPlace ==
    ASSUME IInv, IdsInv, NEW t \in Threads, Register(t)
    PROVE  /\ pc[t] = "register" /\ life[t] = "ctor"
           /\ cl[t] \in Clusters /\ cl[t] # None /\ key[t] \in Keys
           /\ key[t] = UserLog(cl[t]) /\ key[t] \notin RmKeys
           /\ UNCHANGED <<entry, adaptor_lock, url, key, rm, cl, cand, missed, submitted>>
           /\ \/ /\ jobs[key[t]][cl[t]] = None /\ rm[t] # None
                 /\ pc' = [pc EXCEPT ![t] = "idle"]
                 /\ life' = [life EXCEPT ![t] = "live"]
                 /\ \A l \in Keys, d \in Clusters :
                       jobs'[l][d] = IF l = key[t] /\ d = cl[t] THEN rm[t] ELSE jobs[l][d]
                 /\ late' = [s \in Threads |-> s # t /\ life[s] = "ctor"
                                                /\ (late[s] \/ cl[s] = cl[t])]
              \/ UNCHANGED <<pc, life, jobs, late>>
<1>1. pc[t] = "register" /\ life[t] = "ctor" /\ cl[t] \in Clusters /\ cl[t] # None
      /\ key[t] \in Keys
  BY RegisterOutcome DEF Register
<1>2. key[t] = UserLog(cl[t])
  BY <1>1 DEF IdsInv, Named, NamedOf
<1>3. key[t] \notin RmKeys
  BY <1>1, <1>2, UserLogKind DEF IInv
<1>4. rm[t] # None /\ rm[t] \in Urls \cup {None}
  BY <1>1 DEF IInv, Calling, CallingOf, TypeOK
<1>5. ASSUME Registered(key[t], cl[t], rm[t])
      PROVE  \A l \in Keys, d \in Clusters :
                jobs'[l][d] = IF l = key[t] /\ d = cl[t] THEN rm[t] ELSE jobs[l][d]
  BY <1>1, <1>4, <1>5, RegisteredFor DEF IInv
<1> QED
  BY <1>1, <1>2, <1>3, <1>4, <1>5 DEF Register, Built, map_vars

\* A submitted job is in no pool before.
LEMMA SubmitPlace ==
    ASSUME IInv, IdsInv, NEW t \in Threads, Submit(t)
    PROVE  /\ life[t] = "live" /\ key[t] \in RmKeys /\ key[t] \in Keys
           /\ pc' = [pc EXCEPT ![t] = "idle"]
           /\ UNCHANGED <<entry, adaptor_lock, url, life, key, cand, missed, late>>
           /\ \A s \in Threads : s # t => cl'[s] = cl[s] /\ rm'[s] = rm[s]
           /\ \/ \E c \in Own : /\ c \in Clusters
                                /\ submitted[c] = None
                                /\ submitted' = [submitted EXCEPT ![c] = LogOf(key[t])]
                                /\ submitted'[c] # None
                                /\ url[key[t]] # None
                                /\ cl' = [cl EXCEPT ![t] = c]
                                /\ rm' = [rm EXCEPT ![t] = url[key[t]]]
                                /\ \A k \in Keys : jobs[k][c] = None
                                /\ \A l \in Keys, d \in Clusters :
                                      jobs'[l][d] = IF l = key[t] /\ d = c THEN url[key[t]]
                                                    ELSE jobs[l][d]
              \/ UNCHANGED <<submitted, jobs, cl, rm>>
<1>1. /\ life[t] = "live" /\ key[t] \in RmKeys /\ key[t] \in Keys
      /\ pc' = [pc EXCEPT ![t] = "idle"] /\ url[key[t]] \in Urls
      /\ UNCHANGED <<map_vars, url, life, key>>
  BY SubmitOutcome
<1>2. LogOf(key[t]) \in LogKeys
  BY <1>1, LogOfType DEF IInv
<1>3. \A c \in Own, k \in Keys : submitted[c] = None => jobs[k][c] = None
  BY UrlSets DEF IdsInv, Jobs, JobOf
<1>4. ASSUME NEW c \in Own, Registered(key[t], c, url[key[t]])
      PROVE  \A l \in Keys, d \in Clusters :
                jobs'[l][d] = IF l = key[t] /\ d = c THEN url[key[t]] ELSE jobs[l][d]
  BY <1>1, <1>4, RegisteredFor, UrlSets DEF IInv
<1>5. UNCHANGED <<cand, missed, late>>
  BY DEF Submit, find_vars
<1>6. \A s \in Threads : s # t => cl'[s] = cl[s] /\ rm'[s] = rm[s]
  BY DEF Submit, IInv, TypeOK
<1>7. CASE UNCHANGED <<submitted, jobs, cl, rm>>
  BY <1>1, <1>5, <1>6, <1>7 DEF map_vars
<1>8. ASSUME NEW c \in Own, submitted[c] = None,
             submitted' = [submitted EXCEPT ![c] = LogOf(key[t])],
             Registered(key[t], c, url[key[t]]),
             cl' = [cl EXCEPT ![t] = c], rm' = [rm EXCEPT ![t] = url[key[t]]]
      PROVE  \E d \in Own : /\ d \in Clusters
                            /\ submitted[d] = None
                            /\ submitted' = [submitted EXCEPT ![d] = LogOf(key[t])]
                            /\ submitted'[d] # None
                            /\ url[key[t]] # None
                            /\ cl' = [cl EXCEPT ![t] = d]
                            /\ rm' = [rm EXCEPT ![t] = url[key[t]]]
                            /\ \A k \in Keys : jobs[k][d] = None
                            /\ \A l \in Keys, e \in Clusters :
                                  jobs'[l][e] = IF l = key[t] /\ e = d THEN url[key[t]]
                                                ELSE jobs[l][e]
  <2>1. submitted'[c] # None
    BY <1>2, <1>8, UrlSets DEF IInv, TypeOK
  <2>2. url[key[t]] # None /\ c \in Clusters
    BY <1>1, UrlSets
  <2>3. \A l \in Keys, e \in Clusters :
           jobs'[l][e] = IF l = key[t] /\ e = c THEN url[key[t]] ELSE jobs[l][e]
    BY <1>4, <1>8
  <2> QED
    BY <1>3, <1>8, <2>1, <2>2, <2>3
<1>9. CASE ~UNCHANGED <<submitted, jobs, cl, rm>>
  <2>1. PICK c \in Own : /\ submitted[c] = None
                         /\ submitted' = [submitted EXCEPT ![c] = LogOf(key[t])]
                         /\ Registered(key[t], c, url[key[t]])
                         /\ cl' = [cl EXCEPT ![t] = c]
                         /\ rm' = [rm EXCEPT ![t] = url[key[t]]]
    BY <1>9 DEF Submit
  <2> QED
    BY <1>1, <1>5, <1>6, <1>8, <2>1 DEF map_vars
<1> QED
  BY <1>7, <1>9

\* When a pool is freed there is no job in it and no handle at all.
LEMMA EndPoolOutcome ==
    ASSUME IInv, NEW k \in Keys, EndPool(k)
    PROVE  /\ \A t \in Threads : life[t] = "none" /\ pc[t] = "idle"
           /\ \A c \in Clusters : jobs[k][c] = None
           /\ url' = [url EXCEPT ![k] = None]
           /\ UNCHANGED <<jobs, life, pc, key, rm, cl, cand, missed, late, submitted>>
<1>1. joining = k /\ joining # None
  BY UrlSets DEF EndPool
<1>2. adaptor = "ending" /\ \A c \in Clusters : jobs[k][c] = None
  BY <1>1 DEF IInv, Ending
<1>3. \A t \in Threads : life[t] = "none" /\ pc[t] = "idle"
  BY <1>2 DEF IInv, Ending, Calling, CallingOf
<1> QED
  BY <1>2, <1>3 DEF EndPool, job_vars, find_vars

-----------------------------------------------------------------------------
(* Every step keeps each part of the invariant.                             *)

\* A handle has the pool that its id or its service says.
LEMMA NamedStep ==
    ASSUME IInv, IdsInv, Next \/ UNCHANGED vars
    PROVE  Named'
<1>1. ASSUME NEW t \in Threads, NEW s \in Services, NewJob(t, s)
      PROVE  Named'
  BY <1>1, UrlSets DEF IInv, IdsInv, Named, NamedOf, NewJob, CanMake,
     map_vars, end_vars, pool_vars, find_vars, TypeOK, Calling, CallingOf,
     Attached, AttachedOf, Lives, UserLog
<1>2. ASSUME NEW t \in Threads, NEW s \in Services, NEW u \in PickRms,
             NEW c \in Clusters, GetJob(t, s, u, c)
      PROVE  Named'
  BY <1>2, UrlSets DEF IInv, IdsInv, Named, NamedOf, GetJob, CanMake,
     map_vars, end_vars, pool_vars, TypeOK, Calling, CallingOf, Attached,
     AttachedOf, Lives, UserLog
<1>3. ASSUME NEW t \in Threads, Scan(t)
      PROVE  Named'
  BY <1>3 DEF IInv, IdsInv, Named, NamedOf, Scan, Candidates, map_vars,
     end_vars, pool_vars, job_vars, TypeOK, Calling, CallingOf, Attached,
     AttachedOf, Lives, UserLog
<1>4. ASSUME NEW t \in Threads, Lookup(t)
      PROVE  Named'
  <2> SUFFICES ASSUME NEW s \in Threads PROVE NamedOf(s)'
    BY DEF Named
  <2>1. /\ pc[t] = "lookup"
        /\ UNCHANGED <<url, entry, adaptor_lock, rm, cl, submitted>>
    BY <1>4, LookupFound DEF IInv, map_vars, pool_vars
  <2>2. CASE \E k \in cand[t] : /\ k \in Keys /\ jobs[k][cl[t]] # None
                              /\ key' = [key EXCEPT ![t] = k]
                              /\ pc' = [pc EXCEPT ![t] = "idle"]
                              /\ life' = [life EXCEPT ![t] = "live"]
    <3>1. cl[t] # None
      BY <2>1 DEF IInv, Calling, CallingOf, TypeOK, Lives
    <3>2. \A k \in cand[t] : k \in RmKeys => url[k] = rm[t]
      BY <2>1 DEF IdsInv, Search, SearchOf
    <3>3. CASE s = t
      BY <2>1, <2>2, <3>1, <3>2, <3>3 DEF IInv, IdsInv, Named, NamedOf,
         TypeOK, UserLog
    <3>4. CASE s # t
      BY <2>1, <2>2, <3>4 DEF IInv, IdsInv, Named, NamedOf, TypeOK, UserLog
    <3> QED
      BY <3>3, <3>4
  <2>3. CASE UNCHANGED <<pc, life, key>>
    BY <2>1, <2>3 DEF IInv, IdsInv, Named, NamedOf, TypeOK, UserLog
  <2> QED
    BY <1>4, <2>2, <2>3, LookupFound DEF IInv
<1>5. ASSUME NEW t \in Threads, Query(t)
      PROVE  Named'
  <2> SUFFICES ASSUME NEW s \in Threads PROVE NamedOf(s)'
    BY DEF Named
  <2>1. UNCHANGED <<url, entry, adaptor_lock, submitted>> /\ life[t] = "ctor" /\ cl[t] # None
        /\ pc[t] = "lookup"
    BY <1>5, QueryOutcome DEF map_vars, pool_vars, Query
  <2>2. CASE /\ key' = [key EXCEPT ![t] = UserLog(cl[t])]
             /\ pc' = [pc EXCEPT ![t] = "getpool"]
             /\ UNCHANGED <<life, rm, cl>>
    <3>1. CASE s = t
      BY <2>1, <2>2, <3>1 DEF IInv, IdsInv, Named, NamedOf, TypeOK, UserLog
    <3>2. CASE s # t
      BY <2>1, <2>2, <3>2 DEF IInv, IdsInv, Named, NamedOf, TypeOK, UserLog
    <3> QED
      BY <3>1, <3>2
  <2>3. CASE pc' = [pc EXCEPT ![t] = "idle"] /\ Leave(t, t)
    <3>1. CASE s = t
      <4>1. life'[t] = "none" /\ pc'[t] = "idle"
        BY <2>3, LeftHandle DEF IInv, TypeOK
      <4> QED
        BY <3>1, <4>1 DEF NamedOf
    <3>2. CASE s # t
      <4>1. life'[s] = life[s] /\ key'[s] = key[s] /\ rm'[s] = rm[s] /\ cl'[s] = cl[s]
        BY <2>3, <3>2, LeftHandle DEF IInv
      <4> QED
        BY <2>1, <2>3, <3>2, <4>1 DEF IInv, IdsInv, Named, NamedOf, TypeOK,
           UserLog
    <3> QED
      BY <3>1, <3>2
  <2> QED
    BY <1>5, <2>2, <2>3, QueryOutcome
<1>6. ASSUME NEW t \in Threads, GetPool(t)
      PROVE  Named'
  <2> SUFFICES ASSUME NEW s \in Threads PROVE NamedOf(s)'
    BY DEF Named
  <2>1. UNCHANGED <<url, key, rm, cl, submitted>> /\ pc[t] = "getpool" /\ life[t] = "ctor"
        /\ key[t] \in Keys /\ adaptor_lock = None
    <3>1. /\ UNCHANGED <<url, key, rm, cl, submitted>> /\ pc[t] = "getpool"
          /\ adaptor_lock = None
      BY <1>6 DEF GetPool, pool_vars
    <3>2. CallingOf(t) /\ life[t] \in {"ctor", "live"} /\ key[t] \in Keys
      BY <3>1, BusyKey DEF IInv, Calling
    <3> QED
      BY <3>1, <3>2 DEF CallingOf
  <2>2. pc[s] # "reset"
    BY <2>1, UrlSets DEF IdsInv, Named, NamedOf
  <2>3. CASE entry[key[t]] = "set" /\ AfterPool(t) /\ UNCHANGED <<entry, adaptor_lock>>
    <3>1. url[key[t]] # None
      BY <2>1, <2>3 DEF IInv, PoolInv, PoolInvOf
    <3>2. cl[t] = None => rm[t] = url[key[t]]
      <4>1. cl[t] = None => key[t] = <<"rm", rm[t]>> /\ key[t] \in RmKeys
        BY <2>1 DEF IInv, Calling, CallingOf, IdsInv, Named, NamedOf
      <4>2. key[t] \in RmKeys => key[t] = <<"rm", url[key[t]]>>
        BY <3>1 DEF IdsInv, UrlsKept
      <4> QED
        BY <4>1, <4>2, KeyKinds
    <3>3. CASE s = t
      BY <2>1, <2>2, <2>3, <3>2, <3>3 DEF IInv, IdsInv, Named, NamedOf,
         TypeOK, UserLog, AfterPool, Built
    <3>4. CASE s # t
      BY <2>1, <2>2, <2>3, <3>4 DEF IInv, IdsInv, Named, NamedOf, TypeOK,
         UserLog, AfterPool, Built
    <3> QED
      BY <3>3, <3>4
  <2>4. CASE /\ entry' = [entry EXCEPT ![key[t]] = "null"]
             /\ adaptor_lock' = t
             /\ pc' = [pc EXCEPT ![t] = "reset"]
             /\ UNCHANGED life
    <3>1. CASE s = t
      BY <2>1, <2>4, <3>1 DEF IInv, IdsInv, Named, NamedOf, TypeOK, UserLog
    <3>2. CASE s # t
      BY <2>1, <2>2, <2>4, <3>2 DEF IInv, IdsInv, Named, NamedOf, TypeOK,
         UserLog
    <3> QED
      BY <3>1, <3>2
  <2> QED
    BY <1>6, <2>3, <2>4 DEF GetPool
<1>7. ASSUME NEW t \in Threads, MakePool(t)
      PROVE  Named'
  <2> SUFFICES ASSUME NEW s \in Threads PROVE NamedOf(s)'
    BY DEF Named
  <2>1. /\ UNCHANGED <<key, rm, cl, submitted>>
        /\ life[t] = "ctor" /\ key[t] \in Keys /\ adaptor_lock = t
        /\ url[key[t]] = None
        /\ key[t] \in RmKeys => key[t] = <<"rm", rm[t]>> /\ cl[t] = None
        /\ url' = [url EXCEPT ![key[t]] = rm[t]]
    BY <1>7, MakePoolOutcome
  <2>2. pc[t] = "reset" /\ AfterPool(t)
    BY <1>7 DEF MakePool
  <2>3. CASE s = t
    <3>1. pc'[t] # "reset" /\ pc'[t] \notin {"scan", "lookup"}
      BY <2>2 DEF AfterPool, Built, IInv, TypeOK
    <3>2. life'[t] \in {"ctor", "live"} /\ (life'[t] = "live" => cl[t] = None)
      BY <2>1, <2>2 DEF AfterPool, Built, IInv, TypeOK
    <3>3. url'[key[t]] = rm[t]
      BY <2>1 DEF IInv, TypeOK
    <3>4. cl[t] # None => key[t] = UserLog(cl[t])
      BY <2>1, <2>2 DEF IdsInv, Named, NamedOf
    <3>5. cl[t] = None => key[t] = <<"rm", rm[t]>>
      BY <2>1 DEF IdsInv, Named, NamedOf
    <3> QED
      BY <2>1, <2>3, <3>1, <3>2, <3>3, <3>4, <3>5 DEF NamedOf, UserLog
  <2>4. CASE s # t
    <3>1. pc'[s] = pc[s] /\ life'[s] = life[s]
      BY <2>2, <2>4 DEF AfterPool, Built, IInv, TypeOK
    <3>2. pc[s] # "reset"
      BY <2>1, <2>4 DEF IdsInv, Named, NamedOf
    <3>3. life[s] \in {"live", "orphan"} => key[s] # key[t]
      BY <2>1 DEF IInv, Attached, AttachedOf
    <3>4. key[s] # key[t] => url'[key[s]] = url[key[s]]
      BY <2>1 DEF IInv, TypeOK
    <3> QED
      BY <2>1, <3>1, <3>2, <3>3, <3>4 DEF IdsInv, Named, NamedOf, UserLog
  <2> QED
    BY <2>3, <2>4
<1>8. ASSUME NEW t \in Threads, OpenLog(t)
      PROVE  Named'
  <2> SUFFICES ASSUME NEW s \in Threads PROVE NamedOf(s)'
    BY DEF Named
  <2>1. /\ UNCHANGED <<entry, adaptor_lock, url, submitted, life, key, rm, cl>>
        /\ NamedOf(s) /\ pc[t] = "openlog"
    BY <1>8 DEF OpenLog, map_vars, job_vars, IdsInv, Named
  <2>2. \/ pc'[s] = pc[s]
        \/ pc[s] = "openlog" /\ pc'[s] \in {"init", "submit", "register"}
    <3>1. CASE AfterLog(t)
      BY <2>1, <3>1, AfterLogShape DEF IInv
    <3>2. CASE pc' = [pc EXCEPT ![t] = "init"] \/ UNCHANGED pc
      BY <2>1, <3>2 DEF IInv, TypeOK
    <3> QED
      BY <1>8, <3>1, <3>2 DEF OpenLog
  <2> QED
    BY <2>1, <2>2 DEF NamedOf, UserLog
<1>9. ASSUME NEW t \in Threads, LogInit(t)
      PROVE  Named'
  BY <1>9 DEF IInv, IdsInv, Named, NamedOf, LogInit, AfterLog, Freed,
     map_vars, end_vars, job_vars, find_vars, TypeOK, Calling, CallingOf,
     Attached, AttachedOf, Lives, UserLog
<1>10. ASSUME NEW t \in Threads, Register(t)
      PROVE  Named'
  <2> SUFFICES ASSUME NEW s \in Threads PROVE NamedOf(s)'
    BY DEF Named
  <2>1. UNCHANGED <<entry, adaptor_lock, url, key, rm, cl, submitted>>
        /\ key[t] \notin RmKeys /\ pc[t] = "register"
    BY <1>10, RegisterPlace
  <2>2. CASE pc' = [pc EXCEPT ![t] = "idle"] /\ life' = [life EXCEPT ![t] = "live"]
    <3>1. cl[t] # None
      BY <1>10, RegisterPlace
    <3>2. CASE s = t
      BY <2>1, <2>2, <3>1, <3>2 DEF IInv, IdsInv, Named, NamedOf, TypeOK,
         UserLog
    <3>3. CASE s # t
      BY <2>1, <2>2, <3>3 DEF IInv, IdsInv, Named, NamedOf, TypeOK, UserLog
    <3> QED
      BY <3>2, <3>3
  <2>3. CASE UNCHANGED <<pc, life>>
    BY <2>1, <2>3 DEF IInv, IdsInv, Named, NamedOf, TypeOK, UserLog
  <2> QED
    BY <1>10, <2>2, <2>3, RegisterPlace
<1>11. ASSUME NEW t \in Threads, Run(t)
      PROVE  Named'
  BY <1>11 DEF IInv, IdsInv, Named, NamedOf, Run, map_vars, end_vars,
     pool_vars, job_vars, find_vars, TypeOK, Calling, CallingOf, Attached,
     AttachedOf, Lives, UserLog
<1>12. ASSUME NEW t \in Threads, Submit(t)
      PROVE  Named'
  BY <1>12 DEF IInv, IdsInv, Named, NamedOf, Submit, Registered, map_vars,
     end_vars, find_vars, TypeOK, Calling, CallingOf, Attached, AttachedOf,
     Lives, UserLog
<1>13. ASSUME NEW t \in Threads, Drop(t)
      PROVE  Named'
  <2> SUFFICES ASSUME NEW s \in Threads PROVE NamedOf(s)'
    BY DEF Named
  <2>1. /\ UNCHANGED <<url, entry, adaptor_lock, submitted, pc>>
        /\ pc[t] = "idle" /\ life[t] = "live"
    BY <1>13 DEF Drop, map_vars, pool_vars
  <2>2. CASE Leave(t, t)
    <3>1. CASE s = t
      <4>1. life'[s] = "none" /\ pc'[s] = "idle"
        BY <2>1, <2>2, <3>1, LeftHandle DEF IInv
      <4> QED
        BY <4>1 DEF NamedOf
    <3>2. CASE s # t
      <4>1. life'[s] = life[s] /\ key'[s] = key[s] /\ rm'[s] = rm[s] /\ cl'[s] = cl[s]
        BY <2>1, <2>2, <3>2, LeftHandle DEF IInv
      <4> QED
        BY <2>1, <4>1 DEF IInv, IdsInv, Named, NamedOf, TypeOK, UserLog
    <3> QED
      BY <3>1, <3>2
  <2>3. CASE life' = [life EXCEPT ![t] = "orphan"] /\ UNCHANGED <<key, rm, cl>>
    BY <2>1, <2>3 DEF IInv, IdsInv, Named, NamedOf, TypeOK, UserLog
  <2> QED
    BY <1>13, <2>2, <2>3 DEF Drop
<1>14. ASSUME NEW k \in Keys, ReaderStart(k)
      PROVE  Named'
  BY <1>14 DEF IInv, IdsInv, Named, NamedOf, ReaderStart, map_vars, end_vars,
     job_vars, find_vars, TypeOK, Calling, CallingOf, Attached, AttachedOf,
     Lives, UserLog
<1>15. ASSUME NEW k \in Keys, Deliver(k)
      PROVE  Named'
  BY <1>15 DEF IInv, IdsInv, Named, NamedOf, Deliver, map_vars, end_vars,
     job_vars, find_vars, TypeOK, Calling, CallingOf, Attached, AttachedOf,
     Lives, UserLog
<1>16. ASSUME NEW k \in Keys, Unpin(k)
      PROVE  Named'
  <2> SUFFICES ASSUME NEW s \in Threads PROVE NamedOf(s)'
    BY DEF Named
  <2>1. UNCHANGED <<url, entry, adaptor_lock, submitted, pc>> /\ pin[k] \in Threads
    BY <1>16 DEF Unpin, map_vars, IInv, TypeOK
  <2>2. CASE Leave(pin[k], k) /\ life[pin[k]] = "orphan"
    <3>0. pc[pin[k]] = "idle"
      BY <2>1, <2>2 DEF IInv, Calling, CallingOf
    <3>1. CASE s = pin[k]
      <4>1. life'[s] = "none" /\ pc'[s] = "idle"
        BY <2>1, <2>2, <3>0, <3>1, LeftHandle DEF IInv
      <4> QED
        BY <4>1 DEF NamedOf
    <3>2. CASE s # pin[k]
      <4>1. life'[s] = life[s] /\ key'[s] = key[s] /\ rm'[s] = rm[s] /\ cl'[s] = cl[s]
        BY <2>1, <2>2, <3>0, <3>2, LeftHandle DEF IInv
      <4> QED
        BY <2>1, <4>1 DEF IInv, IdsInv, Named, NamedOf, TypeOK, UserLog
    <3> QED
      BY <3>1, <3>2
  <2>3. CASE UNCHANGED job_vars
    BY <2>1, <2>3 DEF IInv, IdsInv, Named, NamedOf, TypeOK, UserLog, job_vars
  <2> QED
    BY <1>16, <2>2, <2>3 DEF Unpin
<1>17. ASSUME NEW k \in Keys, ReaderEnd(k)
      PROVE  Named'
  BY <1>17 DEF IInv, IdsInv, Named, NamedOf, ReaderEnd, map_vars, end_vars,
     job_vars, find_vars, TypeOK, Calling, CallingOf, Attached, AttachedOf,
     Lives, UserLog
<1>18. CASE Unload
  BY <1>18 DEF IInv, IdsInv, Named, NamedOf, Unload, map_vars, pool_vars,
     job_vars, find_vars, TypeOK, Calling, CallingOf, Attached, AttachedOf,
     Lives, UserLog
<1>19. ASSUME NEW k \in Keys, EndEntry(k)
      PROVE  Named'
  BY <1>19 DEF IInv, IdsInv, Named, NamedOf, EndEntry, Stopped, job_vars,
     find_vars, TypeOK, Calling, CallingOf, Attached, AttachedOf, Lives,
     UserLog
<1>20. ASSUME NEW k \in Keys, EndPool(k)
      PROVE  Named'
  <2> SUFFICES ASSUME NEW s \in Threads PROVE NamedOf(s)'
    BY DEF Named
  <2>1. life'[s] = "none" /\ pc'[s] = "idle"
    BY <1>20, EndPoolOutcome
  <2> QED
    BY <2>1 DEF NamedOf
<1>21. CASE EndAdaptor
  BY <1>21 DEF IInv, IdsInv, Named, NamedOf, EndAdaptor, map_vars, pool_vars,
     job_vars, find_vars, TypeOK, Calling, CallingOf, Attached, AttachedOf,
     Lives, UserLog
<1>22. CASE UNCHANGED vars
  BY <1>22 DEF IInv, IdsInv, Named, NamedOf, UserLog, vars, map_vars,
     end_vars, pool_vars, job_vars, find_vars
<1> QED
  BY <1>1, <1>2, <1>3, <1>4, <1>5, <1>6, <1>7, <1>8, <1>9, <1>10, <1>11,
     <1>12, <1>13, <1>14, <1>15, <1>16, <1>17, <1>18, <1>19, <1>20, <1>21,
     <1>22
  DEF Next, CallStep, Begin, ReaderStep, EndStep

\* A pool keeps its URL.
LEMMA UrlsKeptStep ==
    ASSUME IInv, IdsInv, Next \/ UNCHANGED vars
    PROVE  UrlsKept'
<1>1. ASSUME NEW t \in Threads, NEW s \in Services, NewJob(t, s)
      PROVE  UrlsKept'
  BY <1>1 DEF IInv, IdsInv, UrlsKept, NewJob, CanMake, map_vars, end_vars,
     pool_vars, find_vars, TypeOK
<1>2. ASSUME NEW t \in Threads, NEW s \in Services, NEW u \in PickRms,
             NEW c \in Clusters, GetJob(t, s, u, c)
      PROVE  UrlsKept'
  BY <1>2 DEF IInv, IdsInv, UrlsKept, GetJob, CanMake, map_vars, end_vars,
     pool_vars, TypeOK
<1>3. ASSUME NEW t \in Threads, Scan(t)
      PROVE  UrlsKept'
  BY <1>3 DEF IInv, IdsInv, UrlsKept, Scan, Candidates, map_vars, end_vars,
     pool_vars, job_vars, TypeOK
<1>4. ASSUME NEW t \in Threads, Lookup(t)
      PROVE  UrlsKept'
  BY <1>4 DEF IInv, IdsInv, UrlsKept, Lookup, Built, map_vars, end_vars,
     pool_vars, TypeOK
<1>5. ASSUME NEW t \in Threads, Query(t)
      PROVE  UrlsKept'
  BY <1>5 DEF IInv, IdsInv, UrlsKept, Query, Throw, Leave, map_vars, end_vars,
     pool_vars, find_vars, TypeOK
<1>6. ASSUME NEW t \in Threads, GetPool(t)
      PROVE  UrlsKept'
  BY <1>6 DEF IInv, IdsInv, UrlsKept, GetPool, AfterPool, Built, end_vars,
     pool_vars, TypeOK
<1>7. ASSUME NEW t \in Threads, MakePool(t)
      PROVE  UrlsKept'
  <2>1. /\ key[t] \in RmKeys => key[t] = <<"rm", rm[t]>>
        /\ url' = [url EXCEPT ![key[t]] = rm[t]]
    BY <1>7, MakePoolOutcome
  <2>2. \A k \in RmKeys : url'[k] = IF k = key[t] THEN rm[t] ELSE url[k]
    BY <2>1, UrlSets DEF IInv, TypeOK
  <2> QED
    BY <2>1, <2>2 DEF IdsInv, UrlsKept
<1>8. ASSUME NEW t \in Threads, OpenLog(t)
      PROVE  UrlsKept'
  BY <1>8 DEF IInv, IdsInv, UrlsKept, OpenLog, AfterLog, map_vars, end_vars,
     job_vars, find_vars, TypeOK
<1>9. ASSUME NEW t \in Threads, LogInit(t)
      PROVE  UrlsKept'
  BY <1>9 DEF IInv, IdsInv, UrlsKept, LogInit, AfterLog, Freed, map_vars,
     end_vars, job_vars, find_vars, TypeOK
<1>10. ASSUME NEW t \in Threads, Register(t)
      PROVE  UrlsKept'
  BY <1>10 DEF IInv, IdsInv, UrlsKept, Register, Registered, Built, map_vars,
     end_vars, TypeOK
<1>11. ASSUME NEW t \in Threads, Run(t)
      PROVE  UrlsKept'
  BY <1>11 DEF IInv, IdsInv, UrlsKept, Run, map_vars, end_vars, pool_vars,
     job_vars, find_vars, TypeOK
<1>12. ASSUME NEW t \in Threads, Submit(t)
      PROVE  UrlsKept'
  BY <1>12 DEF IInv, IdsInv, UrlsKept, Submit, Registered, map_vars, end_vars,
     find_vars, TypeOK
<1>13. ASSUME NEW t \in Threads, Drop(t)
      PROVE  UrlsKept'
  <2>1. url' = url
    BY <1>13 DEF Drop, pool_vars
  <2> QED
    BY <2>1 DEF IdsInv, UrlsKept
<1>14. ASSUME NEW k \in Keys, ReaderStart(k)
      PROVE  UrlsKept'
  BY <1>14 DEF IInv, IdsInv, UrlsKept, ReaderStart, map_vars, end_vars,
     job_vars, find_vars, TypeOK
<1>15. ASSUME NEW k \in Keys, Deliver(k)
      PROVE  UrlsKept'
  BY <1>15 DEF IInv, IdsInv, UrlsKept, Deliver, map_vars, end_vars, job_vars,
     find_vars, TypeOK
<1>16. ASSUME NEW k \in Keys, Unpin(k)
      PROVE  UrlsKept'
  BY <1>16 DEF IInv, IdsInv, UrlsKept, Unpin, Leave, map_vars, job_vars,
     find_vars, TypeOK
<1>17. ASSUME NEW k \in Keys, ReaderEnd(k)
      PROVE  UrlsKept'
  BY <1>17 DEF IInv, IdsInv, UrlsKept, ReaderEnd, map_vars, end_vars,
     job_vars, find_vars, TypeOK
<1>18. CASE Unload
  BY <1>18 DEF IInv, IdsInv, UrlsKept, Unload, map_vars, pool_vars, job_vars,
     find_vars, TypeOK
<1>19. ASSUME NEW k \in Keys, EndEntry(k)
      PROVE  UrlsKept'
  BY <1>19 DEF IInv, IdsInv, UrlsKept, EndEntry, Stopped, job_vars, find_vars,
     TypeOK
<1>20. ASSUME NEW k \in Keys, EndPool(k)
      PROVE  UrlsKept'
  BY <1>20 DEF IInv, IdsInv, UrlsKept, EndPool, Joined, job_vars, find_vars,
     TypeOK
<1>21. CASE EndAdaptor
  BY <1>21 DEF IInv, IdsInv, UrlsKept, EndAdaptor, map_vars, pool_vars,
     job_vars, find_vars, TypeOK
<1>22. CASE UNCHANGED vars
  BY <1>22 DEF IInv, IdsInv, UrlsKept, vars, map_vars, end_vars, pool_vars,
     job_vars, find_vars
<1> QED
  BY <1>1, <1>2, <1>3, <1>4, <1>5, <1>6, <1>7, <1>8, <1>9, <1>10, <1>11,
     <1>12, <1>13, <1>14, <1>15, <1>16, <1>17, <1>18, <1>19, <1>20, <1>21,
     <1>22
  DEF Next, CallStep, Begin, ReaderStep, EndStep

\* Jobs are registered where they belong.
LEMMA JobsStep ==
    ASSUME IInv, IdsInv, Next \/ UNCHANGED vars
    PROVE  Jobs'
<1>1. ASSUME NEW t \in Threads, NEW s \in Services, NewJob(t, s)
      PROVE  Jobs'
  BY <1>1 DEF IInv, IdsInv, Jobs, JobOf, NewJob, CanMake, map_vars, end_vars,
     pool_vars, find_vars, UserLog
<1>2. ASSUME NEW t \in Threads, NEW s \in Services, NEW u \in PickRms,
             NEW c \in Clusters, GetJob(t, s, u, c)
      PROVE  Jobs'
  BY <1>2 DEF IInv, IdsInv, Jobs, JobOf, GetJob, CanMake, map_vars, end_vars,
     pool_vars, UserLog
<1>3. ASSUME NEW t \in Threads, Scan(t)
      PROVE  Jobs'
  BY <1>3 DEF IInv, IdsInv, Jobs, JobOf, Scan, Candidates, map_vars, end_vars,
     pool_vars, job_vars, UserLog
<1>4. ASSUME NEW t \in Threads, Lookup(t)
      PROVE  Jobs'
  BY <1>4 DEF IInv, IdsInv, Jobs, JobOf, Lookup, Built, map_vars, end_vars,
     pool_vars, UserLog
<1>5. ASSUME NEW t \in Threads, Query(t)
      PROVE  Jobs'
  BY <1>5 DEF IInv, IdsInv, Jobs, JobOf, Query, Throw, Leave, map_vars,
     end_vars, pool_vars, find_vars, UserLog
<1>6. ASSUME NEW t \in Threads, GetPool(t)
      PROVE  Jobs'
  BY <1>6 DEF IInv, IdsInv, Jobs, JobOf, GetPool, AfterPool, Built, end_vars,
     pool_vars, UserLog
<1>7. ASSUME NEW t \in Threads, MakePool(t)
      PROVE  Jobs'
  <2>1. /\ UNCHANGED <<jobs, submitted>>
        /\ \A c \in Clusters : jobs[key[t]][c] = None
        /\ url' = [url EXCEPT ![key[t]] = rm[t]]
    BY <1>7, MakePoolOutcome
  <2>2. \A k \in Keys, c \in Clusters : jobs[k][c] # None => url'[k] = url[k]
    BY <2>1 DEF IInv, TypeOK
  <2>3. Jobs
    BY DEF IdsInv
  <2> QED
    BY <2>1, <2>2, <2>3 DEF Jobs, JobOf, UserLog
<1>8. ASSUME NEW t \in Threads, OpenLog(t)
      PROVE  Jobs'
  BY <1>8 DEF IInv, IdsInv, Jobs, JobOf, OpenLog, AfterLog, map_vars,
     end_vars, job_vars, find_vars, UserLog
<1>9. ASSUME NEW t \in Threads, LogInit(t)
      PROVE  Jobs'
  <2>1. UNCHANGED <<url, jobs, submitted>>
    BY <1>9 DEF LogInit
  <2> QED
    BY <2>1 DEF IInv, IdsInv, Jobs, JobOf, UserLog
<1>10. ASSUME NEW t \in Threads, Register(t)
      PROVE  Jobs'
  <2>1. /\ UNCHANGED <<url, submitted, cl>>
        /\ key[t] = UserLog(cl[t]) /\ key[t] \notin RmKeys
        /\ cl[t] \in Clusters /\ cl[t] # None /\ key[t] \in Keys
    BY <1>10, RegisterPlace
  <2>2. CASE UNCHANGED jobs
    BY <2>1, <2>2 DEF IInv, IdsInv, Jobs, JobOf, UserLog
  <2>3. CASE \A l \in Keys, d \in Clusters :
                jobs'[l][d] = IF l = key[t] /\ d = cl[t] THEN rm[t] ELSE jobs[l][d]
    <3>1. cl[t] \in Own => submitted[cl[t]] # None
      BY DEF IInv, Calling, CallingOf
    <3>2. \A c \in Clusters : UserLog(c)' = UserLog(c)
      BY <2>1 DEF UserLog
    <3>3. ASSUME NEW k \in Keys, NEW c \in Clusters
          PROVE  JobOf(k, c)'
      <4>1. CASE k = key[t] /\ c = cl[t]
        BY <2>1, <3>1, <3>2, <4>1 DEF JobOf
      <4>2. CASE ~(k = key[t] /\ c = cl[t])
        <5>1. jobs'[k][c] = jobs[k][c] /\ JobOf(k, c)
          BY <2>3, <4>2 DEF IdsInv, Jobs
        <5> QED
          BY <2>1, <3>2, <5>1 DEF JobOf
      <4> QED
        BY <4>1, <4>2
    <3>4. \A k \in RmKeys, c \in Clusters : jobs'[k][c] = jobs[k][c]
      BY <2>1, <2>3, UrlSets
    <3>5. \A k, l \in RmKeys, c \in Clusters :
             jobs'[k][c] # None /\ jobs'[l][c] # None => k = l
      BY <3>4 DEF IdsInv, Jobs
    <3> QED
      BY <3>3, <3>5 DEF Jobs
  <2> QED
    BY <1>10, <2>2, <2>3, RegisterPlace
<1>11. ASSUME NEW t \in Threads, Run(t)
      PROVE  Jobs'
  BY <1>11 DEF IInv, IdsInv, Jobs, JobOf, Run, map_vars, end_vars, pool_vars,
     job_vars, find_vars, UserLog
<1>12. ASSUME NEW t \in Threads, Submit(t)
      PROVE  Jobs'
  <2>1. UNCHANGED url /\ key[t] \in RmKeys /\ key[t] \in Keys
    BY <1>12, SubmitPlace
  <2>2. CASE UNCHANGED <<submitted, jobs>>
    BY <2>1, <2>2 DEF IInv, IdsInv, Jobs, JobOf, UserLog
  <2>3. ASSUME NEW c \in Own, c \in Clusters,
               submitted' = [submitted EXCEPT ![c] = LogOf(key[t])],
               submitted'[c] # None,
               \A k \in Keys : jobs[k][c] = None,
               \A l \in Keys, d \in Clusters :
                  jobs'[l][d] = IF l = key[t] /\ d = c THEN url[key[t]] ELSE jobs[l][d]
        PROVE  Jobs'
    <3>1. ASSUME NEW k \in Keys, NEW d \in Clusters
          PROVE  JobOf(k, d)'
      <4>1. CASE d = c
        <5>1. jobs'[k][d] # None => k = key[t] /\ jobs'[k][d] = url[key[t]]
          BY <2>3, <4>1
        <5> QED
          BY <2>1, <2>3, <4>1, <5>1 DEF JobOf
      <4>2. CASE d # c
        <5>1. jobs'[k][d] = jobs[k][d] /\ JobOf(k, d)
          BY <2>3, <4>2 DEF IdsInv, Jobs
        <5>2. (d \in Own => submitted'[d] = submitted[d]) /\ url' = url
          BY <2>1, <2>3, <4>2 DEF IInv, TypeOK
        <5>3. UserLog(d)' = UserLog(d)
          BY <5>2 DEF UserLog
        <5> QED
          BY <5>1, <5>2, <5>3 DEF JobOf
      <4> QED
        BY <4>1, <4>2
    <3>2. ASSUME NEW k \in RmKeys, NEW l \in RmKeys, NEW d \in Clusters,
                 jobs'[k][d] # None, jobs'[l][d] # None
          PROVE  k = l
      <4>1. k \in Keys /\ l \in Keys
        BY UrlSets
      <4>2. CASE d = c
        BY <2>3, <3>2, <4>1, <4>2
      <4>3. CASE d # c
        BY <2>3, <3>2, <4>1, <4>3 DEF IdsInv, Jobs
      <4> QED
        BY <4>2, <4>3
    <3> QED
      BY <3>1, <3>2 DEF Jobs
  <2> QED
    BY <1>12, <2>2, <2>3, SubmitPlace
<1>13. ASSUME NEW t \in Threads, Drop(t)
      PROVE  Jobs'
  BY <1>13 DEF IInv, IdsInv, Jobs, JobOf, Drop, Leave, map_vars, pool_vars,
     find_vars, UserLog
<1>14. ASSUME NEW k \in Keys, ReaderStart(k)
      PROVE  Jobs'
  BY <1>14 DEF IInv, IdsInv, Jobs, JobOf, ReaderStart, map_vars, end_vars,
     job_vars, find_vars, UserLog
<1>15. ASSUME NEW k \in Keys, Deliver(k)
      PROVE  Jobs'
  BY <1>15 DEF IInv, IdsInv, Jobs, JobOf, Deliver, map_vars, end_vars,
     job_vars, find_vars, UserLog
<1>16. ASSUME NEW k \in Keys, Unpin(k)
      PROVE  Jobs'
  BY <1>16 DEF IInv, IdsInv, Jobs, JobOf, Unpin, Leave, map_vars, job_vars,
     find_vars, UserLog
<1>17. ASSUME NEW k \in Keys, ReaderEnd(k)
      PROVE  Jobs'
  BY <1>17 DEF IInv, IdsInv, Jobs, JobOf, ReaderEnd, map_vars, end_vars,
     job_vars, find_vars, UserLog
<1>18. CASE Unload
  BY <1>18 DEF IInv, IdsInv, Jobs, JobOf, Unload, map_vars, pool_vars,
     job_vars, find_vars, UserLog
<1>19. ASSUME NEW k \in Keys, EndEntry(k)
      PROVE  Jobs'
  BY <1>19 DEF IInv, IdsInv, Jobs, JobOf, EndEntry, Stopped, job_vars,
     find_vars, UserLog
<1>20. ASSUME NEW k \in Keys, EndPool(k)
      PROVE  Jobs'
  <2>1. /\ UNCHANGED <<jobs, submitted>>
        /\ \A c \in Clusters : jobs[k][c] = None
        /\ url' = [url EXCEPT ![k] = None]
    BY <1>20, EndPoolOutcome
  <2>2. \A l \in Keys, c \in Clusters : jobs[l][c] # None => url'[l] = url[l]
    BY <2>1 DEF IInv, TypeOK
  <2>3. Jobs
    BY DEF IdsInv
  <2> QED
    BY <2>1, <2>2, <2>3 DEF Jobs, JobOf, UserLog
<1>21. CASE EndAdaptor
  BY <1>21 DEF IInv, IdsInv, Jobs, JobOf, EndAdaptor, map_vars, pool_vars,
     job_vars, find_vars, UserLog
<1>22. CASE UNCHANGED vars
  BY <1>22 DEF IInv, IdsInv, Jobs, JobOf, UserLog, vars, map_vars, end_vars,
     pool_vars, job_vars, find_vars
<1> QED
  BY <1>1, <1>2, <1>3, <1>4, <1>5, <1>6, <1>7, <1>8, <1>9, <1>10, <1>11,
     <1>12, <1>13, <1>14, <1>15, <1>16, <1>17, <1>18, <1>19, <1>20, <1>21,
     <1>22
  DEF Next, CallStep, Begin, ReaderStep, EndStep

\* A search overlooks nothing.
LEMMA SearchStep ==
    ASSUME IInv, IdsInv, Next \/ UNCHANGED vars
    PROVE  Search'
<1>1. ASSUME NEW t \in Threads, NEW s \in Services, NewJob(t, s)
      PROVE  Search'
  BY <1>1 DEF IInv, IdsInv, Search, SearchOf, NewJob, CanMake, map_vars,
     end_vars, pool_vars, find_vars, TypeOK, Calling, CallingOf, Attached,
     AttachedOf, Lives, UserLog
<1>2. ASSUME NEW t \in Threads, NEW s \in Services, NEW u \in PickRms,
             NEW c \in Clusters, GetJob(t, s, u, c)
      PROVE  Search'
  BY <1>2 DEF IInv, IdsInv, Search, SearchOf, GetJob, CanMake, map_vars,
     end_vars, pool_vars, TypeOK, Calling, CallingOf, Attached, AttachedOf,
     Lives, UserLog
<1>3. ASSUME NEW t \in Threads, Scan(t)
      PROVE  Search'
  <2> SUFFICES ASSUME NEW s \in Threads PROVE SearchOf(s)'
    BY DEF Search
  <2>1. /\ UNCHANGED <<entry, url, jobs, life, rm, cl, late>>
        /\ pc[t] = "scan" /\ life[t] = "ctor"
    BY <1>3 DEF Scan, map_vars, pool_vars, job_vars, IInv, TypeOK, Calling,
       CallingOf, Lives
  <2>2. ASSUME NEW ks \in SUBSET Candidates(rm[t]),
               cand' = [cand EXCEPT ![t] = ks],
               missed' = (missed \/ ks # Candidates(rm[t])),
               pc' = [pc EXCEPT ![t] = "lookup"]
        PROVE  SearchOf(s)'
    <3>1. adaptor = "up"
      BY <2>1, HandleKeepsAdaptor
    <3>2. \A k \in Keys : jobs[k][cl[t]] # None /\ url[k] = rm[t] /\ cl[t] # None
                          => k \in Candidates(rm[t])
      <4>1. cl[t] # None => cl[t] \in Clusters
        BY DEF IInv, TypeOK
      <4> QED
        BY <3>1, <4>1 DEF Candidates, IInv, PoolInv, PoolInvOf
    <3>3. \A k \in ks : url[k] = rm[t]
      BY <2>2 DEF Candidates
    <3>4. CASE s = t
      <4>1. cand'[t] = ks /\ pc'[t] = "lookup"
        BY <2>2 DEF IInv, TypeOK
      <4> QED
        BY <2>1, <2>2, <3>2, <3>3, <3>4, <4>1 DEF SearchOf
    <3>5. CASE s # t
      <4>1. cand'[s] = cand[s] /\ pc'[s] = pc[s] /\ (~missed' => ~missed) /\ SearchOf(s)
        BY <2>2, <3>5 DEF IInv, TypeOK, IdsInv, Search
      <4> QED
        BY <2>1, <4>1 DEF SearchOf
    <3> QED
      BY <3>4, <3>5
  <2>3. CASE UNCHANGED <<pc, cand, missed>>
    BY <2>1, <2>3 DEF IInv, IdsInv, Search, SearchOf, TypeOK
  <2> QED
    BY <1>3, <2>2, <2>3 DEF Scan
<1>4. ASSUME NEW t \in Threads, Lookup(t)
      PROVE  Search'
  <2> SUFFICES ASSUME NEW s \in Threads PROVE SearchOf(s)'
    BY DEF Search
  <2>1. UNCHANGED <<url, jobs, rm, cl, missed, late>> /\ pc[t] = "lookup"
    BY <1>4, LookupFound DEF IInv, pool_vars
  <2>2. CASE \E k \in cand[t] : /\ pc' = [pc EXCEPT ![t] = "idle"]
                              /\ life' = [life EXCEPT ![t] = "live"]
                              /\ cand' = [cand EXCEPT ![t] = {}]
    <3>1. CASE s = t
      <4>1. life'[s] = "live" /\ pc'[s] = "idle"
        BY <2>2, <3>1 DEF IInv, TypeOK
      <4> QED
        BY <4>1 DEF SearchOf
    <3>2. CASE s # t
      BY <2>1, <2>2, <3>2 DEF IInv, IdsInv, Search, SearchOf, TypeOK
    <3> QED
      BY <3>1, <3>2
  <2>3. CASE \E k \in cand[t] : /\ jobs[k][cl[t]] = None
                              /\ cand' = [cand EXCEPT ![t] = @ \ {k}]
                              /\ UNCHANGED <<pc, life, key>>
    <3>1. CASE s = t
      <4>1. PICK k \in cand[t] : /\ jobs[k][cl[t]] = None
                                 /\ cand' = [cand EXCEPT ![t] = @ \ {k}]
                                 /\ UNCHANGED <<pc, life, key>>
        BY <2>3
      <4>2. cand'[t] = cand[t] \ {k}
        BY <4>1 DEF IInv, TypeOK
      <4>3. SearchOf(t)
        BY DEF IdsInv, Search
      <4> QED
        BY <2>1, <3>1, <4>1, <4>2, <4>3 DEF SearchOf
    <3>2. CASE s # t
      BY <2>1, <2>3, <3>2 DEF IInv, IdsInv, Search, SearchOf, TypeOK
    <3> QED
      BY <3>1, <3>2
  <2> QED
    BY <1>4, <2>2, <2>3, LookupFound DEF IInv
<1>5. ASSUME NEW t \in Threads, Query(t)
      PROVE  Search'
  <2> SUFFICES ASSUME NEW s \in Threads PROVE SearchOf(s)'
    BY DEF Search
  <2>1. /\ UNCHANGED <<url, jobs, cand, missed, late>> /\ pc[t] = "lookup"
        /\ cand[t] = {}
    BY <1>5 DEF Query, pool_vars, find_vars
  <2>2. CASE /\ pc' = [pc EXCEPT ![t] = "getpool"]
             /\ UNCHANGED <<life, rm, cl>>
    <3>1. CASE s = t
      <4>1. pc'[t] = "getpool" /\ SearchOf(t)
        BY <2>2 DEF IInv, TypeOK, IdsInv, Search
      <4> QED
        BY <2>1, <2>2, <3>1, <4>1 DEF SearchOf
    <3>2. CASE s # t
      BY <2>1, <2>2, <3>2 DEF IInv, IdsInv, Search, SearchOf, TypeOK
    <3> QED
      BY <3>1, <3>2
  <2>3. CASE pc' = [pc EXCEPT ![t] = "idle"] /\ Leave(t, t)
    <3>1. CASE s = t
      <4>1. life'[t] = "none" /\ pc'[t] = "idle"
        BY <2>3, LeftHandle DEF IInv, TypeOK
      <4> QED
        BY <3>1, <4>1 DEF SearchOf
    <3>2. CASE s # t
      <4>1. life'[s] = life[s] /\ rm'[s] = rm[s] /\ cl'[s] = cl[s] /\ pc'[s] = pc[s]
        BY <2>3, <3>2, LeftHandle DEF IInv, TypeOK
      <4> QED
        BY <2>1, <4>1 DEF IdsInv, Search, SearchOf
    <3> QED
      BY <3>1, <3>2
  <2> QED
    BY <1>5, <2>2, <2>3, QueryOutcome
<1>6. ASSUME NEW t \in Threads, GetPool(t)
      PROVE  Search'
  BY <1>6 DEF IInv, IdsInv, Search, SearchOf, GetPool, AfterPool, Built,
     end_vars, pool_vars, TypeOK, Calling, CallingOf, Attached, AttachedOf,
     Lives, UserLog
<1>7. ASSUME NEW t \in Threads, MakePool(t)
      PROVE  Search'
  <2> SUFFICES ASSUME NEW s \in Threads PROVE SearchOf(s)'
    BY DEF Search
  <2>1. /\ UNCHANGED <<jobs, rm, cl, cand, missed, late>>
        /\ url[key[t]] = None /\ rm[t] # None
        /\ \A c \in Clusters : jobs[key[t]][c] = None
        /\ url' = [url EXCEPT ![key[t]] = rm[t]]
    BY <1>7, MakePoolOutcome
  <2>2. pc[t] = "reset" /\ AfterPool(t)
    BY <1>7 DEF MakePool
  <2>3. \A k \in Keys : k # key[t] => url'[k] = url[k]
    BY <2>1 DEF IInv, TypeOK
  <2>4. /\ life'[s] = "ctor" => life[s] = "ctor"
        /\ pc[s] = "lookup" <=> pc'[s] = "lookup"
        /\ pc[s] = "scan" <=> pc'[s] = "scan"
    BY <2>2 DEF AfterPool, Built, IInv, TypeOK
  <2>5. cl[s] # None => cl[s] \in Clusters
    BY DEF IInv, TypeOK
  <2>6. pc[s] = "lookup" => rm[s] # None
    BY DEF IInv, TypeOK, Calling, CallingOf, Lives
  <2>7. cand[s] \subseteq Keys
    BY DEF IInv, TypeOK
  <2>8. SearchOf(s)
    BY DEF IdsInv, Search
  <2>9. ASSUME life'[s] = "ctor", pc'[s] # "scan", cl'[s] # None, ~missed',
               NEW k \in Keys, jobs'[k][cl'[s]] # None, url'[k] = rm'[s],
               k \in RmKeys \/ ~late'[s]
        PROVE  pc'[s] = "lookup" /\ k \in cand'[s]
    <3>1. k # key[t]
      BY <2>1, <2>5, <2>9
    <3> QED
      BY <2>1, <2>3, <2>4, <2>8, <2>9, <3>1 DEF SearchOf
  <2>10. ASSUME pc'[s] = "lookup", NEW k \in cand'[s] \cap RmKeys
         PROVE  url'[k] = rm'[s]
    <3>1. k \in Keys /\ url[k] = rm[s] /\ rm[s] # None
      BY <2>1, <2>4, <2>6, <2>7, <2>8, <2>10 DEF SearchOf
    <3> QED
      BY <2>1, <2>3, <3>1
  <2> QED
    BY <2>9, <2>10 DEF SearchOf
<1>8. ASSUME NEW t \in Threads, OpenLog(t)
      PROVE  Search'
  <2> SUFFICES ASSUME NEW s \in Threads PROVE SearchOf(s)'
    BY DEF Search
  <2>1. /\ UNCHANGED <<entry, url, jobs, rm, cl, cand, raced, missed, late, submitted, condor_log>>
        /\ UNCHANGED <<life, key, adaptor_lock>> /\ SearchOf(s)
    BY <1>8 DEF OpenLog, map_vars, job_vars, find_vars, IInv, IdsInv, Search
  <2>2. \/ pc'[s] = pc[s]
        \/ pc[s] = "openlog" /\ pc'[s] \in {"init", "submit", "register"}
    <3>1. pc[t] = "openlog" /\ pc \in [Threads -> Calls]
      BY <1>8 DEF OpenLog, IInv, TypeOK
    <3>2. CASE AfterLog(t)
      BY <3>1, <3>2, AfterLogShape DEF IInv
    <3>3. CASE pc' = [pc EXCEPT ![t] = "init"] \/ UNCHANGED pc
      BY <3>1, <3>3
    <3> QED
      BY <1>8, <3>2, <3>3 DEF OpenLog
  <2> QED
    BY <2>1, <2>2 DEF SearchOf, UserLog, Candidates
<1>9. ASSUME NEW t \in Threads, LogInit(t)
      PROVE  Search'
  BY <1>9 DEF IInv, IdsInv, Search, SearchOf, LogInit, AfterLog, Freed,
     map_vars, end_vars, job_vars, find_vars, TypeOK, Calling, CallingOf,
     Attached, AttachedOf, Lives, UserLog
<1>10. ASSUME NEW t \in Threads, Register(t)
      PROVE  Search'
  <2> SUFFICES ASSUME NEW s \in Threads PROVE SearchOf(s)'
    BY DEF Search
  <2>1. /\ UNCHANGED <<url, rm, cl, cand, missed>>
        /\ key[t] \notin RmKeys /\ pc[t] = "register"
    BY <1>10, RegisterPlace
  <2>2. CASE UNCHANGED <<pc, life, jobs, late>>
    BY <2>1, <2>2 DEF IInv, IdsInv, Search, SearchOf, TypeOK
  <2>3. CASE /\ pc' = [pc EXCEPT ![t] = "idle"]
             /\ life' = [life EXCEPT ![t] = "live"]
             /\ \A l \in Keys, d \in Clusters :
                   jobs'[l][d] = IF l = key[t] /\ d = cl[t] THEN rm[t] ELSE jobs[l][d]
             /\ late' = [r \in Threads |-> r # t /\ life[r] = "ctor"
                                            /\ (late[r] \/ cl[r] = cl[t])]
    <3>1. CASE s = t
      <4>1. life'[s] = "live" /\ pc'[s] = "idle"
        BY <2>3, <3>1 DEF IInv, TypeOK
      <4> QED
        BY <4>1 DEF SearchOf
    <3>2. CASE s # t
      <4>1. pc'[s] = pc[s] /\ life'[s] = life[s] /\ SearchOf(s)
        BY <2>3, <3>2 DEF IInv, IdsInv, Search, SearchOf, TypeOK
      <4>2. life[s] = "ctor" => (late'[s] <=> late[s] \/ cl[s] = cl[t])
        BY <2>3, <3>2 DEF IInv, TypeOK
      <4>3. cl[s] # None => cl[s] \in Clusters
        BY DEF IInv, TypeOK
      <4>4. ASSUME NEW k \in Keys, cl[s] # None, jobs'[k][cl[s]] # None,
                   life[s] = "ctor", k \in RmKeys \/ ~late'[s]
            PROVE  jobs[k][cl[s]] # None /\ (k \in RmKeys \/ ~late[s])
        BY <2>1, <2>3, <4>2, <4>3, <4>4
      <4> QED
        BY <2>1, <4>1, <4>4 DEF SearchOf
    <3> QED
      BY <3>1, <3>2
  <2> QED
    BY <1>10, <2>2, <2>3, RegisterPlace
<1>11. ASSUME NEW t \in Threads, Run(t)
      PROVE  Search'
  BY <1>11 DEF IInv, IdsInv, Search, SearchOf, Run, map_vars, end_vars,
     pool_vars, job_vars, find_vars, TypeOK, Calling, CallingOf, Attached,
     AttachedOf, Lives, UserLog
<1>12. ASSUME NEW t \in Threads, Submit(t)
      PROVE  Search'
  <2> SUFFICES ASSUME NEW s \in Threads PROVE SearchOf(s)'
    BY DEF Search
  <2>1. /\ UNCHANGED <<url, life, cand, missed, late>>
        /\ life[t] = "live" /\ pc' = [pc EXCEPT ![t] = "idle"]
        /\ s # t => cl'[s] = cl[s] /\ rm'[s] = rm[s]
    BY <1>12, SubmitPlace
  <2>2. CASE s = t
    <3>1. life'[s] = "live" /\ pc'[s] = "idle"
      BY <2>1, <2>2 DEF IInv, TypeOK
    <3> QED
      BY <3>1 DEF SearchOf
  <2>3. CASE s # t
    <3>1. pc'[s] = pc[s] /\ SearchOf(s)
      BY <2>1, <2>3 DEF IInv, IdsInv, Search, SearchOf, TypeOK
    <3>2. cl[s] # None => \A k \in Keys : jobs'[k][cl[s]] = jobs[k][cl[s]]
      <4>1. cl[s] # None => cl[s] \in Clusters /\ (cl[s] \in Own => submitted[cl[s]] # None)
        BY DEF IInv, TypeOK, Calling, CallingOf
      <4> QED
        BY <1>12, <4>1, SubmitPlace
    <3> QED
      BY <2>1, <2>3, <3>1, <3>2 DEF SearchOf
  <2> QED
    BY <2>2, <2>3
<1>13. ASSUME NEW t \in Threads, Drop(t)
      PROVE  Search'
  BY <1>13 DEF IInv, IdsInv, Search, SearchOf, Drop, Leave, map_vars,
     pool_vars, find_vars, TypeOK, Calling, CallingOf, Attached, AttachedOf,
     Lives, UserLog
<1>14. ASSUME NEW k \in Keys, ReaderStart(k)
      PROVE  Search'
  BY <1>14 DEF IInv, IdsInv, Search, SearchOf, ReaderStart, map_vars,
     end_vars, job_vars, find_vars, TypeOK, Calling, CallingOf, Attached,
     AttachedOf, Lives, UserLog
<1>15. ASSUME NEW k \in Keys, Deliver(k)
      PROVE  Search'
  BY <1>15 DEF IInv, IdsInv, Search, SearchOf, Deliver, map_vars, end_vars,
     job_vars, find_vars, TypeOK, Calling, CallingOf, Attached, AttachedOf,
     Lives, UserLog
<1>16. ASSUME NEW k \in Keys, Unpin(k)
      PROVE  Search'
  BY <1>16 DEF IInv, IdsInv, Search, SearchOf, Unpin, Leave, map_vars,
     job_vars, find_vars, TypeOK, Calling, CallingOf, Attached, AttachedOf,
     Lives, UserLog
<1>17. ASSUME NEW k \in Keys, ReaderEnd(k)
      PROVE  Search'
  BY <1>17 DEF IInv, IdsInv, Search, SearchOf, ReaderEnd, map_vars, end_vars,
     job_vars, find_vars, TypeOK, Calling, CallingOf, Attached, AttachedOf,
     Lives, UserLog
<1>18. CASE Unload
  BY <1>18 DEF IInv, IdsInv, Search, SearchOf, Unload, map_vars, pool_vars,
     job_vars, find_vars, TypeOK, Calling, CallingOf, Attached, AttachedOf,
     Lives, UserLog
<1>19. ASSUME NEW k \in Keys, EndEntry(k)
      PROVE  Search'
  BY <1>19 DEF IInv, IdsInv, Search, SearchOf, EndEntry, Stopped, job_vars,
     find_vars, TypeOK, Calling, CallingOf, Attached, AttachedOf, Lives,
     UserLog
<1>20. ASSUME NEW k \in Keys, EndPool(k)
      PROVE  Search'
  <2> SUFFICES ASSUME NEW s \in Threads PROVE SearchOf(s)'
    BY DEF Search
  <2>1. life'[s] = "none" /\ pc'[s] = "idle"
    BY <1>20, EndPoolOutcome
  <2> QED
    BY <2>1 DEF SearchOf
<1>21. CASE EndAdaptor
  BY <1>21 DEF IInv, IdsInv, Search, SearchOf, EndAdaptor, map_vars,
     pool_vars, job_vars, find_vars, TypeOK, Calling, CallingOf, Attached,
     AttachedOf, Lives, UserLog
<1>22. CASE UNCHANGED vars
  BY <1>22 DEF IInv, IdsInv, Search, SearchOf, vars, map_vars, end_vars,
     pool_vars, job_vars, find_vars
<1> QED
  BY <1>1, <1>2, <1>3, <1>4, <1>5, <1>6, <1>7, <1>8, <1>9, <1>10, <1>11,
     <1>12, <1>13, <1>14, <1>15, <1>16, <1>17, <1>18, <1>19, <1>20, <1>21,
     <1>22
  DEF Next, CallStep, Begin, ReaderStep, EndStep

\* No id gets a second shared data.
LEMMA OneStep ==
    ASSUME IInv, IdsInv, Next \/ UNCHANGED vars
    PROVE  OneDataPerId'
<1>1. ASSUME NEW t \in Threads, NEW s \in Services, NewJob(t, s)
      PROVE  OneDataPerId'
  BY <1>1 DEF IInv, IdsInv, OneDataPerId, NewJob, CanMake, map_vars, end_vars,
     pool_vars, find_vars
<1>2. ASSUME NEW t \in Threads, NEW s \in Services, NEW u \in PickRms,
             NEW c \in Clusters, GetJob(t, s, u, c)
      PROVE  OneDataPerId'
  BY <1>2 DEF IInv, IdsInv, OneDataPerId, GetJob, CanMake, map_vars, end_vars,
     pool_vars
<1>3. ASSUME NEW t \in Threads, Scan(t)
      PROVE  OneDataPerId'
  BY <1>3 DEF IInv, IdsInv, OneDataPerId, Scan, Candidates, map_vars,
     end_vars, pool_vars, job_vars
<1>4. ASSUME NEW t \in Threads, Lookup(t)
      PROVE  OneDataPerId'
  BY <1>4 DEF IInv, IdsInv, OneDataPerId, Lookup, Built, map_vars, end_vars,
     pool_vars
<1>5. ASSUME NEW t \in Threads, Query(t)
      PROVE  OneDataPerId'
  BY <1>5 DEF IInv, IdsInv, OneDataPerId, Query, Throw, Leave, map_vars,
     end_vars, pool_vars, find_vars
<1>6. ASSUME NEW t \in Threads, GetPool(t)
      PROVE  OneDataPerId'
  BY <1>6 DEF IInv, IdsInv, OneDataPerId, GetPool, AfterPool, Built, end_vars,
     pool_vars
<1>7. ASSUME NEW t \in Threads, MakePool(t)
      PROVE  OneDataPerId'
  BY <1>7 DEF IInv, IdsInv, OneDataPerId, MakePool, AfterPool, Built,
     end_vars, find_vars
<1>8. ASSUME NEW t \in Threads, OpenLog(t)
      PROVE  OneDataPerId'
  BY <1>8 DEF IInv, IdsInv, OneDataPerId, OpenLog, AfterLog, map_vars,
     end_vars, job_vars, find_vars
<1>9. ASSUME NEW t \in Threads, LogInit(t)
      PROVE  OneDataPerId'
  BY <1>9 DEF IInv, IdsInv, OneDataPerId, LogInit, AfterLog, Freed, map_vars,
     end_vars, job_vars, find_vars
<1>10. ASSUME NEW t \in Threads, Register(t)
      PROVE  OneDataPerId'
  <2>1. /\ UNCHANGED <<url, missed>>
        /\ pc[t] = "register" /\ life[t] = "ctor" /\ cl[t] # None
        /\ key[t] = UserLog(cl[t]) /\ key[t] \in Keys /\ cl[t] \in Clusters
    BY <1>10, RegisterPlace
  <2>2. CASE UNCHANGED jobs
    BY <2>1, <2>2 DEF IdsInv, OneDataPerId
  <2>3. CASE /\ jobs[key[t]][cl[t]] = None /\ rm[t] # None
             /\ \A l \in Keys, d \in Clusters :
                   jobs'[l][d] = IF l = key[t] /\ d = cl[t] THEN rm[t] ELSE jobs[l][d]
    <3> SUFFICES ASSUME ~missed, NEW c \in Clusters, NEW k \in Keys, NEW l \in Keys,
                        jobs'[k][c] # None, jobs'[k][c] = jobs'[l][c]
                 PROVE  k = l
      BY <2>1 DEF OneDataPerId
    <3>1. CASE c # cl[t]
      BY <2>3, <3>1 DEF IdsInv, OneDataPerId
    <3>2. CASE c = cl[t]
      <4>1. ASSUME NEW m \in Keys, m # key[t]
            PROVE  jobs[m][cl[t]] # rm[t]
        <5>1. CASE m \in RmKeys
          <6>1. jobs[m][cl[t]] # None => jobs[m][cl[t]] = url[m]
            BY <2>1, <5>1 DEF IdsInv, Jobs, JobOf
          <6>2. ~(jobs[m][cl[t]] # None /\ url[m] = rm[t])
            BY <2>1, <5>1 DEF IdsInv, Search, SearchOf
          <6> QED
            BY <2>3, <6>1, <6>2
        <5>2. CASE m \notin RmKeys
          BY <2>1, <2>3, <4>1, <5>2 DEF IdsInv, Jobs, JobOf
        <5> QED
          BY <5>1, <5>2
      <4>2. CASE k = key[t] /\ l # key[t]
        BY <2>1, <2>3, <3>2, <4>1, <4>2
      <4>3. CASE k # key[t] /\ l = key[t]
        BY <2>1, <2>3, <3>2, <4>1, <4>3
      <4>4. CASE k # key[t] /\ l # key[t]
        BY <2>1, <2>3, <4>4 DEF IdsInv, OneDataPerId
      <4> QED
        BY <4>2, <4>3, <4>4
    <3> QED
      BY <3>1, <3>2
  <2> QED
    BY <1>10, <2>2, <2>3, RegisterPlace
<1>11. ASSUME NEW t \in Threads, Run(t)
      PROVE  OneDataPerId'
  BY <1>11 DEF IInv, IdsInv, OneDataPerId, Run, map_vars, end_vars, pool_vars,
     job_vars, find_vars
<1>12. ASSUME NEW t \in Threads, Submit(t)
      PROVE  OneDataPerId'
  <2>1. UNCHANGED missed
    BY <1>12, SubmitPlace
  <2>2. CASE UNCHANGED jobs
    BY <2>1, <2>2 DEF IdsInv, OneDataPerId
  <2>3. CASE \E c \in Own : /\ \A k \in Keys : jobs[k][c] = None
                          /\ \A l \in Keys, d \in Clusters :
                                jobs'[l][d] = IF l = key[t] /\ d = c THEN url[key[t]]
                                              ELSE jobs[l][d]
    <3>1. PICK c \in Own : /\ \A k \in Keys : jobs[k][c] = None
                           /\ \A l \in Keys, d \in Clusters :
                                 jobs'[l][d] = IF l = key[t] /\ d = c THEN url[key[t]]
                                               ELSE jobs[l][d]
      BY <2>3
    <3> SUFFICES ASSUME ~missed, NEW d \in Clusters, NEW k \in Keys, NEW l \in Keys,
                        jobs'[k][d] # None, jobs'[k][d] = jobs'[l][d]
                 PROVE  k = l
      BY <2>1 DEF OneDataPerId
    <3>2. CASE d = c
      BY <3>1, <3>2
    <3>3. CASE d # c
      BY <3>1, <3>3 DEF IdsInv, OneDataPerId
    <3> QED
      BY <3>2, <3>3
  <2> QED
    BY <1>12, <2>2, <2>3, SubmitPlace
<1>13. ASSUME NEW t \in Threads, Drop(t)
      PROVE  OneDataPerId'
  BY <1>13 DEF IInv, IdsInv, OneDataPerId, Drop, Leave, map_vars, pool_vars,
     find_vars
<1>14. ASSUME NEW k \in Keys, ReaderStart(k)
      PROVE  OneDataPerId'
  BY <1>14 DEF IInv, IdsInv, OneDataPerId, ReaderStart, map_vars, end_vars,
     job_vars, find_vars
<1>15. ASSUME NEW k \in Keys, Deliver(k)
      PROVE  OneDataPerId'
  BY <1>15 DEF IInv, IdsInv, OneDataPerId, Deliver, map_vars, end_vars,
     job_vars, find_vars
<1>16. ASSUME NEW k \in Keys, Unpin(k)
      PROVE  OneDataPerId'
  BY <1>16 DEF IInv, IdsInv, OneDataPerId, Unpin, Leave, map_vars, job_vars,
     find_vars
<1>17. ASSUME NEW k \in Keys, ReaderEnd(k)
      PROVE  OneDataPerId'
  BY <1>17 DEF IInv, IdsInv, OneDataPerId, ReaderEnd, map_vars, end_vars,
     job_vars, find_vars
<1>18. CASE Unload
  BY <1>18 DEF IInv, IdsInv, OneDataPerId, Unload, map_vars, pool_vars,
     job_vars, find_vars
<1>19. ASSUME NEW k \in Keys, EndEntry(k)
      PROVE  OneDataPerId'
  BY <1>19 DEF IInv, IdsInv, OneDataPerId, EndEntry, Stopped, job_vars,
     find_vars
<1>20. ASSUME NEW k \in Keys, EndPool(k)
      PROVE  OneDataPerId'
  BY <1>20 DEF IInv, IdsInv, OneDataPerId, EndPool, Joined, job_vars, find_vars
<1>21. CASE EndAdaptor
  BY <1>21 DEF IInv, IdsInv, OneDataPerId, EndAdaptor, map_vars, pool_vars,
     job_vars, find_vars
<1>22. CASE UNCHANGED vars
  BY <1>22 DEF IInv, IdsInv, OneDataPerId, vars, map_vars, end_vars,
     pool_vars, job_vars, find_vars
<1> QED
  BY <1>1, <1>2, <1>3, <1>4, <1>5, <1>6, <1>7, <1>8, <1>9, <1>10, <1>11,
     <1>12, <1>13, <1>14, <1>15, <1>16, <1>17, <1>18, <1>19, <1>20, <1>21,
     <1>22
  DEF Next, CallStep, Begin, ReaderStep, EndStep

\* A failed registration is explained when it happens.
LEMMA AbortStep ==
    ASSUME IInv, IdsInv, Next \/ UNCHANGED vars
    PROVE  AbortExplained'
<1> SUFFICES ASSUME fault' = "registered"
             PROVE  \E t \in Threads :
                       /\ pc'[t] = "register" /\ jobs'[key'[t]][cl'[t]] # None
                       /\ \/ url'[key'[t]] # rm'[t]
                          \/ late'[t]
                          \/ missed'
  BY DEF AbortExplained
<1>1. CASE UNCHANGED vars
  BY <1>1 DEF vars, IdsInv, AbortExplained, pool_vars, job_vars, find_vars
<1>2. CASE Next
  <2>1. fault = "none"
    BY <1>2 DEF Next
  <2>2. \A t \in Threads : CallStep(t) => Register(t)
    BY <2>1 DEF CallStep, Scan, Lookup, Query, GetPool, MakePool, OpenLog,
       LogInit, Submit
  <2>3. \A t \in Threads : ~Begin(t)
    BY <2>1 DEF Begin, NewJob, GetJob, Run, Drop
  <2>4. \A k \in Keys : ~ReaderStep(k) /\ ~Deliver(k)
    BY <2>1 DEF ReaderStep, ReaderStart, Unpin, ReaderEnd, Deliver
  <2>5. ~Unload /\ ~EndStep
    BY <2>1 DEF Unload, EndStep, EndEntry, EndPool, EndAdaptor
  <2>6. PICK t \in Threads : Register(t)
    BY <1>2, <2>2, <2>3, <2>4, <2>5 DEF Next
  <2>7. /\ jobs[key[t]][cl[t]] # None
        /\ UNCHANGED <<pc, jobs, url, key, rm, cl, late, missed>>
    BY <2>1, <2>6 DEF Register
  <2>8. /\ pc[t] = "register" /\ life[t] = "ctor" /\ cl[t] # None
        /\ key[t] \in Keys
    BY <2>6, RegisterPlace
  <2>9. url[key[t]] # rm[t] \/ late[t] \/ missed
    BY <2>7, <2>8 DEF IdsInv, Search, SearchOf
  <2> QED
    BY <2>7, <2>8, <2>9
<1> QED
  BY <1>1, <1>2

-----------------------------------------------------------------------------
\* It holds at the start.
LEMMA IdsInitially ==
    Init => IdsInv
<1> SUFFICES ASSUME Init
             PROVE  IdsInv
  OBVIOUS
<1>1. Named
  BY UrlSets DEF Init, Named, NamedOf
<1>2. UrlsKept
  BY UrlSets DEF Init, UrlsKept
<1>3. Jobs
  BY UrlSets DEF Init, Jobs, JobOf
<1>4. Search
  BY DEF Init, Search, SearchOf
<1>5. OneDataPerId /\ AbortExplained
  BY DEF Init, OneDataPerId, AbortExplained
<1> QED
  BY <1>1, <1>2, <1>3, <1>4, <1>5 DEF IdsInv

\* So it always holds, with the first one.
LEMMA IdsInvariance ==
    Spec => [](IInv /\ IdsInv)
<1>1. Init => IInv /\ IdsInv
  BY Initially, IdsInitially
<1>2. IInv /\ IdsInv /\ [Next]_vars => (IInv /\ IdsInv)'
  <2> SUFFICES ASSUME IInv, IdsInv, Next \/ UNCHANGED vars
               PROVE  IInv' /\ IdsInv'
    OBVIOUS
  <2>1. IInv'
    BY Inductive
  <2>2. Named' /\ UrlsKept' /\ Jobs'
    BY NamedStep, UrlsKeptStep, JobsStep
  <2>3. Search' /\ OneDataPerId' /\ AbortExplained'
    BY SearchStep, OneStep, AbortStep
  <2> QED
    BY <2>1, <2>2, <2>3 DEF IdsInv
<1> QED
  BY <1>1, <1>2, PTL DEF Spec

(* A job id has one shared data, in whichever pool it is found, unless an   *)
(* iteration over pools_ without the lock has missed a pool.                *)
THEOREM OneDataForEachId ==
    Spec => []OneDataPerId
<1>1. IInv /\ IdsInv => OneDataPerId
  BY DEF IdsInv
<1> QED
  BY <1>1, IdsInvariance, PTL

(* The assertion of register_job fails only for a reason outside the search:*)
(* a pool made for another URL, a second registration, a missed pool.       *)
THEOREM AbortsExplained ==
    Spec => []AbortExplained
<1>1. IInv /\ IdsInv => AbortExplained
  BY DEF IdsInv
<1> QED
  BY <1>1, IdsInvariance, PTL

\* The id of a job names the URL of its service, with the host filled in.
LEMMA OwnIdsAccepted ==
    ASSUME NEW s \in Services, NEW c, ValidRm(s)
    PROVE  Accepts(s, JobId(Validated(s), c)) <=> s # EmptyUrl
<1>1. s \in [scheme : STRING, host : STRING, port : Int]
  BY AdaptorAssumption
<1>2. CASE s = EmptyUrl
  <2>1. Validated(s).host = ""
    BY <1>2 DEF Validated, DefaultRm, EmptyUrl
  <2> QED
    BY <1>2, <2>1 DEF Accepts, Parses, JobId
<1>3. CASE s # EmptyUrl /\ s.scheme = "condor" /\ s.host = ""
  <2> DEFINE v == [s EXCEPT !.host = "localhost"]
  <2>1. Validated(s) = v
    BY <1>3 DEF Validated
  <2>2. v.host = "localhost" /\ v.scheme = "condor" /\ v.port = s.port
    BY <1>1, <1>3
  <2>3. JobId(Validated(s), c).rm = v
    BY <2>1 DEF JobId
  <2> HIDE DEF v
  <2> QED
    BY <1>3, <2>2, <2>3 DEF Accepts, Parses
<1>4. CASE s # EmptyUrl /\ s.host # ""
  <2>1. Validated(s) = s /\ s.scheme \in {"condor", "condorg"}
    BY <1>4 DEF Validated, ValidRm
  <2>2. JobId(Validated(s), c).rm = s
    BY <2>1 DEF JobId
  <2> QED
    BY <1>4, <2>1, <2>2 DEF Accepts, Parses
<1> QED
  BY <1>2, <1>3, <1>4 DEF ValidRm

(* The id that a job gets is accepted by every service that could have made *)
(* it, and the search for it finds the pool in which it is registered.      *)
THEOREM EveryIdLeadsBack ==
    Spec => []IdsLeadBack
<1>1. ASSUME IInv, IdsInv
      PROVE  IdsLeadBack
  <2> SUFFICES ASSUME NEW t \in Threads, NEW s \in Services,
                      life[t] = "live", cl[t] \in Own, ValidRm(s),
                      key[t] = <<"rm", Validated(s)>>
               PROVE  /\ Accepts(s, JobId(rm[t], cl[t])) <=> s # EmptyUrl
                      /\ key[t] \in Candidates(rm[t]) /\ jobs[key[t]][cl[t]] # None
    BY DEF IdsLeadBack
  <2>1. key[t] \in RmKeys /\ key[t] \in Keys /\ cl[t] \in Clusters /\ cl[t] # None
    BY UrlSets
  <2>2. url[key[t]] # None /\ jobs[key[t]][cl[t]] # None
    BY <1>1, <2>1 DEF IInv, Attached, AttachedOf
  <2>3. adaptor = "up"
    BY <1>1, HandleKeepsAdaptor
  <2>4. entry[key[t]] = "set"
    BY <1>1, <2>1, <2>2, <2>3 DEF IInv, PoolInv, PoolInvOf
  <2>5. rm[t] = url[key[t]]
    BY <1>1, <2>1 DEF IdsInv, Named, NamedOf
  <2>6. key[t] = <<"rm", url[key[t]]>>
    BY <1>1, <2>1, <2>2 DEF IdsInv, UrlsKept
  <2>7. rm[t] = Validated(s)
    BY <2>5, <2>6, KeyKinds
  <2> QED
    BY <2>1, <2>2, <2>4, <2>5, <2>7, OwnIdsAccepted DEF Candidates
<1> QED
  BY <1>1, IdsInvariance, PTL

=============================================================================
