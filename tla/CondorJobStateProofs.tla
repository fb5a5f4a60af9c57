------------------------ MODULE CondorJobStateProofs ------------------------
(***************************************************************************)
(* That the state of a job this process submitted is the one its status in *)
(* Condor stands for once its log has been read, and that a job which has  *)
(* reached a final state stays in it, on a pool that does not evict, for   *)
(* any number of threads, handles, clusters and events.                    *)
(*                                                                         *)
(* EventInv says that the state follows the log. Two more links are needed *)
(* and proved inductive here: the log follows the queue (its last event of *)
(* a cluster tells where the process of that event is, and no event of a   *)
(* process follows the one that ends it), and the data of a submission     *)
(* begins with the submission.                                             *)
(***************************************************************************)
EXTENDS CondorJobEventsProofs

-----------------------------------------------------------------------------
\* Data that no job is known of yet is as its handle made it.
Fresh == \A d \in Cpis : ~ClusterKnown(d) => state[d] = "New"

(* A job of this process is registered under the id of its cluster, as      *)
(* running, after condor_submit has created the cluster.                    *)
OwnJoined ==
    /\ \A d \in Cpis : Registered(d) /\ cluster_id[d][1] \in Own =>
          /\ cluster_id[d] = <<cluster_id[d][1]>>
          /\ joined[d].as = "Running"
          /\ Submitted(cluster_id[d][1])
    /\ \A t \in Threads : At(t, "publish") /\ want[t][1] \in Own => Submitted(want[t][1])

\* An event that sets the state of the jobs of a cluster.
Says(e, cl) == e.cluster = cl /\ IsStateEvent(e.type)

\* The log tells of the submission of each cluster.
SubmitLogged ==
    \A cl \in Own : Submitted(cl) =>
        \E i \in 1..Len(file["rm"]) : Says(file["rm"][i], cl)

\* An event after which the job is final.
EndsJob(type) == IsStateEvent(type) /\ StateOfEvent[type] \in FinalStates

\* Such an event tells of a process that has left the queue.
EndedOver ==
    \A p \in Pools : \A i \in 1..Len(file[p]) :
        LET e == file[p][i]
        IN  EndsJob(e.type) => queue[e.cluster][e.proc] \in Over

\* It is the last event of its process.
NothingAfterEnd ==
    \A p \in Pools : \A i, j \in 1..Len(file[p]) :
        i < j /\ EndsJob(file[p][i].type) =>
            file[p][j].cluster # file[p][i].cluster \/ file[p][j].proc # file[p][i].proc

\* The last event of a cluster tells where its process is.
LastOfCluster(p, i) ==
    /\ IsStateEvent(file[p][i].type)
    /\ \A j \in 1..Len(file[p]) : j > i => ~Says(file[p][j], file[p][i].cluster)

LastTells ==
    \A p \in Pools : \A i \in 1..Len(file[p]) :
        LET e == file[p][i]
        IN  LastOfCluster(p, i) => StateOfEvent[e.type] \in Shown(queue[e.cluster][e.proc])

StateInv == /\ Fresh /\ OwnJoined /\ SubmitLogged
            /\ EndedOver /\ NothingAfterEnd /\ LastTells

-----------------------------------------------------------------------------
(* What a step does to the queue and to the logs.                           *)

\* condor_rm marks processes in the queue, or nothing happens in Condor.
Marks ==
    /\ UNCHANGED file
    /\ \A c \in Clusters, q \in Processes :
          \/ queue'[c][q] = queue[c][q]
          \/ queue[c][q] \in Queued /\ queue'[c][q] = "removing"

(* Something happens to process pr of cluster k, and the log tells. A new   *)
(* cluster is told of once for all its processes.                           *)
Happens(k, pr, type) ==
    /\ LogEvent(k, pr, type)
    /\ queue[k][pr] \notin Over
    /\ EndsJob(type) => queue'[k][pr] \in Over
    /\ IsStateEvent(type) => StateOfEvent[type] \in Shown(queue'[k][pr])
    /\ \A c \in Clusters \ {k}, q \in Processes : queue'[c][q] = queue[c][q]
    /\ \/ /\ queue[k][pr] # "none"
          /\ \A q \in Processes \ {pr} : queue'[k][q] = queue[k][q]
          /\ ~IsStateEvent(type) => queue'[k][pr] = queue[k][pr]
       \/ /\ type = "submit"
          /\ \A q \in Processes : queue[k][q] = "none" /\ queue'[k][q] = "idle"

LEMMA CondorHappens ==
    ASSUME "evicted" \notin Mishaps, TypeOK, NEW k \in Clusters, NEW pr \in Processes,
           CondorStep(k, pr)
    PROVE  \E type \in EventTypes : Happens(k, pr, type)
<1>0. queue \in [Clusters -> [Processes -> Places]]
  BY DEF TypeOK, QueueTypeOK
<1>1. PICK h \in Happenings : /\ queue[k][pr] = h[1]
                              /\ queue' = [queue EXCEPT ![k][pr] = h[3]]
                              /\ LogEvent(k, pr, h[2])
  BY DEF CondorStep
<1>2. /\ queue'[k][pr] = h[3]
      /\ \A c \in Clusters \ {k}, q \in Processes : queue'[c][q] = queue[c][q]
      /\ \A q \in Processes \ {pr} : queue'[k][q] = queue[k][q]
  BY <1>0, <1>1
<1>3. h \in {<<"idle", "execute", "running">>, <<"running", "terminated", "completed">>,
             <<"running", "signalled", "crashed">>, <<"running", "badexec", "crashed">>,
             <<"running", "info", "running">>, <<"running", "held", "held">>,
             <<"held", "released", "idle">>, <<"removing", "aborted", "removed">>}
  BY DEF Happenings
<1>4. h[1] \notin Over /\ h[1] # "none" /\ (~IsStateEvent(h[2]) => h[3] = h[1])
  BY <1>3 DEF Over, IsStateEvent
<1>5. EndsJob(h[2]) => h[3] \in Over
  BY <1>3 DEF EndsJob, IsStateEvent, Over, FinalStates, StateOfEvent
<1>6. IsStateEvent(h[2]) => StateOfEvent[h[2]] \in Shown(h[3])
  BY <1>3 DEF IsStateEvent, Shown, Documented, StateOfEvent, StateOfStatus, JobStatus
<1> HIDE DEF Happenings
<1>7. h[2] \in EventTypes
  BY HappeningType
<1> QED
  BY <1>1, <1>2, <1>4, <1>5, <1>6, <1>7 DEF Happens

LEMMA SubmitHappens ==
    ASSUME TypeOK, NEW k \in Own, NEW pr \in Processes, CondorSubmit(k, pr)
    PROVE  Happens(k, pr, "submit")
<1>0. queue \in [Clusters -> [Processes -> Places]] /\ k \in Clusters
  BY DEF TypeOK, QueueTypeOK, Clusters
<1>1. /\ \A q \in Processes : queue[k][q] = "none"
      /\ queue' = [queue EXCEPT ![k] = [q \in Processes |-> "idle"]]
      /\ LogEvent(k, pr, "submit")
  BY DEF CondorSubmit
<1>2. /\ \A q \in Processes : queue'[k][q] = "idle"
      /\ \A c \in Clusters \ {k}, q \in Processes : queue'[c][q] = queue[c][q]
  BY <1>0, <1>1
<1>3. queue[k][pr] \notin Over
  BY <1>1 DEF Over
<1>4. ~EndsJob("submit")
  BY DEF EndsJob, StateOfEvent, FinalStates
<1>5. StateOfEvent["submit"] \in Shown("idle")
  BY DEF Shown, Documented, StateOfEvent, StateOfStatus, JobStatus
<1> QED
  BY <1>1, <1>2, <1>3, <1>4, <1>5 DEF Happens

LEMMA StepHappens ==
    ASSUME "evicted" \notin Mishaps, TypeOK, Next \/ UNCHANGED vars
    PROVE  \/ Marks
           \/ \E k \in Clusters, pr \in Processes, type \in EventTypes : Happens(k, pr, type)
<1>0. queue \in [Clusters -> [Processes -> Places]]
  BY DEF TypeOK, QueueTypeOK
<1>1. UNCHANGED condor_vars => Marks
  BY DEF condor_vars, Marks
<1>2. ASSUME NEW k, NEW prs, CondorRemove(k, prs)
      PROVE  Marks
  BY <1>0, <1>2 DEF CondorRemove, Removable, Marks
<1>3. "submit" \in EventTypes /\ Own \subseteq Clusters
  BY DEF EventTypes, StateOfEvent, Clusters
<1> QED
  BY <1>1, <1>2, <1>3, CondorHappens, SubmitHappens, CondorKinds

\* One event is appended to one log.
LEMMA Appended ==
    ASSUME TypeOK, NEW k \in Clusters, NEW pr \in Processes, NEW type \in EventTypes,
           LogEvent(k, pr, type), NEW p \in Pools
    PROVE  /\ Len(file[p]) \in Nat /\ \A i \in 1..Len(file[p]) : file[p][i] \in Event
           /\ \/ p # PoolOf(k) /\ file'[p] = file[p]
              \/ /\ p = PoolOf(k) /\ Len(file'[p]) = Len(file[p]) + 1
                 /\ \A i \in 1..Len(file[p]) : file'[p][i] = file[p][i]
                 /\ file'[p][Len(file[p]) + 1]
                       = [cluster |-> k, proc |-> pr, type |-> type]
<1> DEFINE e == [cluster |-> k, proc |-> pr, type |-> type]
<1>1. file \in [Pools -> Seq(Event)] /\ e \in Event
  BY DEF TypeOK, QueueTypeOK, Event
<1>2. file' = [file EXCEPT ![PoolOf(k)] = Append(@, e)]
  BY DEF LogEvent
<1> HIDE DEF e
<1>3. CASE p # PoolOf(k)
  BY <1>1, <1>2, <1>3
<1>4. CASE p = PoolOf(k)
  <2>1. file[p] \in Seq(Event) /\ file'[p] = Append(file[p], e)
    BY <1>1, <1>2, <1>4
  <2> QED
    BY <1>1, <1>4, <2>1 DEF e
<1> QED
  BY <1>3, <1>4

-----------------------------------------------------------------------------
(* The log follows the queue.                                               *)

LEMMA EndedOverStep ==
    ASSUME "evicted" \notin Mishaps, TypeOK, EndedOver, Next \/ UNCHANGED vars
    PROVE  EndedOver'
<1> SUFFICES ASSUME NEW p \in Pools, NEW i \in 1..Len(file'[p]), EndsJob(file'[p][i].type)
             PROVE  queue'[file'[p][i].cluster][file'[p][i].proc] \in Over
  BY DEF EndedOver
<1>1. \A n \in 1..Len(file[p]) : file[p][n].cluster \in Clusters /\ file[p][n].proc \in Processes
  BY FileStep DEF Event
<1>2. ASSUME i \in 1..Len(file[p]), file'[p][i] = file[p][i]
      PROVE  queue[file'[p][i].cluster][file'[p][i].proc] \in Over
  BY <1>2 DEF EndedOver
<1>3. CASE Marks
  <2>1. i \in 1..Len(file[p]) /\ file'[p][i] = file[p][i]
    BY <1>3 DEF Marks
  <2>2. Over \cap Queued = {}
    BY DEF Over, Queued
  <2> QED
    BY <1>1, <1>2, <1>3, <2>1, <2>2 DEF Marks
<1>4. ASSUME NEW k \in Clusters, NEW pr \in Processes, NEW type \in EventTypes,
             Happens(k, pr, type)
      PROVE  queue'[file'[p][i].cluster][file'[p][i].proc] \in Over
  <2>1. \/ i \in 1..Len(file[p]) /\ file'[p][i] = file[p][i]
        \/ file'[p][i] = [cluster |-> k, proc |-> pr, type |-> type]
    <3>1. LogEvent(k, pr, type)
      BY <1>4 DEF Happens
    <3> QED
      BY <3>1, Appended
  <2>2. CASE i \in 1..Len(file[p]) /\ file'[p][i] = file[p][i]
    <3>1. PICK c \in Clusters, q \in Processes :
                file'[p][i].cluster = c /\ file'[p][i].proc = q
      BY <1>1, <2>2
    <3>2. queue[c][q] \in Over /\ queue[k][pr] \notin Over /\ "none" \notin Over
      BY <1>2, <1>4, <2>2, <3>1 DEF Happens, Over
    <3>3. queue'[c][q] = queue[c][q]
      BY <1>4, <3>2 DEF Happens
    <3> QED
      BY <3>1, <3>2, <3>3
  <2>3. CASE file'[p][i] = [cluster |-> k, proc |-> pr, type |-> type]
    BY <1>4, <2>3 DEF Happens
  <2> QED
    BY <2>1, <2>2, <2>3
<1> QED
  BY <1>3, <1>4, StepHappens

LEMMA NothingAfterEndStep ==
    ASSUME "evicted" \notin Mishaps, TypeOK, EndedOver, NothingAfterEnd, Next \/ UNCHANGED vars
    PROVE  NothingAfterEnd'
<1> SUFFICES ASSUME NEW p \in Pools, NEW i \in 1..Len(file'[p]), NEW j \in 1..Len(file'[p]),
                    i < j, EndsJob(file'[p][i].type)
             PROVE  \/ file'[p][j].cluster # file'[p][i].cluster
                    \/ file'[p][j].proc # file'[p][i].proc
  BY DEF NothingAfterEnd
<1>1. CASE Marks
  BY <1>1 DEF Marks, NothingAfterEnd
<1>2. ASSUME NEW k \in Clusters, NEW pr \in Processes, NEW type \in EventTypes,
             Happens(k, pr, type)
      PROVE  \/ file'[p][j].cluster # file'[p][i].cluster
             \/ file'[p][j].proc # file'[p][i].proc
  <2>1. /\ i \in 1..Len(file[p]) /\ file'[p][i] = file[p][i]
        /\ \/ j \in 1..Len(file[p]) /\ file'[p][j] = file[p][j]
           \/ file'[p][j] = [cluster |-> k, proc |-> pr, type |-> type]
    <3>1. LogEvent(k, pr, type)
      BY <1>2 DEF Happens
    <3> QED
      BY <3>1, Appended
  <2>2. queue[file[p][i].cluster][file[p][i].proc] \in Over /\ queue[k][pr] \notin Over
    BY <1>2, <2>1 DEF EndedOver, Happens
  <2>3. CASE j \in 1..Len(file[p]) /\ file'[p][j] = file[p][j]
    BY <2>1, <2>3 DEF NothingAfterEnd
  <2>4. CASE file'[p][j] = [cluster |-> k, proc |-> pr, type |-> type]
    BY <2>1, <2>2, <2>4
  <2> QED
    BY <2>1, <2>3, <2>4
<1> QED
  BY <1>1, <1>2, StepHappens

LEMMA LastTellsStep ==
    ASSUME "evicted" \notin Mishaps, TypeOK, LogsTell, LastTells, Next \/ UNCHANGED vars
    PROVE  LastTells'
<1> SUFFICES ASSUME NEW p \in Pools, NEW i \in 1..Len(file'[p]), LastOfCluster(p, i)'
             PROVE  StateOfEvent[file'[p][i].type]
                        \in Shown(queue'[file'[p][i].cluster][file'[p][i].proc])
  BY DEF LastTells
<1>1. \A n \in 1..Len(file[p]) : file[p][n] \in Event /\ PoolOf(file[p][n].cluster) = p
  BY FileStep DEF LogsTell
<1>2. /\ IsStateEvent(file'[p][i].type)
      /\ \A j \in 1..Len(file'[p]) : j > i => ~Says(file'[p][j], file'[p][i].cluster)
  BY DEF LastOfCluster
<1>3. ASSUME i \in 1..Len(file[p]), \A n \in 1..Len(file[p]) : file'[p][n] = file[p][n],
             Len(file[p]) \in Nat, Len(file'[p]) >= Len(file[p]), Len(file'[p]) \in Nat
      PROVE  /\ StateOfEvent[file'[p][i].type]
                    \in Shown(queue[file'[p][i].cluster][file'[p][i].proc])
             /\ file'[p][i].cluster \in Clusters /\ file'[p][i].proc \in Processes
             /\ StateOfEvent[file'[p][i].type] \in States
             /\ PoolOf(file'[p][i].cluster) = p
  <2>1. LastOfCluster(p, i)
    BY <1>2, <1>3 DEF LastOfCluster
  <2>2. file[p][i] \in Event /\ PoolOf(file[p][i].cluster) = p
    BY <1>1, <1>3
  <2>3. StateOfEvent[file[p][i].type] \in States
    BY <1>2, <1>3, <2>2 DEF Event, EventTypes, IsStateEvent, StateOfEvent, States
  <2> QED
    BY <1>3, <2>1, <2>2, <2>3 DEF LastTells, Event
<1>4. CASE Marks
  <2>1. UNCHANGED file /\ Len(file[p]) \in Nat
    BY <1>4, FileStep DEF Marks
  <2>2. PICK c \in Clusters, q \in Processes :
              file'[p][i].cluster = c /\ file'[p][i].proc = q
    BY <1>3, <2>1
  <2>3. \/ queue'[c][q] = queue[c][q]
        \/ queue[c][q] \in Queued /\ queue'[c][q] = "removing"
    BY <1>4 DEF Marks
  <2>4. \A place \in Queued : Shown(place) \subseteq Shown("removing")
    BY DEF Queued, Shown, Documented, JobStatus, StateOfStatus
  <2> QED
    BY <1>3, <2>1, <2>2, <2>3, <2>4
<1>5. ASSUME NEW k \in Clusters, NEW pr \in Processes, NEW type \in EventTypes,
             Happens(k, pr, type)
      PROVE  StateOfEvent[file'[p][i].type]
                 \in Shown(queue'[file'[p][i].cluster][file'[p][i].proc])
  <2>0. LogEvent(k, pr, type)
    BY <1>5 DEF Happens
  <2>1. ASSUME i \in 1..Len(file[p]), \A n \in 1..Len(file[p]) : file'[p][n] = file[p][n],
               Len(file[p]) \in Nat, Len(file'[p]) >= Len(file[p]), Len(file'[p]) \in Nat,
               file'[p][i].cluster = k => ~IsStateEvent(type)
        PROVE  StateOfEvent[file'[p][i].type]
                   \in Shown(queue'[file'[p][i].cluster][file'[p][i].proc])
    <3>1. PICK c \in Clusters, q \in Processes :
                file'[p][i].cluster = c /\ file'[p][i].proc = q
      BY <1>3, <2>1
    <3>2. queue'[c][q] = queue[c][q]
      <4>1. CASE c # k
        BY <1>5, <4>1 DEF Happens
      <4>2. CASE c = k
        <5>1. ~IsStateEvent(type) /\ type # "submit"
          BY <2>1, <3>1, <4>2 DEF IsStateEvent
        <5> QED
          BY <1>5, <4>2, <5>1 DEF Happens
      <4> QED
        BY <4>1, <4>2
    <3> QED
      BY <1>3, <2>1, <3>1, <3>2
  <2>2. CASE p # PoolOf(k)
    <3>1. file'[p] = file[p] /\ Len(file[p]) \in Nat
      BY <2>0, <2>2, Appended
    <3>2. file'[p][i].cluster # k
      BY <1>3, <2>2, <3>1
    <3> QED
      BY <2>1, <3>1, <3>2
  <2>3. CASE p = PoolOf(k)
    <3>1. /\ Len(file[p]) \in Nat /\ Len(file'[p]) = Len(file[p]) + 1
          /\ \A n \in 1..Len(file[p]) : file'[p][n] = file[p][n]
          /\ file'[p][Len(file[p]) + 1] = [cluster |-> k, proc |-> pr, type |-> type]
      BY <2>0, <2>3, Appended
    <3>2. CASE i = Len(file[p]) + 1
      <4>1. file'[p][i] = [cluster |-> k, proc |-> pr, type |-> type]
        BY <3>1, <3>2
      <4>2. IsStateEvent(type)
        BY <1>2, <4>1
      <4>3. StateOfEvent[type] \in Shown(queue'[k][pr])
        BY <1>5, <4>2 DEF Happens
      <4> QED
        BY <4>1, <4>3
    <3>3. CASE i \in 1..Len(file[p])
      <4>1. ~Says(file'[p][Len(file[p]) + 1], file'[p][i].cluster)
        BY <1>2, <3>1, <3>3
      <4>2. file'[p][i].cluster = k => ~IsStateEvent(type)
        BY <3>1, <4>1 DEF Says
      <4>3. Len(file'[p]) \in Nat /\ Len(file'[p]) >= Len(file[p])
        BY <3>1
      <4> QED
        BY <2>1, <3>1, <3>3, <4>2, <4>3
    <3> QED
      BY <3>1, <3>2, <3>3
  <2> QED
    BY <2>2, <2>3
<1> QED
  BY <1>4, <1>5, StepHappens

LEMMA SubmitLoggedStep ==
    ASSUME "evicted" \notin Mishaps, TypeOK, SubmitLogged, Next \/ UNCHANGED vars
    PROVE  SubmitLogged'
<1> SUFFICES ASSUME NEW cl \in Own, Submitted(cl)'
             PROVE  \E i \in 1..Len(file'["rm"]) : Says(file'["rm"][i], cl)
  BY DEF SubmitLogged, Says
<1>0. cl \in Clusters /\ "rm" \in Pools
  BY DEF Clusters, Pools
<1>1. ASSUME Submitted(cl)
      PROVE  \E i \in 1..Len(file'["rm"]) : Says(file'["rm"][i], cl)
  <2>1. PICK i \in 1..Len(file["rm"]) : Says(file["rm"][i], cl)
    BY <1>1 DEF SubmitLogged
  <2>2. i \in 1..Len(file'["rm"]) /\ file'["rm"][i] = file["rm"][i]
    BY <1>0, FileStep
  <2> QED
    BY <2>1, <2>2
<1>2. CASE Marks
  <2>1. "none" \notin Queued
    BY DEF Queued
  <2>2. Submitted(cl)
    BY <1>0, <1>2, <2>1 DEF Marks, Submitted
  <2> QED
    BY <1>1, <2>2
<1>3. ASSUME NEW k \in Clusters, NEW pr \in Processes, NEW type \in EventTypes,
             Happens(k, pr, type), ~Submitted(cl)
      PROVE  \E i \in 1..Len(file'["rm"]) : Says(file'["rm"][i], cl)
  <2>1. cl = k
    BY <1>0, <1>3 DEF Submitted, Happens
  <2>2. type = "submit" /\ LogEvent(k, pr, type)
    BY <1>3, <2>1 DEF Submitted, Happens
  <2>3. "rm" = PoolOf(k)
    BY <2>1 DEF PoolOf
  <2>4. /\ Len(file["rm"]) \in Nat /\ Len(file'["rm"]) = Len(file["rm"]) + 1
        /\ file'["rm"][Len(file["rm"]) + 1]
              = [cluster |-> k, proc |-> pr, type |-> type]
    BY <1>0, <2>2, <2>3, Appended
  <2>5. Says(file'["rm"][Len(file["rm"]) + 1], cl)
    BY <2>1, <2>2, <2>4 DEF Says, IsStateEvent
  <2> QED
    BY <2>4, <2>5
<1> QED
  BY <1>1, <1>2, <1>3, StepHappens

-----------------------------------------------------------------------------
(* The data of a job begins with the job.                                   *)

LEMMA FreshStep ==
    ASSUME CacheInv, Fresh, \A t \in Threads : CallReady(t), Next \/ UNCHANGED vars
    PROVE  Fresh'
<1>0. /\ CallsNamed /\ StartedKnown /\ CallsOnHandles /\ NoId \notin Ids
      /\ cluster_id \in [Cpis -> Ids \cup {NoId}] /\ state \in [Cpis -> States]
  BY NoIdType DEF CacheInv, Inv, TypeOK, DataTypeOK
<1> SUFFICES ASSUME NEW d \in Cpis, cluster_id'[d] = NoId
             PROVE  state'[d] = "New"
  BY DEF Fresh, ClusterKnown
<1>1. ASSUME cluster_id'[d] = cluster_id[d], state'[d] = state[d]
      PROVE  state'[d] = "New"
  BY <1>1 DEF Fresh, ClusterKnown
<1>2. ASSUME NEW t \in Threads, Enters(t)
      PROVE  state'[d] = "New"
  BY <1>0, <1>1, <1>2 DEF Enters
<1>3. ASSUME NEW t \in Threads, QueryJob(t)
      PROVE  state'[d] = "New"
  <2>1. CASE d # me[t]
    BY <1>1, <1>3, <2>1, QueryShape
  <2>2. CASE d = me[t]
    <3>1. want[t] \in Ids
      BY <1>0, <1>3 DEF QueryJob, Step, At, CallsNamed
    <3>2. cluster_id' # [cluster_id EXCEPT ![me[t]] = want[t]]
      BY <1>0, <2>2, <3>1
    <3>3. UNCHANGED <<state, cluster_id>>
      BY <1>3, <3>2 DEF QueryJob
    <3> QED
      BY <1>1, <3>3
  <2> QED
    BY <2>1, <2>2
<1>4. ASSUME NEW t \in Threads, Opens(t)
      PROVE  state'[d] = "New"
  BY <1>1, <1>4 DEF Opens, data_vars
<1>5. ASSUME NEW p \in Pools, LogStep(p)
      PROVE  state'[d] = "New"
  <2>1. UNCHANGED cluster_id /\ (state'[d] = state[d] \/ (Apply(p) /\ target[p] = d))
    BY <1>5, LogShape
  <2>2. target[p] # d
    BY <1>0, <2>1, JobAssumption DEF StartedKnown, ClusterKnown
  <2> QED
    BY <1>1, <2>1, <2>2
<1>6. CASE UNCHANGED <<reg_data, log_vars>>
  BY <1>1, <1>6 DEF reg_data
<1> QED
  BY <1>2, <1>3, <1>4, <1>5, <1>6, StepKinds

\* A thread that begins to publish has just submitted.
LEMMA PublishNew ==
    ASSUME CacheInv, Next \/ UNCHANGED vars,
           NEW t \in Threads, At(t, "publish")'
    PROVE  (At(t, "publish") /\ want'[t] = want[t]) \/ Submit(t)
<1> DEFINE Stays == At(t, "publish") /\ want'[t] = want[t]
<1>0. pc'[t] = "publish" /\ ThreadTypeOK
  BY DEF At, CacheInv, Inv, TypeOK
<1>1. ASSUME pc'[t] = pc[t], want'[t] = want[t]
      PROVE  Stays
  BY <1>0, <1>1 DEF At
<1>2. ASSUME NEW u \in Threads, u # t, Begin(u) \/ Continue(u) \/ SpuriousWake(u)
      PROVE  Stays
  <2>1. IdsFrame(u)
    BY <1>2, FrameOfCalls DEF CacheInv
  <2> QED
    BY <1>1, <1>2, <2>1 DEF IdsFrame
<1>3. ASSUME Begin(t) \/ Continue(t) \/ SpuriousWake(t)
      PROVE  Stays \/ Submit(t)
  <2>1. CASE UNCHANGED thread_vars
    BY <1>1, <2>1 DEF thread_vars
  <2>2. ASSUME NEW point, point # "publish",
               \/ Goto(t, point)
               \/ \E c, id, bound : Call(t, point, c, id, bound)
        PROVE  FALSE
    BY <1>0, <2>2 DEF Goto, Call, ThreadTypeOK
  <2>3. CASE Begin(t)
    <3>1. ASSUME NEW c \in Cpis, NewJob(t, c) \/ GetState(t, c)
          PROVE  UNCHANGED thread_vars
      BY <3>1, Zenon DEF NewJob, GetState
    <3>2. ASSUME NEW c \in Cpis, NEW id \in PickIds, FindJob(t, c, id)
          PROVE  FALSE
      BY <2>2, <3>2 DEF FindJob
    <3>3. ASSUME NEW c \in Cpis, RunCheck(t, c)
          PROVE  FALSE
      BY <2>2, <3>3 DEF RunCheck
    <3>4. ASSUME NEW c \in Cpis, NEW bound \in Patiences,
                 WaitEnter(t, c, bound) \/ CancelCheck(t, c, bound)
          PROVE  FALSE
      BY <2>2, <3>4 DEF WaitEnter, CancelCheck
    <3>5. ASSUME NEW c \in Cpis, Release(t, c)
          PROVE  UNCHANGED thread_vars
      BY <2>2, <3>5 DEF Release
    <3> QED
      BY <2>1, <2>3, <3>1, <3>2, <3>3, <3>4, <3>5 DEF Begin
  <2>4. CASE SpuriousWake(t)
    BY <2>2, <2>4 DEF SpuriousWake
  <2>5. CASE QueryJob(t) \/ OpenLog(t) \/ Attach(t)
    <3>1. QueryJob(t) => \E point \in {"idle", "register", "openlog"} :
             Goto(t, point) \/ \E c, id, bound : Call(t, point, c, id, bound)
      BY DEF QueryJob, Return
    <3>2. OpenLog(t) => Goto(t, "register")
      BY DEF OpenLog
    <3>3. Attach(t) => Call(t, "idle", None, NoId, "zero")
      BY DEF Attach, Return
    <3> QED
      BY <2>2, <2>5, <3>1, <3>2, <3>3
  <2>6. CASE Register(t) \/ Publish(t)
    <3>1. Abort => UNCHANGED thread_vars
      BY DEF Abort
    <3>2. Register(t) => Abort \/ Goto(t, "attach")
      BY DEF Register
    <3>3. Publish(t) => Abort \/ Call(t, "idle", None, NoId, "zero")
      BY DEF Publish, Return
    <3> QED
      BY <2>1, <2>2, <2>6, <3>1, <3>2, <3>3
  <2>7. CASE RunGetLog(t) \/ RunLock(t)
    BY <2>2, <2>7 DEF RunGetLog, RunLock
  <2>8. CASE WaitLock(t) \/ Timeout(t)
    <3>1. WaitLock(t) => Goto(t, "waiting") \/ Call(t, "idle", None, NoId, "zero")
      BY DEF WaitLock, Return
    <3>2. Timeout(t) => Call(t, "wait_lock", me[t], NoId, "expired")
      BY DEF Timeout
    <3> QED
      BY <2>2, <2>8, <3>1, <3>2
  <2>9. CASE CancelRm(t) \/ CancelWait(t) \/ Destroy(t)
    <3>1. CancelRm(t) => Goto(t, "cancel_check") \/ Call(t, "idle", None, NoId, "zero")
      BY DEF CancelRm, Return
    <3>2. CancelWait(t) => Goto(t, "wait_lock") \/ Call(t, "idle", None, NoId, "zero")
      BY DEF CancelWait, Return
    <3>3. Destroy(t) => Call(t, "idle", None, NoId, "zero")
      BY DEF Destroy, Return
    <3> QED
      BY <2>2, <2>9, <3>1, <3>2, <3>3
  <2> QED
    BY <1>3, <2>3, <2>4, <2>5, <2>6, <2>7, <2>8, <2>9 DEF Continue
<1>4. ASSUME NEW p \in Pools, LogStep(p)
      PROVE  Stays
  <2>1. UNCHANGED want
    BY <1>4, LogShape
  <2>2. UNCHANGED pc \/ NotifyAll(p)
    BY <1>4, Zenon DEF LogStep, Find, Apply, UpdateState, UpdateDone, thread_vars
  <2>3. NotifyAll(p) => pc'[t] = pc[t]
    BY <1>0 DEF NotifyAll, Woken, At
  <2> QED
    BY <1>1, <2>1, <2>2, <2>3
<1>5. ASSUME Condor \/ UNCHANGED vars
      PROVE  Stays
  BY <1>1, <1>5 DEF Condor, vars, job_vars, thread_vars
<1> QED
  BY <1>2, <1>3, <1>4, <1>5 DEF Next

LEMMA OwnJoinedStep ==
    ASSUME CacheInv, OwnJoined, \A t \in Threads : CallReady(t), Next \/ UNCHANGED vars
    PROVE  OwnJoined'
<1>0. /\ TypeOK /\ Own \subseteq Clusters /\ Unknown \notin Own /\ Own \cap Foreign = {}
      /\ queue \in [Clusters -> [Processes -> Places]] /\ ThreadTypeOK
  BY JobAssumption, QueueAssumption DEF CacheInv, Inv, TypeOK, QueueTypeOK, Clusters
<1>1. \A cl \in Own : Submitted(cl) => Submitted(cl)'
  BY <1>0, SubmittedStep
<1>2. ASSUME NEW d \in Cpis, Registered(d)', cluster_id'[d][1] \in Own
      PROVE  /\ cluster_id'[d] = <<cluster_id'[d][1]>>
             /\ joined'[d].as = "Running"
             /\ Submitted(cluster_id[d][1])'
  <2>1. CASE Registered(d)
    <3>1. cluster_id'[d] = cluster_id[d] /\ joined'[d] = joined[d]
      BY <2>1, RegisteredKept
    <3>2. /\ cluster_id[d] = <<cluster_id[d][1]>> /\ joined[d].as = "Running"
          /\ Submitted(cluster_id[d][1])
      BY <1>2, <2>1, <3>1 DEF OwnJoined
    <3>3. PICK cl \in Own : cl = cluster_id[d][1]
      BY <1>2, <3>1
    <3>4. Submitted(cl)' /\ cl = cluster_id'[d][1]
      BY <1>1, <3>1, <3>2, <3>3
    <3> QED
      BY <3>1, <3>2, <3>4 DEF Submitted
  <2>2. ASSUME NEW t \in Threads, Enters(t), d = me[t]
        PROVE  /\ cluster_id'[d] = <<cluster_id'[d][1]>>
               /\ joined'[d].as = "Running"
               /\ Submitted(cluster_id[d][1])'
    <3>1. cluster_id'[d] = want[t] /\ want[t][1] \in Own /\ pc[t] \in {"register", "publish"}
      BY <1>2, <2>2 DEF Enters
    <3>2. At(t, "publish")
      BY <1>0, <3>1 DEF CallReady, At
    <3>3. PICK cl \in Own : want[t] = <<cl>>
      BY <1>0, <3>1, <3>2 DEF CallReady
    <3>4. Submitted(cl)'
      BY <1>1, <3>1, <3>2, <3>3 DEF OwnJoined
    <3>5. state'[me[t]] = "Running"
      BY <2>2, <3>2 DEF Enters
    <3>6. joined'[me[t]] = [at |-> Passed(PoolOfId(want[t])), as |-> state'[me[t]]]
      BY <2>2, EntersShape
    <3> QED
      BY <2>2, <3>1, <3>3, <3>4, <3>5, <3>6 DEF Submitted
  <2> QED
    BY <1>2, <2>1, <2>2, RegisteredNew
<1>3. ASSUME NEW t \in Threads, At(t, "publish")', want'[t][1] \in Own
      PROVE  Submitted(want[t][1])'
  <2>1. PICK cl \in Own : cl = want'[t][1]
    BY <1>3
  <2>2. CASE At(t, "publish") /\ want'[t] = want[t]
    <3>1. Submitted(cl)
      BY <2>1, <2>2 DEF OwnJoined
    <3> QED
      BY <1>1, <2>1, <3>1 DEF Submitted
  <2>3. CASE Submit(t)
    <3>1. pc'[t] = "publish"
      BY <1>3 DEF At
    <3>2. ~Return(t)
      BY <1>0, <3>1 DEF Return, Call, ThreadTypeOK
    <3>3. PICK k \in Own, pr \in Processes :
             /\ CondorSubmit(k, pr)
             /\ \E id \in {<<k>>, <<Unknown>>} : Call(t, "publish", me[t], id, "zero")
      BY <2>3, <3>2 DEF Submit
    <3>4. want'[t] \in {<<k>>, <<Unknown>>}
      BY <1>0, <3>3 DEF Call, ThreadTypeOK
    <3>5. cl = k
      BY <1>0, <2>1, <3>4
    <3>6. queue'[k][pr] = "idle"
      BY <1>0, <3>3 DEF CondorSubmit
    <3>7. queue'[cl][pr] # "none"
      BY <3>5, <3>6
    <3> QED
      BY <2>1, <3>7 DEF Submitted
  <2> QED
    BY <1>3, <2>2, <2>3, PublishNew
<1> QED
  BY <1>2, <1>3 DEF OwnJoined

-----------------------------------------------------------------------------
(* The invariant.                                                           *)

LEMMA InitStateInv == Init => StateInv
<1> SUFFICES ASSUME Init
             PROVE  StateInv
  OBVIOUS
<1>1. Fresh
  BY DEF Init, Fresh
<1>2. OwnJoined
  BY DEF Init, OwnJoined, Registered, At
<1>3. SubmitLogged
  BY QueueAssumption DEF Init, QueueInit, SubmitLogged, Submitted, Clusters
<1>4. \A p \in Pools : Len(file[p]) = 0
  BY DEF Init, QueueInit
<1> QED
  BY <1>1, <1>2, <1>3, <1>4 DEF StateInv, EndedOver, NothingAfterEnd, LastTells

LEMMA StepStateInv ==
    ASSUME "evicted" \notin Mishaps
    PROVE  EventInv /\ StateInv /\ [Next]_vars => StateInv'
<1> SUFFICES ASSUME EventInv, StateInv, Next \/ UNCHANGED vars
             PROVE  StateInv'
  OBVIOUS
<1>0. /\ CacheInv /\ TypeOK /\ LogsTell /\ \A t \in Threads : CallReady(t)
  BY DEF EventInv, CacheInv, Inv
<1>1. Fresh' /\ OwnJoined'
  BY <1>0, FreshStep, OwnJoinedStep DEF StateInv
<1>2. SubmitLogged' /\ EndedOver'
  BY <1>0, SubmitLoggedStep, EndedOverStep DEF StateInv
<1>3. NothingAfterEnd' /\ LastTells'
  BY <1>0, NothingAfterEndStep, LastTellsStep DEF StateInv
<1> QED
  BY <1>1, <1>2, <1>3 DEF StateInv

(* On a pool that does not evict, the log follows the queue and the data of *)
(* a submission begins with it, whatever threads and log processors do.     *)
THEOREM StateInvariance ==
    ASSUME "evicted" \notin Mishaps
    PROVE  Spec => [](EventInv /\ StateInv)
<1>1. Init => EventInv /\ StateInv
  BY InitEventInv, InitStateInv
<1>2. EventInv /\ StateInv /\ [Next]_vars => (EventInv /\ StateInv)'
  BY StepEventInv, StepStateInv
<1> QED
  BY <1>1, <1>2, PTL DEF Spec

-----------------------------------------------------------------------------
(* The state model of the documentation.                                    *)

LEMMA OwnStands ==
    ASSUME EventInv, StateInv, NEW d \in Cpis, Registered(d), cluster_id[d][1] \in Own,
           Drained(PoolOfData(d))
    PROVE  \E place \in PlacesRead(d) : state[d] \in Shown(place)
<1>0. TypeOK /\ NothingMissed /\ EventsApplied /\ "rm" \in Pools
  BY DEF EventInv, CacheInv, Inv, Pools
<1>1. PICK cl \in Own : cluster_id[d] = <<cl>>
  BY DEF StateInv, OwnJoined
<1>2. Submitted(cl) /\ Unknown \notin Own
  BY <1>1, JobAssumption DEF StateInv, OwnJoined, Clusters
<1>3. PoolOfData(d) = "rm"
  BY <1>1, <1>2 DEF PoolOfData, PoolOfId, PoolOf
<1>4. lpc["rm"] = "reading" /\ tail["rm"] = Len(file["rm"])
  BY <1>3 DEF Drained
<1>5. /\ joined[d].at \in Nat /\ Len(file["rm"]) \in Nat
      /\ \A i \in 1..Len(file["rm"]) : file["rm"][i] \in Event
  BY <1>0, FileStep DEF TypeOK, RegistryTypeOK, QueueTypeOK
<1>6. \A i : i \in Applied(d) <=> /\ i \in (joined[d].at + 1)..Len(file["rm"])
                                  /\ Says(file["rm"][i], cl)
  BY <1>1, <1>3, <1>4 DEF Applied, IsFor, Says
<1>7. Applied(d) # {}
  <2>1. PICK i \in 1..Len(file["rm"]) : Says(file["rm"][i], cl)
    BY <1>2 DEF StateInv, SubmitLogged
  <2>2. i \notin 1..joined[d].at
    BY <1>0, <1>1, <2>1 DEF NothingMissed, Says
  <2> QED
    BY <1>5, <1>6, <2>1, <2>2
<1>8. ~Shadowed(d)
  BY <1>1 DEF Shadowed
<1>9. PICK i \in Applied(d) : /\ \A j \in Applied(d) : j <= i
                              /\ state[d] = StateOfEvent[file["rm"][i].type]
  BY <1>0, <1>3, <1>7, <1>8 DEF EventsApplied
<1>10. i \in 1..Len(file["rm"]) /\ i > joined[d].at /\ Says(file["rm"][i], cl)
  BY <1>5, <1>6, <1>9
<1>11. ASSUME NEW j \in 1..Len(file["rm"]), j > i
       PROVE  ~Says(file["rm"][j], cl)
  <2>1. j \in (joined[d].at + 1)..Len(file["rm"])
    BY <1>5, <1>10, <1>11
  <2>2. j \notin Applied(d)
    BY <1>5, <1>9, <1>10, <1>11
  <2> QED
    BY <1>6, <2>1, <2>2
<1>12. LastOfCluster("rm", i) /\ file["rm"][i].cluster = cl /\ file["rm"][i].proc \in Processes
  BY <1>5, <1>10, <1>11 DEF LastOfCluster, Says, Event
<1>13. state[d] \in Shown(queue[cl][file["rm"][i].proc])
  BY <1>0, <1>9, <1>10, <1>12 DEF StateInv, LastTells
<1>14. queue[cl][file["rm"][i].proc] \in PlacesRead(d)
  BY <1>1, <1>12 DEF PlacesRead
<1> QED
  BY <1>13, <1>14

(* Of the jobs this process submitted, what StateModel says: whatever the   *)
(* program also finds, runs, cancels or waits for, and however many         *)
(* processes a cluster has.                                                 *)
OwnStateModel ==
    \A d \in Cpis :
        Registered(d) /\ cluster_id[d][1] \in Own /\ Drained(PoolOfData(d)) =>
            \E place \in PlacesRead(d) : state[d] \in Shown(place)

THEOREM OwnStatesMatchCondor ==
    ASSUME "evicted" \notin Mishaps
    PROVE  Spec => []OwnStateModel
<1>1. EventInv /\ StateInv => OwnStateModel
  BY OwnStands DEF OwnStateModel
<1> QED
  BY <1>1, StateInvariance, PTL

(* In a program that picks up no job of others, the state of each job is    *)
(* what Shown says of the place of its process, once its log has been read: *)
(* the documented one, but Failed and not Done for a completed process that *)
(* crashed, and Running or Suspended for one that is still being removed.   *)
THEOREM StatesMatchCondor ==
    ASSUME "evicted" \notin Mishaps, Foreign = {}
    PROVE  Spec => []StateModel
<1>1. ASSUME EventInv, StateInv
      PROVE  StateModel
  <2> SUFFICES ASSUME NEW d \in Cpis, Registered(d), cluster_id[d][1] # Unknown,
                      Drained(PoolOfData(d))
               PROVE  \E place \in PlacesRead(d) : state[d] \in Shown(place)
    BY DEF StateModel, ShouldTell
  <2>1. cluster_id[d] \in Ids
    BY <1>1 DEF EventInv, CacheInv, Inv, TypeOK, DataTypeOK, Registered
  <2>2. cluster_id[d][1] \in Own
    BY <2>1 DEF Ids, Clusters
  <2> QED
    BY <1>1, <2>2, OwnStands
<1>2. EventInv /\ StateInv => StateModel
  BY <1>1
<1> QED
  BY <1>2, StateInvariance, PTL

-----------------------------------------------------------------------------
(* A job that is over stays as it is.                                       *)

\* The events that a log processor has at hand are about its target.
LEMMA TargetOfEvent ==
    ASSUME EventInv, NEW p \in Pools, lpc[p] = "found"
    PROVE  /\ target[p] \in Cpis /\ Registered(target[p]) /\ PoolOfData(target[p]) = p
           /\ tail[p] \in Nat /\ tail[p] < Len(file[p]) /\ Len(file[p]) \in Nat
           /\ NextEvent(p) \in Event
           /\ cluster_id[target[p]] \in {<<NextEvent(p).cluster>>,
                                         <<NextEvent(p).cluster, NextEvent(p).proc>>}
<1>0. /\ IdsLead /\ TargetRight /\ LogsLock
      /\ tail[p] \in Nat /\ file[p] \in Seq(Event)
  BY DEF EventInv, CacheInv, Inv, TypeOK, LogTypeOK, QueueTypeOK
<1>1. target[p] \in Cpis /\ tail[p] < Len(file[p])
  BY <1>0 DEF LogsLock
<1>2. PICK e \in Event : e = NextEvent(p)
  BY <1>0, <1>1 DEF NextEvent
<1>3. <<e.cluster>> \in Ids /\ <<e.cluster, e.proc>> \in Ids
  BY <1>2, EventIds
<1>4. target[p] \in {registry[p][<<e.cluster>>], registry[p][<<e.cluster, e.proc>>]}
  BY <1>0, <1>2 DEF TargetRight, Busy
<1>5. PICK id \in Ids : /\ id \in {<<e.cluster>>, <<e.cluster, e.proc>>}
                        /\ target[p] = registry[p][id]
  BY <1>3, <1>4
<1>6. p = PoolOfId(id) /\ cluster_id[target[p]] = id
  BY <1>0, <1>1, <1>5, JobAssumption DEF IdsLead
<1>7. Registered(target[p]) /\ PoolOfData(target[p]) = p
  BY <1>5, <1>6, NoIdType DEF Registered, PoolOfData
<1> QED
  BY <1>0, <1>1, <1>2, <1>5, <1>6, <1>7

(* No event follows, for a job of this process, the one that made it final. *)
LEMMA NoEventAfterFinal ==
    ASSUME EventInv, StateInv, \A q, r \in Processes : q = r,
           NEW p \in Pools, lpc[p] = "found", cluster_id[target[p]][1] \notin Foreign
    PROVE  state[target[p]] \notin FinalStates
<1> SUFFICES ASSUME state[target[p]] \in FinalStates
             PROVE  FALSE
  OBVIOUS
<1>0. /\ tail[p] \in Nat /\ tail[p] < Len(file[p]) /\ Len(file[p]) \in Nat
      /\ target[p] \in Cpis /\ EventsApplied /\ NextEvent(p) \in Event
      /\ NothingAfterEnd
      /\ joined[target[p]].at \in Nat
      /\ \A i \in 1..Len(file[p]) : file[p][i] \in Event
  BY TargetOfEvent, FileStep
     DEF EventInv, CacheInv, Inv, TypeOK, RegistryTypeOK, StateInv, QueueTypeOK
<1>1. PICK d \in Cpis : /\ d = target[p] /\ Registered(d) /\ PoolOfData(d) = p
                        /\ state[d] \in FinalStates
  BY TargetOfEvent
<1>2. PICK cl \in Own : cl = cluster_id[d][1] /\ cl = NextEvent(p).cluster
  BY <1>0, <1>1, TargetOfEvent DEF Event, Clusters
<1>3. cluster_id[d] = <<cl>> /\ joined[d].as = "Running"
  BY <1>1, <1>2 DEF StateInv, OwnJoined
<1>4. ~Shadowed(d)
  BY <1>3 DEF Shadowed
<1>5. \A i \in Applied(d) : /\ i \in (joined[d].at + 1)..tail[p]
                            /\ Says(file[p][i], cl)
  BY <1>1, <1>3 DEF Applied, IsFor, Says
<1>6. Applied(d) # {}
  BY <1>0, <1>1, <1>3, <1>4 DEF EventsApplied, FinalStates
<1>7. PICK i \in Applied(d) : state[d] = StateOfEvent[file[p][i].type]
  BY <1>0, <1>1, <1>4, <1>6 DEF EventsApplied
<1>8. /\ i \in 1..Len(file[p]) /\ tail[p] + 1 \in 1..Len(file[p]) /\ i < tail[p] + 1
      /\ Says(file[p][i], cl)
  BY <1>0, <1>1, <1>5, <1>7
<1>9. EndsJob(file[p][i].type)
  BY <1>1, <1>7, <1>8 DEF EndsJob, Says
<1>10. /\ file[p][i].cluster = cl /\ file[p][tail[p] + 1].cluster = cl
       /\ file[p][i].proc \in Processes /\ file[p][tail[p] + 1].proc \in Processes
  BY <1>0, <1>2, <1>8 DEF NextEvent, Says, Event
<1> QED
  BY <1>0, <1>8, <1>9, <1>10 DEF NothingAfterEnd

LEMMA FinalKept ==
    ASSUME EventInv, StateInv, \A q, r \in Processes : q = r, Next \/ UNCHANGED vars,
           NEW d \in Cpis, state[d] \in FinalStates, cluster_id[d][1] \notin Foreign
    PROVE  state'[d] = state[d]
<1>0. /\ CacheInv /\ CallsOnHandles /\ StartedKnown /\ \A t \in Threads : CallReady(t)
  BY DEF EventInv, CacheInv, Inv
<1>1. ClusterKnown(d)
  BY DEF StateInv, Fresh, FinalStates
<1>2. ASSUME NEW t \in Threads, Enters(t)
      PROVE  state'[d] = state[d]
  <2>1. d # me[t]
    <3>1. CASE pc[t] = "register"
      <4>1. cluster_id[me[t]][1] \in Foreign
        BY <1>0, <3>1 DEF CallReady
      <4> QED
        BY <4>1
    <3>2. CASE pc[t] = "publish"
      <4>1. life[me[t]] = "live" /\ Unnamed(me[t]) /\ me[t] \in Cpis
        BY <1>0, <1>2, <3>2 DEF CallsOnHandles, LifeAt, At, Enters
      <4> QED
        BY <1>0, <1>1, <4>1 DEF StartedKnown
    <3> QED
      BY <1>2, <3>1, <3>2 DEF Enters
  <2> QED
    BY <1>2, <2>1 DEF Enters
<1>3. ASSUME NEW t \in Threads, QueryJob(t)
      PROVE  state'[d] = state[d]
  <2>1. d # me[t]
    BY <1>0, <1>1, <1>3 DEF QueryJob, Step, StartedKnown
  <2> QED
    BY <1>0, <1>3, <2>1, QueryShape
<1>4. ASSUME NEW t \in Threads, Opens(t)
      PROVE  state'[d] = state[d]
  BY <1>4 DEF Opens, data_vars
<1>5. ASSUME NEW p \in Pools, LogStep(p)
      PROVE  state'[d] = state[d]
  <2>1. state'[d] = state[d] \/ (Apply(p) /\ target[p] = d)
    BY <1>0, <1>5, LogShape
  <2>2. Apply(p) => lpc[p] = "found"
    BY DEF Apply, LogAt
  <2> QED
    BY <2>1, <2>2, NoEventAfterFinal
<1>6. CASE UNCHANGED <<reg_data, log_vars>>
  BY <1>6 DEF reg_data
<1> QED
  BY <1>0, <1>2, <1>3, <1>4, <1>5, <1>6, StepKinds

(* On a pool that does not evict, a job of one process that this process    *)
(* submitted stays Done, Canceled or Failed, whatever the handles on it do  *)
(* and whatever other jobs the program picks up.                            *)
OwnFinalLasts ==
    [][\A d \in Cpis : state[d] \in FinalStates /\ cluster_id[d][1] \in Own
                       => state'[d] = state[d]]_vars

THEOREM OwnJobsStayFinal ==
    ASSUME "evicted" \notin Mishaps, \A q, r \in Processes : q = r
    PROVE  Spec => OwnFinalLasts
<1>1. Own \cap Foreign = {}
  BY QueueAssumption
<1>2. ASSUME EventInv, StateInv, [Next]_vars
      PROVE  \A d \in Cpis : state[d] \in FinalStates /\ cluster_id[d][1] \in Own
                             => state'[d] = state[d]
  BY <1>1, <1>2, FinalKept
<1>3. EventInv /\ StateInv /\ [Next]_vars =>
         [\A d \in Cpis : state[d] \in FinalStates /\ cluster_id[d][1] \in Own
                          => state'[d] = state[d]]_vars
  BY <1>2
<1> QED
  BY <1>3, StateInvariance, PTL DEF Spec, OwnFinalLasts

(* The part of SagaJob that holds only then: in a program that picks up no  *)
(* job of others, every job that is over stays as it is, and so the safety  *)
(* part of JobSpec holds.                                                   *)
THEOREM FinalStatesLast ==
    ASSUME "evicted" \notin Mishaps, Foreign = {}, \A q, r \in Processes : q = r
    PROVE  Spec => JobSafety /\ Job!Lasts
<1>1. ASSUME EventInv, StateInv, [Next]_vars
      PROVE  [\A j \in Cpis : state[j] \in Job!FinalStates /\ ~(fault # {})
                              => state'[j] = state[j]]_(Job!vars)
  BY <1>1, FinalKept DEF Job!FinalStates, FinalStates
<1>2. EventInv /\ StateInv /\ [Next]_vars =>
         [\A j \in Cpis : state[j] \in Job!FinalStates /\ ~(fault # {})
                          => state'[j] = state[j]]_(Job!vars)
  BY <1>1
<1>3. Spec => Job!Lasts
  BY <1>2, StateInvariance, PTL DEF Spec, Job!Lasts
<1> QED
  BY <1>3, ImplementsSagaJob

=============================================================================
