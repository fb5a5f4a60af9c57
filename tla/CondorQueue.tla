----------------------------- MODULE CondorQueue -----------------------------
(***************************************************************************)
(* Condor as the adaptor meets it: the processes of each cluster, what     *)
(* condor_submit, condor_rm and condor_q do to or tell of them, and the    *)
(* user log, to which Condor appends an event for what happens to a        *)
(* process. None of this is code of the repository.                        *)
(*                                                                         *)
(* A cluster in Own may be submitted by the modelled process; its events   *)
(* go to the log the adaptor named in the submit description. A cluster in *)
(* Foreign is in the queue when the process starts; its events go to the   *)
(* log its owner chose, or, for a cluster in Quiet, to none in XML.        *)
(***************************************************************************)
EXTENDS JobStates, Naturals, Sequences

CONSTANTS Own,        \* clusters condor_submit may create
          Foreign,    \* clusters submitted by somebody else
          Quiet,      \* the foreign clusters with no XML user log
          Processes,  \* process numbers of a cluster ("queue n")
          Mishaps,    \* what may go wrong with a running job
          MaxEvents   \* bound on the length of a log, for model checking

Clusters == Own \cup Foreign

ASSUME QueueAssumption ==
    /\ Own \cap Foreign = {}
    /\ Quiet \subseteq Foreign
    /\ Processes # {}
    /\ Mishaps \subseteq {"evicted", "signalled", "badexec"}
    /\ MaxEvents \in Nat

VARIABLES queue,   \* queue[cl][pr]: where Condor has process pr of cluster cl
          file     \* file[p]: the events in the log that pool p reads

condor_vars == <<queue, file>>

(* The pools of the adaptor: "rm" holds the jobs it submits, "log" those    *)
(* picked up with an XML log and "nolog" those picked up without one.       *)
Pools == {"rm", "log", "nolog"}

PoolOf(cl) == IF cl \in Own THEN "rm" ELSE IF cl \in Quiet THEN "nolog" ELSE "log"

(* "removing" is a process condor_rm has marked (JobStatus 3) and whose     *)
(* abort event is still to be written; "removed", "completed" and "crashed" *)
(* processes have left the queue, the last ones killed by a signal or with  *)
(* an executable that Condor cannot run.                                    *)
Queued == {"idle", "running", "held", "removing"}
Over   == {"removed", "completed", "crashed"}
Places == {"none"} \cup Queued \cup Over

(* The JobStatus of a process. condor_q prints it for one in the queue; for *)
(* Condor a process that crashed has completed.                             *)
JobStatus(place) ==
    CASE place = "removing" -> "removed"
      [] place = "crashed" -> "completed"
      [] OTHER -> place

Event == [cluster : Clusters, proc : Processes, type : EventTypes]

(* What can happen to a process, and the event that reports it.             *)
Happenings ==
    {<<"idle", "execute", "running">>,
     <<"running", "terminated", "completed">>,
     <<"running", "info", "running">>,
     <<"running", "held", "held">>,
     <<"held", "released", "idle">>,
     <<"removing", "aborted", "removed">>}
    \cup {h \in {<<"running", "evicted", "idle">>,
                 <<"running", "signalled", "crashed">>,
                 <<"running", "badexec", "crashed">>} : h[2] \in Mishaps}

QueueTypeOK ==
    /\ queue \in [Clusters -> [Processes -> Places]]
    /\ file \in [Pools -> Seq(Event)]

QueueInit ==
    /\ queue = [cl \in Clusters |->
                  [pr \in Processes |-> IF cl \in Foreign THEN "running" ELSE "none"]]
    /\ file = [p \in Pools |-> <<>>]

\* Append one event to the log of its cluster.
LogEvent(cl, pr, type) ==
    file' = [file EXCEPT ![PoolOf(cl)] =
               Append(@, [cluster |-> cl, proc |-> pr, type |-> type])]

(* A process moves on and the log tells. The bound leaves room for the      *)
(* events that end a process.                                               *)
CondorStep(cl, pr) ==
    \E h \in Happenings :
        /\ queue[cl][pr] = h[1]
        /\ Len(file[PoolOf(cl)]) < MaxEvents \/ h[3] \in Over
        /\ queue' = [queue EXCEPT ![cl][pr] = h[3]]
        /\ LogEvent(cl, pr, h[2])

(* condor_submit creates the processes of a new cluster. All of them are    *)
(* reported as submitted; one event stands for them, since the others say   *)
(* the same of the same cluster.                                            *)
CondorSubmit(cl, pr) ==
    /\ \A q \in Processes : queue[cl][q] = "none"
    /\ queue' = [queue EXCEPT ![cl] = [q \in Processes |-> "idle"]]
    /\ LogEvent(cl, pr, "submit")

(* condor_rm marks the processes it finds in the queue among prs. It exits  *)
(* before their abort events are written, and with an error if there are    *)
(* none.                                                                    *)
Removable(cl, prs) == {pr \in prs : queue[cl][pr] \in Queued}

CondorRemove(cl, prs) ==
    /\ queue' = [queue EXCEPT ![cl] =
                   [pr \in Processes |-> IF pr \in Removable(cl, prs)
                                           THEN "removing" ELSE queue[cl][pr]]]
    /\ UNCHANGED file

=============================================================================
