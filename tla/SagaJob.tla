------------------------------- MODULE SagaJob -------------------------------
(***************************************************************************)
(* What a job promises those who watch and wait for it, whatever handles,  *)
(* caches, locks and logs there are: it starts once and never becomes New  *)
(* again, and a wait without a bound ends only when the job is final.      *)
(* Where final states are final in truth, it does end. CondorJob           *)
(* implements it. A program that has broken down promises nothing.         *)
(***************************************************************************)
EXTENDS JobStates

CONSTANTS Jobs, Waiters, None

VARIABLES state,     \* of each job
          started,   \* has the job been submitted or found?
          waiting,   \* the job that each waiter waits for, or None
          broken

vars == <<state, started, waiting, broken>>

Init == /\ state = [j \in Jobs |-> "New"]
        /\ started = [j \in Jobs |-> FALSE]
        /\ waiting = [w \in Waiters |-> None]
        /\ broken = FALSE

\* Submitted by the application, or found in some state.
Start(j) ==
    /\ ~started[j]
    /\ started' = [started EXCEPT ![j] = TRUE]
    /\ \E s \in States \ {"New"} : state' = [state EXCEPT ![j] = s]
    /\ UNCHANGED <<waiting, broken>>

Change(j) ==
    /\ started[j]
    /\ \E s \in States \ {"New"} : state' = [state EXCEPT ![j] = s]
    /\ UNCHANGED <<started, waiting, broken>>

Wait(w, j) ==
    /\ waiting[w] = None /\ started[j]
    /\ waiting' = [waiting EXCEPT ![w] = j]
    /\ UNCHANGED <<state, started, broken>>

Return(w) ==
    /\ waiting[w] # None /\ state[waiting[w]] \in FinalStates
    /\ waiting' = [waiting EXCEPT ![w] = None]
    /\ UNCHANGED <<state, started, broken>>

Break == /\ broken' = TRUE
         /\ UNCHANGED <<state, started, waiting>>

Next == \/ /\ ~broken
           /\ \/ \E j \in Jobs : Start(j) \/ Change(j)
              \/ \E w \in Waiters : Return(w) \/ \E j \in Jobs : Wait(w, j)
              \/ Break
        \/ broken /\ broken'

Safety == Init /\ [][Next]_vars

\* A job that is over stays as it is.
Lasts == [][\A j \in Jobs : state[j] \in FinalStates /\ ~broken
                             => state'[j] = state[j]]_vars

\* A wait for a job that is over returns.
Returns == \A w \in Waiters, j \in Jobs :
    waiting[w] = j /\ state[j] \in FinalStates ~> waiting[w] # j \/ broken

Spec == Safety /\ Lasts /\ Returns

=============================================================================
