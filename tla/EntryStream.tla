----------------------------- MODULE EntryStream -----------------------------
(***************************************************************************)
(* What the log processor is promised, however the log is read: it is given*)
(* the entries in the order in which they were written and each of them    *)
(* once. Its turn passes over an entry only if reading has torn it, and it *)
(* cannot be torn once it has been given. LogReader implements it.         *)
(***************************************************************************)
EXTENDS Naturals, Sequences

VARIABLES entries,  \* what has been written, by its place in the log
          given,    \* the sequence of entries the log processor has been given
          torn      \* entries that may be passed over

vars == <<entries, given, torn>>

Given == {given[k] : k \in DOMAIN given}

Init == entries = {} /\ given = <<>> /\ torn = {}

\* The log is written at its end.
Write == /\ entries \subseteq entries'
         /\ \A i \in entries' \ entries, j \in entries : j < i
         /\ UNCHANGED <<given, torn>>

Tear == /\ torn \subseteq torn'
        /\ (torn' \ torn) \cap Given = {}
        /\ UNCHANGED <<entries, given>>

(* The entry is behind all that have been given, and no entry before it is  *)
(* still to come.                                                           *)
Give(i) == /\ \A j \in Given : j < i
           /\ \A j \in entries : j < i => j \in Given \cup torn
           /\ given' = Append(given, i)
           /\ UNCHANGED <<entries, torn>>

Next == Write \/ Tear \/ \E i \in entries : Give(i)

Safety == Init /\ [][Next]_vars

=============================================================================
