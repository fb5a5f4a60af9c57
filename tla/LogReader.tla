------------------------------ MODULE LogReader ------------------------------
(***************************************************************************)
(* How a log processor turns the bytes of the user log into entries:       *)
(* tail_reader, which reads what there is of a growing file, the two loops *)
(* of log_processor::operator(), and classad::find_and_parse, which skips  *)
(* to the next ClassAd and parses it if all of it has been read.           *)
(*                                                                         *)
(* CondorJob takes for granted that each event arrives once and in order.  *)
(* This module says when that is so.                                       *)
(*                                                                         *)
(* The file is a sequence of tokens. An entry is "<", "c", its attributes  *)
(* and "end"; the first two are apart because a read may end between them. *)
(* The attributes are "good", or "bad" when the grammar does not accept    *)
(* them. Whatever else Condor writes is "junk".                            *)
(***************************************************************************)
EXTENDS Naturals, Sequences, FiniteSets

CONSTANTS Buffer,      \* tokens one read can return at most
          MaxWait,     \* max_wait_for_retry
          MaxTokens    \* bound on the file, for model checking

ASSUME ReaderAssumption == /\ Buffer \in Nat \ {0}
                           /\ MaxWait \in Nat
                           /\ MaxTokens \in Nat

VARIABLES log,        \* the file
          first,      \* the file position at which the log processor started
          from, pos,  \* the deque data holds the tokens from + 1 .. pos
          waited,     \* waited_for_retry
          pc,         \* which of the two loops the thread is in
          delivered,  \* positions of the entries given to process_log_entry
          cuts        \* history: entries of which a read ended after the "<"

vars == <<log, first, from, pos, waited, pc, delivered, cuts>>

Token == {"<", "c", "good", "bad", "end", "junk"}

Entry(attributes) == <<"<", "c", attributes, "end">>
Written == {Entry("good"), Entry("bad"), <<"junk">>}

\* The iterators of the loop stay inside the file, and inside data.
TypeOK == /\ log \in Seq(Token)
          /\ first \in Nat /\ first <= from /\ from <= pos /\ pos <= Len(log)
          /\ from \in Nat /\ pos \in Nat
          /\ waited \in 0..(MaxWait + 1)
          /\ pc \in {"read", "parse"}
          /\ delivered \in Seq(Nat)
          /\ cuts \subseteq Nat

(* The thread has opened the file, perhaps with an entry in it already, and *)
(* has sought its end.                                                      *)
Init == /\ log \in {<<>>, Entry("good")}
        /\ first = Len(log) /\ from = Len(log) /\ pos = Len(log)
        /\ waited = 0
        /\ pc = "read"
        /\ delivered = <<>>
        /\ cuts = {}

-----------------------------------------------------------------------------
\* Condor appends to the file.
Write == /\ \E w \in Written : Len(log) + Len(w) <= MaxTokens /\ log' = log \o w
         /\ UNCHANGED <<first, from, pos, waited, pc, delivered, cuts>>

(* tail_reader::read returns what there is, up to the size of the buffer. A *)
(* shorter read than that stands for an entry that was not all written yet. *)
Read(n) == /\ pc = "read"
           /\ pos + n <= Len(log)
           /\ pos' = pos + n
           /\ cuts' = IF log[pos + n] = "<" THEN cuts \cup {pos + n - 1} ELSE cuts
           /\ pc' = "parse"
           /\ UNCHANGED <<log, first, from, waited, delivered>>

(* Nothing to read: sleep, and give up on more input after a while, but     *)
(* only if waited_for_retry has been started, which no statement does.      *)
Poll == /\ pc = "read"
        /\ pos = Len(log)
        /\ waited' = IF waited = 0 THEN 0 ELSE waited + 1
        /\ pc' = IF waited' > MaxWait THEN "parse" ELSE "read"
        /\ UNCHANGED <<log, first, from, pos, delivered, cuts>>

(* skip_to_classad looks for "<c". It takes what it has passed over out of  *)
(* data, and passes over a "<" that is the last character there is.         *)
Heads(start) == {i \in start..pos : i + 2 <= pos /\ log[i + 1] = "<" /\ log[i + 2] = "c"}

\* Mutant: a miss of the skipper ends at the first character.
SkipNothing(start) ==
    IF \E i \in Heads(start) : i = start THEN start ELSE pos

\* Mutant: the search goes on to the last head there is.
SkipToLast(start) ==
    IF Heads(start) = {} THEN pos
    ELSE CHOOSE i \in Heads(start) : \A j \in Heads(start) : j <= i

Skip(start) ==
    IF Heads(start) = {} THEN pos
    ELSE CHOOSE i \in Heads(start) : \A j \in Heads(start) : i <= j

\* Mutant: the grammar wants to see what comes after the entry.
ParsesAhead(i) == i + 5 <= pos /\ log[i + 3] = "good" /\ log[i + 4] = "end"

\* Is there a whole entry at i in data, and one the grammar accepts?
Parses(i) == i + 4 <= pos /\ log[i + 3] = "good" /\ log[i + 4] = "end"

\* Mutants: the entry is not erased from data; one character too many is.
EndOfHead(i) == i
EndOfLine(i) == i + 5

\* Where find_and_parse leaves its iterator after a hit at i.
EndOfEntry(i) == i + 4

(* One round of the parse loop: the characters before the next ClassAd are  *)
(* erased, and the ClassAd with them if it is complete. "Incomplete ClassAd *)
(* entry, go get more input".                                               *)
ParseRound ==
    LET start == IF waited > MaxWait THEN from + 1 ELSE from
        i == Skip(start)
    IN  /\ pc = "parse" /\ from < pos
        /\ \/ /\ Parses(i)
              /\ from' = EndOfEntry(i)
              /\ delivered' = Append(delivered, i)
              /\ pc' = "parse"
              /\ waited' = 0
           \/ /\ ~Parses(i)
              /\ from' = i
              /\ pc' = "read"
              /\ waited' = IF i = pos \/ waited > MaxWait THEN 0 ELSE waited
              /\ UNCHANGED delivered
        /\ UNCHANGED <<log, first, pos, cuts>>

\* All of data has been used up.
ParseEnd == /\ pc = "parse" /\ from = pos
            /\ pc' = "read"
            /\ UNCHANGED <<log, first, from, pos, waited, delivered, cuts>>

Next == \/ Write
        \/ \E n \in 1..Buffer : Read(n)
        \/ Poll
        \/ ParseRound \/ ParseEnd

\* The thread runs; the writer need not write.
Spec == /\ Init /\ [][Next]_vars
        /\ WF_vars(\E n \in 1..Buffer : Read(n))
        /\ WF_vars(ParseRound \/ ParseEnd)

-----------------------------------------------------------------------------
IsEntry(i) == /\ i >= first /\ i + 4 <= Len(log)
              /\ log[i + 1] = "<" /\ log[i + 3] = "good"

Delivered(i) == \E k \in 1..Len(delivered) : delivered[k] = i

\* A read ended between the "<" and the "c" of the entry at i.
Cut(i) == i \in cuts

(* process_log_entry is given entries only, each at most once, in the order *)
(* of the file, and none from before the log processor started.             *)
InOrder ==
    /\ \A k \in 1..Len(delivered) : IsEntry(delivered[k])
    /\ \A k \in 1..Len(delivered) : \A l \in 1..(k - 1) : delivered[l] < delivered[k]

(* An entry that has been erased from data has been given to                *)
(* process_log_entry, unless a read ended right after its first character:  *)
(* wherever else a read ends, nothing is lost.                              *)
LostOnlyByCut ==
    \A i \in 0..Len(log) :
        IsEntry(i) /\ i < from => Delivered(i) \/ Cut(i)

Stream == INSTANCE EntryStream
    WITH entries <- {i \in 0..Len(log) : IsEntry(i)},
         given   <- delivered,
         torn    <- cuts

(* This module implements EntryStream: however the bytes are read and erased*)
(* from data, process_log_entry is given the next entry each time, and      *)
(* passes over one only if a read has cut it before its turn has come.      *)
StreamSafety == Stream!Safety

(* "Incomplete ClassAd entry, go get more input": an entry that has been    *)
(* read in pieces is not lost.                                              *)
NothingLost ==
    \A i \in 0..Len(log) : IsEntry(i) /\ i + 4 <= from => Delivered(i)

\* Is there an entry before i that the grammar does not accept?
BadBefore(i) == \E j \in (first + 1)..i : log[j] = "bad"

(* Each entry reaches process_log_entry, with nothing more written after    *)
(* it, if nothing malformed comes before it and no read cuts its head.      *)
EntriesArrive ==
    \A i \in 0..MaxTokens :
        IsEntry(i) /\ ~BadBefore(i) ~> Delivered(i) \/ Cut(i)

(* The comment in log_processor::operator(): an incomplete record does not  *)
(* "delay processing of other records in the queue indefinitely".           *)
NothingDelays ==
    \A i \in 0..MaxTokens : IsEntry(i) ~> Delivered(i) \/ Cut(i)

=============================================================================
