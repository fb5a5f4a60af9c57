--------------------------- MODULE LogReaderProofs ---------------------------
(***************************************************************************)
(* That LogReader is type correct, gives only entries to the log processor,*)
(* each at most once and in the order of the file, and loses none of them  *)
(* but those whose head a read has cut: for a log of any length, reads of  *)
(* any size, and any max_wait_for_retry.                                   *)
(***************************************************************************)
EXTENDS LogReader, WellFoundedInduction, TLAPS

-----------------------------------------------------------------------------
(* The inductive invariant.                                                 *)

\* Where there is the first character of an entry, there is all of it.
WellFormed ==
    \A j \in 1..Len(log) :
        log[j] = "<" => /\ j + 3 <= Len(log)
                        /\ log[j + 1] = "c" /\ log[j + 2] \in {"good", "bad"}
                        /\ log[j + 3] = "end"

\* The entries delivered are behind the start of data, in order.
Behind ==
    /\ \A k \in 1..Len(delivered) : IsEntry(delivered[k]) /\ delivered[k] + 4 <= from
    /\ \A k \in 1..Len(delivered) : \A l \in 1..(k - 1) : delivered[l] < delivered[k]

\* If the last character read begins an entry, the read has cut it.
LastCut == pos > first /\ log[pos] = "<" => pos - 1 \in cuts

\* waited_for_retry is never started.
NeverWaits == waited = 0

IInv == TypeOK /\ WellFormed /\ Behind /\ LostOnlyByCut /\ LastCut /\ NeverWaits

-----------------------------------------------------------------------------
(* What the operators of the parse loop return.                             *)

\* A set of numbers that is not empty has a least one.
LEMMA LeastElement ==
    ASSUME NEW S \in SUBSET Nat, S # {}
    PROVE  \E i \in S : \A j \in S : i <= j
<1>1. PICK i \in S : \A j \in S : ~ (<<j, i>> \in OpToRel(<, Nat))
  BY NatLessThanWellFounded, WFMin, Zenon
<1>2. \A j \in S : ~ (j < i)
  BY <1>1 DEF OpToRel
<1> QED
  BY <1>2

(* skip_to_classad stops at the first head there is in data, or has used up *)
(* data when there is none.                                                 *)
LEMMA SkipStops ==
    ASSUME TypeOK, NEW start \in Nat, start <= pos
    PROVE  /\ Skip(start) \in Nat /\ start <= Skip(start) /\ Skip(start) <= pos
           /\ \/ Skip(start) = pos /\ Heads(start) = {}
              \/ Skip(start) \in Heads(start)
           /\ \A j \in Heads(start) : Skip(start) <= j
<1>1. Heads(start) \in SUBSET Nat
  BY DEF Heads, TypeOK
<1>2. CASE Heads(start) = {}
  BY <1>2 DEF Skip, TypeOK
<1>3. CASE Heads(start) # {}
  <2>1. \E i \in Heads(start) : \A j \in Heads(start) : i <= j
    BY <1>1, <1>3, LeastElement
  <2>2. Skip(start) \in Heads(start) /\ \A j \in Heads(start) : Skip(start) <= j
    BY <1>3, <2>1 DEF Skip
  <2> QED
    BY <2>2 DEF Heads, TypeOK
<1> QED
  BY <1>2, <1>3

\* What a write leaves of the log, and what it puts behind it.
LEMMA WrittenBehind ==
    ASSUME TypeOK, NEW w \in Written, log' = log \o w
    PROVE  /\ log' \in Seq(Token) /\ Len(log') = Len(log) + Len(w)
           /\ \A j \in 1..Len(log) : log'[j] = log[j]
           /\ \A j \in 1..Len(w) : log'[Len(log) + j] = w[j]
           /\ \/ Len(w) = 1 /\ w[1] = "junk"
              \/ /\ Len(w) = 4 /\ w[1] = "<" /\ w[2] = "c" /\ w[3] \in {"good", "bad"}
                 /\ w[4] = "end"
<1>1. w \in Seq(Token)
  <2>1. \A a \in Token : Entry(a) \in Seq(Token) /\ <<a>> \in Seq(Token)
    BY DEF Entry, Token
  <2> QED
    BY <2>1 DEF Written, Token
<1>2. \/ Len(w) = 1 /\ w[1] = "junk"
      \/ /\ Len(w) = 4 /\ w[1] = "<" /\ w[2] = "c" /\ w[3] \in {"good", "bad"}
         /\ w[4] = "end"
  BY DEF Written, Entry
<1> QED
  BY <1>1, <1>2 DEF TypeOK

-----------------------------------------------------------------------------
(* Every step keeps the invariant.                                          *)

\* The round of the parse loop, with the place where it stops.
LEMMA ParseRoundOutcome ==
    ASSUME IInv, ParseRound
    PROVE  \E i \in from..pos :
              /\ from < pos /\ UNCHANGED <<log, first, pos, cuts>>
              /\ \A j \in Heads(from) : i <= j
              /\ (i = pos /\ Heads(from) = {}) \/ i \in Heads(from)
              /\ \/ /\ i \in Heads(from) /\ i + 4 <= pos
                    /\ log[i + 3] = "good" /\ log[i + 4] = "end"
                    /\ from' = i + 4
                    /\ delivered' = Append(delivered, i)
                    /\ pc' = "parse" /\ waited' = 0
                 \/ /\ from' = i /\ pc' = "read" /\ waited' = 0
                    /\ UNCHANGED delivered
<1>1. waited = 0 /\ ~(waited > MaxWait)
  BY ReaderAssumption DEF IInv, NeverWaits
<1>2. from \in Nat /\ pos \in Nat /\ from < pos
  BY DEF IInv, TypeOK, ParseRound
<1> DEFINE i == Skip(from)
<1>3. /\ i \in from..pos
      /\ \A j \in Heads(from) : i <= j
      /\ (i = pos /\ Heads(from) = {}) \/ i \in Heads(from)
  BY <1>2, SkipStops DEF IInv
<1>4. /\ UNCHANGED <<log, first, pos, cuts>>
      /\ \/ /\ Parses(i)
            /\ from' = i + 4 /\ delivered' = Append(delivered, i)
            /\ pc' = "parse" /\ waited' = 0
         \/ /\ from' = i /\ pc' = "read" /\ waited' = 0
            /\ UNCHANGED delivered
  BY <1>1 DEF ParseRound, EndOfEntry
<1> HIDE DEF i
<1>5. Parses(i) => /\ i \in Heads(from) /\ i + 4 <= pos
                   /\ log[i + 3] = "good" /\ log[i + 4] = "end"
  BY <1>2, <1>3 DEF Parses
<1> QED
  BY <1>2, <1>3, <1>4, <1>5

\* The iterators stay inside data, and nobody starts waited_for_retry.
LEMMA TypeStep ==
    ASSUME IInv, Next \/ UNCHANGED vars
    PROVE  TypeOK' /\ NeverWaits'
<1>1. CASE Write
  <2>1. PICK w \in Written : log' = log \o w
    BY <1>1 DEF Write
  <2>2. log' \in Seq(Token) /\ Len(log') >= Len(log) /\ Len(log') \in Nat /\ Len(log) \in Nat
    <3>1. /\ log' \in Seq(Token) /\ Len(log') = Len(log) + Len(w)
          /\ Len(w) = 1 \/ Len(w) = 4
      BY <2>1, WrittenBehind DEF IInv
    <3>2. Len(log) \in Nat
      BY DEF IInv, TypeOK
    <3> QED
      BY <3>1, <3>2
  <2> QED
    BY <1>1, <2>2 DEF Write, IInv, TypeOK, NeverWaits
<1>2. ASSUME NEW n \in 1..Buffer, Read(n)
      PROVE  TypeOK' /\ NeverWaits'
  <2>1. n \in Nat /\ n >= 1 /\ pos' = pos + n /\ pos + n <= Len(log)
    BY <1>2, ReaderAssumption DEF Read
  <2>2. cuts' \subseteq Nat
    BY <1>2, <2>1 DEF Read, IInv, TypeOK
  <2> QED
    BY <1>2, <2>1, <2>2 DEF Read, IInv, TypeOK, NeverWaits
<1>3. CASE Poll
  <2>1. waited' = 0 /\ pc' = "read"
    BY <1>3, ReaderAssumption DEF Poll, IInv, NeverWaits
  <2> QED
    BY <1>3, <2>1, ReaderAssumption DEF Poll, IInv, TypeOK, NeverWaits
<1>4. CASE ParseRound
  <2>1. PICK i \in from..pos :
           /\ UNCHANGED <<log, first, pos, cuts>>
           /\ \/ /\ i + 4 <= pos /\ from' = i + 4
                 /\ delivered' = Append(delivered, i)
                 /\ pc' = "parse" /\ waited' = 0
              \/ /\ from' = i /\ pc' = "read" /\ waited' = 0
                 /\ UNCHANGED delivered
    BY <1>4, ParseRoundOutcome
  <2>2. i \in Nat /\ from <= i /\ i <= pos
    <3>1. from \in Nat /\ pos \in Nat
      BY DEF IInv, TypeOK
    <3> QED
      BY <2>1, <3>1
  <2>3. delivered' \in Seq(Nat)
    <3>1. delivered \in Seq(Nat)
      BY DEF IInv, TypeOK
    <3> QED
      BY <2>1, <2>2, <3>1
  <2>4. from' \in Nat /\ from <= from' /\ from' <= pos
    <3>1. from \in Nat /\ pos \in Nat
      BY DEF IInv, TypeOK
    <3> QED
      BY <2>1, <2>2, <3>1
  <2>5. waited' = 0 /\ pc' \in {"read", "parse"}
    BY <2>1
  <2> QED
    BY <2>1, <2>3, <2>4, <2>5, ReaderAssumption DEF IInv, TypeOK, NeverWaits
<1>5. CASE ParseEnd
  BY <1>5 DEF ParseEnd, IInv, TypeOK, NeverWaits
<1>6. CASE UNCHANGED vars
  BY <1>6 DEF vars, IInv, TypeOK, NeverWaits
<1> QED
  BY <1>1, <1>2, <1>3, <1>4, <1>5, <1>6 DEF Next

\* A write changes no entry that has been there, and makes none before it.
LEMMA WriteKeeps ==
    ASSUME IInv, Write
    PROVE  /\ WellFormed'
           /\ \A i \in Nat : i < Len(log) => (IsEntry(i)' <=> IsEntry(i))
           /\ \A j \in 1..Len(log) : log'[j] = log[j]
           /\ Len(log) <= Len(log')
<1>1. PICK w \in Written : log' = log \o w
  BY DEF Write
<1>2. /\ Len(log') = Len(log) + Len(w)
      /\ \A j \in 1..Len(log) : log'[j] = log[j]
      /\ \A j \in 1..Len(w) : log'[Len(log) + j] = w[j]
      /\ \/ Len(w) = 1 /\ w[1] = "junk"
         \/ /\ Len(w) = 4 /\ w[1] = "<" /\ w[2] = "c" /\ w[3] \in {"good", "bad"}
            /\ w[4] = "end"
  BY <1>1, WrittenBehind DEF IInv
<1>3. Len(log) \in Nat /\ first' = first /\ first \in Nat
  BY DEF IInv, TypeOK, Write
<1>4. ASSUME NEW j \in 1..Len(log'), log'[j] = "<"
      PROVE  /\ j + 3 <= Len(log') /\ (j <= Len(log) => j + 3 <= Len(log))
             /\ log'[j + 1] = "c" /\ log'[j + 2] \in {"good", "bad"}
             /\ log'[j + 3] = "end"
  <2>1. CASE j <= Len(log)
    <3>1. j \in 1..Len(log) /\ log[j] = "<"
      BY <1>2, <1>3, <1>4, <2>1
    <3>2. /\ j + 3 <= Len(log)
          /\ log[j + 1] = "c" /\ log[j + 2] \in {"good", "bad"}
          /\ log[j + 3] = "end"
      BY <3>1 DEF IInv, WellFormed
    <3>3. j + 1 \in 1..Len(log) /\ j + 2 \in 1..Len(log) /\ j + 3 \in 1..Len(log)
      BY <1>3, <3>1, <3>2
    <3> QED
      BY <1>2, <1>3, <3>2, <3>3
  <2>2. CASE j > Len(log)
    <3>1. PICK l \in 1..Len(w) : j = Len(log) + l
      <4>1. j - Len(log) \in 1..Len(w) /\ j = Len(log) + (j - Len(log))
        BY <1>2, <1>3, <1>4, <2>2
      <4> QED
        BY <4>1
    <3>2. w[l] = "<"
      BY <1>2, <1>4, <3>1
    <3>3. Len(w) = 4 /\ l = 1
      <4>1. CASE Len(w) = 1 /\ w[1] = "junk"
        BY <3>2, <4>1
      <4>2. CASE /\ Len(w) = 4 /\ w[1] = "<" /\ w[2] = "c" /\ w[3] \in {"good", "bad"}
                 /\ w[4] = "end"
        <5>1. l = 1 \/ l = 2 \/ l = 3 \/ l = 4
          BY <4>2
        <5> QED
          BY <3>2, <4>2, <5>1
      <4> QED
        BY <1>2, <4>1, <4>2
    <3>4. /\ log'[Len(log) + 2] = "c" /\ log'[Len(log) + 3] \in {"good", "bad"}
          /\ log'[Len(log) + 4] = "end"
      BY <1>2, <3>3
    <3>5. j + 1 = Len(log) + 2 /\ j + 2 = Len(log) + 3 /\ j + 3 = Len(log) + 4
      BY <1>3, <3>1, <3>3
    <3> QED
      BY <1>2, <1>3, <2>2, <3>3, <3>4, <3>5
  <2> QED
    BY <1>3, <2>1, <2>2
<1>5. WellFormed'
  BY <1>4 DEF WellFormed
<1>6. ASSUME NEW i \in Nat, i < Len(log)
      PROVE  IsEntry(i)' <=> IsEntry(i)
  <2>1. i + 1 \in 1..Len(log) /\ i + 1 \in 1..Len(log')
    BY <1>2, <1>3, <1>6
  <2>2. log'[i + 1] = log[i + 1]
    BY <1>2, <2>1
  <2>3. i + 4 <= Len(log) => log'[i + 3] = log[i + 3] /\ i + 4 <= Len(log')
    BY <1>2, <1>3
  <2>4. log[i + 1] = "<" => (i + 1) + 3 <= Len(log)
    BY <2>1 DEF IInv, WellFormed
  <2> QED
    BY <1>3, <2>2, <2>3, <2>4 DEF IsEntry
<1> QED
  BY <1>2, <1>3, <1>5, <1>6

\* What is behind the thread is not touched by Condor.
LEMMA WriteStep ==
    ASSUME IInv, Write
    PROVE  WellFormed' /\ Behind' /\ LostOnlyByCut' /\ LastCut'
<1>1. UNCHANGED <<first, from, pos, delivered, cuts>>
  BY DEF Write
<1>2. /\ from \in Nat /\ pos \in Nat /\ first \in Nat /\ from <= pos /\ pos <= Len(log)
      /\ Len(log) \in Nat /\ delivered \in Seq(Nat)
  BY DEF IInv, TypeOK
<1>3. Behind'
  <2>1. ASSUME NEW k \in 1..Len(delivered)
        PROVE  IsEntry(delivered[k])' /\ delivered[k] + 4 <= from
    <3>1. delivered[k] \in Nat /\ IsEntry(delivered[k]) /\ delivered[k] + 4 <= from
      BY <1>2 DEF IInv, Behind
    <3>2. delivered[k] < Len(log)
      BY <1>2, <3>1
    <3>3. delivered'[k] = delivered[k]
      BY <1>1
    <3>4. PICK i \in Nat : i = delivered[k]
      BY <3>1
    <3>5. IsEntry(i)'
      BY <3>1, <3>2, <3>4, WriteKeeps
    <3> QED
      BY <3>1, <3>3, <3>4, <3>5 DEF IsEntry
  <2> QED
    BY <1>1, <2>1 DEF IInv, Behind, IsEntry
<1>4. LostOnlyByCut'
  <2> SUFFICES ASSUME NEW i \in 0..Len(log'), IsEntry(i)', i < from
               PROVE  (Delivered(i) \/ Cut(i))'
    BY <1>1 DEF LostOnlyByCut
  <2>1. i \in Nat /\ i < Len(log) /\ i \in 0..Len(log)
    BY <1>2
  <2>2. IsEntry(i)
    BY <2>1, WriteKeeps
  <2>3. Delivered(i) \/ Cut(i)
    BY <2>1, <2>2 DEF IInv, LostOnlyByCut
  <2> QED
    BY <1>1, <2>3 DEF Delivered, Cut
<1>5. LastCut'
  <2>1. pos > first => pos \in 1..Len(log)
    BY <1>2
  <2>2. pos > first => log'[pos] = log[pos]
    BY <2>1, WriteKeeps
  <2> QED
    BY <1>1, <2>2 DEF IInv, LastCut
<1> QED
  BY <1>3, <1>4, <1>5, WriteKeeps

\* A read takes nothing out of data.
LEMMA ReadStep ==
    ASSUME IInv, NEW n \in 1..Buffer, Read(n)
    PROVE  WellFormed' /\ Behind' /\ LostOnlyByCut' /\ LastCut'
<1>1. /\ UNCHANGED <<log, first, from, delivered>>
      /\ cuts \subseteq cuts'
      /\ log[pos + n] = "<" => pos + n - 1 \in cuts'
      /\ pos' = pos + n
  BY DEF Read
<1>2. WellFormed' /\ Behind'
  BY <1>1 DEF IInv, WellFormed, Behind, IsEntry
<1>3. LostOnlyByCut'
  BY <1>1 DEF IInv, LostOnlyByCut, IsEntry, Delivered, Cut
<1>4. LastCut'
  <2>1. pos \in Nat /\ n \in Nat
    BY ReaderAssumption DEF IInv, TypeOK
  <2> QED
    BY <1>1, <2>1 DEF LastCut
<1> QED
  BY <1>2, <1>3, <1>4

\* An entry before the place where the skipper stopped was cut.
LEMMA PassedCut ==
    ASSUME IInv, NEW i \in from..pos, (i = pos /\ Heads(from) = {}) \/ i \in Heads(from),
           \A h \in Heads(from) : i <= h,
           NEW j \in Nat, IsEntry(j), from <= j, j < i
    PROVE  Cut(j)
<1>1. /\ from \in Nat /\ pos \in Nat /\ first \in Nat /\ first <= from /\ pos <= Len(log)
      /\ Len(log) \in Nat /\ i \in Nat /\ i <= pos
  BY DEF IInv, TypeOK
<1>2. j + 1 \in 1..Len(log) /\ log[j + 1] = "<"
  BY <1>1 DEF IsEntry
<1>3. log[(j + 1) + 1] = "c"
  BY <1>2 DEF IInv, WellFormed
<1>4. (j + 1) + 1 = j + 2
  BY <1>1
<1>5. j \notin Heads(from)
  BY <1>1
<1>6. j \in from..pos
  BY <1>1
<1>7. ~(j + 2 <= pos)
  BY <1>2, <1>3, <1>4, <1>5, <1>6 DEF Heads
<1>8. pos = j + 1 /\ pos - 1 = j
  BY <1>1, <1>7
<1> QED
  BY <1>1, <1>2, <1>8 DEF IInv, LastCut, Cut

\* What a round takes out is delivered, no entry, or cut.
LEMMA ParseStep ==
    ASSUME IInv, ParseRound
    PROVE  WellFormed' /\ Behind' /\ LostOnlyByCut' /\ LastCut'
<1>1. PICK i \in from..pos :
         /\ from < pos /\ UNCHANGED <<log, first, pos, cuts>>
         /\ \A j \in Heads(from) : i <= j
         /\ (i = pos /\ Heads(from) = {}) \/ i \in Heads(from)
         /\ \/ /\ i \in Heads(from) /\ i + 4 <= pos
               /\ log[i + 3] = "good" /\ log[i + 4] = "end"
               /\ from' = i + 4
               /\ delivered' = Append(delivered, i)
            \/ from' = i /\ UNCHANGED delivered
  BY ParseRoundOutcome
<1>2. /\ from \in Nat /\ pos \in Nat /\ first \in Nat /\ first <= from /\ pos <= Len(log)
      /\ Len(log) \in Nat /\ delivered \in Seq(Nat)
      /\ i \in Nat /\ from <= i /\ i <= pos
  BY <1>1 DEF IInv, TypeOK
<1>3. WellFormed' /\ LastCut'
  BY <1>1 DEF IInv, WellFormed, LastCut
<1>4. \A j \in Nat : IsEntry(j)' <=> IsEntry(j)
  BY <1>1 DEF IsEntry
<1>5. ASSUME NEW j \in Nat, IsEntry(j), from <= j, j < i
      PROVE  Cut(j)
  BY <1>1, <1>5, PassedCut
<1>6. CASE from' = i /\ UNCHANGED delivered
  <2>1. Behind'
    <3>1. \A k \in 1..Len(delivered) : delivered[k] \in Nat
      BY <1>2
    <3>2. \A k \in 1..Len(delivered) : delivered[k] + 4 <= i
      BY <1>2, <3>1 DEF IInv, Behind
    <3> QED
      BY <1>1, <1>6, <3>1, <3>2 DEF IInv, Behind, IsEntry
  <2>2. LostOnlyByCut'
    <3> SUFFICES ASSUME NEW j \in 0..Len(log), IsEntry(j), j < i
                 PROVE  Delivered(j) \/ Cut(j)
      BY <1>1, <1>6 DEF LostOnlyByCut, IsEntry, Delivered, Cut
    <3>1. CASE j < from
      BY <3>1 DEF IInv, LostOnlyByCut
    <3>2. CASE from <= j
      BY <1>2, <1>5, <3>2
    <3> QED
      BY <1>2, <3>1, <3>2
  <2> QED
    BY <1>3, <2>1, <2>2
<1>7. CASE /\ i \in Heads(from) /\ i + 4 <= pos
           /\ log[i + 3] = "good" /\ log[i + 4] = "end"
           /\ from' = i + 4
           /\ delivered' = Append(delivered, i)
  <2>1. log[i + 1] = "<" /\ log[i + 2] = "c"
    BY <1>7 DEF Heads
  <2>2. IsEntry(i)
    BY <1>2, <1>7, <2>1 DEF IsEntry
  <2>3. /\ Len(delivered') = Len(delivered) + 1
        /\ \A k \in 1..Len(delivered) : delivered'[k] = delivered[k]
        /\ delivered'[Len(delivered) + 1] = i
    <3>1. delivered \in Seq(Nat) /\ i \in Nat
      BY <1>2
    <3> QED
      BY <1>7, <3>1
  <2>n. Len(delivered) \in Nat /\ \A k \in 1..Len(delivered) : delivered[k] \in Nat
    BY <1>2
  <2>o. from \in Nat /\ i \in Nat /\ from <= i
    BY <1>2
  <2>4. Behind'
    <3>1. ASSUME NEW k \in 1..Len(delivered')
          PROVE  /\ IsEntry(delivered'[k]) /\ delivered'[k] + 4 <= i + 4
                 /\ \A l \in 1..(k - 1) : delivered'[l] < delivered'[k]
      <4>1. CASE k = Len(delivered) + 1
        <5>1. \A l \in 1..(k - 1) : delivered[l] \in Nat /\ delivered[l] + 4 <= from
          BY <2>n, <4>1 DEF IInv, Behind
        <5>2. \A l \in 1..(k - 1) : delivered'[l] = delivered[l]
          BY <2>n, <2>3, <4>1
        <5>3. \A l \in 1..(k - 1) : delivered'[l] < i
          BY <2>o, <5>1, <5>2
        <5> QED
          BY <1>2, <2>2, <2>3, <4>1, <5>3
      <4>2. CASE k # Len(delivered) + 1
        <5>1. k \in 1..Len(delivered)
          BY <2>n, <2>3, <4>2
        <5>2. delivered'[k] = delivered[k] /\ delivered[k] \in Nat
          BY <2>n, <2>3, <5>1
        <5>3. \A l \in 1..(k - 1) : l \in 1..Len(delivered) /\ delivered'[l] = delivered[l]
          BY <2>n, <2>3, <5>1
        <5>4. IsEntry(delivered[k]) /\ delivered[k] + 4 <= from
          BY <5>1 DEF IInv, Behind
        <5>5. \A l \in 1..(k - 1) : delivered[l] < delivered[k]
          BY <5>1 DEF IInv, Behind
        <5>6. delivered[k] + 4 <= i + 4
          BY <2>o, <5>2, <5>4
        <5> QED
          BY <5>2, <5>3, <5>4, <5>5, <5>6
      <4> QED
        BY <4>1, <4>2
    <3> QED
      BY <1>1, <1>7, <3>1 DEF Behind, IsEntry
  <2>5. ASSUME NEW j \in 0..Len(log), IsEntry(j), j < i + 4
        PROVE  Delivered(j)' \/ Cut(j)
    <3>1. CASE j < from
      <4>1. Delivered(j) \/ Cut(j)
        BY <2>5, <3>1 DEF IInv, LostOnlyByCut
      <4>2. Delivered(j) => Delivered(j)'
        BY <1>2, <2>3 DEF Delivered
      <4> QED
        BY <4>1, <4>2
    <3>2. CASE from <= j /\ j < i
      BY <1>5, <2>5, <3>2
    <3>3. CASE j = i
      <4>1. Len(delivered) + 1 \in 1..Len(delivered')
        BY <1>2, <2>3
      <4> QED
        BY <2>3, <3>3, <4>1 DEF Delivered
    <3>4. CASE j > i
      <4>1. j = i + 1 \/ j = i + 2 \/ j = i + 3
        BY <1>2, <2>5, <3>4
      <4>2. /\ (i + 1) + 1 = i + 2 /\ (i + 2) + 1 = i + 3 /\ (i + 3) + 1 = i + 4
        BY <1>2
      <4>3. log[j + 1] # "<"
        BY <1>7, <2>1, <4>1, <4>2
      <4> QED
        BY <2>5, <4>3 DEF IsEntry
    <3> QED
      BY <1>2, <3>1, <3>2, <3>3, <3>4
  <2>6. LostOnlyByCut'
    BY <1>1, <1>7, <2>5 DEF LostOnlyByCut, IsEntry, Delivered, Cut
  <2> QED
    BY <1>3, <2>4, <2>6
<1> QED
  BY <1>1, <1>6, <1>7

\* Every step keeps it.
LEMMA Inductive ==
    IInv /\ [Next]_vars => IInv'
<1> SUFFICES ASSUME IInv, Next \/ UNCHANGED vars
             PROVE  IInv'
  OBVIOUS
<1>1. TypeOK' /\ NeverWaits'
  BY TypeStep
<1>2. CASE UNCHANGED <<log, first, from, pos, delivered, cuts>>
  <2>1. WellFormed' /\ Behind' /\ LostOnlyByCut' /\ LastCut'
    BY <1>2 DEF IInv, WellFormed, Behind, LostOnlyByCut, LastCut, IsEntry, Delivered, Cut
  <2> QED
    BY <1>1, <2>1 DEF IInv
<1>3. CASE Write
  BY <1>1, <1>3, WriteStep DEF IInv
<1>4. ASSUME NEW n \in 1..Buffer, Read(n)
      PROVE  IInv'
  BY <1>1, <1>4, ReadStep DEF IInv
<1>5. CASE ParseRound
  BY <1>1, <1>5, ParseStep DEF IInv
<1> QED
  BY <1>2, <1>3, <1>4, <1>5 DEF Next, Poll, ParseEnd, vars

\* It holds at the start.
LEMMA Initially ==
    Init => IInv
<1> SUFFICES ASSUME Init
             PROVE  IInv
  OBVIOUS
<1>1. /\ log \in Seq(Token) /\ Len(log) \in Nat
      /\ first = Len(log) /\ from = Len(log) /\ pos = Len(log)
  <2>1. <<>> \in Seq(Token) /\ Entry("good") \in Seq(Token)
    <3>1. \A a \in Token : Entry(a) \in Seq(Token)
      BY DEF Entry, Token
    <3> QED
      BY <3>1 DEF Token
  <2>2. log \in Seq(Token)
    BY <2>1 DEF Init
  <2> QED
    BY <2>2 DEF Init
<1>2. TypeOK /\ NeverWaits
  BY <1>1, ReaderAssumption DEF Init, TypeOK, NeverWaits
<1>3. WellFormed
  BY DEF Init, Entry, WellFormed
<1>4. Behind /\ LastCut
  BY DEF Init, Behind, LastCut
<1>5. LostOnlyByCut
  BY <1>1 DEF LostOnlyByCut, IsEntry
<1> QED
  BY <1>2, <1>3, <1>4, <1>5 DEF IInv

\* So it always holds.
LEMMA Invariance ==
    Spec => []IInv
BY Initially, Inductive, PTL DEF Spec

-----------------------------------------------------------------------------
(* Each step is one of EntryStream, or none.                                *)

\* What the entries are for EntryStream.
Entries == {i \in 0..Len(log) : IsEntry(i)}

\* New entries are behind the old ones.
LEMMA WriteMaps ==
    ASSUME IInv, Write
    PROVE  Stream!Write
<1>1. Len(log) \in Nat /\ Len(log') \in Nat /\ UNCHANGED <<delivered, cuts>>
  BY TypeStep DEF IInv, TypeOK, Next, Write
<1>2. /\ \A i \in Nat : i < Len(log) => (IsEntry(i)' <=> IsEntry(i))
      /\ Len(log) <= Len(log')
  BY WriteKeeps
<1>3. \A i \in Entries : i \in Nat /\ i < Len(log)
  BY <1>1 DEF Entries, IsEntry
<1>4. Entries \subseteq Entries'
  BY <1>1, <1>2, <1>3 DEF Entries
<1>5. \A i \in Entries' \ Entries, j \in Entries : j < i
  <2>1. \A i \in Entries' \ Entries : i \in Nat /\ Len(log) <= i
    BY <1>1, <1>2 DEF Entries
  <2> QED
    BY <1>1, <1>3, <2>1
<1> QED
  BY <1>1, <1>4, <1>5 DEF Stream!Write, Entries

\* A read ends behind everything that has been delivered.
LEMMA ReadMaps ==
    ASSUME IInv, NEW n \in 1..Buffer, Read(n)
    PROVE  Stream!Tear
<1>1. /\ UNCHANGED <<log, first, delivered>> /\ cuts \subseteq cuts'
      /\ \A i \in cuts' \ cuts : i = pos + n - 1
  BY DEF Read
<1>2. /\ n \in Nat /\ n >= 1 /\ pos \in Nat /\ from \in Nat /\ from <= pos
      /\ delivered \in Seq(Nat)
  BY ReaderAssumption DEF IInv, TypeOK
<1>3. \A k \in 1..Len(delivered) : delivered[k] \in Nat /\ delivered[k] + 4 <= from
  BY <1>2 DEF IInv, Behind
<1>4. \A i \in Stream!Given : i \in Nat /\ i + 4 <= from
  BY <1>2, <1>3 DEF Stream!Given
<1>5. (cuts' \ cuts) \cap Stream!Given = {}
  BY <1>1, <1>2, <1>4
<1> QED
  BY <1>1, <1>5 DEF Stream!Tear, IsEntry

\* The entry a round finds is the next one.
LEMMA ParseMaps ==
    ASSUME IInv, ParseRound
    PROVE  [Stream!Next]_(Stream!vars)
<1>1. PICK i \in from..pos :
         /\ UNCHANGED <<log, first, pos, cuts>>
         /\ \A j \in Heads(from) : i <= j
         /\ (i = pos /\ Heads(from) = {}) \/ i \in Heads(from)
         /\ \/ /\ i \in Heads(from) /\ i + 4 <= pos
               /\ log[i + 3] = "good"
               /\ delivered' = Append(delivered, i)
            \/ UNCHANGED delivered
  BY ParseRoundOutcome
<1>2. /\ from \in Nat /\ pos \in Nat /\ first \in Nat /\ first <= from /\ pos <= Len(log)
      /\ Len(log) \in Nat /\ delivered \in Seq(Nat)
      /\ i \in Nat /\ from <= i /\ i <= pos
  BY <1>1 DEF IInv, TypeOK
<1>3. Entries' = Entries
  BY <1>1 DEF Entries, IsEntry
<1>4. CASE UNCHANGED delivered
  BY <1>1, <1>3, <1>4 DEF Stream!vars, Entries
<1>5. CASE /\ i \in Heads(from) /\ i + 4 <= pos /\ log[i + 3] = "good"
           /\ delivered' = Append(delivered, i)
  <2>1. i \in Entries
    BY <1>2, <1>5 DEF Entries, IsEntry, Heads
  <2>2. \A k \in 1..Len(delivered) : delivered[k] \in Nat /\ delivered[k] + 4 <= from
    BY <1>2 DEF IInv, Behind
  <2>3. \A j \in Stream!Given : j < i
    <3>1. \A j \in Stream!Given : j \in Nat /\ j + 4 <= from
      BY <1>2, <2>2 DEF Stream!Given
    <3> QED
      BY <1>2, <3>1
  <2>4. ASSUME NEW j \in Entries, j < i
        PROVE  j \in Stream!Given \cup cuts
    <3>1. j \in Nat /\ j \in 0..Len(log) /\ IsEntry(j)
      BY <1>2 DEF Entries
    <3>2. CASE j < from
      <4>1. Delivered(j) \/ Cut(j)
        BY <3>1, <3>2 DEF IInv, LostOnlyByCut
      <4> QED
        BY <1>2, <4>1 DEF Delivered, Cut, Stream!Given
    <3>3. CASE from <= j
      BY <1>1, <2>4, <3>1, <3>3, PassedCut DEF Cut
    <3> QED
      BY <1>2, <3>1, <3>2, <3>3
  <2>5. Stream!Give(i)
    BY <1>1, <1>3, <1>5, <2>3, <2>4 DEF Stream!Give, Entries
  <2> QED
    BY <2>1, <2>5 DEF Stream!Next, Entries
<1> QED
  BY <1>1, <1>4, <1>5

-----------------------------------------------------------------------------
(* The theorems.                                                            *)

(* The iterators of the parse loop stay inside data and the file, whatever  *)
(* is written and however it is read.                                       *)
THEOREM TypeCorrect ==
    Spec => []TypeOK
<1>1. IInv => TypeOK
  BY DEF IInv
<1> QED
  BY <1>1, Invariance, PTL

(* process_log_entry gets entries written since the log processor started,  *)
(* each at most once, in the order of the file.                             *)
THEOREM DeliveredInOrder ==
    Spec => []InOrder
<1>1. IInv => InOrder
  BY DEF IInv, InOrder, Behind
<1> QED
  BY <1>1, Invariance, PTL

(* LogReader implements EntryStream: a write of Condor maps to Write, a read *)
(* that cuts a head to Tear, a round of the parse loop that finds an entry  *)
(* to Give, and all the rest to a stutter.                                  *)
THEOREM ImplementsEntryStream ==
    Spec => StreamSafety
<1>1. Init => Stream!Init
  <2> SUFFICES ASSUME Init
               PROVE  Stream!Init
    OBVIOUS
  <2>1. Len(log) \in Nat /\ first = Len(log) /\ delivered = <<>> /\ cuts = {}
    BY Initially DEF Init, IInv, TypeOK
  <2>2. \A i \in 0..Len(log) : ~IsEntry(i)
    BY <2>1 DEF IsEntry
  <2> QED
    BY <2>1, <2>2 DEF Stream!Init
<1>2. IInv /\ [Next]_vars => [Stream!Next]_(Stream!vars)
  <2> SUFFICES ASSUME IInv, Next \/ UNCHANGED vars
               PROVE  [Stream!Next]_(Stream!vars)
    OBVIOUS
  <2>1. CASE UNCHANGED <<log, first, delivered, cuts>>
    BY <2>1 DEF Stream!vars, IsEntry
  <2>2. CASE Write
    BY <2>2, WriteMaps DEF Stream!Next
  <2>3. ASSUME NEW n \in 1..Buffer, Read(n)
        PROVE  Stream!Next
    BY <2>3, ReadMaps DEF Stream!Next
  <2>4. CASE ParseRound
    BY <2>4, ParseMaps
  <2> QED
    BY <2>1, <2>2, <2>3, <2>4 DEF Next, Poll, ParseEnd, vars
<1> QED
  BY <1>1, <1>2, Invariance, PTL DEF Spec, StreamSafety, Stream!Safety

(* An entry that is taken out of data without having been delivered is one  *)
(* whose first character was the last of a read: no other is lost.          *)
THEOREM OnlyCutsLose ==
    Spec => []LostOnlyByCut
<1>1. IInv => LostOnlyByCut
  BY DEF IInv
<1> QED
  BY <1>1, Invariance, PTL

=============================================================================
