------------------------------ MODULE MCAdaptor ------------------------------
(***************************************************************************)
(* Adaptor for TLC: URLs, job services and the logs of foreign jobs; and   *)
(* small texts and names for Translation.                                  *)
(***************************************************************************)
EXTENDS Adaptor, Translation, TLC

CONSTANTS f1, f2, l1

Local == [scheme |-> "condor", host |-> "localhost", port |-> -1]
Alias == [Local EXCEPT !.host = "myhost"]

LocalNames == {"localhost", "myhost"}

\* A service for condor:// and one without a URL.
TwoServices == {[Local EXCEPT !.host = ""], EmptyUrl}

TwoNames == {Local, Alias}

\* One foreign job has an XML log, the other none.
Xml == [c \in Foreign |-> IF c = f1 THEN l1 ELSE None]

ShortWords == BoundedSeq({"a", " ", "'", "\"", "tab"}, 2)

ShortTexts == BoundedSeq({"a", "&", "<", ">", "'", "\"", "amp", "lt", "gt", "apos", "quot"}, 3)

-----------------------------------------------------------------------------
(* The adaptor with its translations. They have no state that the adaptor  *)
(* reads, so a behaviour either translates one input or is one of Adaptor.  *)
all_vars == <<vars, translation_vars>>

MCInit == Init /\ NothingTranslated

MCNext == /\ kind = "nothing"
          /\ \/ Next /\ UNCHANGED translation_vars
             \/ Init /\ condor_log = None /\ Translate /\ UNCHANGED vars

MCSpec == /\ MCInit /\ [][MCNext]_all_vars
          /\ \A t \in Threads : WF_vars(fault = "none" /\ kind = "nothing" /\ CallStep(t))
          /\ \A k \in Keys : WF_vars(fault = "none" /\ kind = "nothing" /\ ReaderStep(k))
          /\ WF_vars(fault = "none" /\ kind = "nothing" /\ EndStep)

=============================================================================
