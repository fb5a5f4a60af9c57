----------------------------- MODULE Translation -----------------------------
(***************************************************************************)
(* The translations of the adaptor: from a SAGA job description to what    *)
(* condor_submit reads (saga_to_condor), and from the XML ClassAds that    *)
(* Condor writes to values (classad). The other end of each, what Condor   *)
(* reads or writes, is here too: Arguments, Effective, Allows, Delivered,  *)
(* Escaped. A step takes one input there and, through Condor, to the end.  *)
(*                                                                         *)
(* Text is a sequence of characters, of which only those matter that one   *)
(* of the two ends treats in a special way.                                *)
(***************************************************************************)
EXTENDS Naturals, Sequences, SequencesExt

CONSTANTS Texts,      \* values of an attribute, before they are escaped
          Words,      \* arguments, or environment settings
          MaxWords,   \* bound on their number
          Settings,   \* values of a scalar attribute, besides an empty one
          Hosts,      \* names of machines
          MaxEntries  \* bound on the entries of a list attribute

\* Text is a sequence, of whatever characters.
ASSUME TextAssumption == \A t \in Texts \cup Words : t \in Seq(Range(t))

VARIABLES kind,   \* what has been translated, or "nothing"
          given,  \* what went in
          got     \* what came out at the other end

translation_vars == <<kind, given, got>>

NothingTranslated == kind = "nothing" /\ given = <<>> /\ got = <<>>

Translated(what, from, to) ==
    /\ kind = "nothing" /\ kind' = what
    /\ given' = from
    /\ got' = to

-----------------------------------------------------------------------------
(* Arguments and Environment: map_attribute_vector.                         *)

Doubled(w, ch) ==
    FlattenSeq([i \in DOMAIN w |-> IF w[i] = ch THEN <<ch, ch>> ELSE <<w[i]>>])

\* Mutant: a word is put in quotes for its spaces, not for its quotes.
QuotedForSpace(w) == LET d == Doubled(w, "\"") IN
    IF Contains(d, " ") THEN <<"'">> \o Doubled(d, "'") \o <<"'">> ELSE d

Quoted(w) == LET d == Doubled(w, "\"") IN
    IF Contains(d, "'") \/ Contains(d, " ")
    THEN <<"'">> \o Doubled(d, "'") \o <<"'">>
    ELSE d

\* What comes between the double quotes; a space follows each word.
ArgumentText(v) == FlattenSeq([i \in DOMAIN v |-> Append(Quoted(v[i]), " ")])

(* Condor's side. Of two double quotes one is left. White space separates   *)
(* words; single quotes keep it together, and in them two stand for one.    *)
UndoubleStep(acc, ch) ==
    IF ch = "\"" /\ ~acc.half THEN [acc EXCEPT !.half = TRUE]
    ELSE [half |-> FALSE, out |-> Append(acc.out, ch)]

Undoubled(text) == FoldLeft(UndoubleStep, [half |-> FALSE, out |-> <<>>], text).out

Space == {" ", "tab"}

SplitStep(acc, ch) ==
    IF acc.in = "quotes" THEN
        IF ch = "'" THEN [acc EXCEPT !.in = "close"] ELSE [acc EXCEPT !.word = Append(@, ch)]
    ELSE IF ch = "'" THEN
        [acc EXCEPT !.in = "quotes",
                    !.word = IF acc.in = "close" THEN Append(@, ch) ELSE @]
    ELSE IF ch \notin Space THEN [acc EXCEPT !.in = "word", !.word = Append(@, ch)]
    ELSE IF acc.in = "gap" THEN acc
    ELSE [in |-> "gap", word |-> <<>>, done |-> Append(acc.done, acc.word)]

Arguments(text) ==
    LET end == FoldLeft(SplitStep, [in |-> "gap", word |-> <<>>, done |-> <<>>],
                        Undoubled(text))
    IN  IF end.in = "gap" THEN end.done ELSE Append(end.done, end.word)

TranslateArguments ==
    \E v \in BoundedSeq(Words, MaxWords) :
        Translated("arguments", v, Arguments(ArgumentText(v)))

LostWord(w) == \/ w = <<>>
               \/ Contains(w, "tab") /\ ~Contains(w, " ") /\ ~Contains(w, "'")

(* The job gets the arguments (and the environment) of the description,     *)
(* whatever quotes and spaces are in them. Only an empty word is lost, and  *)
(* white space other than a space takes a word apart unless a space or a    *)
(* single quote has put it in quotes.                                       *)
ArgumentsArrive ==
    kind = "arguments" =>
        (got = given <=> \A i \in DOMAIN given : ~LostWord(given[i]))

-----------------------------------------------------------------------------
(* Scalar attributes: the settings of the ini file, which the adaptor puts  *)
(* first, and those of the description. A key is a name and whether it is   *)
(* capitalised: for the map two keys, for Condor one name.                  *)

Names == {"input", "queue", "universe"}
AttrKeys == Names \X {"Capital", "lower"}
Unset == "unset"

MapAttribute(attrs, name, value) ==
    IF value = Unset THEN attrs ELSE [attrs EXCEPT ![<<name, "lower">>] = value]

\* Mutant: an attribute that is there but empty gets the default, too.
WithDefaultIfEmpty(attrs, name, value, default) ==
    MapAttribute(attrs, name, IF value \in {Unset, ""} THEN default ELSE value)

WithDefault(attrs, name, value, default) ==
    MapAttribute(attrs, name, IF value = Unset THEN default ELSE value)

\* process_condorG_host: its two branches write different keys.
WithUniverse(attrs, scheme) ==
    IF scheme = "condorg" THEN [attrs EXCEPT ![<<"universe", "lower">>] = "grid"]
    ELSE [attrs EXCEPT ![<<"universe", "Capital">>] = "vanilla"]

Attributes(ini, jd, scheme) ==
    WithUniverse(WithDefault(MapAttribute(ini, "input", jd.input),
                             "queue", jd.number_of_processes, "1"),
                 scheme)

(* Empty values are not printed. The others are, capitals first, as the map *)
(* is sorted, and the last line for a name counts.                          *)
Effective(attrs, name) ==
    IF attrs[<<name, "lower">>] \notin {Unset, ""} THEN attrs[<<name, "lower">>]
    ELSE IF attrs[<<name, "Capital">>] # "" THEN attrs[<<name, "Capital">>]
    ELSE Unset

AttrValues == {Unset, ""} \cup Settings
Inis == {ini \in [AttrKeys -> AttrValues] :
            ini[<<"queue", "lower">>] = Unset /\ ini[<<"queue", "Capital">>] = Unset}
Jds == [input : AttrValues, number_of_processes : AttrValues]

TranslateSettings ==
    \E ini \in Inis, jd \in Jds, scheme \in {"condor", "condorg"} :
        Translated("settings", [ini |-> ini, jd |-> jd, scheme |-> scheme],
                   [n \in Names |-> Effective(Attributes(ini, jd, scheme), n)])

(* Settings of the ini file "may be overwritten by settings provided by the *)
(* application": a value in the description counts, whatever is set there   *)
(* and however it is spelled, and without one the setting does; an empty    *)
(* value takes the place of the setting in lower case only. The universe is *)
(* the adaptor's unless it is set in lower case, and then for condor only.  *)
(* One process is queued without NumberOfProcesses, and none at all with an *)
(* empty one.                                                               *)
SettingsApply ==
    kind = "settings" =>
        LET jd == given.jd
            preset == [given.ini EXCEPT ![<<"universe", "Capital">>] = Unset]
            capital == [given.ini EXCEPT ![<<"input", "lower">>] = Unset]
        IN  /\ got["input"] = CASE jd.input = Unset -> Effective(given.ini, "input")
                                [] jd.input = "" -> Effective(capital, "input")
                                [] OTHER -> jd.input
            /\ got["universe"] =
                  CASE given.scheme = "condorg" -> "grid"
                    [] given.scheme = "condor" /\ Effective(preset, "universe") # Unset ->
                          Effective(preset, "universe")
                    [] OTHER -> "vanilla"
            /\ got["queue"] =
                  CASE jd.number_of_processes = Unset -> "1"
                    [] jd.number_of_processes = "" -> Unset
                    [] OTHER -> jd.number_of_processes

-----------------------------------------------------------------------------
(* Requirements: the parts of the text are the candidate hosts and the tests*)
(* of single attributes. The name of a machine stands for its comparison    *)
(* with Machine, which is written with "==". A test is written with "=".    *)

Tests == {"memory", "opsys"}
Tokens == {"(", ")", "||", "&&", "="}

ASSUME HostsAssumption == Hosts \cap (Tokens \cup Tests \cup {"", "value"}) = {}

\* Mutant: a name that is empty is written, too.
AddAnyHost(text, h) ==
    text \o (IF text = <<>> THEN <<>> ELSE <<"||">>) \o <<"(", h, ")">>

AddHost(text, h) ==
    IF h = "" THEN text
    ELSE text \o (IF text = <<>> THEN <<>> ELSE <<"||">>) \o <<"(", h, ")">>

HostsText(hosts) == FoldLeft(AddHost, <<>>, hosts)

TestText(test) == <<test, "=", "value">>

Parts(hosts, tests) ==
    (IF HostsText(hosts) = <<>> THEN <<>> ELSE <<HostsText(hosts)>>)
    \o [i \in DOMAIN tests |-> TestText(tests[i])]

AddPart(text, part) ==
    text \o (IF text = <<>> THEN <<>> ELSE <<"&&">>) \o <<"(">> \o part \o <<")">>

Conjunction(parts) == FoldLeft(AddPart, <<>>, parts)

(* Condor's side. "=" assigns and is no operator of an expression:          *)
(* condor_submit refuses a text with it. The value of another text on a     *)
(* machine follows from the atoms that hold there, the "facts". "&&" binds  *)
(* closer than "||", so a level of parentheses is a disjunction so far and  *)
(* the conjunction it is in. A parenthesis that closes nothing is an atom   *)
(* that does not hold.                                                      *)
Refuses(text) == Contains(text, "=")

Level == [or |-> FALSE, and |-> TRUE]

ValueOf(level) == level.or \/ level.and

And(levels, value) == [levels EXCEPT ![1].and = @ /\ value]

ReadToken(levels, tok, facts) ==
    CASE tok = "(" -> <<Level>> \o levels
      [] tok = ")" /\ Len(levels) > 1 -> And(Tail(levels), ValueOf(Head(levels)))
      [] tok = "||" -> [levels EXCEPT ![1] = [or |-> ValueOf(@), and |-> TRUE]]
      [] tok = "&&" -> levels
      [] OTHER -> And(levels, tok \in facts)

Allows(text, facts) ==
    LET read(levels, tok) == ReadToken(levels, tok, facts)
    IN  text = <<>> \/ ValueOf(Head(FoldLeft(read, <<Level>>, text)))

\* What comes of the submission for the machine h.
Chosen(text, h) == IF Refuses(text) THEN "refused"
                   ELSE IF Allows(text, {h}) THEN "taken" ELSE "passed over"

TranslateRequirements ==
    \E hosts \in BoundedSeq(Hosts \cup {""}, MaxEntries),
       tests \in BoundedSeq(Tests, 2), h \in Hosts :
        Translated("requirements", [hosts |-> hosts, tests |-> tests, machine |-> h],
                   Chosen(Conjunction(Parts(hosts, tests)), h))

(* A description with a test of a single attribute is refused, whatever its *)
(* hosts. Without one, a machine is taken if and only if it is one of the   *)
(* candidate hosts, when any is named. Empty host names say nothing.        *)
MachinesChosen ==
    kind = "requirements" =>
        LET named == Range(given.hosts) \ {""}
        IN  got = IF given.tests # <<>> THEN "refused"
                  ELSE IF named = {} \/ given.machine \in named THEN "taken"
                  ELSE "passed over"

-----------------------------------------------------------------------------
(* File transfers. An entry is what it parses to: "bad" for one that does   *)
(* not, ">" for local to remote, "<" for remote to local, ">>" or "<<"; its *)
(* paths; and whether a file is at the local one, or else a directory or    *)
(* nothing.                                                                 *)

Paths == [dir : {".", "sub"}, leaf : {"a", "b"}]
Entries == [op : {"bad", ">", "<", ">>"}, left : Paths, right : Paths,
            found : {"file", "other"}]

\* Mutant: the new name of an input file is not looked at.
RefusalUnlessRenamed(e) ==
    IF e.op = "bad" THEN "BadParameter"
    ELSE IF e.op = ">>" THEN "NotImplemented"
    ELSE IF e.op = ">" /\ e.found # "file" THEN "BadParameter"
    ELSE "none"

Refusal(e) ==
    IF e.op = "bad" THEN "BadParameter"
    ELSE IF \/ e.op = ">>"
            \/ e.op = ">" /\ e.left.leaf # e.right.leaf THEN "NotImplemented"
    ELSE IF e.op = ">" /\ e.found # "file" THEN "BadParameter"
    ELSE "none"

\* The lists for Condor, unless an entry before has been refused.
AddTransfer(acc, e) ==
    IF acc.error # "none" THEN acc
    ELSE IF Refusal(e) # "none" THEN [acc EXCEPT !.error = Refusal(e)]
    ELSE IF e.op = ">" THEN [acc EXCEPT !.input = Append(@, e.left)]
    ELSE [acc EXCEPT !.output = Append(@, e.right),
                     !.remaps = IF e.left.leaf = e.right.leaf THEN @
                                ELSE Append(@, <<e.left, e.right>>)]

NoTransfer == [error |-> "none", input |-> <<>>, output |-> <<>>, remaps |-> <<>>]

Transfers(es) == FoldLeft(AddTransfer, NoTransfer, es)

(* Condor's side: an input file comes into the directory of the job, and an *)
(* output file into that of the submission, or, if it is the first half of  *)
(* a pair of remaps, to the second half.                                    *)
InJobDir(f) == f.leaf

Delivered(acc, f) ==
    IF \E i \in DOMAIN acc.remaps : acc.remaps[i][1] = f
    THEN (CHOOSE r \in Range(acc.remaps) : r[1] = f)[2]
    ELSE [f EXCEPT !.dir = "."]

TranslateTransfers ==
    \E es \in BoundedSeq(Entries, MaxEntries) : Translated("transfers", es, Transfers(es))

(* The first entry that Condor cannot carry out decides the exception. If   *)
(* there is none, input files come under the names asked for. An output file*)
(* comes to its place only if its leaf is the same there and the place is   *)
(* the directory of the submission: renaming is written with the local path *)
(* first, and Condor reads the remote one first. Or else it finds the pair  *)
(* of another entry, which renames the other way: it comes to its place if  *)
(* all the pairs it finds do, and only if one does.                         *)
TransfersCarried ==
    kind = "transfers" =>
        LET refused == {i \in DOMAIN given : Refusal(given[i]) # "none"}
            inputs == {e \in Range(given) : e.op = ">"}
            outputs == {e \in Range(given) : e.op = "<"}
            renamed == {e \in outputs : e.left.leaf # e.right.leaf}
        IN  IF refused # {}
            THEN got.error = Refusal(given[CHOOSE i \in refused : \A j \in refused : i <= j])
            ELSE /\ got.error = "none"
                 /\ {InJobDir(f) : f \in Range(got.input)} = {e.right.leaf : e \in inputs}
                 /\ \A e \in outputs :
                       LET found == {d \in renamed : d.left = e.right}
                           back == {d \in found : d.right = e.left}
                       IN  IF found = {}
                           THEN Delivered(got, e.right) = e.left
                                   <=> e.left = [e.right EXCEPT !.dir = "."]
                           ELSE /\ back = found => Delivered(got, e.right) = e.left
                                /\ back = {} => Delivered(got, e.right) # e.left

-----------------------------------------------------------------------------
(* Values of the XML ClassAds: Condor writes "&" and the four other special *)
(* characters as entities, which are "&" and a name here (that stands for   *)
(* its semicolon, too); set_attribute replaces them one kind after the      *)
(* other.                                                                   *)

EntityNames == {"quot", "amp", "apos", "lt", "gt"}

Entity == [n \in EntityNames |-> CASE n = "quot" -> "\""
                                   [] n = "amp" -> "&"
                                   [] n = "apos" -> "'"
                                   [] n = "lt" -> "<"
                                   [] n = "gt" -> ">"]

Escaped(text) ==
    LET entity(ch) == {n \in EntityNames : Entity[n] = ch}
    IN  FlattenSeq([i \in DOMAIN text |->
            IF entity(text[i]) = {} THEN <<text[i]>>
            ELSE <<"&", CHOOSE n \in entity(text[i]) : TRUE>>])

Replaced(text, name) ==
    LET found(i) == i \in 1..(Len(text) - 1) /\ text[i] = "&" /\ text[i + 1] = name
    IN  FlattenSeq([i \in DOMAIN text |-> IF found(i) THEN <<>>
                                          ELSE IF found(i - 1) THEN <<Entity[name]>>
                                          ELSE <<text[i]>>])

\* Mutant: "&" comes first.
EscapesAmpFirst == <<"amp", "quot", "apos", "lt", "gt">>

Escapes == <<"quot", "amp", "apos", "lt", "gt">>

Value(text) == FoldLeft(Replaced, text, Escapes)

ReadValue ==
    \E text \in Texts : Translated("value", text, Value(Escaped(text)))

(* A value is read as it was before Condor wrote it, unless it holds the    *)
(* text of an entity whose kind comes after "&": that is decoded twice.     *)
ValuesArrive ==
    kind = "value" =>
        (got = given <=> \A i \in 1..(Len(given) - 1) :
            given[i] = "&" => given[i + 1] \notin {"apos", "lt", "gt"})

-----------------------------------------------------------------------------
Translate == \/ TranslateArguments \/ TranslateSettings
             \/ TranslateRequirements \/ TranslateTransfers
             \/ ReadValue

=============================================================================
