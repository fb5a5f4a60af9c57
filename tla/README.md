# The Condor job adaptor in TLA+

The adaptor lets a SAGA application submit, watch and cancel Condor jobs. Its
code is in `condor_job/`. These modules model its concurrent core, the lifetime of
what it creates and its translations, check them with TLC and prove their safety with
TLAPS.

    CondorJobStateProofs     states of jobs and their status in Condor, proved
      CondorJobEventsProofs  ids, submissions and events of CondorJob, proved
        CondorJobRefinement  proof that CondorJob implements SagaJob; locks and wakeups
          CondorJobProofs    first theorems about CondorJob
    MCCondorJob              constants and symmetry for TLC
      CondorJob              handles, shared data, registries, log processors, threads
        CondorQueue          Condor as the adaptor meets it (external)
          JobStates          states, statuses, events and the two translations
    SagaJob                  the abstract job, which CondorJob instantiates

    AdaptorIdsProofs         that ids lead to one shared data, proved
      AdaptorProofs          that nothing in use is destroyed, proved
    MCAdaptor                constants for TLC; puts Adaptor and Translation in one run
      Adaptor                the map of pools, their lifetime, the end of the adaptor
        JobService           the checks on URLs and job ids
      Translation            descriptions for condor_submit, values from its ClassAds
    TranslationProofs        that the translations give what is asked for, proved

    LogReaderProofs          theorems about LogReader, that it implements EntryStream too
      LogReader              from the bytes of the user log to its entries
    EntryStream              the abstract stream of entries, which LogReader instantiates

## The system

| part | state | operations |
|---|---|---|
| job handle, `job_cpi_impl` | `job_data_`, `state_changed_`, `cached_state_`, the JobID attribute | constructor and destructor, `get_state`, `update_state`, run, wait, cancel; suspend and resume always throw |
| shared data of a job, `shared_job_data` | `state`, `cluster_id`, `full_job_id`, `instances`, a recursive mutex, a condition variable | `register_job` |
| registry of a pool, `job_registry` in a `synchronized` | job id -> shared data, a recursive mutex | `register_job`, `find_job` |
| log processor of a pool | file position, `data` (bytes read, not yet parsed), `waited_for_retry` | read and poll, parse, `process_log_entry` |
| pool | url, log, registry, log processor | `get_log` |
| adaptor | `pools_`, settings | `get_pool`, `find_job`, `run_condor_command` |
| job service | its url | create_job, get_job, list |
| translations | none | `saga_to_condor`, `condor_to_saga`, `status`, the ClassAd grammar |
| temporary files | a path and a handle | create, remove |

How they interact. The handles of one job share one `shared_job_data`. Running a
job locks the registry of its pool, starts `condor_submit`, reads the cluster id
from its output and registers the data. Constructing a handle from a job id looks
the data up, or makes it from the output of `condor_q` and registers it. The log
processor of a pool, a thread, tails the user log that Condor writes. For each
event it looks the data up, locks it, sets the state, calls `update_state` of every
instance and wakes the waiting threads. `get_state` returns a cached value until
`update_state` sets `state_changed_`.

What is hard. The application's threads, one log thread per pool and Condor run
concurrently. Two locks are nested (registry, then the data of a job); the first is
held while an external command runs. The log thread goes through plain pointers to
handles that other threads construct and destroy. The state reaches the adaptor
along two ways, `condor_q` and the log, which are not synchronised. The log is read
while it is written. Pools are owned by the map of the adaptor and by the data of their
jobs, and whoever lets go of the last handle, possibly a log thread, destroys the
adaptor and joins the log threads.

What makes each part correct:

* handles: each listens to its job from construction to destruction, its cache is
  current or known not to be, waits end on final states and only then, calls return;
* registry: one id leads to one shared data, and what this process submitted is in it;
* log processor, events: each event of a registered job is applied once, in order,
  to that job;
* log processor, reading: each entry is delivered once, in order;
* state: what the documented table makes of the status in Condor, where the code follows it;
* pools and adaptor: what a log thread or a handle uses exists, and the rest ends;
* job service: an id the adaptor has given out leads back to its job;
* translations: what the application asked for is what Condor is told.

## The modules

### JobStates

`StateOfStatus` is `condor::job::status`, `StateOfEvent` the switch of
`process_log_entry`. `FinalStates` is `is_state_final`. An event type the switch
ignores is `info`; a termination by a signal is `signalled`, a bad executable `badexec`.

### CondorQueue (external)

`queue` holds the place of every process, `file` the events of each log as records of
cluster, process and type. `Happenings` is a table of what may happen to a process and
what the log says of it; `Mishaps` names those of them that go wrong, an eviction, a
signal and a bad executable, and each run chooses which of these happen. The last two
leave a process `crashed`, which for Condor has completed. `condor_rm`
marks processes; their abort events come
later. Clusters in `Own` may be submitted by the modelled process, those in `Foreign`
are in the queue at the start, and those of them in `Quiet` have no XML log.
There is one pool for each kind: `rm` for own jobs, `log` and `nolog` for the others.

### CondorJob

A variable is named after the member it models; `[Cpis -> ...]` is a member of a
handle or of shared data. Shared data is named after the handle that created it. A
thread has a `pc`, the handle `me` it makes its call on, the id it `want`s and its
`patience` (the timeout). A log processor has `lpc`, `tail` (events read), `target`,
`todo` (the part of the loop over the instances still to do) and `pin` (the proxy
`update_state` holds). `joined` is history and influences nothing.

An action ends where another thread can tell the difference: at a lock, at a
Condor command, at the callbacks of `m.fire()`. So

* constructor from an id = `FindJob`, then `QueryJob`, `OpenLog`, `Register` if the
  lookup missed, then `Attach`; for a new job = `NewJob`, which nobody else sees;
* run = `RunCheck`, `RunGetLog`, `RunLock`, `Submit`, `Publish`;
* wait = `WaitEnter`, `WaitLock` (the predicate, under the lock), `Timeout`,
  `SpuriousWake`; cancel = `CancelCheck`, `CancelRm`, `CancelWait`, then as wait;
* `GetState` is get_state, and every call that throws at its first checks;
* destruction = `Release`, `Destroy`, or the second half of `UpdateDone` when the log
  thread holds the last reference;
* an event = `Find`, `Apply`, then `UpdateState` and `UpdateDone` per instance,
  then `NotifyAll`.

Simplifications, each on the side of more behaviour or named here:

* assertions are on; a failed one puts `abort` into `fault` and stops the program;
* when the destructor runs inside the loop over the instances, the loop's iterator
  dangles. The C++ leaves the outcome undefined; the model lets the program crash,
  or lets the loop visit any of the instances that remain (`dangling`);
* a handle of an own job is made from an id only once that id is registered;
* all processes of a cluster are reported as submitted, and one event says so;
* the application drops the last reference to a handle only when no thread is in a
  call on it;
* one resource manager; callbacks, descriptions, attributes other than the job id,
  and the end of the program are left out;
* the log is a sequence of events, delivered once and in order; LogReader says when.

Bounds. `MaxEvents` bounds the events of a log after which nothing but the end of a
process is written. `Cpis` bounds the handles ever constructed. Clusters and
processes are finite sets.

### SagaJob

What a job promises, whatever is behind it: `Start` once and from New, `Change` to any
state but New afterwards, `Wait` by a thread without a bound, `Return` of that thread
only when the job is final, and `Break` when the program breaks down, after which
nothing is promised. `Safety` is that state machine. `Spec` adds `Lasts` (a final state
stays) and `Returns` (it ends each wait). CondorJob implements it with the jobs
mapped to the shared data: `started` is that the data has a cluster id, `waiting`
is the data a thread waits for in `WaitLock` or in the condition variable, and
`broken` is a failed assertion or a dangling iterator. The mapping hides the handles,
their caches, the registries, the locks and the logs: a `Return` of the abstract job
looks at the state itself, the code looks at a cache.

### LogReader

The file is a sequence of tokens; an entry is `<`, `c`, its attributes, `end`. The head
is two tokens since a read may end between them; other cuts inside an entry are alike
for the parser. `from` and `pos` delimit the deque `data`. `Read` returns up to `Buffer`
tokens, `Poll` finds none; `ParseRound` is one round of the parse loop, with
`Skip` for `skip_to_classad` and `Parses` for the grammar. `cuts` is history. `Poll`
counts seconds as the code does, which is never: `waited_for_retry` stays 0. The file
is not truncated or replaced. Bounds: `MaxTokens` on the file; `MaxWait` is 5 in the
code and 2 here, which no behaviour tells apart as the counter never starts.

### EntryStream

What a log processor is promised, whatever the sizes of the reads: `Write` adds entries at
the end, `Give` hands over the one whose turn it is, and `Tear` says which may be passed
over, as long as they have not been given. There are no characters, no buffer, no
`data` and no loops in it. LogReader implements it with the positions of the entries of the
file, `delivered` and `cuts`. CondorJob takes the log as such a stream in which
nothing is torn.

### JobService

The checks as operators, without state: `ValidRm` and `Validated` are
`job_adaptor::validate_rm`, `Parses` is `parse_jobid` on the parts of an id, `Accepts`
the comparison in `sync_get_job`. A URL is a record of scheme, host and port.
`Accepts` compares the schemes always, as the code does: its test for "any" or no
scheme is true of every scheme.

### Adaptor

CondorJob has three pools that are always there. This module has the pools in detail,
and of a job only where it is registered.

* A pool is named by its key in `pools_`: `<<"rm", url>>` for the jobs submitted to a
  resource manager, the log for the jobs picked up with one, and one key for all jobs
  without an XML log. `entry` says whether the map has no entry, a null pointer (between
  `operator[]` and `reset`, under the lock of the adaptor) or the pool; `url` is `url_`
  and is None when the pool does not exist.
* `jobs[k][c]` is the registry: the URL in the id under which cluster c is registered.
  Shared data exists as long as a handle or a registry has it, and it holds its pool, so
  `Held(k)` says who owns a pool besides the map. That is the cycle of shared pointers.
* A handle is named after the thread that made it and holds a reference to the adaptor.
  A handle from an id is made by `GetJob`, then `Scan` (find_job walks `pools_`
  without the lock), `Lookup` per registry, and after a miss `Query`, `GetPool`,
  `MakePool`, `OpenLog`, `LogInit`, `Register`. A new one is `NewJob`, `GetPool`,
  `MakePool`; running it is `Run`, `OpenLog`, `LogInit`, `Submit`. `Drop` lets go of it.
* A log thread is `ReaderStart` (at the end of the log, and get_log may go on),
  `Deliver` (it holds the proxy of a handle), `Unpin`, `ReaderEnd`.
* The end: `Unload` when the SAGA engine lets go of the adaptor; when no handle is left
  either, the destructor runs on the thread that dropped the last one: `EndEntry` gives
  up an entry of the map, and if that was the last owner of the pool tells its log thread
  to stop; `EndPool` goes on when it has returned; `EndAdaptor`.

Simplifications: a thread has one handle at a time; two handles share a job by being
made from one id by two threads. Process ids and events are in CondorJob. A scan that is
overlapped by an insertion may return any part of the candidates, or crash (`race`). A
temporary file that cannot be created is a null pointer that is dereferenced (`temp`).

### Translation

`TranslateArguments`, `TranslateSettings`, `TranslateRequirements` and
`TranslateTransfers` are the parts of `saga_to_condor` that lose or change something;
each takes one description, writes it as the code does, and reads it as Condor does
(`Arguments`, `Effective`, `Refuses`, `Allows`, `Delivered` stand for Condor and are
external). A test of an attribute is `name = value`, as `map_requirement` writes it, and
`Refuses` says what condor_submit makes of a text with a `=`; `Allows` reads the others.
`ReadValue` is `set_attribute` of the ClassAd reader, after Condor's `Escaped`. Text is
a sequence of characters; those that neither side treats in a special way are one. An
entity is two of them, `&` and its name, which stands for the semicolon too. The
properties say exactly which inputs do not arrive.

What goes over a sequence character by character, or entry by entry, is a fold with an
operator for one step (`UndoubleStep`, `SplitStep`, `AddHost`, `AddPart`, `ReadToken`,
`AddTransfer`, `Replaced`), and what writes several characters for one is `FlattenSeq`. The
steps are defined with IF where their cases overlap: of two arms of a CASE that both
hold, TLA+ does not say which one counts, although TLC takes the first.

## What the runs show

| run | instance | checks | distinct states |
|---|---|---|---|
| JobRun | 1 own cluster, 2 threads, 2 handles, 4 events, all mishaps, unbounded waits | TypeOK, NothingMissed, CacheCoherent, LocksOwned, NoLostWakeup, JobSafety | 817,187 |
| JobMixed | 2 own clusters, 1 foreign with a log, 1 without, 2 threads, 2 handles, endings and mishaps only but for `badexec` | Inv, CacheInv, SubmissionsKnown, EveryHandleListens | 346,008 |
| JobPickup | 1 foreign cluster of 2 processes, 2 threads, 2 handles, signals and bad executables | InstancesAlive, EventsApplied, EveryHandleListens | 1,554,924 |
| JobWait | 1 own cluster, 2 threads, 1 handle, 3 events, all mishaps but evictions, all timeouts, fairness | StateModel, JobSpec, WaitersReturn, CallsReturn | 69,637 |
| Pools | 2 threads, 3 handles made, services for condor:// and without a URL, ids for two names of this machine, 1 own cluster, 1 foreign with a log, 1 without; condor_log set to that log or not; 2 values of settings; words of up to 2 characters in pairs, texts of up to 3 tokens, lists of up to 2 entries | TypeOK, NothingDangles, LogsKept, OnlyJobsKeepPools, NoSelfJoin, OneDataPerId, AbortExplained, IdsLeadBack, ArgumentsArrive, SettingsApply, MachinesChosen, TransfersCarried, ValuesArrive, CallsReturn, UnloadEnds | 418,876 |
| LogRead | reads of up to 4 tokens, a file of up to 13 | TypeOK, InOrder, LostOnlyByCut, StreamSafety, EntriesArrive | 36,385 |

In words:

* **NothingMissed** - the registry lock that `sync_run` holds from before
  `condor_submit` until registration keeps the log processor from passing over an
  event of the new job.
* **CacheCoherent** - a handle whose `state_changed_` is clear has the state of the job,
  or is about to be told by the log processor that holds the lock. It is stated
  for runs in which no iterator has dangled.
* **LocksOwned** - the registry is locked by the thread that submits and by no other, and
  the lock of a job by the log processor that notifies its handles. A lock that is not
  given back, as after a failed `condor_submit`, would have no such owner.
* **NoLostWakeup** - a thread that sleeps in wait while its job is final is about to be
  woken by a log processor that still has the lock. It is stated as CacheCoherent is.
* **JobSafety** - CondorJob implements the safety of SagaJob, with all mishaps: a job
  starts once, and an unbounded wait or cancel returns in a final state only.
* **InstancesAlive** - the log thread reaches no destroyed handle, and no handle of
  another job.
* **EventsApplied** - the state of a job is what the last event since its
  registration says. A handle on a single process is excepted while there is
  one on its cluster, which `process_log_entry` finds first.
* **EveryHandleListens** - a usable handle is among the instances of its data, and the
  id of its job leads to that data and no other.
* **SubmissionsKnown** - no submission is forgotten, one without a readable id included.
* **StateModel** - once its log is read, the state of a job is the documented one of its
  status in Condor, with two exceptions named in `Shown`: a job that crashed has
  completed and is Failed, not Done; and one that is being removed is Running or
  Suspended still, not Canceled.
* **JobSpec** - on a pool that does not evict, CondorJob implements all of SagaJob: final
  states stay, and a final state ends each wait.
* **WaitersReturn**, **CallsReturn** (also of Adaptor) - a wait on a job that has left the queue ends,
  every other call returns. WaitersReturn goes further than `Returns` of SagaJob: the
  final state itself has to arrive from Condor, through the log.
* **Inv**, **CacheInv** - the two inductive invariants of the proofs, see below.
* **InOrder**, **LostOnlyByCut**, **EntriesArrive** - entries are delivered in order and
  once; one that is passed over was cut inside its head; and one that is complete,
  not cut and not behind a malformed one is delivered in the end.
* **StreamSafety** - LogReader implements EntryStream: what is delivered is the next entry
  each time, with none before it that is neither delivered nor cut at that moment, and an
  entry that has been delivered is never cut afterwards.
* **NothingDangles** - a log thread finds the registry it works on, a handle the pool it
  belongs to and a held proxy its handle, also while the adaptor is destroyed.
* **LogsKept** - the temporary log of a submitted job stays, and is read.
* **OnlyJobsKeepPools** - the adaptor takes with it every pool without a registered job,
  and leaves the others: the cycle of shared pointers keeps them for good.
* **NoSelfJoin**, **UnloadEnds** - the destructor ends, whichever thread runs it, and a
  log thread that runs it does not wait for itself.
* **OneDataPerId** - one job id has one shared data, unless an insertion made a search
  miss a pool.
* **AbortExplained** - the assertion of `register_job` has three causes: the pool was
  made for another URL, two threads construct handles of the same job, or the search
  missed a pool.
* **IdsLeadBack** - the id of a submitted job is accepted by the service that made it,
  and found. The service without a URL refuses its own ids, since `default_rm_` is
  never set.
* **ArgumentsArrive**, **SettingsApply**, **MachinesChosen**, **TransfersCarried**,
  **ValuesArrive** - the job gets the arguments, settings, machines and files asked for,
  and the reader the values Condor wrote, with the exceptions they name. The exception of
  MachinesChosen is every description with a test of an attribute: it is refused, and
  only the candidate hosts are left to choose by.

Why the bounds are enough. The hazards need two application threads (each of
them may be between any two steps of the other), two handles (one that listens and
one that comes or goes, or two on one id), and one log thread per pool. Four events
let a job be submitted, execute, be held or evicted, released and end or crash. Two
submissions reach the second registration of `Unknown`. Two processes make
cluster and process ids differ. A file of 13 tokens holds two entries, junk around
them and a cut anywhere. JobMixed forgoes events other than the ends of jobs and
submissions, and JobPickup timeouts, own jobs and evictions, to stay small; each of
these is in another run. The threads and the handles are interchangeable, which
the safety runs use as symmetry; JobWait, with its liveness properties, does not.

MCAdaptor translates one input from an initial state, or behaves as Adaptor: the two
share no state, and one run checks both. In Pools, two threads give every order of a
search and a registration; three handles let a job be submitted, be asked for again and
be asked for under another name; the alias of the machine makes two URLs that are one
pool for a log. The characters of Translation are those one of the sides treats in a
special way, and two or three in a row meet every rule of both. What a list of any length,
or a text of any characters, makes of it is proved and not checked.

Deadlock is not checked in the runs of CondorJob and of Adaptor: the application may make no more
calls, and nothing more happen to the jobs, and then nothing is left to do.
CallsReturn and UnloadEnds find threads that wait for each other. LogReader
has no terminal state, and deadlock is checked.

### Disagreements with the code's comments, assertions and documentation

Six runs end in a violation, each a behaviour of the code:

| run | what happens |
|---|---|
| JobRunTwice | two threads run one job, both submit it, the second aborts (`condor_job.cpp:233`) |
| JobPickTwice | two handles made from one id at the same time, the second aborts (`condor_job.cpp:103`) |
| JobEvicted | an evicted job is Failed while it is idle in the queue (`log_processor.cpp:115`) |
| JobPickStale | a status that changes while the job is picked up is never seen (`condor_job.cpp:159`) |
| LogSplit | a read that ends after the first character of an entry loses it (`classad.hpp:288`) |
| LogBlocked | an entry that does not parse blocks all later ones (`log_processor.hpp:117`) |

These further disagreements are conditions of properties that hold, and show there: the
property says what happens instead, so it would fail if the documentation were right.

* A completed job is documented as Done (`webpage.wiki:63`, `status.hpp:60`). One that a
  signal ended has completed for Condor and is Failed (`log_processor.cpp:139`), and so is
  one with a bad executable (`log_processor.cpp:123`, StateModel).
* A removed job is documented as Canceled (`webpage.wiki:64`, `status.hpp:57`). From
  condor_rm (`condor_job.cpp:354`) until its abort event is read the status in Condor is
  Removed and the state Running or Suspended (StateModel).
* "Some SAGA attributes are translated into a Requirements expression for Condor"
  (`webpage.wiki:107`), CPUCount, CPUArchitecture and OperatingSystemType among them. They
  are written with a single `=`, which is an assignment and no operator of an expression
  (`description.hpp:432`), so condor_submit refuses every job that asks for one of them
  (MachinesChosen).
* `condor_job_adaptor.ini.in:35` has a default resource manager; the assignment in
  `init` is commented out (`condor_job_adaptor.cpp:36`, IdsLeadBack).
* Temporary files "are deleted on program exit" (`condor_job_adaptor.ini.in:75`). That of a
  pool with a registered job never is (OnlyJobsKeepPools, LogsKept).
* Settings of the ini file may be overwritten by the application; `Universe` is always
  overwritten by the adaptor, unless the ini file writes it in lower case (SettingsApply).
* Output files that are renamed are remapped the wrong way round
  (`description.hpp:388`), and those that are not lose their directory (TransfersCarried).
* Text that looks like an entity is decoded twice (`classad.hpp:169`, ValuesArrive).
* An empty argument is lost and a tab separates arguments (`description.hpp:505`,
  ArgumentsArrive).
* `webpage.wiki:75` maps Queue to the universe; the code has that commented out
  (`description.hpp:91`).

So the documented table of states (`webpage.wiki:57`) fails in four ways: JobEvicted,
JobPickStale, a job that crashed and one that is being removed. JobWait checks StateModel
and JobSpec on a pool that does not evict, on a job that was submitted and not picked
up, which excludes the first two; StateModel states the last two. In every other place a
job of JobWait may have in Condor, the table holds.

### Fairness

`FairSpec` assumes weak fairness of each thread inside a call (the scheduler runs
it, mutexes are held for a bounded time, Condor's commands terminate, time passes)
and of each log processor (its loop has no other exit than destruction). It assumes
strong fairness of a successful `condor_submit`: without it a retried submission
could fail for ever and take the registry each time, and boost's mutexes promise no
order. Beginning a call, spurious wake-ups and whatever Condor does to a job are not
fair. In LogReader the reading thread is weakly fair and the writer is not. In Adaptor a
thread inside a call, a log thread and whoever runs the destructor are weakly fair;
that the application calls or drops a handle, that the engine lets go of the adaptor and
that Condor writes an event (`Deliver`) is not.

## What is proved

Every safety property of the passing runs, for any sets of threads, handles, services,
clusters, processes, logs and job ids, any bound on the log, and any texts, words, hosts
and lists of them to translate. StateModel and `Lasts` of SagaJob hold only under the
assumptions named below, and are proved under them.

| module | theorems |
|---|---|
| CondorJobProofs | `Invariance` ([]Inv), `TypeCorrect` ([]TypeOK), `NoDestroyedHandleCalled` ([]InstancesAlive) |
| CondorJobRefinement | `CacheInvariance` ([]CacheInv), `CachesCoherent` ([]CacheCoherent), `ImplementsSagaJob` (JobSafety), `LocksNotLeaked` ([]LocksOwned), `NoWakeupLost` ([]NoLostWakeup), `NoCircleThroughRegistry` |
| CondorJobEventsProofs | `EventInvariance`, `HandlesListen` ([]EveryHandleListens), `NoSubmissionMissed` ([]NothingMissed), `NoSubmissionForgotten` ([]SubmissionsKnown), `StateFollowsLog` ([]EventsApplied) |
| CondorJobStateProofs | `StateInvariance`, `StatesMatchCondor` ([]StateModel), `OwnStatesMatchCondor`, `OwnJobsStayFinal`, `FinalStatesLast` (JobSafety and `Lasts`) |
| AdaptorProofs | `TypeCorrect` ([]TypeOK), `UsedPoolsExist` ([]NothingDangles), `TemporaryLogsKept` ([]LogsKept), `JobsKeepPools` ([]OnlyJobsKeepPools), `NoThreadJoinsItself` ([]NoSelfJoin) |
| AdaptorIdsProofs | `OneDataForEachId` ([]OneDataPerId), `AbortsExplained` ([]AbortExplained), `EveryIdLeadsBack` ([]IdsLeadBack) |
| LogReaderProofs | `TypeCorrect` ([]TypeOK), `DeliveredInOrder` ([]InOrder), `OnlyCutsLose` ([]LostOnlyByCut), `ImplementsEntryStream` (StreamSafety) |
| TranslationProofs | `SettingsTranslated` ([]SettingsApply), `TransfersTranslated` ([]TransfersCarried), `MachinesTranslated` ([]MachinesChosen), `ArgumentsTranslated` ([]ArgumentsArrive), `ValuesTranslated` ([]ValuesArrive) |

The assumptions are those of the modules. `QueueAssumption` and `JobAssumption`: own and
foreign clusters are disjoint, quiet clusters are foreign, a cluster has a process,
`None` and `Unknown` are none of the values they stand beside, and the ids asked for are
ids. `AdaptorAssumption`: the same of its constants, and URLs are records.
`ReaderAssumption`: the bounds are numbers, and a read takes at least one token.
`TextAssumption`: texts and words are sequences of characters. `HostsAssumption`: the name
of a machine is not empty, and the token for it, which stands for the comparison
`Machine == "name"` that the code writes, is no parenthesis, operator, `=` or part of a
test. A name with a
double quote in it, which the code writes as it is (`description.hpp:192`), is left out.

**No destroyed handle is called.** InstancesAlive alone is not inductive. That the loop
of `process_log_entry` stays inside the instances needs the lock: an instance is erased
either by `Destroy`, which takes `state_change_mtx`, or by the log thread itself in
`UpdateDone`. `LogsLock` says that a log processor that notifies owns the lock of its
target, that no two notify the same target, and that its `pin` is in its `todo`. That an
instance has not been destroyed needs the calls: `CallsOnHandles` says that the
handle of each call is alive as the point of the call requires, and `CallsExclude` that
a constructor or destructor has its handle to itself, so a handle is inserted once
and erased before it is gone. `HandlesHaveData` says which data that is. Together with
the types they are inductive (`Inv`); `StepInv` proves it from one lemma per conjunct,
with a step per action. TLC checks `Inv` on every reachable state of JobMixed.

**The cache is coherent.** CacheCoherent needs that the loop of `process_log_entry`
reaches each usable handle of the job whose state it changes (`LiveListen`), and that the
two other places that set a state, the constructor after condor_q and `sync_run`, change
data which no other handle has. The code has no lock for that: it holds because data
gets known to others only through the registry, and a handle gets its job id in the same
step. `UnnamedAlone` says that the data of a handle without a job id is its own and
not registered, `CallsNamed` which calls have such a handle. `StartedKnown` says who
has a cluster id; the refinement needs it, for a job to start once and to change or be
waited for only after that. TLC checks `CacheInv` on JobMixed.

**The refinement.** Each step maps to one step of SagaJob or to a stutter: `Publish` and
`QueryJob` to Start, `Apply` to Change, `WaitEnter` and `CancelWait` to Wait, `WaitLock`
to Return, a failed assertion and the end of an orphan inside the loop to Break. The one
that takes an argument is Return (`LockedSeesState`): the thread has
`state_change_mtx`, so by LogsLock no log processor is in its loop for this job, so by
CacheCoherent what `get_state` answers is the state itself.

**No event is lost.** `EventInv` adds what relates the registries to the logs. `StepKinds`
shows that a step either leaves the registries alone or enters the data of one handle
under an id that was free (`Enters`); what is registered stays (`RegisteredKept`). So ids
lead to data with that id (`IdsLead`). Data is registered before the events that are still
to be looked up (`JoinedBefore`). `sync_run` has the registry locked, its log processor
running and, once condor_submit has created the cluster, no event of it looked up
(`CallReady`): before the submission the logs do not tell of the cluster (`LogsTell`), and
afterwards the log processor stands still. That is NothingMissed. The data found for an
event is the one the event is for, and stays so until the event is done (`TargetRight`),
although handles on the same job may be registered meanwhile. Then the state follows the
events, since of all the steps only the registration and `Apply` change it.

**Locks and wakeups.** A step of a log processor leaves the locks alone, takes the one of
its target or gives it back (`LogsHold`); a step of a thread takes or gives back the
registry at the two ends of a submission (`CallsSubmit`). With `LogsLock`, which keeps two
log processors from one target, LocksOwned follows. A wakeup could be lost between the
predicate and the sleep, or by a state that is set without notification. In `WaitLock`
the thread has the lock, so what it sees is the state (`LockedSeesState`), and it
sleeps only on one that is not final. A final state is set by `Apply` only, which keeps
the lock until `NotifyAll`: `CallsLeaveStates` says that the two other places that set a
state write to data nobody waits for, or write Running. `NoCircleThroughRegistry` uses
StartedKnown: the data of a handle that has no job id is the target of no log processor,
so `Publish` takes `state_change_mtx` at once although it has the registry locked.

**The state is the one in Condor.** EventsApplied says that the state follows the log. That
it follows the queue needs two more links, both in `StateInv`. The log follows the queue:
the last event of a cluster tells where its process is (`LastTells`), an event that ends
a job tells of a process that has left the queue (`EndedOver`), and no event of a process
comes after it (`NothingAfterEnd`). And the data of a submission begins with it
(`OwnJoined`, `SubmitLogged`): it is registered before its first event, under the id of
the whole cluster. Then what the last applied event says is where the process is. A
final state is kept since the next event for the same job would have to follow the one
that ended it; here one process per cluster is assumed, as the processes of a cluster
share one state. The theorems have the two exceptions of `Shown`, and
assume `"evicted" \notin Mishaps`, and for all jobs of the program `Foreign = {}`:
without the first JobEvicted is a counterexample, without the second JobPickStale. `OwnStatesMatchCondor` and `OwnJobsStayFinal` are what remains for the
submitted jobs in a program that also picks up others. TLC checks `StateModel` and
`JobSpec` on JobWait.

**Nothing in use is destroyed.** The invariant of AdaptorProofs: a handle in each of its
calls has what the next step needs (`Calling`, `Attached`); a pool that is used is in the
map or holds a job (`PoolInv`); when the destructor runs, there are no handles, so what
keeps pools then is jobs only, and the log thread that may be running the destructor
works on a pool that has one (`Ending`). That is why it never waits for itself. A job
submitted with a temporary log is registered in the pool of that log (`Files`).

**One data for each id.** Pools of resource managers hold own jobs under their own URL,
pools of logs the jobs of that log (`Jobs`), and what a search has passed does not have
the job, unless it came there since (`Search`).

**Entries.** A file is written by whole entries, so a head in it is complete
(`WellFormed`), and what has been delivered lies before the start of `data` (`Behind`).
That `skip_to_classad` stops at the first head uses that a set of numbers has a least
element. For the refinement, a write of Condor is `Write`, a read that cuts a head is `Tear`,
as it ends behind everything delivered, and the round that finds an entry is `Give`:
what it passes over before the first head has been cut (`PassedCut`).

**Folds.** The translations are folds of the community modules, defined by recursion over
sets of indices, and induction over the data is not available as a theorem of the library.
It is done here with values instead of operators. That a set of numbers with 0 and
successors is all of Nat follows from its least missing element (`Induction`,
`SeqInduction`). The stages of a fold are a function that is unique and exists
(`StagesUnique`, `StagesExist`), which gives its values for the empty sequence and for one
element more (`FoldedEmpty`, `FoldedAppend`). A step is given as a table `[S -> [A -> A]]`,
so that `FoldedAll` can say for all of them that what holds at the start and is kept by
the step holds at the end. `FlattenSeq` of what a table writes for each character is
`Spread` of the table; `SpreadAppend`, `SpreadConcat` and `SpreadTwice` are its laws.

**Settings.** `AttributesSet` says what the six keys hold when `saga_to_condor` is done,
`SettingsOfInput` what Condor makes of them, for any texts as values.

**Transfers.** `TransfersListed` says what the lists are after any number of entries, and
which entry the error is of. An output file goes through `DeliveredByPairs`: the pair that
Condor finds is one of those whose first path is the remote one, whichever it chooses.

**Machines.** A `=` in a part is still there when the parts are joined (`PartAdded`), so a
description with a test is refused (`PartRefused`); names of machines have none
(`NamesPlain`). Reading a text between parentheses adds its value to the conjunction of the
level outside and leaves nothing else behind (`ParenthesesRead`), so the one part that is
left, that of the hosts, means in its parentheses what it means without (`PartAllows`), and
`HostsWritten` says by the names what that is.

**Arguments.** Undoubling gives back what doubling wrote (`QuotedReadAs`), and a word
between single quotes is cut as one whatever it holds (`CutQuoted`). A word
without them is cut as one unless it is empty or holds a tab (`CutLoose`). The other
direction could fail if the pieces of one word made up for another that is lost.
They do not: no word that comes out is itself one of those that would be lost (`Sound`),
however the words that went in were taken apart (`CutWord`, `CutWords`). So a list with
such a word is never what comes out.

**Values.** After each of the five replacements the text is what Condor would have
written, had it escaped only the characters whose entities are still to come: the entities
of `"` and `&` give back exactly these characters (`FirstStages`), while `'`, `<` and `>` also
replace what looked like an entity before Condor wrote it (`LastStages`). So the value is
the text with those three decoded once more (`ValueOfEscaped`), and as each replacement makes a
text shorter (`ReplacedShorter`), it is the text itself only if there was nothing to decode.

Only model-checked: all liveness, which is out of the prover's reach, as it needs ENABLED:
WaitersReturn, CallsReturn, EntriesArrive, UnloadEnds, and of JobSpec the part `Returns`.

## What is not modelled

* X.509 proxies and the contact of a description, attributes that `saga_to_condor` refuses
  and `condor_to_saga`: they copy or refuse values one by one. The description of a job
  that was run is never stored in its shared data, so a second handle has an empty one.
* The launch of the commands: environment, exit codes, and reading the output of
  `condor_q` line by line in `sync_list`. Their outcomes are in CondorQueue.
* The callbacks of the application, which run in the log thread under the lock of the job.
* `job_registry::unregister_job`, which nothing calls.
* The SAGA attributes of a handle other than its id, and its exit code and times.
* How the log is opened; a log that is truncated or replaced.
* Build files, settings, log messages, the tests and the example, and the SAGA engine,
  which appears as the caller of the handles and the owner of the adaptor.
