# A TLA+ model of Chromium-Experiments

The repository measures functions of a running Chromium on asymmetric cores. A
preloaded library wraps nine Blink and V8 functions; on entry and exit it pins
the calling thread to a set of cores and logs what it did. The sets (masks) come
from a Python script that drives the browser, through a shared file and signals
(the IPC build), or from an environment variable (the `RUNCHROME_MODE` build),
driven by a shell script that runs the browser again and again.

## Inventory

| part | state | operations | interacts through | hard behaviour | what makes it right |
| --- | --- | --- | --- | --- | --- |
| `chrome-experimenter.py` | browser process, page load table | launch, connect with retries, load pages, `randomizeMasks`, signal, close | DevTools, `killpg(SIGCONT)`, the mmapped file | Ctrl-C swallowed by a bare `except`, unbounded wait for a result, timeouts | every round is announced after it is complete; every page has its own result |
| `python/ipc.py` | FunctionSets, offsets, mmap position | `addSet`, `initIpc`, `randomizeMasks`, `getSize` | the mmapped file | writes in place while processes read | only mask bytes change; the file parses at every announced moment |
| `experiment/ipc.cc` | `fd`, `mmapData`, `initializedMmap`, `fsize` | open, copy and parse, close | the mmapped file, `fmap` | called from handlers and from start-up | the map equals the announced file; no read of an unmapped file |
| `experiment/experimenter.cc` | `fmap`, `fmap_mut`, flags, thread-local stack of times | init, SIGINT, SIGCONT and SIGALRM handlers, fentry, fexit, page marks | signals, wrappers, g3log | handlers interrupt any step; hooks read `fmap` without the mutex | latency and affinity belong to the call that is logged |
| `experiment/cpu_utils.cc` | none | affinity helpers, random choice of cores | `sched_setaffinity` | loop of random draws | exactly the configured cores; the loop ends |
| `chrome_interpose.cc` | original `main` | start-up and exit interposition, nine wrappers, ready state of documents | `experimenter.cc` | nested and concurrent calls, processes that end while others log | each wrapper enters and exits once; a process that exits leaves all its lines |
| `scripts/permutate.sh` | random orders, `FLAGS`, exports | orders, keyword expansion, loop | runs a command | random draws, state kept between runs | every trial once; a script that stops has run whole iterations but for the last |
| `scripts/summarize.sh`, `plotting/*.py` | tables | filter, sort, group | log files | logs cut short by a kill, duplicates, width of ids, clock ties | the tables hold what was measured |
| `misc/odroid-port/run.sh` | saved governors | set, run, restore | sysfs, signals | Ctrl-C between two steps | the saved governor comes back |

Not program logic of its own: `run-chrome.sh` (options of one browser run),
`run-all.sh` and `sel.py` (a loop and a page load), `list-procs.sh`, `mapping.sh`,
`wget-script.sh` (listings and downloads), `misc/example` and `timing-bench.cpp`
(demonstrations), the v8 headers and `interpose.hh` (third party), `logs/example_data`.
`PROJECT.json` lists every part with its status, and under `hazards` every place
where the code can go wrong in a way a test would hardly reach.

## Plan

| order | module | subject | state |
| --- | --- | --- | --- |
| 1 | `MaskRefresh` | shared file, SIGCONT and SIGINT, start-up order, `fmap_mut` | checked |
| 2 | `MaskRefreshProofs`, `MaskRounds`, `MaskRoundsProofs` | types, `NoStaleMap`, `UnmappedOnlyByCtrlC`; the abstract specification of the refresh and that `MaskRefresh` implements it | proved |
| 3 | `CallTimer`, `FunctionHooks`, `FunctionHooksProofs` | hooks, time stack, affinity; the first is the abstract specification of the second | checked and proved |
| 4 | `CoreChoice`, `CorePermute`, `CorePermuteProofs` | `CORE_CONFIG` and random draws; refinement of the abstract choice | checked and proved |
| 5 | `Permutate`, `PermutateProofs` | `permutate.sh` | checked and proved |
| 6 | `IpcInterface`, `Controller`, `ControllerProofs`, `FileProofs` | byte layout and parse of the file; the whole script with a slow, failing or dying browser | checked and proved |
| 7 | `PageTiming` | alarm, page load marks, exit and the log | checked and proved |
| 8 | `LogAnalysis`, `MeasuredRun`, `MeasuredRunProofs` | summary and plot matrix; composed with the run that writes the logs | checked and proved |

## MaskRefresh: how masks reach the processes

`chrome-experimenter.py` starts the browser (`Launch`), waits for DevTools
(`Connect`), then repeats: `Signal` (killpg), `Load`, and `randomizeMasks`, which
walks the sets and overwrites their two mask lines. A line is written in two steps
(`BeginLine`, `EndLine`) so that a reader can see a mixture of old and new bytes;
the content of a line is the number of half-writes done to it, so round r is 2r
and an odd number is a torn line. The offset arithmetic is abstracted to the number
of the next line (`wline`).

A process goes through `experiment_init` step by step (`pc`): SIGINT handler, SIGCONT
handler, `ipc_open_mmap`, the first update, the rest. It then runs hooks. Signals
pending for a process are a set, because equal signals coalesce; the kernel delivers
to any thread of a process that is ready and to the main thread before that. A thread
that is in the SIGCONT handler has SIGCONT blocked. `sigcont_handler` takes `fmap_mut`
(`AcquireLock`), clears the map, copies the file line by line and inserts function by
function; `Boot` is the same update run by `experiment_init` without the mutex.
`closing` is how far a thread is in `sigint_handler`.

The hooks share `fmap` without the mutex. A lookup of a missing name inserts zero masks
(`Lookup`). A lookup that runs while a handler restructures the `std::map` is
undefined: `MapRace` lets the process crash at any such moment, and outcomes in which it
goes on are those where the lookup had no effect but `Lookup`'s. A corrupted tree is not
followed further: no statement is made of such a process.

Simplifications: a SIGCONT that arrives while the same thread is in `sigint_handler` is
taken after it; renderers are spawned by the browser only after its own initialisation
and end by themselves; a `Ctrl-C` ends the script except where a bare `except`, around the
page result or around the closing of the browser, swallows it. The browser may survive
`Close`, whose `try` skips the kill when `Browser.close` raises.

Properties:

- `NoStaleMap`: from the signal of a round to the next write, a process that owes no
  update has exactly the masks of that round for all functions. This is the purpose of
  the protocol and is violated by a missing lock, a forgotten set or a lost signal.
- `ChangesByRounds`: the refinement of `MaskRounds`, which knows of rounds, of announced
  ones, and of the map each process uses. A process that has settled keeps a complete
  map, without zero masks or holes, until the next announcement or its end; whatever
  lookups insert into the map and however the file is rewritten meanwhile, its masks
  change with announcements only, and after one by the whole round. A process born
  during a rewrite may use masks of two rounds until then, which `MaskRounds` says.
  The map a process uses is `View`: none while an update is due, or after an overtaken
  start-up, which is a finding.
- `EveryRoundArrives`: an announced round reaches all of the map of a process that
  lives, even when signals coalesce.
- `UnmappedOnlyByCtrlC`: without Ctrl-C no handler reads an unmapped file, and the
  assertions fail only before the file is opened.
- Findings: `ReadsOpenMmap` and `EverySignalRefreshes` are what an assertion of `ipc.cc`
  and a sentence of the framework's README claim. They fail because the handlers are
  installed before the file is mapped (a Ctrl-C at that moment likewise fails the
  assertion of `ipc_close_mmap`), and because the first update runs without the
  mutex and can be overtaken by a handler whose newer masks it then overwrites. That
  overtaking is recorded in `overrun`, and `NoStaleMap` excepts such processes only.

## FunctionHooks: what is measured

One process of the IPC build. `EnterLookup`, `EnterPin`, `ExitStamp`, `ExitLookup` and
`ExitPin` are the steps of fentry and fexit between which other threads, and a handler
on the same thread, can run. `calls` is the C++ stack of wrappers, `time_queue` the
thread-local stack of start times. A mask is named by function, side and round.
`CallTimer` is the promise of the latency column; `MeasuresOwnCalls` says that
`FunctionHooks` implements it, with `open` the stamped calls paired with their start
times. `AffinityFollowsCalls` says whose mask a thread is pinned to. Inside a call no
nested call has returned to, that is the entry mask of the call's own function. Once a
call has returned, it is the exit mask of the function that returned, also for the
caller it returned to, which the code never pins again; the history variable `finished`
records that call. The round of such an exit mask is one the process has read, and no
older than those of the entry masks of the call and of its caller: the map never holds
two rounds at once, because an update clears it first. `missed` excepts threads whose
last lookup fell into an update. The finding
`ExitMaskTakesEffect` is a sentence of a docstring that the absence of synchronisation
between hooks and handler contradicts; for the same reason the two masks of one call
may be of different rounds, which the README hopes to avoid by calling `stopLoading`.
Masks of functions that are in no FunctionSet are not modelled (their lookups insert
zero masks for good).

## CorePermute: the RUNCHROME_MODE build

`set_config`, then for every entry hook the loop of draws, one action per draw. A draw
of a core that is set already changes nothing (`Redraw`). `CoreChoice` is the abstract
choice; `PicksConfigured` says the loop implements it. `EntryReturns` and `InvalidHangs`
say when it ends: always for a possible configuration, never for one that `set_config`
reports as invalid and uses all the same. The finding `NamedCores`: the two digits are
read crosswise, so that with `0l-1b` a call is pinned to one little core. Threads do not
share state here (generator and mask are local), so one thread with nested calls is
enough for the run; the theorems hold for any number.

## Permutate: the trial loop

`gen_iterconfig` and `gen_itersite` draw until their array is full (one action per
draw), the loops run every combination, keywords are replaced, and exit codes 1 and 2
stop the script. `EveryTrialOnce`: no trial runs twice, and all have run when the loops
end. `StopsInOneBlock`: wherever a failing command stops the script, the trials that are
missing are those after one point: every iteration before it is whole, and in its own
iteration every configuration has been run for all sites or for none, but for one.
`Terminates` for lists without repeats; `RepeatsHang`: a repeated configuration keeps every
command from starting (the script ends only if it was asked for no iteration at all). The
finding `FlagsMatchTrial`: `FLAGS` is overwritten by its own expansion. The exported
`core_config` and the prefix of the log names are part of the state; that they are those
of the trial can be read off `Start`, and nothing more is claimed of them.

## IpcInterface and Controller: the experiment script and its file

`MaskRefresh` takes it for granted that the lines of the file are where the readers
look for them, and that the script goes round its loop. These two modules check it.

`IpcInterface` is `ipc.py` and the parser of `ipc.cc`. `file` maps the offset of a line
to the line; writing over part of a line destroys it and leaves a line that cannot be
parsed (`Torn`). An exception of `stoi` or an access past the vector of lines ends the
parse, which is then `None`; `ReadSet` is one turn of the parser's loop over the sets.
`addSet`, `initIpc` and `randomizeMasks` keep what they did before they raise, as Python
does; the last two write one set per step. `bytes` and `getSize` count the bytes;
of a mask only its cores matter. Of the sets it is assumed that each has finitely many
functions, that every name has a length, and that both counts of cores are at most four.
A FunctionSet's names have some fixed order, as a Python
set that does not change has.

`Controller` is `chrome-experimenter.py`. `pc` is the place in the script: `AddSet`
(lines 20-29), `Prepare` (the file, possibly one that another experiment left, if
its size is right), `CallInitIpc`, `Launch`, `Connect` or `Retry`, and for each page
`Navigate`, `WaitEvent`, the evaluations and `Check`, `StopLoading`, `CallRandomizeMasks`
with its loop (`IpcLoop`), and `Signal`; then `Close`, `Kill`, `WriteLog`. Every exception ends
the script (`"exception"`), every `printe` too (`"exit"`). The self-test of `ipc.py` is the
other initial state: it catches the exceptions and calls on. The browser is `Listen`,
`Die`, `Commit` (the tab gets the document of the last navigation) and `LoadEvent`.
`told` is what the file held when the browser's processes were last told to read it, by
their start or by a SIGCONT; when they have done so is the subject of `MaskRefresh`.
PyChromeDevTools is external: a command drops the events that wait in the socket,
`wait_event` returns the first load event or nothing, an evaluation answers for the
document of the moment or raises, and `Page.stopLoading` has cancelled the navigation and
stopped the document, for good, when it answers. Navigations that fail show no document of
their own; they are navigations that never commit. One tab, no redirects.

Properties:

- `ReadsWhatWasWritten`: whatever was added, refused, initialised and randomized, the
  parser of `ipc.cc` gets each function with the masks last drawn for its set. It excepts
  the two cases in which the code fails (`WellFormed`): a set without functions before
  another one (`bytes` writes an empty line for its names, and nobody skips it) and a
  size that is a multiple of the page (`getSize` has no byte for the NUL).
- `InsideTheFile`: every line the script writes, wherever its loops stopped, ends within
  the bytes `getSize` counted for the mapping.
- `OneSetPerFunction`: what the docstring of `globalSet` promises, through lists that are
  refused half-way.
- `ResultOfPage`: a page whose own load event ended the wait is recorded with its own two
  numbers. A wait that timed out, or was ended by the event of the document before, may
  record the numbers of that document; the property excepts them because the code does.
- `CompleteLog`: a log that exists has a row for every page with two numbers in it.
- `LoadsUnderOneRound`: from its navigation to its load event or its stop, a page loads
  under one round of masks, of which the browser had been told before. At `stopLoading`
  the page may not have committed or may have loaded half, when the wait was ended by a
  timeout or by another document's event: a script that went on without the stop would
  rewrite the masks of a page that is still loading.
- `NeedsDisplay`: Xvfb is never started by the script, as `procIsAlive` is always true.
- `ConnectionEnds`, `EndsOrWaits`: the connection phase ends; the script ends or is in the
  unbounded wait for a result, and then the browser is dead or the document not loaded.

## PageTiming, LogAnalysis and MeasuredRun: a run and its tables

`PageTiming` is one run of the browser from `my_main` to the death of its processes.
`run` holds the environment (`TIMING`, `IPC`, `MMAP_FILE`, `LOG_FILE`, `CORE_CONFIG`),
whether `argv[1]` is `--no-zygote`, and what the pages do. `my_main` is the choice by
`argv[1]`, `experiment_init` with its three errors, and the alarm. `MarkLoaded`,
`MarkFraction`, `MarkUnderLock` and `MarkLog` are `experiment_mark_page_loaded`: the
test of `page_loaded`, the two halves of the unsynchronised write of `page_end`, the
difference under `time_mut`, the log line. `sigalrm_handler` and `Killpg` are the two
halves of the handler; `Exit` is `exit` or `_exit`, which stop the experiment first;
`Interrupted` and `Killed` are deaths that do not. g3log is external: it takes lines
while logging is on (`lines`), writes some prefix at any time (`written`, decided when
the process dies), and everything when it is shut down.

`LogAnalysis` has the two readers as operators: the awk filters and the deduplication of
`summarize.sh`, and `process_line` and the sort of `processing.py`. `argsort` leaves rows of
the same time in no particular order, so `gen_data_matrix` is the set of matrices it may
return. Time stamps have microseconds, so a second has at most a million `Ticks`.
`MeasuredRun` composes: when all processes are gone, `Analyse` applies them to the files.
That is the good case: neither script waits for the processes to go (`chrome-experimenter.py`
gives the browser five seconds and kills at most the browser). One file for each process is
assumed too: all processes of a run share the prefix `LOG_FILE`, g3log adds the time in
seconds, and the repository does nothing for two that start in the same second.

Properties:

- `FirstDocumentIsThePage`: one page load time per process, from its start to its first
  complete document (be that a frame or the initial tab), unless two threads overlapped
  in the mark, which the test outside the mutex permits.
- `NothingLostByExit`: a process that ends by `exit`, and the browser after its alarm, has
  all its lines in the file, although other threads and renderers go on.
- `TimerEndsTheRun`: with a timer and `--no-zygote` first, every process ends, a renderer
  spawned between the alarm and the signal too.
- `SummaryOfTheRun`: the values in the table are those that were measured and written,
  in both directions; how often a value occurred is lost by `uniq`.
- `OrderWithinSeconds`: the plotted rows are the written entries and exits one for one, in
  the order of time within each second.

## Runs and bounds

| run | checks | bounds and why they are enough |
| --- | --- | --- |
| `refresh_procs` | `NoStaleMap`, `UnmappedOnlyByCtrlC`, `ChangesByRounds` | browser and renderer, each with its main thread, a signal before and after a rewrite: a renderer born, initialised and signalled at any moment of it (830 thousand states); handlers on several threads are in `refresh_sets` |
| `refresh_sets` | `TypeOK`, `NoStaleMap`, `EveryRoundArrives`, `ChangesByRounds` | one process, two threads, two FunctionSets, a signal before and after a rewrite, one Ctrl-C: mixtures of sets and of rounds, coalesced signals (342 thousand states) |
| `refresh_before_open`, `refresh_overrun` | the two findings | the smallest instance that shows each |
| `hooks` | types, stack, affinity, latency | two threads, two functions (their names are symmetric), calls nested twice and three calls in all, so that a thread with a nested call meets another that enters or leaves, and a refresh of the map by a handler on either thread (1.07 million states) |
| `hooks_exit` | the finding | smallest instance |
| `core_permute` | types, sums, refinement, end or hang | the nine configurations listed in `permutate.sh`, two more, two impossible ones |
| `core_names` | the finding | the listed configurations |
| `permutate` | types, trials, what is left of a stopped script, end or hang | two iterations, lists of one and three configurations and one with a repeat, two sites |
| `permutate_flags` | the finding | the same |
| `experiment` | the script, its file and its browser | two `addSet` calls with a pair of sets, a pair that overlaps, and a set without functions; two pages, so that there is a page before; one connection attempt after the first (10 in the script: the count only bounds the loop); pages of 54 bytes, so that one of the sizes is a multiple; a leftover file (109 thousand states) |
| `measured_run` | load times, alarm, logs and tables | eleven kinds of run: with a timer as `permutate.sh` starts them, with external timing, in one process, without `--no-zygote`, with each variable missing; up to two renderers, two threads that complete documents, two seconds of two ticks with an alarm in one of them or after (295 thousand states) |

Named bounds: `Pages` (rewrites), `MaxInterrupts` (Ctrl-C), `Rounds`, `MaxDepth`
(nested calls), `MaxClock`, `ITERATIONS`, `MaxAdds` (`addSet` calls), `Retries`,
`Ticks` (of a second), `Timeout`, `calls` of a kind of run. No run turns deadlock checking off: the script's end is
the action `Terminating` (or `Stopped`), which asks that every process be quiet, so a
thread stuck on `fmap_mut` would be reported as a deadlock.

Fairness. `MaskRefresh`: a pending signal is delivered, a thread in
`experiment_init` or in a handler goes on when it can (the kernel schedules runnable
threads); nothing is assumed of the script, the hooks or the user. `CorePermute` and
`Permutate`: an element that has not been drawn is drawn some time, which a uniform
generator does with probability one, and in `Permutate` the command returns. `Controller`:
the script goes on while it can, and evaluations on a browser that lives are not
answered by exceptions for ever; a page need not load, and the browser need not
answer a connection. `PageTiming`: the machine's own steps (time, signals, start of the
browser, the end of renderers whose browser is gone) happen; nothing is assumed of
documents, calls or deaths.

## Proofs

`MaskRefreshProofs` proves, for any processes, threads, functions and sets satisfying
`MaskRefreshAssumption`:

- `Inductive`: `Spec => []IInv`; `TypeCorrect`: `Spec => []TypeOK`;
  `MapsFollowTheFile`: `Spec => []NoStaleMap`; `ReadsMappedFile`:
  `Spec => []UnmappedOnlyByCtrlC`.

`NoStaleMap` is not inductive: it speaks of settled processes only, so nothing is known
of the update that is about to settle. `IInv` adds what the code relies on: between
writes all lines hold the round and during a write the lines before the position hold
the next one (`FileInv`); `fmap_mut` is held exactly from the clearing to the end of a
handler, so one handler at a time (`LockInv`); where an updater can be in each phase of
`experiment_init` (`PhaseInv`); a handler beside a reading `Boot` has overrun it
(`OverrunInv`); and for each process that will not read the file again, what has been
copied is of the announced round and what the map lacks is still to be inserted
(`FreshInv`). `StepInv` takes `FreshInv` last: only the process that moves, or all
processes in a step of the script, can change it (`Locality`, `FreshFrame`).
`UnmappedOnlyByCtrlC` rests on `OpenInv`: without a Ctrl-C no thread is in
`sigint_handler`, a process has the file mapped exactly when `initializedMmap` says so,
and a reader that is past its first line has it mapped; the types and `PhaseInv` are
the only parts of `IInv` it needs.

`MaskRoundsProofs` proves `Implements`: `Spec => ChangesByRounds`. Beside `IInv` it takes
`CompleteInv`: a function that has no masks in the map of an initialised process is still
to be inserted by some updater, so a settled map has no hole and no lookup changes it
(`SettledKeeps`). Each step of the script is then a rewrite, a round, an announcement or
an end, and each step of a process settles it, ends it or leaves its view alone
(`RoundsControl`, `RoundsProcess`); that it settles with the whole round is `NoStaleMap`.

`FunctionHooksProofs` proves, for any threads, functions, masks and depth of calls:
`TypeCorrect`, `StacksMatch` (`Spec => []QueueMatchesCalls`), `AffinityIsThatOfTheCall`
(`Spec => []AffinityFollowsCalls`) and `Implements` (`Spec => MeasuresOwnCalls`, the
refinement of `CallTimer`). The stack of start times is as high as the stack of
wrappers, or one less in a hook; the invariant adds that a call is there in every hook,
that no start time lies in the future, which mask a hook has found and that it is no
older than the one its call entered with, and, for this, that the map holds masks of the
round read last only, and that every call that is pinned entered with the mask of its
own function of a round that had been read by then. The abstract
calls `open` are then a pairing of the two stacks that one hook step extends or
shortens at the end, and every other step leaves as it is.

`CorePermuteProofs` proves, for any threads, configurations and depth: `TypeCorrect`,
`DrawsAddUp` (`Spec => []DrawnAndLeft`), `ImpossibleHangs` (`Spec => []InvalidHangs`)
and `Implements` (`Spec => PicksConfigured`). The invariant adds to the sums that the
first loop is done before the second starts (`Entering`). Distinct draws increase a finite
set's cardinality by one (`DrawnCores`), so a thread that pins has exactly the
configured numbers, and these are at most the four cores of a kind.

`PermutateProofs` proves, for any lists and any number of iterations: `TypeCorrect`,
`TrialsOnce` (`Spec => []EveryTrialOnce`), `StopsWhole` (`Spec => []StopsInOneBlock`) and
`RepeatNeverRuns` (`Spec => []RepeatsHang`). The invariant says which trials lie behind
the position of the loops and that exactly these have run, also once the script has
stopped; the orders are injective once they are full, which a list with a repeat can
never be.

`MeasuredRunProofs` proves, for any kinds of run, renderers, threads and calls:
`TypeCorrect`, `FirstDocument` (`Spec => []FirstDocumentIsThePage`), `NothingLost`
(`Spec => []NothingLostByExit`), `SummaryComplete` (`Spec => []SummaryOfTheRun`) and
`RowsOrdered` (`Spec => []OrderWithinSeconds`).
`LogInv` says what is in the file at each state of g3log: never more than was logged,
and all of it once the log was shut. `OnceInv` counts, for a process, the load times it
has logged together with the threads that are still on their way to log one: at most one
for each thread, and one in all unless two overlapped. `TimeInv` says what `page_end`
and the difference hold in the middle of a mark. For the summary, `Rows` and `FuncLog` are
shown to be the images of the written lines, so that a value is in the table exactly if
one of these lines has it. For the plot, the files are those of different processes
(`FileOwners`), so the accepted lines stand one for one for the written calls, and as a
second has no more than a million ticks, the times of two rows of the same second are
ordered as the clock was (`SameSecond`).

`ControllerProofs` proves, for any FunctionSets, arguments of `addSet`, retries and
pages: `TypeCorrect`, `OneSet` (`Spec => []OneSetPerFunction`), `PageResult`
(`Spec => []ResultOfPage`), `OneRound` (`Spec => LoadsUnderOneRound`), `Complete`
(`Spec => []CompleteLog`) and `Display` (`Spec => []NeedsDisplay`). `Along` and `Places` say
which steps change which variables and where the script can go from each place, so that the
parts of the invariant are kept for reasons of a few actions each: `LoopInv`, which part
of the script is in a loop over the sets; `DisplayInv`, that a browser gets nowhere without
a display; `RowsInv`, that one row is recorded per turn; `DocumentInv`, that a page on its
way is newer than the document and that none is on its way outside its turn;
`ResultInv`, which document the two numbers of the current page can be of; `RoundInv`,
that there is no browser before the launch, that a navigation starts with `told` and
`drawn` equal, and that nothing loads from the stop to the signal. Masks are drawn
in the loops over the sets only (`Draws`), so a page that is on its way sees no change
(`RoundHolds`). `AddEffect` and
`AddKeepsDisjoint` hold for lists of sets of any length.

`FileProofs` proves, for any FunctionSets, lengths of names, arguments of `addSet` and
page size: `Inside` (`Spec => []InsideTheFile`) and `ReadBack`
(`Spec => []ReadsWhatWasWritten`). Offsets, sizes and parsers are recursive functions; what
they compute is proved by induction on numbers, which `Induction` derives for sets of
numbers from the well-foundedness of the subset ordering on finite sets. Three invariants,
beside those of `ControllerProofs`, carry the two results:

- `BeforeInv`: before the script makes its file there is nothing in it, whatever is added;
- `PlaceInv`: what is written next begins where some set begins, no later than the set
  whose turn it is. That is all that holds when a set was added twice (two sets without
  functions may be the same one) or when `initIpc` stopped half-way and
  `randomizeMasks` was called all the same; it is enough for `Inside`, because the
  starts only grow and the last one is `getSize` (`StartsGrow`, `TurnInside`);
- `LayoutInv`: sets that were added once lie one behind the other, each with the masks last
  drawn for it, and those `initIpc` has not reached have no offset. `WriteEffect` says which
  lines a write keeps and which it replaces: `initIpcSet` writes behind all sets before
  (`KeptLines`, `NewLines`), `randomizeMasksSet` writes two lines of the same lengths as those
  it replaces (`MasksReplaced`).

Then `tokenize` returns the lines that lie there (`ReadLines`), each turn of the parser's
loop reads one more set (`ReadOneSet`, `ReadTurn`), and after the last turn the map is
`Assigned` (`ReadAll`). That the sets are distinct follows from `WellFormed` and
`OneSetPerFunction`.

The invariants are stated beside the specifications (`IInv` and its parts) and were
checked with TLC before they were proved.

Every invariant, action property and refinement that a run checks is a theorem. Only
liveness is model-checked alone (`EveryRoundArrives`, `EntryReturns`, `Terminates`,
`ConnectionEnds`, `EndsOrWaits`, `TimerEndsTheRun`), as it is outside what the proof
system handles. The five statements that the findings refute are not theorems, of course.

## Where the code differs from what is said of it

Beside the five findings with a run, these were met while modelling:

- `convenience.py:16`: `findProcess` is documented to return the active PIDs; without any
  it returns a list of one empty string (`NeedsDisplay` is stated for the code as it is).
- `summarize.sh:46` calls the count of its table the number of executions; equal
  lines were removed before.
- `processing.py:17` adds the microseconds of a line to milliseconds.
- `chrome-experimenter.py:46` with `:140`: a timeout given on the command line stays a list,
  and comparing it with a number raises in the first wait for a page.
- `chrome-experimenter.py:307`: `process.kill` shares a `try` with `Browser.close`, so a browser
  that does not answer, the one that needs killing, is not killed.
- `chrome_interpose.cc:66`: if the real `exit` is not found, `exit` calls itself.
- `experimenter.cc:188`: an `IPC` that is set to anything but `on` needs neither a map nor
  `CORE_CONFIG`, and the run measures without either.

## Not modelled

- g3log beyond taking and writing lines; malloc and logging inside signal handlers (they
  may wait for a lock the interrupted thread holds, in code the repository does not
  contain); page rendering; the values of masks beyond what a property tells apart.
- Option parsing of all scripts, the interactive and just-mmap modes; Xvfb, gdb.
- A SIGINT with external timing in `PageTiming`: `MaskRefresh` has its handler, and Chromium
  may replace it.
- Statistics of the summary but count, minimum and maximum; plots; names of log files.
- `misc/odroid-port`: a script for another board and browser that uses nothing of the
  framework; setup and listing scripts; examples and the timing benchmark.
- The v8 headers. They are nine tenths of the repository's C and C++ lines (twelve of
  thirteen thousand) and hold third-party declarations: of them the library uses a few
  type names in the signatures of three wrappers. Nothing in them is program logic of
  this repository, so whatever share of all lines the models cover cannot exceed the
  tenth that is its own.
