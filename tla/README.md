# leonutils in TLA+

`leonutils` is a C++ library of a trading system's utilities. The part that is hard
to get right is what processes and threads share: two lock-free rings, one of
them in POSIX shared memory, the birth and death of that memory under a name,
the signals of a process, and a few pieces of per-thread or per-object state
that have to survive long sequences of calls. The rest are functions and thin layers
over system calls, whose hazards are at the edges: the ends of an integer's
range, the epoch, a text without an end. This directory models both in TLA+ and checks them with
TLC. With TLAPS it proves, for every size, number of processes and bound, the types and the
safety properties of every part that has a state, that both rings implement one abstract
queue, and, for every input, what most of the functions promise.

Paths are those of the repository; `hpp` files are in `include/leonutils`, `cpp`
files in `src`.

## The system

| Component | State | Operations | Interacts with |
|---|---|---|---|
| `ShmAtmRQ_t`, the ring (`ShmAtomicRQ.hpp/.cpp`) | in shared memory: `_head`, `_tail`, per node `h_tag`, `t_tag`, 112 bytes; per object `_errs` | `enque`, `deque`, `clear`, `size`, `full`, `empty`, the flag | any number of processes that map the same file |
| `ShmAtmRQ_t` life cycle over `ShmBuffer_t` (`ShmBuffer.hpp/.cpp`) | the file under `/dev/shm`, its size; per object name, mapping, size, `_meta`, `_capa`, `_ownr` | `make`, `plug`, `makeOrPlug`, destructor, `delOsFile`, `releaseOwnership`; `fork` outside | other processes, through the name |
| page tags of `ShmBuffer_t` | `_pages`, `_coold`, `_swapd` | `tagCold`, `tagPage`, `swapOut`, `pageOut`, `clearTagRanges` | the kernel (`madvise`) |
| `CraflinRQ_t<T>` (`CraflinRQ.hpp/.tpp`) | `_head`, `_tail`, per node two tags and an object | `enque`, `deque`, `size`, destructor | threads of one process; `T`'s constructors |
| `Tracer_t` (`CallStack`) | thread-local ring of names, `s_top`, `s_btm` | constructor, destructor, `ClearCallStack`, `PrintCallStack` | jumps of `Signals` skip destructors |
| `Signals` | dispositions, masks, `s_taked_over`, `s_sa_backups`, `tl_taked_over`, recovery points | `CatchGlobalSig`, `RevocGlogalSig`, `CatchCrashSig`, `RevocCrashSig`, the two handlers | kernel, every thread; SIGBUS may come from a shared file that shrank |
| `RingQue_t<T, SizeType>` (`RingQueue.hpp`) | `_head`, `_tail`, `_mask`, elements | `enque`, `deque`, `rtail`, `clear`, queries | none: one thread |
| `TscClock_t` (`Rdtscp`) | two anchors, `_ghz` | `calibrate( for )`, `calibrate()`, `now...` | the processor's counter and the system's clock |
| `HugePage_t` | pointer and size of one mapping | `make`, `release`, destructor | the kernel |
| `ProcCtrlImp_t` (`ProcCtrl`) | the kernel's table of processes | `forkOnly`, `forkExec`, `sendSign`, `waitExit` | children, and other processes that get their pids |
| `CpuAffinity` | the kernel's mask of each thread | `ProcessOnlyCPU`, `PthreadOnlyCPU` | threads and children, which inherit; `SetOps`, which reads the list |
| `TextSheet_t` | specifications of rows and columns, ready-made lines, data | `addCol`, `addRow`, `skeleton`, `fill`, `make`, `clear` | `Unicodes`, `Converts` for the widths |
| `time-diff` (`TimeDiff.cpp`) | the queries of a session, two running statistics | a query, the server's answer, the calculation | the server; `Statistics` |
| `Chrono`, `ChronoTypes`, `show-stamp` | a value | arithmetic, comparisons, texts of times and durations | `Converts`, the local zone |
| `Algorithms`, `ArrayUtils` | none | comparisons with a tolerance, `safe_div` | |
| `SetOps`, `Converts`, `Unicodes`, `UnionTypes` | none, or a few bytes | reading and writing lists, numbers and short texts | each other |
| `Statistics` | count, sums, extremes | `update`, `initialize`, `pearson`, `spearman` | `time-diff` |
| `FileSystem`, `Exceptions`, `MemoryOrder`, `LeonUtlVer` | none | helpers over `std::filesystem`, names | not modelled |

What makes each of the modelled ones correct, and what is hard about it:

* **The ring in shared memory.** An item that was accepted is handed out once, in
  order and whole; no node is in two hands. Hard because a call is two
  halves, a compare-exchange on an index and a later store of a tag, and
  between any two accesses others may run laps of the ring, or the process may
  be killed.
* **Its life cycle.** A ring that was handed out without an exception has the size
  that its object believes, and keeps it. Hard because `plug` and `make` are
  half a dozen system calls each, on a name that may stand for another file each time.
* **Page tags.** No page outside the mapping, in the header or behind the address
  is touched; a call is skipped only if it would be idle. Hard because of negative,
  empty and inverted ranges, floating point, and records that outlive a mapping.
* **CraflinRQ.** As the first, and each object is made, moved from and destroyed
  once, up to the destructor. Hard because constructors may throw in mid-operation.
* **CallStack.** What a crash handler prints are the innermost calls that were open.
  Hard because the ring overflows, exits are skipped by jumps, and clears
  happen inside calls.
* **Signals.** A protected thread survives its crashes, and a take-over can be undone.
  Hard because masks are inherited, saved, and brought back by jumps, and
  signals come between any two system calls.
* **RingQueue.** Contents and answers stay right when indices and places wrap.
* **TscClock.** A clock that was calibrated is as accurate as its anchors, and calibrating it
  again never makes it worse. Hard because an interruption may come between
  any two readings, and because anchors are replaced one at a time.
* **HugePage, ProcCtrl, CpuAffinity.** What the object believes is what the kernel has: the bytes
  mapped, the processes that are children, the processors a thread may use. Hard because calls fail
  half-way, pids are used again, and masks are inherited.
* **TextSheet.** Every line is as wide as every other, whatever the numbers and however often it is drawn.
* **time-diff.** The estimate of the difference of two clocks is off by no more than the latency.
* **The functions.** What is written is read back; comparisons are an order where they can be; the
  arithmetic of times is exact on both sides of the epoch; two ways to one figure agree.

## The modules

### Ring in shared memory

* `ShmAtomicRQ` has one action per access of a shared word: `EnqLoad` is
  `m_tail.load`, `EnqTagFree`/`EnqTagBusy` the load of `t_tag` and the two ways it
  can go, `EnqCasWin`/`EnqCasLose` the compare-exchange, `EnqCopy` the `memcpy`,
  `EnqPublish` the store of `h_tag`; `Deq...` likewise. `EnqRetry` is the rest of
  the loop body, with the count of tries that starts anew whenever the index
  moved. `clear` is a process that calls `deque` until it says false. What a
  call does with its locals belongs to its next access. `log`, a history variable, keeps
  the payload of the enque that won each index.
* `BoundedFifo` is what the ring promises: a queue of at most `Capa` items,
  `Put`, `Take`, and `Give` when a call returns with its item.
  `RefinesFifo` maps the ring to it: the queue is `log[head .. tail - 1]`, so an
  item is in it from the moment its index is claimed, and the hand of a
  consumer is what `log` has for its index until the copy, and then what it copied.
* `ShmAtomicRQ_refusals` adds history variables about why a call may say no: an
  enque only if the node at the tail was in use at some moment of the call, a
  deque only if the item at the head was not there or another took one.
  `ShmAtomicRQ_live` adds fairness and `Mortal`, the processes that may be killed.
* `ShmAtomicRQ_proofs` holds the proofs. What they need of numbers is in `NumberLemmas`, which the
  other proof modules use too.

Memory model: accesses interleave sequentially consistently. The build is for
x86-64, where a locked compare-exchange stands between the two halves of a call
and a store that lingers in a store buffer is a store taken later. The code
loads the tags with `relaxed`, so that on a weakly ordered CPU these models would
claim too much. Formally the loads do not synchronise with the release stores;
that is not modelled.

### Life cycle

`ShmLifecycle` makes each system call a step: `MakeUnlink`, `MakeOpen`, `MakeSize`
(`ftruncate`), `MakeMap`, `MakeCheck` (`fs::exists`) and `MakeBytes` (`fs::file_size`, both
by name), `MakeCapa`, `MakeLay`; `PlugExists`, `PlugSize`, `PlugOpen`, `PlugMap`, `PlugMeta`. The
kernel's objects are `Seg`, the name is `file`. `KernelRefuses` is a system call of `_mk_plug` that
fails: what the calls before it did to the file stays done. Sizes are counted in nodes, and
`AlignCapa` is what `_AlignCapa` makes of the size a maker wants. Access to a
page that is not there is SIGBUS, and a process that dies is replaced by a fresh
one. `ShmLifecycle` ends where `ShmAtomicRQ` begins: `Init` there is the ring as
`MakeLay` leaves it, and `ReadyIsLaid` and `ReadyIsWhole` are what that takes.
`ShmLifecycle_proofs` holds the proofs.

### The others

* `ShmPageTags`: an action per public call; `Advise` is `_madvise`, which may fail.
  Floating point is modelled by what it does: `FloatOf` rounds to `MANT` bits.
* `CraflinRQ`, `CraflinRQ_live`: as the first ring, but an enque refuses at the first
  tag that does not fit, its index is not loaded again, and a node holds an object or is `Raw`.
  It is shown to implement the same `BoundedFifo`.
* `Signals`: `CatchGlobalSig` and `RevocGlogalSig` are several steps, because signals
  come in between; what a thread does for itself is one. Each of four names
  stands for the signals that the code treats alike. `Fatal` and `Takes`
  are the kernel's part and marked external.

Each has its proofs beside it: `ShmPageTags_proofs`, `CraflinRQ_proofs`, `Signals_proofs`.

### One thread

`OneThread` gathers the parts that keep their state to one thread or one process. The first state
chooses a part, and only that part moves; the parts have nothing to do with each other, so
this loses nothing and one run explores each by itself. Every part is a module of its own,
with an action per operation, that can be used without the others; what it takes of its constants
is its `Params`, which `OneThread` assumes and TLC evaluates. Their constants are those of `OneThread`, and
`MCOneThread` gives TLC the lists that a `.cfg` cannot write. `RingQueue`, `CallStack` and `TscClock` are
taken by `EXTENDS` (with names of their own: `RingParams`, `StackParams`, `ClockParams`), the others by
`INSTANCE`. `OneThread_proofs` has the theorems about each part by itself and carries all of them to the
whole.

* `RingQueue`: `Word` is the number of values of `SizeType`.
* `CallStack`: `Enter`, `Exit`, `Clear`, and `Jump`, an exit from several calls
  without destructors. `open`, a history variable, is the true call stack.
* `TscClock`: `Try` is one round of `GetAnchor`, in which the counter goes on by any amount between the
  readings; `GotFirst`, `GotSecond` and `GotAgain` end the three uses of it, and `Keep` is the choice
  `calibrate()` makes. Both clocks tick with one counter, `FREQ` of whose units are a nanosecond,
  and the system's clock is read without error. `now` is exact arithmetic.
* `HugePage`: `make`, `make_fails`, `release`; `mapped` is what the kernel has.
* `ProcCtrl`: `proc` says what is behind each pid: a copy of the program, another program, one that has
  ended, a stranger, or nothing. `forkExec` counts the words of its arguments before
  the fork and fills them in after.
* `CpuAffinity`: `mask` is the kernel's, of every thread and child; `Start` is any of `std::thread`, `fork` and
  `forkExec`. The list is read by `SetOps`, character by character.
* `TextSheet`: a text is the width it is displayed with, and so is a number; `Line`, `Ruler` and `Names` are
  the three kinds of lines that are drawn.
* `TimeDiff`: `Send`, `ServeTime`, `Receive`; messages take any time, and `Pause` stands for the 20 ms between queries; the statistics on the way and at the end
  are those of `Statistics`. `Totals` has sums, and `std::sort` of numbers, as recursive functions, so that theorems
  can be proved about them.

### Functions

`Algorithms`, `UnionTypes`, `Converts`, `SetOps`, `Chrono` and `Statistics` have no state: the functions
of the source are operators there. `Values` is a machine of one step that picks an input, of any
kind, and its invariants say what the functions answer for it. There are nineteen laws, each with a
comment of its own, gathered into four properties. Numbers keep their nature, not their
size: a double is a sign and a count of steps, or an infinity or a NaN, and zero has a sign;
nanoseconds, bytes and the word are small. Texts are sequences of characters where the
reading of them is the point, and a C string is followed by whatever memory holds. Averages, deviations and
correlations are kept as exact fractions. Recursion is written as recursive functions and the number that bytes are as a
sum (`Totals`), so that theorems can be proved about them; they are in `Values_proofs`. Where the code is known to go astray outside a precondition (the
remarks below), the law says the precondition.

## What the runs show

Runs that pass:

| Run | Properties | Bounds |
|---|---|---|
| `ShmAtomicRQ_pair` | `SlotExclusive` `DeliveredAsSent` `FullIsFull` `IInv` `RefinesFifo` `EnqRefusedWhenBusy` `DeqRefusedWhenBare` | 2 processes that each produce, consume and clear, 1 observer; 2 nodes, 4 enques, 2 payloads |
| `ShmAtomicRQ_live` | `Delivered` `CallsReturn` | 3 processes (a producer, a consumer, one that is both), of which the first two may be killed; 2 nodes, 3 enques |
| `ShmLifecycle_onemaker` | `TypeOK` `ReadyIsWhole` `ReadyIsLaid` `InUseIsKept` `NothingIsLeft` | 2 processes, 1 of them the maker; 3 files; sizes 0, 3 and 9 wanted, 2 to 4 given; forks, 2 kills, any system call may be refused |
| `ShmPageTags_ranges` | `TypeOK` `InsideMapping` `SkippedIsTold` `HotIsLeft` | sizes 4 and 17 with pages of 4, 2 headers, ranges from -5 to 9, mappings that follow each other |
| `CraflinRQ_mixed` | `TypeOK` `Lifetimes` `NothingLeaks` `SizeIsUpper` `RefinesFifo` `Delivered` | 3 threads, one of which does both, exceptions anywhere; 2 nodes, 4 enques |
| `Signals_survive` | `TypeOK` `SavedIsRestored` `ProtectedSurvives` | main thread and 1 worker, any number of everything |
| `OneThread_each` | `TypeOK` `Contents` `AnswersTell` `ShownIsOpen` `Accurate` `KeepImproves` `Aligned` `KernelAgrees` `SessionTells` | see below |
| `Values_laws` | `NumbersAgree` `SamplesAgree` `TimesAgree` `ReadBack` | see below |

Why the bounds are enough to be interesting. In a ring of two nodes index `i` and
index `i + 2` share a node, and `MaxTail = 4` (3 in the liveness run) brings every node (one of the two) into a second lap, which is where
a stale tag, a stale index and a stale compare-exchange meet; the theorems
take the bounds away. `MaxErrs`, `MaxCrashes` and `MaxKills`
saturate or limit counters that nothing else reads. The page size and the mantissa of
`ShmPageTags` are 4 bytes and 4 bits, so that rounding happens at sizes of a
few pages; at the real 4096 and 24 the same sizes lie at 2^24 bytes and above. In
`ShmLifecycle` sizes 0, 3 and 9 come to the least capacity and, rounded up and cut off, twice to the
most: files of two sizes, which is what a stale size takes.

`OneThread_each`:

* ring: `Word = 16`, capacities 1 and 4 (0, 3 and 5 asked for): the indices wrap several
  times around the places and once around the word, in any phase;
* stack: 2 functions, a ring of 4, depth 8, which overflows twice over, jumps followed by a clear;
* clock: 2 tries per anchor, each taking up to 6 units, 2 units a nanosecond, a sleep of 9, the counter up to
  26: a first calibration and several further anchors, with jitters on both sides of the ones kept;
* sheet: names of width 1 and 4, columns of 3 and 4, at most 2 of each, the column of names up to 8, which is
  three drawings;
* huge: pages of 3 bytes, sizes from -2 to 7; proc: 3 pids; cpu: 3 processors, 3 tasks, 7 lists, among them the
  empty one, one with a blank last piece and two that no processor is in;
* diff: 3 queries, each way up to 3, a pause of 1, clocks apart by 7, a new line after 5.

`Values_laws`: doubles of up to 8 steps either way, where 1.0 has 4 and the tolerance 2, so that each comparison has numbers
just inside, at and outside its edge; integers of 4 bits; bytes of 2 bits, the least that has a highest bit and
others; seconds of 100 nanoseconds, hours of 2 minutes of 2 seconds, days of 3 hours, with times on both sides
of the epoch and of a switch of the zone; up to 4 samples.

`WeakCas` lets a compare-exchange fail for no reason. The runs leave it off, as on x86-64; the
theorems hold either way, except the two about refusals, which assume it is off: a call may
count a failure for no reason among its tries, and give up for that.

`CHECK_DEADLOCK FALSE` appears in the runs of `CraflinRQ`, where a
destroyed ring is the end, of `Signals`, where the process may be killed, of `OneThread`, where a
session of `time-diff` and the bounded counter of the clock come to an end, and of `Values`, which takes
one step. All other systems can always go on.

Runs that find a violation, each of one property that a document, a comment or a
test of the repository states (`PROJECT.json` quotes the lines):

| Run | What the code does instead |
|---|---|
| `ShmLifecycle_either` | of two processes in `makeOrPlug` the slower unlinks the ring of the faster |
| `ShmPageTags_first` | an address in the first page, or below the base, has the whole buffer tagged |
| `CallStack_blank` | after an overflow and its return nothing is printed though calls are open |
| `Signals_restore` | revoking leaves SIGABRT taken over and the mask closed |

Every property of a passing run also has at least one mutant: a definition next to the real one,
introduced by "A slip", that changes the code as a plausible mistake would, and under which
TLC finds the property violated.

## Fairness

Safety runs assume none. `ShmAtomicRQ_live` and `CraflinRQ_live` assume weak
fairness of the steps inside a call, which is that the operating system runs every
thread that is not killed, and fairness of `DeqCall`, which is that consumers poll, as
`tests/shm-consumer.cpp` and the threads of `tests/CraflinRQ-test.cpp` do. In
`ShmAtomicRQ_live` that is strong fairness: the one consumer that lives also produces,
and it is taken to call `deque` again and again whatever it enques in between. Nothing
is assumed of producers' calls. A killed process (`Mortal`) is one without
fairness: its shared words stay as they are. What everyone gets is therefore not
unconditional. `Delivered` excepts an index that a killed producer holds, and those
behind it: a producer killed between its compare-exchange and its tag store blocks the head for
good. `CallsReturn` needs no exception. `CraflinRQ`'s `Delivered` excepts a ring that was
destroyed or on which something threw.
`MaxTail` bounds the races an enque
can lose; without it an enque may be kept busy for ever by others that succeed,
which is lock freedom.

## What is proved

Every theorem is about the specification that TLC runs, and holds for every value of the constants that
the named assumptions of its module allow.

| Theorem | States | For every |
|---|---|---|
| `ShmAtomicRQ_proofs!Inductive` | `Spec => []IInv` | number of processes, capacity of at least 1, payloads, bounds |
| `...!TypeCorrect`, `Exclusion`, `Delivery`, `FullIsTrue` | `[]TypeOK` (with `head <= tail <= head + Capa`), `[]SlotExclusive`, `[]DeliveredAsSent`, `[]FullIsFull` | the same |
| `...!EnqRefusals`, `DeqRefusals` | `HSpec => EnqRefusedWhenBusy`, `DeqRefusedWhenBare` | the same, if `~WeakCas` |
| `...!Refinement` | `Spec => RefinesFifo` | as the first |
| `CraflinRQ_proofs!Inductive` | `Spec => []IInv` | number of threads, capacity of at least 1, objects, bounds, with exceptions and without |
| `...!TypeCorrect`, `LifetimesKept`, `NeverLeaks`, `SizeNotBelow` | `[]TypeOK`, `[]Lifetimes`, `[]NothingLeaks`, `[]SizeIsUpper` | the same |
| `...!Refinement` | `Spec => RefinesFifo` | the same |
| `ShmLifecycle_proofs!TypeCorrect` | `Spec => []TypeOK` | processes, makers, files, sizes, kills, forks, refusals |
| `...!Inductive`, `ReadyWhole`, `ReadyLaid`, `InUseKept` | `[]IInv`, `[]ReadyIsWhole`, `[]ReadyIsLaid`, `InUseIsKept` | the same, as long as `MakesApart` |
| `...!OneMakerKeepsApart`, `OneMakerSafe` | `Spec => []MakesApart`; the three above without that hypothesis | the same, with at most one maker |
| `...!NothingLeft` | `Spec => NothingIsLeft` | the same as `TypeCorrect`, with any number of makers |
| `ShmPageTags_proofs!TypeCorrect`, `SkippedTold`, `HotLeft` | `[]TypeOK`, `[]SkippedIsTold`, `HotIsLeft` | page, mantissa, sizes, headers, ranges |
| `...!NothingOutside` | `Spec => []InsideMapping` | the same, with sizes at which the floats are whole parts of a page apart |
| `Signals_proofs!TypeCorrect`, `Restored`, `Survival` | `[]TypeOK`, `[]SavedIsRestored`, `ProtectedSurvives` | number of workers |
| `OneThread_proofs!RingTypes`, `RingContents`, `RingAnswers` | `[]RingTypeOK`, `[]Contents`, `[]AnswersTell` | width of `SizeType`, capacities that divide it, elements |
| `...!StackTypes`, `StackShown` | `[]StackTypeOK`, `[]ShownIsOpen` | length of the ring, names, bounds, with jumps and without |
| `...!ClockRuns`, `CalibrationImproves`, `ClockAccurate` | `[]ClockTypeOK`, `KeepImproves`, `[]Accurate` | frequency, tries, delays, and sleeps longer than the longest reading and one unit of the system's clock |
| `...!EachPart` | `Spec =>` the specification of each of the eight parts | constants of the parts |
| `...!Inductive`, `TypeCorrect` | `[]PartsInv`, `[]TypeOK` | the same |
| `...!Tables`, `KernelBelieved`, `Sessions` | `[]Aligned`, `[]KernelAgrees`, `[]SessionTells` | the same |
| `...!PartsKept` | `[](Contents /\ AnswersTell /\ ShownIsOpen /\ Accurate) /\ KeepImproves` of the whole | the same |
| `Values_proofs!TimesExact` | `Spec => []TimesAgree` | nanoseconds in a second, length of minute, hour and day, `Bound` |
| `...!NumbersExact` | `Spec => []NumbersAgree` | tolerance, unit and width of the numbers, even number of values of a byte, `Bound` |
| `...!SamplesExact` | `Spec => []SamplesAgree` | `Bound`, the number of samples |
| `...!SumIsExact`, `StampIsExact`, `FloorIsExact`, `DurationIsExact` | a `timespec` moved, a stamp, the last midnight, the parts of a duration are exact | integers and zones, not only those that `Values` picks |
| `...!DoublesAreOrdered`, `EqualWithin`, `DivisionIsOdd` | the laws of the comparisons and of `safe_div` | doubles of any size |
| `...!ZeroIsFound`, `TextIsBack`, `SameTextsSameBytes` | the test for a zero byte is right; what comes back of a text; texts that are the same compare equal | texts of any length, unions of up to 8 bytes, memory behind them |
| `...!FiguresMirrored`, `ResumedFromFigures`, `RanksToFormula` | the figures of a mirror image, after a summary, by ranks | samples of any number and size |

Four assumptions are consequences of others that the provers cannot draw, because they know nothing
of powers: `UlpAssumption` (the distance of floats is positive and no more than the number itself); in `RingParams`, that a
capacity, being a power of two, divides `Word`; in `Params` of `Chrono`, that `10 ^ Places` is positive; and in that of `UnionTypes`,
that the first eight powers of `BYTE` follow each other as powers do. `CapasAssumption` says that the capacities
of a life cycle, which are `AlignCapa` of what is wanted, are positive. TLC evaluates all five on every run of their modules.

The library's induction theorems take an operator and cannot be used here. `NumberLemmas` has
induction over sets of numbers instead (`Induct`: a set that has 0, and with each number the next, has them all),
and with it what the sums and the sort of `Totals` compute: sums split (`SumAppend`), stay within bounds (`SumWithin`), do not
change when the numbers are put in order (`SortedInOrder`) or in any other way (`SumShuffled`), and those of squared deviations and
of products of deviations expand (`Deviations`, `ProductsOfDeviations`). Sorting what is sorted the other way round turns it
(`SortedMirrored`), and the digits of a number are found by dividing it (`DigitFound`, `SameDigits`).

### The ring in shared memory

The assumptions are those named in `ShmAtomicRQ`: the capacity is a positive
number, `None` is no payload, the bounds are numbers.

`SlotExclusive` is not inductive: it says nothing of why a node that passes the
tag check is still free when the compare-exchange succeeds. The invariant `IInv` adds
that. Its part `NodeInv` says that a node serves one index `T` at a time, the
one in its `t_tag`, and where `T` lies between `head` and `tail` tells what it is:
`T >= tail` free, with `h_tag` a lap behind; `T < head` being drained; in between
being filled (`h_tag` a lap behind) or filled (`h_tag = T`, and then the payload is the one
logged). `ProcInv` ties the locals of a process to that: who holds a claimed
index finds its node in the right state. `Apart` says that two processes between
compare-exchange and tag store do not hold the same node. A tag check alone
proves nothing lasting, since all may change before the compare-exchange; what is kept is
that `t_tag` of a node never falls back, so that a compare-exchange that succeeds finds the
tag that was checked. `LocalStep` disposes of all steps that touch only locals; the
compare-exchanges, copies and tag stores have a lemma each. `NumberLemmas` has the modular
arithmetic: indices of one node differ by at least a lap.

The refinement proof maps each step: `EnqCasWin` is a `Put`, `DeqCasWin` a
`Take`, `DeqRecycle` a `Give`, and everything else a stutter; that `DeqCopy` stutters is
the invariant's `DeliveredAsSent`.

The refusals need an invariant about why (`WhyInv`): a call of `enque` that has counted two tries at the present
tail met a busy node, and a `deque` whose index is no longer the head met a rival. The count starts
anew when the index moves, so what was counted was counted at this index.

### CraflinRQ

The same argument, with what exceptions change. A constructor that throws leaves a node whose index was claimed and that
nobody fills: so `NodeInv` says less of a node in between, and the part `Manned`, that somebody is at
work at every such node, holds only until something was thrown. It is what `NothingLeaks` takes: the
destructor finds an object in every node from head to tail, because the calls have returned. `Lifetimes` is in
`ProcInv`, which says of each step of a call whether there is an object in the node or raw storage.

### The life cycle

The types hold whatever races (`TInv` ties them to the step of a call: what has no descriptor is not mapped, what has
no size has no capacity). The other properties do not. Two makers of one
name violate `ReadyIsWhole` itself: the one asks `fs::file_size` by name, and gets the size of the file that
the other has just created. So the theorems name what the code relies on: `MakesApart`, that no two
processes are at the same time between the `shm_unlink` of a `make` and its last look at the name. Then what a
`make` is making is its own file (`MadeApart`), the sizes along its calls agree (`MakeInv`), and a capacity that
a visitor can read in a file is that of the file (`SegInv`). Where only one process makes the ring, as in
`ShmLifecycle_onemaker`, this is no hypothesis: `OneMakerKeepsApart` proves it, and `OneMakerSafe` restates the properties
without it.

`NothingLeft` needs no such hypothesis. Its invariant, `LInv`, is weak: who owns a ring has
finished it and is not plugging another. With it, a step may take a file from those that keep it
(`Keeps`) only by taking its name away, or is one of the four that are excused: a
kill, SIGBUS, a refused system call, `releaseOwnership`. The run checks that for one maker and the heirs of its forks;
crossing makers, and SIGBUS, which takes two of them, are covered by the proof alone.

### The page tags

`IInv` says that the pages are counted as a float has them, that what was told lies among them, and that a record that is not an
earlier mapping's is where an unbroken run of what was told ends. `SkippedTold` and `HotLeft` hold for all
sizes. `NothingOutside` needs that the distance between floats of the size divides a page: with 24 bits and pages
of 4096 bytes that is so up to 2^36 bytes. Above, rounding up may count a page behind the end.

### Signals

`TakeOver` says at each step of a take-over which dispositions are in place and what the backup
has; only the main thread changes them, so each step finds them as the one before left them. `Shields` says why a
protected worker survives: its crash signals are open, the mask its recovery point brings back opens
them too, and a handler that interrupts it returns the mask it had.

### The parts of one thread

The theorems about `RingQueue`, `CallStack` and `TscClock` have the form
`ASSUME ...Params PROVE ...Spec => []P`: they assume what the module takes of its constants and
nothing else.

* `RingQueue`. `Contents` alone says nothing of `tail`. The invariant `RingInv` adds that `tail` is
  `Len(queue)` ahead of `head`, modulo `Word`; because the capacity divides `Word`, the
  places of `Capa` successive indices differ wherever the word wraps (`PlaceOfWrapped`, `RingOwnPlaces`), and the place that
  an `enque` writes is none of those in use. `AnswersTell` is that difference, which is less than `Word` as the
  capacity is.
* `CallStack`. `ShownIsOpen` compares sequences; the invariant compares the names place by place
  (`Matches`), with bottom and top at most a lap apart, and `SuffixByElement` turns the one into the other. The depth of the
  overflow drops out: an entry that overwrites the bottom moves it up.
* `TscClock`. `ClockInv` says of each anchor that it was read at some moment of a span of the counter, of the
  best one so far that it was read since its round began (`Best`), and of a calibrated clock that its anchors are a
  reading apart (`Calibrated`). `ReadApart` makes of that a difference of both clocks that is not zero. What
  calibrating again keeps is then a case for each branch of `Keep` (`KeepCases`). For `Accurate`, an anchor is off by
  half of its reading and a unit (`AnchorOff`), and a time between or beyond two anchors by what each is off, weighed by the
  distance from the other (`Weighed`), and the rounding of the quotient.

`OneThread` moves one part at a time, so each part takes steps of its own or none: `EachPart` says that a
behaviour of the whole is one of each part, and whatever is proved of a part by itself holds of the whole. Of the five
that are instances:

* `TextSheet`. Aligned lines follow from where the widths are kept: once drawn, there is a width `w` of the column of names
  that the ruler, the line of names and every row shown were made with (`Laid`). Drawing anew finds the widest of the padded names and
  pads to it again.
* `HugePage`, `CpuAffinity`, `ProcCtrl`. Their properties are inductive with the types; the size of a mapping takes
  that rounding up gives whole pages and less than one more (`WholePages`).
* `TimeDiff`. `UnderWay` says that a query's answer is on its way since it was sent, and was given in between; the mean of the client's two
  times is then off by half of the time under way (`HalfWay`), and a session's sum by the sum of that (`RecentOff`). `Collected` and
  `Follows` say that the running statistics are those of the samples; that the sorted samples in the end give the same
  is `SortedInOrder` and `Deviations`.

### The functions

The machine of `Values` takes one step, so its properties are inductive as they stand: what is left is that each law holds for the
input that was picked. Each is a theorem or lemma about every input of its type first, which needs none of the bounds of
`Values`, and then applied to the one that was picked (`...Picked`, `...Holds`).

* Times. A number is its quotient towards zero and its remainder (`QuotRem`), and they are the only ones of its sign (`OneQuotient`). What
  is in order is determined by how long it is (`TidyIsUnique`), so that laws about sums, differences and order become laws about
  spans. `floor` is the division that rounds down; the hypothesis about the switch gives both moments one offset.
* Doubles. The order is by class first and value next (`LessOf`). The laws are about the tolerance's edge: what is nearer to a
  number than one that is near to it is near as well (`NearerIsNear`), and so is what lies between, though its own tolerance is less
  (`BetweenIsNear`).
* Texts in integers. A word with 1 taken from each byte, modulo the size of the word, is still a number of digits, of which some
  may be -1. Up to the first zero nothing is borrowed, so each byte found there by dividing is one less (`OnesTaken`), and at the first zero it
  has the highest bit and had it not before (`ZeroIsFound`): what is borrowed behind it, and may look like another zero, does not matter.
  Comparing the numbers is comparing the texts because the digits of a number are determined (`SameDigits`).
* Samples. The opposites of sorted samples are the sorted opposites, backwards (`SortedMirrored`). An average and a deviation tell the sum
  of the squares (`SquaresTold`), and all that goes on from them are sums. For `RanksToFormula`, sorting keys without ties gives each as many
  as are below it (`SortOrderFound`), so that the ranks are the numbers up to n in two orders (`RankedByPlace`); the
  sums of these and of their squares are known whatever the order, and `RankFormula` is the arithmetic that is left.

Only model-checked: all liveness, which needs fairness and `ENABLED`, beyond the prover's reach; and `ReadBack`. Its laws read and write
texts character by character: with `ToString`, of which the provers know nothing, with folds whose operator they cannot
instantiate, and with texts that are put together from a set in an order that is chosen.

## What is not modelled, and why

* The flag of the shared-memory ring: a word the ring never reads.
* A negative capacity, which `_AlignCapa` casts to a number near 2^64 before it rounds it up.
* The user's signal handler, and what it may do in the middle of anything; the text of a set of signals.
* Rounding of doubles: `now`, averages and quotients are exact in the models, so a law that holds there may fail by a last bit in the
  program. Comparisons of `float` with `double` and `decimals` are left out with it.
* What the C++ library does for a function by itself: the unions, differences and intersections of `SetOps`, the formatting that is `strftime`
  and `std::format`, conversions between encodings, hexadecimal text, the moving averages and `r_square` of
  `Statistics`, the masks of `CpuAffinity` as text.
* The options and the RPC library of `time-diff`, and its signals.
* `FileSystem`, which is input and output, and `Exceptions`, `MemoryOrder` and the version, which are names.

## Remarks on the source

What was met while reading and modelling, beyond what the four runs above show. No run
is about these, and the properties are stated so as not to depend on them.

* `deque` of `ShmAtmRQ_t` says no while the producer of the head item is between its
  compare-exchange and its tag store, although later items may be complete; the comment at
  `ShmAtomicRQ.cpp:159` calls that an empty queue. `DeqRefusedWhenBare` states what a
  refusal does mean.
* The owner's destructor unlinks by name (`ShmAtomicRQ.cpp:112`), not the file it made. If one process
  makes a ring, a second makes it again, which unlinks the first file, and the first then ends, its destructor
  deletes the second one's file, without any race. The heir of a fork may do the same to
  a file that its parent has made since. `NothingIsLeft` speaks of the opposite, files that nobody
  deletes; that an owner deletes another's file is in the model (`Destroy`) and
  forbidden by no property.
* `_pages` is computed in `float` (`ShmBuffer.cpp:86`): 2^24 + 1 bytes count as 4096 pages.
* `unplug` keeps `_coold` and `_swapd`, which suppress calls in the next mapping.
* The comment at `ShmBuffer.cpp:234` speaks of 64 pages where the code has 1. A header of as
  many pages as the buffer has, or more, does not protect its last page, because the
  beginning is clamped to it (`ShmBuffer.cpp:223`); `HotIsLeft` speaks of smaller headers.
* The destructor of `Tracer_t` takes out only its own name, so that after a jump which no
  `ClearCallStack` follows the names of calls long left stay on the stack.
* `Signals.hpp:25` counts SIGBUS among the crash signals that are handled; the code does not
  name it. `CrashAction` does not ask whether the thread's protection is on, and the
  regular signals may be handled by any thread, two at a time.
* `RingQue_t::empty` compares the indices where `size` and `full` subtract them, and is wrong
  from the wrap-around of `_tail` to that of `_head`. With a `SizeType` narrower than
  `int` the difference in `full` is promoted and may be negative. `RingQueue` models
  neither.

* `make()` of `ShmBuffer_t` asks `fs::exists` and then `fs::file_size`, which throws if the name has gone in between. The buffer stays
  mapped with a size of 0, and `munmap` fails on it later. After a refused system call the descriptor stays open.
* `empty()` of `ShmAtmRQ_t` compares a head and a tail that were read at different moments, and may say no of a ring that was
  empty at both.
* An `enque` of `CraflinRQ_t` loads the tail once. One that was stalled finds the tag of a later lap and says "full" of a ring that has room.
* `TscClock_t`: `calibrate()` before `calibrate( for )` needs two calls before the clock can be used.
* `TextSheet_t`: each further `skeleton()` widens the column of names by two, because the padded names are written back.
* `ProcCtrl`: the child of a failed `execv` calls `exit()`, which runs the destructors of the parent's static objects in it.
* `CpuAffinity`: `ProcessOnlyCPU` binds the calling thread alone. -1 stands for the ids from 0 up to the number of processors on line,
  which are others if one in the middle is off line.
* `SetOps`: `split2set` does not trim the last piece, so that a blank after the last comma makes `stoll` throw.
* `show-stamp` accepts leading blanks and then reads 0.
* `TimeDiff.cpp`: the interval of the option `-i` is not used, the pause is 20 ms; the figure called "总延迟" (total latency, `TimeDiff.cpp:28`) is half of
  the round trip (`TimeDiff.cpp:141`).
* `Algorithms`: the tolerance of `eq` is that of its first argument, so that at its edge `eq( a, b )` and `eq( b, a )` differ. Zeros of unequal sign are
  neither equal nor in order. With an epsilon, numbers just that far apart are both `le` and `ge` and not `eq`, and `le` and `ge` of a NaN
  are true. `safe_div` by -0.0 is a division by a number.
* `UnionTypes`: `U32_u`, and `U16_u` of a pointer, read behind a text that is shorter than they are. `gb_2_ws` of `Unicodes` returns a buffer without an end.
* `Chrono`: `parse_time` reads nine places of a fraction even behind the end of the text. `floor` is off by the hour on the day on which
  the zone switches. `fmt_dura` of a negative duration leaves out its minutes and hours.
* `spearman` ranks equal samples as they happen to come.

## The plan

Done, in this order: the ring in shared memory with its proofs; its life cycle, with the kernel's
refusals; the page tags; `CraflinRQ`; `CallStack`; `Signals`; `RingQueue`; `TscClock`; the other parts of one
thread; the functions; the proofs of `RingQueue`, `CallStack` and `TscClock`; the refusals of the first ring;
`CraflinRQ`, types, lifetimes and refinement; the life cycle; the page tags; `Signals`; the accuracy of the clock; the other
parts of one thread, and that all of them keep together what each keeps by itself; the functions, but for `ReadBack`.

To extend the model:

1. The ring and its life cycle composed: a process that plugs in before the tags are laid
   out, and what it sees.
2. `Signals` together with `CallStack`, whose stack the crash handler prints.
3. Ownership after a fork: that with one release the file survives the first of the two.

To prove more:

1. The one law of `ReadBack` that needs no `ToString`, `ListIsSet`, for any set of texts without commas and outer blanks.
2. The composition of the ring with its life cycle, once it is modelled: that `MakeLay` establishes `Init` of `ShmAtomicRQ`.
3. `Signals` with `CallStack`: that what the handler prints is what was open when the thread crashed.
