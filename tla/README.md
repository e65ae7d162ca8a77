# A specification of memory-model-sim

memory-model-sim executes two RV32I programs in turn on one simulated machine,
over one of five memory systems: a plain cache hierarchy and four cache designs
that keep the two programs apart. With the same machine it runs experiments, in
which one program measures the cache and the other uses it. This directory holds
TLA+ modules of the memory systems, of the runner and of the experiment driver,
TLC configurations that check them on small instances, and proofs, checked by
TLAPS, for every instance.

Everything in the simulator runs on one thread. What makes it hard is not
preemption but *nesting* and *sequence*: a cache that is in the middle of a miss
calls the next one, which may call back; state is split between records that
must agree (two copies of a line, a table and what it maps to, a border and what
lies on either side of it, a driver and the guests it shares a phase with); and
a wrong flag shows many accesses later, at another address.

## 1. Inventory

| Component | Source | State | Operations | Modelled |
|---|---|---|---|---|
| Main memory | `device/memory/main_memory.rs` | bytes | load, store | `MemoryDevice` |
| Set-associative cache (default L1D, L2, L3) | `device/memory/set_associative_cache.rs` | sets of lines (tag, bytes, dirty, last_used), use counter, requester, listener | load, store, invalidate_line | `CacheArray`, `SetAssociativeCache`, `LruOrder` |
| Inclusive L1/L2 | `device/memory/mod.rs`, `machine/riscv32_integer/mod.rs` | both caches | nested write-back, fill, back-invalidation | `L2Cache`, `InclusiveHierarchy` |
| SecDCP | `device/secdcp_memory.rs` | sets of owned lines, border `public_ways`, epoch statistics, requester | load, store, set_requester_class, repartition | `SecDcpMemory` |
| BackCache | `device/backcache_memory.rs` | primary array, backup slots, countdown, RNG | load, store, invalidate_line, on_context_switch, resize | `BackCacheMemory`, `BackCacheHierarchy` |
| NewCache | `device/newcache_memory.rs` | physical lines, remapping table, requester, RNG | load, store, invalidate_line, set_requester_* | `NewCacheMemory` |
| SMTCache | `device/smtcache_memory.rs` | slices (owner, sets), requester | load, store, invalidate_line, set_requester_* | `SmtCacheMemory`, `SmtCacheHierarchy` |
| Dual-program runner | `runtime.rs` | two contexts, current, last_switch_cycle | one step and what is done with its result | `DualRunner`, `TwoPrograms` |
| Experiment driver | `experiment.rs` | configuration, trial, secret, two contexts, state shared with the built-ins (phase, done, submitted), trace, summary | begin a phase, run a context until done, score a trial | `Experiment`, `L1dExperiment` |
| RV32I machine | `machine/riscv32_integer/mod.rs`, `machine/mod.rs` | registers, CSRs, segment, pending fault, wiring | step, loads and stores, faults | partly, in `DualRunner`, `Experiment` and the hierarchies |
| Built-ins | `machine/riscv32_integer/builtins.rs` | none | printf, cycle_count, modulo, yield | partly, as calls |
| Cache trace | `device/cache_trace.rs` | event list | record, drain | partly, in `Experiment` |
| Clock | `device/clock.rs` | tick count | advance | no |
| Command line | `main.rs` | none | parse, choose, run | partly: the configurations it can ask for |
| Guest programs | `riscv-programs/` | their own | | `l1d-attacker` and `l1d-victim`, in `L1dExperiment` |

How they interact. The runner calls `machine.step()`; a step fetches, loads and
stores through the L1D. The L1D loads and stores lines of the L2 byte by byte;
the L2 those of the L3, the L3 those of main memory. The L2 holds a reference to
the L1D as its `InvalidationListener` (every design but SecDCP) and calls
`invalidate_line` on it when it evicts a line. At a switch of programs the
runner sets the machine's segment and security class, which the machine hands on
to the L1D (`SecurityClassControl`), and calls `notify_context_switch`, which
BackCache uses (`ContextSwitchListener`). The experiment driver does the same at
the start of a turn, and shares an `ExperimentBuiltinState` with the guests: it
writes the phase and the secret and clears `done` and the list of submissions;
they read the phase, append their measurements and set `done`, upon which the
driver takes the machine back. The caches append to the trace, the driver drains
it at the end of a trial.

What makes each component correct:

* a memory device answers each load with what was last stored at that address,
  whatever was evicted, moved, resized or invalidated in between
  (`ImplementsMemory` of every cache);
* the L2 includes what is in front of it; a clean copy equals what is behind it;
* replacement is least recently used;
* a partition keeps the accesses of one class from changing what the other
  class's accesses find; slices and remapping tables belong to one requester;
* what BackCache's primary gives up is in its backup, and a resize strands
  nothing there;
* each program runs as if it were alone in its half of memory, and when both
  exit the runner returns;
* what a trial scores was submitted in its own probe by the program that was to
  probe, what it counts as interference happened in it, and the tables of the
  summary agree with each other.

`PROJECT.json` lists under `hazards` what is hard to test, each at its line,
with the properties that cover it.

## 2. Modules

```
 MemoryDevice <--implements-- SetAssociativeCache   (CacheArray)   proved
     ^  ^--------------------- NewCacheMemory                       proved
     |  ^--------------------- SmtCacheMemory       (CacheArray)   proved
     |  ^--------------------- BackCacheMemory      (CacheArray)   proved
     |  x--------------------- InclusiveHierarchy
     |  x--------------------- SecDcpMemory         (CacheArray)   (proved: what it keeps)
 LruOrder    <--implements-- SetAssociativeCache                   proved
 TwoPrograms <--implements-- DualRunner                            proved
 Experiment  <--implements-- L1dExperiment                         proved

 MCHierarchies = InclusiveHierarchy | BackCacheHierarchy | SmtCacheHierarchy,
                 each in front of L2Cache    (proved: what they keep and lose)
```

An `x` marks a refinement that fails, and should: see section 4.

**MemoryDevice** is the flat memory. Its `reply` is what the last load answered
and for which address, so that a wrong answer is a wrong step. Every cache has a
`View`: the flat memory that its lines and its backing memory amount to.
`ImplementsMemory` substitutes `View` for `mem`.

**CacheArray** has what the set-associative arrays share: placement, lookup,
victim, refill, write-back. The code stamps each line with an ever-growing use
counter, of which only the order within a set is ever read; the model keeps that
order as a rank for each way, so the state stays finite and no counter is cut
off.

**SetAssociativeCache** is one cache over a flat memory. `Load` and `Store` are
`load_u8_internal` and `store_u8_internal` with hit and miss as disjuncts;
`InvalidateLine` is `invalidate_line`, which the cache behind may call between
any two accesses. **LruOrder** says what replacement promises, without ways and
ranks: the lines that are there, and which of two lines of a set was used longer
ago. `LruReplacement` maps the one to the other.

**SecDcpMemory** has the border, the epoch and the statistics. Thresholds are
percentages. A step in which the Rust code would panic (a `RefCell` borrowed
twice) sets `panicked` and is the last one. **BackCacheMemory** has the primary,
the slots, promotion and the resizes, with every random draw as a choice;
`age` orders the lines by their stamps, which both copies of a line share.
**NewCacheMemory** has the slots and the tables; a read of the memory behind it
may invalidate another line meanwhile (`AfterRead`), as the L2 does when it makes
room. **SmtCacheMemory** has slices that are owned, claimed or taken over;
how many there are is chosen in `Init`.

**L2Cache** is the L2 of the three designs that listen to it. A call of the
machine is one step, and the calls it nests are composed in the order of the
code, each an operator from the record of the whole hierarchy to the next: the
design in front takes its victim out and writes it back through the L2, which
may evict, and thus call the listener, which may store into the L2 again; then
it reads the line from the L2, likewise. What the listener does is the
operator parameter of the L2's operators, as it is a trait object in the code.
**InclusiveHierarchy** puts the plain L1 in front, **BackCacheHierarchy** the
primary and the backup, **SmtCacheHierarchy** the slices, whose flush holds them
borrowed while it stores; **MCHierarchies** chooses one of them in
`HierarchyInit` and states once what all three have to keep.

**DualRunner** is `run_dual_flat_binary_bytes`: an action for each kind of
instruction the runner can tell apart, ending (`result`) in `Continue`, `Yield`,
`ForceYield` or `Halt`. **TwoPrograms** is what it promises.

**Experiment** is the driver of `experiment.rs` with any two programs. The
driver's actions are `BeginTurn` (`begin_phase` and the head of
`run_context_until_done`), `SkipTurn` (`halt_contexts` passes
over a program that has exited),
`EndTurn`, `BeginTrial`, `EndTrial` (scoring), `PanicOnScore`, `HaltContexts`
and `Return`; a program's are what the driver can tell apart: `Compute`,
`SubmitScalar`, `SubmitVector`, `FaultySubmitVector`, `ExpDone`, `Fault`,
`Ebreak`, `Unimplemented`. A register file is a member of `Regs`. An entry of
the list and an event of the trace carry, besides what the code stores, in which
trial and phase and by whom they were made; no action reads that, only the
properties do. **L1dExperiment** is the driver with the programs it is shipped
with, `l1d-attacker` and `l1d-victim`, or with others that fault, exit, submit
nonsense or never end a turn. `worked`, too, is read by properties only.

Abstractions that all modules share: a line is a number, an offset and a byte
are members of small sets; timing, statistics for display, and owner
metadata that nothing decides upon are left out; an access is of one byte (the
code performs wider ones byte by byte, or line by line with the same effect).
A call to a cache is one step: the simulator is single-threaded.

Abstractions of the experiment: a measured time is a member of `Times`, and what
an access leaves in the trace is left to chance, because no cache model keeps
who filled a line; so the experiment's properties hold whatever the caches
answer. The schedule mode decides nothing here: it only makes the driver call
`notify_context_switch`, which changes BackCache alone. SecDCP's machine has no
listener at its L2 and its cache is given no trace; its experiments are those in
which no event is recorded.

Assumptions that the rest of the code justifies: in SecDCP, NewCache and
SMTCache each class has lines of its own, because the runner confines the
programs to disjoint halves of memory (`MachineIsCurrents` and
`ImplementsTwoPrograms` are checked and proved of it, `RunsAsItself` of the
experiment). In SecDCP `MinHighWays + MinLowWays <= Assoc`, as in the policy the
simulator uses.

## 3. Runs

| Run | Instance | Distinct states | Shows |
|---|---|---|---|
| MCSetAssociativeCache | 2 sets x 2 ways, 3 lines in one set, 2 offsets, 2 values | 69,632 | types, `ImplementsMemory` |
| LruReplacement | 3 ways, 4 lines in the set, 1 line in another | 24,042 | replacement is LRU |
| MCHierarchies | L1 of 2 x 1, L2 of 1 x 2, 4 lines; BackCache 3 lines and 2 slots; SMTCache 1 or 2 slices | 71,835 | inclusion, agreement of copies, no re-entered flush, where alone a store is lost, and that a clean line stays clean until it is stored to |
| LostWriteBack | plain L1 and L2 of 1 x 2, 3 lines | (violation) | a store lost by a nested write-back |
| DualRunner | 4 bytes, 2 values, quantum 3 | 25,602 | isolation, switching, termination |
| SecDcpMemory | 1 x 3 ways, 4 lines of which 2 are High's, epoch 2 | 307,174 | the classes are separate; where alone a byte changes |
| SecDcpStaleLine | the same, 2 lines are High's | (violation) | a line stranded by growth |
| SecDcpShrinkOnHit | the same, 2 lines are High's | (violation) | the panic of a shrink on a hit |
| MCBackCacheMemory | primary 2 x 1, 2 slots, 3 lines in one set | 20,304 | resizes, victims stay, `ImplementsMemory` |
| MCNewCacheMemory | 2 slots, 2 logical lines, 5 lines, 2 requesters | 20,736 | mapping exact, `ImplementsMemory` |
| SmtCacheMemory | 1 or 2 slices of 1 x 2, 4 lines | 128,384 | slices private, others undisturbed, `ImplementsMemory` |
| MCL1dExperiment | 4 sets, set 1 reserved, stride 3; 2 trials of the shipped programs, 1 of others | 270,075 | turns, submissions, trace and tables of an experiment; that it ends |

Why the bounds are enough for what they are meant to show. In each cache more
lines compete for a set than it has ways, so every kind of eviction happens,
clean and dirty, and the same line returns. Two values tell a stored byte from a
stale one. A second offset matters where a store merges into a line
(`MCSetAssociativeCache`); elsewhere one offset stands for the line. Three ways
are the least for which an LRU order can be wrong other than by reversal.

In the hierarchies the L2 has no more ways than the design in front has room
for, so an L2 eviction often hits a line that is in front, and dirty there. The
L1's two sets and the L2's one make lines that do not compete in front compete
behind. `SliceCounts` of 1 makes a slice change hands, and flush through the L2,
at every change of class; of 2, it never has to. A larger L2 makes the nested
store rarer, not different: it is about the one set an access goes to.

An epoch of two accesses has the miss rates 0, 1/2 and 1. The thresholds are 55 and
60 percent, so that 0 and 1/2 shrink the partition and 1 grows it: with the
default policy (10 and 60 percent) the one miss an epoch may have before it no
longer shrinks needs an epoch of eleven accesses, and a shrink that ends on a
miss, the one that does flush, would not happen in a small instance. Two lines of
each class let both evict lines of their own, and Low's partition grow to its
upper bound and shrink to its lower one. What would ask for more than the upper
bound, a third line of Low's, does not fit into a run; `SecDcpTypes` proves both
bounds. Two slots of BackCache with bounds 0 and 2, which the code
clamps to 1 and 2, make every resize change something; three lines that compete
for one way of the primary pass through the backup all the time, so that a full
backup must choose between used and unused lines, the one just promoted among
them. Two logical indices and
five lines give NewCache index misses, tag misses and full tables for both
requesters. A quantum of 3 with costs of 1 and 2 is passed exactly and by one.

Two trials in one experiment show what is left over from the first; evict-time,
which runs one or more for each set, has four. Four sets and a stride of 3 make
a probe's order differ from counting; the reserved set is in the middle.
`MaxEvents` bounds the trace at one event, which is enough to be left over. The
other programs submit at an index inside the table and one beyond it (`Indices`
2 and 4), the second of which leaves a gap that `resize` fills with zeros, and a
vector of three times. They run one trial, with one pair of domains and no
control: what they may do to the list does not depend on those.

Symmetry is used for BackCache's and NewCache's slots only (in
`MCBackCacheMemory`, `MCNewCacheMemory`, `MCHierarchies`): they are
interchangeable in every definition, and no liveness is checked there. Deadlock
is checked except where the system really stops: the runner when it has
returned or panicked, SecDCP after a panic, the experiment when it has
finished or panicked.

Fairness. `DualRunner!FairSpec` is weak fairness of the whole next-state
relation: the runner's loop steps the machine until it returns. `FairL1dSpec`
likewise: driver and machine are one loop. Nothing is assumed of the programs.
The liveness properties state what they need as their premises:
`CallsShareTheMachine` is about a program that calls again and again,
`HaltingProgramsReturn` about programs that come to their `ebreak`,
`ExperimentEnds` about programs of which every turn ends. That premise is
needed: `run_context_until_done` steps a program until it says it is done or
halts, and nothing pre-empts one that does neither.
`ShippedExperimentFinishes` has no such premise: the shipped programs end every
turn.

What some properties take for granted. `ExitIsFinal` is about programs that do not
rewrite their own code at the `ebreak`: the program counter stays there, and
the model fetches the same instruction again. That a slice of SMTCache changes
hands (`SlicesArePrivate`, `FlushIsNotReentered` with `SliceCounts` of 1) needs
fewer slices than domains; the machine is wired with two of each, where it never
happens, but `SmtCacheMemory::new` accepts one. `CleanUntilStored` says of
a fetch that bypasses the caches that nothing but a store to the code itself can
change what it finds; whether a program stores to its own code is not modelled.

Each property has a mutant, a definition next to the one it changes, under
which the same run finds the property violated: for example `Evict_DropDirty`
forgets the write-back, `Flushed_Nothing` the flush, `Resume_KeepSegment` the
segment, `TargetOf_FromOne` counts sets from one, `PermutedSet_Even` probes with
a stride that misses sets.

## 4. Where the code differs from what it says

1. **A store lost in the hierarchy** (`LostWriteBack`,
   `set_associative_cache.rs:269`). On a miss the L2 empties a way, then tells
   L1 to drop the evicted line. If L1's copy is dirty, L1 stores it into the L2,
   which puts it into the way that was just emptied; then the L2 overwrites that
   way with the line it was fetching. `OnlyBackInvalidationLoses` shows that
   nothing else in the three hierarchies loses a store, and is proved for every
   geometry.
2. **Lines stranded by a growing partition** (`SecDcpStaleLine`,
   `secdcp_memory.rs:269`). Growth leaves High's lines in the way it takes;
   High's next access misses and reads stale memory. `OnlyTheBorderLoses` shows
   that nothing of Low's is ever lost and nothing of High's by anything else, and
   is proved likewise.
3. **A panic when the partition shrinks on a hit** (`SecDcpShrinkOnHit`,
   `secdcp_memory.rs:327` and `390`). The array is still borrowed.

Smaller: a built-in call switches programs only once the quantum is over
(`runtime.rs:116-118`, and so `Call` of `DualRunner`), while a test is named for
a switch on each built-in (`runtime.rs:212`).

The hierarchies and SecDCP therefore do not implement `MemoryDevice`; what they
do guarantee is stated by the two `Only...` properties.

## 5. Proofs

The proofs are in modules of their own, one for each component, with the runner
and the hierarchies in one. All of them rest on the
constants' assumptions, which are named and stated where the constants are
declared, and on nothing else.

**SetAssociativeCacheProofs**, for every set of lines, offsets and values, every
number of sets and ways:

* `CacheInvariant`: `Inv` is an invariant. `Inv` is `TypeOK`, `WellPlaced`
  (a line is in the set its number selects, and once) and `CleanIsBacked`. The
  three need each other: a miss installs a line only when it was nowhere in its
  set, which is all of the cache only if lines are placed; an eviction may drop
  a clean line only because memory has it.
* `CacheSafety`: the parts.
* `CacheImplementsMemory`: the refinement. Each action is one lemma: hits and
  misses of loads leave `View` alone and answer from it, those of stores change
  it at the address stored to, invalidation is a stutter. `CacheArrayLemmas`
  has the facts about `Put`, `Drop` and `Touch` they rest on; BackCache's,
  SMTCache's and SecDCP's proofs use them too.
* `CacheReplacementIsLru` (`LruReplacement`): every load and store, hit or miss,
  is an access of `LruOrder` to its line, and an invalidation takes out its line
  alone. It needs one more invariant, that no two ways of a set have the same
  rank (`Ordered`): with a tie the code's victim would still be determined, by
  the order of the ways, but need not be the oldest line. `FullSet` shows that a
  set has as many lines as ways exactly when no way is empty, so that the code
  evicts (`LeastRecent`) when `LruOrder` says a line must give way, and fills an
  empty way (`FirstEmpty`) when it says none has to.

Assumed (`GeometryAssumption`, `ZeroAssumption`): lines are natural numbers,
there is at least one set and one way, `None` is not a line, `Zero` is a value.

**NewCacheProofs**, for every number of slots, logical lines and requesters:
`NewCacheInvariant`, `NewCacheSafety` (`MappingIsExact`: the tables are exactly
the inverse of what the slots hold), `NewCacheImplementsMemory`. A miss goes
through states in which a line has been taken away and the new one is not yet
there, so the invariant, `Sound(h)`, and the flat memory, `ViewOf(h)`, are
stated of any record `h` of lines, tables and memory. One lemma for each helper
of the code (write-back, removal, installation, invalidation) says that it
keeps `Sound` and what it does to `ViewOf`; an action is their composition.
Exactness is what makes the induction work: `invalidate_line` and a replacement
find a slot through a table, and a table entry that survived its line would make
them clear another one.

**SmtCacheProofs**, for every number of slices and every geometry:
`SmtCacheInvariant`, `SmtCacheSafety` (`SlicesArePrivate`), `SmtCacheIsolation`
(`OthersUndisturbed`), `SmtCacheImplementsMemory`. `Fine(I, a, m)` says of a
family `a` of arrays over a memory `m` that each is placed and backed and that
no line is in two. The last part needs privacy: a line is in the slice of
its class, and a class has one slice. A flush empties one member of the family.

**BackCacheProofs**, for every geometry, number of slots and policy:
`BackCacheInvariant`, `BackCacheSafety` (`ResizesWithinPolicy`),
`BackCacheKeepsVictims` (`VictimsStay`), `BackCacheImplementsMemory`. A line may
have two copies here, so what a line holds cannot be read off a copy alone. The
invariant is relative to a flat memory: `Amounts(p, b, m, d)` says that primary
`p`, backup `b` and memory `m` amount to `d`, that is, each copy holds what
`d` says, a clean one is also what `m` says, and a line with no copy is in `m`.
A promotion, an eviction or a resize keeps `d`; a store changes it at one
byte, in both copies. That a disabled slot is empty (`Tidy`) is what makes a
shrink safe.

**MachineProofs** has the runner and, below, the hierarchies. Of the runner, for
every memory size, every set of register values, every quantum and every set of
costs:

* `RunnerInvariant`: `TypeOK` and `MachineIsCurrents` are invariant. That the
  machine holds the current program's segment is what makes
  a permitted access one in its own half; that the current program has not
  exited is what makes its steps steps of a running program.
* `RunnerImplementsTwoPrograms`: every step of the runner is a step of one of
  two independent programs or changes nothing of them. The mapping takes a
  program's registers from the machine while it is current and from its context
  otherwise.

Of the three hierarchies, for every geometry of the two caches, every set of
lines and values, every number of backup slots and every policy of the
BackCache, and every number of slices (`HierarchyAssumption`, which is what the
modules of the three designs assume one by one):

* `HierarchyIsInclusive` (`Inclusion`) and `HierarchyCopiesAgree`
  (`CopiesAgree`);
* `HierarchyNeverReenters` (`FlushIsNotReentered`): the panic of a second borrow
  of the slices cannot happen. Not because of what `flush_slice` does, but
  because inclusion, kept by all other calls, lets each of its write-backs
  find the line in the L2, which then evicts nothing;
* `OnlyBackInvalidation` (`OnlyBackInvalidationLoses`): besides the lost store
  of section 4, which is a line that the L2 evicts while a newer copy of it is
  in front, no call changes any line but the one it stores to;
* `CleanLinesStayClean` (`CleanUntilStored`): a line that is dirty nowhere stays
  so, and the memory is not written at it, until it is stored to, whatever the
  evictions in between write back: a fetch past the caches gets what was loaded;
* `HierarchyTypes` (`HierarchyTypeOK`).

The difficulty is the nesting: in the middle of a miss neither cache is in a state
that the invariant describes, and that is when the listener runs. So the
invariant, `Sound(LS, F, c, m)`, is stated of any set `F` of copies in front of
any L2 `c` over any memory `m`, and three relations say what each nested call
does to it. `Room` is what the L2 guarantees when it calls the listener: the way
it needs is free, or holds what the listener itself has just stored there.
`Quiet` says that no line reads differently and the L2 has the lines it had:
write-backs of lines the L2 has, moves between primary and backup, flushes and
resizes are `Quiet`. `Kept` allows the one loss: it is what an L2 miss does, and
only a dirty line can meet it. Both also keep a clean line clean and unwritten
(`StaysClean`). What
a design in front has to show is that its `invalidate_line`, called with `Room`,
leaves `Room` and no copy of the evicted line, and that the rest of each
call is `Quiet` but for the byte it stores.

`PlainFine`, `SmtFine` and `BackFine` add what each design has to know of its own
arrays: a line is filed in its set and there once, a slice has lines of its
owner only, a disabled slot is empty, and no line is in two slots.
Their disjunction by `model` is `HierarchyInv`. `Inclusion` alone is not
inductive: an eviction finds the copy in front by the set and the way it is
filed in, so a line filed elsewhere would outlive it. A flush and a resize go
through many slots in one step, by `FoldLeft` in the model: a function that
takes the first n write-backs is shown to exist, to keep the invariant at every
n and to be what the fold computes. The library's induction takes an operator, so this is
done with the least number at which it would fail (`WFMin`).

**ExperimentProofs**, for every number of sets and trials, every configuration
and every pair of programs. `IInv` adds to the checked invariants that the trial
under way is one of those there are, that the list of submissions is of the turn
`begin_phase` announced, and that a program that has exited is at its `ebreak`.
`SubmissionsAreFresh` alone is not inductive: between the start of a trial and
its first turn the list is still that of the last trial, and only because a turn
is still to do will it be cleared before it is read. From `IInv` follow
`ExperimentTypes`, `ProgramsRunAsThemselves`, `NoStaleSubmissions`,
`NoStaleEvents`, `TablesAgree`, `RegistersAreKept` and `ExitsAreFinal`.

The rest is about the experiment as it is shipped, for every number of sets.
`L1dImplementsExperiment`: the shipped programs' own steps are steps that
`Experiment` allows, so all of the above holds of it. `ScriptIsFollowed`
(`TrialFollowsScript`): what a trial has worked off, followed by the work of the
turns still to do, is the script of its attack; the phase, the program whose turn
it is and the place where each program waits tie the two together.
`ProbesAreComplete` (`ProbeIsComplete`): the list so far names the sets the
permutation has visited, in its order, and `i * stride + salt` visits no set
twice when the stride has no factor in common with the number of sets; so at the
end, by the pigeonhole principle, it has visited them all. `TablesAddUp`
(`PredictionsAddUp`): a scored trial adds one to one cell of the table, and thus
to its sum, and to the diagonal's exactly when the prediction was right. That a
sum over a table grows by one with a cell is an induction over the sets of cells;
the library's induction theorems take an operator, so it is done with sets: the
numbers at which the claim fails have no least element (`WFMin`).

Assumed (`L1dAssumption`): there are several sets, the stride has no factor in
common with their number (the code takes an odd one, of 64 sets), and the
programs' one `ebreak` is behind `main`, as in `start.S`.

**SecDcpProofs**, for every geometry, policy and epoch length:
`SecDcpInvariant`, `SecDcpTypes` (the border stays within the policy),
`SecDcpSafety` (`HighWaysAreHighs`), `SecDcpSeparation` (`ClassesAreSeparate`)
and `SecDcpLoses` (`OnlyTheBorderLoses`). `Settled(l, c, m, p)` says of a line
that its copies in array `c` are where its class looks for them when the border
is `p`, that there is one at most, and that it is dirty unless memory `m` has
it. Low's lines are settled in every state; High's are not after the border has
grown over one, which is why the design does not implement a memory. An access
is proved in two parts: one slot changes, for the class that makes the access;
then, at the end of an epoch, the border may move by one way, which is flushed if
Low gives it up and is left as it is if Low gets it.

Each memory system and the runner also have their `TypeOK` as a theorem
(`...Types`).

Model-checked only: liveness, which is beyond the prover. Every invariant, every
action property and every refinement that a passing run checks is a theorem.

## 6. Not modelled

Instruction decoding and arithmetic (sequential code with unit tests), printf's
text, the clock, the parsing of arguments and the messages of the command line
decide nothing that a property here is about; nor do the statistics of an
experiment (means, information, percentages) and the files it writes. The
saturation of a use counter at `usize::MAX` is out of reach of a run.
A fetch is no action of a memory system: one that goes through the caches is a
load, and one that bypasses them (`fetch_instruction_u32` in the experiments)
reads the memory and changes nothing; `CleanUntilStored` says what it can rely on.
`load_binary_at` writes behind the caches too, but both its callers do so once, on
a machine that has made no access. The two programs of the dual run are any programs in `DualRunner`.

Two hazards have no property. A program that computes for ever without a call
keeps the machine for ever, by design. A panic (an unimplemented instruction, a
remainder by zero) ends the process: the models have the step, and promise
nothing after it.

## 7. What is done, and what is left

1. *Done*: main memory and the five memory systems one by one, with their
   proofs; the three inclusive hierarchies over one shared L2; the dual runner
   with its proof; the experiment driver with its proof, and with the shipped
   programs and theirs; what SecDCP and the hierarchies guarantee, proved; that
   replacement is least recently used, proved.
2. NewCache in front of the evicting L2 as a hierarchy of its own; now it is
   over a memory that may take lines away at any time.
3. The machine's own state: CSRs and the pending fault beyond what the runner
   and the driver see, and the fetch path.
4. The clock, and who filled a line, so that what an experiment measures is what
   a cache model answers rather than a choice.
