# cics-tx in TLA+

A model of cics-tx, an embedded transactional key-value store (`src/storage/`)
under a small CICS-style runtime (`src/runtime/`). The storage engine's promises
(ACID with a copy-on-write B-tree, an atomic meta-page swap and a reader-aware
free list, without a log or a lock manager) are what everything above it rests
on: its commit protocol with readers and crashes is checked with TLC and proved
with TLAPS; so is that the B-tree stays a search tree and gives every page one owner. The runtime (tasks, programs,
files, syncpoints) and the bank demo on top of it are modelled over the abstract
store; both are checked with TLC, and the safety properties of tasks, units of
work, files and the demo are proved with TLAPS.

Paths below are relative to the crate root of the repository.

## 1. Inventory

| Component | State | Operations | Talks to | What is hard, and what correct means |
|---|---|---|---|---|
| `storage/pager.rs` | the file; two meta slots; `active_meta_slot` | `open` (create or recover), `read_page`, `write_page`, `sync_data`, `commit_meta` | the operating system | crash between any two calls, a failed fsync, a torn slot. Recovery finds the last acknowledged commit, complete |
| `storage/codec.rs` | none | `encode_page`, `decode_page`, `encoded_len` | every page writer | torn pages must not decode; a node must fit a page, or commit panics |
| `storage/btree.rs` | overlay, `next_page`, free list, `obsolete`, `scratch_pool` (all of the write transaction) | `get`, `range`, `put`, `delete`; `alloc`, `retire`, `store_value`, `retire_value` | pager, overflow | split, merge and collapse cascades; a search tree of uniform depth, an ordered map, no page leaked or owned twice, no committed page written |
| `storage/overflow.rs` | chains of pages | `read_chain` (and `store_value`, `retire_value` in btree) | pager | written before commit, into reused pages |
| `storage/freelist.rs` | a chain of pages per commit | `load`, `store` | pager, txn | a page in the list twice, or missing |
| `storage/txn.rs` | `committed`, `readers`, the writer lock; `ReadTxn`, `WriteTxn` | `begin_read`, drop, `begin_write`, `commit`, `rollback` | all of the above; threads | readers begin and end at any point of a write transaction; `commit` can fail at each `?`. Snapshots stay intact, commits are atomic and durable |
| `runtime/task.rs` | a task id counter | `next` | region | ids restart with the process |
| `runtime/program.rs` | the program table | `define`, `resolve` | region | none of its own |
| `runtime/file_control.rs` | the file table (not persisted) | `define`, READ, WRITE, REWRITE, DELETE, browse | `WriteTxn` | ids depend on definition order; files must not see each other's records; `id + 1` at the edge |
| `runtime/region.rs` | the queue of STARTed tasks, the LINK depth, the task's transaction | `start_task`, LINK, XCTL, RETURN, START, SYNCPOINT, SYNCPOINT ROLLBACK, `link_external` | everything; threads calling `start_task` | commit errors in the middle of a task, the lock released inside SYNCPOINT, panics, endless XCTL or START chains. A task's unit of work is all or nothing, the lock comes back, every call returns |
| `examples/bank_demo.rs` | accounts and audit records | OPEN_ACCOUNTS, TRANSFER (LINK DEBIT, CREDIT; START AUDIT_LOG; XCTL STATEMENT), LIST_AUDIT | region | money is conserved, what is reported is what was committed and audited |

`PROJECT.json` lists the same components with their status, and under `hazards`
every place in this code that a test would hardly reach, with the properties that
watch it.

## 2. Modules

| Module | Models |
|---|---|
| `Environment` | `txn.rs`, the meta slots of `pager.rs`, and the allocator of `btree.rs` at page granularity: readers, the writer, commit step by step, failures, crashes, recovery |
| `EnvironmentInvariant` | its inductive invariant `IInv`, in named parts |
| `EnvironmentProofs` | its theorems, and crash safety with power failures only |
| `MCEnvironment` | the instance for TLC (reader symmetry) |
| `BTree` | `btree.rs`, `overflow.rs`, `freelist.rs` as operators on an explicit `Ctx` record |
| `TreeStore` | read and write transactions over `BTree`, with the page numbers the code would use |
| `BTreeProofs` | lemmas about trees as data (sequences, chains, nodes, splits, merges, lookups) and about what a context's operations do to pages |
| `TreeStoreProofs` | what each operation does to trees and pages, the inductive invariant `StoreInv` of TreeStore, its theorems |
| `Recursion` | induction and recursion over the naturals, with the recursive function's parts as constants |
| `KVStore` | the abstract store: a map, one private working copy, snapshots |
| `MCTreeStore` | the instances for TLC: values, and the stores behaviours start from |
| `FileControl` | `file_control.rs` as operators on the file table and on the map a `WriteTxn` shows |
| `Files` | a region's files over several openings: `Region::open`, `define_file`, the five commands |
| `FileControlProofs` | lemmas about `FileControl`: ids as bytes, the order of byte strings, what a browse returns |
| `FilesInvariant`, `FilesProofs` | the inductive invariant `FilesInv` of Files, and its theorems |
| `FileSet` | the abstract files: a map of its own per file name |
| `Region` | `region.rs`, `task.rs`, `program.rs`: threads in `start_task`, the programs they run, syncpoints |
| `Units` | the abstract units of work: one at a time, on the committed records, all or nothing |
| `Gateway` | `link_external`, on Region's state; a behaviour has callers of a region or, instead, of `link_external` |
| `RegionInvariant`, `RegionProofs` | the inductive invariant `RInv` of Region and Gateway, and their theorems |
| `BankDemo` | the demo's programs, files and requests, as programs for Region |
| `BankInvariant`, `BankProofs` | the demo's inductive invariants `LedgerInv` and `TrailInv`, and its theorems |
| `MCFiles`, `MCRegion`, `MCBankDemo` | the instances for TLC: keys, programs that may do anything, requests |

### Environment

Pages carry *stamps* instead of bytes: `<<attempt, kind>>`, the write transaction
that wrote the page and what it wrote (node, overflow chunk, free-list chunk). A
root is the set of pages reachable from it with the stamp expected in each, so "the
snapshot is intact" is "the file still holds those stamps". `put` and `delete`
appear as the page operations they consist of (`CowNode`, `NewNode`, `RetireNode`,
`StoreOverflow`, `RetireOverflow`, each with `Ctx::alloc`), in any order: a
superset of what the tree algorithms do, which `BTree` models exactly.

`file` and `slots` are what reads return (the page cache); `unsynced` and `durable`
say what a power failure may take away. An unsynced slot may survive, revert or
tear; an unsynced page survives or is unusable. A sync that succeeds makes everything
written so far durable (section 6). `Kill` ends the process and keeps
the page cache; so does `CreateFails`, in which `Pager::open` returns an error from the
creation of the file. Page writes inside `commit()` before its fsync are one step, except
that a failing commit leaves any part of them: no slot refers to them yet, and
their order is a HashMap's anyway.

`begin_read` is two steps (`BeginReadClone`, `BeginReadRegister`) because the code
takes two locks one after the other; `begin_write` is one step, at the moment it
computes the watermark: the meta it cloned cannot change while it holds the writer
lock, and free-list pages of the committed meta are not written by anyone else.

Two history variables separate what the protocol guarantees from what three
defects take away (section 5):
`rtx[r].late`, the reader was overtaken between clone and register by a writer
that began from a newer meta; `risky`, some write transaction began while the store was not
`Settled`, that is, while the committed meta was not durable in the active slot or
the other slot held something a later open could prefer.

### BTree, TreeStore, KVStore

`BTree` follows the code function by function, including what looks incidental:
the scratch pool is a stack, the free list is scanned from the front and
`swap_remove`d, splits are by entry count, free-list chunks come back in
reverse order. Keys are integers, values short byte sequences, and sizes are counted in
units (`KEY_SIZE`, `POINTER_SIZE`, `REFERENCE_SIZE` against `SPLIT_THRESHOLD`)
that keep the proportions that matter: a split after three large entries, a merge
threshold at a quarter, a large entry larger than the slack between split threshold and
page size. `TreeStore` runs transactions on it; a behaviour starts from a store
that one transaction filled with a seed, so that three-level trees are
reached without spending the operation bound on building them. The refinement mapping to
`KVStore` reads each map off the pages with `range(None, None)`: through the
overlay for the writer, from the file for the committed root and for every reader.

What the code does by recursion on the tree (`insert_rec`, `delete_rec`, `collect`) or
in a loop (`finalize_root`, the chains, `freelist::store`) is a recursive function of
the levels, pages or chunks that are left: `down[n]` maps every page id to what the
call on it returns when there are at most n levels below. The bound at which it is applied is
`next_page` (for a value's chain, its length): no tree has more levels than the file has pages
and no chain more pages than bytes, which section 4 proves for trees and chains that
are in use. `EntriesFit` assumes that a node with one entry or
one child is never split. The code divides by entry count and would leave an
empty half; its comment (btree.rs:36-38) keeps keys small on purpose.

### FileControl, Files, FileSet

Storage keys are sequences of bytes: the file id, big-endian in `ID_BYTES` bytes of
`BYTE` values, and the record key. Browse takes its bounds from that order as the
code does, so that a wrong upper bound shows. In `Files` the records survive
`Reopen` and the file table does not; `Definitions` are the orders in which an
opening may define its files. `FileSet` is what an application expects, a map per
name, and the refinement mapping cuts the one key space into those maps. A range of the
store is a set of keys and its order (`InOrder`: the i-th key has i - 1 keys of the set
before it); the abstract files say the same of record keys alone. File ids
wrap at `FILE_IDS` (a debug build panics there); the assumption on `Definitions`
stays below, as the browse bound of the last id would be the first.

### Region, Units, Gateway

A thread that calls `start_task` has a record `task[t]`: its phase (listed at the top
of the module), the queue of STARTed requests, the stack of programs of the LINK
chain, whether it has a transaction (`txn`, the code's `Option<WriteTxn>`), and the
result of the originating task (`result`, as the code keeps it, and `first`, a history of
how the first task has ended, which no guard reads and `result` is compared with).
`lock` is the writer lock, `working` what its holder's `WriteTxn` shows, `data` the committed records. The two places that wait for the
lock, `begin_write` at the start of a task and inside SYNCPOINT, are phases of
their own (`begin`, `sync`): between the commit of a SYNCPOINT and the next unit of
work other threads run. The store is taken at the level `TreeStore` is shown to
implement: a map that a commit replaces as a whole. A commit may fail at its `?`
(`MaxErrors`); what a later process finds of a failed commit is the subject of
`Environment`, so `RegionAssumption` excludes restarts in instances with failures.

A program is an automaton, given by three operator constants: `Enter` (its state when
invoked), `Issue` (the commands it may issue next), `Learn` (its state after a
response). `MCRegion` plugs in programs that may do anything at any moment, so
every program is covered up to the bound on commands; `BankDemo` plugs in the
demo's. RETURN and errors pop the stack, XCTL replaces its top, and an error of a
LINKed program is a response that its caller may ignore. A command that needs the
transaction and finds none panics (`expect`), like a panic of the program itself:
the call unwinds and drops what it owns. Under `link_external` the transaction is the
gateway's, which may catch the panic and go on with it: `Panic` has both outcomes.

`Units` knows nothing of tasks: a thread opens a unit of work on the committed
records, changes them privately and commits or backs out all of it. Region and
Gateway are both shown to implement it; `effects` is a history variable that
records what a unit has changed (`<<value>>` under a key it has stored, `<<>>` under one
it has deleted), so that "all of it" is stated independently of how `working` is kept. The gateway that calls `link_external` is outside the
repository: it begins, commits and rolls back at will between calls.

## 3. Runs

| Run | Bounds | Distinct states | Shows |
|---|---|---|---|
| `environment_readers` | 2 readers, 3 write transactions, 3 data pages, no fault | 467 501 | `TypeOK`, `TimelySnapshotIntact`, `PageAccounting`, `CommittedPagesImmutable` |
| `environment_crash` | no reader, 3 write transactions, 2 crashes, all faults | 3 006 607 | `RecoveryIntact`, `AckedDurable` |
| `environment_power` | 1 reader, 3 write transactions, 2 power failures | 933 531 | `RecoverySafe` with no condition |
| `environment_race` | 1 reader, no fault | violation | `SnapshotIntact` fails |
| `environment_failed_sync` | I/O errors only | violation | `RecoverySafe` fails |
| `environment_reopen` | one kill | violation | `RecoverySafe` fails |
| `tree_deep` | 6 keys in 3 levels, 3 operations, 2 write transactions | 18 978 | `TreeOrdered`, `PagesOwnedOnce`, `ImplementsKVStore` |
| `tree_flat` | 5 keys, 1 reader, 3 operations, 2 write transactions | 148 328 | `ReadsAgree`, `NodesFitPage`, `ImplementsKVStore` |
| `files_stable` | 2 files, 2 record keys, 2 openings, one order | 10 114 | `ImplementsFileSet` |
| `region_calls` | 2 threads, 1 call each, 3 commands in all, LINK depth 2, 1 failing commit | 117 367 | `TypeOK`, `LockOwned`, `DepthBounded`, `AnswerComplete`, `ImplementsUnits`, `EveryCallReturns` |
| `region_lost_txn` | 1 thread, 1 failing commit | violation | `TxnPresent` fails |
| `bank_demo` | 2 callers, 2 calls each of 7 requests, 1 process death | 292 332 (up to symmetry) | `BalancesSound`, `TransfersAudited`, `StatementTrue`, `TrailTrue` |

Why the bounds are enough. Page reuse needs one transaction that frees a page, one
commit that publishes it and one transaction that takes it: three attempts, of
which a failed one may be any. Three data pages (`MaxPage = 4`) let a tree of a node
and an overflow page coexist with a free list. Two crashes allow a crash of a
recovered store. In `tree_deep` a single delete already merges leaves, merges
internal nodes and collapses the root; three operations over two transactions let
the second reuse what the first freed. `FREE_CHUNK` 3 and `OVERFLOW_CHUNK` 3 make
chains of several pages. `NodesFitPage` is checked against 15, the largest node
that a count-based split can leave with these sizes (two small entries left of three
large ones); the code's ratio of page to split threshold would allow 16.

In `files_stable` the record keys are the empty one and the last one of its length, so
the records of a file touch both bounds of a browse. In `region_calls` three commands
in all let a program store and SYNCPOINT while the other thread commits in between,
LINK to depth 2 and beyond it with an XCTL on the way (the code's 64 is the
same comparison), or START a task that STARTs another; the way a program ends
(RETURN, ABEND, panic) is not counted. One record is enough, since the two programs
store different values in it. In `bank_demo` one call opens the accounts and three
more let transfers follow and depend on each other; a transfer to an account that
does not exist fails in CREDIT, after DEBIT; and after a process death
`task_count_hint` can shift the task numbers, which start again, so that an AUDIT_LOG meets
the key of one that ran before. The threads of `bank_demo` are symmetric;
`region_calls`, which checks liveness, uses no symmetry.

Runs without a reader, and those of the runtime, switch the deadlock check off:
behaviours end when the transactions, calls and crashes allowed are used up. That no
thread hangs before is what `EveryCallReturns` says.

Fairness. Only `GatewaySpec` assumes any, for a region: weak fairness of the steps a thread
takes on its own (`Proceed`), because a thread that can run does; strong fairness of
taking the writer lock (`Acquire`), because `parking_lot`'s mutex hands it to a
waiting thread in the end although others compete for it. Calls are not fair: nobody
has to call. That programs end is assumed through `MaxCommands`: a program that
loops through XCTL or START for ever keeps its call and everyone else waiting, by
design (the crate's README: a single writer, tasks dispatched synchronously).

## 4. Proofs

`EnvironmentProofs` proves, for every set of readers, number of pages, transactions
and crashes, every `CHUNK` and every set of faults:

| Theorem | States |
|---|---|
| `Invariance` | `Spec => []IInv` |
| `TypeCorrectness` | `Spec => []TypeOK` |
| `SnapshotIsolation` | `Spec => []TimelySnapshotIntact` |
| `CrashSafety` | `Spec => []RecoveryIntact` |
| `Durability` | `Spec => []AckedDurable` |
| `NoPageLeak` | `Spec => []PageAccounting` |
| `CopyOnWrite` | `Spec => CommittedPagesImmutable` |

The only assumption is `EnvironmentAssumption`: the constants have their types, the set of
readers is finite, `CHUNK` is positive.

The argument. None of the properties is inductive: that a snapshot is intact *now*
says nothing about the free list a writer is working from. `IInv` adds:

- `IMetas`: every meta in memory or in a slot partitions the pages below its
  `next_page` into tree, free list and chains, with free entries tagged at most with
  its own txn id;
- `IWrite`: the writer's pages are the committed tree's plus those it has `Taken`
  (from the free list under the watermark, or from the end of the file), split without
  overlap into tree, `obsolete` and `scratch_pool`; overlay and scratch pages are
  all `Taken`. This is copy on write: nothing `Taken` is in the committed tree;
- `IStage`: what is written, synced and in which slot at each step of `commit`;
- `IDisk`: unless `risky`, everything recovery could choose survives, a writer works
  only in a settled store, and between the meta write and its fsync recovery
  chooses the old or the new meta and nothing else;
- `IReaders`: a snapshot that is not `late` has only pages below the committed
  `next_page`; the free ones among them were freed after it, and the writer in
  progress started from that very snapshot or respects it with its watermark. So a
  page the writer takes is in no such snapshot;
- `IBag`: the registry counts exactly the open readers, so the watermark sees all of
  them; `ILife` and `IAck` carry the life cycle and the acknowledged meta through
  crashes.

`FreshWrites` joins them: a step that writes data pages writes none that the
committed meta or a timely snapshot reaches. `Durability` needs no side condition of the
protocol: it survives the unsettled cases too, because a commit always writes the slot that is
not the one it started from. It does rest on what a successful sync means (section 6).

TLC also checked `IInv` on a small instance (one reader, two attempts, one crash,
all faults) before it was proved.

### Power failures only

`EnvironmentProofs` also proves `PowerSafety`: if `Faults \subseteq {"power"}`, then
`Spec => []RecoverySafe`, crash safety with no condition. `CrashSafety` has the
condition that no writer began in an unsettled store. That holds when a power failure
is all that can happen, and `ISettled` says why: between transactions the store is
settled; while a commit's meta is written and not synced, the durable content of that
slot is older than the committed meta or equal to it; after a power failure the
slots are what is durable, and two slots with one txn id hold one meta, so that the
choice by txn id alone (`Pager::open`) finds the one that was committed. An I/O error
and a kill each break one of these; sections 5.2 and 5.3 are those two cases.

### The B-tree

`TreeStoreProofs` proves, for every set of integer keys, all values and seeds, every
number of readers, transactions and operations, and all sizes of nodes, entries
and chunks with `BTreeAssumption`, `EntriesFit` and `TreeStoreAssumption`:

| Theorem | States |
|---|---|
| `StoreInvariance` | `Spec => []StoreInv` |
| `TreesOrdered` | `Spec => []TreeOrdered` |
| `PagesOwned` | `Spec => []PagesOwnedOnce` |

Both properties are computed by recursion down a tree and are about one moment.
`StoreInv` says instead that there *are* a tree and its pages:

- `Tree(V, n, id, lo, hi)`: in the file V, page id is the root of a tree with n levels below it
  whose keys lie in [lo, hi); every child lies between its separators, and no page occurs twice
  (`Pages(V, n, id)` is the set of all, value chains included);
- `Stored`: the committed tree, the pages of its free list and all chains that ever stored a
  free list are disjoint and are all the pages below `next_page`;
- `Working`: the tree of an open transaction, read through its overlay, the pages that are
  spare for it (free list, `obsolete`, `scratch_pool`, and everything from
  `next_page` on) and those chains are disjoint and are all pages;
- `KeepsOff`: what the transaction may write (`Mine`: its nodes, the free list, the pool,
  the end of the file) has no page of the committed tree or of a chain. This is
  copy on write, and makes rollback and `commit` sound.

An operation is described by `Eff(c, S, d, T)`: from context c to d it trades the pages S,
which were in use, for T; S and what was spare are together T and what is spare now; every
page beside them reads as before; only `Mine` is written. Such effects compose
(`EffTrans`), and pages in use that an operation does not touch can be added on both
sides (`EffWiden`), so each step of `alloc`, `retire`, `store_value`, a split or a
merge is proved once, about the few pages it names. A tree reads the same in every file that
agrees on its pages (`TreeFrame`): the children beside the one that changed need no further
argument. `InsertInduction` and `DeleteInduction` go by induction on the levels: the
recursive call yields one tree, or two with a separator between them (`InsOk`), in the bounds of the
child it was called on; `SplitOrReplaceOk` and `RebalanceOk` put the node together again.
`TreeFits` shows that a tree has fewer levels than there are pages, so the bound
`next_page` of the recursive functions is never reached. `StoreListOk` and `LoadOk` are the round
trip of the free list, `CommitOk` and `BeginOk` the two ends of a transaction. The last part
computes `TreeOrdered` and `PagesOwnedOnce` from `StoreInv`.

Induction: the provers cannot instantiate a theorem over an operator. Module
`Recursion` therefore states induction over *sets* of numbers, and has the base and the step
of a recursive function as constant operators; each such function of the model gets an
instance (`Ins`, `Rm`, `Unw`, `Sto`, ...), whose facts are the equations of that function.

`StoreInv` quantifies over all trees and sets of pages, which TLC cannot enumerate; what TLC
checks are the two properties it implies, in `tree_deep` with three levels.

### Region and Gateway

`RegionProofs` proves, for every set of threads, programs and requests, any
`Enter`, `Issue` and `Learn`, any LINK depth and any bounds, with panics and with
commits that fail or process deaths (`RegionAssumption`: one or the other in an instance, not
both; what a process finds of a failed commit of an earlier one is `Environment`'s subject):

| Theorem | States |
|---|---|
| `Invariance` | `GatewaySpec => []RInv` |
| `TypeCorrect` | `GatewaySpec => []TypeOK` |
| `LockDiscipline` | `GatewaySpec => []LockOwned` |
| `DepthSafety` | `GatewaySpec => []DepthBounded` |
| `AnswersComplete` | `GatewaySpec => []AnswerComplete` |
| `UnitsRefined` | `GatewaySpec => ImplementsUnits` |

Every behaviour of `GatewaySpec` is one of a region or one of a gateway, so the theorems
speak of both. The assumptions are `FileControlAssumption` and `RegionAssumption`.

The argument. `RInv` has two halves. `CallOK` is about one call and does not mention the
store: which fields exist in which phase, the LINK level, that nobody waits for the lock
with a transaction, and the equation that makes `AnswerComplete` inductive: in a call in
progress, requests queued = requests dispatched + requests still queued (one more while
the first is dispatched and not yet begun). `FirstOK` is the other half of it: from the end
of the first task on, `result` is what that task returned. `StoreOK` ties the store to the
calls: the lock is the set of threads whose call has a transaction, there is at most one, and
what that transaction shows is the committed records under its own `effects`; a thread
without the lock has none. Every step of a thread (`StepOf`) changes its own call,
for which `CallOK` is shown command by command, and makes one of four moves on the store:
`Kept`, `Opened` (a unit begins), `Closed` (it commits or backs out) and `Edited` (one record).
Each move preserves `StoreOK` and is a step or a stutter of `Units`; this gives
the invariant and the refinement together. A process death is one backout, of the
holder's unit, or a stutter.

### Files

`FilesProofs` proves, with `SameOrder` as hypothesis, for every `BYTE` and `ID_BYTES`, any
file names, record keys (of any length), values and number of openings:

| Theorem | States |
|---|---|
| `FilesInvariance` | `Spec => []FilesInv` |
| `FilesRefined` | `Spec => ImplementsFileSet` |

`SameOrder` says that a name has the same place in every order of definition, and a place
the same name. The code needs it: ids are handed out in order and not stored, so an
opening that defines the files otherwise reads the records of one file in another (section 5).
`MCFiles` has TLC evaluate it on its instance.

The argument. `FilesInv` is small: the table gives the i-th name defined the id i - 1,
and every stored key is a file id's bytes and a record key. The refinement is in the
operators, and `FileControlProofs` has the facts:

- `BytesIncrease`: the bytes of ids below `FILE_IDS` are in the order of the ids; hence
  `StorageKeyInjective`, so that a command on one file changes no other file's map;
- byte strings are linearly ordered (`LessIrreflexive`, `LessTransitive`, `LessTotal`),
  and two strings with a common prefix compare like what follows it;
- `BrowseBounds`: between the start key's storage key and the bare prefix of `id + 1` lie
  exactly the keys of that file from the start key on. It is here that `id + 1` must not wrap:
  `Definitions` are shorter than `FILE_IDS`;
- `RankOnto`: in a finite linear order every place from 1 to the size of the set is taken once, so
  `InOrder` is defined, and stripping the prefix (`InOrderPrefixed`) does not change the places.

Two of these are inductions, on a number and on a finite set. The library's induction
theorems take an operator as parameter, but the least element of a set of naturals does not:
`SetInduction` states induction as "a set that contains 0 and is closed under successor
contains every natural number", and follows from it.

### The bank demo

`BankProofs` proves, with `BankRegion` as hypothesis:

| Theorem | States |
|---|---|
| `LedgerInvariance` | `Spec => [](RInv /\ LedgerInv)` |
| `BalancesSafety` | `Spec => []BalancesSound` |
| `StatementSafety` | `Spec => StatementTrue` |
| `TrailSafety` | `Spec => []TransfersAudited` |

`BankRegion` says that the region is the demo's: its programs and their automata (the
equalities that `BankDemo.cfg` makes by substitution), requests of the demo's kinds
between any accounts and with any amounts, and the demo's files in their order
(`Files = BankFiles`). That the ids of ACCOUNTS and AUDIT differ in some byte, so that no
account shares a key with an audit record, is proved from it (`DemoFiles`, with the lemmas
of `FileControlProofs`). TLC evaluates the hypotheses in `MCBankDemo`'s assumption.

`BalancesSound` is about committed records and not inductive: a transfer takes four
programs, and between DEBIT and CREDIT money is missing. `LedgerInv` says what the
records of the transaction hold by where the top program stands: `Sound` (both accounts,
1500 in all, or neither), `Owes` (the amount is under way), `HalfOpen` (between the WRITEs of
OPEN_ACCOUNTS); that what DEBIT, CREDIT and STATEMENT have read is what the records show,
so that a REWRITE subtracts from the current balance; and that a task ends normally
only in a `Sound` store, with the balances it reports. As soon as a command fails, nothing
is claimed of the records, because the demo's programs pass every error on and the
task ends with it: only a normal end commits.

`TrailInv` adds, until the first restart: tasks in progress have numbers of their own,
below the counter and unlike those of all audit records, so AUDIT_LOG's WRITE never
meets a taken key; the logging task is therefore never in error; a transaction keeps
every audit record and adds at most the one of its own task; and a transfer whose
logging task has committed is recorded under that task's number.

TLC checked `RInv` on the instance of `region_calls`, and `LedgerInv` and `TrailInv` on the
instance of `bank_demo`, before they were proved.

### Not proved

- `ReadsAgree` and `ImplementsKVStore`: what the rows of a tree are, and how an
  operation changes them, would need an account of `range` beside `StoreInv`, which speaks
  of keys, bounds and pages but not of which value a key has.
- `NodesFitPage`: it depends on the sizes of entries against each other (the page must have room
  for what a split by count leaves), which `tree_flat` fixes.
- `EveryCallReturns`: liveness under fairness.
- `TrailTrue`: it goes beyond the first process, where `TrailInv` ends; its half about
  new records would need in `LedgerInv` that a STATEMENT after a transfer never fails.
- The bound on the commands of all calls in progress: it sums over the set of threads.
  `TypeOK` therefore says that a call's count is a natural
  number, and no theorem depends on the bound.

## 5. Where code and documents disagree

1. **A reader can be overtaken while it begins** (`environment_race`).
   `begin_read` clones the committed meta and registers it afterwards. Between the
   two, one transaction may free pages of that root and commit, and the next, which
   sees no reader, may write into them. The comment in `begin_write` (txn.rs:58-62)
   says this cannot happen.
2. **A commit that fails at the last fsync is not an abort**
   (`environment_failed_sync`). The slot already holds the new meta, with the
   higher txn id; the next transaction starts from the old one and reuses the same page
   numbers. A crash at that point may recover the failed commit's meta over foreign pages.
3. **A reopened store may stand on a meta that is not durable**
   (`environment_reopen`). `Pager::open` does not sync what it adopts. After a kill
   between writing and syncing the slot, the next transaction overwrites pages that
   the durable meta still needs.

4. **A failed SYNCPOINT leaves a task without a transaction** (`region_lost_txn`). The
   next File Control command panics in an `expect` that says this never happens. If
   the program just returns, the task ends normally although its work is gone. The
   same under `link_external` leaves the caller's `Option` empty, where its comment
   (region.rs:265) promises it open.

Four more are behaviours of the models that contradict a document, or that an
application has to know; the properties are stated so as to hold beside them:

- A STARTed task can fail its originator: the `?` on its commit (region.rs:89) returns
  from `start_task` with its error after the originating task has committed, and
  drops what is still queued. `AnswerComplete` therefore speaks of answers other than
  I/O errors.
- File ids depend on the order of definition and are not stored (file_control.rs:26):
  reopening a region with its files defined in another order swaps their records.
  `ImplementsFileSet` is checked, and proved, for openings in one order; no property covers
  the others, which fail by design of the table.
- Task numbers are unique only within a process (task.rs:29), and the demo keys durable
  audit records by them: after a reopening AUDIT_LOG meets a taken key, and its
  ABEND is seen by nobody. `TransfersAudited` speaks of the first process; what later ones
  keep is `TrailTrue`: the old record stays as it is, and no record tells of a transfer that
  was not committed.
- The free list's own pages leak in proportion to it (freelist.rs:56): a commit stores
  the whole list in fresh pages, where the crate's README says one page, occasionally
  two, per commit. `PageAccounting` and `PagesOwnedOnce` count those pages as `chains`: they show
  that nothing else leaks, and not how fast this grows.

For the storage engine the passing runs and the theorems show that nothing else breaks:
excluding overtaken
readers (`late`) and unsettled starts (`risky`), all promises hold, and with power
failures alone `risky` never becomes true.

## 6. What is not modelled

- The bytes of a page: bincode and CRC32. `decode_page` rejecting a torn page is
  assumed; sizes enter through `encoded_len`.
- Panics of `expect` on I/O errors while reading; they unwind like a rollback.
- A power failure that loses the directory entry of a file being created.
- An operating system that forgets what it could not write. In the models a successful
  `sync_data` makes every write before it durable, those of an earlier, failed `sync_data`
  included. Linux may mark such pages clean when it reports the error, and the next sync
  then succeeds without writing them. The sequence in which this matters: a commit fails at the fsync
  of its slot, the process dies, the next one adopts that slot (`Pager::open` does not write it
  again), and a later commit tears the other slot in a power failure. The last acknowledged
  meta was in that one, so `Durability` and `AckedDurable` hold under this
  assumption only. Within one process it makes no difference to the slots: the next commit
  writes the failed slot again.
- Key sizes: keys are of one length, and small beside a node (`EntriesFit`), as the README of
  the crate prescribes.
- Overflow of u64 page numbers and txn ids.
- `define_program` and `define_file` in Region: both take `&mut self`, so no task runs
  beside them; the tables are constants there (`Files` models `define_file`).
- Tranids, message texts, printing; COMMAREAs are passed on as they are.
- Overflow of task ids (u64) and of the demo's balances (i64); negative amounts.
- A program that calls `start_task` on its own region: `ExecCtx` gives it no access to one.

## 7. Plan

1. Done: `Environment`, its invariant and its theorems; `BTree`, `TreeStore`,
   `KVStore` and the refinement between them.
2. Done: `FileControl`, `Files`, `Region`, `Gateway`, `BankDemo`, and the refinements to
   `FileSet` and `Units`.
3. Done: power failures alone keep every start settled (`PowerSafety`); the invariants of
   `Region` and `Gateway` and that they implement `Units`, for any programs and any
   number of threads; the ledger and the audit trail of the demo.
4. Done: File Control. Ids and keys as bytes, browses as ranges, and that `Files` implements
   `FileSet`; the demo's files are shown to be apart instead of assumed to be.
5. Done: the B-tree. Search trees and page ownership through every put, delete, commit and
   rollback, for trees of any height.
6. Left: the rows of a tree, for `ImplementsKVStore`; action properties of the runtime that are
   within reach of `RInv` (what a failed SYNCPOINT may and may not change); `TrailTrue`.
