# A verification project for `challenges`

TLA+ models of the programs in this repository, the instances on which TLC
checks them, and proofs that TLAPS checks. Paths below are relative to the
repository. Nothing here changes or runs the code.

## 1. Inventory

The repository holds small independent systems. Each keeps its own state; the
only shared one is process memory, obtained from `sbrk` or from the Go runtime.

| Component | Source | State | Operations | Modules |
|---|---|---|---|---|
| kmalloc, C | `kmalloc/original/kmalloc.c` | `nextf[]` free lists, `pagesz`, `pagebucket`, a header word per block, the break | `kmalloc`, `kcalloc`, `krealloc`, `kfree`, `morecore`, `findbucket`, `kmalloc_usable_size`, `mstats` and its counters | KmallocHeap, Kmalloc, KmallocStats, Allocator, Chains, KmallocHeapProofs, KmallocProofs |
| kmalloc, Rust port | `kmalloc/src/kmalloc.rs` | the same, as `static mut` | the same | KmallocRs, KmallocRsProofs |
| `GlobalAlloc` | `kmalloc/src/lib.rs` | the port's, from every thread | `alloc`, `dealloc` | KmallocThreads, Chains, KmallocThreadsProofs |
| fixalloc, Go and C | `rgoffi/go/fixalloc.go`, `gocruntime/fixalloc.c` | `struct fixalloc`, the list in the freed objects, chunks of persistent memory | `init`, `alloc`, `free` | FixAlloc, Slab, Chains, FixAllocProofs |
| atomics | `gocruntime/atomic*.{c,h,s}` | the caller's words, registers, store buffers | swap, compare-and-swap, add, or, and, load, store | Atomics, AtomicWords, Chains, AtomicsProofs |
| `test_atomicity` | `gocruntime/goruntime.c` | one word, two threads | create, add, join, print, free | TestAtomicity, AtomicsProofs |
| find_string_in_files | `eset/find_string_in_files/src/main.cpp` | directory iterator, shared stream, thread pool, two mutexes, stdout | `main`, `process`, search of small and large files, threads that read chunks, matches with their context, output | FindString, Search, FindStringProofs, Chains |

Interaction. The C allocator is called by a single-threaded client, and other
code of the process moves the same break. The Rust port is called through
`GlobalAlloc`, by any thread, without a lock. fixalloc gets chunks from
`persistentalloc`, which serves others as well. The atomics are called by
threads that share words. In find_string the main thread starts reader threads,
which share an input stream (under `fread_mutex`) and stdout (under
`format_mutex`), and joins them in batches.

What is hard to get right and to test: the free lists threaded through memory
the client has used; size arithmetic at bucket and page boundaries and where it
overflows; a refusal half-way through a call; calls in any order, double frees
among them; another user of the break; racing accesses of the `static mut`
lists; outcomes on a machine with store buffers; the order in which reader
threads get the stream, and what they still use when the main thread returns.
`PROJECT.json` lists these under `hazards`, at their lines.

What makes each component correct:

- an allocator: blocks in the client's hands share no byte and have room for
  what was asked; the header of a block in use is true; a free list holds every
  free block of its bucket, once; `realloc` keeps the data;
- fixalloc: objects lie inside its chunks, apart; no byte is lost; objects are
  handed out zeroed;
- atomics: a call takes effect at one moment with the documented result;
- the allocator's statistics: the counters and the lengths of the lists account
  for every block;
- find_string: every occurrence is printed once, at its offset and with the text that
  stands around it, as the challenge's `README.md` asks (the code does not do that, see
  the findings); what the code looks at it looks at once, and prints all it finds there
  before the next file is begun; calls of the output function do not mix; no thread
  outlives what it refers to; the program ends.

Not modelled: the FFI samples (`rgoffi/src/lib.rs`, `rgoffi/go/main.go`,
`stubs.go`, `supply.go`), which are single calls into the Go runtime;
`gocruntime/string.c`, an unfinished port that does not compile (it calls
`string_data_on_stack` with one of its two arguments); lock-rank wrappers that do
nothing; declarations, stress programs, build files. Code behind `RCHECK` and
`DEBUG` is not compiled by default and aborts where the default build returns.
`kmalloc_usable_size` of the Rust port changes no state and has no caller. Of
find_string the messages on stderr and the pause before a large file are left out.

## 2. How models and code correspond

`PROJECT.json`, under `map`, gives the source lines of each definition. An
operator `X_Bug...` is a plausible slip in `X`: nothing uses it, it serves to see
that the properties notice the slip.

**KmallocHeap** has the memory of the C allocator as a value, a record with
`nextf`, the break and a header word per block, and the functions of
`kmalloc.c` as operators on it. A function that depends on the answer of `sbrk`
gives a set of outcomes. The header word is the union of the code: taking a
block overwrites the low bytes of its link with the magic number and the bucket.
**Kmalloc** makes each call a step and keeps what the client knows: `live`
pointers and `stale` ones, freed and not handed out since, which it may free or
resize again as the comments of `krealloc` allow. `ForeignSbrk` is other code
that moves the break. **Allocator** is the promise: the held regions never
overlap.

**KmallocStats** adds what the allocator tells about itself: the counters of an
`MSTATS` build, updated by each call of Kmalloc, the list lengths that `mstats`
prints, and `kmalloc_usable_size`, which returns the number of a block's bucket
(`kmalloc.c:342`), not its size.

**KmallocRs** takes the expressions the port has in common with `kmalloc.c`
from KmallocHeap, and the properties from Kmalloc, and defines what the port
does otherwise: `kassert!` is nothing, `PAGE_BUCKET` starts at -1,
`findbucket` is another loop, `alloc` gives up on null. Its caller frees a block
once.

**KmallocThreads** divides `alloc` and `dealloc` into their accesses of shared
memory: a load of a list's head, a load of the link and the store of the new
head are three steps. A data race makes the program undefined; the model has the
outcomes of a build with one machine access per access in the source, in program
order. `sbrk` is taken to be atomic. For the largest bucket `morecore` reserves one
page, as KmallocRs has it (`Reserved`).

**FixAlloc** models both versions, chosen by `Lang`: they differ in the place a
fresh object gets. Of memory it keeps which bytes are not zero, and the links.
The client initialises an allocator once and frees what it holds.
**Slab** is the abstract allocator.

**Atomics** runs programs of calls on a processor with store buffers. A call
has three steps: its registers, its one memory access, its result. A locked
instruction, and any `xchg`, needs an empty buffer; `Flush` empties it. The
functions of `atomic.c` go by their names, `_or` and `_and` by those of
`atomic_amd64.h`. What a call does not load into the accumulator is left from
other code (`Residue`); `_casp1` takes its operands from the registers it names,
not from those its caller fills. **AtomicWords** is the promise of the comments in
`atomic.h`. **TestAtomicity** adds the main thread of `test_atomicity`.

**FindString** is all of `main.cpp`: a step for each lock, access and unlock of the
threads, and for each decision of the main thread, for a path that names a file, a
directory, or nothing. Texts are sequences of characters; the matches of a buffer are
listed in the order of their offsets (`InOrder`) and carry their prefix and suffix,
escaped when printed as `format_string` does. `WalkMayThrow` and `SpawnMayFail` let the
directory iterator and `std::thread` throw, which nobody catches. `from`, and with it
`place` in a printed line, is a history variable: it remembers where in the file a
buffer came from, which the code does not.

The `readsome` of `main.cpp:78` is two steps, a read (`ReadSome`) and a move of the
position (`Advance`), so that the mutex matters. `readsome` extracts only what is
available at once, and the code does not ask how much that was. What is available is
for the library and the system to say. The standard does not oblige `showmanyc` to
know the rest of a file, and where it reports nothing the first `readsome` already gets
nothing. libstdc++ on Linux asks the file system (`FIONREAD`), which answers with an
`int`, cut off at 32 bits: where exactly a multiple of 4 GiB is left unread the answer is
0, `readsome` extracts nothing, the position stays, and every chunk from there on is
searched as zeros. The constant `Late` names the files for which this may happen: from
one of them `readsome` extracts any number of characters, none included, up to what is
asked for and there. From any other file it extracts all of them, as this library
does for regular files below 4 GiB. No property, run or theorem rests on `Late` being
empty but `OutputAsDescribed` and `Terminates` in the two runs that show something
wrong even then.

**Search** is the abstract search: files one after the other, each looked at from its
beginning on in pieces of any length, none twice and none skipped; each occurrence that
lies in a piece is told once, before the next file is begun or the search is done. The
last character of a piece may be hidden, files outside `Whole` may be left before their
end, and a search that gives up may leave occurrences untold. Search does not say
that all occurrences in a file are told: the code has no such promise to keep, as
`find_output` shows. `LookedAt` maps a small file to one piece and a large one to
the pieces before the stream's position, `Hand` a thread's chunk or matches to the places
it has found.

## 3. Runs

Bounds are the constants of each `.cfg`; the guards that use them are named in
the modules (`HeapLimit`, `MaxPointers`, `MaxHeld`, `Memory`, `Rounds`).
Deadlock is not checked: each of these programs may come to its end, and an
instance reaches the bound on memory.

### Passing

| Run | Shows |
|---|---|
| `kmalloc` | Two clients. `Lists` calls in any order on up to four pointers, double frees and compaction included, with refusals and a moving break. `Edges` asks for both sides of each bucket boundary, zero, and sizes that overflow. Blocks are disjoint, headers true, lists exact, `krealloc` copies what it must, a freed block heads the list of its bucket; requests get room and no more than the smallest bucket that has it; no call disturbs the alignment of blocks and break, so blocks are aligned as long as nobody else moves the break; the statistics account for every block; the inductive invariant of the proofs holds; Kmalloc implements Allocator. |
| `kmalloc_rs` | The port, for one thread and below the largest bucket, keeps the same and implements Allocator. |
| `threads_buckets` | Two threads on different buckets, racing through the setup of the first call: no block handed out twice or lost, no crash. |
| `fixalloc_go` | The Go version: types, objects apart and inside chunks, list and count exact, no byte lost, objects zero, implements Slab. |
| `atomics` | Each call takes effect at one moment with the documented result (Atomics implements AtomicWords). The outcomes of all pairs of threads that make two of eight calls each, and of chosen programs of up to three threads (store buffering, independent observers, message passing by a plain write, counters that wrap, locks, swaps, flags), are those of some order of whole calls. `test_atomicity` prints 0 and frees the word when nobody uses it. |
| `find_threads` | For one file or a directory, in every order of the reading threads, and when the walk or a thread's creation fails: FindString implements Search (pieces one after the other, what lies in one printed once before the next file or the normal end), also when `readsome` delivers any part of a chunk of `large`; what a line shows around a match is the file's own characters, or `(null)`, or zeros where `readsome` delivered nothing; the lines of one call of `format_output` stay together; no thread outlives its stream; the program ends, if only by a crash. |

Why the bounds suffice. The heap has pages of 32 bytes, so a page holds four
blocks of bucket 0, two of bucket 1 and one page-size block; one bucket lies
above the page and one is negative as a signed word: every branch of the size
computation and of `morecore` is taken, lists get several blocks long, and memory
runs out. The break starts where padding is or is not needed. FixAlloc has
three objects to a chunk, two chunks, and sizes below a link, not dividing a
chunk, filling it and exceeding it. The atomics have two words, three threads
and a wrapping word; a violation of order needs two threads and two words.
`test_atomicity` runs 4 of the 15 rounds: rounds differ in the number added only.
FindString has a limit of two threads: the four chunks of `big` fill the pool of three
once inside the loop, and leave one thread for its end; `large` has two chunks, so the
pool is joined at the end only, and it is the file of which `readsome` may deliver
less than is there, any number of characters each time; `small` is read whole and
`sealed` cannot be opened. The run has 325,177 distinct states. There are matches that
overlap, that the last byte of a buffer hides, with and without enough characters
around them, and each character that is escaped. A context of one character separates
the cases that three do. `find_output` has one file of three chunks, read without
delay, with an occurrence inside a chunk, one up to a chunk's last byte, one over the
edge, one at a chunk's beginning and one at the end of the file, and a context of two.

### Disagreements with what the repository says

Each run below has one property, taken from the lines quoted under `findings`, and
TLC's shortest counterexample violates it.

| Run | The code |
|---|---|
| `kmalloc_setup_failure` | sets `pagesz` before an `sbrk` that fails and serves a large request from bucket 0 |
| `threads_race` | hands one block to two threads |
| `fixalloc_c_overrun` | hands out the place behind the chunk |
| `atomics_cas_pointer` | compares the wrong word |
| `find_odd_size` | wraps the counter of the loop and does not end |
| `find_output` | prints, of the five occurrences in a file, at 1, 2, 3, 4 and 10, two lines: that at 4 with its place in the chunk, 0; both with `(null)` where the file has characters; and those at a chunk's last byte, over its edge and at the end of the file not at all |

The models have these behaviours too, and no run checks for them:

- `kcalloc` clears the null pointer of a refused request (`kmalloc.c:243`; the
  variable `fault` of Kmalloc records it);
- `kmalloc` aligns the break once only, so blocks lose their alignment when
  other code moves it (`kmalloc.c:163`);
- the port's `findbucket` seldom ends (`kmalloc.rs:274`; `stopped = "hung"`), and
  its `morecore` reserves one page for the largest bucket (`kmalloc.rs:145`);
- a thread that asks for more than a page while another has stored `PAGE_SZ` and not
  yet `PAGE_BUCKET` indexes `NEXTF[-1]` (`kmalloc.rs:94`; `stopped = "panicked"`);
- `load_int32` returns 0 (`atomic.c:75`);
- find_string leaves the rest of a file unsearched, without a message, when `readsome`
  delivers less than it was asked for (`main.cpp:78`; a file of `Late`), although it
  "must take into account that files might be very large" (its `README.md:17`);
- find_string is terminated when the iterator or the creation of a thread throws
  (`main.cpp:104`; `pc = "crashed"`, which `Terminates` counts as an end and at which
  Search may leave occurrences untold), although it "must not crash for any reason"
  (its `README.md:17`);
- `kmalloc_usable_size` returns the bucket's number (`kmalloc.c:342`).

### Fairness

Only `find_threads` and `find_odd_size` assume any: weak fairness of the main
thread and of each reader thread, which is the operating system's promise to run
what can run. A thread that waits for a mutex is enabled while the mutex is free
only; weak fairness suffices since threads are finitely many and each takes a
mutex a bounded number of times between two steps of the main thread's loop.
`Terminates` allows the program to end because a thread could not be started or a
file vanished; the behaviours in which nothing throws are among those of the run.

## 4. Proofs

A theorem holds for every value of the constants that satisfies the named
assumptions of its module (TLC evaluates these in every run) and whatever else its
statement assumes. Each argument rests on an invariant that is preserved by every
step, which the properties themselves are not. The invariants of safety speak of
single links, single slots and single registers. Whole lists come on top of them, in
a second invariant per allocator, with the lemmas of `Chains`.

### Whole lists

The library's induction theorems take an operator as a parameter, which the provers
cannot instantiate. `Chains` has induction over the natural numbers without one:
what is to hold for every n is given as a set of numbers, and that a set which is
not empty has a least member follows from finite sets being well founded under
strict inclusion. In the same way it has recursion (the walk of a list is a recursive
function), and so the properties' own definitions of a list's nodes can be unfolded.
`RunsThrough(head, link, S, end)` says that from `head`, by `link`, the members of
`S` come once each and then `end`. Lemmas say that it survives what happens to other
blocks, a push, a pop, and the chaining of the blocks that `morecore` cuts out of a
page; that the nodes of the walk are then exactly `S`; and how many there are. Those
lemmas serve all three allocators, and the search lists the matches of a buffer with the
same induction.

### The C allocator

`KmallocProofs`, for every geometry that satisfies `GeometryAssumption` (any number
of buckets below 257, any page that is a bucket's size, headers of 4 or 8 bytes),
every limit of memory, every request, count and movement of the break by multiples
of 4:

- `Safety`: `Spec => []IInv`;
- `TypeCorrect`, `NoSharedByte` (`BlocksDisjoint`) and `TrueHeaders`
  (`HeadersTrue`) follow from it;
- `FreedHeadsList`: the action property `FreedIsFirst`. A step takes a pointer
  from the client by `kfree` or by `krealloc` only; `KfreeInv` says where the
  block goes, and a refused request leaves the lists as they were.

That a taken block is not in use already depends on what the lists hold, and that a
list holds only blocks that are free depends on headers telling a link from a magic
number. `IInv` says this link by link: a list head, and the link of a free block, is
null or a free block of the same bucket; nothing is pointed to twice; addresses are
multiples of 4, so no link ends in the byte `0xef`; the blocks in use are exactly
the client's. The proof has a section for the geometry, one per operator on the heap
(`Take`, `Morecore`, `KfreeHeap`, the outcomes of `kmalloc` and `krealloc`), each
with a lemma that it preserves `HeapInv` and moves one block between client and
list, and one step per action. The facts about the geometry and the header word
are in `KmallocHeapProofs`, for the threads too.

The second part of `KmallocProofs` goes from blocks to what was asked for. Where the first `sbrk`
does not fail (`SetupMayFail = FALSE`; `kmalloc_setup_failure` shows that it is
needed), `FitInv` adds to `IInv` that a page size that is set comes with its page
bucket, and that every block of the client is of the smallest bucket with room:

- `RoomAlways` (`RoomForRequest`) and `TightAlways` (`TightFit`): the loop of
  `kmalloc` and the test by which `krealloc` stays in place agree on that bucket;
- `PromiseKept` (`KeepsPromise`): Kmalloc implements Allocator, because disjoint
  blocks with room are disjoint regions.

And, on top of `IInv`:

- `ListsAlwaysExact` (`FreeListsExact`): free list b runs through every free block of
  bucket b once and ends in null. The argument goes by operator: which bucket's list
  `Take`, `Morecore` and `KfreeHeap` change and which they leave alone;
- `CopiesAlways` (`KreallocCopies`): what `krealloc` copies when it moves a block.
  `findbucket` walks the lists to find out the size of a block freed before, and that
  the lists are whole is what makes its answer the block's own bucket or -1. With
  `SetupMayFail = FALSE`;
- `AlignedAlways`: blocks are aligned to their size or to the page, when other code
  moves the break by whole pages or not at all. The invariant is that the data after
  the break stays on a page. With `SetupMayFail = FALSE`;
- `AloneAlways` (`AlignedAlone`): wherever blocks and break are aligned, no call of the
  four disturbs that, with no condition on what other code does to the break at other
  times. Needed besides `IInv` is that there is no block before the first call of
  `kmalloc` (`NoneYet`). With `SetupMayFail = FALSE`;
- `StatsAlwaysTrue` (`StatsTrue`): `nmalloc[b]` is the number of the client's blocks of
  bucket b, `mstats` prints the number of free ones, and `kmalloc_usable_size` the
  bucket of a block in use. Assumed is that an `unsigned` can hold an address
  (`HeapLimit <= WordMod`); otherwise the counters could wrap.

`ListsAlwaysExact` and `StatsAlwaysTrue` hold whether or not the first `sbrk` fails.

`GeometryAssumption` states only that `Amt` starts at 8 and doubles and that a page is
one of its members; that the members increase, divide one another and are multiples of
8 is proved from that (`AmtFacts`). `EnvironmentAssumption` and
`ClientAssumption` give constants their ranges, and say that foreign moves of the
break are multiples of 4 and, when the first call's alignment may fail, so is the
initial break.

### The Rust port

`KmallocRsProofs` proves that the port is a refinement of `kmalloc.c`
(`PortIsKmalloc`: `RsSpec => C!Spec`, where `C` is the instance of `KmallocProofs` on
the port's variables, with the page bucket read as 0 until the first call sets it). It
holds under `BelowTop`: the first `sbrk` succeeds, and what the program asks for, by
`alloc` or through `kcalloc`'s product, has room in a bucket below the largest.
Without that the port is another program: for the largest bucket its `morecore`, whose
`kassert!(sz > 0)` does nothing, reserves one page, where kmalloc.c's gives up. The four
places where the port goes its own way are:

- `PAGE_BUCKET` is -1 before setup, which nobody reads then, and after it the bucket of
  a page;
- `morecore` serves the largest bucket, which `BelowTop` keeps out of reach
  (`LoopBucket`: a bucket chosen is the smallest with room);
- `kfree` does not look at the magic number, but `GlobalAlloc`'s caller frees what it
  owns, and `HeadersTrue` says that this carries it;
- `findbucket` follows no link and may never end. Where it ends, `SearchSame` shows that
  it answers what kmalloc.c's walk answers: its first search finds a block only at the
  head of a list, where the other finds it too, and when it finds none, the second ends
  only if `realloc_srchlen` is 0 or 1, and then there is nothing more to find. A search
  that never ends leaves memory as it is, which is kmalloc.c's `kfree` of null.

Through the instance the theorems about Kmalloc become theorems about the port, all under
`BelowTop`: `NoSharedByteInPort`, `TrueHeadersInPort`, `ListsExactInPort`, `RoomInPort`
(`RsRoomForRequest`), `CopiesInPort` and `PromiseKeptByPort`: every property of the run
`kmalloc_rs`, whose instance meets `BelowTop`.

### Threads on the Rust port

`KmallocThreadsProofs` is about any number of threads that call `alloc` and `dealloc`
at once, under `OwnBuckets`: their sizes are below a page and no bucket is used by two
of them (`threads_race` shows why; one thread with any small sizes is a case of it).
The invariant says of links what `KmallocProofs` does, for blocks in no thread's hands;
that blocks `morecore` has cut and not chained yet are nobody's and nothing links to
them; and for each access of `kmalloc` and `kfree` what the thread's registers still
say of memory: between the load and the store of `NEXTF[bucket]` the head has not
moved. Proved are `OnceEach` (`HandedOutOnce`), `ApartAlways` (`CutApart`) and
`NoCrash` (`NeverCrashes`). On top of it, between any two accesses each list runs
through the free blocks that no thread has in hand, and the blocks that `morecore` is
chaining run through what it has chained so far; so when no thread is inside a call, no
block is lost (`NothingEverLost`, `NothingLost`). The setup of the first call needs no
assumption: any number of threads may run it, in any interleaving.

### fixalloc

`FixAllocProofs` is about the Go version (`Lang = "go"`; `fixalloc_c_overrun` shows
why not the other), for every size of chunk, link and object, and whatever memory
others take. Its invariant has the links as above, and: `nalloc` and what is left of
the chunk are multiples of `size`, so the last object ends where the chunk does;
bytes not yet cut are in no object; what is dirty lies below the break and not among
them. Proved are `ApartAlways`, `InChunksAlways`, `ZeroAlways` (`HandedOutZero`),
`NoneLost` (`NothingLost`), `TypeCorrect`, and `Refines`: the Go version implements
Slab. `ListAlwaysExact` (`ListExact`) adds that the list runs through every freed
object once and ends in null.

### Atomics

`AtomicsProofs` is about programs of calls of `atomic.c` on a machine of any width
with any number of threads (`LibraryPrograms`: no plain accesses of the words, no
`load_int32`, and `compare_and_swap_pointer` only where its operands happen to
agree). Its invariant: store buffers stay empty, because such programs store by
`xchg`, and a thread comes to its access with its own operand in the accumulator,
whatever other threads do. Hence `TypeCorrect` and `Refines`: Atomics
implements AtomicWords. `WordAssumption` says that a word has every combination
of its bits, which makes the result of `or` and `and` a word.

`OutcomesInOrder` (`OutcomeInOrder`) is about whole executions: when all threads have
finished, one order of all calls explains every result and every word. The witness of
that order is built along the execution. `Ordered` says that the calls that have taken
effect so far, made one whole call after the other in some order, had the results they
had (those that a thread has still in its registers included) and leave memory as it
is. An access makes the order one call longer; entering and leaving a call change
nothing of it, because what a call returns is settled with its access
(`OrderExtended`, `OrderKept`). At the end the order has as many calls as the program,
which counts the pairs of a thread and a number of a call (`OrderCounts`), and the
recursive function in `InOrder` is unfolded along it with the recursion of `Chains`
(`OrderIsInOrder`). TLC has checked `Ordered` in the form "memory is among the words
that `InOrder` computes from the results so far" on the programs of the run without
plain accesses. `TestInOrder` is the same for `test_atomicity`.

For `test_atomicity`, with any number of rounds and any word, `TestInv` adds what
the word is between any two steps, what one thread has added less what the other
has subtracted, modulo the word, and which threads have ended at each step of the
main thread: `ZeroPrinted` (`PrintsZero`) and `FreedLast` (`NoUseAfterFree`).

### find_string

`FindStringProofs`, for every set of files and their texts, every chunk size, limit of
threads and length of the context, whatever `readsome` delivers of the files in `Late`,
and every place at which an exception may end the program: a slot in use lies between
the threads joined and those spawned, and while there is one the stream is that of the
current file; a mutex is held by the thread that stands between its `lock()` and
`unlock()`. From this invariant, `IInv`, follow `StreamOutlives`
(`StreamOutlivesThreads`) and `TogetherAlways` (`LinesTogether`).

A second one on top of it, `SInv`, follows what is found and printed. A place that was
found is in one thread's hands only, in a chunk it has read or as a match it has not
printed yet, and lies behind the stream's position (`Accounted`); so what the next read
finds is nobody's yet. `LocalInv` says what a thread has at each of its stages: once it
has read, its buffer is a piece of the file with zeros after it, and its matches are
those of that piece with their surroundings. `LinesInv` says of each printed line that
what it shows is the file's. `StreamInv` is needed for the end of a file: if k chunks
have been read and w threads still wait for theirs, `left_so_far` is the file's size
less (k + w) chunks, modulo 2^64, and unless the file is in `Late` the stream stands
after k chunks or at its end. So when the counter is 0 and the pool joined, nothing of
such a file is left. That holds for files of any size: where the size is not a multiple
of the chunk the counter wraps and the loop does not end (`find_odd_size`), but what it
prints is still what it has looked at. Hence

- `Refines` (`ImplementsSearch`): every step is one of Search, or none. A read is a
  `Look`, a line printed a `Tell`; the next file is begun, or the end reached, only
  when no thread has anything in hand;
- `ContextAlways` (`ContextFromFile`), which rests on lemmas about `ProcessChunk` (what
  it finds, in a buffer whose last byte is overwritten) and `FormatString` (no control
  character gets through);
- `TypesAlways` (`TypeOK`).

Neither says that the output is what the challenge asks for; `find_output` shows that it
is not.

`SearchAssumption` says that the size of a chunk divides 2^64, as 16384 does, that
the target is not empty, and that it has no character 0, as it comes from `argv`.

### Only model-checked

- `OutcomeInOrder` for programs that mix in plain accesses of the words. It is false of
  some of them (two plain writes, each followed by a plain read of the other word), so a
  theorem would need a condition on races; the run has the programs whose plain accesses
  are published by a store or an addition;
- liveness, which the proof system does not reach.

## 5. Plan

Done: all modules above; both allocators, fixalloc and the atomics have an abstract
specification, and so has the search. The proofs cover the C allocator, its Rust
port, the threads on the port, the Go fixalloc, the atomics with their test, and the
search: every property of the runs of these but liveness, `OutcomeInOrder` for the
programs without plain accesses.

Next in the models:

1. KmallocThreads with large requests, against a setup in progress (`PAGE_BUCKET`
   is stored after `PAGE_SZ`), and with a layout's alignment;
2. the port with requests in the largest bucket, and what they show of `kmalloc.rs:145`;
3. atomics of two widths on one word (`_or8`, `_and8`).

Next in the proofs:

1. KmallocThreads: large requests, once every thread has seen the setup done;
2. KmallocRs without `BelowTop`, for the properties that survive the largest bucket;
3. Atomics: `OutcomeInOrder` with plain accesses of words that no two threads use at
   once.
