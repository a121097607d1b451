# A verification of the LIN drivers

The repository holds the assignments of a course on Linux internals: kernel
modules that share lists, ring buffers, counters and wait queues between
processes, a timer, a work queue and a USB device. They are small programs
whose difficulty is concurrency. This directory holds TLA+ models of them,
TLC configurations that check the models on small instances, and proofs of the
most important facts checked by TLAPS.

`PROJECT.json` lists the components, runs, mutants, hazards, findings and
theorems, and maps every definition to the lines it models.

## 1. The system

| Component | Source | State | Operations |
|---|---|---|---|
| multipc, one entry | `PrácticaFinal/ParteA/multipc.c` 101-208 | ring `cbuf`, semaphores `huecos`, `elementos`, `mtx` | `test_write`, `test_read` |
| multipc, administration | same file, 226-406 | `/proc/multipc`, `proc_list`, `num_of_process`, `mtx_num_process` | `admin_write` (new, delete), load and unload |
| user program of multipc | `PrácticaFinal/ParteB/user.c` | its threads | create, delete, read and write loops |
| fifoproc | `Práctica4/ParteB/fifoproc.c` | byte buffer, two counts of open files, two counts of waiters, `mtx`, `sem_prod`, `sem_cons` | open, write, read, release |
| codetimer | `Práctica5/Codetimer/codetimer.c` | byte buffer (spin lock), list (`sem_list`), timer, work item, `sem_coderead` | timer, work, configure, open, read, release |
| codetimer, optional | `Práctica5/Opcional/codetimer.c` | the same with two lists and `num_readers`, `sem_num`, `sem_reader` | the same for two readers |
| modlist, read-write lock | `Práctica4/ParteA/modlist.c` | list, `rwl` | add, remove, cleanup, read |
| modlist, no lock | `Práctica1/` (three variants) | list, `contador` | the same; `seq_file` iteration |
| blinkdrv | `Práctica3/ParteA/blinkdrv.c` | `struct usb_blink` and its reference count | probe, open, write, release, disconnect |
| ledctl | `Práctica2/Parte_B/ledctl.c` | none of its own | one system call |

`PrácticaFinal/ParteB/multipc.c` is byte for byte the file of `ParteA`.

How they interact. Processes enter a driver by calls on a `/proc` entry, at any
time and any number at once; inside, they meet at kernel semaphores. In multipc
an administrator adds and removes entries while users are inside them; procfs
itself makes `remove_proc_entry` wait for the calls in progress. In codetimer a
timer interrupt fills a buffer, a work queue moves it to a list, and a reader
takes the list. In blinkdrv the USB core calls probe and disconnect while
user processes hold the device open. Nothing is persisted, so there is no crash
recovery; failure means a signal (`-EINTR` from `down_interruptible`), a lack of
memory, a bad user buffer or a device that goes away.

What makes each of them correct:

- multipc, entry: one call at a time touches the ring; slots are conserved on
  every path; no wakeup is lost; a block has one owner; the entry is a FIFO.
- multipc, administration: no entry is freed under a user; the number of entries
  agrees with the directory, and so does the list; the limit holds.
- fifoproc: the counts are the truth; transfers are complete; a sleeper has a
  reason to sleep; nothing of one conversation reaches the next.
- codetimer: each code generated is read once and in order or was dropped for
  lack of room; the reader is woken; nothing runs on freed memory.
- codetimer, optional: the same for each of two lists; nobody keeps `sem_num`.
- modlist: a node freed is not in the list; a reader sees a list that existed;
  a pass of the `seq_file` variant shows each number once and ends.
- blinkdrv: the device is freed exactly once, when nobody uses it.
- user program: the death of a thread inside the module costs nothing; a
  deletion and an unloading end, and find nobody inside.

## 2. Modules

| Module | Models | Uses |
|---|---|---|
| `Semaphore` | the kernel's counting semaphore with its FIFO queue (external) | |
| `Kfifo` | the kernel's ring of pointers (external) | |
| `BoundedChannel` | what an entry promises: a bounded FIFO of blocks | |
| `MultipcEntry` | `test_write`, `test_read`; refines `BoundedChannel` | `Semaphore`, `Kfifo` |
| `LinkedList` | what `list_for_each_entry` goes through (external) | |
| `MultipcAdmin` | `admin_write`, `add_proc`, `delete_proc` with the list at the grain of links, users inside entries | `Semaphore`, `LinkedList` |
| `FifoProc` | fifoproc's four handlers | `Semaphore` |
| `UserThreads` | `user.c` on multipc: threads, deletion, unloading | `Semaphore` |
| `LossyStream` | what a codetimer promises: a queue of codes that may lose some | |
| `CodeTimer` | timer, work item, configuration, open, read, release; refines `LossyStream` | `Semaphore` |
| `CodeTimerOpt` | the two-reader codetimer; refines `LossyStream` twice | `Semaphore`, `Selection` |
| `AtomicList` | what modlist promises: a list with atomic commands | |
| `ModList` | `Práctica4/ParteA`: list and lock at the grain of links; refines `AtomicList` | `LinkedList` |
| `Selection` | what stays of a sequence when some elements are taken out | |
| `ModSeq` | `Práctica1/Opcional2`: the list read through `seq_file` | `Selection` |
| `BlinkDrv` | blinkdrv and the USB core around it | |
| `MC...` | the instances TLC checks, with symmetry sets where no liveness is checked (`ModSeq` needs none) | |
| `CommonLemmas` | lemmas on numbers, on sequences, on linked lists, on what `Among` keeps, and on what each semaphore operation does to the units | `Semaphore`, `Selection`, `LinkedList` |
| `MultipcEntryProofs`, `MultipcAdminProofs`, `FifoProcProofs`, `UserThreadsProofs`, `CodeTimerProofs`, `ModListProofs`, `BlinkDrvProofs` | the inductive invariants of the modules they are named for, and their theorems; `CodeTimerProofs` also those of `CodeTimerOpt`, and `ModListProofs` those of `ModSeq` | `CommonLemmas` and that module |

**Semaphores.** `down` and `down_interruptible` put the caller in a queue when
there is no unit, and `up` hands its unit to the first waiter, as in
`kernel/locking/semaphore.c`. A process moves its program counter past the call
when it makes it; its next action has the guard `Granted`, which is false while
the process is queued. A signal is an action that takes a queued process out of
the queue and into the error path of the code.

**MultipcEntry.** One action per statement that touches shared state: a program
counter `pc[p]` and the local pointer `val[p]` per process. `kfifo_in` and
`kfifo_out` are two actions each (copy, then move the index), because they take
no lock: whether they may interleave is a question for the semaphores and not an
assumption. Blocks of memory are addresses that `vmalloc` returns when no call
and no slot holds them. The tests that return before any shared state is touched
(length, offset, user pointer, number format) are left out, and printing,
freeing and copying the item to the user are one action: the block is gone
whether or not the copy succeeds (lines 194 to 203).

**MultipcAdmin.** An administrator runs `new` or `delete` in steps: the limit under
`mtx_num_process`, the creation of the directory entry, the set-up of its fields,
the link in the list; or removal from the directory, the wait for the users inside,
and the release of the memory. `proc_create_data` fails on a name that is taken, or
for want of memory, and `kfifo_alloc` may fail. `mem` says whether an address is
free, allocated but not set up (`raw`), or ready under a name. `drift` is a history
variable that no action reads except to bound the run: it counts the numbers that
interrupted commands failed to give back, minus the deletes that named no entry, so
that `NumberMatchesDirectory` can be exact although both do happen.

`proc_list` has no lock, and so its links are written one at a time: `list_add` is
three steps and `list_del` two, which may overlap with those of another
administrator. The entry an overlap cuts out of the list, or a link to a freed
entry, is then there in the model as in the code. Two history variables speak of it:
`entries` is the list as the changes should leave it, and `overlapped` tells that
two changes have been in progress at once. `DirectoryMatchesList` is claimed until
that happens and may be false after it; the other properties of this module are claimed
and hold beside overlaps too. Where the model stops: no deletion *begins* after an
overlap, because its search may follow a link to freed memory; creations go on, and
so does what was in progress. A search is one step (it reads the head's link once,
and behind that only deletions write), and so is, in `list_add`, the load of the
head's link with the store through it. The constant `Deleters` says who deletes: two
overlapping deletes of one entry free it twice, which no run hides and no document
denies (hazard at line 269), so the passing runs have one deleter. `num_of_process`
starts at 2 because line 28 sets 1 and line 400 counts the entry `test`.

**FifoProc.** Everything between a granted `mtx` and its `up` is one action, since
all of it is read and changed under `mtx` only; releasing `mtx`, waiting on one's
own queue and taking `mtx` again are separate actions. Error paths are modelled as
they are: the ones that undo, with `down(&mtx)` that no signal interrupts, and the
ones that return at once. Bytes are abstracted to their number. `write` refuses more
than 256 bytes; `read` asks for any number, as the code lets it. What a read of more
than 256 bytes does to the stack behind its local buffer is not modelled: the model
extracts and counts. A file opened for reading and writing counts as a consumer's in
`open` and could also write; it is left out. Two history variables make exact
statements possible under signals: `drift` is, for each role, how far the count of
open files is from the truth, changed only by the paths that return without undoing
(56, 80, 219) or undo too much (123); `spill` is what the last process to leave left
in the buffer because it was interrupted.

**CodeTimer.** The timer handler is one action, as it runs in interrupt context
under the spin lock; the work item takes the ring in one action and then lists one
code at a time, each under `sem_list`. A code is its length, which is what the ring
counts; `used` is what the ring holds in bytes. `timer` has a third value,
`"hidden"`: `open` adds the timer and then calls `init_timer` on it (228, 233), so
that it fires but `del_timer_sync` does not know it. `awaited` is what
`flush_workqueue` still waits for, and `overtaken` records that the timer queued
work, or survived, behind the flush. The readers share one open file.

**CodeTimerOpt.** The reader that waited in `open` on `sem_reader` goes on without
`sem_num` (276-278) and gives it back all the same. From then on `sem_num` does not
exclude anybody, so loads and stores of `num_readers` and `even_odd` are separate
actions, with the loaded value in `loaded[p]` and the file's in `private[p]`. A
threshold is chosen at every tick, which stands for any use of `codeconfig_write`.
`robbed` is the set of lists whose unit of `sem_coderead` somebody else may have
taken. The increment of line 277 uses the value just loaded for `private_data` or a
new load of `even_odd`, as the compiler likes. `Signals` says whether blocked
processes are interrupted.

**ModList.** `list_add_tail` is three steps and `list_del` with `vfree` three more,
one per link that others can see, and a traversal reads one link at a time: that
they do not interleave is for `rwl` to show. A full list (59-63) frees the node,
unlocks, and then links the node and unlocks again; the model follows this with
freed memory and a lock that is not its own. `refused` tells that it happened, and
`committed` is the list as the last writer left it. After a refusal no call begins:
what was in progress goes on, and the properties no longer claim anything.

**ModSeq.** The kernel's `seq_read` is external: it calls `start` with the position
reached, then `show` and `next` until the buffer is full or the iterator ends. A
system call is one step, as on one processor without kernel preemption: what is
modelled is how calls follow each other, not the corruption of a list that nothing
protects.

**BlinkDrv.** The USB core is external: `usb_open` holds `minor_rwsem` while `open`
runs, `usb_deregister_dev` waits for it, and once it waits no new `open` begins.
Probe, disconnect, open and release are split where another party can come in
between: between the load of the interface's data and `kref_get` in open (71, 76),
and between the three steps of disconnect. A write is a sequence of messages, one
for each number of the request (`Messages`), any of which may fail. `alone` is a
history variable: nobody else has sent a message since this write began.

**UserThreads.** `user -e` creates threads that open, read or write, sleep and
close for ever; `open` fails when the entry is gone, and then `_exit` ends the
process under its other threads, wherever they are. `user -d` removes the name and
waits for the calls inside; `user -n` may create the name again; `rmmod` unloads
the module when its reference count is zero, while `try_module_get` in `open` is
not looked at. The inside of a call is what `MultipcEntry` proves it to be (a
granted unit, then a transfer or an undo), the administration what `MultipcAdmin`
shows it to be.

## 3. Runs

| Run | Instance | Shows |
|---|---|---|
| `multipc_entry` | 3 processes, ring of 2, 3 blocks, indices wrap at 4, fair | six invariants, `CallsFinish`, and that the entry implements `BoundedChannel` |
| `multipc_admin` | 2 administrators (1 deletes), 1 user, 3 names, limit 2, signals, two deletes of missing names | `NoUseAfterFree`, `DirectoryMatchesList`, `NumberMatchesDirectory`, `LimitDriftsOnly` |
| `fifoproc` | 2 producers, 1 consumer, 2 calls each, signals, `-EFAULT` | `CountsExact`, `FreshStart`, `MtxKept`, `CompleteTransfers`, `MtxLostForGood` |
| `fifoproc_pair` | 1 and 1, 4 calls each, no signals and no `-EFAULT`, fair | `ProducerWoken`, `CallsReturn`, `StuckForGood` |
| `codetimer` | 2 readers, ring of 5 bytes, thresholds 50 and 80, fair | `ReaderWoken`, `ReleaseClean`, `CodesServed`, refines `LossyStream` |
| `codetimer_opt` | 2 processes, ring of 6, codes of length 1, 2 and 3, lists of up to 2, signals, failing `kfifo_alloc` | `WokenUnlessRobbed`, `NumLostForGood`, refines two `LossyStream`s |
| `modlist` | 3 processes, 5 nodes, numbers of 2 and 3 bytes, buffer of 9 | `ListSound`, `ReadsWhole`, `BufferFits`, refines `AtomicList` |
| `modseq` | 2 readers, up to 3 numbers, buffers of 1 and 3 records | `WholePasses` |
| `blinkdrv` | 2 processes, memory for 2 devices, 2 LEDs, fair | `NoUseAfterFree`, `RefsExact`, `WriteExact`, `FreedInTheEnd` |
| `user_threads` | process A with a reader and a writer, B with a reader, 2 entries of the name, fair | `SlotsKept`, `RefsExact`, `NoneInside`, `DeletionEnds` |

Two runs end in a violation, each of a statement of the repository's own
comments (`findings` quotes them):

| Run | What happens |
|---|---|
| `multipc_admin_missing` | one `delete` of a missing name makes room for one entry more than the limit |
| `fifoproc_reader_woken` | `open` decrements `nr_cons_waiting` without having incremented it; `write` then finds no waiter to wake, and the reader sleeps beside its data |

**Known behaviours.** These follow from the code, are part of the models, and
bound what the passing runs claim; no run is spent on them.

- fifoproc: both branches of `open` signal `sem_prod` (62), so a consumer asleep
  in `open` is not woken by a producer's arrival, whatever the pseudocode says
  (`pseudocodigo.txt:25`). The last producer to leave signals `sem_cons` once
  (228): of two blocked readers the second sleeps on. An interrupted write lowers
  `prod_count` although the file stays open (123). `ProducerWoken` holds for one
  producer and fails for two, as one takes the other's signal. `read` has no test
  of its length, which `pseudocodigo.txt:61` has: a read of 770 bytes or more beside a
  writer of 256 can leave both without what they need, waking each other for ever;
  `CallsReturn` names the case (`Stuck`) and `StuckForGood` says that it does not end. A read that extracts more than 256 bytes writes beyond
  its local buffer (198).
- codetimer, both: `read` prints the whole list into 256 bytes without a test
  (241 and 262; 287 and 315 in the optional part).
- codetimer: with a threshold that codes of the current length can never make the
  ring reach, codes are dropped for ever (126); `CodesServed` names the case.
  A release that the timer overtakes leaves work, codes or a timer behind
  (281-283); `ReleaseClean` is about the others.
- codetimer, optional: two readers may get the same list, because `even_odd` is
  changed without `sem_num` and grows beyond 1 (277); `-ENOMEM` in `open` keeps
  `sem_num` (239); the unit of `sem_coderead` may go to the reader that has
  nothing to read (103).
- modlist: after a refused number the freed node is in the list.
- modlist, `seq_file`: after a removal `cat` may never end.
- blinkdrv: `dev->interface = NULL` is meant to "prevent more I/O from starting"
  (350), but `write` does not look at it: a write to an unplugged device ends
  because `usb_control_msg` fails.
- blinkdrv: `strsep` moves `kbuf` (195), so that `vfree(kbuf)` frees nothing at the end
  of a write (232), and a wrong address after a failed message (237).
- user program: `buf[numbytes]` in `reader` is written before it is known that
  `read` did not return -1 (57).

**Bounds.** *Processes*: three in an entry make one blocked on each of two
semaphores and one running, or two queued on `mtx` behind an owner. In fifoproc two
of a role are the least for one to take the other's wakeup. *Ring size*: 2 makes
full, empty and wrap-around frequent; `IndexWrap` makes the 32-bit indices wrap
after four items. *Blocks*: with three, two fill the ring and a writer waits with
the third; a call that finds no block waits for one, which only removes behaviours,
and the invariants are proved for any number of blocks. *Administration*:
`MaxMissing` bounds the deletes of missing names, and two of them on a list that is
emptied make `num_of_process` wrap below zero; five places of memory are enough for
three names and two administrators; one user is enough for a deletion to wait, and
users do not meet each other here. *fifoproc*: with a capacity of 3, writes of 1 and
2 and reads of 1, 2 and 4, there are transfers that must wait, pairs that fit and
pairs that cannot both be served, and a read that no buffer ever satisfies.
*`MaxCalls`*: with two calls per process each opens the FIFO and transfers once;
`fifoproc_pair` has four, so that a writer can fill the buffer and wait. `UintMod`
stands for 2^32. Releases are not bounded. *codetimer*: five bytes hold two short
codes or one long and one short, so a code may not fit; `MaxList` and `MaxUnits`
stop the timer while the list or `sem_coderead` is that long (in the model a reader
drains the whole list at once, so more codes add nothing to a wakeup), and threshold
80 asks for a ring that is full to the last byte. `CodeTimerOpt` adds `NumWrap` for
2^32 and `MaxReaders`, `MaxUnits` for opens. Its ring holds a code of each list at
once, or the two different odd codes, and a list holds two, so that an order can be
broken within a list and between them. *modlist*: with three processes there is a
reader, a writer and one that waits for either; four short numbers fill the buffer,
and a fifth node lets one be at hand. *modseq*: a list of three with one removed is
the least that never divides `contador`; `MaxPos` bounds passes. *blinkdrv*: two
structures let the device come back while a file of its first life is open.
*user_threads*: a reader and a writer die together while a reader of another process
may be blocked alone; two entries let the name be created again during a deletion.

The runs that turn off the deadlock check are those of systems that really may
stop: processes that have used up their calls, or sleep for ever as the code lets
them (fifoproc; `codetimer_opt` with a lost `sem_num` or a stopped `add_timer`;
modlist after a refusal), or are all gone with their module (user program).

**Fairness.** In `MultipcEntry`, weak fairness of each process's own statements once
a call is running: a runnable kernel path is scheduled. Nothing obliges a user to
call again, or a signal to arrive. Strong fairness is not needed because semaphores
hand their units over in FIFO order. `FifoProc` adds weak fairness of `CallRelease`:
every file is closed in the end, if only because its process ends. In `CodeTimer` a
queued timer fires, queued work is executed, and readers inside `read` run; nobody
is obliged to open, read again or close. In `BlinkDrv` the USB core completes a
probe or a disconnect it has begun, handlers run, and every file is closed in the
end: `Release` is strongly fair because a process may write again and again between.
In `UserThreads` threads that are not blocked go on, sleeps end, and a deletion or
an unloading that can go on does; nobody is obliged to interrupt a program, to
create or delete an entry, or to unload. `CodeTimerOpt`, `ModList` and `ModSeq` are
checked for safety only: by the code nothing need ever happen once `sem_num` is
lost, `rwl` promises no order, and a reader through `seq_file` is never made to
wait.

**Type invariants.** Each module states `TypeOK`, and each was checked on the
instances above. It is proved for `MultipcEntry`, `MultipcAdmin`, `FifoProc`,
`UserThreads`, `CodeTimer`, `ModList` and `BlinkDrv`, and for `ModSeq` as a part of
`SeqInv`; for `CodeTimerOpt`, all but two of its parts (section 4). Only the
configuration of `MultipcEntry` lists it; adding `INVARIANT TypeOK` to another
configuration checks it there.

**Mutants.** Every property has a mutant: a definition of the model changed the
way a bug would change the code (a missing `up`, an `up` of the wrong semaphore,
a node freed and left in the list, a count decremented twice), with which TLC
finds the property violated.

## 4. Proofs

Every safety property that a passing run checks is proved, some under a hypothesis
that is named below. Each theorem holds for every value of the constants that the
module's assumption admits; the sets of processes are finite, and nothing else
bounds them. Each model has one inductive invariant, `Inv` (`OptInv` for
`CodeTimerOpt`, `SeqInv` for `ModSeq`), and three have others that build on it
(`Owners` for `MultipcEntry`, `LinksInv` and `NumberInv` with `NumBalance` for
`MultipcAdmin`, `WakesOwed` with `Reasons` for `FifoProc`), one lemma per action or
per part of the invariant that says it is kept, and at the end the theorems, which
follow from the invariant.

| Module | Theorem | Statement |
|---|---|---|
| `MultipcEntryProofs` | `TypeCorrect` | `Spec => []TypeOK` |
| | `Exclusion` | `Spec => []MutualExclusion` |
| | `Conservation` | `Spec => []SlotConservation` |
| | `WholeTransfers` | `Spec => []NoShortTransfer` |
| | `WakeupsKept` | `Spec => []NoLostWakeup` |
| | `OneOwner` | `Spec => []SoleOwner` |
| | `IsChannel` | `Spec => ImplementsChannel` |
| `MultipcAdminProofs` | `TypeCorrect` | `OneDeleter /\ Spec => []TypeOK`, and so the others |
| | `NobodyInFreedEntry` | `[]NoUseAfterFree` |
| | `SameEntries` | `[]DirectoryMatchesList` |
| | `NumberCounts` | `[]NumberMatchesDirectory` |
| | `LimitKept` | `[]LimitDriftsOnly` |
| `FifoProcProofs` | `TypeCorrect` | `Spec => []TypeOK` |
| | `CountsRight` | `Spec => []CountsExact` |
| | `NoOldBytes` | `Spec => []FreshStart` |
| | `MtxIsKept` | `Spec => []MtxKept` |
| | `LostForGood` | `Spec => MtxLostForGood` (an action property) |
| | `TransfersComplete` | `Spec => CompleteTransfers` (an action property) |
| | `ProducerIsWoken` | `OneProducer /\ Spec => []ProducerWoken` |
| | `NeverUnstuck` | `OnePair /\ Spec => StuckForGood` (an action property) |
| `CodeTimerProofs` | `TypeCorrect` | `Spec => []TypeOK` |
| | `Woken` | `Spec => []ReaderWoken` |
| | `CleanRelease` | `Spec => []ReleaseClean` |
| | `IsStream` | `Spec => ImplementsStream` |
| | `WokenOrRobbed` | `Opt!CodeOptAssumption /\ Opt!Spec => []Opt!WokenUnlessRobbed`, and so the next two |
| | `NumIsLost` | `Opt!NumLostForGood` (an action property) |
| | `AreStreams` | `Opt!ImplementsStreams` |
| `ModListProofs` | `TypeCorrect` | `Spec => []TypeOK` |
| | `ListIsSound` | `Spec => []ListSound` |
| | `ReadsAreWhole` | `Spec => []ReadsWhole` |
| | `TextFits` | `Spec => []BufferFits` |
| | `ListIsImplemented` | `Spec => ImplementsList` |
| | `PassesAreWhole` | `Seqs!SeqAssumption /\ Seqs!Spec => []Seqs!WholePasses` |
| `BlinkDrvProofs` | `TypeCorrect` | `Spec => []TypeOK` |
| | `References` | `Spec => []RefsExact` |
| | `NobodyUsesFreed` | `Spec => []NoUseAfterFree` |
| | `WritesShow` | `Spec => []WriteExact` |
| `UserThreadsProofs` | `TypeCorrect` | `Spec => []TypeOK` |
| | `SlotsConserved` | `Spec => []SlotsKept` |
| | `References` | `Spec => []RefsExact` |
| | `NobodyInside` | `Spec => []NoneInside` |

**Assumptions.** Those named in the modules: for `MultipcEntry`, that the ring's
size is positive and divides the wrap of its indices (`init_prodcons_module` accepts
powers of two only, lines 374-377); for `MultipcAdmin`, that there is a place of
memory for every name and every administrator (the model has a bounded memory where
the code has `vmalloc`); for `FifoProc`, that a write fits in the buffer (256 bytes
at most in 1024, line 96), and nothing about reads; for `ModList`, that the numbers
have one or two digits, which is how far the size of the text is modelled. The
theorems of `MultipcAdminProofs` have one hypothesis more, `OneDeleter`: no two
processes delete. It cannot be dropped, since two overlapping deletes of one entry
free it twice (hazard at line 269), and the instance that TLC checks satisfies it.
`ProducerIsWoken` assumes `OneProducer`, any number of consumers being allowed: TLC
refutes the property for two producers, as one takes the other's signal.
`NeverUnstuck` assumes `OnePair`: at most one process of each role, and no signals,
as either ends the deadlock. `CodeTimerOpt` and `ModSeq` have many names in common
with `CodeTimer` and `ModList`, so the proofs reach them through an instance (`Opt`,
`Seqs`), and the assumptions on their constants are hypotheses of the theorems: the
very `ASSUME` that TLC evaluates when it runs the module.

**Semaphores.** `CommonLemmas` proves once what each semaphore operation does to a
*ledger*: `Ledger(sem, P, W, T, n)` says that the queue of `sem` lies within W, that
those of T called `down` and have not given their unit back, and that `sem.count`
plus the members of T who were granted a unit is n. `Down` either takes a unit for
the caller or queues it, `Up` returns the unit or hands it to the first waiter,
`Cancel` takes a waiter out of W and T. A process's label says which units it owes,
so in each proof W and T are sets of labels, and n is what the semaphore is about.

**MultipcEntry.** None of the invariants is inductive: `SlotConservation` does not
say who is queued, `MutualExclusion` not that `mtx` is one unit. `Inv` is typing and
three ledgers: `huecos` with `max_size - Used(cbuf)` units, `elementos` with
`Used(cbuf)`, `mtx` with one. The rest is arithmetic: a writer that owns `mtx`
holds a slot, so there is room; when all are blocked nobody holds a unit, so a
writer that waits (count 0) proves the ring full. `Owners` says of each block that
it is in one slot between the indices or in one call's hands. With it, what the
ring holds between its indices, read modulo the wrap (`CounterWraps`), is the queue
of `BoundedChannel`: only the steps that move an index, or begin or end a call,
are steps of the channel.

**MultipcAdmin.** The list has no lock, so the argument is ownership, and it is
split by what overlaps may break. The part that holds whatever becomes of the links
is about memory: while an entry is created it is its creator's (`Creators`), then it
is one of `entries`, and only the one deleter takes it out (`Deletions`); what is in
the directory is in `entries` or about to be linked (`DirectoryKept`), and
conversely but for the entry being removed (`ListKept`). `NoUseAfterFree` and the
count rest on this part only, since neither is read off the list. The deleter's own
search is covered because it begins before any overlap; the step that frees then
works on the entry it found. `LinksInv` is the other part: as long as nothing has
overlapped, the links forward are those of `entries` at every moment, and so are the
links back, but for those that the one change in progress is about. `CommonLemmas`
proves what goes through such links (`Walk`, `Nodes`) to be that sequence, and what
the steps of an insertion at the head and of a removal do to it; `ModListProofs`
uses the same lemmas. `NumberInv` is separate: each place in the code owes or does
not owe a count (`Owing`), and `num_of_process` is the entries, plus one, plus the
debts, plus `drift`, modulo `UintMod`.

**FifoProc.** `mtx` is a ledger whose number of units is 0 or 1, because a faulty
read loses the unit for good. `CountsExact` is nearly inductive as it stands;
`ConsumersCounted` must be added to it, for `FreshStart`: no path takes a consumer
off the count too often, so a count of zero really is nobody.

`ProducerWoken` speaks of moments when everyone sleeps. The invariant behind it is an
account of wake-ups that holds at all times. `Pending` counts the units of
`sem_prod` that are free or already given to a producer. A producer that sleeps will
take one (`Takes`), and on some paths it will also lower `nr_prod_waiting`
(`Decrements`), whether or not a consumer lowered it before. `WakesOwed` says that
`nr_prod_waiting` and `Pending` together cover this: as long as nothing is pending for
a sleeping producer, the counter is above zero, and a consumer that makes room or
leaves will signal. `Reasons` says that meanwhile what the producer waits for has not
come. A consumer moves a unit from one side of the account to the other, or adds one
that nobody asked for (62); it never takes one out. With two producers the surplus of
one can be spent by the other, and the sum no longer says whose unit it is.

`NeverUnstuck` needs, beside `Inv`, that with one process of each role and no signals
no path ever miscounts (`Undisturbed`), so that both counts are positive while the two
are inside their calls (`BothCounted`): each then finds on waking what it found before.

**CodeTimer.** `Told` replaces `ReaderWoken`, which is not inductive because it
looks only at moments when everyone sleeps: whenever the work item is idle and
codes are listed, `sem_coderead` has a unit or some reader has passed the point
where a signal can turn it away. `Releasing` follows a release that the timer does
not overtake from statement to statement, `flush_workqueue` counting down the
executions it found. `ImplementsStream` maps the queue of `LossyStream` to
`list \o hand \o ring`.

**CodeTimerOpt.** The semaphores no longer count anything exactly, since `sem_num` is
given back by those who do not have it; what is left is that only those who asked
wait in a queue (`NumQueue`, `ReaderQueue`, `CodeQueue`), so that a unit is never
handed to a process that cannot take it. `ToldOrRobbed` is `Told` per list, with
`robbed` as the way out: each action that takes a unit of `sem_coderead` in vain adds
the list that the unit may have stood for. For `NumLostForGood` the steps of a process
without `sem_num` are shown to be `Quiet`: they leave `num_readers`, `even_odd` and
the buffer alone and neither make nor lose a unit; of the others, only the failed
allocation (239) and the death in `add_timer` end without an `up`. The two streams
are the subsequences of `hand` and `ring` with the codes of one parity. `Among`, in
`Selection`, is that subsequence, and a recursive function rather than `SelectSeq`, of
which the provers know nothing. That its recursion has a solution, and what it gives
for a sequence with one element more at either end, is proved in `CommonLemmas` by
the least position at which it would fail. Then a tick is a `Put` in one stream and
nothing in the other, the work item moves a code from part to part of its queue, and
a reader's drain is a `Take` of a first part.

**ModList.** A list that is linked is not a value of any variable, so the invariant
says that there is one: a sequence s of nodes without repetitions such that `next`
goes through it from the head (`Forward`), and that the allocated nodes are those of
s and the ones in a process's hands (`Heap`). `Task` says how far the single writer
can be: which link back is missing, and, for a traversal that deletes, that s holds
the items it has kept and then those it has not reached (`Sifted`, an increasing
choice of positions). `rwl` gives that nobody else is inside meanwhile, so that a
reader's position is a position of s and its output a beginning of the list. At
`Unlock` the numbers of s are the old list with one more at the end, without all the
items equal to the command's number, or empty: a step of `AtomicList`, whose
`Remove` is stated by such a choice of positions. What a recursive function finds
along `next` (`Nth`) is compared with s by the least position where they differ
(`LeastNatural`), as induction over the position is out of reach.

**ModSeq.** `WholePasses` is inductive once it is known that an undisturbed reader
stands where its records end (`Whole`): then `start` finds the end exactly when the
length of what it was given is `contador`, and a read with room for the list adds one
whole turn to it (`OneMoreTurn`). A command that leaves the list as it was leaves
`contador` too, so that it disturbs nobody.

**BlinkDrv.** `Pointers` relates where the driver and each process stand to what
they point to: a process is inside `open` only while the minor is registered, so
never when the structure is about to be dropped, and what it has found is then the
driver's structure. `Shown` says what the first messages of a write have left on
the LEDs if nobody disturbed it.

**UserThreads.** The two ledgers of an entry hold until it is freed (`Books`),
whatever thread is killed, because a thread interrupted inside a call either
leaves the queue or gives back the unit it had, before it dies.
`Places` says that a thread inside a call is in an entry that is live or being
removed.

**What stays with TLC.** Liveness under fairness (`CallsFinish`, `CallsReturn`,
`CodesServed`, `FreedInTheEnd`, `DeletionEnds`), which like `ENABLED`
is out of the prover's reach. Two parts of `TypeOK` in `CodeTimerOpt`: that the ring
holds no more bytes than it has, since `Bytes` is a recursive function over all
sequences and what it computes is an induction over data; and that the queue of
`sem_list` has no repetitions, on which no theorem rests. The two statements refuted
by a run are of course not theorems.

## 5. Not modelled

- ledctl: one call that exchanges two bits of its argument and passes the result
  on; a function of eight values.
- `blink_user.c`, `ledctl_invoke.c` and `parche.diff`: straight-line programs.
- The list of numbers without a lock and the list of strings of `Práctica1`: the
  list of `ModList` without its lock, which concurrent commands corrupt.
- Unloading of fifoproc, codetimer, modlist and blinkdrv; the runs start with the
  module loaded.
- fifoproc opened for reading and writing at once.
- codetimer opened again while it is open (the ring is allocated again), or
  reopened before the first tick of its hidden timer (the timer is linked twice):
  what the kernel then does is undefined. The same holds for `add_timer` on a
  hidden timer in the optional part.
- Deletions that begin after two administrators have changed the list of entries at
  the same instant, and two deletions of one entry: freed memory is then read.
- The memory behind the local buffers: a read of fifoproc, or of a codetimer, that
  puts more than 256 bytes into one; and the memory of a text written to blinkdrv.
- What an entry does with memory that is not set up yet (`raw`): undefined.
- Formats, messages and layout of the text that goes to the user, and the lengths
  and offsets that the handlers check before they touch shared state.

## 6. What could be added

The modelling is complete but for the list in section 5, and the safety properties
are proved. What would extend the project is the bytes of the ring of `CodeTimerOpt`,
by a variable like `used` in `CodeTimer`, which would make its `TypeOK` a theorem too.
