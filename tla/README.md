# dcplaya, formally

dcplaya is a music player for the Dreamcast: C code over the KallistiOS (KOS)
threads, with plugins loaded at run time and a Lua shell.  This directory holds
TLA+ models of its core, the TLC configurations that check them and proofs
checked by TLAPS.  All paths below are relative to the repository.

## 1. Inventory

| Component | State | Operations | Hard part |
|---|---|---|---|
| PCM fifo, `src/fifo.c` | ring, `fifo_r`, `fifo_w`, `fifo_k` | write (decoder thread), read (sndstream thread), readbak (main thread), start (shell thread) | the reader takes no lock; the others copy outside of it |
| Player, `src/playa.c` | `playastatus`, `driver`, the halt semaphore, pause and fade, `play_samples_start`, the two rates | playa_start, stop, pause, fade, shutdown; the decoder's status machine; the callback | handshakes through one plain variable between three threads |
| Sound stream, `src/sndstream.c`, `arm/main.c` | double buffer, position and one command slot shared with the ARM | start, stop, poll, volume, rate | position read before the refill; commands read while they are written |
| Driver lists, `src/driver_list.c` | lists under a lock, a count and a mutex per driver | register, unregister, search, reference, dereference | init on the first and shutdown on the last reference, failures in between |
| Plugins, `src/plugin.c`, `src/lef.c` | loaded programs and their counts | load, replace, free | a driver that is replaced while it is used |
| Music information, `src/playa_info.c` | one current record of owned strings | update, clean, lock, release | ownership of strings |
| Allocators, `src/allocator.c`, `src/exheap.c` | free and used blocks | alloc, free, grow | split, coalesce, failure half way |
| DMA queue, `src/dma.c` | pool of 8 chains, two queues, a semaphore per chain | initiate, wait, interrupts | interrupts against threads, exhaustion, last-in-first-out order |
| Page flipping, `libs/ta/ta.c`, `libs/draw/ta.c` | four page numbers, the flags of lists and render, one waiting thread | begin and finish a frame, interrupt handler | three interrupts move the pages; a signal that may be missed |
| Textures, `libs/draw/texture.c` | textures and the video memory's heap | create, destroy, lock, reference | heap records live in the free video memory itself |
| Containers, `src/iarray.c`, `src/display_list.c` | elements with owners, sublist references | set, insert, remove; create, destroy, set active | double frees, locks on error paths |
| Entry lists, `plugins/exe/entrylist` | lists, counted paths, one loader thread with one request | load, lock, clear, destroy; the thread's status machine | request handed over in steps, failures half way, counts over two threads |
| RAM disk, VMU files, `src/fs_ramdisk.c`, `src/vmu_file.c` | nodes and handles; one worker thread | open, close, unlink; load, save | unlink of open files; status of old handles |
| Shell, `src/shell.c`, `dynshell` | ring of commands, the loaded shell | command, load, reload | ring at its limit; reload while it runs |
| Keyboard, `src/keyboard.c` | 16 keys queued | enqueue, get | no overflow check |
| Network, `plugins/exe/net` | receive ring, link state, semaphores | transmit, receive, interrupt | lost signals |
| Main loop, `src/dreamcast68.c` | current and next visual | switch the visual | reference passed between threads |

How they interact: the shell thread runs Lua commands and so every control call
of the player; the player's decoder thread calls an input plugin, which writes
to the fifo; the sndstream thread polls the hardware position and fetches
samples by `sndstream_callback`, which reads the fifo; the main thread draws and
takes played samples back for the spectrum; plugins come and go by the driver
lists, which the shell thread uses.

`PROJECT.json` lists every component, modelled or not, with the reason, and the
hazards: what is hard to test, each at the line where it bites.

## 2. Plan

Done: the fifo, the player, driver lists with plugin loader and visuals, the sound
stream with the ARM's program, page flipping composed with the DMA queue, the entry
lists with their loader thread, the heap of the video memory, and proofs of all of them
(sections 3 to 10): every invariant, action property and refinement that a passing run
checks is a theorem too.

Next: `DisplayList`, `RamDisk` and `Shell` as models.

## 3. The fifo: `PcmQueue`, `Fifo`, `FifoMC`, `FifoProofs`

`Fifo` has the variables of `fifo.c` (`buffer`, `r`, `w`, `k`) and one record
per thread that can be inside a call: `writer` (fifo_write_any), `reader`
(fifo_read), `bak` (fifo_readbak).  A call is split wherever another thread can
come in between: the snapshot under the spinlock, the copy outside of it, the
advance; the unlocked `fifo_read` is split into snapshot, copy, advance, measure
and trim, and its `fifo_k` may be loaded once or twice (`TrimBase`).  `coming`
and `heard` are history: the number of the decoder's next sample and what the
last read delivered.

*Scheduling.*  `sndstream_thread` raises its own priority (`playa.c:250`), and KOS
always runs the best runnable thread.  With `ReaderFirst = TRUE` no other thread
steps between the first and the last step of a `fifo_read`.  Both the trim and
the proof need it: with `FALSE`, a stale `fifo_k` breaks the order of the indices.

*Assumptions.*  The size is a power of two (`PowerOfTwo`; the masks need it).
The sound analysis asks for no more samples than are kept
(`AnalysisAssumption`): `PCM_SIZE` is 2133 in `fft.c:23` (`FFT_LOG_2` is 9) and
`fifo_m` is 16384.  Without it, a `fifo_readbak` and the trim of a `fifo_read`
add up and `fifo_k` passes `fifo_r`.

`PcmQueue` is what a user of the fifo is promised: a queue of samples.  `Fifo`
implements it under the mapping "queue = the samples from r up to w".  It promises
nothing of `fifo_readbak`, which copies what was played without a lock: a main thread
kept from running for long enough hands samples of two places to the sound analysis.

Runs:

- `fifo` (pass): ring of 8, writes of up to 2, reads and readbaks of up to 2,
  samples numbered modulo 10 so that no two samples in the ring are alike.
  `IndexOrder`: bak, used and pending samples plus the empty slot fit in the
  ring.  `InOrder`: the refinement.  `RoomReturns`: the decoder finds room again
  and again, because played samples are trimmed.  The ring wraps in every way a
  bigger one does; bigger chunks only make the calls overlap less.
- `fifo_flush` (violation of `IndexOrder`): the same with `FlushOverlaps = TRUE`.
  Nothing stops `fifo_start` on the shell thread while the main thread is inside
  `fifo_readbak`; the passing run therefore assumes a flush that does not overlap.

Fairness: the stream thread polls for ever (weak); the decoder and a begun
`fifo_readbak` may be kept from the spinlock for a while but not for ever (strong).

## 4. The player: `Playa`, `PlayaMC`, `PlayaProofs`

One action per step of the decoder thread (`real_playa_update` split at every
read and store of `playastatus` and around the driver's calls), per step of the
shell thread inside playa_start, playa_stop and playa_shutdown, and one for the
callback, which nobody preempts.  `dec.pc` and `ctl.pc` say where the two
threads are; `"decode"`, `"stop"` and `"begin"` mean inside plugin code.
A sample is represented by the rate it was decoded for.  The decoder may
write, end, fail or report a new rate at any time.  Fades are abstracted to
"audible or not" and their direction.  The status values STARTING and REINIT
are never assigned by the code and left out, and so are `play_samples` and the
boost of the decoder's priority.  `Down` ends `playa_shutdown` without its loop over the
registered drivers (`playa.c:520-529`), which calls their shutdown() past all counts when
both other threads have ended.

Properties of run `playa` (pass; one driver or none, two rates, fifo of 3,
callbacks of 2, at most 2 pending signals when a start is called):

- `Alone`: start() of a driver and the flush of the fifo never overlap decode()
  or stop().  This is also what `Fifo` assumes of its writer at a flush.
- `RefsBalance`, `AliveDriver`: every reference has an owner; the driver the
  decoder is inside of is referenced, even after the shell unregistered it.
- `NoLostWakeup`: PLAYING and asleep means a signal is there or coming.
- `NeverEarly`: the callback changes the rate only when no older sample is left.
- `CallReturns`: each control call returns, unless STOPPING was stored over the
  READY of a sleeping decoder.

Two samples of different rates and one more are what a mark in the middle of the
fifo needs; a callback of 2 can end before, on and after the mark.

Fairness: each of the three threads goes on (weak fairness each): KOS runs
threads of the same priority in turn, and the stream thread sleeps between polls.
Calls themselves are not fair: nobody has to call anything.

Violations, each a disagreement with what the code or its notes say:

- `playa_hang` (`AlwaysReturns`): the race excepted above.  `playa_stop` then
  never returns; `src/BUGS:46` records such a dead lock with three question marks and a
  guess at another cause ("when replay frequency becomes to low", line 51).
- `playa_tune` (`InTune`): a callback that ends exactly on the mark (or a fifo
  that drains between the test of the mark and the store of `next_frq`) clears
  the mark without a rate change.

## 5. Drivers and visuals: `DriverList`, `DriverListMC`, `DriverListProofs`

Two threads.  The shell thread loads plugins (`Load` to `Loaded`: look for a driver
of the name, unregister it, drop the reference of the search, register the new one,
drop the loader's reference), hands drivers to Lua (`GetHandle`, `DropHandle`) and
asks for a visual (`SetVisual`, `Choose`, then `Ask` and `Answer` to print the name
of the current one).  The main thread starts a frame (`Frame`), switches if it is
asked to (`Switch`, `Started`, `StartFails`, `Stopped`, `Switched`) and shows the
visual (`Look`, `Shown` or `Crashed`, `Drop`).  `Register` refuses a name that is listed
already, as `driver_list.c:267-272` does; the loader has just unlisted it, so the
refusal is met by the mutant of `UniqueNames` alone, whose search misses a driver.  `count` and `lef` are the counts of
`driver_list.c` and `lef.c`, `inited` and `started` say which drivers are between
init() and shutdown(), and between start() and stop(); both are ghosts of plugin code.

Abstractions: a program holds one driver (no plugin of the repository chains a second
one); a new copy of a plugin is another driver of the same name; what a thread does
under a mutex without calling plugin code is one step where nobody can see the middle.
`vis_mutex` and `visual_mutex` are read off the threads' pcs.  A visual that is
freed can be loaded again (`Load` of a driver whose program is not in memory).
Not modelled: `driver_lock`, the lists built at start (`driver_lists_add`) and taken
down at exit, the filetypes of input drivers, the mutex that stays locked in a
driver about to be freed.

Properties of run `driver_list` (pass; two versions of a visual and another one):

- `RefsBalance`: every count is the number of owners; the reference of `nextvis`
  moves to the visual, to a newer choice or is dropped, wherever starting stops.
- `Alive`: what the list, Lua, the main thread or the shell points to is initialised
  and in memory, although any plugin can be replaced at any time.
- `UniqueNames`, `OneStarted`: no two drivers of a name are listed; start() and
  stop() alternate, also when start() fails or a visual crashes.
- `ChoiceMade`: a choice does not stay pending.  Fairness: both threads go on (weak);
  the main thread, which spins on `vis_mutex` against a shell that may take it again
  and again, gets it in the end (strong, for `Frame`): these threads have the same KOS
  priority and are run in turn, the main thread for longer slices than the shell
  (`include/priorities.h:20`).

Two versions and one other visual are what replacing the visual shown, choosing the
replaced one and switching between two need; more drivers repeat these.

Violation: `driver_list_none` (`Alive`).  With `NoneOverPending = TRUE` the shell may
choose "none" while another choice is pending.  `dcplaya_set_visual` then drops the
reference of `nextvis` and leaves the pointer: the next frame starts a visual nobody
counts.  The passing run and the theorems exclude exactly this call.

## 6. The sound stream: `SndStream`, `SndStreamMC`, `SndStreamProofs`

Two processors share sound memory.  On the ARM, `arm_main` looks for the flag
(`Check`), clears it (`Clear`), reads the command (`Fetch`) and its value once per
channel (`Tune`, `StartChip`) and stores the position (`Store`).  On the SH-4, the
stream thread starts the stream (`Start`), reads the position (`Poll`), and fetches a
block and refills the half that was left (`Refill` to `Refilled`, under the mutex); a
thread of the player posts a command in three stores under the same mutex (`Post`,
`Value`, `Kick`).  The chip goes on to the other half by itself (`Turn`).  A position
is a half, a block of samples a number, a rate or volume a value.

*Time.*  `Tick` counts the time since the position was stored (`armAge`) and since it
was polled (`pollAge`) and does not happen when one of the two programs is at its
limit: the ARM stores the position every `ArmTicks`, polls are at most `PollTicks` apart
and a refill is over `RefillTicks` after its poll.  `chip.phase` is how long the half has
been played; a half lasts `HalfTicks` or, at lower rates, longer.  The assumption
`InTime` is that the three periods add up to less than a half.  In the program: a half
is 1200 samples (`playa.c:254`), 25 ms at 48 kHz; the ARM waits 11 of its 4410 Hz ticks
(`arm/main.c:165`), 2.5 ms; the stream thread sleeps 4.2 ms (`playa.c:266`) and copies
4800 bytes by DMA.  What is left, more than 15 ms, is for getting the mutex and the
processor.  The run uses the tightest values, 1 + 1 + 1 < 4; with `HalfTicks = 3`
`InSequence` fails, so that the assumption is not stronger than needed.

Properties of run `sndstream` (pass; two rates, one volume, blocks numbered modulo 4, so
that the four blocks around a turn are told apart; a second volume repeats the rates):

- `Untouched`: a refill is never in the half that is heard, although it goes by a position
  that was stored, and polled, some time ago.
- `InSequence`: when the chip goes on, the other half holds the block that follows, whole.
- `LastServed`: when the mailbox is at rest the chip does what the last command asked, on
  both channels, although the ARM clears the flag first and then reads a command that is
  being written.  A rate may be served as a volume that is about to be stored; the kick
  after the store repairs it.  A command replaced before the ARM saw it is lost if
  the next one is of another kind: nothing in the code says otherwise.
- `CommandArrives`: the last command is served.  Fairness: time, the chip and the ARM go
  on (weak: nothing keeps them), and so does a thread inside a post.
- `Streams`: the callback is asked for blocks for ever.  Fairness: the sleep of the stream
  thread ends again and again (strong, for `Poll`: the posts in between are short), and a
  refill that may begin or end does (weak: nothing of the same priority is there).  Nobody
  has to post.

*The mutex.*  It is a spinlock, waited for by `thd_pass` (`sndstream.c:60, 329`), and the
stream thread raises its own priority (`playa.c:250`), so that KOS runs it whenever it can
run.  The model says so: another thread posts, and takes the steps of its post, only
while the stream thread sleeps (`Running`), and the callback itself may set a rate before its
block is loaded (`Post` with `own`, at most once for a block, `playa.c:225`).  Then all
depends on whether the stream thread's sleep may end while another thread holds the mutex,
which is `PostPreempted`.  The run assumes that it does not (`FALSE`), and `Streams` holds
under this assumption only: with `PostPreempted = TRUE` in the same configuration TLC
refutes it (`CommandArrives`, which is about posting that has ended, holds for both).  The stream thread spins with the better priority, the holder never runs again to
release the mutex, no block is loaded and the chip repeats the two it has.  Nothing in the
code excludes this (a hazard); it is rare because the mutex is held for three stores to
sound memory.  The safety properties do not depend on it: the theorems of
`SndStreamProofs` hold for both values.

Not modelled: `stream_stop` (only after the stream thread's loop, which nothing ends:
`main_thread` leaves by panic, `dreamcast68.c:891`), `stream_stereo` (no callers).

## 7. DMA and page flipping: `Dma`, `DmaProofs`, `Display`, `DisplayMC`, `DisplayProofs`

`Dma` is `src/dma.c` alone: the pool (`free`), the two queues, the transfers under way
(`spu`, `vram`), each chain's semaphore and, per client, the chains it holds.  A client
allocates a chain (`Alloc`), queues it (`Initiate`), and does so for all of its batch
before it waits (`Wait`) and frees each (`Free`): `stream_poll` does two
(`sndstream.c:332`), the video player one (`ffmpeg_driver.c:2120`).  The network's
(`bba_dma.c:259`) are compiled out.  Interrupts are
`SpuDone`, `VramDone` and `RenderDone`, the call-back of the display; what runs with
interrupts off is one step.

`Display` composes it with the page flipping of `libs/ta/ta.c`.  `main` goes through
ta_begin_render (`Begin`, then `Woken` or `TimedOut`), the end of the lists
(`CloseLists`) and ta_finish_frame (`Finish`).  `chip` is the video chip: which buffer
takes lists in, which is rendered and which is shown, and what frame each holds.
`int_handler` is `ListDone`, `RenderDoneInt` and `ScanInt`, the two last ones through
`Handle`, which is the rest of the handler in its order: call-back, end of a render, flip,
new render.  Frames are numbered, which the code does not do.

Assumptions.  The first render, of empty lists, is over before the first frame's
lists are closed (`CloseLists`).  The 500 ms of `sem_wait_timed` do not pass before the
requested render has started (`TimedOut`): without this a frame is lost, as the mutant of
`Shown` shows.

Properties of run `display` (pass; the program's two clients, sound with two transfers at a
time and video with one; three chains, so that the pool runs empty; frames modulo 3, so that
a frame is told from those before and after it):

- `Accounted`, `PoolSuffices`: a chain is in the pool or held once, is in one queue at
  most, carries no old signal, and a wait that returns has its own transfer done; with
  as many chains as transfers under way (3 of 3 here, 3 of 8 in the program) the
  pool is never empty when one is needed, which would panic.
- `Apart`, `InOrder`: buffers are never rendered and shown, or rendered and written, at
  once; frames are rendered in the order of drawing, none twice or over another.
- `NoStart`: no render starts while a transfer to video memory runs.
- `Shown`: every frame drawn is shown.  As frames are numbered modulo 3, that its number
  is reached some time would not do: a later frame could stand in for one that is lost.
  `Shown` therefore has three parts.  When the last list of a frame ends, the screen is
  two frames behind it, or blank (`Behind`); what is on the screen (`Seen`) changes from
  each frame to the one drawn after it, none left out and none coming back
  (`NoneSkipped`); and the number is reached.  So the frame reached is the second one to
  come onto the screen, and that is the one drawn.
- `WaitReturns`: every wait returns.

Fairness: weak for the main thread, each client, each kind of interrupt: the hardware ends
what it begins, the screen is scanned at 50 or 60 Hz and KOS runs threads in turn.

With two clients a queue of the run holds one chain at most, besides the transfer in progress:
that queues are last in, first out is exercised by the proofs (section 10), not by the run.

A wait for nothing: the main thread waits "until render on next_page has started" (`ta.c:705`).
A render that starts between the request of `ta_finish_frame` and the assignment of
`waiting_thd` in `ta_begin_render` signals nobody (`ta.c:1052`), and the main thread sleeps its 500 ms for nothing.  `NoMissedStart` says that this never happens; TLC refutes
it in ten states when it is added to the invariants of `Display.cfg`.  `Shown` and the other
properties hold all the same: the run and the theorems have this behaviour too.

## 8. Entry lists: `EntryList`, `EntryListMC`, `EntryListProofs`

A script thread and the loader thread.  `script` is where the script is in
`el_loader_loaddir` (`Load`, `LoadTimeout`, `Ask`, `LoadReturns`) or in the driver's shutdown
(`Shutdown`, `Restart`); otherwise it creates, destroys, locks, clears and reads lists.
`loader` is the status with the cookie, `thd` where the loader thread is: it takes a
request (`Start`, which may be `Refused`), finds no directory (`NotDir`) or empties the list
(`Empty`), inserts `..` and `.` (`Dots`) and the names (`Refer`, `Insert`, `LastRead`), marks
the list (`Finish`) and gives the old path back (`Release`).  `nodes` are the records of
`el_path_t` with their counts, `pathes` the head of the table.  What is done under a list's
lock is one step, taken when the script does not hold the lock.

A path may be a directory now and none later; an insertion fails when memory runs out;
the table has at most `MaxNodes` records, then `malloc` fails: no record is ever freed in
the code (`elpath_del` only unlinks it).  `MaxSem` bounds the signals that nobody waited for.

Assumptions: one thread runs scripts (the shell's); a script keeps a list while it is
loaded (the collector does not look at `loading`), and does not load a list that it holds
locked, which would stop both threads for ever (a hazard); it unlocks a list before it
drops it.

Properties of run `entrylist` (pass; two lists, two paths, one name per directory, one of
`..` and `.`, two records, one spare signal):

- `RefCounts`: a record's count is the number of references of lists, entries, the loader
  and the entry in flight, whatever is refused, fails or is cleared meanwhile.
- `Handshake`: the list that says "loading" is the loader's; requests are complete
  when they are seen; the thread does not sleep over one, nor over QUIT.
- `OnePath`: all entries of a list are of one directory, its own, or the one it had while
  the loader has not emptied it.
- `LoadReturned`, `LoadEnds`: el_loader_loaddir returns and loading ends.  Fairness: the
  loader thread polls the mutex with `thd_pass` (`mutex.h`) and gets it although scripts lock
  lists again and again (strong, for `LoaderStep` and `Unlock`); a script inside
  el_loader_loaddir goes on (weak).

Two lists are needed for a request while another list keeps entries of the same path; two
records for a directory that replaces another and a third that finds no memory.

Not modelled: assignment, swap, sort and removal of entries by scripts, filters and types.
Seen and not covered: `elpath_add` never sets `prev` of the old head, so that `elpath_del`
of a record takes the newer ones off the table too (they are not found again, but counted
and used as before); `Release` may store READY over QUIT, and the shutdown then kills the
thread after its 500 jiffies; `settable` with a table stores an entry whose `path` is never
set (entrylist.c, the LUA_TTABLE case) and which a later removal or clear dereferences, and
`entrylist_remove` is called "fully buggy" by its author (entrylist.c:93).

## 9. Video memory: `ExHeap`, `ExHeapMC`, `ExHeapProofs`

`list` are the heap's blocks in order, each with its texture or NULL, its offset and, for a
free block, the place `at` of its record: `texture.c:77` puts that record into the free memory.
`freelist` are the free blocks' records.  `TakeFree` and `Grow` are the ways through `eh_alloc`,
`DoAlloc` its three cuts, `Merge` the four ways of `eh_free`.  `vid_sbrk` gives all the memory at
the first call.

- Run `exheap` (pass; four textures of sizes 2, 3, 5 and 7 in 16 units, records of 2, small
  below 4, so that rests of every kind remain): `Tiled`: blocks follow each other without gap
  or overlap and every texture has one that is large enough.  `Coalesced`: no two free blocks
  touch, and the free list has all of them in order.  The run ends a behaviour where a record
  is overwritten, hence CHECK_DEADLOCK FALSE.
- Run `exheap_records` (violation of `RecordsKept`): `eh_free` merges a block into the free one
  behind it by lowering its offset and leaves the record where it is, now inside the free block.
  Small textures are cut from the end of free blocks and may cover it.

A call of the heap is one step, although nothing locks it (`texture.c:269`, a hazard).

## 10. Proofs

`FifoProofs` (for every ring size, chunk size and number of samples):

- `TypeCorrect`: `Spec => []TypeOK`.
- `OrderKept`: `Spec => []IndexOrder`, if the reader is not preempted and flushes
  do not overlap.  `IndexOrder` is not inductive: a write in progress relies on
  the room it saw, a readbak on the samples it saw, and a trim on the `fifo_k` it
  measured with.  `PendingOrder` says so, and `OrderInv` is inductive.  The
  modular arithmetic is in lemmas about `Used2` (`AdvanceFrom`, `AdvanceTo`,
  `DistancesAdd`).
- `QueueImplemented`: `Spec => InOrder`, under the same two assumptions.  `QueueInv` adds
  `PendingData` to `OrderInv`: what is copied in and not yet counted is what the decoder
  produced next, and what was copied out is still what the ring holds.  The lemmas `Ahead`
  and `Behind` say that the samples a writer stores are outside of the queue and its
  slots are all different; `ChunkKept` that the queue does not see them.  Then
  `EndWriteQueue`, `AdvanceReadQueue` and `FlushQueue` map the three steps that are a put,
  a take and a reset of the abstract queue, and every other step is a stutter.

`PlayaProofs` (for any set of drivers, any rates, fifo length, block and chunk
size, and no bound on the signals; the only assumption is `PlayaAssumption`, on the
types of the constants):

- `PlayerInvariant`: `Spec => []PlayerInv`, from which follow `TypeCorrect`,
  `ReferencesBalance`, `DriverAlone`, `DriverAlive` and `WakeupKept`.
- None of the properties is inductive alone.  `PlayerInv` adds `Handshake` (from the
  return of playa_stop to the store of PLAYING the status is READY, and a decoder
  thread inside a driver has seen PLAYING or STOPPING), `Caller` (only a playa_start
  holds a driver of its own) and `Rates` (what is played has a rate; until one is set
  the fifo is empty and no mark is pending, hence the callback never sets rate 0).
  `Alone` follows from `Handshake`; `AliveDriver` from `Handshake` and
  `RefsBalance`.  TLC checked `PlayerInv` before it was proved.
- `RateNeverEarly`: `Spec => NeverEarly`, an action property, from `MarkInvariant`.
  `MarkInv` adds `Mark` to `PlayerInv`: while playa_start goes on, the mark it read,
  or stored, is never below what is left in the fifo (`CallbackMark`: the callback takes
  as much off both); afterwards all that lies behind the mark was decoded at `next_frq`,
  or that rate is set already, which is what the decoder does when it reports a new rate
  (`DecodedInfo`).  It says why the store of the rates may come after the test of
  the mark without a lock: in between the decoder is quiet and the fifo only shrinks.
- There is one lemma per part of the invariant, with a case per thread and under it
  per group of actions; `CallbackFrame`, `DecoderFrame`, `ShellFrame` and
  `RefsFrame` say which thread writes what, and the counts are handled by
  `ReferencedCount` and `DereferencedCount`.

`DriverListProofs` (for any drivers, names and naming; each theorem assumes
`~NoneOverPending`, which the finding above shows to be necessary):

- `DriversInvariant`: `Spec => []DriversInv`, from which follow `TypesCorrect`,
  `EveryReferenceOwned`, `NamesUnique`, `StartsPaired` and `PointedAlive`.
- `DriversInv` adds `Fresh` (a driver being loaded has no owner yet, and no namesake
  once the old one is out), `InitedHeld` (initialised exactly while counted, but for a
  failing init()), `ShellFields` and `MainFields` (what the threads hold where).
- The counts are kept by one argument: `BooksTake`, `BooksAdd` and `BooksFrame` say
  that a step keeps them if the sum of the owners (`Due`) changes as the count does;
  `LoadBooks`, `CommandBooks` and `MainBooks` apply them to every action.  `Alive`
  follows from `OwnerCounts` (an owner's driver is counted) and `NewUnowned`.

`SndStreamProofs` (for any rates and volumes, any numbering of at least three blocks, and
any periods with `InTime`):

- `Invariance`: `Spec => []StreamInv`, from which follow `TypeCorrect`, `HeardUntouched`,
  `CommandServed` and, as an action property, `HeardInOrder`.
- `StreamInv` adds to the properties what makes them inductive.  `Schedule` bounds how
  long a half has been played by what the programs know: by `armAge` while the position
  is old, by `ArmTicks + pollAge` while the refill is not begun, by `ArmTicks + PollTicks
  + pollAge` until it is over.  With `InTime` the chip can turn only when the refill is over
  (`TurnInTime`).  `Filled` says which blocks the halves hold; `StartOnce` that START, which
  resets the chip, is served once; `Mailed` and `BeingServed` follow a command from the
  post to the chip.

`DmaProofs` (for any clients, batches and pool; `PoolAssumption`, a pool no smaller than all
batches together, for `DmaPool` only): `DmaInv` adds to `Accounted` which chains a client holds
at each step of its batch (`Holding`), and where a chain that is held is: queued, in transfer, done
(`Progress`, `Waiting`).  `DmaPool` counts: chains held and slots of clients are in bijection, and a
client about to allocate has a slot to spare.

`DisplayProofs` (for any clients, batches, pool and number of frames above two):

- `DisplayImplementsDma`: every step of the display is a step of `DmaNext` or leaves the queue
  alone.  With it `DisplayAccounted` and `DisplayPool` follow from `DmaProofs`.
- `PageInv` is inductive: what the main thread has asked for (`Requests`), the lists that are
  taken in (`Sending`), the page that is rendered (`Rendering`), the images (`Showing`), the numbers of
  the frames (`Ordered`).  `DisplayTyped`, `DisplayApart`, `DisplayInOrder` and `DisplayNoStart` follow;
  the last one from `Blocking`, that a transfer to video memory blocks renders.
- `ScreenInv` adds what is on the screen: `FirstFrame` (until a frame has been rendered frame 0 is
  drawn) and `Screen` (the image rendered last is on the screen or comes next, and is of the
  frame after the one shown).  `DisplayNoneSkipped` and `DisplayBehind` follow: the two parts of
  `Shown` that are safety are proved, the third one is liveness.

`EntryListProofs` (for any finite set of lists, any paths, directories and bounds):

- `EntrySafe`: `Spec => []EntryInv`, which adds what the loader knows of the list it works on
  (`Working`), when it sleeps (`Resting`) and what holds while a script waits (`Asking`).  One
  lemma per action; the table's operations have lemmas of their own (`AddTable`, `DelTable`,
  `CountTable`), as do changes of one list (`ListsUpdated`).  `EntryTyped`, `EntryHandshake` and
  `EntryOnePath` follow.
- `EntryRefCounts`: `Spec => []RefCounts`.  `RefInv` adds to `EntryInv` that the loader has a
  path to give back only while it loads or is about to say that it is done (`Saving`).  The
  number of references (`Held`) is the size of a set of pairs, holder and place, so that no fold
  stands in the way.  A step changes what one list refers to and what the loader does: `Rows`
  takes the set apart into that list, the loader and the rest, `TimesMore`, `TimesOne` and the other
  lemmas on `Times` count in a sequence, and `Exchange` is the arithmetic of what leaves one
  and joins the other.  `Del` is `DelCounts`; each action has a lemma on its counts.

`ExHeapProofs` (for any textures, even infinitely many, any sizes, memory, size of a record and
threshold of small blocks; as in the runs, a behaviour goes no further once a record is
overwritten, `Next`):

- `HeapSafe`: `Spec => []HeapInv`, from which follow `HeapTyped`, `HeapTiled` and `HeapCoalesced`.
- `Tiled` and `Coalesced` say where blocks are in two lists that every call cuts and joins.
  `HeapInv` says instead that the lists enumerate a set of blocks and the set of the free
  ones' records, each in order (`Enumerates`), and the rest is about the set: no two blocks
  start at the same byte and one starts at 0 (`Distinct`, `Covers`), no free block follows a
  free block (`Spaced`), each texture's block has the bytes it asked for (`Owned`).
- What makes it inductive is where records may be: `Marked` says that the record of a free
  block is not before the block and is before the next free one, which keeps the order of the
  free list that of the memory although a merge leaves the record behind; `Inside`, that it
  is within its own block as long as nothing is overwritten, so that a block is never cut
  before its own record.
- Lemmas on sets (`Fill`, `Cut`, `Split`, `Released` and others) prove that the three cuts of
  an allocation and the four merges keep these; `Inserted`, `Removed`, `Replaced` and
  `Enumeration` that the lists still enumerate the sets; `TakeFreeStep`, `GrowStep`, `MergeStep` and
  `DestroyStep` put the two together.

Only model-checked: liveness (`RoomReturns`, `CallReturns`, `ChoiceMade`, `CommandArrives`,
`Streams`, the last part of `Shown`, `WaitReturns`, `LoadReturned`, `LoadEnds`), which is out of the prover's reach,
as is ENABLED.  The inductive invariants were checked by TLC, on the runs' instances, before they
were proved.

## 11. Not modelled

See "components" in `PROJECT.json`.  Most of the repository's lines are vendored: ffmpeg, Lua,
zlib, libjpeg, the decoders of the input plugins; they have no part in the protocols of the player.
Left out on purpose inside what is modelled: `fifo_resize`, `fifo_read_lock`, `fifo_write_lock`,
`dma_free` (nothing calls them), the conversion of mono samples, the arithmetic of fades (which
overflows 32 bits for fades of more than 48 s at 44100 Hz, `playa.c:94`).

Of dcplaya's own code the following keeps state and is not modelled:

- `shell.c`, `keyboard.c`: rings of fixed size between two threads without a check for
  overflow; a model with a bound would only restate that.
- `playa_info.c`: strings of the current record; `allocator.c`, `iarray.c`: sequential under one lock;
  the double free of `iarray_remove` is in the hazards.
- `display_list.c`, `fs_ramdisk.c`, `vmu_file.c`: candidates for models (section 2).
- `plugins/exe/net`: receive ring and transmit semaphore of the network adapter; it needs the
  chip's and lwIP's side, which are not in the repository.

## 12. Running

    tlc -config Fifo.cfg FifoMC.tla        # and so on, see "runs" in PROJECT.json
    tlapm FifoProofs.tla
    tlapm PlayaProofs.tla
    tlapm DriverListProofs.tla
    tlapm SndStreamProofs.tla
    tlapm DmaProofs.tla
    tlapm DisplayProofs.tla
    tlapm EntryListProofs.tla
    tlapm ExHeapProofs.tla
