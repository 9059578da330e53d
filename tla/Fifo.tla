-------------------------------- MODULE Fifo --------------------------------
(***************************************************************************)
(* The PCM fifo (src/fifo.c): a ring of samples with three indices,         *)
(*                                                                          *)
(*      k ..... r ........... w ......... k      (modulo the size)          *)
(*       played   to be played    free                                      *)
(*                                                                          *)
(* The decoder thread writes at w, the sndstream callback reads at r and    *)
(* the main thread takes played samples back at k for the sound analysis.   *)
(* fifo_write_any and fifo_readbak work on indices snapshotted under the    *)
(* spinlock and copy outside of it; fifo_read takes no lock at all (the     *)
(* locks are commented out).  Each call is split where another thread can   *)
(* come in between.                                                         *)
(***************************************************************************)
EXTENDS Integers, Sequences

CONSTANTS
  Size,           \* samples in the ring, a power of two
  BakMax,         \* FIFO_BAK_MAX
  MaxWrite,       \* most samples of one fifo_write
  MaxRead,        \* most samples of one fifo_read
  MaxBak,         \* most samples of one fifo_readbak
  Samples,        \* the decoder's samples are numbered modulo this
  ReaderFirst,    \* is the sndstream thread never preempted by the others?
  FlushOverlaps   \* may fifo_start run inside a fifo_read or fifo_readbak?

ASSUME SizeAssumption ==
  /\ Size \in Nat /\ Size > 1
  /\ BakMax \in Nat \ {0}
  /\ MaxWrite \in Nat /\ MaxRead \in Nat /\ MaxBak \in Nat
  /\ Samples \in Nat \ {0}
  /\ ReaderFirst \in BOOLEAN /\ FlushOverlaps \in BOOLEAN

\* "x & (Size - 1)" is "x % Size" for a power of two only.
ASSUME PowerOfTwo == \E e \in 1..Size : Size = 2^e

VARIABLES
  buffer,   \* fifo_buffer
  r,        \* fifo_r, read index
  w,        \* fifo_w, write index
  k,        \* fifo_k, bak index
  coming,   \* number of the next sample the decoder produces
  heard,    \* what the last fifo_read delivered into out_buffer
  writer,   \* the decoder thread inside fifo_write_any
  reader,   \* the sndstream thread inside fifo_read
  bak       \* the main thread inside fifo_readbak

vars == <<buffer, r, w, k, coming, heard, writer, reader, bak>>

Slots == 0 .. Size - 1

\* Any value the buffer holds before it is first written (malloc'ed memory).
NoSample == Samples

-----------------------------------------------------------------------------
\* The index arithmetic.

Mask(x) == x % Size

\* fifo_s
Last == Size - 1

\* FIFO_USED2: samples from index `from` up to index `to`.
Used2(from, to) == Mask(to - from)

\* FIFO_FREE2: what may be written at `to` before it catches `from` up; one
\* slot stays empty.
Free2_NoEmptySlot(from, to) == Mask(from - to + Last) + 1
Free2(from, to) == Mask(from - to + Last)

\* fifo_m: how many played samples are kept for the analysis.
Kept_WholeRing == IF Size > BakMax THEN BakMax ELSE Size
Kept == LET half == Size \div 2 IN IF half > BakMax THEN BakMax ELSE half

\* The sound analysis never asks for more than is kept: at most PCM_SIZE
\* samples (fft.c:23), a quarter of FIFO_BAK_MAX.
ASSUME AnalysisAssumption == MaxBak <= Kept

Used == Used2(r, w)
Bak  == Used2(k, r)
Free == Free2(k, w)

\* The n samples at index i on, in order: the two memcpy's of fifo_read_any.
Chunk(i, n) == [j \in 1..n |-> buffer[Mask(i + j - 1)]]

AtMost(n, most) == IF n > most THEN most ELSE n

\* The spinlock is held across a scheduling point only while fifo_readbak
\* advances k; every other critical section is one step here.
Unlocked == bak.pc # "advance"

\* sndstream_thread gives itself a better priority than the others have
\* (thd_current->prio--): under a scheduler that always runs the best runnable
\* thread, they stand still from its first step to its last.
OthersRun == ReaderFirst => reader.pc = "idle"

Init ==
  /\ buffer = [i \in Slots |-> NoSample]
  /\ r = 0 /\ w = 0 /\ k = 0
  /\ coming = 0
  /\ heard = <<>>
  /\ writer = [pc |-> "idle", n |-> 0]
  /\ reader = [pc |-> "idle", n |-> 0, data |-> <<>>, excess |-> 0, k |-> 0]
  /\ bak = [pc |-> "idle", n |-> 0, from |-> 0, k |-> 0, data |-> <<>>]

-----------------------------------------------------------------------------
\* fifo_write_any, by the decoder thread.

\* fifo_state() and the clipping of n to the free space.  A full fifo returns
\* 0 at once.
BeginWrite_OverBak(n) ==
  /\ OthersRun
  /\ writer.pc = "idle" /\ Unlocked
  /\ Free2(r, w) # 0
  /\ writer' = [pc |-> "copy", n |-> AtMost(n, Free2(r, w))]
  /\ UNCHANGED <<buffer, r, w, k, coming, heard, reader, bak>>

BeginWrite(n) ==
  /\ OthersRun
  /\ writer.pc = "idle" /\ Unlocked
  /\ Free # 0
  /\ writer' = [pc |-> "copy", n |-> AtMost(n, Free)]
  /\ UNCHANGED <<buffer, r, w, k, coming, heard, reader, bak>>

\* The copies from w on, wrapping once, outside the lock.
CopyIn ==
  /\ OthersRun
  /\ writer.pc = "copy"
  /\ writer' = [writer EXCEPT !.pc = "advance"]
  /\ buffer' = [i \in Slots |->
                  IF Used2(w, i) < writer.n
                    THEN (coming + Used2(w, i)) % Samples ELSE buffer[i]]
  /\ UNCHANGED <<r, w, k, coming, heard, reader, bak>>

EndWrite_NoMask ==
  /\ OthersRun
  /\ writer.pc = "advance" /\ Unlocked
  /\ w' = w + writer.n
  /\ coming' = (coming + writer.n) % Samples
  /\ writer' = [pc |-> "idle", n |-> 0]
  /\ UNCHANGED <<buffer, r, k, heard, reader, bak>>

EndWrite ==
  /\ OthersRun
  /\ writer.pc = "advance" /\ Unlocked
  /\ w' = Mask(w + writer.n)
  /\ coming' = (coming + writer.n) % Samples
  /\ writer' = [pc |-> "idle", n |-> 0]
  /\ UNCHANGED <<buffer, r, k, heard, reader, bak>>

-----------------------------------------------------------------------------
\* fifo_read, by the sndstream callback, without the lock.

\* Snapshot of r and w; an empty fifo returns 0 at once.
BeginRead(n) ==
  /\ reader.pc = "idle"
  /\ Used # 0
  /\ reader' = [reader EXCEPT !.pc = "copy", !.n = AtMost(n, Used)]
  /\ UNCHANGED <<buffer, r, w, k, coming, heard, writer, bak>>

CopyOut ==
  /\ reader.pc = "copy"
  /\ reader' = [reader EXCEPT !.pc = "advance", !.data = Chunk(r, reader.n)]
  /\ UNCHANGED <<buffer, r, w, k, coming, heard, writer, bak>>

\* fifo_r += n: from here on the samples count as played.
AdvanceRead ==
  /\ reader.pc = "advance"
  /\ r' = Mask(r + reader.n)
  /\ heard' = reader.data
  /\ reader' = [reader EXCEPT !.pc = "measure", !.data = <<>>]
  /\ UNCHANGED <<buffer, w, k, coming, writer, bak>>

\* How far the played samples exceed the threshold.
Measure ==
  /\ reader.pc = "measure"
  /\ reader' = IF Bak > Kept
                 THEN [reader EXCEPT !.pc = "trim", !.n = 0,
                                     !.excess = Bak - Kept, !.k = k]
                 ELSE [reader EXCEPT !.pc = "idle", !.n = 0]
  /\ UNCHANGED <<buffer, r, w, k, coming, heard, writer, bak>>

\* fifo_k += excess.  fifo_k is a plain global: the build may load it again or
\* keep the value it measured with.
TrimBase == {k, reader.k}
Trim ==
  /\ reader.pc = "trim"
  /\ \E base \in TrimBase : k' = Mask(base + reader.excess)
  /\ reader' = [reader EXCEPT !.pc = "idle", !.excess = 0, !.k = 0]
  /\ UNCHANGED <<buffer, r, w, coming, heard, writer, bak>>

-----------------------------------------------------------------------------
\* fifo_readbak, by the main thread (fft_queue).

BeginReadbak(n) ==
  /\ OthersRun
  /\ bak.pc = "idle"
  /\ Bak # 0
  /\ bak' = [bak EXCEPT !.pc = "copy", !.n = AtMost(n, Bak), !.from = k]
  /\ UNCHANGED <<buffer, r, w, k, coming, heard, writer, reader>>

CopyBak ==
  /\ OthersRun
  /\ bak.pc = "copy"
  /\ bak' = [bak EXCEPT !.pc = "copied", !.data = Chunk(bak.from, bak.n)]
  /\ UNCHANGED <<buffer, r, w, k, coming, heard, writer, reader>>

\* The lock is taken and fifo_k loaded ...
LockBak ==
  /\ OthersRun
  /\ bak.pc = "copied"
  /\ bak' = [bak EXCEPT !.pc = "advance", !.k = k, !.from = 0, !.data = <<>>]
  /\ UNCHANGED <<buffer, r, w, k, coming, heard, writer, reader>>

\* ... and stored back n further, whatever the unlocked reader made of it.
AdvanceBak ==
  /\ OthersRun
  /\ bak.pc = "advance"
  /\ k' = Mask(bak.k + bak.n)
  /\ bak' = [bak EXCEPT !.pc = "idle", !.n = 0, !.k = 0]
  /\ UNCHANGED <<buffer, r, w, coming, heard, writer, reader>>

-----------------------------------------------------------------------------
\* fifo_start (and fifo_stop, which calls it), by playa_stop.  The decoder
\* thread is parked then (module Playa).  The sndstream and main threads are
\* not told: FlushOverlaps says whether they can be inside a call.  What the
\* decoder writes next is another music, numbered from 0.
Flush ==
  /\ OthersRun
  /\ writer.pc = "idle" /\ Unlocked
  /\ FlushOverlaps \/ (reader.pc = "idle" /\ bak.pc = "idle")
  /\ r' = 0 /\ w' = 0 /\ k' = 0
  /\ coming' = 0
  /\ UNCHANGED <<buffer, heard, writer, reader, bak>>

WriterStep == (\E n \in 1..MaxWrite : BeginWrite(n)) \/ CopyIn \/ EndWrite
ReaderStep == (\E n \in 1..MaxRead : BeginRead(n)) \/ CopyOut \/ AdvanceRead
              \/ Measure \/ Trim
BakStep == (\E n \in 1..MaxBak : BeginReadbak(n)) \/ CopyBak \/ LockBak
           \/ AdvanceBak

Next == ReaderStep \/ WriterStep \/ BakStep \/ Flush

Spec == Init /\ [][Next]_vars

\* The callback is polled for ever and the decoder decodes for ever; the main
\* thread finishes a fifo_readbak it began.  A thread that spins on the lock
\* gets it in the end: it is free but for a few instructions of every frame.
Fairness == /\ WF_vars(ReaderStep)
            /\ SF_vars(WriterStep)
            /\ SF_vars(CopyBak \/ LockBak \/ AdvanceBak)

FairSpec == Spec /\ Fairness

-----------------------------------------------------------------------------
Sample == 0 .. Samples

TypeOK ==
  /\ buffer \in [Slots -> Sample]
  /\ r \in Slots /\ w \in Slots /\ k \in Slots
  /\ coming \in 0 .. Samples - 1
  /\ heard \in Seq(Sample)
  /\ writer \in [pc : {"idle", "copy", "advance"}, n : 0..Last]
  /\ reader \in [pc : {"idle", "copy", "advance", "measure", "trim"}, n : 0..Last,
                 data : Seq(Sample), excess : 0..Last, k : Slots]
  /\ bak \in [pc : {"idle", "copy", "copied", "advance"}, n : 0..Last,
              from : Slots, k : Slots, data : Seq(Sample)]

\* The indices never overtake each other: going round from k one meets r, then
\* w, then what the decoder is writing just now, and at least one slot is left
\* before k again.  Otherwise FIFO_FREE lets the decoder overwrite samples that
\* were not played (fifo.c:23, used without a lock by fifo_read).
IndexOrder == Bak + Used + writer.n <= Last

\* IndexOrder made inductive: what each pending call still relies on.
PendingOrder ==
  /\ writer.pc = "idle" => writer.n = 0
  /\ reader.pc \in {"copy", "advance"} => reader.n <= Used
  /\ reader.pc = "trim" => reader.k = k /\ Bak > Kept /\ reader.excess = Bak - Kept
  /\ bak.pc \in {"copy", "copied"} => bak.n <= Bak /\ bak.n <= Kept
  /\ bak.pc = "advance" => /\ bak.n <= Used2(bak.k, r)
                           /\ Used2(bak.k, r) + Used + writer.n <= Last

OrderInv == TypeOK /\ IndexOrder /\ PendingOrder

\* The samples the sound hardware gets are the decoder's, in order, none lost
\* and none twice, although fifo_read copies and advances without the lock
\* while fifo_write_any copies outside of it.
Queue == INSTANCE PcmQueue WITH Capacity <- Last, queue <- Chunk(r, Used)
InOrder == Queue!Spec

\* What the steps that move samples rely on: what is copied in is what the decoder
\* produced, what was copied out is still what the ring holds.
PendingData ==
  /\ writer.pc # "idle" => writer.n > 0
  /\ writer.pc = "advance" =>
       \A i \in 0..writer.n - 1 : buffer[Mask(w + i)] = (coming + i) % Samples
  /\ reader.pc \in {"copy", "advance"} => reader.n > 0
  /\ reader.pc = "advance" => reader.data = Chunk(r, reader.n)

QueueInv == OrderInv /\ PendingData

\* The decoder always finds room again: the played samples kept for the
\* analysis are trimmed by fifo_read even if nobody takes them.
RoomReturns == []<>(writer.pc = "copy")
=============================================================================
