----------------------------- MODULE FifoProofs -----------------------------
(***************************************************************************)
(* For every ring size, threshold and chunk size: the fifo's variables keep *)
(* their types, and its indices keep their order under the scheduling that  *)
(* sndstream_thread arranges for (ReaderFirst) as long as fifo_start waits   *)
(* for the readers (~FlushOverlaps).                                        *)
(***************************************************************************)
EXTENDS Fifo, TLAPS

-----------------------------------------------------------------------------
(* Arithmetic of the ring.                                                 *)

\* Every masked index is an index.
LEMMA MaskRange ==
  ASSUME NEW x \in Int
  PROVE  Mask(x) \in Slots
BY SizeAssumption DEF Mask, Slots

\* The mask subtracts the size at most once, or adds it at most once, on the
\* sums and differences of two indices.
LEMMA MaskOnce ==
  ASSUME NEW x \in -Size .. 2 * Size - 1
  PROVE  Mask(x) = IF x < 0 THEN x + Size ELSE IF x < Size THEN x ELSE x - Size
BY SizeAssumption, SMTT(60) DEF Mask

\* FIFO_USED2 without the mask.
LEMMA Used2Cases ==
  ASSUME NEW a \in Slots, NEW b \in Slots
  PROVE  /\ Used2(a, b) = IF a <= b THEN b - a ELSE b - a + Size
         /\ Used2(a, b) \in 0 .. Last
<1>1. /\ b - a \in -Size .. 2 * Size - 1
      /\ a \in Int /\ b \in Int /\ Size \in Int
  BY SizeAssumption DEF Slots
<1>2. Mask(b - a) = IF b - a < 0 THEN b - a + Size
                    ELSE IF b - a < Size THEN b - a ELSE b - a - Size
  BY <1>1, MaskOnce
<1> QED
  BY <1>1, <1>2, SizeAssumption DEF Used2, Slots, Last

\* FIFO_FREE2 and FIFO_USED2 share the ring out, one slot excepted.
LEMMA FreeIsTheRest ==
  ASSUME NEW a \in Slots, NEW b \in Slots
  PROVE  Free2(a, b) = Last - Used2(a, b)
<1>1. /\ a - b + Last \in -Size .. 2 * Size - 1
      /\ a \in Int /\ b \in Int /\ Size \in Int
  BY SizeAssumption DEF Slots, Last
<1>2. PICK x \in -Size .. 2 * Size - 1 : x = a - b + Last
  BY <1>1
<1>3. Mask(x) = IF x < 0 THEN x + Size ELSE IF x < Size THEN x ELSE x - Size
  BY MaskOnce
<1> QED
  BY <1>1, <1>2, <1>3, Used2Cases, SizeAssumption DEF Free2, Slots, Last

\* Advancing the nearer index takes from the distance.
LEMMA AdvanceFrom ==
  ASSUME NEW a \in Slots, NEW b \in Slots, NEW n \in Nat, n <= Used2(a, b)
  PROVE  Mask(a + n) \in Slots /\ Used2(Mask(a + n), b) = Used2(a, b) - n
<1>1. Used2(a, b) = (IF a <= b THEN b - a ELSE b - a + Size) /\ n <= Last
  BY Used2Cases, SizeAssumption DEF Last
<1>2. /\ a + n \in -Size .. 2 * Size - 1
      /\ a \in Int /\ b \in Int /\ Size \in Int
  BY <1>1, SizeAssumption DEF Slots, Last
<1>3. Mask(a + n) = IF a + n < Size THEN a + n ELSE a + n - Size
  BY <1>2, MaskOnce, SizeAssumption DEF Slots
<1>4. Mask(a + n) \in Slots
  BY <1>2, MaskRange
<1>5. Used2(Mask(a + n), b)
        = IF Mask(a + n) <= b THEN b - Mask(a + n) ELSE b - Mask(a + n) + Size
  BY <1>4, Used2Cases
<1> QED
  BY <1>1, <1>2, <1>3, <1>4, <1>5, SizeAssumption DEF Slots, Last

\* Advancing the farther index adds to the distance.
LEMMA AdvanceTo ==
  ASSUME NEW a \in Slots, NEW b \in Slots, NEW n \in Nat, Used2(a, b) + n <= Last
  PROVE  Mask(b + n) \in Slots /\ Used2(a, Mask(b + n)) = Used2(a, b) + n
<1>1. /\ Used2(a, b) = (IF a <= b THEN b - a ELSE b - a + Size)
      /\ Used2(a, b) \in 0 .. Last
  BY Used2Cases
<1>2. /\ b + n \in -Size .. 2 * Size - 1
      /\ a \in Int /\ b \in Int /\ Size \in Int
  BY <1>1, SizeAssumption DEF Slots, Last
<1>3. Mask(b + n) = IF b + n < Size THEN b + n ELSE b + n - Size
  BY <1>2, MaskOnce, SizeAssumption DEF Slots
<1>4. Mask(b + n) \in Slots
  BY <1>2, MaskRange
<1>5. Used2(a, Mask(b + n))
        = IF a <= Mask(b + n) THEN Mask(b + n) - a ELSE Mask(b + n) - a + Size
  BY <1>4, Used2Cases
<1> QED
  BY <1>1, <1>2, <1>3, <1>4, <1>5, SizeAssumption DEF Slots, Last

\* Two distances that fit in the ring together add up.
LEMMA DistancesAdd ==
  ASSUME NEW a \in Slots, NEW b \in Slots, NEW c \in Slots,
         Used2(a, b) + Used2(b, c) <= Last
  PROVE  Used2(a, c) = Used2(a, b) + Used2(b, c)
<1>1. Used2(a, b) = IF a <= b THEN b - a ELSE b - a + Size
  BY Used2Cases
<1>2. Used2(b, c) = IF b <= c THEN c - b ELSE c - b + Size
  BY Used2Cases
<1>3. Used2(a, c) = IF a <= c THEN c - a ELSE c - a + Size
  BY Used2Cases
<1> QED
  BY <1>1, <1>2, <1>3, SizeAssumption DEF Slots, Last

-----------------------------------------------------------------------------
(* Type correctness.                                                       *)

LEMMA LastNat ==
  /\ Last \in Nat /\ 0 \in 0 .. Last /\ 0 \in Slots
  /\ \A n \in 0 .. Last : n \in Nat
BY SizeAssumption DEF Last, Slots

\* What TypeOK says of the numbers, field by field.
LEMMA Numbers ==
  ASSUME TypeOK
  PROVE  /\ r \in Slots /\ w \in Slots /\ k \in Slots
         /\ writer.n \in 0 .. Last /\ reader.n \in 0 .. Last /\ bak.n \in 0 .. Last
         /\ reader.excess \in 0 .. Last
         /\ reader.k \in Slots /\ bak.k \in Slots /\ bak.from \in Slots
         /\ coming \in 0 .. Samples - 1
         /\ Used \in 0 .. Last /\ Bak \in 0 .. Last /\ Free \in 0 .. Last
<1>1. r \in Slots /\ w \in Slots /\ k \in Slots
  BY DEF TypeOK
<1>2. Used \in 0 .. Last /\ Bak \in 0 .. Last
  BY <1>1, Used2Cases DEF Used, Bak
<1>3. Free = Last - Used2(k, w) /\ Used2(k, w) \in 0 .. Last
  BY <1>1, Used2Cases, FreeIsTheRest DEF Free
<1>4. Last \in Nat
  BY SizeAssumption DEF Last
<1>5. Free \in 0 .. Last
  BY <1>3, <1>4
<1> QED
  BY <1>1, <1>2, <1>5 DEF TypeOK

\* An index advanced by a number of samples is an index.
LEMMA Advanced ==
  ASSUME NEW i \in Slots, NEW n \in 0 .. Last
  PROVE  Mask(i + n) \in Slots
<1>1. i + n \in Int
  BY SizeAssumption DEF Slots, Last
<1> QED BY <1>1, MaskRange

LEMMA ChunkType ==
  ASSUME TypeOK, NEW i \in Slots, NEW n \in Nat
  PROVE  Chunk(i, n) \in Seq(Sample)
<1>1. ASSUME NEW j \in 1..n PROVE buffer[Mask(i + j - 1)] \in Sample
  <2>1. i + j - 1 \in Int
    BY SizeAssumption DEF Slots
  <2>2. Mask(i + j - 1) \in Slots
    BY <2>1, MaskRange
  <2> QED BY <2>2 DEF TypeOK
<1>2. Chunk(i, n) \in [1..n -> Sample]
  BY <1>1 DEF Chunk
<1> QED BY <1>2

LEMMA KeptRange == Kept \in 0 .. Last
<1>1. Size \div 2 \in 0 .. Size - 1
  BY SizeAssumption
<1> QED
  BY <1>1, SizeAssumption DEF Kept, Last

LEMMA AtMostRange ==
  ASSUME NEW n \in Nat, NEW most \in 0 .. Last
  PROVE  AtMost(n, most) \in 0 .. Last /\ AtMost(n, most) <= most /\ AtMost(n, most) <= n
BY SizeAssumption DEF AtMost, Last

LEMMA TypeInit == Init => TypeOK
<1> USE SizeAssumption
<1>1. <<>> \in Seq(Sample) /\ NoSample \in Sample
  BY DEF NoSample, Sample
<1> QED BY <1>1 DEF Init, TypeOK, Slots, Last

LEMMA TypeStep == TypeOK /\ [Next]_vars => TypeOK'
<1> USE SizeAssumption
<1> SUFFICES ASSUME TypeOK, [Next]_vars PROVE TypeOK'
  OBVIOUS
<1>0. Used \in 0 .. Last /\ Bak \in 0 .. Last /\ Free \in 0 .. Last
  BY Numbers
<1>1. ASSUME NEW n \in 1 .. MaxWrite, BeginWrite(n) PROVE TypeOK'
  <2>1. n \in Nat
    OBVIOUS
  <2>2. AtMost(n, Free) \in 0 .. Last
    BY <1>0, <2>1, AtMostRange
  <2> QED BY <1>1, <2>2 DEF BeginWrite, TypeOK
<1>2. CASE CopyIn
  <2>1. ASSUME NEW i \in Slots PROVE (coming + Used2(w, i)) % Samples \in Sample
    <3>1. Used2(w, i) \in Nat /\ coming \in Nat
      BY Numbers, Used2Cases
    <3> QED BY <3>1 DEF Sample
  <2> QED BY <1>2, <2>1 DEF CopyIn, TypeOK
<1>3. CASE EndWrite
  <2>1. Mask(w + writer.n) \in Slots
    BY Numbers, Advanced
  <2>2. (coming + writer.n) % Samples \in 0 .. Samples - 1
    BY Numbers DEF Last
  <2> QED BY <1>3, <2>1, <2>2, LastNat DEF EndWrite, TypeOK
<1>4. ASSUME NEW n \in 1 .. MaxRead, BeginRead(n) PROVE TypeOK'
  <2>1. n \in Nat
    OBVIOUS
  <2>2. AtMost(n, Used) \in 0 .. Last
    BY <1>0, <2>1, AtMostRange
  <2> QED BY <1>4, <2>2 DEF BeginRead, TypeOK
<1>5. CASE CopyOut
  <2>1. Chunk(r, reader.n) \in Seq(Sample)
    BY ChunkType, Numbers, LastNat
  <2> QED BY <1>5, <2>1 DEF CopyOut, TypeOK
<1>6. CASE AdvanceRead
  <2>1. Mask(r + reader.n) \in Slots /\ <<>> \in Seq(Sample)
    BY Numbers, Advanced
  <2> QED BY <1>6, <2>1 DEF AdvanceRead, TypeOK
<1>7. CASE Measure
  <2>1. CASE Bak > Kept
    <3>1. Bak - Kept \in 0 .. Last
      BY <1>0, <2>1, KeptRange, LastNat
    <3> QED BY <1>7, <2>1, <3>1, LastNat DEF Measure, TypeOK
  <2>2. CASE ~(Bak > Kept)
    BY <1>7, <2>2, LastNat DEF Measure, TypeOK
  <2> QED BY <2>1, <2>2
<1>8. CASE Trim
  <2>1. ASSUME NEW base \in TrimBase PROVE Mask(base + reader.excess) \in Slots
    BY Numbers, Advanced DEF TrimBase
  <2> QED BY <1>8, <2>1, LastNat DEF Trim, TypeOK
<1>9. ASSUME NEW n \in 1 .. MaxBak, BeginReadbak(n) PROVE TypeOK'
  <2>1. n \in Nat
    OBVIOUS
  <2>2. AtMost(n, Bak) \in 0 .. Last
    BY <1>0, <2>1, AtMostRange
  <2> QED BY <1>9, <2>2 DEF BeginReadbak, TypeOK
<1>10. CASE CopyBak
  <2>1. Chunk(bak.from, bak.n) \in Seq(Sample)
    BY ChunkType, Numbers, LastNat
  <2> QED BY <1>10, <2>1 DEF CopyBak, TypeOK
<1>11. CASE LockBak
  <2>1. <<>> \in Seq(Sample) /\ 0 \in Slots
    BY DEF Slots
  <2> QED BY <1>11, <2>1 DEF LockBak, TypeOK
<1>12. CASE AdvanceBak
  <2>1. Mask(bak.k + bak.n) \in Slots
    BY Numbers, Advanced
  <2> QED BY <1>12, <2>1, LastNat DEF AdvanceBak, TypeOK
<1>13. CASE Flush
  BY <1>13 DEF Flush, TypeOK, Slots
<1>14. CASE UNCHANGED vars
  BY <1>14 DEF vars, TypeOK
<1> QED
  BY <1>1, <1>2, <1>3, <1>4, <1>5, <1>6, <1>7, <1>8, <1>9, <1>10, <1>11, <1>12,
     <1>13, <1>14 DEF Next, WriterStep, ReaderStep, BakStep

\* The variables keep their types (fifo.c:9-14 and the locals of its calls),
\* whatever the scheduler and the callers do.
THEOREM TypeCorrect == Spec => []TypeOK
BY TypeInit, TypeStep, PTL DEF Spec

-----------------------------------------------------------------------------
(* The order of the indices.                                               *)

LEMMA InitOrder == Init => OrderInv
<1> SUFFICES ASSUME Init PROVE OrderInv
  OBVIOUS
<1>1. TypeOK
  BY TypeInit
<1>2. Used2(0, 0) = 0
  BY Used2Cases, LastNat
<1> QED
  BY <1>1, <1>2, LastNat
  DEF Init, OrderInv, IndexOrder, PendingOrder, Used, Bak

\* Reading, trimming, writing, taking back: no call lets an index overtake
\* the next one, and each leaves the others' pending calls valid.
LEMMA OrderStep ==
  ASSUME ReaderFirst, ~FlushOverlaps, OrderInv, [Next]_vars
  PROVE  OrderInv'
<1>0. TypeOK /\ TypeOK' /\ IndexOrder /\ PendingOrder
  BY TypeStep DEF OrderInv
<1>1. SUFFICES IndexOrder' /\ PendingOrder'
  BY <1>0 DEF OrderInv
<1>2. /\ r \in Slots /\ w \in Slots /\ k \in Slots /\ bak.k \in Slots
      /\ Last \in Nat /\ Kept \in 0 .. Last
      /\ Used \in 0 .. Last /\ Bak \in 0 .. Last /\ Free \in 0 .. Last
      /\ writer.n \in 0 .. Last /\ reader.n \in 0 .. Last /\ bak.n \in 0 .. Last
      /\ reader.excess \in 0 .. Last
      /\ Used2(bak.k, r) \in 0 .. Last
  BY <1>0, Numbers, LastNat, KeptRange, Used2Cases
<1>3. ASSUME NEW n \in 1 .. MaxWrite, BeginWrite(n) PROVE IndexOrder' /\ PendingOrder'
  <2>1. Free = Last - (Bak + Used)
    <3>1. Bak + Used <= Last
      BY <1>0, <1>2 DEF IndexOrder
    <3> QED BY <1>2, <3>1, DistancesAdd, FreeIsTheRest DEF Free, Bak, Used
  <2>2. AtMost(n, Free) <= Free /\ AtMost(n, Free) \in 0 .. Last
    <3>1. n \in Nat
      OBVIOUS
    <3> QED BY <1>2, <3>1, AtMostRange
  <2>3. writer' = [pc |-> "copy", n |-> AtMost(n, Free)] /\ bak.pc # "advance"
    BY <1>3 DEF BeginWrite, Unlocked
  <2>4. UNCHANGED <<Used, Bak, bak, reader, k, r>>
    BY <1>3 DEF BeginWrite, Used, Bak
  <2>5. IndexOrder'
    BY <2>1, <2>2, <2>3, <2>4, <1>2 DEF IndexOrder
  <2>6. PendingOrder'
    BY <1>0, <2>3, <2>4 DEF PendingOrder
  <2> QED BY <2>5, <2>6
<1>4. CASE CopyIn
  <2>1. UNCHANGED <<Used, Bak, bak, reader, k, r, w>> /\ writer'.n = writer.n
        /\ writer'.pc = "advance"
    BY <1>0, <1>4 DEF CopyIn, Used, Bak, TypeOK
  <2> QED BY <1>0, <2>1 DEF IndexOrder, PendingOrder
<1>5. CASE EndWrite
  <2>1. w' = Mask(w + writer.n) /\ writer' = [pc |-> "idle", n |-> 0]
        /\ UNCHANGED <<r, k, reader, bak>> /\ bak.pc # "advance"
    BY <1>5 DEF EndWrite, Unlocked
  <2>2. Used' = Used + writer.n /\ Bak' = Bak
    <3>1. Used2(r, w) + writer.n <= Last /\ writer.n \in Nat
      BY <1>0, <1>2 DEF IndexOrder, Used
    <3>2. Used2(r, Mask(w + writer.n)) = Used2(r, w) + writer.n
      BY <1>2, <3>1, AdvanceTo
    <3> QED BY <2>1, <3>2 DEF Used, Bak
  <2> QED BY <1>0, <1>2, <2>1, <2>2 DEF IndexOrder, PendingOrder
<1>6. ASSUME NEW n \in 1 .. MaxRead, BeginRead(n) PROVE IndexOrder' /\ PendingOrder'
  <2>1. n \in Nat /\ AtMost(n, Used) <= Used
    BY <1>2, AtMostRange, SizeAssumption
  <2>2. /\ UNCHANGED <<Used, Bak, bak, writer, k, r, w>>
        /\ reader'.pc = "copy" /\ reader'.n = AtMost(n, Used)
    BY <1>0, <1>6 DEF BeginRead, Used, Bak, TypeOK
  <2> QED BY <1>0, <2>1, <2>2 DEF IndexOrder, PendingOrder
<1>7. CASE CopyOut
  <2>1. /\ UNCHANGED <<Used, Bak, bak, writer, k, r, w>>
        /\ reader.pc = "copy" /\ reader'.pc = "advance" /\ reader'.n = reader.n
    BY <1>0, <1>7 DEF CopyOut, Used, Bak, TypeOK
  <2> QED BY <1>0, <2>1 DEF IndexOrder, PendingOrder
<1>8. CASE AdvanceRead
  <2>1. /\ r' = Mask(r + reader.n) /\ UNCHANGED <<bak, writer, k, w>>
        /\ reader.pc = "advance" /\ reader'.pc = "measure"
    BY <1>0, <1>8 DEF AdvanceRead, TypeOK
  <2>2. reader.n \in Nat /\ reader.n <= Used
    BY <1>0, <1>2, <2>1 DEF PendingOrder
  <2>3. Used' = Used - reader.n
    BY <1>2, <2>1, <2>2, AdvanceFrom DEF Used
  <2>4. Bak' = Bak + reader.n
    <3>1. Used2(k, r) + reader.n <= Last
      BY <1>0, <1>2, <2>2 DEF IndexOrder, Bak
    <3> QED BY <1>2, <2>1, <2>2, <3>1, AdvanceTo DEF Bak
  <2>5. bak.pc = "advance" => Used2(bak.k, r)' = Used2(bak.k, r) + reader.n
    <3>1. bak.pc = "advance" => Used2(bak.k, r) + reader.n <= Last
      BY <1>0, <1>2, <2>2 DEF PendingOrder
    <3> QED BY <1>2, <2>1, <2>2, <3>1, AdvanceTo
  <2> QED BY <1>0, <1>2, <2>1, <2>2, <2>3, <2>4, <2>5 DEF IndexOrder, PendingOrder
<1>9. CASE Measure
  <2>1. UNCHANGED <<Used, Bak, bak, writer, k, r, w>>
    BY <1>9 DEF Measure, Used, Bak
  <2>2. CASE Bak > Kept
    <3>1. reader'.pc = "trim" /\ reader'.excess = Bak - Kept /\ reader'.k = k
      BY <1>0, <1>9, <2>2 DEF Measure, TypeOK
    <3> QED BY <1>0, <2>1, <2>2, <3>1 DEF IndexOrder, PendingOrder
  <2>3. CASE ~(Bak > Kept)
    <3>1. reader'.pc = "idle"
      BY <1>0, <1>9, <2>3 DEF Measure, TypeOK
    <3> QED BY <1>0, <2>1, <3>1 DEF IndexOrder, PendingOrder
  <2> QED BY <2>2, <2>3
<1>10. CASE Trim
  <2>1. reader.k = k /\ Bak > Kept /\ reader.excess = Bak - Kept
    BY <1>0, <1>10 DEF Trim, PendingOrder
  <2>2. /\ k' = Mask(k + reader.excess) /\ UNCHANGED <<Used, bak, writer, r, w>>
        /\ reader'.pc = "idle"
    BY <1>0, <1>10, <2>1 DEF Trim, TrimBase, Used, TypeOK
  <2>3. Bak' = Kept
    <3>1. reader.excess \in Nat /\ reader.excess <= Used2(k, r)
      BY <1>2, <2>1 DEF Bak
    <3>2. Used2(Mask(k + reader.excess), r) = Bak - reader.excess
      BY <1>2, <3>1, AdvanceFrom DEF Bak
    <3> QED BY <1>2, <2>1, <2>2, <3>2 DEF Bak
  <2> QED BY <1>0, <1>2, <2>1, <2>2, <2>3 DEF IndexOrder, PendingOrder
<1>11. ASSUME NEW n \in 1 .. MaxBak, BeginReadbak(n) PROVE IndexOrder' /\ PendingOrder'
  <2>1. AtMost(n, Bak) <= Bak /\ AtMost(n, Bak) <= Kept
    <3>1. n \in Nat /\ n <= MaxBak /\ MaxBak <= Kept /\ MaxBak \in Nat
      BY AnalysisAssumption, SizeAssumption
    <3>2. AtMost(n, Bak) <= Bak /\ AtMost(n, Bak) <= n /\ AtMost(n, Bak) \in 0 .. Last
      BY <1>2, <3>1, AtMostRange
    <3>3. AtMost(n, Bak) \in Nat /\ Kept \in Nat
      BY <1>2, <3>2, LastNat
    <3> QED BY <3>1, <3>2, <3>3
  <2>2. /\ UNCHANGED <<Used, Bak, reader, writer, k, r, w>>
        /\ bak'.pc = "copy" /\ bak'.n = AtMost(n, Bak)
    BY <1>0, <1>11 DEF BeginReadbak, Used, Bak, TypeOK
  <2> QED BY <1>0, <2>1, <2>2 DEF IndexOrder, PendingOrder
<1>12. CASE CopyBak
  <2>1. /\ UNCHANGED <<Used, Bak, reader, writer, k, r, w>>
        /\ bak.pc = "copy" /\ bak'.pc = "copied" /\ bak'.n = bak.n
    BY <1>0, <1>12 DEF CopyBak, Used, Bak, TypeOK
  <2> QED BY <1>0, <2>1 DEF IndexOrder, PendingOrder
<1>13. CASE LockBak
  <2>1. /\ UNCHANGED <<Used, Bak, reader, writer, k, r, w>>
        /\ bak.pc = "copied" /\ bak'.pc = "advance" /\ bak'.n = bak.n /\ bak'.k = k
    BY <1>0, <1>13 DEF LockBak, Used, Bak, TypeOK
  <2> QED BY <1>0, <2>1 DEF IndexOrder, PendingOrder, Bak
<1>14. CASE AdvanceBak
  <2>1. /\ UNCHANGED <<Used, reader, writer, r, w>>
        /\ bak.pc = "advance" /\ bak'.pc = "idle" /\ k' = Mask(bak.k + bak.n)
        /\ reader.pc = "idle"
    BY <1>0, <1>14 DEF AdvanceBak, Used, TypeOK, OthersRun
  <2>2. bak.n \in Nat /\ bak.n <= Used2(bak.k, r)
        /\ Used2(bak.k, r) + Used + writer.n <= Last
    BY <1>0, <1>2, <2>1 DEF PendingOrder
  <2>3. Bak' = Used2(bak.k, r) - bak.n
    BY <1>2, <2>1, <2>2, AdvanceFrom DEF Bak
  <2> QED BY <1>0, <1>2, <2>1, <2>2, <2>3 DEF IndexOrder, PendingOrder
<1>15. CASE Flush
  <2>1. /\ r' = 0 /\ w' = 0 /\ k' = 0 /\ UNCHANGED <<writer, reader, bak>>
        /\ writer.pc = "idle" /\ reader.pc = "idle" /\ bak.pc = "idle"
    BY <1>15 DEF Flush
  <2>2. Used' = 0 /\ Bak' = 0
    BY <2>1, Used2Cases, LastNat DEF Used, Bak
  <2> QED BY <1>0, <1>2, <2>1, <2>2 DEF IndexOrder, PendingOrder
<1>16. CASE UNCHANGED vars
  BY <1>0, <1>16 DEF vars, IndexOrder, PendingOrder, Used, Bak
<1> QED
  BY <1>3, <1>4, <1>5, <1>6, <1>7, <1>8, <1>9, <1>10, <1>11, <1>12, <1>13, <1>14,
     <1>15, <1>16 DEF Next, WriterStep, ReaderStep, BakStep

\* While the sndstream thread is never preempted inside fifo_read and the
\* flush waits for the readers, no index overtakes another (fifo.c:22-26):
\* the lock that fifo_read leaves out is not needed.
THEOREM OrderKept ==
  ASSUME ReaderFirst, ~FlushOverlaps
  PROVE  Spec => []IndexOrder
<1>1. Init => OrderInv
  BY InitOrder
<1>2. OrderInv /\ [Next]_vars => OrderInv'
  BY OrderStep
<1>3. OrderInv => IndexOrder
  BY DEF OrderInv
<1> QED
  BY <1>1, <1>2, <1>3, PTL DEF Spec

-----------------------------------------------------------------------------
(* The queue of samples.                                                   *)

\* A slot between a and b is as far behind b as the ring allows.
LEMMA Behind ==
  ASSUME NEW a \in Slots, NEW b \in Slots, NEW m \in Nat, m < Used2(a, b)
  PROVE  Mask(a + m) \in Slots /\ Used2(b, Mask(a + m)) = Size - Used2(a, b) + m
<1>1. Used2(a, b) = (IF a <= b THEN b - a ELSE b - a + Size) /\ m <= Last /\ m <= Used2(a, b)
  BY Used2Cases, SizeAssumption DEF Last
<1>2. /\ a + m \in -Size .. 2 * Size - 1
      /\ a \in Int /\ b \in Int /\ Size \in Int
  BY <1>1, SizeAssumption DEF Slots, Last
<1>3. Mask(a + m) = IF a + m < Size THEN a + m ELSE a + m - Size
  BY <1>2, MaskOnce, SizeAssumption DEF Slots
<1>4. Mask(a + m) \in Slots
  BY <1>2, MaskRange
<1>5. Used2(b, Mask(a + m))
        = IF b <= Mask(a + m) THEN Mask(a + m) - b ELSE Mask(a + m) - b + Size
  BY <1>4, Used2Cases
<1> QED
  BY <1>1, <1>2, <1>3, <1>4, <1>5, SizeAssumption DEF Slots, Last

\* A slot from b on is as far from it as one has gone.
LEMMA Ahead ==
  ASSUME NEW b \in Slots, NEW m \in Nat, m <= Last
  PROVE  Mask(b + m) \in Slots /\ Used2(b, Mask(b + m)) = m
<1>1. Used2(b, b) = 0
  BY Used2Cases, SizeAssumption DEF Slots
<1> QED
  BY <1>1, AdvanceTo

\* Masking in two steps or in one.
LEMMA MaskTwice ==
  ASSUME NEW a \in Slots, NEW m \in 0 .. Last, NEW j \in 0 .. Last
  PROVE  Mask(Mask(a + m) + j) = Mask(a + (m + j))
<1>1. a \in 0 .. Size - 1 /\ Size \in Nat /\ Size > 1 /\ m \in 0 .. Size - 1 /\ j \in 0 .. Size - 1
  BY SizeAssumption DEF Slots, Last
<1>2. Mask(a + m) = a + m \/ Mask(a + m) = a + m - Size
  <2>1. PICK x \in -Size .. 2 * Size - 1 : x = a + m /\ x >= 0
    BY <1>1
  <2>2. Mask(x) = x \/ Mask(x) = x - Size
    BY <2>1, MaskOnce, <1>1
  <2>3. Mask(a + m) = Mask(x)
    BY <2>1, Zenon
  <2> QED
    BY <1>1, <2>1, <2>2, <2>3
<1>3. a + m \in Int /\ j \in Int
  BY <1>1
<1>4. (a + m - Size + j) % Size = (a + (m + j)) % Size
  BY <1>1, SMTT(60)
<1> QED
  BY <1>1, <1>2, <1>3, <1>4 DEF Mask

\* The write index from the read index.
LEMMA WriteIndex ==
  ASSUME r \in Slots, w \in Slots
  PROVE  w = Mask(r + Used)
<1>1. Used = (IF r <= w THEN w - r ELSE w - r + Size) /\ Used \in 0..Last
  BY Used2Cases DEF Used
<1>2. r \in 0..Size - 1 /\ w \in 0..Size - 1 /\ Size \in Nat /\ Size > 1
  BY SizeAssumption DEF Slots
<1>3. PICK x \in -Size .. 2 * Size - 1 : x = r + Used
  BY <1>1, <1>2 DEF Last
<1>4. Mask(x) = IF x < 0 THEN x + Size ELSE IF x < Size THEN x ELSE x - Size
  BY MaskOnce
<1> QED
  BY <1>1, <1>2, <1>3, <1>4

LEMMA Rest ==
  ASSUME NEW S, NEW s \in Seq(S), NEW n \in Nat, n <= Len(s)
  PROVE  SubSeq(s, n + 1, Len(s)) = [j \in 1..(Len(s) - n) |-> s[n + j]]
<1>1. Len(s) \in Nat
  OBVIOUS
<1>2. SubSeq(s, n + 1, Len(s)) \in Seq(S) /\ Len(SubSeq(s, n + 1, Len(s))) = Len(s) - n
  BY <1>1
<1>3. \A j \in 1..(Len(s) - n) : SubSeq(s, n + 1, Len(s))[j] = s[n + j]
  BY <1>1
<1> QED
  BY <1>1, <1>2, <1>3

LEMMA ChunkIs ==
  ASSUME NEW i, NEW n \in Nat
  PROVE  Len(Chunk(i, n)) = n /\ DOMAIN Chunk(i, n) = 1..n
         /\ \A j \in 1..n : Chunk(i, n)[j] = buffer[Mask(i + j - 1)]
BY DEF Chunk

\* The queue is the same when its slots are.
LEMMA ChunkKept ==
  ASSUME TypeOK, UNCHANGED <<r, w>>, \A j \in 1..Used : buffer'[Mask(r + j - 1)] = buffer[Mask(r + j - 1)]
  PROVE  Chunk(r, Used)' = Chunk(r, Used)
BY DEF Chunk, Used, Used2, Mask

\* Steps that move no sample.
LEMMA QuietQueue ==
  ASSUME ReaderFirst, QueueInv,
         \/ \E n \in Nat \ {0} : BeginWrite(n) \/ BeginRead(n) \/ BeginReadbak(n)
         \/ CopyOut \/ Measure \/ Trim \/ CopyBak \/ LockBak \/ AdvanceBak
  PROVE  PendingData' /\ UNCHANGED <<Chunk(r, Used), coming, heard>>
<1>1. TypeOK /\ PendingData
  BY DEF QueueInv, OrderInv
<1>2. UNCHANGED <<buffer, r, w, coming, heard>>
  BY DEF BeginWrite, BeginRead, BeginReadbak, CopyOut, Measure, Trim, CopyBak, LockBak, AdvanceBak
<1>3. Chunk(r, Used)' = Chunk(r, Used)
  BY <1>1, <1>2, ChunkKept
<1>4. Used \in 0..Last /\ Free \in 0..Last /\ Last \in Nat
  BY <1>1, Numbers, LastNat
<1>5. ASSUME NEW n \in Nat \ {0}, NEW m \in 0..Last, m # 0 PROVE AtMost(n, m) > 0
  BY <1>4, <1>5 DEF AtMost
<1>6. PendingData'
  <2>1. ASSUME NEW n \in Nat \ {0}, BeginWrite(n) PROVE PendingData'
    <3>1. writer' = [pc |-> "copy", n |-> AtMost(n, Free)] /\ AtMost(n, Free) > 0 /\ UNCHANGED reader
      BY <1>4, <1>5, <2>1 DEF BeginWrite
    <3> QED
      BY <1>1, <1>2, <3>1 DEF PendingData, Chunk
  <2>2. ASSUME NEW n \in Nat \ {0}, BeginRead(n) PROVE PendingData'
    <3>1. /\ reader' = [reader EXCEPT !.pc = "copy", !.n = AtMost(n, Used)]
          /\ AtMost(n, Used) > 0 /\ UNCHANGED writer
      BY <1>4, <1>5, <2>2 DEF BeginRead
    <3>2. reader'.pc = "copy" /\ reader'.n = AtMost(n, Used)
      BY <1>1, <3>1 DEF TypeOK
    <3> QED
      BY <1>1, <1>2, <3>1, <3>2 DEF PendingData
  <2>3. CASE CopyOut
    <3>1. /\ reader.pc = "copy" /\ reader'.pc = "advance" /\ reader'.n = reader.n
          /\ reader'.data = Chunk(r, reader.n) /\ UNCHANGED writer
      BY <1>1, <2>3 DEF CopyOut, TypeOK
    <3> QED
      BY <1>1, <1>2, <3>1 DEF PendingData, Chunk
  <2>4. CASE Measure \/ Trim
    <3>1. reader'.pc \notin {"copy", "advance"} /\ UNCHANGED writer
      BY <1>1, <2>4 DEF Measure, Trim, TypeOK
    <3> QED
      BY <1>1, <1>2, <3>1 DEF PendingData
  <2>5. CASE (\E n \in Nat \ {0} : BeginReadbak(n)) \/ CopyBak \/ LockBak \/ AdvanceBak
    <3>1. UNCHANGED <<reader, writer>>
      BY <2>5 DEF BeginReadbak, CopyBak, LockBak, AdvanceBak
    <3> QED
      BY <1>1, <1>2, <3>1 DEF PendingData, Chunk
  <2> QED
    BY <2>1, <2>2, <2>3, <2>4, <2>5
<1> QED
  BY <1>2, <1>3, <1>6

\* What the decoder copies in lands on no sample of the queue.
LEMMA CopyInQueue ==
  ASSUME ReaderFirst, QueueInv, CopyIn
  PROVE  PendingData' /\ UNCHANGED <<Chunk(r, Used), coming, heard>>
<1>1. TypeOK /\ PendingData /\ IndexOrder
  BY DEF QueueInv, OrderInv
<1>2. /\ UNCHANGED <<r, w, coming, heard, reader>> /\ reader.pc = "idle" /\ writer.pc = "copy"
      /\ writer' = [writer EXCEPT !.pc = "advance"]
  BY DEF CopyIn, OthersRun
<1>3. /\ writer.n \in 0..Last /\ writer.n > 0 /\ r \in Slots /\ w \in Slots
      /\ Used \in 0..Last /\ Bak \in 0..Last /\ Last \in Nat /\ Last = Size - 1 /\ Size \in Nat
  BY <1>1, <1>2, Numbers, LastNat, SizeAssumption DEF PendingData, Last
<1>4. \A i \in Slots : buffer'[i] = IF Used2(w, i) < writer.n THEN (coming + Used2(w, i)) % Samples ELSE buffer[i]
  BY DEF CopyIn
<1>5. ASSUME NEW j \in 1..Used PROVE buffer'[Mask(r + j - 1)] = buffer[Mask(r + j - 1)]
  <2>1. PICK m \in Nat : m = j - 1 /\ m < Used2(r, w) /\ r + j - 1 = r + m
    BY <1>3 DEF Used, Slots
  <2>2. Mask(r + m) \in Slots /\ Used2(w, Mask(r + m)) = Size - Used2(r, w) + m
    BY <1>3, <2>1, Behind
  <2>3. ~(Used2(w, Mask(r + m)) < writer.n)
    BY <1>1, <1>3, <2>1, <2>2 DEF IndexOrder, Used
  <2>4. buffer'[Mask(r + m)] = buffer[Mask(r + m)]
    BY <1>4, <2>2, <2>3
  <2> QED
    BY <2>1, <2>4
<1>6. Chunk(r, Used)' = Chunk(r, Used)
  BY <1>1, <1>2, <1>5, ChunkKept
<1>7. ASSUME NEW i \in 0..writer.n - 1 PROVE buffer'[Mask(w + i)] = (coming + i) % Samples
  <2>1. i \in Nat /\ i <= Last /\ i < writer.n
    BY <1>3
  <2>2. Mask(w + i) \in Slots /\ Used2(w, Mask(w + i)) = i
    BY <1>3, <2>1, Ahead
  <2> QED
    BY <1>4, <2>1, <2>2
<1>8. writer'.n = writer.n /\ writer'.pc = "advance"
  BY <1>1, <1>2 DEF TypeOK
<1>9. PendingData'
  BY <1>2, <1>3, <1>7, <1>8 DEF PendingData
<1> QED
  BY <1>2, <1>6, <1>9

\* When the decoder advances w, they follow those of the queue.
LEMMA EndWriteQueue ==
  ASSUME ReaderFirst, QueueInv, EndWrite
  PROVE  PendingData' /\ writer.n \in 1..Last /\ Queue!Write(writer.n)
<1> DEFINE n == writer.n
           q == Chunk(r, Used)
           run == Queue!Run(coming, n)
<1>1. TypeOK /\ PendingData /\ IndexOrder
  BY DEF QueueInv, OrderInv
<1>2. /\ UNCHANGED <<buffer, r, heard, reader>> /\ reader.pc = "idle" /\ writer.pc = "advance"
      /\ writer' = [pc |-> "idle", n |-> 0] /\ w' = Mask(w + n) /\ coming' = (coming + n) % Samples
  BY DEF EndWrite, OthersRun
<1>3. /\ n \in 0..Last /\ n > 0 /\ n \in Nat /\ r \in Slots /\ w \in Slots
      /\ Used \in 0..Last /\ Bak \in 0..Last /\ Last \in Nat /\ Used \in Nat
  BY <1>1, <1>2, Numbers, LastNat DEF PendingData
<1>4. Used + n <= Last
  BY <1>1, <1>3 DEF IndexOrder
<1>5. Used' = Used + n
  BY <1>2, <1>3, <1>4, AdvanceTo DEF Used
<1>6. Len(q) = Used /\ DOMAIN q = 1..Used /\ \A j \in 1..Used : q[j] = buffer[Mask(r + j - 1)]
  BY <1>3, ChunkIs
<1>7. /\ run = [i \in 1..n |-> (coming + i - 1) % Samples]
      /\ Len(run) = n /\ DOMAIN run = 1..n
  BY <1>3 DEF Queue!Run
<1>8. ASSUME NEW i \in 1..n PROVE run[i] = buffer[Mask(r + (Used + i) - 1)]
  <2>1. PICK m \in 0..n - 1 : m = i - 1
    BY <1>3
  <2>2. buffer[Mask(w + m)] = (coming + m) % Samples
    BY <1>1, <1>2 DEF PendingData
  <2>3. w = Mask(r + Used)
    BY <1>3, WriteIndex
  <2>4. Mask(w + m) = Mask(r + (Used + m))
    BY <1>3, <2>1, <2>3, MaskTwice
  <2>5. coming + i - 1 = coming + m /\ r + (Used + i) - 1 = r + (Used + m)
    BY <1>1, <1>3, <2>1, Numbers DEF Slots
  <2>6. run[i] = (coming + m) % Samples
    BY <1>7, <2>5
  <2> QED
    BY <2>2, <2>4, <2>5, <2>6
<1>9. q' = q \o run
  <2>1. q' = [j \in 1..(Used + n) |-> buffer[Mask(r + j - 1)]]
    BY <1>2, <1>5 DEF Chunk
  <2> HIDE DEF q, run
  <2>2. q \o run = [j \in 1..(Used + n) |-> IF j <= Used THEN q[j] ELSE run[j - Used]]
    BY <1>3, <1>6, <1>7
  <2>3. ASSUME NEW j \in 1..(Used + n)
        PROVE buffer[Mask(r + j - 1)] = IF j <= Used THEN q[j] ELSE run[j - Used]
    <3>1. CASE j <= Used
      BY <1>3, <1>6, <3>1
    <3>2. CASE j > Used
      <4>1. PICK i \in 1..n : j = Used + i /\ i = j - Used
        BY <1>3, <3>2
      <4> QED
        BY <1>3, <1>8, <3>2, <4>1
    <3> QED
      BY <1>3, <3>1, <3>2
  <2> QED
    BY <2>1, <2>2, <2>3
<1>10. PendingData'
  BY <1>2 DEF PendingData
<1>11. Len(q) + n <= Last
  BY <1>4, <1>6
<1>12. Queue!Write(n)
  BY <1>2, <1>9, <1>11 DEF Queue!Write
<1> QED
  BY <1>3, <1>10, <1>12

\* What was copied out is what leaves the queue.
LEMMA AdvanceReadQueue ==
  ASSUME ReaderFirst, QueueInv, AdvanceRead
  PROVE  PendingData' /\ reader.n \in 1..Last /\ Queue!Read(reader.n)
<1> DEFINE n == reader.n
           q == Chunk(r, Used)
<1>1. TypeOK /\ PendingData /\ IndexOrder /\ PendingOrder
  BY DEF QueueInv, OrderInv
<1>2. /\ UNCHANGED <<buffer, w, coming, writer>> /\ reader.pc = "advance" /\ r' = Mask(r + n)
      /\ reader' = [reader EXCEPT !.pc = "measure", !.data = <<>>] /\ heard' = reader.data
  BY DEF AdvanceRead
<1>3. /\ n \in 0..Last /\ n > 0 /\ n \in Nat /\ r \in Slots /\ w \in Slots
      /\ Used \in 0..Last /\ Last \in Nat /\ Used \in Nat /\ n <= Used
  BY <1>1, <1>2, Numbers, LastNat DEF PendingData, PendingOrder
<1>4. Used' = Used - n
  BY <1>2, <1>3, AdvanceFrom DEF Used
<1>5. Len(q) = Used /\ DOMAIN q = 1..Used /\ \A j \in 1..Used : q[j] = buffer[Mask(r + j - 1)]
  BY <1>3, ChunkIs
<1>6. heard' = SubSeq(q, 1, n)
  <2>1. heard' = [j \in 1..n |-> buffer[Mask(r + j - 1)]]
    BY <1>1, <1>2 DEF PendingData, Chunk
  <2>2. SubSeq(q, 1, n) = [j \in 1..n |-> q[j]]
    <3> HIDE DEF q
    <3> QED
      BY <1>3, <1>5
  <2>3. \A j \in 1..n : q[j] = buffer[Mask(r + j - 1)]
    BY <1>3, <1>5
  <2> HIDE DEF q
  <2> QED
    BY <2>1, <2>2, <2>3
<1>7. q' = SubSeq(q, n + 1, Len(q))
  <2>1. q' = [j \in 1..(Used - n) |-> buffer[Mask(Mask(r + n) + j - 1)]]
    BY <1>2, <1>4 DEF Chunk
  <2>2. SubSeq(q, n + 1, Len(q)) = [j \in 1..(Used - n) |-> q[n + j]]
    <3>1. q \in Seq(Sample)
      BY <1>1, <1>3, ChunkType
    <3> HIDE DEF q, n
    <3>2. SubSeq(q, n + 1, Len(q)) = [j \in 1..(Len(q) - n) |-> q[n + j]]
      BY <1>3, <1>5, <3>1, Rest
    <3> QED
      BY <1>5, <3>2
  <2>3. ASSUME NEW j \in 1..(Used - n) PROVE buffer[Mask(Mask(r + n) + j - 1)] = q[n + j]
    <3>1. PICK m \in 0..Last : m = j - 1 /\ n + j \in 1..Used
      BY <1>3
    <3>2. Mask(Mask(r + n) + m) = Mask(r + (n + m))
      BY <1>3, <3>1, MaskTwice
    <3>3. Mask(r + n) \in Slots
      BY <1>3, Advanced
    <3>4. r + (n + j) - 1 = r + (n + m) /\ Mask(r + n) + j - 1 = Mask(r + n) + m
      BY <1>3, <3>1, <3>3, SizeAssumption DEF Slots
    <3> QED
      BY <1>5, <3>1, <3>2, <3>4
  <2> HIDE DEF q
  <2> QED
    BY <2>1, <2>2, <2>3
<1>8. PendingData'
  <2>1. reader'.pc = "measure"
    BY <1>1, <1>2 DEF TypeOK
  <2> QED
    BY <1>1, <1>2, <2>1 DEF PendingData
<1>9. Queue!Read(n)
  BY <1>2, <1>3, <1>5, <1>6, <1>7 DEF Queue!Read
<1> QED
  BY <1>3, <1>8, <1>9

LEMMA FlushQueue ==
  ASSUME QueueInv, Flush, ~FlushOverlaps
  PROVE  PendingData' /\ Queue!Flush
<1>1. /\ r' = 0 /\ w' = 0 /\ coming' = 0 /\ UNCHANGED <<heard, writer, reader>>
      /\ writer.pc = "idle" /\ reader.pc = "idle"
  BY DEF Flush
<1>2. Used' = 0
  BY <1>1, Used2Cases, LastNat DEF Used
<1>3. Chunk(r, Used)' = <<>>
  BY <1>2 DEF Chunk
<1> QED
  BY <1>1, <1>3 DEF Queue!Flush, PendingData

LEMMA QueueStep ==
  ASSUME ReaderFirst, ~FlushOverlaps, QueueInv, [Next]_vars
  PROVE  QueueInv' /\ [Queue!Next]_(Queue!vars)
<1>1. OrderInv'
  BY OrderStep DEF QueueInv
<1>2. CASE \/ \E n \in Nat \ {0} : BeginWrite(n) \/ BeginRead(n) \/ BeginReadbak(n)
           \/ CopyOut \/ Measure \/ Trim \/ CopyBak \/ LockBak \/ AdvanceBak
  BY <1>1, <1>2, QuietQueue DEF QueueInv, Queue!vars
<1>3. CASE CopyIn
  BY <1>1, <1>3, CopyInQueue DEF QueueInv, Queue!vars
<1>4. CASE EndWrite
  BY <1>1, <1>4, EndWriteQueue DEF QueueInv, Queue!Next
<1>5. CASE AdvanceRead
  BY <1>1, <1>5, AdvanceReadQueue DEF QueueInv, Queue!Next
<1>6. CASE Flush
  BY <1>1, <1>6, FlushQueue DEF QueueInv, Queue!Next
<1>7. CASE UNCHANGED vars
  BY <1>1, <1>7 DEF QueueInv, PendingData, Chunk, Used, vars, Queue!vars
<1>8. /\ \A n \in 1..MaxWrite : n \in Nat \ {0}
      /\ \A n \in 1..MaxRead : n \in Nat \ {0}
      /\ \A n \in 1..MaxBak : n \in Nat \ {0}
  BY SizeAssumption
<1> QED
  BY <1>2, <1>3, <1>4, <1>5, <1>6, <1>7, <1>8 DEF Next, WriterStep, ReaderStep, BakStep

LEMMA QueueInit == Init => QueueInv /\ Queue!Init
<1> SUFFICES ASSUME Init PROVE QueueInv /\ Queue!Init
  OBVIOUS
<1>1. Used = 0
  BY Used2Cases, LastNat DEF Init, Used
<1>2. Chunk(r, Used) = <<>>
  BY <1>1 DEF Chunk
<1> QED
  BY <1>2, InitOrder DEF QueueInv, PendingData, Init, Queue!Init

\* Under the same conditions the fifo implements the queue of samples that its
\* users rely on (fifo.h): however the decoder's copy, the unlocked fifo_read and
\* fifo_readbak interleave, what is read is what was written, in order, nothing
\* lost and nothing twice.
THEOREM QueueImplemented ==
  ASSUME ReaderFirst, ~FlushOverlaps
  PROVE  Spec => InOrder
<1>1. Init => QueueInv /\ Queue!Init
  BY QueueInit
<1>2. QueueInv /\ [Next]_vars => QueueInv' /\ [Queue!Next]_(Queue!vars)
  BY QueueStep
<1> QED
  BY <1>1, <1>2, PTL DEF Spec, InOrder, Queue!Spec
=============================================================================
