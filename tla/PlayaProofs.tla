----------------------------- MODULE PlayaProofs -----------------------------
(***************************************************************************)
(* For any input drivers, sampling rates and fifo length: PlayerInv is an   *)
(* inductive invariant of the music player, and with it no driver is ever   *)
(* entered by two threads, freed while in use or referenced by nobody, and  *)
(* the decoder thread never sleeps through a start.                         *)
(*                                                                          *)
(* The argument is the READY handshake: from the return of playa_stop to    *)
(* the store of PLAYING the status is READY, and a decoder thread that is    *)
(* inside a driver has seen another status and not stored one since.        *)
(***************************************************************************)
EXTENDS Playa, TLAPS

DecRecords == [pc : DecPcs, d : Drivers \cup {NoDriver}]
CtlRecords == [pc : CtlPcs, call : {"none", "start", "stop", "shutdown"},
               d : Drivers \cup {NoDriver}, flush : BOOLEAN, used : 0 .. FifoMax]
Counts == [Drivers -> Nat]

\* The references there should be to a driver.
Due(d) == (IF d \in registered THEN 1 ELSE 0) + (IF driver = d THEN 1 ELSE 0)
            + (IF ctl.d = d THEN 1 ELSE 0)

-----------------------------------------------------------------------------
(* What the helpers do.                                                    *)

\* driver_reference adds one to the count of its driver.
LEMMA ReferencedCount ==
  ASSUME NEW c \in Counts, NEW d \in Drivers \cup {NoDriver}
  PROVE  /\ Referenced(c, d) \in Counts
         /\ \A e \in Drivers : Referenced(c, d)[e] = c[e] + (IF e = d THEN 1 ELSE 0)
BY PlayaAssumption DEF Referenced, Counts

\* driver_dereference takes one off.
LEMMA DereferencedCount ==
  ASSUME NEW c \in Counts, NEW d \in Drivers \cup {NoDriver},
         d \in Drivers => c[d] > 0
  PROVE  /\ Dereferenced(c, d) \in Counts
         /\ \A e \in Drivers : Dereferenced(c, d)[e] = c[e] - (IF e = d THEN 1 ELSE 0)
BY PlayaAssumption DEF Dereferenced, Counts

\* The records of the threads, field by field.
LEMMA Records ==
  ASSUME TypeOK
  PROVE  /\ dec \in DecRecords /\ dec.pc \in DecPcs /\ dec.d \in Drivers \cup {NoDriver}
         /\ ctl \in CtlRecords /\ ctl.pc \in CtlPcs /\ ctl.d \in Drivers \cup {NoDriver}
         /\ ctl.call \in {"none", "start", "stop", "shutdown"}
         /\ ctl.flush \in BOOLEAN /\ ctl.used \in 0 .. FifoMax
BY DEF TypeOK, DecRecords, CtlRecords

\* The shell thread goes on to another pc.
LEMMA CtlMoves ==
  ASSUME TypeOK, NEW p \in CtlPcs
  PROVE  [ctl EXCEPT !.pc = p] \in CtlRecords
BY Records DEF CtlRecords

\* The decoder thread goes on to another pc.
LEMMA DecMoves ==
  ASSUME TypeOK, NEW p \in DecPcs
  PROVE  [dec EXCEPT !.pc = p] \in DecRecords
BY Records DEF DecRecords

\* A call begins.
LEMMA CallTyped ==
  ASSUME NEW p \in CtlPcs, NEW c \in {"none", "start", "stop", "shutdown"},
         NEW d \in Drivers \cup {NoDriver}, NEW flush \in BOOLEAN
  PROVE  Called(p, c, d, flush) \in CtlRecords
BY PlayaAssumption DEF Called, CtlRecords

\* A call is over, or goes on after its playa_stop.
LEMMA AfterStopTyped ==
  ASSUME TypeOK
  PROVE  Returned \in CtlRecords /\ AfterStop \in CtlRecords
<1>1. Returned \in CtlRecords
  BY CallTyped DEF Returned, CtlPcs
<1>2. \A p \in {"mark", "quit"} : [ctl EXCEPT !.pc = p] \in CtlRecords
  BY CtlMoves DEF CtlPcs
<1> QED
  BY <1>1, <1>2, Records DEF AfterStop

\* What the callback leaves in the fifo is in range.
LEMMA TakenFits ==
  ASSUME TypeOK
  PROVE  /\ Taken \in 0 .. Len(fifo)
         /\ SubSeq(fifo, Taken + 1, Len(fifo)) \in Seq(Frqs)
         /\ Len(SubSeq(fifo, Taken + 1, Len(fifo))) = Len(fifo) - Taken
<1>1. fifo \in Seq(Frqs) /\ Len(fifo) \in Nat
  BY DEF TypeOK
<1>2. Taken \in 0 .. Len(fifo)
  BY <1>1, PlayaAssumption DEF Taken, AtMost
<1> QED
  BY <1>1, <1>2

\* What decode() adds to the fifo fits.
LEMMA BlockFits ==
  ASSUME TypeOK, NEW n \in Nat, NEW r \in Frqs
  PROVE  LET new == fifo \o [i \in 1 .. AtMost(n, FifoMax - Len(fifo)) |-> r]
         IN  new \in Seq(Frqs) /\ Len(new) <= FifoMax /\ Len(new) >= Len(fifo)
<1>1. fifo \in Seq(Frqs) /\ Len(fifo) \in 0 .. FifoMax
  BY PlayaAssumption DEF TypeOK
<1>2. PICK k \in Nat : k = AtMost(n, FifoMax - Len(fifo)) /\ k <= FifoMax - Len(fifo)
  BY <1>1, PlayaAssumption, SMTT(30) DEF AtMost
<1>3. [i \in 1 .. k |-> r] \in Seq(Frqs) /\ Len([i \in 1 .. k |-> r]) = k
  OBVIOUS
<1> QED
  BY <1>1, <1>2, <1>3, PlayaAssumption

-----------------------------------------------------------------------------
(* Who writes what.                                                        *)

\* The callback leaves everything but the samples, their clock and the fade.
LEMMA CallbackFrame ==
  ASSUME Callback
  PROVE  UNCHANGED <<status, haltsem, driver, count, registered, paused, next_frq,
                     rate, dec, ctl>>
BY DEF Callback

\* The decoder thread leaves the shell's variables and the references alone.
LEMMA DecoderFrame ==
  ASSUME DecoderStep
  PROVE  UNCHANGED <<driver, count, registered, paused, fade_v, fade_ms, ctl>>
BY DEF DecoderStep, decoderUnchanged, audio, Ready, Park, Wake, Decode, Decoded,
       DecodedInfo, DecodedEnd, End, Stop, Stopped, Exit

\* decode() returns to the loop, without a look at the status.
LEMMA DecodeReturns ==
  ASSUME \/ \E n \in 0 .. MaxBlock : Decoded(n)
         \/ \E f \in Frqs : DecodedInfo(f)
  PROVE  dec' = [pc |-> "loop", d |-> NoDriver] /\ UNCHANGED <<status, haltsem>>
<1>1. ASSUME NEW n \in 0 .. MaxBlock, Decoded(n)
      PROVE  dec' = [pc |-> "loop", d |-> NoDriver] /\ UNCHANGED <<status, haltsem>>
  BY <1>1, Zenon DEF Decoded
<1>2. ASSUME NEW f \in Frqs, DecodedInfo(f)
      PROVE  dec' = [pc |-> "loop", d |-> NoDriver] /\ UNCHANGED <<status, haltsem>>
  BY <1>2 DEF DecodedInfo
<1> QED
  BY <1>1, <1>2

\* The shell thread leaves the decoder thread where it is.
LEMMA ShellFrame ==
  ASSUME Command \/ ShellStep
  PROVE  UNCHANGED dec
BY DEF Command, CallStart, CallStop, CallShutdown, Pause, Fade, Unregister, Register,
       ShellStep, Initialised, StopAlready, StopTest, StopAsk, StopWait, StopFlush,
       StopDrop, MarkRead, MarkStore, MarkNone, Begun, BeginFails, RateTest, RateSet,
       Swap, Go, Signal, Release, Quit, Down, ctlOnly

\* Of the shell's steps these change the references to drivers; every other
\* leaves the counts, the player's driver, the list and the call's driver alone.
LEMMA RefsFrame ==
  ASSUME Command \/ ShellStep,
         ~StopDrop, \A f \in Frqs : ~Begun(f), ~Swap, ~Release,
         \A d \in Drivers : ~Unregister(d) /\ ~Register(d),
         \A d \in registered \cup {NoDriver} : \A i \in BOOLEAN : ~CallStart(d, i),
         TypeOK, Caller
  PROVE  UNCHANGED <<driver, count, registered>> /\ ctl'.d = ctl.d
<1>1. CASE Command
  BY <1>1, Records DEF Command, CallStop, CallShutdown, Pause, Fade, ctlOnly, Called,
     Caller
<1>2. CASE StopAlready
  BY <1>2, Records DEF StopAlready, AfterStop, Returned, Called, ctlOnly, Caller
<1>3. CASE \/ Initialised \/ StopTest \/ StopAsk \/ StopWait \/ StopFlush \/ MarkRead
           \/ MarkStore \/ MarkNone \/ BeginFails
  BY <1>3, Records DEF Initialised, StopTest, StopAsk, StopWait, StopFlush, MarkRead,
     MarkStore, MarkNone, BeginFails, ctlOnly, CtlRecords
<1>4. CASE RateTest \/ RateSet \/ Go \/ Signal \/ Quit \/ Down
  BY <1>4, Records DEF RateTest, RateSet, Go, Signal, Quit, Down, ctlOnly, CtlRecords
<1> QED
  BY <1>1, <1>2, <1>3, <1>4 DEF ShellStep

-----------------------------------------------------------------------------
(* Types.                                                                  *)

\* The program's variables keep their types.
LEMMA ScalarsTyped ==
  ASSUME PlayerInv, Next
  PROVE  /\ status' \in {"INIT", "READY", "PLAYING", "STOPPING", "QUIT", "ZOMBIE"}
         /\ driver' \in Drivers \cup {NoDriver}
         /\ registered' \subseteq Drivers
         /\ paused' \in BOOLEAN /\ fade_v' \in BOOLEAN /\ fade_ms' \in {-1, 0, 1}
         /\ current_frq' \in Frqs /\ next_frq' \in Frqs \cup {0}
         /\ rate' \in Frqs \cup {0}
<1> USE PlayaAssumption DEF PlayerInv, TypeOK, audio, clock
<1>1. CASE Callback
  <2>1. /\ fade_v' \in BOOLEAN /\ fade_ms' \in {-1, 0, 1}
        /\ current_frq' \in {next_frq, current_frq}
        /\ current_frq' = next_frq => play_samples_start > 0 \/ current_frq = next_frq
    BY <1>1 DEF Callback, FadeStep, Reached
  <2>2. current_frq' \in Frqs
    BY <2>1 DEF Rates
  <2> QED
    BY <2>1, <2>2, <1>1, CallbackFrame
<1>2. CASE DecoderStep
  <2>1. status' \in {"INIT", "READY", "PLAYING", "STOPPING", "QUIT", "ZOMBIE"}
    BY <1>2 DEF DecoderStep, Ready, Park, Wake, Decode, Decoded, DecodedInfo,
       DecodedEnd, End, Stop, Stopped, Exit
  <2>2. /\ current_frq' \in Frqs /\ next_frq' \in Frqs \cup {0}
        /\ rate' \in Frqs \cup {0}
    BY <1>2 DEF DecoderStep, Ready, Park, Wake, Decode, Decoded, DecodedInfo,
       DecodedEnd, End, Stop, Stopped, Exit
  <2> QED
    BY <1>2, <2>1, <2>2, DecoderFrame
<1>3. CASE Command
  BY <1>3, ZenonT(30) DEF Command, CallStart, CallStop, CallShutdown, Pause, Fade, Unregister,
     Register, ctlOnly
<1>4. CASE ShellStep
  BY <1>4, Records, ZenonT(30) DEF ShellStep, Initialised, StopAlready, StopTest, StopAsk,
     StopWait, StopFlush, StopDrop, MarkRead, MarkStore, MarkNone, Begun, BeginFails,
     RateTest, RateSet, Swap, Go, Signal, Release, Quit, Down, ctlOnly, Rates
<1> QED
  BY <1>1, <1>2, <1>3, <1>4 DEF Next

\* The semaphore is never taken below zero.
LEMMA HaltsemTyped ==
  ASSUME PlayerInv, Next
  PROVE  haltsem' \in Nat
<1> USE DEF PlayerInv, TypeOK
<1>1. CASE Wake
  <2>1. haltsem \in Nat /\ haltsem > 0 /\ haltsem' = haltsem - 1
    BY <1>1 DEF Wake
  <2> QED
    BY <2>1
<1>2. CASE Signal
  BY <1>2 DEF Signal
<1>3. CASE DecoderStep /\ ~Wake
  BY <1>3 DEF DecoderStep, Ready, Park, Decode, Decoded, DecodedInfo, DecodedEnd, End,
     Stop, Stopped, Exit
<1>4. CASE Callback \/ Command
  BY <1>4 DEF Callback, Command, CallStart, CallStop, CallShutdown, Pause, Fade,
     Unregister, Register, ctlOnly
<1>5. CASE ShellStep /\ ~Signal
  BY <1>5 DEF ShellStep, Initialised, StopAlready, StopTest, StopAsk, StopWait,
     StopFlush, StopDrop, MarkRead, MarkStore, MarkNone, Begun, BeginFails, RateTest,
     RateSet, Swap, Go, Release, Quit, Down, ctlOnly
<1> QED
  BY <1>1, <1>2, <1>3, <1>4, <1>5 DEF Next

\* The fifo holds rates and no more samples than it has room for, and the mark
\* of a new music lies within it.
LEMMA FifoTyped ==
  ASSUME PlayerInv, Next
  PROVE  /\ fifo' \in Seq(Frqs) /\ Len(fifo') <= FifoMax
         /\ play_samples_start' \in 0 .. FifoMax
<1> USE PlayaAssumption DEF PlayerInv
<1>0. /\ fifo \in Seq(Frqs) /\ Len(fifo) \in 0 .. FifoMax /\ FifoMax \in Nat
      /\ play_samples_start \in 0 .. FifoMax
  BY DEF TypeOK
<1>1. CASE Callback
  <2>1. Taken \in 0 .. Len(fifo) /\ Len(fifo') = Len(fifo) - Taken /\ fifo' \in Seq(Frqs)
    BY <1>1, TakenFits DEF Callback
  <2>2. play_samples_start' = IF play_samples_start > Taken
                                THEN play_samples_start - Taken ELSE 0
    BY <1>1 DEF Callback
  <2> QED
    BY <1>0, <2>1, <2>2
<1>2. CASE \E n \in 0 .. MaxBlock : Decoded(n)
  <2>1. rate \in Frqs
    BY <1>2 DEF Decoded, Rates, TypeOK
  <2>2. play_samples_start' = play_samples_start
    BY <1>2 DEF Decoded, clock
  <2>3. PICK n \in 0 .. MaxBlock : Decoded(n)
    BY <1>2
  <2>4. n \in Nat /\ TypeOK
    OBVIOUS
  <2>5. fifo' \in Seq(Frqs) /\ Len(fifo') <= FifoMax
    BY <2>1, <2>3, <2>4, BlockFits DEF Decoded
  <2> QED
    BY <1>0, <2>2, <2>5
<1>3. CASE DecoderStep /\ ~ \E n \in 0 .. MaxBlock : Decoded(n)
  <2>1. UNCHANGED <<fifo, play_samples_start>>
    BY <1>3 DEF DecoderStep, Ready, Park, Wake, Decode, DecodedInfo, DecodedEnd, End,
       Stop, Stopped, Exit, clock
  <2> QED
    BY <1>0, <2>1
<1>4. CASE Command
  <2>1. UNCHANGED <<fifo, play_samples_start>>
    BY <1>4 DEF Command, CallStart, CallStop, CallShutdown, Pause, Fade, Unregister,
       Register, ctlOnly, clock
  <2> QED
    BY <1>0, <2>1
<1>5. CASE StopFlush
  <2>1. \/ UNCHANGED <<fifo, play_samples_start>>
        \/ fifo' = <<>> /\ play_samples_start' = 0
    BY <1>5 DEF StopFlush
  <2>2. <<>> \in Seq(Frqs) /\ Len(<<>>) = 0
    OBVIOUS
  <2>3. CASE fifo' = <<>> /\ play_samples_start' = 0
    BY <1>0, <2>2, <2>3
  <2> QED
    BY <1>0, <2>1, <2>3
<1>6. CASE MarkStore \/ MarkNone
  <2>1. UNCHANGED fifo /\ play_samples_start' \in {ctl.used, 0}
    BY <1>6 DEF MarkStore, MarkNone
  <2> QED
    BY <1>0, <2>1, Records
<1>7. CASE ShellStep /\ ~StopFlush /\ ~MarkStore /\ ~MarkNone
  <2>1. UNCHANGED <<fifo, play_samples_start>>
    BY <1>7 DEF ShellStep, Initialised, StopAlready, StopTest, StopAsk, StopWait,
       StopDrop, MarkRead, Begun, BeginFails, RateTest, RateSet, Swap, Go, Signal,
       Release, Quit, Down, ctlOnly, clock
  <2> QED
    BY <1>0, <2>1
<1> QED
  BY <1>1, <1>2, <1>3, <1>4, <1>5, <1>6, <1>7 DEF Next

\* The threads' records keep their types.
LEMMA ThreadsTyped ==
  ASSUME PlayerInv, Next
  PROVE  dec' \in DecRecords /\ ctl' \in CtlRecords
<1> USE PlayaAssumption, Records DEF PlayerInv
<1>1. CASE Callback
  BY <1>1, CallbackFrame
<1>2. CASE DecoderStep
  <2>1. \A p \in DecPcs : [dec EXCEPT !.pc = p] \in DecRecords
    BY DecMoves
  <2>2. \A p \in DecPcs : \A d \in Drivers \cup {NoDriver} :
          [pc |-> p, d |-> d] \in DecRecords
    BY DEF DecRecords
  <2>3. driver \in Drivers \cup {NoDriver} /\ NoDriver \in Drivers \cup {NoDriver}
    BY DEF TypeOK
  <2>4. \/ dec' = dec
        \/ \E p \in DecPcs : dec' = [dec EXCEPT !.pc = p]
        \/ \E p \in DecPcs : \E d \in {driver, NoDriver} : dec' = [pc |-> p, d |-> d]
    <3>1. CASE Ready \/ Park \/ Wake
      BY ONLY <3>1 DEF DecPcs, Ready, Park, Wake
    <3>2. CASE Decode
      BY ONLY <3>2 DEF DecPcs, Decode
    <3>3. CASE \/ \E n \in 0 .. MaxBlock : Decoded(n)
               \/ \E f \in Frqs : DecodedInfo(f)
               \/ DecodedEnd
      BY ONLY <3>3 DEF DecPcs, Decoded, DecodedInfo, DecodedEnd
    <3>4. CASE End \/ Stop \/ Stopped \/ Exit
      BY ONLY <3>4 DEF DecPcs, End, Stop, Stopped, Exit
    <3> QED
      BY <1>2, <3>1, <3>2, <3>3, <3>4 DEF DecoderStep
  <2> QED
    BY <1>2, <2>1, <2>2, <2>3, <2>4, DecoderFrame
<1>3. CASE Command
  <2>1. CASE \E i \in BOOLEAN : \E d \in registered \cup {NoDriver} : CallStart(d, i)
    <3>1. PICK i \in BOOLEAN, d \in registered \cup {NoDriver} : CallStart(d, i)
      BY <2>1
    <3>2. d \in Drivers \cup {NoDriver} /\ (i \/ paused) \in BOOLEAN
      BY DEF TypeOK
    <3>3. Called("stop", "start", d, i \/ paused) \in CtlRecords
      BY <3>2, CallTyped DEF CtlPcs
    <3> QED
      BY <1>3, <3>1, <3>3, ShellFrame DEF CallStart
  <2>2. CASE (\E v \in BOOLEAN : CallStop(v)) \/ CallShutdown
    <3>1. \A v \in BOOLEAN : /\ Called("stop", "stop", NoDriver, v) \in CtlRecords
                             /\ Called("stop", "shutdown", NoDriver, v) \in CtlRecords
      BY CallTyped DEF CtlPcs
    <3> QED
      BY <1>3, <2>2, <3>1, ShellFrame DEF CallStop, CallShutdown
  <2>3. CASE \/ \E v \in BOOLEAN : Pause(v)
             \/ \E ms \in {-1, 1} : Fade(ms)
             \/ \E d \in Drivers : Unregister(d) \/ Register(d)
    BY <1>3, <2>3, ShellFrame DEF Pause, Fade, Unregister, Register
  <2> QED
    BY <1>3, <2>1, <2>2, <2>3 DEF Command
<1>4. CASE ShellStep
  <2>1. \A p \in CtlPcs : [ctl EXCEPT !.pc = p] \in CtlRecords
    BY CtlMoves
  <2>2. Returned \in CtlRecords /\ AfterStop \in CtlRecords
    BY AfterStopTyped
  <2>3. CASE StopAlready \/ StopDrop \/ Release
    BY <1>4, <2>2, <2>3, ShellFrame DEF StopAlready, StopDrop, Release
  <2>4. CASE \/ Initialised \/ StopTest \/ StopAsk \/ StopWait \/ StopFlush
             \/ BeginFails \/ RateTest \/ RateSet
    BY <1>4, <2>1, <2>4, ShellFrame DEF Initialised, StopTest, StopAsk, StopWait,
       StopFlush, BeginFails, RateTest, RateSet, CtlPcs
  <2>5. CASE Swap \/ Go \/ Signal \/ Quit \/ Down
    BY <1>4, <2>1, <2>5, ShellFrame DEF Swap, Go, Signal, Quit, Down, CtlPcs
  <2>6. CASE MarkRead
    <3>1. Len(fifo) \in 0 .. FifoMax
      BY DEF TypeOK
    <3>2. [ctl EXCEPT !.pc = "mark_store", !.used = Len(fifo)] \in CtlRecords
      BY <3>1 DEF CtlRecords, CtlPcs
    <3> QED
      BY <1>4, <2>6, <3>2, ShellFrame DEF MarkRead
  <2>7. CASE MarkStore \/ MarkNone
    <3>1. 0 \in 0 .. FifoMax /\ "begin" \in CtlPcs
      BY DEF CtlPcs
    <3>2. /\ [ctl EXCEPT !.pc = "begin", !.used = 0] \in CtlRecords
          /\ [ctl EXCEPT !.pc = "begin", !.flush = FALSE] \in CtlRecords
      BY <3>1, Records DEF CtlRecords
    <3> QED
      BY <1>4, <2>7, <3>2, ShellFrame DEF MarkStore, MarkNone
  <2>8. CASE \E f \in Frqs : Begun(f)
    <3>1. \A d \in registered : [ctl EXCEPT !.pc = "rate", !.d = d] \in CtlRecords
      BY DEF TypeOK, CtlRecords, CtlPcs
    <3>2. [ctl EXCEPT !.pc = "rate"] \in CtlRecords
      BY <2>1 DEF CtlPcs
    <3> QED
      BY <1>4, <2>8, <3>1, <3>2, ShellFrame DEF Begun
  <2> QED
    BY <1>4, <2>3, <2>4, <2>5, <2>6, <2>7, <2>8 DEF ShellStep
<1> QED
  BY <1>1, <1>2, <1>3, <1>4 DEF Next

-----------------------------------------------------------------------------
(* The references.                                                         *)

\* The balance is kept by every step that keeps it for the counts it changes.
LEMMA CountsKept ==
  ASSUME PlayerInv, Next
  PROVE  count' \in Counts /\ RefsBalance'
<1> SUFFICES count' \in Counts /\ \A e \in Drivers : count'[e] = Due(e)'
  BY DEF RefsBalance, Due
<1>0. /\ TypeOK /\ Caller /\ PlayaAssumption
      /\ count \in Counts /\ \A e \in Drivers : count[e] = Due(e)
      /\ driver \in Drivers \cup {NoDriver} /\ registered \subseteq Drivers
      /\ \A c \in {count} : \A d \in Drivers : c[d] \in Nat
  BY PlayaAssumption DEF PlayerInv, TypeOK, RefsBalance, Due, Counts
<1>1. CASE Callback \/ DecoderStep
  BY <1>0, <1>1, CallbackFrame, DecoderFrame DEF Due
<1>2. ASSUME NEW i \in BOOLEAN, NEW d \in registered \cup {NoDriver}, CallStart(d, i)
      PROVE  count' \in Counts /\ \A e \in Drivers : count'[e] = Due(e)'
  <2>1. /\ ctl.d = NoDriver /\ ctl'.d = d /\ UNCHANGED <<driver, registered>>
        /\ count' = Referenced(count, d) /\ d \in Drivers \cup {NoDriver}
    BY <1>0, <1>2 DEF CallStart, Called, Caller
  <2>2. /\ count' \in Counts
        /\ \A e \in Drivers : count'[e] = count[e] + (IF e = d THEN 1 ELSE 0)
    BY <1>0, <2>1, ReferencedCount
  <2> QED
    BY <1>0, <2>1, <2>2 DEF Due
<1>3. ASSUME NEW d \in Drivers, Unregister(d)
      PROVE  count' \in Counts /\ \A e \in Drivers : count'[e] = Due(e)'
  <2>1. /\ d \in registered /\ registered' = registered \ {d}
        /\ UNCHANGED <<driver, ctl>> /\ count' = Dereferenced(count, d)
    BY <1>3 DEF Unregister
  <2>2. count[d] > 0
    BY <1>0, <2>1 DEF Due
  <2>3. /\ count' \in Counts
        /\ \A e \in Drivers : count'[e] = count[e] - (IF e = d THEN 1 ELSE 0)
    BY <1>0, <2>1, <2>2, DereferencedCount
  <2> QED
    BY <1>0, <2>1, <2>3 DEF Due
<1>4. ASSUME NEW d \in Drivers, Register(d)
      PROVE  count' \in Counts /\ \A e \in Drivers : count'[e] = Due(e)'
  <2>1. /\ d \notin registered /\ registered' = registered \cup {d}
        /\ UNCHANGED <<driver, ctl>> /\ count' = Referenced(count, d)
    BY <1>4 DEF Register
  <2>2. /\ count' \in Counts
        /\ \A e \in Drivers : count'[e] = count[e] + (IF e = d THEN 1 ELSE 0)
    BY <1>0, <2>1, ReferencedCount
  <2> QED
    BY <1>0, <2>1, <2>2 DEF Due
<1>5. CASE StopDrop
  <2>1. /\ ctl'.d = ctl.d /\ driver' = NoDriver /\ UNCHANGED registered
        /\ count' = Dereferenced(count, driver)
    BY <1>0, <1>5, Records DEF StopDrop, AfterStop, Returned, Called, CtlRecords, Caller
  <2>2. driver \in Drivers => count[driver] > 0
    BY <1>0 DEF Due
  <2>3. /\ count' \in Counts
        /\ \A e \in Drivers : count'[e] = count[e] - (IF e = driver THEN 1 ELSE 0)
    BY <1>0, <2>1, <2>2, DereferencedCount
  <2> QED
    BY <1>0, <2>1, <2>3 DEF Due, PlayaAssumption
<1>6. ASSUME NEW f \in Frqs, Begun(f)
      PROVE  count' \in Counts /\ \A e \in Drivers : count'[e] = Due(e)'
  <2>1. UNCHANGED <<driver, registered>>
    BY <1>6 DEF Begun
  <2>2. CASE ctl.d # NoDriver /\ UNCHANGED count /\ ctl' = [ctl EXCEPT !.pc = "rate"]
    BY <1>0, <2>1, <2>2, Records DEF Due, CtlRecords
  <2>3. ASSUME NEW d \in registered, ctl.d = NoDriver, count' = Referenced(count, d),
               ctl' = [ctl EXCEPT !.pc = "rate", !.d = d]
        PROVE  count' \in Counts /\ \A e \in Drivers : count'[e] = Due(e)'
    <3>1. /\ count' \in Counts
          /\ \A e \in Drivers : count'[e] = count[e] + (IF e = d THEN 1 ELSE 0)
      BY <1>0, <2>3, ReferencedCount, SMTT(30)
    <3>2. ctl'.d = d
      BY <2>3, <1>0, Records DEF CtlRecords
    <3> QED
      BY <1>0, <2>1, <2>3, <3>1, <3>2 DEF Due, PlayaAssumption
  <2> QED
    BY <1>6, <2>2, <2>3 DEF Begun
<1>7. CASE Swap
  <2> DEFINE less == Dereferenced(count, driver)
  <2>1. /\ ctl'.d = ctl.d /\ driver' = ctl.d /\ UNCHANGED registered
        /\ count' = Referenced(less, ctl.d) /\ ctl.d \in Drivers \cup {NoDriver}
    BY <1>0, <1>7, Records DEF Swap, CtlRecords
  <2>2. driver \in Drivers => count[driver] > 0
    BY <1>0 DEF Due
  <2>3. /\ less \in Counts
        /\ \A e \in Drivers : less[e] = count[e] - (IF e = driver THEN 1 ELSE 0)
    BY <1>0, <2>2, DereferencedCount
  <2>4. /\ count' \in Counts
        /\ \A e \in Drivers : count'[e] = less[e] + (IF e = ctl.d THEN 1 ELSE 0)
    <3> HIDE DEF less
    <3> QED
      BY <2>1, <2>3, ReferencedCount
  <2> HIDE DEF less
  <2> QED
    BY <1>0, <2>1, <2>3, <2>4 DEF Due, PlayaAssumption
<1>8. CASE Release
  <2>1. /\ ctl'.d = NoDriver /\ UNCHANGED <<driver, registered>>
        /\ count' = Dereferenced(count, ctl.d) /\ ctl.d \in Drivers \cup {NoDriver}
    BY <1>0, <1>8, Records DEF Release, Returned, Called
  <2>2. ctl.d \in Drivers => count[ctl.d] > 0
    BY <1>0 DEF Due
  <2>3. /\ count' \in Counts
        /\ \A e \in Drivers : count'[e] = count[e] - (IF e = ctl.d THEN 1 ELSE 0)
    BY <1>0, <2>1, <2>2, DereferencedCount
  <2> QED
    BY <1>0, <2>1, <2>3 DEF Due, PlayaAssumption
<1> QED
  BY <1>0, <1>1, <1>2, <1>3, <1>4, <1>5, <1>6, <1>7, <1>8, RefsFrame DEF Next, Due

\* The player's types are kept.
LEMMA TypesKept ==
  ASSUME PlayerInv, Next
  PROVE  TypeOK'
BY ScalarsTyped, HaltsemTyped, FifoTyped, ThreadsTyped, CountsKept
   DEF TypeOK, DecRecords, CtlRecords, Counts

-----------------------------------------------------------------------------
(* The handshake.                                                          *)

\* Where the threads are agrees with the status.
LEMMA HandshakeKept ==
  ASSUME PlayerInv, Next
  PROVE  Handshake'
<1>0. TypeOK /\ Handshake /\ Caller
  BY DEF PlayerInv
<1>1. CASE Callback
  BY <1>0, <1>1, CallbackFrame DEF Handshake, InDriver
<1>2. CASE DecoderStep
  <2>1. UNCHANGED <<driver, ctl>>
    BY <1>2, DecoderFrame
  <2>2. CASE Ready \/ Park \/ Wake
    BY <1>0, <2>1, <2>2, Records DEF Handshake, InDriver, Ready, Park, Wake, DecRecords
  <2>3. CASE \/ \E f \in Frqs : DecodedInfo(f)
             \/ \E n \in 0 .. MaxBlock : Decoded(n)
    <3>1. dec'.pc = "loop" /\ UNCHANGED status
      BY <2>3, DecodeReturns
    <3> QED
      BY <1>0, <2>1, <3>1 DEF Handshake, InDriver
  <2>4. CASE Decode
    <3>1. /\ status = "PLAYING" /\ UNCHANGED status
          /\ \/ dec'.pc = "ended"
             \/ dec'.pc = "decode" /\ dec'.d = driver
      BY <1>0, <2>4, Records DEF Decode, DecRecords
    <3> QED
      BY <1>0, <2>1, <3>1 DEF Handshake, InDriver
  <2>5. CASE DecodedEnd
    BY <1>0, <2>1, <2>5 DEF Handshake, InDriver, DecodedEnd
  <2>6. CASE End \/ Stop \/ Stopped \/ Exit
    BY <1>0, <2>1, <2>6, Records DEF Handshake, InDriver, End, Stop, Stopped, Exit,
       DecRecords
  <2> QED
    BY <1>2, <2>2, <2>3, <2>4, <2>5, <2>6 DEF DecoderStep
<1>3. CASE Command
  BY <1>0, <1>3, ShellFrame, Records DEF Command, CallStart, CallStop, CallShutdown,
     Pause, Fade, Unregister, Register, ctlOnly, Called, Handshake, InDriver, QuietPcs
<1>4. CASE ShellStep
  <2>1. UNCHANGED dec
    BY <1>4, ShellFrame
  <2>2. CASE StopDrop \/ Swap
    BY <1>0, <2>1, <2>2, Records DEF Handshake, InDriver, StopDrop, AfterStop,
       Returned, Called, Swap, QuietPcs, CtlRecords
  <2>3. CASE Initialised \/ StopAlready \/ StopTest \/ StopAsk \/ StopWait \/ StopFlush
    BY <1>0, <2>1, <2>3, Records DEF Handshake, InDriver, Initialised, StopAlready,
       StopTest, StopAsk, StopWait, StopFlush, AfterStop, Returned, Called, QuietPcs,
       ctlOnly, CtlRecords
  <2>4. CASE MarkRead \/ MarkStore \/ MarkNone \/ BeginFails \/ \E f \in Frqs : Begun(f)
    BY <1>0, <2>1, <2>4, Records DEF Handshake, InDriver, MarkRead, MarkStore,
       MarkNone, Begun, BeginFails, QuietPcs, ctlOnly, CtlRecords
  <2>5. CASE RateTest \/ RateSet \/ Go \/ Signal \/ Release \/ Quit \/ Down
    BY <1>0, <2>1, <2>5, Records DEF Handshake, InDriver, RateTest, RateSet, Go,
       Signal, Release, Quit, Down, Returned, Called, QuietPcs, ctlOnly, CtlRecords
  <2> QED
    BY <1>4, <2>2, <2>3, <2>4, <2>5 DEF ShellStep
<1> QED
  BY <1>1, <1>2, <1>3, <1>4 DEF Next

\* Only a playa_start holds a driver.
LEMMA CallerKept ==
  ASSUME PlayerInv, Next
  PROVE  Caller'
<1>0. TypeOK /\ Caller
  BY DEF PlayerInv
<1>1. CASE Callback \/ DecoderStep
  BY <1>0, <1>1, CallbackFrame, DecoderFrame DEF Caller
<1>2. CASE Command
  BY <1>0, <1>2 DEF Command, CallStart, CallStop, CallShutdown, Pause, Fade,
     Unregister, Register, ctlOnly, Called, Caller, StartPcs
<1>3. CASE ShellStep
  <2>1. CASE StopAlready \/ StopDrop \/ Release
    BY <1>0, <2>1, Records DEF StopAlready, StopDrop, Release, AfterStop, Returned,
       Called, Caller, StartPcs, CtlRecords
  <2>2. CASE Initialised \/ StopTest \/ StopAsk \/ StopWait \/ StopFlush
    BY <1>0, <2>2, Records DEF Initialised, StopTest, StopAsk, StopWait, StopFlush,
       Caller, StartPcs, CtlRecords
  <2>3. CASE MarkRead \/ MarkStore \/ MarkNone \/ BeginFails \/ \E f \in Frqs : Begun(f)
    BY <1>0, <2>3, Records DEF MarkRead, MarkStore, MarkNone, BeginFails, Begun,
       Caller, StartPcs, CtlRecords
  <2>4. CASE RateTest \/ RateSet \/ Swap \/ Go \/ Signal \/ Quit \/ Down
    BY <1>0, <2>4, Records DEF RateTest, RateSet, Swap, Go, Signal, Quit, Down,
       Caller, StartPcs, CtlRecords
  <2> QED
    BY <1>3, <2>1, <2>2, <2>3, <2>4 DEF ShellStep
<1> QED
  BY <1>1, <1>2, <1>3 DEF Next

\* What is played has a rate, and until one is set there is nothing to play.
LEMMA RatesKept ==
  ASSUME PlayerInv, Next
  PROVE  Rates'
<1>0. TypeOK /\ Rates /\ Handshake /\ PlayaAssumption
  BY PlayaAssumption DEF PlayerInv
<1>1. CASE Callback
  <2>1. fifo = <<>> => Taken = 0 /\ fifo' = <<>>
    BY <1>0, <1>1, TakenFits DEF Callback, TypeOK
  <2>2. play_samples_start = 0 => play_samples_start' = 0
    <3>1. Taken \in Nat
      BY <1>0, TakenFits DEF TypeOK
    <3> QED
      BY <1>1, <3>1 DEF Callback
  <2> QED
    BY <1>0, <1>1, <2>1, <2>2, CallbackFrame DEF Rates
<1>2. CASE DecoderStep
  <2>1. UNCHANGED <<driver, ctl>>
    BY <1>2, DecoderFrame
  <2>2. CASE \E n \in 0 .. MaxBlock : Decoded(n)
    BY <1>0, <2>1, <2>2, Records DEF Rates, Decoded, clock
  <2>3. CASE \E f \in Frqs : DecodedInfo(f)
    BY <1>0, <2>1, <2>3, Records DEF Rates, DecodedInfo
  <2>4. CASE Ready \/ Park \/ Wake
    BY <1>0, <2>1, <2>4, Records DEF Rates, Ready, Park, Wake, clock, DecRecords
  <2>5. CASE Decode \/ DecodedEnd
    BY <1>0, <2>1, <2>5, Records DEF Rates, Decode, DecodedEnd, clock, DecRecords
  <2>6. CASE End \/ Stop \/ Stopped \/ Exit
    BY <1>0, <2>1, <2>6, Records DEF Rates, Handshake, QuietPcs, End, Stop, Stopped,
       Exit, clock, DecRecords
  <2> QED
    BY <1>2, <2>2, <2>3, <2>4, <2>5, <2>6 DEF DecoderStep
<1>3. CASE Command
  BY <1>0, <1>3, ShellFrame, Records DEF Rates, Command, CallStart, CallStop,
     CallShutdown, Pause, Fade, Unregister, Register, ctlOnly, Called, clock
<1>4. CASE ShellStep
  <2>1. UNCHANGED dec
    BY <1>4, ShellFrame
  <2>2. CASE StopAlready \/ StopDrop
    BY <1>0, <2>1, <2>2, Records DEF Rates, StopAlready, StopDrop, AfterStop, Returned,
       Called, ctlOnly, clock, CtlRecords
  <2>3. CASE Initialised \/ StopTest \/ StopAsk \/ StopWait \/ StopFlush
    BY <1>0, <2>1, <2>3, Records DEF Rates, Initialised, StopTest, StopAsk, StopWait,
       StopFlush, ctlOnly, clock, CtlRecords
  <2>4. CASE MarkRead \/ MarkStore \/ MarkNone
    BY <1>0, <2>1, <2>4, Records DEF Rates, MarkRead, MarkStore, MarkNone, ctlOnly,
       clock, CtlRecords
  <2>5. CASE BeginFails \/ \E f \in Frqs : Begun(f)
    BY <1>0, <2>1, <2>5, Records DEF Rates, Begun, BeginFails, ctlOnly, clock, CtlRecords
  <2>6. CASE RateTest \/ RateSet
    BY <1>0, <2>1, <2>6, Records DEF Rates, RateTest, RateSet, ctlOnly, clock, CtlRecords
  <2>7. CASE Swap \/ Go \/ Signal \/ Release \/ Quit \/ Down
    BY <1>0, <2>1, <2>7, Records DEF Rates, Swap, Go, Signal, Release, Quit, Down,
       Returned, Called, ctlOnly, clock, CtlRecords
  <2> QED
    BY <1>4, <2>2, <2>3, <2>4, <2>5, <2>6, <2>7 DEF ShellStep
<1> QED
  BY <1>1, <1>2, <1>3, <1>4 DEF Next

\* The decoder thread does not sleep through a start.
LEMMA NoLostWakeupKept ==
  ASSUME PlayerInv, Next
  PROVE  NoLostWakeup'
<1>0. TypeOK /\ Handshake /\ NoLostWakeup /\ haltsem \in Nat
  BY DEF PlayerInv, TypeOK
<1>1. CASE Callback
  BY <1>0, <1>1, CallbackFrame DEF NoLostWakeup
<1>2. CASE DecoderStep
  <2>1. UNCHANGED ctl
    BY <1>2, DecoderFrame
  <2>2. CASE Ready \/ Park \/ Wake
    BY <1>0, <2>2, Records DEF NoLostWakeup, Ready, Park, Wake, DecRecords
  <2>3. CASE \/ Decode \/ DecodedEnd \/ \E f \in Frqs : DecodedInfo(f)
             \/ \E n \in 0 .. MaxBlock : Decoded(n)
    <3>1. dec'.pc # "waiting"
      BY <1>0, <2>3, DecodeReturns, Records DEF Decode, DecodedEnd, DecRecords
    <3> QED
      BY <3>1 DEF NoLostWakeup
  <2>4. CASE End \/ Stop \/ Stopped \/ Exit
    <3>1. dec'.pc # "waiting"
      BY <1>0, <2>4, Records DEF End, Stop, Stopped, Exit, DecRecords
    <3> QED
      BY <3>1 DEF NoLostWakeup
  <2> QED
    BY <1>2, <2>2, <2>3, <2>4 DEF DecoderStep
<1>3. CASE Command
  BY <1>0, <1>3, ShellFrame, Records DEF NoLostWakeup, Command, CallStart, CallStop,
     CallShutdown, Pause, Fade, Unregister, Register, ctlOnly, Called
<1>4. CASE ShellStep
  <2>1. UNCHANGED dec
    BY <1>4, ShellFrame
  <2>2. CASE Signal
    <3>1. haltsem' = haltsem + 1
      BY <2>2 DEF Signal
    <3> QED
      BY <1>0, <3>1 DEF NoLostWakeup
  <2>3. CASE Go
    BY <1>0, <2>1, <2>3, Records DEF NoLostWakeup, Go, CtlRecords
  <2>4. CASE ShellStep /\ ~Signal /\ ~Go
    <3>1. /\ ctl.pc # "signal" /\ UNCHANGED haltsem
          /\ status' = status \/ status' # "PLAYING"
      BY <2>4 DEF ShellStep, Initialised, StopAlready, StopTest, StopAsk, StopWait,
         StopFlush, StopDrop, MarkRead, MarkStore, MarkNone, Begun, BeginFails,
         RateTest, RateSet, Swap, Release, Quit, Down, ctlOnly
    <3> QED
      BY <1>0, <2>1, <3>1 DEF NoLostWakeup
  <2> QED
    BY <1>4, <2>2, <2>3, <2>4
<1> QED
  BY <1>1, <1>2, <1>3, <1>4 DEF Next

-----------------------------------------------------------------------------
(* The theorems.                                                           *)

\* The player starts in the invariant.
LEMMA InitInv ==
  ASSUME Init
  PROVE  PlayerInv
<1>1. TypeOK
  <2>1. <<>> \in Seq(Frqs) /\ Len(<<>>) = 0 /\ FifoMax \in Nat /\ 0 \in 0 .. FifoMax
    BY PlayaAssumption
  <2>2. dec \in DecRecords
    BY DEF Init, DecRecords, DecPcs
  <2>3. ctl \in CtlRecords
    BY CallTyped DEF Init, CtlPcs
  <2>4. count \in Counts
    BY DEF Init, Counts
  <2>5. /\ fifo = <<>> /\ play_samples_start = 0 /\ haltsem = 0
        /\ status = "INIT" /\ driver = NoDriver /\ registered = Drivers
        /\ paused = FALSE /\ fade_v = FALSE /\ fade_ms = 0
        /\ current_frq = FirstFrq /\ next_frq = 0 /\ rate = 0
    BY DEF Init
  <2>6. haltsem \in Nat /\ fade_ms \in {-1, 0, 1} /\ Len(fifo) <= FifoMax
    BY <2>1, <2>5
  <2> QED
    BY <2>1, <2>2, <2>3, <2>4, <2>5, <2>6, PlayaAssumption, Zenon
       DEF TypeOK, DecRecords, CtlRecords, Counts
<1>2. RefsBalance
  <2>1. \A d \in Drivers : /\ count[d] = 1 /\ d \in registered
                           /\ driver # d /\ ctl.d # d
    BY PlayaAssumption DEF Init, Called
  <2>2. ASSUME NEW d \in Drivers
        PROVE  count[d] = Due(d)
    <3>1. Due(d) = 1 + 0 + 0
      BY <2>1, Zenon DEF Due
    <3> QED
      BY <2>1, <3>1
  <2> QED
    BY <2>2, Zenon DEF RefsBalance, Due
<1>3. Handshake /\ Caller /\ Rates /\ NoLostWakeup
  BY DEF Init, Handshake, InDriver, Caller, Rates, NoLostWakeup, Called, QuietPcs, StartPcs
<1> QED
  BY <1>1, <1>2, <1>3 DEF PlayerInv

\* No step leaves the invariant.
LEMMA StepInv ==
  ASSUME PlayerInv, [Next]_vars
  PROVE  PlayerInv'
<1>1. CASE Next
  BY <1>1, TypesKept, CountsKept, HandshakeKept, CallerKept, RatesKept,
     NoLostWakeupKept DEF PlayerInv
<1>2. CASE UNCHANGED vars
  BY <1>2 DEF vars, audio, clock, PlayerInv, TypeOK, RefsBalance, Handshake, InDriver,
     Caller, Rates, NoLostWakeup
<1> QED
  BY <1>1, <1>2

\* PlayerInv is an invariant of the player.
THEOREM PlayerInvariant == Spec => []PlayerInv
BY InitInv, StepInv, PTL DEF Spec

\* The player's variables keep their types: the fifo's mark of a new music stays
\* within the fifo, no count goes below zero and the callback never sets a rate
\* of 0.
THEOREM TypeCorrect == Spec => []TypeOK
<1>1. PlayerInv => TypeOK
  BY DEF PlayerInv
<1> QED
  BY <1>1, PlayerInvariant, PTL

\* Whatever is started, stopped, registered and unregistered, in any order and
\* whatever fails, a driver has as many references as it has holders.
THEOREM ReferencesBalance == Spec => []RefsBalance
<1>1. PlayerInv => RefsBalance
  BY DEF PlayerInv
<1> QED
  BY <1>1, PlayerInvariant, PTL

\* A driver's start() and the flush of the fifo never overlap a decode() or
\* stop(): the handshake through playastatus is enough.
THEOREM DriverAlone == Spec => []Alone
<1>1. PlayerInv => Alone
  BY DEF PlayerInv, Handshake, Alone, InDriver, QuietPcs
<1> QED
  BY <1>1, PlayerInvariant, PTL

\* The driver that decodes is the player's and is referenced, even when it is
\* unregistered in the middle of the music.
THEOREM DriverAlive == Spec => []AliveDriver
<1>1. ASSUME PlayerInv, InDriver, dec.d # NoDriver
      PROVE  dec.d = driver /\ count[dec.d] > 0
  <2>1. dec.d = driver /\ dec.d \in Drivers
    BY <1>1, Records DEF PlayerInv, Handshake
  <2>2. count[dec.d] = Due(dec.d)
    BY <1>1, <2>1 DEF PlayerInv, RefsBalance, Due
  <2> QED
    BY <2>1, <2>2 DEF Due
<1>2. PlayerInv => AliveDriver
  BY <1>1 DEF AliveDriver
<1> QED
  BY <1>2, PlayerInvariant, PTL

\* The decoder thread never sleeps with PLAYING set and no signal on its way.
THEOREM WakeupKept == Spec => []NoLostWakeup
<1>1. PlayerInv => NoLostWakeup
  BY DEF PlayerInv
<1> QED
  BY <1>1, PlayerInvariant, PTL

-----------------------------------------------------------------------------
(* The mark of the next music.  It is never short: what is behind it was      *)
(* decoded at the rate that the callback sets when it gets there.             *)

\* The callback takes as much off the mark as off the fifo.
LEMMA CallbackMark ==
  ASSUME TypeOK, Callback
  PROVE  /\ Taken \in 0 .. Len(fifo) /\ Len(fifo) \in Nat
         /\ Len(fifo') = Len(fifo) - Taken
         /\ \A i \in DOMAIN fifo' : /\ i \in 1 .. Len(fifo')
                                    /\ i + Taken \in DOMAIN fifo
                                    /\ fifo'[i] = fifo[i + Taken]
<1>1. fifo \in Seq(Frqs) /\ Len(fifo) \in Nat
  BY DEF TypeOK
<1>2. PICK k \in 0 .. Len(fifo) : k = Taken /\ fifo' = SubSeq(fifo, k + 1, Len(fifo))
  BY TakenFits DEF Callback
<1>3. /\ Len(fifo') = Len(fifo) - k /\ DOMAIN fifo' = 1 .. (Len(fifo) - k)
      /\ DOMAIN fifo = 1 .. Len(fifo)
      /\ \A i \in 1 .. (Len(fifo) - k) : fifo'[i] = fifo[i + k]
  BY <1>1, <1>2
<1>4. ASSUME NEW i \in DOMAIN fifo'
      PROVE  /\ i \in 1 .. Len(fifo') /\ i + k \in DOMAIN fifo
             /\ fifo'[i] = fifo[i + k]
  <2>1. i \in 1 .. (Len(fifo) - k) /\ i + k \in 1 .. Len(fifo)
    BY <1>1, <1>3
  <2> QED
    BY <1>3, <2>1
<1> QED
  BY <1>1, <1>2, <1>3, <1>4

\* When the callback sets another rate, the music it was decoded at has begun.
LEMMA CallbackRate ==
  ASSUME MarkInv, Callback, current_frq' # current_frq
  PROVE  current_frq' = next_frq /\ \A i \in DOMAIN fifo' : fifo'[i] = next_frq
<1>1. TypeOK /\ play_samples_start \in Nat
  BY PlayaAssumption DEF MarkInv, PlayerInv, TypeOK
<1>2. current_frq' = next_frq /\ Reached
  BY DEF Callback
<1>3. play_samples_start > 0 /\ play_samples_start < Taken
  BY <1>1, <1>2, CallbackMark DEF Reached
<1>4. PastMark(fifo, play_samples_start, next_frq)
  BY <1>2, <1>3 DEF MarkInv, Mark
<1>5. ASSUME NEW i \in DOMAIN fifo'
      PROVE  fifo'[i] = next_frq
  <2>1. i + Taken \in DOMAIN fifo /\ fifo'[i] = fifo[i + Taken] /\ i + Taken > play_samples_start
    BY <1>1, <1>3, <1>5, CallbackMark
  <2> QED
    BY <1>4, <2>1 DEF PastMark
<1> QED
  BY <1>2, <1>5

\* The callback keeps the mark.
LEMMA CallbackKeepsMark ==
  ASSUME MarkInv, Callback
  PROVE  Mark'
<1>1. TypeOK /\ Mark /\ play_samples_start \in Nat /\ ctl.used \in Nat
  BY PlayaAssumption, Records DEF MarkInv, PlayerInv, TypeOK, CtlRecords
<1>2. UNCHANGED <<status, next_frq, rate, dec, ctl>>
  BY CallbackFrame
<1>3. PICK k \in 0 .. Len(fifo) :
        /\ k = Taken /\ Len(fifo) \in Nat /\ Len(fifo') = Len(fifo) - k
        /\ \A i \in DOMAIN fifo' : /\ i \in 1 .. Len(fifo')
                                   /\ i + k \in DOMAIN fifo /\ fifo'[i] = fifo[i + k]
  BY <1>1, CallbackMark
<1>4. play_samples_start' = IF play_samples_start > k THEN play_samples_start - k ELSE 0
  BY <1>3 DEF Callback
<1>5. ctl'.pc = "mark_store" => Len(fifo') <= ctl'.used
  BY <1>1, <1>2, <1>3 DEF Mark
<1>6. ctl'.pc \in {"begin", "rate", "rate_next"}
        => play_samples_start' = 0 \/ Len(fifo') <= play_samples_start'
  BY <1>1, <1>2, <1>3, <1>4 DEF Mark
<1>7. ASSUME play_samples_start' > 0, current_frq' # next_frq'
      PROVE  PastMark(fifo', play_samples_start', next_frq')
  <2>1. play_samples_start > k /\ play_samples_start' = play_samples_start - k
    BY <1>1, <1>4, <1>7
  <2>2. current_frq # next_frq
    BY <1>2, <1>7 DEF Callback
  <2>3. PastMark(fifo, play_samples_start, next_frq)
    BY <1>1, <1>3, <2>1, <2>2 DEF Mark
  <2>4. ASSUME NEW i \in DOMAIN fifo', i > play_samples_start'
        PROVE  fifo'[i] = next_frq
    <3>1. i + k \in DOMAIN fifo /\ fifo'[i] = fifo[i + k] /\ i + k > play_samples_start
      BY <1>1, <1>3, <2>1, <2>4
    <3> QED
      BY <2>3, <3>1 DEF PastMark
  <2> QED
    BY <1>2, <2>4 DEF PastMark
<1> QED
  BY <1>1, <1>2, <1>5, <1>6, <1>7 DEF Mark

\* What decode() adds behind the mark is for the rate that is to be set.
LEMMA DecodedKeepsMark ==
  ASSUME MarkInv, NEW n \in 0 .. MaxBlock, Decoded(n)
  PROVE  Mark'
<1>1. TypeOK /\ Handshake /\ Mark /\ n \in Nat
  BY PlayaAssumption DEF MarkInv, PlayerInv
<1>2. /\ status' = status /\ ctl' = ctl /\ rate' = rate /\ next_frq' = next_frq
      /\ current_frq' = current_frq /\ play_samples_start' = play_samples_start
      /\ dec.pc = "decode" /\ dec'.pc = "loop"
  BY DEF Decoded, clock, decoderUnchanged
<1>3. status # "READY" /\ ctl.pc \notin QuietPcs /\ rate = next_frq
  BY <1>1, <1>2 DEF Handshake, Mark
<1>4. PICK k \in Nat : k = AtMost(n, FifoMax - Len(fifo))
  <2>1. fifo \in Seq(Frqs) /\ Len(fifo) \in 0 .. FifoMax
    BY <1>1, PlayaAssumption DEF TypeOK
  <2> QED
    BY <1>1, <2>1, PlayaAssumption DEF AtMost
<1>5. fifo' = fifo \o [i \in 1 .. k |-> next_frq] /\ fifo \in Seq(Frqs)
  BY <1>1, <1>3, <1>4 DEF Decoded, TypeOK
<1>6. ASSUME NEW mark \in Nat, PastMark(fifo, mark, next_frq)
      PROVE  PastMark(fifo', mark, next_frq)
  <2>1. ASSUME NEW i \in DOMAIN fifo', i > mark
        PROVE  fifo'[i] = next_frq
    <3>1. i \in 1 .. (Len(fifo) + k) /\ Len(fifo) \in Nat /\ DOMAIN fifo = 1 .. Len(fifo)
      BY <1>4, <1>5, <2>1
    <3>2. CASE i <= Len(fifo)
      <4>1. i \in DOMAIN fifo /\ fifo'[i] = fifo[i]
        BY <1>5, <3>1, <3>2
      <4> QED
        BY <1>6, <2>1, <4>1 DEF PastMark
    <3>3. CASE i > Len(fifo)
      BY <1>4, <1>5, <3>1, <3>3
    <3> QED
      BY <3>1, <3>2, <3>3
  <2> QED
    BY <2>1 DEF PastMark
<1>7. play_samples_start \in Nat
  BY <1>1, PlayaAssumption DEF TypeOK
<1> QED
  BY <1>1, <1>2, <1>3, <1>6, <1>7 DEF Mark, QuietPcs

\* So do the other steps of the decoder thread.
LEMMA DecoderKeepsMark ==
  ASSUME MarkInv, DecoderStep
  PROVE  Mark'
<1>1. TypeOK /\ Handshake /\ Mark
  BY DEF MarkInv, PlayerInv
<1>2. UNCHANGED <<driver, ctl>>
  BY DecoderFrame
<1>3. CASE \E n \in 0 .. MaxBlock : Decoded(n)
  BY <1>3, DecodedKeepsMark
<1>4. CASE \E f \in Frqs : DecodedInfo(f)
  <2>1. PICK f \in Frqs : DecodedInfo(f)
    BY <1>4
  <2>2. /\ dec.pc = "decode" /\ rate' = next_frq' /\ dec'.pc = "loop"
        /\ UNCHANGED <<status, fifo, play_samples_start>>
        /\ \/ current_frq' = next_frq'
           \/ UNCHANGED <<current_frq, next_frq>>
    BY <2>1 DEF DecodedInfo
  <2> QED
    BY <1>1, <1>2, <2>2 DEF Mark
<1>5. CASE Ready \/ Park \/ Wake
  BY <1>1, <1>2, <1>5, Records DEF Mark, Ready, Park, Wake, clock, DecRecords
<1>6. CASE Decode \/ DecodedEnd
  BY <1>1, <1>2, <1>6, Records DEF Mark, Decode, DecodedEnd, clock, DecRecords
<1>7. CASE End \/ Stop \/ Stopped \/ Exit
  BY <1>1, <1>2, <1>7, Records DEF Mark, Handshake, QuietPcs, End, Stop, Stopped,
     Exit, clock, DecRecords
<1> QED
  BY <1>3, <1>4, <1>5, <1>6, <1>7 DEF DecoderStep

\* Storing the rate of the next music breaks nothing: the decoder thread is
\* quiet, and either nothing is left behind the mark or the rate is set at once.
LEMMA RateKeepsMark ==
  ASSUME MarkInv, RateSet
  PROVE  Mark'
<1>1. TypeOK /\ Handshake /\ Mark
  BY DEF MarkInv, PlayerInv
<1>2. /\ ctl.pc \in {"rate_next", "rate_now"} /\ ctl'.pc = "swap"
      /\ UNCHANGED <<status, fifo, play_samples_start, rate, dec>>
      /\ next_frq' = rate
      /\ ctl.pc = "rate_now" => current_frq' = rate
  BY <1>1, Records DEF RateSet, CtlRecords
<1>3. ASSUME play_samples_start > 0, ctl.pc = "rate_next"
      PROVE  PastMark(fifo, play_samples_start, rate)
  <2>1. /\ Len(fifo) <= play_samples_start /\ play_samples_start \in Nat
        /\ Len(fifo) \in Nat /\ DOMAIN fifo = 1 .. Len(fifo)
    BY <1>1, <1>3, PlayaAssumption DEF Mark, TypeOK
  <2> QED
    BY <2>1 DEF PastMark
<1> QED
  BY <1>1, <1>2, <1>3 DEF Mark

\* The shell thread keeps the mark.
LEMMA ShellKeepsMark ==
  ASSUME MarkInv, Command \/ ShellStep
  PROVE  Mark'
<1>1. TypeOK /\ Handshake /\ Mark /\ Len(fifo) \in Nat
  BY DEF MarkInv, PlayerInv, TypeOK
<1>2. UNCHANGED dec
  BY ShellFrame
<1>3. CASE Command
  BY <1>1, <1>2, <1>3, Records DEF Mark, Command, CallStart, CallStop, CallShutdown,
     Pause, Fade, Unregister, Register, ctlOnly, Called, clock
<1>4. CASE StopAlready \/ StopDrop
  BY <1>1, <1>2, <1>4, Records DEF Mark, StopAlready, StopDrop, AfterStop, Returned,
     Called, ctlOnly, clock, CtlRecords
<1>5. CASE Initialised \/ StopTest \/ StopAsk \/ StopWait
  BY <1>1, <1>2, <1>5, Records DEF Mark, Initialised, StopTest, StopAsk, StopWait,
     ctlOnly, clock, CtlRecords
<1>6. CASE StopFlush
  <2>1. /\ ctl'.pc = "stop_drop"
        /\ UNCHANGED <<status, current_frq, next_frq, rate, dec>>
        /\ \/ UNCHANGED <<fifo, play_samples_start>>
           \/ play_samples_start' = 0
    BY <1>1, <1>6, Records DEF StopFlush, CtlRecords
  <2> QED
    BY <1>1, <2>1 DEF Mark
<1>7. CASE MarkRead \/ MarkStore \/ MarkNone
  <2>1. CASE MarkRead
    <3>1. /\ ctl'.pc = "mark_store" /\ ctl'.used = Len(fifo)
          /\ UNCHANGED <<status, fifo, play_samples_start, current_frq, next_frq, rate>>
      BY <1>1, <2>1, Records DEF MarkRead, CtlRecords, ctlOnly, clock
    <3> QED
      BY <1>1, <1>2, <3>1 DEF Mark
  <2>2. CASE MarkStore
    <3>1. /\ ctl.pc = "mark_store" /\ ctl'.pc = "begin" /\ play_samples_start' = ctl.used
          /\ UNCHANGED <<status, fifo, current_frq, next_frq, rate>>
      BY <1>1, <2>2, Records DEF MarkStore, CtlRecords
    <3>2. Len(fifo) <= ctl.used /\ ctl.used \in Nat /\ DOMAIN fifo = 1 .. Len(fifo)
      BY <1>1, <3>1, PlayaAssumption, Records DEF Mark, TypeOK, CtlRecords
    <3>3. PastMark(fifo, ctl.used, next_frq)
      BY <1>1, <3>2 DEF PastMark
    <3> QED
      BY <1>1, <1>2, <3>1, <3>2, <3>3 DEF Mark
  <2>3. CASE MarkNone
    BY <1>1, <1>2, <2>3, Records DEF Mark, MarkNone, CtlRecords
  <2> QED
    BY <1>7, <2>1, <2>2, <2>3
<1>8. CASE BeginFails \/ \E f \in Frqs : Begun(f)
  BY <1>1, <1>2, <1>8, Records DEF Mark, Handshake, QuietPcs, Begun, BeginFails,
     ctlOnly, clock, CtlRecords
<1>9. CASE RateTest
  BY <1>1, <1>2, <1>9, Records DEF Mark, RateTest, ctlOnly, clock, CtlRecords
<1>10. CASE RateSet
  BY <1>10, RateKeepsMark
<1>11. CASE Swap \/ Go \/ Signal \/ Release \/ Quit \/ Down
  BY <1>1, <1>2, <1>11, Records DEF Mark, Swap, Go, Signal, Release, Quit, Down,
     Returned, Called, ctlOnly, clock, CtlRecords
<1> QED
  BY <1>3, <1>4, <1>5, <1>6, <1>7, <1>8, <1>9, <1>10, <1>11 DEF ShellStep

\* No step leaves MarkInv.
LEMMA MarkStep ==
  ASSUME MarkInv, [Next]_vars
  PROVE  MarkInv'
<1>1. PlayerInv'
  BY StepInv DEF MarkInv
<1>2. CASE Next
  <2>1. Mark'
    BY <1>2, CallbackKeepsMark, DecoderKeepsMark, ShellKeepsMark DEF Next
  <2> QED
    BY <1>1, <2>1 DEF MarkInv
<1>3. CASE UNCHANGED vars
  BY <1>1, <1>3 DEF MarkInv, Mark, vars, clock
<1> QED
  BY <1>2, <1>3

\* The rate is changed on the decoder's or the shell's initiative, or by the
\* callback.
LEMMA WhoSetsTheRate ==
  ASSUME MarkInv, [Next]_vars, current_frq' # current_frq, dec' = dec, ctl' = ctl
  PROVE  Callback
<1>1. ~RateSet
  BY Records DEF RateSet, MarkInv, PlayerInv, CtlRecords
<1>2. ~ \E f \in Frqs : DecodedInfo(f)
  BY DEF DecodedInfo
<1>3. ASSUME DecoderStep
      PROVE  FALSE
  BY <1>2, <1>3 DEF DecoderStep, Ready, Park, Wake, Decode, Decoded, DecodedEnd, End,
     Stop, Stopped, Exit, clock
<1>4. ASSUME Command
      PROVE  FALSE
  BY <1>4 DEF Command, CallStart, CallStop, CallShutdown, Pause, Fade, Unregister,
     Register, ctlOnly, clock
<1>5. ASSUME ShellStep
      PROVE  FALSE
  BY <1>1, <1>5 DEF ShellStep, Initialised, StopAlready, StopTest, StopAsk, StopWait,
     StopFlush, StopDrop, MarkRead, MarkStore, MarkNone, Begun, BeginFails, RateTest,
     Swap, Go, Signal, Release, Quit, Down, ctlOnly, clock
<1>6. ~ UNCHANGED vars
  BY DEF vars, clock
<1> QED
  BY <1>3, <1>4, <1>5, <1>6 DEF Next

\* MarkInv is an invariant of the player.
THEOREM MarkInvariant == Spec => []MarkInv
<1>1. Init => MarkInv
  <2>1. ASSUME Init
        PROVE  Mark
    BY <2>1 DEF Init, Mark, Called
  <2> QED
    BY <2>1, InitInv DEF MarkInv
<1> QED
  BY <1>1, MarkStep, PTL DEF Spec

\* The callback never sets the rate of the next music while a sample of an
\* earlier one is left in the fifo, whatever was started, stopped or failed in
\* between: the two halves of playa_start's mark and the callback's countdown
\* cannot drift apart.
THEOREM RateNeverEarly == Spec => NeverEarly
<1>1. ASSUME MarkInv, [Next]_vars, current_frq' # current_frq, dec' = dec, ctl' = ctl
      PROVE  \A i \in DOMAIN fifo' : fifo'[i] = current_frq'
  <2>1. Callback
    BY <1>1, WhoSetsTheRate
  <2> QED
    BY <1>1, <2>1, CallbackRate
<1>2. MarkInv /\ [Next]_vars
        => [current_frq' # current_frq /\ dec' = dec /\ ctl' = ctl
            => \A i \in DOMAIN fifo' : fifo'[i] = current_frq']_vars
  BY <1>1
<1> QED
  BY <1>2, MarkInvariant, PTL DEF Spec, NeverEarly
=============================================================================
