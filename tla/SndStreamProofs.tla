--------------------------- MODULE SndStreamProofs ---------------------------
(***************************************************************************)
(* What module SndStream promises holds for any rates, volumes, numbering of *)
(* the blocks, and for any periods of the ARM, the stream thread and the     *)
(* chip that fit the assumption InTime.  The inductive invariant StreamInv   *)
(* adds to the properties who may start the chip, what the mailbox holds,    *)
(* what the ARM is about to do with it, how long the half that is played has *)
(* been played and which blocks the ring holds.                              *)
(***************************************************************************)
EXTENDS SndStream, TLAPS

\* The block that follows a block is a block.
LEMMA AfterBlock == \A b \in Blocks : After(b) \in Blocks
  BY StreamAssumption DEF Blocks, After

\* The first blocks of a ring follow each other.
LEMMA FirstBlocks == /\ {0, 1} \subseteq Blocks
                     /\ After(0) = 1 /\ After(1) = 2 % NumBlocks
  BY StreamAssumption DEF Blocks, After

\* The periods are natural numbers.
LEMMA Periods == /\ HalfTicks \in Nat \ {0} /\ ArmTicks \in Nat \ {0}
                 /\ PollTicks \in Nat \ {0} /\ RefillTicks \in Nat \ {0}
  BY StreamAssumption

-----------------------------------------------------------------------------
\* The initial state.

LEMMA InitInv == Init => StreamInv
<1> SUFFICES ASSUME Init PROVE StreamInv
  OBVIOUS
<1>1. TypeOK
  <2>1. 0 \in Blocks
    BY FirstBlocks
  <2> QED
    BY <2>1, StreamAssumption, Periods
       DEF Init, TypeOK, ChipSet, Letter, LetterSet, Commands, Halves, Torn
<1>2. StartOnce /\ Mailed /\ BeingServed
  BY DEF Init, StartOnce, Mailed, BeingServed, Served, Letter, SetsRate, SetsVolume
<1>3. Schedule /\ Filled
  BY DEF Init, Schedule, Filled
<1> QED
  BY <1>1, <1>2, <1>3 DEF StreamInv

-----------------------------------------------------------------------------
\* Every step keeps the types.

\* The letters that may be posted.
LEMMA LetterTypes == \A letter \in Letters :
  letter \in LetterSet /\ letter.cmd \in {"FRQ", "VOL"}
  BY StreamAssumption DEF Letters, LetterSet, Letter, Commands

LEMMA TypeStep == StreamInv /\ [Next]_vars => TypeOK'
<1> SUFFICES ASSUME StreamInv, [Next]_vars PROVE TypeOK'
  OBVIOUS
<1> USE DEF TypeOK, ChipSet, Halves, Other
<1> TypeOK
  BY DEF StreamInv
<1>1. CASE Tick
  BY <1>1, Periods DEF Tick, stream
<1>2. CASE Turn
  <2>1. 0 \in 0 .. HalfTicks /\ Other(chip.half) \in Halves
    BY Periods
  <2>2. chip' \in ChipSet
    BY <1>2, <2>1 DEF Turn
  <2> QED
    BY <1>2, <2>2 DEF Turn, stream, ages
<1>3. CASE Check \/ Clear \/ Fetch
  <2>1. CASE Check
    BY <2>1 DEF Check, armUnchanged, stream
  <2>2. CASE Clear
    BY <2>2 DEF Clear, armUnchanged, stream
  <2>3. CASE Fetch
    BY <2>3 DEF Fetch, armUnchanged, stream
  <2> QED
    BY <1>3, <2>1, <2>2, <2>3
<1>4. ASSUME NEW c \in Halves, Tune(c) PROVE TypeOK'
  <2>1. /\ chip'.on = chip.on /\ chip'.half = chip.half /\ chip'.phase = chip.phase
        /\ chip'.rate \in [Halves -> Rates] /\ chip'.vol \in [Halves -> Volumes]
    BY <1>4 DEF Tune
  <2>2. chip' \in ChipSet
    BY <1>4, <2>1 DEF Tune
  <2>3. UNCHANGED <<ram, mail, pos, curbuffer, next, poll, post, armAge, pollAge>>
    BY <1>4 DEF Tune, armUnchanged, stream
  <2>4. arm' \in [pc : {"loop", "clear", "fetch", "left", "right", "start", "store"},
                 cmd : Commands]
    BY <1>4 DEF Tune
  <2> QED
    BY <2>2, <2>3, <2>4
<1>5. CASE StartChip \/ Store
  <2>1. CASE StartChip
    <3>1. 0 \in 0 .. HalfTicks /\ 0 \in Halves
      BY Periods
    <3>2. chip' \in ChipSet
      BY <2>1, <3>1 DEF StartChip
    <3> QED
      BY <2>1, <3>2 DEF StartChip, armUnchanged, stream
  <2>2. CASE Store
    BY <2>2, Periods DEF Store, armUnchanged, stream, Commands
  <2> QED
    BY <1>5, <2>1, <2>2
<1>6. CASE Start
  <2>1. {0, 1} \subseteq Blocks /\ 2 % NumBlocks \in Blocks
    BY FirstBlocks, AfterBlock
  <2> QED
    BY <1>6, <2>1, StreamAssumption, Periods
       DEF Start, streamUnchanged, Letter, LetterSet, Commands
<1>7. CASE Poll \/ Refill
  BY <1>7, Periods DEF Poll, Refill, streamUnchanged
<1>8. CASE Refilled
  <2>1. (next + 1) % NumBlocks \in Blocks
    BY AfterBlock DEF After
  <2> QED
    BY <1>8, <2>1 DEF Refilled, streamUnchanged
<1>9. CASE PostStep
  <2>1. CASE Value
    BY <2>1 DEF Value, postUnchanged, stream, ages, LetterSet
  <2>2. CASE Kick
    BY <2>2 DEF Kick, postUnchanged, stream, ages, LetterSet
  <2> QED
    BY <1>9, <2>1, <2>2 DEF PostStep
<1>10. ASSUME NEW letter \in Letters, NEW own \in BOOLEAN, Post(letter, own)
        PROVE TypeOK'
  BY <1>10, LetterTypes DEF Post, postOthers, ages, LetterSet
<1>11. CASE UNCHANGED vars
  BY <1>11 DEF vars, ages
<1> QED
  BY <1>1, <1>2, <1>3, <1>4, <1>5, <1>6, <1>7, <1>8, <1>9, <1>10, <1>11
     DEF Next, ArmStep, StreamStep

-----------------------------------------------------------------------------
\* Every step keeps the rest of the invariant.

\* The chip is started once: only stream_start kicks START, and later commands
\* replace it in the mailbox.
LEMMA StartOnceStep == StreamInv /\ [Next]_vars => StartOnce'
<1> SUFFICES ASSUME StreamInv, [Next]_vars PROVE StartOnce'
  OBVIOUS
<1> USE DEF TypeOK, ChipSet, StartOnce
<1> TypeOK /\ StartOnce /\ Mailed /\ (arm.pc = "clear" => mail.kick)
  BY DEF StreamInv, BeingServed
<1>1. CASE Tick \/ Turn
  BY <1>1 DEF Tick, Turn, stream, ages
<1>2. CASE Check \/ Clear \/ Fetch
  BY <1>2 DEF Check, Clear, Fetch, armUnchanged, stream
<1>3. ASSUME NEW c \in Halves, Tune(c) PROVE StartOnce'
  BY <1>3 DEF Tune, armUnchanged, stream
<1>4. CASE StartChip \/ Store
  BY <1>4 DEF StartChip, Store, armUnchanged, stream
<1>5. CASE Start
  BY <1>5 DEF Start, streamUnchanged
<1>6. CASE Poll \/ Refill \/ Refilled
  BY <1>6 DEF Poll, Refill, Refilled, streamUnchanged
<1>7. CASE PostStep
  <2>1. CASE Value
    BY <2>1 DEF Value, postUnchanged, stream, Mailed
  <2>2. CASE Kick
    BY <2>2 DEF Kick, postUnchanged, stream, Mailed
  <2> QED
    BY <1>7, <2>1, <2>2 DEF PostStep
<1>8. ASSUME NEW letter \in Letters, NEW own \in BOOLEAN, Post(letter, own)
        PROVE StartOnce'
  BY <1>8, LetterTypes DEF Post, postOthers, ages
<1>9. CASE UNCHANGED vars
  BY <1>9 DEF vars
<1> QED
  BY <1>1, <1>2, <1>3, <1>4, <1>5, <1>6, <1>7, <1>8, <1>9
     DEF Next, ArmStep, StreamStep

\* The mailbox holds the command posted last.
LEMMA MailedStep == StreamInv /\ [Next]_vars => Mailed'
<1> SUFFICES ASSUME StreamInv, [Next]_vars PROVE Mailed'
  OBVIOUS
<1> USE DEF TypeOK, ChipSet, Mailed, SetsRate, SetsVolume
<1> TypeOK /\ StartOnce /\ Mailed
  BY DEF StreamInv
<1>1. CASE Tick \/ Turn
  BY <1>1 DEF Tick, Turn, stream, ages
<1>2. CASE Check \/ Clear \/ Fetch \/ StartChip \/ Store
  BY <1>2 DEF Check, Clear, Fetch, StartChip, Store, armUnchanged, stream
<1>3. ASSUME NEW c \in Halves, Tune(c) PROVE Mailed'
  BY <1>3 DEF Tune, armUnchanged, stream
<1>4. CASE Start
  BY <1>4 DEF Start, streamUnchanged, Letter
<1>5. CASE Poll \/ Refill \/ Refilled
  BY <1>5 DEF Poll, Refill, Refilled, streamUnchanged
<1>6. CASE PostStep
  <2>1. CASE Value
    <3>1. post'.letter = post.letter /\ post'.pc = "kick" /\ mail'.cmd = mail.cmd
      BY <2>1 DEF Value
    <3>2. post.letter.cmd \in {"FRQ", "VOL"} /\ mail.cmd = post.letter.cmd
      BY <2>1 DEF Value, StartOnce
    <3>3. /\ post.letter.cmd = "FRQ" => mail'.rate = post.letter.rate
          /\ post.letter.cmd = "VOL" => mail'.vol = post.letter.vol
      BY <2>1 DEF Value
    <3> QED
      BY <3>1, <3>2, <3>3
  <2>2. CASE Kick
    BY <2>2 DEF Kick, postUnchanged
  <2> QED
    BY <1>6, <2>1, <2>2 DEF PostStep
<1>7. ASSUME NEW letter \in Letters, NEW own \in BOOLEAN, Post(letter, own)
        PROVE Mailed'
  BY <1>7, LetterTypes DEF Post, postOthers, ages
<1>8. CASE UNCHANGED vars
  BY <1>8 DEF vars
<1> QED
  BY <1>1, <1>2, <1>3, <1>4, <1>5, <1>6, <1>7, <1>8 DEF Next, ArmStep, StreamStep

\* Whatever is posted meanwhile, the ARM serves the last command.
LEMMA BeingServedStep == StreamInv /\ [Next]_vars => BeingServed'
<1> SUFFICES ASSUME StreamInv, [Next]_vars PROVE BeingServed'
  OBVIOUS
<1> USE DEF TypeOK, ChipSet, BeingServed, Served, SetsRate, SetsVolume, Halves
<1> TypeOK /\ StartOnce /\ Mailed /\ BeingServed
  BY DEF StreamInv
<1>1. CASE Tick \/ Turn
  <2>1. CASE Tick
    BY <2>1 DEF Tick, stream
  <2>2. CASE Turn
    BY <2>2 DEF Turn, stream, ages
  <2> QED
    BY <1>1, <2>1, <2>2
<1>2. CASE Check \/ Clear
  BY <1>2 DEF Check, Clear, armUnchanged, stream
<1>3. CASE Fetch
  BY <1>3 DEF Fetch, armUnchanged, stream, Mailed
<1>4. CASE Tune(0)
  BY <1>4 DEF Tune, armUnchanged, stream, Mailed
<1>5. CASE Tune(1)
  BY <1>5 DEF Tune, armUnchanged, stream, Mailed
<1>6. CASE StartChip \/ Store
  <2>1. CASE StartChip
    BY <2>1 DEF StartChip, armUnchanged, stream
  <2>2. CASE Store
    BY <2>2 DEF Store, armUnchanged, stream
  <2> QED
    BY <1>6, <2>1, <2>2
<1>7. CASE Start
  BY <1>7 DEF Start, streamUnchanged, StartOnce
<1>8. CASE Poll \/ Refill \/ Refilled
  BY <1>8 DEF Poll, Refill, Refilled, streamUnchanged
<1>9. CASE PostStep
  BY <1>9 DEF PostStep, Value, Kick, postUnchanged, stream, ages
<1>10. ASSUME NEW letter \in Letters, NEW own \in BOOLEAN, Post(letter, own)
        PROVE BeingServed'
  BY <1>10 DEF Post, postOthers, ages
<1>11. CASE UNCHANGED vars
  BY <1>11 DEF vars
<1> QED
  BY <1>1, <1>2, <1>3, <1>4, <1>5, <1>6, <1>7, <1>8, <1>9, <1>10, <1>11
     DEF Next, ArmStep, StreamStep

\* The chip turns only when the last refill is over and the next is not due.
LEMMA TurnInTime == StreamInv /\ Turn =>
  pos = chip.half /\ curbuffer = chip.half /\ poll = "sleep"
<1> SUFFICES ASSUME StreamInv, Turn
             PROVE pos = chip.half /\ curbuffer = chip.half /\ poll = "sleep"
  OBVIOUS
<1> /\ TypeOK /\ Schedule /\ chip.on /\ chip.phase = HalfTicks /\ poll # "start"
  BY DEF StreamInv, StartOnce, Turn
<1> /\ armAge \in Nat /\ armAge <= ArmTicks
    /\ pollAge \in Nat
  BY Periods DEF TypeOK, ChipSet
<1>1. pos = chip.half
  BY InTime, Periods DEF Schedule
<1>2. curbuffer = pos
  BY <1>1, InTime, Periods DEF Schedule
<1> QED
  BY <1>1, <1>2 DEF Schedule, TypeOK, ChipSet

\* A half is played no longer than what the last position read and the last poll allow.
LEMMA ScheduleStep == StreamInv /\ [Next]_vars => Schedule'
<1> SUFFICES ASSUME StreamInv, [Next]_vars PROVE Schedule'
  OBVIOUS
<1> USE Periods DEF TypeOK, ChipSet, Schedule, Halves
<1> TypeOK /\ StartOnce /\ Schedule
  BY DEF StreamInv
<1>1. CASE Tick
  <2> poll = "start" => ~chip.on
    BY DEF StartOnce
  <2> QED
    BY <1>1 DEF Tick, stream
<1>2. CASE Turn
  BY <1>2, TurnInTime DEF Turn, stream, ages, Other
<1>3. CASE Check \/ Clear \/ Fetch
  BY <1>3 DEF Check, Clear, Fetch, armUnchanged, stream
<1>4. ASSUME NEW c \in Halves, Tune(c) PROVE Schedule'
  BY <1>4 DEF Tune, armUnchanged, stream
<1>5. CASE StartChip
  BY <1>5 DEF StartChip, armUnchanged, stream, StartOnce
<1>6. CASE Store
  <2> poll = "start" => ~chip.on
    BY DEF StartOnce
  <2> QED
    BY <1>6 DEF Store, armUnchanged, stream
<1>7. CASE Start
  BY <1>7 DEF Start, streamUnchanged, StartOnce
<1>8. CASE Poll
  BY <1>8 DEF Poll, streamUnchanged, Other
<1>9. CASE Refill \/ Refilled
  BY <1>9 DEF Refill, Refilled, streamUnchanged, Other
<1>10. CASE PostStep
  BY <1>10 DEF PostStep, Value, Kick, postUnchanged, stream, ages
<1>11. ASSUME NEW letter \in Letters, NEW own \in BOOLEAN, Post(letter, own)
        PROVE Schedule'
  BY <1>11 DEF Post, postOthers, ages
<1>12. CASE UNCHANGED vars
  BY <1>12 DEF vars, ages
<1> QED
  BY <1>1, <1>2, <1>3, <1>4, <1>5, <1>6, <1>7, <1>8, <1>9, <1>10, <1>11, <1>12
     DEF Next, ArmStep, StreamStep

\* The half that is played holds a block, the other one the block that follows it, or
\* that block is the next one of the callback.
LEMMA FilledStep == StreamInv /\ [Next]_vars => Filled'
<1> SUFFICES ASSUME StreamInv, [Next]_vars PROVE Filled'
  OBVIOUS
<1> USE DEF TypeOK, ChipSet, Filled, Halves, Other
<1> TypeOK /\ StartOnce /\ Schedule /\ Filled
  BY DEF StreamInv
<1>1. CASE Tick
  BY <1>1 DEF Tick, stream
<1>2. CASE Turn
  BY <1>2, TurnInTime, AfterBlock DEF Turn, stream
<1>3. CASE Check \/ Clear \/ Fetch \/ Store
  BY <1>3 DEF Check, Clear, Fetch, Store, armUnchanged, stream
<1>4. ASSUME NEW c \in Halves, Tune(c) PROVE Filled'
  BY <1>4 DEF Tune, armUnchanged, stream
<1>5. CASE StartChip
  BY <1>5 DEF StartChip, armUnchanged, stream, StartOnce, Schedule
<1>6. CASE Start
  BY <1>6, FirstBlocks DEF Start, streamUnchanged, StartOnce, Schedule
<1>7. CASE Poll
  BY <1>7 DEF Poll, streamUnchanged
<1>8. CASE Refill
  BY <1>8 DEF Refill, streamUnchanged, Schedule
<1>9. CASE Refilled
  <2>1. next' = After(next)
    BY <1>9 DEF Refilled, After
  <2>2. curbuffer # chip.half /\ next = After(ram[chip.half]) /\ ram[chip.half] \in Blocks
    BY <1>9 DEF Refilled, Schedule
  <2> QED
    BY <1>9, <2>1, <2>2 DEF Refilled, streamUnchanged
<1>10. CASE PostStep
  BY <1>10 DEF PostStep, Value, Kick, postUnchanged, stream, ages
<1>11. ASSUME NEW letter \in Letters, NEW own \in BOOLEAN, Post(letter, own)
        PROVE Filled'
  BY <1>11 DEF Post, postOthers, ages
<1>12. CASE UNCHANGED vars
  BY <1>12 DEF vars
<1> QED
  BY <1>1, <1>2, <1>3, <1>4, <1>5, <1>6, <1>7, <1>8, <1>9, <1>10, <1>11, <1>12
     DEF Next, ArmStep, StreamStep

LEMMA NextInv == StreamInv /\ [Next]_vars => StreamInv'
  BY TypeStep, StartOnceStep, MailedStep, BeingServedStep, ScheduleStep, FilledStep
     DEF StreamInv

THEOREM Invariance == Spec => []StreamInv
  BY InitInv, NextInv, PTL DEF Spec

-----------------------------------------------------------------------------
\* The theorems.

\* The variables of both programs keep their types: curbuffer is masked, ages are bounded.
THEOREM TypeCorrect == Spec => []TypeOK
<1>1. StreamInv => TypeOK
  BY DEF StreamInv
<1> QED
  BY <1>1, Invariance, PTL

\* stream_poll never writes into the half that is heard.
THEOREM HeardUntouched == Spec => []Untouched
<1>1. StreamInv => Untouched
  BY DEF StreamInv, Schedule, Untouched
<1> QED
  BY <1>1, Invariance, PTL

\* A mailbox at rest means that the last command has been served on both channels.
THEOREM CommandServed == Spec => []LastServed
<1>1. StreamInv => LastServed
  BY DEF StreamInv, BeingServed, LastServed, Served
<1> QED
  BY <1>1, Invariance, PTL

\* When the chip goes on with the other half, that half holds the block that follows.
LEMMA NextBlock == StreamInv /\ [Next]_vars =>
  (chip'.half # chip.half => ram[chip'.half] = After(ram[chip.half]))
<1> SUFFICES ASSUME StreamInv, [Next]_vars, chip'.half # chip.half
             PROVE ram[chip'.half] = After(ram[chip.half])
  OBVIOUS
<1> TypeOK /\ StartOnce /\ Schedule /\ Filled
  BY DEF StreamInv
<1>1. CASE Turn
  BY <1>1, TurnInTime DEF Turn, Filled, TypeOK, ChipSet
<1>2. CASE StartChip
  BY <1>2 DEF StartChip, StartOnce, Schedule, TypeOK, ChipSet
<1>3. CASE Tick \/ (\E c \in Halves : Tune(c))
  <2>1. CASE Tick
    BY <2>1 DEF Tick, TypeOK, ChipSet
  <2>2. ASSUME NEW c \in Halves, Tune(c) PROVE chip'.half = chip.half
    BY <2>2 DEF Tune, TypeOK, ChipSet
  <2> QED
    BY <1>3, <2>1, <2>2
<1>4. CASE Check \/ Clear \/ Fetch \/ Store \/ StreamStep
  BY <1>4 DEF Check, Clear, Fetch, Store, StreamStep, Start, Poll, Refill, Refilled,
              streamUnchanged
<1>5. CASE PostStep \/ (\E letter \in Letters, own \in BOOLEAN : Post(letter, own))
  BY <1>5 DEF PostStep, Value, Kick, Post, postUnchanged, postOthers
<1>6. CASE UNCHANGED vars
  BY <1>6 DEF vars
<1> QED
  BY <1>1, <1>2, <1>3, <1>4, <1>5, <1>6 DEF Next, ArmStep

\* The callback's blocks are heard in order, each once and whole.
THEOREM HeardInOrder == Spec => InSequence
<1>1. StreamInv /\ [Next]_vars
        => [chip'.half # chip.half => ram[chip'.half] = After(ram[chip.half])]_vars
  BY NextBlock
<1> QED
  BY <1>1, Invariance, PTL DEF Spec, InSequence
=============================================================================
