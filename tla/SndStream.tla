------------------------------ MODULE SndStream ------------------------------
(***************************************************************************)
(* The sound stream: src/sndstream.c on the SH-4 and the sound processor's   *)
(* own program, src/arm/main.c.  They share a mailbox of one command and the *)
(* position that is being played, both in sound memory.                      *)
(*                                                                          *)
(*  - The sound chip plays a ring of two halves.                             *)
(*  - The ARM loops: it serves a command, stores the position and waits.     *)
(*  - The stream thread polls the position and refills the half that was     *)
(*    left with the next block of samples.                                   *)
(*  - Any thread of the player posts a rate or a volume, under the mutex     *)
(*    that the refill takes too; the callback of the stream thread as well.  *)
(*                                                                          *)
(* The mutex is a spinlock, and the stream thread has the best priority      *)
(* (playa.c:250): the others run while it sleeps.                            *)
(*                                                                          *)
(* The position is abstracted to its half, time to ticks.  stream_stop and   *)
(* stream_stereo are left out: the program leaves by panic() (dreamcast68.c: *)
(* 891) and nobody sets the stereo mode.                                     *)
(***************************************************************************)
EXTENDS Integers

CONSTANTS
  Rates, Rate0,     \* rates, and that of stream_start
  Volumes, Volume0, \* volumes, likewise
  HalfTicks,   \* shortest time in which a half is played
  ArmTicks,    \* longest time between two stores of the position
  PollTicks,   \* longest time between two polls
  RefillTicks, \* longest time from a poll to the end of its refill
  NumBlocks,   \* blocks of samples are numbered modulo this
  PostPreempted \* may the stream thread wake while another one holds the mutex

ASSUME StreamAssumption ==
  /\ Rate0 \in Rates /\ Volume0 \in Volumes
  /\ {HalfTicks, ArmTicks, PollTicks, RefillTicks} \subseteq Nat \ {0}
  /\ NumBlocks \in Nat /\ NumBlocks > 2
  /\ PostPreempted \in BOOLEAN

\* What the threads' periods must add up to less than (see the README).
ASSUME InTime == ArmTicks + PollTicks + RefillTicks < HalfTicks

VARIABLES
  ram,   \* the block in each half of the ring
  mail,  \* chans[0].cmd, freq, vol and the KICK flag of *cmd
  pos,   \* the half in chans[0].pos
  chip,  \* is it playing, which half, for how long, and each channel's parameters
  arm,   \* the ARM's loop: pc and the command it serves
  curbuffer,
  poll,  \* where the stream thread is
  next,  \* the next block of the callback
  post,  \* the thread that posts a command: pc, is it the stream thread itself,
         \* and the command posted last
  armAge, pollAge \* time since the position was stored, and read

ages == <<armAge, pollAge>>
stream == <<ram, curbuffer, poll, next>>
vars == <<ram, mail, pos, chip, arm, curbuffer, poll, next, post, ages>>

Halves == {0, 1}
Torn == -1   \* a half that is being written
Other(h) == 1 - h

Letter(cmd, rate, vol) == [cmd |-> cmd, rate |-> rate, vol |-> vol]

Init ==
  /\ ram = [h \in Halves |-> Torn]
  /\ mail = [cmd |-> "NONE", rate |-> Rate0, vol |-> Volume0, kick |-> FALSE]
  /\ pos = 0
  /\ chip = [on |-> FALSE, half |-> 0, phase |-> 0,
             rate |-> [c \in Halves |-> Rate0], vol |-> [c \in Halves |-> Volume0]]
  /\ arm = [pc |-> "loop", cmd |-> "NONE"]
  /\ curbuffer = 0 /\ poll = "start" /\ next = 0
  /\ post = [pc |-> "idle", own |-> FALSE, letter |-> Letter("NONE", Rate0, Volume0)]
  /\ armAge = 0 /\ pollAge = 0

-----------------------------------------------------------------------------
\* Time and the sound chip.

\* A tick, unless somebody is late.
Tick ==
  /\ armAge < ArmTicks
  /\ poll # "start" => pollAge < (IF poll = "sleep" THEN PollTicks ELSE RefillTicks)
  /\ armAge' = armAge + 1
  /\ pollAge' = IF poll = "start" THEN 0 ELSE pollAge + 1
  /\ chip' = [chip EXCEPT !.phase = IF chip.on /\ @ < HalfTicks THEN @ + 1 ELSE @]
  /\ UNCHANGED <<stream, mail, pos, arm, post>>

\* The chip goes on with the other half; a lower rate takes longer.
Turn ==
  /\ chip.on /\ chip.phase = HalfTicks
  /\ chip' = [chip EXCEPT !.half = Other(@), !.phase = 0]
  /\ UNCHANGED <<stream, mail, pos, arm, post, ages>>

-----------------------------------------------------------------------------
\* The ARM: arm_main.

armUnchanged == UNCHANGED <<stream, post, pollAge>>

\* "Check for a command"
Check ==
  /\ arm.pc = "loop"
  /\ arm' = [arm EXCEPT !.pc = IF mail.kick THEN "clear" ELSE "store"]
  /\ UNCHANGED <<mail, pos, chip, armAge>> /\ armUnchanged

\* The flag is cleared before the command is read ...
Clear ==
  /\ arm.pc = "clear"
  /\ mail' = [mail EXCEPT !.kick = FALSE]
  /\ arm' = [arm EXCEPT !.pc = "fetch"]
  /\ UNCHANGED <<pos, chip, armAge>> /\ armUnchanged

\* ... by process_cmd.
Fetch ==
  /\ arm.pc = "fetch"
  /\ arm' = [pc |-> "left", cmd |-> mail.cmd]
  /\ UNCHANGED <<mail, pos, chip, armAge>> /\ armUnchanged

SetsRate == {"START", "FRQ"}
SetsVolume == {"START", "VOL"}

\* Parameters are read again for each of the two channels.
Tune(c) ==
  /\ arm.pc = IF c = 0 THEN "left" ELSE "right"
  /\ chip' = [chip EXCEPT !.rate[c] = IF arm.cmd \in SetsRate THEN mail.rate ELSE @,
                          !.vol[c] = IF arm.cmd \in SetsVolume THEN mail.vol ELSE @]
  /\ arm' = [arm EXCEPT !.pc = IF c = 0 THEN "right"
                               ELSE IF arm.cmd = "START" THEN "start" ELSE "store"]
  /\ UNCHANGED <<mail, pos, armAge>> /\ armUnchanged

\* aica_stream_start
StartChip ==
  /\ arm.pc = "start"
  /\ chip' = [chip EXCEPT !.on = TRUE, !.half = 0, !.phase = 0]
  /\ arm' = [arm EXCEPT !.pc = "store"]
  /\ UNCHANGED <<mail, pos, armAge>> /\ armUnchanged

Store_Clears ==
  /\ arm.pc = "store"
  /\ pos' = chip.half /\ armAge' = 0
  /\ mail' = [mail EXCEPT !.kick = FALSE]
  /\ arm' = [pc |-> "loop", cmd |-> "NONE"]
  /\ UNCHANGED chip /\ armUnchanged

Store_Never ==
  /\ arm.pc = "store"
  /\ armAge' = 0
  /\ arm' = [pc |-> "loop", cmd |-> "NONE"]
  /\ UNCHANGED <<mail, chip, pos>> /\ armUnchanged

\* "Update position counters"; the wait is up to the age.
Store ==
  /\ arm.pc = "store"
  /\ pos' = chip.half /\ armAge' = 0
  /\ arm' = [pc |-> "loop", cmd |-> "NONE"]
  /\ UNCHANGED <<mail, chip>> /\ armUnchanged

-----------------------------------------------------------------------------
\* The stream thread.

streamUnchanged == UNCHANGED <<pos, chip, arm, armAge>>

\* stream_start: both halves are filled before the command is kicked.  No other
\* thread posts yet (playa.c:468), and the ARM reads nothing before the kick.
Start ==
  /\ poll = "start"
  /\ ram' = [h \in Halves |-> h] /\ next' = 2 % NumBlocks /\ curbuffer' = 0
  /\ mail' = [cmd |-> "START", rate |-> Rate0, vol |-> Volume0, kick |-> TRUE]
  /\ post' = [post EXCEPT !.letter = Letter("START", Rate0, Volume0)]
  /\ poll' = "sleep" /\ pollAge' = 0
  /\ streamUnchanged

Poll_Current ==
  /\ poll = "sleep" /\ (post.pc # "idle" => PostPreempted)
  /\ pollAge' = 0
  /\ poll' = IF curbuffer = pos THEN "fetch" ELSE "sleep"
  /\ UNCHANGED <<ram, mail, curbuffer, next, post>> /\ streamUnchanged

\* The sleep ends.  stream_poll: "Has the channel moved on from the current buffer?"
Poll ==
  /\ poll = "sleep" /\ (post.pc # "idle" => PostPreempted)
  /\ pollAge' = 0
  /\ poll' = IF curbuffer = Other(pos) THEN "fetch" ELSE "sleep"
  /\ UNCHANGED <<ram, mail, curbuffer, next, post>> /\ streamUnchanged

\* The callback returns a block; the transfer begins under the mutex ...
Refill ==
  /\ poll \in {"fetch", "load"} /\ post.pc = "idle"
  /\ ram' = [ram EXCEPT ![curbuffer] = Torn]
  /\ poll' = "copy"
  /\ UNCHANGED <<mail, curbuffer, next, pollAge, post>> /\ streamUnchanged

Refilled_NoMask ==
  /\ poll = "copy"
  /\ ram' = [ram EXCEPT ![curbuffer] = next]
  /\ next' = (next + 1) % NumBlocks
  /\ curbuffer' = curbuffer + 1
  /\ poll' = "sleep"
  /\ UNCHANGED <<mail, pollAge, post>> /\ streamUnchanged

Refilled_SameHalf ==
  /\ poll = "copy"
  /\ ram' = [ram EXCEPT ![curbuffer] = next]
  /\ next' = (next + 1) % NumBlocks
  /\ poll' = "sleep"
  /\ UNCHANGED <<mail, curbuffer, pollAge, post>> /\ streamUnchanged

\* ... and is over.
Refilled ==
  /\ poll = "copy"
  /\ ram' = [ram EXCEPT ![curbuffer] = next]
  /\ next' = (next + 1) % NumBlocks
  /\ curbuffer' = Other(curbuffer)
  /\ poll' = "sleep"
  /\ UNCHANGED <<mail, pollAge, post>> /\ streamUnchanged

-----------------------------------------------------------------------------
\* A thread that posts, under the mutex: stream_frq and stream_volume.

postUnchanged == UNCHANGED <<stream, pos, chip, arm, ages>>

postOthers == UNCHANGED <<ram, curbuffer, next, pos, chip, arm, ages>>

\* The poster runs: it is the stream thread, or that one sleeps.
Running == post.own \/ poll = "sleep"

\* The command's number is stored first: by another thread, or by the callback, which
\* sets a rate at the start of a music, at most once for a block (playa.c:225) ...
Post(letter, own) ==
  /\ post.pc = "idle"
  /\ IF own THEN poll = "fetch" /\ letter.cmd = "FRQ" /\ poll' = "load"
            ELSE poll = "sleep" /\ UNCHANGED poll
  /\ mail' = [mail EXCEPT !.cmd = letter.cmd]
  /\ post' = [pc |-> "value", own |-> own, letter |-> letter]
  /\ postOthers

\* ... then its value ...
Value ==
  /\ post.pc = "value" /\ Running
  /\ mail' = IF post.letter.cmd = "FRQ" THEN [mail EXCEPT !.rate = post.letter.rate]
                                        ELSE [mail EXCEPT !.vol = post.letter.vol]
  /\ post' = [post EXCEPT !.pc = "kick"]
  /\ postUnchanged

\* ... and the flag last.
Kick ==
  /\ post.pc = "kick" /\ Running
  /\ mail' = [mail EXCEPT !.kick = TRUE]
  /\ post' = [post EXCEPT !.pc = "idle", !.own = FALSE]
  /\ postUnchanged

Letters == {Letter("FRQ", r, Volume0) : r \in Rates}
             \cup {Letter("VOL", Rate0, v) : v \in Volumes}

ArmStep == Check \/ Clear \/ Fetch \/ (\E c \in Halves : Tune(c)) \/ StartChip \/ Store
StreamStep == Start \/ Poll \/ Refill \/ Refilled
PostStep == Value \/ Kick

Next ==
  \/ Tick \/ Turn \/ ArmStep \/ StreamStep \/ PostStep
  \/ \E letter \in Letters, own \in BOOLEAN : Post(letter, own)

Spec == Init /\ [][Next]_vars

\* Time passes, the chip plays, the ARM and the threads go on whenever they may run.
\* The stream thread's sleep ends, however often others post (strong).  Nobody has
\* to post anything.
FairSpec ==
  /\ Spec
  /\ WF_vars(Tick) /\ WF_vars(Turn) /\ WF_vars(ArmStep) /\ WF_vars(PostStep)
  /\ WF_vars(Start) /\ SF_vars(Poll) /\ WF_vars(Refill) /\ WF_vars(Refilled)

-----------------------------------------------------------------------------
Blocks == 0 .. NumBlocks - 1
Commands == {"NONE", "START", "FRQ", "VOL"}
LetterSet == [cmd : Commands, rate : Rates, vol : Volumes]

ChipSet == [on : BOOLEAN, half : Halves, phase : 0 .. HalfTicks,
            rate : [Halves -> Rates], vol : [Halves -> Volumes]]

TypeOK ==
  /\ ram \in [Halves -> Blocks \cup {Torn}]
  /\ mail \in [cmd : Commands, rate : Rates, vol : Volumes, kick : BOOLEAN]
  /\ pos \in Halves /\ curbuffer \in Halves /\ next \in Blocks
  /\ chip \in ChipSet
  /\ arm \in [pc : {"loop", "clear", "fetch", "left", "right", "start", "store"},
              cmd : Commands]
  /\ poll \in {"start", "sleep", "fetch", "load", "copy"}
  /\ post \in [pc : {"idle", "value", "kick"}, own : BOOLEAN, letter : LetterSet]
  /\ armAge \in 0 .. ArmTicks /\ pollAge \in 0 .. PollTicks + RefillTicks

\* The half that is being refilled is not the one that is heard, although the
\* position the poll goes by is old (sndstream.c:310-337).
Untouched == poll = "copy" /\ chip.on => curbuffer # chip.half

After(b) == (b + 1) % NumBlocks

\* The blocks are heard one after the other, each once and whole.
InSequence ==
  [][chip'.half # chip.half => ram[chip'.half] = After(ram[chip.half])]_vars

\* What the chip does is what a command asked for, on both channels.
Served(letter) ==
  /\ letter.cmd \in SetsRate => \A c \in Halves : chip.rate[c] = letter.rate
  /\ letter.cmd \in SetsVolume => \A c \in Halves : chip.vol[c] = letter.vol
  /\ letter.cmd = "START" => chip.on

\* Commands may replace each other, for there is one word for all; but when the
\* mailbox is at rest the last one has been served, with its own value, although the
\* ARM reads it while it is written (arm/main.c:155-158, sndstream.c:344-358).
LastServed ==
  arm.pc \in {"loop", "store"} /\ ~mail.kick /\ post.pc = "idle" => Served(post.letter)

\* The last command arrives.
CommandArrives == <>[](post.pc = "idle") => <>[]Served(post.letter)

\* Once the chip plays, blocks are copied into the ring again and again: the stream
\* thread gets the mutex and a block each time.
Streams == chip.on ~> poll = "copy"

-----------------------------------------------------------------------------
\* What makes these properties inductive (module SndStreamProofs).

\* The chip is started once.
StartOnce ==
  /\ poll = "start" => /\ ~chip.on /\ ~mail.kick /\ mail.cmd = "NONE" /\ post.pc = "idle"
                       /\ arm.pc \in {"loop", "store"} /\ arm.cmd = "NONE"
  /\ mail.cmd = "START" /\ mail.kick => ~chip.on /\ arm.pc \in {"loop", "clear", "store"}
  /\ mail.cmd = "START" /\ arm.pc = "fetch" => ~chip.on
  /\ arm.cmd = "START" /\ arm.pc # "store" => ~chip.on
  /\ arm.pc \in {"loop", "clear", "fetch"} => arm.cmd = "NONE"
  /\ arm.pc = "start" => arm.cmd = "START"
  /\ post.pc # "idle" => post.letter.cmd \in {"FRQ", "VOL"}

\* The mailbox holds the command posted last, with its value once it is stored.
Mailed ==
  LET letter == post.letter IN
  /\ mail.cmd = letter.cmd
  /\ post.pc # "value" => /\ letter.cmd \in SetsRate => mail.rate = letter.rate
                          /\ letter.cmd \in SetsVolume => mail.vol = letter.vol

\* Unless its flag is still to be seen, the ARM is serving the last command or has.
BeingServed ==
  LET letter == post.letter
      On(c) == /\ letter.cmd \in SetsRate => chip.rate[c] = letter.rate
               /\ letter.cmd \in SetsVolume => chip.vol[c] = letter.vol IN
  /\ arm.pc = "clear" => mail.kick
  /\ post.pc = "idle" /\ ~mail.kick =>
       /\ arm.pc \in {"left", "right", "start"} => arm.cmd = letter.cmd
       /\ arm.pc = "right" => On(0)
       /\ arm.pc = "start" => On(0) /\ On(1)
       /\ arm.pc \in {"loop", "store"} => Served(letter)

\* How long the half that is played has been played, by what is known of it.
Schedule ==
  /\ ~chip.on => /\ pos = 0 /\ chip.half = 0 /\ chip.phase = 0 /\ curbuffer = 0
                 /\ poll \in {"start", "sleep"}
  /\ pos # chip.half => chip.phase <= armAge /\ curbuffer = pos
  /\ poll \in {"fetch", "load", "copy"} => pos = chip.half /\ curbuffer # pos
  /\ pos = chip.half /\ curbuffer # pos =>
       IF poll = "sleep"
         THEN \/ chip.phase <= ArmTicks
              \/ chip.phase <= ArmTicks + pollAge /\ pollAge <= PollTicks
         ELSE chip.phase <= ArmTicks + PollTicks + pollAge /\ pollAge <= RefillTicks

\* Which blocks the halves hold.
Filled ==
  poll # "start" =>
    LET now == ram[chip.half] IN
    /\ now \in Blocks
    /\ IF curbuffer = chip.half
         THEN ram[Other(curbuffer)] = After(now) /\ next = After(After(now))
         ELSE next = After(now)

StreamInv == TypeOK /\ StartOnce /\ Mailed /\ BeingServed /\ Schedule /\ Filled
=============================================================================
