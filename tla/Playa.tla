-------------------------------- MODULE Playa --------------------------------
(***************************************************************************)
(* The music player (src/playa.c).  Three threads share plain variables:    *)
(*                                                                          *)
(*  - the decoder thread runs the status machine of real_playa_update and   *)
(*    calls the current input driver;                                       *)
(*  - the shell thread calls playa_start, playa_stop, playa_pause, ...      *)
(*    (one call at a time: every one of them comes from a Lua command);     *)
(*  - the sndstream thread runs sndstream_callback.  No other thread runs   *)
(*    while it does (module Fifo), so that the callback is one action.      *)
(*                                                                          *)
(* A sample in the fifo is represented by the sampling rate it was decoded  *)
(* for.  Input drivers are plugins: what they do is nondeterministic.       *)
(***************************************************************************)
EXTENDS Integers, Sequences

CONSTANTS
  Drivers,    \* input drivers
  NoDriver,   \* the null pointer
  Frqs,       \* sampling rates
  FirstFrq,   \* 44100, the rate the stream is started with
  FifoMax,    \* most samples the fifo holds
  MaxBlock,   \* most samples one decode() writes
  Chunk,      \* samples one callback asks for
  MaxSignals  \* bound: no start is called with this many signals pending

ASSUME PlayaAssumption ==
  /\ NoDriver \notin Drivers
  /\ Frqs \subseteq Nat \ {0} /\ FirstFrq \in Frqs
  /\ FifoMax \in Nat \ {0} /\ MaxBlock \in Nat \ {0} /\ Chunk \in Nat \ {0}
  /\ MaxSignals \in Nat \ {0}

VARIABLES
  status,     \* playastatus
  haltsem,    \* count of playa_haltsem
  driver,     \* driver
  count,      \* common.count of each driver
  registered, \* the drivers in inp_drivers
  paused,     \* playa_paused
  fade_v,     \* is fade_v > 0 (0 mutes the output)
  fade_ms,    \* sign of fade_ms: the fade that is going on
  fifo,       \* samples written and not yet played
  play_samples_start, \* samples left before the music that was started last
  current_frq, next_frq,
  rate,       \* rate of what the driver decodes, 0 when nothing is started
  dec,        \* the decoder thread
  ctl         \* the shell thread

audio == <<paused, fade_v, fade_ms>>
clock == <<play_samples_start, current_frq, next_frq>>
vars == <<status, haltsem, driver, count, registered, audio, fifo, clock, rate,
          dec, ctl>>

\* The shell thread at pc, inside a call with its arguments and locals.
Called(pc, call, d, flush) ==
  [pc |-> pc, call |-> call, d |-> d, flush |-> flush, used |-> 0]

Init ==
  /\ status = "INIT"
  /\ haltsem = 0
  /\ driver = NoDriver
  /\ registered = Drivers
  /\ count = [d \in Drivers |-> 1]
  /\ paused = FALSE /\ fade_v = FALSE /\ fade_ms = 0
  /\ fifo = <<>>
  /\ play_samples_start = 0 /\ current_frq = FirstFrq /\ next_frq = 0
  /\ rate = 0
  /\ dec = [pc |-> "loop", d |-> NoDriver]
  /\ ctl = Called("init", "none", NoDriver, FALSE)

AtMost(n, most) == IF n > most THEN most ELSE n

\* driver_reference and driver_dereference; a null driver is left alone.
Referenced(c, d) == IF d = NoDriver THEN c ELSE [c EXCEPT ![d] = @ + 1]
Dereferenced(c, d) == IF d = NoDriver THEN c ELSE [c EXCEPT ![d] = @ - 1]

-----------------------------------------------------------------------------
\* sndstream_callback

\* fade(): a step of the fade in progress; its last one clears fade_ms.
FadeStep ==
  \/ fade_ms = 0 /\ UNCHANGED <<fade_v, fade_ms>>
  \/ fade_ms = 1 /\ fade_v' = TRUE /\ fade_ms' \in {0, 1}
  \/ fade_ms = -1 /\ fade_v' \in {FALSE, fade_v}
                  /\ fade_ms' = IF fade_v' THEN -1 ELSE 0

\* What the callback takes out of the fifo: nothing once a pause has faded out.
Taken == IF paused /\ ~fade_v THEN 0 ELSE AtMost(Chunk, Len(fifo))

\* "We reach the new music in the fifo": more was taken than was left before it.
Reached_NextChunk == play_samples_start > 0 /\ play_samples_start - Taken < Chunk
Reached == play_samples_start > 0 /\ play_samples_start - Taken < 0

Callback ==
  /\ ctl.pc # "down"
  /\ fifo' = SubSeq(fifo, Taken + 1, Len(fifo))
  /\ play_samples_start' = IF play_samples_start > Taken
                             THEN play_samples_start - Taken ELSE 0
  /\ current_frq' = IF Reached THEN next_frq ELSE current_frq
  /\ FadeStep
  /\ UNCHANGED <<status, haltsem, driver, count, registered, paused, next_frq,
                 rate, dec, ctl>>

-----------------------------------------------------------------------------
\* The decoder thread: playadecoder_thread and real_playa_update.

decoderUnchanged == UNCHANGED <<driver, count, registered, audio, ctl>>

Ready ==
  /\ dec.pc = "loop" /\ status = "INIT"
  /\ status' = "READY"
  /\ UNCHANGED <<haltsem, fifo, clock, rate, dec>> /\ decoderUnchanged

\* READY was seen: sem_wait(playa_haltsem)
Park ==
  /\ dec.pc = "loop" /\ status = "READY"
  /\ dec' = [dec EXCEPT !.pc = "waiting"]
  /\ UNCHANGED <<status, haltsem, fifo, clock, rate>> /\ decoderUnchanged

Wake ==
  /\ dec.pc = "waiting" /\ haltsem > 0
  /\ haltsem' = haltsem - 1
  /\ dec' = [dec EXCEPT !.pc = "loop"]
  /\ UNCHANGED <<status, fifo, clock, rate>> /\ decoderUnchanged

\* PLAYING: decode() is called unless there is no driver, which is an error, or
\* no room, which is nothing to do.
Decode ==
  /\ dec.pc = "loop" /\ status = "PLAYING"
  /\ driver = NoDriver \/ Len(fifo) < FifoMax
  /\ dec' = IF driver = NoDriver THEN [dec EXCEPT !.pc = "ended"]
                                 ELSE [pc |-> "decode", d |-> driver]
  /\ UNCHANGED <<status, haltsem, fifo, clock, rate>> /\ decoderUnchanged

\* decode() returns, having written some samples (INP_DECODE_CONT) or none.
Decoded(n) ==
  /\ dec.pc = "decode"
  /\ fifo' = fifo \o [i \in 1 .. AtMost(n, FifoMax - Len(fifo)) |-> rate]
  /\ dec' = [pc |-> "loop", d |-> NoDriver]
  /\ UNCHANGED <<status, haltsem, clock, rate>> /\ decoderUnchanged

\* decode() returns INP_DECODE_INFO with another sampling rate.
DecodedInfo(f) ==
  /\ dec.pc = "decode"
  /\ rate' = f
  /\ IF f # next_frq THEN next_frq' = f /\ current_frq' = f
                     ELSE UNCHANGED <<next_frq, current_frq>>
  /\ dec' = [pc |-> "loop", d |-> NoDriver]
  /\ UNCHANGED <<status, haltsem, fifo, play_samples_start>> /\ decoderUnchanged

\* decode() returns INP_DECODE_END or INP_DECODE_ERROR ...
DecodedEnd ==
  /\ dec.pc = "decode"
  /\ dec' = [pc |-> "ended", d |-> NoDriver]
  /\ UNCHANGED <<status, haltsem, fifo, clock, rate>> /\ decoderUnchanged

\* ... and STOPPING is stored, whatever the status has become.
End ==
  /\ dec.pc = "ended"
  /\ status' = "STOPPING"
  /\ dec' = [dec EXCEPT !.pc = "loop"]
  /\ UNCHANGED <<haltsem, fifo, clock, rate>> /\ decoderUnchanged

\* STOPPING was seen: driver->stop() is called ...
Stop ==
  /\ dec.pc = "loop" /\ status = "STOPPING"
  /\ dec' = [pc |-> "stop", d |-> driver]
  /\ UNCHANGED <<status, haltsem, fifo, clock, rate>> /\ decoderUnchanged

\* ... and READY stored, whatever the status has become.
Stopped ==
  /\ dec.pc = "stop"
  /\ status' = "READY"
  /\ rate' = 0
  /\ dec' = [pc |-> "loop", d |-> NoDriver]
  /\ UNCHANGED <<haltsem, fifo, clock>> /\ decoderUnchanged

Exit ==
  /\ dec.pc = "loop" /\ status = "QUIT"
  /\ status' = "ZOMBIE"
  /\ dec' = [dec EXCEPT !.pc = "exited"]
  /\ UNCHANGED <<haltsem, fifo, clock, rate>> /\ decoderUnchanged

DecoderStep ==
  \/ Ready \/ Park \/ Wake
  \/ Decode \/ (\E n \in 0..MaxBlock : Decoded(n)) \/ DecodedEnd \/ End
  \/ (\E f \in Frqs : DecodedInfo(f))
  \/ Stop \/ Stopped \/ Exit

-----------------------------------------------------------------------------
\* The shell thread.

ctlOnly == UNCHANGED <<haltsem, driver, count, registered, audio, fifo, clock,
                       rate, dec>>

\* The end of playa_init: wait_playastatus(PLAYA_STATUS_READY)
Initialised ==
  /\ ctl.pc = "init" /\ status = "READY"
  /\ ctl' = [ctl EXCEPT !.pc = "idle"]
  /\ UNCHANGED status /\ ctlOnly

\* playa_start begins: inp_driver_list_search_by_extension references what it
\* finds; a driver is left to be found for a file of unknown extension.  A
\* start while paused is immediate.
CallStart(d, immediat) ==
  /\ ctl.pc = "idle"
  /\ haltsem < MaxSignals
  /\ count' = Referenced(count, d)
  /\ ctl' = Called("stop", "start", d, immediat \/ paused)
  /\ UNCHANGED <<status, haltsem, driver, registered, audio, fifo, clock, rate, dec>>

CallStop(flush) ==
  /\ ctl.pc = "idle"
  /\ ctl' = Called("stop", "stop", NoDriver, flush)
  /\ UNCHANGED status /\ ctlOnly

CallShutdown ==
  /\ ctl.pc = "idle"
  /\ ctl' = Called("stop", "shutdown", NoDriver, TRUE)
  /\ UNCHANGED status /\ ctlOnly

Pause(v) ==
  /\ ctl.pc = "idle"
  /\ paused' = v
  /\ fade_ms' = IF v THEN -1 ELSE 1
  /\ UNCHANGED <<status, haltsem, driver, count, registered, fade_v, fifo, clock,
                 rate, dec, ctl>>

Fade(ms) ==
  /\ ctl.pc = "idle"
  /\ fade_ms' = ms
  /\ UNCHANGED <<status, haltsem, driver, count, registered, paused, fade_v, fifo,
                 clock, rate, dec, ctl>>

\* The call is over.
Returned == Called("idle", "none", NoDriver, FALSE)

\* What playa_stop returns to.
AfterStop == CASE ctl.call = "start" -> [ctl EXCEPT !.pc = "mark"]
               [] ctl.call = "shutdown" -> [ctl EXCEPT !.pc = "quit"]
               [] OTHER -> Returned

\* playa_stop: "Already stopped"
StopAlready ==
  /\ ctl.pc = "stop" /\ status = "READY"
  /\ ctl' = AfterStop
  /\ UNCHANGED status /\ ctlOnly

StopTest ==
  /\ ctl.pc = "stop" /\ status # "READY"
  /\ ctl' = [ctl EXCEPT !.pc = "stop_ask"]
  /\ UNCHANGED status /\ ctlOnly

\* "Ask thread to stop"
StopAsk ==
  /\ ctl.pc = "stop_ask"
  /\ status' = "STOPPING"
  /\ ctl' = [ctl EXCEPT !.pc = "stop_wait"]
  /\ ctlOnly

StopWait_Not ==
  /\ ctl.pc = "stop_wait"
  /\ ctl' = [ctl EXCEPT !.pc = "stop_flush"]
  /\ UNCHANGED status /\ ctlOnly

StopWait ==
  /\ ctl.pc = "stop_wait" /\ status = "READY"
  /\ ctl' = [ctl EXCEPT !.pc = "stop_flush"]
  /\ UNCHANGED status /\ ctlOnly

\* "If flush or paused, clean PCM FIFO"
StopFlush ==
  /\ ctl.pc = "stop_flush"
  /\ IF ctl.flush \/ paused
       THEN /\ fifo' = <<>>
            /\ play_samples_start' = 0
            /\ fade_ms' = 0 /\ fade_v' = FALSE
       ELSE UNCHANGED <<fifo, play_samples_start, fade_ms, fade_v>>
  /\ ctl' = [ctl EXCEPT !.pc = "stop_drop"]
  /\ UNCHANGED <<status, haltsem, driver, count, registered, paused, current_frq,
                 next_frq, rate, dec>>

StopDrop_Keep ==
  /\ ctl.pc = "stop_drop"
  /\ driver' = NoDriver
  /\ ctl' = AfterStop
  /\ UNCHANGED <<status, haltsem, count, registered, audio, fifo, clock, rate, dec>>

StopDrop ==
  /\ ctl.pc = "stop_drop"
  /\ count' = Dereferenced(count, driver)
  /\ driver' = NoDriver
  /\ ctl' = AfterStop
  /\ UNCHANGED <<status, haltsem, registered, audio, fifo, clock, rate, dec>>

-----------------------------------------------------------------------------
\* The rest of playa_start.

\* fifo_used() is read; an immediate start forgets what was counted.
MarkRead ==
  /\ ctl.pc = "mark" /\ ~ctl.flush
  /\ ctl' = [ctl EXCEPT !.pc = "mark_store", !.used = Len(fifo)]
  /\ UNCHANGED status /\ ctlOnly

MarkStore ==
  /\ ctl.pc = "mark_store"
  /\ play_samples_start' = ctl.used
  /\ ctl' = [ctl EXCEPT !.pc = "begin", !.used = 0]
  /\ UNCHANGED <<status, haltsem, driver, count, registered, audio, fifo,
                 current_frq, next_frq, rate, dec>>

MarkNone ==
  /\ ctl.pc = "mark" /\ ctl.flush
  /\ play_samples_start' = 0
  /\ fade_ms' = 1 /\ fade_v' = FALSE
  /\ ctl' = [ctl EXCEPT !.pc = "begin", !.flush = FALSE]
  /\ UNCHANGED <<status, haltsem, driver, count, registered, paused, fifo,
                 current_frq, next_frq, rate, dec>>

\* d->start(): pc is "begin" while it runs.  Without a driver for the extension
\* the drivers that take any file are tried under the lock of the list, and
\* the one that starts is referenced then.
Begun(f) ==
  /\ ctl.pc = "begin"
  /\ rate' = f
  /\ \/ /\ ctl.d # NoDriver
        /\ ctl' = [ctl EXCEPT !.pc = "rate"]
        /\ UNCHANGED count
     \/ \E d \in registered :
          /\ ctl.d = NoDriver
          /\ count' = Referenced(count, d)
          /\ ctl' = [ctl EXCEPT !.pc = "rate", !.d = d]
  /\ UNCHANGED <<status, haltsem, driver, registered, audio, fifo, clock, dec>>

\* start() fails, or no driver takes the file.
BeginFails ==
  /\ ctl.pc = "begin"
  /\ ctl' = [ctl EXCEPT !.pc = "release"]
  /\ UNCHANGED status /\ ctlOnly

\* "Set sampling rate for next music": at once, or when the callback is there.
\* The test comes first ...
RateTest ==
  /\ ctl.pc = "rate"
  /\ ctl' = [ctl EXCEPT !.pc = IF play_samples_start > 0 THEN "rate_next" ELSE "rate_now"]
  /\ UNCHANGED status /\ ctlOnly

\* ... then the rates are stored.
RateSet ==
  /\ ctl.pc \in {"rate_next", "rate_now"}
  /\ next_frq' = rate
  /\ current_frq' = IF ctl.pc = "rate_now" THEN rate ELSE current_frq
  /\ ctl' = [ctl EXCEPT !.pc = "swap"]
  /\ UNCHANGED <<status, haltsem, driver, count, registered, audio, fifo,
                 play_samples_start, rate, dec>>

\* "Wait for player thread to be ready", then the references change hands.
Swap_NoReference ==
  /\ ctl.pc = "swap" /\ status = "READY"
  /\ count' = Dereferenced(count, driver)
  /\ driver' = ctl.d
  /\ ctl' = [ctl EXCEPT !.pc = "go"]
  /\ UNCHANGED <<status, haltsem, registered, audio, fifo, clock, rate, dec>>

Swap ==
  /\ ctl.pc = "swap" /\ status = "READY"
  /\ count' = Referenced(Dereferenced(count, driver), ctl.d)
  /\ driver' = ctl.d
  /\ ctl' = [ctl EXCEPT !.pc = "go"]
  /\ UNCHANGED <<status, haltsem, registered, audio, fifo, clock, rate, dec>>

Go ==
  /\ ctl.pc = "go"
  /\ status' = "PLAYING"
  /\ ctl' = [ctl EXCEPT !.pc = "signal"]
  /\ ctlOnly

Signal_None ==
  /\ ctl.pc \in {"signal", "quit_signal"}
  /\ ctl' = [ctl EXCEPT !.pc = IF ctl.pc = "signal" THEN "release" ELSE "quit_wait"]
  /\ UNCHANGED status /\ ctlOnly

\* sem_signal(playa_haltsem), in playa_start and in playa_shutdown.
Signal ==
  /\ ctl.pc \in {"signal", "quit_signal"}
  /\ haltsem' = haltsem + 1
  /\ ctl' = [ctl EXCEPT !.pc = IF ctl.pc = "signal" THEN "release" ELSE "quit_wait"]
  /\ UNCHANGED <<status, driver, count, registered, audio, fifo, clock, rate, dec>>

Release ==
  /\ ctl.pc = "release"
  /\ count' = Dereferenced(count, ctl.d)
  /\ ctl' = Returned
  /\ UNCHANGED <<status, haltsem, driver, registered, audio, fifo, clock, rate, dec>>

-----------------------------------------------------------------------------
\* playa_shutdown, after its playa_stop(1): the decoder thread is told to quit
\* and the sound stream thread stopped.
Quit ==
  /\ ctl.pc = "quit"
  /\ status' = "QUIT"
  /\ ctl' = [ctl EXCEPT !.pc = "quit_signal"]
  /\ ctlOnly

\* It goes on to shut the drivers that are still registered down (playa.c:520-529),
\* which is left out: both other threads have ended.
Down ==
  /\ ctl.pc = "quit_wait" /\ status = "ZOMBIE"
  /\ ctl' = [ctl EXCEPT !.pc = "down"]
  /\ UNCHANGED status /\ ctlOnly

\* The plugin commands of the shell: driver_list_unregister drops the list's
\* reference; a driver that is gone may be loaded again.
Unregister(d) ==
  /\ ctl.pc = "idle" /\ d \in registered
  /\ registered' = registered \ {d}
  /\ count' = Dereferenced(count, d)
  /\ UNCHANGED <<status, haltsem, driver, audio, fifo, clock, rate, dec, ctl>>

Register(d) ==
  /\ ctl.pc = "idle" /\ d \notin registered /\ count[d] = 0
  /\ registered' = registered \cup {d}
  /\ count' = Referenced(count, d)
  /\ UNCHANGED <<status, haltsem, driver, audio, fifo, clock, rate, dec, ctl>>

Command ==
  \/ \E immediat \in BOOLEAN : \E d \in registered \cup {NoDriver} :
       CallStart(d, immediat)
  \/ \E v \in BOOLEAN : CallStop(v) \/ Pause(v)
  \/ \E ms \in {-1, 1} : Fade(ms)
  \/ CallShutdown
  \/ \E d \in Drivers : Unregister(d) \/ Register(d)

ShellStep ==
  \/ Initialised
  \/ StopAlready \/ StopTest \/ StopAsk \/ StopWait \/ StopFlush \/ StopDrop
  \/ MarkRead \/ MarkStore \/ MarkNone
  \/ (\E f \in Frqs : Begun(f)) \/ BeginFails
  \/ RateTest \/ RateSet \/ Swap \/ Go \/ Signal \/ Release
  \/ Quit \/ Down

Next == Callback \/ DecoderStep \/ Command \/ ShellStep

Spec == Init /\ [][Next]_vars

\* Each thread goes on with what it is doing; a driver's start, decode and stop
\* return.  Nobody has to call anything.
Fairness == WF_vars(Callback) /\ WF_vars(DecoderStep) /\ WF_vars(ShellStep)

FairSpec == Spec /\ Fairness

-----------------------------------------------------------------------------
DecPcs == {"loop", "waiting", "decode", "ended", "stop", "exited"}
CtlPcs == {"init", "idle", "stop", "stop_ask", "stop_wait", "stop_flush",
           "stop_drop", "mark", "mark_store", "begin", "rate", "rate_next",
           "rate_now", "swap", "go", "signal", "release", "quit",
           "quit_signal", "quit_wait", "down"}

TypeOK ==
  /\ status \in {"INIT", "READY", "PLAYING", "STOPPING", "QUIT", "ZOMBIE"}
  /\ haltsem \in Nat
  /\ driver \in Drivers \cup {NoDriver}
  /\ count \in [Drivers -> Nat]
  /\ registered \subseteq Drivers
  /\ paused \in BOOLEAN /\ fade_v \in BOOLEAN /\ fade_ms \in {-1, 0, 1}
  /\ fifo \in Seq(Frqs) /\ Len(fifo) <= FifoMax
  /\ play_samples_start \in 0 .. FifoMax
  /\ current_frq \in Frqs /\ next_frq \in Frqs \cup {0} /\ rate \in Frqs \cup {0}
  /\ dec \in [pc : DecPcs, d : Drivers \cup {NoDriver}]
  /\ ctl \in [pc : CtlPcs, call : {"none", "start", "stop", "shutdown"},
              d : Drivers \cup {NoDriver}, flush : BOOLEAN, used : 0 .. FifoMax]

\* The plugin's code is on the decoder thread's stack.
InDriver == dec.pc \in {"decode", "stop"}

\* A driver's start() and the flush of the fifo never run while the decoder
\* thread is inside a driver: drivers keep their state in static variables and
\* fifo_write_any copies outside of the lock.  Only the READY handshake through
\* a plain variable says so (playa.c:594-600, 664).
Alone == ctl.pc \in {"stop_flush", "begin"} => ~InDriver

\* Every reference is somebody's: the list's, the player's, or the playa_start's
\* that runs (playa.c:606, 637, 676, 721-722, 733; driver_list.c:273, 341).
RefsBalance ==
  \A d \in Drivers : count[d] = (IF d \in registered THEN 1 ELSE 0)
                              + (IF driver = d THEN 1 ELSE 0)
                              + (IF ctl.d = d THEN 1 ELSE 0)

\* The driver the decoder thread is inside of is loaded and initialised, even
\* if it has just been unregistered: at count 0 driver_dereference shuts it down
\* and frees its code.
AliveDriver == InDriver /\ dec.d # NoDriver => dec.d = driver /\ count[dec.d] > 0

\* The decoder thread does not sleep through a start: while the status is
\* PLAYING it is awake or a signal is there or about to be.
NoLostWakeup ==
  status = "PLAYING" /\ dec.pc = "waiting" => haltsem > 0 \/ ctl.pc = "signal"

\* When the callback changes the sampling rate, no sample of an earlier music is
\* left in the fifo: the mark set by playa_start is never short, whatever was
\* started, stopped or failed in between (playa.c:645-653, 214-232).
NeverEarly ==
  [][current_frq' # current_frq /\ dec' = dec /\ ctl' = ctl
       => \A i \in DOMAIN fifo' : fifo'[i] = current_frq']_vars

\* STOPPING was stored over the READY of a decoder that already sleeps: it will
\* not see it and playa_stop waits for ever.
Lost == /\ ctl.pc = "stop_wait" /\ status = "STOPPING"
        /\ dec.pc = "waiting" /\ haltsem = 0

\* Every call of the shell returns, but for that one race.
CallReturns == (ctl.pc # "idle") ~> (ctl.pc \in {"idle", "down"} \/ Lost)

\* Every call of the shell returns.
AlwaysReturns == (ctl.pc # "idle") ~> (ctl.pc \in {"idle", "down"})

-----------------------------------------------------------------------------
\* What makes these invariants inductive (module PlayaProofs).

\* From the return of playa_stop to the store of PLAYING (or QUIT) the status is
\* READY and the decoder thread stays out of the drivers.
QuietPcs == {"stop_flush", "stop_drop", "mark", "mark_store", "begin", "rate",
             "rate_next", "rate_now", "swap", "go", "quit"}

Handshake ==
  /\ ctl.pc \in QuietPcs => status = "READY"
  /\ dec.pc \in {"decode", "ended"} => status \in {"PLAYING", "STOPPING"}
  /\ dec.pc = "stop" => status = "STOPPING"
  /\ InDriver => dec.d = driver

\* Only a playa_start holds a driver.
StartPcs == {"mark", "mark_store", "begin", "rate", "rate_next", "rate_now",
             "swap", "go", "signal", "release"}

Caller ==
  /\ ctl.pc \in StartPcs => ctl.call = "start"
  /\ ctl.pc \in {"init", "idle"} => ctl.call = "none"
  /\ ctl.call # "start" => ctl.d = NoDriver

\* What is played, or about to be, has a rate; as long as no rate was ever set
\* there is nothing to play.
Rates ==
  /\ \/ status = "PLAYING" \/ dec.pc = "decode"
     \/ ctl.pc \in {"rate", "rate_next", "rate_now", "swap", "go"}
     => rate # 0
  /\ next_frq = 0 => /\ fifo = <<>> /\ play_samples_start = 0 /\ ctl.used = 0
                     /\ status # "PLAYING" /\ dec.pc # "decode"
                     /\ ctl.pc \notin {"swap", "go"}

PlayerInv == TypeOK /\ RefsBalance /\ Handshake /\ Caller /\ Rates /\ NoLostWakeup

\* What the mark stands for.  While a start goes on the mark is read, stored and
\* never below what is left in the fifo; after that, what was written behind it
\* has the rate that the callback will set, unless that rate is set already.
PastMark(rest, mark, frq) ==
  \A i \in DOMAIN rest : i > mark => rest[i] = frq

Mark ==
  /\ status = "PLAYING" \/ dec.pc = "decode" \/ ctl.pc \in {"swap", "go"}
     => rate = next_frq
  /\ ctl.pc = "mark_store" => Len(fifo) <= ctl.used
  /\ ctl.pc \in {"begin", "rate", "rate_next"}
     => play_samples_start = 0 \/ Len(fifo) <= play_samples_start
  /\ play_samples_start > 0
     => current_frq = next_frq \/ PastMark(fifo, play_samples_start, next_frq)

MarkInv == PlayerInv /\ Mark

-----------------------------------------------------------------------------
\* Once the callback has counted down to the new music and nothing else is left
\* in the fifo, the stream runs at the rate of that music ("We reach the new
\* music in the fifo. We had to change stream_parameters").
InTune ==
  dec.pc = "decode" /\ play_samples_start = 0 /\ fifo # <<>>
    /\ (\A i \in DOMAIN fifo : fifo[i] = rate)
  => current_frq = rate
=============================================================================
