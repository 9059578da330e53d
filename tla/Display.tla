------------------------------ MODULE Display ------------------------------
(***************************************************************************)
(* Page flipping (src/libs/ta/ta.c, src/libs/draw/ta.c) with the transfers   *)
(* of module Dma.  Three parties go round:                                   *)
(*                                                                          *)
(*  - the main thread waits until the render it asked for has started, sends *)
(*    the display lists of the next frame and asks for their render;         *)
(*  - the video chip takes in the lists of a frame, renders another one and   *)
(*    shows a third, and raises interrupts;                                  *)
(*  - the interrupt handler flips the pages, lets transfers to video memory   *)
(*    start between lists, and starts the next render.                       *)
(*                                                                          *)
(* Page p lives in buffer 1 - p.  Frames are numbered modulo Frames.          *)
(* Rendering to a texture has no caller and is left out.                      *)
(***************************************************************************)
EXTENDS Dma

CONSTANT Frames

ASSUME DisplayAssumption == Frames \in Nat /\ Frames > 2

VARIABLES
  visible_page, next_visible_page, rendered_page, next_rendered_page, next_page,
  list_complete, \* list_complete == ta_state.lists
  render_complete,
  waiting_thd,   \* is it set
  render_sema,
  main,          \* the main thread's pc, and the frame it draws
  chip           \* the video chip, below

pages == <<visible_page, next_visible_page, rendered_page, next_rendered_page>>
flags == <<list_complete, render_complete, waiting_thd, render_sema>>
displayVars == <<pages, next_page, flags, main, chip>>
vars == <<dmaVars, displayVars>>

None == -1
Pages == {0, 1}
Other(p) == 1 - p      \* p ^ 1
Blank == -1            \* a buffer without lists
Torn == -2             \* lists that are incomplete
After(frame) == (frame + 1) % Frames

Init ==
  /\ DmaInit
  /\ visible_page = None /\ next_visible_page = None
  /\ rendered_page = None /\ next_rendered_page = None
  /\ next_page = 0
  /\ list_complete = FALSE /\ render_complete = TRUE
  /\ waiting_thd = FALSE /\ render_sema = 0
  /\ main = [pc |-> "first", frame |-> 0]
  /\ chip = [lists  |-> [b \in Pages |-> Blank], \* the frame whose lists a buffer holds
             image  |-> [b \in Pages |-> Blank], \* and the frame that was rendered to it
             target |-> 1,                       \* the buffer that takes lists in
             eol    |-> Blank,                   \* the frame whose last list was ended
             render |-> None,                    \* the buffer that is rendered
             view   |-> 1]                       \* the buffer on the screen

-----------------------------------------------------------------------------
\* The main thread: draw_open_render ... draw_close_render.

mainUnchanged == UNCHANGED <<visible_page, next_visible_page, rendered_page, dmaVars,
                             list_complete, render_complete>>

\* ta_begin_render; the first one asks for a render itself.
Begin ==
  /\ main.pc \in {"first", "begin"}
  /\ waiting_thd' = TRUE
  /\ next_rendered_page' = IF main.pc = "first" THEN next_page ELSE next_rendered_page
  /\ main' = [main EXCEPT !.pc = "wait"]
  /\ UNCHANGED <<next_page, render_sema, chip>> /\ mainUnchanged

\* The lists go to whatever buffer takes them in.
Draw ==
  /\ next_page' = Other(next_page)
  /\ main' = [main EXCEPT !.pc = "draw"]
  /\ chip' = [chip EXCEPT !.lists[chip.target] = Torn]
  /\ UNCHANGED <<next_rendered_page, waiting_thd>> /\ mainUnchanged

\* sem_wait_timed: woken by the handler, or after half a second.
Woken == main.pc = "wait" /\ render_sema > 0 /\ render_sema' = render_sema - 1 /\ Draw

TimedOut_Early ==
  /\ main.pc = "wait" /\ render_sema = 0
  /\ UNCHANGED render_sema /\ Draw

\* The render asked for has started by then.
TimedOut ==
  /\ main.pc = "wait" /\ render_sema = 0
  /\ next_rendered_page = None
  /\ UNCHANGED render_sema /\ Draw

\* The second ta_commit_eol of draw_close_render.  The very first render has no
\* lists: it is over before a frame is drawn.
CloseLists ==
  /\ main.pc = "draw"
  /\ chip.render # None => chip.lists[chip.render] # Blank
  /\ main' = [main EXCEPT !.pc = "finish"]
  /\ chip' = [chip EXCEPT !.eol = main.frame]
  /\ UNCHANGED <<next_rendered_page, next_page, waiting_thd, render_sema>> /\ mainUnchanged

\* ta_finish_frame
Finish ==
  /\ main.pc = "finish"
  /\ next_rendered_page' = next_page
  /\ main' = [pc |-> "begin", frame |-> After(main.frame)]
  /\ UNCHANGED <<next_page, waiting_thd, render_sema, chip>> /\ mainUnchanged

MainStep == Begin \/ Woken \/ TimedOut \/ CloseLists \/ Finish

-----------------------------------------------------------------------------
\* Interrupts: int_handler.

\* The chip has taken in the lists: OPAQUEDONE and TRANSDONE return at once.
ListDone ==
  /\ chip.eol # Blank
  /\ list_complete' = TRUE
  /\ chip' = [chip EXCEPT !.eol = Blank, !.lists[chip.target] = chip.eol]
  /\ UNCHANGED <<dmaVars, pages, next_page, render_complete, waiting_thd, render_sema, main>>

Ended_ListsOnly(complete) == list_complete /\ rendered_page # None

\* "Detect end of rendering"
Ended(complete) == list_complete /\ complete /\ rendered_page # None

CallBack ==
  IF list_complete /\ rendered_page # None /\ ta_render_done_cb
    THEN RenderDone
    ELSE UNCHANGED dmaVars

CanStart_OverShown(rendered, visible, coming) ==
  /\ ~ta_block_render' /\ next_rendered_page # None
  /\ rendered = None
  /\ next_rendered_page # coming

\* "A new render is requested?": one that runs, and the pages shown and to be shown
\* next, forbid it.
CanStart(rendered, visible, coming) ==
  /\ ~ta_block_render' /\ next_rendered_page # None
  /\ rendered = None
  /\ next_rendered_page \notin {visible, coming}

\* "ok, ready to render on requested page": the chip renders what was sent for
\* the page and takes in lists for the other one.
Starts(page) ==
  /\ rendered_page' = page /\ next_rendered_page' = None
  /\ waiting_thd' = FALSE
  /\ render_sema' = IF waiting_thd THEN render_sema + 1 ELSE render_sema

StartsNot(rendered) ==
  /\ rendered_page' = rendered
  /\ UNCHANGED <<next_rendered_page, waiting_thd, render_sema>>

\* After the call-back: the end of a render (complete), the page to show (scan),
\* a new render.
Handle(scan, complete) ==
  LET ended    == Ended(complete)
      due      == IF ended /\ next_visible_page = None /\ visible_page # rendered_page
                    THEN rendered_page ELSE next_visible_page
      flip     == scan /\ due # None
      visible  == IF flip THEN due ELSE visible_page
      coming   == IF flip THEN None ELSE due
      rendered == IF ended THEN None ELSE rendered_page
      start    == CanStart(rendered, visible, coming)
      page     == next_rendered_page
  IN
  /\ CallBack
  /\ list_complete' = (list_complete /\ ~ended)
  /\ render_complete' = (complete /\ ~ended)
  /\ visible_page' = visible /\ next_visible_page' = coming
  /\ IF start THEN Starts(page) ELSE StartsNot(rendered)
  /\ chip' = [chip EXCEPT
       !.view   = IF flip THEN Other(visible) ELSE @,
       !.image  = [b \in Pages |-> IF start /\ b = Other(page) THEN Torn
                                  ELSE IF ~scan /\ b = chip.render THEN chip.lists[b]
                                  ELSE @[b]],
       !.render = IF start THEN Other(page) ELSE IF scan THEN @ ELSE None,
       !.target = IF start THEN page ELSE @]
  /\ UNCHANGED <<next_page, main>>

\* G2EVT_TA_RENDERDONE
RenderDoneInt == chip.render # None /\ Handle(FALSE, TRUE)

\* G2EVT_TA_SCANINT1
ScanInt == Handle(TRUE, render_complete)

DmaPart == DmaStep /\ UNCHANGED displayVars

Next == MainStep \/ ListDone \/ RenderDoneInt \/ ScanInt \/ DmaPart

Spec == Init /\ [][Next]_vars

\* The chip and the transfers end what they begin, the screen is scanned, and
\* no thread is left out by the scheduler.
Fairness ==
  /\ WF_vars(MainStep) /\ WF_vars(ListDone) /\ WF_vars(RenderDoneInt) /\ WF_vars(ScanInt)
  /\ WF_vars(SpuDone /\ UNCHANGED displayVars) /\ WF_vars(VramDone /\ UNCHANGED displayVars)
  /\ \A t \in Clients : WF_vars(ClientStep(t) /\ UNCHANGED displayVars)

FairSpec == Spec /\ Fairness

-----------------------------------------------------------------------------
\* Properties.

FrameNumbers == 0..Frames - 1
Contents == FrameNumbers \cup {Blank, Torn}

TypeOK ==
  /\ DmaTypeOK
  /\ {visible_page, next_visible_page, rendered_page, next_rendered_page} \subseteq Pages \cup {None}
  /\ next_page \in Pages
  /\ {list_complete, render_complete, waiting_thd} \subseteq BOOLEAN
  /\ render_sema \in Nat
  /\ main \in [pc : {"first", "begin", "wait", "draw", "finish"}, frame : FrameNumbers]
  /\ chip \in [lists : [Pages -> Contents], image : [Pages -> Contents], target : Pages,
               eol : FrameNumbers \cup {Blank}, render : Pages \cup {None}, view : Pages]

\* The uses of the two buffers stay apart: the chip never renders into the
\* buffer on the screen nor from lists that are still being sent, and no image
\* is shown before it is whole (ta.c:986-1040).
Apart ==
  /\ chip.render # None => /\ chip.render # chip.target
                           /\ visible_page # None => chip.render # chip.view
                           /\ chip.lists[chip.render] # Torn
  /\ visible_page # None => chip.image[chip.view] # Torn

\* A render starts from the frame after the one rendered last, and only when
\* the chip is idle: no frame is lost, repeated or rendered over another.
InOrder ==
  [][chip'.target # chip.target /\ chip.lists[chip.target] # Blank =>
       /\ chip.render = None \/ chip'.image[chip.render] = chip.lists[chip.render]
       /\ chip'.lists[chip'.render] \in FrameNumbers
       /\ chip.lists[chip'.target] = Blank
          \/ chip.lists[chip'.render] = After(chip.lists[chip'.target])]_vars

\* No render starts while a transfer to video memory runs: it would read a
\* texture that is being written (ta_block_render).
NoStart == [][vram' # NULL => chip'.target = chip.target]_vars

\* The frame on the screen.
Seen == IF visible_page = None THEN Blank ELSE chip.image[chip.view]

\* The frame that comes after it on the screen; frame 0 is the first one.
NextSeen(frame) == IF frame = Blank THEN 0 ELSE After(frame)

\* The frames come onto the screen one after the other as they were drawn: none is
\* left out, none comes back, although four page variables hand each on (ta.c:980-1047).
NoneSkipped == [][Seen' # Seen => Seen' = NextSeen(Seen)]_vars

\* When the last list of a frame ends, the screen is two frames behind it, or blank.
Behind ==
  chip.eol # Blank => chip.eol = NextSeen(NextSeen(Seen)) \/ (Seen = Blank /\ chip.eol = 0)

\* Every frame drawn is shown: it is not on the screen when its last list ends, frames
\* come in their order, and its number is reached.  Without the first two parts a later
\* frame of the same number could stand in for one that is lost.
Shown ==
  /\ []Behind
  /\ NoneSkipped
  /\ \A f \in FrameNumbers : chip.eol = f ~> Seen = f

\* The main thread waits for a render that has not started, or its signal is there
\* ("wait until render on next_page has started", ta.c:705): it never sleeps the 500 ms
\* of its timeout for nothing.  Not so: a render may start before waiting_thd is set.
NoMissedStart == main.pc = "wait" => next_rendered_page # None \/ render_sema > 0

\* Every dma_wait returns.
WaitReturns == \A t \in Clients : thread[t].pc = "wait" ~> thread[t].pc = "free"

-----------------------------------------------------------------------------
\* The inductive invariant of the proofs.

\* What the main thread has asked for.
Requests ==
  /\ next_rendered_page # None =>
       next_rendered_page = next_page /\ main.pc \in {"begin", "wait"}
  /\ next_page = IF main.pc \in {"first", "draw", "finish"} \/ next_rendered_page # None
                   THEN Other(chip.target) ELSE chip.target
  /\ render_sema \in {0, 1}
  /\ render_sema = 1 => next_rendered_page = None /\ main.pc \in {"begin", "wait"}
  /\ rendered_page = None => main.pc \in {"first", "finish"} \/ next_rendered_page # None

\* The lists that the chip takes in.
Sending ==
  /\ chip.eol # Blank => ~list_complete /\ rendered_page # None
  /\ list_complete => rendered_page # None
  /\ list_complete \/ chip.eol # Blank => main.pc = "finish" \/ next_rendered_page # None
  /\ chip.lists[chip.target] = Torn => rendered_page # None /\ ~list_complete

\* The page that is rendered, and the lists it is rendered from.
Rendering ==
  /\ chip.render # None => /\ rendered_page # None
                           /\ chip.render = Other(chip.target)
                           /\ chip.lists[chip.render] # Torn
  /\ rendered_page # None => /\ rendered_page = chip.target
                             /\ rendered_page \notin {visible_page, next_visible_page}
  /\ render_complete =>
       /\ chip.render # None => chip.lists[chip.render] = Blank
       /\ rendered_page = None => chip.lists[chip.target] = Blank
  /\ chip.render # None /\ chip.lists[chip.render] = Blank => ~list_complete /\ chip.eol = Blank

\* The page that is shown, and the images.
Showing ==
  /\ visible_page # None => chip.view = Other(visible_page)
  /\ \A b \in Pages : chip.image[b] = Torn => chip.render = b

\* The frame sent last, and the one of the other buffer, which comes before it.
Sent == IF chip.eol # Blank THEN chip.eol ELSE chip.lists[chip.target]
Earlier == chip.lists[Other(chip.target)]

Ordered ==
  /\ Earlier # Torn
  /\ main.pc = "first" => Sent = Blank /\ Earlier = Blank
  /\ main.pc = "finish" => Sent = main.frame
  /\ next_rendered_page # None => Sent = Blank \/ After(Sent) = main.frame
  /\ Earlier # Blank =>
       After(Earlier) = IF main.pc = "finish" \/ next_rendered_page # None THEN Sent ELSE main.frame

\* Until a frame has been rendered, frame 0 is drawn or closed.
FirstFrame ==
  /\ Earlier = Blank =>
       IF main.pc = "finish" \/ next_rendered_page # None
         THEN Sent = 0 \/ (Sent = Blank /\ main.frame = 0 /\ visible_page = None)
         ELSE main.frame = 0
  /\ list_complete => Sent # Blank
  /\ main.pc = "first" => visible_page = None /\ rendered_page = None

\* The image of the frame that is rendered or was rendered last (Earlier) is on the
\* screen or comes next.
Screen ==
  LET drawn == chip.image[Other(chip.target)] IN
  /\ rendered_page # None /\ chip.render = None => drawn = Earlier
  /\ visible_page = None => /\ next_visible_page = None /\ Earlier = Blank
                            /\ rendered_page = None => Sent = Blank
  /\ visible_page # None /\ rendered_page # None =>
       next_visible_page = None /\ visible_page = Other(chip.target) /\ Earlier = NextSeen(Seen)
  /\ visible_page # None /\ rendered_page = None =>
       \/ next_visible_page = None /\ visible_page = chip.target /\ Earlier = Seen
       \/ /\ next_visible_page = chip.target /\ visible_page = Other(chip.target)
          /\ drawn = Earlier /\ Earlier = NextSeen(Seen)

PageInv == TypeOK /\ DmaInv /\ Requests /\ Sending /\ Rendering /\ Showing /\ Ordered
ScreenInv == FirstFrame /\ Screen
=============================================================================
