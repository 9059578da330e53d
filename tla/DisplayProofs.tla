--------------------------- MODULE DisplayProofs ---------------------------
(***************************************************************************)
(* Module Display for any clients, pool and number of frames.  The main      *)
(* argument is PageInv: which page is asked for, which buffer takes lists in  *)
(* and which one is rendered, at every point of the round that the main       *)
(* thread, the chip and the interrupt handler make.                           *)
(***************************************************************************)
EXTENDS Display, DmaProofs

-----------------------------------------------------------------------------
\* The transfers: every step is one of module Dma, or changes nothing there.

LEMMA DmaUnder == [Next]_vars => [DmaNext]_dmaVars
<1> SUFFICES ASSUME [Next]_vars PROVE [DmaNext]_dmaVars
  OBVIOUS
<1>1. CASE MainStep
  BY <1>1 DEF MainStep, Begin, Woken, TimedOut, Draw, CloseLists, Finish, mainUnchanged
<1>2. CASE ListDone
  BY <1>2 DEF ListDone
<1>3. ASSUME NEW s, NEW c, Handle(s, c) PROVE [DmaNext]_dmaVars
  BY <1>3 DEF Handle, CallBack, DmaNext
<1>4. CASE RenderDoneInt \/ ScanInt
  BY <1>3, <1>4 DEF RenderDoneInt, ScanInt
<1>5. CASE DmaPart
  BY <1>5 DEF DmaPart, DmaNext
<1>6. CASE UNCHANGED vars
  BY <1>6 DEF vars
<1> QED
  BY <1>1, <1>2, <1>4, <1>5, <1>6 DEF Next

-----------------------------------------------------------------------------
\* The pages.

LEMMA PageFacts ==
  /\ Pages = {0, 1} /\ None \notin Pages
  /\ \A p \in Pages : Other(p) \in Pages /\ Other(p) # p /\ Other(Other(p)) = p
  /\ \A p, q \in Pages : p # q => q = Other(p)
  BY DEF Pages, None, Other

LEMMA FrameFacts ==
  /\ Blank \notin FrameNumbers /\ Torn \notin FrameNumbers /\ Blank # Torn
  /\ \A f \in FrameNumbers : After(f) \in FrameNumbers
  BY DisplayAssumption DEF Blank, Torn, FrameNumbers, After

\* The chip's record.
Chips == [lists : [Pages -> Contents], image : [Pages -> Contents], target : Pages,
          eol : FrameNumbers \cup {Blank}, render : Pages \cup {None}, view : Pages]

LEMMA PageInitInv == Init => PageInv
<1> SUFFICES ASSUME Init PROVE PageInv
  OBVIOUS
<1>1. DmaInv /\ DmaTypeOK
  BY DmaInitInv DEF Init, DmaInv
<1>2. 0 \in FrameNumbers
  BY DisplayAssumption DEF FrameNumbers
<1>3. /\ chip \in Chips
      /\ chip.target = 1 /\ chip.eol = Blank /\ chip.render = None /\ chip.view = 1
      /\ \A b \in Pages : chip.lists[b] = Blank /\ chip.image[b] = Blank
  <2>1. /\ chip.lists = [b \in Pages |-> Blank] /\ chip.image = [b \in Pages |-> Blank]
        /\ chip.target = 1 /\ chip.eol = Blank /\ chip.render = None /\ chip.view = 1
    BY DEF Init
  <2>2. Blank \in Contents /\ 1 \in Pages
    BY DEF Contents, Pages
  <2>3. [b \in Pages |-> Blank] \in [Pages -> Contents]
    BY <2>2
  <2>4. chip \in Chips
    BY <2>2, <2>3 DEF Init, Chips
  <2> QED
    BY <2>1, <2>4
<1>4. TypeOK
  BY <1>1, <1>2, <1>3 DEF Init, TypeOK, Chips, Pages
<1>5. Requests /\ Sending /\ Rendering /\ Showing
  BY <1>3, PageFacts, FrameFacts DEF Init, Requests, Sending, Rendering, Showing, Other, Pages, None
<1>6. Ordered
  BY <1>3, PageFacts, FrameFacts DEF Init, Ordered, Sent, Earlier
<1> QED
  BY <1>1, <1>4, <1>5, <1>6 DEF PageInv

-----------------------------------------------------------------------------
\* The main thread.

LEMMA BeginStep ==
  ASSUME PageInv, DmaInv', Begin PROVE PageInv'
<1>1. /\ main.pc \in {"first", "begin"} /\ waiting_thd' = TRUE
      /\ next_rendered_page' = IF main.pc = "first" THEN next_page ELSE next_rendered_page
      /\ main' = [main EXCEPT !.pc = "wait"]
      /\ next_page' = next_page /\ render_sema' = render_sema /\ chip' = chip
      /\ visible_page' = visible_page /\ next_visible_page' = next_visible_page
      /\ rendered_page' = rendered_page
      /\ list_complete' = list_complete /\ render_complete' = render_complete
  BY DEF Begin, mainUnchanged
<1>2. TypeOK /\ main'.pc = "wait" /\ main'.frame = main.frame
  BY <1>1 DEF PageInv, TypeOK
<1>3. TypeOK'
  BY <1>1, <1>2 DEF TypeOK, DmaInv
<1>4. next_page # None
  BY PageFacts DEF PageInv, TypeOK
<1>5. Requests' /\ Sending'
  BY <1>1, <1>2, <1>4 DEF PageInv, Requests, Sending
<1>6. Rendering' /\ Showing'
  BY <1>1 DEF PageInv, Rendering, Showing
<1>7. Ordered'
  BY <1>1, <1>2, <1>4 DEF PageInv, Ordered, Sent, Earlier, Requests, Sending, Rendering
<1> QED
  BY <1>3, <1>5, <1>6, <1>7 DEF PageInv

LEMMA DrawStep ==
  ASSUME PageInv, DmaInv', Woken \/ TimedOut PROVE PageInv'
<1>1. /\ main.pc = "wait" /\ next_rendered_page = None
      /\ render_sema' = 0
      /\ Draw
  BY DEF Woken, TimedOut, PageInv, Requests, TypeOK
<1>2. /\ next_page' = Other(next_page)
      /\ main' = [main EXCEPT !.pc = "draw"]
      /\ chip' = [chip EXCEPT !.lists[chip.target] = Torn]
      /\ next_rendered_page' = next_rendered_page /\ waiting_thd' = waiting_thd
      /\ visible_page' = visible_page /\ next_visible_page' = next_visible_page
      /\ rendered_page' = rendered_page
      /\ list_complete' = list_complete /\ render_complete' = render_complete
  BY <1>1 DEF Draw, mainUnchanged
<1> DEFINE t == chip.target
<1>3. chip \in Chips /\ t \in Pages
  BY DEF PageInv, TypeOK, Chips
<1>4. Torn \in Contents
  BY DEF Contents
<1>5. /\ chip' \in Chips
      /\ chip'.lists[t] = Torn /\ \A b \in Pages \ {t} : chip'.lists[b] = chip.lists[b]
      /\ chip'.target = t /\ chip'.eol = chip.eol /\ chip'.render = chip.render
      /\ chip'.view = chip.view /\ chip'.image = chip.image
  <2>1. chip' = [chip EXCEPT !.lists = [chip.lists EXCEPT ![t] = Torn]]
    BY <1>2
  <2>2. [chip.lists EXCEPT ![t] = Torn] \in [Pages -> Contents]
    BY <1>3, <1>4 DEF Chips
  <2> HIDE DEF t
  <2>3. chip' \in Chips
    BY <2>1, <2>2, <1>3 DEF Chips
  <2> QED
    BY <2>1, <2>3, <1>3 DEF Chips, t
<1>6. main'.pc = "draw" /\ main'.frame = main.frame
  BY <1>2 DEF PageInv, TypeOK
<1>7. TypeOK'
  BY <1>1, <1>2, <1>5, <1>6, PageFacts DEF PageInv, TypeOK, DmaInv, Chips
<1>8. rendered_page # None /\ chip.eol = Blank /\ ~list_complete
  BY <1>1 DEF PageInv, Requests, Sending
<1>9. Requests'
  BY <1>1, <1>2, <1>5, <1>6, <1>8 DEF PageInv, Requests, Other
<1>10. Sending'
  <2>1. ~list_complete' /\ rendered_page' # None /\ chip'.eol = Blank
    BY <1>2, <1>5, <1>8
  <2> QED
    BY <2>1 DEF Sending
<1>11. Rendering'
  BY <1>2, <1>3, <1>5, <1>8, PageFacts, FrameFacts DEF PageInv, Rendering
<1>12. Showing'
  BY <1>2, <1>5 DEF PageInv, Showing
<1>13. Ordered'
  <2>1. Other(t) \in Pages \ {t}
    BY <1>3, PageFacts
  <2>2. Earlier = chip.lists[Other(t)] /\ Earlier' = chip'.lists[Other(t)]
    BY <1>5 DEF Earlier
  <2>3. Earlier' = Earlier
    BY <2>1, <2>2, <1>5
  <2> QED
    BY <2>3, <1>1, <1>2, <1>6 DEF PageInv, Ordered
<1> QED
  BY <1>7, <1>9, <1>10, <1>11, <1>12, <1>13 DEF PageInv

LEMMA CloseListsStep ==
  ASSUME PageInv, DmaInv', CloseLists PROVE PageInv'
<1>1. /\ main.pc = "draw" /\ (chip.render # None => chip.lists[chip.render] # Blank)
      /\ main' = [main EXCEPT !.pc = "finish"]
      /\ chip' = [chip EXCEPT !.eol = main.frame]
      /\ next_page' = next_page /\ render_sema' = render_sema /\ waiting_thd' = waiting_thd
      /\ next_rendered_page' = next_rendered_page
      /\ visible_page' = visible_page /\ next_visible_page' = next_visible_page
      /\ rendered_page' = rendered_page
      /\ list_complete' = list_complete /\ render_complete' = render_complete
  BY DEF CloseLists, mainUnchanged
<1>2. /\ main.frame \in FrameNumbers
      /\ main'.pc = "finish" /\ main'.frame = main.frame
      /\ chip'.eol = main.frame /\ chip'.lists = chip.lists /\ chip'.target = chip.target
      /\ chip'.render = chip.render /\ chip'.view = chip.view /\ chip'.image = chip.image
  BY <1>1 DEF PageInv, TypeOK
<1>3. TypeOK'
  BY <1>1, <1>2 DEF PageInv, TypeOK, DmaInv
<1>4. ~list_complete /\ rendered_page # None /\ next_rendered_page = None
  BY <1>1 DEF PageInv, Requests, Sending
<1>5. Requests' /\ Sending'
  BY <1>1, <1>2, <1>4 DEF PageInv, Requests, Sending
<1>6. Rendering' /\ Showing'
  BY <1>1, <1>2 DEF PageInv, Rendering, Showing
<1>7. Ordered'
  BY <1>1, <1>2, <1>4, FrameFacts DEF PageInv, Ordered, Sent, Earlier
<1> QED
  BY <1>3, <1>5, <1>6, <1>7 DEF PageInv

LEMMA FinishStep ==
  ASSUME PageInv, DmaInv', Finish PROVE PageInv'
<1>1. /\ main.pc = "finish" /\ next_rendered_page' = next_page
      /\ main' = [pc |-> "begin", frame |-> After(main.frame)]
      /\ next_page' = next_page /\ render_sema' = render_sema /\ waiting_thd' = waiting_thd
      /\ chip' = chip
      /\ visible_page' = visible_page /\ next_visible_page' = next_visible_page
      /\ rendered_page' = rendered_page
      /\ list_complete' = list_complete /\ render_complete' = render_complete
  BY DEF Finish, mainUnchanged
<1>2. main'.pc = "begin" /\ main'.frame = After(main.frame) /\ main.frame \in FrameNumbers
  BY <1>1 DEF PageInv, TypeOK
<1>3. next_page # None /\ next_page \in Pages
  BY PageFacts DEF PageInv, TypeOK
<1>4. TypeOK'
  BY <1>1, <1>2, <1>3, FrameFacts DEF PageInv, TypeOK, DmaInv
<1>5. next_rendered_page = None
  BY <1>1 DEF PageInv, Requests
<1>6. Requests' /\ Sending'
  BY <1>1, <1>2, <1>3, <1>5 DEF PageInv, TypeOK, Requests, Sending
<1>7. Rendering' /\ Showing'
  BY <1>1 DEF PageInv, Rendering, Showing
<1>8. Ordered'
  BY <1>1, <1>2, <1>3 DEF PageInv, Ordered, Sent, Earlier
<1> QED
  BY <1>4, <1>6, <1>7, <1>8 DEF PageInv

-----------------------------------------------------------------------------
\* The chip and the interrupts.

LEMMA ListDoneStep ==
  ASSUME PageInv, DmaInv', ListDone PROVE PageInv'
<1> DEFINE t == chip.target
<1>1. /\ chip.eol # Blank /\ list_complete' = TRUE
      /\ chip' = [chip EXCEPT !.eol = Blank, !.lists[chip.target] = chip.eol]
      /\ UNCHANGED <<pages, next_page, render_complete, waiting_thd, render_sema, main>>
  BY DEF ListDone
<1>2. chip \in Chips /\ t \in Pages /\ chip.eol \in FrameNumbers
  BY <1>1 DEF PageInv, TypeOK, Chips
<1>3. /\ chip' \in Chips
      /\ chip'.lists[t] = chip.eol /\ \A b \in Pages \ {t} : chip'.lists[b] = chip.lists[b]
      /\ chip'.target = t /\ chip'.eol = Blank /\ chip'.render = chip.render
      /\ chip'.view = chip.view /\ chip'.image = chip.image
  <2>1. chip' = [chip EXCEPT !.eol = Blank, !.lists = [chip.lists EXCEPT ![t] = chip.eol]]
    BY <1>1
  <2>2. [chip.lists EXCEPT ![t] = chip.eol] \in [Pages -> Contents]
    BY <1>2 DEF Chips, Contents
  <2> HIDE DEF t
  <2>3. chip' \in Chips
    BY <2>1, <2>2, <1>2 DEF Chips
  <2> QED
    BY <2>1, <2>3, <1>2 DEF Chips, t
<1>4. TypeOK'
  BY <1>1, <1>3 DEF PageInv, TypeOK, DmaInv, Chips, pages
<1>5. ~list_complete /\ rendered_page # None
  BY <1>1 DEF PageInv, Sending
<1>6. Requests' /\ Sending'
  BY <1>1, <1>2, <1>3, <1>5, FrameFacts DEF PageInv, Requests, Sending, pages
<1>7. Rendering' /\ Showing'
  BY <1>1, <1>2, <1>3, <1>5, PageFacts, FrameFacts DEF PageInv, Rendering, Showing, Sending, pages
<1>8. Ordered'
  BY <1>1, <1>2, <1>3, PageFacts, FrameFacts DEF PageInv, Ordered, Sent, Earlier, pages
<1> QED
  BY <1>4, <1>6, <1>7, <1>8 DEF PageInv

\* A step that starts a render keeps to the order of the frames.
OrderedStart ==
  chip'.target # chip.target /\ chip.lists[chip.target] # Blank =>
    /\ chip.render = None \/ chip'.image[chip.render] = chip.lists[chip.render]
    /\ chip'.lists[chip'.render] \in FrameNumbers
    /\ chip.lists[chip'.target] = Blank
       \/ chip.lists[chip'.render] = After(chip.lists[chip'.target])

\* A step that changes what is on the screen shows the next frame.
SeenStep == Seen' # Seen => Seen' = NextSeen(Seen)

\* The handler, entered at the end of a render (complete) or at a scan.
LEMMA HandleStep ==
  ASSUME PageInv, DmaInv', NEW scan \in BOOLEAN, NEW complete \in BOOLEAN,
         Handle(scan, complete),
         IF scan THEN complete = render_complete ELSE complete = TRUE /\ chip.render # None
  PROVE PageInv' /\ OrderedStart /\ (ScreenInv => ScreenInv' /\ SeenStep)
<1> DEFINE ended    == Ended(complete)
           due      == IF ended /\ next_visible_page = None /\ visible_page # rendered_page
                         THEN rendered_page ELSE next_visible_page
           flip     == scan /\ due # None
           visible  == IF flip THEN due ELSE visible_page
           coming   == IF flip THEN None ELSE due
           rendered == IF ended THEN None ELSE rendered_page
           start    == CanStart(rendered, visible, coming)
           page     == next_rendered_page
           t        == chip.target
<1>1. /\ list_complete' = (list_complete /\ ~ended)
      /\ render_complete' = (complete /\ ~ended)
      /\ visible_page' = visible /\ next_visible_page' = coming
      /\ IF start THEN Starts(page) ELSE StartsNot(rendered)
      /\ next_page' = next_page /\ main' = main
  BY DEF Handle
<1>2. chip' = [chip EXCEPT
       !.view   = IF flip THEN Other(visible) ELSE @,
       !.image  = [b \in Pages |-> IF start /\ b = Other(page) THEN Torn
                                  ELSE IF ~scan /\ b = chip.render THEN chip.lists[b]
                                  ELSE @[b]],
       !.render = IF start THEN Other(page) ELSE IF scan THEN @ ELSE None,
       !.target = IF start THEN page ELSE @]
  BY DEF Handle
<1>3. /\ chip \in Chips /\ t \in Pages /\ main.frame \in FrameNumbers
      /\ {visible_page, next_visible_page, rendered_page, next_rendered_page} \subseteq Pages \cup {None}
      /\ next_page \in Pages /\ {list_complete, render_complete, waiting_thd} \subseteq BOOLEAN
  BY DEF PageInv, TypeOK, Chips
<1>4. ended => list_complete /\ complete /\ rendered_page # None
  BY DEF Ended
<1>5. ~ended /\ rendered_page # None /\ list_complete => ~complete
  BY DEF Ended
<1>6. /\ {visible, coming, rendered} \subseteq Pages \cup {None}
      /\ flip => visible \in Pages
      /\ ~flip => visible = visible_page
      /\ rendered # None => ~ended /\ rendered = rendered_page /\ rendered \notin {visible, coming}
  BY <1>3 DEF PageInv, Rendering
<1>7. start => /\ page = next_page /\ page \in Pages /\ main.pc \in {"begin", "wait"}
               /\ page # None /\ page \notin {visible, coming}
               /\ rendered = None
  BY <1>3 DEF PageInv, Requests, CanStart
<1>20. /\ due = IF ended /\ next_visible_page = None /\ visible_page # rendered_page
                    THEN rendered_page ELSE next_visible_page
       /\ IF scan /\ due # None THEN visible = due /\ coming = None
                                ELSE visible = visible_page /\ coming = due
       /\ rendered = IF ended THEN None ELSE rendered_page
  OBVIOUS
<1> HIDE DEF ended, due, flip, visible, coming, rendered, start
<1>8. /\ chip' \in Chips /\ chip'.lists = chip.lists /\ chip'.eol = chip.eol
      /\ chip'.view = IF flip THEN Other(visible) ELSE chip.view
      /\ chip'.render = IF start THEN Other(page) ELSE IF scan THEN chip.render ELSE None
      /\ chip'.target = IF start THEN page ELSE t
      /\ \A b \in Pages : chip'.image[b] = IF start /\ b = Other(page) THEN Torn
                                         ELSE IF ~scan /\ b = chip.render THEN chip.lists[b]
                                         ELSE chip.image[b]
  <2>1. PICK v, i, r, g : /\ v = IF flip THEN Other(visible) ELSE chip.view
                          /\ i = [b \in Pages |-> IF start /\ b = Other(page) THEN Torn
                                                 ELSE IF ~scan /\ b = chip.render THEN chip.lists[b]
                                                 ELSE chip.image[b]]
                          /\ r = IF start THEN Other(page) ELSE IF scan THEN chip.render ELSE None
                          /\ g = IF start THEN page ELSE t
    OBVIOUS
  <2>2. chip' = [chip EXCEPT !.view = v, !.image = i, !.render = r, !.target = g]
    BY <1>2, <2>1
  <2>3. v \in Pages /\ r \in Pages \cup {None} /\ g \in Pages
    BY <1>3, <1>6, <1>7, <2>1, PageFacts DEF Chips
  <2>4. Torn \in Contents
    BY DEF Contents
  <2>5. i \in [Pages -> Contents]
    <3>1. \A b \in Pages : chip.lists[b] \in Contents /\ chip.image[b] \in Contents
      BY <1>3 DEF Chips
    <3> QED
      BY <2>1, <2>4, <3>1
  <2>6. chip' \in Chips
    BY <2>2, <2>3, <2>5, <1>3 DEF Chips
  <2>7. /\ chip'.lists = chip.lists /\ chip'.eol = chip.eol /\ chip'.view = v
        /\ chip'.image = i /\ chip'.render = r /\ chip'.target = g
    BY <2>2, <1>3 DEF Chips
  <2> QED
    BY <2>1, <2>6, <2>7
<1>9. TypeOK'
  <2>1. DmaTypeOK'
    BY DEF DmaInv
  <2>2. {list_complete', render_complete'} \subseteq BOOLEAN
    BY <1>1
  <2>3. /\ {next_rendered_page', rendered_page'} \subseteq Pages \cup {None}
        /\ render_sema' \in Nat /\ waiting_thd' \in BOOLEAN
    <3>1. render_sema \in Nat /\ waiting_thd \in BOOLEAN
      BY DEF PageInv, TypeOK
    <3>2. CASE start
      <4>1. rendered_page' = page /\ next_rendered_page' = None /\ waiting_thd' = FALSE
            /\ render_sema' = IF waiting_thd THEN render_sema + 1 ELSE render_sema
        BY <1>1, <3>2 DEF Starts
      <4> QED
        <5>1. {next_rendered_page', rendered_page'} \subseteq Pages \cup {None}
          BY <4>1, <3>2, <1>7
        <5>2. render_sema' \in Nat
          BY <4>1, <3>1
        <5>3. waiting_thd' \in BOOLEAN
          BY <4>1
        <5> QED
          BY <5>1, <5>2, <5>3
    <3>3. CASE ~start
      <4>1. /\ rendered_page' = rendered /\ next_rendered_page' = next_rendered_page
            /\ waiting_thd' = waiting_thd /\ render_sema' = render_sema
        BY <1>1, <3>3 DEF StartsNot
      <4> QED
        BY <4>1, <3>1, <1>3, <1>6
    <3> QED
      BY <3>2, <3>3
  <2> QED
    BY <2>1, <2>2, <2>3, <1>1, <1>3, <1>6, <1>8 DEF PageInv, TypeOK, Chips
\* What has ended, and what may start.
<1>10. chip.render # None => rendered_page # None
  BY DEF PageInv, Rendering
<1>11. ended => chip.render = None \/ ~scan
  BY <1>4, <1>10 DEF PageInv, Rendering
<1>12. start => /\ ended \/ rendered_page = None
                /\ chip.eol = Blank /\ ~list_complete'
                /\ chip.lists[t] # Torn
                /\ page = Other(t)
                /\ chip.render = None \/ ~scan
  <2> SUFFICES ASSUME start
               PROVE /\ ended \/ rendered_page = None
                     /\ chip.eol = Blank /\ ~list_complete'
                     /\ chip.lists[t] # Torn
                     /\ page = Other(t)
                     /\ chip.render = None \/ ~scan
    OBVIOUS
  <2>1. ended \/ rendered_page = None
    BY <1>7 DEF rendered
  <2>2. page = Other(t)
    BY <1>7 DEF PageInv, Requests
  <2>3. chip.eol = Blank /\ chip.lists[t] # Torn
    BY <2>1, <1>4 DEF PageInv, Sending
  <2>4. ~list_complete'
    BY <2>1, <1>1 DEF PageInv, Sending
  <2> QED
    BY <2>1, <2>2, <2>3, <2>4, <1>10, <1>11
<1>13. DmaInv' /\ main'.pc = main.pc /\ main'.frame = main.frame
  BY <1>1
\* A render starts.
<1>14. ASSUME start PROVE PageInv' /\ OrderedStart
  <2>1. /\ rendered_page' = page /\ next_rendered_page' = None /\ next_page' = page
        /\ render_sema' = IF waiting_thd THEN render_sema + 1 ELSE render_sema
        /\ render_sema = 0 /\ main'.pc \in {"begin", "wait"}
    BY <1>1, <1>7, <1>13, <1>14 DEF Starts, PageInv, Requests
  <2>2. /\ chip'.target = page /\ chip'.render = Other(page) /\ Other(page) = t
        /\ page \in Pages /\ page # None /\ page # t
    BY <1>3, <1>7, <1>8, <1>12, <1>14, PageFacts
  <2>3. Requests'
    BY <2>1, <2>2 DEF Requests
  <2>4. Sending'
    <3>1. ~list_complete' /\ chip'.eol = Blank /\ rendered_page' # None
      BY <2>1, <2>2, <1>8, <1>12, <1>14
    <3> QED
      BY <3>1 DEF Sending
  <2>5. Rendering'
    <3>1. chip'.lists[t] # Torn /\ ~list_complete' /\ chip'.eol = Blank
      BY <1>8, <1>12, <1>14
    <3>2. render_complete' => chip.lists[t] = Blank
      <4> SUFFICES ASSUME render_complete' PROVE chip.lists[t] = Blank
        OBVIOUS
      <4>1. complete /\ ~ended /\ rendered_page = None
        BY <1>1, <1>12, <1>14
      <4>2. scan /\ render_complete
        BY <4>1, <1>10
      <4> QED
        BY <4>1, <4>2 DEF PageInv, Rendering
    <3> QED
      BY <3>1, <3>2, <2>1, <2>2, <1>1, <1>7, <1>8, <1>14 DEF Rendering
  <2>6. Showing'
    <3>1. \A b \in Pages : chip'.image[b] = Torn => b = Other(page)
      BY <2>2, <1>8, <1>10, <1>12, <1>14, PageFacts DEF PageInv, Showing, Rendering
    <3>2. visible_page' # None => chip'.view = Other(visible_page')
      BY <1>1, <1>6, <1>8 DEF PageInv, Showing
    <3> QED
      BY <3>1, <3>2, <2>2 DEF Showing
  <2>7. Ordered'
    <3>1. Earlier' = chip.lists[t]
      BY <2>2, <1>8 DEF Earlier, Other
    <3>2. chip.lists[t] = Sent
      BY <1>12, <1>14 DEF Sent
    <3> QED
      BY <3>1, <3>2, <2>1, <1>7, <1>12, <1>13, <1>14 DEF PageInv, Ordered
  <2>8. ASSUME chip.lists[t] # Blank
        PROVE /\ chip.render = None \/ chip'.image[chip.render] = chip.lists[chip.render]
              /\ chip'.lists[chip'.render] \in FrameNumbers
              /\ chip.lists[chip'.target] = Blank
                 \/ chip.lists[chip'.render] = After(chip.lists[chip'.target])
    <3>1. chip.render = None \/ chip'.image[chip.render] = chip.lists[chip.render]
      <4> SUFFICES ASSUME chip.render # None
                   PROVE chip'.image[chip.render] = chip.lists[chip.render]
        OBVIOUS
      <4>1. chip.render = page /\ ~scan
        BY <1>12, <1>14 DEF PageInv, Rendering
      <4> QED
        BY <4>1, <2>2, <1>8, <1>14
    <3>2. chip.lists[t] \in FrameNumbers
      BY <2>8, <1>3, <1>12, <1>14 DEF Chips, Contents
    <3>3. chip.lists[t] = Sent /\ chip.lists[page] = Earlier
      BY <1>12, <1>14 DEF Sent, Earlier
    <3>4. Earlier = Blank \/ After(Earlier) = Sent
      BY <1>7, <1>14 DEF PageInv, Ordered
    <3> QED
      BY <3>1, <3>2, <3>3, <3>4, <2>2, <1>8
  <2> QED
    BY <2>3, <2>4, <2>5, <2>6, <2>7, <2>8, <1>9, <1>13 DEF PageInv, OrderedStart
\* None starts.
<1>15. ASSUME ~start PROVE PageInv' /\ OrderedStart
  <2>1. /\ rendered_page' = rendered /\ next_rendered_page' = next_rendered_page
        /\ waiting_thd' = waiting_thd /\ render_sema' = render_sema /\ next_page' = next_page
    BY <1>1, <1>15 DEF StartsNot
  <2>2. /\ chip'.target = t /\ chip'.render = IF scan THEN chip.render ELSE None
        /\ chip'.lists = chip.lists /\ chip'.eol = chip.eol
    BY <1>8, <1>15
  <2>3. /\ ended => rendered = None /\ list_complete /\ rendered_page # None /\ ~list_complete'
                    /\ ~render_complete' /\ chip'.render = None
        /\ ~ended => rendered = rendered_page /\ list_complete' = list_complete
    BY <2>2, <1>1, <1>3, <1>4, <1>11 DEF rendered
  <2>4. Requests'
    BY <2>1, <2>2, <2>3, <1>13 DEF PageInv, Requests, Sending, Other
  <2>5. Sending'
    BY <2>1, <2>2, <2>3, <1>13 DEF PageInv, Sending
  <2>6. Rendering'
    <3>1. CASE ended
      BY <3>1, <2>1, <2>2, <2>3 DEF Rendering
    <3>2. CASE ~ended
      <4>1. render_complete' => complete
        BY <1>1
      <4>2. CASE scan
        BY <3>2, <4>1, <4>2, <2>1, <2>2, <2>3, <1>1, <1>6 DEF PageInv, Rendering, Other
      <4>3. CASE ~scan
        BY <3>2, <4>3, <2>1, <2>2, <2>3, <1>1, <1>6, <1>10 DEF PageInv, Rendering
      <4> QED
        BY <4>2, <4>3
    <3> QED
      BY <3>1, <3>2
  <2>7. Showing'
    <3>1. \A b \in Pages : chip'.image[b] = Torn => chip'.render = b
      BY <2>2, <1>8, <1>15 DEF PageInv, Showing, Rendering
    <3>2. visible_page' # None => chip'.view = Other(visible_page')
      BY <1>1, <1>6, <1>8 DEF PageInv, Showing
    <3> QED
      BY <3>1, <3>2 DEF Showing
  <2>8. Ordered'
    BY <2>1, <2>2, <1>13 DEF PageInv, Ordered, Earlier, Sent, Other
  <2> QED
    BY <2>2, <2>4, <2>5, <2>6, <2>7, <2>8, <1>9, <1>13 DEF PageInv, OrderedStart
<1>16. PageInv' /\ OrderedStart
  BY <1>14, <1>15
\* The screen.
<1>17. ASSUME ScreenInv PROVE ScreenInv' /\ SeenStep
  <2> DEFINE u == Other(t)
             w == next_visible_page
             r == rendered_page
  <2> FirstFrame /\ Screen
    BY <1>17 DEF ScreenInv
  <2>1. /\ t \in Pages /\ u \in Pages /\ u # t /\ Other(u) = t
        /\ None \notin Pages
    BY <1>3, PageFacts
  <2>2. /\ Seen = IF visible_page = None THEN Blank ELSE chip.image[Other(visible_page)]
        /\ Seen' = IF visible = None THEN Blank ELSE chip'.image[Other(visible)]
    BY <1>1, <1>16 DEF PageInv, Showing, Seen
  <2>3. /\ chip.render # None => chip.render = u /\ r # None
        /\ r # None => r = t
    BY DEF PageInv, Rendering
  <2>4. start => page = u /\ rendered = None /\ u \notin {visible, coming}
    BY <1>7, <1>12
  <2>5. /\ chip'.image[t] = IF start THEN Torn ELSE chip.image[t]
        /\ chip'.image[u] = IF ~scan /\ chip.render # None THEN chip.lists[u] ELSE chip.image[u]
    BY <2>1, <2>3, <2>4, <1>8, <1>12
  <2>6. /\ Earlier = chip.lists[u]
        /\ Earlier' = IF start THEN Sent ELSE Earlier
        /\ ~start => Sent' = Sent
    <3>1. CASE start
      <4>1. chip'.target = u /\ chip.eol = Blank /\ chip'.lists = chip.lists
        BY <3>1, <2>4, <1>8, <1>12
      <4> QED
        BY <3>1, <4>1, <2>1 DEF Earlier, Sent
    <3>2. CASE ~start
      BY <3>2, <1>8 DEF Earlier, Sent
    <3> QED
      BY <3>1, <3>2
  <2>7. ended => r # None /\ list_complete /\ (visible_page = None => scan)
    BY <1>4, <2>3, <2>6 DEF PageInv, Rendering, Screen
  <2>8. ended => chip'.image[u] = Earlier
    BY <2>3, <2>5, <2>6, <2>7, <1>11 DEF Screen
  <2>9. start => Sent = NextSeen(Earlier) \/ (Earlier = Blank /\ Sent = Blank /\ ~list_complete /\ visible_page = None)
    BY <1>7, FrameFacts DEF PageInv, Ordered, FirstFrame, NextSeen
  <2>10. /\ rendered_page' = IF start THEN page ELSE rendered
         /\ next_rendered_page' = IF start THEN None ELSE next_rendered_page
    BY <1>1 DEF Starts, StartsNot
  <2>11. FirstFrame'
    <3>1. CASE start
      <4>1. next_rendered_page' = None /\ main'.pc \in {"begin", "wait"} /\ ~list_complete'
        BY <3>1, <2>10, <1>7, <1>12, <1>13
      <4>2. Sent = Blank => main.frame = 0
        <5>1. CASE Earlier = Blank
          BY <5>1, <3>1, <1>7, FrameFacts DEF FirstFrame, Blank
        <5>2. CASE Earlier # Blank
          <6>1. Earlier \in FrameNumbers
            BY <5>2, <2>1, <2>6, <1>3 DEF PageInv, Ordered, Chips, Contents
          <6>2. After(Earlier) = Sent
            BY <5>2, <3>1, <1>7 DEF PageInv, Ordered
          <6> QED
            BY <6>1, <6>2, FrameFacts
        <5> QED
          BY <5>1, <5>2
      <4> QED
        BY <3>1, <4>1, <4>2, <2>6, <1>13 DEF FirstFrame
    <3>2. CASE ~start
      <4>1. list_complete' => list_complete
        BY <1>1
      <4>2. visible_page = None /\ Sent = Blank => visible = None
        BY <2>7, <1>20 DEF FirstFrame, Screen
      <4>3. next_rendered_page' = next_rendered_page /\ visible_page' = visible
        BY <3>2, <2>10, <1>1
      <4>4. main.pc = "first" => visible = None /\ rendered = None
        BY <2>7, <1>20 DEF FirstFrame, Screen
      <4> QED
        BY <3>2, <4>1, <4>2, <4>3, <4>4, <2>6, <2>10, <1>13 DEF FirstFrame
    <3> QED
      BY <3>1, <3>2
\* Where the two pages and the screen are, before a render starts.
  <2> DEFINE Placed ==
        /\ visible = None => coming = None /\ Earlier = Blank /\ (rendered = None => Sent = Blank)
        /\ visible # None /\ rendered # None =>
             coming = None /\ visible = u /\ Earlier = NextSeen(Seen')
        /\ visible # None /\ rendered = None =>
             \/ coming = None /\ visible = t /\ Earlier = Seen'
             \/ /\ coming = t /\ visible = u
                /\ chip'.image[u] = Earlier /\ Earlier = NextSeen(Seen')
  <2>12. Placed /\ SeenStep
    <3> HIDE DEF u, t
    <3>1. CASE ended
      <4>1. due = t /\ w = None /\ rendered = None
        BY <3>1, <2>1, <2>3, <2>7, <1>20 DEF Screen, u, t
      <4>2. CASE scan
        <5>1. visible = t /\ coming = None /\ Seen' = Earlier
          BY <4>1, <4>2, <3>1, <2>1, <2>2, <2>8, <1>20 DEF u
        <5>2. Earlier = Seen \/ Earlier = NextSeen(Seen)
          BY <3>1, <2>2, <2>7 DEF Screen
        <5> QED
          BY <5>1, <5>2, <4>1, <2>1 DEF SeenStep
      <4>3. CASE ~scan
        <5>1. visible_page = u /\ Earlier = NextSeen(Seen)
          BY <4>3, <3>1, <2>7 DEF Screen, u, t
        <5>2. visible = u /\ coming = t
          BY <5>1, <4>1, <4>3, <1>20
        <5>3. ~start
          BY <5>2, <2>4
        <5>4. Seen' = Seen
          BY <5>1, <5>2, <5>3, <2>1, <2>2, <2>5
        <5> QED
          BY <5>1, <5>2, <5>4, <4>1, <3>1, <2>1, <2>8 DEF SeenStep
      <4> QED
        BY <4>2, <4>3
    <3>2. CASE ~ended /\ r # None
      <4>1. w = None /\ due = None /\ visible = visible_page /\ coming = None /\ rendered = r /\ ~start
        BY <3>2, <2>4, <1>20 DEF Screen
      <4>2. visible_page # None => visible_page = u
        BY <3>2 DEF Screen, u, t
      <4>3. Seen' = Seen
        BY <4>1, <4>2, <2>1, <2>2, <2>5
      <4> QED
        BY <4>1, <4>3, <3>2 DEF Screen, SeenStep, u, t
    <3>3. CASE ~ended /\ r = None
      <4>1. due = w /\ rendered = None /\ chip.render = None /\ chip'.image[u] = chip.image[u]
        BY <3>3, <2>3, <2>5, <1>20
      <4>2. CASE visible_page = None
        <5>1. w = None /\ Earlier = Blank /\ Sent = Blank
          BY <4>2, <3>3 DEF Screen
        <5>2. visible = None /\ coming = None /\ Seen' = Seen
          BY <5>1, <4>1, <4>2, <2>2, <1>20
        <5> QED
          BY <5>1, <5>2 DEF SeenStep
      <4>3. CASE visible_page # None /\ w = None
        <5>1. visible_page = t /\ Earlier = Seen
          BY <4>3, <3>3, <2>1 DEF Screen, t
        <5>2. visible = t /\ coming = None
          BY <5>1, <4>1, <4>3, <1>20
        <5>3. Seen' = Seen
          BY <5>1, <5>2, <4>1, <2>1, <2>2 DEF u
        <5> QED
          BY <5>1, <5>2, <5>3, <4>1, <2>1 DEF SeenStep
      <4>4. CASE visible_page # None /\ w # None
        <5>1. w = t /\ visible_page = u /\ chip.image[u] = Earlier /\ Earlier = NextSeen(Seen)
          BY <4>4, <3>3 DEF Screen, u, t
        <5>2. CASE scan
          <6>1. visible = t /\ coming = None /\ Seen' = Earlier
            BY <5>1, <5>2, <4>1, <2>1, <2>2, <1>20 DEF u
          <6> QED
            BY <6>1, <5>1, <4>1, <2>1 DEF SeenStep
        <5>3. CASE ~scan
          <6>1. visible = u /\ coming = t
            BY <5>1, <5>3, <4>1, <1>20
          <6>2. ~start
            BY <6>1, <2>4
          <6>3. Seen' = Seen
            BY <6>1, <6>2, <5>1, <2>1, <2>2, <2>5
          <6> QED
            BY <6>1, <6>3, <5>1, <4>1, <2>1 DEF SeenStep
        <5> QED
          BY <5>2, <5>3
      <4> QED
        BY <4>2, <4>3, <4>4
    <3> QED
      BY <3>1, <3>2, <3>3
\* A render starts with the frame after the one that is shown now.
  <2>13. Screen'
    <3>1. CASE start
      <4>1. /\ rendered_page' = u /\ chip'.target = u /\ chip'.render = t /\ u # None /\ t # None
            /\ visible_page' = visible /\ next_visible_page' = coming
        BY <3>1, <2>1, <2>4, <2>10, <1>1, <1>8
      <4>2. CASE visible = None
        BY <3>1, <4>1, <4>2, <2>4, <2>6, <2>12 DEF Screen
      <4>3. CASE visible # None
        <5>1. coming = None /\ visible = t /\ Earlier = Seen'
          BY <3>1, <4>3, <2>1, <2>4, <2>12
        <5>2. visible_page # None \/ list_complete
          BY <4>3, <2>7, <1>20 DEF Screen
        <5>3. Earlier' = NextSeen(Seen')
          BY <3>1, <5>1, <5>2, <2>6, <2>9
        <5> QED
          BY <4>1, <4>3, <5>1, <5>3, <2>1 DEF Screen
      <4> QED
        BY <4>2, <4>3
    <3>2. CASE ~start
      <4>1. /\ rendered_page' = rendered /\ chip'.target = t /\ Earlier' = Earlier /\ Sent' = Sent
            /\ visible_page' = visible /\ next_visible_page' = coming
            /\ chip'.render = IF scan THEN chip.render ELSE None
        BY <3>2, <2>6, <2>10, <1>1, <1>8
      <4>2. rendered # None /\ chip'.render = None => chip'.image[u] = Earlier
        BY <4>1, <2>3, <2>5, <2>6, <1>20 DEF Screen
      <4> QED
        BY <4>1, <4>2, <2>12 DEF Screen
    <3> QED
      BY <3>1, <3>2
  <2> QED
    BY <2>11, <2>12, <2>13 DEF ScreenInv
<1> QED
  BY <1>16, <1>17

LEMMA OtherSteps ==
  ASSUME PageInv, DmaInv', UNCHANGED displayVars PROVE PageInv'
<1>1. /\ UNCHANGED <<visible_page, next_visible_page, rendered_page, next_rendered_page>>
      /\ UNCHANGED <<list_complete, render_complete, waiting_thd, render_sema>>
      /\ UNCHANGED <<next_page, main, chip>>
  BY DEF displayVars, pages, flags
<1>2. TypeOK'
  BY <1>1 DEF PageInv, TypeOK, DmaInv
<1>3. Requests' /\ Sending' /\ Rendering' /\ Showing'
  BY <1>1 DEF PageInv, Requests, Sending, Rendering, Showing
<1>4. Ordered'
  BY <1>1 DEF PageInv, Ordered, Earlier, Sent
<1> QED
  BY <1>2, <1>3, <1>4 DEF PageInv

LEMMA PageStep == PageInv /\ [Next]_vars => PageInv'
<1> SUFFICES ASSUME PageInv, [Next]_vars PROVE PageInv'
  OBVIOUS
<1>1. DmaInv'
  BY DmaUnder, DmaStepInv DEF PageInv
<1>2. CASE MainStep
  BY <1>1, <1>2, BeginStep, DrawStep, CloseListsStep, FinishStep DEF MainStep
<1>3. CASE ListDone
  BY <1>1, <1>3, ListDoneStep
<1>4. CASE RenderDoneInt
  <2>1. Handle(FALSE, TRUE) /\ chip.render # None
    BY <1>4 DEF RenderDoneInt
  <2> QED
    BY <2>1, <1>1, HandleStep
<1>5. CASE ScanInt
  <2>1. Handle(TRUE, render_complete) /\ render_complete \in BOOLEAN
    BY <1>5 DEF ScanInt, PageInv, TypeOK
  <2> QED
    BY <2>1, <1>1, HandleStep
<1>6. CASE DmaPart
  BY <1>1, <1>6, OtherSteps DEF DmaPart
<1>7. CASE UNCHANGED vars
  BY <1>1, <1>7, OtherSteps DEF vars
<1> QED
  BY <1>2, <1>3, <1>4, <1>5, <1>6, <1>7 DEF Next

LEMMA PageInvariant == Spec => []PageInv
<1>1. Init => PageInv
  BY PageInitInv
<1>2. PageInv /\ [Next]_vars => PageInv'
  BY PageStep
<1> QED
  BY <1>1, <1>2, PTL DEF Spec

-----------------------------------------------------------------------------
\* The screen: the steps that do not touch it.

LEMMA ScreenKept ==
  ASSUME Screen,
         UNCHANGED <<visible_page, next_visible_page, rendered_page>>,
         chip'.target = chip.target, chip'.render = chip.render,
         chip'.view = chip.view, chip'.image = chip.image, Earlier' = Earlier,
         visible_page = None /\ rendered_page = None => Sent' = Sent
  PROVE Screen' /\ SeenStep
<1>1. Seen' = Seen
  BY DEF Seen
<1> QED
  BY <1>1 DEF Screen, SeenStep

LEMMA ScreenMain == ASSUME PageInv, ScreenInv, MainStep PROVE ScreenInv' /\ SeenStep
<1> DEFINE t == chip.target
<1> FirstFrame /\ Screen
  BY DEF ScreenInv
<1>1. /\ chip \in Chips /\ t \in Pages /\ Other(t) \in Pages /\ Other(t) # t
      /\ main \in [pc : {"first", "begin", "wait", "draw", "finish"}, frame : FrameNumbers]
  BY PageFacts DEF PageInv, TypeOK, Chips
<1>2. UNCHANGED <<visible_page, next_visible_page, rendered_page, list_complete>>
  BY DEF MainStep, Begin, Woken, TimedOut, Draw, CloseLists, Finish, mainUnchanged
<1>3. /\ chip'.target = t /\ chip'.render = chip.render
      /\ chip'.view = chip.view /\ chip'.image = chip.image
      /\ chip'.lists[Other(t)] = chip.lists[Other(t)]
  <2>1. CASE chip' = chip
    BY <2>1
  <2>2. CASE chip' = [chip EXCEPT !.lists[t] = Torn]
    BY <2>2, <1>1 DEF Chips
  <2>3. CASE chip' = [chip EXCEPT !.eol = main.frame]
    BY <2>3, <1>1 DEF Chips
  <2> QED
    BY <2>1, <2>2, <2>3 DEF MainStep, Begin, Woken, TimedOut, Draw, CloseLists, Finish
<1>4. Earlier' = Earlier
  BY <1>3 DEF Earlier
<1>5. CASE Begin
  <2>1. chip' = chip /\ main'.pc = "wait" /\ main'.frame = main.frame /\ main.pc \in {"first", "begin"}
    BY <1>1, <1>5 DEF Begin
  <2>2. Sent' = Sent
    BY <2>1 DEF Sent
  <2>3. FirstFrame'
    <3>1. CASE main.pc = "first"
      <4>1. /\ Sent = Blank /\ Earlier = Blank /\ next_rendered_page = None
        BY <3>1 DEF PageInv, Ordered, Requests
      <4>3. main.frame = 0 /\ ~list_complete
        BY <4>1, <3>1 DEF FirstFrame
      <4>4. visible_page = None
        BY <3>1 DEF FirstFrame
      <4> QED
        BY <4>1, <4>3, <4>4, <2>1, <2>2, <1>2, <1>4 DEF FirstFrame
    <3>2. CASE main.pc = "begin"
      <4>1. next_rendered_page' = next_rendered_page
        BY <3>2, <1>5 DEF Begin
      <4> QED
        BY <3>2, <4>1, <2>1, <2>2, <1>2, <1>4 DEF FirstFrame
    <3> QED
      BY <3>1, <3>2, <2>1
  <2> QED
    BY <2>2, <2>3, <1>2, <1>3, <1>4, ScreenKept DEF ScreenInv
<1>6. CASE Woken \/ TimedOut
  <2>1. /\ main.pc = "wait" /\ next_rendered_page = None /\ next_rendered_page' = None
        /\ main'.pc = "draw" /\ main'.frame = main.frame
    BY <1>1, <1>6 DEF Woken, TimedOut, Draw, PageInv, Requests, TypeOK
  <2>2. rendered_page # None /\ ~list_complete
    BY <2>1 DEF PageInv, Requests, Sending
  <2>3. FirstFrame'
    BY <2>1, <2>2, <1>2, <1>4 DEF FirstFrame
  <2> QED
    BY <2>2, <2>3, <1>2, <1>3, <1>4, ScreenKept DEF ScreenInv
<1>7. CASE CloseLists
  <2>1. /\ main.pc = "draw" /\ next_rendered_page = None /\ next_rendered_page' = None
        /\ main'.pc = "finish" /\ main'.frame = main.frame /\ chip'.eol = main.frame
    BY <1>1, <1>7 DEF CloseLists, PageInv, Requests, Chips
  <2>2. rendered_page # None /\ ~list_complete
    BY <2>1 DEF PageInv, Requests, Sending
  <2>3. Sent' = main.frame
    BY <2>1, <1>1, FrameFacts DEF Sent
  <2>4. FirstFrame'
    BY <2>1, <2>2, <2>3, <1>2, <1>4 DEF FirstFrame
  <2> QED
    BY <2>2, <2>4, <1>2, <1>3, <1>4, ScreenKept DEF ScreenInv
<1>8. CASE Finish
  <2>1. chip' = chip /\ main.pc = "finish" /\ main'.pc = "begin"
    BY <1>8 DEF Finish
  <2>2. Sent' = Sent /\ Sent = main.frame /\ Sent # Blank
    BY <2>1, <1>1, FrameFacts DEF Sent, PageInv, Ordered
  <2>3. next_rendered_page' # None
    BY <1>8, PageFacts DEF Finish, PageInv, TypeOK
  <2>4. FirstFrame'
    BY <2>1, <2>2, <2>3, <1>2, <1>4 DEF FirstFrame
  <2> QED
    BY <2>2, <2>4, <1>2, <1>3, <1>4, ScreenKept DEF ScreenInv
<1> QED
  BY <1>5, <1>6, <1>7, <1>8 DEF MainStep

LEMMA ScreenStep == PageInv /\ ScreenInv /\ [Next]_vars => ScreenInv' /\ [SeenStep]_vars
<1> SUFFICES ASSUME PageInv, ScreenInv, [Next]_vars PROVE ScreenInv' /\ SeenStep
  OBVIOUS
<1> FirstFrame /\ Screen
  BY DEF ScreenInv
<1>1. DmaInv'
  BY DmaUnder, DmaStepInv DEF PageInv
<1>2. CASE MainStep
  BY <1>2, ScreenMain
<1>3. CASE ListDone
  <2>1. /\ chip \in Chips /\ chip.target \in Pages /\ chip.eol \in FrameNumbers
        /\ Other(chip.target) \in Pages \ {chip.target}
    BY <1>3, PageFacts DEF ListDone, PageInv, TypeOK, Chips
  <2>2. /\ chip'.target = chip.target /\ chip'.render = chip.render
        /\ chip'.view = chip.view /\ chip'.image = chip.image /\ chip'.eol = Blank
        /\ chip'.lists[chip.target] = chip.eol
        /\ chip'.lists[Other(chip.target)] = chip.lists[Other(chip.target)]
    BY <1>3, <2>1 DEF ListDone, Chips
  <2>3. Earlier' = Earlier /\ Sent' = Sent /\ Sent # Blank
    BY <2>1, <2>2, FrameFacts DEF Earlier, Sent
  <2>4. UNCHANGED <<visible_page, next_visible_page, rendered_page, next_rendered_page, main>>
    BY <1>3 DEF ListDone, pages
  <2>5. FirstFrame'
    BY <2>3, <2>4 DEF FirstFrame
  <2> QED
    BY <2>2, <2>3, <2>4, <2>5, ScreenKept DEF ScreenInv
<1>4. CASE RenderDoneInt
  <2>1. Handle(FALSE, TRUE) /\ chip.render # None
    BY <1>4 DEF RenderDoneInt
  <2> QED
    BY <2>1, <1>1, HandleStep
<1>5. CASE ScanInt
  <2>1. Handle(TRUE, render_complete) /\ render_complete \in BOOLEAN
    BY <1>5 DEF ScanInt, PageInv, TypeOK
  <2> QED
    BY <2>1, <1>1, HandleStep
<1>6. CASE UNCHANGED displayVars
  <2>1. UNCHANGED <<visible_page, next_visible_page, rendered_page, next_rendered_page,
                    list_complete, main, chip>>
    BY <1>6 DEF displayVars, pages, flags
  <2>2. Earlier' = Earlier /\ Sent' = Sent
    BY <2>1 DEF Earlier, Sent
  <2>3. FirstFrame'
    BY <2>1, <2>2 DEF FirstFrame
  <2> QED
    BY <2>1, <2>2, <2>3, ScreenKept DEF ScreenInv
<1> QED
  BY <1>2, <1>3, <1>4, <1>5, <1>6 DEF Next, DmaPart, vars

LEMMA ScreenInitInv == Init => ScreenInv
<1> SUFFICES ASSUME Init PROVE ScreenInv
  OBVIOUS
<1>1. /\ chip.target = 1 /\ chip.eol = Blank /\ chip.lists[0] = Blank /\ chip.lists[1] = Blank
      /\ main.pc = "first" /\ main.frame = 0 /\ visible_page = None /\ rendered_page = None
      /\ next_rendered_page = None /\ next_visible_page = None /\ ~list_complete
  BY DEF Init, Pages
<1>2. Sent = Blank /\ Earlier = Blank
  BY <1>1 DEF Sent, Earlier, Other
<1> QED
  BY <1>1, <1>2 DEF ScreenInv, FirstFrame, Screen

LEMMA ScreenInvariant == Spec => []ScreenInv
<1>1. Init => ScreenInv
  BY ScreenInitInv
<1>2. PageInv /\ ScreenInv /\ [Next]_vars => ScreenInv'
  BY ScreenStep
<1> QED
  BY <1>1, <1>2, PageInvariant, PTL DEF Spec

-----------------------------------------------------------------------------
\* Theorems.

\* The display leaves the transfers what module Dma says they are.
THEOREM DisplayImplementsDma == Spec => DmaSpec
<1>1. Init => DmaInit
  BY DEF Init
<1>2. [Next]_vars => [DmaNext]_dmaVars
  BY DmaUnder
<1> QED
  BY <1>1, <1>2, PTL DEF Spec, DmaSpec

\* So under the display too a chain has one holder, and a wait returns after its
\* own transfer.
THEOREM DisplayAccounted == Spec => []Accounted
  BY DisplayImplementsDma, DmaAccounted, PTL

\* And the pool of chains suffices.
THEOREM DisplayPool == Spec => []PoolSuffices
  BY DisplayImplementsDma, DmaPool, PTL

\* Pages, flags, frame numbers and the chip's buffers keep their types.
THEOREM DisplayTyped == Spec => []TypeOK
<1>1. PageInv => TypeOK
  BY DEF PageInv
<1> QED
  BY <1>1, PageInvariant, PTL

\* The chip never renders into the buffer on the screen or from lists that are
\* still being sent, and never shows an image that is not whole.
THEOREM DisplayApart == Spec => []Apart
<1>1. PageInv => Apart
  <2> SUFFICES ASSUME PageInv PROVE Apart
    OBVIOUS
  <2>1. /\ chip.target \in Pages /\ chip.view \in Pages
        /\ visible_page \in Pages \cup {None}
    BY DEF PageInv, TypeOK
  <2>2. visible_page # None => chip.view = Other(visible_page)
    BY DEF PageInv, Showing
  <2>3. ASSUME chip.render # None
        PROVE /\ chip.render = Other(chip.target) /\ chip.target # visible_page
              /\ chip.lists[chip.render] # Torn
    BY <2>3 DEF PageInv, Rendering
  <2>4. ASSUME chip.render # None
        PROVE /\ chip.render # chip.target
              /\ visible_page # None => chip.render # chip.view
    BY <2>1, <2>2, <2>3, <2>4, PageFacts
  <2>5. ASSUME visible_page # None PROVE chip.image[chip.view] # Torn
    <3>1. CASE chip.render # None
      BY <3>1, <2>1, <2>4, <2>5 DEF PageInv, Showing
    <3>2. CASE chip.render = None
      BY <3>2, <2>1, PageFacts DEF PageInv, Showing
    <3> QED
      BY <3>1, <3>2
  <2> QED
    BY <2>3, <2>4, <2>5 DEF Apart
<1> QED
  BY <1>1, PageInvariant, PTL

\* No render starts while a transfer to video memory runs.
THEOREM DisplayNoStart == Spec => NoStart
<1>1. PageInv /\ PageInv' /\ [Next]_vars => [vram' # NULL => chip'.target = chip.target]_vars
  <2> SUFFICES ASSUME PageInv, PageInv', Next, vram' # NULL PROVE chip'.target = chip.target
    BY DEF vars
  <2>1. ta_block_render'
    BY DEF PageInv, DmaInv, Blocking
  <2>2. chip \in Chips
    BY DEF PageInv, TypeOK, Chips
  <2>3. ASSUME NEW s, NEW c, Handle(s, c) PROVE chip'.target = chip.target
    BY <2>1, <2>2, <2>3 DEF Handle, CanStart, Chips
  <2>4. CASE MainStep
    BY <2>2, <2>4 DEF MainStep, Begin, Woken, TimedOut, Draw, CloseLists, Finish, Chips
  <2>5. CASE ListDone
    BY <2>2, <2>5 DEF ListDone, Chips
  <2>6. CASE DmaPart
    BY <2>6 DEF DmaPart, displayVars
  <2> QED
    BY <2>3, <2>4, <2>5, <2>6 DEF Next, RenderDoneInt, ScanInt
<1> QED
  BY <1>1, PageInvariant, PTL DEF Spec, NoStart

\* A render starts from the frame that comes after the one rendered before, and
\* when the chip is idle.
THEOREM DisplayInOrder == Spec => InOrder
<1>1. PageInv /\ [Next]_vars => [OrderedStart]_vars
  <2> SUFFICES ASSUME PageInv, Next PROVE OrderedStart
    BY DEF vars
  <2>1. DmaInv'
    BY DmaUnder, DmaStepInv DEF PageInv
  <2>2. chip \in Chips
    BY DEF PageInv, TypeOK, Chips
  <2>3. CASE MainStep
    BY <2>2, <2>3 DEF MainStep, Begin, Woken, TimedOut, Draw, CloseLists, Finish, Chips, OrderedStart
  <2>4. CASE ListDone
    BY <2>2, <2>4 DEF ListDone, Chips, OrderedStart
  <2>5. CASE RenderDoneInt
    <3>1. Handle(FALSE, TRUE) /\ chip.render # None
      BY <2>5 DEF RenderDoneInt
    <3> QED
      BY <3>1, <2>1, HandleStep
  <2>6. CASE ScanInt
    <3>1. Handle(TRUE, render_complete) /\ render_complete \in BOOLEAN
      BY <2>6 DEF ScanInt, PageInv, TypeOK
    <3> QED
      BY <3>1, <2>1, HandleStep
  <2>7. CASE DmaPart
    BY <2>7 DEF DmaPart, displayVars, OrderedStart
  <2> QED
    BY <2>3, <2>4, <2>5, <2>6, <2>7 DEF Next
<1>2. [OrderedStart]_vars => [chip'.target # chip.target /\ chip.lists[chip.target] # Blank =>
       /\ chip.render = None \/ chip'.image[chip.render] = chip.lists[chip.render]
       /\ chip'.lists[chip'.render] \in FrameNumbers
       /\ chip.lists[chip'.target] = Blank
          \/ chip.lists[chip'.render] = After(chip.lists[chip'.target])]_vars
  BY DEF OrderedStart
<1> QED
  BY <1>1, <1>2, PageInvariant, PTL DEF Spec, InOrder

\* The frames come onto the screen in their order, and none is left out.
THEOREM DisplayNoneSkipped == Spec => NoneSkipped
<1>1. PageInv /\ ScreenInv /\ [Next]_vars => [Seen' # Seen => Seen' = NextSeen(Seen)]_vars
  BY ScreenStep DEF SeenStep
<1> QED
  BY <1>1, PageInvariant, ScreenInvariant, PTL DEF Spec, NoneSkipped

\* When its last list ends, a frame is two ahead of the screen.
THEOREM DisplayBehind == Spec => []Behind
<1>1. PageInv /\ ScreenInv => Behind
  <2> SUFFICES ASSUME PageInv, ScreenInv, chip.eol # Blank
               PROVE chip.eol = NextSeen(NextSeen(Seen)) \/ (Seen = Blank /\ chip.eol = 0)
    BY DEF Behind
  <2>1. /\ rendered_page # None /\ Sent = chip.eol
        /\ main.pc = "finish" \/ next_rendered_page # None
    BY DEF PageInv, Sending, Sent
  <2>2. Earlier # Blank => chip.eol = NextSeen(Earlier)
    BY <2>1 DEF PageInv, Ordered, NextSeen
  <2>3. Earlier = Blank => chip.eol = 0
    BY <2>1 DEF ScreenInv, FirstFrame
  <2>4. CASE visible_page = None
    BY <2>3, <2>4 DEF ScreenInv, Screen, Seen
  <2>5. CASE visible_page # None
    <3>1. Earlier = NextSeen(Seen)
      BY <2>1, <2>5 DEF ScreenInv, Screen
    <3> QED
      BY <3>1, <2>2, <2>3 DEF NextSeen
  <2> QED
    BY <2>4, <2>5
<1> QED
  BY <1>1, PageInvariant, ScreenInvariant, PTL
=============================================================================
