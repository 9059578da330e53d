------------------------------ MODULE DriverList ------------------------------
(***************************************************************************)
(* Reference counted drivers (src/driver_list.c) and who holds them:        *)
(*                                                                          *)
(*  - the shell thread loads plugins, replacing the driver of the same name  *)
(*    (src/plugin.c), hands drivers to Lua and asks for another visual       *)
(*    (src/dynshell/dynshell.c);                                            *)
(*  - the main thread changes the visual between two frames and runs it      *)
(*    (src/dreamcast68.c, src/option.c).                                     *)
(*                                                                          *)
(* Visual drivers stand for every kind: the list, the counts and the loader  *)
(* are the same for all.  A loaded program holds one driver, as all plugins  *)
(* of the repository do (none defines NXT_DRIVER); its copy loaded later is  *)
(* another driver of the same name.  A function that runs under a mutex is   *)
(* one action where no other thread can tell; the calls of plugin code that  *)
(* take their time, start(), stop() and the frame itself, are steps.         *)
(***************************************************************************)
EXTENDS Integers, FiniteSets

CONSTANTS
  Drivers,  \* loadable drivers
  NoDriver, \* the null pointer
  Names, Name, \* names, and the name of each driver
  NoName,   \* the null name: "none" in the menu of visuals
  NoneOverPending \* may "none" be chosen while another choice is pending?

ASSUME DriverListAssumption ==
  /\ NoDriver \notin Drivers /\ NoName \notin Names
  /\ Name \in [Drivers -> Names]
  /\ NoneOverPending \in BOOLEAN

VARIABLES
  list,    \* drivers in vis_drivers
  count,   \* any_driver_t.count
  inited,  \* drivers whose init() succeeded, and not shut down since
  lef,     \* lef_prog_t.ref_count of the driver's program, 0 when not in memory
  started, \* visuals whose start() succeeded, and not stopped since
  nextvis, change_vis, curvis, \* of dreamcast68.c
  visual,  \* of option.c
  handles, \* drivers that Lua userdata point to
  shell, main \* the threads

refs == <<count, inited, lef>>
vis == <<nextvis, change_vis, curvis, visual, started>>
vars == <<list, refs, vis, handles, shell, main>>

\* The shell thread at pc, with the driver it loads, one it holds a reference
\* to and the name it was asked for.
Doing(pc, d, held, name) == [pc |-> pc, d |-> d, held |-> held, name |-> name]
Idle == Doing("idle", NoDriver, NoDriver, NoName)

\* The main thread at pc, setting visual d, and where it goes on then.
Main(pc, d, back) == [pc |-> pc, d |-> d, back |-> back]

Init ==
  /\ list = {} /\ handles = {}
  /\ count = [d \in Drivers |-> 0] /\ lef = [d \in Drivers |-> 0] /\ inited = {}
  /\ nextvis = NoDriver /\ change_vis = FALSE
  /\ curvis = NoDriver /\ visual = NoDriver /\ started = {}
  /\ shell = Idle
  /\ main = Main("frame", NoDriver, "drop")

\* The mutexes of dreamcast68.c and option.c, as far as a thread can be found
\* inside of their sections.
SwitchesVisual == \/ main.pc \in {"switch", "switched"}
                  \/ main.pc \in {"start", "stop"} /\ main.back = "switched"
VisMutex == shell.pc = "set" \/ SwitchesVisual
VisualMutex == main.pc \in {"start", "stop"}

Added(f, d, n) == IF d = NoDriver THEN f ELSE [f EXCEPT ![d] = @ + n]

\* driver_reference, when init() succeeds: the first reference calls it.
Reference(d) ==
  /\ count' = Added(count, d, 1) /\ lef' = Added(lef, d, 1)
  /\ inited' = IF d # NoDriver /\ count'[d] = 1 THEN inited \cup {d} ELSE inited

\* driver_dereference: the last reference calls shutdown(); lef_free.
Dereference(d) ==
  /\ count' = Added(count, d, -1) /\ lef' = Added(lef, d, -1)
  /\ inited' = IF d # NoDriver /\ count'[d] = 0 THEN inited \ {d} ELSE inited

\* The loop stops before the last driver.
Found_NotLast(n) ==
  LET looked == IF list = {} THEN {} ELSE list \ {CHOOSE d \in list : TRUE} IN
  IF \E d \in looked : Name[d] = n THEN CHOOSE d \in looked : Name[d] = n ELSE NoDriver

\* drv_list_search, of driver_list_search and driver_list_register
Found(n) == IF \E d \in list : Name[d] = n THEN CHOOSE d \in list : Name[d] = n
                                         ELSE NoDriver

-----------------------------------------------------------------------------
\* plugin_load_and_register, on the shell thread.

loadUnchanged == UNCHANGED <<vis, handles, main>>

\* lef_load: a new image, owned by the loader.
Load(d) ==
  /\ shell.pc = "idle" /\ lef[d] = 0
  /\ lef' = [lef EXCEPT ![d] = 1]
  /\ count' = [count EXCEPT ![d] = 0]
  /\ shell' = Doing("search", d, NoDriver, NoName)
  /\ UNCHANGED <<list, inited>> /\ loadUnchanged

\* "Remove driver with the same name if it exists."
SearchOld ==
  /\ shell.pc = "search"
  /\ LET old == Found(Name[shell.d]) IN
       /\ Reference(old)
       /\ shell' = Doing(IF old = NoDriver THEN "register" ELSE "unlist", shell.d, old, NoName)
  /\ UNCHANGED list /\ loadUnchanged

Unlist_Keep ==
  /\ shell.pc = "unlist"
  /\ Dereference(shell.held)
  /\ shell' = [shell EXCEPT !.pc = "release"]
  /\ UNCHANGED list /\ loadUnchanged

\* driver_list_unregister
Unlist ==
  /\ shell.pc = "unlist"
  /\ list' = list \ {shell.held}
  /\ Dereference(shell.held)
  /\ shell' = [shell EXCEPT !.pc = "release"]
  /\ loadUnchanged

\* "Becoz search add a reference."
ReleaseOld ==
  /\ shell.pc = "release"
  /\ Dereference(shell.held)
  /\ shell' = [shell EXCEPT !.pc = "register", !.held = NoDriver]
  /\ UNCHANGED list /\ loadUnchanged

\* driver_list_register: "Driver already exists", or it is referenced and listed.
Register ==
  /\ shell.pc = "register"
  /\ IF Found(Name[shell.d]) # NoDriver
       THEN UNCHANGED <<list, refs>>
       ELSE Reference(shell.d) /\ list' = list \cup {shell.d}
  /\ shell' = [shell EXCEPT !.pc = "loaded"]
  /\ loadUnchanged

\* init() fails: the reference is counted ...
InitFails ==
  /\ shell.pc = "register" /\ Found(Name[shell.d]) = NoDriver
  /\ count' = Added(count, shell.d, 1) /\ lef' = Added(lef, shell.d, 1)
  /\ shell' = [shell EXCEPT !.pc = "init_failed"]
  /\ UNCHANGED <<list, inited>> /\ loadUnchanged

\* ... and dropped after the driver's mutex was released.
Unreference ==
  /\ shell.pc = "init_failed"
  /\ Dereference(shell.d)
  /\ shell' = [shell EXCEPT !.pc = "loaded"]
  /\ UNCHANGED list /\ loadUnchanged

\* "Unreference original lef reference."
Loaded ==
  /\ shell.pc = "loaded"
  /\ lef' = Added(lef, shell.d, -1)
  /\ shell' = Idle
  /\ UNCHANGED <<list, count, inited>> /\ loadUnchanged

-----------------------------------------------------------------------------
\* The other commands of the shell.

\* lua_set_visual: dcplaya_set_visual takes vis_mutex and drops the choice that
\* is still pending ...
SetVisual(n) ==
  /\ shell.pc = "idle" /\ ~VisMutex
  /\ n = NoName /\ ~NoneOverPending => nextvis = NoDriver
  /\ Dereference(nextvis)
  /\ shell' = Doing("set", NoDriver, NoDriver, n)
  /\ UNCHANGED <<list, vis, handles, main>>

\* ... then looks the new one up, if it has a name.
Choose ==
  /\ shell.pc = "set"
  /\ IF shell.name = NoName
       THEN UNCHANGED <<refs, nextvis>>
       ELSE nextvis' = Found(shell.name) /\ Reference(nextvis')
  /\ change_vis' = TRUE
  /\ shell' = [shell EXCEPT !.pc = "ask"]
  /\ UNCHANGED <<list, curvis, visual, started, handles, main>>

\* option_visual, to print the name of the current visual ...
Ask ==
  /\ shell.pc = "ask" /\ ~VisualMutex
  /\ Reference(visual)
  /\ shell' = Doing("answer", NoDriver, visual, NoName)
  /\ UNCHANGED <<list, vis, handles, main>>

Answer_Keep ==
  /\ shell.pc = "answer"
  /\ shell' = Idle
  /\ UNCHANGED <<list, refs, vis, handles, main>>

\* ... and drop it.
Answer ==
  /\ shell.pc = "answer"
  /\ Dereference(shell.held)
  /\ shell' = Idle
  /\ UNCHANGED <<list, vis, handles, main>>

\* lua_driverlist_gettable
GetHandle(d) ==
  /\ shell.pc = "idle" /\ d \in list \ handles
  /\ Reference(d)
  /\ handles' = handles \cup {d}
  /\ UNCHANGED <<list, vis, shell, main>>

\* lua_driver_gc
DropHandle(d) ==
  /\ shell.pc = "idle" /\ d \in handles
  /\ Dereference(d)
  /\ handles' = handles \ {d}
  /\ UNCHANGED <<list, vis, shell, main>>

-----------------------------------------------------------------------------
\* The frame of the main thread.

mainUnchanged == UNCHANGED <<list, handles, shell>>

\* process_visual, under vis_mutex: is there another visual to show?
Frame ==
  /\ main.pc = "frame" /\ ~VisMutex
  /\ main' = IF change_vis THEN Main("switch", nextvis, "switched")
                           ELSE Main("look", NoDriver, "drop")
  /\ UNCHANGED <<refs, vis>> /\ mainUnchanged

Switch_Restart ==
  /\ main.pc = "switch"
  /\ main' = [main EXCEPT !.pc = IF main.d = NoDriver THEN "stop" ELSE "start"]
  /\ UNCHANGED <<refs, vis>> /\ mainUnchanged

\* set_visual: the same visual goes on; the reference of the choice is dropped.
Switch ==
  /\ main.pc = "switch"
  /\ IF main.d = visual
       THEN /\ Dereference(main.d)
            /\ main' = [main EXCEPT !.pc = main.back]
       ELSE /\ main' = [main EXCEPT !.pc = IF main.d = NoDriver THEN "stop" ELSE "start"]
            /\ UNCHANGED refs
  /\ UNCHANGED vis /\ mainUnchanged

\* d->start() returns 0 ...
Started ==
  /\ main.pc = "start"
  /\ started' = started \cup {main.d}
  /\ main' = [main EXCEPT !.pc = "stop"]
  /\ UNCHANGED <<refs, nextvis, change_vis, curvis, visual>> /\ mainUnchanged

\* ... or fails, or raises an exception: the visual stays.
StartFails ==
  /\ main.pc = "start"
  /\ Dereference(main.d)
  /\ main' = [main EXCEPT !.pc = main.back]
  /\ UNCHANGED vis /\ mainUnchanged

\* visual->stop() returns; the new visual keeps the reference of the choice.
Stopped ==
  /\ main.pc = "stop"
  /\ started' = started \ {visual}
  /\ Dereference(visual)
  /\ visual' = main.d
  /\ main' = [main EXCEPT !.pc = main.back]
  /\ UNCHANGED <<nextvis, change_vis, curvis>> /\ mainUnchanged

Switched_Again ==
  /\ main.pc = "switched"
  /\ nextvis' = NoDriver
  /\ main' = Main("look", NoDriver, "drop")
  /\ UNCHANGED <<refs, change_vis, curvis, visual, started>> /\ mainUnchanged

\* The choice is made.
Switched ==
  /\ main.pc = "switched"
  /\ nextvis' = NoDriver /\ change_vis' = FALSE
  /\ main' = Main("look", NoDriver, "drop")
  /\ UNCHANGED <<refs, curvis, visual, started>> /\ mainUnchanged

Look_NoReference ==
  /\ main.pc = "look"
  /\ curvis' = visual
  /\ main' = [main EXCEPT !.pc = IF visual = NoDriver THEN "frame" ELSE "use"]
  /\ UNCHANGED <<refs, nextvis, change_vis, visual, started>> /\ mainUnchanged

\* option_visual
Look ==
  /\ main.pc = "look"
  /\ curvis' = visual
  /\ Reference(visual)
  /\ main' = [main EXCEPT !.pc = IF visual = NoDriver THEN "frame" ELSE "use"]
  /\ UNCHANGED <<nextvis, change_vis, visual, started>> /\ mainUnchanged

\* process(), opaque_render() and translucent_render() return ...
Shown ==
  /\ main.pc = "use"
  /\ main' = [main EXCEPT !.pc = "drop"]
  /\ UNCHANGED <<refs, vis>> /\ mainUnchanged

\* ... or one of them raises an exception: option_no_visual.  The visual is still
\* curvis, for no other thread changes it.
Crashed ==
  /\ main.pc = "use"
  /\ main' = Main("stop", NoDriver, "drop")
  /\ UNCHANGED <<refs, vis>> /\ mainUnchanged

\* "Free this refrerence, for next frame..."
Drop ==
  /\ main.pc = "drop"
  /\ Dereference(curvis)
  /\ curvis' = NoDriver
  /\ main' = Main("frame", NoDriver, "drop")
  /\ UNCHANGED <<nextvis, change_vis, visual, started>> /\ mainUnchanged

LoadStep ==
  \/ SearchOld \/ Unlist \/ ReleaseOld
  \/ Register \/ InitFails \/ Unreference \/ Loaded

ShellStep == LoadStep \/ Choose \/ Ask \/ Answer

Command ==
  \/ \E d \in Drivers : Load(d) \/ GetHandle(d) \/ DropHandle(d)
  \/ \E n \in Names \cup {NoName} : SetVisual(n)

MainStep ==
  \/ Frame \/ Switch \/ Started \/ StartFails \/ Stopped \/ Switched
  \/ Look \/ Shown \/ Crashed \/ Drop

Next == ShellStep \/ Command \/ MainStep

Spec == Init /\ [][Next]_vars

\* Both threads go on with what they are doing, and the main thread, which spins
\* on vis_mutex, gets it some time; nobody has to ask for anything.
FairSpec == Spec /\ WF_vars(ShellStep) /\ WF_vars(MainStep) /\ SF_vars(Frame)

-----------------------------------------------------------------------------
Pointers == Drivers \cup {NoDriver}

TypeOK ==
  /\ list \subseteq Drivers /\ handles \subseteq Drivers
  /\ inited \subseteq Drivers /\ started \subseteq Drivers
  /\ count \in [Drivers -> Nat] /\ lef \in [Drivers -> Nat]
  /\ nextvis \in Pointers /\ curvis \in Pointers /\ visual \in Pointers
  /\ change_vis \in BOOLEAN
  /\ shell \in [pc : {"idle", "search", "unlist", "release", "register", "init_failed",
                      "loaded", "set", "ask", "answer"},
                d : Pointers, held : Pointers, name : Names \cup {NoName}]
  /\ main \in [pc : {"frame", "switch", "start", "stop", "switched", "look", "use",
                     "drop"},
               d : Pointers, back : {"switched", "drop"}]

One(b) == IF b THEN 1 ELSE 0

\* nextvis still has its reference: neither the visual nor a newer choice has it.
ChoicePending == main.pc # "switched" /\ shell.pc # "set"

\* Every reference has an owner: the list, a Lua value, the pending choice, the
\* visual, the frame that shows it, or the shell thread for a moment
\* (driver_list.c:273, 341, 379; dreamcast68.c:632-697; option.c:36-75).  A
\* program has one more while it is loaded (plugin.c:151).
RefsBalance ==
  \A d \in Drivers :
    /\ count[d] = One(d \in list) + One(d \in handles)
                + One(ChoicePending /\ nextvis = d) + One(visual = d) + One(curvis = d)
                + One(shell.held = d) + One(shell.pc = "init_failed" /\ shell.d = d)
    /\ lef[d] = count[d] + One(shell.d = d)

\* Whatever a list, a variable or Lua points to is in memory and initialised, and
\* no visual is shut down between its start() and its stop().
Alive ==
  /\ list \cup handles \cup started \subseteq inited
  /\ {visual, curvis, shell.held} \ {NoDriver} \subseteq inited
  /\ ChoicePending => {nextvis} \ {NoDriver} \subseteq inited
  /\ \A d \in inited : lef[d] > 0

\* No two drivers of a name are listed (plugin.c:131-138, driver_list.c:267), although
\* a driver that was replaced may still run.
UniqueNames == \A d, e \in list : Name[d] = Name[e] => d = e

\* start() and stop() alternate: exactly the visual has been started, and for a
\* moment the one that follows it; what is started is not running already.
OneStarted ==
  /\ started = ({visual} \cup (IF main.pc = "stop" THEN {main.d} ELSE {})) \ {NoDriver}
  /\ main.pc = "start" => main.d \notin started

\* A choice is looked at, however often plugins are loaded and failing.
ChoiceMade == change_vis ~> ~change_vis

-----------------------------------------------------------------------------
\* What makes these invariants inductive (module DriverListProofs).

LoadPcs == {"search", "unlist", "release", "register", "init_failed", "loaded"}

\* What the shell thread's fields are at each pc.
ShellFields ==
  /\ shell.pc \in LoadPcs <=> shell.d # NoDriver
  /\ shell.pc \in {"unlist", "release"} => shell.held # NoDriver
  /\ shell.held # NoDriver => shell.pc \in {"unlist", "release", "answer"}
  /\ shell.pc = "unlist" => shell.held \in list
  /\ shell.pc = "set" /\ shell.name = NoName => nextvis = NoDriver

\* A driver that is being loaded is new to everyone, and alone with its name
\* once the driver it replaces is out of the list.
Fresh ==
  /\ shell.pc \in {"search", "unlist", "release", "register"} => count[shell.d] = 0
  /\ shell.pc = "init_failed" => count[shell.d] = 1
  /\ shell.pc \in {"unlist", "release", "register"} =>
       \A d \in list : Name[d] = Name[shell.d] => shell.pc = "unlist" /\ d = shell.held

\* A driver is initialised as long as it is referenced.
InitedHeld ==
  \A d \in Drivers :
    d \in inited <=> count[d] > 0 /\ ~(shell.pc = "init_failed" /\ shell.d = d)

\* What the main thread's fields are at each pc.
MainFields ==
  /\ main.pc = "switch" => main.back = "switched"
  /\ main.pc \in {"switch", "start"} => main.d = nextvis
  /\ main.pc \in {"switch", "start", "stop"} =>
       main.back = "switched" \/ (main.pc = "stop" /\ main.d = NoDriver)
  /\ main.pc = "stop" /\ main.back = "switched" => main.d = nextvis
  /\ main.pc = "start" => main.d \notin {visual, NoDriver}
  /\ main.pc = "stop" => main.d # visual \/ visual = NoDriver
  /\ curvis # NoDriver => /\ main.pc \in {"use", "drop", "stop"}
                          /\ main.pc = "stop" => main.back = "drop"
  /\ main.pc = "use" => curvis = visual
  /\ shell.pc = "set" => ~SwitchesVisual

DriversInv == /\ TypeOK /\ RefsBalance /\ UniqueNames /\ OneStarted
              /\ ShellFields /\ Fresh /\ InitedHeld /\ MainFields
=============================================================================
