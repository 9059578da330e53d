----------------------------- MODULE EntryList -----------------------------
(***************************************************************************)
(* Entry lists and the thread that fills them with directories               *)
(* (plugins/exe/entrylist).  A script asks for a directory and goes on as     *)
(* soon as the loader thread has taken the request; the two then share the    *)
(* list, its path and the table of paths, in which a path has one record that *)
(* lists, their entries and the loader count references to.                   *)
(*                                                                          *)
(* What is done under a list's lock is one step, taken when the script does   *)
(* not hold the lock itself.  Paths, types, the filter and the sort are left  *)
(* out, and so are assignments to entries (entrylist_set, entrylist_remove).  *)
(* Assumed of scripts: they keep a list while it is loaded, and do not load   *)
(* a list they hold locked.                                                   *)
(***************************************************************************)
EXTENDS Integers, Sequences, FiniteSets

CONSTANTS
  Lists,     \* entry lists
  Paths,     \* paths that scripts ask for: a path may be a directory now and none later
  MaxDots,   \* the bound of ".." and ".", of which the root has one and others two
  DirSize,   \* the most names the filter lets through in a directory
  MaxNodes,  \* the bound of the table of paths: then malloc fails
  MaxSem,    \* the bound of loader_sem, which a request raises even when the loader is awake
  NULL

ASSUME EntryListAssumption ==
  /\ MaxDots \in 0..2 /\ DirSize \in Nat /\ MaxNodes \in Nat /\ MaxSem \in Nat \ {0}
  /\ IsFiniteSet(Lists) /\ NULL \notin Lists /\ NULL \notin Paths

VARIABLES
  nodes,   \* the records of el_path_t, in the order of their creation: 0 is the null pointer
  pathes,  \* the head of their list
  el,      \* the lists
  locked,  \* those that the script holds locked
  loader,  \* loader_status, and the loader's el, path and save_path
  sem,     \* loader_sem
  thd,     \* the loader thread: its pc, and the names left in the directory
  script   \* the script's pc, and the arguments of el_loader_loaddir

table == <<nodes, pathes>>
vars == <<table, el, locked, loader, sem, thd, script>>

NoList == [exists |-> FALSE, path |-> 0, loading |-> 0, entries |-> <<>>]

\* el_loader_init, elpath_init
Init ==
  /\ nodes = <<>> /\ pathes = 0
  /\ el = [e \in Lists |-> NoList] /\ locked = {}
  /\ loader = [status |-> "INIT", el |-> NULL, path |-> NULL, save |-> 0]
  /\ sem = 0
  /\ thd = [pc |-> "top", left |-> 0]
  /\ script = [pc |-> "idle", el |-> NULL, path |-> NULL]

-----------------------------------------------------------------------------
\* The table of paths.

\* The search of elpath_add.
Find(name) ==
  LET find[i \in 0..Len(nodes)] ==
        IF i = 0 \/ nodes[i].name = name THEN i ELSE find[nodes[i].next]
  IN find[pathes]

AddRef(k) == nodes' = [nodes EXCEPT ![k].refcount = @ + 1] /\ UNCHANGED pathes

\* elpath_add, with result k
Add(name, k) ==
  LET old == Find(name) IN
  \/ k \in DOMAIN nodes /\ k = old /\ AddRef(k)
  \/ /\ old = 0 /\ Len(nodes) < MaxNodes /\ k = Len(nodes) + 1
     /\ nodes' = Append(nodes, [name |-> name, next |-> pathes, refcount |-> 1])
     /\ pathes' = k
  \/ old = 0 /\ k = 0 /\ UNCHANGED table

Places(d, k) == {i \in DOMAIN d : d[i] = k}
Times(d, k) == Cardinality(Places(d, k))

\* elpath_del of a sequence of references, null ones among them.  No record has
\* a prev, since elpath_add never sets one: a record that goes takes those before
\* it off the list.
Del(d) ==
  LET gone == {k \in DOMAIN nodes : Times(d, k) > 0 /\ nodes[k].refcount <= Times(d, k)} IN
  /\ nodes' = [k \in DOMAIN nodes |-> [nodes[k] EXCEPT !.refcount = @ - Times(d, k)]]
  /\ IF gone = {} THEN UNCHANGED pathes ELSE \E k \in gone : pathes' = nodes[k].next

-----------------------------------------------------------------------------
\* The script.

New(e) ==
  /\ script.pc = "idle" /\ ~el[e].exists
  /\ el' = [el EXCEPT ![e] = [NoList EXCEPT !.exists = TRUE]]
  /\ UNCHANGED <<table, locked, loader, sem, thd, script>>

\* entrylist_destroy, from the garbage collector.
Destroy(e) ==
  /\ script.pc = "idle" /\ el[e].exists /\ el[e].loading # 1 /\ e \notin locked
  /\ Del(Append(el[e].entries, el[e].path))
  /\ el' = [el EXCEPT ![e] = NoList]
  /\ UNCHANGED <<locked, loader, sem, thd, script>>

Lock(e) ==
  /\ script.pc = "idle" /\ el[e].exists /\ locked' = locked \cup {e}
  /\ UNCHANGED <<table, el, loader, sem, thd, script>>

Unlock(e) ==
  /\ script.pc = "idle" /\ e \in locked /\ locked' = locked \ {e}
  /\ UNCHANGED <<table, el, loader, sem, thd, script>>

Clear(e) ==
  /\ script.pc = "idle" /\ el[e].exists
  /\ Del(el[e].entries)
  /\ el' = [el EXCEPT ![e].entries = <<>>]
  /\ UNCHANGED <<locked, loader, sem, thd, script>>

ReadLoading_Resets(e) ==
  /\ script.pc = "idle" /\ el[e].exists
  /\ el' = [el EXCEPT ![e].loading = 0]
  /\ UNCHANGED <<table, locked, loader, sem, thd, script>>

\* gettable "loading"
ReadLoading(e) ==
  /\ script.pc = "idle" /\ el[e].exists /\ el[e].loading # 1
  /\ el' = [el EXCEPT ![e].loading = 0]
  /\ UNCHANGED <<table, locked, loader, sem, thd, script>>

\* el_loader_loaddir waits until the loader is ready ...
Load(e, name) ==
  /\ script.pc = "idle" /\ el[e].exists /\ e \notin locked
  /\ script' = [pc |-> "wait", el |-> e, path |-> name]
  /\ UNCHANGED <<table, el, locked, loader, sem, thd>>

LoadTimeout ==
  /\ script.pc = "wait" /\ loader.status # "READY"
  /\ script' = [pc |-> "idle", el |-> NULL, path |-> NULL]
  /\ UNCHANGED <<table, el, locked, loader, sem, thd>>

Ask_NoSignal ==
  /\ script.pc = "wait" /\ loader.status = "READY" /\ sem < MaxSem
  /\ loader' = [loader EXCEPT !.status = "STARTING", !.el = script.el, !.path = script.path]
  /\ script' = [script EXCEPT !.pc = "asked"]
  /\ UNCHANGED <<table, el, locked, sem, thd>>

\* ... leaves the request, and waits until it is taken.
Ask ==
  /\ script.pc = "wait" /\ loader.status = "READY" /\ sem < MaxSem
  /\ loader' = [loader EXCEPT !.status = "STARTING", !.el = script.el, !.path = script.path]
  /\ sem' = sem + 1
  /\ script' = [script EXCEPT !.pc = "asked"]
  /\ UNCHANGED <<table, el, locked, thd>>

LoadReturns ==
  /\ script.pc = "asked" /\ loader.status # "STARTING"
  /\ script' = [pc |-> "idle", el |-> NULL, path |-> NULL]
  /\ UNCHANGED <<table, el, locked, loader, sem, thd>>

\* el_loader_shutdown.  Each list holds a reference to the driver.
Shutdown ==
  /\ script.pc = "idle" /\ \A e \in Lists : ~el[e].exists
  /\ loader' = [loader EXCEPT !.status = "QUIT"]
  /\ sem' = sem + 1
  /\ script' = [script EXCEPT !.pc = "quit"]
  /\ UNCHANGED <<table, el, locked, thd>>

Restart_KeepsCookie ==
  /\ script.pc = "quit"
  /\ nodes' = <<>> /\ pathes' = 0
  /\ loader' = [loader EXCEPT !.status = "INIT"]
  /\ sem' = 0
  /\ thd' = [pc |-> "top", left |-> 0]
  /\ script' = [script EXCEPT !.pc = "idle"]
  /\ UNCHANGED <<el, locked>>

\* The thread is dead, or is killed after 500 jiffies; the driver is loaded again.
Restart ==
  /\ script.pc = "quit"
  /\ nodes' = <<>> /\ pathes' = 0
  /\ loader' = [status |-> "INIT", el |-> NULL, path |-> NULL, save |-> 0]
  /\ sem' = 0
  /\ thd' = [pc |-> "top", left |-> 0]
  /\ script' = [script EXCEPT !.pc = "idle"]
  /\ UNCHANGED <<el, locked>>

ScriptStep ==
  \/ \E e \in Lists : New(e) \/ Destroy(e) \/ Lock(e) \/ Unlock(e) \/ Clear(e) \/ ReadLoading(e)
  \/ \E e \in Lists, name \in Paths : Load(e, name)
  \/ LoadTimeout \/ Ask \/ LoadReturns \/ Shutdown \/ Restart

-----------------------------------------------------------------------------
\* The loader thread.

Begin ==
  /\ thd.pc = "top" /\ loader.status = "INIT"
  /\ loader' = [loader EXCEPT !.status = "READY"]
  /\ UNCHANGED <<table, el, locked, sem, thd, script>>

Sleep ==
  /\ thd.pc = "top" /\ loader.status = "READY"
  /\ thd' = [thd EXCEPT !.pc = "sem"]
  /\ UNCHANGED <<table, el, locked, loader, sem, script>>

Wake ==
  /\ thd.pc = "sem" /\ sem > 0 /\ sem' = sem - 1
  /\ thd' = [thd EXCEPT !.pc = "top"]
  /\ UNCHANGED <<table, el, locked, loader, script>>

Quit ==
  /\ thd.pc = "top" /\ loader.status = "QUIT"
  /\ loader' = [loader EXCEPT !.status = "DEAD"]
  /\ thd' = [thd EXCEPT !.pc = "end"]
  /\ UNCHANGED <<table, el, locked, sem, script>>

Taken(e, k) ==
  /\ el' = [el EXCEPT ![e].loading = 1, ![e].path = k]
  /\ loader' = [loader EXCEPT !.status = "LOADING", !.path = NULL, !.save = el[e].path]

Refused_StillLoading(e) ==
  /\ el' = [el EXCEPT ![e].loading = 1]
  /\ loader' = [loader EXCEPT !.status = "READY", !.path = NULL, !.el = NULL]

Refused(e) ==
  /\ el' = [el EXCEPT ![e].loading = -1]
  /\ loader' = [loader EXCEPT !.status = "READY", !.path = NULL, !.el = NULL]

\* case LOADER_STARTING
Start ==
  /\ thd.pc = "top" /\ loader.status = "STARTING" /\ loader.el \notin locked
  /\ \E k \in 0..Len(nodes) + 1 :
       Add(loader.path, k) /\ IF k # 0 THEN Taken(loader.el, k) ELSE Refused(loader.el)
  /\ UNCHANGED <<locked, sem, thd, script>>

\* case LOADER_LOADING, of what is no directory: its reference goes and the old path
\* comes back in two stores, taken as one since no record is freed in between.
NotDir ==
  /\ thd.pc = "top" /\ loader.status = "LOADING"
  /\ Del(<<el[loader.el].path>>)
  /\ el' = [el EXCEPT ![loader.el].path = loader.save]
  /\ loader' = [loader EXCEPT !.save = 0]
  /\ thd' = [thd EXCEPT !.pc = "finish"]
  /\ UNCHANGED <<locked, sem, script>>

Empty_NoClear ==
  /\ thd.pc = "top" /\ loader.status = "LOADING"
  /\ loader.el \notin locked
  /\ thd' = [thd EXCEPT !.pc = "dots"]
  /\ UNCHANGED <<table, el, locked, loader, sem, script>>

\* and of a directory: the list is emptied first,
Empty ==
  /\ thd.pc = "top" /\ loader.status = "LOADING"
  /\ loader.el \notin locked
  /\ Del(el[loader.el].entries)
  /\ el' = [el EXCEPT ![loader.el].entries = <<>>]
  /\ thd' = [thd EXCEPT !.pc = "dots"]
  /\ UNCHANGED <<locked, loader, sem, script>>

\* then ".." and "." are inserted, but for the root and for want of memory,
Dots ==
  LET e == loader.el
      k == el[e].path IN
  /\ thd.pc = "dots" /\ e \notin locked
  /\ \E n \in 0..MaxDots :
       /\ nodes' = [nodes EXCEPT ![k].refcount = @ + n]
       /\ el' = [el EXCEPT ![e].entries = @ \o [i \in 1..n |-> k]]
  /\ \E n \in 0..DirSize : thd' = [pc |-> "fill", left |-> n]
  /\ UNCHANGED <<pathes, locked, loader, sem, script>>

\* then the names that are read: loader_addentry takes a reference
Refer ==
  /\ thd.pc = "fill" /\ thd.left > 0
  /\ AddRef(el[loader.el].path)
  /\ thd' = [pc |-> "insert", left |-> thd.left - 1]
  /\ UNCHANGED <<el, locked, loader, sem, script>>

\* and inserts the entry, or gives the reference back and stops.
Insert ==
  LET e == loader.el IN
  /\ thd.pc = "insert" /\ e \notin locked
  /\ \/ /\ el' = [el EXCEPT ![e].entries = Append(@, el[e].path)]
        /\ thd' = [thd EXCEPT !.pc = "fill"]
        /\ UNCHANGED table
     \/ /\ Del(<<el[e].path>>)
        /\ thd' = [thd EXCEPT !.pc = "finish"]
        /\ UNCHANGED el
  /\ UNCHANGED <<locked, loader, sem, script>>

LastRead ==
  /\ thd.pc = "fill" /\ thd.left = 0
  /\ thd' = [thd EXCEPT !.pc = "finish"]
  /\ UNCHANGED <<table, el, locked, loader, sem, script>>

\* "Finish loading."
Finish ==
  /\ thd.pc = "finish"
  /\ el' = [el EXCEPT ![loader.el].loading = 2]
  /\ thd' = [pc |-> "done", left |-> 0]
  /\ UNCHANGED <<table, locked, loader, sem, script>>

Release_KeepsSave ==
  /\ thd.pc = "done"
  /\ loader' = [loader EXCEPT !.save = 0, !.el = NULL, !.status = "READY"]
  /\ thd' = [thd EXCEPT !.pc = "top"]
  /\ UNCHANGED <<table, el, locked, sem, script>>

Release ==
  /\ thd.pc = "done"
  /\ Del(<<loader.save>>)
  /\ loader' = [loader EXCEPT !.save = 0, !.el = NULL, !.status = "READY"]
  /\ thd' = [thd EXCEPT !.pc = "top"]
  /\ UNCHANGED <<el, locked, sem, script>>

LoaderStep ==
  \/ Begin \/ Sleep \/ Wake \/ Quit \/ Start
  \/ NotDir \/ Empty \/ Dots \/ Refer \/ Insert \/ LastRead \/ Finish \/ Release

Next == ScriptStep \/ LoaderStep

Spec == Init /\ [][Next]_vars

\* The loader thread runs and gets a list's mutex, which it polls, when that is
\* free time and again; a script in el_loader_loaddir runs too, and scripts
\* unlock what they lock.
Fairness ==
  /\ SF_vars(LoaderStep) /\ WF_vars(LoadTimeout \/ Ask \/ LoadReturns)
  /\ \A e \in Lists : SF_vars(Unlock(e))

FairSpec == Spec /\ Fairness

-----------------------------------------------------------------------------
\* Properties.

\* Every reference is null or a record of the table, and the search in it ends.
TableOK ==
  /\ nodes \in Seq([name : Paths, next : 0..MaxNodes, refcount : Int]) /\ Len(nodes) <= MaxNodes
  /\ pathes \in 0..Len(nodes) /\ \A k \in DOMAIN nodes : nodes[k].next < k

ListsOK ==
  /\ el \in [Lists -> [exists : BOOLEAN, path : 0..Len(nodes), loading : -1..2,
                       entries : Seq(1..Len(nodes))]]
  /\ \A e \in Lists : ~el[e].exists => el[e] = NoList
  /\ locked \subseteq {e \in Lists : el[e].exists}

ThreadsOK ==
  /\ loader \in [status : {"INIT", "READY", "STARTING", "LOADING", "QUIT", "DEAD"},
                 el : Lists \cup {NULL}, path : Paths \cup {NULL}, save : 0..Len(nodes)]
  /\ sem \in 0..MaxSem + 1
  /\ thd \in [pc : {"top", "sem", "dots", "fill", "insert", "finish", "done", "end"},
              left : 0..DirSize]
  /\ script \in [pc : {"idle", "wait", "asked", "quit"},
                 el : Lists \cup {NULL}, path : Paths \cup {NULL}]

TypeOK == TableOK /\ ListsOK /\ ThreadsOK

\* The references of a list, its path the last; those of the loader, as NULL, are
\* the path to put back and that of the entry it is about to insert.
References(x) ==
  IF x # NULL THEN Append(el[x].entries, el[x].path)
  ELSE <<loader.save, IF thd.pc = "insert" THEN el[loader.el].path ELSE 0>>

\* The number of references to a record.
Held(k) ==
  Cardinality(UNION {{x} \X Places(References(x), k) : x \in Lists \cup {NULL}})

\* A record's refcount is the number of references to it, whatever loads,
\* refuses, fails and is cleared or destroyed meanwhile: it comes to 0
\* with the last one who names the record, and not before.
RefCounts == \A k \in DOMAIN nodes : nodes[k].refcount = Held(k)

\* The two threads agree on the request: a list that says it is loading is the
\* one the loader works on, which is not destroyed meanwhile; a request is
\* complete when the loader sees it, and it never sleeps over one or over QUIT.
Handshake ==
  /\ \A e \in Lists : el[e].loading = 1 => loader.el = e /\ loader.status = "LOADING"
  /\ thd.pc \in {"dots", "fill", "insert", "finish"} =>
       loader.status = "LOADING" /\ loader.el # NULL /\ el[loader.el].loading = 1
  /\ loader.status = "STARTING" =>
       script = [pc |-> "asked", el |-> loader.el, path |-> loader.path] /\ el[script.el].exists
  /\ loader.status \in {"STARTING", "QUIT"} /\ thd.pc = "sem" => sem > 0

\* All entries of a list are of its directory: until a new one is read, its
\* entries name the path that the loader keeps to put back.
OnePath ==
  \A e \in Lists :
    \A i \in DOMAIN el[e].entries :
      el[e].entries[i] = IF loader.el = e /\ loader.status = "LOADING" /\ thd.pc = "top"
                           THEN loader.save ELSE el[e].path

\* The rest of the inductive invariant: the list that the thread works on says so
\* and has the path that is read; no list does when the work is done;
Working ==
  /\ loader.status = "LOADING" /\ thd.pc # "done" =>
       /\ loader.el # NULL /\ el[loader.el].loading = 1
       /\ thd.pc # "finish" => el[loader.el].path # 0
  /\ thd.pc = "done" => \A e \in Lists : el[e].loading # 1

\* the thread sleeps and ends only with nothing to do;
Resting ==
  /\ thd.pc = "sem" => loader.status \in {"READY", "STARTING", "QUIT"}
  /\ thd.pc = "end" => loader.status = "DEAD"

\* and a script's list is there until el_loader_loaddir returns, none when the
\* loader is shut down.
Asking ==
  /\ script.pc \in {"wait", "asked"} =>
       script.el # NULL /\ script.path # NULL /\ el[script.el].exists
  /\ script.pc = "quit" => \A e \in Lists : ~el[e].exists
  /\ script.pc # "quit" => sem <= MaxSem /\ loader.status \notin {"QUIT", "DEAD"}

EntryInv == TypeOK /\ Handshake /\ OnePath /\ Working /\ Resting /\ Asking

\* RefCounts is inductive with this: the loader keeps a path to put back only while
\* it loads.
Saving == loader.save # 0 => loader.status = "LOADING" \/ thd.pc = "done"

RefInv == EntryInv /\ Saving /\ RefCounts

\* A script that asks for a directory gets out of el_loader_loaddir.
LoadReturned == script.pc \in {"wait", "asked"} ~> script.pc = "idle"

\* A list that says it is loading says so no longer after a while.
LoadEnds == \A e \in Lists : el[e].loading = 1 ~> el[e].loading # 1
=============================================================================
