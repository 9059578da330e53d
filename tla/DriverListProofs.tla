-------------------------- MODULE DriverListProofs --------------------------
(***************************************************************************)
(* For any drivers and names, as long as "none" is not chosen over a choice *)
(* that is still pending: every reference has an owner, what is pointed to   *)
(* is in memory and initialised, names in the list are unique, and visuals   *)
(* are started and stopped in turn.                                          *)
(***************************************************************************)
EXTENDS DriverList, TLAPS

\* The references there should be to a driver.
Due(d) == One(d \in list) + One(d \in handles)
            + One(ChoicePending /\ nextvis = d) + One(visual = d) + One(curvis = d)
            + One(shell.held = d) + One(shell.pc = "init_failed" /\ shell.d = d)

Counted == count \in [Drivers -> Nat] /\ lef \in [Drivers -> Nat] /\ inited \subseteq Drivers

ShellRecords ==
  [pc : {"idle", "search", "unlist", "release", "register", "init_failed", "loaded",
         "set", "ask", "answer"},
   d : Pointers, held : Pointers, name : Names \cup {NoName}]
MainRecords == [pc : {"frame", "switch", "start", "stop", "switched", "look", "use", "drop"},
                d : Pointers, back : {"switched", "drop"}]

\* What the references must satisfy.
Books == /\ Counted
         /\ \A d \in Drivers :
              /\ count[d] = Due(d) /\ lef[d] = count[d] + One(shell.d = d)
              /\ d \in inited <=> count[d] > 0 /\ ~(shell.pc = "init_failed" /\ shell.d = d)

-----------------------------------------------------------------------------
(* The helpers.                                                            *)

\* One counts 0 or 1.
LEMMA OneIs ==
  ASSUME NEW b \in BOOLEAN
  PROVE  One(b) \in {0, 1} /\ (b => One(b) = 1) /\ (~b => One(b) = 0)
BY DEF One

\* drv_list_search returns a listed driver of that name, if there is one.
LEMMA FoundListed ==
  ASSUME NEW n, list \subseteq Drivers
  PROVE  /\ Found(n) \in Pointers
         /\ Found(n) # NoDriver => Found(n) \in list /\ Name[Found(n)] = n
         /\ Found(n) = NoDriver => \A d \in list : Name[d] # n
BY DriverListAssumption DEF Found, Pointers

\* driver_reference adds one to both counts and initialises a new driver.
LEMMA ReferenceAdds ==
  ASSUME Counted, NEW d \in Pointers, Reference(d)
  PROVE  /\ Counted'
         /\ \A e \in Drivers :
              /\ count'[e] = count[e] + One(e = d)
              /\ lef'[e] = lef[e] + One(e = d)
              /\ e \in inited' <=> e \in inited \/ (e = d /\ count[e] = 0)
<1>1. CASE d = NoDriver
  BY <1>1, DriverListAssumption DEF Reference, Added, Counted, One
<1>2. CASE d \in Drivers
  BY <1>2, DriverListAssumption DEF Reference, Added, Counted, One
<1> QED
  BY <1>1, <1>2 DEF Pointers

\* driver_dereference takes one off and shuts down at the last.
LEMMA DereferenceTakes ==
  ASSUME Counted, NEW d \in Pointers, Dereference(d),
         d \in Drivers => count[d] > 0 /\ lef[d] > 0
  PROVE  /\ Counted'
         /\ \A e \in Drivers :
              /\ count'[e] = count[e] - One(e = d)
              /\ lef'[e] = lef[e] - One(e = d)
              /\ e \in inited' <=> e \in inited /\ ~(e = d /\ count[e] = 1)
<1>1. CASE d = NoDriver
  BY <1>1, DriverListAssumption DEF Dereference, Added, Counted, One
<1>2. CASE d \in Drivers
  <2>1. count[d] \in Nat /\ lef[d] \in Nat /\ count[d] - 1 \in Nat /\ lef[d] - 1 \in Nat
    BY <1>2 DEF Counted
  <2>2. /\ count' = [count EXCEPT ![d] = @ + (-1)]
        /\ lef' = [lef EXCEPT ![d] = @ + (-1)]
        /\ inited' = IF count'[d] = 0 THEN inited \ {d} ELSE inited
    BY <1>2, DriverListAssumption DEF Dereference, Added
  <2>3. count' \in [Drivers -> Nat] /\ lef' \in [Drivers -> Nat]
    BY <2>1, <2>2 DEF Counted
  <2> QED
    BY <1>2, <2>1, <2>2, <2>3 DEF Counted, One
<1> QED
  BY <1>1, <1>2 DEF Pointers

\* The invariant keeps the books, with everyone's types.
LEMMA InvBooks ==
  ASSUME DriversInv
  PROVE  /\ Books /\ Counted
         /\ list \subseteq Drivers /\ handles \subseteq Drivers
         /\ nextvis \in Pointers /\ curvis \in Pointers /\ visual \in Pointers
         /\ shell \in ShellRecords /\ shell.d \in Pointers /\ shell.held \in Pointers
         /\ shell.name \in Names \cup {NoName}
         /\ main \in MainRecords /\ main.d \in Pointers
BY DEF DriversInv, TypeOK, RefsBalance, InitedHeld, Books, Due, Counted, ShellRecords,
   MainRecords

\* An owner's driver is referenced, and its program in memory.
LEMMA OwnerCounts ==
  ASSUME Books,
         NEW d \in Drivers,
         \/ d \in list \/ d \in handles \/ (ChoicePending /\ nextvis = d)
         \/ visual = d \/ curvis = d \/ shell.held = d
         \/ (shell.pc = "init_failed" /\ shell.d = d)
  PROVE  count[d] > 0 /\ lef[d] > 0
<1>1. /\ One(d \in list) \in {0, 1} /\ One(d \in handles) \in {0, 1}
      /\ One(ChoicePending /\ nextvis = d) \in {0, 1} /\ One(visual = d) \in {0, 1}
      /\ One(curvis = d) \in {0, 1} /\ One(shell.held = d) \in {0, 1}
      /\ One(shell.pc = "init_failed" /\ shell.d = d) \in {0, 1}
      /\ One(shell.d = d) \in {0, 1}
  BY DEF One
<1>2. \/ One(d \in list) = 1 \/ One(d \in handles) = 1
      \/ One(ChoicePending /\ nextvis = d) = 1 \/ One(visual = d) = 1
      \/ One(curvis = d) = 1 \/ One(shell.held = d) = 1
      \/ One(shell.pc = "init_failed" /\ shell.d = d) = 1
  BY DEF One
<1>3. count[d] = Due(d) /\ lef[d] = count[d] + One(shell.d = d)
  BY DEF Books
<1> QED
  BY <1>1, <1>2, <1>3 DEF Due

-----------------------------------------------------------------------------
(* The books.                                                              *)

\* A step that leaves the references and their owners alone keeps the books.
LEMMA BooksFrame ==
  ASSUME Books, UNCHANGED <<count, lef, inited>>,
         \A d \in Drivers : Due(d)' = Due(d) /\ (shell'.d = d <=> shell.d = d),
         shell'.pc = "init_failed" <=> shell.pc = "init_failed"
  PROVE  Books'
BY DEF Books, Counted, One

\* Where an owner gives up its driver and dereferences it, the books are kept.
LEMMA BooksTake ==
  ASSUME Books, NEW d \in Pointers, Dereference(d),
         d \in Drivers => count[d] > 0 /\ lef[d] > 0,
         \A e \in Drivers : Due(e)' = Due(e) - One(e = d),
         shell'.d = shell.d,
         \/ /\ shell.pc = "init_failed" => shell.d # d
            /\ shell'.pc = "init_failed" <=> shell.pc = "init_failed"
         \/ /\ shell.d = d /\ (d \in Drivers => count[d] = 1)
            /\ shell.pc = "init_failed" /\ shell'.pc # "init_failed"
  PROVE  Books'
<1>1. /\ Counted'
      /\ \A e \in Drivers : /\ count'[e] = count[e] - One(e = d)
                            /\ lef'[e] = lef[e] - One(e = d)
                            /\ e \in inited' <=> e \in inited /\ ~(e = d /\ count[e] = 1)
  BY DereferenceTakes DEF Books
<1>2. ASSUME NEW e \in Drivers
      PROVE  /\ count'[e] = Due(e)' /\ lef'[e] = count'[e] + One(shell'.d = e)
             /\ e \in inited' <=> count'[e] > 0 /\ ~(shell'.pc = "init_failed" /\ shell'.d = e)
  <2>1. /\ count[e] = Due(e) /\ lef[e] = count[e] + One(shell.d = e)
        /\ count[e] \in Nat /\ lef[e] \in Nat
        /\ e \in inited <=> count[e] > 0 /\ ~(shell.pc = "init_failed" /\ shell.d = e)
    BY DEF Books, Counted
  <2>2. One(e = d) = IF e = d THEN 1 ELSE 0
    BY DEF One
  <2>3. One(shell'.d = e) \in {0, 1} /\ One(shell.d = e) = One(shell'.d = e)
    BY DEF One
  <2> QED
    BY <1>1, <2>1, <2>2, <2>3
<1> QED
  BY <1>1, <1>2 DEF Books

\* So are they where a new owner references its driver.
LEMMA BooksAdd ==
  ASSUME Books, NEW d \in Pointers, Reference(d),
         \A e \in Drivers : Due(e)' = Due(e) + One(e = d),
         shell'.d = shell.d,
         shell.pc = "init_failed" => shell.d # d,
         shell'.pc = "init_failed" <=> shell.pc = "init_failed"
  PROVE  Books'
<1>1. /\ Counted'
      /\ \A e \in Drivers : /\ count'[e] = count[e] + One(e = d)
                            /\ lef'[e] = lef[e] + One(e = d)
                            /\ e \in inited' <=> e \in inited \/ (e = d /\ count[e] = 0)
  BY ReferenceAdds DEF Books
<1>2. ASSUME NEW e \in Drivers
      PROVE  /\ count'[e] = Due(e)' /\ lef'[e] = count'[e] + One(shell'.d = e)
             /\ e \in inited' <=> count'[e] > 0 /\ ~(shell'.pc = "init_failed" /\ shell'.d = e)
  <2>1. /\ count[e] = Due(e) /\ lef[e] = count[e] + One(shell.d = e)
        /\ count[e] \in Nat /\ lef[e] \in Nat
        /\ e \in inited <=> count[e] > 0 /\ ~(shell.pc = "init_failed" /\ shell.d = e)
    BY DEF Books, Counted
  <2>2. One(e = d) = IF e = d THEN 1 ELSE 0
    BY DEF One
  <2>3. One(shell'.d = e) \in {0, 1} /\ One(shell.d = e) = One(shell'.d = e)
    BY DEF One
  <2> QED
    BY <1>1, <2>1, <2>2, <2>3
<1> QED
  BY <1>1, <1>2 DEF Books

\* A driver that is being loaded has no other owner.
LEMMA NewUnowned ==
  ASSUME DriversInv, shell.pc \in {"search", "unlist", "release", "register", "init_failed"}
  PROVE  /\ shell.d \in Drivers /\ shell.d \notin list /\ shell.d \notin handles
         /\ ~(ChoicePending /\ nextvis = shell.d)
         /\ shell.d # visual /\ shell.d # curvis /\ shell.d # shell.held
<1> DEFINE d == shell.d
<1>1. d \in Drivers
  BY InvBooks DEF DriversInv, ShellFields, LoadPcs, Pointers
<1>2. CASE shell.pc # "init_failed"
  <2>1. count[d] = 0
    BY <1>2 DEF DriversInv, Fresh
  <2> QED
    BY <1>1, <2>1, InvBooks, OwnerCounts
<1>3. CASE shell.pc = "init_failed"
  <2>1. count[d] = Due(d) /\ count[d] = 1
    BY <1>1, <1>3, InvBooks DEF DriversInv, Fresh, Books
  <2>2. One(shell.pc = "init_failed" /\ shell.d = d) = 1
    BY <1>3 DEF One
  <2> HIDE DEF d
  <2>3. /\ One(d \in list) \in {0, 1} /\ One(d \in handles) \in {0, 1}
        /\ One(ChoicePending /\ nextvis = d) \in {0, 1} /\ One(visual = d) \in {0, 1}
        /\ One(curvis = d) \in {0, 1} /\ One(shell.held = d) \in {0, 1}
    BY DEF One
  <2>4. /\ One(d \in list) = 0 /\ One(d \in handles) = 0
        /\ One(ChoicePending /\ nextvis = d) = 0 /\ One(visual = d) = 0
        /\ One(curvis = d) = 0 /\ One(shell.held = d) = 0
    BY <2>1, <2>2, <2>3 DEF Due
  <2>5. /\ d \notin list /\ d \notin handles /\ ~(ChoicePending /\ nextvis = d)
        /\ visual # d /\ curvis # d /\ shell.held # d
    BY <2>4 DEF One
  <2> QED
    BY <1>1, <2>5 DEF d
<1> QED
  BY <1>2, <1>3

-----------------------------------------------------------------------------
(* Every step keeps the books.                                             *)

\* Loading a plugin.
LEMMA LoadBooks ==
  ASSUME DriversInv, LoadStep \/ \E d \in Drivers : Load(d)
  PROVE  Books'
<1> USE InvBooks, DriverListAssumption DEF DriversInv, ShellFields, LoadPcs
<1>0. UNCHANGED <<nextvis, visual, curvis, handles, main>>
  BY DEF LoadStep, Load, SearchOld, Unlist, ReleaseOld, Register, InitFails,
     Unreference, Loaded, loadUnchanged, vis
<1>1. ASSUME NEW d \in Drivers, Load(d)
      PROVE  Books'
  BY <1>0, <1>1 DEF Load, Doing, Books, Due, Counted, One, ChoicePending
<1>2. CASE SearchOld
  <2> DEFINE old == Found(Name[shell.d])
  <2>1. /\ old \in Pointers /\ Reference(old)
        /\ shell.held = NoDriver /\ shell'.held = old /\ shell'.d = shell.d
        /\ shell.pc = "search" /\ shell'.pc \in {"register", "unlist"} /\ UNCHANGED list
    BY <1>2, FoundListed DEF SearchOld, Doing
  <2> HIDE DEF old
  <2>2. ASSUME NEW e \in Drivers
        PROVE  Due(e)' = Due(e) + One(e = old)
    BY <1>0, <2>1 DEF Due, One, ChoicePending
  <2> QED
    BY <2>1, <2>2, BooksAdd
<1>3. CASE Unlist
  <2>1. /\ shell.held \in Drivers /\ shell.held \in list /\ Dereference(shell.held)
        /\ list' = list \ {shell.held} /\ shell'.held = shell.held /\ shell'.d = shell.d
        /\ shell.pc = "unlist" /\ shell'.pc = "release"
    BY <1>3 DEF Unlist, ShellRecords
  <2>2. ASSUME NEW e \in Drivers
        PROVE  Due(e)' = Due(e) - One(e = shell.held)
    BY <1>0, <2>1 DEF Due, One, ChoicePending
  <2> QED
    BY <2>1, <2>2, BooksTake, OwnerCounts
<1>4. CASE ReleaseOld
  <2>1. /\ shell.held \in Drivers /\ Dereference(shell.held) /\ UNCHANGED list
        /\ shell'.held = NoDriver /\ shell'.d = shell.d
        /\ shell.pc = "release" /\ shell'.pc = "register"
    BY <1>4 DEF ReleaseOld, ShellRecords, Pointers
  <2>2. ASSUME NEW e \in Drivers
        PROVE  Due(e)' = Due(e) - One(e = shell.held)
    BY <1>0, <2>1 DEF Due, One, ChoicePending
  <2> QED
    BY <2>1, <2>2, BooksTake, OwnerCounts
<1>5. CASE Register
  <2>0. /\ shell.d \in Drivers /\ shell.pc = "register" /\ shell.d \notin list
        /\ \A e \in list : Name[e] # Name[shell.d]
    BY <1>5, NewUnowned DEF Register, Fresh
  <2>n. Name[shell.d] \in Names
    BY <2>0
  <2>f. Found(Name[shell.d]) = NoDriver
    BY <2>0, <2>n, FoundListed
  <2>1. /\ shell.d \in Drivers /\ Reference(shell.d) /\ list' = list \cup {shell.d}
        /\ shell'.held = shell.held /\ shell'.d = shell.d
        /\ shell.pc = "register" /\ shell'.pc = "loaded" /\ shell.d \notin list
    BY <1>5, <2>0, <2>f DEF Register
  <2>2. ASSUME NEW e \in Drivers
        PROVE  Due(e)' = Due(e) + One(e = shell.d)
    BY <1>0, <2>1 DEF Due, One, ChoicePending
  <2> QED
    BY <2>1, <2>2, BooksAdd
<1>6. CASE InitFails
  <2>1. /\ shell.d \in Drivers /\ UNCHANGED <<list, inited>>
        /\ count' = [count EXCEPT ![shell.d] = @ + 1]
        /\ lef' = [lef EXCEPT ![shell.d] = @ + 1]
        /\ shell'.held = shell.held /\ shell'.d = shell.d
        /\ shell.pc = "register" /\ shell'.pc = "init_failed" /\ count[shell.d] = 0
    BY <1>6, NewUnowned DEF InitFails, Added, Fresh
  <2> QED
    BY <1>0, <2>1 DEF Books, Due, Counted, One, ChoicePending
<1>7. CASE Unreference
  <2>1. /\ shell.d \in Drivers /\ Dereference(shell.d) /\ UNCHANGED list
        /\ shell'.held = shell.held /\ shell'.d = shell.d
        /\ shell.pc = "init_failed" /\ shell'.pc = "loaded" /\ count[shell.d] = 1
    BY <1>7, NewUnowned DEF Unreference, Fresh
  <2>2. ASSUME NEW e \in Drivers
        PROVE  Due(e)' = Due(e) - One(e = shell.d)
    BY <1>0, <2>1 DEF Due, One, ChoicePending
  <2> QED
    BY <2>1, <2>2, BooksTake, OwnerCounts
<1>8. CASE Loaded
  <2>1. /\ shell.d \in Drivers /\ UNCHANGED <<list, count, inited>>
        /\ lef' = [lef EXCEPT ![shell.d] = @ + (-1)]
        /\ shell.held = NoDriver /\ shell'.held = NoDriver /\ shell'.d = NoDriver
        /\ shell.pc = "loaded" /\ shell'.pc = "idle"
    BY <1>8 DEF Loaded, Added, Idle, Doing, ShellRecords, Pointers
  <2>2. /\ lef[shell.d] \in Nat /\ count[shell.d] \in Nat
        /\ lef[shell.d] = count[shell.d] + 1
    BY <2>1 DEF Books, Counted, One
  <2> QED
    BY <1>0, <2>1, <2>2 DEF Books, Due, Counted, One, ChoicePending
<1> QED
  BY <1>1, <1>2, <1>3, <1>4, <1>5, <1>6, <1>7, <1>8 DEF LoadStep

\* Choosing and naming a visual, and Lua's values.
LEMMA CommandBooks ==
  ASSUME DriversInv,
         \/ Choose \/ Ask \/ Answer
         \/ \E n \in Names \cup {NoName} : SetVisual(n)
         \/ \E d \in Drivers : GetHandle(d) \/ DropHandle(d)
  PROVE  Books'
<1> USE InvBooks, NewUnowned, DriverListAssumption DEF DriversInv, ShellFields, LoadPcs
<1>1. ASSUME NEW n \in Names \cup {NoName}, SetVisual(n)
      PROVE  Books'
  <2>1. /\ ChoicePending /\ ~ChoicePending' /\ Dereference(nextvis)
        /\ shell.d = NoDriver /\ shell.held = NoDriver
        /\ shell'.d = NoDriver /\ shell'.held = NoDriver
        /\ shell.pc = "idle" /\ shell'.pc = "set"
        /\ UNCHANGED <<list, handles, nextvis, visual, curvis>>
    BY <1>1 DEF SetVisual, Doing, vis, VisMutex, SwitchesVisual, ChoicePending
  <2>2. ASSUME NEW e \in Drivers
        PROVE  Due(e)' = Due(e) - One(e = nextvis)
    BY <2>1 DEF Due, One
  <2> QED
    BY <2>1, <2>2, BooksTake, OwnerCounts
<1>2. CASE Choose
  <2>1. /\ ~ChoicePending /\ ChoicePending' /\ shell.d = NoDriver
        /\ UNCHANGED <<list, handles, visual, curvis, main>>
        /\ shell.pc = "set" /\ shell'.pc = "ask"
        /\ shell'.d = shell.d /\ shell'.held = shell.held
    BY <1>2 DEF Choose, ChoicePending, MainFields, SwitchesVisual
  <2>2. CASE shell.name = NoName
    <3>1. UNCHANGED refs /\ nextvis' = NoDriver
      BY <1>2, <2>2 DEF Choose
    <3>2. ASSUME NEW e \in Drivers
          PROVE  Due(e)' = Due(e)
      BY <2>1, <3>1 DEF Due, One
    <3> QED
      BY <2>1, <3>1, <3>2, BooksFrame DEF refs
  <2>3. CASE shell.name # NoName
    <3>1. Reference(nextvis') /\ nextvis' \in Pointers
      BY <1>2, <2>3, FoundListed DEF Choose
    <3>2. ASSUME NEW e \in Drivers
          PROVE  Due(e)' = Due(e) + One(e = nextvis')
      BY <2>1 DEF Due, One
    <3> QED
      BY <2>1, <3>1, <3>2, BooksAdd
  <2> QED
    BY <2>2, <2>3
<1>3. CASE Ask
  <2>1. /\ Reference(visual) /\ shell.d = NoDriver /\ shell'.d = NoDriver
        /\ shell.held = NoDriver /\ shell'.held = visual
        /\ shell.pc = "ask" /\ shell'.pc = "answer"
        /\ UNCHANGED <<list, handles, nextvis, visual, curvis, main>>
    BY <1>3 DEF Ask, Doing, vis
  <2>2. ASSUME NEW e \in Drivers
        PROVE  Due(e)' = Due(e) + One(e = visual)
    BY <2>1 DEF Due, One, ChoicePending
  <2> QED
    BY <2>1, <2>2, BooksAdd
<1>4. CASE Answer
  <2>1. /\ Dereference(shell.held) /\ shell.d = NoDriver /\ shell'.d = NoDriver
        /\ shell'.held = NoDriver /\ shell.pc = "answer" /\ shell'.pc = "idle"
        /\ UNCHANGED <<list, handles, nextvis, visual, curvis, main>>
    BY <1>4 DEF Answer, Idle, Doing, vis
  <2>2. ASSUME NEW e \in Drivers
        PROVE  Due(e)' = Due(e) - One(e = shell.held)
    BY <2>1 DEF Due, One, ChoicePending
  <2> QED
    BY <2>1, <2>2, BooksTake, OwnerCounts
<1>5. ASSUME NEW d \in Drivers, GetHandle(d)
      PROVE  Books'
  <2>1. /\ Reference(d) /\ shell.pc = "idle" /\ d \notin handles
        /\ handles' = handles \cup {d}
        /\ UNCHANGED <<list, shell, nextvis, visual, curvis, main>>
    BY <1>5 DEF GetHandle, vis
  <2>2. ASSUME NEW e \in Drivers
        PROVE  Due(e)' = Due(e) + One(e = d)
    BY <2>1 DEF Due, One, ChoicePending
  <2> QED
    BY <2>1, <2>2, BooksAdd DEF Pointers
<1>6. ASSUME NEW d \in Drivers, DropHandle(d)
      PROVE  Books'
  <2>1. /\ Dereference(d) /\ shell.pc = "idle" /\ d \in handles
        /\ handles' = handles \ {d}
        /\ UNCHANGED <<list, shell, nextvis, visual, curvis, main>>
    BY <1>6 DEF DropHandle, vis
  <2>2. ASSUME NEW e \in Drivers
        PROVE  Due(e)' = Due(e) - One(e = d)
    BY <2>1 DEF Due, One, ChoicePending
  <2> QED
    BY <2>1, <2>2, BooksTake, OwnerCounts DEF Pointers
<1> QED
  BY <1>1, <1>2, <1>3, <1>4, <1>5, <1>6

\* The main thread.
LEMMA MainBooks ==
  ASSUME DriversInv, MainStep
  PROVE  Books'
<1> USE InvBooks, NewUnowned, DriverListAssumption DEF DriversInv, MainFields
<1>0. UNCHANGED <<list, handles, shell>>
  BY DEF MainStep, Frame, Switch, Started, StartFails, Stopped, Switched, Look, Shown,
     Crashed, Drop, mainUnchanged
<1>1. CASE Frame \/ Started \/ Shown \/ Crashed \/ Switched
  <2>1. /\ UNCHANGED <<count, lef, inited, visual, curvis>>
        /\ \/ UNCHANGED nextvis /\ main.pc # "switched" /\ main'.pc # "switched"
           \/ nextvis' = NoDriver /\ main.pc = "switched"
    <3>1. CASE Frame \/ Shown \/ Crashed \/ Started
      BY <3>1 DEF Frame, Started, Shown, Crashed, Main, MainRecords, refs, vis
    <3>2. CASE Switched
      BY <3>2 DEF Switched, refs
    <3> QED
      BY <1>1, <3>1, <3>2
  <2>2. ASSUME NEW e \in Drivers
        PROVE  Due(e)' = Due(e)
    BY <1>0, <2>1 DEF Due, One, ChoicePending
  <2> QED
    BY <1>0, <2>1, <2>2, BooksFrame
<1>2. CASE Switch
  <2>1. /\ main.pc = "switch" /\ main.d = nextvis /\ main.back = "switched"
        /\ UNCHANGED <<nextvis, visual, curvis>>
    BY <1>2 DEF Switch, vis
  <2>2. CASE main.d = visual
    <3>1. Dereference(nextvis) /\ main'.pc = "switched" /\ ChoicePending /\ ~ChoicePending'
      BY <1>0, <1>2, <2>1, <2>2 DEF Switch, ChoicePending, SwitchesVisual, MainRecords
    <3>2. ASSUME NEW e \in Drivers
          PROVE  Due(e)' = Due(e) - One(e = nextvis)
      BY <1>0, <2>1, <3>1 DEF Due, One
    <3> QED
      BY <1>0, <3>1, <3>2, BooksTake, OwnerCounts
  <2>3. CASE main.d # visual
    <3>1. UNCHANGED <<count, lef, inited>> /\ main'.pc \in {"start", "stop"}
      BY <1>2, <2>3 DEF Switch, refs, MainRecords
    <3>2. ASSUME NEW e \in Drivers
          PROVE  Due(e)' = Due(e)
      BY <1>0, <2>1, <3>1 DEF Due, One, ChoicePending
    <3> QED
      BY <1>0, <3>1, <3>2, BooksFrame
  <2> QED
    BY <2>2, <2>3
<1>3. CASE StartFails
  <2>1. /\ Dereference(nextvis) /\ ChoicePending /\ ~ChoicePending'
        /\ UNCHANGED <<nextvis, visual, curvis>>
    BY <1>0, <1>3 DEF StartFails, vis, ChoicePending, SwitchesVisual, MainRecords
  <2>2. ASSUME NEW e \in Drivers
        PROVE  Due(e)' = Due(e) - One(e = nextvis)
    BY <1>0, <2>1 DEF Due, One
  <2> QED
    BY <1>0, <2>1, <2>2, BooksTake, OwnerCounts
<1>4. CASE Stopped
  <2>1. /\ Dereference(visual) /\ visual' = main.d /\ UNCHANGED <<nextvis, curvis>>
        /\ \/ main.d = nextvis /\ ChoicePending /\ ~ChoicePending'
           \/ main.d = NoDriver /\ (ChoicePending' <=> ChoicePending)
    BY <1>0, <1>4 DEF Stopped, ChoicePending, SwitchesVisual, MainRecords
  <2>2. ASSUME NEW e \in Drivers
        PROVE  Due(e)' = Due(e) - One(e = visual)
    BY <1>0, <2>1 DEF Due, One
  <2> QED
    BY <1>0, <2>1, <2>2, BooksTake, OwnerCounts
<1>5. CASE Look
  <2>1. /\ Reference(visual) /\ curvis = NoDriver /\ curvis' = visual
        /\ main.pc = "look" /\ main'.pc \in {"frame", "use"}
        /\ UNCHANGED <<nextvis, visual>>
    BY <1>5 DEF Look
  <2>2. ASSUME NEW e \in Drivers
        PROVE  Due(e)' = Due(e) + One(e = visual)
    BY <1>0, <2>1 DEF Due, One, ChoicePending
  <2> QED
    BY <1>0, <2>1, <2>2, BooksAdd
<1>6. CASE Drop
  <2>1. /\ Dereference(curvis) /\ curvis' = NoDriver
        /\ main.pc = "drop" /\ main'.pc = "frame" /\ UNCHANGED <<nextvis, visual>>
    BY <1>6 DEF Drop, Main
  <2>2. ASSUME NEW e \in Drivers
        PROVE  Due(e)' = Due(e) - One(e = curvis)
    BY <1>0, <2>1 DEF Due, One, ChoicePending
  <2> QED
    BY <1>0, <2>1, <2>2, BooksTake, OwnerCounts
<1> QED
  BY <1>1, <1>2, <1>3, <1>4, <1>5, <1>6 DEF MainStep

\* Every step of the specification.
LEMMA NextBooks ==
  ASSUME DriversInv, Next
  PROVE  Books'
BY LoadBooks, CommandBooks, MainBooks DEF Next, ShellStep, Command

-----------------------------------------------------------------------------
(* Every step keeps the rest of the invariant.                             *)

\* The types.
LEMMA TypesKept ==
  ASSUME DriversInv, Next
  PROVE  TypeOK'
<1> USE InvBooks, DriverListAssumption
<1>1. TypeOK
  BY DEF DriversInv
<1>2. CASE LoadStep \/ \E d \in Drivers : Load(d)
  <2>1. UNCHANGED <<vis, handles, main>>
    BY <1>2 DEF LoadStep, Load, SearchOld, Unlist, ReleaseOld, Register, InitFails,
       Unreference, Loaded, loadUnchanged
  <2>2. list' \subseteq Drivers
    BY <1>2 DEF LoadStep, Load, SearchOld, Unlist, ReleaseOld, Register, InitFails,
       Unreference, Loaded, DriversInv, ShellFields, LoadPcs, Pointers
  <2>3. shell' \in ShellRecords
    <3>1. CASE SearchOld
      BY <3>1, FoundListed DEF SearchOld, ShellRecords, Doing
    <3>2. CASE Unlist \/ ReleaseOld \/ Register \/ InitFails \/ Unreference
      BY <3>2 DEF Unlist, ReleaseOld, Register, InitFails, Unreference, ShellRecords,
         Pointers
    <3>3. CASE Loaded \/ \E d \in Drivers : Load(d)
      BY <3>3 DEF Loaded, Load, ShellRecords, Doing, Idle, Pointers
    <3> QED
      BY <1>2, <3>1, <3>2, <3>3 DEF LoadStep
  <2> QED
    BY <1>1, <2>1, <2>2, <2>3, NextBooks DEF TypeOK, Books, Counted, ShellRecords, vis
<1>3. CASE \/ Choose \/ Ask \/ Answer
           \/ \E n \in Names \cup {NoName} : SetVisual(n)
           \/ \E d \in Drivers : GetHandle(d) \/ DropHandle(d)
  <2>1. UNCHANGED <<list, curvis, visual, started, main>> /\ handles' \subseteq Drivers
    BY <1>3 DEF Choose, Ask, Answer, SetVisual, GetHandle, DropHandle, vis
  <2>2. nextvis' \in Pointers /\ change_vis' \in BOOLEAN
    BY <1>1, <1>3, FoundListed DEF Choose, Ask, Answer, SetVisual, GetHandle, DropHandle,
       vis, TypeOK
  <2>3. shell' \in ShellRecords
    BY <1>3 DEF Choose, Ask, Answer, SetVisual, GetHandle, DropHandle, ShellRecords,
       Doing, Idle, Pointers
  <2> QED
    BY <1>1, <2>1, <2>2, <2>3, NextBooks DEF TypeOK, Books, Counted, ShellRecords
<1>4. CASE MainStep
  <2>1. UNCHANGED <<list, handles, shell>>
    BY <1>4 DEF MainStep, Frame, Switch, Started, StartFails, Stopped, Switched, Look,
       Shown, Crashed, Drop, mainUnchanged
  <2>2. /\ nextvis' \in Pointers /\ curvis' \in Pointers /\ visual' \in Pointers
        /\ change_vis' \in BOOLEAN
    BY <1>1, <1>4 DEF MainStep, Frame, Switch, Started, StartFails, Stopped, Switched,
       Look, Shown, Crashed, Drop, vis, TypeOK, Pointers
  <2>3. main' \in MainRecords
    <3>1. CASE Frame \/ Switched \/ Look \/ Shown \/ Crashed \/ Drop
      BY <3>1 DEF Frame, Switched, Look, Shown, Crashed, Drop, Main, MainRecords, Pointers
    <3>2. CASE Switch \/ Started \/ StartFails \/ Stopped
      BY <3>2 DEF Switch, Started, StartFails, Stopped, MainRecords
    <3> QED
      BY <1>4, <3>1, <3>2 DEF MainStep
  <2>4. started' \subseteq Drivers
    BY <1>1, <1>4 DEF MainStep, Frame, Switch, Started, StartFails, Stopped, Switched,
       Look, Shown, Crashed, Drop, vis, TypeOK, Pointers, DriversInv, MainFields
  <2> QED
    BY <1>1, <2>1, <2>2, <2>3, <2>4, NextBooks DEF TypeOK, Books, Counted, MainRecords
<1> QED
  BY <1>2, <1>3, <1>4 DEF Next, ShellStep, Command

\* Names in the list are unique: a driver enters it after the one it replaces left.
LEMMA UniqueKept ==
  ASSUME DriversInv, Next
  PROVE  UniqueNames'
<1>1. CASE Register
  BY <1>1 DEF Register, DriversInv, UniqueNames, Fresh
<1>2. CASE ~Register
  <2>1. list' \subseteq list
    BY <1>2 DEF Next, ShellStep, Command, LoadStep, Load, SearchOld, Unlist, ReleaseOld,
       InitFails, Unreference, Loaded, Choose, Ask, Answer, SetVisual, GetHandle,
       DropHandle, MainStep, Frame, Switch, Started, StartFails, Stopped, Switched,
       Look, Shown, Crashed, Drop, mainUnchanged
  <2> QED
    BY <2>1 DEF DriversInv, UniqueNames
<1> QED
  BY <1>1, <1>2

\* start() and stop() alternate.
LEMMA StartedKept ==
  ASSUME DriversInv, Next
  PROVE  OneStarted'
<1> USE InvBooks DEF DriversInv, OneStarted, MainFields
<1>1. CASE ~MainStep
  BY <1>1 DEF Next, ShellStep, Command, LoadStep, Load, SearchOld, Unlist, ReleaseOld,
     Register, InitFails, Unreference, Loaded, Choose, Ask, Answer, SetVisual, GetHandle,
     DropHandle, loadUnchanged, vis
<1>2. CASE Started
  BY <1>2 DEF Started, MainRecords
<1>3. CASE Stopped
  BY <1>3, DriverListAssumption DEF Stopped, MainRecords
<1>4. CASE Switch
  BY <1>4 DEF Switch, MainRecords, vis
<1>5. CASE StartFails
  BY <1>5 DEF StartFails, MainRecords, vis
<1>6. CASE Frame \/ Switched \/ Look \/ Shown \/ Crashed \/ Drop
  BY <1>6 DEF Frame, Switched, Look, Shown, Crashed, Drop, Main, MainRecords, vis
<1> QED
  BY <1>1, <1>2, <1>3, <1>4, <1>5, <1>6 DEF MainStep

\* The fields of the shell thread.  "none" over a pending choice would break this:
\* nextvis would keep the driver whose reference was dropped.
LEMMA ShellKept ==
  ASSUME DriversInv, ~NoneOverPending, Next
  PROVE  ShellFields'
<1> USE InvBooks, DriverListAssumption DEF DriversInv, ShellFields, LoadPcs, Pointers
<1>1. CASE MainStep
  <2>1. UNCHANGED <<list, shell>> /\ (nextvis' = nextvis \/ nextvis' = NoDriver)
    BY <1>1 DEF MainStep, Frame, Switch, Started, StartFails, Stopped, Switched, Look,
       Shown, Crashed, Drop, mainUnchanged, vis
  <2> QED
    BY <2>1
<1>2. CASE LoadStep
  <2>1. CASE SearchOld
    BY <2>1, FoundListed DEF SearchOld, Doing, ShellRecords
  <2>2. CASE Unlist \/ ReleaseOld \/ Register
    BY <2>2 DEF Unlist, ReleaseOld, Register, ShellRecords, loadUnchanged, vis
  <2>3. CASE InitFails \/ Unreference
    BY <2>3 DEF InitFails, Unreference, ShellRecords, loadUnchanged, vis
  <2>4. CASE Loaded
    BY <2>4 DEF Loaded, Idle, Doing, ShellRecords
  <2> QED
    BY <1>2, <2>1, <2>2, <2>3, <2>4 DEF LoadStep
<1>3. ASSUME NEW d \in Drivers, Load(d) \/ GetHandle(d) \/ DropHandle(d)
      PROVE  ShellFields'
  BY <1>3 DEF Load, GetHandle, DropHandle, Doing
<1>4. ASSUME NEW n \in Names \cup {NoName}, SetVisual(n)
      PROVE  ShellFields'
  BY <1>4 DEF SetVisual, Doing, vis
<1>5. CASE Choose \/ Ask \/ Answer
  BY <1>5 DEF Choose, Ask, Answer, Idle, Doing, ShellRecords
<1> QED
  BY <1>1, <1>2, <1>3, <1>4, <1>5 DEF Next, ShellStep, Command

\* The fields of the main thread.
LEMMA MainKept ==
  ASSUME DriversInv, Next
  PROVE  MainFields'
<1> USE InvBooks, DriverListAssumption DEF DriversInv, MainFields, SwitchesVisual
<1>1. CASE ~MainStep
  <2>1. UNCHANGED <<main, curvis, visual>>
    BY <1>1 DEF Next, ShellStep, Command, LoadStep, Load, SearchOld, Unlist, ReleaseOld,
       Register, InitFails, Unreference, Loaded, Choose, Ask, Answer, SetVisual,
       GetHandle, DropHandle, loadUnchanged, vis
  <2>2. shell'.pc = "set" => ~SwitchesVisual
    <3>1. ASSUME NEW n \in Names \cup {NoName}, SetVisual(n)
          PROVE  ~SwitchesVisual
      BY <3>1 DEF SetVisual, VisMutex
    <3>2. CASE LoadStep
      <4>1. CASE SearchOld \/ Loaded
        BY <4>1 DEF SearchOld, Loaded, Idle, Doing
      <4>2. CASE Unlist \/ ReleaseOld \/ Register \/ InitFails \/ Unreference
        BY <4>2 DEF Unlist, ReleaseOld, Register, InitFails, Unreference, ShellRecords
      <4> QED
        BY <3>2, <4>1, <4>2 DEF LoadStep
    <3>3. CASE \/ Choose \/ Ask \/ Answer
               \/ \E d \in Drivers : Load(d) \/ GetHandle(d) \/ DropHandle(d)
      BY <3>3 DEF Choose, Ask, Answer, Load, GetHandle, DropHandle, Idle, Doing,
         ShellRecords
    <3> QED
      BY <1>1, <3>1, <3>2, <3>3 DEF Next, ShellStep, Command
  <2>3. SwitchesVisual => UNCHANGED nextvis
    BY <1>1 DEF Next, ShellStep, Command, LoadStep, Load, SearchOld, Unlist, ReleaseOld,
       Register, InitFails, Unreference, Loaded, Choose, Ask, Answer, SetVisual,
       GetHandle, DropHandle, loadUnchanged, vis
  <2> QED
    BY <2>1, <2>2, <2>3
<1>2. CASE Frame
  BY <1>2 DEF Frame, Main, MainRecords, VisMutex, vis, mainUnchanged
<1>3. CASE Switch \/ Started \/ StartFails \/ Stopped
  BY <1>3 DEF Switch, Started, StartFails, Stopped, MainRecords, vis, mainUnchanged
<1>4. CASE Switched \/ Look \/ Shown \/ Crashed \/ Drop
  BY <1>4 DEF Switched, Look, Shown, Crashed, Drop, Main, MainRecords, vis, mainUnchanged
<1> QED
  BY <1>1, <1>2, <1>3, <1>4 DEF MainStep

\* A step that references or drops another driver leaves the count of this one.
LEMMA OtherCount ==
  ASSUME Counted, NEW d \in Drivers, NEW e \in Drivers \cup {NoDriver}, e # d,
         Reference(e) \/ Dereference(e)
  PROVE  count'[d] = count[d]
BY DEF Counted, Reference, Dereference, Added

\* A driver that is being loaded stays new.
LEMMA FreshKept ==
  ASSUME DriversInv, Next
  PROVE  Fresh'
<1> USE InvBooks, DriverListAssumption DEF DriversInv, Fresh, Pointers
<1>1. CASE MainStep
  <2>1. UNCHANGED <<list, shell>>
    BY <1>1 DEF MainStep, Frame, Switch, Started, StartFails, Stopped, Switched, Look,
       Shown, Crashed, Drop, mainUnchanged
  <2>2. \/ UNCHANGED count
        \/ \E e \in {visual, curvis} : Reference(e) \/ Dereference(e)
        \/ ChoicePending /\ Dereference(nextvis)
    BY <1>1 DEF MainStep, Frame, Switch, Started, StartFails, Stopped, Switched, Look,
       Shown, Crashed, Drop, refs, ChoicePending, MainFields, SwitchesVisual
  <2>3. shell.pc \in {"search", "unlist", "release", "register", "init_failed"} =>
          count'[shell.d] = count[shell.d]
    BY <2>2, NewUnowned, OtherCount
  <2> QED
    BY <2>1, <2>3
<1>2. CASE LoadStep
  <2>1. CASE SearchOld
    BY <2>1, NewUnowned, FoundListed, OtherCount DEF SearchOld, Doing, UniqueNames
  <2>2. CASE Unlist \/ ReleaseOld
    <3>1. shell.pc \in {"unlist", "release"} /\ shell'.d = shell.d
          /\ count'[shell.d] = count[shell.d]
      BY <2>2, NewUnowned, OtherCount DEF Unlist, ReleaseOld, ShellRecords
    <3> QED
      BY <2>2, <3>1 DEF Unlist, ReleaseOld, ShellRecords
  <2>3. CASE InitFails
    BY <2>3, NewUnowned DEF InitFails, Added, Counted, ShellRecords
  <2>4. CASE Register \/ Unreference \/ Loaded
    BY <2>4 DEF Register, Unreference, Loaded, Idle, Doing, ShellRecords
  <2> QED
    BY <1>2, <2>1, <2>2, <2>3, <2>4 DEF LoadStep
<1>3. ASSUME NEW d \in Drivers, Load(d)
      PROVE  Fresh'
  BY <1>3 DEF Load, Doing, Counted
<1>4. CASE \/ Choose \/ Ask \/ Answer
           \/ \E n \in Names \cup {NoName} : SetVisual(n)
           \/ \E d \in Drivers : GetHandle(d) \/ DropHandle(d)
  BY <1>4 DEF Choose, Ask, Answer, SetVisual, GetHandle, DropHandle, Idle, Doing,
     ShellRecords
<1> QED
  BY <1>1, <1>2, <1>3, <1>4 DEF Next, ShellStep, Command

-----------------------------------------------------------------------------
(* The theorems.                                                           *)

\* The invariant is inductive as long as "none" is not chosen over a pending choice.
LEMMA Inductive ==
  ASSUME DriversInv, ~NoneOverPending, [Next]_vars
  PROVE  DriversInv'
<1>1. CASE Next
  <2>1. Books'
    BY <1>1, NextBooks
  <2>2. RefsBalance' /\ InitedHeld'
    BY <2>1 DEF Books, Due, RefsBalance, InitedHeld
  <2> QED
    BY <1>1, <2>2, TypesKept, UniqueKept, StartedKept, ShellKept, FreshKept, MainKept
       DEF DriversInv
<1>2. CASE UNCHANGED vars
  BY <1>2 DEF vars, refs, vis, DriversInv, TypeOK, RefsBalance, UniqueNames, OneStarted,
     ShellFields, Fresh, InitedHeld, MainFields, ChoicePending, SwitchesVisual
<1> QED
  BY <1>1, <1>2

\* At the beginning nothing is loaded.
LEMMA Initially ==
  ASSUME Init
  PROVE  DriversInv
<1> USE DriverListAssumption DEF Init, Idle, Doing, Main
<1>1. TypeOK
  BY DEF TypeOK, Pointers
<1>2. RefsBalance /\ InitedHeld
  <2>1. ASSUME NEW d \in Drivers
        PROVE  /\ count[d] = 0 /\ lef[d] = 0 /\ d \notin inited /\ d \notin list
               /\ d \notin handles /\ nextvis # d /\ visual # d /\ curvis # d
               /\ shell.held # d /\ shell.d # d
    OBVIOUS
  <2> HIDE DEF Init
  <2> QED
    BY <2>1 DEF RefsBalance, InitedHeld, One
<1>3. UniqueNames /\ OneStarted /\ ShellFields /\ Fresh /\ MainFields
  BY DEF UniqueNames, OneStarted, ShellFields, LoadPcs, Fresh, MainFields, SwitchesVisual
<1> QED
  BY <1>1, <1>2, <1>3 DEF DriversInv

\* Plugins are loaded and replaced, and visuals changed, with the invariant of the
\* reference counts, the list and the two threads (src/driver_list.c, src/plugin.c,
\* src/dreamcast68.c, src/option.c).
THEOREM DriversInvariant == ~NoneOverPending => (Spec => []DriversInv)
<1> SUFFICES ASSUME ~NoneOverPending
             PROVE  Spec => []DriversInv
  OBVIOUS
<1>1. DriversInv /\ [Next]_vars => DriversInv'
  BY Inductive
<1> QED
  BY <1>1, Initially, PTL DEF Spec

\* The counts, the list, the lists of Lua values and both threads' variables keep
\* their types; in particular no count falls below 0 (driver_list.c:512).
THEOREM TypesCorrect == ~NoneOverPending => (Spec => []TypeOK)
<1>1. DriversInv => TypeOK
  BY DEF DriversInv
<1> QED
  BY <1>1, DriversInvariant, PTL

\* A driver's count is the number of its owners, and its program's one more while it
\* is loaded (driver_list.c:481-537, plugin.c:131-153, dreamcast68.c:626-698).
THEOREM EveryReferenceOwned == ~NoneOverPending => (Spec => []RefsBalance)
<1>1. DriversInv => RefsBalance
  BY DEF DriversInv
<1> QED
  BY <1>1, DriversInvariant, PTL

\* A visual that is replaced by name is out of the list before its successor is in
\* (plugin.c:131-138).
THEOREM NamesUnique == ~NoneOverPending => (Spec => []UniqueNames)
<1>1. DriversInv => UniqueNames
  BY DEF DriversInv
<1> QED
  BY <1>1, DriversInvariant, PTL

\* Visuals are started and stopped in turn (option.c:28-88).
THEOREM StartsPaired == ~NoneOverPending => (Spec => []OneStarted)
<1>1. DriversInv => OneStarted
  BY DEF DriversInv
<1> QED
  BY <1>1, DriversInvariant, PTL

\* What anyone points to is in memory and initialised, and a visual is not shut down
\* while it is started: every owner's driver is counted, and a failing init() has none.
THEOREM PointedAlive == ~NoneOverPending => (Spec => []Alive)
<1>1. ASSUME DriversInv
      PROVE  Alive
  <2> USE <1>1
  <2>1. ASSUME NEW d \in Drivers,
               \/ d \in list \/ d \in handles \/ (ChoicePending /\ nextvis = d)
               \/ visual = d \/ curvis = d \/ shell.held = d
        PROVE  d \in inited
    <3>1. count[d] > 0
      BY <2>1, InvBooks, OwnerCounts
    <3>2. ~(shell.pc = "init_failed" /\ shell.d = d)
      BY <2>1, NewUnowned
    <3> QED
      BY <3>1, <3>2 DEF DriversInv, InitedHeld
  <2>2. \A d \in inited : lef[d] > 0
    BY InvBooks DEF DriversInv, InitedHeld, TypeOK, RefsBalance, One
  <2>3. ASSUME NEW d \in started
        PROVE  d \in Drivers /\ (d = visual \/ (ChoicePending /\ nextvis = d))
    BY InvBooks DEF DriversInv, TypeOK, OneStarted, MainFields, ChoicePending,
       SwitchesVisual
  <2>4. /\ list \subseteq Drivers /\ handles \subseteq Drivers
        /\ {visual, curvis, shell.held, nextvis} \ {NoDriver} \subseteq Drivers
    BY InvBooks DEF Pointers
  <2> QED
    BY <2>1, <2>2, <2>3, <2>4 DEF Alive
<1>2. DriversInv => Alive
  BY <1>1
<1> QED
  BY <1>2, DriversInvariant, PTL
=============================================================================
