--------------------------- MODULE EntryListProofs ---------------------------
(***************************************************************************)
(* Module EntryList for any lists, paths, directories and bounds.  The        *)
(* invariant EntryInv adds to the properties what the loader thread knows of   *)
(* the list it works on (Working) and when it sleeps (Resting), and what holds *)
(* while a script waits for the loader (Asking).  RefInv adds that counts and *)
(* references balance: the references to a record are those of one list, of   *)
(* the others and of the loader, and a step changes few of these parts.       *)
(***************************************************************************)
EXTENDS EntryList, TLAPS, FiniteSetTheorems

Record == [name : Paths, next : 0..MaxNodes, refcount : Int]
List(n) == [exists : BOOLEAN, path : 0..n, loading : -1..2, entries : Seq(1..n)]
Loader(n) == [status : {"INIT", "READY", "STARTING", "LOADING", "QUIT", "DEAD"},
              el : Lists \cup {NULL}, path : Paths \cup {NULL}, save : 0..n]

-----------------------------------------------------------------------------
\* The table of paths.

LEMMA Elements ==
  ASSUME NEW S, NEW s \in Seq(S)
  PROVE Len(s) \in Nat /\ DOMAIN s = 1..Len(s) /\ \A i \in DOMAIN s : s[i] \in S
  OBVIOUS

LEMMA Records ==
  ASSUME TableOK
  PROVE /\ Len(nodes) \in Nat /\ DOMAIN nodes = 1..Len(nodes)
        /\ nodes \in Seq(Record) /\ \A k \in DOMAIN nodes : nodes[k] \in Record
<1>1. nodes \in Seq(Record)
  BY DEF TableOK, Record
<1> QED
  BY <1>1, Elements

LEMMA PlacesFinite ==
  ASSUME NEW S, NEW d \in Seq(S), NEW k
  PROVE IsFiniteSet(Places(d, k)) /\ Times(d, k) \in Nat
<1>1. IsFiniteSet(1..Len(d)) /\ Places(d, k) \in SUBSET (1..Len(d))
  BY FS_Interval DEF Places
<1> QED
  BY <1>1, FS_Subset, FS_CardinalityType DEF Times

\* Counts may change, records may not.
LEMMA Recounted ==
  ASSUME TableOK, NEW f \in [DOMAIN nodes -> Int], NEW p \in 0..Len(nodes),
         nodes' = [k \in DOMAIN nodes |-> [nodes[k] EXCEPT !.refcount = f[k]]], pathes' = p
  PROVE TableOK' /\ Len(nodes') = Len(nodes)
<1> DEFINE n == Len(nodes)
<1>1. n \in Nat /\ DOMAIN nodes = 1..n /\ \A k \in 1..n : nodes[k] \in Record
  BY Records
<1>2. \A k \in 1..n : nodes'[k] \in Record /\ nodes'[k].next = nodes[k].next
  BY <1>1 DEF Record
<1>3. DOMAIN nodes' = 1..n
  BY <1>1
<1>4. nodes' \in Seq(Record) /\ Len(nodes') = n
  BY <1>1, <1>2, <1>3
<1> QED
  BY <1>1, <1>2, <1>3, <1>4 DEF TableOK, Record

LEMMA DelTable ==
  ASSUME TableOK, NEW S, NEW d \in Seq(S), Del(d)
  PROVE TableOK' /\ Len(nodes') = Len(nodes)
<1> DEFINE f == [k \in DOMAIN nodes |-> nodes[k].refcount - Times(d, k)]
<1>1. Len(nodes) \in Nat /\ DOMAIN nodes = 1..Len(nodes) /\ \A k \in DOMAIN nodes : nodes[k] \in Record
  BY Records
<1>2. f \in [DOMAIN nodes -> Int]
  <2>1. \A k \in DOMAIN nodes : nodes[k].refcount \in Int /\ Times(d, k) \in Nat
    BY <1>1, PlacesFinite DEF Record
  <2> QED
    BY <2>1
<1>3. nodes' = [k \in DOMAIN nodes |-> [nodes[k] EXCEPT !.refcount = f[k]]]
  BY DEF Del
<1>4. pathes' \in 0..Len(nodes)
  <2>1. pathes' = pathes \/ \E k \in DOMAIN nodes : pathes' = nodes[k].next
    BY DEF Del
  <2>2. \A k \in DOMAIN nodes : nodes[k].next \in 0..Len(nodes)
    BY <1>1 DEF TableOK, Record
  <2> QED
    BY <2>1, <2>2 DEF TableOK
<1> HIDE DEF f
<1> QED
  BY <1>2, <1>3, <1>4, Recounted

LEMMA CountTable ==
  ASSUME TableOK, NEW k, NEW n \in Nat,
         nodes' = [nodes EXCEPT ![k].refcount = @ + n], UNCHANGED pathes
  PROVE TableOK' /\ Len(nodes') = Len(nodes)
<1> DEFINE f == [i \in DOMAIN nodes |-> IF i = k THEN nodes[i].refcount + n ELSE nodes[i].refcount]
<1>1. \A i \in DOMAIN nodes : nodes[i] \in Record
  BY Records
<1>2. f \in [DOMAIN nodes -> Int]
  BY <1>1 DEF Record
<1>3. nodes' = [i \in DOMAIN nodes |-> [nodes[i] EXCEPT !.refcount = f[i]]]
  BY <1>1 DEF Record, TableOK
<1>4. pathes' \in 0..Len(nodes)
  BY DEF TableOK
<1> HIDE DEF f
<1> QED
  BY <1>2, <1>3, <1>4, Recounted

LEMMA AddTable ==
  ASSUME TableOK, NEW name \in Paths, NEW k, Add(name, k), EntryListAssumption
  PROVE TableOK' /\ Len(nodes') \in Nat /\ Len(nodes') >= Len(nodes) /\ k \in 0..Len(nodes')
<1>1. Len(nodes) \in Nat /\ DOMAIN nodes = 1..Len(nodes) /\ nodes \in Seq(Record)
  BY Records
<1>2. CASE k \in DOMAIN nodes /\ AddRef(k)
  <2>1. TableOK' /\ Len(nodes') = Len(nodes)
    BY <1>2, CountTable DEF AddRef
  <2> QED
    BY <2>1, <1>2, <1>1
<1>3. CASE k = 0 /\ UNCHANGED table
  BY <1>1, <1>3 DEF table, TableOK
<1>4. CASE /\ Len(nodes) < MaxNodes /\ k = Len(nodes) + 1
           /\ nodes' = Append(nodes, [name |-> name, next |-> pathes, refcount |-> 1])
           /\ pathes' = k
  <2> DEFINE r == [name |-> name, next |-> pathes, refcount |-> 1]
  <2>1. MaxNodes \in Nat /\ pathes \in 0..Len(nodes)
    BY DEF EntryListAssumption, TableOK
  <2>2. r \in Record /\ r.next < k
    BY <1>1, <1>4, <2>1 DEF Record
  <2> HIDE DEF r
  <2>3. nodes' \in Seq(Record) /\ Len(nodes') = k /\ DOMAIN nodes' = 1..k
    BY <1>1, <1>4, <2>2 DEF r
  <2>4. \A i \in 1..k : nodes'[i] = IF i = k THEN r ELSE nodes[i]
    BY <1>1, <1>4 DEF r
  <2>5. \A i \in 1..k : nodes'[i].next < i
    BY <1>1, <1>4, <2>2, <2>4 DEF TableOK
  <2>6. k \in Nat /\ k <= MaxNodes /\ k >= Len(nodes)
    BY <1>1, <1>4, <2>1
  <2> QED
    BY <2>3, <2>5, <2>6, <1>4 DEF TableOK, Record
<1> QED
  BY <1>2, <1>3, <1>4 DEF Add

-----------------------------------------------------------------------------
\* The lists, when the table keeps or gains records.

LEMMA Longer ==
  ASSUME NEW n \in Nat, NEW m \in Nat, n <= m, NEW r \in List(n)
  PROVE r \in List(m)
<1>1. Seq(1..n) \subseteq Seq(1..m)
  OBVIOUS
<1>2. 0..n \subseteq 0..m
  OBVIOUS
<1> QED
  BY <1>1, <1>2 DEF List

LEMMA Edits ==
  ASSUME NEW n \in Nat, NEW r \in List(n)
  PROVE /\ NoList \in List(n) /\ [NoList EXCEPT !.exists = TRUE] \in List(n)
        /\ [r EXCEPT !.entries = <<>>] \in List(n)
        /\ [r EXCEPT !.loading = 0] \in List(n) /\ [r EXCEPT !.loading = 2] \in List(n)
        /\ [r EXCEPT !.loading = -1] \in List(n)
        /\ \A k \in 0..n : [r EXCEPT !.path = k] \in List(n)
<1>1. <<>> \in Seq(1..n)
  OBVIOUS
<1>2. NoList \in List(n)
  BY <1>1 DEF List, NoList
<1>3. \A x \in List(n) : [x EXCEPT !.exists = TRUE] \in List(n)
  BY DEF List
<1>4. [r EXCEPT !.entries = <<>>] \in List(n)
  BY <1>1 DEF List
<1>5. \A l \in -1..2 : [r EXCEPT !.loading = l] \in List(n)
  BY DEF List
<1>6. \A k \in 0..n : [r EXCEPT !.path = k] \in List(n)
  BY DEF List
<1>7. 0 \in -1..2 /\ 2 \in -1..2 /\ -1 \in -1..2
  OBVIOUS
<1> QED
  BY <1>2, <1>3, <1>4, <1>5, <1>6, <1>7

LEMMA ListsKept ==
  ASSUME TableOK, ListsOK, Len(nodes') \in Nat, Len(nodes) <= Len(nodes'), UNCHANGED <<el, locked>>
  PROVE ListsOK'
<1>1. el \in [Lists -> List(Len(nodes))]
  BY DEF ListsOK, List
<1>2. \A e \in Lists : el[e] \in List(Len(nodes'))
  BY <1>1, Longer, Records
<1>3. el' \in [Lists -> List(Len(nodes'))]
  BY <1>1, <1>2
<1> QED
  BY <1>3 DEF ListsOK, List, NoList

LEMMA ListsUpdated ==
  ASSUME TableOK, ListsOK, Len(nodes') \in Nat, Len(nodes) <= Len(nodes'), UNCHANGED locked,
         NEW e \in Lists, NEW r \in List(Len(nodes')), el' = [el EXCEPT ![e] = r],
         ~r.exists => r = NoList /\ e \notin locked
  PROVE ListsOK'
<1>1. el \in [Lists -> List(Len(nodes))]
  BY DEF ListsOK, List
<1>2. \A x \in Lists : el[x] \in List(Len(nodes'))
  BY <1>1, Longer, Records
<1>3. el' \in [Lists -> List(Len(nodes'))] /\ \A x \in Lists : el'[x] = IF x = e THEN r ELSE el[x]
  BY <1>1, <1>2
<1>4. \A x \in Lists : ~el'[x].exists => el'[x] = NoList
  BY <1>3 DEF ListsOK, NoList
<1>5. locked' \subseteq {x \in Lists : el'[x].exists}
  BY <1>3 DEF ListsOK
<1> QED
  BY <1>3, <1>4, <1>5 DEF ListsOK, List, NoList

LEMMA LoaderKept ==
  ASSUME TableOK, Len(nodes') \in Nat, Len(nodes) <= Len(nodes'), loader \in Loader(Len(nodes))
  PROVE loader \in Loader(Len(nodes'))
<1>1. 0..Len(nodes) \subseteq 0..Len(nodes')
  BY Records
<1> QED
  BY <1>1 DEF Loader

-----------------------------------------------------------------------------
\* The loader thread.

USE EntryListAssumption

LEMMA BeginInv == EntryInv /\ Begin => EntryInv'
<1> SUFFICES ASSUME EntryInv, Begin PROVE EntryInv'
  OBVIOUS
<1>1. TypeOK'
  BY DEF EntryInv, TypeOK, TableOK, ListsOK, ThreadsOK, Begin, table, NoList
<1>2. Handshake'
  BY DEF EntryInv, TypeOK, ThreadsOK, Handshake, Begin
<1>3. OnePath'
  BY DEF EntryInv, TypeOK, ThreadsOK, OnePath, Begin
<1>4. Working' /\ Resting' /\ Asking'
  BY DEF EntryInv, TypeOK, ThreadsOK, Working, Resting, Asking, Begin
<1> QED
  BY <1>1, <1>2, <1>3, <1>4 DEF EntryInv

LEMMA SleepInv ==
  ASSUME EntryInv, Sleep
  PROVE EntryInv'
<1>1. TypeOK'
  BY DEF EntryInv, TypeOK, TableOK, ListsOK, ThreadsOK, Sleep, table, NoList
<1>2. Handshake'
  BY DEF EntryInv, TypeOK, ThreadsOK, Handshake, Working, Resting, Asking, Sleep
<1>3. OnePath'
  BY DEF EntryInv, TypeOK, ThreadsOK, OnePath, Handshake, Resting, Sleep
<1>4. Working' /\ Resting' /\ Asking'
  BY DEF EntryInv, TypeOK, ThreadsOK, Working, Resting, Asking, Handshake, Sleep
<1> QED
  BY <1>1, <1>2, <1>3, <1>4 DEF EntryInv

LEMMA WakeInv ==
  ASSUME EntryInv, Wake
  PROVE EntryInv'
<1>1. TypeOK'
  <2>1. sem' \in 0..MaxSem + 1
    BY DEF EntryInv, TypeOK, ThreadsOK, Wake, EntryListAssumption
  <2>2. TableOK' /\ ListsOK'
    BY DEF EntryInv, TypeOK, TableOK, ListsOK, Wake, table, NoList
  <2>3. ThreadsOK'
    BY <2>1 DEF EntryInv, TypeOK, ThreadsOK, Wake, table
  <2> QED
    BY <2>2, <2>3 DEF TypeOK
<1>2. Handshake'
  BY DEF EntryInv, TypeOK, ThreadsOK, Handshake, Working, Resting, Asking, Wake
<1>3. OnePath'
  BY DEF EntryInv, TypeOK, ThreadsOK, OnePath, Handshake, Resting, Wake
<1>4. Working' /\ Resting' /\ Asking'
  BY DEF EntryInv, TypeOK, ThreadsOK, Working, Resting, Asking, Handshake, Wake
<1> QED
  BY <1>1, <1>2, <1>3, <1>4 DEF EntryInv

LEMMA QuitInv ==
  ASSUME EntryInv, Quit
  PROVE EntryInv'
<1>1. TypeOK'
  BY DEF EntryInv, TypeOK, TableOK, ListsOK, ThreadsOK, Quit, table, NoList
<1>2. Handshake'
  BY DEF EntryInv, TypeOK, ThreadsOK, Handshake, Working, Resting, Asking, Quit
<1>3. OnePath'
  BY DEF EntryInv, TypeOK, ThreadsOK, OnePath, Handshake, Resting, Quit
<1>4. Working' /\ Resting' /\ Asking'
  BY DEF EntryInv, TypeOK, ThreadsOK, Working, Resting, Asking, Handshake, Quit
<1> QED
  BY <1>1, <1>2, <1>3, <1>4 DEF EntryInv

LEMMA LastReadInv ==
  ASSUME EntryInv, LastRead
  PROVE EntryInv'
<1>1. TypeOK'
  BY DEF EntryInv, TypeOK, TableOK, ListsOK, ThreadsOK, LastRead, table, NoList
<1>2. Handshake'
  BY DEF EntryInv, TypeOK, ThreadsOK, Handshake, Working, Resting, Asking, LastRead
<1>3. OnePath'
  BY DEF EntryInv, TypeOK, ThreadsOK, OnePath, Handshake, Resting, LastRead
<1>4. Working' /\ Resting' /\ Asking'
  BY DEF EntryInv, TypeOK, ThreadsOK, Working, Resting, Asking, Handshake, LastRead
<1> QED
  BY <1>1, <1>2, <1>3, <1>4 DEF EntryInv

LEMMA LoadTimeoutInv ==
  ASSUME EntryInv, LoadTimeout
  PROVE EntryInv'
<1>1. TypeOK'
  BY DEF EntryInv, TypeOK, TableOK, ListsOK, ThreadsOK, LoadTimeout, table, NoList
<1>2. Handshake'
  BY DEF EntryInv, TypeOK, ThreadsOK, Handshake, Working, Resting, Asking, LoadTimeout
<1>3. OnePath'
  BY DEF EntryInv, TypeOK, ThreadsOK, OnePath, Handshake, Resting, LoadTimeout
<1>4. Working' /\ Resting' /\ Asking'
  BY DEF EntryInv, TypeOK, ThreadsOK, Working, Resting, Asking, Handshake, LoadTimeout
<1> QED
  BY <1>1, <1>2, <1>3, <1>4 DEF EntryInv

LEMMA AskInv ==
  ASSUME EntryInv, Ask
  PROVE EntryInv'
<1>1. TypeOK'
  <2>1. sem' \in 0..MaxSem + 1
    BY DEF EntryInv, TypeOK, ThreadsOK, Ask, EntryListAssumption
  <2>2. TableOK' /\ ListsOK'
    BY DEF EntryInv, TypeOK, TableOK, ListsOK, Ask, table, NoList
  <2>3. ThreadsOK'
    BY <2>1 DEF EntryInv, TypeOK, ThreadsOK, Ask, table
  <2> QED
    BY <2>2, <2>3 DEF TypeOK
<1>2. Handshake'
  BY DEF EntryInv, TypeOK, ThreadsOK, Handshake, Working, Resting, Asking, Ask
<1>3. OnePath'
  BY DEF EntryInv, TypeOK, ThreadsOK, OnePath, Handshake, Resting, Ask
<1>4. Working' /\ Resting' /\ Asking'
  BY DEF EntryInv, TypeOK, ThreadsOK, Working, Resting, Asking, Handshake, Ask
<1> QED
  BY <1>1, <1>2, <1>3, <1>4 DEF EntryInv

LEMMA LoadReturnsInv ==
  ASSUME EntryInv, LoadReturns
  PROVE EntryInv'
<1>1. TypeOK'
  BY DEF EntryInv, TypeOK, TableOK, ListsOK, ThreadsOK, LoadReturns, table, NoList
<1>2. Handshake'
  BY DEF EntryInv, TypeOK, ThreadsOK, Handshake, Working, Resting, Asking, LoadReturns
<1>3. OnePath'
  BY DEF EntryInv, TypeOK, ThreadsOK, OnePath, Handshake, Resting, LoadReturns
<1>4. Working' /\ Resting' /\ Asking'
  BY DEF EntryInv, TypeOK, ThreadsOK, Working, Resting, Asking, Handshake, LoadReturns
<1> QED
  BY <1>1, <1>2, <1>3, <1>4 DEF EntryInv

LEMMA LoadInv ==
  ASSUME EntryInv, NEW e \in Lists, NEW name \in Paths, Load(e, name)
  PROVE EntryInv'
<1>1. TypeOK'
  BY DEF EntryInv, TypeOK, TableOK, ListsOK, ThreadsOK, Load, table, NoList
<1>2. Handshake'
  BY DEF EntryInv, TypeOK, ThreadsOK, Handshake, Working, Resting, Asking, Load
<1>3. OnePath'
  BY DEF EntryInv, TypeOK, ThreadsOK, OnePath, Handshake, Resting, Load
<1>4. Working' /\ Resting' /\ Asking'
  BY DEF EntryInv, TypeOK, ThreadsOK, Working, Resting, Asking, Handshake, Load
<1> QED
  BY <1>1, <1>2, <1>3, <1>4 DEF EntryInv

LEMMA LockInv ==
  ASSUME EntryInv, NEW e \in Lists, Lock(e)
  PROVE EntryInv'
<1>1. TypeOK'
  BY DEF EntryInv, TypeOK, TableOK, ListsOK, ThreadsOK, Lock, table, NoList
<1>2. Handshake'
  BY DEF EntryInv, TypeOK, ThreadsOK, Handshake, Working, Resting, Asking, Lock
<1>3. OnePath'
  BY DEF EntryInv, TypeOK, ThreadsOK, OnePath, Handshake, Resting, Lock
<1>4. Working' /\ Resting' /\ Asking'
  BY DEF EntryInv, TypeOK, ThreadsOK, Working, Resting, Asking, Handshake, Lock
<1> QED
  BY <1>1, <1>2, <1>3, <1>4 DEF EntryInv

LEMMA UnlockInv ==
  ASSUME EntryInv, NEW e \in Lists, Unlock(e)
  PROVE EntryInv'
<1>1. TypeOK'
  BY DEF EntryInv, TypeOK, TableOK, ListsOK, ThreadsOK, Unlock, table, NoList
<1>2. Handshake'
  BY DEF EntryInv, TypeOK, ThreadsOK, Handshake, Working, Resting, Asking, Unlock
<1>3. OnePath'
  BY DEF EntryInv, TypeOK, ThreadsOK, OnePath, Handshake, Resting, Unlock
<1>4. Working' /\ Resting' /\ Asking'
  BY DEF EntryInv, TypeOK, ThreadsOK, Working, Resting, Asking, Handshake, Unlock
<1> QED
  BY <1>1, <1>2, <1>3, <1>4 DEF EntryInv

LEMMA NewInv ==
  ASSUME EntryInv, NEW e \in Lists, New(e)
  PROVE EntryInv'
<1> DEFINE r == [NoList EXCEPT !.exists = TRUE]
<1>1. TableOK /\ ListsOK /\ ThreadsOK
  BY DEF EntryInv, TypeOK
<1>2. Len(nodes) \in Nat /\ el \in [Lists -> List(Len(nodes))] /\ e \in Lists
  BY <1>1, Records DEF ListsOK, List
<1>3. TableOK' /\ Len(nodes') = Len(nodes)
  BY <1>1, Records DEF TableOK, New, table
<1>4. el' = [el EXCEPT ![e] = r] /\ UNCHANGED locked
  BY <1>2 DEF New, List
<1>5. r \in List(Len(nodes'))
  BY <1>2, <1>3, Edits
<1>6. el'[e] = r /\ \A x \in Lists : x # e => el'[x] = el[x]
  BY <1>2, <1>4
<1>7. ~r.exists => r = NoList /\ e \notin locked
  BY <1>1, <1>2 DEF ListsOK, List, NoList, New
<1>8. TypeOK'
  <2>1. ListsOK'
    <3>1. PICK q : q = r
      OBVIOUS
    <3>2. /\ q \in List(Len(nodes')) /\ el' = [el EXCEPT ![e] = q]
          /\ ~q.exists => q = NoList /\ e \notin locked
      BY <1>4, <1>5, <1>7, <3>1
    <3>3. Len(nodes') \in Nat /\ Len(nodes) <= Len(nodes') /\ UNCHANGED locked
      BY <1>2, <1>3, <1>4
    <3> QED
      BY <1>1, <1>2, <3>2, <3>3, ListsUpdated
  <2>2. ThreadsOK'
    BY <1>1, <1>3 DEF ThreadsOK, New, table
  <2> QED
    BY <1>3, <2>1, <2>2 DEF TypeOK
<1>9. el'[e].loading = 0 /\ el'[e].exists /\ el'[e].entries = <<>>
  BY <1>6 DEF NoList
<1>10. loader' = loader /\ sem' = sem /\ thd' = thd /\ script' = script /\ script.pc = "idle"
  BY DEF New
<1>11. el[e].loading = 0 /\ ~el[e].exists
  BY <1>1 DEF ListsOK, NoList, New
<1> HIDE DEF r
<1>12. \A x \in Lists : el'[x].loading = 1 => el[x].loading = 1
  BY <1>6, <1>9
<1>13. \A x \in Lists : el[x].exists \/ el[x].loading = 1 => el'[x] = el[x]
  BY <1>6, <1>11
<1>14. loader.el \in Lists \cup {NULL} /\ script.el \in Lists \cup {NULL}
  BY <1>1 DEF ThreadsOK
<1>15. Handshake'
  BY <1>10, <1>12, <1>13, <1>14 DEF EntryInv, Handshake
<1>16. OnePath'
  BY <1>6, <1>9, <1>10 DEF EntryInv, OnePath
<1>17. Working' /\ Resting' /\ Asking'
  BY <1>10, <1>12, <1>13, <1>14 DEF EntryInv, Working, Resting, Asking
<1> QED
  BY <1>8, <1>15, <1>16, <1>17 DEF EntryInv

LEMMA ReadLoadingInv ==
  ASSUME EntryInv, NEW e \in Lists, ReadLoading(e)
  PROVE EntryInv'
<1> DEFINE r == [el[e] EXCEPT !.loading = 0]
<1>1. TableOK /\ ListsOK /\ ThreadsOK
  BY DEF EntryInv, TypeOK
<1>2. Len(nodes) \in Nat /\ el \in [Lists -> List(Len(nodes))] /\ e \in Lists
  BY <1>1, Records DEF ListsOK, List
<1>3. TableOK' /\ Len(nodes') = Len(nodes)
  BY <1>1, Records DEF TableOK, ReadLoading, table
<1>4. el' = [el EXCEPT ![e] = r] /\ UNCHANGED locked
  BY <1>2 DEF ReadLoading, List
<1>5. r \in List(Len(nodes'))
  BY <1>2, <1>3, Edits
<1>6. el'[e] = r /\ \A x \in Lists : x # e => el'[x] = el[x]
  BY <1>2, <1>4
<1>7. ~r.exists => r = NoList /\ e \notin locked
  BY <1>1, <1>2 DEF ListsOK, List, NoList, ReadLoading
<1>8. TypeOK'
  <2>1. ListsOK'
    <3>1. PICK q : q = r
      OBVIOUS
    <3>2. /\ q \in List(Len(nodes')) /\ el' = [el EXCEPT ![e] = q]
          /\ ~q.exists => q = NoList /\ e \notin locked
      BY <1>4, <1>5, <1>7, <3>1
    <3>3. Len(nodes') \in Nat /\ Len(nodes) <= Len(nodes') /\ UNCHANGED locked
      BY <1>2, <1>3, <1>4
    <3> QED
      BY <1>1, <1>2, <3>2, <3>3, ListsUpdated
  <2>2. ThreadsOK'
    BY <1>1, <1>3 DEF ThreadsOK, ReadLoading, table
  <2> QED
    BY <1>3, <2>1, <2>2 DEF TypeOK
<1>9. Handshake'
  BY <1>1, <1>2, <1>6 DEF EntryInv, ThreadsOK, List, NoList, Handshake, Working, Resting, Asking, ReadLoading
<1>10. OnePath'
  BY <1>1, <1>2, <1>6 DEF EntryInv, ThreadsOK, List, NoList, OnePath, Handshake, Resting, ReadLoading
<1>11. Working' /\ Resting' /\ Asking'
  BY <1>1, <1>2, <1>6 DEF EntryInv, ThreadsOK, List, NoList, Working, Resting, Asking, Handshake, ReadLoading
<1> QED
  BY <1>8, <1>9, <1>10, <1>11 DEF EntryInv

LEMMA ClearInv ==
  ASSUME EntryInv, NEW e \in Lists, Clear(e)
  PROVE EntryInv'
<1> DEFINE r == [el[e] EXCEPT !.entries = <<>>]
<1>1. TableOK /\ ListsOK /\ ThreadsOK
  BY DEF EntryInv, TypeOK
<1>2. Len(nodes) \in Nat /\ el \in [Lists -> List(Len(nodes))] /\ e \in Lists
  BY <1>1, Records DEF ListsOK, List
<1>3. TableOK' /\ Len(nodes') = Len(nodes)
  <2>1. el[e].entries \in Seq(1..Len(nodes))
    BY <1>2 DEF List
  <2> QED
    BY <1>1, <2>1, DelTable DEF Clear
<1>4. el' = [el EXCEPT ![e] = r] /\ UNCHANGED locked
  BY <1>2 DEF Clear, List
<1>5. r \in List(Len(nodes'))
  BY <1>2, <1>3, Edits
<1>6. el'[e] = r /\ \A x \in Lists : x # e => el'[x] = el[x]
  BY <1>2, <1>4
<1>7. ~r.exists => r = NoList /\ e \notin locked
  BY <1>1, <1>2 DEF ListsOK, List, NoList, Clear
<1>8. TypeOK'
  <2>1. ListsOK'
    <3>1. PICK q : q = r
      OBVIOUS
    <3>2. /\ q \in List(Len(nodes')) /\ el' = [el EXCEPT ![e] = q]
          /\ ~q.exists => q = NoList /\ e \notin locked
      BY <1>4, <1>5, <1>7, <3>1
    <3>3. Len(nodes') \in Nat /\ Len(nodes) <= Len(nodes') /\ UNCHANGED locked
      BY <1>2, <1>3, <1>4
    <3> QED
      BY <1>1, <1>2, <3>2, <3>3, ListsUpdated
  <2>2. ThreadsOK'
    BY <1>1, <1>3 DEF ThreadsOK, Clear, table
  <2> QED
    BY <1>3, <2>1, <2>2 DEF TypeOK
<1>9. Handshake'
  BY <1>1, <1>2, <1>6 DEF EntryInv, ThreadsOK, List, NoList, Handshake, Working, Resting, Asking, Clear
<1>10. OnePath'
  BY <1>1, <1>2, <1>6, SMTT(30) DEF EntryInv, ThreadsOK, List, NoList, OnePath, Handshake, Resting, Clear
<1>11. Working' /\ Resting' /\ Asking'
  BY <1>1, <1>2, <1>6 DEF EntryInv, ThreadsOK, List, NoList, Working, Resting, Asking, Handshake, Clear
<1> QED
  BY <1>8, <1>9, <1>10, <1>11 DEF EntryInv

LEMMA DestroyInv ==
  ASSUME EntryInv, NEW e \in Lists, Destroy(e)
  PROVE EntryInv'
<1> DEFINE r == NoList
<1>1. TableOK /\ ListsOK /\ ThreadsOK
  BY DEF EntryInv, TypeOK
<1>2. Len(nodes) \in Nat /\ el \in [Lists -> List(Len(nodes))] /\ e \in Lists
  BY <1>1, Records DEF ListsOK, List
<1>3. TableOK' /\ Len(nodes') = Len(nodes)
  <2>1. Append(el[e].entries, el[e].path) \in Seq(0..Len(nodes))
    <3>1. el[e].entries \in Seq(1..Len(nodes)) /\ el[e].path \in 0..Len(nodes)
      BY <1>2 DEF List
    <3>2. Seq(1..Len(nodes)) \subseteq Seq(0..Len(nodes))
      BY <1>2
    <3> QED
      BY <3>1, <3>2
  <2> QED
    BY <1>1, <2>1, DelTable DEF Destroy
<1>4. el' = [el EXCEPT ![e] = r] /\ UNCHANGED locked
  BY <1>2 DEF Destroy, List
<1>5. r \in List(Len(nodes'))
  BY <1>2, <1>3, Edits
<1>6. el'[e] = r /\ \A x \in Lists : x # e => el'[x] = el[x]
  BY <1>2, <1>4
<1>7. ~r.exists => r = NoList /\ e \notin locked
  BY <1>1, <1>2 DEF ListsOK, List, NoList, Destroy
<1>8. TypeOK'
  <2>1. ListsOK'
    <3>1. PICK q : q = r
      OBVIOUS
    <3>2. /\ q \in List(Len(nodes')) /\ el' = [el EXCEPT ![e] = q]
          /\ ~q.exists => q = NoList /\ e \notin locked
      BY <1>4, <1>5, <1>7, <3>1
    <3>3. Len(nodes') \in Nat /\ Len(nodes) <= Len(nodes') /\ UNCHANGED locked
      BY <1>2, <1>3, <1>4
    <3> QED
      BY <1>1, <1>2, <3>2, <3>3, ListsUpdated
  <2>2. ThreadsOK'
    BY <1>1, <1>3 DEF ThreadsOK, Destroy, table
  <2> QED
    BY <1>3, <2>1, <2>2 DEF TypeOK
<1>9. Handshake'
  BY <1>1, <1>2, <1>6 DEF EntryInv, ThreadsOK, List, NoList, Handshake, Working, Resting, Asking, Destroy
<1>10. OnePath'
  BY <1>1, <1>2, <1>6 DEF EntryInv, ThreadsOK, List, NoList, OnePath, Handshake, Resting, Destroy
<1>11. Working' /\ Resting' /\ Asking'
  BY <1>1, <1>2, <1>6 DEF EntryInv, ThreadsOK, List, NoList, Working, Resting, Asking, Handshake, Destroy
<1> QED
  BY <1>8, <1>9, <1>10, <1>11 DEF EntryInv

LEMMA FinishInv ==
  ASSUME EntryInv, Finish
  PROVE EntryInv'
<1> DEFINE e == loader.el
            r == [el[e] EXCEPT !.loading = 2]
<1>1. TableOK /\ ListsOK /\ ThreadsOK
  BY DEF EntryInv, TypeOK
<1>2. e \in Lists /\ el[e].loading = 1 /\ loader.status = "LOADING"
  BY <1>1 DEF EntryInv, ThreadsOK, Handshake, Working, Finish
<1>3. Len(nodes) \in Nat /\ el \in [Lists -> List(Len(nodes))] /\ e \in Lists
  BY <1>1, Records, <1>2 DEF ListsOK, List
<1>4. TableOK' /\ Len(nodes') = Len(nodes)
  BY <1>1, Records DEF TableOK, Finish, table
<1>5. el' = [el EXCEPT ![e] = r] /\ UNCHANGED locked
  BY <1>2, <1>3 DEF Finish, List
<1>6. r \in List(Len(nodes'))
  BY <1>3, <1>4, Edits, <1>2
<1>7. el'[e] = r /\ \A x \in Lists : x # e => el'[x] = el[x]
  BY <1>3, <1>5
<1>8. ~r.exists => r = NoList /\ e \notin locked
  BY <1>1, <1>2, <1>3 DEF ListsOK, List, NoList, Finish
<1>9. TypeOK'
  <2>1. ListsOK'
    <3>1. PICK q : q = r
      OBVIOUS
    <3>2. /\ q \in List(Len(nodes')) /\ el' = [el EXCEPT ![e] = q]
          /\ ~q.exists => q = NoList /\ e \notin locked
      BY <1>5, <1>6, <1>8, <3>1
    <3>3. Len(nodes') \in Nat /\ Len(nodes) <= Len(nodes') /\ UNCHANGED locked
      BY <1>3, <1>4, <1>5
    <3> QED
      BY <1>1, <1>3, <3>2, <3>3, ListsUpdated
  <2>2. ThreadsOK'
    BY <1>1, <1>4 DEF ThreadsOK, Finish, table
  <2> QED
    BY <1>4, <2>1, <2>2 DEF TypeOK
<1>10. Handshake'
  BY <1>1, <1>2, <1>3, <1>7 DEF EntryInv, ThreadsOK, List, NoList, Handshake, Working, Resting, Asking, Finish
<1>11. OnePath'
  BY <1>1, <1>2, <1>3, <1>7 DEF EntryInv, ThreadsOK, List, NoList, OnePath, Handshake, Resting, Finish
<1>12. Working' /\ Resting' /\ Asking'
  BY <1>1, <1>2, <1>3, <1>7 DEF EntryInv, ThreadsOK, List, NoList, Working, Resting, Asking, Handshake, Finish
<1> QED
  BY <1>9, <1>10, <1>11, <1>12 DEF EntryInv

LEMMA NotDirInv ==
  ASSUME EntryInv, NotDir
  PROVE EntryInv'
<1> DEFINE e == loader.el
            r == [el[e] EXCEPT !.path = loader.save]
<1>1. TableOK /\ ListsOK /\ ThreadsOK
  BY DEF EntryInv, TypeOK
<1>2. e \in Lists /\ el[e].loading = 1 /\ loader.save \in 0..Len(nodes)
  BY <1>1 DEF EntryInv, ThreadsOK, Handshake, Working, NotDir
<1>3. Len(nodes) \in Nat /\ el \in [Lists -> List(Len(nodes))] /\ e \in Lists
  BY <1>1, Records, <1>2 DEF ListsOK, List
<1>4. TableOK' /\ Len(nodes') = Len(nodes)
  <2>1. <<el[e].path>> \in Seq(0..Len(nodes))
    BY <1>2, <1>3 DEF List
  <2> QED
    BY <1>1, <2>1, DelTable DEF NotDir
<1>5. el' = [el EXCEPT ![e] = r] /\ UNCHANGED locked
  BY <1>2, <1>3 DEF NotDir, List
<1>6. r \in List(Len(nodes'))
  BY <1>3, <1>4, Edits, <1>2
<1>7. el'[e] = r /\ \A x \in Lists : x # e => el'[x] = el[x]
  BY <1>3, <1>5
<1>8. ~r.exists => r = NoList /\ e \notin locked
  BY <1>1, <1>2, <1>3 DEF ListsOK, List, NoList, NotDir
<1>9. TypeOK'
  <2>1. ListsOK'
    <3>1. PICK q : q = r
      OBVIOUS
    <3>2. /\ q \in List(Len(nodes')) /\ el' = [el EXCEPT ![e] = q]
          /\ ~q.exists => q = NoList /\ e \notin locked
      BY <1>5, <1>6, <1>8, <3>1
    <3>3. Len(nodes') \in Nat /\ Len(nodes) <= Len(nodes') /\ UNCHANGED locked
      BY <1>3, <1>4, <1>5
    <3> QED
      BY <1>1, <1>3, <3>2, <3>3, ListsUpdated
  <2>2. ThreadsOK'
    BY <1>1, <1>4 DEF ThreadsOK, NotDir, table
  <2> QED
    BY <1>4, <2>1, <2>2 DEF TypeOK
<1>10. Handshake'
  BY <1>1, <1>2, <1>3, <1>7 DEF EntryInv, ThreadsOK, List, NoList, Handshake, Working, Resting, Asking, NotDir
<1>11. OnePath'
  BY <1>1, <1>2, <1>3, <1>7 DEF EntryInv, ThreadsOK, List, NoList, OnePath, Handshake, Resting, NotDir
<1>12. Working' /\ Resting' /\ Asking'
  BY <1>1, <1>2, <1>3, <1>7 DEF EntryInv, ThreadsOK, List, NoList, Working, Resting, Asking, Handshake, NotDir
<1> QED
  BY <1>9, <1>10, <1>11, <1>12 DEF EntryInv

LEMMA EmptyInv ==
  ASSUME EntryInv, Empty
  PROVE EntryInv'
<1> DEFINE e == loader.el
            r == [el[e] EXCEPT !.entries = <<>>]
<1>1. TableOK /\ ListsOK /\ ThreadsOK
  BY DEF EntryInv, TypeOK
<1>2. e \in Lists /\ el[e].loading = 1 /\ el[e].path # 0
  BY <1>1 DEF EntryInv, ThreadsOK, Handshake, Working, Empty
<1>3. Len(nodes) \in Nat /\ el \in [Lists -> List(Len(nodes))] /\ e \in Lists
  BY <1>1, Records, <1>2 DEF ListsOK, List
<1>4. TableOK' /\ Len(nodes') = Len(nodes)
  <2>1. el[e].entries \in Seq(1..Len(nodes))
    BY <1>2, <1>3 DEF List
  <2> QED
    BY <1>1, <2>1, DelTable DEF Empty
<1>5. el' = [el EXCEPT ![e] = r] /\ UNCHANGED locked
  BY <1>2, <1>3 DEF Empty, List
<1>6. r \in List(Len(nodes'))
  BY <1>3, <1>4, Edits, <1>2
<1>7. el'[e] = r /\ \A x \in Lists : x # e => el'[x] = el[x]
  BY <1>3, <1>5
<1>8. ~r.exists => r = NoList /\ e \notin locked
  BY <1>1, <1>2, <1>3 DEF ListsOK, List, NoList, Empty
<1>9. TypeOK'
  <2>1. ListsOK'
    <3>1. PICK q : q = r
      OBVIOUS
    <3>2. /\ q \in List(Len(nodes')) /\ el' = [el EXCEPT ![e] = q]
          /\ ~q.exists => q = NoList /\ e \notin locked
      BY <1>5, <1>6, <1>8, <3>1
    <3>3. Len(nodes') \in Nat /\ Len(nodes) <= Len(nodes') /\ UNCHANGED locked
      BY <1>3, <1>4, <1>5
    <3> QED
      BY <1>1, <1>3, <3>2, <3>3, ListsUpdated
  <2>2. ThreadsOK'
    BY <1>1, <1>4 DEF ThreadsOK, Empty, table
  <2> QED
    BY <1>4, <2>1, <2>2 DEF TypeOK
<1>10. Handshake'
  BY <1>1, <1>2, <1>3, <1>7 DEF EntryInv, ThreadsOK, List, NoList, Handshake, Working, Resting, Asking, Empty
<1>11. OnePath'
  BY <1>1, <1>2, <1>3, <1>7 DEF EntryInv, ThreadsOK, List, NoList, OnePath, Handshake, Resting, Empty
<1>12. Working' /\ Resting' /\ Asking'
  BY <1>1, <1>2, <1>3, <1>7 DEF EntryInv, ThreadsOK, List, NoList, Working, Resting, Asking, Handshake, Empty
<1> QED
  BY <1>9, <1>10, <1>11, <1>12 DEF EntryInv

LEMMA ReferInv ==
  ASSUME EntryInv, Refer
  PROVE EntryInv'
<1>1. TableOK /\ ListsOK /\ ThreadsOK
  BY DEF EntryInv, TypeOK
<1>2. TableOK' /\ Len(nodes') = Len(nodes)
  BY <1>1, CountTable DEF Refer, AddRef
<1>3. ListsOK'
  BY <1>1, <1>2, Records, ListsKept DEF Refer
<1>4. thd'.left \in 0..DirSize /\ thd' = [pc |-> "insert", left |-> thd.left - 1]
  BY <1>1 DEF Refer, ThreadsOK, EntryListAssumption
<1>5. ThreadsOK'
  BY <1>1, <1>2, <1>4 DEF ThreadsOK, Refer
<1>6. Handshake'
  BY <1>1 DEF EntryInv, ThreadsOK, Handshake, Refer
<1>7. OnePath'
  BY <1>1 DEF EntryInv, ThreadsOK, OnePath, Refer
<1>8. Working' /\ Resting' /\ Asking'
  BY <1>1 DEF EntryInv, ThreadsOK, Working, Resting, Asking, Handshake, Refer
<1> QED
  BY <1>2, <1>3, <1>5, <1>6, <1>7, <1>8 DEF EntryInv, TypeOK

LEMMA ReleaseInv ==
  ASSUME EntryInv, Release
  PROVE EntryInv'
<1>1. TableOK /\ ListsOK /\ ThreadsOK
  BY DEF EntryInv, TypeOK
<1>2. TableOK' /\ Len(nodes') = Len(nodes) /\ Len(nodes) \in Nat
  <2>1. <<loader.save>> \in Seq(0..Len(nodes))
    BY <1>1 DEF ThreadsOK
  <2> QED
    BY <1>1, <2>1, DelTable, Records DEF Release
<1>3. ListsOK'
  BY <1>1, <1>2, ListsKept DEF Release
<1>4. ThreadsOK'
  <2>1. loader' \in Loader(Len(nodes'))
    <3>1. 0 \in 0..Len(nodes')
      BY <1>2
    <3>2. loader.path \in Paths \cup {NULL}
      BY <1>1 DEF ThreadsOK
    <3>3. /\ loader'.status = "READY" /\ loader'.el = NULL /\ loader'.save = 0
          /\ loader'.path = loader.path
          /\ loader' = [status |-> "READY", el |-> NULL, path |-> loader.path, save |-> 0]
      BY <1>1 DEF ThreadsOK, Release
    <3> QED
      BY <3>1, <3>2, <3>3 DEF Loader
  <2> QED
    BY <1>1, <2>1 DEF ThreadsOK, Release, Loader
<1>5. Handshake'
  BY <1>1 DEF EntryInv, ThreadsOK, Handshake, Working, Release
<1>6. OnePath'
  BY <1>1 DEF EntryInv, ThreadsOK, OnePath, Release
<1>7. Working' /\ Resting' /\ Asking'
  BY <1>1 DEF EntryInv, ThreadsOK, Working, Resting, Asking, Handshake, Release
<1> QED
  BY <1>2, <1>3, <1>4, <1>5, <1>6, <1>7 DEF EntryInv, TypeOK

LEMMA ShutdownInv ==
  ASSUME EntryInv, Shutdown
  PROVE EntryInv'
<1>1. TableOK /\ ListsOK /\ ThreadsOK
  BY DEF EntryInv, TypeOK
<1>2. TableOK' /\ ListsOK'
  BY <1>1 DEF TableOK, ListsOK, NoList, Shutdown, table
<1>3. sem' \in 0..MaxSem + 1 /\ sem' = sem + 1
  BY <1>1 DEF EntryInv, ThreadsOK, Asking, Shutdown, EntryListAssumption
<1>4. ThreadsOK'
  BY <1>1, <1>3 DEF ThreadsOK, Shutdown, table
<1>5. \A e \in Lists : el[e].loading = 0 /\ el[e].entries = <<>>
  BY <1>1 DEF ListsOK, NoList, Shutdown
<1>6. Handshake'
  BY <1>1, <1>3, <1>5 DEF EntryInv, ThreadsOK, Handshake, Shutdown
<1>7. OnePath'
  BY <1>5 DEF OnePath, Shutdown
<1>8. Working' /\ Resting'
  BY <1>1, <1>5 DEF EntryInv, ThreadsOK, Working, Resting, Asking, Shutdown
<1>9. Asking'
  BY <1>1 DEF ThreadsOK, Asking, Shutdown
<1> QED
  BY <1>2, <1>4, <1>6, <1>7, <1>8, <1>9 DEF EntryInv, TypeOK

LEMMA RestartInv ==
  ASSUME EntryInv, Restart
  PROVE EntryInv'
<1>1. TableOK /\ ListsOK /\ ThreadsOK
  BY DEF EntryInv, TypeOK
<1>2. nodes' = <<>> /\ Len(nodes') = 0 /\ pathes' = 0
  BY DEF Restart
<1>3. TableOK'
  BY <1>2 DEF TableOK, EntryListAssumption
<1>4. \A e \in Lists : ~el[e].exists /\ el[e] = NoList
  BY <1>1 DEF EntryInv, Asking, ListsOK, Restart
<1>5. ListsOK'
  <2>1. NoList \in List(0)
    BY DEF List, NoList
  <2>2. el' \in [Lists -> List(Len(nodes'))] /\ el' = el
    BY <1>1, <1>2, <1>4, <2>1 DEF ListsOK, Restart
  <2> QED
    BY <1>1, <1>4, <2>2 DEF ListsOK, List, Restart
<1>6. ThreadsOK'
  BY <1>1, <1>2 DEF ThreadsOK, Restart, EntryListAssumption
<1>7. \A e \in Lists : el'[e].loading = 0 /\ el'[e].entries = <<>>
  BY <1>4 DEF NoList, Restart
<1>8. Handshake'
  BY <1>7 DEF Handshake, Restart
<1>9. OnePath'
  BY <1>7 DEF OnePath
<1>10. Working' /\ Resting' /\ Asking'
  BY <1>1 DEF ThreadsOK, Working, Resting, Asking, Restart, EntryListAssumption
<1> QED
  BY <1>3, <1>5, <1>6, <1>8, <1>9, <1>10 DEF EntryInv, TypeOK

LEMMA Appended ==
  ASSUME NEW n \in Nat, NEW r \in List(n), NEW s \in Seq(1..n)
  PROVE [r EXCEPT !.entries = @ \o s] \in List(n)
<1>1. r.entries \o s \in Seq(1..n)
  BY DEF List
<1> QED
  BY <1>1 DEF List

LEMMA Joined ==
  ASSUME NEW S, NEW s \in Seq(S), NEW t \in Seq(S), NEW k, \A j \in DOMAIN t : t[j] = k
  PROVE \A j \in DOMAIN (s \o t) : (s \o t)[j] = k \/ \E m \in DOMAIN s : (s \o t)[j] = s[m]
<1>1. Len(s) \in Nat /\ Len(t) \in Nat /\ DOMAIN s = 1..Len(s) /\ DOMAIN t = 1..Len(t)
  BY Elements
<1>2. DOMAIN (s \o t) = 1..(Len(s) + Len(t))
  OBVIOUS
<1> SUFFICES ASSUME NEW j \in DOMAIN (s \o t)
             PROVE (s \o t)[j] = k \/ \E m \in DOMAIN s : (s \o t)[j] = s[m]
  OBVIOUS
<1>3. CASE j <= Len(s)
  <2>1. j \in DOMAIN s /\ (s \o t)[j] = s[j]
    BY <1>1, <1>2, <1>3
  <2> QED
    BY <2>1
<1>4. CASE j > Len(s)
  <2>1. j - Len(s) \in DOMAIN t /\ (s \o t)[j] = t[j - Len(s)]
    BY <1>1, <1>2, <1>4
  <2> QED
    BY <2>1
<1> QED
  BY <1>1, <1>2, <1>3, <1>4

LEMMA Extended ==
  ASSUME NEW S, NEW s \in Seq(S), NEW k \in S
  PROVE \A j \in DOMAIN Append(s, k) : Append(s, k)[j] = k \/ \E m \in DOMAIN s : Append(s, k)[j] = s[m]
<1>1. Len(s) \in Nat /\ DOMAIN s = 1..Len(s)
  BY Elements
<1>2. DOMAIN Append(s, k) = 1..(Len(s) + 1)
  OBVIOUS
<1>3. Append(s, k)[Len(s) + 1] = k
  BY <1>1
<1>4. \A j \in 1..Len(s) : Append(s, k)[j] = s[j]
  BY <1>1
<1>5. \A j \in 1..(Len(s) + 1) : j = Len(s) + 1 \/ j \in 1..Len(s)
  BY <1>1
<1> QED
  BY <1>1, <1>2, <1>3, <1>4, <1>5

LEMMA DotsInv ==
  ASSUME EntryInv, Dots
  PROVE EntryInv'
<1> DEFINE e == loader.el
           k == el[e].path
<1>1. TableOK /\ ListsOK /\ ThreadsOK
  BY DEF EntryInv, TypeOK
<1>2. e \in Lists /\ el[e].loading = 1 /\ k # 0 /\ loader.status = "LOADING"
  BY <1>1 DEF EntryInv, ThreadsOK, Handshake, Working, Dots
<1>3. Len(nodes) \in Nat /\ el \in [Lists -> List(Len(nodes))] /\ k \in 1..Len(nodes)
  BY <1>1, <1>2, Records DEF ListsOK, List
<1>4. PICK n \in 0..MaxDots :
        /\ nodes' = [nodes EXCEPT ![k].refcount = @ + n]
        /\ el' = [el EXCEPT ![e].entries = @ \o [j \in 1..n |-> k]]
  BY DEF Dots
<1> DEFINE new == [j \in 1..n |-> k]
           r == [el[e] EXCEPT !.entries = @ \o new]
<1>5. n \in Nat
  BY DEF EntryListAssumption
<1>6. new \in Seq(1..Len(nodes)) /\ Len(new) = n /\ \A j \in 1..n : new[j] = k
  BY <1>3, <1>5
<1>7. TableOK' /\ Len(nodes') = Len(nodes)
  BY <1>1, <1>4, <1>5, CountTable DEF Dots
<1>8. el[e].entries \in Seq(1..Len(nodes)) /\ r.entries = el[e].entries \o new
  BY <1>2, <1>3 DEF List
<1>9. r \in List(Len(nodes)) /\ r.exists = el[e].exists /\ r.loading = 1 /\ r.path = k
  BY <1>2, <1>3, <1>6, Appended DEF List
<1>10. \A j \in DOMAIN r.entries : r.entries[j] = k \/ \E m \in DOMAIN el[e].entries : r.entries[j] = el[e].entries[m]
  <2>1. PICK s : s = el[e].entries
    OBVIOUS
  <2>2. PICK t : t = new
    OBVIOUS
  <2>3. PICK c : c = k
    OBVIOUS
  <2>4. /\ s \in Seq(1..Len(nodes)) /\ t \in Seq(1..Len(nodes)) /\ \A j \in DOMAIN t : t[j] = c
        /\ r.entries = s \o t
    BY <1>6, <1>8, <2>1, <2>2, <2>3
  <2> HIDE DEF r, new, k, e
  <2>5. PICK S : S = 1..Len(nodes)
    OBVIOUS
  <2>6. s \in Seq(S) /\ t \in Seq(S) /\ \A j \in DOMAIN t : t[j] = c
    BY <2>4, <2>5
  <2>7. \A j \in DOMAIN (s \o t) : (s \o t)[j] = c \/ \E m \in DOMAIN s : (s \o t)[j] = s[m]
    BY <2>6, Joined
  <2> QED
    BY <2>1, <2>3, <2>4, <2>7
<1>11. el' = [el EXCEPT ![e] = r] /\ UNCHANGED locked
  BY <1>2, <1>3, <1>4 DEF Dots
<1>12. el[e].exists
  BY <1>1, <1>2 DEF ListsOK, NoList
<1> HIDE DEF new, r
<1>13. el'[e] = r /\ \A x \in Lists : x # e => el'[x] = el[x]
  BY <1>2, <1>3, <1>11
<1>14. ListsOK'
  <2>1. PICK q : q = r
    OBVIOUS
  <2>2. PICK d : d = e
    OBVIOUS
  <2>3. /\ d \in Lists /\ q \in List(Len(nodes')) /\ el' = [el EXCEPT ![d] = q] /\ q.exists
    BY <1>2, <1>7, <1>9, <1>11, <1>12, <2>1, <2>2
  <2>4. Len(nodes') \in Nat /\ Len(nodes) <= Len(nodes')
    BY <1>3, <1>7
  <2> HIDE DEF e
  <2> QED
    BY <1>1, <1>11, <2>3, <2>4, ListsUpdated
<1>15. thd' \in [pc : {"fill"}, left : 0..DirSize] /\ UNCHANGED <<loader, sem, script>> /\ thd.pc = "dots"
  BY DEF Dots
<1>16. ThreadsOK'
  BY <1>1, <1>7, <1>15 DEF ThreadsOK
<1>17. Handshake'
  BY <1>1, <1>2, <1>9, <1>12, <1>13, <1>15 DEF EntryInv, ThreadsOK, Handshake
<1>18. OnePath'
  BY <1>1, <1>2, <1>9, <1>10, <1>13, <1>15 DEF EntryInv, OnePath
<1>19. Working' /\ Resting' /\ Asking'
  BY <1>1, <1>2, <1>9, <1>12, <1>13, <1>15 DEF EntryInv, ThreadsOK, Working, Resting, Asking
<1> QED
  BY <1>7, <1>14, <1>16, <1>17, <1>18, <1>19 DEF EntryInv, TypeOK

LEMMA InsertInv ==
  ASSUME EntryInv, Insert
  PROVE EntryInv'
<1> DEFINE e == loader.el
           k == el[e].path
<1>1. TableOK /\ ListsOK /\ ThreadsOK
  BY DEF EntryInv, TypeOK
<1>2. e \in Lists /\ el[e].loading = 1 /\ k # 0 /\ loader.status = "LOADING"
  BY <1>1 DEF EntryInv, ThreadsOK, Handshake, Working, Insert
<1>3. Len(nodes) \in Nat /\ el \in [Lists -> List(Len(nodes))] /\ k \in 1..Len(nodes)
  BY <1>1, <1>2, Records DEF ListsOK, List
<1>4. UNCHANGED <<locked, loader, sem, script>> /\ thd.pc = "insert"
  BY DEF Insert
<1>5. CASE Del(<<k>>) /\ thd' = [thd EXCEPT !.pc = "finish"] /\ UNCHANGED el
  <2>1. <<k>> \in Seq(1..Len(nodes))
    BY <1>3
  <2>2. TableOK' /\ Len(nodes') = Len(nodes)
    BY <1>1, <1>5, <2>1, DelTable
  <2>3. ListsOK'
    BY <1>1, <1>3, <1>4, <1>5, <2>2, ListsKept
  <2>4. ThreadsOK'
    BY <1>1, <1>4, <1>5, <2>2 DEF ThreadsOK
  <2>5. Handshake' /\ OnePath'
    BY <1>1, <1>2, <1>4, <1>5 DEF EntryInv, ThreadsOK, Handshake, OnePath
  <2>6. Working' /\ Resting' /\ Asking'
    BY <1>1, <1>2, <1>4, <1>5 DEF EntryInv, ThreadsOK, Working, Resting, Asking
  <2> QED
    BY <2>2, <2>3, <2>4, <2>5, <2>6 DEF EntryInv, TypeOK
<1>6. CASE /\ el' = [el EXCEPT ![e].entries = Append(@, k)]
           /\ thd' = [thd EXCEPT !.pc = "fill"] /\ UNCHANGED table
  <2> DEFINE r == [el[e] EXCEPT !.entries = Append(@, k)]
  <2>1. el[e].entries \in Seq(1..Len(nodes)) /\ r.entries = Append(el[e].entries, k)
    BY <1>2, <1>3 DEF List
  <2>2. r.entries \in Seq(1..Len(nodes))
    BY <1>3, <2>1
  <2>3. r \in List(Len(nodes)) /\ r.exists = el[e].exists /\ r.loading = 1 /\ r.path = k
    BY <1>2, <1>3, <2>1, <2>2 DEF List
  <2>4. \A j \in DOMAIN r.entries : r.entries[j] = k \/ \E m \in DOMAIN el[e].entries : r.entries[j] = el[e].entries[m]
    <3>1. PICK s : s = el[e].entries
      OBVIOUS
    <3>2. PICK c : c = k
      OBVIOUS
    <3>3. s \in Seq(1..Len(nodes)) /\ c \in 1..Len(nodes) /\ r.entries = Append(s, c)
      BY <1>3, <2>1, <3>1, <3>2
    <3> HIDE DEF r, k
    <3>4. \A j \in DOMAIN Append(s, c) : Append(s, c)[j] = c \/ \E m \in DOMAIN s : Append(s, c)[j] = s[m]
      BY <3>3, Extended
    <3>5. PICK x : x = Append(s, c)
      OBVIOUS
    <3>6. \A j \in DOMAIN x : x[j] = c \/ \E m \in DOMAIN s : x[j] = s[m]
      BY <3>4, <3>5, Zenon
    <3>7. r.entries = x
      BY <3>3, <3>5, Zenon
    <3> HIDE DEF e
    <3> QED
      BY <3>1, <3>2, <3>6, <3>7
  <2>5. el' = [el EXCEPT ![e] = r] /\ nodes' = nodes /\ pathes' = pathes
    BY <1>2, <1>3, <1>6 DEF table
  <2>6. el[e].exists
    BY <1>1, <1>2 DEF ListsOK, NoList
  <2> HIDE DEF r
  <2>7. el'[e] = r /\ \A x \in Lists : x # e => el'[x] = el[x]
    BY <1>2, <1>3, <2>5
  <2>8. ListsOK'
    <3>1. PICK q : q = r
      OBVIOUS
    <3>2. PICK d : d = e
      OBVIOUS
    <3>3. /\ d \in Lists /\ q \in List(Len(nodes')) /\ el' = [el EXCEPT ![d] = q] /\ q.exists
      BY <1>2, <2>3, <2>5, <2>6, <3>1, <3>2
    <3>4. Len(nodes') \in Nat /\ Len(nodes) <= Len(nodes')
      BY <1>3, <2>5
    <3> HIDE DEF e
    <3> QED
      BY <1>1, <1>4, <3>3, <3>4, ListsUpdated
  <2>9. TableOK'
    BY <1>1, <2>5 DEF TableOK
  <2>10. ThreadsOK'
    BY <1>1, <1>4, <1>6, <2>5 DEF ThreadsOK
  <2>11. thd'.pc = "fill"
    BY <1>1, <1>6 DEF ThreadsOK
  <2>12. Handshake'
    BY <1>1, <1>2, <1>4, <2>3, <2>6, <2>7, <2>11 DEF EntryInv, ThreadsOK, Handshake
  <2>13. OnePath'
    BY <1>2, <1>4, <2>3, <2>4, <2>7, <2>11 DEF EntryInv, OnePath
  <2>14. Working' /\ Resting' /\ Asking'
    BY <1>1, <1>2, <1>4, <2>3, <2>6, <2>7, <2>11 DEF EntryInv, ThreadsOK, Working, Resting, Asking
  <2> QED
    BY <2>8, <2>9, <2>10, <2>12, <2>13, <2>14 DEF EntryInv, TypeOK
<1> QED
  BY <1>5, <1>6 DEF Insert

Mark(q, k) == [q EXCEPT !.loading = 1, !.path = k]
Unmark(q) == [q EXCEPT !.loading = -1]

LEMMA Marked ==
  ASSUME NEW n \in Nat, NEW q \in List(n), NEW k \in 0..n
  PROVE /\ Mark(q, k) \in List(n)
        /\ Mark(q, k).exists = q.exists
        /\ Mark(q, k).loading = 1
        /\ Mark(q, k).path = k
        /\ Mark(q, k).entries = q.entries
        /\ Unmark(q) \in List(n)
        /\ Unmark(q).exists = q.exists
        /\ Unmark(q).loading = -1
        /\ Unmark(q).path = q.path
        /\ Unmark(q).entries = q.entries
<1>1. 1 \in -1..2 /\ -1 \in -1..2
  OBVIOUS
<1> QED
  BY <1>1 DEF List, Mark, Unmark

LEMMA StartInv ==
  ASSUME EntryInv, Start
  PROVE EntryInv'
<1> DEFINE e == loader.el
<1>1. TableOK /\ ListsOK /\ ThreadsOK
  BY DEF EntryInv, TypeOK
<1>2. /\ e \in Lists /\ e # NULL /\ loader.path \in Paths /\ el[e].exists /\ e \notin locked
      /\ loader.status = "STARTING" /\ thd.pc = "top" /\ script.pc = "asked"
      /\ UNCHANGED <<locked, sem, thd, script>>
  BY <1>1 DEF EntryInv, ThreadsOK, Handshake, Asking, Start
<1>3. Len(nodes) \in Nat /\ el \in [Lists -> List(Len(nodes))]
  BY <1>1, Records DEF ListsOK, List
<1>4. PICK k \in 0..Len(nodes) + 1 : Add(loader.path, k) /\ IF k # 0 THEN Taken(e, k) ELSE Refused(e)
  BY DEF Start
<1>5. TableOK' /\ Len(nodes') \in Nat /\ Len(nodes) <= Len(nodes') /\ k \in 0..Len(nodes')
  BY <1>1, <1>2, <1>4, AddTable
<1>6. el[e] \in List(Len(nodes')) /\ loader \in Loader(Len(nodes'))
  <2>1. el[e] \in List(Len(nodes)) /\ loader \in Loader(Len(nodes))
    BY <1>1, <1>2, <1>3 DEF ThreadsOK, Loader
  <2> QED
    BY <1>1, <1>3, <1>5, <2>1, Longer, LoaderKept
<1>7. /\ \A x \in Lists : el[x].loading # 1
      /\ \A x \in Lists : \A i \in DOMAIN el[x].entries : el[x].entries[i] = el[x].path
  BY <1>2 DEF EntryInv, Handshake, OnePath
<1>8. CASE k # 0
  <2> DEFINE r == Mark(el[e], k)
  <2>1. r \in List(Len(nodes')) /\ r.exists /\ r.loading = 1 /\ r.path = k /\ r.entries = el[e].entries
    <3>1. PICK n : n = Len(nodes')
      OBVIOUS
    <3>2. PICK q : q = el[e]
      OBVIOUS
    <3>3. n \in Nat /\ q \in List(n) /\ k \in 0..n /\ q.exists
      BY <1>2, <1>5, <1>6, <3>1, <3>2
    <3>4. q.exists = TRUE
      BY <3>3 DEF List
    <3> HIDE DEF e
    <3>5. Mark(q, k) \in List(n)
      BY <3>3, Marked
    <3>6. Mark(q, k).exists = q.exists
      BY <3>3, Marked, Zenon
    <3>7. Mark(q, k).loading = 1 /\ Mark(q, k).path = k
      BY <3>3, Marked
    <3>8. Mark(q, k).entries = q.entries
      BY <3>3, Marked
    <3> QED
      BY <3>1, <3>2, <3>4, <3>5, <3>6, <3>7, <3>8
  <2>2. el' = [el EXCEPT ![e] = r]
    BY <1>2, <1>3, <1>4, <1>8 DEF Taken, Mark
  <2>3. loader' = [loader EXCEPT !.status = "LOADING", !.path = NULL, !.save = el[e].path]
    BY <1>4, <1>8 DEF Taken
  <2>4. /\ loader' \in Loader(Len(nodes')) /\ loader'.status = "LOADING" /\ loader'.el = e
        /\ loader'.save = el[e].path
    <3>1. el[e].path \in 0..Len(nodes')
      BY <1>6 DEF List
    <3> QED
      BY <1>6, <2>3, <3>1 DEF Loader
  <2> HIDE DEF r
  <2>5. el'[e] = r /\ \A x \in Lists : x # e => el'[x] = el[x]
    BY <1>2, <1>3, <2>2
  <2>6. ListsOK'
    <3>1. PICK q : q = r
      OBVIOUS
    <3>2. PICK d : d = e
      OBVIOUS
    <3>3. /\ d \in Lists /\ q \in List(Len(nodes')) /\ el' = [el EXCEPT ![d] = q] /\ q.exists
      BY <1>2, <2>1, <2>2, <3>1, <3>2
    <3> HIDE DEF e
    <3> QED
      BY <1>1, <1>2, <1>5, <3>3, ListsUpdated
  <2>7. ThreadsOK'
    BY <1>1, <1>2, <2>4 DEF ThreadsOK, Loader
  <2>8. Handshake'
    BY <1>2, <1>7, <2>4, <2>5 DEF Handshake
  <2>9. OnePath'
    BY <1>2, <1>7, <2>1, <2>4, <2>5 DEF OnePath
  <2>10. Working' /\ Resting' /\ Asking'
    BY <1>1, <1>2, <1>8, <2>1, <2>4, <2>5 DEF EntryInv, ThreadsOK, Working, Resting, Asking
  <2> QED
    BY <1>5, <2>6, <2>7, <2>8, <2>9, <2>10 DEF EntryInv, TypeOK
<1>9. CASE k = 0
  <2> DEFINE r == Unmark(el[e])
  <2>1. r \in List(Len(nodes')) /\ r.exists /\ r.loading = -1 /\ r.path = el[e].path /\ r.entries = el[e].entries
    <3>1. PICK n : n = Len(nodes')
      OBVIOUS
    <3>2. PICK q : q = el[e]
      OBVIOUS
    <3>3. n \in Nat /\ q \in List(n) /\ k \in 0..n /\ q.exists
      BY <1>2, <1>5, <1>6, <3>1, <3>2
    <3>4. q.exists = TRUE
      BY <3>3 DEF List
    <3> HIDE DEF e
    <3> QED
      BY <3>1, <3>2, <3>3, <3>4, Marked
  <2>2. el' = [el EXCEPT ![e] = r]
    BY <1>2, <1>3, <1>4, <1>9 DEF Refused, Unmark
  <2>3. loader' = [loader EXCEPT !.status = "READY", !.path = NULL, !.el = NULL]
    BY <1>4, <1>9 DEF Refused
  <2>4. loader' \in Loader(Len(nodes')) /\ loader'.status = "READY" /\ loader'.el = NULL
    BY <1>6, <2>3 DEF Loader
  <2> HIDE DEF r
  <2>5. el'[e] = r /\ \A x \in Lists : x # e => el'[x] = el[x]
    BY <1>2, <1>3, <2>2
  <2>6. ListsOK'
    <3>1. PICK q : q = r
      OBVIOUS
    <3>2. PICK d : d = e
      OBVIOUS
    <3>3. /\ d \in Lists /\ q \in List(Len(nodes')) /\ el' = [el EXCEPT ![d] = q] /\ q.exists
      BY <1>2, <2>1, <2>2, <3>1, <3>2
    <3> HIDE DEF e
    <3> QED
      BY <1>1, <1>2, <1>5, <3>3, ListsUpdated
  <2>7. ThreadsOK'
    BY <1>1, <1>2, <2>4 DEF ThreadsOK, Loader
  <2>8. Handshake'
    BY <1>2, <1>7, <2>1, <2>4, <2>5 DEF Handshake
  <2>9. OnePath'
    BY <1>2, <1>7, <2>1, <2>4, <2>5 DEF OnePath
  <2>10. Working' /\ Resting' /\ Asking'
    BY <1>1, <1>2, <2>1, <2>4, <2>5 DEF EntryInv, ThreadsOK, Working, Resting, Asking
  <2> QED
    BY <1>5, <2>6, <2>7, <2>8, <2>9, <2>10 DEF EntryInv, TypeOK
<1> QED
  BY <1>8, <1>9

-----------------------------------------------------------------------------
\* Counting references.

Is(p, k) == IF p = k THEN 1 ELSE 0

\* The references to k of a set of holders, R giving those of each.
Pairs(R, S, k) == UNION {{x} \X Places(R[x], k) : x \in S}

LEMMA TimesNone ==
  ASSUME NEW k
  PROVE Times(<<>>, k) = 0
<1>1. Places(<<>>, k) = {}
  BY DEF Places
<1> QED
  BY <1>1, FS_EmptySet DEF Times

LEMMA TimesMore ==
  ASSUME NEW S, NEW d \in Seq(S), NEW p \in S, NEW k
  PROVE Times(Append(d, p), k) = Times(d, k) + Is(p, k)
<1> DEFINE n == Len(d) + 1
<1>1. n \in Nat /\ DOMAIN d = 1..Len(d) /\ Len(d) \in Nat /\ IsFiniteSet(Places(d, k))
  BY PlacesFinite
<1>2. n \notin Places(d, k)
  BY <1>1 DEF Places
<1>3. /\ DOMAIN Append(d, p) = 1..n /\ Append(d, p)[n] = p
      /\ \A i \in 1..Len(d) : Append(d, p)[i] = d[i]
  BY <1>1
<1>4. \A i \in 1..n : i = n \/ i \in 1..Len(d)
  BY <1>1
<1>5. CASE p = k
  <2>1. Places(Append(d, p), k) = Places(d, k) \cup {n}
    BY <1>1, <1>3, <1>4, <1>5 DEF Places
  <2> QED
    BY <1>1, <1>2, <1>5, <2>1, FS_AddElement DEF Times, Is
<1>6. CASE p # k
  <2>1. Places(Append(d, p), k) = Places(d, k)
    BY <1>1, <1>3, <1>4, <1>6 DEF Places
  <2> QED
    BY <1>6, <2>1, PlacesFinite DEF Times, Is
<1> QED
  BY <1>5, <1>6

LEMMA TimesOne ==
  ASSUME NEW p, NEW k
  PROVE Times(<<p>>, k) = Is(p, k)
<1>1. <<>> \in Seq({p}) /\ Append(<<>>, p) = <<p>>
  OBVIOUS
<1>2. Times(Append(<<>>, p), k) = Times(<<>>, k) + Is(p, k)
  BY <1>1, TimesMore
<1> QED
  BY <1>1, <1>2, TimesNone DEF Is

LEMMA TimesTwo ==
  ASSUME NEW p, NEW q, NEW k, NEW d, d = <<p, q>>
  PROVE Times(d, k) = Is(p, k) + Is(q, k)
<1>1. <<p>> \in Seq({p, q})
  OBVIOUS
<1>2. Append(<<p>>, q) = <<p, q>>
  <2>1. <<p, q>> = [i \in 1..2 |-> IF i = 2 THEN q ELSE p]
    OBVIOUS
  <2>2. Append(<<p>>, q) = [i \in 1..2 |-> IF i = 2 THEN q ELSE p]
    BY <1>1
  <2> QED
    BY <2>1, <2>2
<1>3. Times(Append(<<p>>, q), k) = Times(<<p>>, k) + Is(q, k)
  BY <1>1, TimesMore
<1> QED
  BY <1>2, <1>3, TimesOne

LEMMA TimesMany ==
  ASSUME NEW S, NEW d \in Seq(S), NEW p \in S, NEW t \in Seq(S), \A i \in DOMAIN t : t[i] = p, NEW k
  PROVE Times(d \o t, k) = Times(d, k) + (IF p = k THEN Len(t) ELSE 0)
<1> DEFINE m == Len(d)
           n == Len(t)
           new == (m + 1)..(m + n)
<1>1. m \in Nat /\ n \in Nat /\ DOMAIN d = 1..m /\ IsFiniteSet(Places(d, k)) /\ Times(d, k) \in Nat
  BY PlacesFinite
<1>2. /\ DOMAIN (d \o t) = 1..(m + n)
      /\ \A i \in 1..m : (d \o t)[i] = d[i]
      /\ \A i \in new : (d \o t)[i] = p
  <2>1. DOMAIN (d \o t) = 1..(m + n) /\ \A i \in 1..m : (d \o t)[i] = d[i]
    BY <1>1
  <2>2. \A i \in new : (d \o t)[i] = t[i - m] /\ i - m \in 1..n
    BY <1>1
  <2> QED
    BY <2>1, <2>2
<1>3. /\ \A i \in 1..(m + n) : i \in 1..m \/ i \in new
      /\ new \subseteq 1..(m + n) /\ 1..m \subseteq 1..(m + n) /\ new \cap 1..m = {}
  BY <1>1
<1>4. IsFiniteSet(new) /\ Cardinality(new) = n
  <2>1. m + 1 \in Int /\ m + n \in Int
    BY <1>1
  <2>2. IsFiniteSet(new) /\ Cardinality(new) = IF m + 1 > m + n THEN 0 ELSE (m + n) - (m + 1) + 1
    BY <2>1, FS_Interval
  <2> QED
    BY <1>1, <2>2
<1> HIDE DEF new, m
<1>5. CASE p = k
  <2>1. Places(d \o t, k) = Places(d, k) \cup new
    BY <1>1, <1>2, <1>3, <1>5 DEF Places
  <2>2. Places(d, k) \cap new = {}
    BY <1>1, <1>3 DEF Places
  <2>3. Cardinality(Places(d, k) \cap new) = 0
    BY <2>2, FS_EmptySet
  <2>4. Cardinality(Places(d, k) \cup new) = Cardinality(Places(d, k)) + Cardinality(new) - 0
    BY <1>1, <1>4, <2>3, FS_Union
  <2>5. Times(d \o t, k) = Times(d, k) + n
    BY <1>1, <1>4, <2>1, <2>4 DEF Times
  <2> QED
    BY <1>5, <2>5
<1>6. CASE p # k
  <2>1. Places(d \o t, k) = Places(d, k)
    BY <1>1, <1>2, <1>3, <1>6 DEF Places
  <2>2. Times(d \o t, k) = Times(d, k)
    BY <2>1 DEF Times
  <2> QED
    BY <1>1, <1>6, <2>2
<1> QED
  BY <1>5, <1>6

LEMMA Slice ==
  ASSUME NEW x, NEW A, IsFiniteSet(A)
  PROVE IsFiniteSet({x} \X A) /\ Cardinality({x} \X A) = Cardinality(A) /\ Cardinality(A) \in Nat
<1>1. Cardinality(A) \in Nat
  BY FS_CardinalityType
<1>2. IsFiniteSet({x}) /\ Cardinality({x}) = 1
  BY FS_Singleton, Zenon
<1>3. IsFiniteSet({x} \X A) /\ Cardinality({x} \X A) = Cardinality({x}) * Cardinality(A)
  BY <1>2, FS_Product
<1> QED
  BY <1>1, <1>2, <1>3

LEMMA PairsFinite ==
  ASSUME NEW R, NEW S, NEW k, IsFiniteSet(S), \A x \in S : IsFiniteSet(Places(R[x], k))
  PROVE IsFiniteSet(Pairs(R, S, k)) /\ Cardinality(Pairs(R, S, k)) \in Nat
<1> DEFINE P == {{x} \X Places(R[x], k) : x \in S}
           f == [x \in S |-> {x} \X Places(R[x], k)]
<1>1. f \in Surjection(S, P)
  BY DEF Surjection
<1>2. IsFiniteSet(P)
  BY <1>1, FS_Surjection
<1>3. ASSUME NEW T \in P PROVE IsFiniteSet(T)
  <2>1. PICK x \in S : T = {x} \X Places(R[x], k)
    OBVIOUS
  <2>2. IsFiniteSet({x} \X Places(R[x], k))
    BY Slice
  <2> QED
    BY <2>1, <2>2
<1> HIDE DEF P
<1>4. IsFiniteSet(UNION P)
  BY <1>2, <1>3, FS_UNION
<1> QED
  BY <1>4, FS_CardinalityType DEF Pairs, P

LEMMA Without ==
  ASSUME NEW R, NEW S, NEW k, IsFiniteSet(S), \A x \in S : IsFiniteSet(Places(R[x], k)), NEW y \in S
  PROVE /\ Cardinality(Pairs(R, S, k)) = Cardinality(Pairs(R, S \ {y}, k)) + Times(R[y], k)
        /\ Cardinality(Pairs(R, S \ {y}, k)) \in Nat /\ Times(R[y], k) \in Nat
<1> DEFINE A == Pairs(R, S \ {y}, k)
           B == {y} \X Places(R[y], k)
<1>1. IsFiniteSet(S \ {y})
  BY FS_RemoveElement
<1>2. IsFiniteSet(A) /\ Cardinality(A) \in Nat
  BY <1>1, PairsFinite
<1>3. IsFiniteSet(B) /\ Cardinality(B) = Times(R[y], k) /\ Times(R[y], k) \in Nat
  BY Slice DEF Times
<1>4. Pairs(R, S, k) = A \cup B
  <2>1. ASSUME NEW z \in Pairs(R, S, k) PROVE z \in A \cup B
    <3>1. PICK x \in S : z \in {x} \X Places(R[x], k)
      BY <2>1 DEF Pairs
    <3> QED
      BY <3>1 DEF Pairs
  <2>2. A \cup B \subseteq Pairs(R, S, k)
    BY DEF Pairs
  <2> QED
    BY <2>1, <2>2
<1>5. A \cap B = {}
  BY DEF Pairs
<1> HIDE DEF A, B
<1>6. Cardinality(A \cup B) = Cardinality(A) + Cardinality(B)
  <2>1. Cardinality(A \cap B) = 0
    BY <1>5, FS_EmptySet
  <2>2. Cardinality(A \cup B) = Cardinality(A) + Cardinality(B) - 0
    BY <1>2, <1>3, <2>1, FS_Union
  <2> QED
    BY <1>2, <1>3, <2>2
<1> QED
  BY <1>2, <1>3, <1>4, <1>6 DEF A

\* What a list E[x] refers to, as References has it, the references to k of all of
\* them and of those but e, and what the loader is about to insert.
Row(E, x) == Append(E[x].entries, E[x].path)
ByLists(E, k) == Cardinality(UNION {{x} \X Places(Row(E, x), k) : x \in Lists})
ByOthers(E, e, k) == Cardinality(UNION {{x} \X Places(Row(E, x), k) : x \in Lists \ {e}})
ByList(E, e, k) == Times(E[e].entries, k) + Is(E[e].path, k)
ByAll(E, s, f, k) ==
  Cardinality(UNION {{x} \X Places(IF x # NULL THEN Row(E, x) ELSE <<s, f>>, k) : x \in Lists \cup {NULL}})
Flight == IF thd.pc = "insert" THEN el[loader.el].path ELSE 0

LEMMA Rows ==
  ASSUME NEW n \in Nat, NEW E \in [Lists -> List(n)], NEW e \in Lists, NEW k
  PROVE /\ E[e].entries \in Seq(0..n) /\ E[e].path \in 0..n /\ Row(E, e) \in Seq(0..n)
        /\ Times(Row(E, e), k) = ByList(E, e, k) /\ Times(E[e].entries, k) \in Nat
        /\ IsFiniteSet(Places(Row(E, e), k))
<1>1. E[e].entries \in Seq(1..n) /\ E[e].path \in 0..n
  BY DEF List
<1>2. Seq(1..n) \subseteq Seq(0..n)
  OBVIOUS
<1>3. E[e].entries \in Seq(0..n)
  BY <1>1, <1>2
<1>4. Row(E, e) \in Seq(0..n)
  BY <1>1, <1>3 DEF Row
<1>5. Times(Row(E, e), k) = ByList(E, e, k)
  BY <1>1, <1>3, TimesMore DEF Row, ByList
<1> QED
  BY <1>1, <1>3, <1>4, <1>5, PlacesFinite

\* The references of one list among those of all,
LEMMA OneList ==
  ASSUME NEW n \in Nat, NEW E \in [Lists -> List(n)], NEW e \in Lists, NEW k
  PROVE ByLists(E, k) = ByOthers(E, e, k) + ByList(E, e, k) /\ ByOthers(E, e, k) \in Nat
<1> DEFINE R == [x \in Lists |-> Row(E, x)]
<1>1. \A x \in Lists : R[x] = Row(E, x) /\ IsFiniteSet(Places(R[x], k))
  BY Rows
<1>2. ByLists(E, k) = Cardinality(Pairs(R, Lists, k))
  BY DEF ByLists, Pairs
<1>3. ByOthers(E, e, k) = Cardinality(Pairs(R, Lists \ {e}, k))
  BY DEF ByOthers, Pairs
<1> HIDE DEF R
<1>4. IsFiniteSet(Lists)
  BY DEF EntryListAssumption
<1>5. /\ Cardinality(Pairs(R, Lists, k)) = Cardinality(Pairs(R, Lists \ {e}, k)) + Times(R[e], k)
      /\ Cardinality(Pairs(R, Lists \ {e}, k)) \in Nat
  BY <1>1, <1>4, Without
<1> QED
  BY <1>1, <1>2, <1>3, <1>5, Rows

\* and those of the lists among all.
LEMMA AllLists ==
  ASSUME NEW n \in Nat, NEW E \in [Lists -> List(n)], NEW s \in 0..n, NEW f \in 0..n, NEW k
  PROVE ByAll(E, s, f, k) = ByLists(E, k) + Is(s, k) + Is(f, k) /\ ByLists(E, k) \in Nat
<1> DEFINE S == Lists \cup {NULL}
           R == [x \in S |-> IF x # NULL THEN Row(E, x) ELSE <<s, f>>]
<1>1. IsFiniteSet(S) /\ S \ {NULL} = Lists /\ NULL \in S
  BY FS_AddElement DEF EntryListAssumption
<1>2. R[NULL] = <<s, f>> /\ \A x \in Lists : R[x] = Row(E, x)
  BY <1>1
<1>3. ByAll(E, s, f, k) = Cardinality(Pairs(R, S, k))
  BY DEF ByAll, Pairs
<1>4. ByLists(E, k) = Cardinality(Pairs(R, S \ {NULL}, k))
  BY <1>1, <1>2 DEF ByLists, Pairs
<1> HIDE DEF R, S
<1>5. \A x \in S : IsFiniteSet(Places(R[x], k))
  <2>1. <<s, f>> \in Seq(0..n)
    OBVIOUS
  <2>2. IsFiniteSet(Places(R[NULL], k))
    BY <1>2, <2>1, PlacesFinite
  <2>3. \A x \in Lists : IsFiniteSet(Places(R[x], k))
    BY <1>2, Rows
  <2> QED
    BY <2>2, <2>3 DEF S
<1>6. /\ Cardinality(Pairs(R, S, k)) = Cardinality(Pairs(R, S \ {NULL}, k)) + Times(R[NULL], k)
      /\ Cardinality(Pairs(R, S \ {NULL}, k)) \in Nat
  BY <1>1, <1>5, Without
<1>7. Times(R[NULL], k) = Is(s, k) + Is(f, k)
  BY <1>2, TimesTwo
<1>8. Is(s, k) \in Nat /\ Is(f, k) \in Nat
  BY DEF Is
<1> QED
  BY <1>3, <1>4, <1>6, <1>7, <1>8

\* In a state of the invariant.
LEMMA Holders ==
  ASSUME EntryInv
  PROVE /\ Len(nodes) \in Nat /\ DOMAIN nodes = 1..Len(nodes) /\ el \in [Lists -> List(Len(nodes))]
        /\ loader.save \in 0..Len(nodes) /\ Flight \in 0..Len(nodes)
<1>1. TableOK /\ ListsOK /\ ThreadsOK
  BY DEF EntryInv, TypeOK
<1>2. Len(nodes) \in Nat /\ DOMAIN nodes = 1..Len(nodes) /\ el \in [Lists -> List(Len(nodes))]
  BY <1>1, Records DEF ListsOK, List
<1>3. Flight \in 0..Len(nodes)
  <2>1. thd.pc = "insert" => loader.el \in Lists
    BY <1>1 DEF EntryInv, Handshake, ThreadsOK
  <2> QED
    BY <1>2, <2>1 DEF Flight, List
<1> QED
  BY <1>1, <1>2, <1>3 DEF ThreadsOK

LEMMA HeldOf ==
  ASSUME EntryInv, NEW k
  PROVE Held(k) = ByLists(el, k) + Is(loader.save, k) + Is(Flight, k) /\ ByLists(el, k) \in Nat
<1>1. Held(k) = ByAll(el, loader.save, Flight, k)
  BY DEF Held, References, ByAll, Row, Flight
<1> QED
  BY <1>1, Holders, AllLists

LEMMA HeldThen ==
  ASSUME NEW n \in Nat, el' \in [Lists -> List(n)], loader'.save \in 0..n, Flight' \in 0..n, NEW k
  PROVE Held(k)' = ByLists(el', k) + Is(loader'.save, k) + Is(Flight', k) /\ ByLists(el', k) \in Nat
<1>1. Held(k)' = ByAll(el', loader'.save, Flight', k)
  BY DEF Held, References, ByAll, Row, Flight
<1> QED
  BY <1>1, AllLists

LEMMA HoldersThen ==
  ASSUME EntryInv'
  PROVE /\ Len(nodes') \in Nat /\ DOMAIN nodes' = 1..Len(nodes') /\ el' \in [Lists -> List(Len(nodes'))]
        /\ loader'.save \in 0..Len(nodes') /\ Flight' \in 0..Len(nodes')
<1>1. TableOK' /\ ListsOK' /\ ThreadsOK' /\ Handshake'
  BY DEF EntryInv, TypeOK
<1>2. Len(nodes') \in Nat /\ DOMAIN nodes' = 1..Len(nodes')
  <2>1. nodes' \in Seq(Record)
    BY <1>1 DEF TableOK, Record
  <2> QED
    BY <2>1, Elements
<1>3. el' \in [Lists -> List(Len(nodes'))]
  BY <1>1 DEF ListsOK, List
<1>4. loader'.save \in 0..Len(nodes')
  BY <1>1 DEF ThreadsOK
<1>5. Flight' \in 0..Len(nodes')
  <2>1. thd'.pc = "insert" => loader'.el \in Lists
    BY <1>1 DEF Handshake, ThreadsOK
  <2> QED
    BY <1>2, <1>3, <2>1 DEF Flight, List
<1> QED
  BY <1>2, <1>3, <1>4, <1>5

LEMMA ListsSame ==
  ASSUME NEW k, \A x \in Lists : el'[x].entries = el[x].entries /\ el'[x].path = el[x].path
  PROVE ByLists(el', k) = ByLists(el, k)
<1>1. \A x \in Lists : Row(el', x) = Row(el, x)
  BY DEF Row
<1> QED
  BY <1>1 DEF ByLists

LEMMA Exchange ==
  ASSUME NEW o \in Nat, NEW b \in Nat, NEW s \in Nat, NEW f \in Nat,
         NEW b1 \in Nat, NEW s1 \in Nat, NEW f1 \in Nat, NEW c, NEW c1,
         c = o + b + s + f, c1 = c + b1 + s1 + f1 - b - s - f
  PROVE c1 = o + b1 + s1 + f1
  OBVIOUS

\* What a record's count has to follow, when the lists do not change,
LEMMA LoaderCounts ==
  ASSUME EntryInv, EntryInv', RefCounts, Len(nodes') = Len(nodes),
         \A x \in Lists : el'[x].entries = el[x].entries /\ el'[x].path = el[x].path,
         \A k \in 1..Len(nodes) :
           nodes'[k].refcount = nodes[k].refcount + Is(loader'.save, k) + Is(Flight', k)
                                  - Is(loader.save, k) - Is(Flight, k)
  PROVE RefCounts'
<1> SUFFICES ASSUME NEW k \in DOMAIN nodes' PROVE nodes'[k].refcount = Held(k)'
  BY DEF RefCounts
<1>1. DOMAIN nodes' = 1..Len(nodes) /\ DOMAIN nodes = 1..Len(nodes)
  BY Holders, HoldersThen
<1>2. nodes[k].refcount = Held(k)
  BY <1>1 DEF RefCounts
<1>3. Held(k) = ByLists(el, k) + Is(loader.save, k) + Is(Flight, k) /\ ByLists(el, k) \in Nat
  BY HeldOf
<1>4. Held(k)' = ByLists(el', k) + Is(loader'.save, k) + Is(Flight', k)
  BY HoldersThen, HeldThen
<1>5. ByLists(el', k) = ByLists(el, k)
  BY ListsSame
<1>6. \A p : Is(p, k) \in Nat
  BY DEF Is
<1> QED
  BY <1>1, <1>2, <1>3, <1>4, <1>5, <1>6

\* and when one does.
LEMMA ListShift ==
  ASSUME EntryInv, EntryInv', NEW e \in Lists, \A x \in Lists : x # e => el'[x] = el[x],
         NEW k, NEW c, NEW c1, c = Held(k),
         c1 = c + ByList(el', e, k) + Is(loader'.save, k) + Is(Flight', k)
                - ByList(el, e, k) - Is(loader.save, k) - Is(Flight, k)
  PROVE c1 = Held(k)'
<1>1. Held(k) = ByLists(el, k) + Is(loader.save, k) + Is(Flight, k) /\ ByLists(el, k) \in Nat
  BY HeldOf
<1>2. Held(k)' = ByLists(el', k) + Is(loader'.save, k) + Is(Flight', k)
  BY HoldersThen, HeldThen
<1>3. ByLists(el, k) = ByOthers(el, e, k) + ByList(el, e, k) /\ ByOthers(el, e, k) \in Nat
  BY Holders, OneList
<1>4. ByLists(el', k) = ByOthers(el', e, k) + ByList(el', e, k)
  BY HoldersThen, OneList
<1>5. ByOthers(el', e, k) = ByOthers(el, e, k)
  BY DEF ByOthers, Row
<1>6. /\ Is(loader'.save, k) \in Nat /\ Is(Flight', k) \in Nat
      /\ Is(loader.save, k) \in Nat /\ Is(Flight, k) \in Nat
  BY DEF Is
<1>7. ByList(el, e, k) \in Nat
  <2>1. Times(el[e].entries, k) \in Nat
    BY Holders, Rows
  <2> QED
    BY <2>1 DEF ByList, Is
<1>8. ByList(el', e, k) \in Nat
  <2>1. Times(el'[e].entries, k) \in Nat
    BY HoldersThen, Rows
  <2> QED
    BY <2>1 DEF ByList, Is
<1>9. c = ByOthers(el, e, k) + ByList(el, e, k) + Is(loader.save, k) + Is(Flight, k)
  BY <1>1, <1>3
<1>10. Held(k)' = ByOthers(el, e, k) + ByList(el', e, k) + Is(loader'.save, k) + Is(Flight', k)
  BY <1>2, <1>4, <1>5
<1>11. ByOthers(el, e, k) \in Nat
  BY <1>3
<1>12. c1 = ByOthers(el, e, k) + ByList(el', e, k) + Is(loader'.save, k) + Is(Flight', k)
  BY <1>6, <1>7, <1>8, <1>9, <1>11, Exchange
<1> QED
  BY <1>10, <1>12

LEMMA ListCounts ==
  ASSUME EntryInv, EntryInv', RefCounts, Len(nodes') = Len(nodes), NEW e \in Lists,
         \A x \in Lists : x # e => el'[x] = el[x],
         \A k \in 1..Len(nodes) :
           nodes'[k].refcount = nodes[k].refcount
             + ByList(el', e, k) + Is(loader'.save, k) + Is(Flight', k)
             - ByList(el, e, k) - Is(loader.save, k) - Is(Flight, k)
  PROVE RefCounts'
<1>1. DOMAIN nodes' = 1..Len(nodes) /\ DOMAIN nodes = 1..Len(nodes)
  BY Holders, HoldersThen
<1>2. \A k \in 1..Len(nodes) : nodes[k].refcount = Held(k)
  BY <1>1 DEF RefCounts
<1>3. \A k \in 1..Len(nodes) : nodes'[k].refcount = Held(k)'
  BY <1>2, ListShift
<1> QED
  BY <1>1, <1>3 DEF RefCounts

LEMMA Untouched ==
  ASSUME EntryInv, EntryInv', RefCounts, nodes' = nodes,
         \A x \in Lists : el'[x].entries = el[x].entries /\ el'[x].path = el[x].path,
         loader'.save = loader.save, Flight' = Flight
  PROVE RefCounts'
<1>1. \A k \in 1..Len(nodes) : nodes[k].refcount \in Int
  BY Records DEF EntryInv, TypeOK, Record
<1>2. \A k, p : Is(p, k) \in Nat
  BY DEF Is
<1> QED
  BY <1>1, <1>2, LoaderCounts

LEMMA DelCounts ==
  ASSUME EntryInv, NEW S, NEW d \in Seq(S), Del(d)
  PROVE /\ Len(nodes') = Len(nodes)
        /\ \A k \in 1..Len(nodes) :
             /\ nodes'[k].refcount = nodes[k].refcount - Times(d, k)
             /\ nodes[k].refcount \in Int /\ Times(d, k) \in Nat
<1>1. TableOK
  BY DEF EntryInv, TypeOK
<1>2. DOMAIN nodes = 1..Len(nodes) /\ \A k \in DOMAIN nodes : nodes[k] \in Record
  BY <1>1, Records
<1>3. Len(nodes') = Len(nodes)
  BY <1>1, DelTable
<1>4. nodes' = [k \in DOMAIN nodes |-> [nodes[k] EXCEPT !.refcount = @ - Times(d, k)]]
  BY DEF Del
<1> QED
  BY <1>2, <1>3, <1>4, PlacesFinite DEF Record

LEMMA FlightKept ==
  ASSUME EntryInv, \A x \in Lists : el'[x].path = el[x].path,
         thd'.pc = "insert" <=> thd.pc = "insert", thd.pc = "insert" => loader'.el = loader.el
  PROVE Flight' = Flight
<1>1. thd.pc = "insert" => loader.el \in Lists
  BY DEF EntryInv, TypeOK, ThreadsOK, Handshake
<1> QED
  BY <1>1 DEF Flight

\* Steps that change no reference.
LEMMA QuietThread ==
  ASSUME RefInv, EntryInv',
         Begin \/ Sleep \/ Wake \/ Quit \/ LastRead \/ LoadTimeout \/ Ask \/ LoadReturns \/ Shutdown
  PROVE RefCounts'
<1>1. EntryInv /\ RefCounts /\ ThreadsOK /\ Handshake
  BY DEF RefInv, EntryInv, TypeOK
<1>2. nodes' = nodes /\ el' = el
  BY DEF Begin, Sleep, Wake, Quit, LastRead, LoadTimeout, Ask, LoadReturns, Shutdown, table
<1>3. loader'.save = loader.save
  BY <1>1 DEF ThreadsOK, Begin, Sleep, Wake, Quit, LastRead, LoadTimeout, Ask, LoadReturns, Shutdown
<1>4. thd'.pc = "insert" <=> thd.pc = "insert"
  BY <1>1 DEF ThreadsOK, Begin, Sleep, Wake, Quit, LastRead, LoadTimeout, Ask, LoadReturns, Shutdown
<1>5. thd.pc = "insert" => loader'.el = loader.el
  BY <1>1 DEF ThreadsOK, Handshake, Begin, Sleep, Wake, Quit, LastRead, LoadTimeout, Ask, LoadReturns, Shutdown
<1>6. Flight' = Flight
  BY <1>1, <1>2, <1>4, <1>5, FlightKept
<1> QED
  BY <1>1, <1>2, <1>3, <1>6, Untouched

LEMMA QuietScript ==
  ASSUME RefInv, EntryInv', NEW e \in Lists,
         \/ New(e) \/ Lock(e) \/ Unlock(e) \/ ReadLoading(e)
         \/ \E name \in Paths : Load(e, name)
  PROVE RefCounts'
<1>1. EntryInv /\ RefCounts /\ ListsOK
  BY DEF RefInv, EntryInv, TypeOK
<1>2. nodes' = nodes /\ loader' = loader /\ thd' = thd
  BY DEF New, Lock, Unlock, ReadLoading, Load, table
<1>3. \A x \in Lists : el'[x].entries = el[x].entries /\ el'[x].path = el[x].path
  <2>1. CASE New(e)
    <3>1. el[e] = NoList /\ el' = [el EXCEPT ![e] = [NoList EXCEPT !.exists = TRUE]]
      BY <1>1, <2>1 DEF ListsOK, New
    <3> QED
      BY <1>1, <3>1, Holders DEF NoList
  <2>2. CASE ReadLoading(e)
    BY <1>1, <2>2, Holders DEF ReadLoading, List
  <2> QED
    BY <2>1, <2>2 DEF Lock, Unlock, Load
<1>4. Flight' = Flight
  BY <1>1, <1>2, <1>3, FlightKept
<1> QED
  BY <1>1, <1>2, <1>3, <1>4, Untouched

LEMMA FinishCounts ==
  ASSUME RefInv, EntryInv', Finish
  PROVE RefCounts'
<1>1. EntryInv /\ RefCounts
  BY DEF RefInv
<1>2. nodes' = nodes /\ loader' = loader /\ thd'.pc = "done" /\ thd.pc = "finish"
  BY DEF Finish, table
<1>3. \A x \in Lists : el'[x].entries = el[x].entries /\ el'[x].path = el[x].path
  BY <1>1, Holders DEF Finish, List
<1>4. Flight' = Flight
  BY <1>1, <1>2, <1>3, FlightKept
<1> QED
  BY <1>1, <1>2, <1>3, <1>4, Untouched

\* Steps of a script that drop the references of a list.
LEMMA DestroyCounts ==
  ASSUME RefInv, EntryInv', NEW e \in Lists, Destroy(e)
  PROVE RefCounts'
<1> DEFINE d == Row(el, e)
<1>1. EntryInv /\ RefCounts /\ Handshake /\ ThreadsOK
  BY DEF RefInv, EntryInv, TypeOK
<1>2. d \in Seq(0..Len(nodes)) /\ \A k : Times(d, k) = ByList(el, e, k)
  BY <1>1, Holders, Rows
<1>3. Del(d) /\ loader' = loader /\ thd' = thd
  BY DEF Destroy, Row
<1>4. el'[e] = NoList /\ \A x \in Lists : x # e => el'[x] = el[x]
  BY <1>1, Holders DEF Destroy
<1>5. Flight' = Flight
  <2>1. thd.pc = "insert" => loader.el \in Lists /\ loader.el # e
    BY <1>1 DEF Handshake, ThreadsOK, Destroy
  <2> QED
    BY <1>3, <1>4, <2>1 DEF Flight
<1>6. \A k \in 1..Len(nodes) : ByList(el', e, k) = 0
  BY <1>4, TimesNone DEF ByList, NoList, Is
<1> HIDE DEF d
<1>7. Len(nodes') = Len(nodes)
  BY <1>1, <1>2, <1>3, DelCounts
<1>8. ASSUME NEW k \in 1..Len(nodes)
      PROVE nodes'[k].refcount = nodes[k].refcount
              + ByList(el', e, k) + Is(loader'.save, k) + Is(Flight', k)
              - ByList(el, e, k) - Is(loader.save, k) - Is(Flight, k)
  <2>1. /\ nodes'[k].refcount = nodes[k].refcount - ByList(el, e, k)
        /\ nodes[k].refcount \in Int /\ ByList(el, e, k) \in Nat
    BY <1>1, <1>2, <1>3, DelCounts
  <2>2. Is(loader.save, k) \in Nat /\ Is(Flight, k) \in Nat
    BY DEF Is
  <2> QED
    BY <1>3, <1>5, <1>6, <2>1, <2>2
<1> QED
  BY <1>1, <1>4, <1>7, <1>8, ListCounts

\* A list's entries go and its path stays, as for Clear and Empty.
LEMMA CutCounts ==
  ASSUME RefInv, EntryInv', NEW e \in Lists, Del(el[e].entries), loader' = loader,
         el' = [el EXCEPT ![e].entries = <<>>],
         thd'.pc = "insert" <=> thd.pc = "insert"
  PROVE RefCounts'
<1> DEFINE d == el[e].entries
<1>1. EntryInv /\ RefCounts
  BY DEF RefInv
<1>2. d \in Seq(0..Len(nodes))
  BY <1>1, Holders, Rows
<1>3. /\ el'[e].entries = <<>> /\ el'[e].path = el[e].path
      /\ \A x \in Lists : x # e => el'[x] = el[x]
  BY <1>1, Holders DEF List
<1>4. Flight' = Flight
  BY <1>1, <1>3, FlightKept
<1> HIDE DEF d
<1>5. Len(nodes') = Len(nodes)
  BY <1>1, <1>2, DelCounts DEF d
<1>6. ASSUME NEW k \in 1..Len(nodes)
      PROVE nodes'[k].refcount = nodes[k].refcount
              + ByList(el', e, k) + Is(loader'.save, k) + Is(Flight', k)
              - ByList(el, e, k) - Is(loader.save, k) - Is(Flight, k)
  <2>1. /\ nodes'[k].refcount = nodes[k].refcount - Times(d, k)
        /\ nodes[k].refcount \in Int /\ Times(d, k) \in Nat
    BY <1>1, <1>2, DelCounts DEF d
  <2>2. Is(loader.save, k) \in Nat /\ Is(Flight, k) \in Nat /\ Is(el[e].path, k) \in Nat
    BY DEF Is
  <2>3. ByList(el, e, k) = Times(d, k) + Is(el[e].path, k)
    BY DEF ByList, d
  <2>4. ByList(el', e, k) = Is(el[e].path, k)
    <3>1. Times(<<>>, k) = 0
      BY TimesNone
    <3> QED
      BY <1>3, <2>2, <3>1 DEF ByList
  <2> QED
    BY <1>4, <2>1, <2>2, <2>3, <2>4, SMTT(30)
<1> QED
  BY <1>1, <1>3, <1>5, <1>6, ListCounts

LEMMA ClearCounts ==
  ASSUME RefInv, EntryInv', NEW e \in Lists, Clear(e)
  PROVE RefCounts'
  BY CutCounts DEF Clear

LEMMA EmptyCounts ==
  ASSUME RefInv, EntryInv', Empty
  PROVE RefCounts'
<1>1. EntryInv /\ ThreadsOK /\ Working
  BY DEF RefInv, EntryInv, TypeOK
<1>2. loader.el \in Lists /\ thd.pc = "top" /\ thd'.pc = "dots" /\ loader' = loader
  BY <1>1 DEF ThreadsOK, Working, Empty
<1>3. Del(el[loader.el].entries) /\ el' = [el EXCEPT ![loader.el].entries = <<>>]
  BY DEF Empty
<1> QED
  BY <1>2, <1>3, CutCounts

\* Not a directory: the path that was read goes and the one that was kept is put back.
LEMMA NotDirCounts ==
  ASSUME RefInv, EntryInv', NotDir
  PROVE RefCounts'
<1> DEFINE e == loader.el
           p == el[e].path
           d == <<p>>
<1>1. EntryInv /\ RefCounts /\ ThreadsOK /\ Working
  BY DEF RefInv, EntryInv, TypeOK
<1>2. e \in Lists /\ thd.pc = "top" /\ thd'.pc = "finish" /\ loader'.save = 0
  BY <1>1 DEF ThreadsOK, Working, NotDir
<1>3. d \in Seq(0..Len(nodes)) /\ el[e].entries \in Seq(0..Len(nodes)) /\ Del(d)
  <2>1. p \in 0..Len(nodes) /\ el[e].entries \in Seq(0..Len(nodes))
    BY <1>1, <1>2, Holders, Rows
  <2> QED
    BY <2>1 DEF NotDir
<1>4. /\ el'[e].entries = el[e].entries /\ el'[e].path = loader.save
      /\ \A x \in Lists : x # e => el'[x] = el[x]
  BY <1>1, <1>2, Holders DEF List, NotDir
<1>5. Flight' = 0 /\ Flight = 0
  BY <1>2 DEF Flight
<1>6. Len(nodes') = Len(nodes)
  BY <1>1, <1>3, DelCounts
<1> HIDE DEF e
<1>7. ASSUME NEW k \in 1..Len(nodes)
      PROVE nodes'[k].refcount = nodes[k].refcount
              + ByList(el', e, k) + Is(loader'.save, k) + Is(Flight', k)
              - ByList(el, e, k) - Is(loader.save, k) - Is(Flight, k)
  <2>1. nodes'[k].refcount = nodes[k].refcount - Times(d, k) /\ nodes[k].refcount \in Int
    BY <1>1, <1>3, DelCounts
  <2>2. Times(d, k) = Is(p, k)
    BY TimesOne
  <2>3. Is(loader.save, k) \in Nat /\ Is(p, k) \in Nat /\ Is(0, k) = 0
    BY DEF Is
  <2>4. ByList(el, e, k) = Times(el[e].entries, k) + Is(p, k)
    BY DEF ByList
  <2>5. ByList(el', e, k) = Times(el[e].entries, k) + Is(loader.save, k)
    BY <1>4 DEF ByList
  <2>6. Times(el[e].entries, k) \in Nat
    BY <1>3, PlacesFinite
  <2> HIDE DEF d, p
  <2> QED
    BY <1>2, <1>5, <2>1, <2>2, <2>3, <2>4, <2>5, <2>6
<1> QED
  BY <1>1, <1>2, <1>4, <1>6, <1>7, ListCounts

\* The loader's own references.
LEMMA ReleaseCounts ==
  ASSUME RefInv, EntryInv', Release
  PROVE RefCounts'
<1> DEFINE d == <<loader.save>>
<1>1. EntryInv /\ RefCounts /\ ThreadsOK
  BY DEF RefInv, EntryInv, TypeOK
<1>2. el' = el /\ thd.pc = "done" /\ thd'.pc = "top" /\ loader'.save = 0 /\ Del(d)
  BY <1>1 DEF ThreadsOK, Release
<1>3. d \in Seq(0..Len(nodes))
  BY <1>1, Holders
<1>4. Flight' = 0 /\ Flight = 0
  BY <1>2 DEF Flight
<1>5. Len(nodes') = Len(nodes)
  BY <1>1, <1>2, <1>3, DelCounts
<1>6. ASSUME NEW k \in 1..Len(nodes)
      PROVE nodes'[k].refcount = nodes[k].refcount + Is(loader'.save, k) + Is(Flight', k)
                                   - Is(loader.save, k) - Is(Flight, k)
  <2>1. nodes'[k].refcount = nodes[k].refcount - Times(d, k) /\ nodes[k].refcount \in Int
    BY <1>1, <1>2, <1>3, DelCounts
  <2>2. Times(d, k) = Is(loader.save, k)
    BY TimesOne
  <2>3. Is(loader.save, k) \in Nat /\ Is(0, k) = 0
    BY DEF Is
  <2> HIDE DEF d
  <2> QED
    BY <1>2, <1>4, <2>1, <2>2, <2>3
<1> QED
  BY <1>1, <1>2, <1>5, <1>6, LoaderCounts

\* A count that rises.
LEMMA MoreCounts ==
  ASSUME EntryInv, NEW k, NEW n \in Nat, nodes' = [nodes EXCEPT ![k].refcount = @ + n]
  PROVE /\ Len(nodes') = Len(nodes)
        /\ \A j \in 1..Len(nodes) :
             /\ nodes[j].refcount \in Int
             /\ nodes'[j].refcount = nodes[j].refcount + IF k = j THEN n ELSE 0
<1>1. /\ Len(nodes) \in Nat /\ DOMAIN nodes = 1..Len(nodes) /\ nodes \in Seq(Record)
      /\ \A j \in DOMAIN nodes : nodes[j] \in Record
  BY Records DEF EntryInv, TypeOK
<1>2. DOMAIN nodes' = 1..Len(nodes)
  BY <1>1
<1>3. Len(nodes') = Len(nodes)
  BY <1>1
<1>4. ASSUME NEW j \in 1..Len(nodes)
      PROVE nodes[j].refcount \in Int /\ nodes'[j].refcount = nodes[j].refcount + IF k = j THEN n ELSE 0
  BY <1>1 DEF Record
<1> QED
  BY <1>3, <1>4

LEMMA ReferCounts ==
  ASSUME RefInv, EntryInv', Refer
  PROVE RefCounts'
<1> DEFINE p == el[loader.el].path
<1>1. EntryInv /\ RefCounts /\ ThreadsOK
  BY DEF RefInv, EntryInv, TypeOK
<1>2. el' = el /\ thd.pc = "fill" /\ thd'.pc = "insert" /\ loader' = loader
  BY <1>1 DEF ThreadsOK, Refer
<1>3. Flight' = p /\ Flight = 0
  BY <1>2 DEF Flight
<1>4. nodes' = [nodes EXCEPT ![p].refcount = @ + 1]
  BY DEF Refer, AddRef
<1> HIDE DEF p
<1>5. /\ Len(nodes') = Len(nodes)
      /\ \A k \in 1..Len(nodes) :
           /\ nodes[k].refcount \in Int
           /\ nodes'[k].refcount = nodes[k].refcount + IF p = k THEN 1 ELSE 0
  BY <1>1, <1>4, MoreCounts, ZenonT(30)
<1>6. ASSUME NEW k \in 1..Len(nodes)
      PROVE nodes'[k].refcount = nodes[k].refcount + Is(loader'.save, k) + Is(Flight', k)
                                   - Is(loader.save, k) - Is(Flight, k)
  <2>1. nodes[k].refcount \in Int /\ nodes'[k].refcount = nodes[k].refcount + IF p = k THEN 1 ELSE 0
    BY <1>5
  <2>2. Is(loader.save, k) \in Nat /\ Is(0, k) = 0 /\ Is(p, k) = IF p = k THEN 1 ELSE 0
    BY DEF Is
  <2> QED
    BY <1>2, <1>3, <2>1, <2>2
<1> QED
  BY <1>1, <1>2, <1>5, <1>6, LoaderCounts

\* ".." and "." of the directory.
LEMMA DotsCounts ==
  ASSUME RefInv, EntryInv', Dots
  PROVE RefCounts'
<1> DEFINE e == loader.el
           p == el[e].path
           s == el[e].entries
           T == 0..Len(nodes)
<1>1. EntryInv /\ RefCounts /\ ThreadsOK /\ Handshake
  BY DEF RefInv, EntryInv, TypeOK
<1>2. e \in Lists /\ thd.pc = "dots" /\ thd'.pc = "fill" /\ loader' = loader
  BY <1>1 DEF ThreadsOK, Handshake, Dots
<1>3. PICK n \in 0..MaxDots :
        /\ nodes' = [nodes EXCEPT ![p].refcount = @ + n]
        /\ el' = [el EXCEPT ![e].entries = s \o [i \in 1..n |-> p]]
  BY <1>1, <1>2, Holders DEF Dots
<1>4. n \in Nat
  BY DEF EntryListAssumption
<1>5. p \in T /\ s \in Seq(T)
  BY <1>1, <1>2, Holders, Rows
<1>6. PICK t \in Seq(T) : t = [i \in 1..n |-> p]
  <2> HIDE DEF p, T
  <2>1. [i \in 1..n |-> p] \in [1..n -> T]
    BY <1>5
  <2>2. [i \in 1..n |-> p] \in Seq(T)
    BY <1>4, <2>1
  <2> QED
    BY <2>2
<1>7. Len(t) = n /\ \A i \in DOMAIN t : t[i] = p
  BY <1>4, <1>6
<1>8. /\ el'[e].entries = s \o t /\ el'[e].path = p
      /\ \A x \in Lists : x # e => el'[x] = el[x]
  BY <1>1, <1>2, <1>3, <1>6, Holders DEF List
<1>9. Flight' = 0 /\ Flight = 0
  BY <1>2 DEF Flight
<1> HIDE DEF e, p, s, T
<1>10. /\ Len(nodes') = Len(nodes)
       /\ \A k \in 1..Len(nodes) :
            /\ nodes[k].refcount \in Int
            /\ nodes'[k].refcount = nodes[k].refcount + IF p = k THEN n ELSE 0
  BY <1>1, <1>3, <1>4, MoreCounts
<1>11. ASSUME NEW k \in 1..Len(nodes)
      PROVE nodes'[k].refcount = nodes[k].refcount
              + ByList(el', e, k) + Is(loader'.save, k) + Is(Flight', k)
              - ByList(el, e, k) - Is(loader.save, k) - Is(Flight, k)
  <2>1. ByList(el, e, k) = Times(s, k) + Is(p, k)
    BY DEF ByList, s, p
  <2>2. Times(el'[e].entries, k) = Times(s, k) + (IF p = k THEN n ELSE 0)
    BY <1>4, <1>5, <1>7, <1>8, TimesMany
  <2>3. ByList(el', e, k) = Times(s, k) + (IF p = k THEN n ELSE 0) + Is(p, k)
    BY <1>8, <2>2 DEF ByList
  <2>4. Times(s, k) \in Nat
    BY <1>5, PlacesFinite
  <2>5. Is(loader.save, k) \in Nat /\ Is(0, k) = 0 /\ Is(p, k) \in Nat
    BY DEF Is
  <2> QED
    BY <1>2, <1>4, <1>9, <1>10, <2>1, <2>3, <2>4, <2>5, SMTT(30)
<1> QED
  BY <1>1, <1>2, <1>8, <1>10, <1>11, ListCounts

\* The reference in flight becomes the entry's, or is given back.
LEMMA InsertCounts ==
  ASSUME RefInv, EntryInv', Insert
  PROVE RefCounts'
<1> DEFINE e == loader.el
           p == el[e].path
           s == el[e].entries
           d == <<p>>
<1>1. EntryInv /\ RefCounts /\ ThreadsOK /\ Handshake
  BY DEF RefInv, EntryInv, TypeOK
<1>2. e \in Lists /\ thd.pc = "insert" /\ loader' = loader
  BY <1>1 DEF ThreadsOK, Handshake, Insert
<1>3. p \in 0..Len(nodes) /\ s \in Seq(0..Len(nodes)) /\ d \in Seq(0..Len(nodes))
  <2>1. p \in 0..Len(nodes) /\ s \in Seq(0..Len(nodes))
    BY <1>1, <1>2, Holders, Rows
  <2> QED
    BY <2>1
<1>4. Flight = p
  BY <1>2 DEF Flight
<1>5. CASE Del(d) /\ thd' = [thd EXCEPT !.pc = "finish"] /\ UNCHANGED el
  <2>1. Flight' = 0
    BY <1>1, <1>5 DEF Flight, ThreadsOK
  <2> HIDE DEF d
  <2>2. /\ Len(nodes') = Len(nodes)
        /\ \A k \in 1..Len(nodes) :
             nodes'[k].refcount = nodes[k].refcount - Times(d, k) /\ nodes[k].refcount \in Int
    BY <1>1, <1>3, <1>5, DelCounts
  <2>3. \A k : Times(d, k) = Is(p, k)
    BY TimesOne DEF d
  <2>4. ASSUME NEW k \in 1..Len(nodes)
        PROVE nodes'[k].refcount = nodes[k].refcount + Is(loader'.save, k) + Is(Flight', k)
                                     - Is(loader.save, k) - Is(Flight, k)
    <3>1. Is(loader.save, k) \in Nat /\ Is(0, k) = 0 /\ Is(p, k) \in Nat
      BY DEF Is
    <3> HIDE DEF e, p
    <3> QED
      BY <1>2, <1>4, <2>1, <2>2, <2>3, <3>1
  <2> QED
    BY <1>1, <1>5, <2>2, <2>4, LoaderCounts
<1>6. CASE /\ el' = [el EXCEPT ![e].entries = Append(s, p)]
           /\ thd' = [thd EXCEPT !.pc = "fill"] /\ UNCHANGED table
  <2>1. Flight' = 0
    BY <1>1, <1>6 DEF Flight, ThreadsOK
  <2>2. /\ el'[e].entries = Append(s, p) /\ el'[e].path = p
        /\ \A x \in Lists : x # e => el'[x] = el[x]
    BY <1>1, <1>2, <1>6, Holders DEF List
  <2>3. \A k \in 1..Len(nodes) : nodes[k].refcount \in Int
    BY <1>1, Records DEF EntryInv, TypeOK, Record
  <2> HIDE DEF e, p, s
  <2>4. ASSUME NEW k \in 1..Len(nodes)
        PROVE nodes'[k].refcount = nodes[k].refcount
                + ByList(el', e, k) + Is(loader'.save, k) + Is(Flight', k)
                - ByList(el, e, k) - Is(loader.save, k) - Is(Flight, k)
    <3>1. ByList(el, e, k) = Times(s, k) + Is(p, k)
      BY DEF ByList, s, p
    <3>2. Times(el'[e].entries, k) = Times(s, k) + Is(p, k)
      BY <1>3, <2>2, TimesMore
    <3>3. ByList(el', e, k) = Times(s, k) + Is(p, k) + Is(p, k)
      BY <2>2, <3>2 DEF ByList
    <3>4. Times(s, k) \in Nat
      BY <1>3, PlacesFinite
    <3>5. Is(loader.save, k) \in Nat /\ Is(0, k) = 0 /\ Is(p, k) \in Nat
      BY DEF Is
    <3>6. nodes' = nodes
      BY <1>6 DEF table
    <3> QED
      BY <1>2, <1>4, <2>1, <2>3, <3>1, <3>3, <3>4, <3>5, <3>6
  <2>5. Len(nodes') = Len(nodes)
    BY <1>6 DEF table
  <2> QED
    BY <1>1, <1>2, <2>2, <2>4, <2>5, ListCounts
<1>7. \/ Del(d) /\ thd' = [thd EXCEPT !.pc = "finish"] /\ UNCHANGED el
      \/ /\ el' = [el EXCEPT ![e].entries = Append(s, p)]
         /\ thd' = [thd EXCEPT !.pc = "fill"] /\ UNCHANGED table
  BY <1>1, <1>2, Holders DEF Insert
<1> QED
  BY <1>5, <1>6, <1>7

\* No list and no loader refers to a record that is not in the table.
LEMMA NotHeld ==
  ASSUME EntryInv
  PROVE Held(Len(nodes) + 1) = 0
<1> DEFINE k == Len(nodes) + 1
<1>1. \A x \in Lists : Places(Row(el, x), k) = {}
  <2>1. ASSUME NEW x \in Lists PROVE Places(Row(el, x), k) = {}
    <3>1. Row(el, x) \in Seq(0..Len(nodes)) /\ Len(nodes) \in Nat
      BY Holders, Rows
    <3>2. \A i \in DOMAIN Row(el, x) : Row(el, x)[i] \in 0..Len(nodes)
      BY <3>1, Elements
    <3> QED
      BY <3>1, <3>2 DEF Places
  <2> QED
    BY <2>1
<1>2. ByLists(el, k) = 0
  <2>1. UNION {{x} \X Places(Row(el, x), k) : x \in Lists} = {}
    BY <1>1
  <2> QED
    BY <2>1, FS_EmptySet DEF ByLists
<1>3. Is(loader.save, k) = 0 /\ Is(Flight, k) = 0
  BY Holders DEF Is
<1> HIDE DEF k
<1>4. Held(k) = 0
  BY <1>2, <1>3, HeldOf
<1> QED
  BY <1>4 DEF k

\* A request is taken: the list has the new path and the loader keeps the old one.
LEMMA TakenCounts ==
  ASSUME RefInv, EntryInv', NEW k \in Nat \ {0}, loader.status = "STARTING", thd.pc = "top",
         Add(loader.path, k), Taken(loader.el, k), thd' = thd
  PROVE RefCounts'
<1> DEFINE e == loader.el
           p == el[e].path
           n == Len(nodes)
<1>1. EntryInv /\ RefCounts /\ ThreadsOK /\ TableOK /\ Handshake /\ Asking
  BY DEF RefInv, EntryInv, TypeOK
<1>2. e \in Lists /\ loader.save = 0
  BY <1>1 DEF ThreadsOK, Handshake, Asking, RefInv, Saving
<1>3. /\ el'[e].entries = el[e].entries /\ el'[e].path = k
      /\ \A x \in Lists : x # e => el'[x] = el[x]
  BY <1>1, <1>2, Holders DEF List, Taken
<1>4. loader'.save = p
  BY <1>1 DEF ThreadsOK, Taken
<1>5. Flight' = 0 /\ Flight = 0
  BY DEF Flight
<1>6. \A q, j : Is(q, j) \in Nat /\ (j # 0 => Is(0, j) = 0)
  BY DEF Is
<1>7. \A j : Times(el[e].entries, j) \in Nat
  BY <1>1, <1>2, Holders, Rows
<1> HIDE DEF e, p
<1>8. ASSUME NEW j \in Nat \ {0}, NEW c \in Int, c = Held(j)
      PROVE c + Is(k, j) = Held(j)'
  <2>1. ByList(el, e, j) = Times(el[e].entries, j) + Is(p, j)
    BY DEF ByList, p
  <2>2. ByList(el', e, j) = Times(el[e].entries, j) + Is(k, j)
    BY <1>3 DEF ByList
  <2>3. Is(loader'.save, j) = Is(p, j) /\ Is(loader.save, j) = 0 /\ Is(Flight', j) = 0 /\ Is(Flight, j) = 0
    BY <1>2, <1>4, <1>5, <1>6
  <2>4. c + Is(k, j) = c + ByList(el', e, j) + Is(loader'.save, j) + Is(Flight', j)
                         - ByList(el, e, j) - Is(loader.save, j) - Is(Flight, j)
    BY <1>6, <1>7, <1>8, <2>1, <2>2, <2>3
  <2> QED
    BY <1>1, <1>2, <1>3, <1>8, <2>4, ListShift
<1>9. /\ n \in Nat /\ DOMAIN nodes = 1..n /\ nodes \in Seq(Record)
      /\ \A j \in 1..n : nodes[j].refcount \in Int /\ nodes[j].refcount = Held(j)
  BY <1>1, Records DEF Record, RefCounts
<1>10. CASE k \in DOMAIN nodes /\ AddRef(k)
  <2>1. nodes' = [nodes EXCEPT ![k].refcount = @ + 1]
    BY <1>10 DEF AddRef
  <2>2. /\ Len(nodes') = Len(nodes)
        /\ \A j \in 1..Len(nodes) :
             /\ nodes[j].refcount \in Int
             /\ nodes'[j].refcount = nodes[j].refcount + IF k = j THEN 1 ELSE 0
    <3> HIDE DEF n
    <3> QED
      BY <1>1, <2>1, MoreCounts, ZenonT(30)
  <2>3. DOMAIN nodes' = 1..n
    BY <2>2, HoldersThen
  <2>4. ASSUME NEW j \in 1..n PROVE nodes'[j].refcount = Held(j)'
    <3>1. nodes'[j].refcount = nodes[j].refcount + Is(k, j)
      BY <2>2 DEF Is
    <3>2. nodes[j].refcount \in Int /\ nodes[j].refcount = Held(j) /\ j \in Nat \ {0}
      BY <1>9
    <3> QED
      BY <1>8, <3>1, <3>2
  <2> QED
    BY <2>3, <2>4 DEF RefCounts
<1>11. CASE /\ k = n + 1
            /\ nodes' = Append(nodes, [name |-> loader.path, next |-> pathes, refcount |-> 1])
  <2>1. /\ DOMAIN nodes' = 1..(n + 1) /\ nodes'[n + 1].refcount = 1
        /\ \A j \in 1..n : nodes'[j] = nodes[j]
    BY <1>9, <1>11
  <2>2. ASSUME NEW j \in 1..n PROVE nodes'[j].refcount = Held(j)'
    <3>1. nodes'[j].refcount = nodes[j].refcount + Is(k, j)
      BY <1>9, <1>11, <2>1 DEF Is
    <3>2. nodes[j].refcount \in Int /\ nodes[j].refcount = Held(j) /\ j \in Nat \ {0}
      BY <1>9
    <3> QED
      BY <1>8, <3>1, <3>2
  <2>3. nodes'[k].refcount = Held(k)'
    <3>1. 0 = Held(k) /\ k \in Nat \ {0}
      BY <1>1, <1>11, NotHeld
    <3>2. 0 + Is(k, k) = Held(k)'
      BY <1>8, <3>1
    <3> QED
      BY <1>11, <2>1, <3>2 DEF Is
  <2>4. \A j \in 1..(n + 1) : j = k \/ j \in 1..n
    BY <1>9, <1>11
  <2> QED
    BY <2>1, <2>2, <2>3, <2>4 DEF RefCounts
<1> QED
  BY <1>10, <1>11 DEF Add

LEMMA StartCounts ==
  ASSUME RefInv, EntryInv', Start
  PROVE RefCounts'
<1>1. EntryInv /\ RefCounts /\ ThreadsOK /\ Handshake
  BY DEF RefInv, EntryInv, TypeOK
<1>2. loader.status = "STARTING" /\ thd.pc = "top" /\ thd' = thd
  BY DEF Start
<1>3. PICK k \in 0..Len(nodes) + 1 :
        Add(loader.path, k) /\ IF k # 0 THEN Taken(loader.el, k) ELSE Refused(loader.el)
  BY DEF Start
<1>4. Len(nodes) \in Nat
  BY <1>1, Holders
<1>5. CASE k # 0
  BY <1>2, <1>3, <1>4, <1>5, TakenCounts
<1>6. CASE k = 0
  <2>1. nodes' = nodes
    BY <1>1, <1>3, <1>4, <1>6, Holders DEF Add, table
  <2>2. loader'.save = loader.save
    BY <1>1, <1>3, <1>6 DEF Refused, ThreadsOK
  <2>3. \A x \in Lists : el'[x].entries = el[x].entries /\ el'[x].path = el[x].path
    BY <1>1, <1>3, <1>6, Holders DEF Refused, List
  <2>4. Flight' = 0 /\ Flight = 0
    BY <1>2 DEF Flight
  <2> QED
    BY <1>1, <2>1, <2>2, <2>3, <2>4, Untouched
<1> QED
  BY <1>5, <1>6

LEMMA SavingKept ==
  ASSUME RefInv, [Next]_vars
  PROVE Saving'
<1>1. Saving /\ ThreadsOK /\ ListsOK /\ Handshake /\ Working
  BY DEF RefInv, EntryInv, TypeOK
<1>2. CASE ScriptStep
  <2>1. CASE Shutdown
    <3>1. \A e \in Lists : el[e].loading = 0
      BY <1>1, <2>1 DEF Shutdown, ListsOK, NoList
    <3>2. loader.save # 0 => thd.pc = "done"
      BY <1>1, <3>1 DEF Saving, Working, ThreadsOK
    <3> QED
      BY <1>1, <2>1, <3>2 DEF Saving, Shutdown, ThreadsOK
  <2>2. CASE Ask
    BY <1>1, <2>2 DEF Saving, Ask, ThreadsOK
  <2>3. CASE Restart
    BY <2>3 DEF Saving, Restart
  <2> QED
    BY <1>1, <1>2, <2>1, <2>2, <2>3
       DEF ScriptStep, Saving, New, Destroy, Lock, Unlock, Clear, ReadLoading, Load, LoadTimeout, LoadReturns
<1>3. CASE LoaderStep
  <2>1. CASE Start
    <3>1. loader.save = 0
      BY <1>1, <2>1 DEF Saving, Start
    <3> QED
      BY <1>1, <2>1, <3>1 DEF Saving, Start, Taken, Refused, ThreadsOK
  <2>2. CASE Begin \/ Sleep \/ Wake \/ Quit
    BY <1>1, <2>2 DEF Saving, Begin, Sleep, Wake, Quit, ThreadsOK
  <2>3. CASE NotDir \/ Release
    BY <1>1, <2>3 DEF Saving, NotDir, Release, ThreadsOK
  <2>4. CASE Empty \/ Dots \/ Refer \/ Insert \/ LastRead \/ Finish
    BY <1>1, <2>4 DEF Saving, Handshake, ThreadsOK, Empty, Dots, Refer, Insert, LastRead, Finish
  <2> QED
    BY <1>3, <2>1, <2>2, <2>3, <2>4 DEF LoaderStep
<1>4. CASE UNCHANGED vars
  BY <1>1, <1>4 DEF Saving, vars
<1> QED
  BY <1>2, <1>3, <1>4 DEF Next

LEMMA CountsKept ==
  ASSUME RefInv, EntryInv', [Next]_vars
  PROVE RefCounts'
<1>1. CASE ScriptStep
  <2>1. ASSUME NEW e \in Lists, New(e) \/ Destroy(e) \/ Lock(e) \/ Unlock(e) \/ Clear(e) \/ ReadLoading(e)
        PROVE RefCounts'
    BY <2>1, QuietScript, DestroyCounts, ClearCounts
  <2>2. ASSUME NEW e \in Lists, NEW name \in Paths, Load(e, name)
        PROVE RefCounts'
    BY <2>2, QuietScript
  <2>3. CASE LoadTimeout \/ Ask \/ LoadReturns \/ Shutdown
    BY <2>3, QuietThread
  <2>4. CASE Restart
    BY <2>4 DEF Restart, RefCounts
  <2> QED
    BY <1>1, <2>1, <2>2, <2>3, <2>4 DEF ScriptStep
<1>2. CASE LoaderStep
  <2>1. CASE Begin \/ Sleep \/ Wake \/ Quit \/ LastRead
    BY <2>1, QuietThread
  <2>2. CASE Start \/ NotDir \/ Empty \/ Dots \/ Refer \/ Insert \/ Finish \/ Release
    BY <2>2, StartCounts, NotDirCounts, EmptyCounts, DotsCounts, ReferCounts, InsertCounts, FinishCounts, ReleaseCounts
  <2> QED
    BY <1>2, <2>1, <2>2 DEF LoaderStep
<1>3. CASE UNCHANGED vars
  <2>1. nodes' = nodes /\ el' = el /\ loader' = loader /\ thd' = thd
    BY <1>3 DEF vars, table
  <2> QED
    BY <2>1, Untouched DEF RefInv, Flight
<1> QED
  BY <1>1, <1>2, <1>3 DEF Next

-----------------------------------------------------------------------------
\* The specification.

LEMMA InitInv == Init => EntryInv
<1> SUFFICES ASSUME Init PROVE EntryInv
  OBVIOUS
<1>1. nodes = <<>> /\ Len(nodes) = 0 /\ DOMAIN nodes = {} /\ pathes = 0
  BY DEF Init
<1>2. TableOK
  BY <1>1 DEF TableOK, EntryListAssumption
<1>3. ListsOK
  <2>1. NoList \in List(0)
    BY DEF List, NoList
  <2>2. el \in [Lists -> List(Len(nodes))] /\ locked = {} /\ \A e \in Lists : el[e] = NoList
    BY <1>1, <2>1 DEF Init
  <2> QED
    BY <2>2 DEF ListsOK, List
<1>4. ThreadsOK
  BY <1>1 DEF Init, ThreadsOK, EntryListAssumption
<1>5. \A e \in Lists : el[e].loading = 0 /\ el[e].entries = <<>>
  BY DEF Init, NoList
<1>6. Handshake /\ OnePath
  BY <1>5 DEF Init, Handshake, OnePath
<1>7. Working /\ Resting /\ Asking
  BY <1>5 DEF Init, Working, Resting, Asking, EntryListAssumption
<1> QED
  BY <1>2, <1>3, <1>4, <1>6, <1>7 DEF EntryInv, TypeOK

LEMMA StutterInv ==
  ASSUME EntryInv, UNCHANGED vars
  PROVE EntryInv'
  BY DEF EntryInv, TypeOK, TableOK, ListsOK, ThreadsOK, Handshake, OnePath, Working, Resting,
         Asking, vars, table, NoList

LEMMA NextInv ==
  ASSUME EntryInv, [Next]_vars
  PROVE EntryInv'
<1>1. CASE ScriptStep
  <2>1. ASSUME NEW e \in Lists, New(e) \/ Destroy(e) \/ Lock(e) \/ Unlock(e) \/ Clear(e) \/ ReadLoading(e)
        PROVE EntryInv'
    BY <2>1, NewInv, DestroyInv, LockInv, UnlockInv, ClearInv, ReadLoadingInv
  <2>2. ASSUME NEW e \in Lists, NEW name \in Paths, Load(e, name)
        PROVE EntryInv'
    BY <2>2, LoadInv
  <2>3. CASE LoadTimeout \/ Ask \/ LoadReturns \/ Shutdown \/ Restart
    BY <2>3, LoadTimeoutInv, AskInv, LoadReturnsInv, ShutdownInv, RestartInv
  <2> QED
    BY <1>1, <2>1, <2>2, <2>3 DEF ScriptStep
<1>2. CASE LoaderStep
  <2>1. CASE Begin \/ Sleep \/ Wake \/ Quit \/ Start
    BY <2>1, BeginInv, SleepInv, WakeInv, QuitInv, StartInv
  <2>2. CASE NotDir \/ Empty \/ Dots \/ Refer \/ Insert \/ LastRead \/ Finish \/ Release
    BY <2>2, NotDirInv, EmptyInv, DotsInv, ReferInv, InsertInv, LastReadInv, FinishInv, ReleaseInv
  <2> QED
    BY <1>2, <2>1, <2>2 DEF LoaderStep
<1> QED
  BY <1>1, <1>2, StutterInv DEF Next

\* The invariant holds: the three facts above.
THEOREM EntrySafe == Spec => []EntryInv
<1>1. EntryInv /\ [Next]_vars => EntryInv'
  BY NextInv
<1> QED
  BY <1>1, InitInv, PTL DEF Spec

\* Every reference that a list, an entry or the loader holds is null or a record
\* of the table, and the search in the table ends (entrylist_path.c).
THEOREM EntryTyped == Spec => []TypeOK
<1>1. EntryInv => TypeOK
  BY DEF EntryInv
<1> QED
  BY <1>1, EntrySafe, PTL

\* A list that says it is loading is the one that the loader thread works on; a
\* request is complete when the thread sees it, and it does not sleep over it.
THEOREM EntryHandshake == Spec => []Handshake
<1>1. EntryInv => Handshake
  BY DEF EntryInv
<1> QED
  BY <1>1, EntrySafe, PTL

\* The entries of a list are of its directory, or of the one it had while the
\* loader has not read the new one.
THEOREM EntryOnePath == Spec => []OnePath
<1>1. EntryInv => OnePath
  BY DEF EntryInv
<1> QED
  BY <1>1, EntrySafe, PTL

\* A path's count is the number of lists, entries and loader's places that refer to
\* it, through loads that fail or are refused, clears and destructions: no path leaves
\* the table in use, and none stays for ever (entrylist_path.c, entrylist_loader.c).
THEOREM EntryRefCounts == Spec => []RefCounts
<1>1. Init => RefInv
  BY InitInv DEF RefInv, Saving, RefCounts, Init
<1>2. RefInv /\ [Next]_vars => RefInv'
  <2> SUFFICES ASSUME RefInv, [Next]_vars PROVE RefInv'
    OBVIOUS
  <2>1. EntryInv'
    BY NextInv DEF RefInv
  <2> QED
    BY <2>1, SavingKept, CountsKept DEF RefInv
<1>3. RefInv => RefCounts
  BY DEF RefInv
<1> QED
  BY <1>1, <1>2, <1>3, PTL DEF Spec
=============================================================================
