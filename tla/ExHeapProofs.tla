---------------------------- MODULE ExHeapProofs ----------------------------
(***************************************************************************)
(* Module ExHeap for any textures, sizes, memory and threshold: the blocks    *)
(* tile the memory (Tiled) and free memory stays coalesced and listed in       *)
(* order (Coalesced).                                                          *)
(*                                                                          *)
(* The two lists are what Enumerates says: the blocks in the order of their    *)
(* offsets, the records of the free ones in the order of their places.  The    *)
(* invariant, HeapInv, is about the set of the blocks, so that what a call      *)
(* does to the memory is proved of sets and what it does to the lists apart.   *)
(***************************************************************************)
EXTENDS ExHeap, TLAPS, FiniteSetTheorems, SequenceTheorems

Block == [tex : Textures \cup {NULL}, offset : 0..Total, at : 0..Total]
Places == 0..Total

-----------------------------------------------------------------------------
\* Sequences.

With(f, x, y) == [f EXCEPT ![x] = y]

LEMMA Elements ==
  ASSUME NEW S, NEW s \in Seq(S)
  PROVE  Len(s) \in Nat /\ DOMAIN s = 1..Len(s) /\ \A i \in 1..Len(s) : s[i] \in S
OBVIOUS

\* The numbers but i: the j-th of them.
Skip(i, j) == IF j < i THEN j ELSE j + 1

LEMMA Skips ==
  ASSUME NEW n \in Nat, NEW i \in 1..n + 1
  PROVE  /\ \A j \in 1..n : Skip(i, j) \in 1..n + 1 /\ Skip(i, j) # i /\ (j < i <=> Skip(i, j) < i)
         /\ \A j, m \in 1..n : j < m <=> Skip(i, j) < Skip(i, m)
BY DEF Skip

LEMMA SkipsAll ==
  ASSUME NEW n \in Nat, NEW i \in 1..n + 1, NEW m \in 1..n + 1, m # i
  PROVE  \E j \in 1..n : m = Skip(i, j)
<1>1. CASE m < i
  BY <1>1 DEF Skip
<1>2. CASE m > i
  <2>1. m - 1 \in 1..n /\ Skip(i, m - 1) = m
    BY <1>2 DEF Skip
  <2> QED
    BY <2>1
<1> QED
  BY <1>1, <1>2

LEMMA Inserted ==
  ASSUME NEW S, NEW s \in Seq(S), NEW i \in 1..Len(s) + 1, NEW x \in S
  PROVE  /\ InsertAt(s, i, x) \in Seq(S) /\ Len(InsertAt(s, i, x)) = Len(s) + 1
         /\ InsertAt(s, i, x)[i] = x
         /\ \A j \in 1..Len(s) : InsertAt(s, i, x)[Skip(i, j)] = s[j]
<1> DEFINE u == SubSeq(s, 1, i - 1)
           v == SubSeq(s, i, Len(s))
<1>1. Len(s) \in Nat /\ \A j \in 1..Len(s) : s[j] \in S
  OBVIOUS
<1>2. u \in Seq(S) /\ Len(u) = i - 1 /\ \A j \in 1..i - 1 : u[j] = s[j]
  BY <1>1, SubSeqProperties
<1>3. v \in Seq(S) /\ Len(v) = Len(s) - i + 1 /\ \A j \in 1..Len(s) - i + 1 : v[j] = s[i + j - 1]
  BY <1>1, SubSeqProperties
<1>4. <<x>> \in Seq(S) /\ Len(<<x>>) = 1 /\ <<x>>[1] = x
  OBVIOUS
<1> HIDE DEF u, v
<1>5. /\ u \o <<x>> \in Seq(S) /\ Len(u \o <<x>>) = i
      /\ \A j \in 1..i : (u \o <<x>>)[j] = IF j < i THEN s[j] ELSE x
  BY <1>1, <1>2, <1>4, ConcatProperties
<1>6. /\ u \o <<x>> \o v \in Seq(S) /\ Len(u \o <<x>> \o v) = Len(s) + 1
      /\ \A j \in 1..Len(s) + 1 : (u \o <<x>> \o v)[j] = IF j <= i THEN (u \o <<x>>)[j] ELSE v[j - i]
  BY <1>1, <1>3, <1>5, ConcatProperties
<1>7. InsertAt(s, i, x) = u \o <<x>> \o v
  BY DEF InsertAt, u, v
<1> DEFINE y == u \o <<x>>
           z == u \o <<x>> \o v
<1>a. /\ \A j \in 1..i : y[j] = IF j < i THEN s[j] ELSE x
      /\ \A j \in 1..Len(s) + 1 : z[j] = IF j <= i THEN y[j] ELSE v[j - i]
  BY <1>5, <1>6
<1> HIDE DEF y, z
<1>8. z[i] = x
  BY <1>1, <1>a
<1>9. ASSUME NEW j \in 1..Len(s) PROVE z[Skip(i, j)] = s[j]
  <2>0. i \in Int /\ j \in Int /\ j \in 1..Len(s) + 1
    BY <1>1
  <2>1. CASE j < i
    BY <1>1, <1>a, <2>0, <2>1 DEF Skip
  <2>2. CASE j >= i
    <3>1. j + 1 \in 1..Len(s) + 1 /\ j + 1 - i \in 1..Len(s) - i + 1 /\ i + (j + 1 - i) - 1 = j
      BY <1>1, <2>2
    <3>2. z[j + 1] = v[j + 1 - i]
      BY <1>1, <1>a, <2>2, <3>1
    <3>3. v[j + 1 - i] = s[j]
      BY <1>3, <3>1
    <3> QED
      BY <2>0, <2>2, <3>2, <3>3 DEF Skip
  <2> QED
    BY <2>0, <2>1, <2>2
<1> QED
  BY <1>6, <1>7, <1>8, <1>9 DEF z

LEMMA Removed ==
  ASSUME NEW S, NEW s \in Seq(S), NEW i \in 1..Len(s)
  PROVE  /\ RemoveAt(s, i) \in Seq(S) /\ Len(RemoveAt(s, i)) = Len(s) - 1
         /\ \A j \in 1..Len(s) - 1 : RemoveAt(s, i)[j] = s[Skip(i, j)]
<1> DEFINE u == SubSeq(s, 1, i - 1)
           v == SubSeq(s, i + 1, Len(s))
<1>1. Len(s) \in Nat /\ \A j \in 1..Len(s) : s[j] \in S
  OBVIOUS
<1>2. u \in Seq(S) /\ Len(u) = i - 1 /\ \A j \in 1..i - 1 : u[j] = s[j]
  BY <1>1, SubSeqProperties
<1>3. v \in Seq(S) /\ Len(v) = Len(s) - i /\ \A j \in 1..Len(s) - i : v[j] = s[i + j]
  BY <1>1, SubSeqProperties
<1>4. RemoveAt(s, i) = u \o v
  BY DEF RemoveAt
<1> HIDE DEF u, v
<1>5. /\ u \o v \in Seq(S) /\ Len(u \o v) = Len(s) - 1
      /\ \A j \in 1..Len(s) - 1 : (u \o v)[j] = IF j < i THEN u[j] ELSE v[j - i + 1]
  <2>1. /\ u \o v \in Seq(S) /\ Len(u \o v) = Len(u) + Len(v)
        /\ \A j \in 1..Len(u) + Len(v) : (u \o v)[j] = IF j <= Len(u) THEN u[j] ELSE v[j - Len(u)]
    BY <1>2, <1>3, ConcatProperties
  <2>2. i \in Int /\ Len(u) = i - 1 /\ Len(v) = Len(s) - i
    BY <1>1, <1>2, <1>3
  <2> DEFINE z == u \o v
  <2>3. \A j \in 1..Len(s) - 1 : z[j] = IF j <= i - 1 THEN u[j] ELSE v[j - (i - 1)]
    BY <1>1, <2>1, <2>2
  <2> HIDE DEF z
  <2>4. \A j \in 1..Len(s) - 1 : (j <= i - 1 <=> j < i) /\ j - (i - 1) = j - i + 1
    BY <1>1, <2>2
  <2>5. \A j \in 1..Len(s) - 1 : z[j] = IF j < i THEN u[j] ELSE v[j - i + 1]
    BY <2>3, <2>4
  <2>6. Len(u \o v) = Len(s) - 1
    BY <1>1, <2>1, <2>2
  <2> QED
    BY <2>1, <2>5, <2>6 DEF z
<1> DEFINE z == u \o v
<1>a. \A j \in 1..Len(s) - 1 : z[j] = IF j < i THEN u[j] ELSE v[j - i + 1]
  BY <1>5
<1> HIDE DEF z
<1>6. ASSUME NEW j \in 1..Len(s) - 1 PROVE z[j] = s[Skip(i, j)]
  <2>0. i \in Int /\ j \in Int
    BY <1>1
  <2>1. CASE j < i
    BY <1>1, <1>2, <1>a, <2>1 DEF Skip
  <2>2. CASE j >= i
    <3>1. j - i + 1 \in 1..Len(s) - i /\ i + (j - i + 1) = j + 1
      BY <1>1, <2>2
    <3>2. v[j - i + 1] = s[j + 1]
      BY <1>3, <3>1
    <3> QED
      BY <1>1, <1>a, <2>0, <2>2, <3>2 DEF Skip
  <2> QED
    BY <2>0, <2>1, <2>2
<1> QED
  BY <1>4, <1>5, <1>6 DEF z

LEMMA Replaced ==
  ASSUME NEW S, NEW s \in Seq(S), NEW i \in 1..Len(s), NEW x \in S
  PROVE  /\ With(s, i, x) \in Seq(S) /\ Len(With(s, i, x)) = Len(s)
         /\ With(s, i, x)[i] = x /\ \A j \in 1..Len(s) : j # i => With(s, i, x)[j] = s[j]
BY ExceptSeq DEF With

\* A set of numbers that has with a number all the smaller ones is an interval.
LEMMA Downward ==
  ASSUME NEW n \in Nat, NEW B \in SUBSET (1..n), \A j \in B : \A m \in 1..j : m \in B
  PROVE  Cardinality(B) \in 0..n /\ B = 1..Cardinality(B)
<1>1. IsFiniteSet(1..n) /\ Cardinality(1..n) = n
  BY FS_Interval
<1>2. IsFiniteSet(B) /\ Cardinality(B) <= n /\ Cardinality(B) \in Nat
  BY <1>1, FS_Subset, FS_CardinalityType, ZenonT(30)
<1>3. B \subseteq 1..Cardinality(B)
  <2> SUFFICES ASSUME NEW j \in B PROVE j <= Cardinality(B)
    BY <1>2
  <2>1. 1..j \in SUBSET B
    OBVIOUS
  <2>2. Cardinality(1..j) <= Cardinality(B)
    BY <1>2, <2>1, FS_Subset
  <2>3. Cardinality(1..j) = j
    BY FS_Interval
  <2> QED
    BY <2>2, <2>3
<1>4. IsFiniteSet(1..Cardinality(B)) /\ Cardinality(1..Cardinality(B)) = Cardinality(B)
  BY <1>2, FS_Interval
<1>5. B = 1..Cardinality(B)
  BY <1>3, <1>4, FS_Subset
<1> QED
  BY <1>2, <1>5

-----------------------------------------------------------------------------
\* A list f of values V that has each one of A once, in the order of a key.

Enumerates(V, key, f, A) ==
  /\ f \in Seq(V)
  /\ \A m, n \in DOMAIN f : m < n => key[f[m]] < key[f[n]]
  /\ \A n \in DOMAIN f : f[n] \in A
  /\ \A a \in A : \E n \in DOMAIN f : f[n] = a

LEMMA Enumeration ==
  ASSUME NEW V, NEW key, \A v \in V : key[v] \in Int, NEW A, NEW f, Enumerates(V, key, f, A)
  PROVE  /\ f \in Seq(V) /\ Len(f) \in Nat /\ DOMAIN f = 1..Len(f)
         /\ \A m \in 1..Len(f) : key[f[m]] \in Int /\ f[m] \in A /\ f[m] \in V
         /\ \A m, n \in 1..Len(f) : m < n => key[f[m]] < key[f[n]]
         /\ \A m, n \in 1..Len(f) : m # n => f[m] # f[n] /\ key[f[m]] # key[f[n]]
         /\ \A a \in A : \E n \in 1..Len(f) : f[n] = a
<1>1. f \in Seq(V)
  BY DEF Enumerates
<1>2. Len(f) \in Nat /\ DOMAIN f = 1..Len(f) /\ \A m \in 1..Len(f) : f[m] \in V
  BY <1>1, Elements
<1>3. \A m \in 1..Len(f) : key[f[m]] \in Int /\ f[m] \in A
  BY <1>2 DEF Enumerates
<1>4. \A m, n \in 1..Len(f) : m < n => key[f[m]] < key[f[n]]
  BY <1>2 DEF Enumerates
<1>5. \A m, n \in 1..Len(f) : m # n => key[f[m]] # key[f[n]]
  BY <1>2, <1>3, <1>4
<1> QED
  BY <1>1, <1>2, <1>3, <1>4, <1>5 DEF Enumerates

LEMMA ItemsDiffer ==
  ASSUME NEW V, NEW key, \A v \in V : key[v] \in Int, NEW A, NEW f, Enumerates(V, key, f, A)
  PROVE  \A m, n \in 1..Len(f) : m # n => f[m] # f[n]
<1>1. f \in Seq(V)
  BY DEF Enumerates
<1>2. Len(f) \in Nat /\ DOMAIN f = 1..Len(f) /\ \A m \in 1..Len(f) : f[m] \in V
  BY <1>1, Elements
<1> QED
  BY <1>2 DEF Enumerates

LEMMA ItemOf ==
  ASSUME NEW V, NEW key, NEW A, NEW f, Enumerates(V, key, f, A), NEW a \in A
  PROVE  \E n \in 1..Len(f) : f[n] = a
<1>1. f \in Seq(V)
  BY DEF Enumerates
<1>2. DOMAIN f = 1..Len(f)
  BY <1>1, Elements
<1> QED
  BY <1>2 DEF Enumerates

LEMMA RemoveItem ==
  ASSUME NEW V, NEW key, \A v \in V : key[v] \in Int, NEW A, NEW f, Enumerates(V, key, f, A),
         NEW n \in 1..Len(f)
  PROVE  Enumerates(V, key, RemoveAt(f, n), A \ {f[n]})
<1> DEFINE g == RemoveAt(f, n)
<1>a. f \in Seq(V) /\ Len(f) \in Nat /\ DOMAIN f = 1..Len(f)
  BY Enumeration
<1>b. PICK p \in Nat : Len(f) = p + 1 /\ p = Len(f) - 1
  <2>1. n \in Int /\ 1 <= n /\ n <= Len(f)
    BY <1>a
  <2>2. Len(f) - 1 \in Nat /\ Len(f) = (Len(f) - 1) + 1
    BY <1>a, <2>1
  <2> QED
    BY <2>2
<1>c. g \in Seq(V) /\ Len(g) = p /\ \A j \in 1..p : g[j] = f[Skip(n, j)]
  BY <1>a, <1>b, Removed
<1>1. DOMAIN g = 1..p
  BY <1>c
<1> HIDE DEF g
<1>2. /\ \A j \in 1..p : Skip(n, j) \in 1..Len(f) /\ Skip(n, j) # n
      /\ \A j, m \in 1..p : j < m => Skip(n, j) < Skip(n, m)
  BY <1>b, Skips
<1>3. \A m, j \in 1..Len(f) : m < j => key[f[m]] < key[f[j]]
  BY Enumeration
<1>4. \A m \in 1..Len(f) : f[m] \in A /\ (m # n => f[m] # f[n])
  <2>1. \A m \in 1..Len(f) : f[m] \in A
    BY Enumeration
  <2>2. \A m \in 1..Len(f) : m # n => f[m] # f[n]
    BY ItemsDiffer
  <2> QED
    BY <2>1, <2>2
<1>5. \A j, m \in DOMAIN g : j < m => key[g[j]] < key[g[m]]
  BY <1>1, <1>c, <1>2, <1>3
<1>6. \A j \in DOMAIN g : g[j] \in A \ {f[n]}
  BY <1>1, <1>c, <1>2, <1>4
<1>7. ASSUME NEW a \in A \ {f[n]} PROVE \E j \in DOMAIN g : g[j] = a
  <2>1. PICK m \in 1..Len(f) : f[m] = a
    BY ItemOf
  <2>2. m \in 1..p + 1 /\ n \in 1..p + 1 /\ m # n
    BY <1>b, <2>1
  <2>3. PICK j \in 1..p : m = Skip(n, j)
    BY <2>2, SkipsAll
  <2> QED
    BY <1>1, <1>c, <2>1, <2>3
<1> QED
  BY <1>c, <1>5, <1>6, <1>7 DEF Enumerates, g

LEMMA ReplaceItem ==
  ASSUME NEW V, NEW key, \A v \in V : key[v] \in Int, NEW A, NEW f, Enumerates(V, key, f, A),
         NEW n \in 1..Len(f), NEW x \in V,
         \A m \in 1..Len(f) : (m < n => key[f[m]] < key[x]) /\ (m > n => key[x] < key[f[m]])
  PROVE  Enumerates(V, key, With(f, n, x), (A \ {f[n]}) \cup {x})
<1> DEFINE g == With(f, n, x)
<1>a. f \in Seq(V) /\ Len(f) \in Nat /\ DOMAIN f = 1..Len(f)
  BY Enumeration
<1>1. /\ g \in Seq(V) /\ DOMAIN g = 1..Len(f)
      /\ g[n] = x /\ \A j \in 1..Len(f) : j # n => g[j] = f[j]
  <2>1. /\ g \in Seq(V) /\ Len(g) = Len(f)
        /\ g[n] = x
    BY <1>a, Replaced DEF With
  <2>2. \A j \in 1..Len(f) : j # n => g[j] = f[j]
    BY <1>a, Replaced DEF With
  <2>3. DOMAIN g = 1..Len(f)
    BY <2>1
  <2> QED
    BY <2>1, <2>2, <2>3
<1> HIDE DEF g
<1>3. \A m, j \in 1..Len(f) : m < j => key[f[m]] < key[f[j]]
  BY Enumeration
<1>4. \A m \in 1..Len(f) : f[m] \in A /\ (m # n => f[m] # f[n])
  <2>1. \A m \in 1..Len(f) : f[m] \in A
    BY Enumeration
  <2>2. \A m \in 1..Len(f) : m # n => f[m] # f[n]
    BY ItemsDiffer
  <2> QED
    BY <2>1, <2>2
<1>5. \A j, m \in DOMAIN g : j < m => key[g[j]] < key[g[m]]
  BY <1>1, <1>3
<1>6. \A j \in DOMAIN g : g[j] \in (A \ {f[n]}) \cup {x}
  BY <1>1, <1>4
<1>7. ASSUME NEW a \in (A \ {f[n]}) \cup {x} PROVE \E j \in DOMAIN g : g[j] = a
  <2>1. CASE a = x
    BY <1>1, <2>1
  <2>2. CASE a # x
    <3>1. PICK m \in 1..Len(f) : f[m] = a
      BY <2>2, ItemOf
    <3> QED
      BY <1>1, <2>2, <3>1
  <2> QED
    BY <2>1, <2>2
<1> QED
  BY <1>1, <1>5, <1>6, <1>7 DEF Enumerates, g

LEMMA InsertedItem ==
  ASSUME NEW V, NEW f \in Seq(V), NEW k \in 1..Len(f) + 1, NEW x \in V
  PROVE  /\ InsertAt(f, k, x)[k] = x
         /\ \A j \in 1..Len(f) : InsertAt(f, k, x)[Skip(k, j)] = f[j]
BY Inserted

LEMMA AddItem ==
  ASSUME NEW V, NEW key, \A v \in V : key[v] \in Int, NEW A, NEW f, Enumerates(V, key, f, A),
         NEW k \in 1..Len(f) + 1, NEW x \in V,
         \A m \in 1..Len(f) : (m < k => key[f[m]] < key[x]) /\ (m >= k => key[x] < key[f[m]])
  PROVE  Enumerates(V, key, InsertAt(f, k, x), A \cup {x})
<1> DEFINE g == InsertAt(f, k, x)
<1>a. f \in Seq(V) /\ Len(f) \in Nat /\ DOMAIN f = 1..Len(f)
  BY Enumeration
<1>b. g \in Seq(V) /\ Len(g) = Len(f) + 1
  BY <1>a, Inserted
<1>c. DOMAIN g = 1..Len(f) + 1
  BY <1>b
<1>1. g[k] = x /\ \A j \in 1..Len(f) : g[Skip(k, j)] = f[j]
  BY <1>a, InsertedItem
<1> HIDE DEF g
<1>2. /\ \A j \in 1..Len(f) : Skip(k, j) \in 1..Len(f) + 1 /\ (j < k <=> Skip(k, j) < k) /\ Skip(k, j) # k
      /\ \A j, m \in 1..Len(f) : j < m <=> Skip(k, j) < Skip(k, m)
  BY <1>a, Skips
<1>3. \A m, j \in 1..Len(f) : m < j => key[f[m]] < key[f[j]]
  BY Enumeration
<1>4. \A m \in 1..Len(f) : f[m] \in A
  BY Enumeration
<1>5. ASSUME NEW j \in 1..Len(f) + 1, NEW m \in 1..Len(f) + 1, j < m PROVE key[g[j]] < key[g[m]]
  <2>1. j = k \/ \E i \in 1..Len(f) : j = Skip(k, i)
    BY <1>a, SkipsAll
  <2>2. m = k \/ \E i \in 1..Len(f) : m = Skip(k, i)
    BY <1>a, SkipsAll
  <2>3. CASE j = k
    BY <1>1, <1>2, <1>5, <2>2, <2>3
  <2>4. CASE m = k
    BY <1>1, <1>2, <1>5, <2>1, <2>4
  <2> QED
    BY <1>1, <1>2, <1>3, <1>5, <2>1, <2>2, <2>3, <2>4
<1>6. ASSUME NEW j \in 1..Len(f) + 1 PROVE g[j] \in A \cup {x}
  <2>1. j = k \/ \E i \in 1..Len(f) : j = Skip(k, i)
    BY <1>a, SkipsAll
  <2> QED
    BY <1>1, <1>4, <2>1
<1>7. ASSUME NEW a \in A \cup {x} PROVE \E j \in DOMAIN g : g[j] = a
  <2>1. CASE a = x
    BY <1>1, <1>c, <2>1
  <2>2. CASE a # x
    <3>1. PICK m \in 1..Len(f) : f[m] = a
      BY <2>2, ItemOf
    <3> QED
      BY <1>1, <1>2, <1>c, <3>1
  <2> QED
    BY <2>1, <2>2
<1> QED
  BY <1>b, <1>c, <1>5, <1>6, <1>7 DEF Enumerates, g

-----------------------------------------------------------------------------
\* The set of the blocks, B, up to tot.

Distinct(B) == B \subseteq Block /\ \A b, c \in B : b.offset = c.offset => b = c

Covers(B, tot) ==
  /\ \A b \in B : b.offset < tot
  /\ B # {} => \E b \in B : b.offset = 0

\* Where the records of free blocks are, when they may be behind their block.
Marked(B) ==
  /\ \A f \in B : f.tex = NULL => f.offset <= f.at
  /\ \A f, g \in B : f.tex = NULL /\ g.tex = NULL /\ f.offset < g.offset => f.at < g.offset

\* No two free blocks in a row.
Spaced(B) ==
  \A f, g \in B : f.tex = NULL /\ g.tex = NULL /\ f.offset < g.offset =>
    \E h \in B : h.tex # NULL /\ f.offset < h.offset /\ h.offset < g.offset

Inside(B, tot) ==
  \A f \in B : f.tex = NULL => f.at < tot /\ \A b \in B : f.offset < b.offset => f.at < b.offset

\* No block starts in the n bytes from the start of b, which are below tot.
RoomFor(B, tot, b, n) == b.offset + n <= tot /\ \A c \in B : b.offset < c.offset => b.offset + n <= c.offset

Owned(B, tot, sz) ==
  /\ \A b \in B : b.tex # NULL => sz[b.tex] # 0 /\ RoomFor(B, tot, b, sz[b.tex])
  /\ \A t \in Textures : sz[t] # 0 => \E b \in B : b.tex = t
  /\ \A b, c \in B : b.tex # NULL /\ b.tex = c.tex => b = c

\* Overwritten, of a set of blocks
Trampled(B, sz) ==
  \E f, b \in B :
    f.tex = NULL /\ b.tex # NULL /\ b.offset < f.at + MinFree /\ f.at < b.offset + sz[b.tex]

Layout(B, tot) == Distinct(B) /\ Covers(B, tot) /\ Marked(B) /\ Spaced(B)

Records(B) == {b.at : b \in {c \in B : c.tex = NULL}}

LEMMA BlockFields ==
  \A b \in Block : b.offset \in Int /\ b.at \in Int /\ b.offset >= 0 /\ b.offset \in Places
                   /\ b.at \in Places /\ (b.tex # NULL => b.tex \in Textures)
BY ExHeapAssumption DEF Block, Places

\* What a set of blocks is after its block b was replaced by u.
LEMMA RecordsBut ==
  ASSUME NEW B, NEW b \in B, \A f, g \in B : f.tex = NULL /\ g.tex = NULL /\ f # g => f.at # g.at
  PROVE  Records(B \ {b}) = IF b.tex = NULL THEN Records(B) \ {b.at} ELSE Records(B)
<1>1. ASSUME NEW x \in Records(B \ {b}) PROVE x \in Records(B) /\ (b.tex = NULL => x # b.at)
  BY DEF Records
<1>2. ASSUME NEW x \in Records(B), b.tex = NULL => x # b.at PROVE x \in Records(B \ {b})
  BY <1>2 DEF Records
<1> QED
  BY <1>1, <1>2

LEMMA RecordsAnd ==
  ASSUME NEW B, NEW u
  PROVE  Records(B \cup {u}) = IF u.tex = NULL THEN Records(B) \cup {u.at} ELSE Records(B)
<1>1. ASSUME NEW x \in Records(B \cup {u}) PROVE x \in Records(B) \/ (u.tex = NULL /\ x = u.at)
  BY DEF Records
<1>2. Records(B) \subseteq Records(B \cup {u}) /\ (u.tex = NULL => u.at \in Records(B \cup {u}))
  BY DEF Records
<1> QED
  BY <1>1, <1>2

\* No two free blocks have the same record.
LEMMA RecordsDiffer ==
  ASSUME NEW B, Distinct(B), Marked(B)
  PROVE  /\ \A f, g \in B : f.tex = NULL /\ g.tex = NULL /\ f # g => f.at # g.at
         /\ \A f, g \in B : f.tex = NULL /\ g.tex = NULL /\ f.at < g.at => f.at < g.offset /\ f.offset < g.offset
<1>1. \A b \in B : b.offset \in Int /\ b.at \in Int
  BY BlockFields DEF Distinct
<1>2. \A f, g \in B : f.tex = NULL /\ g.tex = NULL /\ f.offset < g.offset => f.at < g.at
  BY <1>1 DEF Marked
<1>3. \A f, g \in B : f # g => f.offset # g.offset
  BY DEF Distinct
<1>4. ASSUME NEW f \in B, NEW g \in B, f.tex = NULL, g.tex = NULL, f # g PROVE f.at # g.at
  <2>1. f.offset < g.offset \/ g.offset < f.offset
    BY <1>1, <1>3, <1>4
  <2> QED
    BY <1>1, <1>2, <1>4, <2>1
<1>5. ASSUME NEW f \in B, NEW g \in B, f.tex = NULL, g.tex = NULL, f.at < g.at
      PROVE  f.at < g.offset /\ f.offset < g.offset
  <2>1. f # g
    BY <1>1, <1>5
  <2>2. f.offset < g.offset \/ g.offset < f.offset
    BY <1>1, <1>3, <2>1
  <2>3. ~(g.offset < f.offset)
    BY <1>1, <1>2, <1>5
  <2> QED
    BY <1>5, <2>2, <2>3 DEF Marked
<1> QED
  BY <1>4, <1>5

-----------------------------------------------------------------------------
\* What do_alloc does to the set of blocks.

\* A free block becomes texture t's.
LEMMA Fill ==
  ASSUME NEW B, NEW tot \in Int, Layout(B, tot), Inside(B, tot),
         NEW sz \in [Textures -> Nat], Owned(B, tot, sz),
         NEW b \in B, b.tex = NULL, NEW t \in Textures, sz[t] = 0,
         NEW n \in Nat \ {0}, RoomFor(B, tot, b, n),
         NEW u \in Block, u.tex = t, u.offset = b.offset,
         NEW C, C = (B \ {b}) \cup {u}
  PROVE  Layout(C, tot) /\ Inside(C, tot) /\ Owned(C, tot, With(sz, t, n))
<1> DEFINE s == With(sz, t, n)
<1>1. \A c \in B \cup C : c.offset \in Int /\ c.at \in Int /\ c \in Block
  BY BlockFields DEF Layout, Distinct
<1>2. u.tex # NULL
  BY ExHeapAssumption
<1>3. \A c \in B : c.tex # t /\ (c.tex # NULL => c.tex \in Textures)
  BY ExHeapAssumption, BlockFields DEF Owned, Layout, Distinct
<1>4. s[t] = n /\ \A c \in B : c.tex # NULL => s[c.tex] = sz[c.tex]
  BY <1>3 DEF With
<1>5. \A r \in Textures : r # t => s[r] = sz[r]
  BY DEF With
<1> HIDE DEF s
<1>6. Distinct(C)
  BY <1>1 DEF Layout, Distinct
<1>7. Covers(C, tot)
  BY DEF Layout, Covers
<1>8. Marked(C)
  BY <1>2 DEF Layout, Marked
<1>9. Spaced(C)
  <2> SUFFICES ASSUME NEW f \in C, NEW g \in C, f.tex = NULL, g.tex = NULL, f.offset < g.offset
               PROVE  \E h \in C : h.tex # NULL /\ f.offset < h.offset /\ h.offset < g.offset
    BY DEF Spaced
  <2>1. PICK h \in B : h.tex # NULL /\ f.offset < h.offset /\ h.offset < g.offset
    BY <1>2 DEF Layout, Spaced
  <2> QED
    BY <2>1
<1>10. Inside(C, tot)
  BY <1>2 DEF Inside
<1>11. Owned(C, tot, s)
  <2>1. ASSUME NEW c \in C, c.tex # NULL PROVE s[c.tex] # 0 /\ RoomFor(C, tot, c, s[c.tex])
    <3>1. CASE c = u
      BY <1>4, <3>1 DEF RoomFor
    <3>2. CASE c # u
      <4>1. c \in B /\ sz[c.tex] # 0 /\ RoomFor(B, tot, c, sz[c.tex])
        BY <2>1, <3>2 DEF Owned
      <4> QED
        BY <1>4, <2>1, <4>1 DEF RoomFor
    <3> QED
      BY <3>1, <3>2
  <2>2. ASSUME NEW r \in Textures, s[r] # 0 PROVE \E c \in C : c.tex = r
    <3>1. CASE r = t
      BY <3>1
    <3>2. CASE r # t
      <4>1. PICK c \in B : c.tex = r
        BY <1>5, <2>2, <3>2 DEF Owned
      <4>2. c # b
        BY <4>1, ExHeapAssumption
      <4> QED
        BY <4>1, <4>2
    <3> QED
      BY <3>1, <3>2
  <2>3. \A c, d \in C : c.tex # NULL /\ c.tex = d.tex => c = d
    BY <1>3 DEF Owned
  <2> QED
    BY <2>1, <2>2, <2>3 DEF Owned
<1> QED
  BY <1>6, <1>7, <1>8, <1>9, <1>10, <1>11 DEF Layout, s

\* Texture t gets the end of a free block, n bytes from o to e.
LEMMA Cut ==
  ASSUME NEW B, NEW tot \in Int, Layout(B, tot), Inside(B, tot),
         NEW sz \in [Textures -> Nat], Owned(B, tot, sz),
         NEW b \in B, b.tex = NULL, NEW t \in Textures, sz[t] = 0,
         NEW n \in Nat \ {0}, NEW o \in Int, b.offset < o, RoomFor(B, tot, b, o + n - b.offset),
         NEW e \in Int, e = o + n, e = tot \/ \E c \in B : c.offset = e,
         NEW u \in Block, u.tex = t, u.offset = o,
         NEW C, C = B \cup {u}
  PROVE  /\ Layout(C, tot) /\ Owned(C, tot, With(sz, t, n))
         /\ ~Trampled(C, With(sz, t, n)) => Inside(C, tot)
<1> DEFINE s == With(sz, t, n)
<1>1. \A c \in B \cup C : c.offset \in Int /\ c.at \in Int /\ c \in Block
  BY BlockFields DEF Layout, Distinct
<1>2. u.tex # NULL /\ MinFree \in Nat \ {0}
  BY ExHeapAssumption
<1>3. \A c \in B : c.tex # t /\ (c.tex # NULL => c.tex \in Textures)
  BY ExHeapAssumption, BlockFields DEF Owned, Layout, Distinct
<1>4. s[t] = n /\ \A c \in B : c.tex # NULL => s[c.tex] = sz[c.tex] /\ sz[c.tex] \in Nat
  BY <1>3 DEF With
<1>5. \A r \in Textures : r # t => s[r] = sz[r]
  BY DEF With
<1> HIDE DEF s
<1>e. e <= tot /\ \A c \in B : b.offset < c.offset => e <= c.offset
  BY <1>1 DEF RoomFor
<1>b. \A c \in B : c.offset <= b.offset \/ e <= c.offset
  BY <1>1, <1>e
<1>6. Distinct(C)
  BY <1>1, <1>b DEF Layout, Distinct
<1>7. Covers(C, tot)
  BY <1>1, <1>e DEF Layout, Covers
<1>8. Marked(C)
  BY <1>2 DEF Layout, Marked
<1>9. Spaced(C)
  BY <1>2 DEF Layout, Spaced
<1>10. ASSUME ~Trampled(C, s) PROVE Inside(C, tot)
  <2> SUFFICES ASSUME NEW f \in C, f.tex = NULL PROVE f.at < tot /\ \A c \in C : f.offset < c.offset => f.at < c.offset
    BY DEF Inside
  <2>1. f \in B /\ f.at < tot /\ \A c \in B : f.offset < c.offset => f.at < c.offset
    BY <1>2 DEF Inside
  <2>2. ASSUME f.offset < o PROVE f.at < o
    <3>1. CASE f = b
      <4>1. b.at < e
        BY <2>1, <2>2, <3>1, <1>1, <1>e
      <4>2. ~(o < b.at + MinFree /\ b.at < o + n)
        BY <1>2, <1>4, <1>10 DEF Trampled
      <4> QED
        BY <1>1, <1>2, <3>1, <4>1, <4>2
    <3>2. CASE f # b
      <4>1. f.offset < b.offset
        BY <1>1, <1>b, <2>1, <2>2, <3>2 DEF Layout, Distinct
      <4>2. f.at < b.offset
        BY <2>1, <4>1
      <4> QED
        BY <1>1, <2>1, <4>2
    <3> QED
      BY <3>1, <3>2
  <2> QED
    BY <2>1, <2>2
<1>11. Owned(C, tot, s)
  <2>1. ASSUME NEW c \in C, c.tex # NULL PROVE s[c.tex] # 0 /\ RoomFor(C, tot, c, s[c.tex])
    <3>1. CASE c = u
      <4>1. RoomFor(C, tot, u, n)
        BY <1>1, <1>e, <1>b DEF RoomFor
      <4> QED
        BY <1>4, <3>1, <4>1
    <3>2. CASE c # u
      <4>1. c \in B /\ sz[c.tex] # 0 /\ RoomFor(B, tot, c, sz[c.tex])
        BY <2>1, <3>2 DEF Owned
      <4>2. ASSUME c.offset < o PROVE c.offset + sz[c.tex] <= o
        <5>1. c.offset < b.offset
          BY <1>1, <1>b, <2>1, <4>1, <4>2 DEF Layout, Distinct
        <5>2. c.offset + sz[c.tex] <= b.offset
          BY <4>1, <5>1 DEF RoomFor
        <5> QED
          BY <1>1, <1>4, <2>1, <4>1, <5>2
      <4> QED
        BY <1>4, <2>1, <4>1, <4>2 DEF RoomFor
    <3> QED
      BY <3>1, <3>2
  <2>2. ASSUME NEW r \in Textures, s[r] # 0 PROVE \E c \in C : c.tex = r
    BY <1>5, <2>2 DEF Owned
  <2>3. \A c, d \in C : c.tex # NULL /\ c.tex = d.tex => c = d
    BY <1>3 DEF Owned
  <2> QED
    BY <2>1, <2>2, <2>3 DEF Owned
<1> QED
  BY <1>6, <1>7, <1>8, <1>9, <1>10, <1>11 DEF Layout, s

Halved(B, tot, sz, b, t, n, u, v) ==
  /\ tot \in Int /\ Layout(B, tot) /\ Inside(B, tot) /\ Owned(B, tot, sz) /\ sz \in [Textures -> Nat]
  /\ b \in B /\ b.tex = NULL /\ t \in Textures /\ sz[t] = 0 /\ n \in Nat \ {0}
  /\ RoomFor(B, tot, b, n) /\ b.offset + n < tot
  /\ \A c \in B : b.offset < c.offset => b.offset + n < c.offset
  /\ u \in Block /\ u.tex = t /\ u.offset = b.offset
  /\ v \in Block /\ v.tex = NULL /\ v.offset = b.offset + n /\ v.at = v.offset

\* Texture t gets the start of a free block, n bytes; the rest is a free block.
LEMMA Split ==
  ASSUME NEW B, NEW tot, NEW sz, NEW b, NEW t, NEW n, NEW u, NEW v, Halved(B, tot, sz, b, t, n, u, v),
         NEW C, C = (B \ {b}) \cup {u} \cup {v}
  PROVE  Layout(C, tot) /\ Inside(C, tot) /\ Owned(C, tot, With(sz, t, n))
<1> USE DEF Halved
<1> DEFINE s == With(sz, t, n)
<1>0. v.offset = b.offset + n
  OBVIOUS
<1>1. \A c \in B \cup C : c.offset \in Int /\ c.at \in Int /\ c \in Block
  BY BlockFields DEF Layout, Distinct
<1>2. u.tex # NULL
  BY ExHeapAssumption
<1>3. \A c \in B : c.tex # t /\ (c.tex # NULL => c.tex \in Textures)
  BY ExHeapAssumption, BlockFields DEF Owned, Layout, Distinct
<1>4. s[t] = n /\ \A c \in B : c.tex # NULL => s[c.tex] = sz[c.tex] /\ sz[c.tex] \in Nat
  BY <1>3 DEF With
<1>5. \A r \in Textures : r # t => s[r] = sz[r]
  BY DEF With
<1> HIDE DEF s
<1>e. v.offset < tot /\ \A c \in B : b.offset < c.offset => v.offset < c.offset
  BY <1>1 DEF RoomFor
<1>b. \A c \in B : c # b => c.offset < b.offset \/ v.offset < c.offset
  BY <1>1, <1>e DEF Layout, Distinct
<1>v. b.offset < v.offset
  BY <1>0, <1>1
<1>c. \A c \in C : c = u \/ c = v \/ (c \in B /\ c # b)
  OBVIOUS
<1>6. Distinct(C)
  BY <1>1, <1>b, <1>v DEF Layout, Distinct
<1>7. Covers(C, tot)
  <2>1. \A c \in C : c.offset < tot
    BY <1>1, <1>e, <1>v, <1>c DEF Layout, Covers
  <2>2. \E c \in C : c.offset = 0
    BY DEF Layout, Covers
  <2> QED
    BY <2>1, <2>2 DEF Covers
<1>8. Marked(C)
  <2>1. \A f \in C : f.tex = NULL => f.offset <= f.at
    BY <1>1, <1>2, <1>c DEF Layout, Marked
  <2>2. ASSUME NEW f \in C, NEW g \in C, f.tex = NULL, g.tex = NULL, f.offset < g.offset PROVE f.at < g.offset
    <3>1. CASE f = v
      BY <1>1, <2>2, <3>1
    <3>2. CASE g = v /\ f # v
      <4>1. f \in B /\ f # b
        BY <1>2, <1>c, <2>2, <3>2
      <4>2. f.offset < b.offset
        BY <1>1, <1>b, <2>2, <3>2, <4>1
      <4>3. f.at < b.offset
        BY <2>2, <4>1, <4>2 DEF Inside
      <4> QED
        BY <1>1, <1>v, <3>2, <4>1, <4>3
    <3>3. CASE g # v /\ f # v
      BY <1>2, <1>c, <2>2, <3>3 DEF Layout, Marked
    <3> QED
      BY <3>1, <3>2, <3>3
  <2> QED
    BY <2>1, <2>2 DEF Marked
<1>9. Spaced(C)
  <2> SUFFICES ASSUME NEW f \in C, NEW g \in C, f.tex = NULL, g.tex = NULL, f.offset < g.offset
               PROVE  \E h \in C : h.tex # NULL /\ f.offset < h.offset /\ h.offset < g.offset
    BY DEF Spaced
  <2>1. CASE f = v
    <3>1. g \in B /\ g # b /\ b.offset < g.offset
      BY <1>1, <1>2, <1>c, <1>v, <2>1
    <3>2. PICK h \in B : h.tex # NULL /\ b.offset < h.offset /\ h.offset < g.offset
      BY <3>1 DEF Layout, Spaced
    <3>3. v.offset < h.offset
      BY <1>e, <3>2
    <3> QED
      BY <2>1, <3>2, <3>3
  <2>2. CASE g = v /\ f # v
    <3>1. f \in B /\ f # b
      BY <1>2, <1>c, <2>2
    <3>2. f.offset < b.offset
      BY <1>1, <1>b, <2>2, <3>1
    <3> QED
      BY <1>2, <1>v, <2>2, <3>2
  <2>3. CASE g # v /\ f # v
    <3>1. f \in B /\ g \in B
      BY <1>2, <1>c, <2>3
    <3>2. PICK h \in B : h.tex # NULL /\ f.offset < h.offset /\ h.offset < g.offset
      BY <3>1 DEF Layout, Spaced
    <3> QED
      BY <3>2
  <2> QED
    BY <2>1, <2>2, <2>3
<1>10. Inside(C, tot)
  <2> SUFFICES ASSUME NEW f \in C, f.tex = NULL PROVE f.at < tot /\ \A c \in C : f.offset < c.offset => f.at < c.offset
    BY DEF Inside
  <2>1. CASE f = v
    BY <1>1, <1>e, <2>1
  <2>2. CASE f # v
    <3>1. f \in B /\ f # b /\ f.at < tot /\ \A c \in B : f.offset < c.offset => f.at < c.offset
      BY <1>2, <1>c, <2>2 DEF Inside
    <3>2. ASSUME f.offset < v.offset PROVE f.at < v.offset
      <4>1. f.offset < b.offset
        BY <1>1, <1>b, <3>1, <3>2
      <4>2. f.at < b.offset
        BY <3>1, <4>1
      <4> QED
        BY <1>1, <1>v, <3>1, <4>2
    <3> QED
      BY <1>c, <3>1, <3>2
  <2> QED
    BY <2>1, <2>2
<1>11. Owned(C, tot, s)
  <2>1. ASSUME NEW c \in C, c.tex # NULL PROVE s[c.tex] # 0 /\ RoomFor(C, tot, c, s[c.tex])
    <3>1. CASE c = u
      <4>1. RoomFor(C, tot, u, n)
        BY <1>0, <1>1, <1>e, <1>b, <1>c DEF RoomFor
      <4> QED
        BY <1>4, <3>1, <4>1
    <3>2. CASE c # u
      <4>1. c \in B /\ c # b /\ sz[c.tex] # 0 /\ RoomFor(B, tot, c, sz[c.tex])
        BY <1>c, <2>1, <3>2 DEF Owned
      <4>2. ASSUME c.offset < v.offset PROVE c.offset + sz[c.tex] <= v.offset
        <5>1. c.offset < b.offset
          BY <1>1, <1>b, <4>1, <4>2
        <5>2. c.offset + sz[c.tex] <= b.offset
          BY <4>1, <5>1 DEF RoomFor
        <5> QED
          BY <1>1, <1>4, <1>v, <2>1, <4>1, <5>2
      <4>3. \A d \in C : c.offset < d.offset => c.offset + sz[c.tex] <= d.offset
        BY <1>c, <4>1, <4>2 DEF RoomFor
      <4> QED
        BY <1>4, <2>1, <4>1, <4>3 DEF RoomFor
    <3> QED
      BY <3>1, <3>2
  <2>2. ASSUME NEW r \in Textures, s[r] # 0 PROVE \E c \in C : c.tex = r
    <3>1. CASE r = t
      BY <3>1
    <3>2. CASE r # t
      <4>1. PICK c \in B : c.tex = r
        BY <1>5, <2>2, <3>2 DEF Owned
      <4>2. c # b
        BY <4>1, ExHeapAssumption
      <4> QED
        BY <4>1, <4>2
    <3> QED
      BY <3>1, <3>2
  <2>3. ASSUME NEW c \in C, NEW d \in C, c.tex # NULL, c.tex = d.tex PROVE c = d
    BY <1>3, <1>c, <2>3 DEF Owned
  <2> QED
    BY <2>1, <2>2, <2>3 DEF Owned
<1> QED
  BY <1>6, <1>7, <1>8, <1>9, <1>10, <1>11 DEF Layout, s

-----------------------------------------------------------------------------
\* What eh_free does to the set of blocks.

UsedAfter(B, b) ==
  \A g \in B : g.tex = NULL /\ b.offset < g.offset =>
    \E h \in B : h.tex # NULL /\ b.offset < h.offset /\ h.offset < g.offset
UsedBefore(B, b) ==
  \A f \in B : f.tex = NULL /\ f.offset < b.offset =>
    \E h \in B : h.tex # NULL /\ f.offset < h.offset /\ h.offset < b.offset

\* The blocks of the other textures stay theirs when b goes, and when a free block
\* that was at or behind b is where b was.
LEMMA Released ==
  ASSUME NEW B, NEW tot \in Int, Distinct(B),
         NEW sz \in [Textures -> Nat], Owned(B, tot, sz), NEW b \in B, b.tex # NULL,
         NEW C, \A c \in B : c.tex # NULL /\ c # b => c \in C,
         \A c \in C : (c \in B /\ c # b) \/ (c.tex = NULL /\ c.offset = b.offset)
  PROVE  Owned(C, tot, With(sz, b.tex, 0))
<1> DEFINE s == With(sz, b.tex, 0)
<1>1. \A c \in B : c.tex # NULL => c.tex \in Textures
  BY BlockFields DEF Distinct
<1>2. s[b.tex] = 0 /\ (\A r \in Textures : r # b.tex => s[r] = sz[r])
  BY <1>1 DEF With
<1> HIDE DEF s
<1>3. ASSUME NEW c \in C, c.tex # NULL
      PROVE  s[c.tex] # 0 /\ RoomFor(C, tot, c, s[c.tex])
  <2>1. c \in B /\ c # b
    BY <1>3
  <2>2. c.tex # b.tex /\ sz[c.tex] # 0 /\ RoomFor(B, tot, c, sz[c.tex])
    BY <1>3, <2>1 DEF Owned
  <2>3. s[c.tex] = sz[c.tex]
    BY <1>1, <1>2, <1>3, <2>1, <2>2
  <2> QED
    BY <2>2, <2>3 DEF RoomFor
<1>4. ASSUME NEW r \in Textures, s[r] # 0 PROVE \E c \in C : c.tex = r
  <2>1. r # b.tex /\ sz[r] # 0
    BY <1>2, <1>4
  <2>2. PICK c \in B : c.tex = r
    BY <2>1 DEF Owned
  <2>3. c.tex # NULL
    BY <2>2, ExHeapAssumption
  <2> QED
    BY <2>1, <2>2, <2>3
<1>5. \A c, d \in C : c.tex # NULL /\ c.tex = d.tex => c = d
  BY DEF Owned
<1> QED
  BY <1>3, <1>4, <1>5 DEF Owned, s

\* The block goes; the free block before it gets its bytes.
LEMMA Drop ==
  ASSUME NEW B, NEW tot \in Int, Layout(B, tot), Inside(B, tot),
         NEW sz \in [Textures -> Nat], Owned(B, tot, sz),
         NEW b \in B, b.tex # NULL, b.offset # 0, UsedAfter(B, b),
         NEW C, C = B \ {b}
  PROVE  Layout(C, tot) /\ Inside(C, tot) /\ Owned(C, tot, With(sz, b.tex, 0))
<1>1. Owned(C, tot, With(sz, b.tex, 0))
  <2>1. Distinct(B)
    BY DEF Layout
  <2>2. \A c \in B : c.tex # NULL /\ c # b => c \in C
    OBVIOUS
  <2>3. \A c \in C : (c \in B /\ c # b) \/ (c.tex = NULL /\ c.offset = b.offset)
    OBVIOUS
  <2> QED
    BY <2>1, <2>2, <2>3, Released
<1>2. Distinct(C) /\ Covers(C, tot) /\ Marked(C) /\ Inside(C, tot)
  BY DEF Layout, Distinct, Covers, Marked, Inside
<1>3. Spaced(C)
  <2> SUFFICES ASSUME NEW f \in C, NEW g \in C, f.tex = NULL, g.tex = NULL, f.offset < g.offset
               PROVE  \E h \in C : h.tex # NULL /\ f.offset < h.offset /\ h.offset < g.offset
    BY DEF Spaced
  <2>1. PICK h \in B : h.tex # NULL /\ f.offset < h.offset /\ h.offset < g.offset
    BY DEF Layout, Spaced
  <2>2. CASE h = b
    <3>1. PICK d \in B : d.tex # NULL /\ b.offset < d.offset /\ d.offset < g.offset
      BY <2>1, <2>2 DEF UsedAfter
    <3>2. f.offset \in Int /\ b.offset \in Int /\ d.offset \in Int
      BY BlockFields DEF Layout, Distinct
    <3> QED
      BY <2>1, <2>2, <3>1, <3>2
  <2> QED
    BY <2>1, <2>2
<1> QED
  BY <1>1, <1>2, <1>3 DEF Layout

\* The block goes and so does the free block d after it.
LEMMA DropBoth ==
  ASSUME NEW B, NEW tot \in Int, Layout(B, tot), Inside(B, tot),
         NEW sz \in [Textures -> Nat], Owned(B, tot, sz),
         NEW b \in B, b.tex # NULL, b.offset # 0,
         NEW d \in B, d.tex = NULL, b.offset < d.offset, \A c \in B : b.offset < c.offset => d.offset <= c.offset,
         NEW C, C = B \ {b, d}
  PROVE  Layout(C, tot) /\ Inside(C, tot) /\ Owned(C, tot, With(sz, b.tex, 0))
<1>0. \A c \in B : c.offset \in Int /\ c.offset >= 0
  BY BlockFields DEF Layout, Distinct
<1>1. Owned(C, tot, With(sz, b.tex, 0))
  <2>1. Distinct(B)
    BY DEF Layout
  <2>2. \A c \in B : c.tex # NULL /\ c # b => c \in C
    OBVIOUS
  <2>3. \A c \in C : (c \in B /\ c # b) \/ (c.tex = NULL /\ c.offset = b.offset)
    OBVIOUS
  <2> QED
    BY <2>1, <2>2, <2>3, Released
<1>2. Distinct(C) /\ Marked(C) /\ Inside(C, tot)
  BY DEF Layout, Distinct, Marked, Inside
<1>3. Covers(C, tot)
  BY <1>0 DEF Layout, Covers
<1>4. Spaced(C)
  <2> SUFFICES ASSUME NEW f \in C, NEW g \in C, f.tex = NULL, g.tex = NULL, f.offset < g.offset
               PROVE  \E h \in C : h.tex # NULL /\ f.offset < h.offset /\ h.offset < g.offset
    BY DEF Spaced
  <2>1. PICK h \in B : h.tex # NULL /\ f.offset < h.offset /\ h.offset < g.offset
    BY DEF Layout, Spaced
  <2>2. CASE h = b
    <3>1. d.offset < g.offset
      <4>1. g \in B /\ g # d /\ b.offset < g.offset
        BY <2>1, <2>2
      <4> QED
        BY <1>0, <4>1 DEF Layout, Distinct
    <3>2. PICK e \in B : e.tex # NULL /\ d.offset < e.offset /\ e.offset < g.offset
      BY <3>1 DEF Layout, Spaced
    <3> QED
      BY <1>0, <2>1, <2>2, <3>2
  <2> QED
    BY <2>1, <2>2
<1> QED
  BY <1>1, <1>2, <1>3, <1>4 DEF Layout

\* The block goes; the free block d after it starts where it did.
LEMMA Lower ==
  ASSUME NEW B, NEW tot \in Int, Layout(B, tot), Inside(B, tot),
         NEW sz \in [Textures -> Nat], Owned(B, tot, sz),
         NEW b \in B, b.tex # NULL, UsedBefore(B, b),
         NEW d \in B, d.tex = NULL, b.offset < d.offset, \A c \in B : b.offset < c.offset => d.offset <= c.offset,
         NEW u \in Block, u.tex = NULL, u.offset = b.offset, u.at = d.at,
         NEW C, C = (B \ {b, d}) \cup {u}
  PROVE  Layout(C, tot) /\ Inside(C, tot) /\ Owned(C, tot, With(sz, b.tex, 0))
<1>0. \A c \in B \cup C : c.offset \in Int /\ c.at \in Int /\ c \in Block
  BY BlockFields DEF Layout, Distinct
<1>1. Owned(C, tot, With(sz, b.tex, 0))
  <2>1. Distinct(B)
    BY DEF Layout
  <2>2. \A c \in B : c.tex # NULL /\ c # b => c \in C
    OBVIOUS
  <2>3. \A c \in C : (c \in B /\ c # b) \/ (c.tex = NULL /\ c.offset = b.offset)
    OBVIOUS
  <2> QED
    BY <2>1, <2>2, <2>3, Released
<1>a. \A c \in B : c # b /\ c # d => c.offset < b.offset \/ d.offset < c.offset
  BY <1>0 DEF Layout, Distinct
<1>c. \A c \in C : c = u \/ (c \in B /\ c # b /\ c # d)
  OBVIOUS
<1>2. Distinct(C)
  BY <1>0 DEF Layout, Distinct
<1>3. Covers(C, tot)
  <2>1. \A c \in C : c.offset < tot
    BY DEF Layout, Covers
  <2>2. PICK c \in B : c.offset = 0
    BY DEF Layout, Covers
  <2>3. c # d
    BY <2>2, BlockFields DEF Layout, Distinct
  <2> QED
    BY <2>1, <2>2, <2>3 DEF Covers
<1>4. Marked(C) /\ Inside(C, tot)
  <2>1. \A f \in C : f.tex = NULL => f.offset <= f.at
    BY <1>0 DEF Layout, Marked
  <2>2. ASSUME NEW f \in C, f.tex = NULL
        PROVE  f.at < tot /\ \A c \in C : f.offset < c.offset => f.at < c.offset
    <3>1. CASE f = u
      <4>1. d.at < tot /\ \A c \in B : d.offset < c.offset => d.at < c.offset
        BY DEF Inside
      <4>2. \A c \in C : u.offset < c.offset => c \in B /\ d.offset < c.offset
        BY <1>0, <1>a, <1>c
      <4> QED
        BY <3>1, <4>1, <4>2
    <3>2. CASE f # u
      BY <1>c, <2>2, <3>2 DEF Inside
    <3> QED
      BY <3>1, <3>2
  <2> QED
    BY <2>1, <2>2 DEF Marked, Inside
<1>5. Spaced(C)
  <2> SUFFICES ASSUME NEW f \in C, NEW g \in C, f.tex = NULL, g.tex = NULL, f.offset < g.offset
               PROVE  \E h \in C : h.tex # NULL /\ f.offset < h.offset /\ h.offset < g.offset
    BY DEF Spaced
  <2>1. CASE f = u
    <3>1. g \in B /\ d.offset < g.offset
      BY <1>0, <1>a, <1>c, <2>1
    <3>2. PICK h \in B : h.tex # NULL /\ d.offset < h.offset /\ h.offset < g.offset
      BY <3>1 DEF Layout, Spaced
    <3> QED
      BY <1>0, <2>1, <3>2
  <2>2. CASE g = u /\ f # u
    <3>1. PICK h \in B : h.tex # NULL /\ f.offset < h.offset /\ h.offset < b.offset
      BY <1>c, <2>2 DEF UsedBefore
    <3>2. h # b /\ h # d
      BY <1>0, <3>1
    <3> QED
      BY <2>2, <3>1, <3>2
  <2>3. CASE g # u /\ f # u
    <3>1. PICK h \in B : h.tex # NULL /\ f.offset < h.offset /\ h.offset < g.offset
      BY <1>c, <2>3 DEF Layout, Spaced
    <3>2. CASE h = b
      <4>1. PICK e \in B : e.tex # NULL /\ f.offset < e.offset /\ e.offset < b.offset
        BY <1>c, <2>3, <3>1, <3>2 DEF UsedBefore
      <4>2. e # b /\ e.offset < g.offset
        BY <1>0, <3>1, <3>2, <4>1
      <4> QED
        BY <4>1, <4>2
    <3> QED
      BY <3>1, <3>2
  <2> QED
    BY <2>1, <2>2, <2>3
<1> QED
  BY <1>1, <1>2, <1>3, <1>4, <1>5 DEF Layout

\* The block becomes a free one.
LEMMA Vacate ==
  ASSUME NEW B, NEW tot \in Int, Layout(B, tot), Inside(B, tot),
         NEW sz \in [Textures -> Nat], Owned(B, tot, sz),
         NEW b \in B, b.tex # NULL, UsedBefore(B, b), UsedAfter(B, b),
         NEW u \in Block, u.tex = NULL, u.offset = b.offset, u.at = b.offset,
         NEW C, C = (B \ {b}) \cup {u}
  PROVE  Layout(C, tot) /\ Inside(C, tot) /\ Owned(C, tot, With(sz, b.tex, 0))
<1>0. \A c \in B \cup C : c.offset \in Int /\ c.at \in Int /\ c \in Block
  BY BlockFields DEF Layout, Distinct
<1>1. Owned(C, tot, With(sz, b.tex, 0))
  <2>1. Distinct(B)
    BY DEF Layout
  <2>2. \A c \in B : c.tex # NULL /\ c # b => c \in C
    OBVIOUS
  <2>3. \A c \in C : (c \in B /\ c # b) \/ (c.tex = NULL /\ c.offset = b.offset)
    OBVIOUS
  <2> QED
    BY <2>1, <2>2, <2>3, Released
<1>c. \A c \in C : c = u \/ (c \in B /\ c # b)
  OBVIOUS
<1>2. Distinct(C) /\ Covers(C, tot)
  BY <1>0 DEF Layout, Distinct, Covers
<1>4. Marked(C) /\ Inside(C, tot)
  <2>1. \A f \in C : f.tex = NULL => f.offset <= f.at
    BY <1>0 DEF Layout, Marked
  <2>2. ASSUME NEW f \in C, f.tex = NULL
        PROVE  f.at < tot /\ \A c \in C : f.offset < c.offset => f.at < c.offset
    BY <1>c, <2>2 DEF Layout, Covers, Inside
  <2> QED
    BY <2>1, <2>2 DEF Marked, Inside
<1>5. Spaced(C)
  <2> SUFFICES ASSUME NEW f \in C, NEW g \in C, f.tex = NULL, g.tex = NULL, f.offset < g.offset
               PROVE  \E h \in C : h.tex # NULL /\ f.offset < h.offset /\ h.offset < g.offset
    BY DEF Spaced
  <2>1. CASE f = u
    <3>1. PICK h \in B : h.tex # NULL /\ b.offset < h.offset /\ h.offset < g.offset
      BY <1>0, <1>c, <2>1 DEF UsedAfter
    <3> QED
      BY <1>0, <2>1, <3>1
  <2>2. CASE g = u /\ f # u
    <3>1. PICK h \in B : h.tex # NULL /\ f.offset < h.offset /\ h.offset < b.offset
      BY <1>c, <2>2 DEF UsedBefore
    <3> QED
      BY <1>0, <2>2, <3>1
  <2>3. CASE g # u /\ f # u
    <3>1. PICK h \in B : h.tex # NULL /\ f.offset < h.offset /\ h.offset < g.offset
      BY <1>c, <2>3 DEF Layout, Spaced
    <3>2. CASE h = b
      <4>1. PICK e \in B : e.tex # NULL /\ f.offset < e.offset /\ e.offset < b.offset
        BY <1>c, <2>3, <3>1, <3>2 DEF UsedBefore
      <4>2. e # b /\ e.offset < g.offset
        BY <1>0, <3>1, <3>2, <4>1
      <4> QED
        BY <4>1, <4>2
    <3> QED
      BY <3>1, <3>2
  <2> QED
    BY <2>1, <2>2, <2>3
<1> QED
  BY <1>1, <1>2, <1>4, <1>5 DEF Layout

-----------------------------------------------------------------------------
\* The two lists: the blocks by their offsets, and the records by their places.

Offset == [b \in Block |-> b.offset]
Itself == [p \in Places |-> p]
Blocks(l) == {l[i] : i \in DOMAIN l}
ByOffset(l, B) == Enumerates(Block, Offset, l, B)
ByPlace(f, A) == Enumerates(Places, Itself, f, A)
EndOf(l, tot, i) == IF i < Len(l) THEN l[i + 1].offset ELSE tot

LEMMA Keys ==
  /\ \A b \in Block : Offset[b] = b.offset /\ Offset[b] \in Int
  /\ \A p \in Places : Itself[p] = p /\ Itself[p] \in Int
<1>1. \A p \in Places : p \in Int
  BY DEF Places
<1> QED
  BY <1>1, BlockFields DEF Offset, Itself

LEMMA TheBlocks ==
  ASSUME NEW l, NEW B, ByOffset(l, B)
  PROVE  Blocks(l) = B
<1>1. Blocks(l) \subseteq B
  BY DEF ByOffset, Enumerates, Blocks
<1>2. B \subseteq Blocks(l)
  BY DEF ByOffset, Enumerates, Blocks
<1> QED
  BY <1>1, <1>2

LEMMA InOrder ==
  ASSUME NEW l, NEW B, ByOffset(l, B)
  PROVE  /\ l \in Seq(Block) /\ Len(l) \in Nat /\ DOMAIN l = 1..Len(l)
         /\ \A m \in 1..Len(l) : l[m] \in B /\ l[m] \in Block /\ l[m].offset \in Int
         /\ \A m, n \in 1..Len(l) : m < n => l[m].offset < l[n].offset
         /\ \A b \in B : \E m \in 1..Len(l) : l[m] = b
<1>1. l \in Seq(Block)
  BY DEF ByOffset, Enumerates
<1>2. Len(l) \in Nat /\ DOMAIN l = 1..Len(l) /\ \A m \in 1..Len(l) : l[m] \in Block
  BY <1>1, Elements
<1>3. \A m \in 1..Len(l) : l[m].offset \in Int /\ Offset[l[m]] = l[m].offset
  BY <1>2, BlockFields, Keys
<1>4. \A m, n \in 1..Len(l) : m < n => l[m].offset < l[n].offset
  BY <1>2, <1>3 DEF ByOffset, Enumerates
<1> QED
  BY <1>1, <1>2, <1>3, <1>4 DEF ByOffset, Enumerates

LEMMA PlacesInOrder ==
  ASSUME NEW f, NEW A, ByPlace(f, A)
  PROVE  /\ f \in Seq(Places) /\ Len(f) \in Nat /\ DOMAIN f = 1..Len(f)
         /\ \A m \in 1..Len(f) : f[m] \in A /\ f[m] \in Places /\ f[m] \in Int
         /\ \A m, n \in 1..Len(f) : m < n => f[m] < f[n]
         /\ \A a \in A : \E m \in 1..Len(f) : f[m] = a
<1>1. f \in Seq(Places)
  BY DEF ByPlace, Enumerates
<1>2. Len(f) \in Nat /\ DOMAIN f = 1..Len(f) /\ \A m \in 1..Len(f) : f[m] \in Places
  BY <1>1, Elements
<1>3. \A m \in 1..Len(f) : f[m] \in Int /\ Itself[f[m]] = f[m]
  BY <1>2, Keys
<1>4. \A m, n \in 1..Len(f) : m < n => f[m] < f[n]
  BY <1>2, <1>3 DEF ByPlace, Enumerates
<1> QED
  BY <1>1, <1>2, <1>3, <1>4 DEF ByPlace, Enumerates

LEMMA RemoveBlock ==
  ASSUME NEW l, NEW B, ByOffset(l, B), NEW i \in 1..Len(l)
  PROVE  ByOffset(RemoveAt(l, i), B \ {l[i]})
BY Keys, RemoveItem DEF ByOffset

LEMMA RemoveRecord ==
  ASSUME NEW f, NEW A, ByPlace(f, A), NEW n \in 1..Len(f)
  PROVE  ByPlace(RemoveAt(f, n), A \ {f[n]})
BY Keys, RemoveItem DEF ByPlace

LEMMA PutBlock ==
  ASSUME NEW l, NEW B, ByOffset(l, B), NEW i \in 1..Len(l), NEW u \in Block,
         \A m \in 1..Len(l) : (m < i => l[m].offset < u.offset) /\ (m > i => u.offset < l[m].offset)
  PROVE  ByOffset(With(l, i, u), (B \ {l[i]}) \cup {u})
<1>1. \A m \in 1..Len(l) : (m < i => Offset[l[m]] < Offset[u]) /\ (m > i => Offset[u] < Offset[l[m]])
  BY InOrder, Keys
<1> QED
  BY <1>1, Keys, ReplaceItem DEF ByOffset

LEMMA PutRecord ==
  ASSUME NEW f, NEW A, ByPlace(f, A), NEW n \in 1..Len(f), NEW x \in Places,
         \A m \in 1..Len(f) : (m < n => f[m] < x) /\ (m > n => x < f[m])
  PROVE  ByPlace(With(f, n, x), (A \ {f[n]}) \cup {x})
<1>1. \A m \in 1..Len(f) : (m < n => Itself[f[m]] < Itself[x]) /\ (m > n => Itself[x] < Itself[f[m]])
  BY PlacesInOrder, Keys
<1> QED
  BY <1>1, Keys, ReplaceItem DEF ByPlace

LEMMA AddBlock ==
  ASSUME NEW l, NEW B, ByOffset(l, B), NEW i \in 1..Len(l), NEW u \in Block,
         \A m \in 1..Len(l) : (m <= i => l[m].offset < u.offset) /\ (m > i => u.offset < l[m].offset)
  PROVE  ByOffset(InsertAt(l, i + 1, u), B \cup {u})
<1>1. Len(l) \in Nat /\ i + 1 \in 1..Len(l) + 1 /\ i \in Int /\ \A m \in 1..Len(l) : (m < i + 1 <=> m <= i) /\ (m >= i + 1 <=> m > i)
  BY InOrder
<1>2. \A m \in 1..Len(l) : (m <= i => Offset[l[m]] < Offset[u]) /\ (m > i => Offset[u] < Offset[l[m]])
  BY InOrder, Keys
<1>3. \A m \in 1..Len(l) : (m < i + 1 => Offset[l[m]] < Offset[u]) /\ (m >= i + 1 => Offset[u] < Offset[l[m]])
  BY <1>1, <1>2
<1> QED
  BY <1>1, <1>3, Keys, AddItem DEF ByOffset

LEMMA AddRecord ==
  ASSUME NEW f, NEW A, ByPlace(f, A), NEW k \in 1..Len(f) + 1, NEW x \in Places,
         \A m \in 1..Len(f) : (m < k => f[m] < x) /\ (m >= k => x < f[m])
  PROVE  ByPlace(InsertAt(f, k, x), A \cup {x})
<1>1. \A m \in 1..Len(f) : (m < k => Itself[f[m]] < Itself[x]) /\ (m >= k => Itself[x] < Itself[f[m]])
  BY PlacesInOrder, Keys
<1> QED
  BY <1>1, Keys, AddItem DEF ByPlace

\* The end of a block is the start of the next one.
LEMMA Position ==
  ASSUME NEW l, NEW B, ByOffset(l, B), NEW tot \in Int, Covers(B, tot), NEW i \in 1..Len(l),
         NEW e, e = EndOf(l, tot, i)
  PROVE  /\ e \in Int /\ l[i].offset < e /\ e <= tot
         /\ e = tot \/ \E c \in B : c.offset = e
         /\ \A m \in 1..Len(l) : m > i => e <= l[m].offset
         /\ \A c \in B : l[i].offset < c.offset => e <= c.offset
<1>1. /\ Len(l) \in Nat /\ \A m \in 1..Len(l) : l[m] \in B /\ l[m].offset \in Int
      /\ \A m, n \in 1..Len(l) : m < n => l[m].offset < l[n].offset
  BY InOrder
<1>2. \A m \in 1..Len(l) : l[m].offset < tot
  BY <1>1 DEF Covers
<1>3. e \in Int /\ l[i].offset < e /\ e <= tot /\ (e = tot \/ \E c \in B : c.offset = e)
  <2>1. CASE i < Len(l)
    <3>1. i + 1 \in 1..Len(l) /\ i < i + 1
      BY <1>1, <2>1
    <3>2. e = l[i + 1].offset
      BY <2>1 DEF EndOf
    <3>3. l[i].offset < e /\ e < tot /\ e \in Int
      BY <1>1, <1>2, <3>1, <3>2
    <3> QED
      BY <1>1, <3>1, <3>2, <3>3
  <2>2. CASE ~(i < Len(l))
    BY <1>1, <1>2, <2>2 DEF EndOf
  <2> QED
    BY <2>1, <2>2
<1>4. ASSUME NEW m \in 1..Len(l), m > i PROVE e <= l[m].offset
  <2>1. i + 1 \in 1..Len(l) /\ i < Len(l) /\ (m = i + 1 \/ i + 1 < m)
    BY <1>1, <1>4
  <2>2. e = l[i + 1].offset
    BY <2>1 DEF EndOf
  <2> QED
    BY <1>1, <2>1, <2>2
<1>5. ASSUME NEW c \in B, l[i].offset < c.offset PROVE e <= c.offset
  <2>1. PICK m \in 1..Len(l) : l[m] = c
    BY InOrder
  <2>2. m > i
    <3>1. CASE m < i
      BY <1>1, <1>5, <2>1, <3>1
    <3>2. CASE m = i
      BY <1>1, <1>5, <2>1, <3>2
    <3> QED
      BY <1>1, <3>1, <3>2
  <2> QED
    BY <1>4, <2>1, <2>2
<1> QED
  BY <1>3, <1>4, <1>5

-----------------------------------------------------------------------------
\* The inductive invariant.

Heap(l, f, tot, sz) ==
  /\ ByOffset(l, Blocks(l)) /\ ByPlace(f, Records(Blocks(l)))
  /\ tot \in Places /\ Layout(Blocks(l), tot) /\ Owned(Blocks(l), tot, sz)
  /\ ~Trampled(Blocks(l), sz) => Inside(Blocks(l), tot)

HeapInv ==
  /\ Heap(list, freelist, total_sz, size)
  /\ total_sz \in {0, Total} /\ (list = <<>> <=> total_sz = 0)
  /\ size \in [Textures -> Sizes \cup {0}]

LEMMA HeapOf ==
  ASSUME NEW l, NEW f, NEW tot \in Places, NEW sz, NEW C,
         ByOffset(l, C), ByPlace(f, Records(C)), Layout(C, tot), Owned(C, tot, sz),
         ~Trampled(C, sz) => Inside(C, tot)
  PROVE  Heap(l, f, tot, sz) /\ (C # {} => l # <<>>)
<1>1. Blocks(l) = C
  BY TheBlocks
<1>2. C # {} => l # <<>>
  BY InOrder
<1> QED
  BY <1>1, <1>2 DEF Heap

LEMMA HeapFacts ==
  ASSUME NEW l, NEW f, NEW tot, NEW sz, Heap(l, f, tot, sz), NEW B, B = Blocks(l)
  PROVE  /\ ByOffset(l, B) /\ ByPlace(f, Records(B)) /\ tot \in Places /\ Layout(B, tot) /\ Owned(B, tot, sz)
         /\ ~Trampled(B, sz) => Inside(B, tot)
         /\ tot \in Int /\ 0 <= tot /\ tot <= Total /\ Total \in Int
BY ExHeapAssumption DEF Heap, Places

\* Where the i-th block is among the others.
LEMMA TheBlock ==
  ASSUME NEW l, NEW f, NEW tot, NEW sz, Heap(l, f, tot, sz), NEW B, B = Blocks(l),
         NEW i \in 1..Len(l), NEW b, b = l[i], NEW e, e = EndOf(l, tot, i)
  PROVE  /\ b \in B /\ b \in Block /\ b.offset \in Int /\ b.offset >= 0 /\ e \in Int /\ b.offset < e /\ e <= tot
         /\ e = tot \/ \E c \in B : c.offset = e
         /\ \A c \in B : b.offset < c.offset => e <= c.offset
         /\ \A m \in 1..Len(l) : m < i => l[m].offset < b.offset
         /\ \A m \in 1..Len(l) : m > i => e <= l[m].offset
         /\ \A m \in 1..Len(l) : l[m].offset \in Int
<1>1. ByOffset(l, B) /\ tot \in Int /\ Covers(B, tot)
  BY HeapFacts DEF Layout
<1>2. /\ e \in Int /\ b.offset < e /\ e <= tot
      /\ e = tot \/ \E c \in B : c.offset = e
      /\ \A m \in 1..Len(l) : m > i => e <= l[m].offset
      /\ \A c \in B : b.offset < c.offset => e <= c.offset
  BY <1>1, Position
<1>3. /\ b \in B /\ b \in Block /\ \A m \in 1..Len(l) : l[m].offset \in Int /\ (m < i => l[m].offset < b.offset)
  BY <1>1, InOrder
<1>4. b.offset \in Int /\ b.offset >= 0
  BY <1>3, BlockFields
<1> QED
  BY <1>2, <1>3, <1>4

\* The records of the other blocks.
LEMMA OtherRecords ==
  ASSUME NEW l, NEW f, NEW tot, NEW sz, Heap(l, f, tot, sz), NEW B, B = Blocks(l), NEW b \in B
  PROVE  Records(B \ {b}) = IF b.tex = NULL THEN Records(B) \ {b.at} ELSE Records(B)
<1>1. Distinct(B) /\ Marked(B)
  BY HeapFacts DEF Layout
<1>2. \A g, h \in B : g.tex = NULL /\ h.tex = NULL /\ g # h => g.at # h.at
  BY <1>1, RecordsDiffer
<1> QED
  BY <1>2, RecordsBut

-----------------------------------------------------------------------------
\* do_alloc in the i-th block and the n-th record, which are the same free block's.

Fitting(l, f, tot, sz, i, n, t, s) ==
  /\ Heap(l, f, tot, sz) /\ Inside(Blocks(l), tot) /\ sz \in [Textures -> Nat]
  /\ i \in 1..Len(l) /\ l[i].tex = NULL /\ n \in 1..Len(f) /\ f[n] = l[i].at
  /\ t \in Textures /\ sz[t] = 0 /\ s \in Nat \ {0} /\ l[i].offset + s <= EndOf(l, tot, i)

LEMMA Filled ==
  ASSUME NEW l, NEW f, NEW tot, NEW sz, NEW i, NEW n, NEW t, NEW s, Fitting(l, f, tot, sz, i, n, t, s),
         NEW u \in Block, u.tex = t, u.offset = l[i].offset
  PROVE  Heap(With(l, i, u), RemoveAt(f, n), tot, With(sz, t, s)) /\ With(l, i, u) # <<>>
<1> USE DEF Fitting
<1> DEFINE B == Blocks(l)
           b == l[i]
           e == EndOf(l, tot, i)
           C == (B \ {b}) \cup {u}
           sz2 == With(sz, t, s)
<1>1. /\ ByOffset(l, B) /\ ByPlace(f, Records(B)) /\ tot \in Places /\ Layout(B, tot) /\ Owned(B, tot, sz)
      /\ tot \in Int
  BY HeapFacts
<1>2. /\ b \in B /\ b \in Block /\ b.offset \in Int /\ e \in Int /\ b.offset < e /\ e <= tot
      /\ \A c \in B : b.offset < c.offset => e <= c.offset
      /\ \A m \in 1..Len(l) : m < i => l[m].offset < b.offset
      /\ \A m \in 1..Len(l) : m > i => e <= l[m].offset
      /\ \A m \in 1..Len(l) : l[m].offset \in Int
  BY TheBlock
<1>3. Records(B \ {b}) = Records(B) \ {f[n]}
  BY <1>2, OtherRecords
<1>4. b.tex = NULL /\ b.offset + s <= e /\ u.offset = b.offset /\ Inside(B, tot)
  OBVIOUS
<1>5. ByOffset(With(l, i, u), C)
  <2>1. \A m \in 1..Len(l) : (m < i => l[m].offset < u.offset) /\ (m > i => u.offset < l[m].offset)
    BY <1>2, <1>4
  <2> QED
    BY <1>1, <2>1, PutBlock
<1> HIDE DEF B, b, e
<1>6. RoomFor(B, tot, b, s)
  <2>1. \A c \in B : c.offset \in Int
    BY <1>1, BlockFields DEF Layout, Distinct
  <2> QED
    BY <1>1, <1>2, <1>4, <2>1 DEF RoomFor
<1>7. Layout(C, tot) /\ Inside(C, tot) /\ Owned(C, tot, sz2)
  BY <1>1, <1>2, <1>4, <1>6, Fill
<1>8. Records(C) = Records(B) \ {f[n]}
  <2>1. u.tex # NULL
    BY ExHeapAssumption
  <2> QED
    BY <1>3, <2>1, RecordsAnd
<1>9. ByPlace(RemoveAt(f, n), Records(C))
  <2>1. ByPlace(RemoveAt(f, n), Records(B) \ {f[n]})
    BY <1>1, RemoveRecord
  <2> QED
    BY <1>8, <2>1
<1>10. u \in C
  OBVIOUS
<1> HIDE DEF C, sz2
<1> QED
  BY <1>1, <1>5, <1>7, <1>9, <1>10, HeapOf DEF sz2

LEMMA CutOff ==
  ASSUME NEW l, NEW f, NEW tot, NEW sz, NEW i, NEW n, NEW t, NEW s, Fitting(l, f, tot, sz, i, n, t, s),
         l[i].offset + s < EndOf(l, tot, i),
         NEW u \in Block, u.tex = t, u.offset = EndOf(l, tot, i) - s
  PROVE  /\ Heap(InsertAt(l, i + 1, u), f, tot, With(sz, t, s))
         /\ InsertAt(l, i + 1, u) # <<>>
<1> USE DEF Fitting
<1> DEFINE B == Blocks(l)
           b == l[i]
           e == EndOf(l, tot, i)
<1>1. /\ ByOffset(l, B) /\ ByPlace(f, Records(B)) /\ tot \in Places /\ Layout(B, tot) /\ Owned(B, tot, sz)
      /\ tot \in Int
  BY HeapFacts
<1>2. /\ b \in B /\ b \in Block /\ b.offset \in Int /\ e \in Int /\ b.offset < e /\ e <= tot
      /\ \A c \in B : b.offset < c.offset => e <= c.offset
      /\ \A m \in 1..Len(l) : m < i => l[m].offset < b.offset
      /\ \A m \in 1..Len(l) : m > i => e <= l[m].offset
      /\ \A m \in 1..Len(l) : l[m].offset \in Int
  <2>1. B = Blocks(l) /\ b = l[i] /\ e = EndOf(l, tot, i)
    OBVIOUS
  <2> HIDE DEF B, b, e
  <2> QED
    BY <2>1, TheBlock
<1>e. e = tot \/ \E c \in B : c.offset = e
  BY TheBlock
<1> DEFINE o == e - s
<1>4. b.tex = NULL /\ b.offset + s < e /\ u.offset = o /\ Inside(B, tot)
  OBVIOUS
<1>o. o \in Int /\ b.offset < o /\ o < e /\ e = o + s
  BY <1>2, <1>4
<1> DEFINE C == B \cup {u}
           sz2 == With(sz, t, s)
<1>5. ByOffset(InsertAt(l, i + 1, u), C)
  <2>1. Len(l) \in Nat
    BY <1>1, InOrder
  <2>2. \A m \in 1..Len(l) : (m <= i => l[m].offset < u.offset) /\ (m > i => u.offset < l[m].offset)
    <3> TAKE m \in 1..Len(l)
    <3>1. CASE m < i
      BY <1>2, <1>4, <1>o, <2>1, <3>1
    <3>2. CASE m = i
      BY <1>2, <1>4, <1>o, <2>1, <3>2
    <3>3. CASE m > i
      BY <1>2, <1>4, <1>o, <2>1, <3>3
    <3> QED
      BY <2>1, <3>1, <3>2, <3>3
  <2> QED
    BY <1>1, <2>2, AddBlock
<1> HIDE DEF B, b, e, o
<1>6. RoomFor(B, tot, b, o + s - b.offset)
  <2>1. \A c \in B : c.offset \in Int
    BY <1>1, BlockFields DEF Layout, Distinct
  <2> QED
    BY <1>1, <1>2, <1>o, <2>1 DEF RoomFor
<1>7. Layout(C, tot) /\ Owned(C, tot, sz2) /\ (~Trampled(C, sz2) => Inside(C, tot))
  BY <1>1, <1>2, <1>e, <1>o, <1>4, <1>6, Cut
<1>8. Records(C) = Records(B)
  <2>1. u.tex # NULL
    BY ExHeapAssumption
  <2> QED
    BY <2>1, RecordsAnd
<1>9. ByPlace(f, Records(C))
  BY <1>1, <1>8
<1>10. u \in C
  OBVIOUS
<1> HIDE DEF C, sz2
<1> QED
  BY <1>1, <1>5, <1>7, <1>9, <1>10, HeapOf DEF sz2

LEMMA SplitUp ==
  ASSUME NEW l, NEW f, NEW tot, NEW sz, NEW i, NEW n, NEW t, NEW s, Fitting(l, f, tot, sz, i, n, t, s),
         l[i].offset + s < EndOf(l, tot, i),
         NEW u \in Block, u.tex = t, u.offset = l[i].offset,
         NEW o \in Places, o = l[i].offset + s,
         NEW v \in Block, v.tex = NULL, v.offset = o, v.at = o
  PROVE  /\ Heap(InsertAt(With(l, i, u), i + 1, v), With(f, n, o), tot, With(sz, t, s))
         /\ InsertAt(With(l, i, u), i + 1, v) # <<>>
<1> USE DEF Fitting
<1> DEFINE B == Blocks(l)
           b == l[i]
           e == EndOf(l, tot, i)
           p == With(l, i, u)
           A == (B \ {b}) \cup {u}
           C == (B \ {b}) \cup {u} \cup {v}
           sz2 == With(sz, t, s)
<1>1. /\ ByOffset(l, B) /\ ByPlace(f, Records(B)) /\ tot \in Places /\ Layout(B, tot) /\ Owned(B, tot, sz)
      /\ tot \in Int
  BY HeapFacts
<1>2. /\ b \in B /\ b \in Block /\ b.offset \in Int /\ e \in Int /\ b.offset < e /\ e <= tot
      /\ \A c \in B : b.offset < c.offset => e <= c.offset
      /\ \A m \in 1..Len(l) : m < i => l[m].offset < b.offset
      /\ \A m \in 1..Len(l) : m > i => e <= l[m].offset
      /\ \A m \in 1..Len(l) : l[m].offset \in Int
  BY TheBlock
<1>3. Records(B \ {b}) = Records(B) \ {f[n]}
  BY <1>2, OtherRecords, ZenonT(30)
<1>4. b.tex = NULL /\ b.offset + s < e /\ u.offset = b.offset /\ o = b.offset + s /\ Inside(B, tot) /\ f[n] = b.at
  OBVIOUS
<1>o. o \in Int /\ b.offset < o /\ o < e
  BY <1>2, <1>4
<1>5. /\ ByOffset(p, A) /\ l \in Seq(Block) /\ Len(l) \in Nat
      /\ Len(p) = Len(l) /\ p[i] = u /\ \A m \in 1..Len(l) : m # i => p[m] = l[m]
  <2>1. \A m \in 1..Len(l) : (m < i => l[m].offset < u.offset) /\ (m > i => u.offset < l[m].offset)
    BY <1>2, <1>4
  <2>2. ByOffset(p, A)
    BY <1>1, <2>1, PutBlock
  <2>3. l \in Seq(Block) /\ Len(l) \in Nat
    BY <1>1, InOrder
  <2>4. Len(p) = Len(l) /\ p[i] = u
    BY <2>3, Replaced DEF With
  <2>5. \A m \in 1..Len(l) : m # i => p[m] = l[m]
    BY <2>3, Replaced DEF With
  <2> QED
    BY <2>2, <2>3, <2>4, <2>5
<1> HIDE DEF p
<1>6. ByOffset(InsertAt(p, i + 1, v), A \cup {v})
  <2>2. \A m \in 1..Len(p) : (m <= i => p[m].offset < v.offset) /\ (m > i => v.offset < p[m].offset)
    <3> TAKE m \in 1..Len(p)
    <3>1. CASE m < i
      BY <1>2, <1>4, <1>o, <1>5, <3>1
    <3>2. CASE m = i
      BY <1>2, <1>4, <1>o, <1>5, <3>2
    <3>3. CASE m > i
      BY <1>2, <1>4, <1>o, <1>5, <3>3
    <3> QED
      BY <1>5, <3>1, <3>2, <3>3
  <2>3. i \in 1..Len(p)
    BY <1>5
  <2> QED
    BY <1>5, <2>2, <2>3, AddBlock
<1>7. ByOffset(InsertAt(p, i + 1, v), C)
  BY <1>6
<1> HIDE DEF B, b, e, A
<1>8. RoomFor(B, tot, b, s) /\ o < tot /\ \A c \in B : b.offset < c.offset => o < c.offset
  <2>1. \A c \in B : c.offset \in Int
    BY <1>1, BlockFields DEF Layout, Distinct
  <2> QED
    BY <1>1, <1>2, <1>4, <1>o, <2>1 DEF RoomFor
<1>9. Layout(C, tot) /\ Inside(C, tot) /\ Owned(C, tot, sz2)
  <2>1. Halved(B, tot, sz, b, t, s, u, v)
    BY <1>1, <1>2, <1>4, <1>8 DEF Halved
  <2> QED
    BY <2>1, Split
<1>10. Records(C) = (Records(B) \ {f[n]}) \cup {o}
  <2>1. u.tex # NULL
    BY ExHeapAssumption
  <2>2. Records(A) = Records(B) \ {f[n]}
    BY <1>3, <2>1, RecordsAnd DEF A
  <2>3. Records(A \cup {v}) = Records(A) \cup {o}
    BY RecordsAnd
  <2> QED
    BY <2>2, <2>3 DEF A
<1>11. ByPlace(With(f, n, o), (Records(B) \ {f[n]}) \cup {o})
  <2>1. /\ Len(f) \in Nat /\ \A m \in 1..Len(f) : f[m] \in Records(B) /\ f[m] \in Int
        /\ \A m, k \in 1..Len(f) : m < k => f[m] < f[k]
    BY <1>1, PlacesInOrder
  <2>2. \A g, h \in B : g.tex = NULL /\ h.tex = NULL /\ g.at < h.at => g.at < h.offset /\ g.offset < h.offset
    BY <1>1, RecordsDiffer DEF Layout
  <2>3. ASSUME NEW m \in 1..Len(f) PROVE (m < n => f[m] < o) /\ (m > n => o < f[m])
    <3>1. PICK g \in B : g.tex = NULL /\ g.at = f[m]
      BY <2>1 DEF Records
    <3>2. g.at \in Int /\ g.offset \in Int /\ g.offset <= g.at
      BY <1>1, <3>1, BlockFields DEF Layout, Distinct, Marked
    <3>3. CASE m < n
      <4>1. g.at < b.at
        BY <1>4, <2>1, <3>1, <3>3
      <4>2. g.at < b.offset
        BY <1>2, <1>4, <2>2, <3>1, <4>1
      <4> QED
        BY <1>2, <1>o, <2>1, <3>1, <3>2, <3>3, <4>2
    <3>4. CASE m > n
      <4>1. b.at < g.at
        BY <1>4, <2>1, <3>1, <3>4
      <4>2. b.offset < g.offset
        BY <1>2, <1>4, <2>2, <3>1, <4>1
      <4>3. e <= g.offset
        BY <1>2, <4>2
      <4> QED
        BY <1>2, <1>o, <2>1, <3>1, <3>2, <3>4, <4>3
    <3> QED
      BY <3>3, <3>4
  <2> QED
    BY <1>1, <2>3, PutRecord
<1>12. ByPlace(With(f, n, o), Records(C))
  BY <1>10, <1>11
<1>13. v \in C
  OBVIOUS
<1> HIDE DEF C, sz2
<1> QED
  BY <1>1, <1>7, <1>9, <1>12, <1>13, HeapOf DEF sz2, p

LEMMA Allocated ==
  ASSUME NEW l, NEW f, NEW tot, NEW sz \in [Textures -> Nat], Heap(l, f, tot, sz), Inside(Blocks(l), tot),
         NEW i \in 1..Len(l), l[i].tex = NULL, NEW n \in 1..Len(f), f[n] = l[i].at,
         NEW t \in Textures, sz[t] = 0, NEW s \in Nat \ {0},
         NEW bsz, bsz = EndOf(l, tot, i) - l[i].offset, bsz >= s,
         DoAlloc(l, f, i, n, bsz, t, s)
  PROVE  Heap(list', freelist', tot, With(sz, t, s)) /\ list' # <<>>
<1> DEFINE b == l[i]
           e == EndOf(l, tot, i)
           u == Used(t, b.offset)
           w == Used(t, e - s)
           v == Free(b.offset + s)
<1>1. b \in Block /\ b.offset \in Int /\ b.offset >= 0 /\ e \in Int /\ b.offset < e /\ e <= tot
  BY TheBlock
<1>2. tot \in Int /\ tot <= Total /\ Total \in Int /\ MinFree \in Nat \ {0}
  BY HeapFacts, ExHeapAssumption
<1>3. bsz = e - b.offset /\ b.offset + s <= e
  BY <1>1
<1>4. b.offset + bsz - s = e - s
  BY <1>1, <1>3
<1>5. u \in Block /\ u.tex = t /\ u.offset = b.offset
  BY <1>1, <1>2 DEF Used, Block
<1>6. e - s \in Places /\ w \in Block /\ w.tex = t /\ w.offset = e - s
  BY <1>1, <1>2, <1>3 DEF Used, Block, Places
<1>7. b.offset + s \in Places /\ v \in Block /\ v.tex = NULL /\ v.offset = b.offset + s /\ v.at = b.offset + s
  BY <1>1, <1>2, <1>3 DEF Free, Block, Places
<1>f. Fitting(l, f, tot, sz, i, n, t, s)
  BY <1>3 DEF Fitting
<1>8. CASE bsz - s < MinFree
  <2>1. list' = With(l, i, u) /\ freelist' = RemoveAt(f, n)
    BY <1>8 DEF DoAlloc, With
  <2> HIDE DEF u
  <2> QED
    BY <1>5, <1>f, <2>1, Filled
<1>9. CASE ~(bsz - s < MinFree)
  <2>1. b.offset + s < e
    BY <1>1, <1>2, <1>3, <1>9
  <2>2. CASE s < SmallThreshold
    <3>1. list' = InsertAt(l, i + 1, w) /\ freelist' = f
      BY <1>4, <1>9, <2>2 DEF DoAlloc
    <3> HIDE DEF w
    <3> QED
      BY <1>6, <1>f, <2>1, <3>1, CutOff
  <2>3. CASE ~(s < SmallThreshold)
    <3>1. /\ list' = InsertAt(With(l, i, u), i + 1, v)
          /\ freelist' = With(f, n, b.offset + s)
      BY <1>9, <2>3 DEF DoAlloc, With
    <3> HIDE DEF u, v
    <3> QED
      BY <1>5, <1>7, <1>f, <2>1, <3>1, SplitUp
  <2> QED
    BY <2>2, <2>3
<1> QED
  BY <1>8, <1>9

-----------------------------------------------------------------------------
\* eh_free of the i-th block, which is texture t's.

Freeing(l, f, tot, sz, i, t) ==
  /\ Heap(l, f, tot, sz) /\ Inside(Blocks(l), tot) /\ sz \in [Textures -> Nat]
  /\ i \in 1..Len(l) /\ l[i].tex = t /\ t \in Textures
FreeAt(l, i) == i \in 1..Len(l) /\ l[i].tex = NULL

LEMMA Neighbours ==
  ASSUME NEW l, NEW f, NEW tot, NEW sz, NEW i, NEW t, Freeing(l, f, tot, sz, i, t),
         NEW B, B = Blocks(l), NEW b, b = l[i]
  PROVE  /\ ~FreeAt(l, i + 1) => UsedAfter(B, b)
         /\ ~FreeAt(l, i - 1) => UsedBefore(B, b)
         /\ FreeAt(l, i - 1) => b.offset # 0
         /\ FreeAt(l, i + 1) => /\ l[i + 1] \in B /\ b.offset < l[i + 1].offset
                                /\ \A c \in B : b.offset < c.offset => l[i + 1].offset <= c.offset
<1>1. ByOffset(l, B)
  BY HeapFacts DEF Freeing
<1>2. /\ Len(l) \in Nat /\ i \in 1..Len(l)
      /\ \A m \in 1..Len(l) : l[m] \in B /\ l[m] \in Block /\ l[m].offset \in Int
      /\ \A m, n \in 1..Len(l) : m < n => l[m].offset < l[n].offset
      /\ \A c \in B : \E m \in 1..Len(l) : l[m] = c
  BY <1>1, InOrder DEF Freeing
<1>3. \A m, n \in 1..Len(l) : l[m].offset < l[n].offset => m < n
  <2> TAKE m \in 1..Len(l), n \in 1..Len(l)
  <2>1. m < n \/ m = n \/ n < m
    BY <1>2
  <2> QED
    BY <1>2, <2>1
<1>4. ASSUME NEW c \in B, b.offset < c.offset
      PROVE  i + 1 \in 1..Len(l) /\ (c = l[i + 1] \/ l[i + 1].offset < c.offset)
  <2>1. PICK m \in 1..Len(l) : l[m] = c
    BY <1>2
  <2>2. i < m
    BY <1>2, <1>3, <1>4, <2>1
  <2>3. i + 1 \in 1..Len(l) /\ (m = i + 1 \/ i + 1 < m)
    BY <1>2, <2>2
  <2> QED
    BY <1>2, <2>1, <2>3
<1>5. ASSUME NEW c \in B, c.offset < b.offset
      PROVE  i - 1 \in 1..Len(l) /\ (c = l[i - 1] \/ c.offset < l[i - 1].offset)
  <2>1. PICK m \in 1..Len(l) : l[m] = c
    BY <1>2
  <2>2. m < i
    BY <1>2, <1>3, <1>5, <2>1
  <2>3. i - 1 \in 1..Len(l) /\ (m = i - 1 \/ m < i - 1)
    BY <1>2, <2>2
  <2> QED
    BY <1>2, <2>1, <2>3
<1>6. i + 1 \in 1..Len(l) => b.offset < l[i + 1].offset
  <2> HAVE i + 1 \in 1..Len(l)
  <2>1. i < i + 1
    BY <1>2
  <2> QED
    BY <1>2, <2>1
<1>7. i - 1 \in 1..Len(l) => l[i - 1].offset < b.offset
  <2> HAVE i - 1 \in 1..Len(l)
  <2>1. i - 1 < i
    BY <1>2
  <2> QED
    BY <1>2, <2>1
<1>8. ASSUME ~FreeAt(l, i + 1) PROVE UsedAfter(B, b)
  BY <1>2, <1>4, <1>6, <1>8 DEF FreeAt, UsedAfter
<1>9. ASSUME ~FreeAt(l, i - 1) PROVE UsedBefore(B, b)
  BY <1>2, <1>5, <1>7, <1>9 DEF FreeAt, UsedBefore
<1>10. ASSUME FreeAt(l, i - 1) PROVE b.offset # 0
  <2>1. i - 1 \in 1..Len(l)
    BY <1>10 DEF FreeAt
  <2>2. l[i - 1].offset >= 0
    BY <1>2, <2>1, BlockFields
  <2> QED
    BY <1>2, <1>7, <2>1, <2>2
<1>11. ASSUME FreeAt(l, i + 1)
       PROVE  /\ l[i + 1] \in B /\ b.offset < l[i + 1].offset
              /\ \A c \in B : b.offset < c.offset => l[i + 1].offset <= c.offset
  <2>1. i + 1 \in 1..Len(l)
    BY <1>11 DEF FreeAt
  <2>2. \A c \in B : c.offset \in Int
    BY <1>2
  <2> QED
    BY <1>2, <1>4, <1>6, <2>1, <2>2
<1> QED
  BY <1>8, <1>9, <1>10, <1>11

\* What all cases of eh_free have in common.
TheFreedOf(l, f, tot, sz, i, t) ==
  /\ ByOffset(l, Blocks(l)) /\ ByPlace(f, Records(Blocks(l))) /\ tot \in Places /\ tot \in Int
  /\ Layout(Blocks(l), tot) /\ Inside(Blocks(l), tot) /\ Owned(Blocks(l), tot, sz)
  /\ sz \in [Textures -> Nat]
  /\ l[i] \in Blocks(l) /\ l[i] \in Block /\ l[i].tex = t /\ l[i].tex # NULL
  /\ i \in 1..Len(l) /\ Len(l) \in Nat
  /\ Records(Blocks(l) \ {l[i]}) = Records(Blocks(l))

LEMMA TheFreed ==
  ASSUME NEW l, NEW f, NEW tot, NEW sz, NEW i, NEW t, Freeing(l, f, tot, sz, i, t)
  PROVE  TheFreedOf(l, f, tot, sz, i, t)
<1>1. /\ ByOffset(l, Blocks(l)) /\ ByPlace(f, Records(Blocks(l))) /\ tot \in Places /\ tot \in Int
      /\ Layout(Blocks(l), tot) /\ Owned(Blocks(l), tot, sz)
  BY HeapFacts DEF Freeing
<1>2. l[i] \in Blocks(l) /\ l[i] \in Block /\ Len(l) \in Nat
  BY <1>1, InOrder DEF Freeing
<1>3. l[i].tex = t /\ l[i].tex # NULL
  BY ExHeapAssumption DEF Freeing
<1>4. Records(Blocks(l) \ {l[i]}) = Records(Blocks(l))
  BY <1>2, <1>3, OtherRecords DEF Freeing
<1> QED
  BY <1>1, <1>2, <1>3, <1>4 DEF Freeing, TheFreedOf

\* The free block before it grows.
LEMMA MergedBefore ==
  ASSUME NEW l, NEW f, NEW tot, NEW sz, NEW i, NEW t, Freeing(l, f, tot, sz, i, t),
         FreeAt(l, i - 1), ~FreeAt(l, i + 1)
  PROVE  Heap(RemoveAt(l, i), f, tot, With(sz, t, 0)) /\ RemoveAt(l, i) # <<>>
<1> DEFINE B == Blocks(l)
           b == l[i]
           C == B \ {b}
<1>1. /\ ByOffset(l, B) /\ ByPlace(f, Records(B)) /\ tot \in Places /\ tot \in Int
      /\ Layout(B, tot) /\ Inside(B, tot) /\ Owned(B, tot, sz) /\ sz \in [Textures -> Nat]
      /\ b \in B /\ b \in Block /\ b.tex = t /\ b.tex # NULL /\ i \in 1..Len(l) /\ Len(l) \in Nat
      /\ Records(C) = Records(B)
  BY TheFreed DEF TheFreedOf
<1>2. UsedAfter(B, b) /\ b.offset # 0
  BY Neighbours
<1>c. C # {}
  <2>1. l[i - 1].tex = NULL /\ l[i - 1] \in B
    BY <1>1, InOrder DEF FreeAt
  <2> QED
    BY <1>1, <2>1
<1>3. ByOffset(RemoveAt(l, i), C)
  BY <1>1, RemoveBlock
<1> HIDE DEF B, b
<1>4. Layout(C, tot) /\ Inside(C, tot) /\ Owned(C, tot, With(sz, t, 0))
  BY <1>1, <1>2, Drop
<1> HIDE DEF C
<1> QED
  BY <1>1, <1>c, <1>3, <1>4, HeapOf

\* The free blocks around it become one.
LEMMA MergedBoth ==
  ASSUME NEW l, NEW f, NEW tot, NEW sz, NEW i, NEW t, Freeing(l, f, tot, sz, i, t),
         FreeAt(l, i - 1), FreeAt(l, i + 1), NEW n \in 1..Len(f), f[n] = l[i + 1].at
  PROVE  Heap(RemoveAt(RemoveAt(l, i), i), RemoveAt(f, n), tot, With(sz, t, 0)) /\ RemoveAt(RemoveAt(l, i), i) # <<>>
<1> DEFINE B == Blocks(l)
           b == l[i]
           d == l[i + 1]
           C == B \ {b, d}
           p == RemoveAt(l, i)
<1>1. /\ ByOffset(l, B) /\ ByPlace(f, Records(B)) /\ tot \in Places /\ tot \in Int
      /\ Layout(B, tot) /\ Inside(B, tot) /\ Owned(B, tot, sz) /\ sz \in [Textures -> Nat]
      /\ b \in B /\ b \in Block /\ b.tex = t /\ b.tex # NULL /\ i \in 1..Len(l) /\ Len(l) \in Nat
      /\ Records(B \ {b}) = Records(B)
  BY TheFreed, ZenonT(30) DEF TheFreedOf
<1>2. /\ b.offset # 0 /\ d \in B /\ b.offset < d.offset
      /\ \A c \in B : b.offset < c.offset => d.offset <= c.offset
  BY Neighbours
<1>3. d.tex = NULL /\ i + 1 \in 1..Len(l)
  BY DEF FreeAt
<1>c. C # {}
  <2>1. i - 1 \in 1..Len(l) /\ l[i - 1].tex = NULL /\ i - 1 < i
    BY <1>1 DEF FreeAt
  <2>2. /\ l[i - 1] \in B /\ l[i - 1].offset < b.offset
        /\ l[i - 1].offset \in Int /\ b.offset \in Int /\ d.offset \in Int
    BY <1>1, <1>3, <2>1, InOrder
  <2>3. l[i - 1] # d /\ l[i - 1] # b
    BY <1>2, <2>2
  <2> QED
    BY <2>2, <2>3
<1>4. ByOffset(p, B \ {b})
  BY <1>1, RemoveBlock
<1>5. i \in 1..Len(p) /\ p[i] = d
  <2>1. l \in Seq(Block)
    BY <1>1, InOrder
  <2>2. Len(p) = Len(l) - 1 /\ \A j \in 1..Len(l) - 1 : p[j] = l[Skip(i, j)]
    BY <1>1, <2>1, Removed
  <2>3. i \in 1..Len(l) - 1 /\ Skip(i, i) = i + 1
    BY <1>1, <1>3 DEF Skip
  <2> HIDE DEF p
  <2> QED
    BY <2>2, <2>3
<1> HIDE DEF p, B, b, d
<1>6. ByOffset(RemoveAt(p, i), C)
  <2>1. ByOffset(RemoveAt(p, i), (B \ {b}) \ {d})
    BY <1>4, <1>5, RemoveBlock
  <2>2. (B \ {b}) \ {d} = C
    OBVIOUS
  <2> QED
    BY <2>1, <2>2
<1>7. Records(C) = Records(B) \ {f[n]}
  <2>1. \A g, h \in B : g.tex = NULL /\ h.tex = NULL /\ g # h => g.at # h.at
    BY <1>1, RecordsDiffer DEF Layout
  <2>2. d \in B \ {b}
    BY <1>1, <1>2, <1>3
  <2>3. Records((B \ {b}) \ {d}) = Records(B \ {b}) \ {d.at}
    BY <1>3, <2>1, <2>2, RecordsBut, ZenonT(30)
  <2>4. f[n] = d.at /\ (B \ {b}) \ {d} = C
    BY DEF d
  <2> QED
    BY <1>1, <2>3, <2>4
<1>8. ByPlace(RemoveAt(f, n), Records(C))
  <2>1. ByPlace(RemoveAt(f, n), Records(B) \ {f[n]})
    BY <1>1, RemoveRecord
  <2> QED
    BY <1>7, <2>1
<1>9. Layout(C, tot) /\ Inside(C, tot) /\ Owned(C, tot, With(sz, t, 0))
  BY <1>1, <1>2, <1>3, DropBoth
<1> HIDE DEF C
<1> QED
  BY <1>1, <1>c, <1>6, <1>8, <1>9, HeapOf DEF p

\* The free block after it starts where it did.
LEMMA MergedAfter ==
  ASSUME NEW l, NEW f, NEW tot, NEW sz, NEW i, NEW t, Freeing(l, f, tot, sz, i, t),
         ~FreeAt(l, i - 1), FreeAt(l, i + 1),
         NEW u \in Block, u.tex = NULL, u.offset = l[i].offset, u.at = l[i + 1].at
  PROVE  Heap(RemoveAt(With(l, i + 1, u), i), f, tot, With(sz, t, 0)) /\ RemoveAt(With(l, i + 1, u), i) # <<>>
<1> DEFINE B == Blocks(l)
           b == l[i]
           d == l[i + 1]
           A == B \ {b}
           C == (B \ {b, d}) \cup {u}
           p == RemoveAt(l, i)
           q == With(l, i + 1, u)
<1>1. /\ ByOffset(l, B) /\ ByPlace(f, Records(B)) /\ tot \in Places /\ tot \in Int
      /\ Layout(B, tot) /\ Inside(B, tot) /\ Owned(B, tot, sz) /\ sz \in [Textures -> Nat]
      /\ b \in B /\ b \in Block /\ b.tex = t /\ b.tex # NULL /\ i \in 1..Len(l) /\ Len(l) \in Nat
      /\ Records(A) = Records(B)
  <2>1. TheFreedOf(l, f, tot, sz, i, t)
    BY TheFreed
  <2> QED
    BY <2>1 DEF TheFreedOf
<1>2. /\ UsedBefore(B, b) /\ d \in B /\ b.offset < d.offset
      /\ \A c \in B : b.offset < c.offset => d.offset <= c.offset
  BY Neighbours
<1>3. d.tex = NULL /\ i + 1 \in 1..Len(l)
  BY DEF FreeAt
<1>4. /\ l \in Seq(Block) /\ d \in Block
      /\ \A m \in 1..Len(l) : l[m].offset \in Int
      /\ \A m, n \in 1..Len(l) : m < n => l[m].offset < l[n].offset
  BY <1>1, <1>3, InOrder
<1>5. u \in Block /\ u.tex = NULL /\ u.offset = b.offset /\ u.at = d.at
  OBVIOUS
<1>6. p \in Seq(Block) /\ Len(p) = Len(l) - 1 /\ \A j \in 1..Len(l) - 1 : p[j] = l[Skip(i, j)]
  BY <1>1, <1>4, Removed
<1>7. q \in Seq(Block) /\ Len(q) = Len(l) /\ q[i + 1] = u /\ \A j \in 1..Len(l) : j # i + 1 => q[j] = l[j]
  <2>1. q \in Seq(Block) /\ Len(q) = Len(l) /\ q[i + 1] = u
    BY <1>3, <1>4, <1>5, Replaced DEF With
  <2>2. \A j \in 1..Len(l) : j # i + 1 => q[j] = l[j]
    BY <1>3, <1>4, <1>5, Replaced DEF With
  <2> QED
    BY <2>1, <2>2
<1> HIDE DEF p, q
<1>8. i \in 1..Len(l) - 1 /\ Skip(i, i) = i + 1 /\ p[i] = d
  <2>1. i \in 1..Len(l) - 1 /\ Skip(i, i) = i + 1
    BY <1>1, <1>3 DEF Skip
  <2> QED
    BY <1>6, <2>1
<1>9. RemoveAt(q, i) = With(p, i, u)
  <2>1. /\ RemoveAt(q, i) \in Seq(Block) /\ Len(RemoveAt(q, i)) = Len(l) - 1
        /\ \A j \in 1..Len(l) - 1 : RemoveAt(q, i)[j] = q[Skip(i, j)]
    BY <1>1, <1>7, Removed
  <2>0. i \in 1..Len(p)
    BY <1>6, <1>8
  <2>a. With(p, i, u) \in Seq(Block) /\ Len(With(p, i, u)) = Len(p) /\ With(p, i, u)[i] = u
    BY <1>5, <1>6, <2>0, Replaced DEF With
  <2>b. \A j \in 1..Len(p) : j # i => With(p, i, u)[j] = p[j]
    BY <1>5, <1>6, <2>0, Replaced DEF With
  <2>2. /\ With(p, i, u) \in Seq(Block) /\ Len(With(p, i, u)) = Len(l) - 1
        /\ With(p, i, u)[i] = u /\ \A j \in 1..Len(l) - 1 : j # i => With(p, i, u)[j] = p[j]
    BY <1>6, <2>a, <2>b
  <2>3. \A j \in 1..Len(l) - 1 : Skip(i, j) \in 1..Len(l) /\ (Skip(i, j) = i + 1 <=> j = i)
    BY <1>1 DEF Skip
  <2>4. \A j \in 1..Len(l) - 1 : RemoveAt(q, i)[j] = With(p, i, u)[j]
    BY <1>6, <1>7, <2>1, <2>2, <2>3
  <2> QED
    BY <2>1, <2>2, <2>4, SeqEqual
<1>10. ByOffset(p, A)
  BY <1>1, RemoveBlock DEF p
<1>11. \A m \in 1..Len(p) : (m < i => p[m].offset < u.offset) /\ (m > i => u.offset < p[m].offset)
  <2> TAKE m \in 1..Len(p)
  <2>1. m \in 1..Len(l) - 1 /\ m \in 1..Len(l) /\ m + 1 \in 1..Len(l) /\ i \in Int
    BY <1>1, <1>6
  <2>2. CASE m < i
    BY <1>1, <1>4, <1>5, <1>6, <2>1, <2>2 DEF Skip
  <2>3. CASE m > i
    <3>1. p[m] = l[m + 1] /\ i < m + 1
      BY <1>6, <2>1, <2>3 DEF Skip
    <3> QED
      BY <1>1, <1>4, <1>5, <2>1, <2>3, <3>1
  <2> QED
    BY <2>2, <2>3
<1>12. ByOffset(With(p, i, u), (A \ {d}) \cup {u})
  <2>1. i \in 1..Len(p)
    BY <1>6, <1>8
  <2>2. ByOffset(With(p, i, u), (A \ {p[i]}) \cup {u})
    BY <1>5, <1>10, <1>11, <2>1, PutBlock
  <2> QED
    BY <1>8, <2>2
<1> HIDE DEF B, b, d, A
<1>13. (A \ {d}) \cup {u} = C
  BY DEF A
<1>14. Records(C) = Records(B)
  <2>1. \A g, h \in B : g.tex = NULL /\ h.tex = NULL /\ g # h => g.at # h.at
    BY <1>1, RecordsDiffer DEF Layout
  <2>2. d \in A /\ \A g, h \in A : g.tex = NULL /\ h.tex = NULL /\ g # h => g.at # h.at
    BY <1>1, <1>2, <1>3, <2>1 DEF A
  <2>3. Records(A \ {d}) = Records(A) \ {d.at}
    BY <1>3, <2>2, RecordsBut
  <2>4. Records((A \ {d}) \cup {u}) = Records(A \ {d}) \cup {d.at}
    BY <1>5, RecordsAnd
  <2>5. d.at \in Records(A)
    BY <1>3, <2>2 DEF Records
  <2> QED
    BY <1>1, <1>13, <2>3, <2>4, <2>5
<1>15. Layout(C, tot) /\ Inside(C, tot) /\ Owned(C, tot, With(sz, t, 0))
  BY <1>1, <1>2, <1>3, <1>5, Lower
<1>16. ByPlace(f, Records(C))
  BY <1>1, <1>14
<1>c. u \in C
  OBVIOUS
<1> HIDE DEF C
<1> QED
  BY <1>1, <1>c, <1>9, <1>12, <1>13, <1>15, <1>16, HeapOf DEF q

\* It becomes a free block, the k-th of them.
LEMMA MergedNone ==
  ASSUME NEW l, NEW f, NEW tot, NEW sz, NEW i, NEW t, Freeing(l, f, tot, sz, i, t),
         ~FreeAt(l, i - 1), ~FreeAt(l, i + 1), NEW k \in 1..Len(f) + 1,
         \A m \in 1..Len(f) : (m < k => f[m] < l[i].offset) /\ (m >= k => l[i].offset < f[m])
  PROVE  Heap(With(l, i, Free(l[i].offset)), InsertAt(f, k, l[i].offset), tot, With(sz, t, 0))
         /\ With(l, i, Free(l[i].offset)) # <<>>
<1> DEFINE B == Blocks(l)
           b == l[i]
           u == Free(b.offset)
           A == B \ {b}
           C == A \cup {u}
<1>1. /\ ByOffset(l, B) /\ ByPlace(f, Records(B)) /\ tot \in Places /\ tot \in Int
      /\ Layout(B, tot) /\ Inside(B, tot) /\ Owned(B, tot, sz) /\ sz \in [Textures -> Nat]
      /\ b \in B /\ b \in Block /\ b.tex = t /\ b.tex # NULL /\ i \in 1..Len(l) /\ Len(l) \in Nat
      /\ Records(A) = Records(B)
  BY TheFreed DEF TheFreedOf
<1>2. UsedBefore(B, b) /\ UsedAfter(B, b)
  BY Neighbours
<1>3. u \in Block /\ u.tex = NULL /\ u.offset = b.offset /\ u.at = b.offset /\ b.offset \in Places
  BY <1>1, BlockFields DEF Free, Block, Places
<1>4. \A m \in 1..Len(f) : (m < k => f[m] < b.offset) /\ (m >= k => b.offset < f[m])
  OBVIOUS
<1> HIDE DEF u
<1>5. ByOffset(With(l, i, u), C)
  <2>1. \A m \in 1..Len(l) : (m < i => l[m].offset < u.offset) /\ (m > i => u.offset < l[m].offset)
    BY <1>1, <1>3, InOrder
  <2> QED
    BY <1>1, <1>3, <2>1, PutBlock
<1> HIDE DEF B, b, A
<1>6. Records(C) = Records(B) \cup {b.offset}
  BY <1>1, <1>3, RecordsAnd
<1>7. ByPlace(InsertAt(f, k, b.offset), Records(B) \cup {b.offset})
  BY <1>1, <1>3, <1>4, AddRecord
<1>8. ByPlace(InsertAt(f, k, b.offset), Records(C))
  BY <1>6, <1>7
<1>9. Layout(C, tot) /\ Inside(C, tot) /\ Owned(C, tot, With(sz, t, 0))
  BY <1>1, <1>2, <1>3, Vacate DEF A
<1>c. u \in C
  OBVIOUS
<1> HIDE DEF C
<1> QED
  BY <1>1, <1>c, <1>5, <1>8, <1>9, HeapOf DEF b, u

-----------------------------------------------------------------------------
\* The steps.

LEMMA TrampledIs ==
  ASSUME ByOffset(list, Blocks(list))
  PROVE  Trampled(Blocks(list), size) <=> Overwritten
<1>1. \A f \in Blocks(list) : \E i \in DOMAIN list : list[i] = f
  BY DEF Blocks
<1>2. \A i \in DOMAIN list : list[i] \in Blocks(list)
  BY DEF Blocks
<1> QED
  BY <1>1, <1>2 DEF Trampled, Overwritten, IsFree

LEMMA Ends == \A i : End(i) = EndOf(list, total_sz, i)
BY DEF End, EndOf

\* A record belongs to one free block, and Place finds it.
LEMMA ThePlace ==
  ASSUME HeapInv
  PROVE  /\ \A i \in DOMAIN list : IsFree(i) => \E n \in DOMAIN freelist : freelist[n] = list[i].at
         /\ \A n \in DOMAIN freelist : Place(n) \in DOMAIN list /\ Listed(n, Place(n))
         /\ \A n \in DOMAIN freelist : \A i, j \in DOMAIN list : Listed(n, i) /\ Listed(n, j) => i = j
<1> DEFINE B == Blocks(list)
<1>1. Heap(list, freelist, total_sz, size)
  BY DEF HeapInv
<1>2. ByOffset(list, B) /\ ByPlace(freelist, Records(B)) /\ Distinct(B) /\ Marked(B)
  BY <1>1, HeapFacts DEF Layout
<1>3. /\ Len(list) \in Nat /\ DOMAIN list = 1..Len(list) /\ \A m \in 1..Len(list) : list[m] \in B /\ list[m].offset \in Int
      /\ \A m, n \in 1..Len(list) : m < n => list[m].offset < list[n].offset
      /\ \A b \in B : \E m \in 1..Len(list) : list[m] = b
  BY <1>2, InOrder
<1>4. /\ DOMAIN freelist = 1..Len(freelist) /\ \A m \in 1..Len(freelist) : freelist[m] \in Records(B)
      /\ \A a \in Records(B) : \E m \in 1..Len(freelist) : freelist[m] = a
  BY <1>2, PlacesInOrder
<1>5. \A f, g \in B : f.tex = NULL /\ g.tex = NULL /\ f # g => f.at # g.at
  BY <1>2, RecordsDiffer
<1> HIDE DEF B
<1>6. ASSUME NEW i \in DOMAIN list, IsFree(i) PROVE \E n \in DOMAIN freelist : freelist[n] = list[i].at
  <2>1. list[i].at \in Records(B)
    BY <1>3, <1>6 DEF Records, IsFree
  <2> QED
    BY <1>4, <2>1
<1>7. ASSUME NEW n \in DOMAIN freelist PROVE Place(n) \in DOMAIN list /\ Listed(n, Place(n))
  <2>1. PICK b \in B : b.tex = NULL /\ b.at = freelist[n]
    BY <1>4 DEF Records
  <2>2. \E i \in DOMAIN list : Listed(n, i)
    BY <1>3, <2>1 DEF Listed, IsFree
  <2> QED
    BY <2>2 DEF Place
<1>8. ASSUME NEW n \in DOMAIN freelist, NEW i \in DOMAIN list, NEW j \in DOMAIN list, Listed(n, i), Listed(n, j)
      PROVE  i = j
  <2>1. list[i] = list[j]
    BY <1>3, <1>5, <1>8 DEF Listed, IsFree
  <2>2. i < j \/ i = j \/ j < i
    BY <1>3
  <2> QED
    BY <1>3, <2>1, <2>2
<1> QED
  BY <1>6, <1>7, <1>8

\* The invariant says what the runs check.
LEMMA HeapIsTyped == HeapInv => TypeOK
<1> SUFFICES ASSUME HeapInv PROVE TypeOK
  OBVIOUS
<1>1. Heap(list, freelist, total_sz, size)
  BY DEF HeapInv
<1>2. ByOffset(list, Blocks(list)) /\ ByPlace(freelist, Records(Blocks(list)))
  BY <1>1, HeapFacts
<1>3. list \in Seq(Block)
  BY <1>2, InOrder
<1>4. freelist \in Seq(Places)
  BY <1>2, PlacesInOrder
<1> QED
  BY <1>3, <1>4 DEF HeapInv, TypeOK, Block, Places

LEMMA HeapIsTiled == HeapInv => Tiled
<1> SUFFICES ASSUME HeapInv PROVE Tiled
  OBVIOUS
<1> DEFINE B == Blocks(list)
<1>1. Heap(list, freelist, total_sz, size) /\ (list = <<>> <=> total_sz = 0) /\ size \in [Textures -> Sizes \cup {0}]
  BY DEF HeapInv
<1>2. ByOffset(list, B) /\ Owned(B, total_sz, size) /\ Distinct(B) /\ Covers(B, total_sz) /\ total_sz \in Int
  BY <1>1, HeapFacts DEF Layout
<1>3. /\ Len(list) \in Nat /\ DOMAIN list = 1..Len(list) /\ list \in Seq(Block)
      /\ \A m \in 1..Len(list) : list[m] \in B /\ list[m] \in Block /\ list[m].offset \in Int
      /\ \A m, n \in 1..Len(list) : m < n => list[m].offset < list[n].offset
      /\ \A b \in B : \E m \in 1..Len(list) : list[m] = b
  BY <1>2, InOrder
<1>4. \A i \in 1..Len(list) :
        /\ End(i) \in Int /\ list[i].offset < End(i) /\ End(i) <= total_sz
        /\ End(i) = total_sz \/ \E c \in B : c.offset = End(i)
  <2> TAKE i \in 1..Len(list)
  <2>1. End(i) = EndOf(list, total_sz, i)
    BY Ends
  <2> QED
    BY <1>2, <2>1, Position
<1>5. \A n \in Sizes \cup {0} : n \in Nat
  BY ExHeapAssumption
<1> HIDE DEF B
<1>6. list # <<>> => list[1].offset = 0
  <2> HAVE list # <<>>
  <2>1. 1 \in 1..Len(list)
    BY <1>3
  <2>2. PICK b \in B : b.offset = 0
    BY <1>2, <1>3, <2>1 DEF Covers
  <2>3. PICK m \in 1..Len(list) : list[m] = b
    BY <1>3
  <2>4. list[1].offset >= 0
    BY <1>3, <2>1, BlockFields
  <2>5. m = 1 \/ 1 < m
    BY <1>3
  <2> QED
    BY <1>3, <2>1, <2>2, <2>3, <2>4, <2>5
<1>7. ASSUME NEW i \in DOMAIN list, ~IsFree(i) PROVE size[list[i].tex] \in 1..(End(i) - list[i].offset)
  <2>1. i \in 1..Len(list) /\ list[i].tex # NULL /\ list[i] \in B
    BY <1>3, <1>7 DEF IsFree
  <2>2. list[i].tex \in Textures
    BY <1>3, <2>1, BlockFields
  <2>3. size[list[i].tex] \in Nat
    BY <1>1, <1>5, <2>2
  <2>4. size[list[i].tex] # 0 /\ RoomFor(B, total_sz, list[i], size[list[i].tex])
    BY <1>2, <2>1 DEF Owned
  <2>5. list[i].offset + size[list[i].tex] <= End(i)
    BY <1>3, <1>4, <2>1, <2>4 DEF RoomFor
  <2> QED
    BY <1>3, <1>4, <2>1, <2>3, <2>4, <2>5
<1>8. ASSUME NEW t \in Textures PROVE size[t] # 0 <=> \E i \in DOMAIN list : list[i].tex = t
  <2>1. ASSUME size[t] # 0 PROVE \E i \in DOMAIN list : list[i].tex = t
    <3>1. PICK b \in B : b.tex = t
      BY <1>2, <2>1 DEF Owned
    <3> QED
      BY <1>3, <3>1
  <2>2. ASSUME NEW i \in DOMAIN list, list[i].tex = t PROVE size[t] # 0
    BY <1>2, <1>3, <2>2, ExHeapAssumption DEF Owned
  <2> QED
    BY <2>1, <2>2
<1>9. ASSUME NEW i \in DOMAIN list, NEW j \in DOMAIN list, list[i].tex = list[j].tex, i # j PROVE IsFree(i)
  <2>1. i < j \/ j < i
    BY <1>3, <1>9
  <2>2. list[i].offset # list[j].offset
    BY <1>3, <1>9, <2>1
  <2>3. list[i] # list[j]
    BY <2>2
  <2> QED
    BY <1>2, <1>3, <1>9, <2>3 DEF Owned, IsFree
<1> QED
  BY <1>1, <1>3, <1>4, <1>6, <1>7, <1>8, <1>9 DEF Tiled

LEMMA HeapIsCoalesced == HeapInv => Coalesced
<1> SUFFICES ASSUME HeapInv PROVE Coalesced
  OBVIOUS
<1> DEFINE B == Blocks(list)
<1>1. Heap(list, freelist, total_sz, size)
  BY DEF HeapInv
<1>2. ByOffset(list, B) /\ ByPlace(freelist, Records(B)) /\ Distinct(B) /\ Marked(B) /\ Spaced(B)
  BY <1>1, HeapFacts DEF Layout
<1>3. /\ Len(list) \in Nat /\ DOMAIN list = 1..Len(list)
      /\ \A m \in 1..Len(list) : list[m] \in B /\ list[m] \in Block /\ list[m].offset \in Int /\ list[m].at \in Int
      /\ \A m, n \in 1..Len(list) : m < n => list[m].offset < list[n].offset
      /\ \A b \in B : \E m \in 1..Len(list) : list[m] = b
  BY <1>2, InOrder, BlockFields
<1>4. /\ DOMAIN freelist = 1..Len(freelist) /\ Len(freelist) \in Nat /\ \A m \in 1..Len(freelist) : freelist[m] \in Int
      /\ \A m, n \in 1..Len(freelist) : m < n => freelist[m] < freelist[n]
  BY <1>2, PlacesInOrder
<1>5. \A f, g \in B : f.tex = NULL /\ g.tex = NULL /\ f.at < g.at => f.offset < g.offset
  BY <1>2, RecordsDiffer
<1> HIDE DEF B
<1>6. ASSUME NEW i \in DOMAIN list, IsFree(i), IsFree(i + 1) PROVE FALSE
  <2>1. i + 1 \in 1..Len(list) /\ i \in 1..Len(list) /\ i < i + 1
    BY <1>3, <1>6 DEF IsFree
  <2>2. list[i].tex = NULL /\ list[i + 1].tex = NULL /\ list[i].offset < list[i + 1].offset
    BY <1>3, <1>6, <2>1 DEF IsFree
  <2>3. PICK h \in B : h.tex # NULL /\ list[i].offset < h.offset /\ h.offset < list[i + 1].offset
    BY <1>2, <1>3, <2>1, <2>2 DEF Spaced
  <2>4. PICK m \in 1..Len(list) : list[m] = h
    BY <1>3
  <2>5. m <= i \/ i + 1 <= m
    BY <1>3, <2>1
  <2> QED
    BY <1>3, <2>1, <2>3, <2>4, <2>5
<1>7. /\ \A i \in DOMAIN list : IsFree(i) => \E n \in DOMAIN freelist : Listed(n, i)
      /\ \A n \in DOMAIN freelist : \E i \in DOMAIN list : Listed(n, i)
  BY ThePlace DEF Listed
<1>8. ASSUME NEW m \in DOMAIN freelist, NEW n \in DOMAIN freelist, NEW i \in DOMAIN list, NEW j \in DOMAIN list,
             Listed(m, i), Listed(n, j)
      PROVE  m < n <=> i < j
  <2>1. /\ list[i].tex = NULL /\ list[j].tex = NULL /\ list[i].at = freelist[m] /\ list[j].at = freelist[n]
        /\ list[i] \in B /\ list[j] \in B
    BY <1>3, <1>8 DEF Listed, IsFree
  <2>2. \A p, q \in 1..Len(list) : list[p].offset < list[q].offset => p < q
    <3> TAKE p \in 1..Len(list), q \in 1..Len(list)
    <3>1. p < q \/ p = q \/ q < p
      BY <1>3
    <3> QED
      BY <1>3, <3>1
  <2>3. CASE m < n
    <3>1. list[i].at < list[j].at
      BY <1>4, <2>1, <2>3
    <3> QED
      BY <1>3, <1>5, <2>1, <2>2, <2>3, <3>1
  <2>4. CASE m = n
    BY <1>3, <1>4, <1>8, <2>4, ThePlace
  <2>5. CASE n < m
    <3>1. list[j].at < list[i].at
      BY <1>4, <2>1, <2>5
    <3>2. j < i
      BY <1>3, <1>5, <2>1, <2>2, <3>1
    <3> QED
      BY <1>3, <1>4, <2>5, <3>2
  <2> QED
    BY <1>4, <2>3, <2>4, <2>5
<1> QED
  BY <1>6, <1>7, <1>8 DEF Coalesced

LEMMA InsideNow ==
  ASSUME HeapInv, ~Overwritten
  PROVE  /\ Heap(list, freelist, total_sz, size) /\ Inside(Blocks(list), total_sz)
         /\ size \in [Textures -> Nat] /\ \A n \in Sizes \cup {0} : n \in Nat
<1>1. Heap(list, freelist, total_sz, size)
  BY DEF HeapInv
<1>2. ByOffset(list, Blocks(list)) /\ (~Trampled(Blocks(list), size) => Inside(Blocks(list), total_sz))
  BY <1>1, HeapFacts
<1>3. \A n \in Sizes \cup {0} : n \in Nat
  BY ExHeapAssumption
<1>4. size \in [Textures -> Nat]
  BY <1>3 DEF HeapInv
<1> QED
  BY <1>1, <1>2, <1>3, <1>4, TrampledIs

\* What Alloc leaves of the rest, once the lists are right.
LEMMA AllocRest ==
  ASSUME HeapInv, NEW t \in Textures, NEW sz \in Sizes, size' = [size EXCEPT ![t] = sz],
         Heap(list', freelist', total_sz', With(size, t, sz)), list' # <<>>, total_sz' = Total, total_sz' # 0
  PROVE  HeapInv'
<1>1. size' = With(size, t, sz) /\ size' \in [Textures -> Sizes \cup {0}]
  BY DEF HeapInv, With
<1> QED
  BY <1>1 DEF HeapInv

LEMMA TakeFreeStep ==
  ASSUME HeapInv, ~Overwritten, NEW t \in Textures, NEW sz \in Sizes, size[t] = 0,
         size' = [size EXCEPT ![t] = sz], TakeFree(t, sz)
  PROVE  HeapInv'
<1>1. /\ Heap(list, freelist, total_sz, size) /\ Inside(Blocks(list), total_sz)
      /\ size \in [Textures -> Nat] /\ \A n \in Sizes \cup {0} : n \in Nat
  BY InsideNow
<1>2. PICK n \in Fits(sz) : DoAlloc(list, freelist, Place(n), n, Room(n), t, sz)
  BY DEF TakeFree
<1>3. n \in DOMAIN freelist /\ Room(n) >= sz
  BY <1>2 DEF Fits
<1>4. Place(n) \in DOMAIN list /\ Listed(n, Place(n))
  BY <1>3, ThePlace
<1>5. /\ Len(list) \in Nat /\ DOMAIN list = 1..Len(list) /\ DOMAIN freelist = 1..Len(freelist)
  BY <1>1, HeapFacts, InOrder, PlacesInOrder
<1> DEFINE i == Place(n)
<1>6. i \in 1..Len(list) /\ list[i].tex = NULL /\ n \in 1..Len(freelist) /\ freelist[n] = list[i].at
  BY <1>3, <1>4, <1>5 DEF Listed, IsFree
<1>7. Room(n) = EndOf(list, total_sz, i) - list[i].offset
  BY Ends DEF Room
<1>8. sz \in Nat \ {0}
  BY ExHeapAssumption
<1>9. DoAlloc(list, freelist, i, n, Room(n), t, sz)
  BY <1>2
<1> HIDE DEF i
<1>10. Heap(list', freelist', total_sz, With(size, t, sz)) /\ list' # <<>>
  BY <1>1, <1>3, <1>6, <1>7, <1>8, <1>9, Allocated
<1>11. total_sz' = total_sz /\ total_sz = Total /\ total_sz # 0
  BY <1>5, <1>6 DEF TakeFree, HeapInv
<1> QED
  BY <1>10, <1>11, AllocRest

LEMMA FirstBlock ==
  ASSUME NEW sz \in [Textures -> Nat], \A t \in Textures : sz[t] = 0, Total # 0
  PROVE  Heap(<<Free(0)>>, <<0>>, Total, sz) /\ Inside(Blocks(<<Free(0)>>), Total)
<1> DEFINE b == Free(0)
<1>1. Total \in Int /\ 0 < Total /\ 0 \in Places /\ Total \in Places
  BY ExHeapAssumption DEF Places
<1>2. b \in Block /\ b.tex = NULL /\ b.offset = 0 /\ b.at = 0
  BY <1>1 DEF Free, Block, Places
<1> HIDE DEF b
<1>3. ByOffset(<<b>>, {b})
  BY <1>2 DEF ByOffset, Enumerates
<1>4. Records({b}) = {0}
  BY <1>2 DEF Records
<1>5. ByPlace(<<0>>, {0})
  BY <1>1 DEF ByPlace, Enumerates
<1>6. Layout({b}, Total) /\ Inside({b}, Total) /\ Owned({b}, Total, sz)
  BY <1>1, <1>2 DEF Layout, Distinct, Covers, Marked, Spaced, Inside, Owned
<1>7. Blocks(<<b>>) = {b}
  BY <1>3, TheBlocks
<1>8. Heap(<<b>>, <<0>>, Total, sz)
  BY <1>1, <1>3, <1>4, <1>5, <1>6, HeapOf
<1> QED
  BY <1>6, <1>7, <1>8 DEF b

LEMMA GrowStep ==
  ASSUME HeapInv, ~Overwritten, NEW t \in Textures, NEW sz \in Sizes, size[t] = 0,
         size' = [size EXCEPT ![t] = sz], Grow(t, sz)
  PROVE  HeapInv'
<1>1. /\ Heap(list, freelist, total_sz, size) /\ size \in [Textures -> Nat]
  BY InsideNow
<1>2. sz \in Nat \ {0} /\ Total \in Nat
  BY ExHeapAssumption
<1>3. total_sz = 0 /\ Total # 0 /\ list = <<>> /\ Total >= sz
  BY <1>2 DEF Grow, HeapInv
<1>4. Blocks(list) = {}
  BY <1>3 DEF Blocks
<1>5. freelist = <<>>
  <2>1. ByPlace(freelist, Records({}))
    BY <1>1, <1>4, HeapFacts
  <2>2. Len(freelist) \in Nat /\ freelist \in Seq(Places) /\ \A m \in 1..Len(freelist) : freelist[m] \in Records({})
    BY <2>1, PlacesInOrder
  <2>3. Records({}) = {}
    BY DEF Records
  <2>4. Len(freelist) = 0
    BY <2>2, <2>3
  <2> QED
    BY <2>2, <2>4
<1>6. \A r \in Textures : size[r] = 0
  BY <1>1, <1>4, HeapFacts DEF Owned
<1>7. /\ Heap(<<Free(0)>>, <<0>>, Total, size) /\ Inside(Blocks(<<Free(0)>>), Total)
  BY <1>1, <1>3, <1>6, FirstBlock
<1>8. Append(list, Free(total_sz)) = <<Free(0)>> /\ Append(freelist, total_sz) = <<0>>
      /\ Len(list) + 1 = 1 /\ Len(freelist) + 1 = 1 /\ Total - total_sz = Total
  BY <1>2, <1>3, <1>5
<1>9. DoAlloc(<<Free(0)>>, <<0>>, 1, 1, Total, t, sz) /\ total_sz' = Total
  BY <1>8 DEF Grow
<1>10. /\ 1 \in 1..Len(<<Free(0)>>) /\ 1 \in 1..Len(<<0>>)
       /\ <<Free(0)>>[1].tex = NULL /\ <<0>>[1] = <<Free(0)>>[1].at
       /\ Total = EndOf(<<Free(0)>>, Total, 1) - <<Free(0)>>[1].offset
  BY <1>2 DEF Free, EndOf
<1> DEFINE l == <<Free(0)>>
           f == <<0>>
<1>11. /\ Heap(l, f, Total, size) /\ Inside(Blocks(l), Total) /\ DoAlloc(l, f, 1, 1, Total, t, sz)
       /\ 1 \in 1..Len(l) /\ 1 \in 1..Len(f) /\ l[1].tex = NULL /\ f[1] = l[1].at
       /\ Total = EndOf(l, Total, 1) - l[1].offset
  BY <1>7, <1>9, <1>10
<1> HIDE DEF l, f
<1>12. Heap(list', freelist', Total, With(size, t, sz)) /\ list' # <<>>
  BY <1>1, <1>2, <1>3, <1>11, Allocated
<1> QED
  BY <1>3, <1>9, <1>12, AllocRest

LEMMA MergeStep ==
  ASSUME HeapInv, ~Overwritten, NEW t \in Textures, NEW i \in DOMAIN list, list[i].tex = t, Merge(i)
  PROVE  Heap(list', freelist', total_sz, With(size, t, 0)) /\ list' # <<>>
<1>1. /\ Heap(list, freelist, total_sz, size) /\ Inside(Blocks(list), total_sz)
      /\ size \in [Textures -> Nat]
  BY InsideNow
<1>2. ByOffset(list, Blocks(list)) /\ ByPlace(freelist, Records(Blocks(list)))
  BY <1>1, HeapFacts
<1>3. /\ Len(list) \in Nat /\ DOMAIN list = 1..Len(list)
      /\ \A m \in 1..Len(list) : list[m] \in Blocks(list) /\ list[m] \in Block /\ list[m].offset \in Int
      /\ \A m, n \in 1..Len(list) : m < n => list[m].offset < list[n].offset
  BY <1>2, InOrder
<1>4. /\ Len(freelist) \in Nat /\ DOMAIN freelist = 1..Len(freelist)
      /\ \A m \in 1..Len(freelist) : freelist[m] \in Int
      /\ \A m, n \in 1..Len(freelist) : m < n => freelist[m] < freelist[n]
  BY <1>2, PlacesInOrder
<1>5. Freeing(list, freelist, total_sz, size, i, t)
  BY <1>1, <1>3 DEF Freeing
<1>6. \A j : FreeAt(list, j) <=> IsFree(j)
  BY <1>3 DEF FreeAt, IsFree
<1>7. CASE IsFree(i - 1) /\ IsFree(i + 1)
  <2>1. PICK n \in DOMAIN freelist : Listed(n, i + 1) /\ freelist' = RemoveAt(freelist, n)
    BY <1>7 DEF Merge
  <2>2. list' = RemoveAt(RemoveAt(list, i), i)
    BY <1>7 DEF Merge
  <2>3. n \in 1..Len(freelist) /\ freelist[n] = list[i + 1].at
    BY <1>4, <2>1 DEF Listed
  <2>4. FreeAt(list, i - 1) /\ FreeAt(list, i + 1)
    BY <1>6, <1>7
  <2> QED
    BY <1>5, <2>1, <2>2, <2>3, <2>4, MergedBoth
<1>8. CASE IsFree(i - 1) /\ ~IsFree(i + 1)
  <2>1. list' = RemoveAt(list, i) /\ freelist' = freelist
    BY <1>8 DEF Merge
  <2>2. FreeAt(list, i - 1) /\ ~FreeAt(list, i + 1)
    BY <1>6, <1>8
  <2> QED
    BY <1>5, <2>1, <2>2, MergedBefore
<1>9. CASE ~IsFree(i - 1) /\ IsFree(i + 1)
  <2> DEFINE u == [list[i + 1] EXCEPT !.offset = list[i].offset]
  <2>1. list' = RemoveAt(With(list, i + 1, u), i) /\ freelist' = freelist
    BY <1>9 DEF Merge, With
  <2>2. ~FreeAt(list, i - 1) /\ FreeAt(list, i + 1)
    BY <1>6, <1>9
  <2>3. i \in 1..Len(list) /\ i + 1 \in 1..Len(list) /\ list[i + 1].tex = NULL
    BY <1>3, <2>2 DEF FreeAt
  <2>4. u \in Block /\ u.tex = NULL /\ u.offset = list[i].offset /\ u.at = list[i + 1].at
    BY <1>3, <2>3 DEF Block
  <2> HIDE DEF u
  <2> QED
    BY <1>5, <2>1, <2>2, <2>4, MergedAfter
<1>10. CASE ~IsFree(i - 1) /\ ~IsFree(i + 1)
  <2> DEFINE x == list[i].offset
             before == {n \in DOMAIN freelist : Place(n) < i}
             k == Cardinality(before) + 1
  <2>1. list' = With(list, i, Free(x)) /\ freelist' = InsertAt(freelist, k, x)
    BY <1>10 DEF Merge, FreeAfter, With
  <2>2. ~FreeAt(list, i - 1) /\ ~FreeAt(list, i + 1)
    BY <1>6, <1>10
  <2>3. \A n \in 1..Len(freelist) : (Place(n) < i => freelist[n] < x) /\ (~(Place(n) < i) => x < freelist[n])
    <3> TAKE n \in 1..Len(freelist)
    <3>1. Place(n) \in 1..Len(list) /\ list[Place(n)].tex = NULL /\ list[Place(n)].at = freelist[n]
      BY <1>3, <1>4, ThePlace DEF Listed, IsFree
    <3> DEFINE p == Place(n)
    <3>2. p \in 1..Len(list) /\ list[p].tex = NULL /\ list[p].at = freelist[n]
      BY <3>1
    <3> HIDE DEF p
    <3>3. CASE p < i
      <4>1. list[p].offset < list[i].offset
        BY <1>3, <3>2, <3>3
      <4>2. list[p].at < list[i].offset
        BY <1>1, <1>3, <3>2, <4>1 DEF Inside
      <4>3. p < i /\ freelist[n] < x
        BY <3>2, <3>3, <4>2
      <4> QED
        BY <4>3 DEF p
    <3>4. CASE ~(p < i)
      <4>1. p # i
        BY <3>2, ExHeapAssumption
      <4>2. i < p
        BY <1>3, <3>2, <3>4, <4>1
      <4>3. list[i].offset < list[p].offset
        BY <1>3, <3>2, <4>2
      <4>4. list[p].offset <= list[p].at
        BY <1>1, <1>3, <3>2, HeapFacts DEF Layout, Marked
      <4>5. ~(p < i) /\ x < freelist[n]
        BY <1>3, <1>4, <3>2, <3>4, <4>3, <4>4
      <4> QED
        BY <4>5 DEF p
    <3> QED
      BY <3>3, <3>4
  <2>4. before \in SUBSET (1..Len(freelist)) /\ \A j \in before : \A m \in 1..j : m \in before
    <3>1. x \in Int
      BY <1>3
    <3>2. \A n \in 1..Len(freelist) : n \in before <=> freelist[n] < x
      BY <1>4, <2>3, <3>1
    <3>3. ASSUME NEW j \in before, NEW m \in 1..j PROVE m \in before
      <4>1. j \in 1..Len(freelist) /\ m \in 1..Len(freelist) /\ (m = j \/ m < j)
        BY <1>4
      <4> HIDE DEF before, x
      <4>2. freelist[j] < x /\ (m = j \/ freelist[m] < freelist[j])
        BY <1>4, <3>2, <3>3, <4>1
      <4>3. freelist[m] < x
        BY <1>4, <3>1, <4>1, <4>2
      <4> QED
        BY <3>2, <4>1, <4>3
    <3> QED
      BY <1>4, <3>3
  <2>5. Cardinality(before) \in 0..Len(freelist) /\ before = 1..Cardinality(before)
    <3> HIDE DEF before
    <3> QED
      BY <1>4, <2>4, Downward
  <2>6. \A n \in 1..Len(freelist) : n \in before <=> Place(n) < i
    BY <1>4
  <2> HIDE DEF before, x
  <2>7. k \in 1..Len(freelist) + 1 /\ \A n \in 1..Len(freelist) : (n < k <=> n \in before) /\ (n >= k <=> n \notin before)
    BY <1>4, <2>5
  <2>8. \A n \in 1..Len(freelist) : (n < k => freelist[n] < x) /\ (n >= k => x < freelist[n])
    BY <2>3, <2>6, <2>7
  <2> HIDE DEF k
  <2>9. Heap(With(list, i, Free(x)), InsertAt(freelist, k, x), total_sz, With(size, t, 0))
       /\ With(list, i, Free(x)) # <<>>
    BY <1>5, <2>2, <2>7, <2>8, MergedNone DEF x
  <2> QED
    BY <2>1, <2>9
<1> QED
  BY <1>7, <1>8, <1>9, <1>10

LEMMA DestroyStep ==
  ASSUME HeapInv, ~Overwritten, NEW t \in Textures, Destroy(t)
  PROVE  HeapInv'
<1>1. PICK i \in DOMAIN list : list[i].tex = t /\ Merge(i)
  BY DEF Destroy
<1>2. Heap(list', freelist', total_sz, With(size, t, 0)) /\ list' # <<>>
  BY <1>1, MergeStep
<1>3. size' = With(size, t, 0) /\ size' \in [Textures -> Sizes \cup {0}] /\ total_sz' = total_sz
  BY DEF HeapInv, Destroy, With
<1>4. total_sz # 0
  BY <1>1 DEF HeapInv
<1> QED
  BY <1>2, <1>3, <1>4 DEF HeapInv

-----------------------------------------------------------------------------

LEMMA HeapInit == Init => HeapInv
<1> SUFFICES ASSUME Init PROVE HeapInv
  OBVIOUS
<1>1. list = <<>> /\ freelist = <<>> /\ total_sz = 0 /\ size = [t \in Textures |-> 0]
  BY DEF Init
<1>2. total_sz \in Places
  BY <1>1, ExHeapAssumption DEF Places
<1>3. ByOffset(list, {})
  BY <1>1 DEF ByOffset, Enumerates
<1>4. Records({}) = {}
  BY DEF Records
<1>5. ByPlace(freelist, Records({}))
  BY <1>1, <1>4 DEF ByPlace, Enumerates
<1>6. Layout({}, total_sz) /\ Inside({}, total_sz)
  BY DEF Layout, Distinct, Covers, Marked, Spaced, Inside
<1>7. Owned({}, total_sz, size)
  BY <1>1 DEF Owned
<1>8. Heap(list, freelist, total_sz, size)
  BY <1>2, <1>3, <1>5, <1>6, <1>7, HeapOf
<1> QED
  BY <1>1, <1>8 DEF HeapInv

LEMMA HeapNext == HeapInv /\ [Next]_vars => HeapInv'
<1> SUFFICES ASSUME HeapInv, [Next]_vars PROVE HeapInv'
  OBVIOUS
<1>1. ASSUME NEW t \in Textures, ~Overwritten, Destroy(t) PROVE HeapInv'
  BY <1>1, DestroyStep
<1>2. ASSUME NEW t \in Textures, NEW sz \in Sizes, ~Overwritten, Alloc(t, sz) PROVE HeapInv'
  BY <1>2, TakeFreeStep, GrowStep DEF Alloc
<1>3. ASSUME UNCHANGED vars PROVE HeapInv'
  BY <1>3 DEF vars, HeapInv
<1> QED
  BY <1>1, <1>2, <1>3 DEF Next

\* The calls of the heap keep its inductive invariant until a texture's bytes go
\* over the record of a free block.
THEOREM HeapSafe == Spec => []HeapInv
BY HeapInit, HeapNext, PTL DEF Spec

\* Every call of eh_alloc and eh_free leaves lists of blocks and records.
THEOREM HeapTyped == Spec => []TypeOK
BY HeapSafe, HeapIsTyped, PTL

\* The blocks tile the memory and no two textures share a byte, whatever the sizes
\* and the order in which eh_alloc and eh_free are called.
THEOREM HeapTiled == Spec => []Tiled
BY HeapSafe, HeapIsTiled, PTL

\* eh_free leaves no free block next to another, and the free list has all free
\* blocks in the order of their offsets.
THEOREM HeapCoalesced == Spec => []Coalesced
BY HeapSafe, HeapIsCoalesced, PTL
=============================================================================
