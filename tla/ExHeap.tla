------------------------------- MODULE ExHeap -------------------------------
(***************************************************************************)
(* The external heap (src/exheap.c) that shares out the video memory among    *)
(* textures (libs/draw/texture.c).  Two lists hold its blocks: all of them,    *)
(* by offset, and the free ones.  A used block's record is in its texture; a   *)
(* free block's is written into the free memory itself, where the block        *)
(* started at the time (texture.c:77-83).                                      *)
(*                                                                          *)
(* A call of the heap is one step.  vid_sbrk gives all the memory at once.     *)
(* Names, formats and locks of textures are left out; a texture whose reader   *)
(* fails is freed like one that is destroyed.                                  *)
(***************************************************************************)
EXTENDS Integers, Sequences, SequencesExt

CONSTANTS
  Textures,
  Sizes,           \* of textures
  Total,           \* what vid_sbrk returns: the video memory behind texture_base
  MinFree,         \* MIN_FREEBLOCK_SZ, the size of a record
  SmallThreshold,  \* small_threshold: smaller blocks are taken at the end of memory
  NULL

ASSUME ExHeapAssumption ==
  /\ Total \in Nat /\ SmallThreshold \in Nat /\ MinFree \in Nat \ {0}
  /\ Sizes \subseteq {n \in Nat : n >= MinFree}
  /\ NULL \notin Textures

VARIABLES
  list,      \* the blocks: the texture or NULL, the offset, and for a free block its record's place
  freelist,  \* the records of the free blocks, by their places
  total_sz,
  size       \* what each texture asked for, 0 when it has no block

vars == <<list, freelist, total_sz, size>>

\* eh_create_heap
Init ==
  /\ list = <<>> /\ freelist = <<>> /\ total_sz = 0
  /\ size = [t \in Textures |-> 0]

-----------------------------------------------------------------------------

Used(t, offset) == [tex |-> t, offset |-> offset, at |-> 0]
Free(offset) == [tex |-> NULL, offset |-> offset, at |-> offset]

IsFree(i) == i \in DOMAIN list /\ list[i].tex = NULL
End(i) == IF i < Len(list) THEN list[i + 1].offset ELSE total_sz

\* The n-th free block is the i-th block; its place in list, and its size.
Listed(n, i) == IsFree(i) /\ list[i].at = freelist[n]
Place(n) == CHOOSE i \in DOMAIN list : Listed(n, i)
Room(n) == End(Place(n)) - list[Place(n)].offset

\* do_alloc of sz bytes for texture t in the n-th free block of frees, which is
\* the i-th of blocks and has bsz bytes.
DoAlloc(blocks, frees, i, n, bsz, t, sz) ==
  LET b == blocks[i] IN
  IF bsz - sz < MinFree
    THEN /\ list' = [blocks EXCEPT ![i] = Used(t, b.offset)]
         /\ freelist' = RemoveAt(frees, n)
    ELSE IF sz < SmallThreshold
    THEN /\ list' = InsertAt(blocks, i + 1, Used(t, b.offset + bsz - sz))
         /\ freelist' = frees
    ELSE /\ list' = InsertAt([blocks EXCEPT ![i] = Used(t, b.offset)], i + 1, Free(b.offset + sz))
         /\ freelist' = [frees EXCEPT ![n] = b.offset + sz]

Fits(sz) == {n \in DOMAIN freelist : Room(n) >= sz}

\* The first fit from the start, or from the end for a small block.
TakeFree(t, sz) ==
  /\ \E n \in Fits(sz) :
       /\ \A m \in Fits(sz) : IF sz < SmallThreshold THEN m <= n ELSE n <= m
       /\ DoAlloc(list, freelist, Place(n), n, Room(n), t, sz)
  /\ UNCHANGED total_sz

Grow_AsAsked(t, sz) ==
  /\ Fits(sz) = {}
  /\ freelist # <<>> => Place(Len(freelist)) # Len(list)
  /\ Total - total_sz >= sz
  /\ total_sz' = total_sz + sz
  /\ DoAlloc(Append(list, Free(total_sz)), Append(freelist, total_sz),
             Len(list) + 1, Len(freelist) + 1, Total - total_sz, t, sz)

\* No room: the heap grows by what vid_sbrk gives, which is nothing but for the
\* first time, into a new block at the end.
Grow(t, sz) ==
  /\ Fits(sz) = {}
  /\ freelist # <<>> => Place(Len(freelist)) # Len(list)
  /\ Total - total_sz >= sz
  /\ total_sz' = Total
  /\ DoAlloc(Append(list, Free(total_sz)), Append(freelist, total_sz),
             Len(list) + 1, Len(freelist) + 1, Total - total_sz, t, sz)

\* texture_create and texture_dup, when eh_alloc succeeds
Alloc(t, sz) ==
  /\ size[t] = 0 /\ size' = [size EXCEPT ![t] = sz]
  /\ TakeFree(t, sz) \/ Grow(t, sz)

FreeAfter(i) ==
  LET before == {n \in DOMAIN freelist : Place(n) < i} IN
  InsertAt(freelist, Cardinality(before) + 1, list[i].offset)

Merge_KeepsOffset(i) ==
  IF IsFree(i - 1)
    THEN IF IsFree(i + 1)
           THEN /\ list' = RemoveAt(RemoveAt(list, i), i)
                /\ \E n \in DOMAIN freelist : Listed(n, i + 1) /\ freelist' = RemoveAt(freelist, n)
           ELSE /\ list' = RemoveAt(list, i) /\ UNCHANGED freelist
    ELSE IF IsFree(i + 1)
           THEN /\ list' = RemoveAt(list, i)
                /\ UNCHANGED freelist
           ELSE /\ list' = [list EXCEPT ![i] = Free(list[i].offset)]
                /\ freelist' = FreeAfter(i)

Merge_OneSide(i) ==
  IF IsFree(i - 1)
    THEN list' = RemoveAt(list, i) /\ UNCHANGED freelist
    ELSE IF IsFree(i + 1)
           THEN /\ list' = RemoveAt([list EXCEPT ![i + 1].offset = list[i].offset], i)
                /\ UNCHANGED freelist
           ELSE /\ list' = [list EXCEPT ![i] = Free(list[i].offset)]
                /\ freelist' = FreeAfter(i)

\* eh_free: merged with the free block before it, with that and the one after,
\* with the one after alone, or with none.
Merge(i) ==
  IF IsFree(i - 1)
    THEN IF IsFree(i + 1)
           THEN /\ list' = RemoveAt(RemoveAt(list, i), i)
                /\ \E n \in DOMAIN freelist : Listed(n, i + 1) /\ freelist' = RemoveAt(freelist, n)
           ELSE /\ list' = RemoveAt(list, i) /\ UNCHANGED freelist
    ELSE IF IsFree(i + 1)
           THEN /\ list' = RemoveAt([list EXCEPT ![i + 1].offset = list[i].offset], i)
                /\ UNCHANGED freelist
           ELSE /\ list' = [list EXCEPT ![i] = Free(list[i].offset)]
                /\ freelist' = FreeAfter(i)

\* texture_destroy, and texture_create whose reader fails
Destroy(t) ==
  /\ size[t] # 0 /\ size' = [size EXCEPT ![t] = 0]
  /\ \E i \in DOMAIN list : list[i].tex = t /\ Merge(i)
  /\ UNCHANGED total_sz

\* A texture's bytes over the record of a free block: what the heap does with
\* what is left of the record, nobody can say.
Overwritten ==
  \E i, j \in DOMAIN list :
    /\ IsFree(i) /\ ~IsFree(j)
    /\ list[j].offset < list[i].at + MinFree
    /\ list[i].at < list[j].offset + size[list[j].tex]

Next ==
  /\ ~Overwritten
  /\ \E t \in Textures : Destroy(t) \/ \E sz \in Sizes : Alloc(t, sz)

Spec == Init /\ [][Next]_vars

-----------------------------------------------------------------------------

TypeOK ==
  /\ list \in Seq([tex : Textures \cup {NULL}, offset : 0..Total, at : 0..Total])
  /\ freelist \in Seq(0..Total)
  /\ total_sz \in {0, Total}
  /\ size \in [Textures -> Sizes \cup {0}]

\* Blocks follow each other without gap or overlap from 0 to the end of the
\* memory, every texture has one, and its block has the bytes it asked for: no
\* two textures share a byte.
Tiled ==
  /\ list = <<>> <=> total_sz = 0
  /\ list # <<>> => list[1].offset = 0
  /\ \A i \in DOMAIN list :
       /\ list[i].offset < End(i)
       /\ ~IsFree(i) => size[list[i].tex] \in 1..(End(i) - list[i].offset)
  /\ \A t \in Textures : size[t] # 0 <=> \E i \in DOMAIN list : list[i].tex = t
  /\ \A i, j \in DOMAIN list : list[i].tex = list[j].tex /\ i # j => IsFree(i)

\* Free memory is in as few blocks as can be: none touches another, and the list
\* that allocations search has them all in the order of their offsets.
Coalesced ==
  /\ \A i \in DOMAIN list : ~(IsFree(i) /\ IsFree(i + 1))
  /\ \A i \in DOMAIN list : IsFree(i) => \E n \in DOMAIN freelist : Listed(n, i)
  /\ \A n \in DOMAIN freelist : \E i \in DOMAIN list : Listed(n, i)
  /\ \A m, n \in DOMAIN freelist : \A i, j \in DOMAIN list :
       Listed(m, i) /\ Listed(n, j) => (m < n <=> i < j)

\* "use video memory to maintain free blocks structure" (texture.c:81): nothing
\* else is written there.
RecordsKept == ~Overwritten
=============================================================================
