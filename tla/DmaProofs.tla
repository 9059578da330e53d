----------------------------- MODULE DmaProofs -----------------------------
(***************************************************************************)
(* Module Dma for any clients, batches and pool.  DmaInv adds to the         *)
(* properties which chains each client holds (Holding) and where each of     *)
(* them is (Progress): queued, transferred or done, in one queue and once.   *)
(***************************************************************************)
EXTENDS Dma, TLAPS, FiniteSetTheorems

LEMMA NoneQueued == Queued(<<>>) = {} /\ Distinct(<<>>)
  BY DEF Queued, Distinct

\* A queue with a new head.
LEMMA Pushed ==
  ASSUME NEW S, NEW q \in Seq(S), NEW c \in S
  PROVE /\ <<c>> \o q \in Seq(S)
        /\ Queued(<<c>> \o q) = {c} \cup Queued(q)
        /\ Distinct(q) /\ c \notin Queued(q) => Distinct(<<c>> \o q)
<1> DEFINE p == <<c>> \o q
<1>1. p \in Seq(S) /\ Len(p) = Len(q) + 1 /\ p[1] = c
  OBVIOUS
<1>2. \A i \in 1..Len(q) : p[i + 1] = q[i]
  OBVIOUS
<1>3. \A i \in 1..Len(p) : i = 1 \/ (i - 1 \in 1..Len(q) /\ p[i] = q[i - 1])
  BY <1>1, <1>2
<1>4. Len(q) \in Nat
  OBVIOUS
<1> HIDE DEF p
<1>5. Queued(p) = {c} \cup Queued(q)
  <2>1. Queued(p) \subseteq {c} \cup Queued(q)
    BY <1>1, <1>3 DEF Queued
  <2>2. c \in Queued(p)
    BY <1>1, <1>4 DEF Queued
  <2>3. \A i \in 1..Len(q) : i + 1 \in 1..Len(p)
    BY <1>1, <1>4
  <2>4. Queued(q) \subseteq Queued(p)
    BY <1>2, <2>3 DEF Queued
  <2> QED
    BY <2>1, <2>2, <2>4
<1>6. ASSUME Distinct(q), c \notin Queued(q) PROVE Distinct(p)
  <2> SUFFICES ASSUME NEW i \in 1..Len(p), NEW j \in 1..Len(p), p[i] = p[j] PROVE i = j
    BY DEF Distinct
  <2>1. \A k \in 1..Len(q) : q[k] # c
    BY <1>6 DEF Queued
  <2> QED
    <3>1. CASE i = 1 \/ j = 1
      BY <3>1, <1>1, <1>3, <2>1
    <3>2. CASE i # 1 /\ j # 1
      <4>1. i - 1 \in 1..Len(q) /\ j - 1 \in 1..Len(q) /\ q[i - 1] = q[j - 1]
        BY <3>2, <1>3
      <4>2. i - 1 = j - 1
        BY <4>1, <1>6 DEF Distinct
      <4> QED
        BY <4>2, <1>1, <1>4
    <3> QED
      BY <3>1, <3>2
<1> QED
  BY <1>1, <1>5, <1>6 DEF p

\* A queue without its head.
LEMMA Popped ==
  ASSUME NEW S, NEW q \in Seq(S), q # <<>>
  PROVE /\ Head(q) \in S /\ Tail(q) \in Seq(S)
        /\ Queued(q) = {Head(q)} \cup Queued(Tail(q))
        /\ Distinct(q) => Distinct(Tail(q)) /\ Head(q) \notin Queued(Tail(q))
<1> DEFINE h == Head(q)
           r == Tail(q)
<1>1. /\ h \in S /\ r \in Seq(S) /\ q = <<h>> \o r
      /\ h = q[1] /\ Len(r) = Len(q) - 1 /\ Len(q) \in Nat \ {0}
  OBVIOUS
<1>2. \A i \in 1..Len(r) : i + 1 \in 1..Len(q) /\ r[i] = q[i + 1]
  OBVIOUS
<1>3. Queued(<<h>> \o r) = {h} \cup Queued(r)
  BY <1>1, Pushed
<1> HIDE DEF h, r
<1>4. ASSUME Distinct(q) PROVE Distinct(r) /\ h \notin Queued(r)
  <2>1. Distinct(r)
    <3> SUFFICES ASSUME NEW i \in 1..Len(r), NEW j \in 1..Len(r), r[i] = r[j] PROVE i = j
      BY DEF Distinct
    <3>1. i + 1 = j + 1
      BY <1>2, <1>4 DEF Distinct
    <3> QED
      BY <3>1, <1>1
  <2>2. \A i \in 1..Len(r) : r[i] # h
    BY <1>1, <1>2, <1>4 DEF Distinct
  <2> QED
    BY <2>1, <2>2 DEF Queued
<1> QED
  BY <1>1, <1>3, <1>4 DEF h, r

-----------------------------------------------------------------------------
LEMMA DmaInitInv == DmaInit => DmaInv
<1> SUFFICES ASSUME DmaInit PROVE DmaInv
  OBVIOUS
<1> USE DmaAssumption
<1>1. DmaTypeOK
  <2>1. \A t \in Clients : /\ thread[t] = [pc |-> "alloc", i |-> 1] /\ 1 \in Slots(t)
                           /\ chains[t] = [i \in Slots(t) |-> NULL]
    BY DEF DmaInit, Slots
  <2>2. \A t \in Clients : /\ thread[t] \in [pc : {"alloc", "push", "wait", "free"}, i : Slots(t)]
                           /\ chains[t] \in [Slots(t) -> Chains \cup {NULL}]
    <3> SUFFICES ASSUME NEW t \in Clients
                 PROVE /\ thread[t] \in [pc : {"alloc", "push", "wait", "free"}, i : Slots(t)]
                       /\ chains[t] \in [Slots(t) -> Chains \cup {NULL}]
      OBVIOUS
    <3>1. thread[t] \in [pc : {"alloc", "push", "wait", "free"}, i : Slots(t)]
      <4>1. thread[t] = [pc |-> "alloc", i |-> 1] /\ 1 \in Slots(t)
        BY <2>1
      <4> QED
        BY <4>1
    <3>2. chains[t] = [i \in Slots(t) |-> NULL]
      BY <2>1
    <3>3. chains[t] \in [Slots(t) -> Chains \cup {NULL}]
      BY <3>2
    <3> QED
      BY <3>1, <3>3
  <2>3. <<>> \in Seq(Chains)
    OBVIOUS
  <2> QED
    BY <2>2, <2>3 DEF DmaInit, DmaTypeOK
<1>2. Accounted
  BY NoneQueued DEF DmaInit, Accounted, Slots
<1>3. Holding /\ Progress /\ Blocking
  BY DEF DmaInit, Holding, Progress, Blocking, Slots
<1> QED
  BY <1>1, <1>2, <1>3 DEF DmaInv

-----------------------------------------------------------------------------
\* Steps.

\* The chain client t is at.
LEMMA AtChain ==
  ASSUME DmaInv, NEW t \in Clients, thread[t].pc # "alloc"
  PROVE /\ thread[t].i \in Slots(t)
        /\ Mine(t) \in Chains \ free /\ Mine(t) = chains[t][thread[t].i]
        /\ Mine(t) # NULL
        /\ \A u \in Clients : \A j \in Slots(u) :
             chains[u][j] = Mine(t) => u = t /\ j = thread[t].i
        /\ IF thread[t].pc \in {"push", "free"}
             THEN sema[Mine(t)] = 0 /\ Unqueued(Mine(t))
             ELSE Waiting(t, Mine(t))
<1>1. thread[t].i \in Slots(t) /\ thread[t].i \in Nat
  BY DmaAssumption DEF DmaInv, DmaTypeOK, Slots
<1>2. thread[t].pc \in {"push", "wait", "free"}
  BY DEF DmaInv, DmaTypeOK
<1>3. Mine(t) # NULL
  BY <1>1, <1>2 DEF DmaInv, Holding, Mine
<1>4. Mine(t) \in Chains
  BY <1>1, <1>3 DEF DmaInv, DmaTypeOK, Mine
<1>5. Mine(t) \notin free
  BY <1>1, <1>4 DEF DmaInv, Accounted, Mine
<1>6. \A u \in Clients : \A j \in Slots(u) : chains[u][j] = Mine(t) => u = t /\ j = thread[t].i
  BY <1>1, <1>3 DEF DmaInv, Accounted, Mine
<1>7. IF thread[t].pc \in {"push", "free"}
        THEN sema[Mine(t)] = 0 /\ Unqueued(Mine(t))
        ELSE Waiting(t, Mine(t))
  BY <1>1, <1>3 DEF DmaInv, Progress, Mine
<1> QED
  BY <1>1, <1>3, <1>4, <1>5, <1>6, <1>7 DEF Mine

\* What a client does next is one of its steps.
LEMMA FollowingType ==
  ASSUME DmaInv, NEW t \in Clients,
         NEW a \in {"alloc", "push", "wait", "free"}, NEW b \in {"alloc", "push", "wait", "free"}
  PROVE Following(t, a, b) \in [pc : {"alloc", "push", "wait", "free"}, i : Slots(t)]
  BY DmaAssumption DEF DmaInv, DmaTypeOK, Following, Slots

LEMMA AllocStep ==
  ASSUME DmaInv, NEW t \in Clients, Alloc(t) PROVE DmaInv'
<1> PICK c \in free : /\ free' = free \ {c}
                      /\ chains' = [chains EXCEPT ![t][thread[t].i] = c]
  BY DEF Alloc
<1> DEFINE n == thread[t].i
<1>1. /\ thread[t].pc = "alloc" /\ thread' = [thread EXCEPT ![t].pc = "push"]
      /\ UNCHANGED <<queues, sema, moved>>
  BY DEF Alloc
<1>2. n \in Slots(t) /\ n \in Nat
  BY DmaAssumption DEF DmaInv, DmaTypeOK, Slots
<1>3. c \in Chains /\ c # NULL /\ sema[c] = 0 /\ Unqueued(c)
  BY DmaAssumption DEF DmaInv, DmaTypeOK, Accounted, Unqueued
<1>4. \A u \in Clients : \A i \in Slots(u) : chains[u][i] # c
  BY <1>3 DEF DmaInv, Accounted
<1>5. /\ DOMAIN chains' = Clients /\ DOMAIN thread' = Clients
      /\ \A u \in Clients : u # t => chains'[u] = chains[u] /\ thread'[u] = thread[u]
      /\ chains'[t] = [chains[t] EXCEPT ![n] = c]
      /\ chains'[t][n] = c
      /\ \A i \in Slots(t) : i # n => chains'[t][i] = chains[t][i]
      /\ thread'[t] = [thread[t] EXCEPT !.pc = "push"]
      /\ thread'[t].pc = "push" /\ thread'[t].i = n
  BY <1>1, <1>2 DEF DmaInv, DmaTypeOK
<1>6. DmaTypeOK'
  BY <1>1, <1>2, <1>3, <1>5 DEF DmaInv, DmaTypeOK, queues, Slots
<1>7. Accounted'
  <2>1. \A u, v \in Clients : \A i \in Slots(u), j \in Slots(v) :
          chains'[u][i] # NULL /\ chains'[u][i] = chains'[v][j] => u = v /\ i = j
    BY <1>3, <1>4, <1>5 DEF DmaInv, Accounted
  <2>2. \A d \in Chains : d \in free' <=> \A u \in Clients : \A i \in Slots(u) : chains'[u][i] # d
    <3> SUFFICES ASSUME NEW d \in Chains
                 PROVE d \in free' <=> \A u \in Clients : \A i \in Slots(u) : chains'[u][i] # d
      OBVIOUS
    <3>0. chains[t][n] = NULL
      BY <1>1, <1>2 DEF DmaInv, Holding
    <3>1. CASE d = c
      BY <3>1, <1>2, <1>5
    <3>2. CASE d # c
      BY <3>0, <3>2, <1>2, <1>5, DmaAssumption DEF DmaInv, Accounted
    <3> QED
      BY <3>1, <3>2
  <2> QED
    BY <2>1, <2>2, <1>1, <1>5 DEF DmaInv, Accounted, queues, Mine, Slots
<1>8. Holding'
  BY <1>1, <1>2, <1>3, <1>5 DEF DmaInv, Holding, Slots
<1>9. Progress' /\ Blocking'
  BY <1>1, <1>2, <1>3, <1>5 DEF DmaInv, Progress, Blocking, Slots, queues, Waiting, Unqueued
<1> QED
  BY <1>6, <1>7, <1>8, <1>9 DEF DmaInv

\* Where a chain is does not change with what happens to the others.
LEMMA Stays ==
  ASSUME NEW d \in Chains,
         sema'[d] = sema[d], moved[d] => moved'[d],
         d = spu' <=> d = spu, d = vram' <=> d = vram,
         d \in Queued(spu_chain_head)' <=> d \in Queued(spu_chain_head),
         d \in Queued(chain_head)' <=> d \in Queued(chain_head)
  PROVE /\ Unqueued(d)' <=> Unqueued(d)
        /\ \A t \in Clients : Waiting(t, d) => Waiting(t, d)'
  BY DEF Unqueued, Waiting

\* A client holds a chain that is queued or transferred, which is not yet done.
LEMMA Queuing ==
  ASSUME DmaInv, NEW c \in Chains, ~Unqueued(c)
  PROVE /\ c # NULL /\ c \notin free /\ sema[c] = 0
        /\ \A t \in Clients : \A i \in Slots(t) : chains[t][i] = c =>
             Waiting(t, c) /\ ~(thread[t].pc \in {"push", "free"} /\ i = thread[t].i)
        /\ \E t \in Clients : \E i \in Slots(t) : chains[t][i] = c
<1>1. c # NULL
  BY DmaAssumption
<1>2. c \notin free
  BY DEF DmaInv, Accounted, Unqueued
<1>3. \A t \in Clients : \A i \in Slots(t) : chains[t][i] = c =>
        Waiting(t, c) /\ ~(thread[t].pc \in {"push", "free"} /\ i = thread[t].i)
  BY <1>1 DEF DmaInv, Progress
<1>4. \E t \in Clients : \E i \in Slots(t) : chains[t][i] = c
  BY <1>2 DEF DmaInv, Accounted
<1>5. sema[c] = 0
  BY <1>3, <1>4 DEF Waiting
<1> QED
  BY <1>1, <1>2, <1>3, <1>4, <1>5

LEMMA InitiateStep ==
  ASSUME DmaInv, NEW t \in Clients, Initiate(t) PROVE DmaInv'
<1> DEFINE n == thread[t].i
<1>0. PICK c \in Chains : c = Mine(t)
  BY AtChain DEF Initiate
<1>1. /\ thread[t].pc = "push" /\ UNCHANGED <<free, sema, chains, moved>>
      /\ thread' = [thread EXCEPT ![t] = Following(t, "alloc", "wait")]
  BY DEF Initiate
<1>2. /\ n \in Slots(t) /\ c \in Chains \ free /\ c = chains[t][n] /\ c # NULL
      /\ \A u \in Clients : \A j \in Slots(u) : chains[u][j] = c => u = t /\ j = n
      /\ sema[c] = 0 /\ Unqueued(c)
  BY <1>0, <1>1, AtChain
<1>3. /\ DOMAIN thread' = Clients
      /\ \A u \in Clients : u # t => thread'[u] = thread[u]
      /\ thread'[t] = Following(t, "alloc", "wait")
      /\ thread'[t] \in [pc : {"alloc", "push", "wait", "free"}, i : Slots(t)]
      /\ thread'[t].pc \in {"alloc", "wait"}
  BY <1>1, FollowingType DEF DmaInv, DmaTypeOK, Following
<1>4. /\ thread'[t].pc = "alloc" => thread'[t].i = n + 1
      /\ thread'[t].pc = "wait" => thread'[t].i = 1 /\ n = Batch[t]
      /\ n \in Nat /\ Batch[t] \in Nat /\ n \in 1..Batch[t]
  BY <1>2, <1>3, DmaAssumption DEF Following, Slots
<1>5. /\ spu_chain_head' \in Seq(Chains) /\ chain_head' \in Seq(Chains)
      /\ spu' \in Chains \cup {NULL} /\ vram' = vram
      /\ ta_block_render' = ta_block_render /\ ta_render_done_cb' \in BOOLEAN
      /\ Distinct(spu_chain_head') /\ Distinct(chain_head')
      /\ Waiting(t, c)'
      /\ \A d \in Chains \ {c} : /\ d = spu' <=> d = spu
                                 /\ d \in Queued(spu_chain_head') <=> d \in Queued(spu_chain_head)
                                 /\ d \in Queued(chain_head') <=> d \in Queued(chain_head)
  <2>0. /\ c \notin Queued(spu_chain_head) /\ c \notin Queued(chain_head) /\ c # spu /\ c # vram
        /\ Distinct(spu_chain_head) /\ Distinct(chain_head) /\ sema'[c] = 0
        /\ spu_chain_head \in Seq(Chains) /\ chain_head \in Seq(Chains)
        /\ spu \in Chains \cup {NULL} /\ ta_render_done_cb \in BOOLEAN
    BY <1>1, <1>2 DEF Unqueued, DmaInv, Accounted, DmaTypeOK
  <2>1. CASE Kind[t] = "SPU" /\ spu = NULL
    <3>1. spu' = c /\ UNCHANGED <<spu_chain_head, chain_head, vram, ta_block_render, ta_render_done_cb>>
      BY <1>0, <2>1 DEF Initiate, PushSpu
    <3> QED
      BY <2>0, <2>1, <3>1, <1>2, DmaAssumption DEF Waiting
  <2>2. CASE Kind[t] = "SPU" /\ spu # NULL
    <3>1. /\ spu_chain_head' = <<c>> \o spu_chain_head
          /\ UNCHANGED <<spu, chain_head, vram, ta_block_render, ta_render_done_cb>>
      BY <1>0, <2>2 DEF Initiate, PushSpu
    <3>2. /\ spu_chain_head' \in Seq(Chains) /\ Distinct(spu_chain_head')
          /\ Queued(spu_chain_head') = {c} \cup Queued(spu_chain_head)
      BY <2>0, <3>1, <1>2, Pushed
    <3> QED
      BY <2>0, <2>2, <3>1, <3>2, <1>2 DEF Waiting
  <2>3. CASE Kind[t] # "SPU"
    <3>1. /\ chain_head' = <<c>> \o chain_head /\ ta_render_done_cb' = TRUE
          /\ UNCHANGED <<spu, spu_chain_head, vram, ta_block_render>>
      BY <1>0, <2>3 DEF Initiate, PushVram
    <3>2. /\ chain_head' \in Seq(Chains) /\ Distinct(chain_head')
          /\ Queued(chain_head') = {c} \cup Queued(chain_head)
      BY <2>0, <3>1, <1>2, Pushed
    <3> QED
      BY <2>0, <2>3, <3>1, <3>2, <1>2 DEF Waiting
  <2> QED
    BY <2>1, <2>2, <2>3
<1> HIDE DEF n
<1>6. DmaTypeOK'
  BY <1>1, <1>3, <1>5 DEF DmaInv, DmaTypeOK, Slots
<1>7. Accounted'
  <2>1. \A d \in free : /\ sema[d] = 0 /\ d \notin {spu', vram'}
                        /\ d \notin Queued(spu_chain_head') \cup Queued(chain_head')
    BY <1>2, <1>5 DEF DmaInv, Accounted, DmaTypeOK
  <2>2. \A u \in Clients : thread'[u].pc = "free" => moved[chains[u][thread'[u].i]]
    BY <1>3 DEF DmaInv, Accounted, Mine
  <2> QED
    BY <2>1, <2>2, <1>1, <1>5 DEF DmaInv, Accounted, Mine, Slots, Queued, Distinct
<1>8. Holding'
  <2> SUFFICES ASSUME NEW u \in Clients, NEW i \in Slots(u)
               PROVE chains[u][i] # NULL <=> CASE thread'[u].pc = "alloc" -> i < thread'[u].i
                                               [] thread'[u].pc = "push"  -> i <= thread'[u].i
                                               [] OTHER                  -> i >= thread'[u].i
    BY <1>1 DEF Holding, Slots
  <2>1. CASE u # t
    BY <2>1, <1>3 DEF DmaInv, Holding
  <2>2. CASE u = t
    <3>1. chains[t][i] # NULL <=> i <= n
      BY <2>2, <1>1 DEF DmaInv, Holding, n
    <3> QED
      BY <2>2, <3>1, <1>3, <1>4 DEF Slots
  <2> QED
    BY <2>1, <2>2
<1>9. Progress'
  <2> SUFFICES ASSUME NEW u \in Clients, NEW i \in Slots(u), chains[u][i] # NULL
               PROVE IF thread'[u].pc \in {"push", "free"} /\ i = thread'[u].i
                       THEN sema[chains[u][i]] = 0 /\ Unqueued(chains[u][i])'
                       ELSE Waiting(u, chains[u][i])'
    BY <1>1 DEF Progress, Slots
  <2>1. CASE u = t /\ i = n
    BY <2>1, <1>1, <1>2, <1>3, <1>5
  <2>2. CASE u # t \/ i # n
    <3>1. chains[u][i] \in Chains \ {c}
      BY <2>2, <1>2 DEF DmaInv, DmaTypeOK
    <3>2. /\ Unqueued(chains[u][i])' <=> Unqueued(chains[u][i])
          /\ Waiting(u, chains[u][i]) => Waiting(u, chains[u][i])'
      BY <3>1, <1>1, <1>5, Stays
    <3>3. CASE u # t
      BY <3>2, <3>3, <1>3 DEF DmaInv, Progress
    <3>4. CASE u = t
      BY <2>2, <3>2, <3>4, <1>3 DEF DmaInv, Progress, n
    <3> QED
      BY <3>3, <3>4
  <2> QED
    BY <2>1, <2>2
<1>10. Blocking'
  BY <1>5 DEF DmaInv, Blocking
<1> QED
  BY <1>6, <1>7, <1>8, <1>9, <1>10 DEF DmaInv

LEMMA SameQueues ==
  ASSUME UNCHANGED queues
  PROVE /\ Queued(spu_chain_head)' = Queued(spu_chain_head)
        /\ Queued(chain_head)' = Queued(chain_head)
        /\ Distinct(spu_chain_head)' <=> Distinct(spu_chain_head)
        /\ Distinct(chain_head)' <=> Distinct(chain_head)
        /\ spu' = spu /\ vram' = vram /\ ta_block_render' = ta_block_render
  BY DEF queues, Queued, Distinct

LEMMA WaitStep ==
  ASSUME DmaInv, NEW t \in Clients, Wait(t) PROVE DmaInv'
<1> DEFINE n == thread[t].i
<1>0. PICK c \in Chains : c = Mine(t)
  BY AtChain DEF Wait
<1>1. /\ thread[t].pc = "wait" /\ sema[c] > 0 /\ UNCHANGED <<free, queues, chains, moved>>
      /\ sema' = [sema EXCEPT ![c] = @ - 1]
      /\ thread' = [thread EXCEPT ![t].pc = "free"]
  BY <1>0 DEF Wait
<1>2. /\ n \in Slots(t) /\ c \in Chains \ free /\ c = chains[t][n] /\ c # NULL
      /\ \A u \in Clients : \A j \in Slots(u) : chains[u][j] = c => u = t /\ j = n
      /\ sema[c] = 1 /\ moved[c] /\ Unqueued(c)
  BY <1>0, <1>1, AtChain DEF Waiting
<1>3. /\ DOMAIN thread' = Clients
      /\ \A u \in Clients : u # t => thread'[u] = thread[u]
      /\ thread'[t] = [thread[t] EXCEPT !.pc = "free"]
      /\ thread'[t].pc = "free" /\ thread'[t].i = n
      /\ sema' \in [Chains -> Nat] /\ sema'[c] = 0
      /\ \A d \in Chains \ {c} : sema'[d] = sema[d]
  BY <1>1, <1>2 DEF DmaInv, DmaTypeOK
<1> HIDE DEF n
<1>4. DmaTypeOK'
  BY <1>1, <1>3 DEF DmaInv, DmaTypeOK, queues, Slots
<1>5. Accounted'
  <2>1. \A d \in free : sema'[d] = 0
    BY <1>2, <1>3 DEF DmaInv, Accounted, DmaTypeOK
  <2>2. \A u \in Clients : thread'[u].pc = "free" => moved[chains[u][thread'[u].i]]
    BY <1>2, <1>3 DEF DmaInv, Accounted, Mine
  <2>3. chains' = chains /\ free' = free /\ moved' = moved
    BY <1>1
  <2>4. \A d \in free' : /\ sema'[d] = 0 /\ d \notin {spu', vram'}
                         /\ d \notin Queued(spu_chain_head)' \cup Queued(chain_head)'
    BY <2>1, <2>3, <1>1, SameQueues DEF DmaInv, Accounted
  <2>5. Distinct(spu_chain_head)' /\ Distinct(chain_head)'
    BY <1>1, SameQueues DEF DmaInv, Accounted
  <2>6. \A u \in Clients : thread'[u].pc = "free" => moved'[chains'[u][thread'[u].i]]
    BY <2>2, <2>3
  <2> QED
    BY <2>3, <2>4, <2>5, <2>6 DEF DmaInv, Accounted, Mine, Slots
<1>6. Holding'
  BY <1>1, <1>3 DEF DmaInv, Holding, Slots, n
<1>7. Progress'
  <2> SUFFICES ASSUME NEW u \in Clients, NEW i \in Slots(u), chains'[u][i] # NULL
               PROVE (IF thread[u].pc \in {"push", "free"} /\ i = thread[u].i
                        THEN sema[chains[u][i]] = 0 /\ Unqueued(chains[u][i])
                        ELSE Waiting(u, chains[u][i]))'
    BY DEF Progress, Slots
  <2>0. PICK d \in Chains : d = chains'[u][i] /\ d # NULL
    <3>1. chains'[u] = chains[u] /\ chains[u] \in [Slots(u) -> Chains \cup {NULL}]
      BY <1>1 DEF DmaInv, DmaTypeOK
    <3> QED
      BY <3>1
  <2> SUFFICES IF thread'[u].pc \in {"push", "free"} /\ i = thread'[u].i
                 THEN sema'[d] = 0 /\ Unqueued(d)'
                 ELSE Waiting(u, d)'
    BY <2>0 DEF Unqueued, Waiting
  <2>1. CASE d = c
    <3>1. chains' = chains /\ UNCHANGED queues
      BY <1>1
    <3>2. u = t /\ i = n
      BY <2>0, <2>1, <3>1, <1>2
    <3>3. Unqueued(c)'
      BY <3>1, <1>2, SameQueues DEF Unqueued
    <3> QED
      BY <2>1, <3>2, <3>3, <1>3
  <2>2. CASE d # c
    <3>1. /\ Unqueued(d)' <=> Unqueued(d)
          /\ Waiting(u, d) => Waiting(u, d)'
      BY <2>2, <1>1, <1>3, Stays DEF queues
    <3>2. u # t \/ i # n
      BY <2>0, <2>2, <1>1, <1>2
    <3> QED
      BY <2>0, <2>2, <3>1, <3>2, <1>1, <1>3 DEF DmaInv, Progress, n
  <2> QED
    BY <2>1, <2>2
<1>8. Blocking'
  BY <1>1 DEF DmaInv, Blocking, queues
<1> QED
  BY <1>4, <1>5, <1>6, <1>7, <1>8 DEF DmaInv

LEMMA FreeStep ==
  ASSUME DmaInv, NEW t \in Clients, Free(t) PROVE DmaInv'
<1> DEFINE n == thread[t].i
<1>0. PICK c \in Chains : c = Mine(t)
  BY AtChain DEF Free
<1>1. /\ thread[t].pc = "free" /\ UNCHANGED <<queues, sema>>
      /\ free' = free \cup {c} /\ moved' = [moved EXCEPT ![c] = FALSE]
      /\ chains' = [chains EXCEPT ![t][thread[t].i] = NULL]
      /\ thread' = [thread EXCEPT ![t] = Following(t, "wait", "alloc")]
  BY <1>0 DEF Free
<1>2. /\ n \in Slots(t) /\ c \in Chains \ free /\ c = chains[t][n] /\ c # NULL
      /\ \A u \in Clients : \A j \in Slots(u) : chains[u][j] = c => u = t /\ j = n
      /\ sema[c] = 0 /\ Unqueued(c)
  BY <1>0, <1>1, AtChain
<1>3. /\ DOMAIN thread' = Clients /\ DOMAIN chains' = Clients
      /\ \A u \in Clients : u # t => thread'[u] = thread[u] /\ chains'[u] = chains[u]
      /\ thread'[t] = Following(t, "wait", "alloc")
      /\ thread'[t] \in [pc : {"alloc", "push", "wait", "free"}, i : Slots(t)]
      /\ thread'[t].pc \in {"wait", "alloc"}
  BY <1>1, FollowingType DEF DmaInv, DmaTypeOK, Following
<1>4. /\ thread'[t].pc = "wait" => thread'[t].i = n + 1
      /\ thread'[t].pc = "alloc" => thread'[t].i = 1 /\ n = Batch[t]
      /\ n \in Nat /\ Batch[t] \in Nat /\ n \in 1..Batch[t]
  BY <1>2, <1>3, DmaAssumption DEF Following, Slots
<1>5. /\ chains'[t] = [chains[t] EXCEPT ![n] = NULL]
      /\ chains'[t] \in [Slots(t) -> Chains \cup {NULL}]
      /\ chains'[t][n] = NULL
      /\ \A i \in Slots(t) : i # n => chains'[t][i] = chains[t][i]
      /\ moved' \in [Chains -> BOOLEAN]
      /\ \A d \in Chains \ {c} : moved'[d] = moved[d]
  BY <1>1, <1>2 DEF DmaInv, DmaTypeOK
<1> HIDE DEF n
<1>6. DmaTypeOK'
  BY <1>1, <1>2, <1>3, <1>5 DEF DmaInv, DmaTypeOK, queues, Slots
<1>7. \A u \in Clients : \A i \in Slots(u) :
        IF u = t /\ i = n THEN chains'[u][i] = NULL ELSE chains'[u][i] = chains[u][i] /\ chains[u][i] # c
  BY <1>2, <1>3, <1>5
<1>8. Accounted'
  <2>1. \A u, v \in Clients : \A i \in Slots(u), j \in Slots(v) :
          chains'[u][i] # NULL /\ chains'[u][i] = chains'[v][j] => u = v /\ i = j
    BY <1>7 DEF DmaInv, Accounted
  <2>2. \A d \in Chains : d \in free' <=> \A u \in Clients : \A i \in Slots(u) : chains'[u][i] # d
    <3> SUFFICES ASSUME NEW d \in Chains
                 PROVE d \in free' <=> \A u \in Clients : \A i \in Slots(u) : chains'[u][i] # d
      OBVIOUS
    <3>1. CASE d = c
      BY <3>1, <1>1, <1>2, <1>7
    <3>2. CASE d # c
      <4>1. d \in free' <=> d \in free
        BY <3>2, <1>1
      <4>2. d # NULL
        BY DmaAssumption
      <4>3. \A u \in Clients : \A i \in Slots(u) : chains'[u][i] = d <=> chains[u][i] = d
        BY <3>2, <4>2, <1>2, <1>7
      <4> QED
        BY <4>1, <4>3 DEF DmaInv, Accounted
    <3> QED
      BY <3>1, <3>2
  <2>3. \A d \in free' : /\ sema[d] = 0 /\ d \notin {spu, vram}
                         /\ d \notin Queued(spu_chain_head) \cup Queued(chain_head)
    BY <1>1, <1>2 DEF DmaInv, Accounted, Unqueued
  <2>4. \A u \in Clients : thread'[u].pc = "free" => moved'[chains'[u][thread'[u].i]]
    <3> SUFFICES ASSUME NEW u \in Clients, thread'[u].pc = "free"
                 PROVE moved'[chains'[u][thread'[u].i]]
      OBVIOUS
    <3>1. u # t /\ thread[u].pc = "free" /\ thread'[u].i = thread[u].i /\ chains'[u] = chains[u]
      BY <1>3
    <3>2. Mine(u) \in Chains /\ thread[u].i \in Slots(u) /\ Mine(u) = chains[u][thread[u].i]
      BY <3>1, AtChain
    <3>3. moved[Mine(u)]
      BY <3>1 DEF DmaInv, Accounted
    <3> QED
      BY <3>1, <3>2, <3>3, <1>5, <1>7
  <2> QED
    BY <2>1, <2>2, <2>3, <2>4, <1>1, SameQueues DEF DmaInv, Accounted, Mine, Slots
<1>9. Holding'
  <2> SUFFICES ASSUME NEW u \in Clients, NEW i \in Slots(u)
               PROVE chains'[u][i] # NULL <=> CASE thread'[u].pc = "alloc" -> i < thread'[u].i
                                                [] thread'[u].pc = "push"  -> i <= thread'[u].i
                                                [] OTHER                  -> i >= thread'[u].i
    BY DEF Holding, Slots
  <2>1. CASE u # t
    BY <2>1, <1>3 DEF DmaInv, Holding
  <2>2. CASE u = t
    <3>1. chains[t][i] # NULL <=> i >= n
      BY <2>2, <1>1 DEF DmaInv, Holding, n
    <3>2. chains'[t][i] # NULL <=> i > n
      BY <2>2, <3>1, <1>4, <1>5 DEF Slots
    <3> QED
      BY <2>2, <3>2, <1>3, <1>4 DEF Slots
  <2> QED
    BY <2>1, <2>2
<1>10. Progress'
  <2> SUFFICES ASSUME NEW u \in Clients, NEW i \in Slots(u), chains'[u][i] # NULL
               PROVE (IF thread[u].pc \in {"push", "free"} /\ i = thread[u].i
                        THEN sema[chains[u][i]] = 0 /\ Unqueued(chains[u][i])
                        ELSE Waiting(u, chains[u][i]))'
    BY DEF Progress, Slots
  <2>0. PICK d \in Chains : d = chains'[u][i] /\ d # NULL
    <3>1. chains[u] \in [Slots(u) -> Chains \cup {NULL}]
      BY DEF DmaInv, DmaTypeOK
    <3> QED
      BY <3>1, <1>7
  <2> SUFFICES IF thread'[u].pc \in {"push", "free"} /\ i = thread'[u].i
                 THEN sema'[d] = 0 /\ Unqueued(d)'
                 ELSE Waiting(u, d)'
    BY <2>0 DEF Unqueued, Waiting
  <2>1. (u # t \/ i # n) /\ d = chains[u][i] /\ d # c
    BY <2>0, <1>7
  <2>2. /\ Unqueued(d)' <=> Unqueued(d)
        /\ Waiting(u, d) => Waiting(u, d)'
    BY <2>1, <1>1, <1>5, Stays DEF queues
  <2> QED
    BY <2>0, <2>1, <2>2, <1>1, <1>3 DEF DmaInv, Progress, n
<1>11. Blocking'
  BY <1>1 DEF DmaInv, Blocking, queues
<1> QED
  BY <1>6, <1>8, <1>9, <1>10, <1>11 DEF DmaInv

\* An interrupt moves chains along their queues.
LEMMA InterruptStep ==
  ASSUME DmaInv, UNCHANGED <<free, thread, chains>>,
         spu_chain_head' \in Seq(Chains), chain_head' \in Seq(Chains),
         spu' \in Chains \cup {NULL}, vram' \in Chains \cup {NULL},
         ta_block_render' \in BOOLEAN, ta_render_done_cb' \in BOOLEAN,
         sema' \in [Chains -> Nat], moved' \in [Chains -> BOOLEAN],
         Distinct(spu_chain_head)', Distinct(chain_head)', Blocking',
         \A d \in Chains : /\ Unqueued(d) => Unqueued(d)' /\ sema'[d] = sema[d]
                           /\ moved[d] => moved'[d]
                           /\ \A t \in Clients : Waiting(t, d) => Waiting(t, d)'
  PROVE DmaInv'
<1>1. DmaTypeOK'
  BY DEF DmaInv, DmaTypeOK, Slots
<1>2. Accounted'
  <2>1. \A d \in free' : /\ sema'[d] = 0 /\ d \notin {spu', vram'}
                         /\ d \notin Queued(spu_chain_head)' \cup Queued(chain_head)'
    <3> SUFFICES ASSUME NEW d \in free
                 PROVE sema'[d] = 0 /\ Unqueued(d)'
      BY DEF Unqueued
    <3>1. d \in Chains /\ Unqueued(d) /\ sema[d] = 0
      BY DEF DmaInv, DmaTypeOK, Accounted, Unqueued
    <3> QED
      BY <3>1
  <2>2. \A t \in Clients : thread'[t].pc = "free" => moved'[chains'[t][thread'[t].i]]
    <3> SUFFICES ASSUME NEW t \in Clients, thread[t].pc = "free"
                 PROVE moved'[chains[t][thread[t].i]]
      OBVIOUS
    <3>1. moved[Mine(t)] /\ Mine(t) \in Chains /\ Mine(t) = chains[t][thread[t].i]
      BY AtChain DEF DmaInv, Accounted
    <3> QED
      BY <3>1
  <2>3. chains' = chains /\ free' = free
    OBVIOUS
  <2> QED
    BY <2>1, <2>2, <2>3 DEF DmaInv, Accounted, Mine, Slots
<1>3. Holding'
  BY DEF DmaInv, Holding, Slots
<1>4. Progress'
  <2> SUFFICES ASSUME NEW t \in Clients, NEW i \in Slots(t), chains'[t][i] # NULL
               PROVE (IF thread[t].pc \in {"push", "free"} /\ i = thread[t].i
                        THEN sema[chains[t][i]] = 0 /\ Unqueued(chains[t][i])
                        ELSE Waiting(t, chains[t][i]))'
    BY DEF Progress, Slots
  <2>1. PICK d \in Chains : d = chains[t][i] /\ d # NULL
    <3>1. chains[t] \in [Slots(t) -> Chains \cup {NULL}]
      BY DEF DmaInv, DmaTypeOK
    <3> QED
      BY <3>1
  <2> SUFFICES IF thread[t].pc \in {"push", "free"} /\ i = thread[t].i
                 THEN sema'[d] = 0 /\ Unqueued(d)'
                 ELSE Waiting(t, d)'
    BY <2>1 DEF Unqueued, Waiting
  <2> QED
    BY <2>1 DEF DmaInv, Progress
<1> QED
  BY <1>1, <1>2, <1>3, <1>4 DEF DmaInv

\* The end of the transfer of chain c.
LEMMA Completed ==
  ASSUME DmaInv, NEW c \in Chains, ~Unqueued(c), Complete(c), Unqueued(c)'
  PROVE /\ sema' \in [Chains -> Nat] /\ moved' \in [Chains -> BOOLEAN]
        /\ \A d \in Chains : moved[d] => moved'[d]
        /\ \A d \in Chains \ {c} : sema'[d] = sema[d]
        /\ \A t \in Clients : Waiting(t, c) => Waiting(t, c)'
<1>1. sema[c] = 0
  BY Queuing
<1>2. /\ sema' = [sema EXCEPT ![c] = @ + 1] /\ moved' = [moved EXCEPT ![c] = TRUE]
      /\ sema \in [Chains -> Nat] /\ moved \in [Chains -> BOOLEAN]
  BY DEF Complete, DmaInv, DmaTypeOK
<1>3. sema'[c] = 1 /\ moved'[c]
  BY <1>1, <1>2
<1>4. \A t \in Clients : Waiting(t, c)'
  BY <1>3 DEF Waiting
<1> QED
  BY <1>2, <1>4

LEMMA SpuDoneStep ==
  ASSUME DmaInv, SpuDone PROVE DmaInv'
<1>0. PICK c \in Chains : c = spu
  BY DEF SpuDone, DmaInv, DmaTypeOK
<1>1. /\ Complete(c) /\ ~Unqueued(c)
      /\ chain_head' = chain_head /\ vram' = vram
      /\ ta_block_render' = ta_block_render /\ ta_render_done_cb' = ta_render_done_cb
      /\ UNCHANGED <<free, thread, chains>>
  BY <1>0 DEF SpuDone, Complete, Unqueued
<1>2. /\ c # NULL /\ c # vram /\ c \notin Queued(chain_head) /\ c \notin Queued(spu_chain_head)
  BY <1>0, <1>1, Queuing DEF Waiting
<1>3. /\ spu_chain_head \in Seq(Chains) /\ chain_head \in Seq(Chains)
      /\ vram \in Chains \cup {NULL}
      /\ ta_block_render \in BOOLEAN /\ ta_render_done_cb \in BOOLEAN
      /\ Distinct(spu_chain_head) /\ Distinct(chain_head)
  BY DEF DmaInv, DmaTypeOK, Accounted
<1>4. Queued(chain_head)' = Queued(chain_head) /\ Distinct(chain_head)' /\ Blocking'
  BY <1>1, <1>3 DEF Queued, Distinct, DmaInv, Blocking
<1>5. \A d \in Chains \ {c} : sema'[d] = sema[d] /\ (moved[d] => moved'[d])
  BY <1>1 DEF Complete, DmaInv, DmaTypeOK
<1>6. CASE spu_chain_head = <<>>
  <2>1. spu' = NULL /\ spu_chain_head' = spu_chain_head
    BY <1>6 DEF SpuDone
  <2>2. Queued(spu_chain_head)' = Queued(spu_chain_head) /\ Distinct(spu_chain_head)'
    BY <2>1, <1>3 DEF Queued, Distinct
  <2>3. Unqueued(c)'
    BY <2>1, <2>2, <1>1, <1>2, <1>4 DEF Unqueued
  <2>4. \A d \in Chains : d # NULL
    BY DmaAssumption
  <2>5. \A d \in Chains \ {c} : /\ Unqueued(d)' <=> Unqueued(d)
                                /\ \A t \in Clients : Waiting(t, d) => Waiting(t, d)'
    BY <2>1, <2>2, <2>4, <1>0, <1>1, <1>4, <1>5, Stays
  <2> QED
    BY <2>1, <2>2, <2>3, <2>5, <1>1, <1>3, <1>4, <1>5, Completed, InterruptStep
<1>7. CASE spu_chain_head # <<>>
  <2> DEFINE q == spu_chain_head
  <2>1. spu' = Head(q) /\ spu_chain_head' = Tail(q)
    BY <1>7 DEF SpuDone
  <2>2. PICK h \in Chains : h = Head(q)
    BY <1>3, <1>7, Popped
  <2>3. /\ Tail(q) \in Seq(Chains) /\ Queued(q) = {h} \cup Queued(Tail(q))
        /\ Distinct(Tail(q)) /\ h \notin Queued(Tail(q))
    BY <2>2, <1>3, <1>7, Popped
  <2>4. Queued(spu_chain_head)' = Queued(Tail(q)) /\ Distinct(spu_chain_head)'
    BY <2>1, <2>3 DEF Queued, Distinct
  <2>5. h # c /\ ~Unqueued(h)
    BY <2>3, <1>2 DEF Unqueued
  <2>6. Unqueued(c)'
    BY <2>1, <2>2, <2>3, <2>4, <2>5, <1>1, <1>2, <1>4 DEF Unqueued
  <2>7. \A t \in Clients : Waiting(t, h) => Waiting(t, h)'
    BY <2>1, <2>2, <2>3, <2>4, <2>5, <1>1, <1>4, <1>5 DEF Waiting
  <2>8. \A d \in Chains \ {c, h} : /\ Unqueued(d)' <=> Unqueued(d)
                                   /\ \A t \in Clients : Waiting(t, d) => Waiting(t, d)'
    BY <2>1, <2>2, <2>3, <2>4, <1>0, <1>1, <1>4, <1>5, Stays
  <2> QED
    BY <2>1, <2>2, <2>3, <2>4, <2>5, <2>6, <2>7, <2>8, <1>1, <1>3, <1>4, <1>5, Completed, InterruptStep
<1> QED
  BY <1>6, <1>7

\* NextVram, when no transfer runs (c = NULL) or that of chain c is done.
LEMMA NextVramStep ==
  ASSUME DmaInv, NEW c, c = vram, NextVram, UNCHANGED <<spu_chain_head, spu>>,
         \A d \in Chains \ {c} : sema'[d] = sema[d] /\ (moved[d] => moved'[d])
  PROVE /\ chain_head' \in Seq(Chains) /\ vram' \in Chains \cup {NULL} /\ ta_block_render' \in BOOLEAN
        /\ Distinct(spu_chain_head)' /\ Distinct(chain_head)' /\ Blocking'
        /\ c # NULL => Unqueued(c)'
        /\ \A d \in Chains \ {c} : /\ Unqueued(d) => Unqueued(d)'
                                   /\ \A t \in Clients : Waiting(t, d) => Waiting(t, d)'
<1>1. /\ spu_chain_head \in Seq(Chains) /\ chain_head \in Seq(Chains)
      /\ c \in Chains \cup {NULL} /\ ta_block_render \in BOOLEAN
      /\ Distinct(spu_chain_head) /\ Distinct(chain_head)
  BY DEF DmaInv, DmaTypeOK, Accounted
<1>2. /\ Queued(spu_chain_head)' = Queued(spu_chain_head) /\ Distinct(spu_chain_head)'
      /\ spu' = spu
  BY <1>1 DEF Queued, Distinct
<1>3. c # NULL => c # spu /\ c \notin Queued(chain_head) /\ c \notin Queued(spu_chain_head)
  <2> SUFFICES ASSUME c # NULL
               PROVE c # spu /\ c \notin Queued(chain_head) /\ c \notin Queued(spu_chain_head)
    OBVIOUS
  <2>1. c \in Chains /\ ~Unqueued(c)
    BY <1>1 DEF Unqueued
  <2> QED
    BY <2>1, Queuing DEF Waiting
<1>4. \A d \in Chains : d # NULL
  BY DmaAssumption
<1>5. CASE chain_head = <<>>
  <2>1. vram' = NULL /\ chain_head' = chain_head /\ ta_block_render' = FALSE
    BY <1>5 DEF NextVram
  <2>2. Queued(chain_head)' = Queued(chain_head) /\ Distinct(chain_head)' /\ Blocking'
    BY <2>1, <1>1 DEF Queued, Distinct, Blocking
  <2>3. c # NULL => Unqueued(c)'
    BY <2>1, <2>2, <1>2, <1>3 DEF Unqueued
  <2>4. \A d \in Chains \ {c} : /\ Unqueued(d)' <=> Unqueued(d)
                                /\ \A t \in Clients : Waiting(t, d) => Waiting(t, d)'
    BY <2>1, <2>2, <1>2, <1>4, Stays
  <2> QED
    BY <2>1, <2>2, <2>3, <2>4, <1>1, <1>2
<1>6. CASE chain_head # <<>>
  <2> DEFINE q == chain_head
  <2>1. vram' = Head(q) /\ chain_head' = Tail(q) /\ ta_block_render' = TRUE
    BY <1>6 DEF NextVram
  <2>2. PICK h \in Chains : h = Head(q)
    BY <1>1, <1>6, Popped
  <2>3. /\ Tail(q) \in Seq(Chains) /\ Queued(q) = {h} \cup Queued(Tail(q))
        /\ Distinct(Tail(q)) /\ h \notin Queued(Tail(q))
    BY <2>2, <1>1, <1>6, Popped
  <2>4. Queued(chain_head)' = Queued(Tail(q)) /\ Distinct(chain_head)' /\ Blocking'
    BY <2>1, <2>3 DEF Queued, Distinct, Blocking
  <2>5. h # c /\ ~Unqueued(h)
    BY <2>3, <1>3, <1>4 DEF Unqueued
  <2>6. c # NULL => Unqueued(c)'
    BY <2>1, <2>2, <2>3, <2>4, <2>5, <1>2, <1>3 DEF Unqueued
  <2>7. \A t \in Clients : Waiting(t, h) => Waiting(t, h)'
    BY <2>1, <2>2, <2>3, <2>4, <2>5, <1>2 DEF Waiting
  <2>8. \A d \in Chains \ {c, h} : /\ Unqueued(d)' <=> Unqueued(d)
                                   /\ \A t \in Clients : Waiting(t, d) => Waiting(t, d)'
    BY <2>1, <2>2, <2>3, <2>4, <1>2, Stays
  <2> QED
    BY <2>1, <2>2, <2>3, <2>4, <2>5, <2>6, <2>7, <2>8, <1>1, <1>2
<1> QED
  BY <1>5, <1>6

LEMMA VramDoneStep ==
  ASSUME DmaInv, VramDone PROVE DmaInv'
<1>0. PICK c \in Chains : c = vram
  BY DEF VramDone, DmaInv, DmaTypeOK
<1>1. /\ Complete(c) /\ ~Unqueued(c) /\ NextVram /\ c # NULL
      /\ UNCHANGED <<spu_chain_head, spu>> /\ ta_render_done_cb' = ta_render_done_cb
      /\ UNCHANGED <<free, thread, chains>>
  BY <1>0 DEF VramDone, Complete, Unqueued
<1>2. \A d \in Chains \ {c} : sema'[d] = sema[d] /\ (moved[d] => moved'[d])
  BY <1>1 DEF Complete, DmaInv, DmaTypeOK
<1>3. /\ chain_head' \in Seq(Chains) /\ vram' \in Chains \cup {NULL} /\ ta_block_render' \in BOOLEAN
      /\ Distinct(spu_chain_head)' /\ Distinct(chain_head)' /\ Blocking'
      /\ Unqueued(c)'
      /\ \A d \in Chains \ {c} : /\ Unqueued(d) => Unqueued(d)'
                                 /\ \A t \in Clients : Waiting(t, d) => Waiting(t, d)'
  BY <1>0, <1>1, <1>2, NextVramStep
<1>4. /\ spu_chain_head' \in Seq(Chains) /\ spu' \in Chains \cup {NULL}
      /\ ta_render_done_cb' \in BOOLEAN
  BY <1>1 DEF DmaInv, DmaTypeOK
<1> QED
  BY <1>1, <1>2, <1>3, <1>4, Completed, InterruptStep

LEMMA RenderDoneStep ==
  ASSUME DmaInv, RenderDone PROVE DmaInv'
<1>1. /\ UNCHANGED <<free, spu_chain_head, spu, sema, thread, chains, moved>>
      /\ ta_render_done_cb' = FALSE
  BY DEF RenderDone
<1>2. /\ spu_chain_head' \in Seq(Chains) /\ spu' \in Chains \cup {NULL}
      /\ sema' \in [Chains -> Nat] /\ moved' \in [Chains -> BOOLEAN]
  BY <1>1 DEF DmaInv, DmaTypeOK
<1>3. CASE ta_block_render
  <2>1. UNCHANGED <<chain_head, vram, ta_block_render>>
    BY <1>3 DEF RenderDone
  <2>2. /\ chain_head' \in Seq(Chains) /\ vram' \in Chains \cup {NULL} /\ ta_block_render' \in BOOLEAN
        /\ Distinct(spu_chain_head)' /\ Distinct(chain_head)' /\ Blocking'
        /\ Queued(chain_head)' = Queued(chain_head)
        /\ Queued(spu_chain_head)' = Queued(spu_chain_head)
    BY <2>1, <1>1 DEF DmaInv, DmaTypeOK, Accounted, Blocking, Queued, Distinct
  <2>3. \A d \in Chains : /\ Unqueued(d)' <=> Unqueued(d)
                          /\ \A t \in Clients : Waiting(t, d) => Waiting(t, d)'
    BY <2>1, <2>2, <1>1, Stays
  <2> QED
    BY <2>2, <2>3, <1>1, <1>2, InterruptStep
<1>4. CASE ~ta_block_render
  <2>1. NextVram /\ vram = NULL
    BY <1>4 DEF RenderDone, DmaInv, Blocking
  <2>2. \A d \in Chains : d # NULL
    BY DmaAssumption
  <2>3. /\ chain_head' \in Seq(Chains) /\ vram' \in Chains \cup {NULL} /\ ta_block_render' \in BOOLEAN
        /\ Distinct(spu_chain_head)' /\ Distinct(chain_head)' /\ Blocking'
        /\ \A d \in Chains \ {NULL} : /\ Unqueued(d) => Unqueued(d)'
                                      /\ \A t \in Clients : Waiting(t, d) => Waiting(t, d)'
    BY <2>1, <1>1, NextVramStep
  <2> QED
    BY <2>2, <2>3, <1>1, <1>2, InterruptStep
<1> QED
  BY <1>3, <1>4

LEMMA DmaStutter ==
  ASSUME DmaInv, UNCHANGED dmaVars PROVE DmaInv'
<1>1. /\ UNCHANGED <<free, thread, chains, sema, moved>>
      /\ UNCHANGED <<spu_chain_head, chain_head, spu, vram, ta_block_render, ta_render_done_cb>>
  BY DEF dmaVars, queues
<1>2. /\ Queued(chain_head)' = Queued(chain_head) /\ Queued(spu_chain_head)' = Queued(spu_chain_head)
      /\ Distinct(spu_chain_head)' /\ Distinct(chain_head)' /\ Blocking'
  BY <1>1 DEF DmaInv, Accounted, Queued, Distinct, Blocking
<1>3. \A d \in Chains : /\ Unqueued(d)' <=> Unqueued(d)
                        /\ \A t \in Clients : Waiting(t, d) => Waiting(t, d)'
  BY <1>1, <1>2, Stays
<1>4. /\ spu_chain_head' \in Seq(Chains) /\ chain_head' \in Seq(Chains)
      /\ spu' \in Chains \cup {NULL} /\ vram' \in Chains \cup {NULL}
      /\ ta_block_render' \in BOOLEAN /\ ta_render_done_cb' \in BOOLEAN
      /\ sema' \in [Chains -> Nat] /\ moved' \in [Chains -> BOOLEAN]
  BY <1>1 DEF DmaInv, DmaTypeOK
<1> QED
  BY <1>1, <1>2, <1>3, <1>4, InterruptStep

LEMMA DmaStepInv == DmaInv /\ [DmaNext]_dmaVars => DmaInv'
<1> SUFFICES ASSUME DmaInv, [DmaNext]_dmaVars PROVE DmaInv'
  OBVIOUS
<1>1. CASE DmaStep
  <2>1. ASSUME NEW t \in Clients, ClientStep(t) PROVE DmaInv'
    BY <2>1, AllocStep, InitiateStep, WaitStep, FreeStep DEF ClientStep
  <2> QED
    BY <1>1, <2>1, SpuDoneStep, VramDoneStep DEF DmaStep
<1>2. CASE RenderDone
  BY <1>2, RenderDoneStep
<1>3. CASE UNCHANGED dmaVars
  BY <1>3, DmaStutter
<1> QED
  BY <1>1, <1>2, <1>3 DEF DmaNext

-----------------------------------------------------------------------------
\* The pool.

\* Every chain not in the pool is held in a slot of its own, so a client that
\* has a free slot finds a chain in a pool as large as the slots.
LEMMA PoolLarge == DmaInv => PoolSuffices
<1> SUFFICES ASSUME DmaInv, NEW t \in Clients, thread[t].pc = "alloc", free = {} PROVE FALSE
  BY DEF PoolSuffices
<1> DEFINE n == thread[t].i
           s == <<t, n>>
           T == AllSlots \ {s}
           f == [c \in Chains |-> CHOOSE x \in AllSlots : chains[x[1]][x[2]] = c]
<1>1. n \in Slots(t)
  BY DEF DmaInv, DmaTypeOK
<1>2. chains[t][n] = NULL
  BY <1>1, DmaAssumption DEF DmaInv, Holding, Slots
<1>3. s \in AllSlots
  BY <1>1 DEF AllSlots, Slots
<1>4. \A c \in Chains : f[c] \in AllSlots /\ chains[f[c][1]][f[c][2]] = c
  <2> SUFFICES ASSUME NEW c \in Chains
               PROVE \E x \in AllSlots : chains[x[1]][x[2]] = c
    OBVIOUS
  <2>1. PICK u \in Clients : \E i \in Slots(u) : chains[u][i] = c
    BY DEF DmaInv, Accounted
  <2>0. PICK i \in Slots(u) : chains[u][i] = c
    BY <2>1
  <2>2. <<u, i>> \in AllSlots
    BY DEF AllSlots, Slots
  <2> QED
    BY <2>0, <2>2
<1>5. f \in [Chains -> T]
  <2>1. \A c \in Chains : f[c] # s
    BY <1>2, <1>4, DmaAssumption
  <2> QED
    BY <1>4, <2>1
<1>6. IsFiniteSet(T) /\ Cardinality(T) < Cardinality(Chains)
  <2>1. IsFiniteSet(T) /\ Cardinality(T) = Cardinality(AllSlots) - 1
    BY <1>3, PoolAssumption, FS_RemoveElement
  <2>2. Cardinality(AllSlots) \in Nat /\ Cardinality(Chains) \in Nat
    BY PoolAssumption, FS_CardinalityType
  <2> QED
    BY <2>1, <2>2, PoolAssumption
<1> HIDE DEF f, T
<1>7. PICK x, y \in Chains : x # y /\ f[x] = f[y]
  BY <1>5, <1>6, PoolAssumption, FS_PigeonHole
<1> QED
  BY <1>4, <1>7

-----------------------------------------------------------------------------
\* Theorems.

LEMMA DmaInvariant == DmaSpec => []DmaInv
<1>1. DmaInit => DmaInv
  BY DmaInitInv
<1>2. DmaInv /\ [DmaNext]_dmaVars => DmaInv'
  BY DmaStepInv
<1> QED
  BY <1>1, <1>2, PTL DEF DmaSpec

\* The state of src/dma.c keeps its types.
THEOREM DmaTyped == DmaSpec => []DmaTypeOK
<1>1. DmaInv => DmaTypeOK
  BY DEF DmaInv
<1> QED
  BY <1>1, DmaInvariant, PTL

\* A chain has one holder, a pooled chain is in no queue and has no signal, a
\* queue has no chain twice, and a wait returns after its own transfer.
THEOREM DmaAccounted == DmaSpec => []Accounted
<1>1. DmaInv => Accounted
  BY DEF DmaInv
<1> QED
  BY <1>1, DmaInvariant, PTL

\* dma_initiate finds a chain in a pool as large as the batches together.
THEOREM DmaPool == DmaSpec => []PoolSuffices
  BY PoolLarge, DmaInvariant, PTL
=============================================================================
