-------------------------------- MODULE Dma --------------------------------
(***************************************************************************)
(* src/dma.c: transfers to sound and video memory.  A client initiates a     *)
(* batch of transfers and waits for each; the end of a transfer is an        *)
(* interrupt that starts the next.  Both queues are last in, first out.  A   *)
(* video transfer is started only by the call-back of the display interrupt  *)
(* (module Display), and holds the next render off meanwhile.                *)
(*                                                                          *)
(* Interrupts, and what runs with interrupts off, are one step.  dma_free    *)
(* has no caller and is left out; so is exhaustion, which panics:            *)
(* PoolSuffices says that it does not happen.                                *)
(***************************************************************************)
EXTENDS Integers, Sequences, FiniteSets

CONSTANTS
  Clients,  \* threads: sound stream, video, network receive
  Kind,     \* queue of each client's transfers: "SPU" (DMA_TYPE_BBA_RX too) or "VRAM"
  Batch,    \* how many a client initiates before it waits
  Chains,   \* buf[BUFSZ]
  NULL

\* The transfers that may be under way together.
AllSlots == UNION {{t} \X (1..Batch[t]) : t \in Clients}

ASSUME DmaAssumption ==
  /\ Kind \in [Clients -> {"SPU", "VRAM"}]
  /\ Batch \in [Clients -> Nat \ {0}]
  /\ NULL \notin Chains

ASSUME PoolAssumption ==
  /\ IsFiniteSet(AllSlots) /\ IsFiniteSet(Chains)
  /\ Cardinality(AllSlots) <= Cardinality(Chains)

VARIABLES
  free,            \* the chains on free_head
  spu_chain_head, chain_head, \* the two queues, newest first
  spu, vram,       \* the chain that is transferred (spu_transfering, dma_transfering)
  ta_block_render,
  ta_render_done_cb, \* is it renderdone_cb
  sema,            \* each chain's semaphore
  thread,          \* each client's pc, and the transfer it initiates or waits for
  chains,          \* each client's chain1, chain2
  moved            \* has the transfer of a chain that is held happened

queues == <<spu_chain_head, chain_head, spu, vram, ta_block_render, ta_render_done_cb>>
dmaVars == <<free, queues, sema, thread, chains, moved>>

Slots(t) == 1..Batch[t]
Mine(t) == chains[t][thread[t].i]   \* the chain client t is at
Queued(q) == {q[i] : i \in 1..Len(q)}
Distinct(q) == \A i, j \in 1..Len(q) : q[i] = q[j] => i = j

DmaInit ==
  /\ free = Chains
  /\ spu_chain_head = <<>> /\ chain_head = <<>>
  /\ spu = NULL /\ vram = NULL
  /\ ta_block_render = FALSE /\ ta_render_done_cb = FALSE
  /\ sema = [c \in Chains |-> 0]
  /\ thread = [t \in Clients |-> [pc |-> "alloc", i |-> 1]]
  /\ chains = [t \in Clients |-> [i \in Slots(t) |-> NULL]]
  /\ moved = [c \in Chains |-> FALSE]

-----------------------------------------------------------------------------
\* Clients.

Following_TooFar(t, pc, last) ==
  IF thread[t].i <= Batch[t] THEN [pc |-> pc, i |-> thread[t].i + 1] ELSE [pc |-> last, i |-> 1]

\* The next transfer of the batch, or the first one again.
Following(t, pc, last) ==
  IF thread[t].i < Batch[t] THEN [pc |-> pc, i |-> thread[t].i + 1] ELSE [pc |-> last, i |-> 1]

\* dma_initiate calls alloc_chain first.
Alloc(t) ==
  /\ thread[t].pc = "alloc"
  /\ \E c \in free :
       /\ free' = free \ {c}
       /\ chains' = [chains EXCEPT ![t][thread[t].i] = c]
  /\ thread' = [thread EXCEPT ![t].pc = "push"]
  /\ UNCHANGED <<queues, sema, moved>>

\* spu_cb(0): the chain just pushed is the one that starts.
PushSpu(c) ==
  /\ IF spu = NULL
       THEN spu' = c /\ UNCHANGED spu_chain_head
       ELSE spu_chain_head' = <<c>> \o spu_chain_head /\ UNCHANGED spu
  /\ UNCHANGED <<chain_head, vram, ta_block_render, ta_render_done_cb>>

PushVram(c) ==
  /\ chain_head' = <<c>> \o chain_head
  /\ ta_render_done_cb' = TRUE
  /\ UNCHANGED <<spu_chain_head, spu, vram, ta_block_render>>

Initiate(t) ==
  /\ thread[t].pc = "push"
  /\ IF Kind[t] = "SPU" THEN PushSpu(Mine(t)) ELSE PushVram(Mine(t))
  /\ thread' = [thread EXCEPT ![t] = Following(t, "alloc", "wait")]
  /\ UNCHANGED <<free, sema, chains, moved>>

\* dma_wait
Wait(t) ==
  /\ thread[t].pc = "wait" /\ sema[Mine(t)] > 0
  /\ sema' = [sema EXCEPT ![Mine(t)] = @ - 1]
  /\ thread' = [thread EXCEPT ![t].pc = "free"]
  /\ UNCHANGED <<free, queues, chains, moved>>

Free_Leaks(t) ==
  /\ thread[t].pc = "free"
  /\ chains' = [chains EXCEPT ![t][thread[t].i] = NULL]
  /\ moved' = [moved EXCEPT ![Mine(t)] = FALSE]
  /\ thread' = [thread EXCEPT ![t] = Following(t, "wait", "alloc")]
  /\ UNCHANGED <<free, queues, sema>>

Free(t) ==
  /\ thread[t].pc = "free"
  /\ free' = free \cup {Mine(t)}
  /\ chains' = [chains EXCEPT ![t][thread[t].i] = NULL]
  /\ moved' = [moved EXCEPT ![Mine(t)] = FALSE]
  /\ thread' = [thread EXCEPT ![t] = Following(t, "wait", "alloc")]
  /\ UNCHANGED <<queues, sema>>

ClientStep(t) == Alloc(t) \/ Initiate(t) \/ Wait(t) \/ Free(t)

-----------------------------------------------------------------------------
\* Interrupts.

Complete(c) ==
  /\ sema' = [sema EXCEPT ![c] = @ + 1]
  /\ moved' = [moved EXCEPT ![c] = TRUE]
  /\ UNCHANGED <<free, thread, chains>>

SpuDone_StaysQueued ==
  /\ spu # NULL /\ Complete(spu)
  /\ IF spu_chain_head = <<>> THEN spu' = NULL ELSE spu' = Head(spu_chain_head)
  /\ UNCHANGED <<spu_chain_head, chain_head, vram, ta_block_render, ta_render_done_cb>>

SpuDone_NoNext ==
  /\ spu # NULL /\ Complete(spu)
  /\ spu' = NULL
  /\ UNCHANGED <<spu_chain_head, chain_head, vram, ta_block_render, ta_render_done_cb>>

\* spu_cb(chain)
SpuDone ==
  /\ spu # NULL /\ Complete(spu)
  /\ IF spu_chain_head = <<>>
       THEN spu' = NULL /\ UNCHANGED spu_chain_head
       ELSE spu' = Head(spu_chain_head) /\ spu_chain_head' = Tail(spu_chain_head)
  /\ UNCHANGED <<chain_head, vram, ta_block_render, ta_render_done_cb>>

NextVram_NoBlock ==
  IF chain_head = <<>>
    THEN vram' = NULL /\ ta_block_render' = FALSE /\ UNCHANGED chain_head
    ELSE /\ vram' = Head(chain_head) /\ ta_block_render' = FALSE
         /\ chain_head' = Tail(chain_head)

\* The second half of dma_cb.
NextVram ==
  IF chain_head = <<>>
    THEN vram' = NULL /\ ta_block_render' = FALSE /\ UNCHANGED chain_head
    ELSE /\ vram' = Head(chain_head) /\ ta_block_render' = TRUE
         /\ chain_head' = Tail(chain_head)

\* dma_cb(chain)
VramDone ==
  /\ vram # NULL /\ Complete(vram)
  /\ NextVram
  /\ UNCHANGED <<spu_chain_head, spu, ta_render_done_cb>>

\* renderdone_cb
RenderDone ==
  /\ ta_render_done_cb /\ ta_render_done_cb' = FALSE
  /\ IF ta_block_render THEN UNCHANGED <<chain_head, vram, ta_block_render>> ELSE NextVram
  /\ UNCHANGED <<free, spu_chain_head, spu, sema, thread, chains, moved>>

DmaStep == (\E t \in Clients : ClientStep(t)) \/ SpuDone \/ VramDone

DmaNext == DmaStep \/ RenderDone
DmaSpec == DmaInit /\ [][DmaNext]_dmaVars

-----------------------------------------------------------------------------
\* Properties.

DmaTypeOK ==
  /\ free \subseteq Chains
  /\ spu_chain_head \in Seq(Chains) /\ chain_head \in Seq(Chains)
  /\ spu \in Chains \cup {NULL} /\ vram \in Chains \cup {NULL}
  /\ ta_block_render \in BOOLEAN /\ ta_render_done_cb \in BOOLEAN
  /\ sema \in [Chains -> Nat] /\ moved \in [Chains -> BOOLEAN]
  /\ DOMAIN thread = Clients /\ DOMAIN chains = Clients
  /\ \A t \in Clients :
       /\ thread[t] \in [pc : {"alloc", "push", "wait", "free"}, i : Slots(t)]
       /\ chains[t] \in [Slots(t) -> Chains \cup {NULL}]

\* A chain is in the pool or held by one client, once.  In the pool it is in no
\* queue and has no signal left that would end its next wait at once; a queue
\* has it once; and a client that returns from sem_wait finds its own transfer
\* done, whatever the last-in-first-out order (dma.c:57-106, 312).
Accounted ==
  /\ \A t, u \in Clients : \A i \in Slots(t), j \in Slots(u) :
       chains[t][i] # NULL /\ chains[t][i] = chains[u][j] => t = u /\ i = j
  /\ \A c \in Chains : c \in free <=> \A t \in Clients : \A i \in Slots(t) : chains[t][i] # c
  /\ \A c \in free : /\ sema[c] = 0 /\ c \notin {spu, vram}
                     /\ c \notin Queued(spu_chain_head) \cup Queued(chain_head)
  /\ Distinct(spu_chain_head) /\ Distinct(chain_head)
  /\ \A t \in Clients : thread[t].pc = "free" => moved[Mine(t)]

\* With a pool as large as the batches together, dma_initiate never finds it
\* empty, which would panic (dma.c:79).
PoolSuffices == \A t \in Clients : thread[t].pc = "alloc" => free # {}

-----------------------------------------------------------------------------
\* The inductive invariant of the proofs.

\* Which chains a client holds.
Holding ==
  \A t \in Clients : \A i \in Slots(t) :
    chains[t][i] # NULL <=> CASE thread[t].pc = "alloc" -> i < thread[t].i
                              [] thread[t].pc = "push"  -> i <= thread[t].i
                              [] OTHER                  -> i >= thread[t].i

Unqueued(c) == c \notin {spu, vram} \cup Queued(spu_chain_head) \cup Queued(chain_head)

\* A chain that was initiated is in its client's queue, is transferred, or has
\* signalled its end.
Waiting(t, c) ==
  \/ /\ sema[c] = 0
     /\ IF Kind[t] = "SPU"
          THEN c \notin {vram} \cup Queued(chain_head) /\ (c = spu <=> c \notin Queued(spu_chain_head))
          ELSE c \notin {spu} \cup Queued(spu_chain_head) /\ (c = vram <=> c \notin Queued(chain_head))
  \/ sema[c] = 1 /\ moved[c] /\ Unqueued(c)

\* The other ones that are held are not yet queued, or about to be freed.
Progress ==
  \A t \in Clients : \A i \in Slots(t) :
    chains[t][i] # NULL =>
      IF thread[t].pc \in {"push", "free"} /\ i = thread[t].i
        THEN sema[chains[t][i]] = 0 /\ Unqueued(chains[t][i])
        ELSE Waiting(t, chains[t][i])

\* A transfer to video memory holds the renders off.
Blocking == vram # NULL => ta_block_render

DmaInv == DmaTypeOK /\ Accounted /\ Holding /\ Progress /\ Blocking
=============================================================================
