------------------------------ MODULE PcmQueue ------------------------------
(***************************************************************************)
(* What the PCM fifo promises to its three users (include/fifo.h): samples  *)
(* leave in the order they came in, none lost, none twice, whatever the     *)
(* threads do in between.  A sample is the number the decoder gave it,      *)
(* counted modulo Samples.                                                  *)
(***************************************************************************)
EXTENDS Integers, Sequences

CONSTANTS
  Capacity,  \* most samples the queue holds
  Samples    \* sample numbers are taken modulo this

VARIABLES
  queue,     \* samples written and not yet read, oldest first
  coming,    \* number of the next sample the decoder writes
  heard      \* the samples the last read delivered

vars == <<queue, coming, heard>>

\* n consecutive samples, the first one numbered from.
Run(from, n) == [i \in 1..n |-> (from + i - 1) % Samples]

Init == queue = <<>> /\ coming = 0 /\ heard = <<>>

Write(n) ==
  /\ Len(queue) + n <= Capacity
  /\ queue' = queue \o Run(coming, n)
  /\ coming' = (coming + n) % Samples
  /\ UNCHANGED heard

Read(n) ==
  /\ n <= Len(queue)
  /\ heard' = SubSeq(queue, 1, n)
  /\ queue' = SubSeq(queue, n + 1, Len(queue))
  /\ UNCHANGED coming

\* Everything queued is forgotten; another music begins.
Flush == queue' = <<>> /\ coming' = 0 /\ UNCHANGED heard

Next == (\E n \in 1..Capacity : Write(n) \/ Read(n)) \/ Flush

Spec == Init /\ [][Next]_vars
=============================================================================
