----------------------------- MODULE MCStorage -----------------------------
(* Three components that keep data for others and share nothing: the heap,  *)
(* the byte ring of an I/O entry and the packet ring of a network driver.   *)
(* A behaviour is one of one of them; the other two stay as they are.       *)
EXTENDS Memory, IoBuffer, PacketBuffer, TLC

CONSTANTS heap, dma

\* Two regions with the word sizes of a 32-bit machine: the heap has room for
\* five of the smallest blocks, the DMA region for two.
MCStart == (heap :> 0) @@ (dma :> 50)
MCEnd == (heap :> 38) @@ (dma :> 60)
MCPriority == (heap :> -1) @@ (dma :> 0)
MCFlags == (heap :> {}) @@ (dma :> {"DMA"})
MCFlag == {{}, {"DMA"}}

VARIABLE part
storageVars == <<memoryVars, bufferVars, ringVars, part>>

StorageInit == MemoryInit /\ BufferInit /\ RingInit /\ part \in {"heap", "bytes", "packets"}

StorageNext ==
  /\ UNCHANGED part
  /\ \/ part = "heap" /\ MemoryNext /\ UNCHANGED <<bufferVars, ringVars>>
     \/ part = "bytes" /\ BufferNext /\ UNCHANGED <<memoryVars, ringVars>>
     \/ part = "packets" /\ RingNext /\ UNCHANGED <<memoryVars, bufferVars>>

\* The fairness of the byte ring, when it is the one that moves.
StorageSpec ==
  /\ StorageInit /\ [][StorageNext]_storageVars
  /\ part = "bytes" => BufferFairness
=============================================================================
