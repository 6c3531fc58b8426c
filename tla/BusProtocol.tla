---------------------------- MODULE BusProtocol ----------------------------
(***************************************************************************)
(* The bus vocabulary every component shares (BusProtocol.h, BusRequest.h) *)
(* and the parameters of a simulated machine (System.h, CacheParams.h and  *)
(* the options of cache_coherence_sim.cpp).                                *)
(***************************************************************************)
EXTENDS Integers, Sequences, FiniteSets

CONSTANTS
  NumProcs,       \* processors, option -p
  Addrs,          \* line-aligned addresses, all of them in one cache set
  BurstLen        \* bus cycles of a data transfer, option -b

ASSUME NumProcsAssumption == NumProcs \in Nat \ {0}
ASSUME BurstLenAssumption == BurstLen \in Nat \ {0}

(* Processor i of System's vector sits at address i + 1, the memory after  *)
(* the last of them; address 0 is the broadcast.                           *)
Procs == 1 .. NumProcs
MemoryAddress == NumProcs + 1
BusNodes == 1 .. NumProcs + 1
BROADCAST_ADX == 0

Commands == {"BUSREAD", "BUSREADX", "BUSWRITE", "DATA_RETURN_MEMORY",
             "DATA_RETURN_PROCESSOR", "INVALIDATE", "NULL_BURST", "SHAREME"}

(* The commands that start a read at the memory, and those that carry a    *)
(* whole line and therefore make the memory's own answer unnecessary.      *)
ReadCommands == {"BUSREAD", "BUSREADX"}
DataCommands == {"BUSWRITE", "DATA_RETURN_PROCESSOR"}

BusRequest == [command : Commands, payload : Addrs,
               source : BusNodes, target : BusNodes \cup {BROADCAST_ADX}]

(* vector::erase                                                           *)
SeqsExt == INSTANCE SequencesExt
Erase(s, i) == SeqsExt!RemoveAt(s, i)

=============================================================================
