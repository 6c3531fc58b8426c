---------------------------- MODULE MI_Controller ----------------------------
(***************************************************************************)
(* The MI protocol (MI_Controller.cpp): the MESI controller with every     *)
(* copy Modified. Loads ask for the line exclusively too, there is no      *)
(* INVALIDATE and no SHAREME, and a BUSREAD on the bus is a failed assert. *)
(***************************************************************************)
EXTENDS MESI_Controller

MI_Accept(c, line, m) ==
  CASE m.command = "BUSREADX" -> HandleBusReadX(c, m.payload)
    [] m.command = "BUSWRITE" -> HandleBusWrite(c, line, m.payload)
    [] m.command = "DATA_RETURN_MEMORY" -> HandleDataReturnMemory(c, line, m.payload)
    [] m.command = "DATA_RETURN_PROCESSOR" -> HandleDataReturnProcessor(c, line, m.payload)
    [] OTHER -> c

MI_UpdateCacheLoad(c, line) ==
  IF "BUSREADX" \in c.saw \/ Contains(c, line) THEN {c} ELSE Fill(c, line, "M")

(* Broken: the line is kept whatever was seen on the bus.                  *)
MI_UpdateCacheStoreUnaware(c, line) == IF Contains(c, line) THEN {c} ELSE Fill(c, line, "M")

(* Unlike MESI's, a store that finds its line present does not set it to   *)
(* MODIFIED: it has to be so already.                                      *)
MI_UpdateCacheStore(c, line) ==
  CASE c.saw # {} -> {AddNewMaxPriorityBusRequest(c, "BUSWRITE", line)}
    [] c.saw = {} /\ Contains(c, line) -> {c}
    [] OTHER -> Fill(c, line, "M")

=============================================================================
