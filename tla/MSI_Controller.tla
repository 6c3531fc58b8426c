--------------------------- MODULE MSI_Controller ---------------------------
(***************************************************************************)
(* The MSI protocol (MSI_Controller.cpp): the MESI controller, except that *)
(* a line loaded from memory is Shared, there being no Exclusive state.    *)
(***************************************************************************)
EXTENDS MESI_Controller

(* Broken: MESI's action, with its Exclusive state.                        *)
MSI_UpdateCacheLoadAsMESI(c, line) == MESI_UpdateCacheLoad(c, line)

MSI_UpdateCacheLoad(c, line) ==
  IF c.saw \cap {"BUSREADX", "INVALIDATE"} # {} \/ Contains(c, line)
  THEN {c} ELSE Fill(c, line, "S")

=============================================================================
