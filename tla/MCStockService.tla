--------------------------- MODULE MCStockService ---------------------------
(***************************************************************************)
(* The model-checking instance of StockService.  The sets are small enough *)
(* that every quantity, including int.MaxValue = MaxInt and a wrapped sum, *)
(* is reached, and large enough that three calls can overlap on one row.   *)
(* No symmetry over the calls: it is not sound for EveryCallAnswered.      *)
(***************************************************************************)
EXTENDS StockService

MixedDeltas == {-2, 1, 2}
=============================================================================
