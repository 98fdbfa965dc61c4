--------------------------- MODULE MCModelCatalog ---------------------------
(* ModelCatalog over two threads that share one provider.  A list of models *)
(* is copied as a whole, so one model shows every mix of stale and fresh    *)
(* lists; a second one only lets a resolution choose.                       *)
EXTENDS ModelCatalog
=============================================================================
