----------------------------- MODULE MCErpExport -----------------------------
(* One order is enough: exports of different orders share only the worker. *)
EXTENDS ErpExport
=============================================================================
