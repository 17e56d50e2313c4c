------------------------- MODULE MCDataSourceStatus -------------------------
(* Instances of DataSourceStatus for TLC. *)
EXTENDS DataSourceStatus
=============================================================================
