----------------------------- MODULE MCColumns -----------------------------
(***************************************************************************)
(* The instance of Columns that ColumnRefresh.cfg checks: two readable     *)
(* columns, one of whose names other result columns have too.              *)
(***************************************************************************)
EXTENDS Columns

=============================================================================
