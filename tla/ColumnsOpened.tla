--------------------------- MODULE ColumnsOpened ---------------------------
(***************************************************************************)
(* Columns with a history of what the rows of each cached description were *)
(* opened with, from one Execute to the next.                              *)
(***************************************************************************)
EXTENDS Columns

VARIABLE opened     \* the fields opened for the cached description so far

ReadsRow(s) == ReadCurrentRow(s) \/ ReadRederivedRow(s)

OpenedInit == Init /\ opened = [s \in Sessions |-> {}]

OpenedNext ==
    /\ Next
    /\ opened' = [s \in Sessions |->
                     IF ReadsRow(s) THEN opened[s] \cup executing'[s].columns
                     ELSE IF cached'[s] # cached[s] THEN {} ELSE opened[s]]

OpenedSpec == OpenedInit /\ [][OpenedNext]_<<vars, opened>>

\* A cached statement goes on opening every field it has opened, in every
\* later Execute of the same description.
KeepsDecrypting ==
    [][\A s \in Sessions :
          ReadsRow(s) => opened[s] \subseteq executing'[s].columns]_<<vars, opened>>

=============================================================================
