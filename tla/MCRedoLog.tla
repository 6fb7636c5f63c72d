----------------------------- MODULE MCRedoLog -----------------------------
(* Instances of the log: who appends, who imports, what fails.  Appenders  *)
(* that do not import are interchangeable.                                 *)
EXTENDS RedoLog, TLC

Interchangeable == Permutations(Appenders \ Importers)
=============================================================================
