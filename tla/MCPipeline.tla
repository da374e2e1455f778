----------------------------- MODULE MCPipeline -----------------------------
(* Pipeline on a small machine: see the .cfg files for the constants.      *)
EXTENDS Pipeline

(* Of the two steps the second, after preflight, holds something to undo.  *)
MCDeferLast == {2}
=============================================================================
