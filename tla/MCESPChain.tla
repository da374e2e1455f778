----------------------------- MODULE MCESPChain -----------------------------
(* ESPChain has no constants to choose.                                    *)
EXTENDS ESPChain
=============================================================================
