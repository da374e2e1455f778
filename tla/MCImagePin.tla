----------------------------- MODULE MCImagePin -----------------------------
(* ImagePin for a registry of two images: see the .cfg files.              *)
EXTENDS ImagePin
=============================================================================
