------------------------------ MODULE MCGuiApp ------------------------------
(* GuiApp on a small desktop: see the .cfg files for the constants.        *)
EXTENDS GuiApp
=============================================================================
