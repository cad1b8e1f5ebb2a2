--------------------------- MODULE MCDesktopShell ---------------------------
(* Two windows, three probes and two requests to quit.                     *)
EXTENDS DesktopShell
CONSTANTS w1, w2
=============================================================================
