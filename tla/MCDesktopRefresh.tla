--------------------------- MODULE MCDesktopRefresh ---------------------------
(***************************************************************************)
(* Two refreshes at a time: two threads of the window, or one of them and  *)
(* a process.                                                              *)
(***************************************************************************)
EXTENDS DesktopRefresh

CONSTANTS w1, w2
===============================================================================
