---------------------------- MODULE MCMainWindow ----------------------------
(* A small instance of the window: one file and one disk to select, two     *)
(* requests by the user and one more for each session, so that changes      *)
(* overtake workers and a second session follows the first.                 *)
EXTENDS MainWindow

CONSTANTS f1, d1
=============================================================================
