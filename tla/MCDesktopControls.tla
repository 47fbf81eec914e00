-------------------------- MODULE MCDesktopControls --------------------------
(***************************************************************************)
(* The controls of the desktop alone, to find how an F6 in an open menu    *)
(* leaves the sky overlay without its cursor: run cursor_caught.           *)
(***************************************************************************)
EXTENDS DesktopControls
=============================================================================
