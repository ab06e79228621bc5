--------------------------- MODULE MCDesktopInput ---------------------------
(* One key word beside the mouse buttons. *)
EXTENDS DesktopInput

MCWords == <<"keys", "mouse">>
=============================================================================
