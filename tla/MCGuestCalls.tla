---------------------------- MODULE MCGuestCalls ----------------------------
(* Two functions, each on a watch page of its own. *)
EXTENDS GuestCalls

MCPages == {1, 2}
MCPageOf == [f \in 1..NumFunctions |-> f]
=============================================================================
