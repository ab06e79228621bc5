----------------------------- MODULE MCPadMerge -----------------------------
(* Two diagonal sticks that differ in which axis is deflected further. *)
EXTENDS PadMerge

Pad(buttons, trigger, x, y) ==
    [buttons |-> buttons, trigger |-> trigger, stick |-> [x |-> x, y |-> y]]

MCPads == {Pad({"A"}, 1, 2, -1), Pad({"B"}, 2, 1, 2)}
=============================================================================
