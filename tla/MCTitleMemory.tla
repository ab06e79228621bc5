---------------------------- MODULE MCTitleMemory ----------------------------
(* Pages of two words: the last is of another heap than the system heap. *)
EXTENDS TitleMemory

MCHeapOf == [p \in Pages |-> IF p < NumPages - 1 THEN 1 ELSE 2]
==============================================================================
