-------------------------- MODULE MCInspectedImports --------------------------
(* Manifests: three libraries, the last of which ExportNames does not know; *)
(* ordinals up to 2 fit; thunks at words 0 and 4 fill the code side by side,*)
(* one at word 1 would overlap both, and one starts too near the image's end*)
(* Files: an image with two thunks (words 0 and 4) and their records (8 and *)
(* 9), a record inside the first thunk (2), a thunk too near the end (10), a*)
(* record that reads the same both ways (11), and helpers in words 5 to 7.  *)
EXTENDS InspectedImports, SequencesExt

Fn(lib, ordinal, address, record) ==
    [library |-> lib, ordinal |-> ordinal, kind |-> "Function",
     address |-> address, record |-> record]
Var(lib, ordinal, record) ==
    [library |-> lib, ordinal |-> ordinal, kind |-> "Variable",
     address |-> record, record |-> record]

Pool == {Fn(1, 1, 0, 8), Fn(1, 2, 4, 9), Fn(2, 1, 4, 9), Fn(2, 3, 1, 10), Fn(1, 1, 10, 8),
         Fn(3, 2, 4, 8), Var(1, 2, 11), Var(2, 2, 3), Var(2, 1, 8)}

\* Every manifest of two, and those of three that Validate finds in order.
MCManifests ==
    UNION {[1..n -> Pool] : n \in 0..2}
    \cup {m \in [1..3 -> Pool] : \A i \in 2..3 : ImportLess(m[i - 1], m[i])}

Export(lib, ordinal, kind) == [library |-> lib, ordinal |-> ordinal, kind |-> kind]

MCExports ==
    [NtAllocate |-> Export(1, 1, "Function"), XamInput |-> Export(2, 1, "Function"),
     KeTimeStamp |-> Export(1, 2, "Variable")]

RestGpr == <<233, 193, 255, 104>>
RestVmx == <<57, 96, 254, 224>>
RestVmxNext == <<125, 203, 96, 206>>

MCHelpers == <<<<RestGpr>>, <<RestVmx, RestVmxNext>>>>

MCImage ==
    [w \in Words |->
        CASE w = 0 -> <<1, 0, 0, 1>>
          [] w = 4 -> <<1, 0, 0, 2>>
          [] w = 10 -> <<1, 0, 0, 1>>
          [] w \in {2, 9} -> <<0, 0, 0, 2>>
          [] w = 8 -> <<0, 0, 0, 1>>
          [] w = 11 -> <<0, 1, 1, 0>>
          [] w = 5 -> RestVmx
          [] w = 6 -> RestVmxNext
          [] w = 7 -> RestGpr
          [] OTHER -> <<96, 0, 0, 0>>]

\* No address, as XexInspection's NoWord.
None == -1

Entries == {None, 0, 2, 4, 8, 9, 10, 11}
Lists(n) == UNION {[1..k -> Entries] : k \in 0..n}

Code == [offset |-> 0, size |-> 8, code |-> TRUE]
Data == [offset |-> 8, size |-> 4, code |-> FALSE]

\* A well-formed file with these record lists, one library each.
File(lists) ==
    [image |-> MCImage, strings |-> 2 * Len(lists),
     size |-> 2 * Len(lists) + FoldLeft(LAMBDA n, r : n + 1 + Len(r), 0, lists),
     names |-> [l \in DOMAIN lists |-> [base |-> l, words |-> 2]],
     libraries |-> [l \in DOMAIN lists |->
         [size |-> 1 + Len(lists[l]), name |-> l, records |-> lists[l]]],
     entry |-> 3, sections |-> <<Code, Data>>]

Good == File(<<<<8, 0>>, <<9, 4>>>>)

\* Bad sizes, names, entries and sections of a file that is good otherwise.
Variants ==
    {[Good EXCEPT !.size = n] : n \in 7..12}
    \cup {[Good EXCEPT !.strings = n] : n \in {0, 3, 5, 12}}
    \cup {[Good EXCEPT !.names[2].words = n] : n \in 0..3}
    \cup {[Good EXCEPT !.names[2].base = 1], [Good EXCEPT !.libraries[2].name = 1]}
    \cup {[Good EXCEPT !.libraries[l].name = 3] : l \in {1, 2}}
    \cup {[Good EXCEPT !.libraries[1].size = n] : n \in 0..6}
    \cup {[Good EXCEPT !.entry = n] : n \in {7, 8, 11}}
    \cup {[Good EXCEPT !.sections = <<Code, [Data EXCEPT !.size = n, !.code = c]>>] :
             n \in {0, 4, 5}, c \in BOOLEAN}
    \cup {[Good EXCEPT !.sections = <<>>]}

MCFiles ==
    {File(<<>>)} \cup {File(<<r>>) : r \in Lists(3)}
    \cup {File(<<q, r>>) : q \in Lists(2), r \in Lists(2)}
    \cup Variants
==============================================================================
