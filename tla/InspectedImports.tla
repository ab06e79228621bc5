--------------------------- MODULE InspectedImports ---------------------------
(***************************************************************************)
(* From the XEX file to the loaded module: an inspection (XexInspection)   *)
(* reports the imports of an image whose thunks it has made stubs, the     *)
(* embedder states the report, sorted, as its module's import manifest and *)
(* the copied image as its bytes, and LoadModule binds and attaches them   *)
(* (ImportBinding).  The embedder may also state any other manifest.       *)
(***************************************************************************)
EXTENDS ImportBinding, Functions

CONSTANTS Files, LibraryWords, Helpers

VARIABLES inspect, file, loaded, image, cursor, library, imports, layout

Xex == INSTANCE XexInspection

ASSUME InspectedAssumption ==
    /\ LibraryWords \in Nat
    /\ Files \subseteq Xex!XexFile /\ Files # {}
    /\ \A f \in Files : Len(f.names) = Len(f.libraries)
    /\ \A k \in DOMAIN Helpers : Helpers[k] \in Seq(Xex!Word \ {Xex!Nop, Xex!Blr})

inspectVars == <<inspect, file, loaded, image, cursor, library, imports, layout>>
allVars == <<vars, inspectVars>>

InspectedTypeOK == TypeOK /\ Xex!XexTypeOK

\* External: the embedder states the report, sorted as ValidateModule wants it.
StateManifest ==
    /\ inspect = "done"
    /\ layout.begin = 0 /\ layout.end = CodeWords
    /\ \E order \in Bijection(1..Cardinality(DOMAIN imports), DOMAIN imports) :
          LET m == [i \in DOMAIN order |-> imports[order[i]]] IN
          /\ \A i \in 2..Len(m) : ~ImportLess(m[i], m[i - 1])
          /\ manifest' = m
          /\ mapping' = [i \in DOMAIN m |-> 0]
          /\ externs' = [i \in DOMAIN m |-> 0]
    /\ inspect' = "stated"
    /\ UNCHANGED <<phase, composeVars, tables, memory, next>>
    /\ UNCHANGED <<file, loaded, image, cursor, library, imports, layout>>

InspectedInit ==
    \/ Xex!XexInit /\ Fresh(<<>>)
    \/ Xex!Unopened("unused") /\ file = (CHOOSE f \in Files : TRUE) /\ Init

InspectedNext ==
    \/ Xex!InspectXex /\ UNCHANGED vars
    \/ StateManifest
    \/ inspect \in {"stated", "unused"} /\ Next /\ UNCHANGED inspectVars

InspectedSpec == InspectedInit /\ [][InspectedNext]_allVars

-----------------------------------------------------------------------------
(* Properties *)

\* The properties of the inspection, of the composed system.
ReportsMatchLoader == Xex!ReportsMatchLoader
NormalizedOnce == Xex!NormalizedOnce
HelpersOutsideStubs == Xex!HelpersOutsideStubs

\* What the inspection has taken away is put back: in a module loaded from an
\* inspection no guest call falls through a canonical stub, since every word the
\* inspection has rewritten is the record of an import or in the thunk of one.
NoStubLeftBehind ==
    phase = "loaded" /\ inspect = "stated" =>
        \A w \in Words \ Xex!VariableRecords : image[w] # file.image[w] => memory[w] # 0
===============================================================================
