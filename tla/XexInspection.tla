---------------------------- MODULE XexInspection ----------------------------
(***************************************************************************)
(* InspectXex (src/xex_inspect.cpp): one XEX2 file is checked, expanded by *)
(* Xenia's loader into a guest memory of the call's own, and described:    *)
(* the import libraries' records are read from the loaded image and        *)
(* rewritten to a canonical form in a copy of it, library by library, then *)
(* the PE sections (src/pe_image.cpp) and the register save and restore    *)
(* helpers (src/xex_helpers.cpp) are read from that copy.                  *)
(*                                                                         *)
(* Sizes and addresses are in words, addresses from the image's base.  A   *)
(* word of the image is its four bytes, <<type, flags, high, low>> for an  *)
(* import record, whose ordinal is 256 * high + low.  A file is what the   *)
(* loader and the header's tables say of it:                               *)
(*   image    the image as the loader leaves it                            *)
(*   size, strings   of the import descriptor after its fixed part, and of *)
(*                   its string table                                      *)
(*   names    the string table: [base, words], 0 words if unterminated     *)
(*   libraries       [size, name, records], records as addresses           *)
(*   entry, sections the PE entry point and [offset, size, code]           *)
(* An address that is null, misaligned or below the base is NoWord.  The   *)
(* PE header is taken to lie outside the words that imports rewrite.       *)
(***************************************************************************)
EXTENDS Integers, Sequences, SequencesExt

CONSTANTS
    Files,        \* files that may be inspected
    LibraryWords, \* words of a library before its records
    ThunkWords,   \* words of an import thunk
    ImageWords,   \* words of the image
    Helpers       \* the patterns of ScanXexHelpers

VARIABLES
    inspect,  \* how far InspectXex has come
    file,     \* the XEX
    loaded,   \* module is loaded in the call's own guest memory
    image,    \* inspection.loaded_image
    cursor,   \* of ParseImports, from the descriptor's start
    library,  \* library_index
    imports,  \* inspection.imports, by library and place in its record list
    layout    \* inspection.image and inspection.helpers

NoWord == -1
ImageRange == 0..(ImageWords - 1)
Byte == 0..255
Word == Byte \X Byte \X Byte \X Byte

\* What the loader and the tables may say of a file.
XexFile ==
    [image : [ImageRange -> Word], size : Nat, strings : Nat,
     names : Seq([base : Nat, words : Nat]),
     libraries : Seq([size : Nat, name : Nat, records : Seq(Nat \cup {NoWord})]),
     entry : Int, sections : Seq([offset : Nat, size : Nat, code : BOOLEAN])]

NoLayout == [begin |-> 0, end |-> 0, helpers |-> {}]

XexTypeOK ==
    /\ inspect \in {"none", "valid", "loaded", "importing", "imported", "done", "refused",
                   "stated", "unused"}
    /\ loaded <=> inspect \in {"loaded", "importing", "imported"}
    /\ image # <<>> => image \in [ImageRange -> Word]
    /\ cursor \in 0..file.size
    /\ library \in 1..(Len(file.libraries) + 1)
    /\ \A k \in DOMAIN imports : imports[k].record \in ImageRange /\ imports[k].address \in ImageRange
    /\ layout.begin <= layout.end /\ layout.end <= ImageWords

\* Every return after Load unloads the module.
RefuseLoaded ==
    /\ inspect' = "refused"
    /\ loaded' = FALSE
    /\ UNCHANGED <<file, image, cursor, library, imports, layout>>

-----------------------------------------------------------------------------
(* The container *)

\* The checks of the header, its security and file-format parts, are data; they
\* pass or refuse before anything is mapped.
ValidateHeader ==
    /\ inspect = "none"
    /\ inspect' \in {"valid", "refused"}
    /\ UNCHANGED <<file, loaded, image, cursor, library, imports, layout>>

\* Xenia may refuse the mapping, the backend or the file.
LoadXex ==
    /\ inspect = "valid"
    /\ inspect' \in {"loaded", "refused"}
    /\ loaded' = (inspect' = "loaded")
    /\ UNCHANGED <<file, image, cursor, library, imports, layout>>

\* The image is copied; without geometry or execution metadata it is refused.
CopyImage ==
    /\ inspect = "loaded"
    /\ \/ /\ inspect' = "importing"
          /\ image' = file.image
          /\ UNCHANGED <<file, loaded, cursor, library, imports, layout>>
       \/ RefuseLoaded

-----------------------------------------------------------------------------
(* Imports *)

MutantInImage(address, words) == address \in ImageRange

InImage(address, words) == address # NoWord /\ address + words <= ImageWords

TypeOf(word) == word[1]
OrdinalOf(word) == 256 * word[3] + word[4]
Swap(word) == <<word[4], word[3], word[2], word[1]>>

Nop == <<96, 0, 0, 0>>
Blr == <<78, 128, 0, 32>>
Thunk(address) == address..(address + ThunkWords - 1)

\* One name for each library, each starting at a word.
ParseImportLibraryNames(names, strings) ==
    /\ \A n \in DOMAIN names : names[n].words > 0
    /\ FoldLeft(LAMBDA words, n : words + n.words, 0, names) <= strings

\* The descriptor's own sizes, and its string table.
BeginImports ==
    /\ inspect = "importing"
    /\ library = 1 /\ cursor = 0
    /\ IF /\ file.libraries # <<>>
          /\ file.strings <= file.size
          /\ ParseImportLibraryNames(file.names, file.strings)
       THEN /\ cursor' = file.strings
            /\ inspect' = "imported"
            /\ UNCHANGED <<file, loaded, image, library, imports, layout>>
       ELSE RefuseLoaded

LibraryInBounds(l) ==
    /\ cursor + LibraryWords <= file.size
    /\ Len(l.records) <= l.size - LibraryWords
    /\ l.size <= file.size - cursor
    /\ l.name \in DOMAIN file.names

\* The records of a library are all read before any is rewritten.
RawImports(l) == [i \in DOMAIN l.records |-> [address |-> l.records[i], word |-> image[l.records[i]]]]

RecordsReadable(l) ==
    \A i \in DOMAIN l.records :
        InImage(l.records[i], 1) /\ TypeOf(image[l.records[i]]) \in {0, 1}

\* A thunk follows the variable record of its own import.
Paired(raw) ==
    \A i \in DOMAIN raw :
        TypeOf(raw[i].word) = 1 =>
            /\ i > 1
            /\ TypeOf(raw[i - 1].word) = 0
            /\ OrdinalOf(raw[i - 1].word) = OrdinalOf(raw[i].word)
            /\ InImage(raw[i].address, ThunkWords)

MutantWriteU32Le(bytes, r) == [bytes EXCEPT ![r.address] = r.word]

\* The word was read most significant byte first.
WriteU32Le(bytes, r) == [bytes EXCEPT ![r.address] = Swap(r.word)]

MutantNormalizeFunctionStub(bytes, address) ==
    [w \in DOMAIN bytes \cup Thunk(address) |->
        IF w \in Thunk(address) THEN <<0, 0, 0, 0>> ELSE bytes[w]]

\* Nop, nop, nop, blr.
NormalizeFunctionStub(bytes, address) ==
    [w \in DOMAIN bytes \cup Thunk(address) |->
        IF w \notin Thunk(address) THEN bytes[w]
        ELSE IF w = address + ThunkWords - 1 THEN Blr ELSE Nop]

Normalize(bytes, r) ==
    IF TypeOf(r.word) = 0 THEN WriteU32Le(bytes, r) ELSE NormalizeFunctionStub(bytes, r.address)

\* The import whose variable record is raw[i].
Import(l, raw, i) ==
    LET isFunction == i < Len(raw) /\ TypeOf(raw[i + 1].word) = 1 IN
    [library |-> file.names[l.name].base,
     ordinal |-> OrdinalOf(raw[i].word),
     kind    |-> IF isFunction THEN "Function" ELSE "Variable",
     address |-> IF isFunction THEN raw[i + 1].address ELSE raw[i].address,
     record  |-> raw[i].address]

\* The imports so far, with one for every variable record of the library.
ParsedImports(l, raw) ==
    LET places == {<<library, i>> : i \in {j \in DOMAIN raw : TypeOf(raw[j].word) = 0}} IN
    [place \in DOMAIN imports \cup places |->
        IF place \in places THEN Import(l, raw, place[2]) ELSE imports[place]]

\* One turn of ParseImports' loop.  What a refused library has rewritten is
\* thrown away with the copy.
ParseLibrary ==
    /\ inspect = "imported"
    /\ library \in DOMAIN file.libraries
    /\ LET l == file.libraries[library] IN
       IF LibraryInBounds(l) /\ RecordsReadable(l) /\ Paired(RawImports(l))
       THEN /\ image' = FoldLeft(Normalize, image, RawImports(l))
            /\ imports' = ParsedImports(l, RawImports(l))
            /\ cursor' = cursor + l.size
            /\ library' = library + 1
            /\ UNCHANGED <<inspect, file, loaded, layout>>
       ELSE RefuseLoaded

-----------------------------------------------------------------------------
(* Sections and helpers, of the rewritten image *)

CodeSections == {s \in Range(file.sections) : s.code /\ s.size # 0}

\* DescribeLoadedPeImage: the code range spans all code sections.
CodeBegin == Min({s.offset : s \in CodeSections})
CodeEnd == Max({s.offset + s.size : s \in CodeSections})

Describable ==
    /\ \A s \in Range(file.sections) : s.offset + s.size <= ImageWords
    /\ CodeSections # {}
    /\ file.entry \in CodeBegin..(CodeEnd - 1)

MutantMatches(pattern, address) == \A i \in DOMAIN pattern : file.image[address + i - 1] = pattern[i]

Matches(pattern, address) == \A i \in DOMAIN pattern : image[address + i - 1] = pattern[i]

\* The places in code sections where a pattern lies wholly inside the section.
ScanXexHelpers ==
    {h \in (DOMAIN Helpers) \X ImageRange :
        /\ \E s \in CodeSections :
              s.offset <= h[2] /\ h[2] + Len(Helpers[h[1]]) <= s.offset + s.size
        /\ Matches(Helpers[h[1]], h[2])}

\* The libraries fill the descriptor; the module is unloaded either way.
Describe ==
    /\ inspect = "imported"
    /\ library \notin DOMAIN file.libraries
    /\ IF cursor = file.size /\ Describable
       THEN /\ inspect' = "done"
            /\ loaded' = FALSE
            /\ layout' = [begin |-> CodeBegin, end |-> CodeEnd, helpers |-> ScanXexHelpers]
            /\ UNCHANGED <<file, image, cursor, library, imports>>
       ELSE RefuseLoaded

-----------------------------------------------------------------------------

\* Nothing is mapped or read yet; a title may do without an inspection.
Unopened(stage) ==
    /\ inspect = stage
    /\ loaded = FALSE
    /\ image = <<>>
    /\ cursor = 0
    /\ library = 1
    /\ imports = <<>>
    /\ layout = NoLayout

XexInit == file \in Files /\ Unopened("none")

InspectXex ==
    ValidateHeader \/ LoadXex \/ CopyImage \/ BeginImports \/ ParseLibrary \/ Describe

-----------------------------------------------------------------------------
(* Properties *)

\* The file lists no address twice.
RecordsDistinct ==
    \A k, l \in DOMAIN file.libraries :
        \A i \in DOMAIN file.libraries[k].records, j \in DOMAIN file.libraries[l].records :
            file.libraries[k].records[i] = file.libraries[l].records[j] => k = l /\ i = j

FunctionThunks == {Thunk(i.address) : i \in {j \in Range(imports) : j.kind = "Function"}}
VariableRecords == {i.record : i \in Range(imports)}

\* "correctly indexed import-library names", "ordered logical imports" and
\* "canonicalizes import records and function stubs" (docs/project-state.md:260):
\* each reported import is what the loader's image says at its addresses, though
\* the records of a later library are read from an image that the earlier ones
\* have rewritten, and stubs may cover any of them.  No word of a stub passes for
\* a record, and a file that lists an address twice is left out.
ReportsMatchLoader ==
    inspect = "done" /\ RecordsDistinct =>
        \A i \in Range(imports) :
            /\ TypeOf(file.image[i.record]) = 0
            /\ OrdinalOf(file.image[i.record]) = i.ordinal
            /\ i.kind = "Function" =>
                  /\ TypeOf(file.image[i.address]) = 1
                  /\ OrdinalOf(file.image[i.address]) = i.ordinal

\* The copy differs from the loader's image in import words only: every record is
\* turned round exactly once and every thunk is the canonical stub, unless thunks
\* and records overlap.
NormalizedOnce ==
    /\ inspect = "done"
    /\ RecordsDistinct
    /\ \A t \in FunctionThunks : t \cap VariableRecords = {}
    /\ \A t, u \in FunctionThunks : t # u => t \cap u = {}
    => image = [w \in ImageRange |->
           IF w \in VariableRecords THEN Swap(file.image[w])
           ELSE IF \E t \in FunctionThunks : w = Max(t) THEN Blr
           ELSE IF \E t \in FunctionThunks : w \in t THEN Nop
           ELSE file.image[w]]

\* The order of the two passes over the image: no helper is reported in words
\* that the inspection has made an import stub, unless it has rewritten a record
\* there as well.
HelpersOutsideStubs ==
    \A h \in layout.helpers : \A t \in FunctionThunks :
        h[2]..(h[2] + Len(Helpers[h[1]]) - 1) \cap (t \ VariableRecords) = {}
==============================================================================
