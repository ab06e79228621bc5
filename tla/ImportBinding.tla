---------------------------- MODULE ImportBinding ----------------------------
(***************************************************************************)
(* How an import of the guest image comes to call the right host handler:  *)
(* services claim exports by name (src/import_claims.cpp), the embedder    *)
(* walks the image's import manifest and makes one binding per import,     *)
(* LoadModule validates manifest and bindings (src/module_validation.cpp), *)
(* builds export tables and attaches them to Xenia                         *)
(* (src/runtime_imports.cpp).  Each stage relies on what an earlier one    *)
(* has refused.                                                            *)
(*                                                                         *)
(* Guest addresses are words of the image, whose code comes first.  Left   *)
(* out are names, digests, which are one more reason for refusal, and      *)
(* applied_, which counts the handlers Apply has installed.                *)
(* An import is designated by its position in the manifest, 0 is null.     *)
(* Xenia's ExportResolver is external: it searches the tables in the order *)
(* of their registration and uses the first of the library it is asked for.*)
(***************************************************************************)
EXTENDS Integers, Sequences, FiniteSets

CONSTANTS
    Manifests,      \* import manifests a module may state
    KnownLibraries, \* libraries ExportNames knows
    Exports,        \* export name -> [library, ordinal, kind]
    MaxClaims,      \* bound: claims resolved at once
    MaxOrdinal,     \* 16-bit export ordinals: 0..MaxOrdinal
    ThunkWords,     \* words of an import thunk
    CodeWords,      \* words of the code range
    ImageWords      \* words of the image

Kinds == {"Function", "Variable"}

Requirement == [library : Nat, ordinal : Nat, kind : Kinds, address : Nat, record : Nat]

ASSUME ImportBindingAssumption ==
    /\ \A m \in Manifests : m \in Seq(Requirement)
    /\ \A n \in DOMAIN Exports : Exports[n] \in [library : KnownLibraries, ordinal : Nat, kind : Kinds]
    /\ DOMAIN Exports \cap {"default", "none", "unhandled", "undeclared"} = {}
    /\ MaxOrdinal \in Nat
    /\ ImageWords \in Nat
    /\ ThunkWords \in Nat \ {0}
    /\ CodeWords \in 0..ImageWords

VARIABLES
    phase,    \* how far composition and LoadModule have come
    manifest, \* ImportManifest()
    claims,   \* resolved_: what a claimed export calls, by library and ordinal
    bindings, \* the embedder's bindings so far
    accepted, \* history: the exports the last resolution accepted, if any
    due,      \* history: the handler each binding should have by now
    tables,   \* first import of each export table registered with the resolver
    mapping,  \* the import each export's mapping has been set to
    externs,  \* the import each function's extern handler dispatches to
    memory,   \* the import whose thunk or value each image word holds
    next      \* the import Attach comes to next

composeVars == <<claims, bindings, accepted, due>>
attachVars == <<tables, mapping, externs, memory, next>>
vars == <<phase, manifest, composeVars, attachVars>>

Imports == DOMAIN manifest
Handlers == DOMAIN Exports \cup {"default", "none"}
Words == 0..(ImageWords - 1)

\* What a claim is about.
ExportIds == {<<Exports[n].library, Exports[n].ordinal>> : n \in DOMAIN Exports}
Identity(r) == <<r.library, r.ordinal>>

TypeOK ==
    /\ phase \in {"composing", "submitted", "valid", "attaching", "loaded", "refused", "failed"}
    /\ manifest \in Seq(Requirement)
    /\ DOMAIN claims \subseteq ExportIds
    /\ \A id \in DOMAIN claims : claims[id] \in DOMAIN Exports
    /\ accepted \subseteq DOMAIN Exports
    /\ Len(bindings) <= Len(manifest)
    /\ Len(due) = Len(bindings)
    /\ \A i \in DOMAIN bindings : bindings[i].handler \in Handlers
    /\ tables \subseteq Imports
    /\ mapping \in [Imports -> {0} \cup Imports]
    /\ externs \in [Imports -> {0} \cup Imports]
    /\ memory \in [Words -> {0} \cup Imports]
    /\ next \in 1..(Len(manifest) + 1)

-----------------------------------------------------------------------------
(* Claims *)

\* A claim is the export it names, unless it has no handler or its library does
\* not declare the name.
Claims == DOMAIN Exports \cup {"unhandled", "undeclared"}

\* A claim that Resolve accepts: a function export.
Claimable(claim) == claim \in DOMAIN Exports /\ Exports[claim].kind = "Function"

Distinct(list) ==
    \A i, j \in DOMAIN list :
        i # j => Identity(Exports[list[i]]) # Identity(Exports[list[j]])

Acceptable(list) == (\A i \in DOMAIN list : Claimable(list[i])) /\ Distinct(list)

\* resolved_ when these exports are claimed.
ClaimTable(names) ==
    [id \in {Identity(Exports[n]) : n \in names} |->
        CHOOSE n \in names : Identity(Exports[n]) = id]

Names(list) == {list[i] : i \in DOMAIN list}

MutantResolve(list) ==
    /\ phase = "composing"
    /\ \E n \in 0..Len(list) :
          /\ Acceptable(SubSeq(list, 1, n))
          /\ n < Len(list) => ~Acceptable(SubSeq(list, 1, n + 1))
          /\ claims' = ClaimTable(Names(SubSeq(list, 1, n)))
          /\ accepted' = IF n = Len(list) THEN Names(list) ELSE accepted
    /\ UNCHANGED <<phase, manifest, bindings, due, attachVars>>

\* ImportClaimTable::Resolve installs every claim, or refuses and keeps the
\* table it had.  It may be called before, during and after the walk, and again;
\* once the bindings have been submitted nothing reads the table.
Resolve(list) ==
    /\ phase = "composing"
    /\ IF Acceptable(list)
       THEN claims' = ClaimTable(Names(list)) /\ accepted' = Names(list)
       ELSE UNCHANGED <<claims, accepted>>
    /\ UNCHANGED <<phase, manifest, bindings, due, attachVars>>

Clear ==
    /\ phase = "composing"
    /\ claims' = <<>>
    /\ accepted' = {}
    /\ UNCHANGED <<phase, manifest, bindings, due, attachVars>>

\* The claim Apply finds for a requirement.
Claimed(r) ==
    /\ r.kind = "Function"
    /\ r.library \in KnownLibraries
    /\ Identity(r) \in DOMAIN claims

\* ImportClaimTable::Apply, on the binding.
Apply(r, binding) ==
    IF Claimed(r) THEN [binding EXCEPT !.handler = claims[Identity(r)]] ELSE binding

\* The binding an embedder means for r, and the mistakes ValidateImports is
\* there for.
Intended(r) ==
    [library |-> r.library, ordinal |-> r.ordinal, kind |-> r.kind,
     handler |-> IF r.kind = "Function" THEN "default" ELSE "none",
     resolver |-> r.kind = "Variable"]

Proposed(r) ==
    {Intended(r)}
    \cup {[Intended(r) EXCEPT !.ordinal = @ + 1]}
    \cup {[Intended(r) EXCEPT !.kind = k] : k \in Kinds}
    \cup {[Intended(r) EXCEPT !.handler = h] : h \in {"default", "none"}}

\* History: the handler a binding for r should have once Apply has been called on
\* it: that of the accepted claim of its export, or else the one it had.
Due(r, handler) ==
    IF r.kind = "Function" /\ \E n \in accepted : Identity(Exports[n]) = Identity(r)
    THEN CHOOSE n \in accepted : Identity(Exports[n]) = Identity(r)
    ELSE handler

\* The embedder's walk: one binding, with Apply called on it.
BindNext(binding) ==
    LET r == manifest[Len(bindings) + 1] IN
    /\ phase = "composing"
    /\ Len(bindings) < Len(manifest)
    /\ binding \in Proposed(r)
    /\ bindings' = Append(bindings, Apply(r, binding))
    /\ due' = Append(due, Due(r, binding.handler))
    /\ UNCHANGED <<phase, manifest, claims, accepted, attachVars>>

\* Apply called once more on a binding made earlier, as in a further walk.
ApplyAgain(i) ==
    /\ phase = "composing"
    /\ bindings' = [bindings EXCEPT ![i] = Apply(manifest[i], @)]
    /\ due' = [due EXCEPT ![i] = Due(manifest[i], @)]
    /\ UNCHANGED <<phase, manifest, claims, accepted, attachVars>>

-----------------------------------------------------------------------------
(* Validation *)

MutantThunk(r) == r.address..(r.address + ThunkWords - 2)

\* Four instructions.
Thunk(r) == r.address..(r.address + ThunkWords - 1)

\* The words Attach writes for r, of the image or past its end.
Written(r) == IF r.kind = "Function" THEN Thunk(r) ELSE {r.record}

\* Every import lies inside the image, a thunk inside the code.
Placed(r) ==
    /\ r.ordinal # 0
    /\ r.record < ImageWords
    /\ CASE r.kind = "Function" -> r.address < CodeWords /\ r.address + ThunkWords <= CodeWords
         [] r.kind = "Variable" -> r.address = r.record

OrdinalFits(r) == r.ordinal <= MaxOrdinal

NoAddressConflict(m) ==
    \A i, j \in DOMAIN m :
        i # j => m[i].address # m[j].address /\ m[i].record # m[j].record

MutantImportLess(l, r) == l.ordinal < r.ordinal \/ (l.ordinal = r.ordinal /\ l.library < r.library)

ImportLess(l, r) ==
    IF l.library # r.library THEN l.library < r.library ELSE l.ordinal < r.ordinal

ValidManifest(m) ==
    /\ \A i \in DOMAIN m : OrdinalFits(m[i]) /\ Placed(m[i])
    /\ NoAddressConflict(m)
    /\ \A i \in 2..Len(m) : ImportLess(m[i - 1], m[i])

\* The callbacks a binding must and must not have.
CallbackShape(b) ==
    CASE b.kind = "Function" -> b.handler # "none" /\ ~b.resolver
      [] b.kind = "Variable" -> b.handler = "none" /\ b.resolver

ValidBindings(m, bs) ==
    /\ Len(bs) = Len(m)
    /\ \A i \in DOMAIN m :
          /\ Identity(bs[i]) = Identity(m[i])
          /\ bs[i].kind = m[i].kind
          /\ CallbackShape(bs[i])

\* LoadModule is called with the bindings made so far.
Submit ==
    /\ phase = "composing"
    /\ phase' = "submitted"
    /\ UNCHANGED <<manifest, composeVars, attachVars>>

\* ValidateModule and ValidateImports.  A digest mismatch refuses as well.
Validate ==
    /\ phase = "submitted"
    /\ \/ ValidManifest(manifest) /\ ValidBindings(manifest, bindings) /\ phase' = "valid"
       \/ phase' = "refused"
    /\ UNCHANGED <<manifest, composeVars, attachVars>>

-----------------------------------------------------------------------------
(* Tables *)

MutantStartsTable(i) == i = 1

\* RuntimeImports::Create starts a table where the library changes.
StartsTable(i) == i = 1 \/ manifest[i].library # manifest[i - 1].library

\* The imports of the table that starts at t.
TableOf(t) == {i \in Imports : t <= i /\ \A j \in (t + 1)..i : ~StartsTable(j)}

\* A variable's resolver may answer null: LoadModule refuses.
CreateTables ==
    /\ phase = "valid"
    /\ \/ phase' = "attaching"
       \/ (\E i \in Imports : manifest[i].kind = "Variable") /\ phase' = "refused"
    /\ UNCHANGED <<manifest, composeVars, attachVars>>

\* Export identities are 16 bits wide.
ExportOrdinal(i) == manifest[i].ordinal % (MaxOrdinal + 1)

\* External: the export the resolver finds in the first registered table of a
\* library; a later import of the same ordinal has replaced an earlier one.
Lookup(registered, library, ordinal) ==
    LET ofLibrary == {t \in registered : manifest[t].library = library}
        first == CHOOSE t \in ofLibrary : \A u \in ofLibrary : t <= u
        found == {i \in TableOf(first) : manifest[i].ordinal = ordinal}
    IN IF ofLibrary = {} \/ found = {} THEN 0
       ELSE CHOOSE i \in found : \A j \in found : j <= i

\* Attach's loop body for the next import: its table is registered before the
\* first of its imports, the mapping is set on the export the resolver finds,
\* and the thunk or the variable's record is written to the image.
AttachNext ==
    LET i == next
        r == manifest[i]
        registered == IF StartsTable(i) THEN tables \cup {i} ELSE tables
        export == Lookup(registered, r.library, ExportOrdinal(i))
        mapped == IF export = 0 THEN mapping ELSE [mapping EXCEPT ![export] = i]
    IN
    /\ phase = "attaching"
    /\ i \in Imports
    /\ tables' = registered
    /\ mapping' = mapped
    /\ externs' = IF r.kind = "Function" THEN [externs EXCEPT ![i] = mapped[i]] ELSE externs
    /\ memory' = [w \in Words \cup Written(r) |->
                    IF w \notin Written(r) THEN memory[w]
                    ELSE IF r.kind = "Function" THEN i ELSE mapped[i]]
    /\ next' = i + 1
    /\ UNCHANGED <<phase, manifest, composeVars>>

\* Xenia refuses to declare a function import.
AttachFails ==
    /\ phase = "attaching"
    /\ next \in Imports
    /\ manifest[next].kind = "Function"
    /\ phase' = "failed"
    /\ UNCHANGED <<manifest, composeVars, attachVars>>

FinishAttach ==
    /\ phase = "attaching"
    /\ next \notin Imports
    /\ phase' = "loaded"
    /\ UNCHANGED <<manifest, composeVars, attachVars>>

-----------------------------------------------------------------------------

\* Nothing is bound or attached before the manifest m is known.
Fresh(m) ==
    /\ manifest = m
    /\ phase = "composing"
    /\ claims = <<>>
    /\ accepted = {}
    /\ due = <<>>
    /\ bindings = <<>>
    /\ tables = {}
    /\ mapping = [i \in DOMAIN m |-> 0]
    /\ externs = [i \in DOMAIN m |-> 0]
    /\ memory = [w \in Words |-> 0]
    /\ next = 1

Init == \E m \in Manifests : Fresh(m)

Next ==
    \/ \E n \in 0..MaxClaims : \E list \in [1..n -> Claims] : Resolve(list)
    \/ Clear
    \/ Len(bindings) < Len(manifest)
       /\ \E binding \in Proposed(manifest[Len(bindings) + 1]) : BindNext(binding)
    \/ \E i \in DOMAIN bindings : ApplyAgain(i)
    \/ Submit
    \/ Validate
    \/ CreateTables
    \/ AttachNext
    \/ AttachFails
    \/ FinishAttach

Spec == Init /\ [][Next]_vars

-----------------------------------------------------------------------------
(* Properties *)

\* In a loaded module every function import calls its own service, through the
\* claim, the walk, the table of its library, the resolver's mapping and the
\* function's extern handler, whatever the manifest and the bindings were.  Its
\* service is the one that the last accepted resolution had for it when Apply was
\* called, so that a refused resolution installs nothing and a later one, or a
\* Clear, takes nothing back (import_claims.cpp:28-71).
ImportsReachTheirService ==
    phase = "loaded" =>
        \A i \in Imports :
            manifest[i].kind = "Function" =>
                /\ externs[i] # 0
                /\ bindings[externs[i]].handler = due[i]

\* No export table is shadowed: the resolver is never given two tables of one
\* library, since the second would never be searched.
OneTablePerLibrary ==
    \A t, u \in tables : manifest[t].library = manifest[u].library => t = u

\* In a loaded module every variable's record holds what its own resolver
\* answered, unless it lies in a thunk written to the same words.
RecordsHoldTheirValue ==
    phase = "loaded" =>
        \A i \in Imports :
            /\ manifest[i].kind = "Variable"
            /\ \A j \in Imports :
                  manifest[j].kind = "Function" => manifest[i].record \notin Thunk(manifest[j])
            => memory[manifest[i].record] = i
=============================================================================
