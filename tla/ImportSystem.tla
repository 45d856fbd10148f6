---------------------------- MODULE ImportSystem ----------------------------
(***************************************************************************)
(* Importing modules: sys.modules, dotted names, packages, partially       *)
(* initialised modules under circular imports, failing module bodies, and  *)
(* programs that edit sys.modules themselves.  Module bodies are arbitrary *)
(* programs: they may import, edit sys.modules, end or raise.  `frames' is *)
(* the stack of import statements in progress.                             *)
(***************************************************************************)
EXTENDS Naturals, Sequences, FiniteSets, SequencesExt

CONSTANTS
  Names,       \* the dotted names programs import
  Chain,       \* Chain[n]: its prefixes, shortest first (split_module_name)
  SpecKind,    \* what find_module_spec finds for a name, or "none"
  Packages,    \* names whose spec has search locations (__path__)
  ModuleObjects,     \* module objects that may be created
  BuiltinObj,  \* the module object of sys and builtins, made by the bootstrap
  Foreign,     \* an object that is not a module
  NoneObj,     \* None
  Absent,      \* not_present
  ImportPrograms     \* kinds of program to run, see ImportProgramsAssumption

ASSUME ImportConstants ==
  /\ \A n \in Names : Chain[n] \in Seq(Names) /\ Chain[n] # <<>> /\ Last(Chain[n]) = n
  /\ \A n \in Names : \A i \in DOMAIN Chain[n] : Chain[Chain[n][i]] = SubSeq(Chain[n], 1, i)
  /\ SpecKind \in [Names -> {"source", "native", "namespace", "builtin", "none"}]
  /\ Packages \subseteq Names
  \* different objects
  /\ {BuiltinObj, Foreign, NoneObj, Absent} \cap ModuleObjects = {} /\ Absent \notin Names
  /\ NoneObj \notin {BuiltinObj, Foreign, Absent} /\ Absent \notin {BuiltinObj, Foreign}

(* A kind of program: the names it imports, the values it stores in        *)
(* sys.modules (Absent: it deletes), a bound on its import statements.     *)
ASSUME ImportProgramsAssumption ==
  \A p \in ImportPrograms :
    /\ p.names \subseteq Names
    /\ p.edits \subseteq {Absent, NoneObj, Foreign}
    /\ p.imports \in Nat

VARIABLES
  importProgram,     \* the one of ImportPrograms that runs
  sysModules,  \* imported_modules(), the dictionary sys.modules
  attrs,       \* attrs[o][n]: the submodule n bound on package object o
  madeFor,     \* the name a module object was created for, or Absent
  frames,      \* import statements in progress, innermost last
  pending,     \* the thread's pending exception, or "none"
  raising,     \* the last statement returned the exception marker
  imports,     \* import statements so far
  done,        \* history: objects whose body ended normally
  failed       \* history: objects whose body raised

importVars == <<importProgram, sysModules, attrs, madeFor, frames, pending, raising, imports, done,
          failed>>

Values == ModuleObjects \cup {BuiltinObj, Foreign, NoneObj, Absent}
Modules == ModuleObjects \cup {BuiltinObj}
Parent(n) == Chain[n][Len(Chain[n]) - 1]
HasParent(n) == Len(Chain[n]) > 1

ImportInit ==
  /\ importProgram \in ImportPrograms
  /\ sysModules = [n \in Names |-> IF SpecKind[n] = "builtin" THEN BuiltinObj ELSE Absent]
  /\ attrs = [o \in Modules |-> [n \in Names |-> Absent]]
  /\ madeFor = [o \in ModuleObjects |-> Absent]
  /\ frames = <<>> /\ pending = "none" /\ raising = FALSE
  /\ imports = 0 /\ done = {} /\ failed = {}
-----------------------------------------------------------------------------
Top == Last(frames)
\* The component a frame is loading: one of the target's or, once those are
\* loaded, the name of `from target import leaf'.
Component(f) ==
  IF f.idx <= Len(Chain[f.target]) THEN Chain[f.target][f.idx] ELSE f.leaf
AtLeaf(f) == f.idx > Len(Chain[f.target])
Loading(f) == ~AtLeaf(f) \/ f.leaf # Absent

\* User code runs: the main program, or the body of the source module that
\* the innermost import is executing; it has no exception to deal with.  The
\* init function of a native module is given no API that runs Python code.
UserCode ==
  /\ ~raising
  /\ frames # <<>> => Top.exec # Absent /\ SpecKind[madeFor[Top.exec]] = "source"

IsPackage(o) == o \in ModuleObjects /\ madeFor[o] \in Packages
Unused == {o \in ModuleObjects : madeFor[o] = Absent}

\* import target / from target import leaf
Import(target, leaf) ==
  /\ UserCode /\ imports < importProgram.imports
  /\ leaf # Absent => HasParent(leaf) /\ Parent(leaf) = target
  /\ frames' = Append(frames, [target |-> target, leaf |-> leaf, idx |-> 1,
                               cur |-> Absent, exec |-> Absent])
  /\ imports' = imports + 1
  /\ UNCHANGED <<importProgram, sysModules, attrs, madeFor, pending, raising, done, failed>>

\* An import statement ends with the exception marker.
Fail(error) ==
  /\ frames' = Front(frames)
  /\ pending' = error /\ raising' = TRUE

\* The component is loaded: a child is bound on its package, and the frame
\* goes on with the next component.
Advance(n, value) ==
  /\ attrs' = IF Top.idx > 1 THEN [attrs EXCEPT ![Top.cur][n] = value] ELSE attrs
  /\ frames' = Front(frames) \o
       <<[Top EXCEPT !.idx = @ + 1, !.cur = value, !.exec = Absent,
                     !.leaf = IF AtLeaf(Top) THEN Absent ELSE @]>>

\* A value found in sys.modules, by get_cached_module and
\* module_from_sys_modules_after_exec.
UseCached(n) ==
  IF sysModules[n] = NoneObj
  THEN Fail("ModuleNotFoundError") /\ UNCHANGED attrs
  ELSE Advance(n, sysModules[n]) /\ UNCHANGED <<pending, raising>>

\* package_path: the component before is no package.
NoPackage(f) == f.idx > 1 /\ ~AtLeaf(f) /\ ~IsPackage(f.cur)

\* load_package_child finds the attribute already there.
AttributeFound ==
  /\ frames # <<>> /\ Top.exec = Absent /\ AtLeaf(Top) /\ Loading(Top)
  /\ Top.cur \in Modules /\ attrs[Top.cur][Top.leaf] # Absent
  /\ frames' = Front(frames) \o
       <<[Top EXCEPT !.idx = @ + 1, !.leaf = Absent, !.cur = attrs[Top.cur][Top.leaf]]>>
  /\ UNCHANGED <<importProgram, sysModules, attrs, madeFor, pending, raising, imports, done, failed>>

\* The steps of load_module_from_path and load_from_spec, for a name that
\* AttributeFound does not settle.
Searching ==
  /\ frames # <<>> /\ Top.exec = Absent /\ Loading(Top)
  /\ AtLeaf(Top) => ~(Top.cur \in Modules /\ attrs[Top.cur][Top.leaf] # Absent)

LoadCached ==
  /\ Searching
  /\ IF NoPackage(Top) \/ (AtLeaf(Top) /\ ~IsPackage(Top.cur))
     THEN Fail(IF AtLeaf(Top) THEN "ImportError" ELSE "ModuleNotFoundError") /\ UNCHANGED attrs
     ELSE sysModules[Component(Top)] # Absent /\ UseCached(Component(Top))
  /\ UNCHANGED <<importProgram, sysModules, madeFor, imports, done, failed>>

MustFind ==
  /\ Searching
  /\ ~NoPackage(Top) /\ (AtLeaf(Top) => IsPackage(Top.cur))
  /\ sysModules[Component(Top)] = Absent

ModuleNotFound ==
  /\ MustFind /\ SpecKind[Component(Top)] = "none"
  /\ Fail(IF AtLeaf(Top) THEN "ImportError" ELSE "ModuleNotFoundError")
  /\ UNCHANGED <<importProgram, sysModules, attrs, madeFor, imports, done, failed>>

LoadBuiltinModule ==
  /\ MustFind /\ SpecKind[Component(Top)] = "builtin"
  /\ sysModules' = [sysModules EXCEPT ![Component(Top)] = BuiltinObj]
  /\ Advance(Component(Top), BuiltinObj)
  /\ UNCHANGED <<importProgram, madeFor, pending, raising, imports, done, failed>>

LoadNamespaceModule ==
  /\ MustFind /\ SpecKind[Component(Top)] = "namespace"
  /\ Unused # {}
  /\ LET o == CHOOSE u \in Unused : TRUE
         n == Component(Top)
     IN  /\ madeFor' = [madeFor EXCEPT ![o] = n]
         /\ sysModules' = [sysModules EXCEPT ![n] = o]
         /\ done' = done \cup {o}
         /\ Advance(n, o)
  /\ UNCHANGED <<importProgram, pending, raising, imports, failed>>

\* Mutant: the module enters sys.modules when its body has ended.
BeginBodyUncached ==
  /\ MustFind /\ SpecKind[Component(Top)] \in {"source", "native"}
  /\ Unused # {}
  /\ LET o == CHOOSE u \in Unused : TRUE
     IN  /\ madeFor' = [madeFor EXCEPT ![o] = Component(Top)]
         /\ frames' = Front(frames) \o <<[Top EXCEPT !.exec = o]>>
  /\ UNCHANGED <<importProgram, sysModules, attrs, pending, raising, imports, done, failed>>

\* load_source_module and load_native_extension_module: the new module is in
\* sys.modules before its source is read and run, or its init called.
BeginBody ==
  /\ MustFind /\ SpecKind[Component(Top)] \in {"source", "native"}
  /\ Unused # {}
  /\ LET o == CHOOSE u \in Unused : TRUE
     IN  /\ madeFor' = [madeFor EXCEPT ![o] = Component(Top)]
         /\ sysModules' = [sysModules EXCEPT ![Component(Top)] = o]
         /\ frames' = Front(frames) \o <<[Top EXCEPT !.exec = o]>>
  /\ UNCHANGED <<importProgram, attrs, pending, raising, imports, done, failed>>

\* The body ended: the module is what sys.modules now has for the name.
BodyEnds ==
  /\ frames # <<>> /\ Top.exec # Absent /\ ~raising
  /\ done' = done \cup {Top.exec}
  /\ IF sysModules[Component(Top)] = Absent
     THEN Fail("ImportError") /\ UNCHANGED attrs
     ELSE UseCached(Component(Top))
  /\ UNCHANGED <<importProgram, sysModules, madeFor, imports, failed>>

\* Mutant: a failing module takes its submodules with it.
RemoveImportedModuleTree(n, error) ==
  /\ sysModules' = [m \in Names |-> IF \E i \in DOMAIN Chain[m] : Chain[m][i] = n
                                    THEN Absent ELSE sysModules[m]]
  /\ pending' = IF sysModules[n] # Absent THEN error ELSE "none"

\* remove_imported_module runs with the exception of the body pending.  The
\* KeyError of a name that is not there replaces it and is swallowed.
RemoveImportedModule(n, error) ==
  /\ sysModules' = [sysModules EXCEPT ![n] = Absent]
  /\ pending' = IF sysModules[n] # Absent THEN error ELSE "none"

\* The body raises, its source cannot be read or compiled, or its init
\* fails; or it does not catch what a nested import raised.
BodyRaises ==
  /\ frames # <<>> /\ Top.exec # Absent
  /\ RemoveImportedModule(Component(Top), IF raising THEN pending ELSE "Exception")
  /\ failed' = failed \cup {Top.exec}
  /\ frames' = Front(frames) /\ raising' = TRUE
  /\ UNCHANGED <<importProgram, attrs, madeFor, imports, done>>

\* User code catches the exception of an import statement.
Catch ==
  /\ raising
  /\ raising' = FALSE /\ pending' = "none"
  /\ UNCHANGED <<importProgram, sysModules, attrs, madeFor, frames, imports, done, failed>>

\* All components are loaded.  `import a.b', with no leaf behind it, then
\* looks up a in sys.modules.
ImportReturns ==
  /\ frames # <<>> /\ Top.exec = Absent /\ ~Loading(Top)
  /\ IF /\ Top.idx = Len(Chain[Top.target]) + 1 /\ HasParent(Top.target)
        /\ sysModules[Chain[Top.target][1]] = Absent
     THEN Fail("KeyError")
     ELSE frames' = Front(frames) /\ UNCHANGED <<pending, raising>>
  /\ UNCHANGED <<importProgram, sysModules, attrs, madeFor, imports, done, failed>>

\* A program assigns or deletes an entry of sys.modules.
EditSysModules(n, value) ==
  /\ UserCode /\ sysModules[n] # value
  /\ sysModules' = [sysModules EXCEPT ![n] = value]
  /\ UNCHANGED <<importProgram, attrs, madeFor, frames, pending, raising, imports, done, failed>>

ImportNext ==
  \/ \E target \in importProgram.names, leaf \in importProgram.names \cup {Absent} :
       Import(target, leaf)
  \/ AttributeFound
  \/ LoadCached
  \/ ModuleNotFound
  \/ LoadBuiltinModule
  \/ LoadNamespaceModule
  \/ BeginBody
  \/ BodyEnds
  \/ BodyRaises
  \/ Catch
  \/ ImportReturns
  \/ \E n \in importProgram.names, value \in importProgram.edits : EditSysModules(n, value)

ImportSpec == ImportInit /\ [][ImportNext]_importVars
-----------------------------------------------------------------------------
Executing == {frames[i].exec : i \in DOMAIN frames} \ {Absent}

(* sys.modules holds, for each name, a module made for that name whose     *)
(* body has ended or is still running, or what the program put there: a    *)
(* module whose body failed is never served to a later import, however its *)
(* import was nested in others, and a None that blocks an import never is. *)
CacheSound ==
  /\ \A n \in Names : sysModules[n] \in ModuleObjects =>
       /\ madeFor[sysModules[n]] = n
       /\ sysModules[n] \in done \cup Executing
       /\ sysModules[n] \notin failed
  /\ \A i \in DOMAIN frames : frames[i].cur # NoneObj
  /\ \A o \in Modules, n \in Names : attrs[o][n] # NoneObj

(* Circular imports end: unless the program edits sys.modules, no module   *)
(* body is started while an earlier body of the same name is running.      *)
NoNestedReload ==
  importProgram.edits = {} => \A i, j \in DOMAIN frames :
    frames[i].exec # Absent /\ frames[j].exec # Absent /\
    madeFor[frames[i].exec] = madeFor[frames[j].exec] => i = j

(* A failed import removes the entry of the failing module and no other:   *)
(* what was cached before it, or loaded by its body, stays, unless the     *)
(* program itself removes it.                                              *)
OnlyFailingEntryRemoved ==
  [][importProgram.edits = {} => \A n \in Names :
       sysModules[n] \in ModuleObjects /\ sysModules'[n] # sysModules[n] =>
         sysModules[n] \in failed']_importVars

Bound(n) ==
  sysModules[Parent(n)] \in ModuleObjects /\ sysModules[n] \in ModuleObjects =>
    attrs[sysModules[Parent(n)]][n] = sysModules[n]

(* As long as no module body failed and the program does not edit          *)
(* sys.modules, between import statements every cached submodule is bound  *)
(* on its cached package.                                                  *)
SubmodulesBound ==
  importProgram.edits = {} /\ frames = <<>> /\ failed = {} => \A n \in Names : HasParent(n) => Bound(n)

(* An import statement that fails leaves its exception pending, unless the *)
(* program edits sys.modules: when a body that fails has taken its own     *)
(* module out, the KeyError of the cleanup replaces the exception and is   *)
(* lost with it.                                                           *)
FailureHasPending == importProgram.edits = {} /\ raising => pending # "none"

(* What circular, failing and edited imports leave behind                  *)
ModulesSound == CacheSound /\ NoNestedReload /\ SubmodulesBound /\ FailureHasPending
=============================================================================
