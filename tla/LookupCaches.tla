---------------------------- MODULE LookupCaches ----------------------------
(***************************************************************************)
(* Attribute lookup and the caches in front of it: shapes with their       *)
(* transitions, validity cells, the inline caches of attribute reads,      *)
(* stores and deletes, and the constructor thunk of a class with the call  *)
(* caches that hold it.                                                    *)
(*                                                                         *)
(* An inline cache entry is used while the receiver still has the cached   *)
(* shape and the cached validity cell is still valid.  Everything a lookup *)
(* depended on beyond the receiver's shape must therefore invalidate that  *)
(* cell when it changes.                                                   *)
(*                                                                         *)
(* The MRO of a class is fixed when the class is built (module             *)
(* ClassHierarchy), and every class statement uses the metaclass `type',   *)
(* so both are constants here.                                             *)
(***************************************************************************)
EXTENDS Naturals, Sequences, Functions

CONSTANTS
  Classes, TypeClass,  \* class objects, `type' among them
  Frozen,              \* classes whose shape is immutable after bootstrap
  Mro,                 \* Mro[c]: the materialized __mro__ of c
  Instances,           \* slot objects that are not classes
  FunctionValues,      \* function objects
  Plain,               \* other values, of frozen builtin types
  Programs,            \* user programs to run, see ProgramsAssumption
  ReadSites, StoreSites, DeleteSites, CallSites,  \* inline caches
  SiteName,            \* attribute name of a read or mutation site
  Cells,               \* addresses of validity cells, numbered
  InlineSlots,         \* slots of an object that are inline
  ReuseScan,           \* kMaxAttachedValidityCellReuseScan
  MaxPath,             \* bound on the transitions an object goes through
  None                 \* null pointers and Value::not_present

Objects == Classes \cup Instances
MutationSites == StoreSites \cup DeleteSites
Value == FunctionValues \cup Plain \cup Instances
\* __set__ stands for __set__ and __delete__: they are treated alike.
New == "__new__"
Init_ == "__init__"
Get == "__get__"
Set == "__set__"
\* Descriptors every class's root shape reserves, with StableSlot.
Predefined == {New, Init_}

ASSUME LookupConstants ==
  /\ TypeClass \in Frozen /\ Frozen \subseteq Classes
  /\ Mro \in [Classes -> Seq(Classes)]
  /\ \A c \in Classes : Len(Mro[c]) > 0 /\ Mro[c][1] = c
  \* builtin classes derive from builtin classes only
  /\ \A c \in Frozen : Range(Mro[c]) \subseteq Frozen
  /\ Instances \cap (Classes \cup FunctionValues) = {} /\ None \notin Classes \cup Cells
  \* an inline cache belongs to one instruction
  /\ StoreSites \cap DeleteSites = {}
  /\ Cells \subseteq Nat
  /\ InlineSlots \in Nat /\ ReuseScan \in Nat
  /\ MaxPath \in Nat

(* A program: the class of each instance, what each class body defines, in *)
(* order, the objects it reads, calls or gives another class, the sites it *)
(* uses, the assignments <<o, n, v>> of v to o.n it may make (it may       *)
(* delete o.n as well), and a bound on its assignments to __class__.       *)
ASSUME ProgramsAssumption ==
  \A p \in Programs :
    /\ p.class \in [Instances -> Classes]
    /\ DOMAIN p.body = Classes /\ \A c \in Classes : Len(p.body[c]) \in Nat
    /\ p.objects \subseteq Objects
    /\ p.sites \subseteq ReadSites \cup MutationSites \cup CallSites
    /\ \A a \in p.assigns : a[1] \in Objects \ Frozen /\ a[3] \in Value
    /\ p.clones \in Nat

VARIABLES
  program,   \* the one of Programs that runs
  shape,     \* the Shape of every object
  storage,   \* its slots
  lookup,    \* validity cells: which are valid, and each class's fields
  readCache, mutationCache, callCache,
  clones     \* shapes made by clone_with_class so far

vars == <<program, shape, storage, lookup, readCache, mutationCache, callCache,
          clones>>

-----------------------------------------------------------------------------
(* Shapes.  Transitions are memoised in the shape they leave, so a shape   *)
(* is determined by its root and the transitions taken from it.            *)

EmptyMap == [n \in {} |-> 0]

\* ClassObject::ClassObject: a root shape of its own for every class, with
\* the predefined descriptors latent.
ClassRootShape(c) ==
  [cls |-> TypeClass, root |-> <<"class", c>>, path |-> <<>>,
   slots |-> EmptyMap, latent |-> [n \in Predefined |-> IF n = New THEN 1 ELSE 2],
   next |-> 3]

\* The instance root shape, shared by the instances of a class.
InstanceRootShape(c) ==
  [cls |-> c, root |-> <<"instance", c>>, path |-> <<>>,
   slots |-> EmptyMap, latent |-> EmptyMap, next |-> 1]

Without(f, n) == Restrict(f, DOMAIN f \ {n})
With(f, n, v) == [k \in DOMAIN f \cup {n} |-> IF k = n THEN v ELSE f[k]]

\* A latent descriptor comes back with its slot; a new one takes the next.
DeriveAddTransition(sh, n) ==
  LET latent == n \in DOMAIN sh.latent
      slot == IF latent THEN sh.latent[n] ELSE sh.next
  IN  [sh EXCEPT !.path = Append(@, <<"Add", n>>),
                 !.slots = With(@, n, slot),
                 !.latent = Without(@, n),
                 !.next = IF latent THEN @ ELSE @ + 1]

\* A slot is not given back; a StableSlot descriptor is kept as latent.
DeriveDeleteTransition(sh, n) ==
  [sh EXCEPT !.path = Append(@, <<"Delete", n>>),
             !.slots = Without(@, n),
             !.latent = IF sh.root[1] = "class" /\ n \in Predefined
                        THEN With(@, n, sh.slots[n]) ELSE @]

CloneWithClass(sh, c, id) ==
  [sh EXCEPT !.cls = c, !.root = <<"clone", id>>, !.path = <<>>]

IsClassObject(o) == o \in Classes
IsImmutable(o) == o \in Frozen
ClassOf(v) == shape[v].cls
Present(o, n) == n \in DOMAIN shape[o].slots

-----------------------------------------------------------------------------
(* Full lookup.                                                            *)

\* lookup_class_chain_read_descriptor: the first class of the MRO that has
\* the name present; latent descriptors do not stop the search.
ChainOwner(c, n) ==
  LET hits == {i \in DOMAIN Mro[c] : Present(Mro[c][i], n)}
  IN  IF hits = {} THEN None
      ELSE Mro[c][CHOOSE i \in hits : \A j \in hits : i <= j]

\* lookup_descriptor_protocol on the type of a value.  No frozen builtin
\* type of a Plain or Function value defines the protocol.
HasProtocol(v, n) == v \in Instances /\ ChainOwner(ClassOf(v), n) # None

NotFound == [found |-> FALSE]

PlanKind(path, v) ==
  IF path = "InstanceClassChain" /\ v \in FunctionValues THEN "BindFunctionReceiver"
  ELSE IF ~HasProtocol(v, Get) THEN "ReceiverSlot"
  ELSE IF HasProtocol(v, Set) THEN "DataDescriptorGet"
  ELSE "NonDataDescriptorGet"

\* classify_class_read_descriptor of a class-chain search.
ClassifiedRead(c, n, path) ==
  LET k == ChainOwner(c, n)
      slot == shape[k].slots[n]
  IN  IF k = None THEN NotFound
      ELSE [found |-> TRUE, owner |-> k, slot |-> slot,
            value |-> storage[k][slot],
            kind |-> PlanKind(path, storage[k][slot]), cell |-> "none"]

Cacheable(d) ==
  d.found /\ d.kind \notin {"DataDescriptorGet", "NonDataDescriptorGet"}

\* Mutant: the type of the hidden class value is taken to be stable.
BlockedByDescriptorOnly(r) == r.found /\ ~Cacheable(r)

\* superseded_class_read_descriptor_cache_blockers: the class value that the
\* receiver's own property hides could become a data descriptor later.
Blocked(d) ==
  /\ d.found
  /\ \/ ~Cacheable(d)
     \/ d.value \in Instances /\ ClassOf(d.value) \notin Frozen

\* with_..._validity_cell_if_unblocked; cell names the kind of cell wanted.
WithCell(d, kind) == IF Cacheable(d) THEN [d EXCEPT !.cell = kind] ELSE d

OwnRead(o, n, blocked) ==
  [found |-> TRUE, owner |-> None, slot |-> shape[o].slots[n],
   value |-> storage[o][shape[o].slots[n]], kind |-> "ReceiverSlot",
   cell |-> IF blocked THEN "none" ELSE "msc"]

ResolveClassRead(c, n) ==
  LET d == ClassifiedRead(c, n, "ClassObjectChain")
      m == ClassifiedRead(TypeClass, n, "MetaclassChain")
  IN  IF d.found THEN WithCell(d, "msm")
      ELSE IF c = TypeClass THEN NotFound
      ELSE WithCell(m, "msm")

\* resolve_attr_read_descriptor: data descriptors of the class first, then
\* the receiver's own property, then the class chain.
ResolveRead(o, n) ==
  IF IsClassObject(o) THEN ResolveClassRead(o, n)
  ELSE LET d == ClassifiedRead(ClassOf(o), n, "InstanceClassChain")
       IN  IF d.found /\ d.kind = "DataDescriptorGet" THEN d
           ELSE IF Present(o, n) THEN OwnRead(o, n, Blocked(d))
           ELSE WithCell(d, "msm")

\* The class whose cells guard a read on o.
GuardClass(o) == IF IsClassObject(o) THEN o ELSE ClassOf(o)

\* class_read_descriptor_is_mutating_descriptor
MutatingDescriptor(d) == d.found /\ HasProtocol(d.value, Set)

\* resolve_attr_write_descriptor and resolve_attr_delete_descriptor consult
\* the class of the receiver (the metaclass, for a class object).
Superseded(o, n) == ClassifiedRead(ClassOf(o), n, "ClassObjectChain")

ResolveWrite(o, n) ==
  IF MutatingDescriptor(Superseded(o, n)) THEN [status |-> "Disallowed"]
  ELSE IF ~Present(o, n) THEN [status |-> "NotFound"]
  ELSE [status |-> "Found",
        plan |-> [kind |-> "StoreExisting", slot |-> shape[o].slots[n]],
        cacheable |-> ~Blocked(Superseded(o, n))]

ResolveDelete(o, n) ==
  IF MutatingDescriptor(Superseded(o, n)) \/ IsImmutable(o)
  THEN [status |-> "Disallowed"]
  ELSE IF ~Present(o, n) THEN [status |-> "NotFound"]
  ELSE [status |-> "Found",
        plan |-> [kind |-> "DeleteOwnProperty", slot |-> shape[o].slots[n],
                  next |-> DeriveDeleteTransition(shape[o], n)],
        cacheable |-> ~Blocked(Superseded(o, n))]

AddPlan(o, n) ==
  LET next == DeriveAddTransition(shape[o], n)
  IN  [kind |-> "AddOwnProperty", slot |-> next.slots[n], next |-> next]

-----------------------------------------------------------------------------
(* Validity cells.  `lookup' holds the set of valid cells and, per class,  *)
(* msc and msm (the two cells the class owns), the lists of cells attached *)
(* to it and its constructor thunk.  The operators below map one value of  *)
(* `lookup' to the next, in the order of the calls in the code.            *)

Held(lk) ==
  UNION {{lk.class[c].msc, lk.class[c].msm} \cup Range(lk.class[c].shapeList)
           \cup Range(lk.class[c].contentsList) : c \in Classes}

Cached ==
  {readCache[s].cell : s \in ReadSites}
    \cup {mutationCache[s].cell : s \in MutationSites}
    \cup {callCache[s].cell : s \in CallSites}

\* Assumption: an address that an inline cache still names is not given to a
\* new cell.  The caches hold plain pointers that no count protects, so the
\* code itself does not exclude it.
Free(lk) == Cells \ (Held(lk) \cup Cached)
\* The address make_internal_raw<ValidityCell> returns, if one is needed and
\* the bound on cells leaves one.
NewCell(lk, c, kind) ==
  IF lk.class[c][kind] \in lk.valid THEN {None}
  ELSE {k \in Free(lk) : \A j \in Free(lk) : k <= j}

\* Mutant: the first scanned place is taken without looking at its cell.
AttachOverFirst(list, k, valid) ==
  IF list = <<>> THEN <<k>> ELSE [list EXCEPT ![1] = k]

\* attach_mro_validity_cell: take over the place of an invalid cell among
\* the first ReuseScan entries, else append.
Attach(list, k, valid) ==
  LET dead == {i \in DOMAIN list : i <= ReuseScan /\ list[i] \notin valid}
  IN  IF dead = {} THEN Append(list, k)
      ELSE [list EXCEPT ![CHOOSE i \in dead : \A j \in dead : i <= j] = k]

\* install_validity_cell_along_mro over the MRO entries from index `from'.
Install(lk, k, c, from, dependency) ==
  LET along == {Mro[c][i] : i \in {j \in DOMAIN Mro[c] : j >= from}}
  IN  [lk EXCEPT !.class =
        [b \in Classes |->
          IF b \notin along THEN lk.class[b]
          ELSE IF dependency = "ShapeOnly"
               THEN [lk.class[b] EXCEPT !.shapeList = Attach(lk.class[b].shapeList, k, lk.valid)]
               ELSE [lk.class[b] EXCEPT !.contentsList = Attach(lk.class[b].contentsList, k, lk.valid)]]]

SkipSelf == 2
IncludeSelf == 1

\* Mutant: a new cell makes the thunk of an earlier one look current.
CreateMscKeepsThunk(lk, c, k) ==
  LET owned == [lk EXCEPT !.valid = @ \cup {k}, !.class[c].msc = k]
  IN  Install(owned, k, c, SkipSelf, "ShapeAndContents")

\* create_mro_shape_and_contents_validity_cell_slow: whatever the class's
\* thunk was built from is no longer guarded by a cell.
CreateMsc(lk, c, k) ==
  LET owned == [lk EXCEPT !.valid = @ \cup {k},
                          !.class[c].thunk = None, !.class[c].msc = k]
  IN  Install(owned, k, c, SkipSelf, "ShapeAndContents")

CreateMsm(lk, c, k) ==
  LET owned == [lk EXCEPT !.valid = @ \cup {k}, !.class[c].msm = k]
      own == Install(owned, k, c, SkipSelf, "ShapeOnly")
  IN  IF c = TypeClass THEN own
      ELSE Install(own, k, TypeClass, IncludeSelf, "ShapeAndContents")

\* get_or_create_..., with the cell k of NewCell.
GetOrCreate(lk, c, kind, k) ==
  IF k = None THEN lk
  ELSE IF kind = "msc" THEN CreateMsc(lk, c, k) ELSE CreateMsm(lk, c, k)

InvalidateContents(lk, c) ==
  [lk EXCEPT !.valid = @ \ (Range(lk.class[c].contentsList) \cup {lk.class[c].msc}),
             !.class[c].thunk = None,
             !.class[c].contentsList = <<>>,
             !.class[c].msc = None]

InvalidateShape(lk, c) ==
  LET attached == [lk EXCEPT !.valid = @ \ Range(lk.class[c].shapeList),
                             !.class[c].shapeList = <<>>]
      contents == InvalidateContents(attached, c)
  IN  [contents EXCEPT !.valid = @ \ {lk.class[c].msm},
                       !.class[c].msm = None]

-----------------------------------------------------------------------------
(* The inline caches.                                                      *)

EmptyCache == [shape |-> None, cell |-> None, plan |-> None]
EmptyCall == [guard |-> None, cell |-> None, thunk |-> None]

Matches(cache, o) == cache.shape = shape[o] /\ cache.cell \in lookup.valid
CallMatches(cache, c) == cache.guard = c /\ cache.cell \in lookup.valid

Fill(o, k, plan) == [shape |-> shape[o], cell |-> k, plan |-> plan]
ReadPlan(d) == [kind |-> d.kind, owner |-> d.owner, slot |-> d.slot]

\* Object::set_shape with a different shape.
SetShape(o, sh, lk) ==
  /\ shape' = [shape EXCEPT ![o] = sh]
  /\ lookup' = IF IsClassObject(o) THEN InvalidateShape(lk, o) ELSE lk

\* store_attr_from_plan and store_attr_from_plan_inline_fast.
StoreExisting(o, plan, v, lk) ==
  /\ storage' = [storage EXCEPT ![o][plan.slot] = v]
  /\ lookup' = IF IsClassObject(o) THEN InvalidateContents(lk, o) ELSE lk
  /\ UNCHANGED shape

MoveShape(o, plan, v, lk) ==
  /\ Len(shape[o].path) < MaxPath
  /\ SetShape(o, plan.next, lk)
  /\ storage' = [storage EXCEPT ![o] = With(@, plan.slot, v)]

Perform(o, plan, v, lk) ==
  IF plan.kind = "StoreExisting" THEN StoreExisting(o, plan, v, lk)
  ELSE IF plan.kind = "AddOwnProperty" THEN MoveShape(o, plan, v, lk)
  ELSE MoveShape(o, plan, None, lk)

-----------------------------------------------------------------------------
\* build_class_from_frame: every name the class body bound becomes an own
\* property of the class, in the order of the body's slots.
BodyShape(c) ==
  LET added[i \in 0 .. Len(program.body[c])] ==
        IF i = 0 THEN ClassRootShape(c)
        ELSE DeriveAddTransition(added[i - 1], program.body[c][i].name)
  IN  added[Len(program.body[c])]

BodyStorage(c) ==
  LET sh == BodyShape(c)
  IN  [i \in 1 .. (sh.next - 1) |->
        IF \E j \in DOMAIN program.body[c] : sh.slots[program.body[c][j].name] = i
        THEN program.body[c][CHOOSE j \in DOMAIN program.body[c] :
                       sh.slots[program.body[c][j].name] = i].value
        ELSE None]

Init ==
  /\ program \in Programs
  /\ shape = [o \in Objects |-> IF IsClassObject(o) THEN BodyShape(o)
                                ELSE InstanceRootShape(program.class[o])]
  /\ storage = [o \in Objects |-> IF IsClassObject(o)
                                  THEN BodyStorage(o) ELSE <<>>]
  /\ lookup = [valid |-> {},
               class |-> [c \in Classes |->
                 [msc |-> None, msm |-> None, thunk |-> None,
                  shapeList |-> <<>>, contentsList |-> <<>>]]]
  /\ readCache = [s \in ReadSites |-> EmptyCache]
  /\ mutationCache = [s \in MutationSites |-> EmptyCache]
  /\ callCache = [s \in CallSites |-> EmptyCall]
  /\ clones = 0

\* op_load_attr and the method-call opcodes on a match: only a value is
\* loaded, see CachedReadSelectsSameSlot.
LoadAttrHit(s, o) ==
  /\ Matches(readCache[s], o)
  /\ UNCHANGED vars

\* op_load_attr_cache_miss: populate the cache when the descriptor carries a
\* cell, else only load, raise AttributeError or the descriptor error.
LoadAttrMiss(s, o) ==
  LET r == ResolveRead(o, SiteName[s])
      c == GuardClass(o)
  IN  /\ ~Matches(readCache[s], o)
      /\ IF r.found /\ r.cell # "none"
         THEN \E k \in NewCell(lookup, c, r.cell) :
                /\ lookup' = GetOrCreate(lookup, c, r.cell, k)
                /\ readCache' = [readCache EXCEPT ![s] =
                                   Fill(o, lookup'.class[c][r.cell], ReadPlan(r))]
         ELSE UNCHANGED <<lookup, readCache>>
      /\ UNCHANGED <<shape, storage, mutationCache, callCache, clones, program>>

\* op_store_attr and op_store_attr_cached_slow on a match.
StoreAttrHit(s, o, v) ==
  /\ Matches(mutationCache[s], o)
  /\ Perform(o, mutationCache[s].plan, v, lookup)
  /\ UNCHANGED <<readCache, mutationCache, callCache, clones, program>>

\* Populate a mutation cache, guarded by the msc cell of the receiver's
\* class, and perform the plan; `cache' says whether it is populated.
Mutate(s, o, plan, v, cache) ==
  /\ IF cache
     THEN \E k \in NewCell(lookup, ClassOf(o), "msc") :
          \E lk \in {GetOrCreate(lookup, ClassOf(o), "msc", k)} :
            /\ mutationCache' = [mutationCache EXCEPT ![s] =
                                   Fill(o, lk.class[ClassOf(o)].msc, plan)]
            /\ Perform(o, plan, v, lk)
     ELSE /\ Perform(o, plan, v, lookup)
          /\ UNCHANGED mutationCache
  /\ UNCHANGED <<readCache, callCache, clones, program>>

\* op_store_attr_cache_miss.  An add is cached for receivers that are not
\* classes and whose new slot is inline.
StoreAttrMiss(s, o, v) ==
  LET n == SiteName[s]
      w == ResolveWrite(o, n)
      add == AddPlan(o, n)
  IN  /\ ~Matches(mutationCache[s], o)
      /\ \/ /\ w.status = "Found"
            /\ Mutate(s, o, w.plan, v, w.cacheable)
         \/ /\ w.status = "NotFound" /\ ~IsImmutable(o)
            /\ Mutate(s, o, add, v,
                      ~IsClassObject(o) /\ add.slot <= InlineSlots)
         \/ w.status = "Disallowed" /\ UNCHANGED vars

\* store_attr: the uncached path of setattr() and of the native helpers.
StoreAttr(o, n, v) ==
  LET w == ResolveWrite(o, n)
  IN  /\ \/ w.status = "Found" /\ Perform(o, w.plan, v, lookup)
         \/ /\ w.status = "NotFound" /\ ~IsImmutable(o)
            /\ Perform(o, AddPlan(o, n), v, lookup)
         \/ w.status = "Disallowed" /\ UNCHANGED <<shape, storage, lookup>>
      /\ UNCHANGED <<readCache, mutationCache, callCache, clones, program>>

DelAttrHit(s, o) ==
  /\ Matches(mutationCache[s], o)
  /\ Perform(o, mutationCache[s].plan, None, lookup)
  /\ UNCHANGED <<readCache, mutationCache, callCache, clones, program>>

DelAttrMiss(s, o) ==
  LET w == ResolveDelete(o, SiteName[s])
  IN  /\ ~Matches(mutationCache[s], o)
      /\ IF w.status = "Found"
         THEN Mutate(s, o, w.plan, None, w.cacheable) ELSE UNCHANGED vars

\* delete_attr: delattr() and the native helpers.
DelAttr(o, n) ==
  LET w == ResolveDelete(o, n)
  IN  /\ IF w.status = "Found" THEN Perform(o, w.plan, None, lookup)
         ELSE UNCHANGED <<shape, storage, lookup>>
      /\ UNCHANGED <<readCache, mutationCache, callCache, clones, program>>

\* store_attr_change_class.  Only instances may change class, and only to a
\* class of the same layout, so not from a builtin class to a class of the
\* program; the clone is a new shape even when the class is the same.
ChangeClass(o, c) ==
  /\ clones < program.clones /\ ClassOf(o) \notin Frozen
  /\ clones' = clones + 1
  /\ SetShape(o, CloneWithClass(shape[o], c, clones), lookup)
  /\ UNCHANGED <<storage, readCache, mutationCache, callCache, program>>

\* What create_constructor_thunk_slow builds a thunk from: __new__ alone or
\* __init__ alone, and only from plain functions.
ConstructorFor(c) ==
  LET n == ResolveRead(c, New)
      i == ResolveRead(c, Init_)
      usable(d) == d.cell # "none" /\ d.value \in FunctionValues
  IN  CASE ~n.found /\ ~i.found -> [new |-> None, init |-> None]
        [] n.found /\ ~i.found ->
             IF usable(n) THEN [new |-> n.value, init |-> None] ELSE None
        [] n.found /\ i.found -> None
        [] ~n.found /\ i.found ->
             IF usable(i) THEN [new |-> None, init |-> i.value] ELSE None

\* The lookups of __new__ and __init__ obtain the class's msm cell.
ConstructorCaches(c) ==
  \E n \in {New, Init_} : LET d == ResolveRead(c, n) IN d.found /\ d.cell = "msm"

\* function_call_cache_matches: the cached thunk is entered.
CallClassHit(s, c) ==
  /\ CallMatches(callCache[s], c)
  /\ UNCHANGED vars

\* populate_positional_call_cache_from_callable on a class object, with
\* get_or_create_constructor_thunk: the thunk kept in the class is reused
\* while the msc cell it was stored under is valid.
CallClassMiss(s, c) ==
  /\ ~CallMatches(callCache[s], c)
  /\ \E k \in NewCell(lookup, c, "msc") :
     \E guarded \in {GetOrCreate(lookup, c, "msc", k)} :
     \E made \in IF guarded.class[c].thunk # None THEN {guarded.class[c].thunk}
                 ELSE {ConstructorFor(c)} :
       /\ IF guarded.class[c].thunk # None THEN lookup' = guarded
          ELSE \E j \in IF ConstructorCaches(c) THEN NewCell(guarded, c, "msm")
                        ELSE {None} :
                 lookup' = [GetOrCreate(guarded, c, "msm", j) EXCEPT
                              !.class[c].thunk = made]
       /\ callCache' = IF made = None THEN callCache
                       ELSE [callCache EXCEPT ![s] =
                              [guard |-> c, cell |-> guarded.class[c].msc,
                               thunk |-> made]]
  /\ UNCHANGED <<shape, storage, readCache, mutationCache, clones, program>>

(* What the running program does: loads, stores and deletes, assignments   *)
(* to __class__, and calls of class objects.                               *)
Named(kind, n) == {s \in kind : s \in program.sites /\ SiteName[s] = n}

LoadAttrStep ==
  \E s \in ReadSites \cap program.sites, o \in program.objects :
    LoadAttrHit(s, o) \/ LoadAttrMiss(s, o)
StoreAttrStep ==
  \E a \in program.assigns :
    \/ \E s \in Named(StoreSites, a[2]) :
         StoreAttrHit(s, a[1], a[3]) \/ StoreAttrMiss(s, a[1], a[3])
    \/ StoreAttr(a[1], a[2], a[3])
DelAttrStep ==
  \E a \in program.assigns :
    \/ \E s \in Named(DeleteSites, a[2]) : DelAttrHit(s, a[1]) \/ DelAttrMiss(s, a[1])
    \/ DelAttr(a[1], a[2])
ChangeClassStep ==
  \E o \in Instances \cap program.objects, c \in Classes \ Frozen : ChangeClass(o, c)
CallClassStep ==
  \E s \in CallSites \cap program.sites, c \in Classes \cap program.objects :
    CallClassHit(s, c) \/ CallClassMiss(s, c)

Next ==
  LoadAttrStep \/ StoreAttrStep \/ DelAttrStep \/ ChangeClassStep \/ CallClassStep

Spec == Init /\ [][Next]_vars

-----------------------------------------------------------------------------
(* A valid cell owned by a class is attached to every class whose change   *)
(* it must notice: along the rest of the MRO and, for the combined cell,   *)
(* along the metaclass's MRO.  Reusing the places of invalid cells and     *)
(* clearing lists on invalidation must not lose an attachment.             *)
CellsAttached ==
  \A c \in Classes :
    /\ lookup.class[c].msc \in lookup.valid =>
         \A i \in 2 .. Len(Mro[c]) :
           lookup.class[c].msc \in Range(lookup.class[Mro[c][i]].contentsList)
    /\ lookup.class[c].msm \in lookup.valid =>
         /\ \A i \in 2 .. Len(Mro[c]) :
              lookup.class[c].msm \in Range(lookup.class[Mro[c][i]].shapeList)
         /\ c # TypeClass =>
              \A b \in Range(Mro[TypeClass]) :
                lookup.class[c].msm \in Range(lookup.class[b].contentsList)

(* Where a read cache matches, a full lookup made now selects the very     *)
(* storage slot the cached plan loads: no class along the MRO has come to  *)
(* define or lost the name, and no data descriptor has come to win over    *)
(* the receiver's own property, since the cache was filled.                *)
CachedReadSelectsSameSlot ==
  \A s \in ReadSites, o \in Objects :
    Matches(readCache[s], o) =>
      LET d == ResolveRead(o, SiteName[s])
          p == readCache[s].plan
      IN  d.found /\ d.owner = p.owner /\ d.slot = p.slot

(* Where a store or delete cache matches with a plan for an existing       *)
(* property, a full lookup made now allows the operation and yields the    *)
(* same plan.                                                              *)
CachedMutationAllowed ==
  \A s \in MutationSites, o \in Objects :
    LET p == mutationCache[s].plan
        w == IF s \in StoreSites THEN ResolveWrite(o, SiteName[s])
             ELSE ResolveDelete(o, SiteName[s])
    IN  Matches(mutationCache[s], o) /\ p.kind # "AddOwnProperty" =>
          w.status = "Found" /\ w.plan = p

(* A class's thunk that can be handed out, and a call cache that matches,  *)
(* construct with the __new__ and __init__ that a lookup finds now, also   *)
(* after a base class was changed.                                         *)
ThunksCurrent ==
  /\ \A c \in Classes :
       lookup.class[c].thunk # None /\ lookup.class[c].msc \in lookup.valid =>
         lookup.class[c].thunk = ConstructorFor(c)
  /\ \A s \in CallSites, c \in Classes :
       CallMatches(callCache[s], c) => callCache[s].thunk = ConstructorFor(c)

(* A method call through a matching cache binds the receiver exactly when  *)
(* a full lookup made now would.                                           *)
CachedCallBindsLikeLookup ==
  \A s \in ReadSites, o \in Objects :
    Matches(readCache[s], o) =>
      LET d == ResolveRead(o, SiteName[s])
          p == readCache[s].plan
          now == storage[IF p.owner = None THEN o ELSE p.owner][p.slot]
      IN  (d.kind = "BindFunctionReceiver")
            <=> (p.kind = "BindFunctionReceiver" /\ now \in FunctionValues)

=============================================================================
