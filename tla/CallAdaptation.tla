--------------------------- MODULE CallAdaptation ---------------------------
(***************************************************************************)
(* One call site of the interpreter and what it does with its callees.     *)
(*                                                                         *)
(* A call evaluates its positional arguments into consecutive registers,   *)
(* the window, and its keyword values into other ones.  The callee's frame *)
(* starts at the window: parameter slot i IS window register i, so entering*)
(* a function means completing the window in place - defaults, the tuple   *)
(* of extra positional arguments, the keyword dictionary, keyword values - *)
(* without losing what still lies in it.  How to complete it is decided    *)
(* once, when the site's inline cache is populated, and repeated as long   *)
(* as the cache's guard matches.                                           *)
(*                                                                         *)
(* Names are strings and slots are numbered from 0, as in the code.  A     *)
(* value is <<tag, ...>>, so that an argument, a default, a collected      *)
(* tuple and what an unwritten register holds are all told apart.          *)
(***************************************************************************)
EXTENDS Integers, Sequences, FiniteSets, FiniteSetsExt

CONSTANT WindowSize   \* how many registers from the window on are modelled

ASSUME WindowSizeAssumption == WindowSize \in Nat

VARIABLES
  callProgram,    \* the program that contains the site
  site,           \* the call instruction's operands
  constructor,    \* the class's constructor: [kind, def]
  cache,          \* the call site's inline cache
  lastCall        \* the last call and what became of it

callVars == <<callProgram, site, constructor, cache, lastCall>>

Junk == <<"junk">>
NoneObject == <<"none">>
Instance == <<"instance">>
ClassArgument == <<"class">>
Receiver == <<"receiver">>

Lesser(x, y) == IF x < y THEN x ELSE y
Greater(x, y) == IF x > y THEN x ELSE y
Names(seq) == {seq[i] : i \in DOMAIN seq}

------------------------------------------------------------------------------
(* What the compiler makes of a function definition.  A definition lists   *)
(* the names of its groups and which parameters have a default value.      *)

\* supported_runtime_parameter_order
RuntimeOrder(d) ==
  d.posonly \o d.poskw \o (IF d.varargs THEN <<"*">> ELSE <<>>)
            \o d.kwonly \o (IF d.kwargs THEN <<"**">> ELSE <<>>)

\* codegen_function: the signature stored in the code object, and
\* codegen_function_definition: the span of slots from the first to the last
\* parameter with a default, and which slots of the span have one
Signature(d) ==
  LET order == RuntimeOrder(d)
      withDefault == {i \in 0 .. Len(order) - 1 : order[i + 1] \in d.defaults}
      first == IF withDefault = {} THEN 0 ELSE Min(withDefault)
  IN [nParameters |-> Len(order),
      nPositional |-> Len(d.posonly) + Len(d.poskw),
      nPosonly |-> Len(d.posonly),
      requiredKeywordOnly |->
        \E i \in DOMAIN d.kwonly : d.kwonly[i] \notin d.defaults,
      varargs |-> d.varargs,
      kwargs |-> d.kwargs,
      firstDefault |-> first,
      mask |-> {i - first : i \in withDefault}]

\* codegen_function: the names that a keyword argument may address
KeywordRemap(d) ==
  LET order == RuntimeOrder(d)
      addressable == {i \in 0 .. Len(order) - 1 :
                        \/ i \in Len(d.posonly) .. Len(d.posonly) + Len(d.poskw) - 1
                        \/ \E k \in DOMAIN d.kwonly :
                             i = Len(d.posonly) + Len(d.poskw)
                                   + (IF d.varargs THEN 1 ELSE 0) + k - 1}
  IN [name \in {order[i + 1] : i \in addressable} |->
        CHOOSE i \in addressable : order[i + 1] = name]

\* Function::default_span_size
DefaultSpanSize(s) == IF s.mask = {} THEN 0 ELSE Max(s.mask) + 1

\* codegen_function_definition: the tuple of default values, None in the gaps
DefaultTuple(d, s) ==
  [i \in 1 .. DefaultSpanSize(s) |->
     IF i - 1 \in s.mask
       THEN <<"default", RuntimeOrder(d)[s.firstDefault + i]>>
       ELSE NoneObject]

\* a Function object; "runs" says what its code does with its parameters
FunctionOf(d) ==
  [def |-> d, runs |-> "body", signature |-> Signature(d),
   remap |-> KeywordRemap(d), defaults |-> DefaultTuple(d, Signature(d))]

\* Function::has_default_for_parameter
HasDefault(s, slot) ==
  /\ s.mask # {}
  /\ slot >= s.firstDefault
  /\ slot - s.firstDefault \in s.mask

\* Function::min_arity_for_code
MinArity(f) ==
  IF f.defaults = <<>> THEN f.signature.nPositional
  ELSE Max({0} \cup {slot + 1 : slot \in
              {i \in 0 .. f.signature.nPositional - 1 :
                 ~HasDefault(f.signature, i)}})

\* Function::max_arity_for_code and accepts_positional_only_call_arity
AcceptsPositionalOnly(f, n) ==
  /\ n >= MinArity(f)
  /\ f.signature.varargs \/ n <= f.signature.nPositional
  /\ ~f.signature.requiredKeywordOnly

------------------------------------------------------------------------------
(* The constructor thunk of a class: a function whose signature is that of *)
(* __init__ or __new__ without the first parameter, and whose code makes   *)
(* the instance (or loads the class), moves its own parameters behind it   *)
(* into a new frame and runs the method's code object there.               *)

\* constructor_thunk_signature_drop_first
SignatureDropFirst(s) ==
  LET slots == {s.firstDefault + i : i \in s.mask} \ {0}
      first == IF slots = {} THEN 0 ELSE Min(slots) - 1
  IN [s EXCEPT !.nParameters = @ - 1,
               !.nPositional = @ - 1,
               !.nPosonly = IF @ > 0 THEN @ - 1 ELSE 0,
               !.firstDefault = first,
               !.mask = {slot - 1 - first : slot \in slots}]

\* copy_keyword_remap_drop_first
RemapDropFirst(remap) ==
  LET kept == {name \in DOMAIN remap : remap[name] # 0}
  IN [name \in kept |-> remap[name] - 1]

\* make_constructor_thunk_defaults_drop_first
DefaultsDropFirst(f) ==
  LET s == f.signature
      thunk == SignatureDropFirst(s)
  IN [i \in 1 .. DefaultSpanSize(thunk) |->
        LET source == thunk.firstDefault + i - s.firstDefault
        IN IF source \in s.mask THEN f.defaults[source + 1] ELSE NoneObject]

\* make_init_only_constructor_thunk_function without an __init__
PlainInstanceThunk ==
  [def |-> [posonly |-> <<>>, poskw |-> <<>>, kwonly |-> <<>>,
            varargs |-> FALSE, kwargs |-> FALSE, defaults |-> {}],
   runs |-> "instance",
   signature |-> [nParameters |-> 0, nPositional |-> 0, nPosonly |-> 0,
                  requiredKeywordOnly |-> FALSE, varargs |-> FALSE,
                  kwargs |-> FALSE, firstDefault |-> 0, mask |-> {}],
   remap |-> <<>>, defaults |-> <<>>]

\* make_init_only_constructor_thunk_function and
\* make_new_only_constructor_thunk_function
MethodThunk(kind, f) ==
  [def |-> f.def, runs |-> kind,
   signature |-> SignatureDropFirst(f.signature),
   remap |-> RemapDropFirst(f.remap),
   defaults |-> DefaultsDropFirst(f)]

\* create_constructor_thunk_slow: a class with both methods, or whose method
\* has no positional parameter, cannot be called; what the thunk is
ConstructorThunk(c) ==
  CASE c.kind = "none" -> [found |-> TRUE, thunk |-> PlainInstanceThunk]
    [] c.kind = "both" -> [found |-> FALSE, thunk |-> PlainInstanceThunk]
    [] c.kind \in {"init", "new"} ->
         IF Signature(c.def).nPositional = 0
           THEN [found |-> FALSE, thunk |-> PlainInstanceThunk]
           ELSE [found |-> TRUE, thunk |-> MethodThunk(c.kind, FunctionOf(c.def))]

------------------------------------------------------------------------------
(* Completing the window.  "frame" gives every register from the first     *)
(* argument on; registers nobody wrote hold junk.                          *)

FixedArity == "FixedArity"
Defaultable == "Defaultable"
Full == "Full"

\* is_fixed_arity_function
IsFixedArity(f) ==
  /\ ~f.signature.varargs
  /\ ~f.signature.kwargs
  /\ MinArity(f) = f.signature.nPositional

\* function_call_adaptation_for_positional_call
PositionalAdaptation(f, n) ==
  IF f.signature.varargs \/ f.signature.kwargs THEN Full
  ELSE IF f.defaults # <<>>
    THEN IF n = f.signature.nParameters THEN FixedArity ELSE Defaultable
  ELSE IF IsFixedArity(f) THEN FixedArity ELSE Defaultable

\* populate_keyword_call_cache_with_guard
KeywordAdaptation(f) ==
  IF f.signature.varargs \/ f.signature.kwargs THEN Full
  ELSE IF f.defaults # <<>> THEN Defaultable
  ELSE IF IsFixedArity(f) THEN FixedArity ELSE Defaultable

\* initialize_default_parameters_from_slot: every slot of the span from the
\* start slot on, the gaps and the slots keywords will fill included
FillDefaults(frame, f, start) ==
  LET first == f.signature.firstDefault
      from == Greater(start, first)
      end == first + Len(f.defaults)
  IN [slot \in DOMAIN frame |->
        IF slot >= from /\ slot < end THEN f.defaults[slot - first + 1]
        ELSE frame[slot]]

\* make_varargs_argument
VarargsTuple(frame, f, n) ==
  LET extra == Greater(n - f.signature.nPositional, 0)
  IN <<"tuple", [i \in 1 .. extra |-> frame[f.signature.nPositional + i - 1]]>>

StoreVarargs(frame, f, tuple) ==
  IF f.signature.varargs THEN [frame EXCEPT ![f.signature.nPositional] = tuple]
  ELSE frame

StoreKwargs(frame, f, dict) ==
  IF f.signature.kwargs THEN [frame EXCEPT ![f.signature.nParameters - 1] = dict]
  ELSE frame

\* enter_function_frame_from_positional_args: the tuple of extra arguments is
\* made before the defaults overwrite the registers it is made of
CompletePositional(frame, f, n, adaptation) ==
  LET start == Lesser(n, f.signature.nPositional)
      tuple == VarargsTuple(frame, f, n)
      filled == IF f.defaults = <<>> THEN frame ELSE FillDefaults(frame, f, start)
  IN CASE adaptation = FixedArity -> frame
       [] adaptation = Defaultable -> filled
       [] adaptation = Full ->
            StoreKwargs(StoreVarargs(filled, f, tuple), f, <<"dict", <<>>>>)

\* The names at some places, in their order.
Selected(names, places) ==
  LET taken[i \in 0 .. Len(names)] ==
        IF i = 0 THEN <<>>
        ELSE IF i \in places THEN Append(taken[i - 1], names[i]) ELSE taken[i - 1]
  IN taken[Len(names)]

\* enter_function_frame_from_keyword_args: keyword values go last, over the
\* defaults, to the slots the plan names or into the dictionary
ToDict == -1
CompleteKeyword(frame, entry, nPos, names) ==
  LET f == entry.function
      full == entry.adaptation = Full
      tuple == VarargsTuple(frame, f, nPos)
      filled == IF entry.adaptation = FixedArity \/ f.defaults = <<>> THEN frame
                ELSE FillDefaults(frame, f, entry.start)
      dict == <<"dict", Selected(names, {i \in DOMAIN names : entry.dests[i] = ToDict})>>
      stored == IF full THEN StoreKwargs(StoreVarargs(filled, f, tuple), f, dict)
                ELSE filled
  IN [slot \in DOMAIN stored |->
        IF \E i \in DOMAIN names : entry.dests[i] = slot
          THEN <<"keyword",
                 names[CHOOSE i \in DOMAIN names : entry.dests[i] = slot]>>
          ELSE stored[slot]]

TypeError == [kind |-> "TypeError", def |-> {}, params |-> <<>>]

\* invoke_function_at_new_fp, and what a thunk's code does with its frame
Enter(f, frame) ==
  LET params == [i \in 1 .. f.signature.nParameters |-> frame[i - 1]]
  IN CASE f.runs = "body" ->
            [kind |-> "runs", def |-> {f.def}, params |-> params]
       [] f.runs = "init" ->
            [kind |-> "runs", def |-> {f.def}, params |-> <<Instance>> \o params]
       [] f.runs = "new" ->
            [kind |-> "runs", def |-> {f.def}, params |-> <<ClassArgument>> \o params]
       [] f.runs = "instance" ->
            [kind |-> "instance", def |-> {}, params |-> <<>>]

------------------------------------------------------------------------------
(* The inline cache.  A callable is a function, the class, or something    *)
(* that cannot be called.                                                  *)

NoDefinition == PlainInstanceThunk.def
AFunction(d) == [kind |-> "function", def |-> d]
TheClass == [kind |-> "class", def |-> NoDefinition]
NotCallable == [kind |-> "object", def |-> NoDefinition]
Callables ==
  {AFunction(d) : d \in callProgram.functions} \cup {TheClass, NotCallable}

EmptyCache ==
  [guard |-> [kind |-> "empty", def |-> NoDefinition],
   function |-> PlainInstanceThunk, cell |-> "none", n |-> 0,
   adaptation |-> FixedArity, start |-> 0, dests |-> <<>>]

\* A guard that forgets that a method may be called with and without self.
CacheMatchesAnyCount(callable, n) ==
  /\ cache.guard = callable
  /\ cache.cell # "invalid"

\* function_call_cache_matches and keyword_call_cache_matches
CacheMatches(callable, n) ==
  /\ cache.n = n
  /\ cache.guard = callable
  /\ cache.cell # "invalid"

\* Which function a callable stands for; a class's thunk comes with the
\* validity cell its cache entry is guarded by.
FunctionFor(callable) ==
  CASE callable.kind = "function" ->
         [found |-> TRUE, function |-> FunctionOf(callable.def), cell |-> "none"]
    [] callable.kind = "class" ->
         [found |-> ConstructorThunk(constructor).found,
          function |-> ConstructorThunk(constructor).thunk,
          cell |-> "valid"]
    [] callable.kind = "object" ->
         [found |-> FALSE, function |-> PlainInstanceThunk, cell |-> "none"]

\* populate_positional_call_cache_from_callable: the entry, or none
PositionalEntry(callable, n) ==
  LET r == FunctionFor(callable)
  IN IF r.found /\ AcceptsPositionalOnly(r.function, n)
       THEN {[guard |-> callable, function |-> r.function, cell |-> r.cell,
              n |-> n, adaptation |-> PositionalAdaptation(r.function, n),
              start |-> 0, dests |-> <<>>]}
       ELSE {}

\* build_and_populate_keyword_call_cache: where each keyword value goes
KeywordDests(f, names) ==
  [i \in DOMAIN names |->
     IF names[i] \in DOMAIN f.remap THEN f.remap[names[i]] ELSE ToDict]

\* the early returns of build_and_populate_keyword_call_cache
KeywordsBind(f, nPos, names) ==
  LET s == f.signature
      dests == KeywordDests(f, names)
      byPosition == 0 .. Lesser(nPos, s.nPositional) - 1
      byKeyword == {dests[i] : i \in DOMAIN names}
      collecting == (IF s.varargs THEN {s.nPositional} ELSE {})
                      \cup (IF s.kwargs THEN {s.nParameters - 1} ELSE {})
  IN /\ nPos <= s.nPositional \/ s.varargs
     /\ Cardinality({names[i] : i \in DOMAIN names}) = Len(names)
     /\ ToDict \in byKeyword => s.kwargs
     /\ byPosition \cap byKeyword = {}
     /\ \A slot \in (0 .. s.nParameters - 1) \ (collecting \cup byPosition \cup byKeyword) :
          HasDefault(s, slot)

\* populate_keyword_call_cache_from_callable
KeywordEntry(callable, nPos, names) ==
  LET r == FunctionFor(callable)
      s == r.function.signature
  IN IF r.found /\ KeywordsBind(r.function, nPos, names)
       THEN {[guard |-> callable, function |-> r.function, cell |-> r.cell,
              n |-> nPos, adaptation |-> KeywordAdaptation(r.function),
              start |-> Greater(Lesser(nPos, s.nPositional), s.firstDefault),
              dests |-> KeywordDests(r.function, names)]}
       ELSE {}

------------------------------------------------------------------------------
(* The call instructions.                                                  *)

Argument(i) == <<"argument", i>>

\* the window as the caller leaves it: receiver first at a method call
CallerWindow ==
  [slot \in 0 .. WindowSize - 1 |->
     IF site.method
       THEN IF slot = 0 THEN Receiver
            ELSE IF slot <= site.n THEN Argument(slot) ELSE Junk
       ELSE IF slot < site.n THEN Argument(slot + 1) ELSE Junk]

\* prepare_method_call_argument_slots: a callable that is not bound takes the
\* arguments without the receiver, each moved one register towards it
MethodWindow(bound) ==
  IF bound THEN CallerWindow
  ELSE [slot \in 0 .. WindowSize - 1 |->
          IF slot < site.n THEN CallerWindow[slot + 1] ELSE CallerWindow[slot]]

\* The call with n arguments in the window.  The entries are the cached one or
\* the one the callable's function makes; none means the call is refused,
\* which leaves the cache as it was.
Perform(callable, bound, entries, outcome(_)) ==
  /\ cache' = IF entries = {} THEN cache ELSE CHOOSE e \in entries : TRUE
  /\ lastCall' = [callable |-> callable, bound |-> bound, constructor |-> constructor,
              outcome |-> IF entries = {} THEN TypeError ELSE outcome(cache')]
  /\ UNCHANGED <<callProgram, site, constructor>>

PositionalCall(callable, bound, window, n) ==
  Perform(callable, bound,
          IF CacheMatches(callable, n) THEN {cache} ELSE PositionalEntry(callable, n),
          LAMBDA e : Enter(e.function,
                           CompletePositional(window, e.function, n, e.adaptation)))

KeywordCall(callable, bound, window, n) ==
  Perform(callable, bound,
          IF CacheMatches(callable, n) THEN {cache}
          ELSE KeywordEntry(callable, n, site.names),
          LAMBDA e : Enter(e.function, CompleteKeyword(window, e, n, site.names)))

\* op_call_positional and its slow path
CallPositional(callable) ==
  /\ ~site.method /\ site.names = <<>>
  /\ PositionalCall(callable, FALSE, CallerWindow, site.n)

\* op_call_keyword and its slow path
CallKeyword(callable) ==
  /\ ~site.method /\ site.names # <<>>
  /\ KeywordCall(callable, FALSE, CallerWindow, site.n)

\* prepare_method_call_target_from_plan: a function that the class holds is
\* bound; a function of the receiver's own, and anything else, is not
MayBind(callable, bound) == bound => callable.kind = "function"

\* op_call_method_attr_positional and its slow path
CallMethodPositional(callable, bound) ==
  /\ site.method /\ site.names = <<>>
  /\ MayBind(callable, bound)
  /\ PositionalCall(callable, bound, MethodWindow(bound),
                    site.n + (IF bound THEN 1 ELSE 0))

\* op_call_method_attr_keyword and its slow path
CallMethodKeyword(callable, bound) ==
  /\ site.method /\ site.names # <<>>
  /\ MayBind(callable, bound)
  /\ KeywordCall(callable, bound, MethodWindow(bound),
                 site.n + (IF bound THEN 1 ELSE 0))

\* A write to the class, or to a class it inherits from, that changes what
\* constructs its instances: the cell attached to the class is invalidated and
\* dropped, and the next lookup of the thunk attaches a fresh one.  A cache
\* entry keeps the cell it was made with.
SetConstructor(c) ==
  /\ c # constructor
  /\ constructor' = c
  /\ cache' = [cache EXCEPT !.cell = IF @ = "valid" THEN "invalid" ELSE @]
  /\ UNCHANGED <<callProgram, site, lastCall>>

\* Definitions that mean something in Python: parameters have different names,
\* which neither the parser (parser.cpp:2129) nor the code generator checks, and
\* only they have defaults, which the grammar guarantees.
WellFormed(d) ==
  LET order == RuntimeOrder(d)
  IN /\ \A group \in {d.posonly, d.poskw, d.kwonly} : group \in Seq(Names(group) \ {"*", "**"})
     /\ d.varargs \in BOOLEAN /\ d.kwargs \in BOOLEAN
     /\ d.defaults \subseteq Names(d.posonly \o d.poskw \o d.kwonly)
     /\ \A i, j \in DOMAIN order : order[i] = order[j] => i = j
     /\ Len(order) <= WindowSize

\* Python also refuses a keyword that names the first parameter of a
\* constructor; the thunk does not know it any more.
NamesSelf(c, s) ==
  /\ c.kind \in {"init", "new"} /\ c.def.kwargs /\ c.def.posonly = <<>>
  /\ c.def.poskw # <<>> /\ c.def.poskw[1] \in Names(s.names)

WellFormedProgram(p) ==
  /\ \A d \in p.functions : WellFormed(d)
  /\ \A c \in p.constructors : c.kind \in {"none", "init", "new", "both"} /\ WellFormed(c.def)

WellFormedSite(s) ==
  /\ s.method \in BOOLEAN
  /\ s.n \in Nat /\ s.n < WindowSize
  /\ s.names \in Seq(Names(s.names) \ {"*", "**"})
  /\ \A i, j \in DOMAIN s.names : s.names[i] = s.names[j] => i = j

WellFormedCalls(programs, sites) ==
  /\ \A p \in programs : WellFormedProgram(p)
  /\ \A s \in sites : WellFormedSite(s)
  /\ \A p \in programs, s \in sites : \A c \in p.constructors : ~NamesSelf(c, s)

\* programs: the functions called at the site and what the class's constructor
\* becomes, [functions, constructors]; sites: the call sites, [method, n, names].
CallInit(programs, sites) ==
  /\ callProgram \in programs
  /\ site \in sites
  /\ constructor \in callProgram.constructors
  /\ cache = EmptyCache
  /\ lastCall = [callable |-> NotCallable, bound |-> FALSE,
             constructor |-> constructor, outcome |-> TypeError]

CallNext ==
  \/ \E callable \in Callables : CallPositional(callable)
  \/ \E callable \in Callables : CallKeyword(callable)
  \/ \E callable \in Callables, bound \in BOOLEAN : CallMethodPositional(callable, bound)
  \/ \E callable \in Callables, bound \in BOOLEAN : CallMethodKeyword(callable, bound)
  \/ \E c \in callProgram.constructors : SetConstructor(c)

CallSpec(programs, sites) == CallInit(programs, sites) /\ [][CallNext]_callVars

------------------------------------------------------------------------------
(* What a call means: the arguments are matched with the parameters of the *)
(* definition, in the terms of the language reference and without slots,   *)
(* windows or caches.                                                      *)

\* What parameter "name" receives, given the positional and keyword arguments.
Bound(d, positional, names, name) ==
  LET byPosition == d.posonly \o d.poskw
      place == {i \in DOMAIN byPosition : byPosition[i] = name}
      extra == SubSeq(positional, Len(byPosition) + 1, Len(positional))
  IN CASE name = "*" -> <<"tuple", extra>>
       [] name = "**" ->
            <<"dict", Selected(names, {i \in DOMAIN names :
                                         names[i] \notin Names(d.poskw \o d.kwonly)})>>
       [] name \notin {"*", "**"} ->
            IF \E i \in place : i <= Len(positional)
              THEN positional[CHOOSE i \in place : TRUE]
            ELSE IF name \in Names(names) \ Names(d.posonly) THEN <<"keyword", name>>
            ELSE <<"default", name>>

\* Why a call is refused.
Refused(d, positional, names) ==
  LET byPosition == d.posonly \o d.poskw
      given == Lesser(Len(positional), Len(byPosition))
      filled == Names(SubSeq(byPosition, 1, given))
      named == Names(names) \cap Names(d.poskw \o d.kwonly)
  IN \/ Len(positional) > Len(byPosition) /\ ~d.varargs
     \/ named \cap filled # {}
     \/ Names(names) # named /\ ~d.kwargs
     \/ ~(Names(byPosition \o d.kwonly) \subseteq (filled \cup named \cup d.defaults))

Binding(d, positional, names) ==
  IF Refused(d, positional, names) THEN TypeError
  ELSE [kind |-> "runs", def |-> {d},
        params |-> [i \in DOMAIN RuntimeOrder(d) |->
                      Bound(d, positional, names, RuntimeOrder(d)[i])]]

\* The interpreter asks two things of a constructor that Python does not: that
\* a class has __new__ or __init__ but not both, and that the method names
\* its first parameter.
Constructs(c, positional, names) ==
  CASE c.kind = "none" ->
         IF positional = <<>> /\ names = <<>>
           THEN [kind |-> "instance", def |-> {}, params |-> <<>>]
           ELSE TypeError
    [] c.kind = "both" -> TypeError
    [] c.kind \in {"init", "new"} ->
         IF c.def.posonly \o c.def.poskw = <<>> THEN TypeError
         ELSE Binding(c.def,
                      <<IF c.kind = "init" THEN Instance ELSE ClassArgument>>
                        \o positional, names)

Meaning(callable, positional, names, c) ==
  CASE callable.kind = "function" -> Binding(callable.def, positional, names)
    [] callable.kind = "class" -> Constructs(c, positional, names)
    [] callable.kind = "object" -> TypeError

(***************************************************************************)
(* Whatever the call site's cache holds from earlier calls - of another    *)
(* function, with or without self, of a class whose constructor has been   *)
(* replaced since - the function that runs receives in each parameter what *)
(* Python says, and a call is refused exactly when Python refuses it.      *)
(* The call instructions of interpreter.cpp and the thunks of              *)
(* constructor_thunk.cpp.                                                  *)
(***************************************************************************)
CallsBindLikePython ==
  LET arguments == [i \in 1 .. site.n |-> Argument(i)]
      positional == IF lastCall.bound THEN <<Receiver>> \o arguments ELSE arguments
  IN lastCall.outcome = Meaning(lastCall.callable, positional, site.names, lastCall.constructor)
=============================================================================
