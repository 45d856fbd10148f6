-------------------------------- MODULE Dict --------------------------------
(***************************************************************************)
(* A dictionary: insertion-ordered entries, an open-addressed table of     *)
(* entry positions, and the probes that __getitem__, get, __contains__,    *)
(* __setitem__, setdefault, __delitem__ and pop run over them.  A probe    *)
(* calls __hash__ and __eq__ of user classes, and that code may call the   *)
(* same dictionary again: `frames' is the stack of the calls in progress.  *)
(* Entry positions count from 1 here, from 0 in the code.                  *)
(***************************************************************************)
EXTENDS Integers, Sequences, FiniteSets, SequencesExt

CONSTANTS
  StrKeys,       \* exact str objects: hashed and compared without user code
  ObjKeys,       \* instances of user classes with __hash__ and __eq__
  HashOf,        \* the canonical hash of each key
  ClassOf,       \* keys are equal iff they are in the same class
  MinTableSize,  \* min_table_size
  Programs,      \* user programs to run, see ProgramsAssumption
  Values,        \* values that later calls store
  Initial,       \* value of the pairs of the display
  Iterators,
  NoKey, NoValue,
  MaxTableSize   \* bound on growth

Keys == StrKeys \cup ObjKeys
Ops == {"get", "set", "setdefault", "del", "pop"}
AllOps == Ops \cup {"clear", "popitem", "copy"}

\* What a completed call leaves in `last'.
Reports ==
  [op : Ops, key : Keys, hit : BOOLEAN, absent : BOOLEAN]
    \cup [op : {"clear", "copy"}] \cup [op : {"next"}, iterator : Iterators]

ASSUME DictConstants ==
  \* 16 in the code; a table at its load limit has room for one more entry
  /\ MinTableSize \in Nat /\ MinTableSize > 4
  /\ NoKey \notin Keys /\ StrKeys \cap ObjKeys = {}
  /\ NoValue \notin Reports /\ NoValue \notin Int
  \* the contract of __hash__ and __eq__
  /\ HashOf \in [Keys -> Nat]
  /\ \A k, l \in Keys : ClassOf[k] = ClassOf[l] => HashOf[k] = HashOf[l]

(* A program: the keys of the dict display that creates the dictionary, the*)
(* operations and keys of its later calls, whether they run the C++        *)
(* functions (TRUE) or the generated bytecode, the iterators it uses, and  *)
(* bounds on its nested calls and on all of them.                          *)
ASSUME ProgramsAssumption ==
  \A p \in Programs :
    /\ p.display \in Seq(Keys)
    /\ IsInjective([i \in DOMAIN p.display |-> ClassOf[p.display[i]]])
    /\ p.keys \subseteq Keys /\ p.ops \subseteq AllOps
    /\ p.paths \subseteq BOOLEAN /\ p.iterators \subseteq Iterators
    /\ p.depth \in Nat /\ p.calls \in Nat

VARIABLES
  program, \* the one of Programs that runs
  dict,    \* shape, table of n slots, entries, n_valid_entries, generation
  frames,  \* calls in progress, innermost last
  iters,   \* index and expected_size of each iterator
  calls,   \* calls made so far
  absent,  \* history: absent[i] once the key of frames[i] was not in the dict
  raised,  \* history: iterators that have reported a change of size
  last     \* history: the call the last step completed, or NoValue

vars == <<program, dict, frames, iters, calls, absent, raised, last>>
-----------------------------------------------------------------------------
NotPresent == -1
Tombstone == -2
Dead == [key |-> NoKey, value |-> NoValue, hash |-> 0]

IsLive(e) == e # Dead
Distance(n, i, s) == (s + n - i) % n
\* The first slot of S met when probing from slot i of n.
FirstFrom(S, n, i) ==
  CHOOSE s \in S : \A t \in S : Distance(n, i, s) <= Distance(n, i, t)
SlotsWith(d, v) == {s \in DOMAIN d.table : d.table[s] = v}

EmptyDict ==
  [shape |-> "string", n |-> MinTableSize,
   table |-> [s \in 0 .. MinTableSize - 1 |-> NotPresent],
   entries |-> <<>>, valid |-> 0, gen |-> 0]

PromoteToGeneralShape(d) == [d EXCEPT !.shape = "general", !.gen = @ + 1]
MaybePromote(d) == IF d.shape = "string" THEN PromoteToGeneralShape(d) ELSE d

WriteNewAtSlot(d, s, key, value) ==
  [d EXCEPT !.table[s] = Len(d.entries) + 1,
            !.entries = Append(@, [key |-> key, value |-> value, hash |-> HashOf[key]]),
            !.valid = @ + 1]

\* Mutant: the value lands in the oldest entry.
WriteOldest(d, p, value) ==
  LET live == {q \in DOMAIN d.entries : IsLive(d.entries[q])}
  IN  [d EXCEPT !.entries[CHOOSE q \in live : \A r \in live : q <= r].value = value]

WriteExisting(d, p, value) == [d EXCEPT !.entries[p].value = value]

\* Mutant: deletion cuts the probe chain.
DeleteWithoutTombstone(d, s) ==
  [d EXCEPT !.entries[d.table[s]] = Dead, !.table[s] = NotPresent, !.valid = @ - 1]

DeleteEntryAtSlot(d, s) ==
  [d EXCEPT !.entries[d.table[s]] = Dead, !.table[s] = Tombstone, !.valid = @ - 1]

\* One round of the loop in grow: a live entry moves to the end of the entries
\* kept and into the first empty slot.
Rehash(d, e) ==
  IF IsLive(e)
  THEN WriteNewAtSlot(d, FirstFrom(SlotsWith(d, NotPresent), d.n, e.hash % d.n), e.key, e.value)
  ELSE d

\* grow; n_valid_entries is counted anew (an assertion says that it comes out
\* as it was).
Grow(d) ==
  LET emptied == [d EXCEPT !.n = 2 * d.n, !.table = [s \in 0 .. 2 * d.n - 1 |-> NotPresent],
                           !.entries = <<>>, !.valid = 0, !.gen = @ + 1]
      moved[i \in 0 .. Len(d.entries)] ==
        IF i = 0 THEN emptied ELSE Rehash(moved[i - 1], d.entries[i])
  IN  moved[Len(d.entries)]

\* Mutant: room is made one entry too late.
NeedsResizeOneLater(d) == Len(d.entries) > (d.n * 3) \div 4 + 1

NeedsResizeForInsert(d) == Len(d.entries) > (d.n * 3) \div 4
ResizeIfNeeded(d) == IF NeedsResizeForInsert(d) THEN Grow(d) ELSE d

Clear(d) ==
  [d EXCEPT !.table = [s \in DOMAIN d.table |-> NotPresent],
            !.entries = <<>>, !.valid = 0, !.gen = @ + 1]

\* copy_stored_entry into a dictionary that has no tombstones.
CopyStoredEntry(d, e) == IF IsLive(e) THEN Rehash(ResizeIfNeeded(d), e) ELSE d

CopyOf(d) ==
  LET fresh == IF d.shape = "string" THEN EmptyDict ELSE PromoteToGeneralShape(EmptyDict)
      copied[i \in 0 .. Len(d.entries)] ==
        IF i = 0 THEN fresh ELSE CopyStoredEntry(copied[i - 1], d.entries[i])
  IN  copied[Len(d.entries)]

\* One pair of a display; a key that is no str makes the dictionary general.
InsertPair(d, k) ==
  CopyStoredEntry(IF k \in StrKeys THEN d ELSE MaybePromote(d),
                  [key |-> k, value |-> Initial, hash |-> HashOf[k]])

\* CreateDict: the pairs of a display, inserted in source order.
Created ==
  LET display == program.display
      made[i \in 0 .. Len(display)] ==
        IF i = 0 THEN EmptyDict ELSE InsertPair(made[i - 1], display[i])
  IN  made[Len(display)]
-----------------------------------------------------------------------------
\* The string-keyed operations: native hash and equality, no user code.

\* find_entry: the slot that holds the key or, for a new one, is to hold it.
FindEntry(d, key) ==
  LET start == HashOf[key] % d.n
      stop == FirstFrom({s \in DOMAIN d.table :
                           \/ d.table[s] = NotPresent
                           \/ /\ d.table[s] > 0
                              /\ ClassOf[d.entries[d.table[s]].key] = ClassOf[key]},
                        d.n, start)
      tombs == {s \in SlotsWith(d, Tombstone) :
                  Distance(d.n, start, s) < Distance(d.n, start, stop)}
  IN  IF d.table[stop] > 0 \/ tombs = {} THEN stop ELSE FirstFrom(tombs, d.n, start)

StringKeyedInsert(d, key, value) ==
  LET r == ResizeIfNeeded(d)
      s == FindEntry(r, key)
  IN  IF r.table[s] > 0 THEN WriteExisting(r, r.table[s], value)
                        ELSE WriteNewAtSlot(r, s, key, value)

StringKeyed(d, op, key, value) ==
  LET s == FindEntry(d, key)
      hit == d.table[s] > 0
  IN  CASE op = "set" -> StringKeyedInsert(d, key, value)
        [] op = "setdefault" -> IF hit THEN d ELSE StringKeyedInsert(d, key, value)
        [] op \in {"del", "pop"} -> IF hit THEN DeleteEntryAtSlot(d, s) ELSE d
        [] OTHER -> d
-----------------------------------------------------------------------------
\* General probing.

Inserts(op) == op \in {"set", "setdefault"}
RunsUserCode(k, l) == k \in ObjKeys \/ l \in ObjKeys
Identical(d, p, key) == d.entries[p].key = key

\* The probe of frame f from slot i on: past tombstones, other hashes and
\* unequal strings, to an empty slot, a hit, or a key whose __eq__ must run.
\* With no such slot the loop never ends.
Probe(d, f, i, tomb) ==
  LET stops == {s \in DOMAIN d.table :
                  \/ d.table[s] = NotPresent
                  \/ /\ d.table[s] > 0
                     /\ LET e == d.entries[d.table[s]]
                        IN  /\ e.hash = HashOf[f.key]
                            /\ RunsUserCode(e.key, f.key) \/ ClassOf[e.key] = ClassOf[f.key]}
      stop == FirstFrom(stops, d.n, i)
      tombs == {s \in SlotsWith(d, Tombstone) :
                  Distance(d.n, i, s) < Distance(d.n, i, stop)}
      p == d.table[stop]
  IN  IF stops = {} THEN [f EXCEPT !.pc = "looping"]
      ELSE [f EXCEPT
              !.idx = stop, !.cand = p, !.gen = d.gen,
              !.candKey = IF p > 0 THEN d.entries[p].key ELSE NoKey,
              !.tomb = IF Inserts(f.op) /\ tomb = -1 /\ tombs # {}
                       THEN FirstFrom(tombs, d.n, i) ELSE tomb,
              !.pc = CASE p = NotPresent -> "miss"
                       [] p > 0 /\ (Identical(d, p, f.key) \/ ~RunsUserCode(d.entries[p].key, f.key)) -> "hit"
                       [] OTHER -> "eq"]

ProbeStart(d, f) == Probe(d, f, HashOf[f.key] % d.n, -1)

\* entry_still_matches
EntryStillMatches(d, f) ==
  /\ d.gen = f.gen
  /\ f.idx \in DOMAIN d.table /\ d.table[f.idx] = f.cand
  /\ f.cand \in DOMAIN d.entries /\ d.entries[f.cand].key = f.candKey

TombstoneAvailable(d, f) ==
  f.tomb # -1 /\ f.tomb \in DOMAIN d.table /\ d.table[f.tomb] = Tombstone

\* probe_write_slot and insert_new
WriteSlot(d, f) == IF TombstoneAvailable(d, f) THEN f.tomb ELSE f.idx

\* What the end of a probe does to the dictionary.
Effect(d, f) ==
  CASE f.pc = "hit" /\ f.op = "set" -> WriteExisting(d, f.cand, f.value)
    [] f.pc = "hit" /\ f.op \in {"del", "pop"} -> DeleteEntryAtSlot(d, f.idx)
    [] f.pc = "miss" /\ Inserts(f.op) -> WriteNewAtSlot(d, WriteSlot(d, f), f.key, f.value)
    [] OTHER -> d

PresentIn(d, key) ==
  \E p \in DOMAIN d.entries : IsLive(d.entries[p]) /\ ClassOf[d.entries[p].key] = ClassOf[key]
-----------------------------------------------------------------------------
NoIterator == [index |-> 0, expected |-> NoValue]

Init ==
  /\ program \in Programs
  /\ dict = Created
  /\ frames = <<>> /\ absent = <<>>
  /\ iters = [i \in Iterators |-> NoIterator]
  /\ calls = 0 /\ raised = {} /\ last = NoValue

Top == Last(frames)
\* User code is running: the program itself, or a __hash__ or __eq__ that the
\* innermost call is waiting for.
UserCode ==
  /\ calls < program.calls
  /\ frames # <<>> =>
       /\ Len(frames) < program.depth
       /\ Top.pc = "eq" \/ (Top.pc = "hash" /\ Top.key \in ObjKeys)

\* Every step records which keys of the calls in progress are absent.
Note(fs, d, flags) ==
  /\ frames' = fs
  /\ absent' = [i \in DOMAIN fs |-> flags[i] \/ ~PresentIn(d, fs[i].key)]

Completed(f, hit, flag) == [op |-> f.op, key |-> f.key, hit |-> hit, absent |-> flag]

\* The step after a probe stopped: finish the call or wait for __eq__.
Settle(f, d) ==
  /\ d.n <= MaxTableSize
  /\ IF f.pc \in {"hit", "miss"}
     THEN /\ dict' = Effect(d, f)
          /\ Note(Front(frames), dict', absent)
          /\ last' = Completed(f, f.pc = "hit", Last(absent))
     ELSE /\ dict' = d
          /\ Note(Front(frames) \o <<f>>, d, absent)
          /\ last' = NoValue
  /\ UNCHANGED <<program, iters, calls, raised>>

\* A call that stays in native code: a str key in a string-keyed dictionary,
\* through a trusted handler, the C API, setdefault or pop.
CallStringKeyed(op, key, value) ==
  /\ UserCode
  /\ dict.shape = "string" /\ key \in StrKeys
  /\ dict' = StringKeyed(dict, op, key, value)
  /\ dict'.n <= MaxTableSize
  /\ calls' = calls + 1
  /\ Note(frames, dict', absent)
  /\ last' = [op |-> op, key |-> key, hit |-> dict.table[FindEntry(dict, key)] > 0,
              absent |-> ~PresentIn(dict, key)]
  /\ UNCHANGED <<program, iters, raised>>

\* Any other call promotes and asks the key for its hash; `native' tells the
\* C++ functions from the generated bytecode, whose __getitem__, __setitem__
\* and __delitem__ promote for a str key too.
BeginCall(op, key, value, native) ==
  LET f == [op |-> op, key |-> key, value |-> value, native |-> native,
            pc |-> "hash", idx |-> 0, cand |-> 0, candKey |-> NoKey, gen |-> 0, tomb |-> -1]
  IN  /\ UserCode
      /\ dict.shape = "string" /\ key \in StrKeys => ~native /\ op \in {"get", "set", "del"}
      /\ dict' = MaybePromote(dict)
      /\ calls' = calls + 1
      /\ Note(Append(frames, f), dict', Append(absent, FALSE))
      /\ last' = NoValue
      /\ UNCHANGED <<program, iters, raised>>

\* __hash__ returned: make room, start to probe.
HashReturns ==
  /\ frames # <<>> /\ Top.pc = "hash"
  /\ LET d == IF Inserts(Top.op) THEN ResizeIfNeeded(dict) ELSE dict
     IN  Settle(ProbeStart(d, Top), d)

\* Mutant: a candidate that moved counts as unequal and the probe goes on.
EqReturnsWithoutRestart ==
  /\ frames # <<>> /\ Top.pc = "eq"
  /\ IF EntryStillMatches(dict, Top) /\ ClassOf[Top.key] = ClassOf[Top.candKey]
     THEN Settle([Top EXCEPT !.pc = "hit"], dict)
     ELSE LET tomb == IF Top.native /\ ~TombstoneAvailable(dict, Top) THEN -1 ELSE Top.tomb
          IN  Settle(Probe(dict, Top, (Top.idx + 1) % dict.n, tomb), dict)

\* __eq__ returned.  If the candidate moved, the probe starts over, in the
\* generated bytecode after making room again; otherwise it hits or goes on,
\* and the C++ functions forget a recorded tombstone that has been filled.
EqReturns ==
  /\ frames # <<>> /\ Top.pc = "eq"
  /\ IF ~EntryStillMatches(dict, Top)
     THEN LET d == IF Inserts(Top.op) /\ ~Top.native THEN ResizeIfNeeded(dict) ELSE dict
          IN  Settle(ProbeStart(d, Top), d)
     ELSE IF ClassOf[Top.key] = ClassOf[Top.candKey]
     THEN Settle([Top EXCEPT !.pc = "hit"], dict)
     ELSE LET tomb == IF Top.native /\ ~TombstoneAvailable(dict, Top) THEN -1 ELSE Top.tomb
          IN  Settle(Probe(dict, Top, (Top.idx + 1) % dict.n, tomb), dict)

\* __hash__ or __eq__ raises: the call ends, the dictionary is as it was.
Raises ==
  /\ frames # <<>>
  /\ Top.pc = "eq" \/ (Top.pc = "hash" /\ Top.key \in ObjKeys)
  /\ Note(Front(frames), dict, absent)
  /\ last' = NoValue
  /\ UNCHANGED <<program, dict, iters, calls, raised>>

\* clear() and popitem() run no user code.
Replace(d, result) ==
  /\ UserCode
  /\ dict' = d
  /\ calls' = calls + 1
  /\ Note(frames, d, absent)
  /\ last' = result
  /\ UNCHANGED <<program, iters, raised>>

CallClear == Replace(Clear(dict), [op |-> "clear"])

CallPopItem ==
  /\ dict.valid > 0
  /\ LET p == CHOOSE q \in DOMAIN dict.entries :
                /\ IsLive(dict.entries[q])
                /\ \A r \in q + 1 .. Len(dict.entries) : ~IsLive(dict.entries[r])
         s == CHOOSE t \in SlotsWith(dict, p) : \A u \in SlotsWith(dict, p) : t <= u
     IN  Replace(DeleteEntryAtSlot(dict, s), [op |-> "pop", key |-> dict.entries[p].key,
                                              hit |-> TRUE, absent |-> FALSE])

\* The program replaces its dictionary by a copy of it.
CallCopy ==
  /\ frames = <<>>
  /\ iters = [i \in Iterators |-> NoIterator]
  /\ Replace(CopyOf(dict), [op |-> "copy"])

\* iter(d), iter(d.keys()), iter(d.values()) or iter(d.items())
MakeIterator(i) ==
  /\ UserCode /\ iters[i] = NoIterator
  /\ iters' = [iters EXCEPT ![i] = [index |-> 0, expected |-> dict.valid]]
  /\ calls' = calls + 1
  /\ last' = NoValue
  /\ UNCHANGED <<program, dict, frames, absent, raised>>

\* Mutant: a change of size is reported, and forgotten.
ChangedSizeUnrecorded(i) == UNCHANGED iters

\* check_expected_size poisons the iterator before it raises.
ChangedSize(i) == iters' = [iters EXCEPT ![i].expected = -1]

IteratorNext(i) ==
  /\ UserCode /\ iters[i] # NoIterator
  /\ IF dict.valid # iters[i].expected
     THEN ChangedSize(i) /\ raised' = raised \cup {i} /\ last' = NoValue
     ELSE LET later == {p \in iters[i].index + 1 .. Len(dict.entries) : IsLive(dict.entries[p])}
              p == CHOOSE q \in later : \A r \in later : q <= r
          IN  /\ iters' = [iters EXCEPT
                             ![i].index = IF later # {} THEN p
                                          ELSE IF @ > Len(dict.entries) THEN @ ELSE Len(dict.entries)]
              /\ last' = [op |-> "next", iterator |-> i]
              /\ UNCHANGED raised
  /\ calls' = calls + 1
  /\ UNCHANGED <<program, dict, frames, absent>>

Next ==
  \/ \E op \in program.ops \cap Ops, key \in program.keys, v \in Values :
       \/ CallStringKeyed(op, key, v)
       \/ \E native \in program.paths : BeginCall(op, key, v, native)
  \/ HashReturns
  \/ EqReturns
  \/ Raises
  \/ "clear" \in program.ops /\ CallClear
  \/ "popitem" \in program.ops /\ CallPopItem
  \/ "copy" \in program.ops /\ CallCopy
  \/ \E i \in program.iterators : MakeIterator(i) \/ IteratorNext(i)

Spec == Init /\ [][Next]_vars
-----------------------------------------------------------------------------
Entries(d) == {p \in DOMAIN d.entries : IsLive(d.entries[p])}
(* The table indexes the entries: a slot holds a position exactly when     *)
(* that entry is live, no two slots hold the same one, the count of live   *)
(* entries that len() and the iterators use is right, and every entry is   *)
(* found: no empty slot lies between the slot its hash selects and the one *)
(* that holds it, whatever was deleted, grown or inserted from __eq__.     *)
TableIndexesEntries ==
  /\ {dict.table[s] : s \in DOMAIN dict.table} \ {NotPresent, Tombstone} = Entries(dict)
  /\ \A p \in Entries(dict) : Cardinality(SlotsWith(dict, p)) = 1
  /\ dict.valid = Cardinality(Entries(dict))
  /\ \A s \in DOMAIN dict.table : dict.table[s] > 0 =>
       LET start == dict.entries[dict.table[s]].hash % dict.n
       IN  \A t \in SlotsWith(dict, NotPresent) :
             Distance(dict.n, start, s) < Distance(dict.n, start, t)

(* The table always has an empty slot, at which a probe for an absent key  *)
(* ends: calls nested in __eq__ may insert entries after the outer call    *)
(* has made room for its own, but never fill the table.                    *)
ProbesEnd == SlotsWith(dict, NotPresent) # {}

(* A key is reported missing, or inserted as new, only if no equal key was *)
(* in the dictionary at some moment of the call, however the table was     *)
(* changed under the probe.                                                *)
MissesJustified ==
  last # NoValue /\ "hit" \in DOMAIN last /\ ~last.hit => last.absent

(* An iterator that has reported a change of size never yields again, even *)
(* when the size is restored.                                              *)
PoisonedIteratorsStop == \A i \in raised : iters[i].expected # dict.valid

ValueOf(d, c) == {d.entries[p].value : p \in {q \in Entries(d) : ClassOf[d.entries[q].key] = c}}

(* A completed call changes the mapping at its own key and nowhere else,   *)
(* and a step that completes no call changes it nowhere: growing, copying, *)
(* restarted probes and stale positions never lose or overwrite an entry.  *)
OnlyOwnKeyChanges ==
  [][dict' # dict => \A c \in {ClassOf[k] : k \in Keys} :
       ValueOf(dict', c) # ValueOf(dict, c) =>
         /\ last' # NoValue
         /\ last'.op = "clear" \/ ("key" \in DOMAIN last' /\ ClassOf[last'.key] = c)]_vars

=============================================================================
