------------------------- MODULE ExpressionLowering -------------------------
(***************************************************************************)
(* How the code generator lowers expressions and the statements that bind  *)
(* and unbind names: values pass through the accumulator, operands that    *)
(* must survive the evaluation of another operand are put in temporary     *)
(* registers, and a local that is certainly bound is used where it is.     *)
(*                                                                         *)
(* A fragment is a sequence of instructions and the first register beyond  *)
(* those reserved while it was generated (max_temporary_reg).  An operator *)
(* that generates code takes the first free temporary register, t, so that *)
(* a TemporaryReg that is alive around a piece of code shows as the        *)
(* greater t that piece is generated with.  Jumps are forward and count    *)
(* instructions.                                                           *)
(*                                                                         *)
(* The `op' of a variable, function or class is what the scope analysis    *)
(* found: Present, Checked (a local that may be unbound) or Global.        *)
(***************************************************************************)
EXTENDS Integers, Sequences, FiniteSetsExt, Ast

CONSTANTS
  Slot(_),              \* the register of a local
  FirstTemporary,       \* the size of the local scope
  LiteralValue(_)       \* the value of a number

Larger(a, b) == IF a > b THEN a ELSE b

Nothing(t) == [code |-> <<>>, top |-> t]
f ++ g == [code |-> f.code \o g.code, top |-> Larger(f.top, g.top)]
Up(f, t) == [f EXCEPT !.top = Larger(f.top, t)]

\* An instruction: registers r, s and k, counts n and m, a name or operator x.
Instruction(op) == [op |-> op, r |-> 0, s |-> 0, k |-> 0, n |-> 0, m |-> 0, x |-> <<>>]
Emit(i, t) == [code |-> <<i>>, top |-> t]
Plain(op, t) == Emit(Instruction(op), t)
OnRegister(op, r, t) == Emit([Instruction(op) EXCEPT !.r = r], t)
Star(r, t) == OnRegister("Star", r, t)
Ldar(r, t) == OnRegister("Ldar", r, t)
Move(d, r, t) == Emit([Instruction("Mov") EXCEPT !.r = d, !.s = r], t)
Named(op, name, t) == Emit([Instruction(op) EXCEPT !.x = name], t)
OnAttribute(op, r, name, t) == Emit([Instruction(op) EXCEPT !.r = r, !.x = name], t)
Jump(op, distance, t) == Emit([Instruction(op) EXCEPT !.n = distance], t)
Refused(t) == Plain("SyntaxError", t)

\* is_call_frame_aligned_register: parameters are padded to an even number
CallFrame(t) == t + (t % 2)

-----------------------------------------------------------------------------
(* Names                                                                   *)

VariableLoad(v, t) ==
  CASE v.op = "Present" -> Ldar(Slot(v.name), t)
    [] v.op = "Checked" -> OnRegister("LoadLocalChecked", Slot(v.name), t)
    [] v.op = "Global" -> Named("LdaGlobal", v.name, t)
VariableStore(v, t) ==
  IF v.op = "Global" THEN Named("StaGlobal", v.name, t) ELSE Star(Slot(v.name), t)
VariableDelete(v, t) ==
  IF v.op = "Global" THEN Named("DelGlobal", v.name, t)
  ELSE OnRegister("DelLocal", Slot(v.name), t)

\* existing_register_location
InRegister(e) == e.kind = "VARIABLE" /\ e.op = "Present"

-----------------------------------------------------------------------------
(* Operators                                                               *)

WithImmediate == {"+", "-", "*", "//", "**", "<<", ">>", "%", "|", "&", "^"}
Membership == {"in", "not in"}

\* check_binary_acc_smi_immediate
IsImmediate(op, e) ==
  /\ op \in WithImmediate
  /\ e.kind = "LITERAL" /\ e.op = "NUMBER"
  /\ LiteralValue(e.name) \in -128 .. 127
  /\ op = "<<" => LiteralValue(e.name) \in 0 .. 63

OperatorReg(op, r, t) == Emit([Instruction("Operator") EXCEPT !.r = r, !.x = <<op>>], t)
OperatorSmi(op, e, t) ==
  Emit([Instruction("OperatorSmi") EXCEPT !.n = LiteralValue(e.name), !.x = <<op>>], t)
ToTruth(op, t) == Plain(IF op = "not in" THEN "ToBoolNot" ELSE "ToBool", t)

\* Membership operators answer the truth of what __contains__ returned.
Comparison(op, r, t) ==
  IF op \in Membership THEN OperatorReg("in", r, t) ++ ToTruth(op, t)
  ELSE IF op \in {"is", "is not"}
  THEN OnRegister(IF op = "is" THEN "TestIs" ELSE "TestIsNot", r, t)
  ELSE OperatorReg(op, r, t)

\* EXPRESSION_LITERAL
Literal(e, t) ==
  CASE e.op = "None" -> Plain("LdaNone", t)
    [] e.op = "True" -> Plain("LdaTrue", t)
    [] e.op = "False" -> Plain("LdaFalse", t)
    [] OTHER -> Emit([Instruction("LdaConstant") EXCEPT !.n = LiteralValue(e.name)], t)

-----------------------------------------------------------------------------
(* Calls                                                                   *)

IsKeyword(a) == a.kind = "KEYWORD"
Arguments(call) == call.ch[2].ch
KeywordsAmong(args) == SelectSeq(args, IsKeyword)
KeywordNames(args) == [i \in DOMAIN KeywordsAmong(args) |-> KeywordsAmong(args)[i].name[1]]
\* The number of keyword arguments among the first i
KeywordsBefore(args, i) == Cardinality({j \in 1 .. i : IsKeyword(args[j])})

\* Where argument i goes: the keyword values and the positional ones each have
\* a span of registers.
ArgumentRegister(args, i, values, positional) ==
  IF IsKeyword(args[i]) THEN values + KeywordsBefore(args, i - 1)
  ELSE positional + i - 1 - KeywordsBefore(args, i - 1)

\* trusted_clover_call_kind: the helpers of the trusted language mode, with the
\* number of arguments that each of them takes.
Trusted == {<<"__clover_call_special__">>, <<"__clover_write_stdout__">>,
            <<"__clover_globals__">>, <<"__clover_locals__">>, <<"__clover_sqrt__">>,
            <<"__clover_ternary_pow__">>, <<"__clover_canonicalize_hash__">>}
IsTrusted(call) == call.op = "trusted" /\ call.ch[1].kind = "VARIABLE" /\ call.ch[1].name \in Trusted
ArityAccepted(name, n) ==
  CASE name = <<"__clover_call_special__">> -> n \in 4 .. 7
    [] name \in {<<"__clover_globals__">>, <<"__clover_locals__">>} -> n = 0
    [] name = <<"__clover_ternary_pow__">> -> n = 3
    [] OTHER -> n = 1

-----------------------------------------------------------------------------
(* Expressions                                                             *)

RECURSIVE Lower(_, _)

\* codegen_node_into_a_register: the register and, if it is a temporary, the
\* next free one after it
IntoRegister(e, t) ==
  IF InRegister(e) THEN [fragment |-> Nothing(t), reg |-> Slot(e.name), next |-> t]
  ELSE [fragment |-> Lower(e, t) ++ Star(t, t + 1), reg |-> t, next |-> t + 1]

\* codegen_node_into_specific_register
Into(e, r, t) ==
  IF ~InRegister(e) THEN Lower(e, t) ++ Star(r, t)
  ELSE IF Slot(e.name) = r THEN Nothing(t) ELSE Move(r, Slot(e.name), t)

RECURSIVE IntoEach(_, _, _, _)
\* The expressions from the i-th on, each in its register
IntoEach(es, regs, i, t) ==
  IF i > Len(es) THEN Nothing(t) ELSE Into(es[i], regs[i], t) ++ IntoEach(es, regs, i + 1, t)

RECURSIVE IntoSpan(_, _, _, _)
IntoSpan(es, r, i, t) ==
  IF i > Len(es) THEN Nothing(t) ELSE Into(es[i], r + i - 1, t) ++ IntoSpan(es, r, i + 1, t)

\* codegen_list_literal, codegen_tuple_literal, codegen_dict_literal
Collection(op, es, count, t) ==
  LET next == t + Larger(Len(es), 1)
  IN  IntoSpan(es, t, 1, next)
      ++ Emit([Instruction(op) EXCEPT !.r = t, !.n = count], next)

\* The temporary of the left operand is released too early.
BinaryExpressionReleasingLeft(op, l, r, t) ==
  LET left == IntoRegister(l, t)
  IN  left.fragment ++ Lower(r, t) ++ OperatorReg(op, left.reg, t)

\* codegen_binary_expression
BinaryExpression(op, l, r, t) ==
  LET left == IntoRegister(l, t)
  IN  IF IsImmediate(op, r) THEN Lower(l, t) ++ OperatorSmi(op, r, t)
      ELSE left.fragment ++ Lower(r, left.next)
           ++ (IF op \in Membership THEN Comparison(op, left.reg, t) ELSE OperatorReg(op, left.reg, t))

RECURSIVE Fragments(_, _, _, _, _)
\* codegen_comparison_fragment for the i-th fragment and the ones after it.  The
\* right operand is kept in prod, where the next fragment finds its left one;
\* the two registers swap roles, whatever the first one is.
Fragments(ch, i, recv, prod, t) ==
  LET last == i = Len(ch)
      frag == ch[i]
      kept == IF last THEN Nothing(t) ELSE Star(prod, t)
      own == Lower(frag.ch[1], t) ++ kept ++ Comparison(frag.op, recv, t)
      rest == Fragments(ch, i + 1, prod, recv, t)
  IN  IF last THEN own ELSE own ++ Jump("JumpIfFalse", Len(rest.code), t) ++ rest

ComparisonChain(e, t) ==
  LET recv == IntoRegister(e.ch[1], t)
  IN  Up(recv.fragment ++ Fragments(e.ch, 2, recv.reg, recv.next, recv.next + 1), recv.next + 1)

\* EXPRESSION_SHORTCUTTING_BINARY
Shortcut(e, t) ==
  LET right == Lower(e.ch[2], t)
  IN  Lower(e.ch[1], t)
      ++ Jump(IF e.op = "and" THEN "JumpIfFalse" ELSE "JumpIfTrue", Len(right.code), t)
      ++ right

\* The arguments, in source order, with the spans reserved for them alive; a
\* call without positional arguments has an anchor of one register.
StagedCall(args, base, receiver, calling) ==
  LET n == Len(KeywordsAmong(args))
      values == base
      first == CallFrame(base + n)
      extra == Len(receiver)
      span == Larger(Len(args) - n + extra, 1)
      next == first + span
      staged == [i \in DOMAIN args |-> args[i].ch[1]]
      regs == [i \in DOMAIN args |-> ArgumentRegister(args, i, values, first + extra)]
      i == [calling EXCEPT !.s = first, !.n = Len(args) - n, !.k = values, !.m = n]
  IN  IntoSpan(receiver, first, 1, next) ++ IntoEach(staged, regs, 1, next) ++ Emit(i, next)

\* codegen_function_call of an attribute: the receiver takes the first register
\* of the span, and the attribute is looked up by the call.
MethodCall(e, t) ==
  StagedCall(Arguments(e), t, <<e.ch[1].ch[1]>>,
             [Instruction("CallMethod") EXCEPT !.x = e.ch[1].name \o KeywordNames(Arguments(e))])

\* codegen_function_call of anything else
FunctionCall(e, t) ==
  Into(e.ch[1], t, t + 1)
  ++ StagedCall(Arguments(e), t + 1, <<>>,
                [Instruction("Call") EXCEPT !.r = t, !.x = KeywordNames(Arguments(e))])

\* try_codegen_trusted_clover_call
TrustedCall(e, t) ==
  LET args == Arguments(e)
      name == e.ch[1].name
      value(i) == args[i].ch[1]
      first == CallFrame(t)
      next == first + Len(args) - 3
      passed == [i \in 1 .. Len(args) - 3 |-> IF i = 1 THEN value(1) ELSE value(i + 3)]
  IN  IF KeywordsAmong(args) # <<>> \/ ~ArityAccepted(name, Len(args)) THEN Refused(t)
      ELSE CASE name = <<"__clover_call_special__">> ->
                  IF value(2).kind # "LITERAL" \/ value(3).kind # "VARIABLE" \/ value(4).kind # "LITERAL"
                  THEN Refused(t)
                  ELSE IntoSpan(passed, first, 1, next)
                       ++ Emit([Instruction("CallSpecialMethod") EXCEPT
                                  !.s = first, !.n = Len(args) - 4, !.x = value(2).name], next)
             [] name \in {<<"__clover_globals__">>, <<"__clover_locals__">>} ->
                  Named("RuntimeIntrinsic", name, t)
             [] name = <<"__clover_ternary_pow__">> ->
                  Into(value(1), t, t + 2) ++ Into(value(2), t + 1, t + 2)
                  ++ Lower(value(3), t + 2)
                  ++ Emit([Instruction("TernaryPow") EXCEPT !.r = t, !.s = t + 1], t + 2)
             [] OTHER -> Lower(value(1), t) ++ Named("Helper", name, t)

\* codegen_slice_part_into_register, codegen_slice_literal
Absent(e) == e.kind = "ABSENT"
SlicePart(e, r, t) == IF Absent(e) THEN Plain("LdaNone", t) ++ Star(r, t) ELSE Into(e, r, t)
Slice(e, t) ==
  LET start == SlicePart(e.ch[1], t, t + 1)
  IN  IF Absent(e.ch[3])
      THEN start
           ++ (IF Absent(e.ch[2]) THEN Plain("LdaNone", t + 1) ELSE Lower(e.ch[2], t + 1))
           ++ OnRegister("CreateBinarySlice", t, t + 1)
      ELSE start ++ SlicePart(e.ch[2], t + 1, t + 2) ++ Lower(e.ch[3], t + 2)
           ++ Emit([Instruction("CreateTernarySlice") EXCEPT !.r = t, !.s = t + 1], t + 2)

\* EXPRESSION_BINARY of a subscript
GetSubscript(e, t) ==
  LET receiver == IntoRegister(e.ch[1], t)
  IN  receiver.fragment ++ Lower(e.ch[2], receiver.next) ++ OnRegister("GetItem", receiver.reg, t)

\* EXPRESSION_ATTRIBUTE
GetAttribute(e, t) ==
  LET receiver == IntoRegister(e.ch[1], t)
  IN  receiver.fragment ++ OnAttribute("LoadAttr", receiver.reg, e.name, t)

-----------------------------------------------------------------------------
(* Assignments                                                             *)

\* The value that an augmented assignment stores: old, which is in the
\* accumulator, combined with e.
Augmented(op, e, t) ==
  IF IsImmediate(op, e) THEN OperatorSmi(op, e, t)
  ELSE Star(t, t + 1) ++ Lower(e, t + 1) ++ OperatorReg(op, t, t + 1)

\* codegen_subscript_assignment
SubscriptAssignment(op, target, e, t) ==
  LET value == IntoRegister(e, t)
      at == IntoRegister(target.ch[1], value.next)
      receiver == IntoRegister(target.ch[1], t)
      key == IntoRegister(target.ch[2], receiver.next)
      SetItem(r, s, next) == Emit([Instruction("SetItem") EXCEPT !.r = r, !.s = s], next)
  IN  IF op = "NOP"
      THEN value.fragment ++ at.fragment ++ Lower(target.ch[2], at.next)
           ++ SetItem(at.reg, value.reg, t)
      ELSE receiver.fragment ++ key.fragment ++ Ldar(key.reg, t)
           ++ OnRegister("GetItem", receiver.reg, t)
           ++ Augmented(op, e, key.next)
           ++ Star(key.next, key.next + 1) ++ Ldar(key.reg, t)
           ++ SetItem(receiver.reg, key.next, t)

\* The value is in the accumulator when its receiver is evaluated.
StoreAttribute(target, t) ==
  LET receiver == IntoRegister(target.ch[1], t + 1)
  IN  IF InRegister(target.ch[1])
      THEN OnAttribute("StoreAttr", Slot(target.ch[1].name), target.name, t)
      ELSE Star(t, t + 1) ++ receiver.fragment ++ Ldar(t, t)
           ++ OnAttribute("StoreAttr", receiver.reg, target.name, t)

\* codegen_attribute_assignment
AttributeAssignment(op, target, e, t) ==
  LET receiver == IntoRegister(target.ch[1], t)
  IN  IF op = "NOP" THEN Lower(e, t) ++ StoreAttribute(target, t)
      ELSE receiver.fragment ++ OnAttribute("LoadAttr", receiver.reg, target.name, t)
           ++ Augmented(op, e, receiver.next)
           ++ OnAttribute("StoreAttr", receiver.reg, target.name, t)

\* emit_store_accumulator_to_target
StoreTo(target, t) ==
  LET receiver == IntoRegister(target.ch[1], t + 1)
  IN  CASE target.kind = "VARIABLE" -> VariableStore(target, t)
        [] target.kind = "ATTRIBUTE" -> StoreAttribute(target, t)
        [] OTHER -> Star(t, t + 1) ++ receiver.fragment ++ Lower(target.ch[2], receiver.next)
                    ++ Emit([Instruction("SetItem") EXCEPT !.r = receiver.reg, !.s = t], t)

\* STATEMENT_ASSIGN, EXPRESSION_ASSIGN: the value of a statement that assigns to
\* a local is computed straight into the local's register.
Assignment(s, t) ==
  LET target == s.ch[1]
      e == s.ch[2]
  IN  CASE target.kind = "ATTRIBUTE" -> AttributeAssignment(s.op, target, e, t)
        [] target.kind = "BINARY" -> SubscriptAssignment(s.op, target, e, t)
        [] target.kind = "VARIABLE" /\ s.op # "NOP" ->
             BinaryExpression(s.op, target, e, t) ++ VariableStore(target, t)
        [] target.kind = "VARIABLE" /\ s.op = "NOP" /\ s.kind = "ASSIGN" /\ target.op # "Global" ->
             Into(e, Slot(target.name), t)
        [] OTHER -> Lower(e, t) ++ VariableStore(target, t)

\* STATEMENT_ANN_ASSIGN: the annotation is not evaluated.
AnnotatedAssignment(s, t) ==
  LET target == s.ch[1]
  IN  CASE Len(s.ch) = 3 -> Lower(s.ch[3], t) ++ StoreTo(target, t)
        [] Len(s.ch) = 2 /\ s.op = "simple" -> Nothing(t)
        [] Len(s.ch) = 2 /\ s.op # "simple" /\ target.kind = "ATTRIBUTE" -> Lower(target.ch[1], t)
        [] Len(s.ch) = 2 /\ s.op # "simple" /\ target.kind = "BINARY" ->
             Lower(target.ch[1], t) ++ Lower(target.ch[2], t)
        [] OTHER -> Lower(target, t)

\* STATEMENT_DEL for one target
Delete(target, t) ==
  LET receiver == IntoRegister(target.ch[1], t)
  IN  CASE target.kind = "ATTRIBUTE" ->
             receiver.fragment ++ OnAttribute("DelAttr", receiver.reg, target.name, t)
        [] target.kind = "BINARY" ->
             receiver.fragment ++ Lower(target.ch[2], receiver.next)
             ++ OnRegister("DelItem", receiver.reg, t)
        [] OTHER -> VariableDelete(target, t)

-----------------------------------------------------------------------------
(* Imports and definitions                                                 *)

RECURSIVE ImportFromEach(_, _, _)
ImportFromEach(names, i, t) ==
  IF i > Len(names) THEN Nothing(t)
  ELSE Named("ImportFrom", <<names[i]>>, t) ++ ImportFromEach(names, i + 1, t)

RECURSIVE Imports(_, _, _)
\* STATEMENT_IMPORT from the i-th alias on: `import a.b' binds a, while `import
\* a.b as c' binds what it reaches from a by name.
Imports(aliases, i, t) ==
  LET a == aliases[i]
  IN  IF i > Len(aliases) THEN Nothing(t)
      ELSE Plain("LdaNone", t) ++ Named("ImportName", a.name, t)
           ++ (IF a.op = "as" THEN ImportFromEach(a.name, 2, t) ELSE Nothing(t))
           ++ StoreTo(a.ch[1], t) ++ Imports(aliases, i + 1, t)

RECURSIVE AliasesFrom(_, _, _, _)
AliasesFrom(aliases, i, module, t) ==
  IF i > Len(aliases) THEN Nothing(t)
  ELSE Ldar(module, t) ++ Named("ImportFrom", aliases[i].name, t)
       ++ StoreTo(aliases[i].ch[1], t) ++ AliasesFrom(aliases, i + 1, module, t)

\* STATEMENT_IMPORT_FROM
ImportFrom(s, t) ==
  LET aliases == s.ch
      import == Plain("LdaConstant", t) ++ Named("ImportName", s.name, t)
  IN  CASE aliases[1].kind = "IMPORT_STAR" ->
             import ++ Named("RuntimeIntrinsic", <<"ImportStar">>, t)
        [] aliases[1].kind # "IMPORT_STAR" /\ Len(aliases) = 1 ->
             import ++ Named("ImportFrom", aliases[1].name, t) ++ StoreTo(aliases[1].ch[1], t)
        [] OTHER -> import ++ Star(t, t + 1) ++ AliasesFrom(aliases, 1, t, t + 1)

\* supported_runtime_parameter_order: positional-only, positional, *, keyword-only, **
Parameters(signature) ==
  signature.ch[1].ch \o signature.ch[2].ch \o signature.ch[3].ch \o signature.ch[4].ch
    \o signature.ch[5].ch
HasDefault(p) == p.kind = "PARAMETER" /\ p.ch # <<>>

RECURSIVE DefaultValues(_, _, _, _)
DefaultValues(params, i, r, t) ==
  IF i > Len(params) THEN Nothing(t)
  ELSE (IF params[i].ch = <<>> THEN Plain("LdaNone", t) ++ Star(r + i - 1, t)
        ELSE Into(params[i].ch[1], r + i - 1, t))
       ++ DefaultValues(params, i + 1, r, t)

\* codegen_function_definition: the defaults from the first parameter with one to
\* the last, None where one between them has none
FunctionDefinition(s, t) ==
  LET params == Parameters(s.ch[1])
      with == {i \in DOMAIN params : HasDefault(params[i])}
      span == SubSeq(params, Min(with), Max(with))
      next == t + Len(span)
      create == [Instruction("CreateFunction") EXCEPT !.x = s.name]
  IN  (IF with = {} THEN Emit(create, t)
       ELSE DefaultValues(span, 1, t, next)
            ++ Emit([Instruction("CreateTuple") EXCEPT !.r = t, !.n = Len(span)], next)
            ++ Star(next, next + 1)
            ++ Emit([create EXCEPT !.op = "CreateFunctionWithDefaults", !.r = next], next + 1))
      ++ VariableStore(s, t)

\* codegen_class_definition: the body is called with the name and the bases.
ClassDefinition(s, t) ==
  LET bases == [i \in DOMAIN s.ch[1].ch |-> s.ch[1].ch[i].ch[1]]
      n == Larger(Len(bases), 1)
      tuple == t + n
      first == CallFrame(tuple + 1)
  IN  (IF bases = <<>> THEN Plain("LdaConstant", t + n) ++ Star(t, t + n)
       ELSE IntoSpan(bases, t, 1, t + n))
      ++ Emit([Instruction("CreateTuple") EXCEPT !.r = t, !.n = n], t + n)
      ++ Star(tuple, tuple + 1)
      ++ Plain("LdaConstant", first + 2) ++ Star(first, first + 2) ++ Move(first + 1, tuple, first + 2)
      ++ Emit([Instruction("CreateClass") EXCEPT !.s = first, !.x = s.name], first + 2)
      ++ VariableStore(s, t)

-----------------------------------------------------------------------------
(* codegen_node                                                            *)

Lower(e, t) ==
  CASE e.kind = "VARIABLE" -> VariableLoad(e, t)
    [] e.kind = "LITERAL" -> Literal(e, t)
    [] e.kind = "BINARY" /\ e.op = "SUBSCRIPT" -> GetSubscript(e, t)
    [] e.kind = "BINARY" /\ e.op # "SUBSCRIPT" -> BinaryExpression(e.op, e.ch[1], e.ch[2], t)
    [] e.kind = "UNARY" ->
         Lower(e.ch[1], t) ++ (IF e.op = "not" THEN Plain("Not", t) ELSE Named("Unary", <<e.op>>, t))
    [] e.kind = "COMPARISON" -> ComparisonChain(e, t)
    [] e.kind = "SHORTCUTTING" -> Shortcut(e, t)
    [] e.kind = "CALL" ->
         IF IsTrusted(e) THEN TrustedCall(e, t)
         ELSE IF e.ch[1].kind = "ATTRIBUTE" THEN MethodCall(e, t) ELSE FunctionCall(e, t)
    [] e.kind = "ATTRIBUTE" -> GetAttribute(e, t)
    [] e.kind = "SLICE" -> Slice(e, t)
    [] e.kind = "TUPLE" -> Collection("CreateTuple", e.ch, Len(e.ch), t)
    [] e.kind = "LIST" -> Collection("CreateList", e.ch, Len(e.ch), t)
    [] e.kind = "DICT" -> Collection("CreateDict", e.ch, Len(e.ch) \div 2, t)
    [] e.kind \in {"ASSIGN", "EXPRESSION_ASSIGN"} -> Assignment(e, t)
    [] e.kind = "ANN_ASSIGN" -> AnnotatedAssignment(e, t)
    [] e.kind = "DEL" -> Delete(e.ch[1], t)
    [] e.kind = "IMPORT" -> Imports(e.ch, 1, t)
    [] e.kind = "IMPORT_FROM" -> ImportFrom(e, t)
    [] e.kind = "FUNCTION_DEF" -> FunctionDefinition(e, t)
    [] e.kind = "CLASS_DEF" -> ClassDefinition(e, t)

\* The code of a statement and max_temporary_reg
CodeOf(s) == Lower(s, FirstTemporary)
\* CodeObjectBuilder::finalize: where the frame of a method that an operator
\* calls begins
FirstFree(f) == CallFrame(f.top)
=============================================================================
