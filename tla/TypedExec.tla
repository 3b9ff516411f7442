------------------------------ MODULE TypedExec ------------------------------
(***************************************************************************)
(* What Sema, the code generator and the constant folder make of one       *)
(* expression, and what the expression means in C.                         *)
(***************************************************************************)
EXTENDS TypedCodeGen

CONSTANTS Memory,          \* what is in memory before the expression is executed
          Considered(_)    \* bound: the expressions about which something is claimed

C == INSTANCE TypedC
K == INSTANCE ConstantEval

Tree == nodes[1]
Whole == Len(nodes) = 1 /\ status = "building" /\ Considered(Tree)
Code == Visit([mem |-> Memory, crash |-> FALSE], Tree)

\* The value v is the n that C gives a T; a bit is a condition.
IsValueOf(v, T, n) ==
  CASE v.ty.bits = 1 -> (v.n # 0) = (n # 0)
    [] v.ty.k = "array" -> IsLoad(v) /\ PointerOperand(v) = n
    [] v.ty.k = "record" -> v.cells = n
    [] OTHER -> v.n = n /\ v.ty = LLVMType(IF T.kind \in {"array", "func"} THEN CPointType(T) ELSE T)

\* The expression and everything in it; the types of its operands.
RECURSIVE Parts(_)
Parts(t) == {t} \cup UNION {Parts(t.kids[i]) : i \in DOMAIN t.kids}
Types(u) == {u.kids[i].type : i \in DOMAIN u.kids}

-----------------------------------------------------------------------------
DoesAsC(code, meaning) ==
  C!IsLegal(meaning.type) =>
    /\ ~code.g.crash
    /\ meaning.known => code.g.mem = meaning.mem /\ IsValueOf(code.v, meaning.type, meaning.v)

\* codegen.cc:488-922 and 925-1260: a legal expression has code that LLVM accepts, and where
\* C defines what it does, the code leaves the same memory and yields the same value, in the
\* machine type of its type.  Conversions, widths, short-circuits, addresses and stores of
\* every operator have a part in it.
EvaluatesAsC == Whole => DoesAsC(Code, C!Eval(Memory, Tree))

\* Legal, and rejected nevertheless: a unary operator on anything but an int, ++ and -- on an
\* element or a member, ?: over two kinds of types, and arrays and functions as pointers.  A
\* comma expression has the type of its left operand.
RejectedInC(u) ==
  \/ u.op \in {"positive", "negative", "logic_not", "bitwise_not"} /\ \A T \in Types(u) : IsScalar(T)
  \/ u.op \in {"inc", "dec", "post_inc", "post_dec"} /\ u.kids[1].op \in {"subscript", "dot", "arrow"}
  \/ u.op = "three" /\ \A i \in 2..3 : IsScalar(u.kids[i].type)
  \/ u.op = "subscript" /\ IsArithType(u.kids[1].type)
  \/ \E i \in DOMAIN u.kids : u.kids[i].op = "comma"
  \/ u.op # "call" /\ \E T \in Types(u) : T.kind \in {"array", "func"}

\* sema.cc:49-420 and 562-602: what Sema rejects is not C either.
RejectsOnlyErrors ==
  LET u == Last(nodes)
  IN  status = "rejected" /\ ~RejectedInC(u) => ~C!IsLegal(C!Type(u))

IsConstant(v, c) ==
  c.is = "constant" /\ c.v # Junk =>
    /\ v.ty # NoType /\ (IsDouble(v) <=> c.fp)
    /\ IF v.ty.bits = 1 THEN (v.n # 0) = (c.v # 0) ELSE v.n = c.v

\* eval_constant.cc:26-236: where the folder finds a value for a bound or a label, the code for
\* the expression computes the same one; sizeof, which it divides by 8, apart.
FoldsAsRun ==
  Whole /\ (\A u \in Parts(Tree) : u.op # "sizeof") => IsConstant(Code.v, K!EvalConst(Tree))
=============================================================================
