------------------------------ MODULE ExprExec ------------------------------
(***************************************************************************)
(* An expression statement from text to execution: the trees of ExprParser *)
(* against the grammar, and the blocks of ExprCodeGen, run by LLVM's rules *)
(* on a value of x, against what C says of the expression.                 *)
(***************************************************************************)
EXTENDS ExprCodeGen

CONSTANTS Values,          \* bound: the values of x before the statement
          Considered(_)    \* bound: the trees taken on to code generation

-----------------------------------------------------------------------------
(***************************************************************************)
(* LLVM: the result is the value of the expression and x after it.  A phi  *)
(* without a value for the block control comes from stops everything.      *)
(***************************************************************************)
Lost == [value |-> 0, x |-> 1000]
BitOf(b) == IF b THEN 1 ELSE 0
Compare(op, a, b) ==
  CASE op = "==" -> a = b [] op = "!=" -> a # b [] op = "<" -> a < b
    [] op = ">" -> a > b  [] op = "<=" -> a <= b [] op = ">=" -> a >= b

\* An operator on the operands in a.
Apply(op, a) ==
  CASE op = "sext" -> -a[1]                \* of one bit
    [] op = "zext" -> a[1]
    [] op = "ne0" -> BitOf(a[1] # 0)
    [] op = "not" -> 1 - a[1]
    [] op = "neg" -> -a[1]
    [] op = "com" -> -1 - a[1]
    [] op = "+" -> a[1] + a[2]
    [] op = "-" -> a[1] - a[2]
    [] op = "*" -> a[1] * a[2]
    [] op \in Comparisons -> BitOf(Compare(op, a[1], a[2]))

RECURSIVE Run(_, _, _, _, _, _)
Run(code, b, i, from, env, x) ==
  LET in == code[b][i]
      args == [k \in DOMAIN in.args |->
                 IF in.args[k].id = 0 THEN in.args[k].const
                 ELSE IF in.args[k].id > 0 THEN env[in.args[k].id] ELSE 0]
      Go(to) == Run(code, to, 1, b, env, x)
      Set(v) == Run(code, b, i+1, from, [env EXCEPT ![in.id] = v], x)
  IN  CASE in.op = "ret" -> [value |-> args[1], x |-> x]
        [] in.op = "br" -> Go(in.blocks[1])
        [] in.op = "condbr" -> Go(in.blocks[IF args[1] = 1 THEN 1 ELSE 2])
        [] in.op = "load" -> Set(x)
        [] in.op = "store" -> Run(code, b, i+1, from, env, args[1])
        [] in.op = "phi" ->
             IF from \in Range(in.blocks)
             THEN Set(args[CHOOSE k \in DOMAIN in.blocks : in.blocks[k] = from])
             ELSE Lost
        [] OTHER -> Set(Apply(in.op, args))

Execute(t, x) ==
  LET g == Code(t) IN Run(g.blocks, 1, 1, 0, [i \in 1..g.ids |-> 0], x)

\* What the verifier asks of the blocks: phis stand first in theirs.
verifyModule(g) ==
  \A b \in DOMAIN g.blocks : \A i \in DOMAIN g.blocks[b] :
    g.blocks[b][i].op = "phi" => i = 1

-----------------------------------------------------------------------------
(***************************************************************************)
(* C: the value of t and x after it, when x is x before it.  Operands are  *)
(* evaluated from left to right where C leaves the order open.             *)
(***************************************************************************)
RECURSIVE Meaning(_, _)
Meaning(t, x) ==
  LET Kid(i, y) == Meaning(t.kids[i], y)
      Is(v, y) == [value |-> v, x |-> y]
      l == Kid(1, x)
      r == Kid(2, l.x)
      one == IF t.op = "++" THEN 1 ELSE -1
  IN  CASE t.op = "x" -> Is(x, x)
        [] t.op \in {"sizeof", "sizeof(T)"} -> Is(4, x)
        [] t.op \in {"++", "--"} -> Is(IF t.prefix THEN x + one ELSE x, x + one)
        [] t.op = "(T)" -> l
        [] t.op = "!" -> Is(BitOf(l.value = 0), l.x)
        [] t.prefix /\ t.op = "-" -> Is(-l.value, l.x)
        [] t.prefix /\ t.op = "+" -> l
        [] t.op = "~" -> Is(-1 - l.value, l.x)
        [] t.op = "&&" -> IF l.value = 0 THEN l ELSE Is(BitOf(r.value # 0), r.x)
        [] t.op = "||" -> IF l.value # 0 THEN Is(1, l.x) ELSE Is(BitOf(r.value # 0), r.x)
        [] t.op = "?" -> IF l.value # 0 THEN r ELSE Kid(3, l.x)
        [] t.op = "," -> r
        [] t.op = "=" -> Is(r.value, r.value)
        [] t.op = "+=" -> Is(l.value + r.value, l.value + r.value)
        [] t.op = "-=" -> Is(l.value - r.value, l.value - r.value)
        [] t.op = "*=" -> Is(l.value * r.value, l.value * r.value)
        [] t.op \in Comparisons -> Is(BitOf(Compare(t.op, l.value, r.value)), r.x)
        [] t.op = "+" -> Is(l.value + r.value, r.x)
        [] t.op = "-" -> Is(l.value - r.value, r.x)
        [] t.op = "*" -> Is(l.value * r.value, r.x)

-----------------------------------------------------------------------------
Grammar == INSTANCE ExprGrammar

\* The descent of the parser accepts the expressions of the grammar and no others, and
\* groups the operators as the grammar does, whatever stands next to whatever.
ReadsTheGrammar ==
  status # "parsing" =>
    Grammar!Trees("expr", 1, Len(text)) = (IF status = "accepted" THEN {tree} ELSE {})

\* Every text is read to an end: no loop of the parser goes round without a token.
Terminates == <>(status # "parsing")

\* The code of an expression computes the value that C gives it and leaves x as C does:
\* && and || and ?: evaluate what they must and nothing else, and the value of each
\* reaches the block where control comes together.
EvaluatesAsC ==
  status = "accepted" /\ Considered(tree) =>
    LET g == Code(tree)
    IN  /\ ~g.crash /\ verifyModule(g)
        /\ \A x \in Values :
             IF tree.op = "," THEN Execute(tree, x).x = Meaning(tree, x).x
             ELSE Execute(tree, x) = Meaning(tree, x)
=============================================================================
