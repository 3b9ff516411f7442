# A verification project for llvm-C-compiler

The program is a one-pass C compiler in C++: a hand-written lexer, a recursive-descent
parser that calls semantic actions as it reads, a syntax tree, a code generator that emits
LLVM IR, and a driver that verifies the module and runs it with MCJIT. It is sequential and
keeps nothing on disk. What is hard in it is not concurrency: it is a set of stacks that are
pushed and popped by hand along many paths (scopes, modes, saved lexer states, targets of
jumps), a parser that reads ahead speculatively and must undo what it did, a second set of
scopes in the generator, basic blocks that every statement leaves in one of several states,
and layout arithmetic that is done twice, here and in LLVM. Those are what the modules are
about. All paths below are relative to `src/`.

## 1. The system

| component | state | operations | who it interacts with |
|---|---|---|---|
| Lexer (`lexer.h/.cc`) | `BufPtr`, line bookkeeping, `stateStack` | `NextToken`, `SaveState`, `RestoreState` | called by the parser; rewinding restores the lexer only, the parser keeps its own `token` |
| Parser, declarations (`parser.cc` 10-780, 1440-1739) | `token`, the C++ call stack | `ParseProgram`, `ParseFunctionDecl`, `ParseDeclareStmt`, `ParseDeclSpec`, `ParseDeclarator`, suffixes, parameters, records, initializers, `IsFunctionDecl`, `IsFunctionTypeNode` | calls Sema at every name; reads ahead with Sema in Skip mode |
| Parser, statements (`parser.cc` 30-110, 780-1075) | `breakNodes`, `continueNodes`, `switchNodes` | `ParseStmt` and one procedure per statement | opens scopes in Sema; builds nodes that carry their jump targets |
| Parser, expressions (`parser.cc` 1081-1600) | the C++ call stack | `ParseExpr` down to `ParsePrimaryExpr` | calls Sema for types and lvalues |
| Sema (`sema.h/.cc`) | `scope`, `modeStack` | `EnterScope`, `ExitScope`, `SetMode`, `UnSetMode`, one action per kind of node | reads and writes the symbol tables; reports through the diagnostics engine |
| Symbol tables (`scope.h/.cc`) | a stack of environments, each with an object and a tag name space | enter, exit, find in one or in all, add | Sema |
| Types (`type.h/.cc`) | size, alignment, members with offsets | array constructor, `SetMembers`, `UpdateStructOffset`, `UpdateUnionOffset` | Sema, `sizeof`, the generator |
| Syntax tree (`ast.h`) | nodes | constructors, `Accept` | parser to generator |
| Constant evaluation (`eval_constant.h/.cc`) | none | one visit per node | global initializers, case labels, array bounds |
| Code generator (`codegen.h/.cc`) | IRBuilder's insertion point, `breakBBs`, `continueBBs`, `switchStack`, `localVarMap` with its scopes, `globalVarMap` | one `Visit...` per node, types | LLVM |
| Driver (`main.cc`) | none | parse, generate, `assert(!verifyModule)`, run | all |
| Diagnostics (`diag_engine`, `diag.inc`) | none | `Report`: prints, and on an error exits the process | lexer, parser, Sema |
| Tree printer, type printer (`printVisitor`, `type_visitor.h`) | output | one visit per node | debug output |

Correctness, per component: every stack returns to its height on every path; a speculative
reading leaves nothing behind and agrees with the real one; names mean what block structure
says; jumps go where the text says; a text is divided into the tokens of C, each with its place
and value; an expression has the type of C, and its code the value; what an initializer lists
reaches the element it is written for; accepted text gives a module that verifies and behaves as
C says; members of a record do not overlap, are aligned, and LLVM's layout agrees; every text
is either accepted or rejected, in finitely many steps. The places where the code could break
one of these are listed, with their lines, as the hazards of `PROJECT.json`.

## 2. Modules

```
Scope            symbol tables                       shared by both parsers
 |- DeclParser ---- DeclParserProps ---- MCDeclParser
 |                   |  \- LexicalScoping   (abstract)
 |                   \---- DeclParserProofs --- ScopingProofs (TLAPS)
 \- StmtParser --- StmtCodeGen --- StmtExec --- MCStmtExec
            |                       \- CStatements (abstract)
            \--- StmtParserProofs --- NameResolutionProofs (TLAPS)
ExprParser --- ExprCodeGen --- ExprExec --- MCExpr
        |                       \- ExprGrammar (reference)
        \------- ExprParserProofs (TLAPS)
RecordLayout --- MCRecordLayout
        \------- RecordLayoutProofs (TLAPS)
Lexer --- LexerProps --- MCLexer
           \- CTokens, CLexicon (reference)
CTypes           types, memory, arithmetic            shared by what follows
 |- ExprSema ------\------ ExprSemaProofs (TLAPS)
 |- IRValues ------- TypedCodeGen --- TypedExec --- MCTyped
 |      |                              |- ConstantEval
 |      |                              \- TypedC (reference)
 |      \---------- InitCodeGen --- InitExec --- MCInitializers
 |                  /                \- CInitializers (reference)
 \- Initializers --/
        \---------- InitializersProofs (TLAPS)
```

`ExprSema`, `IRValues` and `Initializers` extend `CTypes`; `TypedCodeGen` extends the first two,
`InitCodeGen` the last two. A reference is written from the C standard and never from the code; it is brought in
with `INSTANCE` so that its operators stay apart from those that translate the code.

### Declarations: `Scope`, `DeclParser`, `DeclParserProps`, `LexicalScoping`

`DeclParser` keeps the recursive descent as the variable `stack`: one frame per active
procedure, whose field `at` names the call that is pending (`"dtor.typed"` is
`ParseDeclarator` during the second reading of a parenthesised declarator). A step is the
code between two calls. The other variables are fields of the classes: `saved` is
`Lexer::stateStack`, `cur` the lexer's position, `tok` the parser's token, `modes` and `envs`
are Sema's two stacks, `external` is `Program::externalDecls`. The fields `depth`, `mdepth`,
`sdepth`, `mark` and `stop` of a frame are history and no guard reads them.

Text is chosen token by token the first time the lexer reaches it and kept, so that the second
reading of a declarator sees the same tokens. A diagnostic that ends the process is a value of
`status`; so are the null dereferences of the code (`nullSymbol`, `nullFuncType`,
`nullMember`) and a read past the end (`endOfInput`). Types are reduced to the shapes that
decide control: object, pointer to a function, and function. A function type keeps its identity (the
token that ends its parameter list), because the code keeps `hasBody` in the type object, which the
names declared by one typedef share. Expressions in initializers are one name or number.

`LexicalScoping` is the abstract specification: scopes are opened, the innermost one is
closed, and a name that is not in the innermost one is entered there. `BlockStructured` says
that `DeclParser` implements it, with the scopes of the outermost procedure that is going to
rewind the lexer left out of the mapping.

### Statements: `StmtParser`, `StmtCodeGen`, `StmtExec`, `CStatements`

`StmtParser` builds the tree of one function body, one action per `Parse*Stmt`, with the
jump stacks and Sema's scopes. A token stands for the keyword with its header (`if (x)`,
`case 1:`); the only expression is a use of the variable `x`, which `int` declares again, so
that each evaluation is *about* a declaration. `StmtCodeGen` is the generator as operators
that take and return the state of `CodeGen` (`Visit*Stmt`: blocks, insertion point, jump maps,
switch stack, `localVarMap`), and `verifyModule` as far as blocks go. `StmtExec` puts them
together as `main.cc` does and runs the blocks; what a condition yields is any outcome, which
`value` keeps until the next evaluation.

`CStatements` is the abstract specification: the order in which C evaluates the expressions
of the body, straight from the tree, with jumps and scopes found by looking outwards. The
refinement `RunsAsWritten` maps a run's state to the evaluation it comes to next (`Pending`), and
the value of the last one to itself: the next evaluation must be the one that the tree has after
*that* value, so that a branch or a case that goes the wrong way is no step of `CStatements`.

### Expressions: `ExprParser`, `ExprGrammar`, `ExprCodeGen`, `ExprExec`

`ExprParser` is the chain of procedures from `ParseExpr` to `ParsePrimaryExpr` as a machine
with a stack of calls. `ExprGrammar` is the grammar of `doc/ebnf.txt` with the associativity
of C, as the set of trees of a text found by splitting it. `ExprCodeGen` translates the
`Visit*Expr` methods for one `int` variable, with the `i1` of comparisons and the places where
it is widened; `ExprExec` runs the blocks by LLVM's rules (a `phi` takes the value of the block
control came from) and compares with the value C defines. Where C leaves the order of operands
open, it is from left to right on both sides.

### Characters: `Lexer`, `CLexicon`, `CTokens`, `LexerProps`

`Lexer` is `NextToken` over a text of single characters with the lexer's own fields
(`BufPtr` as `CurBufPtr`, `LineHeadPtr`, `row`, `stateStack`) and the parser's token, which
keeps the fields that the present kind does not set: a value left over from an earlier token is
visible. `SaveState` and `RestoreState` are steps of their own, so that every text
is also read with a look-ahead that begins and ends anywhere. A report of an error ends the run
(`status = "reported"`), a read behind the buffer is `"overrun"`. The widths of `int` and `long`
are constants, `IntBits` and `LongBits`, so that the limits at which the type of a literal changes
are reached by literals of two digits. `CTokens` divides the same text by the rules of C 6.4, with
the words of `CLexicon`, and gives each token its place, line, column, value and type.

### Typed expressions and constants: `CTypes`, `ExprSema`, `IRValues`, `TypedCodeGen`, `ConstantEval`, `TypedExec`, `TypedC`

`ExprSema` keeps a stack of expression nodes; a step is one `sema...Node` handler, which takes its
operands from the top of the stack, checks what the code checks and pushes the node with the type
and the lvalue flag the code gives it, or rejects. So every tree that the parser could hand over
is built, with every order of operands, and the parser's grammar plays no part here
(`ExprParser` has that). `IRValues` is the LLVM side: values with their machine type, what they
were loaded from, `AssignCast`, `Cast`, `Widen`, `BinaryArithCast`, the conversions to a condition;
a cast or an instruction that LLVM's assertions refuse is `crash`. `TypedCodeGen` is
one operator per `Visit...Expr`, executed as it is emitted. `ConstantEval` is the folder of
`eval_constant.cc`. `TypedC` gives type, legality, value and effect of the same tree by C11 6.5;
memory is bytes of which each knows the value that it is a part of, so that a store of the
wrong width or a load at the wrong offset is seen.

### Initializers: `Initializers`, `InitCodeGen`, `InitExec`, `CInitializers`

`Initializers` has one frame per list that is being read, as `ParseInitializer` is recursive,
`offsetList`, the one list of indices that all of them push to and pop from, the values listed with
their places (`initValues`), the bound an array of unknown
bound gets, and strings. In `InitCodeGen`, `LocalVariable` is what `VisitVariableDeclExpr` stores for it and
`GlobalVariable` the constant of `GetInitialValue`, both as a memory; `InitExec` compares them. `CInitializers` parses the
tokens by the grammar of C 6.7.9 and gives the elements that they initialize.

### Record layout: `RecordLayout`

`types` is a table in which a type refers to older types; a record is laid out one member per
step as in the loops of `UpdateStructOffset` and `UpdateUnionOffset`, with the locals of the
loop in `record`. `VisitRecordType` is the LLVM struct that the generator makes of it; its
layout by LLVM's rules (external code) is modelled from how the generator uses it.

## 3. Runs

Passing runs:

| run | what it shows | bounds |
|---|---|---|
| `declarations` | stacks balanced, readings undone and in agreement, each step leaves less to read, verdicts of `IsFunctionDecl` right, tree and tables in agreement, block structure | every text of up to 9 tokens over two names up to symmetry, `int`, `typedef`, `*`, `( )`, `,`, `;`, `{ }` |
| `sentences` | the same stacks on long texts, and that the descent stops | three of fourteen declarations one after the other (up to about ninety tokens), all texts of up to 11 tokens with `struct`, all texts of up to 5 tokens of any kind |
| `bodies` | jump targets, one scope per open block or `for`, name resolution, and that what is run is what is written | all bodies of up to 4 statements with loops, `if` and declarations, of up to 6 with switches, of up to 6 with both switches and `while` |
| `layout` | members apart, aligned, and where LLVM puts them | two made types over scalars of 1, 2, 4 and 8 bytes; arrays of three; up to three members; the second type may contain the first |
| `expressions` | the parser reads the grammar, leaves less to do with every step, ends on every text, and the code computes C's value | all texts of up to 3 tokens, all expressions of two operators, those of three with `&&`, `||`, `?:`, brackets and assignment; x is -1, 0 or 2 |
| `tokens` | the tokens of C with their places, rows, columns, values and types, also after a look-ahead; what is reported is the first error of the text | all texts of up to 4 characters over words and blanks and over quotes and comments, of up to 2 over all punctuation and 3 over some, integers of two digits with every prefix and suffix of up to three letters |
| `typed` | what Sema accepts has the operands the generator casts to, it rejects nothing that is legal, what is legal has code that LLVM accepts, and memory and value are those of C; the folder agrees with the code | all expressions of up to 4 nodes, of up to 5 over the operators that convert, store, branch and address, on an `int`, a `char`, a `double`, an array, two structs, pointers, a string and a function |
| `initializers` | values are listed in the order of their places and each has the place of its element, verdicts right, and locals and globals hold what C says | all initializers of up to 11 tokens for twenty types |

Violation runs, each a disagreement of the code with a comment, an assertion or an example of
the repository (the findings of `PROJECT.json` quote them):

| run | input | what happens |
|---|---|---|
| `verified` | `switch (x) { case 1: }` | a block without terminator; `assert(!verifyModule(*module))` fails |
| `for_scope` | `int x; for (int x = 0; x; x) x;` | the loop tests the outer variable |
| `floats` | `1.` | a floating constant is no token: `ConvertNumber` tries the integer again (`lexer.cc:790`) |
| `pointers` | `p++` on an `int *` | the pointer moves by eight bytes, the size of a pointer |

Why the bounds are enough. Nine tokens hold `int(*(a))();`, a function pointer inside
parentheses inside a function reading, so that a look-ahead runs within a look-ahead within
`IsFunctionDecl`; the sentences add what needs length: parameters with bodies, records in
records, names shadowed and declared again. Six statements hold a switch with
two labels in a label of another switch, and a `continue` under one of the labels of a
switch in a loop; four hold two loops one in the other with a jump and an `else`. Three operators hold a branch whose
operand branches. Two types over three members give every alignment after every other, nested
once; the theorems do the rest. Four characters hold a comment with its content, an escape in its
quotes, and a word between two newlines; the operators of three characters need no more than
three. Four nodes hold an operator over two operands of which one is converted, dereferenced or
assigned to, five an assignment of a product through a pointer. Eleven tokens hold both
inner lists of an `int[2][2]` in full, and a list with a missing inner element between others.

Bounds by name. Declarations: `MaxTokens` (a longer text ends), `MayFollow` (which token may follow
a text). Statements: `MayBegin` and `MaxNodes` (which statement may come next), `CaseValues`,
`ForShapes`. Expressions: `Texts`, `Values`. Layout: `MaxMembers`, `MaxTypes`, `Basic`, `Counts`.
Lexer: `Sources`, `IntBits` = 4, `LongBits` = 6, `MaxSaved` = 1 (look-aheads within each other),
`Code` (the numbers of the characters). Typed expressions: `MayHave` (sizes of the trees),
`Variables`, `Strings`, `Numbers` (0, 1, 300, which is no `char`), `TypeNames`, `Memory`,
`Returns`, and `Largest` = 2^14, beyond which a result is not compared; doubles are counted in
quarters. Initializers: `Declared` (the types of the variables) and `ElementTypes` (those of their
parts), `MaxTokens`, `Chars`, `StringAt`. Everywhere `Considered` says
about which inputs something is claimed. A `for` without both condition and increment is left out
of `ForShapes` because its block can loop without an evaluation, and the mapping to the next
evaluation is then not defined. `CHECK_DEADLOCK FALSE` stands in two configurations, where the
system is done: `layout` (a program makes finitely many types) and `initializers` (a declaration
that is accepted or rejected). Everywhere else a program that has ended stutters explicitly, so
that deadlock is checked.

`Considered` leaves out of the passing runs, by name, what is known to go wrong.

Statements:

- `DefaultsLast`: a label after the default of its switch. The default leaves the switch instead
  of falling through: in `switch (x) { default: case 1: x; break; }` nothing is evaluated.
- `JumpsLast`: a label that follows a jump in one sequence. `VisitBlockStmt` stops at the first
  jump, and with it drops the rest: `switch (x) { case 1: { break; case 2: x; } }` loses case 2.
- `PlainHeaders`: a name declared by a `for` and used later in the same sequence (run
  `for_scope`), and a declaration that is a body by itself, which C has not.

Blocks of expressions (run `expressions`):

- `BitsAreTested`: a comparison used as a number. Its one bit is widened with its sign, so that
  `int z = a == b;` stores -1; the branches of `?:` are widened in the merge block before the
  phi, so that `c ? a < b : 1` does not verify; `!(a < b)` compares operands of two types.
- `CommasDropped`: the value of a comma; in `x = (x, x);` the assignment gets a null pointer.

Typed expressions (definitions of `MCTyped`):

- `PointerArithmetic`: `p + 1`, `p - 1` and comparisons of pointers stop in `BinaryArithCast`,
  although `semaBinaryExprNode` (`sema.cc:194`) has a type for them; `p++` moves by eight bytes (run
  `pointers`).
- `BitIsUsed`: as `BitsAreTested`.
- `MixedTypes`: `i + d` is an integer addition of two doubles, because `VisitBinaryExpr` asks the
  type of the left node and not of the widened operands (`codegen.cc:516`); a compound assignment to a
  `char` stores all bytes of the widened result.
- `OtherStep`: `++` and `--` of a `char` or a `double` add an `int` 1.
- `OtherBranches`: the branches of `?:` are not converted to one type.
- `OtherType`: a binary operation has the type of its left operand whatever its value is, so that
  what goes by the type of a node is wrong about `i * d`, `c + c` and `d < d`.
- `NoAddress`: `&f` and `&"ab"` are not loads and stop the generator.
- `"comma"` nodes.

`RejectedInC` (`TypedExec`) lists the legal expressions that Sema rejects: a unary operator on
anything but an `int`, `++` and `--` on an element or a member (`sema.cc:254`: only names and dereferences
are lvalues), `?:` over two kinds of types, `i[a]`, and arrays and functions as pointers. Accepted
although they are not C: `1 = i`, `p * 2`. The sizeof of a string leaves out its end: `sizeof "ab"` is 2.

Constants: `FoldsAsRun` leaves out `sizeof`, which the folder divides by 8: a size of 4 bytes is 0.

Characters:

- `NoFloats`: floating constants (run `floats`).
- `GoesUnnoticed`: what is no token of C and yet none that the lexer reports: digits that run on into
  letters, a newline or an escape that C has not in quotes, `'''`, and a comment that is not
  finished. Everywhere else `ReportsAreErrors` goes both ways: a report is of the first error of
  the text, and where C finds an error behind the tokens read the lexer has reported it.
- `CommentsSpaced`: a comment with anything but a blank behind it. `lexer.cc:341` steps over a
  newline and, after a comment, over whatever follows: in `int/**/x` the x is lost; the search
  for the end of `/*/` begins at its own star.

Initializers:

- `HasForm`: braces left out, braces around a scalar, and a comma behind the last element there
  is are rejected by the parser and legal in C.
- `CommasSet`: commas between elements may be missing.
- `TypesFit`: types are not compared (`sema.cc:363`): a number may be the value of a whole array,
  and a string that of an `int`.
- `HasElements`: `int a[] = {};` is an array without elements; empty braces are an extension of C23 to
  C11, which has none for an array of unknown bound (`parser.cc:686` goes on to the closing brace
  before there is an element, and the bound is set to 0).
- `NotEmpty`: a value that is the only one is stored at the start of the variable, also behind
  empty braces for an earlier element: `int a[2][2] = {{}, {1}};` sets `a[0][0]`.
- `FirstIsLargest`: C initializes the first member of a union, its LLVM type has the largest one.
- `HasConstants`: the constant of a global has none for a `double`, and an `int` 0 for a `char` without a
  value.
- `LocalAsC` claims that elements of a local without a value are left as they were. In C they are zero:
  after `int a[2] = {1};` the code leaves `a[1]` undefined.

Layout: `LayoutsAgree` is about unions as strictly aligned as their largest member, of parts
that agree. The LLVM type of a union is that member alone (`codegen.cc:1638`), so that `union {
union { char a[5]; int b; } c; char d[6]; }` gets five bytes.

A null statement as the body of `if`, `do` or `switch` is kept: the generator calls a null
pointer, which the model shows as `status = "crash"`; the program has then ended and
`RunsAsWritten` claims nothing of it.

Fairness. Only `Terminates` (declarations and expressions) needs any: weak fairness of the next
step. It is what the code gives: one thread, which never waits for another, always goes on to
its next statement (that it cannot go on forever is a theorem of section 4 for both parsers).
That a compiled function never runs on without an evaluation needs no fairness: the mapping of
`RunsAsWritten` is then not defined, and the run would fail.

## 4. Proofs

Every theorem is about the specification that the runs check, for every value of its constants:
what a run bounds (the length of a text, the size of a body or of an expression, the number of
types) is unbounded here. `PROJECT.json` lists the theorems with the properties they state.

### Declarations

`DeclParserProofs` proves, for every alphabet, set of names and length of text:

- `TypeCorrectness`: `Spec => []TypeOK`. The parser never pops the last scope or mode, never
  restores a lexer state that was not saved, and reads no token outside the text.
- `StacksAreBalanced`: `Spec => []StackDiscipline`. Every procedure, on each of its paths,
  leaves the three stacks as high as it found them.
- `SpeculationIsUndone`: `Spec => []SpeculationLeavesNoTrace`.
- `TokenIsTheLexers`: `Spec => []TokenFollowsLexer`.
- `ReadingEnds`: `Spec => StepsDescend`. Every step makes `Remaining`, a natural number, smaller.

The inductive invariant is `IInv == Lexed /\ Scoped /\ ModesOK(modes) /\ Noted /\ Framed`; its
heart is `Core`, about the stack of active procedures: `Follows` (the heights at which a
procedure was called are those of its caller plus what the caller holds), `High` (the top
procedure accounts for the present heights exactly), `Nested` (no procedure was called at a
height below what an outer one holds) and `Remembers` (the scopes marked at the start of a
speculative reading, and the lexer state it saved, are still in place). `ModesOK` adds that only the first mode
is Normal, so that in Normal mode nobody waits to rewind. Balance alone is not inductive: that
an `ExitScope` is legal depends on the pending procedure holding that very scope, and that
nothing is entered into a marked scope depends on the mode, which depends on the frames below.
Each procedure of the parser has one lemma `...Keeps`; the theorem splits `Next` into them. The
assumptions are those of `DeclParser`: names are not punctuation, the alphabet is made of both.

`ReadingEnds` has to pay for rewinds. A declaration at file scope is read by `IsFunctionDecl` and then
for real, a parenthesised declarator twice in each of these readings, and so on inwards: what
there is to do grows by a constant factor with each token (`Work`). `Remaining` is the reading ahead of
the parser (`Ahead`, three times as much while the declaration at hand is still to be read and
read again), one more reading for each lexer state that is saved, from there on (`Owed`), the first
token of `IsFunctionDecl`'s reading (`Verdict`), and, for the steps that take no token, twice the `Rank` of the
pending call and the height of the stack. A rewind is a step down because the state it takes off `saved`
was owed; a return, because it ends in a call of lower rank or after a token. `DInv`, beside
`IInv`, has the rest: who can wait for whom (`Callers`, `Reachable`), so that a return goes to a rank that is
known; that the text ends with its first `eof`, which is never passed (`EndsOnce`); that a saved
state is one before a token; and that the procedures that take a token unseen are entered only in front of
one (`Unseen`). One lemma per procedure, `...Descends`. That the recursive function `Work` exists, for
every text length, is proved by taking the smallest number for which it does not (`Least`).

`ScopingProofs` goes on from there:

- `ExternalsAreInScope`: `Spec => []ExternalsAreDeclared`. What is handed to the generator is
  declared in the root scope, and only a function is handed over twice.
- `ScopesAreLexical`: `Spec => BlockStructured`, the refinement of `LexicalScoping`.

A name reaches the tables in one step of the parser and the tree in another, with suffixes, bodies
and initializers read in between; so the invariant has to say what the procedures between the two
know. `NInv`, beside `IInv`, does: `AllSound` (a file-scope declarator that has entered its name
finds it in the root scope, and no declaration of the tree has it yet), `Answers` (so does the
procedure that a declarator is about to return to), `Chained` (which procedure waits for which,
so that the answer goes to one that asked), `Filed` (what the tree has is in the root scope), and
`Blanks`. One lemma per procedure, `...Moves`, shows at once that its steps keep `NInv` and that
they move the scopes in one of the ways of `ScopesMove`: nothing, one name or tag entered at the
top, one scope opened, or one closed. The refinement then needs the step before and the step
after a look-ahead: while one is open the mapping shows the scopes below its mark, which
`Remembers` says are unchanged, so that such a step is a stutter; the others are steps of
`LexicalScoping`.

### Statements

`StmtParserProofs` proves, for bodies of any size, with any case values and headers, and without
the bound `MayBegin` on the order of statements:

- `JumpsAreInnermost`: `ParserSpec => []TargetsAreInnermost`.
- `ScopesAreBalanced`: `ParserSpec => []ScopesMatch`.

`ParserSpec` is the parser without the generator. The targets say nothing about the next jump, so
the inductive invariant adds what the parser's state is: the statements being parsed form a chain,
each the parent of the next and younger (`Chain`, `Upwards`), and each of the three stacks is the
chain restricted to the kinds it is for (`StacksMatch`). A statement that is made now has exactly
the chain around it (`AroundNew`), whose largest member of a kind is then the top of the stack of
that kind (`JumpNew`); what is around an older statement does not change (`AroundKept`). `Rooted`
says that the outermost open statement is the body, so that only the end of a block can close the
last one. Every procedure is an instance of one of four lemmas: a statement without parts
(`LeafKeeps`), the begin of one with parts (`CompoundKeeps`), its end (`CloseKeeps`), and no
statement at all (`SameKeeps`). Assumed is that there is a name, and that `MaxNodes` is a number,
which the model takes as the place of the declaration at file scope.

`NameResolutionProofs` adds:

- `UsesAreLexical`: `ParserSpec => []NamesAreLexical`. Each use of a name is resolved, while the
  text is read, to the declaration that the finished tree says is meant.

The two sides know different things: the parser has tables that come and go, the property looks at
the whole tree, in which later declarations are visible as candidates too. `NInv` ties them:
`Tables` (the table of each open scope holds exactly the declaration made in it so far), `Nested`
(what is made after an open statement lies in it, so that what is made later is not visible
from a statement that is closed), `Waits` (the condition of an open `do` is not read yet: it is the one
use that comes after younger statements), `Grounded` and `Headed`. A new declaration is
then out of reach of each older use, and a new use finds what the innermost table has.

### Record layout

`RecordLayoutProofs` proves, for all basic types, array sizes, numbers of members and nesting:

- `TypeCorrectness`: `Spec => []TypeOK`, `MembersAreApart`: `Spec => []MembersFit`, and
  `MembersAreAligned`: `Spec => []MembersAligned`.
- `FrontEndAgreesWithLLVM`: `Spec => []LayoutsAgree`, and from it, by induction on the nesting,
  `PlainTypesAgree`: if no union among a type, its parts and theirs is aligned more strictly than its
  largest member, all of them have in memory the sizes, alignments and offsets that Sema counts with.

The inductive invariant is `TypeOK`, `Made` of every type and `Begun`: finished types have these properties
(`Made`), and so has the part of a record laid out so far, whose offset bounds every member
placed (`Begun`). The lemmas on `roundup` rest on alignments being 1, 2, 4 or 8, the values
that the types of the code have, because the largest of several of them is then a multiple of
each. The theorems assume `LeastMembers # 0`: an empty record has alignment 0, and `roundup`
of anything to 0 is 0, which puts a member of that type on top of the first one. The code does
not exclude such records; the hazard is listed.

For the agreement with LLVM it is not enough what holds of a type; `CInv` says which it is. It is
`Composed` for each type (made of older ones, a struct with every member at the next place that is
aligned, sizes counted from the last or the largest member, and some member as strictly aligned as
the whole), and for the record at hand `Reached`, the same of the locals of the loop. LLVM's layout is recursive over
the table of types and over the elements of a struct. That the first recursion is well founded,
because elements are older than their record, is proved by the least type for which no layout
would exist (`LayoutsSoFar`, `IRLayoutUnfolds`); offsets that go on as LLVM's do are LLVM's, by the
least that would not be (`ElementOffsetsAre`). Then each kind of type has its lemma, `...Agrees`.

### Initializers

`InitializersProofs` proves, for all types, texts and strings:

- `ValuesInOrder`: `Spec => []PlacesInOrder`. The values of an initializer are listed in the order
  of their places, so that no place has two.
- `ValuesHavePlaces`: `Spec => []PlacesMatch`. Each value has a place that the variable has, and
  the type of the element there.

The inductive invariant of the first is `IInv == TypeOK /\ Called /\ AllPassed /\ PlacesInOrder`. The order is
kept because every value listed lies before the place that is being read, or inside it once that
place has been read (`AllPassed`), and `offsetList` only moves on. That its pushes and pops balance
is in `TypeOK`: it has the indices of the lists that are open (`Places`). It moves on: a brace goes into the place, a
comma on to its neighbour, the end of a list back to what is around it. `Called` says that
an initializer is read only for an element that there is, which gives it a type. The second adds
`Lists` (each list being read is for an element of the type of the list around it, and none but the
outermost for an array of unknown bound) and `Listed` (from the declared type there is a way to
each value's type along its offsets). The bound of an array of unknown bound is set when all
values are there: that it is above each first offset follows from the order, which makes the last
value the one with the largest. The types along a place are a recursive function of its length;
the induction is done by hand, with the way that `Listed` gives as the witness and a least
counterexample. The assumptions are that only the variable itself may be an array of unknown
bound, that the types of parts are types of the instance, and that a string is a sequence of numbers.

### Expressions

`ExprParserProofs` proves, for texts of any length:

- `DescentEnds`: `Spec => StepsDescend`. Every step of the descent makes `Remaining`, a natural
  number, smaller.
- `TypeCorrectness`: `Spec => []IInv`.

`Remaining` is 100 for each token that is not read yet, 2 for each call on the stack and the
`Stage` of the last call: a call that has done nothing yet can only call the procedures below its
own (3 for each of them), one with two operands of a binary level makes a tree of them first. So a
text of n tokens takes at most about 100(n+1) steps, whatever is in it. The steps are what `[Next]_vars` does, so that a stutter
is not counted. The measure alone proves nothing: a return shortens the stack by 2 but its caller's
stage may rise, which is paid for only because a call that returns has read something; and
reading is progress only while the token is within the text. `IInv` says so: `at` is a position of
the text or the one behind it, and each call is at a point where its procedure goes on when its
callee has returned (`GoesOn`, from the number of operands and the operator it has). Hence also no
call is stuck. The assumption is that a text is a sequence of strings.

`ExprSemaProofs` proves, for any variables, literals and types, and for trees of any size and shape:

- `GeneratorCastsHold`: `Spec => []OperandsFit`. The generator casts the type of an operand to the one
  it expects and looks up member and parameters without a check; that no null pointer comes of
  it depends on Sema alone.
- `TypeCorrectness`: `Spec => []TypeOK`.

Each handler looks only at its operands, so nodes are kept (`BuildKeeps`) and the new one is
judged from its operands (`Operands`); for `++` and `--` this needs `Stepping` of every operand: that
only names and dereferences are lvalues, through all handlers that copy types and build nodes. The
sequence of nodes must be one of known length, so that the arguments of a call are as many
as were counted. There are no assumptions: `MayHave`, the bound of the runs, may be anything.

### Model-checked only

- `ReadingsAgree`, `VerdictAgrees`: they compare a reading with an earlier one of the same text. An invariant
  would have to give, for each point of the second reading, what the first did there: a history of
  it, or a function of the text by recursion over its grammar, which is induction over data.
- `Terminates` (liveness; `ReadingEnds` and `DescentEnds` prove that no execution has infinitely many steps, what
  is left is that `Next` is ENABLED while the parser runs).
- What `StmtExec` and `ExprExec` say of the code that is made: the generator and the meaning of
  statements and of expressions are recursive over trees.
- Everything about `Lexer`: its references read texts recursively, and even its types rest on how long strings of
  characters are and on powers of 2, of which the provers know nothing.
- What `TypedExec` and `InitExec` add to the theorems above: the references they compare with, the
  generator and the folder are recursive over texts, trees and types.

## 5. Not modelled

- Values of unsigned types, `short`, `float` and `long`; functions with variable arguments beyond what
  Sema checks; calls through pointers to functions. `short` and the unsigned types have the kinds
  `TY_Int` and `TY_Char` (`type.cc:10-23`) and so go through the places of `int` and `char`, with another
  width; for that reason the folder casts to a `short` as to an `int` (`eval_constant.cc:228`). `float`
  has cases of its own beside those of `double`. `long` and `unsigned long` have none:
  `VisitPrimaryType` (`codegen.cc:1586-1606`) stops in `assert(0)`, so that a variable, parameter
  or conversion of that type has no code, only a literal has (`codegen.cc:1131`).
- Calls between the functions of a program and the list of globals: the statement and expression
  models have one function, and a call yields what `Returns` says.
- Escapes and digits of the other alphabets in the lexer's instance: each has the same code as one
  that is there.
- Arrays of unknown bound outside initializers, which have count -1 and a negative size.
- LLVM struct types are looked up by name, so that records with one tag in different scopes
  share a type; `RecordLayout` has no names.
- Printing, the command line, reading the file, MCJIT.

Behaviour of the code that the models keep and about which no run claims anything, because no
text of the repository promises otherwise: an anonymous record is registered under its `{`, so
that two of them in one scope are redefinitions; the parameters of a declarator that is not a
function definition are entered into the scope that is open; a typedef of function type may
clash with a function; a definition after a prototype is entered without its body, so that a second one
is accepted (`int f(); int f() {} int f() {}`), and as the body is noted in the type, one body is two
where the type is a typedef's (`typedef int F(int); F f; F f {}` is a redefinition); in Skip mode an unknown name is not reported and its null
symbol is dereferenced (`int a = a;` at file scope); a second default inside the first one's part
is accepted; a case label with `&&`, `||`, `?:` or a comma is folded by the parser (`parser.cc:988`) and fails an
assertion of the generator (`codegen.cc:397`); missing
commas between arguments are accepted; any conditional expression may stand left of `=`, and the
operand of a unary operator is unary, so that `-(int)x` is rejected, both as `doc/ebnf.txt` has it.

## 6. Plan

Done, in this order: symbol tables and declarations, statements, record layout, expressions,
characters, typed expressions with constants, and initializers; then the proofs of section 4. Next:

1. `ReadingsAgree` as a theorem: a history variable with what the first reading of a declarator
   took, and an invariant that the second one is at the same place of the same procedure.
2. Records by name: `DeclParser`'s tags with `RecordLayout`'s types and the table of LLVM structs.
3. The parameters of declarators that are not definitions, in a run of their own that compares
   the scope they are entered in with that of C.
