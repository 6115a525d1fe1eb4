------------------------------ MODULE Keywords ------------------------------
(***************************************************************************)
(* The keyword expressions of shops (evaluate_expression in shop.c): a     *)
(* parser with a stack of operators and a stack of values, one turn of its *)
(* loops being a step.  Blanks are left out, and whether an object has a   *)
(* name or an extra flag is one question.                                  *)
(***************************************************************************)
EXTENDS Integers, Sequences, SequencesExt

CONSTANTS
  KeywordNames,  \* names that an object may have, and extra flags
  Expressions    \* the trees of the expressions that are tried

VARIABLES
  expr,          \* the tree that the expression was written from
  names,         \* the names and flags of the object
  tokens,        \* what is left to read of the expression
  ops, vals,     \* the two stacks, their tops last
  verdict        \* "none" until evaluate_expression returns

keywordVars == <<expr, names, tokens, ops, vals, verdict>>

NOTHING == -1
OPER_OPEN_PAREN == 0
OPER_CLOSE_PAREN == 1
OPER_OR == 2
OPER_AND == 3
OPER_NOT == 4

\* A tree, of which a name is also a token; the other tokens are signs.
Name(n) == [op |-> NOTHING, name |-> n]
Not(e)  == [op |-> OPER_NOT, arg |-> e]
Sign(op) == [op |-> op]
Both(op, e, f) == [op |-> op, left |-> e, right |-> f]

\* How a builder writes an expression: parentheses where precedence asks for them.
RECURSIVE AsTyped(_)
Enclosed(e, op) ==
  IF e.op # NOTHING /\ e.op < op
  THEN <<Sign(OPER_OPEN_PAREN)>> \o AsTyped(e) \o <<Sign(OPER_CLOSE_PAREN)>> ELSE AsTyped(e)
AsTyped(e) ==
  CASE e.op = NOTHING  -> <<e>>
    [] e.op = OPER_NOT -> <<Sign(OPER_NOT)>> \o Enclosed(e.arg, OPER_NOT)
    [] OTHER -> Enclosed(e.left, e.op) \o <<Sign(e.op)>> \o Enclosed(e.right, e.op)

\* What it means (building.tex, "Item Name Lists for v3 Shops").
RECURSIVE Means(_)
Means(e) ==
  CASE e.op = NOTHING  -> e.name \in names
    [] e.op = OPER_NOT -> ~Means(e.arg)
    [] e.op = OPER_AND -> Means(e.left) /\ Means(e.right)
    [] OTHER -> Means(e.left) \/ Means(e.right)

KeywordsInit ==
  /\ expr \in Expressions /\ names \in SUBSET KeywordNames
  /\ tokens = AsTyped(expr) /\ ops = <<>> /\ vals = <<>> /\ verdict = "none"

-----------------------------------------------------------------------------
top(stack) == IF stack = <<>> THEN NOTHING ELSE Last(stack)
\* pop of an empty stack gives 0: the open parenthesis, or false.
PoppedOp  == IF ops = <<>> THEN OPER_OPEN_PAREN ELSE Last(ops)
Popped(v) == IF v = <<>> THEN FALSE ELSE Last(v)
Rest(stack) == IF stack = <<>> THEN <<>> ELSE Front(stack)

\* pop(vals) && pop(vals): the second operand stays on the stack when the first
\* that is popped decides the result.
Decided(op, a) == (op = OPER_AND /\ ~a) \/ (op = OPER_OR /\ a)

evaluate_operation ==
  LET a == Popped(vals)
      v == Rest(vals)
  IN /\ ops' = Rest(ops)
     /\ vals' = CASE PoppedOp = OPER_NOT -> Append(v, ~a)
                  [] PoppedOp \in {OPER_AND, OPER_OR} /\ Decided(PoppedOp, a) -> Append(v, a)
                  [] PoppedOp \in {OPER_AND, OPER_OR} /\ ~Decided(PoppedOp, a) -> Append(Rest(v), Popped(v))
                  [] OTHER -> vals
     /\ UNCHANGED <<tokens, verdict>>

IsName(t) == t.op = NOTHING
Expression == IsName(Head(AsTyped(expr)))
Reading == verdict = "none" /\ tokens # <<>> /\ Expression

\* An expression that does not begin with a letter is no expression.
NoExpression ==
  /\ verdict = "none" /\ ~Expression
  /\ verdict' = "accept" /\ UNCHANGED <<tokens, ops, vals>>

ReadName ==
  /\ Reading /\ IsName(Head(tokens))
  /\ vals' = Append(vals, Head(tokens).name \in names) /\ tokens' = Tail(tokens)
  /\ UNCHANGED <<ops, verdict>>

\* "while (top(&ops) > temp)", then the operator itself.
ReadOperator ==
  LET t == Head(tokens).op
  IN /\ Reading /\ t # NOTHING
     /\ \/ t # OPER_OPEN_PAREN /\ top(ops) > t /\ evaluate_operation
        \/ /\ t = OPER_CLOSE_PAREN /\ top(ops) <= t
           /\ ops' = Rest(ops) /\ tokens' = Tail(tokens)
           /\ verdict' = IF PoppedOp = OPER_OPEN_PAREN THEN "none" ELSE "refuse"
           /\ UNCHANGED vals
        \/ /\ t # OPER_CLOSE_PAREN /\ (t = OPER_OPEN_PAREN \/ top(ops) <= t)
           /\ ops' = Append(ops, t) /\ tokens' = Tail(tokens)
           /\ UNCHANGED <<vals, verdict>>

\* At the end the operators that are left, and "extra operands left".
EndExpression ==
  /\ verdict = "none" /\ tokens = <<>>
  /\ \/ ops # <<>> /\ evaluate_operation
     \/ /\ ops = <<>>
        /\ verdict' = IF Popped(vals) /\ Len(vals) = 1 THEN "accept" ELSE "refuse"
        /\ UNCHANGED <<tokens, ops, vals>>

KeywordsNext ==
  /\ UNCHANGED <<expr, names>>
  /\ NoExpression \/ ReadName \/ ReadOperator \/ EndExpression
KeywordsSpec == KeywordsInit /\ [][KeywordsNext]_keywordVars

-----------------------------------------------------------------------------
KeywordsTypeOK ==
  /\ names \subseteq KeywordNames /\ vals \in Seq(BOOLEAN)
  /\ ops \in Seq(OPER_OPEN_PAREN..OPER_NOT) /\ verdict \in {"none", "accept", "refuse"}

\* An expression that begins with a name is evaluated as it is documented to be,
\* unless an operation was decided by its right operand: then its left one is
\* still on the stack at the end and the object is refused, whatever the
\* keywords mean (evaluate_operation, shop.c 224-234, 296-302).
KeywordsExact ==
  verdict # "none" /\ Expression =>
    IF Len(vals) = 1 THEN verdict = "accept" <=> Means(expr) ELSE verdict = "refuse"
=============================================================================
