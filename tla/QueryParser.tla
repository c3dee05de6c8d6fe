----------------------------- MODULE QueryParser -----------------------------
(***************************************************************************)
(* netplayd/include/query_parser.h and expression.h: the recursive descent *)
(* parser of filter expressions.  The lexer is seen from its tokens: what  *)
(* matters of it is where its stream stands, that put_back() undoes        *)
(* next_token(), and that a token which looks one character ahead leaves   *)
(* the stream failed when there is none: from then on only END is read,    *)
(* and nothing can be put back.                                            *)
(*                                                                         *)
(* An input is a sequence of lexemes: symbols, and predicates, which stand *)
(* for their three tokens.  Each parse counts the expression nodes it has  *)
(* allocated and not deleted.                                              *)
(***************************************************************************)
EXTENDS Integers, Sequences, FiniteSets, SequencesExt

-----------------------------------------------------------------------------
(* Lexer                                                                   *)

Symbol(x) == [sym |-> x]
PredicateLexeme(a, o, v) == [sym |-> "predicate", attr |-> a, op |-> o, value |-> v]

\* The tokens of a lexeme; "invalid" is one that next_token throws at.
Tokens(x) ==
  CASE x.sym = "||" -> <<[id |-> "OR"]>>
    [] x.sym = "&&" -> <<[id |-> "AND"]>>
    [] x.sym = "!" -> <<[id |-> "NOT"]>>
    [] x.sym = "(" -> <<[id |-> "LEFT"]>>
    [] x.sym = ")" -> <<[id |-> "RIGHT"]>>
    [] x.sym = "operand" -> <<[id |-> "OPERAND", value |-> "operand"]>>
    [] x.sym = "operator" -> <<[id |-> "OPERATOR", value |-> "<"]>>
    [] x.sym = "invalid" -> <<[id |-> "INVALID"]>>
    [] x.sym = "predicate" ->
         <<[id |-> "OPERAND", value |-> x.attr], [id |-> "OPERATOR", value |-> x.op],
           [id |-> "OPERAND", value |-> x.value]>>

Stream(input) == FlattenSeq([i \in 1..Len(input) |-> Tokens(input[i])])

\* "!" may begin "!=" or "!in", and "<" may begin "<=".
LooksAhead(tok) == tok.id = "NOT" \/ (tok.id = "OPERATOR" /\ tok.value \in {"<", ">"})

Start == [pos |-> 1, failed |-> FALSE]

\* next_token(): the token and the stream after it.
next_token(s, lx) ==
  IF lx.failed \/ lx.pos > Len(s) THEN [tok |-> [id |-> "END"], lx |-> lx]
  ELSE [tok |-> s[lx.pos],
        lx |-> [pos |-> lx.pos + 1, failed |-> lx.pos = Len(s) /\ LooksAhead(s[lx.pos])]]

\* peek_token(): put_back() returns to where the token began, unless it failed.
peek_token(s, lx) ==
  LET t == next_token(s, lx)
  IN  [tok |-> t.tok, lx |-> IF t.lx.failed THEN t.lx ELSE lx]

-----------------------------------------------------------------------------
(* Expressions                                                             *)

Predicate(a, o, v) == [type |-> "PREDICATE", attr |-> a, op |-> o, value |-> v]

Node(type, children) == [type |-> type, children |-> children]

RECURSIVE free_expression(_)
\* free_expression: the number of nodes it deletes.
free_expression(e) ==
  IF e.type = "PREDICATE" THEN 1
  ELSE 1 + FoldLeft(LAMBDA n, c : n + free_expression(c), 0, e.children)

\* negate(op).
negate_op(op) ==
  CASE op = "==" -> "!="
    [] op = "!=" -> "=="
    [] op = "<"  -> ">="
    [] op = ">"  -> "<="
    [] op = "<=" -> ">"
    [] op = ">=" -> "<"
    [] op = "in" -> "!in"
    [] op = "!in" -> "in"

RECURSIVE negate_shallow(_)
\* Mutant: a conjunction is negated without being turned into a disjunction.
negate_shallow(e) ==
  IF e.type = "PREDICATE" THEN [exp |-> [e EXCEPT !.op = negate_op(@)], n |-> 0]
  ELSE [exp |-> Node(e.type, [i \in 1..Len(e.children) |-> negate_shallow(e.children[i]).exp]),
        n |-> 0]

RECURSIVE negate_leaking(_)
\* Mutant: the node that is replaced is not deleted.
negate_leaking(e) ==
  IF e.type = "PREDICATE" THEN [exp |-> [e EXCEPT !.op = negate_op(@)], n |-> 0]
  ELSE LET cs == [i \in 1..Len(e.children) |-> negate_leaking(e.children[i])]
       IN  [exp |-> Node(IF e.type = "AND" THEN "OR" ELSE "AND", [i \in DOMAIN cs |-> cs[i].exp]),
            n |-> FoldLeft(LAMBDA n, c : n + c.n, 1, cs)]

RECURSIVE negate(_)
\* negate(exp): De Morgan down to the predicates, whose operator is negated.  A
\* node is replaced by one of the other kind, allocated and deleted here; n is
\* by how much the nodes allocated grow.  The parser makes no NOT nodes.
negate(e) ==
  IF e.type = "PREDICATE" THEN [exp |-> [e EXCEPT !.op = negate_op(@)], n |-> 0]
  ELSE LET cs == [i \in 1..Len(e.children) |-> negate(e.children[i])]
       IN  [exp |-> Node(IF e.type = "AND" THEN "OR" ELSE "AND", [i \in DOMAIN cs |-> cs[i].exp]),
            n |-> FoldLeft(LAMBDA n, c : n + c.n, 1 - 1, cs)]

-----------------------------------------------------------------------------
(* Parser                                                                  *)

\* What a parsing function returns: an expression and the stream after it, or the
\* exception it throws; in both cases the nodes allocated.
Parsed(e, lx, n) == [ok |-> TRUE, exp |-> e, lx |-> lx, n |-> n]
Thrown(n) == [ok |-> FALSE, exp |-> "none", lx |-> Start, n |-> n]

RECURSIVE chain(_, _, _), more(_, _, _), factor(_, _)

\* exp() and term(), which differ in the separator and in what they call: a list
\* of operands, as a node of its own only if there are several.
Below(sep, s, lx) == IF sep = "OR" THEN chain("AND", s, lx) ELSE factor(s, lx)

chain(sep, s, lx) ==
  LET t == Below(sep, s, lx)
      pk == peek_token(s, t.lx)
  IN  IF ~t.ok \/ pk.tok.id = "INVALID" THEN Thrown(t.n)
      ELSE IF pk.tok.id # sep THEN Parsed(t.exp, pk.lx, t.n)
      ELSE more(sep, s, Parsed(Node(sep, <<t.exp>>), pk.lx, t.n + 1))

more(sep, s, r) ==
  LET pk == peek_token(s, r.lx)
      t == Below(sep, s, next_token(s, pk.lx).lx)
  IN  IF pk.tok.id = "INVALID" THEN Thrown(r.n)
      ELSE IF pk.tok.id # sep THEN Parsed(r.exp, pk.lx, r.n)
      ELSE IF ~t.ok THEN Thrown(r.n + t.n)
      ELSE more(sep, s, Parsed(Node(sep, Append(r.exp.children, t.exp)), t.lx, r.n + t.n))

factor(s, lx) ==
  LET tok == next_token(s, lx)
  IN  CASE tok.tok.id = "NOT" ->
             LET f == factor(s, tok.lx)
                 g == negate(f.exp)
             IN  IF f.ok THEN Parsed(g.exp, f.lx, f.n + g.n) ELSE f
        [] tok.tok.id = "LEFT" ->
             LET e == chain("OR", s, tok.lx)
                 right == next_token(s, e.lx)
             IN  IF e.ok /\ right.tok.id = "RIGHT" THEN Parsed(e.exp, right.lx, e.n)
                 ELSE Thrown(e.n)
        [] tok.tok.id = "OPERAND" ->
             LET op == next_token(s, tok.lx)
                 operand == next_token(s, op.lx)
             IN  IF op.tok.id = "OPERATOR" /\ operand.tok.id = "OPERAND"
                   THEN Parsed(Predicate(tok.tok.value, op.tok.value, operand.tok.value), operand.lx, 1)
                   ELSE Thrown(1)
        [] OTHER -> Thrown(0)

\* parse(): the whole input must be used up.
parse(input) ==
  LET s == Stream(input)
      e == chain("OR", s, Start)
  IN  IF e.ok /\ next_token(s, e.lx).tok.id = "END" THEN e ELSE Thrown(e.n)

-----------------------------------------------------------------------------
(* Reference: the grammar at the head of query_parser.h, as a relation     *)

\* The value of an expression, given the predicates that hold.
RECURSIVE Value(_, _)
Value(e, holds) ==
  CASE e.type = "PREDICATE" -> PredicateLexeme(e.attr, e.op, e.value) \in holds
    [] e.type = "AND" -> \A i \in 1..Len(e.children) : Value(e.children[i], holds)
    [] e.type = "OR" -> \E i \in 1..Len(e.children) : Value(e.children[i], holds)

\* The ways a set of predicates may hold or not: of a predicate and the one with
\* the opposite operator, exactly one does.
Opposite(p) ==
  LET pairs == {<<"==", "!=">>, <<"<", ">=">>, <<">", "<=">>, <<"in", "!in">>}
  IN  [p EXCEPT !.op = CHOOSE o \in {"==", "!=", "<", ">", "<=", ">=", "in", "!in"} :
                         <<o, p.op>> \in pairs \/ <<p.op, o>> \in pairs]
Valuations(ps) ==
  {h \in SUBSET (ps \cup {Opposite(p) : p \in ps}) :
     \A p \in ps : p \in h <=> Opposite(p) \notin h}

Left(w, i) == SubSeq(w, 1, i - 1)
Right(w, i) == SubSeq(w, i + 1, Len(w))

RECURSIVE ExpValues(_, _), TermValues(_, _), FactorValues(_, _)

\* <expression>::=<term>{'||'<term>}: the values the grammar gives a sequence of
\* lexemes, none if it does not derive it.
ExpValues(w, holds) ==
  TermValues(w, holds) \cup
  UNION {{a \/ b : a \in ExpValues(Left(w, i), holds), b \in TermValues(Right(w, i), holds)} :
           i \in {j \in 1..Len(w) : w[j].sym = "||"}}

TermValues(w, holds) ==
  FactorValues(w, holds) \cup
  UNION {{a /\ b : a \in TermValues(Left(w, i), holds), b \in FactorValues(Right(w, i), holds)} :
           i \in {j \in 1..Len(w) : w[j].sym = "&&"}}

FactorValues(w, holds) ==
  IF w = <<>> THEN {}
  ELSE IF w[1].sym = "!" THEN {~v : v \in FactorValues(Tail(w), holds)}
  ELSE IF w[1].sym = "(" /\ Last(w).sym = ")" /\ Len(w) > 2
    THEN ExpValues(SubSeq(w, 2, Len(w) - 1), holds)
  ELSE IF Len(w) = 1 /\ w[1].sym = "predicate" THEN {w[1] \in holds}
  ELSE {}

=============================================================================
