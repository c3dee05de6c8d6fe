--------------------------- MODULE MCQueryPlanner ---------------------------
(* Small instances of QueryPlanner: addresses and times of 4 bits, ports   *)
(* of 2 bits.                                                              *)
EXTENDS QueryPlanner

Num(n) == [kind |-> "number", n |-> n]
Ago(n) == [kind |-> "now", n |-> n]
Prefix(n, b) == [kind |-> "prefix", n |-> n, prefix |-> b]

P == PredicateLexeme("src_ip", "==", Num(5))
Q == PredicateLexeme("src_port", "<", Num(2))

\* Every sequence of up to MaxSyntax lexemes over two predicates, and shorter ones
\* with what is no expression.
Syntax == {Symbol(x) : x \in {"||", "&&", "!", "(", ")"}} \cup {P, Q}
Junk == {Symbol(x) : x \in {"operand", "operator", "invalid", "||", "!", "("}} \cup {P}
\* These three together would be a predicate.
Spelt == <<Symbol("operand"), Symbol("operator"), Symbol("operand")>>
SyntaxInputs(n) ==
  UNION {[1..m -> Syntax] : m \in 1..n} \cup (UNION {[1..m -> Junk] : m \in 1..3} \ {Spelt})

Meant ==
  {P, Q, PredicateLexeme("src_ip", "in", Prefix(5, 2)), PredicateLexeme("src_port", ">=", Num(1)),
   PredicateLexeme("src_port", "==", Num(3)), PredicateLexeme("timestamp", ">", Num(1)),
   PredicateLexeme("timestamp", "<=", Ago(1)), PredicateLexeme("dst_ip", "==", Num(5)),
   PredicateLexeme("dst_port", ">", Num(0))}
Edges ==
  {PredicateLexeme("src_port", "<", Num(0)), PredicateLexeme("src_port", ">", Num(3)),
   PredicateLexeme("src_port", "!=", Num(1)), PredicateLexeme("dst_ip", "!in", Prefix(5, 1)),
   PredicateLexeme("timestamp", ">=", Ago(0)), PredicateLexeme("timestamp", ">", Num(3)), PredicateLexeme("timestamp", "<", Num(0)),
   PredicateLexeme("src_ip", "<", Num(5)), PredicateLexeme("src_port", "in", Num(1)),
   PredicateLexeme("timestamp", ">", [kind |-> "bad", n |-> 0]),
   PredicateLexeme("length", "==", Num(1)), PredicateLexeme("src_ip", "in", Num(5))}

And == Symbol("&&")
Or == Symbol("||")
Few == {P, Q, PredicateLexeme("src_port", ">=", Num(1)), PredicateLexeme("timestamp", "<=", Ago(1))}
DnfInputs ==
  {<<a>> : a \in Meant \cup Edges} \cup
  {<<a, And, b>> : a \in Meant \cup Edges, b \in Meant} \cup
  {<<a, And, b, And, c>> : a, b \in Few, c \in Meant} \cup
  {<<a, And, b, Or, c, And, d>> : a, b, c \in Few, d \in Meant}

\* Negated parentheses, twice, with operators inside and after them.
Outer(w) == <<Symbol("!"), Symbol("(")>> \o w \o <<Symbol(")")>>
Inner == {<<a, o, b>> : a \in {P, Q}, o \in {And, Or}, b \in Few}
NestedInputs ==
  {Outer(w) : w \in Inner} \cup {Outer(Outer(w) \o <<o, P>>) : w \in Inner, o \in {And, Or}} \cup
  {Outer(w) \o <<o, a>> : w \in Inner, o \in {And, Or}, a \in Few}

MCInputs == SyntaxInputs(5) \cup DnfInputs \cup NestedInputs

PrefixInputs == {<<PredicateLexeme("src_ip", "in", Prefix(n, b))>> : n \in {0, 5}, b \in 0..4}

\* Every combination of the fields arrives at each of three times.
MCStored ==
  [i \in 1..108 |->
     LET n == i - 1
     IN  [src_ip |-> <<4, 5, 8>>[1 + (n % 3)], src_port |-> <<0, 1, 3>>[1 + ((n \div 3) % 3)],
          dst_ip |-> 5 + ((n \div 9) % 2), dst_port |-> 1, tcp |-> (n \div 18) % 2 = 0,
          timestamp |-> 1 + (n \div 36)]]

=============================================================================
