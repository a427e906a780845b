----------------------------- MODULE ScimFilter -----------------------------
(***************************************************************************)
(* SCIM filters, from tokens to the condition of a query: the parser       *)
(* (src/internal/scim/parser/filter.go) and the translation to SQL         *)
(* (scim/users/filter.go; scim/groups/filter.go has other attributes).     *)
(*                                                                         *)
(* A filter is given token by token, as long as the parser would read on:  *)
(* it is a list of what the lexer makes of the text.                       *)
(***************************************************************************)
EXTENDS Integers, Sequences, Functions

CONSTANTS
  Ident,        \* identifiers
  Supported,    \* attribute paths, of one or two identifiers, that have a column
  StringAttr,   \* those of them whose column is a string
  Literal,      \* literal values
  StringLiteral,\* those of them that are strings
  CompareOp,    \* eq and ne, or some of them
  PatternOp,    \* co, sw and ew, or some of them
  MaxTokens     \* the length of a filter: a bound of the model

ASSUME FilterAssumption ==
  /\ Supported \subseteq {<<a>> : a \in Ident} \cup (Ident \X Ident)
  /\ StringAttr \subseteq Supported
  /\ StringLiteral \subseteq Literal
  /\ CompareOp \subseteq {"eq", "ne"} /\ PatternOp \subseteq {"co", "sw", "ew"}
  /\ MaxTokens \in Nat

VARIABLE tokens
filterVars == <<tokens>>

Tok(kind, v) == [kind |-> kind, v |-> v]
Token == {Tok("ident", a) : a \in Ident} \cup {Tok("value", c) : c \in Literal}
           \cup {Tok("op", o) : o \in CompareOp \cup PatternOp}
           \cup {Tok(k, "") : k \in {"(", ")", ".", "pr", "and", "or"}}
EOF == "eof"
KindAt(s, i) == IF i \in DOMAIN s THEN s[i].kind ELSE EOF

(***************************************************************************)
(* A syntax tree is written as the list of its nodes, the operands of a    *)
(* node before it: LogicExpr is its two operands and the operator.         *)
(***************************************************************************)
AtomNode(attr, op, val) == [node |-> "atom", attr |-> attr, op |-> op, val |-> val]
Atom(attr, op, val) == <<AtomNode(attr, op, val)>>
Logic(op, left, right) == left \o right \o <<[node |-> op]>>

\* What a parse function returns: the tree and the position it stopped at.
Parsed(e, i) == [ok |-> TRUE, expr |-> e, pos |-> i]
ErrorAt(i) == [ok |-> FALSE, pos |-> i]
-----------------------------------------------------------------------------
ParseOperator(s, attr, i) ==
  CASE KindAt(s, i) = "pr" -> Parsed(Atom(attr, "pr", ""), i + 1)
    [] KindAt(s, i) = "op" -> IF KindAt(s, i + 1) = "value"
                              THEN Parsed(Atom(attr, s[i].v, s[i + 1].v), i + 2)
                              ELSE ErrorAt(i + 1)
    [] OTHER -> ErrorAt(i)

ParseComparison(s, i) ==
  CASE KindAt(s, i) # "ident" -> ErrorAt(i)
    [] KindAt(s, i) = "ident" /\ KindAt(s, i + 1) # "." -> ParseOperator(s, <<s[i].v>>, i + 1)
    [] OTHER -> IF KindAt(s, i + 2) = "ident" THEN ParseOperator(s, <<s[i].v, s[i + 2].v>>, i + 3)
                                              ELSE ErrorAt(i + 2)

(***************************************************************************)
(* The parse functions call each other from every position and, through    *)
(* parseAtom, one level of parentheses deeper: inner is what parseOr       *)
(* returns from each position there, operands what the operand of a loop   *)
(* does.  The two loops differ in their operator.                          *)
(***************************************************************************)
Position(s) == 1..(Len(s) + 1)

ParseAtom(s, inner, i) ==
  IF KindAt(s, i) # "(" THEN ParseComparison(s, i)
  ELSE LET e == inner[i + 1] IN
       IF ~e.ok THEN e
       ELSE IF KindAt(s, e.pos) = ")" THEN Parsed(e.expr, e.pos + 1) ELSE ErrorAt(e.pos)

\* One turn of a loop; there are fewer than tokens.
Extended(s, op, operands, left) ==
  IF ~left.ok \/ KindAt(s, left.pos) # op THEN left
  ELSE LET right == operands[left.pos + 1] IN
       IF right.ok THEN Parsed(Logic(op, left.expr, right.expr), right.pos) ELSE right

Loop(s, op, operands, i) ==
  LET left[k \in 0..Len(s)] ==
        IF k = 0 THEN operands[i] ELSE Extended(s, op, operands, left[k - 1])
  IN left[Len(s)]

ParseAtoms(s, inner) == [i \in Position(s) |-> ParseAtom(s, inner, i)]
ParseAnd(s, inner) == [i \in Position(s) |-> Loop(s, "and", ParseAtoms(s, inner), i)]
ParseOr(s, inner) == [i \in Position(s) |-> Loop(s, "or", ParseAnd(s, inner), i)]

\* No filter has more levels of parentheses than tokens.
ParseNested(s) ==
  LET level[d \in 0..Len(s)] ==
        IF d = 0 THEN [i \in Position(s) |-> ErrorAt(i)] ELSE ParseOr(s, level[d - 1])
  IN level[Len(s)]

\* Mutant: what follows the expression is not looked at.
ParsePrefix(s) == ParseNested(s)[1]

Parse(s) ==
  LET r == ParseNested(s)[1] IN
  IF r.ok /\ KindAt(s, r.pos) # EOF THEN ErrorAt(r.pos) ELSE r
-----------------------------------------------------------------------------
(***************************************************************************)
(* FilterToSQL: a text, here a list of tokens again, and the arguments     *)
(* that its placeholders stand for.  A column is written like its          *)
(* attribute, an operator like that of the filter (ILIKE and its pattern   *)
(* are one with co, sw or ew and the value).                               *)
(***************************************************************************)
Translatable(a) ==
  /\ a.attr \in Supported
  /\ a.op \in PatternOp => a.attr \in StringAttr /\ a.val \in StringLiteral

Column(attr) ==
  IF Len(attr) = 1 THEN <<Tok("ident", attr[1])>>
  ELSE <<Tok("ident", attr[1]), Tok(".", ""), Tok("ident", attr[2])>>
Placeholder(n) == Tok("$", n)

\* Mutant: no parentheses around the two sides.
SidesBare(left, op, right) == left \o <<Tok(op, "")>> \o right

Sides(left, op, right) == <<Tok("(", "")>> \o left \o <<Tok(op, "")>> \o right \o <<Tok(")", "")>>

\* The builder: whether it failed, its args, and the conditions that calls
\* of build have returned and their callers have not yet put together.
BuildAtom(b, a) ==
  IF ~Translatable(a) THEN [b EXCEPT !.ok = FALSE]
  ELSE IF a.op = "pr" THEN [b EXCEPT !.sqls = Append(@, Column(a.attr) \o <<Tok("pr", "")>>)]
  ELSE [b EXCEPT !.args = Append(@, a.val),
                 !.sqls = Append(@, Column(a.attr)
                                      \o <<Tok("op", a.op), Placeholder(Len(b.args) + 1)>>)]

BuildLogic(b, op) ==
  LET k == Len(b.sqls) IN
  IF k < 2 THEN [b EXCEPT !.ok = FALSE]
  ELSE [b EXCEPT !.sqls = Append(SubSeq(@, 1, k - 2), Sides(@[k - 1], op, @[k]))]

\* A call of build returns.
Build(b, n) ==
  IF ~b.ok THEN b ELSE IF n.node = "atom" THEN BuildAtom(b, n) ELSE BuildLogic(b, n.node)

FilterToSQL(e) ==
  LET built[k \in 0..Len(e)] ==
        IF k = 0 THEN [ok |-> TRUE, args |-> <<>>, sqls |-> <<>>] ELSE Build(built[k - 1], e[k])
  IN built[Len(e)]

(***************************************************************************)
(* List puts the condition behind that of its own query, whose argument,   *)
(* the provider, comes first.                                              *)
(***************************************************************************)
OfProvider == Atom(<<"provider">>, "eq", "caller")

\* Mutant: the placeholders stay as they are.
ShiftPlaceholdersNone(sql, delta) == sql

ShiftPlaceholders(sql, delta) ==
  [i \in DOMAIN sql |-> IF sql[i].kind = "$" THEN Placeholder(sql[i].v + delta) ELSE sql[i]]

List(b) ==
  [args |-> <<"caller">> \o b.args,
   sql |-> <<Tok("ident", "provider"), Tok("op", "eq"), Placeholder(1), Tok("and", "")>>
             \o ShiftPlaceholders(b.sqls[1], 1)]

\* The condition with its arguments in place.
Bound(sql, args) ==
  [i \in DOMAIN sql |-> IF sql[i].kind = "$" THEN Tok("value", args[sql[i].v]) ELSE sql[i]]
-----------------------------------------------------------------------------
(***************************************************************************)
(* The grammar (the comment of package parser), for a filter and for a     *)
(* condition of SQL alike.  A phrase is a part of the list, from one       *)
(* position up to another, and what it may be read as.                     *)
(***************************************************************************)
Phrase(i, j, e) == [from |-> i, to |-> j, expr |-> e]

AttrPaths(s) ==
  {Phrase(i, i + 1, <<s[i].v>>) : i \in {i \in DOMAIN s : s[i].kind = "ident"}}
    \cup {Phrase(i, i + 3, <<s[i].v, s[i + 2].v>>) :
            i \in {i \in DOMAIN s : s[i].kind = "ident" /\ KindAt(s, i + 1) = "."
                                    /\ KindAt(s, i + 2) = "ident"}}

Comparisons(s) ==
  {Phrase(p.from, p.to + 1, Atom(p.expr, "pr", "")) :
     p \in {p \in AttrPaths(s) : KindAt(s, p.to) = "pr"}}
    \cup {Phrase(p.from, p.to + 2, Atom(p.expr, s[p.to].v, s[p.to + 1].v)) :
            p \in {p \in AttrPaths(s) : KindAt(s, p.to) = "op" /\ KindAt(s, p.to + 1) = "value"}}

InParentheses(s, phrases) ==
  {Phrase(p.from - 1, p.to + 1, p.expr) :
     p \in {p \in phrases : KindAt(s, p.from - 1) = "(" /\ KindAt(s, p.to) = ")"}}

Joined(s, op, left, right) ==
  UNION {{Phrase(l.from, r.to, Logic(op, l.expr, r.expr)) :
            r \in {r \in right : r.from = l.to + 1}} : l \in {l \in left : KindAt(s, l.to) = op}}

\* The phrases of up to n tokens give those of up to n + 1.
NoPhrases == [atom |-> {}, conj |-> {}, disj |-> {}]
LongerPhrases(s, p) ==
  LET atom == Comparisons(s) \cup InParentheses(s, p.disj)
      conj == atom \cup Joined(s, "and", p.conj, p.atom)
      disj == conj \cup Joined(s, "or", p.disj, p.conj)
  IN [atom |-> atom, conj |-> conj, disj |-> disj]

Phrases(s) ==
  LET upTo[n \in 0..Len(s)] == IF n = 0 THEN NoPhrases ELSE LongerPhrases(s, upTo[n - 1])
  IN upTo[Len(s)]

Grammar(s) == {p.expr : p \in {p \in Phrases(s).disj : p.from = 1 /\ p.to = Len(s) + 1}}
-----------------------------------------------------------------------------
FilterInit == tokens = <<>>

\* The next token, while the parser fails only for the want of it.
NextToken(t) ==
  /\ Len(tokens) < MaxTokens
  /\ Parse(tokens).ok \/ Parse(tokens).pos > Len(tokens)
  /\ tokens' = Append(tokens, t)

FilterNext == \E t \in Token : NextToken(t)

FilterSpec == FilterInit /\ [][FilterNext]_filterVars

\* The parser reads a list of tokens exactly as the grammar does, which has one
\* reading of it or none; and the condition of the query, read by the rules of
\* SQL with its arguments in place, is "of the caller's provider and" the
\* filter: "and" before "or", parentheses kept, every value at its placeholder.
\* A filter is refused exactly for a comparison without a column or a pattern
\* that is none (parser/filter.go Parse, users/filter.go build,
\* users/repository.go List).
SqlMeansFilter ==
  LET r == Parse(tokens)
      b == FilterToSQL(r.expr)
      query == List(b)
  IN /\ Grammar(tokens) = IF r.ok THEN {r.expr} ELSE {}
     /\ r.ok => /\ b.ok <=> \A n \in Range(r.expr) : n.node = "atom" => Translatable(n)
                /\ b.ok => Grammar(Bound(query.sql, query.args)) =
                             {Logic("and", OfProvider, r.expr)}
=============================================================================
