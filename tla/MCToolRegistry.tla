--------------------------- MODULE MCToolRegistry ---------------------------
(* Schemas with the keywords of each type and in the combinations that     *)
(* matter, and arguments on both sides of every one of them.               *)
EXTENDS ToolRegistry, TLC

S(s) == [str |-> s]
I(n) == [int |-> n]
F(h) == [float |-> h]
B(b) == [bool |-> b]
L(l) == [list |-> l]
D(d) == [dict |-> d]
Empty == D(<<>>)
TypeIs(t) == "type" :> S(t)

Closed == TypeIs("object") @@ "additionalProperties" :> B(FALSE)
OfX(sub) == D(Closed @@ "properties" :> D("x" :> sub))

(* What the argument x may be declared to be. *)
DeclaredX == {D(s) : s \in {
  TypeIs("string") @@ "minLength" :> I(1) @@ "maxLength" :> I(1),
  TypeIs("string") @@ "pattern" :> S("a"),
  TypeIs("integer") @@ "minimum" :> I(1) @@ "maximum" :> F(3),
  TypeIs("number") @@ "exclusiveMinimum" :> I(0) @@ "exclusiveMaximum" :> I(1),
  TypeIs("number") @@ "minimum" :> F(NaN),
  "type" :> L(<<S("integer"), S("null"), S("boolean")>>),
  "enum" :> L(<<I(1), S("a"), L(<<B(FALSE)>>)>>),
  TypeIs("array") @@ "items" :> D(TypeIs("integer") @@ "maximum" :> I(1)) @@ "maxItems" :> I(1),
  "items" :> D("required" :> None) @@ "minItems" :> I(1),
  "const" :> D("y" :> I(1)),
  TypeIs("object") @@ "properties" :> D("y" :> D(TypeIs("string")))
    @@ "required" :> L(<<S("y")>>),
  "properties" :> Empty @@ "additionalProperties" :> B(TRUE)}}

(* Schemas that register turns down. *)
Malformed == {D(Closed @@ k) : k \in {
  "minimum" :> B(TRUE), "minLength" :> I(-1), "maxItems" :> F(2), "pattern" :> S("("),
  "enum" :> L(<<>>), "required" :> L(<<S("x")>>), "format" :> S("uri"), "properties" :> D("x" :> D(TypeIs("text"))),
  "properties" :> D("x" :> D("additionalProperties" :> S("no"))),
  "items" :> D("type" :> L(<<L(<<>>)>>))}}
  \cup {S("object"), D(TypeIs("object")), D("additionalProperties" :> B(FALSE))}

Object(name, schema) ==
  [name |-> name, description |-> S("does"), requires_network |-> B(FALSE),
   callable |-> TRUE, schema |-> schema]

Plain == Object("tool_b", D(Closed @@ "required" :> None))
MCObjects ==
  {Object("tool_a", OfX(sub)) : sub \in DeclaredX}
  \cup {Object("tool_a", s) : s \in Malformed \cup {D(Closed @@ "properties" :> None)}}
  \cup {[Object("tool_a", D(Closed)) EXCEPT !.requires_network = B(TRUE)],
        Object("tool_b", D(Closed)), Plain, Object("A", D(Closed)),
        [Plain EXCEPT !.requires_network = B(TRUE), !.schema = D(Closed)],
        [Plain EXCEPT !.requires_network = None], [Plain EXCEPT !.description = S("")],
        [Plain EXCEPT !.callable = FALSE]}

Items ==
  {S(""), S("a"), S("ab"), S("b"), I(0), I(1), I(2), F(1), F(2), F(3), F(4), F(NaN),
   B(TRUE), B(FALSE), None, L(<<>>), Empty, D("y" :> S("a")), D("y" :> I(1)),
   D("y" :> B(TRUE)), D("y" :> S("a") @@ "z" :> I(0))}
  \cup {L(<<v>>) : v \in {I(0), I(1), I(2), F(2), B(FALSE), Empty}}
  \cup {L(<<I(1), I(1)>>), L(<<I(1), S("a")>>)}
MCArguments == {D("x" :> v) : v \in Items} \cup {Empty, D("z" :> I(0)), L(<<>>)}

(* Everything in the schemas and arguments, and how deep it is nested. *)
RECURSIVE Within(_), DepthOf(_)
Within(v) == {v} \cup UNION {Within(e) : e \in Parts(v)}
DepthOf(v) ==
  LET depths == {DepthOf(e) : e \in Parts(v)} IN
  IF depths = {} THEN 0 ELSE 1 + CHOOSE d \in depths : \A e \in depths : e <= d
MCValues == UNION {Within(v) : v \in {t.schema : t \in MCObjects} \cup MCArguments}
MCDepth == [v \in MCValues |-> DepthOf(v)]
MCMatching == [p \in {"a"} |-> {"a", "ab"}]
=============================================================================
