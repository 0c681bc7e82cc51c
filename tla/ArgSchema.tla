----------------------------- MODULE ArgSchema -----------------------------
(***************************************************************************)
(* The schemas tools declare and the arguments models send: what           *)
(* validate_schema accepts, what validate_args makes of arguments, and     *)
(* what JSON Schema says of them.                                          *)
(*                                                                         *)
(* A Python value is a record with one field, named for its type:          *)
(* [str |-> "a"], [int |-> 1], [bool |-> TRUE], [none |-> TRUE],           *)
(* [list |-> <<...>>], [dict |-> ...], and [float |-> h] for h halves.     *)
(* A schema is a dict.  Abstracted: keys are strings; a pattern is the set *)
(* of strings it is found in; which exception a malformed schema raises    *)
(* (SchemaError, TypeError for an unhashable type) is left out.            *)
(*                                                                         *)
(* What recurs in the code is here a function f on the values, or on pairs *)
(* of them, that equals Op(f, ...) at each argument; Op stands for one     *)
(* call, and is handed f for the calls inside it.                          *)
(***************************************************************************)
EXTENDS Integers, Sequences

CONSTANTS
  Values,    \* Python values, with everything inside them
  Depth,     \* Depth[v]: how deep lists and dicts are nested in v
  Matching,  \* Matching[p]: the strings re.search finds the pattern p in
  NaN        \* the float that json.loads reads from NaN

Kind(v) == CHOOSE k \in DOMAIN v : TRUE
Is(v, kind) == kind \in DOMAIN v
Elements(v) == {v.list[i] : i \in DOMAIN v.list}

(* What a value directly holds. *)
Parts(v) ==
  IF Is(v, "list") THEN Elements(v)
  ELSE IF Is(v, "dict") THEN {v.dict[k] : k \in DOMAIN v.dict} ELSE {}

ASSUME DepthAssumption ==
  /\ Depth \in [Values -> Nat]
  /\ \A v \in Values : \A e \in Parts(v) : e \in Values /\ Depth[e] < Depth[v]
ASSUME ValuesAssumption ==
  /\ NaN \notin Int
  /\ \A v \in Values :
       \/ v \in [str : STRING] /\ Len(v.str) \in Nat
       \/ v \in [int : Int] \/ v \in [float : Int \cup {NaN}] \/ v \in [bool : BOOLEAN]
       \/ v \in [none : {TRUE}] \/ v \in [list : Seq(Values)]
       \/ DOMAIN v = {"dict"} /\ DOMAIN v.dict \subseteq STRING

IsNumber(v) == Is(v, "int") \/ Is(v, "float")
None == [none |-> TRUE]

(* Numbers are compared in halves; nothing is less than NaN, nor equal. *)
Halves(v) ==
  CASE Is(v, "int") -> 2 * v.int
    [] Is(v, "float") -> v.float
    [] Is(v, "bool") -> IF v.bool THEN 2 ELSE 0
Ordered(v, w) == Halves(v) # NaN /\ Halves(w) # NaN
Less(v, w) == Ordered(v, w) /\ Halves(v) < Halves(w)
AtMost(v, w) == Ordered(v, w) /\ Halves(v) <= Halves(w)

(* Equality of values, when those of the given types are numbers. *)
Same(same, numbers, v, w) ==
  IF {Kind(v), Kind(w)} \subseteq numbers THEN Ordered(v, w) /\ Halves(v) = Halves(w)
  ELSE /\ Kind(v) = Kind(w)
       /\ CASE Is(v, "list") ->
                 /\ Len(v.list) = Len(w.list)
                 /\ \A i \in DOMAIN v.list : same[<<v.list[i], w.list[i]>>]
            [] Is(v, "dict") ->
                 /\ DOMAIN v.dict = DOMAIN w.dict
                 /\ \A k \in DOMAIN v.dict : same[<<v.dict[k], w.dict[k]>>]
            [] OTHER -> v = w

PythonEqual[p \in Values \X Values] ==
  Same(PythonEqual, {"int", "float", "bool"}, p[1], p[2])
JsonEqual[p \in Values \X Values] ==
  Same(JsonEqual, {"int", "float"}, p[1], p[2])

Get(s, k, default) == IF k \in DOMAIN s.dict THEN s.dict[k] ELSE default
Operand(s, k) == Get(s, k, None)
Properties(s) ==
  IF Is(Operand(s, "properties"), "dict") THEN Operand(s, "properties").dict ELSE <<>>

-----------------------------------------------------------------------------
(* validate_schema *)

Sizes == {"minLength", "maxLength", "minItems", "maxItems"}
Bounds == {"minimum", "maximum", "exclusiveMinimum", "exclusiveMaximum"}
Keywords == Sizes \cup Bounds \cup
  {"title", "description", "examples", "type", "enum", "const", "properties",
   "required", "additionalProperties", "pattern", "items"}

(* The Python types a JSON type stands for. *)
TypesOf ==
  [string |-> {"str"}, integer |-> {"int"}, number |-> {"int", "float"},
   boolean |-> {"bool"}, object |-> {"dict"}, array |-> {"list"}, null |-> {"none"}]
JsonTypes == {[str |-> t] : t \in DOMAIN TypesOf}

(* A type is one name or a list of them. *)
Declared(types) == IF Is(types, "list") THEN Elements(types) ELSE {types}

(* properties and required may be absent, and so may their value be null. *)
CheckSubschema(isSubschema, s) ==
  /\ Is(s, "dict") /\ DOMAIN s.dict \subseteq Keywords
  /\ LET has(k) == k \in DOMAIN s.dict
         props == Operand(s, "properties")
         required == Operand(s, "required") IN
     /\ has("type") =>
          Declared(s.dict.type) # {} /\ Declared(s.dict.type) \subseteq JsonTypes
     /\ has("enum") => Is(s.dict.enum, "list") /\ s.dict.enum.list # <<>>
     /\ \/ props = None
        \/ Is(props, "dict") /\ \A p \in DOMAIN props.dict : isSubschema[props.dict[p]]
     /\ \/ required = None
        \/ /\ Is(required, "list")
           /\ \A r \in Elements(required) :
                Is(r, "str") /\ Is(props, "dict") /\ r.str \in DOMAIN props.dict
     /\ has("additionalProperties") => Is(s.dict.additionalProperties, "bool")
     /\ \A k \in Sizes : has(k) => Is(s.dict[k], "int") /\ s.dict[k].int >= 0
     /\ \A k \in Bounds : has(k) => IsNumber(s.dict[k])
     /\ has("pattern") => Is(s.dict.pattern, "str") /\ s.dict.pattern.str \in DOMAIN Matching
     /\ has("items") => isSubschema[s.dict.items]

IsSubschema[s \in Values] == CheckSubschema(IsSubschema, s)
Schemas == {s \in Values : IsSubschema[s]}

ValidateSchema(s) ==
  /\ Is(s, "dict")
  /\ Operand(s, "type") = [str |-> "object"]
  /\ Operand(s, "additionalProperties") = [bool |-> FALSE]
  /\ IsSubschema[s]

-----------------------------------------------------------------------------
(* validate_args *)

MatchesType(v, t) == Kind(v) \in TypesOf[t.str]

(* Slip: an exclusive bound is taken for an inclusive one. *)
IsBeyondLoosely(k, w, v) ==
  IsNumber(v) /\ \/ k \in {"minimum", "exclusiveMinimum"} /\ Less(v, w)
                 \/ k \in {"maximum", "exclusiveMaximum"} /\ Less(w, v)

IsBeyond(k, w, v) ==
  IsNumber(v) /\ \/ k = "minimum" /\ Less(v, w)
                 \/ k = "maximum" /\ Less(w, v)
                 \/ k = "exclusiveMinimum" /\ AtMost(v, w)
                 \/ k = "exclusiveMaximum" /\ AtMost(w, v)

(* Slip: a size must be more than its minimum. *)
IsMisSizedStrictly(k, w, v) ==
  \/ Is(v, "str") /\ \/ k = "minLength" /\ Len(v.str) <= w.int
                     \/ k = "maxLength" /\ Len(v.str) > w.int
  \/ Is(v, "list") /\ \/ k = "minItems" /\ Len(v.list) <= w.int
                      \/ k = "maxItems" /\ Len(v.list) > w.int

IsMisSized(k, w, v) ==
  \/ Is(v, "str") /\ \/ k = "minLength" /\ Len(v.str) < w.int
                     \/ k = "maxLength" /\ Len(v.str) > w.int
  \/ Is(v, "list") /\ \/ k = "minItems" /\ Len(v.list) < w.int
                      \/ k = "maxItems" /\ Len(v.list) > w.int

(* The keywords that are checked one by one, each with its operand w. *)
Violates(k, w, v) ==
  \/ k = "enum" /\ ~\E e \in Elements(w) : PythonEqual[<<v, e>>]
  \/ k = "const" /\ ~PythonEqual[<<v, w>>]
  \/ k = "pattern" /\ Is(v, "str") /\ v.str \notin Matching[w.str]
  \/ IsBeyond(k, w, v) \/ IsMisSized(k, w, v)

(* _check_value: {} is no error, "raise" an exception that is no           *)
(* ArgumentError.  A wrong type ends the check of a value.                 *)
Check(check, s, v) ==
  LET props == Get(s, "properties", [dict |-> <<>>])
      required == Get(s, "required", [list |-> <<>>])
      open == Operand(s, "additionalProperties") = [bool |-> TRUE] IN
  IF /\ "type" \in DOMAIN s.dict
     /\ \A t \in Declared(s.dict.type) : ~MatchesType(v, t)
  THEN {"error"}
  ELSE {"error" : k \in {k \in DOMAIN s.dict : Violates(k, s.dict[k], v)}}
       \cup (IF Is(v, "list") /\ "items" \in DOMAIN s.dict
             THEN UNION {check[<<s.dict.items, e>>] : e \in Elements(v)} ELSE {})
       \cup (IF ~Is(v, "dict") THEN {}
             ELSE IF ~Is(props, "dict") \/ ~Is(required, "list") THEN {"raise"}
             ELSE {"error" : r \in {r \in Elements(required) : r.str \notin DOMAIN v.dict}}
                  \cup {"error" : k \in IF open THEN {} ELSE DOMAIN v.dict \ DOMAIN props.dict}
                  \cup UNION {check[<<props.dict[p], v.dict[p]>>] :
                                p \in DOMAIN props.dict \cap DOMAIN v.dict})

CheckValue[p \in Schemas \X Values] == Check(CheckValue, p[1], p[2])

ValidateArgs(s, args) ==
  LET found == IF Is(args, "dict") THEN CheckValue[<<s, args>>] ELSE {"error"} IN
  IF "raise" \in found THEN "raises" ELSE IF found # {} THEN "refused" ELSE "accepted"

-----------------------------------------------------------------------------
(* JSON Schema, keyword by keyword; the reference, not a part of the code. *)

IsOfType(v, t) ==
  \/ MatchesType(v, t)
  \/ t.str = "integer" /\ Is(v, "float") /\ v.float # NaN /\ v.float % 2 = 0

Satisfies(satisfies, s, v) ==
  LET given(k) == k \in DOMAIN s.dict
      w(k) == s.dict[k] IN
  /\ given("type") => \E t \in Declared(w("type")) : IsOfType(v, t)
  /\ given("enum") => \E e \in Elements(w("enum")) : JsonEqual[<<v, e>>]
  /\ given("const") => JsonEqual[<<v, w("const")>>]
  /\ IsNumber(v) =>
       /\ given("minimum") => AtMost(w("minimum"), v)
       /\ given("maximum") => AtMost(v, w("maximum"))
       /\ given("exclusiveMinimum") => Less(w("exclusiveMinimum"), v)
       /\ given("exclusiveMaximum") => Less(v, w("exclusiveMaximum"))
  /\ Is(v, "str") =>
       /\ given("minLength") => Len(v.str) >= w("minLength").int
       /\ given("maxLength") => Len(v.str) <= w("maxLength").int
       /\ given("pattern") => v.str \in Matching[w("pattern").str]
  /\ Is(v, "list") =>
       /\ given("minItems") => Len(v.list) >= w("minItems").int
       /\ given("maxItems") => Len(v.list) <= w("maxItems").int
       /\ given("items") => \A e \in Elements(v) : satisfies[<<w("items"), e>>]
  /\ Is(v, "dict") =>
       /\ given("required") => \A r \in Elements(w("required")) : r.str \in DOMAIN v.dict
       /\ Operand(s, "additionalProperties") = [bool |-> FALSE] =>
            DOMAIN v.dict \subseteq DOMAIN Properties(s)
       /\ \A p \in DOMAIN Properties(s) \cap DOMAIN v.dict :
            satisfies[<<Properties(s)[p], v.dict[p]>>]

IsValid[p \in Schemas \X Values] == Satisfies(IsValid, p[1], p[2])

(* The schemas a schema directly holds, and all that are inside it. *)
Inner(s) ==
  {Properties(s)[p] : p \in DOMAIN Properties(s)}
    \cup {s.dict[k] : k \in {"items"} \cap DOMAIN s.dict}

Subschemas[s \in Schemas] == {s} \cup UNION {Subschemas[u] : u \in Inner(s)}

(* What enum and const compare with, anywhere in a schema. *)
Literals(s) ==
  (UNION {Elements(u.dict.enum) : u \in {u \in Subschemas[s] : "enum" \in DOMAIN u.dict}})
    \cup {u.dict.const : u \in {u \in Subschemas[s] : "const" \in DOMAIN u.dict}}

Subvalues[v \in Values] == {v} \cup UNION {Subvalues[e] : e \in Parts(v)}
=============================================================================
