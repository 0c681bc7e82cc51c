------------------------- MODULE ToolRegistry_proofs -------------------------
(***************************************************************************)
(* Theorems about registered tools and the arguments they are called with, *)
(* for every set of values, schemas, tools and calls.                      *)
(*                                                                         *)
(* The checks recur along values and schemas.  So the module begins with   *)
(* recursion itself: the functions of ArgSchema exist, because each call   *)
(* they make is about a value that is nested less deep, and a claim about  *)
(* all values holds if the least deep counterexample is impossible.        *)
(***************************************************************************)
EXTENDS ToolRegistry, WellFoundedInduction, SequenceTheorems, TLAPS

-----------------------------------------------------------------------------
(* Recursion *)

(* Every nonempty set of numbers has a least element. *)
LEMMA LeastNumber ==
  ASSUME NEW T, T \subseteq Nat, T # {}
  PROVE  \E n \in T : \A m \in T : ~(m < n)
<1> DEFINE R == OpToRel(<, Nat)
<1>1. PICK n \in T : \A m \in T : <<m, n>> \notin R
  BY NatLessThanWellFounded, WFMin, Zenon
<1> QED
  BY <1>1 DEF OpToRel

(* A function may be defined by recursion along a rank: G computes its     *)
(* value at x from its values at arguments of lower rank.                  *)
Recurs(S, R, rank, G) ==
  /\ R # {} /\ rank \in [S -> Nat] /\ G \in [S \X [S -> R] -> R]
  /\ \A x \in S : \A g, h \in [S -> R] :
       (\A y \in S : rank[y] < rank[x] => g[y] = h[y]) => G[<<x, g>>] = G[<<x, h>>]

IsSolved(S, R, G) == \E f \in [S -> R] : \A x \in S : f[x] = G[<<x, f>>]

LEMMA RecursiveFunction ==
  ASSUME NEW S, NEW R, NEW rank, NEW G, Recurs(S, R, rank, G)
  PROVE  IsSolved(S, R, G)
<1> SUFFICES ASSUME R # {}, rank \in [S -> Nat], G \in [S \X [S -> R] -> R],
                    \A x \in S : \A g, h \in [S -> R] :
                      (\A y \in S : rank[y] < rank[x] => g[y] = h[y])
                        => G[<<x, g>>] = G[<<x, h>>]
             PROVE  \E f \in [S -> R] : \A x \in S : f[x] = G[<<x, f>>]
  BY DEF Recurs, IsSolved
<1> DEFINE Upto(g, n) == \A x \in S : rank[x] < n => g[x] = G[<<x, g>>]
<1>1. \A n \in Nat : \E g \in [S -> R] : Upto(g, n)
  <2> DEFINE T == {n \in Nat : ~\E g \in [S -> R] : Upto(g, n)}
  <2>1. SUFFICES ASSUME T # {} PROVE FALSE
    OBVIOUS
  <2>2. PICK n \in Nat : n \in T /\ \A m \in T : ~(m < n)
    <3>1. T \subseteq Nat
      OBVIOUS
    <3> HIDE DEF T
    <3> QED
      BY <2>1, <3>1, LeastNumber
  <2>3. n # 0
    <3>1. PICK r \in R : TRUE
      OBVIOUS
    <3>2. [x \in S |-> r] \in [S -> R] /\ Upto([x \in S |-> r], 0)
      BY <3>1
    <3>3. 0 \notin T
      BY <3>2
    <3> HIDE DEF T
    <3> QED
      BY <2>2, <3>3
  <2>4. n - 1 \in Nat /\ n - 1 \notin T
    <3> HIDE DEF T
    <3> QED
      BY <2>2, <2>3
  <2>5. PICK g \in [S -> R] : Upto(g, n - 1)
    BY <2>4
  <2> DEFINE h == [x \in S |-> IF rank[x] < n - 1 THEN g[x] ELSE G[<<x, g>>]]
  <2>6. h \in [S -> R]
    OBVIOUS
  <2>7. ASSUME NEW x \in S, rank[x] < n PROVE h[x] = G[<<x, h>>]
    <3>1. ASSUME NEW y \in S, rank[y] < rank[x] PROVE g[y] = h[y]
      <4>1. rank[y] \in Nat /\ rank[x] \in Nat /\ rank[y] < n - 1
        BY <3>1, <2>7, <2>2
      <4> QED
        BY <4>1
    <3>2. G[<<x, g>>] = G[<<x, h>>]
      <4> HIDE DEF h
      <4> QED
        BY <2>6, <3>1
    <3>3. h[x] = G[<<x, g>>]
      <4>1. rank[x] < n - 1 => g[x] = G[<<x, g>>]
        BY <2>5
      <4> QED
        BY <4>1
    <3> QED
      BY <3>2, <3>3
  <2>8. n \notin T
    <3> HIDE DEF h
    <3> QED
      BY <2>6, <2>7
  <2> QED
    BY <2>2, <2>8
<1>2. ASSUME NEW n \in Nat, NEW g \in [S -> R], NEW h \in [S -> R], Upto(g, n), Upto(h, n)
      PROVE  \A x \in S : rank[x] < n => g[x] = h[x]
  <2> DEFINE D == {x \in S : rank[x] < n /\ g[x] # h[x]}
             T == {rank[x] : x \in D}
  <2>1. SUFFICES ASSUME D # {} PROVE FALSE
    OBVIOUS
  <2>2. PICK k \in T : \A m \in T : ~(m < k)
    <3>1. \A x \in D : rank[x] \in Nat /\ rank[x] \in T
      OBVIOUS
    <3>2. T \subseteq Nat
      OBVIOUS
    <3>3. T # {}
      BY <3>1, <2>1
    <3> HIDE DEF T
    <3> QED
      BY <3>2, <3>3, LeastNumber
  <2>3. PICK x \in D : rank[x] = k
    OBVIOUS
  <2>4. ASSUME NEW y \in S, rank[y] < rank[x] PROVE g[y] = h[y]
    <3>1. rank[y] \in Nat /\ rank[x] \in Nat /\ rank[y] < n
      BY <2>4
    <3>2. rank[y] \notin T
      <4> HIDE DEF T
      <4> QED
        BY <2>2, <2>3, <2>4
    <3> QED
      BY <3>1, <3>2
  <2>5. G[<<x, g>>] = G[<<x, h>>]
    BY <2>4
  <2>6. g[x] = G[<<x, g>>] /\ h[x] = G[<<x, h>>]
    BY <1>2
  <2> QED
    BY <2>5, <2>6
<1>3. PICK F \in [Nat -> [S -> R]] : \A n \in Nat : Upto(F[n], n)
  <2> DEFINE F == [n \in Nat |-> CHOOSE g \in [S -> R] : Upto(g, n)]
  <2>1. \A n \in Nat : F[n] \in [S -> R] /\ Upto(F[n], n)
    BY <1>1
  <2> QED
    BY <2>1
<1> DEFINE f == [x \in S |-> F[rank[x] + 1][x]]
<1> HIDE DEF Upto
<1>4. f \in [S -> R]
  OBVIOUS
<1>5. ASSUME NEW x \in S PROVE f[x] = G[<<x, f>>]
  <2>1. PICK g \in [S -> R] : g = F[rank[x] + 1]
    OBVIOUS
  <2>2. Upto(g, rank[x] + 1)
    <3>1. rank[x] + 1 \in Nat
      OBVIOUS
    <3> QED
      BY <1>3, <2>1, <3>1
  <2>3. ASSUME NEW y \in S, rank[y] < rank[x] PROVE g[y] = f[y]
    <3>1. PICK h \in [S -> R] : h = F[rank[y] + 1]
      OBVIOUS
    <3>2. rank[y] + 1 \in Nat /\ rank[y] < rank[y] + 1
      OBVIOUS
    <3>3. Upto(h, rank[y] + 1)
      BY <1>3, <3>1, <3>2
    <3>4. Upto(g, rank[y] + 1)
      <4>1. \A z \in S : rank[z] < rank[y] + 1 => rank[z] < rank[x] + 1
        BY <2>3
      <4> QED
        BY <2>2, <4>1 DEF Upto
    <3>5. h[y] = g[y]
      BY <3>2, <3>3, <3>4, <1>2
    <3> QED
      BY <3>1, <3>5
  <2>4. G[<<x, g>>] = G[<<x, f>>]
    <3> HIDE DEF f
    <3> QED
      BY <2>3, <1>4
  <2>5. g[x] = G[<<x, g>>]
    BY <2>2 DEF Upto
  <2>6. f[x] = g[x]
    BY <2>1
  <2> QED
    BY <2>4, <2>5, <2>6
<1> QED
  BY <1>4, <1>5

-----------------------------------------------------------------------------
(* Values and what is inside them *)

LEMMA SubvaluesEquation ==
  Subvalues = [v \in Values |-> {v} \cup UNION {Subvalues[e] : e \in Parts(v)}]
<1> DEFINE Op(f, v) == {v} \cup UNION {f[e] : e \in Parts(v)}
           R == SUBSET Values
           G == [q \in Values \X [Values -> R] |-> Op(q[2], q[1])]
<1>1. ASSUME NEW v \in Values, NEW f \in [Values -> R] PROVE Op(f, v) \in R
  BY DepthAssumption
<1>2. ASSUME NEW v \in Values, NEW g \in [Values -> R], NEW h \in [Values -> R],
             \A e \in Values : Depth[e] < Depth[v] => g[e] = h[e]
      PROVE  Op(g, v) = Op(h, v)
  BY <1>2, DepthAssumption
<1> HIDE DEF Op
<1>3. Recurs(Values, R, Depth, G)
  <2>1. G \in [Values \X [Values -> R] -> R]
    BY <1>1
  <2>2. \A v \in Values : \A g, h \in [Values -> R] :
          (\A e \in Values : Depth[e] < Depth[v] => g[e] = h[e]) => G[<<v, g>>] = G[<<v, h>>]
    BY <1>2
  <2>3. R # {} /\ Depth \in [Values -> Nat]
    BY DepthAssumption
  <2> HIDE DEF G, R
  <2> QED
    BY <2>1, <2>2, <2>3 DEF Recurs
<1>4. PICK f \in [Values -> R] : \A v \in Values : f[v] = G[<<v, f>>]
  <2> HIDE DEF G, R
  <2> QED
    BY <1>3, RecursiveFunction DEF IsSolved
<1>5. f = [v \in Values |-> Op(f, v)]
  BY <1>4
<1>6. Subvalues = [v \in Values |-> Op(Subvalues, v)]
  <2> DEFINE Solution == CHOOSE g : g = [v \in Values |-> Op(g, v)]
  <2>1. Solution = [v \in Values |-> Op(Solution, v)]
    BY <1>5, Zenon
  <2>2. Subvalues = Solution
    BY Zenon DEF Subvalues, Op
  <2> QED
    BY <2>1, <2>2
<1> QED
  BY <1>6 DEF Op

LEMMA KindOf ==
  ASSUME NEW v \in Values, NEW k, Is(v, k)
  PROVE  DOMAIN v = {k} /\ Kind(v) = k
<1>1. DOMAIN v = {k}
  BY ValuesAssumption DEF Is
<1>2. (CHOOSE j \in {k} : TRUE) = k
  OBVIOUS
<1> QED
  BY <1>1, <1>2 DEF Kind

(* Values of one kind are told apart by nothing else. *)
LEMMA SameKind ==
  ASSUME NEW v \in Values, NEW w \in Values, NEW k, Kind(v) = Kind(w), Is(v, k)
  PROVE  Is(w, k)
<1>1. PICK j : Is(w, j)
  BY ValuesAssumption DEF Is
<1>2. Kind(w) = j /\ Kind(v) = k
  BY <1>1, KindOf
<1> QED
  BY <1>1, <1>2

LEMMA OneKind ==
  ASSUME NEW v \in Values, NEW j, NEW k, Is(v, j), Is(v, k)
  PROVE  j = k
BY KindOf

LEMMA ElementsWithin ==
  ASSUME NEW v \in Values, Is(v, "list"), NEW e \in Elements(v)
  PROVE  e \in Values /\ Depth[e] < Depth[v]
BY DepthAssumption DEF Parts

LEMMA EntriesWithin ==
  ASSUME NEW v \in Values, Is(v, "dict"), NEW k \in DOMAIN v.dict
  PROVE  v.dict[k] \in Values /\ Depth[v.dict[k]] < Depth[v]
<1>1. ~Is(v, "list")
  BY OneKind
<1> QED
  BY <1>1, DepthAssumption DEF Parts

LEMMA ListsAreSequences ==
  ASSUME NEW v \in Values, Is(v, "list")
  PROVE  v.list \in Seq(Values) /\ DOMAIN v.list = 1..Len(v.list)
<1>1. DOMAIN v = {"list"}
  BY KindOf
<1>2. v \in [list : Seq(Values)]
  BY <1>1, ValuesAssumption
<1>3. v.list \in Seq(Values)
  BY <1>2
<1> QED
  BY <1>3

(* Equality asks about the parts of its first argument. *)
LEMMA SameIsLocal ==
  ASSUME NEW numbers, NEW v \in Values, NEW w \in Values, NEW g, NEW h,
         \A e, u \in Values : Depth[e] < Depth[v] => g[<<e, u>>] = h[<<e, u>>]
  PROVE  Same(g, numbers, v, w) = Same(h, numbers, v, w)
<1>1. ASSUME Is(v, "list"), Kind(v) = Kind(w), Len(v.list) = Len(w.list), NEW i \in DOMAIN v.list
      PROVE  g[<<v.list[i], w.list[i]>>] = h[<<v.list[i], w.list[i]>>]
  <2>1. Is(w, "list")
    BY <1>1, SameKind
  <2>2. v.list[i] \in Elements(v) /\ w.list[i] \in Elements(w)
    BY <1>1, <2>1, ListsAreSequences DEF Elements
  <2> QED
    BY <1>1, <2>1, <2>2, ElementsWithin
<1>2. ASSUME Is(v, "dict"), Kind(v) = Kind(w), DOMAIN v.dict = DOMAIN w.dict, NEW k \in DOMAIN v.dict
      PROVE  g[<<v.dict[k], w.dict[k]>>] = h[<<v.dict[k], w.dict[k]>>]
  <2>1. Is(w, "dict")
    BY <1>2, SameKind
  <2> QED
    BY <1>2, <2>1, EntriesWithin
<1>3. CASE {Kind(v), Kind(w)} \subseteq numbers
  BY <1>3 DEF Same
<1>4. CASE ~({Kind(v), Kind(w)} \subseteq numbers) /\ Is(v, "list")
  <2> DEFINE Rest(f) == /\ Len(v.list) = Len(w.list)
                        /\ \A i \in DOMAIN v.list : f[<<v.list[i], w.list[i]>>]
  <2>1. ~Is(v, "dict")
    BY <1>4, OneKind
  <2>2. Same(g, numbers, v, w) = (Kind(v) = Kind(w) /\ Rest(g))
    BY <1>4, <2>1 DEF Same
  <2>3. Same(h, numbers, v, w) = (Kind(v) = Kind(w) /\ Rest(h))
    BY <1>4, <2>1 DEF Same
  <2>4. Kind(v) = Kind(w) => (Rest(g) <=> Rest(h))
    BY <1>1, <1>4
  <2> HIDE DEF Rest
  <2> QED
    BY <2>2, <2>3, <2>4
<1>5. CASE ~({Kind(v), Kind(w)} \subseteq numbers) /\ ~Is(v, "list") /\ Is(v, "dict")
  BY <1>5, <1>2 DEF Same
<1>6. CASE ~({Kind(v), Kind(w)} \subseteq numbers) /\ ~Is(v, "list") /\ ~Is(v, "dict")
  BY <1>6 DEF Same
<1> QED
  BY <1>3, <1>4, <1>5, <1>6

LEMMA SameIsBoolean ==
  ASSUME NEW same, NEW numbers, NEW v, NEW w
  PROVE  Same(same, numbers, v, w) \in BOOLEAN
BY DEF Same, Ordered

LEMMA EqualityExists ==
  ASSUME NEW numbers
  PROVE  \E f : f = [p \in Values \X Values |-> Same(f, numbers, p[1], p[2])]
<1> DEFINE S == Values \X Values
           rank == [p \in S |-> Depth[p[1]]]
           G == [q \in S \X [S -> BOOLEAN] |-> Same(q[2], numbers, q[1][1], q[1][2])]
<1>1. ASSUME NEW p \in S, NEW g \in [S -> BOOLEAN], NEW h \in [S -> BOOLEAN],
             \A q \in S : rank[q] < rank[p] => g[q] = h[q]
      PROVE  Same(g, numbers, p[1], p[2]) = Same(h, numbers, p[1], p[2])
  <2>1. ASSUME NEW e \in Values, NEW u \in Values, Depth[e] < Depth[p[1]]
        PROVE  g[<<e, u>>] = h[<<e, u>>]
    <3>1. <<e, u>> \in S /\ rank[<<e, u>>] = Depth[e] /\ rank[p] = Depth[p[1]]
      OBVIOUS
    <3> QED
      BY <1>1, <2>1, <3>1
  <2>2. p[1] \in Values /\ p[2] \in Values
    OBVIOUS
  <2> HIDE DEF S
  <2> QED
    BY <2>1, <2>2, SameIsLocal
<1>2. Recurs(S, BOOLEAN, rank, G)
  <2>1. G \in [S \X [S -> BOOLEAN] -> BOOLEAN]
    BY SameIsBoolean
  <2>2. rank \in [S -> Nat]
    BY DepthAssumption
  <2>3. \A p \in S : \A g, h \in [S -> BOOLEAN] :
          (\A q \in S : rank[q] < rank[p] => g[q] = h[q]) => G[<<p, g>>] = G[<<p, h>>]
    <3> HIDE DEF S, rank
    <3> QED
      BY <1>1
  <2> HIDE DEF G, S, rank
  <2> QED
    BY <2>1, <2>2, <2>3 DEF Recurs
<1>3. PICK f \in [S -> BOOLEAN] : \A p \in S : f[p] = G[<<p, f>>]
  <2> HIDE DEF G, S, rank
  <2> QED
    BY <1>2, RecursiveFunction DEF IsSolved
<1>4. f = [p \in S |-> Same(f, numbers, p[1], p[2])]
  BY <1>3
<1> QED
  BY <1>4

LEMMA PythonEqualEquation ==
  ASSUME NEW v \in Values, NEW w \in Values
  PROVE  PythonEqual[<<v, w>>] = Same(PythonEqual, {"int", "float", "bool"}, v, w)
<1> DEFINE Solution ==
      CHOOSE f : f = [p \in Values \X Values |-> Same(f, {"int", "float", "bool"}, p[1], p[2])]
<1>1. Solution = [p \in Values \X Values |-> Same(Solution, {"int", "float", "bool"}, p[1], p[2])]
  BY EqualityExists, Zenon
<1>2. PythonEqual = Solution
  BY Zenon DEF PythonEqual
<1>3. PythonEqual =
        [p \in Values \X Values |-> Same(PythonEqual, {"int", "float", "bool"}, p[1], p[2])]
  BY <1>1, <1>2
<1> HIDE DEF Solution
<1> QED
  BY <1>3

LEMMA JsonEqualEquation ==
  ASSUME NEW v \in Values, NEW w \in Values
  PROVE  JsonEqual[<<v, w>>] = Same(JsonEqual, {"int", "float"}, v, w)
<1> DEFINE Solution ==
      CHOOSE f : f = [p \in Values \X Values |-> Same(f, {"int", "float"}, p[1], p[2])]
<1>1. Solution = [p \in Values \X Values |-> Same(Solution, {"int", "float"}, p[1], p[2])]
  BY EqualityExists, Zenon
<1>2. JsonEqual = Solution
  BY Zenon DEF JsonEqual
<1>3. JsonEqual = [p \in Values \X Values |-> Same(JsonEqual, {"int", "float"}, p[1], p[2])]
  BY <1>1, <1>2
<1> HIDE DEF Solution
<1> QED
  BY <1>3

-----------------------------------------------------------------------------
(* Schemas and what is inside them *)

LEMMA PropertiesWithin ==
  ASSUME NEW s \in Values, Is(s, "dict"), NEW k \in DOMAIN Properties(s)
  PROVE  Properties(s)[k] \in Values /\ Depth[Properties(s)[k]] < Depth[s]
<1>1. ~Is(None, "dict")
  BY DEF None, Is
<1>2. PICK props : props = Operand(s, "properties")
  OBVIOUS
<1>3. Is(props, "dict") /\ props.dict = Properties(s)
  BY <1>2 DEF Properties
<1>4. "properties" \in DOMAIN s.dict /\ props = s.dict["properties"]
  BY <1>1, <1>2, <1>3 DEF Operand, Get
<1>5. props \in Values /\ Depth[props] < Depth[s]
  BY <1>4, EntriesWithin
<1>6. Properties(s)[k] \in Values /\ Depth[Properties(s)[k]] < Depth[props]
  BY <1>3, <1>5, EntriesWithin
<1>7. Depth[Properties(s)[k]] \in Nat /\ Depth[props] \in Nat /\ Depth[s] \in Nat
  BY <1>5, <1>6, DepthAssumption
<1> QED
  BY <1>5, <1>6, <1>7

LEMMA CheckSubschemaIsLocal ==
  ASSUME NEW s \in Values, NEW g, NEW h,
         \A u \in Values : Depth[u] < Depth[s] => g[u] = h[u]
  PROVE  CheckSubschema(g, s) = CheckSubschema(h, s)
<1> DEFINE props == Operand(s, "properties")
<1>1. CASE ~Is(s, "dict")
  BY <1>1 DEF CheckSubschema
<1>2. CASE Is(s, "dict")
  <2>1. \A k \in DOMAIN s.dict : g[s.dict[k]] = h[s.dict[k]]
    BY <1>2, EntriesWithin
  <2>2. Is(props, "dict") => \A k \in DOMAIN props.dict : g[props.dict[k]] = h[props.dict[k]]
    BY <1>2, PropertiesWithin DEF Properties
  <2> HIDE DEF props
  <2>3. (props = None \/ (Is(props, "dict") /\ \A k \in DOMAIN props.dict : g[props.dict[k]]))
          = (props = None \/ (Is(props, "dict") /\ \A k \in DOMAIN props.dict : h[props.dict[k]]))
    BY <2>2
  <2>4. ("items" \in DOMAIN s.dict => g[s.dict.items])
          = ("items" \in DOMAIN s.dict => h[s.dict.items])
    BY <2>1
  <2> QED
    BY <2>3, <2>4, Zenon DEF CheckSubschema, props
<1> QED
  BY <1>1, <1>2

LEMMA IsSubschemaEquation ==
  IsSubschema = [s \in Values |-> CheckSubschema(IsSubschema, s)]
<1> DEFINE G == [q \in Values \X [Values -> BOOLEAN] |-> CheckSubschema(q[2], q[1])]
<1>1. Recurs(Values, BOOLEAN, Depth, G)
  <2>1. \A s, f : CheckSubschema(f, s) \in BOOLEAN
    BY DEF CheckSubschema
  <2>2. G \in [Values \X [Values -> BOOLEAN] -> BOOLEAN]
    BY <2>1
  <2>3. \A s \in Values : \A g, h \in [Values -> BOOLEAN] :
          (\A u \in Values : Depth[u] < Depth[s] => g[u] = h[u]) => G[<<s, g>>] = G[<<s, h>>]
    BY CheckSubschemaIsLocal
  <2> HIDE DEF G
  <2> QED
    BY <2>2, <2>3, DepthAssumption DEF Recurs
<1>2. PICK f \in [Values -> BOOLEAN] : \A s \in Values : f[s] = G[<<s, f>>]
  <2> HIDE DEF G
  <2> QED
    BY <1>1, RecursiveFunction DEF IsSolved
<1>3. f = [s \in Values |-> CheckSubschema(f, s)]
  BY <1>2
<1> DEFINE Solution == CHOOSE g : g = [s \in Values |-> CheckSubschema(g, s)]
<1>4. Solution = [s \in Values |-> CheckSubschema(Solution, s)]
  BY <1>3, Zenon
<1>5. IsSubschema = Solution
  BY Zenon DEF IsSubschema
<1> QED
  BY <1>4, <1>5

LEMMA SchemaParts ==
  ASSUME NEW s \in Schemas
  PROVE  /\ s \in Values /\ Is(s, "dict") /\ CheckSubschema(IsSubschema, s)
         /\ Operand(s, "properties") = None \/ Is(Operand(s, "properties"), "dict")
<1>1. s \in Values /\ IsSubschema[s]
  BY DEF Schemas
<1>2. CheckSubschema(IsSubschema, s)
  BY <1>1, IsSubschemaEquation
<1> QED
  BY <1>1, <1>2 DEF CheckSubschema

(* What a schema is asked for inside a list or a dict is a schema again. *)
LEMMA InnerWithin ==
  ASSUME NEW s \in Schemas, NEW u \in Inner(s)
  PROVE  u \in Schemas /\ Depth[u] < Depth[s]
<1> DEFINE props == Operand(s, "properties")
<1>1. s \in Values /\ Is(s, "dict") /\ CheckSubschema(IsSubschema, s)
  BY SchemaParts
<1>2. ASSUME NEW k \in DOMAIN Properties(s), u = Properties(s)[k]
      PROVE  u \in Schemas /\ Depth[u] < Depth[s]
  <2>1. Is(props, "dict") /\ props # None /\ Properties(s) = props.dict
    BY <1>2 DEF Properties, None, Is
  <2>2. IsSubschema[u]
    BY <1>1, <1>2, <2>1 DEF CheckSubschema
  <2> QED
    BY <1>1, <1>2, <2>2, PropertiesWithin DEF Schemas
<1>3. CASE u \in {s.dict[k] : k \in {"items"} \cap DOMAIN s.dict}
  <2>1. "items" \in DOMAIN s.dict /\ u = s.dict.items
    BY <1>3
  <2>2. IsSubschema[u]
    BY <1>1, <2>1 DEF CheckSubschema
  <2> QED
    BY <1>1, <2>1, <2>2, EntriesWithin DEF Schemas
<1> QED
  BY <1>2, <1>3 DEF Inner

LEMMA ItemsAreInner ==
  ASSUME NEW s \in Schemas, "items" \in DOMAIN s.dict
  PROVE  s.dict.items \in Inner(s)
BY DEF Inner

LEMMA PropertiesAreInner ==
  ASSUME NEW s \in Schemas, NEW k \in DOMAIN Properties(s)
  PROVE  Properties(s)[k] \in Inner(s)
BY DEF Inner

(* Where properties is a dict, _check_value reads what it declares. *)
LEMMA PropertiesRead ==
  ASSUME NEW s, Is(Get(s, "properties", [dict |-> <<>>]), "dict")
  PROVE  DOMAIN Get(s, "properties", [dict |-> <<>>]).dict = DOMAIN Properties(s)
         /\ \A k \in DOMAIN Properties(s) :
              Get(s, "properties", [dict |-> <<>>]).dict[k] = Properties(s)[k]
<1>1. CASE "properties" \in DOMAIN s.dict
  BY <1>1 DEF Get, Properties, Operand
<1>2. CASE "properties" \notin DOMAIN s.dict
  <2>1. Properties(s) = <<>>
    BY <1>2 DEF Get, Properties, Operand, None, Is
  <2> QED
    BY <1>2, <2>1 DEF Get
<1> QED
  BY <1>1, <1>2

LEMMA SubschemasEquation ==
  Subschemas = [s \in Schemas |-> {s} \cup UNION {Subschemas[u] : u \in Inner(s)}]
<1> DEFINE Op(f, s) == {s} \cup UNION {f[u] : u \in Inner(s)}
           R == SUBSET Schemas
           rank == [s \in Schemas |-> Depth[s]]
           G == [q \in Schemas \X [Schemas -> R] |-> Op(q[2], q[1])]
<1>1. ASSUME NEW s \in Schemas, NEW f \in [Schemas -> R] PROVE Op(f, s) \in R
  BY InnerWithin
<1>2. ASSUME NEW s \in Schemas, NEW g \in [Schemas -> R], NEW h \in [Schemas -> R],
             \A u \in Schemas : rank[u] < rank[s] => g[u] = h[u]
      PROVE  Op(g, s) = Op(h, s)
  BY <1>2, InnerWithin
<1> HIDE DEF Op
<1>3. Recurs(Schemas, R, rank, G)
  <2>1. G \in [Schemas \X [Schemas -> R] -> R]
    BY <1>1
  <2>2. \A s \in Schemas : \A g, h \in [Schemas -> R] :
          (\A u \in Schemas : rank[u] < rank[s] => g[u] = h[u]) => G[<<s, g>>] = G[<<s, h>>]
    BY <1>2
  <2>3. R # {} /\ rank \in [Schemas -> Nat]
    BY DepthAssumption DEF Schemas
  <2> HIDE DEF G, R, rank
  <2> QED
    BY <2>1, <2>2, <2>3 DEF Recurs
<1>4. PICK f \in [Schemas -> R] : \A s \in Schemas : f[s] = G[<<s, f>>]
  <2> HIDE DEF G, R, rank
  <2> QED
    BY <1>3, RecursiveFunction DEF IsSolved
<1>5. f = [s \in Schemas |-> Op(f, s)]
  BY <1>4
<1>6. Subschemas = [s \in Schemas |-> Op(Subschemas, s)]
  <2> DEFINE Solution == CHOOSE g : g = [s \in Schemas |-> Op(g, s)]
  <2>1. Solution = [s \in Schemas |-> Op(Solution, s)]
    BY <1>5, Zenon
  <2>2. Subschemas = Solution
    BY Zenon DEF Subschemas, Op
  <2> QED
    BY <2>1, <2>2
<1> QED
  BY <1>6 DEF Op

(* Both checks of a value against a schema ask about schemas inside it, of *)
(* the parts of the value.                                                 *)
LEMMA CheckIsLocal ==
  ASSUME NEW s \in Schemas, NEW v \in Values, NEW g, NEW h,
         \A u \in Inner(s), e \in Parts(v) : g[<<u, e>>] = h[<<u, e>>]
  PROVE  Check(g, s, v) = Check(h, s, v)
<1> DEFINE props == Get(s, "properties", [dict |-> <<>>])
           OfItems(f) ==
             IF Is(v, "list") /\ "items" \in DOMAIN s.dict
             THEN UNION {f[<<s.dict.items, e>>] : e \in Elements(v)} ELSE {}
           OfEntries(f) ==
             UNION {f[<<props.dict[p], v.dict[p]>>] : p \in DOMAIN props.dict \cap DOMAIN v.dict}
<1>1. OfItems(g) = OfItems(h)
  <2>1. CASE Is(v, "list") /\ "items" \in DOMAIN s.dict
    <3>1. s.dict.items \in Inner(s) /\ Elements(v) = Parts(v)
      BY <2>1, ItemsAreInner DEF Parts
    <3> QED
      BY <2>1, <3>1
  <2> QED
    BY <2>1
<1>2. ASSUME Is(v, "dict"), Is(props, "dict") PROVE OfEntries(g) = OfEntries(h)
  <2>1. \A k \in DOMAIN props.dict : props.dict[k] \in Inner(s)
    BY <1>2, PropertiesAreInner, PropertiesRead
  <2>2. ~Is(v, "list")
    BY <1>2, OneKind
  <2>3. \A k \in DOMAIN v.dict : v.dict[k] \in Parts(v)
    BY <1>2, <2>2 DEF Parts
  <2> HIDE DEF props
  <2> QED
    BY <2>1, <2>3
<1> DEFINE Rest(of) ==
      LET required == Get(s, "required", [list |-> <<>>])
          open == Operand(s, "additionalProperties") = [bool |-> TRUE] IN
      IF ~Is(v, "dict") THEN {}
      ELSE IF ~Is(props, "dict") \/ ~Is(required, "list") THEN {"raise"}
      ELSE {"error" : r \in {r \in Elements(required) : r.str \notin DOMAIN v.dict}}
           \cup {"error" : k \in IF open THEN {} ELSE DOMAIN v.dict \ DOMAIN props.dict}
           \cup of
<1>3. Rest(OfEntries(g)) = Rest(OfEntries(h))
  <2> HIDE DEF OfEntries, props
  <2> QED
    BY <1>2
<1> DEFINE Whole(items, rest) ==
      IF /\ "type" \in DOMAIN s.dict
         /\ \A t \in Declared(s.dict.type) : ~MatchesType(v, t)
      THEN {"error"}
      ELSE {"error" : k \in {k \in DOMAIN s.dict : Violates(k, s.dict[k], v)}}
           \cup items \cup rest
<1>4. Check(g, s, v) = Whole(OfItems(g), Rest(OfEntries(g)))
  BY Zenon DEF Check
<1>5. Check(h, s, v) = Whole(OfItems(h), Rest(OfEntries(h)))
  BY Zenon DEF Check
<1> HIDE DEF Whole, OfItems, Rest
<1> QED
  BY <1>1, <1>3, <1>4, <1>5

LEMMA SatisfiesIsLocal ==
  ASSUME NEW s \in Schemas, NEW v \in Values, NEW g, NEW h,
         \A u \in Inner(s), e \in Parts(v) : g[<<u, e>>] = h[<<u, e>>]
  PROVE  Satisfies(g, s, v) = Satisfies(h, s, v)
<1> DEFINE OfItems(f) == "items" \in DOMAIN s.dict => \A e \in Elements(v) : f[<<s.dict.items, e>>]
           OfEntries(f) == \A p \in DOMAIN Properties(s) \cap DOMAIN v.dict :
                             f[<<Properties(s)[p], v.dict[p]>>]
<1>1. ASSUME Is(v, "list") PROVE OfItems(g) = OfItems(h)
  <2>1. CASE "items" \in DOMAIN s.dict
    <3>1. s.dict.items \in Inner(s) /\ Elements(v) = Parts(v)
      BY <1>1, <2>1, ItemsAreInner DEF Parts
    <3> QED
      BY <2>1, <3>1
  <2> QED
    BY <2>1
<1>2. ASSUME Is(v, "dict") PROVE OfEntries(g) = OfEntries(h)
  <2>1. ~Is(v, "list")
    BY <1>2, OneKind
  <2>2. \A k \in DOMAIN v.dict : v.dict[k] \in Parts(v)
    BY <1>2, <2>1 DEF Parts
  <2> QED
    BY <2>2, PropertiesAreInner
<1>3. (Is(v, "list") => OfItems(g)) = (Is(v, "list") => OfItems(h))
  BY <1>1
<1>4. (Is(v, "dict") => OfEntries(g)) = (Is(v, "dict") => OfEntries(h))
  BY <1>2
<1> QED
  BY <1>3, <1>4, Zenon DEF Satisfies

LEMMA PairRecursion ==
  ASSUME NEW R, R # {}, NEW G \in [(Schemas \X Values) \X [Schemas \X Values -> R] -> R],
         \A s \in Schemas, v \in Values : \A g, h \in [Schemas \X Values -> R] :
           (\A u \in Inner(s), e \in Parts(v) : g[<<u, e>>] = h[<<u, e>>])
             => G[<<<<s, v>>, g>>] = G[<<<<s, v>>, h>>]
  PROVE  IsSolved(Schemas \X Values, R, G)
<1> DEFINE S == Schemas \X Values
           rank == [p \in S |-> Depth[p[1]]]
<1>1. rank \in [S -> Nat]
  BY DepthAssumption DEF Schemas
<1>2. ASSUME NEW s \in Schemas, NEW v \in Values, NEW g \in [S -> R], NEW h \in [S -> R],
             \A q \in S : rank[q] < rank[<<s, v>>] => g[q] = h[q]
      PROVE  G[<<<<s, v>>, g>>] = G[<<<<s, v>>, h>>]
  <2>1. ASSUME NEW u \in Inner(s), NEW e \in Parts(v)
        PROVE  g[<<u, e>>] = h[<<u, e>>]
    <3>1. u \in Schemas /\ Depth[u] < Depth[s] /\ e \in Values
      BY InnerWithin, DepthAssumption
    <3>2. <<u, e>> \in S /\ rank[<<u, e>>] = Depth[u] /\ rank[<<s, v>>] = Depth[s]
      BY <3>1
    <3> QED
      BY <1>2, <3>1, <3>2
  <2> QED
    BY <2>1
<1>3. \A p \in S : \A g, h \in [S -> R] :
        (\A q \in S : rank[q] < rank[p] => g[q] = h[q]) => G[<<p, g>>] = G[<<p, h>>]
  <2> SUFFICES ASSUME NEW p \in S, NEW g \in [S -> R], NEW h \in [S -> R],
                      \A q \in S : rank[q] < rank[p] => g[q] = h[q]
               PROVE  G[<<p, g>>] = G[<<p, h>>]
    OBVIOUS
  <2>1. PICK s \in Schemas, v \in Values : p = <<s, v>>
    OBVIOUS
  <2> HIDE DEF S, rank
  <2> QED
    BY <1>2, <2>1
<1>4. Recurs(S, R, rank, G)
  <2> HIDE DEF S, rank
  <2> QED
    BY <1>1, <1>3 DEF Recurs, S
<1> HIDE DEF rank
<1> QED
  BY <1>4, RecursiveFunction

Findings == {"error", "raise"}

LEMMA CheckValueEquation ==
  CheckValue = [p \in Schemas \X Values |-> Check(CheckValue, p[1], p[2])]
<1> DEFINE S == Schemas \X Values
           R == SUBSET Findings
           G == [q \in S \X [S -> R] |-> Check(q[2], q[1][1], q[1][2])]
<1>1. ASSUME NEW s \in Schemas, NEW v \in Values, NEW f \in [S -> R]
      PROVE  Check(f, s, v) \in R
  <2> DEFINE props == Get(s, "properties", [dict |-> <<>>])
  <2>1. Is(v, "list") /\ "items" \in DOMAIN s.dict =>
          \A e \in Elements(v) : f[<<s.dict.items, e>>] \in R
    BY ItemsAreInner, InnerWithin, ElementsWithin
  <2>2. Is(v, "dict") /\ Is(props, "dict") =>
          \A p \in DOMAIN props.dict \cap DOMAIN v.dict : f[<<props.dict[p], v.dict[p]>>] \in R
    BY PropertiesRead, PropertiesAreInner, InnerWithin, EntriesWithin
  <2>3. Is(v, "dict") /\ Is(props, "dict") =>
          UNION {f[<<props.dict[p], v.dict[p]>>] : p \in DOMAIN props.dict \cap DOMAIN v.dict} \in R
    <3> HIDE DEF props
    <3> QED
      BY <2>2
  <2>4. Is(v, "list") /\ "items" \in DOMAIN s.dict =>
          UNION {f[<<s.dict.items, e>>] : e \in Elements(v)} \in R
    BY <2>1
  <2> QED
    BY <2>3, <2>4 DEF Check, Findings
<1>2. G \in [S \X [S -> R] -> R]
  <2>1. ASSUME NEW q \in S \X [S -> R] PROVE G[q] \in R
    <3>1. PICK s \in Schemas, v \in Values, f \in [S -> R] : q = <<<<s, v>>, f>>
      OBVIOUS
    <3> QED
      BY <3>1, <1>1
  <2> QED
    BY <2>1
<1>3. \A s \in Schemas, v \in Values : \A g, h \in [S -> R] :
        (\A u \in Inner(s), e \in Parts(v) : g[<<u, e>>] = h[<<u, e>>])
          => G[<<<<s, v>>, g>>] = G[<<<<s, v>>, h>>]
  BY CheckIsLocal
<1>4. PICK f \in [S -> R] : \A p \in S : f[p] = G[<<p, f>>]
  <2> HIDE DEF G, R
  <2>1. R # {}
    BY DEF R
  <2>2. IsSolved(S, R, G)
    BY <1>2, <1>3, <2>1, PairRecursion
  <2> QED
    BY <2>2 DEF IsSolved
<1>5. f = [p \in Schemas \X Values |-> Check(f, p[1], p[2])]
  BY <1>4
<1> DEFINE Solution == CHOOSE g : g = [p \in Schemas \X Values |-> Check(g, p[1], p[2])]
<1>6. Solution = [p \in Schemas \X Values |-> Check(Solution, p[1], p[2])]
  BY <1>5, Zenon
<1>7. CheckValue = Solution
  BY Zenon DEF CheckValue
<1> QED
  BY <1>6, <1>7

LEMMA IsValidEquation ==
  IsValid = [p \in Schemas \X Values |-> Satisfies(IsValid, p[1], p[2])]
<1> DEFINE S == Schemas \X Values
           G == [q \in S \X [S -> BOOLEAN] |-> Satisfies(q[2], q[1][1], q[1][2])]
<1>1. \A f, s, v : Satisfies(f, s, v) \in BOOLEAN
  BY Zenon DEF Satisfies
<1>2. G \in [S \X [S -> BOOLEAN] -> BOOLEAN]
  BY <1>1
<1>3. \A s \in Schemas, v \in Values : \A g, h \in [S -> BOOLEAN] :
        (\A u \in Inner(s), e \in Parts(v) : g[<<u, e>>] = h[<<u, e>>])
          => G[<<<<s, v>>, g>>] = G[<<<<s, v>>, h>>]
  <2> SUFFICES ASSUME NEW s \in Schemas, NEW v \in Values,
                      NEW g \in [S -> BOOLEAN], NEW h \in [S -> BOOLEAN],
                      \A u \in Inner(s), e \in Parts(v) : g[<<u, e>>] = h[<<u, e>>]
               PROVE  G[<<<<s, v>>, g>>] = G[<<<<s, v>>, h>>]
    OBVIOUS
  <2>1. Satisfies(g, s, v) = Satisfies(h, s, v)
    BY SatisfiesIsLocal
  <2> QED
    BY <2>1
<1>4. PICK f \in [S -> BOOLEAN] : \A p \in S : f[p] = G[<<p, f>>]
  <2> HIDE DEF G
  <2>1. IsSolved(S, BOOLEAN, G)
    BY <1>2, <1>3, PairRecursion
  <2> QED
    BY <2>1 DEF IsSolved
<1>5. f = [p \in Schemas \X Values |-> Satisfies(f, p[1], p[2])]
  BY <1>4
<1> DEFINE Solution == CHOOSE g : g = [p \in Schemas \X Values |-> Satisfies(g, p[1], p[2])]
<1>6. Solution = [p \in Schemas \X Values |-> Satisfies(Solution, p[1], p[2])]
  BY <1>5, Zenon
<1>7. IsValid = Solution
  BY Zenon DEF IsValid
<1> QED
  BY <1>6, <1>7

LEMMA CheckValueIs ==
  ASSUME NEW s \in Schemas, NEW v \in Values
  PROVE  CheckValue[<<s, v>>] = Check(CheckValue, s, v)
BY CheckValueEquation

LEMMA IsValidIs ==
  ASSUME NEW s \in Schemas, NEW v \in Values
  PROVE  IsValid[<<s, v>>] = Satisfies(IsValid, s, v)
BY IsValidEquation

LEMMA SubvaluesGrow ==
  ASSUME NEW v \in Values
  PROVE  v \in Subvalues[v] /\ \A e \in Parts(v) : Subvalues[e] \subseteq Subvalues[v]
<1>1. Subvalues[v] = {v} \cup UNION {Subvalues[e] : e \in Parts(v)}
  BY SubvaluesEquation
<1> QED
  BY <1>1

LEMMA SubschemasGrow ==
  ASSUME NEW s \in Schemas
  PROVE  s \in Subschemas[s] /\ \A u \in Inner(s) : Subschemas[u] \subseteq Subschemas[s]
<1>1. Subschemas[s] = {s} \cup UNION {Subschemas[u] : u \in Inner(s)}
  BY SubschemasEquation
<1> QED
  BY <1>1

LEMMA LiteralsGrow ==
  ASSUME NEW s \in Schemas, NEW u \in Inner(s)
  PROVE  Literals(u) \subseteq Literals(s)
<1>1. Subschemas[u] \subseteq Subschemas[s]
  BY SubschemasGrow
<1> QED
  BY <1>1 DEF Literals

LEMMA OwnLiterals ==
  ASSUME NEW s \in Schemas
  PROVE  /\ "enum" \in DOMAIN s.dict => Elements(s.dict.enum) \subseteq Literals(s)
         /\ "const" \in DOMAIN s.dict => s.dict.const \in Literals(s)
<1>1. s \in Subschemas[s]
  BY SubschemasGrow
<1> QED
  BY <1>1 DEF Literals

(* A schema is a value as well. *)
LEMMA OperandsAreSubvalues ==
  ASSUME NEW s \in Schemas, NEW k \in DOMAIN s.dict
  PROVE  s.dict[k] \in Values /\ Subvalues[s.dict[k]] \subseteq Subvalues[s]
<1>1. s \in Values /\ Is(s, "dict")
  BY SchemaParts
<1>2. ~Is(s, "list")
  BY <1>1, OneKind
<1>3. s.dict[k] \in Parts(s)
  BY <1>1, <1>2 DEF Parts
<1> QED
  BY <1>1, <1>3, EntriesWithin, SubvaluesGrow

LEMMA InnerAreSubvalues ==
  ASSUME NEW s \in Schemas, NEW u \in Inner(s)
  PROVE  Subvalues[u] \subseteq Subvalues[s]
<1>1. CASE u \in {s.dict[k] : k \in {"items"} \cap DOMAIN s.dict}
  BY <1>1, OperandsAreSubvalues
<1>2. ASSUME NEW k \in DOMAIN Properties(s), u = Properties(s)[k]
      PROVE  Subvalues[u] \subseteq Subvalues[s]
  <2>1. PICK props : props = Operand(s, "properties")
    OBVIOUS
  <2>2. Is(props, "dict") /\ props.dict = Properties(s)
    BY <1>2, <2>1 DEF Properties
  <2>3. "properties" \in DOMAIN s.dict /\ props = s.dict["properties"]
    BY <2>1, <2>2 DEF Operand, Get, None, Is
  <2>4. props \in Values /\ Subvalues[props] \subseteq Subvalues[s]
    BY <2>3, OperandsAreSubvalues
  <2>5. ~Is(props, "list")
    BY <2>2, <2>4, OneKind
  <2>6. u \in Parts(props)
    BY <1>2, <2>2, <2>5 DEF Parts
  <2> QED
    BY <2>4, <2>6, SubvaluesGrow
<1> QED
  BY <1>1, <1>2 DEF Inner

(* What holds of a schema and a value whenever it holds of their parts     *)
(* holds of them all: there is no least deep counterexample.               *)
LEMMA LeastPair ==
  ASSUME NEW X, X \subseteq Schemas \X Values, X # {}
  PROVE  \E s \in Schemas, v \in Values :
           <<s, v>> \in X /\ \A u \in Inner(s), e \in Parts(v) : <<u, e>> \notin X
<1> DEFINE T == {Depth[p[1]] : p \in X}
<1>1. T \subseteq Nat /\ T # {}
  BY DepthAssumption DEF Schemas
<1>2. PICK n \in T : \A m \in T : ~(m < n)
  <2> HIDE DEF T
  <2> QED
    BY <1>1, LeastNumber
<1>3. PICK s \in Schemas, v \in Values : <<s, v>> \in X /\ Depth[s] = n
  <2>1. PICK p \in X : Depth[p[1]] = n
    OBVIOUS
  <2>2. PICK s \in Schemas, v \in Values : p = <<s, v>>
    OBVIOUS
  <2> QED
    BY <2>1, <2>2
<1>4. ASSUME NEW u \in Inner(s), NEW e \in Parts(v), <<u, e>> \in X PROVE FALSE
  <2>1. Depth[u] \in T
    BY <1>4
  <2>2. Depth[u] < Depth[s]
    BY InnerWithin
  <2> HIDE DEF T
  <2> QED
    BY <1>2, <1>3, <2>1, <2>2
<1> QED
  BY <1>3, <1>4

LEMMA PairInduction ==
  ASSUME NEW Y, \A s \in Schemas, v \in Values :
                  (\A u \in Inner(s), e \in Parts(v) : <<u, e>> \in Y) => <<s, v>> \in Y
  PROVE  \A s \in Schemas, v \in Values : <<s, v>> \in Y
<1> DEFINE X == (Schemas \X Values) \ Y
<1>1. ASSUME X # {} PROVE FALSE
  <2>1. PICK s \in Schemas, v \in Values :
          <<s, v>> \in X /\ \A u \in Inner(s), e \in Parts(v) : <<u, e>> \notin X
    <3>1. X \subseteq Schemas \X Values
      OBVIOUS
    <3> HIDE DEF X
    <3> QED
      BY <1>1, <3>1, LeastPair
  <2>2. \A u \in Inner(s), e \in Parts(v) : u \in Schemas /\ e \in Values
    BY InnerWithin, DepthAssumption
  <2> QED
    BY <2>1, <2>2
<1> QED
  BY <1>1

LEMMA LeastValues ==
  ASSUME NEW X, X \subseteq Values \X Values, X # {}
  PROVE  \E v, w \in Values :
           <<v, w>> \in X /\ \A e \in Parts(v), u \in Values : <<e, u>> \notin X
<1> DEFINE T == {Depth[p[1]] : p \in X}
<1>1. T \subseteq Nat /\ T # {}
  BY DepthAssumption
<1>2. PICK n \in T : \A m \in T : ~(m < n)
  <2> HIDE DEF T
  <2> QED
    BY <1>1, LeastNumber
<1>3. PICK v \in Values, w \in Values : <<v, w>> \in X /\ Depth[v] = n
  <2>1. PICK p \in X : Depth[p[1]] = n
    OBVIOUS
  <2>2. PICK v \in Values, w \in Values : p = <<v, w>>
    OBVIOUS
  <2> QED
    BY <2>1, <2>2
<1>4. ASSUME NEW e \in Parts(v), NEW u \in Values, <<e, u>> \in X PROVE FALSE
  <2>1. Depth[e] \in T
    BY <1>4
  <2>2. Depth[e] < Depth[v]
    BY DepthAssumption
  <2> HIDE DEF T
  <2> QED
    BY <1>2, <1>3, <2>1, <2>2
<1> QED
  BY <1>3, <1>4

(* Nothing is nested as deep as what it is in. *)
LEMMA SubvaluesAreShallower ==
  ASSUME NEW v \in Values, NEW x \in Subvalues[v]
  PROVE  x \in Values /\ Depth[x] <= Depth[v]
<1> DEFINE Holds(y) == \A z \in Subvalues[y] : z \in Values /\ Depth[z] <= Depth[y]
           X == {p \in Values \X Values : ~Holds(p[1])}
<1>1. ASSUME X # {} PROVE FALSE
  <2>1. PICK y \in Values, w \in Values :
          <<y, w>> \in X /\ \A e \in Parts(y), u \in Values : <<e, u>> \notin X
    <3>1. X \subseteq Values \X Values
      OBVIOUS
    <3> HIDE DEF X
    <3> QED
      BY <1>1, <3>1, LeastValues
  <2>2. ASSUME NEW z \in Subvalues[y] PROVE z \in Values /\ Depth[z] <= Depth[y]
    <3>1. Subvalues[y] = {y} \cup UNION {Subvalues[e] : e \in Parts(y)}
      BY SubvaluesEquation
    <3>2. CASE z = y
      BY <3>2, DepthAssumption
    <3>3. ASSUME NEW e \in Parts(y), z \in Subvalues[e]
          PROVE  z \in Values /\ Depth[z] <= Depth[y]
      <4>1. e \in Values /\ Depth[e] < Depth[y] /\ Depth \in [Values -> Nat]
        BY DepthAssumption
      <4>2. Holds(e)
        <5>1. <<e, w>> \notin X
          BY <2>1
        <5> QED
          BY <5>1, <4>1
      <4>3. z \in Values /\ Depth[z] <= Depth[e]
        BY <3>3, <4>2
      <4> QED
        BY <4>1, <4>3
    <3> QED
      BY <3>1, <3>2, <3>3
  <2> QED
    BY <2>1, <2>2
<1>2. <<v, v>> \notin X
  BY <1>1
<1> QED
  BY <1>2

-----------------------------------------------------------------------------
(* Equality, numbers and keywords *)

LEMMA Shapes ==
  ASSUME NEW v \in Values
  PROVE  /\ Is(v, "int") => v.int \in Int
         /\ Is(v, "float") => v = [float |-> v.float] /\ v.float \in Int \cup {NaN}
         /\ Is(v, "bool") => v = [bool |-> v.bool] /\ v.bool \in BOOLEAN
         /\ Is(v, "str") => v = [str |-> v.str] /\ Len(v.str) \in Nat
<1> DEFINE Shape ==
       \/ v \in [str : STRING] /\ Len(v.str) \in Nat
       \/ v \in [int : Int]
       \/ v \in [float : Int \cup {NaN}]
       \/ v \in [bool : BOOLEAN]
       \/ v \in [none : {TRUE}]
       \/ v \in [list : Seq(Values)]
       \/ DOMAIN v = {"dict"}
<1>1. Shape
  BY ValuesAssumption
<1>2. ASSUME Is(v, "int") PROVE v.int \in Int
  <2>1. DOMAIN v = {"int"}
    BY <1>2, KindOf
  <2> QED
    BY <1>1, <2>1
<1>3. ASSUME Is(v, "float") PROVE v = [float |-> v.float] /\ v.float \in Int \cup {NaN}
  <2>1. DOMAIN v = {"float"}
    BY <1>3, KindOf
  <2> QED
    BY <1>1, <2>1
<1>4. ASSUME Is(v, "bool") PROVE v = [bool |-> v.bool] /\ v.bool \in BOOLEAN
  <2>1. DOMAIN v = {"bool"}
    BY <1>4, KindOf
  <2> QED
    BY <1>1, <2>1
<1>5. ASSUME Is(v, "str") PROVE v = [str |-> v.str] /\ Len(v.str) \in Nat
  <2>1. DOMAIN v = {"str"}
    BY <1>5, KindOf
  <2> QED
    BY <1>1, <2>1
<1> QED
  BY <1>2, <1>3, <1>4, <1>5

LEMMA HalvesOf ==
  ASSUME NEW v \in Values
  PROVE  /\ Is(v, "bool") => Halves(v) \in Int
         /\ IsNumber(v) => Halves(v) \in Int \/ v = [float |-> NaN]
         /\ Halves(v) \in Int => Halves(v) # NaN
<1>1. ASSUME Is(v, "bool") PROVE Halves(v) \in Int
  <2>1. ~Is(v, "int") /\ ~Is(v, "float")
    BY <1>1, OneKind
  <2> QED
    BY <1>1, <2>1 DEF Halves
<1>2. ASSUME Is(v, "int") PROVE Halves(v) \in Int
  <2>1. ~Is(v, "bool") /\ ~Is(v, "float") /\ v.int \in Int
    BY <1>2, OneKind, Shapes
  <2> QED
    BY <1>2, <2>1 DEF Halves
<1>3. ASSUME Is(v, "float") PROVE Halves(v) \in Int \/ v = [float |-> NaN]
  <2>1. ~Is(v, "bool") /\ ~Is(v, "int")
    BY <1>3, OneKind
  <2>2. Halves(v) = v.float
    BY <1>3, <2>1 DEF Halves
  <2> QED
    BY <1>3, <2>2, Shapes
<1> QED
  BY <1>1, <1>2, <1>3, ValuesAssumption DEF IsNumber

(* What JSON takes for equal, Python does as well. *)
LEMMA JsonEqualIsPythonEqual ==
  ASSUME NEW v \in Values, NEW w \in Values, JsonEqual[<<v, w>>]
  PROVE  PythonEqual[<<v, w>>]
<1> DEFINE X == {p \in Values \X Values : JsonEqual[p] /\ ~PythonEqual[p]}
<1>1. ASSUME NEW a \in Values, NEW b \in Values, <<a, b>> \in X,
             \A e \in Parts(a), u \in Values : <<e, u>> \notin X
      PROVE  FALSE
  <2>1. Same(JsonEqual, {"int", "float"}, a, b)
        /\ ~Same(PythonEqual, {"int", "float", "bool"}, a, b)
    BY <1>1, PythonEqualEquation, JsonEqualEquation
  <2>2. \A e \in Parts(a), u \in Values : JsonEqual[<<e, u>>] => PythonEqual[<<e, u>>]
    <3> SUFFICES ASSUME NEW e \in Parts(a), NEW u \in Values, JsonEqual[<<e, u>>]
                 PROVE  PythonEqual[<<e, u>>]
      OBVIOUS
    <3>1. e \in Values
      BY DepthAssumption
    <3> QED
      BY <1>1, <3>1
  <2> HIDE DEF X
  <2>3. CASE {Kind(a), Kind(b)} \subseteq {"int", "float"}
    BY <2>1, <2>3 DEF Same
  <2>4. CASE ~({Kind(a), Kind(b)} \subseteq {"int", "float"}) /\ Kind(a) = "bool"
    <3>1. PICK k : Is(a, k)
      BY ValuesAssumption DEF Is
    <3>2. Is(a, "bool")
      BY <2>4, <3>1, KindOf
    <3>3. Kind(b) = "bool" /\ ~Is(a, "list") /\ ~Is(a, "dict")
      BY <2>1, <2>4, <3>2, OneKind DEF Same
    <3>4. a = b
      BY <2>1, <2>4, <3>3 DEF Same
    <3>5. Ordered(a, b)
      BY <3>2, <3>4, HalvesOf DEF Ordered
    <3> QED
      BY <2>1, <2>4, <3>3, <3>4, <3>5 DEF Same
  <2>5. CASE ~({Kind(a), Kind(b)} \subseteq {"int", "float"}) /\ Kind(a) # "bool"
    <3>1. Kind(a) = Kind(b) /\ ~({Kind(a), Kind(b)} \subseteq {"int", "float", "bool"})
      BY <2>1, <2>5 DEF Same
    <3>2. CASE Is(a, "list")
      <4>1. ~Is(a, "dict") /\ Is(b, "list")
        BY <3>1, <3>2, OneKind, SameKind
      <4>2. Len(a.list) = Len(b.list) /\ \A i \in DOMAIN a.list : JsonEqual[<<a.list[i], b.list[i]>>]
        BY <2>1, <2>5, <3>2, <4>1 DEF Same
      <4>3. \A i \in DOMAIN a.list : a.list[i] \in Parts(a) /\ b.list[i] \in Values
        BY <3>2, <4>1, <4>2, ListsAreSequences DEF Parts, Elements
      <4>4. \A i \in DOMAIN a.list : PythonEqual[<<a.list[i], b.list[i]>>]
        BY <2>2, <4>2, <4>3
      <4> QED
        BY <2>1, <3>1, <3>2, <4>1, <4>2, <4>4 DEF Same
    <3>3. CASE Is(a, "dict")
      <4>1. ~Is(a, "list") /\ Is(b, "dict")
        BY <3>1, <3>3, OneKind, SameKind
      <4>2. DOMAIN a.dict = DOMAIN b.dict /\ \A k \in DOMAIN a.dict : JsonEqual[<<a.dict[k], b.dict[k]>>]
        BY <2>1, <2>5, <3>3, <4>1 DEF Same
      <4>3. \A k \in DOMAIN a.dict : a.dict[k] \in Parts(a)
        BY <3>3, <4>1 DEF Parts
      <4>4. \A k \in DOMAIN a.dict : b.dict[k] \in Values
        BY <4>1, <4>2, EntriesWithin
      <4>5. \A k \in DOMAIN a.dict : PythonEqual[<<a.dict[k], b.dict[k]>>]
        BY <2>2, <4>2, <4>3, <4>4
      <4> QED
        BY <2>1, <3>1, <3>3, <4>1, <4>2, <4>5 DEF Same
    <3>4. CASE ~Is(a, "list") /\ ~Is(a, "dict")
      BY <2>1, <2>5, <3>1, <3>4 DEF Same
    <3> QED
      BY <3>2, <3>3, <3>4
  <2> QED
    BY <2>3, <2>4, <2>5
<1>2. X = {}
  <2>1. X \subseteq Values \X Values
    OBVIOUS
  <2> HIDE DEF X
  <2> QED
    BY <1>1, <2>1, LeastValues
<1>3. <<v, w>> \notin X
  BY <1>2
<1> QED
  BY <1>3

LEMMA Comparisons ==
  ASSUME NEW v \in Values, NEW w \in Values, IsNumber(v), IsNumber(w)
  PROVE  /\ Less(v, w) => ~AtMost(w, v)
         /\ AtMost(v, w) => ~Less(w, v)
         /\ v # [float |-> NaN] /\ w # [float |-> NaN] =>
              (~Less(v, w) => AtMost(w, v)) /\ (~AtMost(v, w) => Less(w, v))
<1>1. Ordered(v, w) => Halves(v) \in Int /\ Halves(w) \in Int
  <2>1. v = [float |-> NaN] => Halves(v) = NaN
    BY DEF Halves, Is
  <2>2. w = [float |-> NaN] => Halves(w) = NaN
    BY DEF Halves, Is
  <2> QED
    BY <2>1, <2>2, HalvesOf DEF Ordered
<1>2. v # [float |-> NaN] /\ w # [float |-> NaN] => Halves(v) \in Int /\ Halves(w) \in Int /\ Ordered(v, w)
  BY HalvesOf DEF Ordered
<1>3. Ordered(v, w) <=> Ordered(w, v)
  BY DEF Ordered
<1> QED
  BY <1>1, <1>2, <1>3 DEF Less, AtMost

LEMMA Operands ==
  ASSUME NEW s \in Schemas
  PROVE  /\ \A k \in Sizes \cap DOMAIN s.dict : s.dict[k].int \in Nat
         /\ \A k \in Bounds \cap DOMAIN s.dict : s.dict[k] \in Values /\ IsNumber(s.dict[k])
         /\ "type" \in DOMAIN s.dict => Declared(s.dict.type) \subseteq JsonTypes
         /\ "enum" \in DOMAIN s.dict => Elements(s.dict.enum) \subseteq Values
         /\ "const" \in DOMAIN s.dict => s.dict.const \in Values
<1>1. CheckSubschema(IsSubschema, s) /\ s \in Values /\ Is(s, "dict")
  BY SchemaParts
<1>2. \A k \in DOMAIN s.dict : s.dict[k] \in Values
  BY <1>1, EntriesWithin
<1>3. ASSUME NEW k \in Sizes \cap DOMAIN s.dict PROVE s.dict[k].int \in Nat
  <2>1. Is(s.dict[k], "int") /\ s.dict[k].int >= 0
    BY <1>1 DEF CheckSubschema
  <2>2. s.dict[k] \in Values
    BY <1>2
  <2>3. s.dict[k].int \in Int
    BY <2>1, <2>2, Shapes
  <2> QED
    BY <2>1, <2>3
<1>4. \A k \in Bounds \cap DOMAIN s.dict : IsNumber(s.dict[k])
  BY <1>1 DEF CheckSubschema
<1>5. "type" \in DOMAIN s.dict => Declared(s.dict.type) \subseteq JsonTypes
  BY <1>1 DEF CheckSubschema
<1>6. ASSUME "enum" \in DOMAIN s.dict PROVE Elements(s.dict.enum) \subseteq Values
  <2>1. Is(s.dict.enum, "list")
    BY <1>1, <1>6 DEF CheckSubschema
  <2>2. s.dict.enum \in Values
    BY <1>2, <1>6
  <2> QED
    BY <2>1, <2>2, ElementsWithin
<1> QED
  BY <1>2, <1>3, <1>4, <1>5, <1>6

(* The part of JSON Schema that is about a value and no value inside it. *)
OwnKeywords(s, v) ==
  LET given(k) == k \in DOMAIN s.dict
      w(k) == s.dict[k] IN
  /\ given("enum") => \E e \in Elements(w("enum")) : JsonEqual[<<v, e>>]
  /\ given("const") => JsonEqual[<<v, w("const")>>]
  /\ IsNumber(v) =>
       /\ given("minimum") => AtMost(w("minimum"), v)
       /\ given("maximum") => AtMost(v, w("maximum"))
       /\ given("exclusiveMinimum") => Less(w("exclusiveMinimum"), v)
       /\ given("exclusiveMaximum") => Less(v, w("exclusiveMaximum"))
  /\ Is(v, "str") =>
       /\ given("minLength") => Len(v.str) >= w("minLength").int
       /\ given("maxLength") => Len(v.str) <= w("maxLength").int
       /\ given("pattern") => v.str \in Matching[w("pattern").str]
  /\ Is(v, "list") =>
       /\ given("minItems") => Len(v.list) >= w("minItems").int
       /\ given("maxItems") => Len(v.list) <= w("maxItems").int

LEMMA SatisfiesMeans ==
  ASSUME NEW s, NEW v
  PROVE  IsValid[<<s, v>>] = Satisfies(IsValid, s, v) =>
    (IsValid[<<s, v>>] <=>
      /\ "type" \in DOMAIN s.dict => \E t \in Declared(s.dict.type) : IsOfType(v, t)
      /\ OwnKeywords(s, v)
      /\ Is(v, "list") /\ "items" \in DOMAIN s.dict =>
           \A e \in Elements(v) : IsValid[<<s.dict.items, e>>]
      /\ Is(v, "dict") =>
           /\ "required" \in DOMAIN s.dict =>
                \A r \in Elements(s.dict.required) : r.str \in DOMAIN v.dict
           /\ Operand(s, "additionalProperties") = [bool |-> FALSE] =>
                DOMAIN v.dict \subseteq DOMAIN Properties(s)
           /\ \A p \in DOMAIN Properties(s) \cap DOMAIN v.dict :
                IsValid[<<Properties(s)[p], v.dict[p]>>])
BY Zenon DEF Satisfies, OwnKeywords

(* What the code turns down for a keyword, JSON Schema turns down. *)
LEMMA ViolatedKeyword ==
  ASSUME NEW s \in Schemas, NEW v \in Values, NEW k \in DOMAIN s.dict,
         Violates(k, s.dict[k], v)
  PROVE  ~OwnKeywords(s, v)
<1> SUFFICES ASSUME OwnKeywords(s, v) PROVE FALSE
  OBVIOUS
<1>1. CASE k = "enum" /\ ~\E e \in Elements(s.dict[k]) : PythonEqual[<<v, e>>]
  <2>1. PICK e \in Elements(s.dict.enum) : JsonEqual[<<v, e>>]
    BY <1>1 DEF OwnKeywords
  <2>2. e \in Values
    BY <1>1, Operands
  <2> QED
    BY <1>1, <2>1, <2>2, JsonEqualIsPythonEqual
<1>2. CASE k = "const" /\ ~PythonEqual[<<v, s.dict[k]>>]
  <2>1. JsonEqual[<<v, s.dict[k]>>] /\ s.dict[k] \in Values
    BY <1>2, Operands DEF OwnKeywords
  <2> QED
    BY <1>2, <2>1, JsonEqualIsPythonEqual
<1>3. CASE k = "pattern" /\ Is(v, "str") /\ v.str \notin Matching[s.dict[k].str]
  BY <1>3 DEF OwnKeywords
<1>4. CASE IsBeyond(k, s.dict[k], v)
  <2>1. k \in Bounds /\ IsNumber(v)
    BY <1>4 DEF IsBeyond, Bounds
  <2>2. s.dict[k] \in Values /\ IsNumber(s.dict[k])
    BY <2>1, Operands
  <2>3. CASE k = "minimum"
    BY <2>3, <1>4, <2>1, <2>2, Comparisons DEF IsBeyond, OwnKeywords
  <2>4. CASE k = "maximum"
    BY <2>4, <1>4, <2>1, <2>2, Comparisons DEF IsBeyond, OwnKeywords
  <2>5. CASE k = "exclusiveMinimum"
    BY <2>5, <1>4, <2>1, <2>2, Comparisons DEF IsBeyond, OwnKeywords
  <2>6. CASE k = "exclusiveMaximum"
    BY <2>6, <1>4, <2>1, <2>2, Comparisons DEF IsBeyond, OwnKeywords
  <2> QED
    BY <2>1, <2>3, <2>4, <2>5, <2>6 DEF Bounds
<1>5. CASE IsMisSized(k, s.dict[k], v)
  <2>1. k \in Sizes
    BY <1>5 DEF IsMisSized, Sizes
  <2>2. s.dict[k].int \in Nat
    BY <2>1, Operands
  <2>3. CASE Is(v, "str")
    <3>1. Len(v.str) \in Nat /\ ~Is(v, "list")
      BY <2>3, Shapes, OneKind
    <3> QED
      BY <1>5, <2>2, <2>3, <3>1 DEF IsMisSized, OwnKeywords
  <2>4. CASE Is(v, "list")
    <3>1. Len(v.list) \in Nat /\ ~Is(v, "str")
      BY <2>4, ListsAreSequences, OneKind
    <3> QED
      BY <1>5, <2>2, <2>4, <3>1 DEF IsMisSized, OwnKeywords
  <2> QED
    BY <1>5, <2>3, <2>4 DEF IsMisSized
<1> QED
  BY <1>1, <1>2, <1>3, <1>4, <1>5 DEF Violates

(* Where the code and JSON Schema differ about a value that is let through. *)
SeenOtherwise(s, v) ==
  \/ [float |-> NaN] \in Subvalues[v] \cup Subvalues[s]
  \/ \E x \in Subvalues[v], w \in Literals(s) : PythonEqual[<<x, w>>] /\ ~JsonEqual[<<x, w>>]

LEMMA KeywordsHold ==
  ASSUME NEW s \in Schemas, NEW v \in Values, ~SeenOtherwise(s, v),
         \A k \in DOMAIN s.dict : ~Violates(k, s.dict[k], v)
  PROVE  OwnKeywords(s, v)
<1>1. \A w \in Literals(s) : PythonEqual[<<v, w>>] => JsonEqual[<<v, w>>]
  BY SubvaluesGrow DEF SeenOtherwise
<1>2. "enum" \in DOMAIN s.dict => \E e \in Elements(s.dict.enum) : JsonEqual[<<v, e>>]
  <2> SUFFICES ASSUME "enum" \in DOMAIN s.dict
               PROVE  \E e \in Elements(s.dict.enum) : JsonEqual[<<v, e>>]
    OBVIOUS
  <2>1. ~Violates("enum", s.dict["enum"], v)
    OBVIOUS
  <2>2. PICK e \in Elements(s.dict["enum"]) : PythonEqual[<<v, e>>]
    BY <2>1, Zenon DEF Violates
  <2>3. e \in Literals(s)
    BY OwnLiterals
  <2> QED
    BY <1>1, <2>2, <2>3
<1>3. "const" \in DOMAIN s.dict => JsonEqual[<<v, s.dict.const>>]
  BY <1>1, OwnLiterals DEF Violates
<1>4. ASSUME IsNumber(v), NEW k \in Bounds \cap DOMAIN s.dict
      PROVE  /\ k = "minimum" => AtMost(s.dict[k], v)
             /\ k = "maximum" => AtMost(v, s.dict[k])
             /\ k = "exclusiveMinimum" => Less(s.dict[k], v)
             /\ k = "exclusiveMaximum" => Less(v, s.dict[k])
  <2>1. PICK w \in Values : w = s.dict[k] /\ IsNumber(w)
    BY Operands
  <2>2. v # [float |-> NaN] /\ w # [float |-> NaN]
    <3>1. v \in Subvalues[v] /\ w \in Subvalues[w] /\ Subvalues[w] \subseteq Subvalues[s]
      BY <2>1, SubvaluesGrow, OperandsAreSubvalues
    <3> QED
      BY <3>1 DEF SeenOtherwise
  <2>3. ~IsBeyond(k, w, v)
    BY <2>1 DEF Violates
  <2> QED
    BY <1>4, <2>1, <2>2, <2>3, Comparisons DEF IsBeyond
<1>5. ASSUME Is(v, "str"), NEW k \in Sizes \cap DOMAIN s.dict
      PROVE  /\ k = "minLength" => Len(v.str) >= s.dict[k].int
             /\ k = "maxLength" => Len(v.str) <= s.dict[k].int
  <2>1. ~IsMisSized(k, s.dict[k], v)
    BY Zenon DEF Violates
  <2>2. Len(v.str) \in Nat /\ s.dict[k].int \in Nat
    BY <1>5, Operands, Shapes
  <2> QED
    BY <1>5, <2>1, <2>2 DEF IsMisSized
<1>6. ASSUME Is(v, "list"), NEW k \in Sizes \cap DOMAIN s.dict
      PROVE  /\ k = "minItems" => Len(v.list) >= s.dict[k].int
             /\ k = "maxItems" => Len(v.list) <= s.dict[k].int
  <2>1. ~IsMisSized(k, s.dict[k], v)
    BY Zenon DEF Violates
  <2>2. Len(v.list) \in Nat /\ s.dict[k].int \in Nat
    BY <1>6, Operands, ListsAreSequences
  <2> QED
    BY <1>6, <2>1, <2>2 DEF IsMisSized
<1>7. Is(v, "str") /\ "pattern" \in DOMAIN s.dict => v.str \in Matching[s.dict.pattern.str]
  BY DEF Violates
<1> QED
  BY <1>2, <1>3, <1>4, <1>5, <1>6, <1>7 DEF OwnKeywords, Bounds, Sizes

-----------------------------------------------------------------------------
(* What a check finds *)

WrongType(s, v) ==
  "type" \in DOMAIN s.dict /\ \A t \in Declared(s.dict.type) : ~MatchesType(v, t)

HasNull(s) == \E k \in {"properties", "required"} : k \in DOMAIN s.dict /\ s.dict[k] = None

(* Of a dict whose schema has properties and required that can be read. *)
FoundInDict(s, v, x) ==
  \/ /\ x = "error" /\ "required" \in DOMAIN s.dict
     /\ \E r \in Elements(s.dict.required) : r.str \notin DOMAIN v.dict
  \/ /\ x = "error" /\ Operand(s, "additionalProperties") # [bool |-> TRUE]
     /\ ~(DOMAIN v.dict \subseteq DOMAIN Properties(s))
  \/ \E p \in DOMAIN Properties(s) \cap DOMAIN v.dict :
       x \in CheckValue[<<Properties(s)[p], v.dict[p]>>]

Found(s, v, x) ==
  IF WrongType(s, v) THEN x = "error"
  ELSE \/ x = "error" /\ \E k \in DOMAIN s.dict : Violates(k, s.dict[k], v)
       \/ /\ Is(v, "list") /\ "items" \in DOMAIN s.dict
          /\ \E e \in Elements(v) : x \in CheckValue[<<s.dict.items, e>>]
       \/ Is(v, "dict") /\ HasNull(s) /\ x = "raise"
       \/ Is(v, "dict") /\ ~HasNull(s) /\ FoundInDict(s, v, x)

LEMMA ReadableUnlessNull ==
  ASSUME NEW s \in Schemas
  PROVE  HasNull(s) <=> \/ ~Is(Get(s, "properties", [dict |-> <<>>]), "dict")
                        \/ ~Is(Get(s, "required", [list |-> <<>>]), "list")
<1> DEFINE props == Get(s, "properties", [dict |-> <<>>])
           required == Get(s, "required", [list |-> <<>>])
<1>1. CheckSubschema(IsSubschema, s)
  BY SchemaParts
<1>2. ~Is(None, "dict") /\ ~Is(None, "list")
  BY DEF None, Is
<1>3. Is(props, "dict") <=> ~("properties" \in DOMAIN s.dict /\ s.dict["properties"] = None)
  <2>1. Operand(s, "properties") = None \/ Is(Operand(s, "properties"), "dict")
    BY SchemaParts
  <2>2. Is([dict |-> <<>>], "dict")
    BY DEF Is
  <2> QED
    BY <1>2, <2>1, <2>2 DEF Operand, Get
<1>4. Is(required, "list") <=> ~("required" \in DOMAIN s.dict /\ s.dict["required"] = None)
  <2>1. Operand(s, "required") = None \/ Is(Operand(s, "required"), "list")
    BY <1>1 DEF CheckSubschema
  <2>2. Is([list |-> <<>>], "list")
    BY DEF Is
  <2> QED
    BY <1>2, <2>1, <2>2 DEF Operand, Get
<1> QED
  BY <1>3, <1>4 DEF HasNull

LEMMA FoundIs ==
  ASSUME NEW s \in Schemas, NEW v \in Values, NEW x
  PROVE  x \in CheckValue[<<s, v>>] <=> Found(s, v, x)
<1> DEFINE props == Get(s, "properties", [dict |-> <<>>])
           required == Get(s, "required", [list |-> <<>>])
           open == Operand(s, "additionalProperties") = [bool |-> TRUE]
           ofKeywords == {"error" : k \in {k \in DOMAIN s.dict : Violates(k, s.dict[k], v)}}
           ofItems == IF Is(v, "list") /\ "items" \in DOMAIN s.dict
                      THEN UNION {CheckValue[<<s.dict.items, e>>] : e \in Elements(v)} ELSE {}
           ofRequired == {"error" : r \in {r \in Elements(required) : r.str \notin DOMAIN v.dict}}
           ofUndeclared == {"error" : k \in IF open THEN {} ELSE DOMAIN v.dict \ DOMAIN props.dict}
           ofEntries == UNION {CheckValue[<<props.dict[p], v.dict[p]>>] :
                                 p \in DOMAIN props.dict \cap DOMAIN v.dict}
           ofDict == IF ~Is(v, "dict") THEN {}
                     ELSE IF ~Is(props, "dict") \/ ~Is(required, "list") THEN {"raise"}
                     ELSE ofRequired \cup ofUndeclared \cup ofEntries
<1>1. CheckValue[<<s, v>>] = IF WrongType(s, v) THEN {"error"} ELSE ofKeywords \cup ofItems \cup ofDict
  <2>1. Check(CheckValue, s, v) = IF WrongType(s, v) THEN {"error"} ELSE ofKeywords \cup ofItems \cup ofDict
    BY Zenon DEF Check, WrongType
  <2> QED
    BY <2>1, CheckValueIs
<1>2. x \in ofKeywords <=> x = "error" /\ \E k \in DOMAIN s.dict : Violates(k, s.dict[k], v)
  OBVIOUS
<1>3. x \in ofItems <=> /\ Is(v, "list") /\ "items" \in DOMAIN s.dict
                        /\ \E e \in Elements(v) : x \in CheckValue[<<s.dict.items, e>>]
  OBVIOUS
<1>4. x \in ofRequired <=> /\ x = "error" /\ "required" \in DOMAIN s.dict
                           /\ \E r \in Elements(s.dict.required) : r.str \notin DOMAIN v.dict
  <2>1. x \in ofRequired <=> x = "error" /\ \E r \in Elements(required) : r.str \notin DOMAIN v.dict
    <3> HIDE DEF required
    <3> QED
      OBVIOUS
  <2>2. CASE "required" \in DOMAIN s.dict
    BY <2>1, <2>2 DEF Get
  <2>3. CASE "required" \notin DOMAIN s.dict
    <3>1. Elements(required) = {}
      BY <2>3 DEF Get, Elements
    <3> QED
      BY <2>1, <2>3, <3>1
  <2> QED
    BY <2>2, <2>3
<1>5. Is(props, "dict") =>
        (x \in ofUndeclared <=> x = "error" /\ ~open /\ ~(DOMAIN v.dict \subseteq DOMAIN Properties(s)))
  <2>1. Is(props, "dict") => DOMAIN props.dict = DOMAIN Properties(s)
    BY PropertiesRead
  <2> HIDE DEF props
  <2> QED
    BY <2>1
<1>6. Is(props, "dict") =>
        (x \in ofEntries <=> \E p \in DOMAIN Properties(s) \cap DOMAIN v.dict :
                               x \in CheckValue[<<Properties(s)[p], v.dict[p]>>])
  <2>1. Is(props, "dict") => /\ DOMAIN props.dict = DOMAIN Properties(s)
                             /\ \A p \in DOMAIN Properties(s) : props.dict[p] = Properties(s)[p]
    BY PropertiesRead
  <2> HIDE DEF props
  <2> QED
    BY <2>1
<1>7. HasNull(s) <=> ~Is(props, "dict") \/ ~Is(required, "list")
  BY ReadableUnlessNull
<1>8. x \in ofDict <=> \/ Is(v, "dict") /\ HasNull(s) /\ x = "raise"
                       \/ Is(v, "dict") /\ ~HasNull(s) /\ FoundInDict(s, v, x)
  <2> HIDE DEF ofRequired, ofUndeclared, ofEntries, props, required
  <2> QED
    BY <1>4, <1>5, <1>6, <1>7 DEF FoundInDict
<1> HIDE DEF ofKeywords, ofItems, ofDict
<1> QED
  BY <1>1, <1>2, <1>3, <1>8 DEF Found

LEMMA PartsOf ==
  ASSUME NEW v \in Values
  PROVE  /\ \A e \in Parts(v) : e \in Values /\ Depth[e] < Depth[v]
         /\ Is(v, "list") => Elements(v) = Parts(v)
         /\ Is(v, "dict") => \A k \in DOMAIN v.dict : v.dict[k] \in Parts(v)
<1>1. Is(v, "dict") => ~Is(v, "list")
  BY OneKind
<1> QED
  BY <1>1, DepthAssumption DEF Parts

LEMMA CheckValueFinds ==
  ASSUME NEW s \in Schemas, NEW v \in Values
  PROVE  CheckValue[<<s, v>>] \subseteq Findings
<1> DEFINE Y == {p \in Schemas \X Values : CheckValue[p] \subseteq Findings}
<1>1. ASSUME NEW a \in Schemas, NEW b \in Values,
             \A u \in Inner(a), e \in Parts(b) : <<u, e>> \in Y
      PROVE  <<a, b>> \in Y
  <2>1. ASSUME NEW x, Found(a, b, x) PROVE x \in Findings
    <3>1. \A u \in Inner(a), e \in Parts(b) : CheckValue[<<u, e>>] \subseteq Findings
      BY <1>1
    <3>2. CASE /\ Is(b, "list") /\ "items" \in DOMAIN a.dict
               /\ \E e \in Elements(b) : x \in CheckValue[<<a.dict.items, e>>]
      BY <3>1, <3>2, ItemsAreInner, PartsOf
    <3>3. CASE Is(b, "dict") /\ FoundInDict(a, b, x)
      BY <3>1, <3>3, PropertiesAreInner, PartsOf DEF FoundInDict, Findings
    <3> QED
      BY <2>1, <3>2, <3>3 DEF Found, Findings
  <2> QED
    BY <2>1, FoundIs
<1>2. <<s, v>> \in Y
  <2> HIDE DEF Y
  <2> QED
    BY <1>1, PairInduction
<1> QED
  BY <1>2

(* The check ends with an exception that is no ArgumentError only for a    *)
(* null that validate_schema let through.                                  *)
THEOREM RaisesForNull ==
  ASSUME NEW s \in Schemas, NEW v \in Values, "raise" \in CheckValue[<<s, v>>]
  PROVE  \E u \in Subschemas[s] : HasNull(u)
<1> DEFINE Holds(a, b) == "raise" \in CheckValue[<<a, b>>] => \E u \in Subschemas[a] : HasNull(u)
           Y == {p \in Schemas \X Values : Holds(p[1], p[2])}
<1>1. ASSUME NEW a \in Schemas, NEW b \in Values, "raise" \in CheckValue[<<a, b>>],
             \A u \in Inner(a), e \in Parts(b) : Holds(u, e)
      PROVE  \E u \in Subschemas[a] : HasNull(u)
  <2>1. Found(a, b, "raise")
    BY <1>1, FoundIs
  <2>2. CASE HasNull(a)
    BY <2>2, SubschemasGrow
  <2>3. ASSUME NEW u \in Inner(a), NEW e \in Parts(b), "raise" \in CheckValue[<<u, e>>]
        PROVE  \E z \in Subschemas[a] : HasNull(z)
    <3>1. Subschemas[u] \subseteq Subschemas[a]
      BY SubschemasGrow
    <3> QED
      BY <1>1, <2>3, <3>1
  <2>4. CASE /\ Is(b, "list") /\ "items" \in DOMAIN a.dict
             /\ \E e \in Elements(b) : "raise" \in CheckValue[<<a.dict.items, e>>]
    BY <2>3, <2>4, ItemsAreInner, PartsOf
  <2>5. CASE Is(b, "dict") /\ FoundInDict(a, b, "raise")
    BY <2>3, <2>5, PropertiesAreInner, PartsOf DEF FoundInDict
  <2> QED
    BY <2>1, <2>2, <2>4, <2>5 DEF Found
<1>2. ASSUME NEW a \in Schemas, NEW b \in Values,
             \A u \in Inner(a), e \in Parts(b) : <<u, e>> \in Y
      PROVE  <<a, b>> \in Y
  <2>1. \A u \in Inner(a), e \in Parts(b) : Holds(u, e)
    BY <1>2
  <2> QED
    BY <1>1, <2>1
<1>3. <<s, v>> \in Y
  <2> HIDE DEF Y
  <2> QED
    BY <1>2, PairInduction
<1> QED
  BY <1>3

(* What the check finds nothing wrong with is valid, but for the two ways  *)
(* of SeenOtherwise.                                                       *)
THEOREM AcceptsTheValid ==
  ASSUME NEW s \in Schemas, NEW v \in Values, CheckValue[<<s, v>>] = {}
  PROVE  IsValid[<<s, v>>] \/ SeenOtherwise(s, v)
<1> DEFINE Holds(a, b) == CheckValue[<<a, b>>] = {} => IsValid[<<a, b>>] \/ SeenOtherwise(a, b)
           Y == {p \in Schemas \X Values : Holds(p[1], p[2])}
<1>1. ASSUME NEW a \in Schemas, NEW b \in Values, CheckValue[<<a, b>>] = {},
             ~SeenOtherwise(a, b), \A u \in Inner(a), e \in Parts(b) : Holds(u, e)
      PROVE  IsValid[<<a, b>>]
  <2>1. \A x : ~Found(a, b, x)
    BY <1>1, FoundIs
  <2>2. "type" \in DOMAIN a.dict => \E t \in Declared(a.dict.type) : IsOfType(b, t)
    BY <2>1 DEF Found, WrongType, IsOfType
  <2>3. ~WrongType(a, b)
    BY <2>1 DEF Found
  <2>4. \A k \in DOMAIN a.dict : ~Violates(k, a.dict[k], b)
    BY <2>1, <2>3 DEF Found
  <2>5. OwnKeywords(a, b)
    BY <1>1, <2>4, KeywordsHold
  <2>6. ASSUME NEW u \in Inner(a), NEW e \in Parts(b), CheckValue[<<u, e>>] = {}
        PROVE  IsValid[<<u, e>>]
    <3>1. ~SeenOtherwise(u, e)
      <4>1. /\ Subvalues[u] \subseteq Subvalues[a] /\ Subvalues[e] \subseteq Subvalues[b]
            /\ Literals(u) \subseteq Literals(a)
        BY InnerAreSubvalues, SubvaluesGrow, LiteralsGrow
      <4> QED
        BY <1>1, <4>1 DEF SeenOtherwise
    <3> QED
      BY <1>1, <2>6, <3>1
  <2>7. Is(b, "list") /\ "items" \in DOMAIN a.dict => \A e \in Elements(b) : IsValid[<<a.dict.items, e>>]
    <3> SUFFICES ASSUME Is(b, "list"), "items" \in DOMAIN a.dict, NEW e \in Elements(b)
                 PROVE  IsValid[<<a.dict.items, e>>]
      OBVIOUS
    <3>1. CheckValue[<<a.dict.items, e>>] = {}
      BY <2>1, <2>3 DEF Found
    <3> QED
      BY <2>6, <3>1, ItemsAreInner, PartsOf
  <2>8. ASSUME Is(b, "dict") PROVE ~HasNull(a) /\ \A x : ~FoundInDict(a, b, x)
    BY <2>1, <2>3, <2>8 DEF Found
  <2>9. ASSUME Is(b, "dict"), NEW p \in DOMAIN Properties(a) \cap DOMAIN b.dict
        PROVE  IsValid[<<Properties(a)[p], b.dict[p]>>]
    <3>1. CheckValue[<<Properties(a)[p], b.dict[p]>>] = {}
      BY <2>8, <2>9 DEF FoundInDict
    <3> QED
      BY <2>6, <2>9, <3>1, PropertiesAreInner, PartsOf
  <2>10. ASSUME Is(b, "dict"), "required" \in DOMAIN a.dict
         PROVE  \A r \in Elements(a.dict.required) : r.str \in DOMAIN b.dict
    BY <2>8, <2>10 DEF FoundInDict
  <2>11. ASSUME Is(b, "dict"), Operand(a, "additionalProperties") = [bool |-> FALSE]
         PROVE  DOMAIN b.dict \subseteq DOMAIN Properties(a)
    <3>1. [bool |-> FALSE] # [bool |-> TRUE]
      OBVIOUS
    <3> QED
      BY <2>8, <2>11, <3>1 DEF FoundInDict
  <2> QED
    BY <2>2, <2>5, <2>7, <2>9, <2>10, <2>11, SatisfiesMeans, IsValidIs
<1>2. ASSUME NEW a \in Schemas, NEW b \in Values,
             \A u \in Inner(a), e \in Parts(b) : <<u, e>> \in Y
      PROVE  <<a, b>> \in Y
  <2>1. \A u \in Inner(a), e \in Parts(b) : Holds(u, e)
    BY <1>2
  <2> QED
    BY <1>1, <2>1
<1>3. <<s, v>> \in Y
  <2> HIDE DEF Y
  <2> QED
    BY <1>2, PairInduction
<1> QED
  BY <1>3

(* Where the code and JSON Schema differ about a value that is refused.    *)
WholeFloat(u, x) ==
  /\ [str |-> "integer"] \in Declared(Operand(u, "type"))
  /\ Is(x, "float") /\ x.float # NaN /\ x.float % 2 = 0

Undeclared(u, x) == "additionalProperties" \notin DOMAIN u.dict /\ Is(x, "dict")

(* What the check finds an error in is invalid, but for whole floats and   *)
(* undeclared keys where additionalProperties is not given, in this schema *)
(* or one inside it.                                                       *)
THEOREM RefusesTheInvalid ==
  ASSUME NEW s \in Schemas, NEW v \in Values,
         "error" \in CheckValue[<<s, v>>], "raise" \notin CheckValue[<<s, v>>]
  PROVE  \/ ~IsValid[<<s, v>>]
         \/ \E u \in Subschemas[s], x \in Subvalues[v] :
              WholeFloat(u, x) \/ (Undeclared(u, x) /\ (x # v \/ u = s))
<1> DEFINE Otherwise(a, b) == \E u \in Subschemas[a], x \in Subvalues[b] :
                                WholeFloat(u, x) \/ (Undeclared(u, x) /\ (x # b \/ u = a))
           Wrong(a, b) == "error" \in CheckValue[<<a, b>>] /\ "raise" \notin CheckValue[<<a, b>>]
           Holds(a, b) == Wrong(a, b) => ~IsValid[<<a, b>>] \/ Otherwise(a, b)
           Y == {p \in Schemas \X Values : Holds(p[1], p[2])}
<1>1. ASSUME NEW a \in Schemas, NEW b \in Values, Wrong(a, b), IsValid[<<a, b>>],
             \A u \in Inner(a), e \in Parts(b) : Holds(u, e)
      PROVE  Otherwise(a, b)
  <2>1. Found(a, b, "error") /\ ~Found(a, b, "raise")
    BY <1>1, FoundIs
  <2>2. /\ "type" \in DOMAIN a.dict => \E t \in Declared(a.dict.type) : IsOfType(b, t)
        /\ OwnKeywords(a, b)
        /\ Is(b, "list") /\ "items" \in DOMAIN a.dict =>
             \A e \in Elements(b) : IsValid[<<a.dict.items, e>>]
        /\ Is(b, "dict") =>
             /\ "required" \in DOMAIN a.dict =>
                  \A r \in Elements(a.dict.required) : r.str \in DOMAIN b.dict
             /\ Operand(a, "additionalProperties") = [bool |-> FALSE] =>
                  DOMAIN b.dict \subseteq DOMAIN Properties(a)
             /\ \A p \in DOMAIN Properties(a) \cap DOMAIN b.dict :
                  IsValid[<<Properties(a)[p], b.dict[p]>>]
    BY <1>1, SatisfiesMeans, IsValidIs
  <2>3. a \in Subschemas[a] /\ b \in Subvalues[b]
    BY SubschemasGrow, SubvaluesGrow
  <2>4. CASE WrongType(a, b)
    <3>1. PICK t \in Declared(a.dict.type) : IsOfType(b, t) /\ ~MatchesType(b, t)
      BY <2>2, <2>4 DEF WrongType
    <3>2. t.str = "integer" /\ Is(b, "float") /\ b.float # NaN /\ b.float % 2 = 0
      BY <3>1 DEF IsOfType
    <3>3. t \in JsonTypes
      BY <2>4, Operands DEF WrongType
    <3>4. t = [str |-> "integer"]
      BY <3>2, <3>3 DEF JsonTypes
    <3>5. Operand(a, "type") = a.dict.type
      BY <2>4 DEF WrongType, Operand, Get
    <3>6. WholeFloat(a, b)
      BY <3>1, <3>2, <3>4, <3>5 DEF WholeFloat
    <3> QED
      BY <2>3, <3>6
  <2>5. ASSUME NEW u \in Inner(a), NEW e \in Parts(b), Wrong(u, e), IsValid[<<u, e>>]
        PROVE  Otherwise(a, b)
    <3>1. Otherwise(u, e)
      BY <1>1, <2>5
    <3>2. PICK z \in Subschemas[u], x \in Subvalues[e] : WholeFloat(z, x) \/ Undeclared(z, x)
      BY <3>1
    <3>3. z \in Subschemas[a] /\ x \in Subvalues[b]
      BY SubschemasGrow, SubvaluesGrow
    <3>4. x # b
      <4>1. e \in Values /\ Depth[e] < Depth[b]
        BY PartsOf
      <4>2. x \in Values /\ Depth[x] <= Depth[e]
        BY <4>1, SubvaluesAreShallower
      <4> QED
        BY <4>1, <4>2, DepthAssumption
    <3> QED
      BY <3>2, <3>3, <3>4
  <2>6. CASE \E k \in DOMAIN a.dict : Violates(k, a.dict[k], b)
    BY <2>2, <2>6, ViolatedKeyword
  <2>7. CASE /\ Is(b, "list") /\ "items" \in DOMAIN a.dict
             /\ \E e \in Elements(b) : "error" \in CheckValue[<<a.dict.items, e>>]
    <3>1. PICK e \in Elements(b) : "error" \in CheckValue[<<a.dict.items, e>>]
      BY <2>7
    <3>2. CASE WrongType(a, b)
      BY <2>4, <3>2
    <3>3. CASE ~WrongType(a, b)
      <4>1. "raise" \notin CheckValue[<<a.dict.items, e>>]
        BY <2>1, <2>7, <3>3 DEF Found
      <4>2. IsValid[<<a.dict.items, e>>]
        BY <2>2, <2>7
      <4> QED
        BY <2>5, <2>7, <3>1, <4>1, <4>2, ItemsAreInner, PartsOf
    <3> QED
      BY <3>2, <3>3
  <2>8. CASE ~WrongType(a, b) /\ Is(b, "dict") /\ FoundInDict(a, b, "error")
    <3>1. ~FoundInDict(a, b, "raise")
      BY <2>1, <2>8 DEF Found
    <3>2. CASE \E p \in DOMAIN Properties(a) \cap DOMAIN b.dict :
                 "error" \in CheckValue[<<Properties(a)[p], b.dict[p]>>]
      <4>1. PICK p \in DOMAIN Properties(a) \cap DOMAIN b.dict :
              "error" \in CheckValue[<<Properties(a)[p], b.dict[p]>>]
        BY <3>2
      <4>2. "raise" \notin CheckValue[<<Properties(a)[p], b.dict[p]>>]
        BY <3>1 DEF FoundInDict
      <4>3. IsValid[<<Properties(a)[p], b.dict[p]>>]
        BY <2>2, <2>8
      <4> QED
        BY <2>5, <2>8, <4>1, <4>2, <4>3, PropertiesAreInner, PartsOf
    <3>3. CASE /\ Operand(a, "additionalProperties") # [bool |-> TRUE]
               /\ ~(DOMAIN b.dict \subseteq DOMAIN Properties(a))
      <4>1. Operand(a, "additionalProperties") # [bool |-> FALSE]
        BY <2>2, <2>8, <3>3
      <4>2. "additionalProperties" \notin DOMAIN a.dict
        <5>1. SUFFICES ASSUME "additionalProperties" \in DOMAIN a.dict PROVE FALSE
          OBVIOUS
        <5>2. PICK w : w = a.dict["additionalProperties"]
          OBVIOUS
        <5>3. a \in Values /\ Is(a, "dict") /\ CheckSubschema(IsSubschema, a)
          BY SchemaParts
        <5>4. Is(w, "bool") /\ w \in Values
          BY <5>1, <5>2, <5>3, EntriesWithin DEF CheckSubschema
        <5>5. w = [bool |-> TRUE] \/ w = [bool |-> FALSE]
          BY <5>4, Shapes
        <5> QED
          BY <3>3, <4>1, <5>1, <5>2, <5>5 DEF Operand, Get
      <4> QED
        BY <2>3, <2>8, <4>2 DEF Undeclared
    <3> QED
      BY <2>2, <2>8, <3>2, <3>3 DEF FoundInDict
  <2> QED
    BY <2>1, <2>4, <2>6, <2>7, <2>8 DEF Found
<1>2. ASSUME NEW a \in Schemas, NEW b \in Values,
             \A u \in Inner(a), e \in Parts(b) : <<u, e>> \in Y
      PROVE  <<a, b>> \in Y
  <2>1. \A u \in Inner(a), e \in Parts(b) : Holds(u, e)
    <3> HIDE DEF Holds
    <3> QED
      BY <1>2
  <2>2. Holds(a, b)
    <3> HIDE DEF Wrong, Otherwise
    <3> QED
      BY <1>1, <2>1
  <2> HIDE DEF Holds
  <2> QED
    BY <2>2
<1>3. <<s, v>> \in Y
  <2> HIDE DEF Y
  <2> QED
    BY <1>2, PairInduction
<1>4. Holds(s, v)
  <2> HIDE DEF Holds
  <2> QED
    BY <1>3
<1> QED
  BY <1>4

-----------------------------------------------------------------------------
(* The registry *)

Kinds == {"none", "unknown", "denied", "ran", "refused", "raises"}
BothHooks == <<"before", "after">>

(* What validate_args made of the arguments, as the outcome of a call.     *)
Answer(t, args) ==
  IF ValidateArgs(t.schema, args) = "accepted" THEN "ran" ELSE ValidateArgs(t.schema, args)

RegistryTypeOK ==
  /\ \A n \in DOMAIN tools : tools[n] \in Objects
  /\ call \in [pc : {"idle", "decide", "after"}, number : Nat, name : Named \cup {"none"},
              args : Arguments \cup {None}, outcome : Kinds,
              hooks : {<<>>, <<"before">>, BothHooks}, meant : SUBSET Objects]
  /\ call.number > 0 => call.args \in Arguments

(* An entry of the registry is well declared, and under its own name; what *)
(* the model was shown is still there.                                     *)
Registered ==
  /\ \A n \in DOMAIN tools : tools[n].name = n /\ IsWellDeclared(tools[n])
  /\ \A n \in DOMAIN shown : IsDispatchable(n) /\ shown[n] = tools[n]
  /\ \A t \in call.meant : IsDispatchable(call.name) /\ t = Called

(* How far the call is, and what became of it.                             *)
Underway ==
  /\ call.pc = "decide" => call.outcome = "none"
  /\ call.pc # "decide" => (call.outcome = "none" <=> call.number = 0)
  /\ call.outcome = "none" => call.pc # "after"
  /\ call.number = 0 => call.pc = "idle"
  /\ call.pc \in {"decide", "after"} => call.hooks = <<"before">>
  /\ call.pc = "idle" /\ call.number > 0 /\ call.outcome # "raises" => call.hooks = BothHooks
  /\ call.outcome \in {"ran", "refused", "raises"} =>
       call.name \in DOMAIN tools /\ call.outcome = Answer(Called, call.args)
  /\ call.outcome \in {"unknown", "denied"} => call.meant = {}

RegistryInv == RegistryTypeOK /\ Registered /\ Underway

LEMMA HooksAppended == Append(<<"before">>, "after") = BothHooks
<1> DEFINE H == {"before", "after"}
<1>1. PICK x : x = Append(<<"before">>, "after")
  OBVIOUS
<1>2. x \in Seq(H) /\ Len(x) = 2 /\ x[1] = "before" /\ x[2] = "after"
  <2>1. <<"before">> \in Seq(H) /\ "after" \in H /\ Len(<<"before">>) = 1
    OBVIOUS
  <2> QED
    BY <1>1, <2>1, AppendProperties
<1>3. PICK y : y = BothHooks
  OBVIOUS
<1>4. y \in Seq(H) /\ Len(y) = 2 /\ y[1] = "before" /\ y[2] = "after"
  BY <1>3 DEF BothHooks
<1>5. \A i \in 1..2 : i = 1 \/ i = 2
  OBVIOUS
<1> HIDE DEF H
<1>6. x = y
  BY <1>2, <1>4, <1>5, SeqEqual
<1> QED
  BY <1>1, <1>3, <1>6

(* Nothing that is registered ever gives way.                              *)
LEMMA RegisterKeeps ==
  ASSUME NEW t \in Objects, Register(t)
  PROVE  /\ \A n \in DOMAIN tools : n \in DOMAIN tools' /\ tools'[n] = tools[n]
         /\ \A n \in DOMAIN tools' : \/ n \in DOMAIN tools
                                     \/ n = t.name /\ tools'[n] = t /\ IsWellDeclared(t)
<1>1. CASE IsWellDeclared(t) /\ t.name \notin DOMAIN tools
  <2>1. tools' = Entered(t)
    BY <1>1 DEF Register
  <2> QED
    BY <1>1, <2>1 DEF Entered
<1>2. CASE ~(IsWellDeclared(t) /\ t.name \notin DOMAIN tools)
  BY <1>2 DEF Register
<1> QED
  BY <1>1, <1>2

LEMMA RegistryInvInit == RegistryInit => RegistryInv
<1> SUFFICES ASSUME RegistryInit PROVE RegistryInv
  OBVIOUS
<1>1. DOMAIN tools = {} /\ DOMAIN shown = {} /\ call = NoCall
  BY DEF RegistryInit
<1>2. RegistryTypeOK
  BY <1>1 DEF RegistryTypeOK, NoCall, Kinds
<1> QED
  BY <1>1, <1>2 DEF RegistryInv, Registered, Underway, NoCall

LEMMA InvRegister == ASSUME RegistryInv, NEW t \in Objects, Register(t) PROVE RegistryInv'
<1>1. UNCHANGED <<shown, call>>
  BY DEF Register
<1>2. RegistryTypeOK'
  BY <1>1, RegisterKeeps DEF RegistryInv, RegistryTypeOK
<1>3. \A n : IsDispatchable(n) => IsDispatchable(n)' /\ tools'[n] = tools[n]
  BY RegisterKeeps DEF IsDispatchable
<1>4. Registered'
  BY <1>1, <1>3, RegisterKeeps DEF RegistryInv, Registered, Called
<1>5. Underway'
  BY <1>1, RegisterKeeps DEF RegistryInv, Underway, Called, Answer
<1> QED
  BY <1>2, <1>4, <1>5 DEF RegistryInv

LEMMA InvShow == ASSUME RegistryInv, Show PROVE RegistryInv'
<1>1. UNCHANGED <<tools, call>>
  BY DEF Show
<1>2. \A n \in DOMAIN shown' : IsDispatchable(n)' /\ shown'[n] = tools'[n]
  BY DEF Show, IsDispatchable
<1> QED
  BY <1>1, <1>2 DEF RegistryInv, RegistryTypeOK, Registered, Underway, Called, Answer, IsDispatchable

LEMMA InvBeforeCall ==
  ASSUME RegistryInv, NEW name \in Named, NEW args \in Arguments, BeforeCall(name, args)
  PROVE  RegistryInv'
<1> DEFINE meant == IF name \in DOMAIN shown THEN {shown[name]} ELSE {}
<1>1. /\ UNCHANGED <<tools, shown>>
      /\ call' = [pc |-> "decide", number |-> call.number + 1, name |-> name, args |-> args,
                  outcome |-> "none", hooks |-> <<"before">>, meant |-> meant]
  BY DEF BeforeCall
<1>2. \A t \in meant : name \in DOMAIN tools /\ IsDispatchable(name) /\ t = tools[name]
  BY DEF RegistryInv, Registered, IsDispatchable
<1>3. meant \in SUBSET Objects
  BY <1>2 DEF RegistryInv, RegistryTypeOK
<1> HIDE DEF meant
<1>4. call.number + 1 \in Nat /\ call.number + 1 > 0
  BY DEF RegistryInv, RegistryTypeOK
<1>5. RegistryTypeOK'
  BY <1>1, <1>3, <1>4 DEF RegistryInv, RegistryTypeOK, Kinds
<1>6. Registered'
  BY <1>1, <1>2 DEF RegistryInv, Registered, Called, IsDispatchable
<1>7. Underway'
  BY <1>1, <1>4 DEF Underway
<1> QED
  BY <1>5, <1>6, <1>7 DEF RegistryInv

LEMMA InvDecide == ASSUME RegistryInv, Decide PROVE RegistryInv'
<1>1. PICK outcome : outcome = Outcome(call.name, call.args)
  OBVIOUS
<1>2. /\ call.pc = "decide" /\ UNCHANGED <<tools, shown>>
      /\ call' = [call EXCEPT !.pc = IF outcome = "raises" THEN "idle" ELSE "after",
                              !.outcome = outcome]
  BY <1>1 DEF Decide, Decided
<1>3. /\ call'.pc = IF outcome = "raises" THEN "idle" ELSE "after"
      /\ call'.outcome = outcome /\ call'.number = call.number /\ call'.name = call.name
      /\ call'.args = call.args /\ call'.hooks = call.hooks /\ call'.meant = call.meant
  BY <1>2 DEF RegistryInv, RegistryTypeOK
<1>4. outcome = IF call.name \notin DOMAIN tools THEN "unknown"
                ELSE IF Called.requires_network.bool /\ call.name \notin Allowed THEN "denied"
                ELSE Answer(Called, call.args)
  BY <1>1, Zenon DEF Outcome, Answer, Called
<1>5. \A t : Answer(t, call.args) \in {"ran", "refused", "raises"}
  <2>1. \A s : ValidateArgs(s, call.args) \in {"raises", "refused", "accepted"}
    BY DEF ValidateArgs
  <2> QED
    BY <2>1 DEF Answer
<1>6. /\ outcome \in Kinds \ {"none"}
      /\ outcome \in {"ran", "refused", "raises"} =>
           call.name \in DOMAIN tools /\ outcome = Answer(Called, call.args)
      /\ outcome \in {"unknown", "denied"} => ~IsDispatchable(call.name)
  <2>1. Answer(Called, call.args) \in {"ran", "refused", "raises"}
    BY <1>5
  <2>2. IsDispatchable(call.name) <=>
          call.name \in DOMAIN tools /\ (Called.requires_network.bool => call.name \in Allowed)
    BY DEF IsDispatchable, Called
  <2> QED
    BY <1>4, <2>1, <2>2 DEF Kinds
<1>7. RegistryTypeOK'
  BY <1>2, <1>3, <1>6 DEF RegistryInv, RegistryTypeOK
<1>8. Registered'
  BY <1>2, <1>3 DEF RegistryInv, Registered, Called, IsDispatchable
<1>9. outcome \in {"unknown", "denied"} => call.meant = {}
  BY <1>6 DEF RegistryInv, Registered
<1>10. call.number # 0 /\ call.hooks = <<"before">>
  BY <1>2 DEF RegistryInv, Underway
<1>11. Underway'
  BY <1>2, <1>3, <1>6, <1>9, <1>10 DEF Underway, Called, Answer
<1> QED
  BY <1>7, <1>8, <1>11 DEF RegistryInv

LEMMA InvAfterCall == ASSUME RegistryInv, AfterCall PROVE RegistryInv'
<1>1. /\ call.pc = "after" /\ UNCHANGED <<tools, shown>>
      /\ call' = [call EXCEPT !.pc = "idle", !.hooks = Append(call.hooks, "after")]
  BY DEF AfterCall
<1>2. call.hooks = <<"before">> /\ Append(call.hooks, "after") = BothHooks
  BY <1>1, HooksAppended DEF RegistryInv, Underway
<1>3. /\ call'.pc = "idle" /\ call'.hooks = BothHooks /\ call'.outcome = call.outcome
      /\ call'.number = call.number /\ call'.name = call.name /\ call'.args = call.args
      /\ call'.meant = call.meant
  BY <1>1, <1>2 DEF RegistryInv, RegistryTypeOK
<1>4. RegistryTypeOK'
  BY <1>1, <1>2, <1>3 DEF RegistryInv, RegistryTypeOK
<1>5. Registered'
  BY <1>1, <1>3 DEF RegistryInv, Registered, Called, IsDispatchable
<1>6. Underway'
  BY <1>1, <1>3 DEF RegistryInv, Underway, Called, Answer
<1> QED
  BY <1>4, <1>5, <1>6 DEF RegistryInv

(* A name keeps its tool from its registration on, and a call that is      *)
(* being decided or was decided is one of that tool.                       *)
THEOREM RegistryInvariant == RegistrySpec => []RegistryInv
<1>1. RegistryInv /\ [RegistryNext]_registryVars => RegistryInv'
  <2> SUFFICES ASSUME RegistryInv, [RegistryNext]_registryVars PROVE RegistryInv'
    OBVIOUS
  <2>1. CASE UNCHANGED registryVars
    BY <2>1 DEF registryVars, RegistryInv, RegistryTypeOK, Registered, Underway, Called, Answer,
       IsDispatchable
  <2> QED
    BY <2>1, InvRegister, InvShow, InvBeforeCall, InvDecide, InvAfterCall DEF RegistryNext
<1> QED
  BY <1>1, RegistryInvInit, PTL DEF RegistrySpec

LEMMA CalledIs ==
  ASSUME RegistryInv, NEW t, call.name \in DOMAIN tools, t = Called
  PROVE  /\ t.schema \in Schemas /\ ValidateSchema(t.schema)
         /\ "additionalProperties" \in DOMAIN t.schema.dict
<1>1. IsWellDeclared(t) /\ t \in Objects
  BY DEF RegistryInv, RegistryTypeOK, Registered, Called
<1>2. ValidateSchema(t.schema)
  BY <1>1, Zenon DEF IsWellDeclared
<1>3. t.schema \in Values /\ ValidateSchema(t.schema)
  BY <1>1, <1>2, RegistryAssumption
<1>4. t.schema \in Schemas
  BY <1>3 DEF ValidateSchema, Schemas
<1>5. "additionalProperties" \in DOMAIN t.schema.dict
  <2>1. Operand(t.schema, "additionalProperties") = [bool |-> FALSE]
    BY <1>3 DEF ValidateSchema
  <2>2. None # [bool |-> FALSE]
    <3>1. Is(None, "none") /\ ~Is([bool |-> FALSE], "none")
      BY DEF None, Is
    <3> QED
      BY <3>1
  <2> QED
    BY <2>1, <2>2 DEF Operand, Get
<1> QED
  BY <1>3, <1>4, <1>5

LEMMA ArgumentsAreDicts ==
  ASSUME NEW s \in Schemas, NEW v \in Values, ValidateSchema(s), IsValid[<<s, v>>]
  PROVE  Is(v, "dict")
<1>1. "type" \in DOMAIN s.dict /\ s.dict.type = [str |-> "object"]
  <2>1. Operand(s, "type") = [str |-> "object"]
    BY DEF ValidateSchema
  <2>2. None # [str |-> "object"]
    <3>1. Is(None, "none") /\ ~Is([str |-> "object"], "none")
      BY DEF None, Is
    <3> QED
      BY <3>1
  <2> QED
    BY <2>1, <2>2 DEF Operand, Get
<1>2. Declared(s.dict.type) = {[str |-> "object"]}
  <2>1. ~Is([str |-> "object"], "list")
    BY DEF Is
  <2> QED
    BY <1>1, <2>1 DEF Declared
<1>3. IsOfType(v, [str |-> "object"])
  BY <1>1, <1>2, SatisfiesMeans, IsValidIs
<1>4. Kind(v) = "dict"
  BY <1>3 DEF IsOfType, MatchesType, TypesOf
<1>5. PICK k : Is(v, k)
  BY ValuesAssumption DEF Is
<1> QED
  BY <1>4, <1>5, KindOf

(* The arguments of a decided call, and what validate_args made of them.   *)
LEMMA CallIsJudged ==
  ASSUME RegistryInv, call.outcome \in {"ran", "refused", "raises"}
  PROVE  /\ call.name \in DOMAIN tools /\ call.args \in Values
         /\ ValidateArgs(Called.schema, call.args) =
              IF call.outcome = "ran" THEN "accepted" ELSE call.outcome
<1>1. call.name \in DOMAIN tools /\ call.outcome = Answer(Called, call.args)
  BY DEF RegistryInv, Underway
<1>2. call.number # 0 /\ call.number \in Nat
  BY DEF RegistryInv, RegistryTypeOK, Underway
<1>3. call.args \in Values
  BY <1>2, RegistryAssumption DEF RegistryInv, RegistryTypeOK
<1>4. ValidateArgs(Called.schema, call.args) \in {"raises", "refused", "accepted"}
  BY DEF ValidateArgs
<1> QED
  BY <1>1, <1>3, <1>4 DEF Answer

(* A tool only ever sees arguments that are valid, or that the code and    *)
(* JSON Schema see differently: NaN, and literals equal only in Python.    *)
THEOREM AcceptedAreValid == RegistrySpec => []AcceptedIsValid
<1>1. RegistryInv => AcceptedIsValid
  <2> SUFFICES ASSUME RegistryInv, call.outcome = "ran"
               PROVE  \/ IsValid[<<Called.schema, call.args>>]
                      \/ SeenOtherwise(Called.schema, call.args)
    BY DEF AcceptedIsValid, SeenOtherwise
  <2>1. PICK t : t = Called
    OBVIOUS
  <2>2. call.args \in Values /\ t.schema \in Schemas /\ ValidateArgs(t.schema, call.args) = "accepted"
    BY <2>1, CallIsJudged, CalledIs
  <2>3. CheckValue[<<t.schema, call.args>>] = {}
    BY <2>2 DEF ValidateArgs
  <2> QED
    BY <2>1, <2>2, <2>3, AcceptsTheValid
<1> QED
  BY <1>1, RegistryInvariant, PTL

(* Arguments are refused because they are invalid, or for a whole float or *)
(* an undeclared key inside them.                                          *)
THEOREM RefusedAreInvalid == RegistrySpec => []RefusedIsInvalid
<1>1. RegistryInv => RefusedIsInvalid
  <2> SUFFICES ASSUME RegistryInv, call.outcome = "refused", IsValid[<<Called.schema, call.args>>]
               PROVE  \E s \in Subschemas[Called.schema], v \in Subvalues[call.args] :
                        WholeFloat(s, v) \/ (Undeclared(s, v) /\ v # call.args)
    BY DEF RefusedIsInvalid, WholeFloat, Undeclared
  <2>1. PICK t : t = Called
    OBVIOUS
  <2>2. /\ t.schema \in Schemas /\ ValidateSchema(t.schema)
        /\ "additionalProperties" \in DOMAIN t.schema.dict
        /\ call.args \in Values /\ ValidateArgs(t.schema, call.args) = "refused"
    BY <2>1, CallIsJudged, CalledIs
  <2>4. Is(call.args, "dict")
    BY <2>1, <2>2, ArgumentsAreDicts
  <2>5. PICK found : found = CheckValue[<<t.schema, call.args>>]
    OBVIOUS
  <2>6. "raise" \notin found /\ found # {}
    BY <2>2, <2>4, <2>5 DEF ValidateArgs
  <2>7. "error" \in found
    <3>1. PICK x \in found : TRUE
      BY <2>6
    <3>2. x \in Findings
      BY <2>2, <2>5, <3>1, CheckValueFinds
    <3> QED
      BY <2>6, <3>1, <3>2 DEF Findings
  <2>8. \E u \in Subschemas[t.schema], x \in Subvalues[call.args] :
          WholeFloat(u, x) \/ (Undeclared(u, x) /\ (x # call.args \/ u = t.schema))
    BY <2>1, <2>2, <2>5, <2>6, <2>7, RefusesTheInvalid
  <2>9. \A x : ~Undeclared(t.schema, x)
    BY <2>2 DEF Undeclared
  <2> QED
    BY <2>1, <2>8, <2>9
<1> QED
  BY <1>1, RegistryInvariant, PTL

(* Both hooks are called, unless a schema with a null for its properties   *)
(* or required makes the check itself fail.                                *)
THEOREM HooksCalled == RegistrySpec => []HooksAreCalled
<1>1. RegistryInv => HooksAreCalled
  <2> SUFFICES ASSUME RegistryInv, call.pc = "idle", call.number > 0, call.outcome = "raises"
               PROVE  call.name \in DOMAIN tools /\ \E s \in Subschemas[Called.schema] : HasNull(s)
    BY DEF HooksAreCalled, RegistryInv, Underway, BothHooks, HasNull
  <2>1. PICK t : t = Called
    OBVIOUS
  <2>2. /\ call.name \in DOMAIN tools /\ t.schema \in Schemas /\ call.args \in Values
        /\ ValidateArgs(t.schema, call.args) = "raises"
    BY <2>1, CallIsJudged, CalledIs
  <2>3. "raise" \in CheckValue[<<t.schema, call.args>>]
    BY <2>2 DEF ValidateArgs
  <2>4. \E s \in Subschemas[t.schema] : HasNull(s)
    BY <2>2, <2>3, RaisesForNull
  <2> QED
    BY <2>1, <2>2, <2>4
<1> QED
  BY <1>1, RegistryInvariant, PTL

(* A call of a tool the model was shown is judged by the schema it was     *)
(* shown, whatever registrations were tried in between.                    *)
THEOREM ShownIsMeant == RegistrySpec => []CallsMeanWhatWasShown
<1>1. RegistryInv => CallsMeanWhatWasShown
  <2> SUFFICES ASSUME RegistryInv, call.outcome # "none", NEW t \in call.meant
               PROVE  Called = t /\ call.outcome = Answer(t, call.args)
    BY Zenon DEF CallsMeanWhatWasShown, Answer
  <2>1. t = Called
    BY DEF RegistryInv, Registered
  <2>2. call.outcome \in {"ran", "refused", "raises"}
    BY DEF RegistryInv, RegistryTypeOK, Underway, Kinds
  <2> QED
    BY <2>1, <2>2 DEF RegistryInv, Underway
<1> QED
  BY <1>1, RegistryInvariant, PTL
=============================================================================
