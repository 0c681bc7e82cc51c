-------------------------- MODULE Workspace_proofs --------------------------
(***************************************************************************)
(* StaysInside, WriteLeavesOneText and ReadIsTrue hold for every tree,     *)
(* every number of callers and whatever others do to entries and files;    *)
(* and every call takes a bounded number of steps of its own.              *)
(***************************************************************************)
EXTENDS Workspace, SequenceTheorems, TLAPS

Calls ==
  [pc : {"idle", "walk", "real", "parent", "stat", "open", "start", "io", "scan"},
   op : {"read", "write", "list"}, parts : Seq(Names), text : Seq(Blocks), at : Nat,
   obj : Objects \cup {NoFile}, moved : Seq(Blocks),
   how : {"none", "ok", "refused", "failed"}, old : Seq(Blocks),
   edited : BOOLEAN, swapped : BOOLEAN]

(* What the step a call is at says about its record. *)
Consistent(k) ==
  /\ Len(k.parts) <= 2
  /\ k.pc = "walk" => k.at \in 1..Len(k.parts)
  /\ k.pc \notin {"idle", "start", "io"} => k.obj = NoFile
  /\ k.pc \in {"start", "io"} => k.obj \in Files /\ k.op \in {"read", "write"}
  /\ k.pc \notin {"idle", "io"} => k.moved = <<>>
  /\ k.pc = "scan" => k.op = "list"
  /\ k.pc = "open" => k.op # "list"
  /\ k.op # "list" => k.obj \in Files \cup {NoFile}
  /\ k.pc # "idle" => k.how = "none"

TypeOK ==
  /\ tree \in [Places -> [Names -> Entries]]
  /\ \A p \in Places \ Outside, n \in Names : tree[p][n] \in InnerEntries
  /\ content \in [Files -> Seq(Blocks)]
  /\ call \in [Callers -> Calls]
  /\ \A c \in Callers : Consistent(call[c])
  /\ calls \in Nat

(* A call that has looked at the first of two components, and on whose way *)
(* nothing was replaced, still finds no link there.                        *)
FoundNoLink(k) ==
  k.pc # "idle" /\ Len(k.parts) = 2 /\ (k.pc = "walk" => k.at = 2) /\ ~k.swapped =>
    tree[Root][k.parts[1]].kind # "link"

FoundADirectory(k) == k.pc = "scan" /\ ~k.swapped => Lookup(k.parts).kind = "dir"

Inside(k) == k.obj \in Outer \cup Outside => k.swapped

PathInv == \A c \in Callers :
  FoundNoLink(call[c]) /\ FoundADirectory(call[c]) /\ Inside(call[c])

-----------------------------------------------------------------------------

LEMMA TypeInit == Init => TypeOK
<1> SUFFICES ASSUME Init PROVE TypeOK
  OBVIOUS
<1>1. tree \in [Places -> [Names -> Entries]]
  BY TreesAssumption DEF Init
<1>2. \A p \in Places \ Outside, n \in Names : tree[p][n] \in InnerEntries
  BY TreesAssumption DEF Init
<1>3. <<Old, Old>> \in Seq(Blocks)
  BY InputAssumption
<1>4. Asked("idle", "list", <<>>, <<>>) \in Calls
  BY DEF Asked, Calls, Objects
<1>5. Consistent(Asked("idle", "list", <<>>, <<>>))
  BY DEF Asked, Consistent
<1> QED
  BY <1>1, <1>2, <1>3, <1>4, <1>5 DEF Init, TypeOK

(* A step that changes only call[c]. *)
LEMMA OneCall ==
  ASSUME TypeOK, NEW c \in Callers, NEW k \in Calls, Consistent(k),
         call' = [call EXCEPT ![c] = k], UNCHANGED <<tree, content>>, calls' \in Nat
  PROVE  TypeOK'
<1>1. call' \in [Callers -> Calls]
  BY DEF TypeOK
<1>2. \A x \in Callers : Consistent(call'[x])
  BY DEF TypeOK, Consistent
<1> QED
  BY <1>1, <1>2 DEF TypeOK, Consistent

LEMMA TypeOfBegin ==
  ASSUME TypeOK, NEW c \in Callers, NEW op \in {"read", "write", "list"}, NEW rel \in Rels,
         NEW text \in Seq(Blocks), Begin(c, op, rel, text)
  PROVE  TypeOK'
<1> DEFINE refused == [Asked("idle", op, <<>>, text) EXCEPT !.how = "refused"]
           asked == Asked(IF Parts(rel) = <<>> THEN "real" ELSE "walk", op, Parts(rel), text)
<1>1. refused \in Calls /\ Consistent(refused)
  <2>1. <<>> \in Seq(Names) /\ <<>> \in Seq(Blocks) /\ Len(<<>>) <= 2
    OBVIOUS
  <2> QED
    BY <2>1 DEF Asked, Calls, Consistent
<1>2. CASE Accepts(op, rel)
  <2>1. Parts(rel) \in Seq(Names) /\ Len(Parts(rel)) <= 2
    BY <1>2, PathsAssumption DEF Accepts
  <2>2. Parts(rel) # <<>> => 1 \in 1..Len(Parts(rel))
    BY <2>1, EmptySeq
  <2>3. asked \in Calls
    BY <2>1 DEF Asked, Calls, Objects
  <2>4. Consistent(asked)
    BY <2>1, <2>2 DEF Asked, Consistent
  <2>5. call' = [call EXCEPT ![c] = asked] /\ calls' \in Nat /\ UNCHANGED <<tree, content>>
    BY <1>2 DEF Begin, TypeOK
  <2> HIDE DEF asked
  <2> QED
    BY <2>3, <2>4, <2>5, OneCall
<1>3. CASE ~Accepts(op, rel)
  <2>1. call' = [call EXCEPT ![c] = refused] /\ calls' \in Nat /\ UNCHANGED <<tree, content>>
    BY <1>3 DEF Begin, TypeOK
  <2> HIDE DEF refused
  <2> QED
    BY <1>1, <2>1, OneCall
<1> QED
  BY <1>2, <1>3

LEMMA TypeOfEnd ==
  ASSUME TypeOK, NEW c \in Callers, NEW how \in {"ok", "refused", "failed"},
         End(c, how), Unchanged
  PROVE  TypeOK'
<1> DEFINE k == [call[c] EXCEPT !.pc = "idle", !.how = how]
<1>1. call[c] \in Calls /\ Consistent(call[c])
  BY DEF TypeOK
<1>2. k \in Calls /\ Consistent(k)
  BY <1>1 DEF Calls, Consistent
<1>3. call' = [call EXCEPT ![c] = k] /\ calls' \in Nat /\ UNCHANGED <<tree, content>>
  BY DEF End, Unchanged, TypeOK
<1> HIDE DEF k
<1> QED
  BY <1>2, <1>3, OneCall

LEMMA TypeOfGoto ==
  ASSUME TypeOK, NEW c \in Callers,
         NEW pc \in {"real", "parent", "stat", "open", "io", "scan"},
         Consistent([call[c] EXCEPT !.pc = pc]), Goto(c, pc), Unchanged
  PROVE  TypeOK'
<1> DEFINE k == [call[c] EXCEPT !.pc = pc]
<1>1. call[c] \in Calls
  BY DEF TypeOK
<1>2. k \in Calls
  BY <1>1 DEF Calls
<1>3. call' = [call EXCEPT ![c] = k] /\ calls' \in Nat /\ UNCHANGED <<tree, content>>
  BY DEF Goto, Unchanged, TypeOK
<1> HIDE DEF k
<1> QED
  BY <1>2, <1>3, OneCall DEF k

LEMMA TypeOfWalk == ASSUME TypeOK, NEW c \in Callers, Walk(c) PROVE TypeOK'
<1>1. call[c] \in Calls /\ Consistent(call[c]) /\ call[c].pc = "walk"
  BY DEF TypeOK, Walk
<1>2. CASE Refuse(c)
  BY <1>2, TypeOfEnd DEF Refuse
<1>3. CASE Goto(c, "real") /\ Unchanged
  <2>1. Consistent([call[c] EXCEPT !.pc = "real"])
    BY <1>1 DEF Calls, Consistent
  <2> QED
    BY <1>3, <2>1, TypeOfGoto
<1>4. CASE /\ call[c].at # Len(call[c].parts)
           /\ call' = [call EXCEPT ![c].at = @ + 1]
           /\ Unchanged
  <2> DEFINE k == [call[c] EXCEPT !.at = @ + 1]
  <2>1. call[c].at + 1 \in Nat
    BY <1>1 DEF Calls
  <2>2. k \in Calls
    BY <1>1, <2>1 DEF Calls
  <2>3. Consistent(k)
    BY <1>1, <1>4 DEF Calls, Consistent
  <2>4. call' = [call EXCEPT ![c] = k] /\ calls' \in Nat /\ UNCHANGED <<tree, content>>
    BY <1>4 DEF Unchanged, TypeOK
  <2> HIDE DEF k
  <2> QED
    BY <2>2, <2>3, <2>4, OneCall
<1> QED
  BY <1>2, <1>3, <1>4 DEF Walk

LEMMA TypeOfChecks ==
  ASSUME TypeOK, NEW c \in Callers, Real(c) \/ Parent(c) \/ Stat(c)
  PROVE  TypeOK'
<1>1. call[c] \in Calls /\ Consistent(call[c]) /\ call[c].pc \in {"real", "parent", "stat"}
  BY DEF TypeOK, Real, Parent, Stat
<1>2. CASE Refuse(c)
  BY <1>2, TypeOfEnd DEF Refuse
<1>3. ASSUME NEW pc \in {"parent", "stat"}, Goto(c, pc), Unchanged PROVE TypeOK'
  <2>1. Consistent([call[c] EXCEPT !.pc = pc])
    BY <1>1 DEF Calls, Consistent
  <2> QED
    BY <1>3, <2>1, TypeOfGoto
<1>4. CASE Goto(c, IF call[c].op = "list" THEN "scan" ELSE "open") /\ Unchanged
  <2>1. Consistent([call[c] EXCEPT !.pc = IF call[c].op = "list" THEN "scan" ELSE "open"])
    BY <1>1 DEF Calls, Consistent
  <2> QED
    BY <1>4, <2>1, TypeOfGoto
<1> QED
  BY <1>2, <1>3, <1>4 DEF Real, Parent, Stat

LEMMA TypeOfScan == ASSUME TypeOK, NEW c \in Callers, Scan(c) PROVE TypeOK'
<1>1. call[c] \in Calls /\ Consistent(call[c]) /\ call[c].pc = "scan"
  BY DEF TypeOK, Scan
<1>2. CASE Refuse(c)
  BY <1>2, TypeOfEnd DEF Refuse
<1>3. ASSUME NEW p \in Places, Unchanged,
             call' = [call EXCEPT ![c].pc = "idle", ![c].how = "ok", ![c].obj = p]
      PROVE  TypeOK'
  <2> DEFINE k == [call[c] EXCEPT !.pc = "idle", !.how = "ok", !.obj = p]
  <2>1. k \in Calls /\ Consistent(k)
    BY <1>1 DEF Calls, Consistent, Objects
  <2>2. call' = [call EXCEPT ![c] = k] /\ calls' \in Nat /\ UNCHANGED <<tree, content>>
    BY <1>3 DEF Unchanged, TypeOK
  <2> HIDE DEF k
  <2> QED
    BY <2>1, <2>2, OneCall
<1> QED
  BY <1>2, <1>3 DEF Scan

LEMMA TypeOfPut ==
  ASSUME TypeOK, NEW c \in Callers, NEW f \in Files, NEW blocks \in Seq(Blocks),
         NEW next \in Calls, Consistent(next), Put(c, f, blocks, next)
  PROVE  TypeOK'
<1>1. content' \in [Files -> Seq(Blocks)] /\ UNCHANGED <<tree, calls>>
  BY DEF Put, TypeOK
<1>2. ASSUME NEW x \in Callers PROVE call'[x] \in Calls /\ Consistent(call'[x])
  <2>1. call[x] \in Calls /\ Consistent(call[x])
    BY DEF TypeOK
  <2>2. \A e \in BOOLEAN : /\ [call[x] EXCEPT !.edited = e] \in Calls
                           /\ Consistent([call[x] EXCEPT !.edited = e])
    BY <2>1 DEF Calls, Consistent
  <2>3. (call[x].edited \/ call[x].obj = f) \in BOOLEAN
    BY <2>1 DEF Calls
  <2> QED
    BY <2>2, <2>3 DEF Put
<1>3. call' \in [Callers -> Calls]
  BY <1>2 DEF Put
<1> QED
  BY <1>1, <1>2, <1>3 DEF TypeOK

LEMMA TypeOfStart == ASSUME TypeOK, NEW c \in Callers, Start(c) PROVE TypeOK'
<1>1. call[c] \in Calls /\ Consistent(call[c]) /\ call[c].pc = "start"
  BY DEF TypeOK, Start
<1>2. CASE Refuse(c)
  BY <1>2, TypeOfEnd DEF Refuse
<1>3. CASE Put(c, call[c].obj, <<>>, [call[c] EXCEPT !.pc = "io"])
  <2> DEFINE k == [call[c] EXCEPT !.pc = "io"]
  <2>1. k \in Calls /\ Consistent(k) /\ call[c].obj \in Files /\ <<>> \in Seq(Blocks)
    BY <1>1 DEF Calls, Consistent
  <2> HIDE DEF k
  <2> QED
    BY <1>3, <2>1, TypeOfPut DEF k
<1>4. CASE Goto(c, "io") /\ Unchanged
  <2>1. Consistent([call[c] EXCEPT !.pc = "io"])
    BY <1>1 DEF Calls, Consistent
  <2> QED
    BY <1>4, <2>1, TypeOfGoto
<1> QED
  BY <1>2, <1>3, <1>4 DEF Start

LEMMA TypeOfRead == ASSUME TypeOK, NEW c \in Callers, Read(c) PROVE TypeOK'
<1>1. /\ call[c] \in Calls /\ Consistent(call[c])
      /\ call[c].pc = "io" /\ call[c].op = "read" /\ Unchanged
  BY DEF TypeOK, Read
<1>2. ASSUME NEW how \in {"ok", "refused"}, End(c, how) PROVE TypeOK'
  BY <1>1, <1>2, TypeOfEnd
<1>3. CASE /\ Len(call[c].moved) < Len(content[call[c].obj])
           /\ call' = [call EXCEPT ![c].moved =
                Append(call[c].moved, content[call[c].obj][Len(call[c].moved) + 1])]
  <2> DEFINE b == content[call[c].obj][Len(call[c].moved) + 1]
             k == [call[c] EXCEPT !.moved = Append(call[c].moved, b)]
  <2>1. content[call[c].obj] \in Seq(Blocks) /\ call[c].moved \in Seq(Blocks)
    BY <1>1 DEF TypeOK, Calls, Consistent
  <2>2. Len(call[c].moved) + 1 \in 1..Len(content[call[c].obj])
    BY <1>3, <2>1
  <2>3. b \in Blocks
    BY <2>1, <2>2
  <2> HIDE DEF b
  <2>4. k \in Calls /\ Consistent(k)
    <3>1. Append(call[c].moved, b) \in Seq(Blocks)
      BY <1>1, <2>3 DEF Calls
    <3>2. k \in Calls
      BY <1>1, <3>1 DEF Calls
    <3>3. Consistent(k)
      BY <1>1 DEF Consistent, Calls
    <3> QED
      BY <3>2, <3>3
  <2>5. call' = [call EXCEPT ![c] = k] /\ calls' \in Nat /\ UNCHANGED <<tree, content>>
    BY <1>1, <1>3 DEF Unchanged, TypeOK, b
  <2> HIDE DEF k
  <2> QED
    BY <2>4, <2>5, OneCall
<1> QED
  BY <1>2, <1>3 DEF Read

LEMMA OverwrittenIsText ==
  ASSUME NEW s \in Seq(Blocks), NEW i \in Nat \ {0}, NEW b \in Blocks
  PROVE  Overwritten(s, i, b) \in Seq(Blocks)
<1> DEFINE n == IF i > Len(s) THEN i ELSE Len(s)
<1>1. n \in Nat
  OBVIOUS
<1>2. \A j \in 1..n : (IF j = i THEN b ELSE IF j <= Len(s) THEN s[j] ELSE Hole) \in Blocks
  BY InputAssumption
<1> QED
  BY <1>1, <1>2 DEF Overwritten

LEMMA TypeOfWrite == ASSUME TypeOK, NEW c \in Callers, Write(c) PROVE TypeOK'
<1> DEFINE i == Len(call[c].moved) + 1
<1>1. /\ call[c] \in Calls /\ Consistent(call[c])
      /\ call[c].pc = "io" /\ call[c].op = "write"
  BY DEF TypeOK, Write
<1>2. CASE i > Len(call[c].text)
  BY <1>1, <1>2, TypeOfEnd DEF Write
<1>3. CASE ~(i > Len(call[c].text))
  <2> DEFINE b == call[c].text[i]
             k == [call[c] EXCEPT !.moved = Append(@, b)]
             blocks == Overwritten(content[call[c].obj], i, b)
  <2>1. call[c].obj \in Files /\ content[call[c].obj] \in Seq(Blocks)
    BY <1>1 DEF TypeOK, Consistent
  <2>2. i \in Nat \ {0} /\ i \in 1..Len(call[c].text)
    BY <1>1, <1>3 DEF Calls
  <2>3. b \in Blocks
    BY <1>1, <2>2 DEF Calls
  <2>4. k \in Calls /\ Consistent(k)
    <3>1. Append(call[c].moved, b) \in Seq(Blocks)
      BY <1>1, <2>3 DEF Calls
    <3>2. k \in Calls
      BY <1>1, <3>1 DEF Calls
    <3>3. Consistent(k)
      BY <1>1 DEF Consistent, Calls
    <3> QED
      BY <3>2, <3>3
  <2>5. blocks \in Seq(Blocks)
    BY <2>1, <2>2, <2>3, OverwrittenIsText
  <2>6. Put(c, call[c].obj, blocks, k)
    BY <1>3 DEF Write
  <2> HIDE DEF b, k, blocks
  <2> QED
    BY <2>1, <2>4, <2>5, <2>6, TypeOfPut
<1> QED
  BY <1>2, <1>3

(* What a path leads to. *)
LEMMA LookupIsAnEntry ==
  ASSUME TypeOK, NEW parts \in Seq(Names), Len(parts) <= 2
  PROVE  /\ Lookup(parts) \in Entries \cup {[kind |-> "not_a_directory", to |-> NoFile]}
         /\ Lookup(parts).kind = "file" => Lookup(parts).to \in Files
         /\ Lookup(parts).kind \in {"none", "file"} => parts # <<>>
         /\ parts # <<>> => parts[1] \in Names /\ parts[Len(parts)] \in Names
<1>1. parts # <<>> => parts[1] \in Names /\ parts[Len(parts)] \in Names
  OBVIOUS
<1>2. Root \in Places /\ [kind |-> "dir", to |-> Root] \in Entries /\ Nothing \in Entries
  BY PlacesAssumption DEF Entries
<1>3. \A p \in Places, n \in Names : tree[p][n] \in Entries
  BY DEF TypeOK
<1>4. Lookup(parts) \in Entries \cup {[kind |-> "not_a_directory", to |-> NoFile]}
  BY <1>1, <1>2, <1>3 DEF Lookup
<1>5. \A e \in Entries : e.kind = "file" => e.to \in Files
  BY DEF Entries, Nothing
<1>6. Lookup(parts).kind = "file" => Lookup(parts).to \in Files
  BY <1>4, <1>5
<1>7. Lookup(parts).kind \in {"none", "file"} => parts # <<>>
  BY DEF Lookup
<1> QED
  BY <1>1, <1>4, <1>6, <1>7

LEMMA TypeOfOpen == ASSUME TypeOK, NEW c \in Callers, Open(c) PROVE TypeOK'
<1> DEFINE parts == call[c].parts
           e == Lookup(parts)
           p == Holder(parts)
           k(f, old) == [call[c] EXCEPT !.pc = "start", !.obj = f, !.old = old]
<1>1. /\ call[c] \in Calls /\ Consistent(call[c]) /\ call[c].pc = "open"
      /\ parts \in Seq(Names) /\ Len(parts) <= 2
  BY DEF TypeOK, Open, Consistent, Calls
<1>2. ASSUME NEW f \in Files, NEW old \in Seq(Blocks)
      PROVE  k(f, old) \in Calls /\ Consistent(k(f, old))
  <2>1. k(f, old) \in Calls
    BY <1>1 DEF Calls, Objects
  <2>2. Consistent(k(f, old))
    BY <1>1 DEF Calls, Consistent
  <2> QED
    BY <2>1, <2>2
<1>3. CASE Refuse(c)
  BY <1>3, TypeOfEnd DEF Refuse
<1>4. CASE IsOpened(e) /\ Unchanged /\ Opened(c, e.to)
  <2> DEFINE old == IF call[c].op = "write" THEN content[e.to] ELSE <<>>
  <2>1. e.to \in Files
    BY <1>1, <1>4, LookupIsAnEntry DEF IsOpened
  <2>2. old \in Seq(Blocks)
    BY <2>1 DEF TypeOK
  <2>3. /\ call' = [call EXCEPT ![c] = k(e.to, old)]
        /\ calls' \in Nat /\ UNCHANGED <<tree, content>>
    BY <1>4 DEF Opened, Unchanged, TypeOK
  <2>4. k(e.to, old) \in Calls /\ Consistent(k(e.to, old))
    BY <1>2, <2>1, <2>2
  <2> HIDE DEF k, e, old
  <2> QED
    BY <2>3, <2>4, OneCall
<1>5. ASSUME NEW f \in Files, e.kind = "none", p \in Places, Unused(f, p),
             tree' = [tree EXCEPT ![p][parts[Len(parts)]] = [kind |-> "file", to |-> f]],
             content' = [content EXCEPT ![f] = <<>>], Opened(c, f), UNCHANGED calls
      PROVE  TypeOK'
  <2> DEFINE old == IF call[c].op = "write" THEN content'[f] ELSE <<>>
             new == [kind |-> "file", to |-> f]
  <2>1. parts[Len(parts)] \in Names
    BY <1>1, <1>5, LookupIsAnEntry
  <2>2. new \in Entries
    BY DEF Entries
  <2>3. p \notin Outside => new \in InnerEntries
    BY <1>5, <2>2, PlacesAssumption DEF InnerEntries, Unused
  <2>4. tree' \in [Places -> [Names -> Entries]]
    BY <1>5, <2>1, <2>2 DEF TypeOK
  <2>5. \A q \in Places \ Outside, n \in Names : tree'[q][n] \in InnerEntries
    BY <1>5, <2>1, <2>3 DEF TypeOK
  <2>6. content' \in [Files -> Seq(Blocks)] /\ calls' \in Nat
    BY <1>5 DEF TypeOK
  <2>7. old \in Seq(Blocks)
    BY <2>6
  <2>8. k(f, old) \in Calls /\ Consistent(k(f, old))
    BY <1>2, <2>7
  <2>9. call' = [call EXCEPT ![c] = k(f, old)]
    BY <1>5 DEF Opened, TypeOK
  <2> HIDE DEF k, old
  <2>10. call' \in [Callers -> Calls] /\ \A x \in Callers : Consistent(call'[x])
    BY <2>8, <2>9 DEF TypeOK
  <2> QED
    BY <2>4, <2>5, <2>6, <2>10 DEF TypeOK
<1> QED
  BY <1>3, <1>4, <1>5 DEF Open

(* Others change entries and files; calls keep what they have. *)
LEMMA TypeOfOthers == ASSUME TypeOK, Replace \/ Edit PROVE TypeOK'
<1>1. ASSUME NEW x \in Callers, NEW e \in BOOLEAN
      PROVE  /\ [call[x] EXCEPT !.edited = e] \in Calls
             /\ [call[x] EXCEPT !.swapped = e] \in Calls
             /\ Consistent([call[x] EXCEPT !.edited = e])
             /\ Consistent([call[x] EXCEPT !.swapped = e])
  BY DEF TypeOK, Calls, Consistent
<1>2. CASE Replace
  <2>1. PICK m \in Moves :
          /\ tree' = [tree EXCEPT ![m[1]][m[2]] = m[3]]
          /\ call' = [c \in Callers |->
               [call[c] EXCEPT !.swapped = @ \/ IsOnTheWay(call[c], m[1], m[2])]]
    BY <1>2 DEF Replace
  <2>2. m[1] \in Places \ Outside /\ m[2] \in Names /\ m[3] \in InnerEntries /\ m[3] \in Entries
    BY TreesAssumption DEF InnerEntries
  <2>3. /\ tree' \in [Places -> [Names -> Entries]]
        /\ \A p \in Places \ Outside, n \in Names : tree'[p][n] \in InnerEntries
    BY <2>1, <2>2 DEF TypeOK
  <2>4. \A c \in Callers :
          (call[c].swapped \/ IsOnTheWay(call[c], m[1], m[2])) \in BOOLEAN
    BY DEF TypeOK, Calls, IsOnTheWay
  <2>5. call' \in [Callers -> Calls] /\ \A c \in Callers : Consistent(call'[c])
    BY <1>1, <2>1, <2>4
  <2> QED
    BY <1>2, <2>3, <2>5 DEF TypeOK, Replace
<1>3. CASE Edit
  <2>1. PICK m \in Edits :
          /\ content' = [content EXCEPT ![m[1]] = m[2]]
          /\ call' = [c \in Callers |->
               [call[c] EXCEPT !.edited = @ \/ call[c].obj = m[1]]]
    BY <1>3 DEF Edit
  <2>2. m[1] \in Files /\ m[2] \in Seq(Blocks)
    BY InputAssumption
  <2>3. content' \in [Files -> Seq(Blocks)]
    BY <2>1, <2>2 DEF TypeOK
  <2>4. \A c \in Callers : (call[c].edited \/ call[c].obj = m[1]) \in BOOLEAN
    BY DEF TypeOK, Calls
  <2>5. call' \in [Callers -> Calls] /\ \A c \in Callers : Consistent(call'[c])
    BY <1>1, <2>1, <2>4
  <2> QED
    BY <1>3, <2>3, <2>5 DEF TypeOK, Edit
<1> QED
  BY <1>2, <1>3

LEMMA TypeStep == ASSUME TypeOK, [Next]_vars PROVE TypeOK'
<1>1. CASE UNCHANGED vars
  BY <1>1 DEF vars, TypeOK, Consistent
<1>2. ASSUME NEW c \in Callers, NEW rel \in Rels, NEW op \in {"read", "list"},
             Begin(c, op, rel, <<>>)
      PROVE  TypeOK'
  <2>1. <<>> \in Seq(Blocks)
    OBVIOUS
  <2> QED
    BY <1>2, <2>1, TypeOfBegin
<1>3. ASSUME NEW c \in Callers, NEW rel \in Rels, NEW text \in Texts,
             Begin(c, "write", rel, text)
      PROVE  TypeOK'
  BY <1>3, TypeOfBegin, InputAssumption
<1>4. ASSUME NEW c \in Callers, Step(c) PROVE TypeOK'
  BY <1>4, TypeOfWalk, TypeOfChecks, TypeOfOpen, TypeOfStart, TypeOfRead, TypeOfWrite,
     TypeOfScan DEF Step
<1>5. ASSUME NEW c \in Callers, Fail(c) PROVE TypeOK'
  BY <1>5, TypeOfEnd DEF Fail
<1> QED
  BY <1>1, <1>2, <1>3, <1>4, <1>5, TypeOfOthers DEF Next

(* The state of the file tools is well formed: a call that is to read or   *)
(* write has a file open, one that has not opened anything has moved       *)
(* nothing, and nothing under the root is itself outside.                  *)
THEOREM TypeCorrect == Spec => []TypeOK
<1> QED
  BY TypeInit, TypeStep, PTL DEF Spec

-----------------------------------------------------------------------------
(* StaysInside *)

OnPath(k) == FoundNoLink(k) /\ FoundADirectory(k) /\ Inside(k)

LEMMA PathInit == Init => PathInv
<1>1. NoFile \notin Outer \cup Outside
  BY PlacesAssumption DEF Objects
<1>2. OnPath(Asked("idle", "list", <<>>, <<>>))
  BY <1>1 DEF Asked, OnPath, FoundNoLink, FoundADirectory, Inside
<1> QED
  BY <1>2 DEF Init, PathInv, OnPath

(* A step that changes only call[c], and no directory. *)
LEMMA PathOfOne ==
  ASSUME TypeOK, PathInv, NEW c \in Callers, NEW k, OnPath(k),
         call' = [call EXCEPT ![c] = k], UNCHANGED tree
  PROVE  PathInv'
<1>1. ASSUME NEW x \in Callers PROVE OnPath(call'[x])
  BY DEF TypeOK, PathInv, OnPath
<1> QED
  BY <1>1 DEF PathInv, OnPath, FoundNoLink, FoundADirectory, Inside, Lookup, Holder

LEMMA AtMostTwo ==
  ASSUME NEW n \in Nat, n <= 2
  PROVE  (n < 2 \/ n = 2) /\ \A i \in 1..n : i = n \/ (i = 1 /\ n = 2)
  OBVIOUS

LEMMA FirstOfTwo ==
  ASSUME NEW S, NEW s \in Seq(S), Len(s) = 2
  PROVE  SubSeq(s, 1, 1) = <<s[1]>>
<1>1. s[1] \in S /\ \A i \in 1..1 : s[i] \in S
  OBVIOUS
<1> DEFINE sub == SubSeq(s, 1, 1)
           one == <<s[1]>>
<1>2. /\ sub \in Seq(S) /\ Len(sub) = 1
      /\ \A i \in 1..1 : sub[i] = s[1 + i - 1]
  BY <1>1, SubSeqProperties
<1>3. sub[1] = s[1]
  BY <1>2
<1>4. one \in Seq(S) /\ Len(one) = 1 /\ one[1] = s[1]
  BY <1>1
<1>5. \A i \in 1..1 : sub[i] = one[i]
  BY <1>3, <1>4
<1> HIDE DEF sub, one
<1>6. sub = one
  BY <1>2, <1>4, <1>5, SeqEqual
<1> QED
  BY <1>6 DEF sub, one

(* What a call finds that came past the first component without a link. *)
LEMMA FoundInside ==
  ASSUME TypeOK, NEW k \in Calls, Consistent(k), FoundNoLink(k),
         k.pc \notin {"idle", "walk"}, ~k.swapped
  PROVE  /\ Holder(k.parts) \in Places => Holder(k.parts) \notin Outside
         /\ Lookup(k.parts).kind \in {"file", "dir"} =>
              Lookup(k.parts).to \notin Outside \cup Outer
<1> DEFINE parts == k.parts
<1>1. parts \in Seq(Names) /\ Len(parts) <= 2
  BY DEF Calls, Consistent
<1>2. \A e \in InnerEntries : e.kind # "link" => e.to \notin Outside \cup Outer
  BY DEF InnerEntries
<1>3. Root \in Places \ Outside
  BY PlacesAssumption
<1>4. Len(parts) = 2 => parts[1] \in Names /\ parts[Len(parts)] \in Names
  BY <1>1
<1>5. Len(parts) = 2 => tree[Root][parts[1]].to \notin Outside
  BY <1>2, <1>3, <1>4 DEF TypeOK, FoundNoLink
<1>6. Holder(parts) \in Places => Holder(parts) \notin Outside
  <2>1. CASE Len(parts) < 2
    BY <1>3, <2>1 DEF Holder
  <2>2. CASE ~(Len(parts) < 2)
    <3> Len(parts) \in Nat
      BY <1>1
    <3>1. Len(parts) = 2
      BY <1>1, <2>2, AtMostTwo
    <3> QED
      BY <1>5, <2>2, <3>1 DEF Holder
  <2> QED
    BY <2>1, <2>2
<1>7. CASE parts = <<>>
  <2>1. Root \notin Outside \cup Outer
    BY PlacesAssumption
  <2> QED
    BY <1>6, <1>7, <2>1 DEF Lookup
<1>8. CASE parts # <<>> /\ Holder(parts) \in Places
  <2>1. parts[Len(parts)] \in Names
    BY <1>1, <1>8
  <2>2. Lookup(parts) \in InnerEntries
    BY <1>6, <1>8, <2>1 DEF Lookup, TypeOK
  <2> QED
    BY <1>2, <1>6, <2>2
<1>9. CASE parts # <<>> /\ Holder(parts) \notin Places
  BY <1>9 DEF Lookup, Nothing
<1> QED
  BY <1>7, <1>8, <1>9

LEMMA PathOfBegin ==
  ASSUME TypeOK, PathInv, NEW c \in Callers, NEW op, NEW rel \in Rels,
         NEW text, Begin(c, op, rel, text)
  PROVE  PathInv'
<1>1. NoFile \notin Outer \cup Outside
  BY PlacesAssumption DEF Objects
<1>2. OnPath([Asked("idle", op, <<>>, text) EXCEPT !.how = "refused"])
  BY <1>1 DEF Asked, OnPath, FoundNoLink, FoundADirectory, Inside
<1>3. Len(<<>>) # 2
  OBVIOUS
<1>4. OnPath(Asked(IF Parts(rel) = <<>> THEN "real" ELSE "walk", op, Parts(rel), text))
  BY <1>1, <1>3 DEF Asked, OnPath, FoundNoLink, FoundADirectory, Inside
<1> QED
  BY <1>2, <1>4, PathOfOne DEF Begin

LEMMA PathOfEnd ==
  ASSUME TypeOK, PathInv, NEW c \in Callers, NEW how, End(c, how), Unchanged
  PROVE  PathInv'
<1>1. call[c] \in Calls /\ OnPath(call[c])
  BY DEF TypeOK, PathInv, OnPath
<1>2. OnPath([call[c] EXCEPT !.pc = "idle", !.how = how])
  BY <1>1 DEF Calls, OnPath, FoundNoLink, FoundADirectory, Inside
<1>3. call' = [call EXCEPT ![c] = [call[c] EXCEPT !.pc = "idle", !.how = how]]
  BY DEF End, TypeOK
<1> QED
  BY <1>2, <1>3, PathOfOne DEF Unchanged

LEMMA PathOfWalk == ASSUME TypeOK, PathInv, NEW c \in Callers, Walk(c) PROVE PathInv'
<1>1. /\ call[c] \in Calls /\ Consistent(call[c]) /\ OnPath(call[c])
      /\ call[c].pc = "walk" /\ call[c].parts \in Seq(Names)
      /\ call[c].at = Len(call[c].parts) \/ (call[c].at = 1 /\ Len(call[c].parts) = 2)
  <2>1. call[c] \in Calls /\ Consistent(call[c]) /\ OnPath(call[c]) /\ call[c].pc = "walk"
    BY DEF TypeOK, PathInv, OnPath, Walk
  <2>2. call[c].parts \in Seq(Names)
    BY <2>1 DEF Calls
  <2>3. Len(call[c].parts) <= 2 /\ call[c].at \in 1..Len(call[c].parts)
    BY <2>1 DEF Consistent
  <2>4. Len(call[c].parts) \in Nat
    BY <2>2
  <2>5. \/ call[c].at = Len(call[c].parts)
        \/ call[c].at = 1 /\ Len(call[c].parts) = 2
    BY <2>3, <2>4, AtMostTwo
  <2> QED
    BY <2>1, <2>2, <2>5
<1>2. CASE Refuse(c)
  BY <1>2, PathOfEnd DEF Refuse
<1>3. CASE Goto(c, "real") /\ Unchanged /\ call[c].at = Len(call[c].parts)
  <2>1. OnPath([call[c] EXCEPT !.pc = "real"])
    BY <1>1, <1>3 DEF Calls, OnPath, FoundNoLink, FoundADirectory, Inside
  <2>2. call' = [call EXCEPT ![c] = [call[c] EXCEPT !.pc = "real"]]
    BY <1>3 DEF Goto, TypeOK
  <2> QED
    BY <1>3, <2>1, <2>2, PathOfOne DEF Unchanged
<1>4. CASE /\ call[c].at # Len(call[c].parts)
           /\ Lookup(SubSeq(call[c].parts, 1, call[c].at)).kind # "link"
           /\ call' = [call EXCEPT ![c].at = @ + 1]
           /\ Unchanged
  <2>1. call[c].at = 1 /\ Len(call[c].parts) = 2
    BY <1>1, <1>4
  <2>2. SubSeq(call[c].parts, 1, 1) = <<call[c].parts[1]>>
    BY <1>1, <2>1, FirstOfTwo
  <2>3. Lookup(<<call[c].parts[1]>>) = tree[Root][call[c].parts[1]]
    BY PlacesAssumption DEF Lookup, Holder
  <2>4. tree[Root][call[c].parts[1]].kind # "link"
    BY <1>4, <2>1, <2>2, <2>3
  <2>5. OnPath([call[c] EXCEPT !.at = @ + 1])
    BY <1>1, <2>4 DEF Calls, OnPath, FoundNoLink, FoundADirectory, Inside
  <2>6. call' = [call EXCEPT ![c] = [call[c] EXCEPT !.at = @ + 1]]
    BY <1>4 DEF TypeOK
  <2> QED
    BY <1>4, <2>5, <2>6, PathOfOne DEF Unchanged
<1> QED
  BY <1>2, <1>3, <1>4 DEF Walk

LEMMA PathOfChecks ==
  ASSUME TypeOK, PathInv, NEW c \in Callers, Real(c) \/ Parent(c) \/ Stat(c)
  PROVE  PathInv'
<1>1. /\ call[c] \in Calls /\ Consistent(call[c]) /\ OnPath(call[c])
      /\ call[c].pc \in {"real", "parent", "stat"}
  BY DEF TypeOK, PathInv, OnPath, Real, Parent, Stat
<1>2. CASE Refuse(c)
  BY <1>2, PathOfEnd DEF Refuse
<1>3. ASSUME NEW pc \in {"parent", "stat", "open", "scan"}, Goto(c, pc), Unchanged,
             pc = "scan" => Lookup(call[c].parts).kind = "dir"
      PROVE  PathInv'
  <2>1. OnPath([call[c] EXCEPT !.pc = pc])
    BY <1>1, <1>3 DEF Calls, OnPath, FoundNoLink, FoundADirectory, Inside
  <2>2. call' = [call EXCEPT ![c] = [call[c] EXCEPT !.pc = pc]]
    BY <1>3 DEF Goto, TypeOK
  <2> QED
    BY <1>3, <2>1, <2>2, PathOfOne DEF Unchanged
<1>4. CASE Stat(c)
  <2>1. CASE call[c].op = "list"
    BY <1>2, <1>3, <1>4, <2>1 DEF Stat
  <2>2. CASE call[c].op # "list"
    BY <1>2, <1>3, <1>4, <2>2 DEF Stat
  <2> QED
    BY <2>1, <2>2
<1> QED
  BY <1>2, <1>3, <1>4 DEF Real, Parent

(* The open: of what is there already, or of a file put where nothing was. *)
LEMMA PathOfOpen == ASSUME TypeOK, PathInv, NEW c \in Callers, Open(c) PROVE PathInv'
<1> DEFINE parts == call[c].parts
           e == Lookup(parts)
           p == Holder(parts)
           k(f, old) == [call[c] EXCEPT !.pc = "start", !.obj = f, !.old = old]
<1>1. /\ call[c] \in Calls /\ Consistent(call[c]) /\ OnPath(call[c])
      /\ call[c].pc = "open" /\ parts \in Seq(Names) /\ Len(parts) <= 2
  BY DEF TypeOK, PathInv, OnPath, Open, Consistent, Calls
<1>2. ASSUME NEW f \in Files, NEW old, f \in Outer => call[c].swapped
      PROVE  OnPath(k(f, old))
  BY <1>1, <1>2, PlacesAssumption
     DEF Calls, OnPath, FoundNoLink, FoundADirectory, Inside
<1>3. ~call[c].swapped => /\ p \in Places => p \notin Outside
                          /\ e.kind = "file" => e.to \notin Outer
  BY <1>1, FoundInside DEF OnPath
<1>4. CASE Refuse(c)
  BY <1>4, PathOfEnd DEF Refuse
<1>5. CASE IsOpened(e) /\ Unchanged /\ Opened(c, e.to)
  <2> DEFINE old == IF call[c].op = "write" THEN content'[e.to] ELSE <<>>
  <2>1. e.to \in Files
    BY <1>1, <1>5, LookupIsAnEntry DEF IsOpened
  <2>2. OnPath(k(e.to, old))
    BY <1>2, <1>3, <1>5, <2>1 DEF IsOpened
  <2>3. call' = [call EXCEPT ![c] = k(e.to, old)]
    BY <1>5 DEF Opened, TypeOK
  <2> HIDE DEF k
  <2> QED
    BY <1>5, <2>2, <2>3, PathOfOne DEF Unchanged
<1>6. ASSUME NEW f \in Files, e.kind = "none", p \in Places, Unused(f, p),
             tree' = [tree EXCEPT ![p][parts[Len(parts)]] = [kind |-> "file", to |-> f]],
             Opened(c, f)
      PROVE  PathInv'
  <2> DEFINE old == IF call[c].op = "write" THEN content'[f] ELSE <<>>
             n == parts[Len(parts)]
  <2>1. n \in Names /\ parts # <<>>
    BY <1>1, <1>6, LookupIsAnEntry
  <2>2. tree[p][n].kind = "none"
    BY <1>6, <2>1 DEF Lookup
  <2>3. OnPath(k(f, old))
    BY <1>2, <1>3, <1>6 DEF Unused
  <2>4. call' = [call EXCEPT ![c] = k(f, old)]
    BY <1>6 DEF Opened, TypeOK
  <2>5. k(f, old).pc = "start" /\ k(f, old).parts = parts
    BY <1>1 DEF Calls
  <2> HIDE DEF k, n, old
  <2>6. \A x \in Callers : OnPath(call'[x])
    BY <2>3, <2>4 DEF TypeOK, PathInv, OnPath
  <2>7. /\ \A q \in Places, m \in Names : tree'[q][m] # tree[q][m] =>
             tree[q][m].kind = "none" /\ tree'[q][m].kind = "file"
        /\ Root \in Places
    BY <1>6, <2>1, <2>2, PlacesAssumption DEF TypeOK, n
  <2>8. ASSUME NEW x \in Callers PROVE OnPath(call[x])'
    <3> DEFINE y == call'[x]
    <3>1. y.parts \in Seq(Names) /\ Len(y.parts) <= 2
      BY <1>1, <2>4, <2>5 DEF TypeOK, Calls, Consistent
    <3>2. Len(y.parts) = 2 => y.parts[1] \in Names
      BY <3>1
    <3>3. FoundNoLink(call[x])'
      BY <2>6, <2>7, <3>2 DEF OnPath, FoundNoLink
    <3>4. Inside(call[x])'
      BY <2>6 DEF OnPath, Inside
    <3>5. FoundADirectory(call[x])'
      <4>1. CASE ~(y.pc = "scan" /\ ~y.swapped)
        BY <4>1 DEF FoundADirectory
      <4>2. CASE y.pc = "scan" /\ ~y.swapped
        <5>1. Lookup(y.parts).kind = "dir"
          BY <2>6, <4>2 DEF OnPath, FoundADirectory
        <5>2. y.parts # <<>> => y.parts[1] \in Names /\ y.parts[Len(y.parts)] \in Names
          BY <3>1
        <5>3. CASE y.parts = <<>>
          BY <5>3 DEF FoundADirectory, Lookup
        <5>4. CASE y.parts # <<>>
          <6>1. Holder(y.parts) \in Places
            BY <5>1, <5>4 DEF Lookup, Nothing
          <6>2. ~(Len(y.parts) < 2) => tree'[Root][y.parts[1]] = tree[Root][y.parts[1]]
            <7>1. Nothing.to \notin Places /\ \A d \in Entries : d.kind = "none" => d = Nothing
              BY PlacesAssumption DEF Nothing, Objects, Entries
            <7>2. tree[Root][y.parts[1]] \in Entries
              BY <2>7, <5>2, <5>4 DEF TypeOK
            <7> QED
              BY <2>7, <5>2, <5>4, <6>1, <7>1, <7>2 DEF Holder
          <6>3. Holder(call[x].parts)' = Holder(y.parts)
            BY <6>2 DEF Holder
          <6>4. tree'[Holder(y.parts)][y.parts[Len(y.parts)]] = tree[Holder(y.parts)][y.parts[Len(y.parts)]]
            BY <2>7, <5>1, <5>2, <5>4, <6>1 DEF Lookup
          <6>5. Lookup(call[x].parts)' = Lookup(y.parts)
            BY <5>4, <6>1, <6>3, <6>4 DEF Lookup
          <6> QED
            BY <5>1, <6>5 DEF FoundADirectory
        <5> QED
          BY <5>3, <5>4
      <4> QED
        BY <4>1, <4>2
    <3> QED
      BY <3>3, <3>4, <3>5 DEF OnPath
  <2> QED
    BY <2>8 DEF PathInv, OnPath
<1> QED
  BY <1>4, <1>5, <1>6 DEF Open

LEMMA PathOfPut ==
  ASSUME TypeOK, PathInv, NEW c \in Callers, NEW f, NEW blocks, NEW next,
         OnPath(next), Put(c, f, blocks, next)
  PROVE  PathInv'
<1>1. ASSUME NEW x \in Callers PROVE OnPath(call'[x])
  <2>1. call[x] \in Calls /\ OnPath(call[x])
    BY DEF TypeOK, PathInv, OnPath
  <2>2. \A e : OnPath([call[x] EXCEPT !.edited = e])
    BY <2>1 DEF Calls, OnPath, FoundNoLink, FoundADirectory, Inside
  <2> QED
    BY <2>2 DEF Put
<1> QED
  BY <1>1 DEF Put, PathInv, OnPath, FoundNoLink, FoundADirectory, Inside, Lookup, Holder

LEMMA PathOfIO ==
  ASSUME TypeOK, PathInv, NEW c \in Callers, Start(c) \/ Read(c) \/ Write(c)
  PROVE  PathInv'
<1>1. /\ call[c] \in Calls /\ Consistent(call[c]) /\ OnPath(call[c])
      /\ call[c].pc \in {"start", "io"}
  BY DEF TypeOK, PathInv, OnPath, Start, Read, Write
<1>2. ASSUME NEW m
      PROVE  /\ OnPath([call[c] EXCEPT !.pc = "io"])
             /\ OnPath([call[c] EXCEPT !.moved = m])
  BY <1>1 DEF Calls, OnPath, FoundNoLink, FoundADirectory, Inside
<1>3. CASE Start(c)
  <2>1. CASE Refuse(c)
    BY <2>1, PathOfEnd DEF Refuse
  <2>2. CASE Put(c, call[c].obj, <<>>, [call[c] EXCEPT !.pc = "io"])
    BY <1>2, <2>2, PathOfPut
  <2>3. CASE Goto(c, "io") /\ Unchanged
    <3>1. call' = [call EXCEPT ![c] = [call[c] EXCEPT !.pc = "io"]]
      BY <2>3 DEF Goto, TypeOK
    <3> QED
      BY <1>2, <2>3, <3>1, PathOfOne DEF Unchanged
  <2> QED
    BY <1>3, <2>1, <2>2, <2>3 DEF Start
<1>4. CASE Read(c)
  <2>1. ASSUME NEW m, call' = [call EXCEPT ![c].moved = m] PROVE PathInv'
    <3>1. call' = [call EXCEPT ![c] = [call[c] EXCEPT !.moved = m]]
      BY <2>1 DEF TypeOK
    <3> QED
      BY <1>2, <1>4, <3>1, PathOfOne DEF Read, Unchanged
  <2>2. ASSUME NEW how, End(c, how) PROVE PathInv'
    BY <1>4, <2>2, PathOfEnd DEF Read
  <2> QED
    BY <1>4, <2>1, <2>2 DEF Read
<1>5. CASE Write(c)
  <2>1. ASSUME NEW how, End(c, how), Unchanged PROVE PathInv'
    BY <2>1, PathOfEnd
  <2>2. ASSUME NEW blocks, NEW m,
               Put(c, call[c].obj, blocks, [call[c] EXCEPT !.moved = m])
        PROVE  PathInv'
    BY <1>2, <2>2, PathOfPut
  <2> QED
    BY <1>5, <2>1, <2>2 DEF Write
<1> QED
  BY <1>3, <1>4, <1>5

LEMMA PathOfScan == ASSUME TypeOK, PathInv, NEW c \in Callers, Scan(c) PROVE PathInv'
<1> DEFINE p == Lookup(call[c].parts).to
           k == [call[c] EXCEPT !.pc = "idle", !.how = "ok", !.obj = p]
<1>1. call[c] \in Calls /\ Consistent(call[c]) /\ OnPath(call[c]) /\ call[c].pc = "scan"
  BY DEF TypeOK, PathInv, OnPath, Scan
<1>2. CASE Refuse(c)
  BY <1>2, PathOfEnd DEF Refuse
<1>3. CASE call' = [call EXCEPT ![c].pc = "idle", ![c].how = "ok", ![c].obj = p] /\ Unchanged
  <2>1. ~call[c].swapped => p \notin Outer \cup Outside
    BY <1>1, FoundInside DEF OnPath, FoundADirectory
  <2>2. OnPath(k)
    BY <1>1, <2>1 DEF Calls, OnPath, FoundNoLink, FoundADirectory, Inside
  <2>3. call' = [call EXCEPT ![c] = k]
    BY <1>3 DEF TypeOK
  <2> HIDE DEF k
  <2> QED
    BY <1>3, <2>2, <2>3, PathOfOne DEF Unchanged
<1> QED
  BY <1>2, <1>3 DEF Scan

(* What others replace they replace on the way of some calls only. *)
LEMMA PathOfOthers == ASSUME TypeOK, PathInv, Replace \/ Edit PROVE PathInv'
<1>1. CASE Edit
  <2>1. ASSUME NEW x \in Callers PROVE OnPath(call'[x])
    <3>1. call[x] \in Calls /\ OnPath(call[x])
      BY DEF TypeOK, PathInv, OnPath
    <3>2. \A e : OnPath([call[x] EXCEPT !.edited = e])
      BY <3>1 DEF Calls, OnPath, FoundNoLink, FoundADirectory, Inside
    <3>3. PICK e \in BOOLEAN : call'[x] = [call[x] EXCEPT !.edited = e]
      BY <1>1, <3>1 DEF Edit, Calls
    <3> QED
      BY <3>2, <3>3
  <2> QED
    BY <1>1, <2>1
       DEF Edit, PathInv, OnPath, FoundNoLink, FoundADirectory, Inside, Lookup, Holder
<1>2. CASE Replace
  <2>1. PICK m \in Moves :
          /\ tree' = [tree EXCEPT ![m[1]][m[2]] = m[3]]
          /\ call' = [c \in Callers |->
               [call[c] EXCEPT !.swapped = @ \/ IsOnTheWay(call[c], m[1], m[2])]]
    BY <1>2 DEF Replace
  <2> DEFINE p == m[1]
             n == m[2]
  <2>2. p \in Places /\ n \in Names /\ Root \in Places
    BY TreesAssumption, PlacesAssumption
  <2>3. \A q \in Places, l \in Names : ~(q = p /\ l = n) => tree'[q][l] = tree[q][l]
    BY <2>1, <2>2 DEF TypeOK
  <2> HIDE DEF p, n
  <2>4. ASSUME NEW x \in Callers PROVE OnPath(call[x])'
    <3> DEFINE k == call[x]
    <3>1. k \in Calls /\ Consistent(k) /\ OnPath(k)
      BY DEF TypeOK, PathInv, OnPath
    <3>2. call'[x] = [k EXCEPT !.swapped = @ \/ IsOnTheWay(k, p, n)]
      BY <2>1 DEF p, n
    <3>3. /\ call'[x].pc = k.pc /\ call'[x].parts = k.parts /\ call'[x].at = k.at
          /\ call'[x].obj = k.obj
          /\ ~call'[x].swapped => ~k.swapped /\ ~IsOnTheWay(k, p, n)
      BY <3>1, <3>2 DEF Calls
    <3>4. /\ k.parts \in Seq(Names) /\ Len(k.parts) <= 2
          /\ k.parts # <<>> => k.parts[1] \in Names /\ k.parts[Len(k.parts)] \in Names
      BY <3>1 DEF Calls, Consistent
    <3>5. Len(k.parts) = 2 => k.parts # <<>>
      OBVIOUS
    <3>6. ~IsOnTheWay(k, p, n) /\ Len(k.parts) = 2 =>
            tree'[Root][k.parts[1]] = tree[Root][k.parts[1]]
      BY <2>2, <2>3, <3>4, <3>5 DEF IsOnTheWay
    <3>7. Inside(call[x])'
      BY <3>1, <3>3 DEF OnPath, Inside
    <3>8. FoundNoLink(call[x])'
      BY <3>1, <3>3, <3>6 DEF OnPath, FoundNoLink
    <3>9. FoundADirectory(call[x])'
      <4>1. CASE k.pc # "scan" \/ call'[x].swapped
        BY <3>3, <4>1 DEF FoundADirectory
      <4>2. CASE k.pc = "scan" /\ ~call'[x].swapped
        <5>1. Lookup(k.parts).kind = "dir" /\ k.op = "list"
          BY <3>1, <3>3, <4>2 DEF OnPath, FoundADirectory, Consistent
        <5>2. CASE k.parts = <<>>
          BY <3>3, <5>2 DEF FoundADirectory, Lookup
        <5>3. CASE k.parts # <<>>
          <6>1. Holder(k.parts) \in Places
            BY <5>1, <5>3 DEF Lookup, Nothing
          <6>2. Len(k.parts) < 2 \/ Len(k.parts) = 2
            BY <3>4, AtMostTwo, LenProperties
          <6>3. Holder(call[x].parts)' = Holder(k.parts)
            BY <3>3, <3>6, <4>2, <6>2 DEF Holder
          <6>4. tree'[Holder(k.parts)][k.parts[Len(k.parts)]] = tree[Holder(k.parts)][k.parts[Len(k.parts)]]
            BY <2>3, <3>3, <3>4, <4>2, <5>1, <5>3, <6>1 DEF IsOnTheWay
          <6>5. Lookup(call[x].parts)' = Lookup(k.parts)
            BY <3>3, <5>3, <6>1, <6>3, <6>4 DEF Lookup
          <6> QED
            BY <5>1, <6>5 DEF FoundADirectory
        <5> QED
          BY <5>2, <5>3
      <4> QED
        BY <4>1, <4>2
    <3> QED
      BY <3>7, <3>8, <3>9 DEF OnPath
  <2> QED
    BY <2>4 DEF PathInv, OnPath
<1> QED
  BY <1>1, <1>2

LEMMA PathStep == ASSUME TypeOK, PathInv, [Next]_vars PROVE PathInv'
<1>1. CASE UNCHANGED vars
  BY <1>1 DEF vars, PathInv, FoundNoLink, FoundADirectory, Inside, Lookup, Holder
<1>2. ASSUME NEW c \in Callers, NEW rel \in Rels, NEW op, NEW text, Begin(c, op, rel, text)
      PROVE  PathInv'
  BY <1>2, PathOfBegin
<1>3. ASSUME NEW c \in Callers, Step(c) PROVE PathInv'
  BY <1>3, PathOfWalk, PathOfChecks, PathOfOpen, PathOfIO, PathOfScan DEF Step
<1>4. ASSUME NEW c \in Callers, Fail(c) PROVE PathInv'
  BY <1>4, PathOfEnd DEF Fail
<1> QED
  BY <1>1, <1>2, <1>3, <1>4, PathOfOthers DEF Next

(* An object that is not under the root is read, written or listed only if *)
(* a directory on the path was replaced while the call ran: the lstat walk *)
(* of confine turns down every link that was there before, and O_NOFOLLOW  *)
(* one that is put in the place of the file.                               *)
THEOREM AccessStaysInside == Spec => []StaysInside
<1>1. PathInv => StaysInside
  BY DEF PathInv, Inside, StaysInside
<1> QED
  BY <1>1, TypeInit, TypeStep, PathInit, PathStep, PTL DEF Spec

-----------------------------------------------------------------------------
(* WriteLeavesOneText and ReadIsTrue *)

(* What a call's file holds while nobody else writes to it. *)
Holds(k, blocks) ==
  /\ k.op = "read" /\ k.pc = "io" => IsPrefixOf(k.moved, blocks)
  /\ k.op = "read" /\ k.how = "ok" => k.moved = blocks
  /\ k.op = "write" /\ k.pc = "start" => blocks = k.old
  /\ k.op = "write" /\ k.pc = "io" => blocks = k.moved
  /\ k.op = "write" /\ k.how = "ok" => blocks = k.text
  /\ k.op = "write" /\ k.how = "failed" => blocks = k.old \/ IsPrefixOf(blocks, k.text)

(* What a call knows by itself; a write is not refused any more once it    *)
(* has the file open.                                                      *)
Knows(k) ==
  /\ k.op = "write" /\ k.how = "refused" => k.obj = NoFile
  /\ k.op = "write" /\ k.obj # NoFile /\ k.how = "none" => k.pc \in {"start", "io"}
  /\ k.op = "write" /\ k.pc = "io" => IsPrefixOf(k.moved, k.text)
  /\ k.op = "read" /\ k.how = "ok" => k.obj \in Files
  /\ k.op = "read" /\ (k.pc = "io" \/ k.how = "ok") => Len(k.moved) <= MaxBytes

DataInv ==
  \A c \in Callers :
    /\ Knows(call[c])
    /\ call[c].obj \in Files /\ ~call[c].edited => Holds(call[c], content[call[c].obj])

OnData(k) == Knows(k) /\ (k.obj \in Files /\ ~k.edited => Holds(k, content[k.obj]))

LEMMA NoFileIsNone == NoFile \notin Files /\ NoFile \notin Places
  BY PlacesAssumption DEF Objects

LEMMA DataInit == Init => DataInv
<1>1. OnData(Asked("idle", "list", <<>>, <<>>))
  BY NoFileIsNone DEF Asked, OnData, Knows
<1> QED
  BY <1>1 DEF Init, DataInv, OnData

(* A step that changes only call[c], and no file. *)
LEMMA DataOfOne ==
  ASSUME TypeOK, DataInv, NEW c \in Callers, NEW k, OnData(k),
         call' = [call EXCEPT ![c] = k], UNCHANGED content
  PROVE  DataInv'
<1>1. ASSUME NEW x \in Callers PROVE OnData(call'[x])
  BY DEF TypeOK, DataInv, OnData
<1> QED
  BY <1>1 DEF DataInv, OnData

LEMMA DataOfEnd ==
  ASSUME TypeOK, DataInv, NEW c \in Callers, NEW how, End(c, how), Unchanged,
         OnData([call[c] EXCEPT !.pc = "idle", !.how = how])
  PROVE  DataInv'
<1>1. call' = [call EXCEPT ![c] = [call[c] EXCEPT !.pc = "idle", !.how = how]]
  BY DEF End, TypeOK
<1> QED
  BY <1>1, DataOfOne DEF Unchanged

LEMMA DataOfRefuse ==
  ASSUME TypeOK, DataInv, NEW c \in Callers, Refuse(c),
         call[c].op # "write" \/ call[c].obj = NoFile, call[c].pc # "idle"
  PROVE  DataInv'
<1>1. call[c] \in Calls /\ OnData(call[c])
  BY DEF TypeOK, DataInv, OnData
<1>2. OnData([call[c] EXCEPT !.pc = "idle", !.how = "refused"])
  BY <1>1, NoFileIsNone DEF Calls, OnData, Knows, Holds
<1> QED
  BY <1>2, DataOfEnd DEF Refuse

(* Up to the open a call has no file. *)
LEMMA DataOfWalk ==
  ASSUME TypeOK, DataInv, NEW c \in Callers, Walk(c) \/ Real(c) \/ Parent(c) \/ Stat(c)
  PROVE  DataInv'
<1>1. /\ call[c] \in Calls /\ Consistent(call[c]) /\ OnData(call[c])
      /\ call[c].pc \in {"walk", "real", "parent", "stat"} /\ call[c].obj = NoFile
  BY DEF TypeOK, Consistent, DataInv, OnData, Walk, Real, Parent, Stat
<1>2. CASE Refuse(c)
  BY <1>1, <1>2, DataOfRefuse
<1>3. ASSUME NEW pc \in {"real", "parent", "stat", "open", "scan"}, Goto(c, pc), Unchanged
      PROVE  DataInv'
  <2>1. OnData([call[c] EXCEPT !.pc = pc])
    BY <1>1, NoFileIsNone DEF Calls, Consistent, OnData, Knows
  <2>2. call' = [call EXCEPT ![c] = [call[c] EXCEPT !.pc = pc]]
    BY <1>3 DEF Goto, TypeOK
  <2> QED
    BY <1>3, <2>1, <2>2, DataOfOne DEF Unchanged
<1>4. CASE call' = [call EXCEPT ![c].at = @ + 1] /\ Unchanged
  <2>1. OnData([call[c] EXCEPT !.at = @ + 1])
    BY <1>1, NoFileIsNone DEF Calls, Consistent, OnData, Knows
  <2>2. call' = [call EXCEPT ![c] = [call[c] EXCEPT !.at = @ + 1]]
    BY <1>4 DEF TypeOK
  <2> QED
    BY <1>4, <2>1, <2>2, DataOfOne DEF Unchanged
<1>5. CASE Stat(c)
  <2>1. CASE call[c].op = "list"
    BY <1>2, <1>3, <1>5, <2>1 DEF Stat
  <2>2. CASE call[c].op # "list"
    BY <1>2, <1>3, <1>5, <2>2 DEF Stat
  <2> QED
    BY <2>1, <2>2
<1> QED
  BY <1>2, <1>3, <1>4, <1>5 DEF Walk, Real, Parent

LEMMA DataOfOpen == ASSUME TypeOK, DataInv, NEW c \in Callers, Open(c) PROVE DataInv'
<1> DEFINE e == Lookup(call[c].parts)
           k(f, old) == [call[c] EXCEPT !.pc = "start", !.obj = f, !.old = old]
<1>1. /\ call[c] \in Calls /\ Consistent(call[c]) /\ OnData(call[c]) /\ call[c].pc = "open"
  BY DEF TypeOK, DataInv, OnData, Open
<1>2. ASSUME NEW f \in Files, NEW old
      PROVE  /\ Knows(k(f, old))
             /\ k(f, old).obj = f /\ k(f, old).edited = call[c].edited
             /\ \A blocks : (call[c].op = "write" => blocks = old) => Holds(k(f, old), blocks)
  BY <1>1 DEF Calls, Consistent, Knows, Holds
<1>3. CASE Refuse(c)
  <2>1. call[c].obj = NoFile
    BY <1>1 DEF Consistent
  <2> QED
    BY <1>1, <1>3, <2>1, DataOfRefuse
<1>4. CASE IsOpened(e) /\ Unchanged /\ Opened(c, e.to)
  <2> DEFINE old == IF call[c].op = "write" THEN content[e.to] ELSE <<>>
  <2>1. e.to \in Files
    BY <1>1, <1>4, LookupIsAnEntry DEF IsOpened, Calls, Consistent
  <2>2. call' = [call EXCEPT ![c] = k(e.to, old)] /\ UNCHANGED content
    BY <1>4 DEF Opened, Unchanged, TypeOK
  <2> HIDE DEF k, e
  <2>3. Holds(k(e.to, old), content[e.to]) /\ Knows(k(e.to, old)) /\ k(e.to, old).obj = e.to
    BY <1>2, <2>1
  <2> HIDE DEF old
  <2>4. OnData(k(e.to, old))
    BY <2>3 DEF OnData
  <2> QED
    BY <2>2, <2>4, DataOfOne
<1>5. ASSUME NEW f \in Files, NEW p, Unused(f, p), content' = [content EXCEPT ![f] = <<>>],
             Opened(c, f)
      PROVE  DataInv'
  <2> DEFINE old == IF call[c].op = "write" THEN content'[f] ELSE <<>>
  <2>1. call' = [call EXCEPT ![c] = k(f, old)]
    BY <1>5 DEF Opened, TypeOK
  <2>2. Holds(k(f, old), content'[f]) /\ Knows(k(f, old)) /\ k(f, old).obj = f
    BY <1>2
  <2> HIDE DEF k
  <2>3. ASSUME NEW x \in Callers
        PROVE  /\ Knows(call'[x])
               /\ call'[x].obj \in Files /\ ~call'[x].edited =>
                    Holds(call'[x], content'[call'[x].obj])
    <3>1. CASE x = c
      BY <2>1, <2>2, <3>1 DEF TypeOK
    <3>2. CASE x # c
      <4>1. call'[x] = call[x] /\ call[x].obj # f
        BY <1>5, <2>1, <3>2 DEF TypeOK, Unused
      <4>2. call[x].obj \in Files => content'[call[x].obj] = content[call[x].obj]
        BY <1>5, <4>1 DEF TypeOK
      <4> QED
        BY <4>1, <4>2 DEF DataInv
    <3> QED
      BY <3>1, <3>2
  <2> QED
    BY <2>3 DEF DataInv
<1> QED
  BY <1>3, <1>4, <1>5 DEF Open

LEMMA DataOfPut ==
  ASSUME TypeOK, DataInv, NEW c \in Callers, NEW f \in Files, NEW blocks, NEW next,
         Put(c, f, blocks, next), next.obj = f, Knows(next),
         ~next.edited => Holds(next, blocks)
  PROVE  DataInv'
<1>1. ASSUME NEW x \in Callers
      PROVE  /\ Knows(call'[x])
             /\ call'[x].obj \in Files /\ ~call'[x].edited =>
                  Holds(call'[x], content'[call'[x].obj])
  <2>1. CASE x = c
    <3>1. call'[x] = next /\ content'[f] = blocks
      BY <2>1 DEF Put, TypeOK
    <3> QED
      BY <3>1
  <2>2. CASE x # c
    <3> DEFINE k == call[x]
    <3>1. k \in Calls /\ OnData(k)
      BY DEF TypeOK, DataInv, OnData
    <3>2. PICK e \in BOOLEAN : call'[x] = [k EXCEPT !.edited = e] /\ e = (k.edited \/ k.obj = f)
      BY <2>2, <3>1 DEF Put, Calls
    <3>3. call'[x].obj = k.obj /\ (~call'[x].edited => ~k.edited /\ k.obj # f)
      BY <3>1, <3>2 DEF Calls
    <3>4. k.obj # f => content'[k.obj] = content[k.obj]
      BY DEF Put, TypeOK
    <3>5. Knows(call'[x]) /\ \A b : Holds(k, b) => Holds(call'[x], b)
      BY <3>1, <3>2 DEF Calls, OnData, Knows, Holds
    <3> QED
      BY <3>1, <3>3, <3>4, <3>5 DEF OnData
  <2> QED
    BY <2>1, <2>2
<1> QED
  BY <1>1 DEF DataInv

LEMMA DataOfStart == ASSUME TypeOK, DataInv, NEW c \in Callers, Start(c) PROVE DataInv'
<1> DEFINE next == [call[c] EXCEPT !.pc = "io"]
<1>1. /\ call[c] \in Calls /\ Consistent(call[c]) /\ OnData(call[c]) /\ call[c].pc = "start"
      /\ call[c].moved = <<>> /\ call[c].obj \in Files /\ call[c].op \in {"read", "write"}
  BY DEF TypeOK, Consistent, DataInv, OnData, Start
<1>2. /\ \A s \in Seq(Blocks) : IsPrefixOf(<<>>, s)
      /\ Len(<<>>) <= MaxBytes
  BY InputAssumption DEF IsPrefixOf
<1>3. CASE call[c].op = "write"
  <2>1. IsPrefixOf(call[c].moved, call[c].text)
    BY <1>1, <1>2 DEF Calls
  <2>2. Knows(next) /\ Holds(next, <<>>) /\ next.obj = call[c].obj
    BY <1>1, <1>3, <2>1 DEF Calls, Consistent, Knows, Holds
  <2>3. Put(c, call[c].obj, <<>>, next)
    BY <1>3 DEF Start
  <2> HIDE DEF next
  <2> QED
    BY <1>1, <2>2, <2>3, DataOfPut
<1>4. CASE call[c].op = "read"
  <2>1. CASE Refuse(c)
    BY <1>1, <1>4, <2>1, DataOfRefuse
  <2>2. CASE Goto(c, "io") /\ Unchanged
    <3>1. content[call[c].obj] \in Seq(Blocks)
      BY <1>1 DEF TypeOK
    <3>2. IsPrefixOf(call[c].moved, content[call[c].obj]) /\ Len(call[c].moved) <= MaxBytes
      BY <1>1, <1>2, <3>1
    <3>3. OnData(next)
      BY <1>1, <1>4, <3>2 DEF Calls, Consistent, OnData, Knows, Holds
    <3>4. call' = [call EXCEPT ![c] = next] /\ UNCHANGED content
      BY <2>2 DEF Goto, Unchanged, TypeOK
    <3> HIDE DEF next
    <3> QED
      BY <3>3, <3>4, DataOfOne
  <2> QED
    BY <1>4, <2>1, <2>2 DEF Start
<1> QED
  BY <1>1, <1>3, <1>4

LEMMA PrefixGrows ==
  ASSUME NEW s \in Seq(Blocks), NEW t \in Seq(Blocks), IsPrefixOf(s, t), Len(s) < Len(t)
  PROVE  /\ t[Len(s) + 1] \in Blocks
         /\ IsPrefixOf(Append(s, t[Len(s) + 1]), t)
<1> DEFINE b == t[Len(s) + 1]
           u == Append(s, b)
<1>1. Len(s) \in Nat /\ Len(t) \in Nat /\ Len(s) + 1 \in 1..Len(t)
  BY LenProperties
<1>2. b \in Blocks
  BY <1>1
<1> HIDE DEF b
<1>3. /\ u \in Seq(Blocks) /\ Len(u) = Len(s) + 1
      /\ \A i \in 1..Len(s) : u[i] = s[i]
      /\ u[Len(s) + 1] = b
  BY <1>2, AppendProperties
<1>4. \A i \in 1..Len(s) : s[i] = t[i]
  BY DEF IsPrefixOf
<1> HIDE DEF u
<1>5. DOMAIN u = 1..(Len(s) + 1)
  BY <1>3, LenProperties
<1>6. ASSUME NEW i \in DOMAIN u PROVE u[i] = t[i]
  <2>1. i \in 1..Len(s) \/ i = Len(s) + 1
    BY <1>1, <1>5
  <2> QED
    BY <1>3, <1>4, <2>1 DEF b
<1>7. IsPrefixOf(u, t)
  BY <1>1, <1>3, <1>6 DEF IsPrefixOf
<1> QED
  BY <1>2, <1>7 DEF u, b

(* Two texts, one a beginning of the other and not shorter. *)
LEMMA PrefixIsAll ==
  ASSUME NEW s \in Seq(Blocks), NEW t \in Seq(Blocks), IsPrefixOf(s, t), ~(Len(s) < Len(t))
  PROVE  s = t
<1>1. Len(s) \in Nat /\ Len(t) \in Nat /\ Len(s) <= Len(t) /\ DOMAIN s = 1..Len(s)
  BY LenProperties DEF IsPrefixOf
<1>2. Len(s) = Len(t)
  BY <1>1
<1>3. \A i \in 1..Len(s) : s[i] = t[i]
  BY <1>1 DEF IsPrefixOf
<1> QED
  BY <1>2, <1>3, SeqEqual

LEMMA DataOfRead == ASSUME TypeOK, DataInv, NEW c \in Callers, Read(c) PROVE DataInv'
<1> DEFINE done == call[c].moved
           blocks == content[call[c].obj]
           b == blocks[Len(done) + 1]
<1>1. /\ call[c] \in Calls /\ Consistent(call[c]) /\ OnData(call[c])
      /\ call[c].pc = "io" /\ call[c].op = "read" /\ Unchanged
  BY DEF TypeOK, DataInv, OnData, Read
<1>2. call[c].obj \in Files /\ blocks \in Seq(Blocks) /\ done \in Seq(Blocks)
  BY <1>1 DEF TypeOK, Calls, Consistent
<1>3. /\ ~call[c].edited => IsPrefixOf(done, blocks)
      /\ Len(done) <= MaxBytes /\ call[c].how = "none"
  BY <1>1, <1>2 DEF OnData, Holds, Knows, Consistent
<1>4. CASE End(c, "refused")
  BY <1>1, <1>4, DataOfRefuse DEF Refuse
<1>5. CASE End(c, "ok") /\ ~(Len(done) < Len(blocks))
  <2>1. ~call[c].edited => done = blocks
    BY <1>2, <1>3, <1>5, PrefixIsAll
  <2>2. OnData([call[c] EXCEPT !.pc = "idle", !.how = "ok"])
    BY <1>1, <1>2, <1>3, <2>1 DEF Calls, OnData, Knows, Holds
  <2> QED
    BY <1>1, <1>5, <2>2, DataOfEnd
<1>6. CASE /\ Len(done) < Len(blocks) /\ Len(done) < MaxBytes
           /\ call' = [call EXCEPT ![c].moved = Append(done, b)]
  <2> DEFINE k == [call[c] EXCEPT !.moved = Append(done, b)]
  <2>1. ~call[c].edited => IsPrefixOf(Append(done, b), blocks)
    BY <1>2, <1>3, <1>6, PrefixGrows
  <2>2. b \in Blocks
    <3>1. Len(done) + 1 \in 1..Len(blocks)
      BY <1>2, <1>6
    <3> QED
      BY <1>2, <3>1
  <2>3. Len(Append(done, b)) = Len(done) + 1 /\ Len(done) \in Nat
    BY <1>2, <2>2, AppendProperties, LenProperties
  <2>4. Len(Append(done, b)) <= MaxBytes
    BY <1>6, <2>3, InputAssumption
  <2>5. OnData(k)
    BY <1>1, <1>3, <2>1, <2>4 DEF Calls, OnData, Knows, Holds
  <2>6. call' = [call EXCEPT ![c] = k] /\ UNCHANGED content
    BY <1>1, <1>6 DEF Unchanged, TypeOK
  <2> HIDE DEF k
  <2> QED
    BY <2>5, <2>6, DataOfOne
<1> QED
  BY <1>4, <1>5, <1>6 DEF Read

(* A write behind the end of the file makes it one block longer. *)
LEMMA OverwrittenAppends ==
  ASSUME NEW s \in Seq(Blocks), NEW b \in Blocks
  PROVE  Overwritten(s, Len(s) + 1, b) = Append(s, b)
<1> DEFINE u == Overwritten(s, Len(s) + 1, b)
           v == Append(s, b)
<1>1. Len(s) \in Nat /\ Len(s) + 1 \in Nat \ {0}
  BY LenProperties
<1>2. u \in Seq(Blocks)
  BY <1>1, OverwrittenIsText
<1>3. u = [j \in 1..(Len(s) + 1) |-> IF j = Len(s) + 1 THEN b ELSE IF j <= Len(s) THEN s[j] ELSE Hole]
  BY <1>1 DEF Overwritten
<1>4. Len(u) = Len(s) + 1
  BY <1>1, <1>3
<1>5. /\ v \in Seq(Blocks) /\ Len(v) = Len(s) + 1
      /\ \A i \in 1..Len(s) : v[i] = s[i]
      /\ v[Len(s) + 1] = b
  BY AppendProperties
<1>6. ASSUME NEW i \in 1..(Len(s) + 1) PROVE u[i] = v[i]
  <2>1. CASE i = Len(s) + 1
    BY <1>3, <1>5, <2>1
  <2>2. CASE i # Len(s) + 1
    <3>1. i \in 1..Len(s) /\ i <= Len(s)
      BY <1>1, <2>2
    <3> QED
      BY <1>3, <1>5, <2>2, <3>1
  <2> QED
    BY <2>1, <2>2
<1> HIDE DEF u, v
<1>7. u = v
  BY <1>2, <1>4, <1>5, <1>6, SeqEqual
<1> QED
  BY <1>7 DEF u, v

LEMMA DataOfWrite == ASSUME TypeOK, DataInv, NEW c \in Callers, Write(c) PROVE DataInv'
<1> DEFINE done == call[c].moved
           text == call[c].text
           blocks == content[call[c].obj]
           b == text[Len(done) + 1]
<1>1. /\ call[c] \in Calls /\ Consistent(call[c]) /\ OnData(call[c])
      /\ call[c].pc = "io" /\ call[c].op = "write"
  BY DEF TypeOK, DataInv, OnData, Write
<1>2. /\ call[c].obj \in Files /\ blocks \in Seq(Blocks)
      /\ done \in Seq(Blocks) /\ text \in Seq(Blocks)
  BY <1>1 DEF TypeOK, Calls, Consistent
<1>3. /\ ~call[c].edited => blocks = done
      /\ IsPrefixOf(done, text) /\ call[c].how = "none"
  BY <1>1, <1>2 DEF OnData, Holds, Knows, Consistent
<1>4. Len(done) \in Nat /\ Len(text) \in Nat
  BY <1>2, LenProperties
<1>5. CASE Len(done) + 1 > Len(text)
  <2>1. ~(Len(done) < Len(text))
    BY <1>4, <1>5
  <2>2. done = text
    BY <1>2, <1>3, <2>1, PrefixIsAll
  <2>3. OnData([call[c] EXCEPT !.pc = "idle", !.how = "ok"])
    BY <1>1, <1>2, <1>3, <2>2 DEF Calls, OnData, Knows, Holds
  <2>4. End(c, "ok") /\ Unchanged
    BY <1>5 DEF Write
  <2> QED
    BY <2>3, <2>4, DataOfEnd
<1>6. CASE ~(Len(done) + 1 > Len(text))
  <2> DEFINE next == [call[c] EXCEPT !.moved = Append(@, b)]
             after == Overwritten(blocks, Len(done) + 1, b)
  <2>1. Len(done) < Len(text)
    BY <1>4, <1>6
  <2>2. b \in Blocks /\ IsPrefixOf(Append(done, b), text)
    BY <1>2, <1>3, <2>1, PrefixGrows
  <2>3. ~call[c].edited => after = Append(done, b)
    BY <1>2, <1>3, <2>2, OverwrittenAppends
  <2>4. Put(c, call[c].obj, after, next)
    BY <1>6 DEF Write
  <2> HIDE DEF after, b
  <2>5. Knows(next) /\ next.obj = call[c].obj /\ next.edited = call[c].edited
    BY <1>1, <1>3, <2>2 DEF Calls, Knows
  <2>6. ~next.edited => Holds(next, after)
    BY <1>1, <1>3, <2>3 DEF Calls, Holds
  <2> HIDE DEF next
  <2> QED
    BY <1>2, <2>4, <2>5, <2>6, DataOfPut
<1> QED
  BY <1>5, <1>6

LEMMA DataOfBegin ==
  ASSUME TypeOK, DataInv, NEW c \in Callers, NEW op, NEW rel, NEW text, Begin(c, op, rel, text)
  PROVE  DataInv'
<1>1. OnData([Asked("idle", op, <<>>, text) EXCEPT !.how = "refused"])
  BY NoFileIsNone DEF Asked, OnData, Knows
<1>2. OnData(Asked(IF Parts(rel) = <<>> THEN "real" ELSE "walk", op, Parts(rel), text))
  BY NoFileIsNone DEF Asked, OnData, Knows
<1> QED
  BY <1>1, <1>2, DataOfOne DEF Begin

LEMMA DataOfScan == ASSUME TypeOK, DataInv, NEW c \in Callers, Scan(c) PROVE DataInv'
<1> DEFINE p == Lookup(call[c].parts).to
           k == [call[c] EXCEPT !.pc = "idle", !.how = "ok", !.obj = p]
<1>1. /\ call[c] \in Calls /\ Consistent(call[c]) /\ OnData(call[c])
      /\ call[c].pc = "scan" /\ call[c].op = "list"
  BY DEF TypeOK, DataInv, OnData, Consistent, Scan
<1>2. CASE Refuse(c)
  BY <1>1, <1>2, DataOfRefuse
<1>3. CASE call' = [call EXCEPT ![c].pc = "idle", ![c].how = "ok", ![c].obj = p] /\ Unchanged
  <2>1. OnData(k)
    BY <1>1 DEF Calls, OnData, Knows, Holds
  <2>2. call' = [call EXCEPT ![c] = k] /\ UNCHANGED content
    BY <1>3 DEF Unchanged, TypeOK
  <2> HIDE DEF k
  <2> QED
    BY <2>1, <2>2, DataOfOne
<1> QED
  BY <1>2, <1>3 DEF Scan

(* A call that is stopped while it writes has written a beginning. *)
LEMMA DataOfFail == ASSUME TypeOK, DataInv, NEW c \in Callers, Fail(c) PROVE DataInv'
<1>1. /\ call[c] \in Calls /\ Consistent(call[c]) /\ OnData(call[c])
      /\ call[c].how = "none" /\ call[c].pc # "idle"
  BY DEF TypeOK, DataInv, OnData, Consistent, Fail
<1>2. OnData([call[c] EXCEPT !.pc = "idle", !.how = "failed"])
  BY <1>1, NoFileIsNone DEF Calls, Consistent, OnData, Knows, Holds
<1> QED
  BY <1>2, DataOfEnd DEF Fail

LEMMA DataOfOthers == ASSUME TypeOK, DataInv, Replace \/ Edit PROVE DataInv'
<1>1. ASSUME NEW x \in Callers, NEW e \in BOOLEAN
      PROVE  /\ OnData([call[x] EXCEPT !.swapped = e])
             /\ Knows([call[x] EXCEPT !.edited = e])
             /\ [call[x] EXCEPT !.edited = e].obj = call[x].obj
             /\ [call[x] EXCEPT !.edited = e].edited = e
             /\ \A b : Holds(call[x], b) => Holds([call[x] EXCEPT !.edited = e], b)
  BY DEF TypeOK, DataInv, Calls, OnData, Knows, Holds
<1>2. CASE Replace
  <2>1. ASSUME NEW x \in Callers PROVE OnData(call'[x])
    <3>1. PICK e \in BOOLEAN : call'[x] = [call[x] EXCEPT !.swapped = e]
      BY <1>2 DEF Replace, TypeOK, Calls, IsOnTheWay
    <3> QED
      BY <1>1, <3>1
  <2> QED
    BY <1>2, <2>1 DEF Replace, DataInv, OnData
<1>3. CASE Edit
  <2>1. PICK m \in Edits :
          /\ content' = [content EXCEPT ![m[1]] = m[2]]
          /\ call' = [c \in Callers |->
               [call[c] EXCEPT !.edited = @ \/ call[c].obj = m[1]]]
    BY <1>3 DEF Edit
  <2>2. m[1] \in Files
    BY InputAssumption
  <2>3. ASSUME NEW x \in Callers
        PROVE  /\ Knows(call'[x])
               /\ call'[x].obj \in Files /\ ~call'[x].edited =>
                    Holds(call'[x], content'[call'[x].obj])
    <3>1. PICK e \in BOOLEAN : /\ e = (call[x].edited \/ call[x].obj = m[1])
                              /\ call'[x] = [call[x] EXCEPT !.edited = e]
      BY <2>1 DEF TypeOK, Calls
    <3>2. ~e /\ call[x].obj \in Files => content'[call[x].obj] = content[call[x].obj]
      BY <2>1, <2>2, <3>1 DEF TypeOK
    <3>3. Knows(call'[x]) /\ call'[x].obj = call[x].obj /\ call'[x].edited = e
      BY <1>1, <3>1
    <3>4. ~e /\ call[x].obj \in Files => Holds(call[x], content[call[x].obj])
      BY <3>1 DEF DataInv
    <3>5. ~e /\ call[x].obj \in Files => Holds(call'[x], content[call[x].obj])
      BY <1>1, <3>1, <3>4
    <3> QED
      BY <3>2, <3>3, <3>5
  <2> QED
    BY <2>3 DEF DataInv
<1> QED
  BY <1>2, <1>3

LEMMA DataStep == ASSUME TypeOK, DataInv, [Next]_vars PROVE DataInv'
<1>1. CASE UNCHANGED vars
  BY <1>1 DEF vars, DataInv
<1>2. ASSUME NEW c \in Callers, NEW rel \in Rels, NEW op, NEW text, Begin(c, op, rel, text)
      PROVE  DataInv'
  BY <1>2, DataOfBegin
<1>3. ASSUME NEW c \in Callers, Step(c) PROVE DataInv'
  BY <1>3, DataOfWalk, DataOfOpen, DataOfStart, DataOfRead, DataOfWrite, DataOfScan DEF Step
<1>4. ASSUME NEW c \in Callers, Fail(c) PROVE DataInv'
  BY <1>4, DataOfFail
<1> QED
  BY <1>1, <1>2, <1>3, <1>4, DataOfOthers DEF Next

(* As long as nobody else writes to it, the file of a write that answered  *)
(* ok is the text, that of one refused or stopped before it truncated is   *)
(* what it was, and that of one stopped later a beginning of the text.     *)
THEOREM WriteIsOneText == Spec => []WriteLeavesOneText
<1>1. TypeOK /\ DataInv => WriteLeavesOneText
  <2> SUFFICES ASSUME TypeOK, DataInv, NEW c \in Callers,
                      call[c].op = "write", call[c].obj # NoFile, ~call[c].edited
               PROVE  CASE call[c].how = "ok" -> content[call[c].obj] = call[c].text
                        [] call[c].how = "refused" -> content[call[c].obj] = call[c].old
                        [] OTHER -> \/ content[call[c].obj] = call[c].old
                                    \/ IsPrefixOf(content[call[c].obj], call[c].text)
    BY DEF WriteLeavesOneText
  <2>1. call[c] \in Calls /\ call[c].obj \in Files
    BY DEF TypeOK, Consistent
  <2>2. Knows(call[c]) /\ Holds(call[c], content[call[c].obj])
    BY <2>1 DEF DataInv
  <2>3. call[c].how \in {"none", "ok", "failed"}
    BY <2>1, <2>2 DEF Calls, Knows
  <2> QED
    BY <2>2, <2>3 DEF Knows, Holds
<1> QED
  BY <1>1, TypeInit, TypeStep, DataInit, DataStep, PTL DEF Spec

(* What a read returns is not longer than the limit, however the file      *)
(* grows meanwhile, and is the whole file if nobody wrote to it.           *)
THEOREM ReadReturnsTheFile == Spec => []ReadIsTrue
<1>1. DataInv => ReadIsTrue
  BY DEF DataInv, Knows, Holds, ReadIsTrue
<1> QED
  BY <1>1, TypeInit, TypeStep, DataInit, DataStep, PTL DEF Spec

-----------------------------------------------------------------------------
(* CallsReturn rests on a variant: how many steps of its own a call has    *)
(* left at most, whatever the others do to the tree.                       *)

(* How many blocks the call may move. *)
Room(k) == IF k.op = "write" THEN Len(k.text) ELSE MaxBytes

StepsLeft(k) ==
  CASE k.pc = "idle" -> 0
    [] k.pc = "scan" -> 1
    [] k.pc = "io" -> Room(k) + 1 - Len(k.moved)
    [] k.pc = "start" -> Room(k) + 2
    [] k.pc = "open" -> Room(k) + 3
    [] k.pc = "stat" -> Room(k) + 4
    [] k.pc = "parent" -> Room(k) + 5
    [] k.pc = "real" -> Room(k) + 6
    [] k.pc = "walk" -> Room(k) + 7 + Len(k.parts) - k.at

(* Between 1 and Room + 8 steps are left of a call that runs. *)
Bounded(k) ==
  /\ Room(k) \in Nat /\ StepsLeft(k) \in 0..(Room(k) + 8)
  /\ StepsLeft(k) = 0 <=> k.pc = "idle"

LEMMA StepsAreBounded ==
  ASSUME NEW k \in Calls, Consistent(k), Knows(k)
  PROVE  Bounded(k)
<1>1. MaxBytes \in Nat /\ Len(k.text) \in Nat /\ Len(k.moved) \in Nat /\ Len(k.parts) \in Nat
  BY InputAssumption, LenProperties DEF Calls
<1>2. Room(k) \in Nat
  BY <1>1 DEF Room
<1>3. CASE k.pc = "io"
  <2>1. k.op \in {"read", "write"}
    BY <1>3 DEF Consistent
  <2>2. Len(k.moved) <= Room(k)
    BY <1>3, <2>1 DEF Knows, IsPrefixOf, Room
  <2> QED
    BY <1>1, <1>2, <1>3, <2>2 DEF StepsLeft, Bounded
<1>4. CASE k.pc = "walk"
  <2>1. k.at \in 1..Len(k.parts) /\ Len(k.parts) <= 2
    BY <1>4 DEF Consistent
  <2> QED
    BY <1>1, <1>2, <1>4, <2>1 DEF StepsLeft, Bounded
<1>5. CASE k.pc \in {"idle", "scan"}
  <2>1. StepsLeft(k) = IF k.pc = "idle" THEN 0 ELSE 1
    BY <1>5 DEF StepsLeft
  <2> QED
    BY <1>2, <1>5, <2>1 DEF Bounded
<1>6. CASE k.pc \in {"start", "open", "stat", "parent", "real"}
  <2>1. \E n \in 2..6 : StepsLeft(k) = Room(k) + n
    BY <1>6 DEF StepsLeft
  <2> QED
    BY <1>2, <1>6, <2>1 DEF Bounded
<1> QED
  BY <1>3, <1>4, <1>5, <1>6 DEF Calls

(* What StepsLeft looks at. *)
IsAsFar(k, l) ==
  /\ k.pc = l.pc /\ k.op = l.op /\ k.text = l.text
  /\ k.moved = l.moved /\ k.parts = l.parts /\ k.at = l.at

LEMMA AsFarAsBefore ==
  ASSUME NEW k \in Calls, NEW l \in Calls, IsAsFar(k, l), Bounded(l)
  PROVE  StepsLeft(k) = StepsLeft(l) /\ StepsLeft(k) <= StepsLeft(l)
<1>1. StepsLeft(k) = StepsLeft(l)
  BY DEF IsAsFar, StepsLeft, Room, Calls
<1> QED
  BY <1>1 DEF Bounded

(* A step of one caller leaves the others where they are. *)
LEMMA OthersStay ==
  ASSUME TypeOK, NEW c \in Callers, NEW x \in Callers, x # c,
         Step(c) \/ Fail(c) \/ \E op, rel, text : Begin(c, op, rel, text)
  PROVE  IsAsFar(call'[x], call[x])
<1>1. call[x] \in Calls
  BY DEF TypeOK
<1>2. ASSUME NEW k, call' = [call EXCEPT ![c] = k] PROVE IsAsFar(call'[x], call[x])
  BY <1>2 DEF TypeOK, IsAsFar
<1>3. ASSUME NEW pc, Goto(c, pc) PROVE IsAsFar(call'[x], call[x])
  BY <1>3 DEF Goto, TypeOK, IsAsFar
<1>4. ASSUME NEW how, End(c, how) PROVE IsAsFar(call'[x], call[x])
  BY <1>4 DEF End, TypeOK, IsAsFar
<1>5. ASSUME NEW f, NEW blocks, NEW next, Put(c, f, blocks, next)
      PROVE  IsAsFar(call'[x], call[x])
  BY <1>1, <1>5 DEF Put, IsAsFar, Calls
<1>6. ASSUME NEW f, Opened(c, f) PROVE IsAsFar(call'[x], call[x])
  BY <1>6 DEF Opened, TypeOK, IsAsFar
<1>7. CASE Walk(c)
  <2>1. CASE call' = [call EXCEPT ![c].at = @ + 1]
    BY <2>1 DEF TypeOK, IsAsFar
  <2> QED
    BY <1>3, <1>4, <1>7, <2>1 DEF Walk, Refuse
<1>8. CASE Real(c) \/ Parent(c) \/ Stat(c)
  BY <1>3, <1>4, <1>8 DEF Real, Parent, Stat, Refuse
<1>9. CASE Open(c)
  BY <1>4, <1>6, <1>9 DEF Open, Refuse
<1>10. CASE Start(c)
  BY <1>3, <1>4, <1>5, <1>10 DEF Start, Refuse
<1>11. CASE Read(c)
  <2>1. ASSUME NEW m, call' = [call EXCEPT ![c].moved = m] PROVE IsAsFar(call'[x], call[x])
    BY <2>1 DEF TypeOK, IsAsFar
  <2> QED
    BY <1>4, <1>11, <2>1 DEF Read
<1>12. CASE Write(c)
  BY <1>4, <1>5, <1>12 DEF Write
<1>13. CASE Scan(c)
  <2>1. ASSUME NEW p, call' = [call EXCEPT ![c].pc = "idle", ![c].how = "ok", ![c].obj = p]
        PROVE  IsAsFar(call'[x], call[x])
    BY <2>1 DEF TypeOK, IsAsFar
  <2> QED
    BY <1>4, <1>13, <2>1 DEF Scan, Refuse
<1>14. CASE Fail(c)
  BY <1>4, <1>14 DEF Fail
<1>15. ASSUME NEW op, NEW rel, NEW text, Begin(c, op, rel, text) PROVE IsAsFar(call'[x], call[x])
  BY <1>2, <1>15 DEF Begin
<1> QED
  BY <1>7, <1>8, <1>9, <1>10, <1>11, <1>12, <1>13, <1>14, <1>15 DEF Step

(* A caller's own step brings its call closer to the end. *)
LEMMA EndIsCloser ==
  ASSUME TypeOK, NEW c \in Callers, call[c].pc # "idle", Bounded(call[c]),
         NEW how, End(c, how)
  PROVE  StepsLeft(call'[c]) < StepsLeft(call[c])
<1>1. call'[c].pc = "idle"
  BY DEF End, TypeOK, Calls
<1>2. StepsLeft(call'[c]) = 0
  BY <1>1 DEF StepsLeft
<1> QED
  BY <1>2 DEF Bounded

LEMMA GotoIsCloser ==
  ASSUME TypeOK, NEW c \in Callers, Bounded(call[c]),
         NEW pc \in {"real", "parent", "stat", "open", "scan", "io"}, Goto(c, pc),
         \/ call[c].pc = "walk" /\ call[c].at = Len(call[c].parts) /\ pc = "real"
         \/ call[c].pc = "real" /\ pc \in {"parent", "stat"}
         \/ call[c].pc = "parent" /\ pc = "stat"
         \/ call[c].pc = "stat" /\ pc \in {"open", "scan"}
         \/ call[c].pc = "start" /\ pc = "io" /\ call[c].moved = <<>>
  PROVE  StepsLeft(call'[c]) < StepsLeft(call[c])
<1>1. call[c] \in Calls
  BY DEF TypeOK
<1>2. /\ call'[c].pc = pc /\ call'[c].moved = call[c].moved
      /\ Room(call'[c]) = Room(call[c])
  BY <1>1 DEF Goto, TypeOK, Calls, Room
<1>3. Room(call[c]) \in Nat /\ Len(call[c].parts) \in Nat /\ Len(<<>>) = 0
  BY <1>1, LenProperties, EmptySeq DEF Bounded, Calls
<1> HIDE DEF Room
<1>4. CASE call[c].pc = "walk"
  <2>1. call[c].at \in Nat
    BY <1>1 DEF Calls
  <2> QED
    BY <1>2, <1>3, <1>4, <2>1 DEF StepsLeft
<1>5. CASE call[c].pc = "start"
  BY <1>2, <1>3, <1>5 DEF StepsLeft
<1>6. CASE call[c].pc \in {"real", "parent", "stat"}
  BY <1>2, <1>3, <1>6 DEF StepsLeft
<1> QED
  BY <1>4, <1>5, <1>6

LEMMA MovedIsCloser ==
  ASSUME TypeOK, NEW c \in Callers, Bounded(call[c]), call[c].pc = "io",
         NEW b \in Blocks, call'[c].pc = "io", Room(call'[c]) = Room(call[c]),
         call'[c].moved = Append(call[c].moved, b)
  PROVE  StepsLeft(call'[c]) < StepsLeft(call[c])
<1>1. call[c].moved \in Seq(Blocks)
  BY DEF TypeOK, Calls
<1>2. Len(call'[c].moved) = Len(call[c].moved) + 1 /\ Len(call[c].moved) \in Nat
  BY <1>1, AppendProperties, LenProperties
<1>3. Room(call[c]) \in Nat
  BY DEF Bounded
<1> QED
  BY <1>2, <1>3 DEF StepsLeft

LEMMA StepIsCloser ==
  ASSUME TypeOK, DataInv, NEW c \in Callers, Step(c)
  PROVE  StepsLeft(call'[c]) < StepsLeft(call[c])
<1>1. call[c] \in Calls /\ Consistent(call[c]) /\ Bounded(call[c])
  BY StepsAreBounded DEF TypeOK, DataInv
<1>2. ASSUME call[c].pc # "idle", Refuse(c) PROVE StepsLeft(call'[c]) < StepsLeft(call[c])
  BY <1>1, <1>2, EndIsCloser DEF Refuse
<1>3. CASE Walk(c)
  <2>1. CASE Refuse(c)
    BY <1>2, <1>3, <2>1 DEF Walk
  <2>2. CASE call[c].at = Len(call[c].parts) /\ Goto(c, "real")
    BY <1>1, <1>3, <2>2, GotoIsCloser DEF Walk
  <2>3. CASE call[c].at # Len(call[c].parts) /\ call' = [call EXCEPT ![c].at = @ + 1]
    <3>1. call'[c] = [call[c] EXCEPT !.at = @ + 1]
      BY <2>3 DEF TypeOK
    <3>2. /\ call'[c].pc = "walk" /\ call'[c].at = call[c].at + 1
          /\ call'[c].parts = call[c].parts /\ Room(call'[c]) = Room(call[c])
      BY <1>1, <1>3, <3>1 DEF Walk, Calls, Room
    <3>3. Room(call[c]) \in Nat /\ Len(call[c].parts) \in Nat /\ call[c].at \in Nat
      BY <1>1, LenProperties DEF Bounded, Calls
    <3>4. call[c].pc = "walk"
      BY <1>3 DEF Walk
    <3> QED
      BY <3>2, <3>3, <3>4 DEF StepsLeft
  <2> QED
    BY <1>3, <2>1, <2>2, <2>3 DEF Walk
<1>4. CASE Real(c)
  <2>1. ASSUME NEW pc \in {"parent", "stat"}, Goto(c, pc)
        PROVE  StepsLeft(call'[c]) < StepsLeft(call[c])
    BY <1>1, <1>4, <2>1, GotoIsCloser DEF Real
  <2> QED
    BY <1>2, <1>4, <2>1 DEF Real
<1>5. CASE Parent(c)
  <2>1. CASE Goto(c, "stat")
    BY <1>1, <1>5, <2>1, GotoIsCloser DEF Parent
  <2> QED
    BY <1>2, <1>5, <2>1 DEF Parent
<1>6. CASE Stat(c)
  <2>1. ASSUME NEW pc \in {"open", "scan"}, Goto(c, pc)
        PROVE  StepsLeft(call'[c]) < StepsLeft(call[c])
    BY <1>1, <1>6, <2>1, GotoIsCloser DEF Stat
  <2> QED
    BY <1>2, <1>6, <2>1 DEF Stat
<1>7. CASE Open(c)
  <2>1. ASSUME NEW f, Opened(c, f) PROVE StepsLeft(call'[c]) < StepsLeft(call[c])
    <3>1. call'[c].pc = "start" /\ Room(call'[c]) = Room(call[c])
      BY <1>1, <2>1 DEF Opened, TypeOK, Calls, Room
    <3>2. Room(call[c]) \in Nat /\ call[c].pc = "open"
      BY <1>1, <1>7 DEF Bounded, Open
    <3> QED
      BY <3>1, <3>2 DEF StepsLeft
  <2> QED
    BY <1>2, <1>7, <2>1 DEF Open
<1>8. CASE Start(c)
  <2>1. call[c].pc = "start" /\ call[c].moved = <<>>
    BY <1>1, <1>8 DEF Start, Consistent
  <2>2. ASSUME Put(c, call[c].obj, <<>>, [call[c] EXCEPT !.pc = "io"])
        PROVE  StepsLeft(call'[c]) < StepsLeft(call[c])
    <3>1. call'[c] = [call[c] EXCEPT !.pc = "io"]
      BY <2>2 DEF Put
    <3>2. /\ call'[c].pc = "io" /\ call'[c].moved = <<>>
          /\ Room(call'[c]) = Room(call[c])
      BY <1>1, <2>1, <3>1 DEF Calls, Room
    <3>3. Room(call[c]) \in Nat /\ Len(<<>>) = 0
      BY <1>1, EmptySeq DEF Bounded
    <3> QED
      BY <2>1, <3>2, <3>3 DEF StepsLeft
  <2>3. CASE Goto(c, "io")
    BY <1>1, <2>1, <2>3, GotoIsCloser
  <2> QED
    BY <1>2, <1>8, <2>1, <2>2, <2>3 DEF Start
<1>9. CASE Read(c)
  <2>1. call[c].pc = "io" /\ call[c].op = "read"
    BY <1>9 DEF Read
  <2>2. ASSUME NEW how, End(c, how) PROVE StepsLeft(call'[c]) < StepsLeft(call[c])
    BY <1>1, <2>1, <2>2, EndIsCloser
  <2>3. CASE /\ Len(call[c].moved) < Len(content[call[c].obj])
             /\ call' = [call EXCEPT ![c].moved =
                  Append(call[c].moved, content[call[c].obj][Len(call[c].moved) + 1])]
    <3> DEFINE b == content[call[c].obj][Len(call[c].moved) + 1]
    <3>1. content[call[c].obj] \in Seq(Blocks) /\ call[c].moved \in Seq(Blocks)
      BY <1>1, <2>1 DEF TypeOK, Calls, Consistent
    <3>2. Len(call[c].moved) + 1 \in 1..Len(content[call[c].obj])
      BY <2>3, <3>1
    <3>3. b \in Blocks
      BY <3>1, <3>2
    <3> HIDE DEF b
    <3>4. call'[c] = [call[c] EXCEPT !.moved = Append(call[c].moved, b)]
      BY <2>3 DEF TypeOK, b
    <3>5. /\ call'[c].pc = "io" /\ call'[c].moved = Append(call[c].moved, b)
          /\ Room(call'[c]) = Room(call[c])
      BY <1>1, <2>1, <3>4 DEF Calls, Room
    <3> QED
      BY <1>1, <2>1, <3>3, <3>5, MovedIsCloser
  <2> QED
    BY <1>9, <2>2, <2>3 DEF Read
<1>10. CASE Write(c)
  <2>1. call[c].pc = "io" /\ call[c].op = "write"
    BY <1>10 DEF Write
  <2> DEFINE i == Len(call[c].moved) + 1
  <2>2. i \in Nat /\ Len(call[c].text) \in Nat
    BY <1>1, LenProperties DEF Calls
  <2>3. CASE i > Len(call[c].text) /\ End(c, "ok")
    BY <1>1, <2>1, <2>3, EndIsCloser
  <2>4. CASE i <= Len(call[c].text)
    <3> DEFINE b == call[c].text[i]
    <3>1. call[c].text \in Seq(Blocks) /\ call[c].moved \in Seq(Blocks)
      BY <1>1 DEF Calls
    <3>2. i \in 1..Len(call[c].text)
      BY <2>4, <3>1, LenProperties
    <3>3. b \in Blocks
      BY <3>1, <3>2
    <3>4. Put(c, call[c].obj, Overwritten(content[call[c].obj], i, b),
              [call[c] EXCEPT !.moved = Append(@, b)])
      BY <1>10, <2>2, <2>4 DEF Write
    <3> HIDE DEF b
    <3>5. call'[c] = [call[c] EXCEPT !.moved = Append(@, b)]
      BY <3>4 DEF Put
    <3>6. /\ call'[c].pc = "io" /\ call'[c].moved = Append(call[c].moved, b)
          /\ Room(call'[c]) = Room(call[c])
      BY <1>1, <2>1, <3>5 DEF Calls, Room
    <3> QED
      BY <1>1, <2>1, <3>3, <3>6, MovedIsCloser
  <2> QED
    BY <1>10, <2>2, <2>3, <2>4 DEF Write
<1>11. CASE Scan(c)
  <2>1. ASSUME NEW p, call' = [call EXCEPT ![c].pc = "idle", ![c].how = "ok", ![c].obj = p]
        PROVE  StepsLeft(call'[c]) < StepsLeft(call[c])
    <3>1. call'[c].pc = "idle"
      BY <1>1, <2>1 DEF TypeOK, Calls
    <3>2. StepsLeft(call'[c]) = 0 /\ call[c].pc = "scan" /\ StepsLeft(call[c]) = 1
      BY <1>11, <3>1 DEF Scan, StepsLeft
    <3> QED
      BY <3>2
  <2> QED
    BY <1>2, <1>11, <2>1 DEF Scan
<1> QED
  BY <1>3, <1>4, <1>5, <1>6, <1>7, <1>8, <1>9, <1>10, <1>11 DEF Step

(* What no step may do to a call: hold it up. *)
Advances(c) ==
  call[c].pc # "idle" =>
    /\ StepsLeft(call'[c]) <= StepsLeft(call[c])
    /\ Step(c) => StepsLeft(call'[c]) < StepsLeft(call[c])

LEMMA AdvancesStep ==
  ASSUME TypeOK, TypeOK', DataInv, DataInv', [Next]_vars, NEW c \in Callers, call[c].pc # "idle"
  PROVE  Advances(c)
<1>1. /\ call[c] \in Calls /\ call'[c] \in Calls /\ Bounded(call[c]) /\ Bounded(call'[c])
  <2>1. call[c] \in Calls /\ Consistent(call[c]) /\ Knows(call[c])
    BY DEF TypeOK, DataInv
  <2>2. call'[c] \in Calls /\ Consistent(call'[c]) /\ Knows(call'[c])
    BY DEF TypeOK, DataInv
  <2> QED
    BY <2>1, <2>2, StepsAreBounded
<1>2. StepsLeft(call'[c]) \in Int /\ StepsLeft(call[c]) \in Int
  BY <1>1 DEF Bounded
<1>3. ASSUME IsAsFar(call'[c], call[c]) PROVE StepsLeft(call'[c]) <= StepsLeft(call[c])
  BY <1>1, <1>3, AsFarAsBefore
<1>4. Step(c) => StepsLeft(call'[c]) < StepsLeft(call[c])
  BY StepIsCloser
<1>5. StepsLeft(call'[c]) <= StepsLeft(call[c])
  <2>1. ASSUME NEW x \in Callers, NEW op, NEW rel, NEW text, Begin(x, op, rel, text)
        PROVE  StepsLeft(call'[c]) <= StepsLeft(call[c])
    <3>1. x # c
      BY <2>1 DEF Begin
    <3> QED
      BY <1>3, <2>1, <3>1, OthersStay
  <2>2. ASSUME NEW x \in Callers, Step(x) \/ Fail(x), x # c
        PROVE  StepsLeft(call'[c]) <= StepsLeft(call[c])
    BY <1>3, <2>2, OthersStay
  <2>3. CASE Step(c)
    BY <1>2, <1>4, <2>3
  <2>4. CASE Fail(c)
    BY <1>1, <1>2, <2>4, EndIsCloser DEF Fail
  <2>5. CASE Replace \/ Edit
    <3>1. \/ \E e : call'[c] = [call[c] EXCEPT !.swapped = e]
          \/ \E e : call'[c] = [call[c] EXCEPT !.edited = e]
      <4>1. ASSUME Replace PROVE \E e : call'[c] = [call[c] EXCEPT !.swapped = e]
        BY <4>1 DEF Replace
      <4>2. ASSUME Edit PROVE \E e : call'[c] = [call[c] EXCEPT !.edited = e]
        BY <4>2 DEF Edit
      <4> QED
        BY <2>5, <4>1, <4>2
    <3>2. IsAsFar(call'[c], call[c])
      BY <1>1, <3>1 DEF IsAsFar, Calls
    <3> QED
      BY <1>3, <3>2
  <2>6. CASE UNCHANGED vars
    BY <1>3, <2>6 DEF vars, IsAsFar
  <2> QED
    BY <2>1, <2>2, <2>3, <2>4, <2>5, <2>6 DEF Next
<1> QED
  BY <1>4, <1>5 DEF Advances

(* A call of a file tool takes at most eight system calls of its own and   *)
(* one per block, however long others keep changing entries and files:     *)
(* each of its steps brings the end closer, and nobody puts it off.        *)
THEOREM CallsTakeBoundedSteps ==
  Spec => /\ [](\A c \in Callers : Bounded(call[c]))
          /\ [][\A c \in Callers : Advances(c)]_vars
<1>1. TypeOK /\ DataInv => \A c \in Callers : Bounded(call[c])
  BY StepsAreBounded DEF TypeOK, DataInv
<1>2. TypeOK /\ TypeOK' /\ DataInv /\ DataInv' /\ [Next]_vars => [\A c \in Callers : Advances(c)]_vars
  BY AdvancesStep DEF Advances
<1> QED
  BY <1>1, <1>2, TypeInit, TypeStep, DataInit, DataStep, PTL DEF Spec
=============================================================================
