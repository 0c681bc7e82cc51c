-------------------------- MODULE AuditFile_proofs --------------------------
(***************************************************************************)
(* Theorems about AuditLog.write, for every number of processes on one     *)
(* file, of records, and under every fault.                                *)
(*                                                                         *)
(* The invariant PlaceInv says for each record where its pieces are: none  *)
(* before the first os.write, one head while the rest is due, and from the *)
(* fsync on the line, whole or as a head with its tail further down.       *)
(***************************************************************************)
EXTENDS AuditFile, SequenceTheorems, FiniteSetTheorems, TLAPS

Pieces == [rec : Recs, part : {"whole", "head", "tail"}]

FileTypeOK ==
  /\ file \in Seq(Pieces)
  /\ w \in [Writers -> [pc : {"idle", "append", "rest", "sync"}, rec : 0..MaxRecords]]
  /\ issued \in 0..MaxRecords
  /\ said \in [Recs -> {"nothing", "true", "false", "cut"}]

Absent(r) == \A i \in DOMAIN file : file[i].rec # r
Begun(r) == \E i \in DOMAIN file : /\ file[i] = Piece(r, "head")
                                   /\ \A j \in DOMAIN file : file[j].rec = r => j = i
Whole(r) == \E i \in DOMAIN file : /\ file[i] = Piece(r, "whole")
                                   /\ \A j \in DOMAIN file : file[j].rec = r => j = i
Split(r) == \E i, j \in DOMAIN file : /\ i < j
                                      /\ file[i] = Piece(r, "head") /\ file[j] = Piece(r, "tail")
                                      /\ \A k \in DOMAIN file : file[k].rec = r => k = i \/ k = j
Placed(r) == Whole(r) \/ Split(r)

PlaceInv ==
  /\ \A r \in Recs : r > issued => Absent(r) /\ said[r] = "nothing"
  /\ \A p \in Writers : w[p].pc # "idle" =>
       w[p].rec \in Recs /\ w[p].rec <= issued /\ said[w[p].rec] = "nothing"
  /\ \A p, q \in Writers :
       p # q /\ w[p].pc # "idle" /\ w[q].pc # "idle" => w[p].rec # w[q].rec
  /\ \A p \in Writers, r \in Recs : w[p].rec = r =>
       /\ w[p].pc = "append" => Absent(r)
       /\ w[p].pc = "rest" => Begun(r)
       /\ w[p].pc = "sync" => Placed(r)
  /\ \A r \in Recs : said[r] = "true" => Placed(r)

-----------------------------------------------------------------------------
(* A piece is appended *)

LEMMA GrownFile ==
  ASSUME FileTypeOK, NEW x \in Pieces, file' = Append(file, x)
  PROVE  /\ file' \in Seq(Pieces)
         /\ \E n \in Nat : /\ n = Len(file) + 1 /\ n \notin DOMAIN file
                           /\ DOMAIN file = 1..(n - 1) /\ DOMAIN file' = 1..n
                           /\ \A i \in DOMAIN file' : i = n \/ i \in DOMAIN file
                           /\ n \in DOMAIN file' /\ file'[n] = x
                           /\ \A i \in DOMAIN file : i \in DOMAIN file' /\ file'[i] = file[i] /\ i < n
<1>1. file \in Seq(Pieces) /\ Len(file) \in Nat /\ DOMAIN file = 1..Len(file)
  BY LenProperties DEF FileTypeOK
<1>2. /\ file' \in Seq(Pieces) /\ Len(file') = Len(file) + 1
      /\ \A i \in 1..Len(file) : file'[i] = file[i]
      /\ file'[Len(file) + 1] = x
  BY <1>1, AppendProperties
<1>3. DOMAIN file' = 1..Len(file')
  BY <1>2, LenProperties
<1>4. PICK n \in Nat : n = Len(file) + 1
  BY <1>1
<1>5. DOMAIN file = 1..(n - 1) /\ DOMAIN file' = 1..n /\ file'[n] = x
  BY <1>1, <1>2, <1>3, <1>4
<1> QED
  BY <1>1, <1>2, <1>4, <1>5

(* The pieces of the other records stay where they are. *)
LEMMA OthersStay ==
  ASSUME FileTypeOK, NEW x \in Pieces, file' = Append(file, x), NEW r, x.rec # r
  PROVE  /\ Absent(r) => Absent(r)'
         /\ Begun(r) => Begun(r)'
         /\ Placed(r) => Placed(r)'
<1>1. PICK n \in Nat : /\ n \notin DOMAIN file
                       /\ \A i \in DOMAIN file' : i = n \/ i \in DOMAIN file
                       /\ file'[n] = x
                       /\ \A i \in DOMAIN file : i \in DOMAIN file' /\ file'[i] = file[i]
  BY GrownFile
<1>2. Absent(r) => Absent(r)'
  BY <1>1 DEF Absent
<1>3. Begun(r) => Begun(r)'
  BY <1>1 DEF Begun
<1>4. Whole(r) => Whole(r)'
  BY <1>1 DEF Whole
<1>5. Split(r) => Split(r)'
  BY <1>1 DEF Split
<1> QED
  BY <1>2, <1>3, <1>4, <1>5 DEF Placed

(* The first piece of a record, and the tail of one that was begun. *)
LEMMA FirstPiece ==
  ASSUME FileTypeOK, NEW r \in Recs, NEW part \in {"whole", "head"},
         file' = Append(file, Piece(r, part)), Absent(r)
  PROVE  IF part = "whole" THEN Placed(r)' ELSE Begun(r)'
<1>1. Piece(r, part) \in Pieces /\ Piece(r, part).rec = r
  BY DEF Piece, Pieces
<1>2. PICK n \in Nat : /\ n \notin DOMAIN file
                       /\ \A i \in DOMAIN file' : i = n \/ i \in DOMAIN file
                       /\ n \in DOMAIN file' /\ file'[n] = Piece(r, part)
                       /\ \A i \in DOMAIN file : i \in DOMAIN file' /\ file'[i] = file[i]
  BY <1>1, GrownFile
<1>3. \A j \in DOMAIN file' : file'[j].rec = r => j = n
  BY <1>2 DEF Absent
<1>4. CASE part = "whole"
  BY <1>2, <1>3, <1>4 DEF Placed, Whole
<1>5. CASE part = "head"
  BY <1>2, <1>3, <1>5 DEF Begun
<1> QED
  BY <1>4, <1>5

LEMMA TailPiece ==
  ASSUME FileTypeOK, NEW r \in Recs, file' = Append(file, Piece(r, "tail")), Begun(r)
  PROVE  Placed(r)'
<1>1. Piece(r, "tail") \in Pieces
  BY DEF Piece, Pieces
<1>2. PICK n \in Nat : /\ n \notin DOMAIN file
                       /\ \A i \in DOMAIN file' : i = n \/ i \in DOMAIN file
                       /\ n \in DOMAIN file' /\ file'[n] = Piece(r, "tail")
                       /\ \A i \in DOMAIN file : i \in DOMAIN file' /\ file'[i] = file[i] /\ i < n
  BY <1>1, GrownFile
<1>3. PICK i \in DOMAIN file : /\ file[i] = Piece(r, "head")
                               /\ \A j \in DOMAIN file : file[j].rec = r => j = i
  BY DEF Begun
<1>4. \A k \in DOMAIN file' : file'[k].rec = r => k = i \/ k = n
  BY <1>2, <1>3
<1> QED
  BY <1>2, <1>3, <1>4 DEF Placed, Split

-----------------------------------------------------------------------------
(* The invariant *)

LEMMA FileInit == LogInit => FileTypeOK /\ PlaceInv
<1> SUFFICES ASSUME LogInit PROVE FileTypeOK /\ PlaceInv
  OBVIOUS
<1>1. file \in Seq(Pieces) /\ DOMAIN file = {}
  BY EmptySeq DEF LogInit
<1>2. FileTypeOK
  BY <1>1, AuditAssumption DEF LogInit, FileTypeOK, NoRec
<1>3. \A p \in Writers : w[p].pc = "idle"
  BY DEF LogInit
<1>4. \A r \in Recs : said[r] = "nothing"
  BY DEF LogInit
<1> QED
  BY <1>1, <1>2, <1>3, <1>4 DEF PlaceInv, Absent

(* What a process in the middle of a write knows. *)
LEMMA InTheMiddle ==
  ASSUME FileTypeOK, PlaceInv, NEW p \in Writers, w[p].pc # "idle"
  PROVE  /\ w[p].rec \in Recs /\ w[p].rec <= issued /\ said[w[p].rec] = "nothing"
         /\ \A q \in Writers \ {p} : w[q].pc # "idle" => w[q].rec # w[p].rec
  BY DEF PlaceInv

LEMMA FileTypeStep == FileTypeOK /\ PlaceInv /\ [LogNext]_logVars => FileTypeOK'
<1> SUFFICES ASSUME FileTypeOK, PlaceInv, [LogNext]_logVars PROVE FileTypeOK'
  OBVIOUS
<1>1. CASE UNCHANGED logVars
  BY <1>1 DEF logVars, FileTypeOK
<1>2. ASSUME NEW p \in Writers, Write(p) PROVE FileTypeOK'
  <2>1. issued' \in 0..MaxRecords
    BY <1>2, AuditAssumption DEF Write, FileTypeOK
  <2>2. w' \in [Writers -> [pc : {"idle", "append", "rest", "sync"}, rec : 0..MaxRecords]]
    BY <1>2, <2>1 DEF Write, FileTypeOK
  <2> QED
    BY <1>2, <2>1, <2>2 DEF Write, FileTypeOK
<1>3. ASSUME NEW p \in Writers, WriteStep(p) \/ Kill(p) PROVE FileTypeOK'
  <2>1. w[p].pc # "idle"
    BY <1>3 DEF WriteStep, WriteLine, WriteRest, Sync, Kill
  <2>2. w[p].rec \in Recs
    BY <2>1, InTheMiddle
  <2>3. \A pc \in {"idle", "append", "rest", "sync"} :
          [w EXCEPT ![p].pc = pc] \in [Writers -> [pc : {"idle", "append", "rest", "sync"}, rec : 0..MaxRecords]]
    BY DEF FileTypeOK
  <2>4. \A answer \in {"nothing", "true", "false", "cut"} :
          [said EXCEPT ![w[p].rec] = answer] \in [Recs -> {"nothing", "true", "false", "cut"}]
    BY <2>2 DEF FileTypeOK
  <2>5. \A part \in {"whole", "head", "tail"} : AppendPiece(p, part) => file' \in Seq(Pieces)
    <3>1. \A part \in {"whole", "head", "tail"} : Piece(w[p].rec, part) \in Pieces
      BY <2>2 DEF Piece, Pieces
    <3> QED
      BY <3>1, GrownFile DEF AppendPiece
  <2>6. w' \in [Writers -> [pc : {"idle", "append", "rest", "sync"}, rec : 0..MaxRecords]]
    BY <1>3, <2>3 DEF WriteStep, WriteLine, WriteRest, Sync, Kill, Step, Return, Fail
  <2>7. said' \in [Recs -> {"nothing", "true", "false", "cut"}]
    BY <1>3, <2>4 DEF WriteStep, WriteLine, WriteRest, Sync, Kill, Return, Fail, FileTypeOK
  <2>8. file' \in Seq(Pieces)
    BY <1>3, <2>5 DEF WriteStep, WriteLine, WriteRest, Sync, Kill, FileTypeOK
  <2>9. issued' = issued
    BY <1>3 DEF WriteStep, WriteLine, WriteRest, Sync, Kill
  <2> QED
    BY <2>6, <2>7, <2>8, <2>9 DEF FileTypeOK
<1> QED
  BY <1>1, <1>2, <1>3 DEF LogNext

(* A process appends a piece of its record and goes on. *)
LEMMA PlaceAppend ==
  ASSUME FileTypeOK, PlaceInv, NEW p \in Writers, w[p].pc # "idle",
         NEW r \in Recs, w[p].rec = r, NEW part \in {"whole", "head", "tail"},
         file' = Append(file, Piece(r, part)),
         NEW pc \in {"rest", "sync"}, w' = [w EXCEPT ![p].pc = pc],
         UNCHANGED <<issued, said>>,
         IF pc = "rest" THEN Begun(r)' ELSE Placed(r)'
  PROVE  PlaceInv'
<1>1. Piece(r, part) \in Pieces /\ Piece(r, part).rec = r
  BY DEF Piece, Pieces
<1>2. \A x \in Recs : x # r => (Absent(x) => Absent(x)') /\ (Begun(x) => Begun(x)')
                               /\ (Placed(x) => Placed(x)')
  BY <1>1, OthersStay
<1>3. /\ w'[p].pc = pc /\ w'[p].rec = r
      /\ \A q \in Writers : q # p => w'[q] = w[q]
  BY DEF FileTypeOK
<1>4. said[r] = "nothing" /\ r <= issued /\ \A q \in Writers : q # p /\ w[q].pc # "idle" => w[q].rec # r
  BY InTheMiddle
<1>5. \A x \in Recs : x > issued' => Absent(x)' /\ said'[x] = "nothing"
  <2>1. \A x \in Recs : x > issued => x # r
    BY <1>4 DEF FileTypeOK, Recs
  <2> QED
    BY <1>2, <2>1 DEF PlaceInv
<1>6. \A q \in Writers : w'[q].pc # "idle" =>
        w'[q].rec \in Recs /\ w'[q].rec <= issued' /\ said'[w'[q].rec] = "nothing"
  BY <1>3, <1>4 DEF PlaceInv
<1>7. \A q, o \in Writers :
        q # o /\ w'[q].pc # "idle" /\ w'[o].pc # "idle" => w'[q].rec # w'[o].rec
  BY <1>3, <1>4 DEF PlaceInv
<1>8. ASSUME NEW q \in Writers, NEW x \in Recs, w'[q].rec = x
      PROVE  /\ w'[q].pc = "append" => Absent(x)'
             /\ w'[q].pc = "rest" => Begun(x)'
             /\ w'[q].pc = "sync" => Placed(x)'
  <2>1. CASE q = p
    BY <1>3, <1>8, <2>1
  <2>2. CASE q # p
    <3>1. w'[q] = w[q] /\ w[q].rec = x
      BY <1>3, <1>8, <2>2
    <3>2. w[q].pc # "idle" => x # r
      BY <1>4, <2>2, <3>1
    <3> QED
      BY <1>2, <3>1, <3>2 DEF PlaceInv
  <2> QED
    BY <2>1, <2>2
<1>9. \A x \in Recs : said'[x] = "true" => Placed(x)'
  <2>1. \A x \in Recs : said[x] = "true" => x # r
    BY <1>4
  <2> QED
    BY <1>2, <2>1 DEF PlaceInv
<1> QED
  BY <1>5, <1>6, <1>7, <1>8, <1>9 DEF PlaceInv

(* The pieces a step that leaves the file alone does not move. *)
LEMMA FileStays ==
  ASSUME file' = file
  PROVE  \A x : (Absent(x)' <=> Absent(x)) /\ (Begun(x)' <=> Begun(x)) /\ (Placed(x)' <=> Placed(x))
  BY DEF Absent, Begun, Placed, Whole, Split

(* A process is done with its record: it is placed, or not called written. *)
LEMMA PlaceReturn ==
  ASSUME FileTypeOK, PlaceInv, NEW p \in Writers, w[p].pc # "idle", NEW answer, Return(p, answer),
         UNCHANGED <<file, issued>>, answer = "true" => w[p].pc = "sync"
  PROVE  PlaceInv'
<1>r. PICK r \in Recs : w[p].rec = r
  BY InTheMiddle
<1>1. \A x : (Absent(x)' <=> Absent(x)) /\ (Begun(x)' <=> Begun(x)) /\ (Placed(x)' <=> Placed(x))
  BY FileStays
<1>3. /\ w'[p].pc = "idle" /\ w'[p].rec = r
      /\ \A q \in Writers : q # p => w'[q] = w[q]
      /\ said'[r] = answer /\ \A x \in Recs : x # r => said'[x] = said[x]
  BY <1>r DEF FileTypeOK, Return
<1>4. said[r] = "nothing" /\ r <= issued /\ \A q \in Writers : q # p /\ w[q].pc # "idle" => w[q].rec # r
  BY <1>r, InTheMiddle
<1>5. \A x \in Recs : x > issued' => Absent(x)' /\ said'[x] = "nothing"
  <2>1. \A x \in Recs : x > issued => x # r
    BY <1>4 DEF FileTypeOK, Recs
  <2> QED
    BY <1>1, <1>3, <2>1 DEF PlaceInv
<1>6. \A q \in Writers : w'[q].pc # "idle" =>
        w'[q].rec \in Recs /\ w'[q].rec <= issued' /\ said'[w'[q].rec] = "nothing"
  BY <1>3, <1>4 DEF PlaceInv
<1>7. \A q, o \in Writers :
        q # o /\ w'[q].pc # "idle" /\ w'[o].pc # "idle" => w'[q].rec # w'[o].rec
  BY <1>3 DEF PlaceInv
<1>8. \A q \in Writers, x \in Recs : w'[q].rec = x =>
        /\ w'[q].pc = "append" => Absent(x)'
        /\ w'[q].pc = "rest" => Begun(x)'
        /\ w'[q].pc = "sync" => Placed(x)'
  BY <1>1, <1>3 DEF PlaceInv
<1>9. \A x \in Recs : said'[x] = "true" => Placed(x)'
  BY <1>1, <1>3, <1>r DEF PlaceInv
<1> QED
  BY <1>5, <1>6, <1>7, <1>8, <1>9 DEF PlaceInv

LEMMA PlaceStep == FileTypeOK /\ PlaceInv /\ [LogNext]_logVars => PlaceInv'
<1> SUFFICES ASSUME FileTypeOK, PlaceInv, [LogNext]_logVars PROVE PlaceInv'
  OBVIOUS
<1>1. CASE UNCHANGED logVars
  <2>1. \A x : (Absent(x)' <=> Absent(x)) /\ (Begun(x)' <=> Begun(x)) /\ (Placed(x)' <=> Placed(x))
    BY <1>1, FileStays DEF logVars
  <2> QED
    BY <1>1, <2>1 DEF logVars, PlaceInv
<1>2. ASSUME NEW p \in Writers, Write(p) PROVE PlaceInv'
  <2>1. \A x : (Absent(x)' <=> Absent(x)) /\ (Begun(x)' <=> Begun(x)) /\ (Placed(x)' <=> Placed(x))
    BY <1>2, FileStays DEF Write
  <2>2. PICK r \in Recs : r = issued + 1
    BY <1>2, AuditAssumption DEF Write, FileTypeOK, Recs
  <2>3. /\ w'[p].pc = "append" /\ w'[p].rec = r
        /\ \A q \in Writers : q # p => w'[q] = w[q]
        /\ said' = said /\ issued' = r
    BY <1>2, <2>2 DEF Write, FileTypeOK
  <2>4. r > issued /\ issued \in Nat
    BY <2>2, AuditAssumption DEF FileTypeOK
  <2>5. Absent(r) /\ said[r] = "nothing"
    BY <2>4 DEF PlaceInv
  <2>6. \A q \in Writers : w[q].pc # "idle" => w[q].rec # r
    <3>1. \A q \in Writers : w[q].pc # "idle" => w[q].rec \in Recs /\ w[q].rec <= issued
      BY DEF PlaceInv
    <3> QED
      BY <2>4, <3>1 DEF Recs
  <2>7. \A x \in Recs : x > issued' => Absent(x)' /\ said'[x] = "nothing"
    BY <2>1, <2>3, <2>4 DEF PlaceInv, Recs
  <2>8. \A q \in Writers : w'[q].pc # "idle" =>
          w'[q].rec \in Recs /\ w'[q].rec <= issued' /\ said'[w'[q].rec] = "nothing"
    <3>1. \A q \in Writers : q # p /\ w'[q].pc # "idle" =>
            w'[q].rec \in Recs /\ w'[q].rec <= issued /\ said'[w'[q].rec] = "nothing"
      BY <2>3 DEF PlaceInv
    <3> QED
      BY <2>3, <2>4, <2>5, <3>1 DEF Recs
  <2>9. \A q, o \in Writers :
          q # o /\ w'[q].pc # "idle" /\ w'[o].pc # "idle" => w'[q].rec # w'[o].rec
    BY <2>3, <2>6 DEF PlaceInv
  <2>10. \A q \in Writers, x \in Recs : w'[q].rec = x =>
           /\ w'[q].pc = "append" => Absent(x)'
           /\ w'[q].pc = "rest" => Begun(x)'
           /\ w'[q].pc = "sync" => Placed(x)'
    BY <2>1, <2>3, <2>5 DEF PlaceInv
  <2>11. \A x \in Recs : said'[x] = "true" => Placed(x)'
    BY <2>1, <2>3 DEF PlaceInv
  <2> QED
    BY <2>7, <2>8, <2>9, <2>10, <2>11 DEF PlaceInv
<1>3. ASSUME NEW p \in Writers, WriteLine(p) PROVE PlaceInv'
  <2>1. PICK r \in Recs : w[p].rec = r
    BY <1>3, InTheMiddle DEF WriteLine
  <2>2. w[p].pc = "append" /\ Absent(r)
    BY <1>3, <2>1 DEF WriteLine, PlaceInv
  <2>3. CASE AppendPiece(p, "whole") /\ Step(p, "sync") /\ UNCHANGED <<failures, said>>
    <3>1. file' = Append(file, Piece(r, "whole")) /\ w' = [w EXCEPT ![p].pc = "sync"]
      BY <2>1, <2>3 DEF AppendPiece, Step
    <3>2. Placed(r)'
      BY <2>2, <3>1, FirstPiece
    <3> QED
      BY <1>3, <2>1, <2>2, <2>3, <3>1, <3>2, PlaceAppend DEF WriteLine
  <2>4. CASE AppendPiece(p, "head") /\ Step(p, "rest") /\ UNCHANGED <<failures, said>>
    <3>1. file' = Append(file, Piece(r, "head")) /\ w' = [w EXCEPT ![p].pc = "rest"]
      BY <2>1, <2>4 DEF AppendPiece, Step
    <3>2. Begun(r)'
      BY <2>2, <3>1, FirstPiece
    <3> QED
      BY <1>3, <2>1, <2>2, <2>4, <3>1, <3>2, PlaceAppend DEF WriteLine
  <2>5. CASE Fail(p) /\ UNCHANGED file
    BY <1>3, <2>2, <2>5, PlaceReturn DEF WriteLine, Fail
  <2> QED
    BY <1>3, <2>3, <2>4, <2>5 DEF WriteLine
<1>4. ASSUME NEW p \in Writers, WriteRest(p) PROVE PlaceInv'
  <2>1. PICK r \in Recs : w[p].rec = r
    BY <1>4, InTheMiddle DEF WriteRest
  <2>2. w[p].pc = "rest" /\ Begun(r)
    BY <1>4, <2>1 DEF WriteRest, PlaceInv
  <2>3. CASE AppendPiece(p, "tail") /\ Step(p, "sync") /\ UNCHANGED <<failures, said>>
    <3>1. file' = Append(file, Piece(r, "tail")) /\ w' = [w EXCEPT ![p].pc = "sync"]
      BY <2>1, <2>3 DEF AppendPiece, Step
    <3>2. Placed(r)'
      BY <2>2, <3>1, TailPiece
    <3> QED
      BY <1>4, <2>1, <2>2, <2>3, <3>1, <3>2, PlaceAppend DEF WriteRest
  <2>4. CASE Fail(p) /\ UNCHANGED file
    BY <1>4, <2>2, <2>4, PlaceReturn DEF WriteRest, Fail
  <2> QED
    BY <1>4, <2>3, <2>4 DEF WriteRest
<1>5. ASSUME NEW p \in Writers, Sync(p) PROVE PlaceInv'
  BY <1>5, PlaceReturn DEF Sync, Fail
<1>6. ASSUME NEW p \in Writers, Kill(p) PROVE PlaceInv'
  BY <1>6, PlaceReturn DEF Kill
<1> QED
  BY <1>1, <1>2, <1>3, <1>4, <1>5, <1>6 DEF LogNext, WriteStep

LEMMA FileInductive == LogSpec => [](FileTypeOK /\ PlaceInv)
  BY FileInit, FileTypeStep, PlaceStep, PTL DEF LogSpec

(* What is appended leaves a prefix. *)
LEMMA PrefixOfGrown ==
  ASSUME NEW S, NEW s \in Seq(S), NEW x \in S, NEW t, t = Append(s, x)
  PROVE  Len(t) >= Len(s) /\ SubSeq(t, 1, Len(s)) = s
<1>1. /\ t \in Seq(S) /\ Len(t) = Len(s) + 1 /\ Len(s) \in Nat
      /\ \A i \in 1..Len(s) : t[i] = s[i]
  BY AppendProperties, LenProperties
<1>2. PICK n \in Nat : n = Len(s)
  BY <1>1
<1>3. \A i \in 1..n : t[i] \in S
  BY <1>1, <1>2, ElementOfSeq
<1>4. SubSeq(t, 1, n) = s
  BY <1>1, <1>2
<1> QED
  BY <1>1, <1>2, <1>4

-----------------------------------------------------------------------------
(* Theorems *)

(* Whatever fails and whoever is killed, no process truncates the file or  *)
(* writes over another one's line: os.open with O_APPEND.                  *)
THEOREM FileGrows == LogSpec => AppendOnly
<1>1. FileTypeOK /\ PlaceInv /\ [LogNext]_logVars =>
        [/\ Len(file') >= Len(file) /\ SubSeq(file', 1, Len(file)) = file]_logVars
  <2> SUFFICES ASSUME FileTypeOK, PlaceInv, LogNext
               PROVE  Len(file') >= Len(file) /\ SubSeq(file', 1, Len(file)) = file
    BY DEF logVars
  <2>1. file \in Seq(Pieces) /\ Len(file) \in Nat
    BY LenProperties DEF FileTypeOK
  <2>2. CASE file' = file
    BY <2>1, <2>2, SubSeqFull
  <2>3. ASSUME NEW x \in Pieces, file' = Append(file, x)
        PROVE  Len(file') >= Len(file) /\ SubSeq(file', 1, Len(file)) = file
    BY <2>1, <2>3, PrefixOfGrown
  <2>4. file' = file \/ \E x \in Pieces : file' = Append(file, x)
    <3>1. ASSUME NEW p \in Writers, NEW part \in {"whole", "head", "tail"},
                 w[p].pc # "idle", AppendPiece(p, part)
          PROVE  \E x \in Pieces : file' = Append(file, x)
      <4>1. Piece(w[p].rec, part) \in Pieces
        BY <3>1, InTheMiddle DEF Piece, Pieces
      <4> QED
        BY <3>1, <4>1 DEF AppendPiece
    <3> QED
      BY <3>1 DEF LogNext, Write, WriteStep, WriteLine, WriteRest, Sync, Kill
  <2> QED
    BY <2>2, <2>3, <2>4
<1> QED
  BY <1>1, FileInductive, PTL DEF LogSpec, AppendOnly

(* Once write has said True the bytes of the record are in the file, in    *)
(* order and exactly once, however the other processes' appends fell.      *)
THEOREM WrittenStaysThere == LogSpec => []WrittenIsThere
<1>1. FileTypeOK /\ PlaceInv => WrittenIsThere
  <2> SUFFICES ASSUME PlaceInv, NEW r \in Recs, said[r] = "true"
               PROVE  \/ /\ Cardinality(Positions(r, "whole")) = 1
                         /\ Positions(r, "head") \cup Positions(r, "tail") = {}
                      \/ /\ Positions(r, "whole") = {}
                         /\ \E i, j \in DOMAIN file : /\ i < j
                                                      /\ Positions(r, "head") = {i}
                                                      /\ Positions(r, "tail") = {j}
    BY DEF WrittenIsThere
  <2>1. Placed(r)
    BY DEF PlaceInv
  <2>2. CASE Whole(r)
    <3>1. PICK i \in DOMAIN file : /\ file[i] = Piece(r, "whole")
                                   /\ \A j \in DOMAIN file : file[j].rec = r => j = i
      BY <2>2 DEF Whole
    <3>2. Positions(r, "whole") = {i}
      BY <3>1 DEF Positions, Piece
    <3>3. Positions(r, "head") = {} /\ Positions(r, "tail") = {}
      BY <3>1 DEF Positions, Piece
    <3>4. Cardinality({i}) = 1
      BY FS_Singleton
    <3> QED
      BY <3>2, <3>3, <3>4
  <2>3. CASE Split(r)
    <3>1. PICK i, j \in DOMAIN file :
            /\ i < j /\ file[i] = Piece(r, "head") /\ file[j] = Piece(r, "tail")
            /\ \A k \in DOMAIN file : file[k].rec = r => k = i \/ k = j
      BY <2>3 DEF Split
    <3>2. Positions(r, "whole") = {}
      BY <3>1 DEF Positions, Piece
    <3>3. Positions(r, "head") = {i}
      BY <3>1 DEF Positions, Piece
    <3>4. Positions(r, "tail") = {j}
      BY <3>1 DEF Positions, Piece
    <3> QED
      BY <3>1, <3>2, <3>3, <3>4
  <2> QED
    BY <2>1, <2>2, <2>3 DEF Placed
<1> QED
  BY <1>1, FileInductive, PTL

(* A record that write called written and that no line holds was torn by   *)
(* another process or stands behind a stump: a loss always has its broken  *)
(* line next to it.                                                        *)
THEOREM LossHasItsBrokenLine == LogSpec => []SilentLossIsExplained
<1>1. FileTypeOK /\ PlaceInv => SilentLossIsExplained
  <2> SUFFICES ASSUME FileTypeOK, PlaceInv, NEW r \in Recs, said[r] = "true", ~Readable(r)
               PROVE  \E i \in DOMAIN file :
                        /\ Broken(i)
                        /\ file[i].rec = r \/ (i < Len(file) /\ file[i + 1].rec = r)
    BY DEF SilentLossIsExplained
  <2>1. Placed(r)
    BY DEF PlaceInv
  <2>2. file \in Seq(Pieces) /\ Len(file) \in Nat /\ DOMAIN file = 1..Len(file)
        /\ \A i \in 1..Len(file) : file[i] \in Pieces
    BY LenProperties, ElementOfSeq DEF FileTypeOK
  <2>3. ASSUME NEW i \in DOMAIN file, NEW part \in {"whole", "head"}, file[i] = Piece(r, part),
               ~(i = 1 \/ EndsLine(file[i - 1]))
        PROVE  i - 1 \in DOMAIN file /\ Broken(i - 1) /\ i - 1 < Len(file) /\ file[(i - 1) + 1].rec = r
    <3>1. i \in Nat /\ i # 1 /\ i - 1 \in DOMAIN file /\ i - 1 < Len(file) /\ (i - 1) + 1 = i
      BY <2>2, <2>3
    <3>2. file[i - 1].part = "head"
      BY <2>2, <2>3, <3>1 DEF EndsLine, Pieces
    <3>3. file[(i - 1) + 1] # Piece(file[i - 1].rec, "tail") /\ file[(i - 1) + 1].rec = r
      BY <2>3, <3>1 DEF Piece
    <3> QED
      BY <3>1, <3>2, <3>3 DEF Broken
  <2>4. CASE Whole(r)
    <3>1. PICK i \in DOMAIN file : file[i] = Piece(r, "whole")
      BY <2>4 DEF Whole
    <3>2. ~(i = 1 \/ EndsLine(file[i - 1]))
      BY <3>1 DEF Readable
    <3> QED
      BY <2>3, <3>1, <3>2
  <2>5. CASE Split(r)
    <3>1. PICK i, j \in DOMAIN file :
            /\ i < j /\ file[i] = Piece(r, "head") /\ file[j] = Piece(r, "tail")
            /\ \A k \in DOMAIN file : file[k].rec = r => k = i \/ k = j
      BY <2>5 DEF Split
    <3>2. CASE j = i + 1
      <4>1. i < Len(file) /\ file[i + 1] = Piece(r, "tail")
        BY <2>2, <3>1, <3>2
      <4>2. ~(i = 1 \/ EndsLine(file[i - 1]))
        BY <3>1, <4>1 DEF Readable
      <4> QED
        BY <2>3, <3>1, <4>2
    <3>3. CASE j # i + 1
      <4>1. file[i].part = "head" /\ file[i].rec = r
        BY <3>1 DEF Piece
      <4>2. i < Len(file) => file[i + 1] # Piece(r, "tail")
        <5>1. Piece(r, "tail").rec = r
          BY DEF Piece
        <5>2. i + 1 # i /\ (i < Len(file) => i + 1 \in DOMAIN file)
          BY <2>2
        <5> QED
          BY <3>1, <3>3, <5>1, <5>2
      <4> QED
        BY <4>1, <4>2 DEF Broken
    <3> QED
      BY <3>2, <3>3
  <2> QED
    BY <2>1, <2>4, <2>5 DEF Placed
<1> QED
  BY <1>1, FileInductive, PTL

-----------------------------------------------------------------------------
(* The counter of failures *)

(* A process has failed no more writes than were begun, the one it is in   *)
(* the middle of not included.                                             *)
CountInv ==
  /\ failures \in [Writers -> Nat]
  /\ \A p \in Writers : /\ failures[p] <= issued
                        /\ w[p].pc # "idle" => failures[p] < issued

LEMMA CountStep == FileTypeOK /\ PlaceInv /\ CountInv /\ [LogNext]_logVars => CountInv'
<1> SUFFICES ASSUME FileTypeOK, PlaceInv, CountInv, [LogNext]_logVars PROVE CountInv'
  OBVIOUS
<1>n. issued \in Nat /\ \A p \in Writers : failures[p] \in Nat
  BY AuditAssumption DEF FileTypeOK, CountInv
<1>1. CASE UNCHANGED logVars
  BY <1>1 DEF logVars, CountInv
<1>2. ASSUME NEW p \in Writers, Write(p) PROVE CountInv'
  <2>1. issued' = issued + 1 /\ failures' = failures
    BY <1>2 DEF Write
  <2> QED
    BY <1>n, <2>1 DEF CountInv
<1>3. ASSUME NEW p \in Writers, WriteStep(p) \/ Kill(p) PROVE CountInv'
  <2>1. w[p].pc # "idle" /\ issued' = issued
    BY <1>3 DEF WriteStep, WriteLine, WriteRest, Sync, Kill
  <2>2. failures[p] < issued
    BY <2>1 DEF CountInv
  <2>3. \A q \in Writers : w'[q].pc # "idle" => w[q].pc # "idle"
    BY <1>3, <2>1 DEF WriteStep, WriteLine, WriteRest, Sync, Kill, Step, Return, Fail, FileTypeOK
  <2>4. PICK k \in {failures[p], failures[p] + 1, 0} :
          /\ \/ failures' = failures /\ k = failures[p]
             \/ failures' = [failures EXCEPT ![p] = k]
          /\ k = failures[p] + 1 => w'[p].pc = "idle"
    BY <1>3, <1>n DEF WriteStep, WriteLine, WriteRest, Sync, Kill, Return, Fail, FileTypeOK
  <2>5. k \in Nat /\ k <= issued /\ (w'[p].pc # "idle" => k < issued)
    BY <1>n, <2>2, <2>4
  <2>6. failures' \in [Writers -> Nat] /\ failures'[p] = k
        /\ \A q \in Writers \ {p} : failures'[q] = failures[q]
    BY <1>n, <2>4, <2>5 DEF CountInv
  <2> QED
    BY <2>1, <2>3, <2>5, <2>6 DEF CountInv
<1> QED
  BY <1>1, <1>2, <1>3 DEF LogNext

(* Every state of the log is of its type, and AuditLog.failures never      *)
(* counts more failures than records were handed in.                       *)
THEOREM LogTypes == LogSpec => []LogTypeOK
<1>1. LogInit => CountInv
  BY DEF LogInit, CountInv
<1>2. FileTypeOK /\ CountInv => LogTypeOK
  <2> SUFFICES ASSUME FileTypeOK, CountInv PROVE LogTypeOK
    OBVIOUS
  <2>1. \A p \in Writers : failures[p] \in 0..MaxRecords
    BY AuditAssumption DEF FileTypeOK, CountInv
  <2>2. failures \in [Writers -> 0..MaxRecords]
    BY <2>1 DEF CountInv
  <2> QED
    BY <2>2 DEF FileTypeOK, LogTypeOK, Pieces
<1>3. FileTypeOK /\ PlaceInv /\ CountInv /\ [LogNext]_logVars => (FileTypeOK /\ PlaceInv /\ CountInv)'
  BY FileTypeStep, PlaceStep, CountStep
<1> QED
  BY <1>1, <1>2, <1>3, FileInit, PTL DEF LogSpec
=============================================================================
