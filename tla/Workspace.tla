----------------------------- MODULE Workspace -----------------------------
(***************************************************************************)
(* read_file, write_file and list_dir, system call by system call, on a    *)
(* tree that other programs change in between: they replace directory      *)
(* entries and rewrite files.                                              *)
(*                                                                         *)
(* Abstracted: a relative path is the sequence of its segments, with at    *)
(* most two names in it; a file is a sequence of blocks, each of them what *)
(* one read or write moves; os.path.realpath and the reading of a          *)
(* directory are single steps.                                             *)
(***************************************************************************)
EXTENDS Naturals, Sequences

CONSTANTS
  Callers,   \* harnesses that work on the same root, one call at a time each
  Places,    \* directories
  Root,      \* the resolved workspace.root
  Outside,   \* the directories that are not under the root
  Names,     \* file names
  Files,     \* file objects, among them unused ones for new files
  Outer,     \* the files that only directories outside the root hold
  NoFile,    \* no object
  Blocks,    \* blocks of text, among them Old, Binary and Hole
  Old,       \* what the files hold at first
  Binary,    \* a block that is not UTF-8
  Hole,      \* what a write beyond the end of a file leaves in between
  Texts,     \* what write_file may be asked to write
  MaxBytes,  \* workspace.max_file_bytes, in blocks
  Rels,      \* the paths a model asks for, as sequences of segments
  Moves,     \* what others put into a directory: place, name and entry
  Edits,     \* what others write into a file: file and content
  Trees,     \* the trees to start from
  Disk,      \* TRUE: a system call may fail, a process may be killed
  MaxCalls   \* bound: how many calls are made in all

VARIABLES
  tree,      \* tree[p][n]: what directory p holds under n
  content,   \* content[f]: the blocks of a file
  call,      \* call[c]: the call in progress, or the last one
  calls      \* how many calls were made

vars == <<tree, content, call, calls>>

Objects == Files \cup Places
Nothing == [kind |-> "none", to |-> NoFile]
Entries == {Nothing, [kind |-> "other", to |-> NoFile]}
             \cup [kind : {"file"}, to : Files]
             \cup [kind : {"dir"}, to : Places]
             \cup [kind : {"link"}, to : Objects]

(* The entries a directory under the root may hold. *)
InnerEntries == {e \in Entries : e.kind = "link" \/ e.to \notin Outside \cup Outer}

ASSUME PlacesAssumption ==
  /\ Root \in Places \ Outside /\ Outside \subseteq Places
  /\ Outer \subseteq Files /\ Files \cap Places = {} /\ NoFile \notin Objects
ASSUME TreesAssumption ==
  /\ Trees \subseteq [Places -> [Names -> Entries]]
  /\ \A t \in Trees, p \in Places \ Outside, n \in Names : t[p][n] \in InnerEntries
  /\ Moves \subseteq (Places \ Outside) \X Names \X InnerEntries
ASSUME InputAssumption ==
  /\ {MaxBytes, MaxCalls} \subseteq Nat /\ Disk \in BOOLEAN
  /\ {Old, Binary, Hole} \subseteq Blocks
  /\ Texts \subseteq Seq(Blocks) /\ Edits \subseteq Files \X Seq(Blocks)

(* The segments of the path without the empty ones and the dots. *)
Parts(rel) == SelectSeq(rel, LAMBDA s : s \notin {"", "."})

ASSUME PathsAssumption ==
  \A rel \in Rels : /\ rel \in Seq(Names \cup {"", ".", ".."}) \ {<<>>}
                    /\ (\A i \in DOMAIN rel : rel[i] # "..") =>
                         Parts(rel) \in Seq(Names) /\ Len(Parts(rel)) <= 2

(* What confine decides on the text of the path alone; one trailing slash  *)
(* is tolerated, and only list_dir takes the empty path.                   *)
Accepts(op, rel) ==
  /\ rel = <<"">> => op = "list"
  /\ Len(rel) > 1 => \A i \in 1..(Len(rel) - 1) : rel[i] # ""
  /\ \A i \in DOMAIN rel : rel[i] # ".."

(* What the kernel finds at a path; all but the last component is followed. *)
Holder(parts) ==
  IF Len(parts) < 2 THEN Root ELSE tree[Root][parts[1]].to

Lookup(parts) ==
  IF parts = <<>> THEN [kind |-> "dir", to |-> Root]
  ELSE IF Holder(parts) \in Places THEN tree[Holder(parts)][parts[Len(parts)]]
  ELSE IF tree[Root][parts[1]].kind = "none" THEN Nothing
  ELSE [kind |-> "not_a_directory", to |-> NoFile]

(* realpath of the path lies under the root. *)
RealIsInside(parts) ==
  /\ Holder(parts) \notin Outside \cup Outer
  /\ Lookup(parts).kind = "link" => Lookup(parts).to \notin Outside \cup Outer

(* The last three fields are history: what the file held when it was       *)
(* opened, whether somebody else wrote to it since, and whether a           *)
(* directory on the path was replaced since the call began.                *)
Asked(pc, op, parts, text) ==
  [pc |-> pc, op |-> op, parts |-> parts, text |-> text, at |-> 1, obj |-> NoFile,
   moved |-> <<>>, how |-> "none", old |-> <<>>, edited |-> FALSE, swapped |-> FALSE]

Init ==
  /\ tree \in Trees
  /\ content = [f \in Files |-> <<Old, Old>>]
  /\ call = [c \in Callers |-> Asked("idle", "list", <<>>, <<>>)]
  /\ calls = 0

Goto(c, pc) == call' = [call EXCEPT ![c].pc = pc]
End(c, how) == call' = [call EXCEPT ![c].pc = "idle", ![c].how = how]
Unchanged == UNCHANGED <<tree, content, calls>>
Refuse(c) == End(c, "refused") /\ Unchanged

Begin(c, op, rel, text) ==
  /\ call[c].pc = "idle"
  /\ calls < MaxCalls
  /\ calls' = calls + 1
  /\ call' = [call EXCEPT ![c] =
       IF ~Accepts(op, rel) THEN [Asked("idle", op, <<>>, text) EXCEPT !.how = "refused"]
       ELSE Asked(IF Parts(rel) = <<>> THEN "real" ELSE "walk", op, Parts(rel), text)]
  /\ UNCHANGED <<tree, content>>

(* lstat of one component after the other: links are refused, and so is    *)
(* what is missing, except for the last component of a write.              *)
Walk(c) ==
  /\ call[c].pc = "walk"
  /\ LET e == Lookup(SubSeq(call[c].parts, 1, call[c].at))
         last == call[c].at = Len(call[c].parts) IN
     IF \/ e.kind \in {"link", "not_a_directory"}
        \/ e.kind = "none" /\ ~(last /\ call[c].op = "write")
     THEN Refuse(c)
     ELSE /\ IF last THEN Goto(c, "real") ELSE call' = [call EXCEPT ![c].at = @ + 1]
          /\ Unchanged

(* The end of confine, and the checks of write_file on its own arguments. *)
Real(c) ==
  /\ call[c].pc = "real"
  /\ LET k == call[c] IN
     IF \/ ~RealIsInside(k.parts)
        \/ k.op = "write" /\ (Len(k.text) > MaxBytes \/ k.parts = <<>>)
     THEN Refuse(c)
     ELSE Goto(c, IF k.op = "write" THEN "parent" ELSE "stat") /\ Unchanged

Parent(c) ==
  /\ call[c].pc = "parent"
  /\ IF Lookup(SubSeq(call[c].parts, 1, Len(call[c].parts) - 1)).kind = "dir"
     THEN Goto(c, "stat") /\ Unchanged
     ELSE Refuse(c)

Stat(c) ==
  /\ call[c].pc = "stat"
  /\ LET e == Lookup(call[c].parts)
         fits == CASE call[c].op = "list" -> e.kind = "dir"
                   [] call[c].op = "read" -> e.kind = "file" /\ Len(content[e.to]) <= MaxBytes
                   [] OTHER -> e.kind \in {"file", "none"} IN
     IF fits THEN Goto(c, IF call[c].op = "list" THEN "scan" ELSE "open") /\ Unchanged
     ELSE Refuse(c)

(* A file object that a new entry of p may be given. *)
Unused(f, p) ==
  /\ f \in Outer <=> p \in Outside
  /\ \A q \in Places, n \in Names : tree[q][n].to # f
  /\ \A c \in Callers : call[c].obj # f

Opened(c, f) ==
  call' = [call EXCEPT ![c].pc = "start", ![c].obj = f,
                       ![c].old = IF call[c].op = "write" THEN content'[f] ELSE <<>>]

(* Slip: without O_NOFOLLOW. *)
IsOpenedFollowing(e) == e.to \in Files

(* O_NOFOLLOW turns down a link, fstat anything else that is no file. *)
IsOpened(e) == e.kind = "file"

(* Slip: without O_NONBLOCK the open of a FIFO waits for the other end. *)
OpenBlocking(c) ==
  /\ call[c].pc = "open"
  /\ LET e == Lookup(call[c].parts) IN
     \/ e.kind = "file" /\ Unchanged /\ Opened(c, e.to)
     \/ e.kind \notin {"file", "other"} /\ Refuse(c)

(* The open does not wait; that of a write creates what is not there. *)
Open(c) ==
  /\ call[c].pc = "open"
  /\ LET k == call[c]
         e == Lookup(k.parts)
         p == Holder(k.parts)
         create == e.kind = "none" /\ k.op = "write" /\ p \in Places IN
     \/ IsOpened(e) /\ Unchanged /\ Opened(c, e.to)
     \/ \E f \in Files :
          /\ create /\ Unused(f, p)
          /\ tree' = [tree EXCEPT ![p][k.parts[Len(k.parts)]] = [kind |-> "file", to |-> f]]
          /\ content' = [content EXCEPT ![f] = <<>>]
          /\ Opened(c, f)
          /\ UNCHANGED calls
     \/ ~IsOpened(e) /\ ~create /\ Refuse(c)

(* Puts blocks into c's file; whoever else has it open is disturbed. *)
Put(c, f, blocks, next) ==
  /\ content' = [content EXCEPT ![f] = blocks]
  /\ call' = [x \in Callers |->
       IF x = c THEN next
       ELSE [call[x] EXCEPT !.edited = @ \/ call[x].obj = f]]
  /\ UNCHANGED <<tree, calls>>

(* Slip: the file is not truncated. *)
StartInPlace(c) ==
  /\ call[c].pc = "start"
  /\ IF call[c].op = "read" /\ Len(content[call[c].obj]) > MaxBytes
     THEN Refuse(c)
     ELSE Goto(c, "io") /\ Unchanged

(* A read looks at the size once more, a write truncates. *)
Start(c) ==
  /\ call[c].pc = "start"
  /\ LET k == call[c] IN
     IF k.op = "write" THEN Put(c, k.obj, <<>>, [k EXCEPT !.pc = "io"])
     ELSE IF Len(content[k.obj]) > MaxBytes THEN Refuse(c)
     ELSE Goto(c, "io") /\ Unchanged

(* Slip: the size was checked before and is not counted. *)
ReadUncounted(c) ==
  /\ call[c].pc = "io"
  /\ call[c].op = "read"
  /\ LET blocks == content[call[c].obj]
         done == call[c].moved IN
     IF Len(done) < Len(blocks)
     THEN call' = [call EXCEPT ![c].moved = Append(done, blocks[Len(done) + 1])]
     ELSE End(c, "ok")
  /\ Unchanged

(* os.read until it returns nothing, then decode. *)
Read(c) ==
  /\ call[c].pc = "io"
  /\ call[c].op = "read"
  /\ LET blocks == content[call[c].obj]
         done == call[c].moved
         more == Len(done) < Len(blocks) IN
     \/ more /\ Len(done) >= MaxBytes /\ End(c, "refused")
     \/ /\ more /\ Len(done) < MaxBytes
        /\ call' = [call EXCEPT ![c].moved = Append(done, blocks[Len(done) + 1])]
     \/ ~more /\ End(c, IF \E i \in DOMAIN done : done[i] = Binary THEN "refused" ELSE "ok")
  /\ Unchanged

(* blocks with b at position i. *)
Overwritten(blocks, i, b) ==
  [j \in 1..(IF i > Len(blocks) THEN i ELSE Len(blocks)) |->
     IF j = i THEN b ELSE IF j <= Len(blocks) THEN blocks[j] ELSE Hole]

(* os.write until nothing is left. *)
Write(c) ==
  /\ call[c].pc = "io"
  /\ call[c].op = "write"
  /\ LET k == call[c]
         i == Len(k.moved) + 1 IN
     IF i > Len(k.text) THEN End(c, "ok") /\ Unchanged
     ELSE Put(c, k.obj, Overwritten(content[k.obj], i, k.text[i]),
              [k EXCEPT !.moved = Append(@, k.text[i])])

(* os.scandir, which follows whatever is there by then. *)
Scan(c) ==
  /\ call[c].pc = "scan"
  /\ LET p == Lookup(call[c].parts).to IN
     IF p \in Places
     THEN call' = [call EXCEPT ![c].pc = "idle", ![c].how = "ok", ![c].obj = p] /\ Unchanged
     ELSE Refuse(c)

(* An OSError ends the call; so does a signal. *)
Fail(c) == Disk /\ call[c].pc # "idle" /\ End(c, "failed") /\ Unchanged

Step(c) == Walk(c) \/ Real(c) \/ Parent(c) \/ Stat(c) \/ Open(c) \/ Start(c)
             \/ Read(c) \/ Write(c) \/ Scan(c)

(* The entry n of p is a directory on the way of the call: any component   *)
(* of list_dir's path, all but the last one of the others.                 *)
IsOnTheWay(k, p, n) ==
  \/ p = Root /\ Len(k.parts) = 2 /\ n = k.parts[1]
  \/ k.op = "list" /\ k.parts # <<>> /\ p = Holder(k.parts) /\ n = k.parts[Len(k.parts)]

(* Somebody else puts an entry in the place of another. *)
Replace ==
  /\ \E m \in Moves :
       /\ tree' = [tree EXCEPT ![m[1]][m[2]] = m[3]]
       /\ call' = [c \in Callers |->
            [call[c] EXCEPT !.swapped = @ \/ IsOnTheWay(call[c], m[1], m[2])]]
  /\ UNCHANGED <<content, calls>>

(* Somebody else rewrites a file. *)
Edit ==
  /\ \E e \in Edits :
       /\ content' = [content EXCEPT ![e[1]] = e[2]]
       /\ call' = [c \in Callers |-> [call[c] EXCEPT !.edited = @ \/ call[c].obj = e[1]]]
  /\ UNCHANGED <<tree, calls>>

Next ==
  \/ \E c \in Callers :
       \/ \E rel \in Rels :
            \/ \E op \in {"read", "list"} : Begin(c, op, rel, <<>>)
            \/ \E text \in Texts : Begin(c, "write", rel, text)
       \/ Step(c) \/ Fail(c)
  \/ Replace \/ Edit

Spec == Init /\ [][Next]_vars

(* System calls return. *)
FairSpec == Spec /\ \A c \in Callers : WF_vars(Step(c))

-----------------------------------------------------------------------------
(* Properties *)

(* A call reads, writes or lists an object that is not under the root only *)
(* if, while it ran, somebody replaced a directory on its path.  Links     *)
(* that were there before, and links put in the place of the file itself,  *)
(* are never followed.                                                     *)
StaysInside == \A c \in Callers : call[c].obj \in Outer \cup Outside => call[c].swapped

IsPrefixOf(s, t) == Len(s) <= Len(t) /\ \A i \in DOMAIN s : s[i] = t[i]

(* What a write leaves, when nobody else writes to the file: all of the    *)
(* text if it answered ok; the old content if it was refused; and after a  *)
(* failure or a kill the old content or a beginning of the text, never a   *)
(* mixture of the two.                                                     *)
WriteLeavesOneText ==
  \A c \in Callers :
    LET k == call[c] IN
    k.op = "write" /\ k.obj # NoFile /\ ~k.edited =>
      CASE k.how = "ok" -> content[k.obj] = k.text
        [] k.how = "refused" -> content[k.obj] = k.old
        [] OTHER -> content[k.obj] = k.old \/ IsPrefixOf(content[k.obj], k.text)

(* What a read returns, however the file changes, is within the limit; and *)
(* when nobody wrote to the file it is the file.                           *)
ReadIsTrue ==
  \A c \in Callers :
    LET k == call[c] IN
    k.op = "read" /\ k.how = "ok" =>
      /\ Len(k.moved) <= MaxBytes
      /\ ~k.edited => k.moved = content[k.obj]

(* Every call returns, also on a FIFO and on a file that keeps changing. *)
CallsReturn == \A c \in Callers : call[c].pc # "idle" ~> call[c].pc = "idle"
=============================================================================
