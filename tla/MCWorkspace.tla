---------------------------- MODULE MCWorkspace ----------------------------
(* A root with a file f and a directory d, and a directory out that is not *)
(* under the root; both directories hold an f.                             *)
EXTENDS Workspace

Entry(kind, to) == [kind |-> kind, to |-> to]
MCPlaces == {"root", "sub", "out"}
MCFiles == {"f1", "f2", "f3", "f4", "f5"}
MCNames == {"d", "f"}

Tree(d, f, inner) ==
  [root |-> [d |-> d, f |-> f],
   sub |-> [d |-> Nothing, f |-> inner],
   out |-> [d |-> Nothing, f |-> Entry("file", "f3")]]

Sub == Entry("dir", "sub")
MCTrees ==
  {Tree(Sub, Entry("file", "f1"), Entry("file", "f2")),
   Tree(Entry("link", "out"), Entry("link", "f3"), Nothing),
   Tree(Sub, Entry("other", NoFile), Entry("link", "f1"))}

(* d goes, comes back, becomes a link; the file below it goes or becomes a *)
(* link; the one in the root becomes a FIFO or a link.                     *)
MCMoves ==
  {<<"root", "d", Nothing>>, <<"root", "d", Sub>>, <<"root", "d", Entry("link", "out")>>,
   <<"sub", "f", Nothing>>, <<"sub", "f", Entry("link", "f3")>>,
   <<"root", "f", Entry("other", NoFile)>>, <<"root", "f", Entry("link", "f3")>>}

MCRels == {<<"f">>, <<"d", "f">>, <<"d", "">>, <<".">>, <<"d", "..">>, <<"d", "", "f">>}
MCBlocks == {"old", "binary", "hole", "new", "newer", "newest", "his"}
MCTexts == {<<"new", "newer">>, <<"new", "newer", "newest">>}
MCEdits == {<<"f1", <<"his", "his", "his">>>>, <<"f1", <<"binary">>>>}
=============================================================================
