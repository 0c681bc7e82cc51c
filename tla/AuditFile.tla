----------------------------- MODULE AuditFile -----------------------------
(***************************************************************************)
(* AuditLog.write, system call by system call: the processes that share    *)
(* audit.path (the harness and any activate) each append one line at a     *)
(* time, O_APPEND puts every write at the end, a write may take only part  *)
(* of the line, and any call may fail.                                     *)
(*                                                                         *)
(* Abstracted: a line is written whole or as a head and a tail, the tail   *)
(* carries the newline, and the file is the sequence of those pieces.      *)
(***************************************************************************)
EXTENDS Naturals, Sequences, FiniteSets

CONSTANTS
  Writers,     \* processes with an AuditLog on the same path
  ShortWrites, \* TRUE: os.write may take a part of the line
  LogFaults,   \* which of "disk" (open or write), "sync" (fsync) and "kill" happen
  MaxRecords   \* bound: how many records are written in all

ASSUME LogFaultsAssumption == LogFaults \subseteq {"disk", "sync", "kill"}
ASSUME AuditAssumption == ShortWrites \in BOOLEAN /\ MaxRecords \in Nat

Recs == 1..MaxRecords
NoRec == 0

VARIABLES
  file,     \* the pieces in the file
  w,        \* w[p]: the write in progress of process p
  failures, \* failures[p]: AuditLog.failures
  issued,   \* how many records were handed to write
  said      \* history: what write answered for a record

logVars == <<file, w, failures, issued, said>>

Piece(r, part) == [rec |-> r, part |-> part]
EndsLine(piece) == piece.part \in {"whole", "tail"}

LogInit ==
  /\ file = <<>>
  /\ w = [p \in Writers |-> [pc |-> "idle", rec |-> NoRec]]
  /\ failures = [p \in Writers |-> 0]
  /\ issued = 0
  /\ said = [r \in Recs |-> "nothing"]

Write(p) ==
  /\ w[p].pc = "idle"
  /\ issued < MaxRecords
  /\ issued' = issued + 1
  /\ w' = [w EXCEPT ![p] = [pc |-> "append", rec |-> issued + 1]]
  /\ UNCHANGED <<file, failures, said>>

Step(p, pc) == w' = [w EXCEPT ![p].pc = pc]

Return(p, answer) ==
  /\ w' = [w EXCEPT ![p].pc = "idle"]
  /\ said' = [said EXCEPT ![w[p].rec] = answer]

(* Slip: write waits for the disk instead of reporting the failure. *)
FailWaiting(p) ==
  /\ w' = [w EXCEPT ![p].pc = "stuck"]
  /\ UNCHANGED <<failures, said>>

(* Slip: counted by _append and by write. *)
FailCountingTwice(p) ==
  /\ failures' = [failures EXCEPT ![p] = @ + 2]
  /\ Return(p, "false")

(* Slip: a failure counts, but the caller hears True. *)
FailQuietly(p) ==
  /\ Return(p, "true")
  /\ UNCHANGED failures

(* The exception is counted, reported on stderr and swallowed. *)
Fail(p) ==
  /\ failures' = [failures EXCEPT ![p] = @ + 1]
  /\ Return(p, "false")

(* Slip: O_TRUNC instead of O_APPEND. *)
AppendTruncating(p, part) == file' = <<Piece(w[p].rec, part)>>

AppendPiece(p, part) == file' = Append(file, Piece(w[p].rec, part))

(* mkdir, open, encode and the first os.write. *)
WriteLine(p) ==
  /\ w[p].pc = "append"
  /\ \/ AppendPiece(p, "whole") /\ Step(p, "sync") /\ UNCHANGED <<failures, said>>
     \/ /\ ShortWrites
        /\ AppendPiece(p, "head")
        /\ Step(p, "rest")
        /\ UNCHANGED <<failures, said>>
     \/ "disk" \in LogFaults /\ Fail(p) /\ UNCHANGED file
  /\ UNCHANGED issued

(* Slip: a short write is taken for the whole line. *)
WriteRestSkipped(p) ==
  /\ w[p].pc = "rest"
  /\ Step(p, "sync")
  /\ UNCHANGED <<file, failures, issued, said>>

WriteRest(p) ==
  /\ w[p].pc = "rest"
  /\ \/ AppendPiece(p, "tail") /\ Step(p, "sync") /\ UNCHANGED <<failures, said>>
     \/ "disk" \in LogFaults /\ Fail(p) /\ UNCHANGED file
  /\ UNCHANGED issued

Sync(p) ==
  /\ w[p].pc = "sync"
  /\ \/ Return(p, "true") /\ UNCHANGED failures
     \/ "sync" \in LogFaults /\ Fail(p)
  /\ UNCHANGED <<file, issued>>

(* The process is killed in the middle of a write; its successor counts    *)
(* from zero.                                                              *)
Kill(p) ==
  /\ "kill" \in LogFaults
  /\ w[p].pc # "idle"
  /\ Return(p, "cut")
  /\ failures' = [failures EXCEPT ![p] = 0]
  /\ UNCHANGED <<file, issued>>

WriteStep(p) == WriteLine(p) \/ WriteRest(p) \/ Sync(p)

LogNext == \E p \in Writers : Write(p) \/ WriteStep(p) \/ Kill(p)

LogSpec == LogInit /\ [][LogNext]_logVars

(* System calls on the audit file return. *)
LogFairSpec == LogSpec /\ \A p \in Writers : WF_logVars(WriteStep(p))

-----------------------------------------------------------------------------
(* Properties *)

LogTypeOK ==
  /\ file \in Seq([rec : Recs, part : {"whole", "head", "tail"}])
  /\ w \in [Writers -> [pc : {"idle", "append", "rest", "sync"}, rec : 0..MaxRecords]]
  /\ failures \in [Writers -> 0..MaxRecords]
  /\ issued \in 0..MaxRecords
  /\ said \in [Recs -> {"nothing", "true", "false", "cut"}]

(* A reader finds the record: its line holds that record and nothing else. *)
Readable(r) ==
  \E i \in DOMAIN file :
    /\ i = 1 \/ EndsLine(file[i - 1])
    /\ \/ file[i] = Piece(r, "whole")
       \/ /\ file[i] = Piece(r, "head")
          /\ i < Len(file)
          /\ file[i + 1] = Piece(r, "tail")

(* The file only ever grows at the end: no process truncates it or writes  *)
(* over what another one has logged.                                       *)
AppendOnly ==
  [][/\ Len(file') >= Len(file)
     /\ SubSeq(file', 1, Len(file)) = file]_logVars

(* Every byte of a record that write reported as written is in the file,   *)
(* in order, and exactly once, whoever else was appending.                 *)
Positions(r, part) == {i \in DOMAIN file : file[i] = Piece(r, part)}

WrittenIsThere ==
  \A r \in Recs : said[r] = "true" =>
    \/ /\ Cardinality(Positions(r, "whole")) = 1
       /\ Positions(r, "head") \cup Positions(r, "tail") = {}
    \/ /\ Positions(r, "whole") = {}
       /\ \E i, j \in DOMAIN file : /\ i < j
                                    /\ Positions(r, "head") = {i}
                                    /\ Positions(r, "tail") = {j}

(* Losing a record is never silent: what write reported as written is a    *)
(* line of the file.                                                       *)
NoSilentLoss == \A r \in Recs : said[r] = "true" => Readable(r)

(* A line that was begun and not continued by its own tail: a failure, a    *)
(* kill or another process got in between.                                 *)
Broken(i) ==
  /\ file[i].part = "head"
  /\ i < Len(file) => file[i + 1] # Piece(file[i].rec, "tail")

(* What loss stays silent, and why: a record that write reported as         *)
(* written and that no line holds was itself torn apart by another process, *)
(* or it was glued to the stump that somebody else left.  So write never    *)
(* reports success for bytes that are not in the file, and where no line    *)
(* was broken nothing is lost.                                              *)
SilentLossIsExplained ==
  \A r \in Recs : said[r] = "true" /\ ~Readable(r) =>
    \E i \in DOMAIN file :
      /\ Broken(i)
      /\ file[i].rec = r \/ (i < Len(file) /\ file[i + 1].rec = r)

(* A broken sink is no denial of service: every write returns. *)
WritesReturn == \A p \in Writers : w[p].pc # "idle" ~> w[p].pc = "idle"
=============================================================================
