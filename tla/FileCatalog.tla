---------------------------- MODULE FileCatalog ----------------------------
(***************************************************************************)
(* What the file catalogue promises: a set of captured files that changes  *)
(* by whole captures.  A capture is published in one step, all of its      *)
(* channels at once; files go one by one, by task, or all in one step.     *)
(* FreshSpec adds what makes a published file readable: its index names it *)
(* within its task, and its sectors are its own.                           *)
(***************************************************************************)
EXTENDS Integers, FiniteSets

CONSTANTS Tasks, NumChannels, MaxIndex

VARIABLE files

Channels == 0 .. NumChannels - 1
Low == NumChannels - 1          \* the low-speed channel, part of every capture

File == [task : Tasks, idx : 1 .. MaxIndex, ch : Channels, lba : Nat]

\* The channel sets of build_file_plan: the low-speed channel or all of them.
CaptureSets == {{Low}, Channels}

Init == files = {}

\* One task, one file for each channel of the capture.
WholeCapture(new) ==
    /\ \E t \in Tasks : \A f \in new : f.task = t
    /\ {f.ch : f \in new} \in CaptureSets
    /\ \A f, g \in new : f.ch = g.ch => f = g

SameRange(f, g) == f.ch = g.ch /\ f.lba = g.lba
SameName(f, g) == f.task = g.task /\ f.idx = g.idx

\* New files are one whole capture; a file goes alone, with its task or with all.
Arrivals == files' \subseteq files \/ WholeCapture(files' \ files)
Departures == \/ files' = {} \/ Cardinality(files \ files') <= 1
              \/ \E t \in Tasks : files \ files' = {f \in files : f.task = t}

\* No two files of the published set share a name or a sector range.
Fresh == \A f \in files' \ files, g \in files' :
            f # g => ~SameName(f, g) /\ ~SameRange(f, g)

Spec == Init /\ [][Arrivals /\ Departures]_files
FreshSpec == Init /\ [][Arrivals /\ Departures /\ Fresh]_files
=============================================================================
