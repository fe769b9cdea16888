--------------------------- MODULE ArtifactWriter ---------------------------
(***************************************************************************)
(* write_replay_artifacts of src/replay_engine.cpp, one file operation at  *)
(* a time, over calls that follow one another: the process may die between *)
(* any two operations, and the next call finds what it left.  Two calls    *)
(* never run at once.  A file is what its content stands for: the call     *)
(* that wrote it and whether all of it arrived.                            *)
(***************************************************************************)
EXTENDS Integers, Sequences, Functions

CONSTANTS
  WriteOrder,   \* the artifacts in the order they are written
  MaxCalls,     \* bound on the number of calls
  Spellings,    \* how a call's path is written: "plain", or with a final "slash"
  Faults        \* which operations may fail: "look", "write", "flush", "remove", "rename"

ASSUME WriterAssumption ==
  /\ WriteOrder \in Seq(STRING)
  /\ MaxCalls \in Nat
  /\ Spellings \subseteq {"plain", "slash"}
  /\ Faults \subseteq {"look", "write", "flush", "remove", "rename"}

VARIABLES
  out,        \* the output directory
  temp,       \* the temporary of each spelling: beside the output, or inside it
  parent,     \* the output's parent directory exists
  call,       \* number of the current or last call
  spelling,   \* its path: plain or with a final slash
  force,      \* its --force
  step,       \* what it does next, or how it ended
  written,    \* artifacts written so far
  before      \* the output directory as the call found it

vars == <<out, temp, parent, call, spelling, force, step, written, before>>

Artifacts == {WriteOrder[k] : k \in 1..Len(WriteOrder)}

\* has_run_artifact does not look for the ledger.
RunArtifacts == Artifacts \ {"ledger"}

Contents == [call : 0..MaxCalls, whole : BOOLEAN]
Absent   == [kind |-> "absent", files |-> << >>]
File     == [kind |-> "file", files |-> << >>]
Directory(files) == [kind |-> "directory", files |-> files]
EmptyDirectory   == Directory(<< >>)

Exists(d)  == d.kind # "absent"
Names(d)   == DOMAIN d.files
From(c)    == [call |-> c, whole |-> TRUE]
WholeRun(c) == Directory([n \in Artifacts |-> From(c)])

\* What a user may have at the output path before the first call.
Found ==
  {Absent, File, EmptyDirectory, WholeRun(0)} \cup
  {Directory([n \in {name} |-> From(0)]) : name \in {"ledger", "orders", "notes"}}

Idle == step \in {"idle", "returned", "threw", "crashed"}

\* is_empty(output): a temporary inside the output counts.
IsEmpty == Names(out) = {} /\ ~Exists(temp["slash"])

Init ==
  /\ parent \in BOOLEAN
  /\ out \in IF parent THEN Found ELSE {Absent}
  /\ temp = [s \in {"plain", "slash"} |-> Absent]
  /\ call = 0 /\ spelling = "plain" /\ force = FALSE
  /\ step = "idle" /\ written = 0 /\ before = out

-----------------------------------------------------------------------------
\* Seeded error: a forced call removes the old output before it writes.
RemovingFirst(s) ==
  CASE s = "clear"  -> "check"
    [] s = "check"  -> "remove"
    [] s = "remove" -> "create"
    [] s = "create" -> "write"
    [] s = "write"  -> "rename"

\* The operations in their order.
After(s) ==
  CASE s = "clear"  -> "create"
    [] s = "create" -> "write"
    [] s = "write"  -> "check"
    [] s = "check"  -> "remove"
    [] s = "remove" -> "rename"

\* Every check looks at the file system and throws if it cannot (fault "look").

\* The checks before anything is touched.  The parent of a path with a final
\* slash is the output itself.
Refused(s, f) ==
  \/ out.kind = "file"
  \/ out.kind = "directory" /\ Names(out) \cap RunArtifacts # {} /\ ~f
  \/ IF s = "slash" THEN ~Exists(out) ELSE ~parent

Begin(s, f) ==
  /\ Idle /\ call < MaxCalls
  /\ call' = call + 1 /\ spelling' = s /\ force' = f
  /\ written' = 0 /\ before' = out
  /\ \/ ~Refused(s, f) /\ step' = "clear"
     \/ (Refused(s, f) \/ "look" \in Faults) /\ step' = "threw"
  /\ UNCHANGED <<out, temp, parent>>

\* remove_all takes a directory away file by file, in any order.
Unlinked(d) ==
  IF Names(d) = {} THEN {Absent}
  ELSE {Directory(Restrict(d.files, Names(d) \ {n})) : n \in Names(d)}

\* Seeded error: a temporary left by an earlier call is used as it is.
ReuseTemporary ==
  /\ step = "clear" /\ step' = After("clear")
  /\ UNCHANGED <<out, temp, parent, call, spelling, force, written, before>>

\* What fails before the try block ends the call at once.

ClearTemporary ==
  /\ step = "clear"
  /\ \/ /\ ~Exists(temp[spelling])
        /\ step' = After("clear")
        /\ UNCHANGED temp
     \/ /\ Exists(temp[spelling])
        /\ \E d \in Unlinked(temp[spelling]) : temp' = [temp EXCEPT ![spelling] = d]
        /\ UNCHANGED step
     \/ /\ "look" \in Faults \/ (Exists(temp[spelling]) /\ "remove" \in Faults)
        /\ step' = "threw"
        /\ UNCHANGED temp
  /\ UNCHANGED <<out, parent, call, spelling, force, written, before>>

CreateTemporary ==
  /\ step = "create"
  /\ \/ /\ temp' = [temp EXCEPT ![spelling] = IF Exists(@) THEN @ ELSE EmptyDirectory]
        /\ step' = After("create")
     \/ /\ "write" \in Faults
        /\ step' = "threw"
        /\ UNCHANGED temp
  /\ UNCHANGED <<out, parent, call, spelling, force, written, before>>

\* Seeded error: the stream is not tested after the write.
WriteOutcomesUntested ==
  {<<TRUE, "write">>} \cup
  IF Faults \cap {"write", "flush"} # {} THEN {<<FALSE, "write">>} ELSE {}

\* write_text_file: whole; cut short and noticed; or cut short when the
\* stream is flushed by its destructor, which tells nobody.
WriteOutcomes ==
  {<<TRUE, "write">>} \cup
  (IF "write" \in Faults THEN {<<FALSE, "cleanup">>} ELSE {}) \cup
  (IF "flush" \in Faults THEN {<<FALSE, "write">>} ELSE {})

WriteArtifact ==
  /\ step = "write" /\ written < Len(WriteOrder)
  /\ written' = written + 1
  /\ \E outcome \in WriteOutcomes :
       LET name == WriteOrder[written + 1]
           text == [call |-> call, whole |-> outcome[1]]
       IN  /\ temp' = [temp EXCEPT ![spelling].files =
                         [n \in DOMAIN @ \cup {name} |-> IF n = name THEN text ELSE @[n]]]
           /\ step' = outcome[2]
  /\ UNCHANGED <<out, parent, call, spelling, force, before>>

\* The file cannot be opened.
OpenFails ==
  /\ step = "write" /\ written < Len(WriteOrder) /\ "write" \in Faults
  /\ step' = "cleanup"
  /\ UNCHANGED <<out, temp, parent, call, spelling, force, written, before>>

AllWritten ==
  /\ step = "write" /\ written = Len(WriteOrder)
  /\ step' = After("write")
  /\ UNCHANGED <<out, temp, parent, call, spelling, force, written, before>>

\* Seeded error: whatever passed the first checks may be replaced.
ReplaceableByAll == TRUE

\* An output without run artifacts may still hold something.
Replaceable == force \/ IsEmpty

CheckOutput ==
  /\ step = "check"
  /\ \/ ~Exists(out) /\ step' = After("remove")
     \/ Exists(out) /\ Replaceable /\ step' = After("check")
     \/ /\ (Exists(out) /\ ~Replaceable) \/ "look" \in Faults
        /\ step' = "cleanup"
  /\ UNCHANGED <<out, temp, parent, call, spelling, force, written, before>>

\* remove_all(output), which takes a temporary inside it away as well.
RemoveOutput ==
  /\ step = "remove"
  /\ \/ /\ Exists(out) /\ ~IsEmpty
        /\ \/ Names(out) # {} /\ out' \in Unlinked(out) /\ UNCHANGED temp
           \/ /\ Exists(temp["slash"])
              /\ \E d \in Unlinked(temp["slash"]) : temp' = [temp EXCEPT !["slash"] = d]
              /\ UNCHANGED out
        /\ UNCHANGED step
     \/ /\ IsEmpty
        /\ out' = Absent
        /\ step' = After("remove")
        /\ UNCHANGED temp
     \/ /\ "remove" \in Faults
        /\ step' = "cleanup"
        /\ UNCHANGED <<out, temp>>
  /\ UNCHANGED <<parent, call, spelling, force, written, before>>

\* The output is gone by now, whether this succeeds or not.
Rename ==
  /\ step = "rename"
  /\ \/ /\ Exists(temp[spelling])
        /\ out' = temp[spelling] /\ temp' = [temp EXCEPT ![spelling] = Absent]
        /\ step' = "returned"
     \/ /\ ~Exists(temp[spelling]) \/ "rename" \in Faults
        /\ step' = "cleanup"
        /\ UNCHANGED <<out, temp>>
  /\ UNCHANGED <<parent, call, spelling, force, written, before>>

\* The catch block: the temporary goes, and the call throws either way.
Cleanup ==
  /\ step = "cleanup"
  /\ \/ /\ Exists(temp[spelling])
        /\ \E d \in Unlinked(temp[spelling]) : temp' = [temp EXCEPT ![spelling] = d]
        /\ UNCHANGED step
     \/ /\ ~Exists(temp[spelling]) \/ "remove" \in Faults
        /\ step' = "threw"
        /\ UNCHANGED temp
  /\ UNCHANGED <<out, parent, call, spelling, force, written, before>>

\* The process dies; its files stay.
Crash ==
  /\ ~Idle
  /\ step' = "crashed"
  /\ UNCHANGED <<out, temp, parent, call, spelling, force, written, before>>

Next ==
  \/ \E s \in Spellings, f \in BOOLEAN : Begin(s, f)
  \/ ClearTemporary \/ CreateTemporary
  \/ WriteArtifact \/ OpenFails \/ AllWritten
  \/ CheckOutput \/ RemoveOutput \/ Rename
  \/ Cleanup \/ Crash

Spec == Init /\ [][Next]_vars
-----------------------------------------------------------------------------
UnforcedStep == ~force' /\ (out.kind = "file" \/ Names(out) # {}) => out' = out

(* Without --force whatever is at the output path stays as it is, whole or *)
(* not an artifact at all, and whatever earlier calls left behind.         *)
UnforcedKeeps == [][UnforcedStep]_vars

(* docs/replay_engine.md:42: what appears at the output path is one call's *)
(* complete set of artifacts, in one step: no mixture with what an earlier *)
(* call left, no file missing, and none of them cut short.                 *)
PublishedAtOnce ==
  [][(\E n \in Names(out') : n \notin Names(out) \/ out'.files[n] # out.files[n])
       => out' = WholeRun(call)]_vars

(* From the first write to the rename the temporary holds nothing but what *)
(* this very call wrote, though a dead call may have left its own there.   *)
OwnTemporary ==
  /\ step \in {"write", "check"} => Exists(temp[spelling])
  /\ step \in {"write", "check", "remove", "rename"} =>
       \A n \in Names(temp[spelling]) : temp[spelling].files[n].call = call
  /\ step = "write" => Names(temp[spelling]) \subseteq {WriteOrder[k] : k \in 1..written}

(* A call that throws leaves at the output path what it found there, or,   *)
(* if it failed to replace it after everything was written, some part of   *)
(* the directory found there, perhaps nothing: a forced call may lose any  *)
(* of its files, an unforced one only a directory that held none.          *)
FailedCallKeeps ==
  step = "threw" =>
    \/ out = before
    \/ /\ written = Len(WriteOrder)
       /\ before.kind = "directory" /\ (force \/ Names(before) = {})
       /\ \A n \in Names(out) : n \in Names(before) /\ out.files[n] = before.files[n]

(* apps/replay_cli.cpp:21: --force replaces an existing directory.         *)
ForceReplaces ==
  force /\ before.kind = "directory" /\ step \in {"returned", "threw"} => out = WholeRun(call)
=============================================================================
