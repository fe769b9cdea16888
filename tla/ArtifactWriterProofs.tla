------------------------ MODULE ArtifactWriterProofs ------------------------
(***************************************************************************)
(* Theorems about write_replay_artifacts for any artifacts, any number of  *)
(* calls, any failures and any crashes.                                    *)
(***************************************************************************)
EXTENDS ArtifactWriter, TLAPS

Writing == step \in {"clear", "create", "write", "check", "remove", "rename"}

Directories == {"plain", "slash"}

\* A temporary is absent or a directory, and never a plain file.
IsTemporary(d) == d = [kind |-> d.kind, files |-> d.files] /\ d.kind \in {"absent", "directory"}

TemporariesOK == DOMAIN temp = Directories /\ \A s \in Directories : IsTemporary(temp[s])

\* What the calls know of the output while they work on it.
OutputOK ==
  /\ out.kind \in {"absent", "file", "directory"}
  /\ out.kind # "directory" => Names(out) = {}
  /\ Writing => out.kind # "file"
  /\ step \in {"remove", "rename"} /\ ~force => Names(out) = {}

WriterInv == spelling \in Directories /\ TemporariesOK /\ OutputOK

LEMMA AbsentIsEmpty == Absent.kind = "absent" /\ Names(Absent) = {} /\ IsTemporary(Absent)
BY DEF Absent, Names, IsTemporary

LEMMA DirectoryIsTemporary == \A files : IsTemporary(Directory(files)) /\ Directory(files).kind = "directory"
BY DEF Directory, IsTemporary

LEMMA WriterInitInv == Init => WriterInv
<1> SUFFICES ASSUME Init PROVE WriterInv
  OBVIOUS
<1>1. out.kind \in {"absent", "file", "directory"} /\ (out.kind # "directory" => Names(out) = {})
  <2>1. Names(File) = {} /\ File.kind = "file"
    BY DEF File, Names
  <2>2. \/ out = Absent \/ out = File \/ out.kind = "directory"
    BY DirectoryIsTemporary DEF Init, Found, EmptyDirectory, WholeRun
  <2> QED BY <2>1, <2>2, AbsentIsEmpty
<1>2. TemporariesOK
  BY AbsentIsEmpty DEF Init, TemporariesOK, Directories
<1> QED BY <1>1, <1>2 DEF Init, WriterInv, OutputOK, Writing, Directories

\* Removing a file of a directory, or an empty directory.
LEMMA UnlinkedIsTemporary ==
  ASSUME NEW d, NEW e \in Unlinked(d)
  PROVE  IsTemporary(e) /\ (e = Absent \/ e.kind = "directory")
BY AbsentIsEmpty, DirectoryIsTemporary DEF Unlinked

LEMMA TemporaryReplaced ==
  ASSUME TemporariesOK, NEW s \in Directories, NEW d, IsTemporary(d),
         temp' = [temp EXCEPT ![s] = d]
  PROVE  TemporariesOK'
<1>1. DOMAIN temp' = Directories /\ \A t \in Directories : temp'[t] = IF t = s THEN d ELSE temp[t]
  BY DEF TemporariesOK
<1>2. \A t \in Directories : IsTemporary(temp'[t])
  BY <1>1 DEF TemporariesOK
<1> QED BY <1>1, <1>2 DEF TemporariesOK, IsTemporary

\* Most steps of a call leave the output alone.
LEMMA OutputUntouched ==
  ASSUME WriterInv, TemporariesOK', UNCHANGED <<out, spelling, force>>,
         Writing' => Writing,
         step' \in {"remove", "rename"} /\ ~force => Names(out) = {}
  PROVE  WriterInv' /\ UnforcedStep
BY DEF WriterInv, OutputOK, UnforcedStep, Names

LEMMA WriteOutcomeSteps ==
  ASSUME NEW outcome \in WriteOutcomes
  PROVE  outcome[2] \in {"write", "cleanup"}
<1>1. outcome \in {<<TRUE, "write">>, <<FALSE, "cleanup">>, <<FALSE, "write">>}
  BY Zenon DEF WriteOutcomes
<1>2. CASE outcome = <<TRUE, "write">>
  BY <1>2
<1>3. CASE outcome = <<FALSE, "cleanup">>
  BY <1>3
<1>4. CASE outcome = <<FALSE, "write">>
  BY <1>4
<1> QED BY <1>1, <1>2, <1>3, <1>4

LEMMA WriterStep ==
  ASSUME WriterInv, [Next]_vars
  PROVE  WriterInv' /\ [UnforcedStep]_vars
<1>0. spelling \in Directories /\ TemporariesOK /\ OutputOK /\ (temp' = temp => TemporariesOK')
  BY DEF WriterInv, TemporariesOK, IsTemporary
<1>1. ASSUME NEW s \in Spellings, NEW f \in BOOLEAN, Begin(s, f)
      PROVE  WriterInv' /\ UnforcedStep
  <2>1. out' = out /\ temp' = temp /\ spelling' \in Directories
    BY <1>1, WriterAssumption DEF Begin, Directories
  <2>2. step' \in {"threw", "clear"} /\ (step' = "clear" => out.kind # "file")
    BY <1>1 DEF Begin, Refused
  <2> QED BY <1>0, <2>1, <2>2 DEF WriterInv, OutputOK, Writing, UnforcedStep, Names
<1>2. CASE ClearTemporary
  <2>1. TemporariesOK'
    BY <1>0, <1>2, UnlinkedIsTemporary, TemporaryReplaced DEF ClearTemporary
  <2>2. UNCHANGED <<out, spelling, force>> /\ step' \in {"clear", "create", "threw"} /\ Writing
    BY <1>2 DEF ClearTemporary, After, Writing
  <2> QED BY <2>1, <2>2, OutputUntouched
<1>3. CASE CreateTemporary
  <2>1. TemporariesOK'
    <3> DEFINE d == IF Exists(temp[spelling]) THEN temp[spelling] ELSE EmptyDirectory
    <3>1. IsTemporary(d)
      BY <1>0, DirectoryIsTemporary DEF TemporariesOK, EmptyDirectory
    <3>2. temp' = temp \/ temp' = [temp EXCEPT ![spelling] = d]
      BY <1>3 DEF CreateTemporary
    <3> HIDE DEF d
    <3> QED BY <1>0, <3>1, <3>2, TemporaryReplaced
  <2>2. UNCHANGED <<out, spelling, force>> /\ step' \in {"write", "threw"} /\ Writing
    BY <1>3 DEF CreateTemporary, After, Writing
  <2> QED BY <2>1, <2>2, OutputUntouched
<1>4. CASE WriteArtifact
  <2> DEFINE files(text) ==
        [n \in DOMAIN temp[spelling].files \cup {WriteOrder[written + 1]} |->
           IF n = WriteOrder[written + 1] THEN text ELSE temp[spelling].files[n]]
  <2>1. PICK outcome \in WriteOutcomes :
          /\ temp' = [temp EXCEPT ![spelling].files = files([call |-> call, whole |-> outcome[1]])]
          /\ step' = outcome[2]
    BY <1>4 DEF WriteArtifact
  <2> DEFINE d == [temp[spelling] EXCEPT !.files = files([call |-> call, whole |-> outcome[1]])]
  <2>2. TemporariesOK'
    <3>1. IsTemporary(d)
      BY <1>0 DEF TemporariesOK, IsTemporary
    <3>2. temp' = [temp EXCEPT ![spelling] = d]
      BY <2>1
    <3> HIDE DEF d
    <3> QED BY <1>0, <3>1, <3>2, TemporaryReplaced
  <2>3. UNCHANGED <<out, spelling, force>> /\ Writing
    BY <1>4 DEF WriteArtifact, Writing
  <2>4. outcome[2] \in {"write", "cleanup"}
    BY WriteOutcomeSteps
  <2> QED BY <2>1, <2>2, <2>3, <2>4, OutputUntouched
<1>5. CASE OpenFails \/ AllWritten
  <2>1. UNCHANGED <<out, temp, spelling, force>> /\ step' \in {"cleanup", "check"} /\ Writing
    BY <1>5 DEF OpenFails, AllWritten, After, Writing
  <2> QED BY <1>0, <2>1, OutputUntouched
<1>6. CASE CheckOutput
  <2>1. UNCHANGED <<out, temp, spelling, force>> /\ Writing
    BY <1>6 DEF CheckOutput, Writing
  <2>2. \/ step' = "cleanup"
        \/ step' = "rename" /\ out.kind = "absent"
        \/ step' = "remove" /\ (force \/ Names(out) = {})
    BY <1>6 DEF CheckOutput, After, Exists, Replaceable, IsEmpty
  <2>3. out.kind = "absent" => Names(out) = {}
    BY <1>0 DEF OutputOK
  <2> QED BY <1>0, <2>1, <2>2, <2>3, OutputUntouched
<1>7. CASE RemoveOutput
  <2>1. step = "remove" /\ UNCHANGED <<spelling, force>>
    BY <1>7 DEF RemoveOutput
  <2>2. Writing /\ out.kind # "file" /\ (~force => Names(out) = {})
    BY <1>0, <2>1 DEF OutputOK, Writing
  <2>3. \/ /\ Names(out) # {} /\ out' \in Unlinked(out) /\ UNCHANGED <<temp, step>>
        \/ /\ \E d \in Unlinked(temp["slash"]) : temp' = [temp EXCEPT !["slash"] = d]
           /\ UNCHANGED <<out, step>>
        \/ out' = Absent /\ step' = "rename" /\ UNCHANGED temp
        \/ step' = "cleanup" /\ UNCHANGED <<out, temp>>
    BY <1>7 DEF RemoveOutput, After
  <2>4. TemporariesOK'
    BY <1>0, <2>3, UnlinkedIsTemporary, TemporaryReplaced DEF Directories
  <2>5. OutputOK'
    <3>1. CASE Names(out) # {} /\ out' \in Unlinked(out) /\ UNCHANGED <<temp, step>>
      <4>1. force' /\ (out' = Absent \/ out'.kind = "directory")
        BY <2>1, <2>2, <3>1, UnlinkedIsTemporary
      <4> QED BY <4>1, AbsentIsEmpty DEF OutputOK, Names
    <3>2. CASE out' = Absent
      BY <3>2, AbsentIsEmpty DEF OutputOK, Names
    <3>3. CASE UNCHANGED out /\ step' \in {"remove", "cleanup"}
      BY <1>0, <2>1, <2>2, <3>3 DEF OutputOK, Writing, Names
    <3> QED BY <2>1, <2>3, <3>1, <3>2, <3>3
  <2>6. UnforcedStep
    BY <2>1, <2>2 DEF UnforcedStep
  <2> QED BY <1>0, <2>1, <2>4, <2>5, <2>6 DEF WriterInv
<1>8. CASE Rename
  <2>1. step = "rename" /\ UNCHANGED <<spelling, force>>
    BY <1>8 DEF Rename
  <2>2. Writing /\ out.kind # "file" /\ (~force => Names(out) = {})
    BY <1>0, <2>1 DEF OutputOK, Writing
  <2>3. \/ /\ Exists(temp[spelling]) /\ out' = temp[spelling] /\ step' = "returned"
           /\ temp' = [temp EXCEPT ![spelling] = Absent]
        \/ step' = "cleanup" /\ UNCHANGED <<out, temp>>
    BY <1>8 DEF Rename
  <2>4. TemporariesOK'
    BY <1>0, <2>3, AbsentIsEmpty, TemporaryReplaced
  <2>5. OutputOK'
    <3>1. CASE Exists(temp[spelling]) /\ out' = temp[spelling] /\ step' = "returned"
      <4>1. out'.kind = "directory"
        BY <1>0, <3>1 DEF Exists, TemporariesOK, IsTemporary
      <4> QED BY <3>1, <4>1 DEF OutputOK, Writing
    <3>2. CASE step' = "cleanup" /\ UNCHANGED out
      BY <1>0, <3>2 DEF OutputOK, Writing, Names
    <3> QED BY <2>3, <3>1, <3>2
  <2>6. UnforcedStep
    BY <2>1, <2>2 DEF UnforcedStep
  <2> QED BY <1>0, <2>1, <2>4, <2>5, <2>6 DEF WriterInv
<1>9. CASE Cleanup
  <2>1. TemporariesOK'
    BY <1>0, <1>9, UnlinkedIsTemporary, TemporaryReplaced DEF Cleanup
  <2>2. UNCHANGED <<out, spelling, force>> /\ step' \in {"cleanup", "threw"}
    BY <1>9 DEF Cleanup
  <2>3. ~Writing'
    BY <2>2 DEF Writing
  <2> QED BY <2>1, <2>2, <2>3, OutputUntouched
<1>10. CASE Crash
  <2>1. UNCHANGED <<out, temp, spelling, force>> /\ step' = "crashed" /\ ~Writing'
    BY <1>10 DEF Crash, Writing
  <2> QED BY <1>0, <2>1, OutputUntouched
<1>11. CASE UNCHANGED vars
  BY <1>0, <1>11 DEF vars, WriterInv, OutputOK, Writing, Names
<1> QED
  BY <1>1, <1>2, <1>3, <1>4, <1>5, <1>6, <1>7, <1>8, <1>9, <1>10, <1>11 DEF Next

(* write_replay_artifacts never touches what it finds at the output path   *)
(* without --force, whatever fails, whatever an earlier call or a crash    *)
(* has left there, and however the path is written.                        *)
THEOREM UnforcedKeepsAll == Spec => UnforcedKeeps
<1>1. WriterInv /\ [Next]_vars => WriterInv'
  BY WriterStep
<1>2. WriterInv /\ [Next]_vars => [UnforcedStep]_vars
  BY WriterStep
<1> QED BY <1>1, <1>2, WriterInitInv, PTL DEF Spec, UnforcedKeeps

-----------------------------------------------------------------------------
\* How far a call has come, and what it still has to put back.

Temporary == temp[spelling]
Written   == {WriteOrder[k] : k \in 1..written}
Complete  == written = Len(WriteOrder)
OwnFiles  == \A n \in Names(Temporary) : Temporary.files[n].call = call

\* A part of the directory found, which the call may take away.
Part ==
  /\ before.kind = "directory" /\ (force \/ Names(before) = {})
  /\ \A n \in Names(out) : n \in Names(before) /\ out.files[n] = before.files[n]

Kept == out = before \/ (Complete /\ Part)

ProgressInv ==
  /\ written \in 0..Len(WriteOrder)
  /\ step \in {"clear", "create"} => written = 0
  /\ step \in {"clear", "create", "write", "check"} => out = before
  /\ step = "create" => ~Exists(Temporary)
  /\ step \in {"write", "check"} => Exists(Temporary)
  /\ step = "write" => Names(Temporary) \subseteq Written
  /\ step \in {"write", "check", "remove", "rename"} => OwnFiles
  /\ step \in {"check", "remove", "rename"} => Complete
  /\ step = "remove" => Part
  /\ step \in {"rename", "cleanup", "threw"} => Kept

\* A temporary loses files, and gains none, when one is removed.
LEMMA UnlinkedKeeps ==
  ASSUME NEW d, NEW e \in Unlinked(d)
  PROVE  \A n \in Names(e) : n \in Names(d) /\ e.files[n] = d.files[n]
<1>1. CASE Names(d) = {}
  <2>1. e = Absent
    BY <1>1 DEF Unlinked
  <2> QED BY <2>1, AbsentIsEmpty
<1>2. CASE Names(d) # {}
  <2>1. PICK m \in Names(d) : e = Directory(Restrict(d.files, Names(d) \ {m}))
    BY <1>2 DEF Unlinked
  <2>2. e.files = [n \in Names(d) \ {m} |-> d.files[n]]
    BY <2>1 DEF Directory, Restrict
  <2> QED BY <2>2 DEF Names
<1> QED BY <1>1, <1>2

LEMMA ProgressInit == Init => ProgressInv
<1> SUFFICES ASSUME Init PROVE ProgressInv
  OBVIOUS
<1>1. step = "idle" /\ written = 0
  BY DEF Init
<1>2. Len(WriteOrder) \in Nat
  BY WriterAssumption
<1> QED BY <1>1, <1>2 DEF ProgressInv

\* The file that is written belongs to this call, and joins those written.
LEMMA FileWritten ==
  ASSUME WriterInv, ProgressInv, WriteArtifact
  PROVE  /\ Exists(Temporary') /\ (Names(Temporary) \subseteq Written => Names(Temporary') \subseteq Written')
         /\ OwnFiles' /\ written' \in 0..Len(WriteOrder)
<1>1. PICK name, text :
        /\ name = WriteOrder[written + 1] /\ text.call = call
        /\ temp' = [temp EXCEPT ![spelling].files =
                      [n \in DOMAIN @ \cup {name} |-> IF n = name THEN text ELSE @[n]]]
  <2>1. PICK outcome \in WriteOutcomes :
          LET name == WriteOrder[written + 1]
              text == [call |-> call, whole |-> outcome[1]]
          IN  temp' = [temp EXCEPT ![spelling].files =
                         [n \in DOMAIN @ \cup {name} |-> IF n = name THEN text ELSE @[n]]]
    BY DEF WriteArtifact
  <2>2. PICK name, text : name = WriteOrder[written + 1] /\ text = [call |-> call, whole |-> outcome[1]]
    OBVIOUS
  <2> QED BY <2>1, <2>2
<1>2. /\ step = "write" /\ written < Len(WriteOrder) /\ written' = written + 1
      /\ spelling' = spelling /\ call' = call
  BY DEF WriteArtifact
<1>3. /\ Exists(Temporary) /\ OwnFiles /\ written \in 0..Len(WriteOrder) /\ Len(WriteOrder) \in Nat
      /\ spelling \in DOMAIN temp /\ IsTemporary(Temporary)
  BY <1>2, WriterAssumption DEF ProgressInv, WriterInv, TemporariesOK, Temporary
<1>4. PICK files : files = [n \in DOMAIN Temporary.files \cup {name} |->
                              IF n = name THEN text ELSE Temporary.files[n]]
  OBVIOUS
<1>5. Temporary' = [kind |-> Temporary.kind, files |-> files]
  <2>1. temp' = [temp EXCEPT ![spelling] = [temp[spelling] EXCEPT !.files = files]]
    BY <1>1, <1>4 DEF Temporary
  <2>2. temp'[spelling] = [temp[spelling] EXCEPT !.files = files]
    BY <1>3, <2>1
  <2> QED BY <1>2, <1>3, <2>2 DEF Temporary, IsTemporary
<1>6. Exists(Temporary')
  BY <1>3, <1>5 DEF Exists
<1>7. OwnFiles'
  <2>1. \A n \in DOMAIN files : files[n].call = call
    BY <1>1, <1>3, <1>4 DEF OwnFiles, Names
  <2> QED BY <1>2, <1>5, <2>1 DEF OwnFiles, Names
<1>8. ASSUME Names(Temporary) \subseteq Written
      PROVE  Names(Temporary') \subseteq Written'
  <2>1. Names(Temporary') = Names(Temporary) \cup {name}
    BY <1>4, <1>5 DEF Names
  <2>2. Written \subseteq Written'
    <3>1. \A k \in 1..written : k \in 1..written'
      BY <1>2, <1>3
    <3> QED BY <3>1 DEF Written
  <2>3. name \in Written'
    <3>1. written + 1 \in 1..written'
      BY <1>2, <1>3
    <3> QED BY <1>1, <3>1 DEF Written
  <2> QED BY <1>8, <2>1, <2>2, <2>3
<1>9. written' \in 0..Len(WriteOrder)
  BY <1>2, <1>3
<1> QED BY <1>6, <1>7, <1>8, <1>9

\* Steps that leave the files and the call alone.
LEMMA StepOnly ==
  ASSUME UNCHANGED <<out, temp, call, spelling, force, written, before>>
  PROVE  /\ Temporary' = Temporary /\ Written' = Written /\ (Complete <=> Complete')
         /\ (OwnFiles <=> OwnFiles') /\ (Part <=> Part') /\ (Kept <=> Kept')
BY DEF Temporary, Written, Complete, OwnFiles, Part, Kept, Names

LEMMA ProgressStep ==
  ASSUME WriterInv, ProgressInv, [Next]_vars
  PROVE  ProgressInv'
<1>0. spelling \in DOMAIN temp /\ Len(WriteOrder) \in Nat /\ written \in 0..Len(WriteOrder)
  BY WriterAssumption DEF ProgressInv, WriterInv, TemporariesOK
<1>1. ASSUME NEW s \in Spellings, NEW f \in BOOLEAN, Begin(s, f)
      PROVE  ProgressInv'
  <2>1. step' \in {"threw", "clear"} /\ written' = 0 /\ before' = out'
    BY <1>1 DEF Begin
  <2> QED BY <1>0, <2>1 DEF ProgressInv, Kept
<1>2. CASE ClearTemporary
  <2>1. /\ step = "clear" /\ UNCHANGED <<out, spelling, force, written, before>>
        /\ \/ step' = "create" /\ temp' = temp /\ ~Exists(Temporary)
           \/ step' \in {"clear", "threw"}
    BY <1>2 DEF ClearTemporary, After, Temporary
  <2>2. step' = "create" => ~Exists(Temporary')
    BY <2>1 DEF Temporary
  <2> QED BY <1>0, <2>1, <2>2 DEF ProgressInv, Kept
<1>3. CASE CreateTemporary
  <2>1. /\ step = "create" /\ UNCHANGED <<out, call, spelling, force, written, before>>
        /\ \/ step' = "write" /\ temp' = [temp EXCEPT ![spelling] = IF Exists(@) THEN @ ELSE EmptyDirectory]
           \/ step' = "threw"
    BY <1>3 DEF CreateTemporary, After
  <2>2. out = before /\ ~Exists(Temporary)
    BY <2>1 DEF ProgressInv
  <2>3. step' = "write" => Temporary' = EmptyDirectory
    BY <1>0, <2>1, <2>2 DEF Temporary
  <2>4. EmptyDirectory.kind = "directory" /\ Names(EmptyDirectory) = {}
    BY DEF EmptyDirectory, Directory, Names
  <2>5. step' = "write" => Exists(Temporary') /\ Names(Temporary') = {}
    BY <2>3, <2>4 DEF Exists
  <2> QED BY <1>0, <2>1, <2>2, <2>5 DEF ProgressInv, OwnFiles, Kept
<1>4. CASE WriteArtifact
  <2>1. step = "write" /\ UNCHANGED <<out, call, spelling, force, before>> /\ step' \in {"write", "cleanup"}
    BY <1>4, WriteOutcomeSteps DEF WriteArtifact
  <2>2. out = before /\ Names(Temporary) \subseteq Written
    BY <2>1 DEF ProgressInv
  <2>3. /\ Exists(Temporary') /\ Names(Temporary') \subseteq Written'
        /\ OwnFiles' /\ written' \in 0..Len(WriteOrder)
    BY <1>4, <2>2, FileWritten
  <2> QED BY <1>0, <2>1, <2>2, <2>3 DEF ProgressInv, Kept
<1>5. CASE OpenFails \/ AllWritten \/ CheckOutput \/ Crash \/ UNCHANGED vars
  <2>1. UNCHANGED <<out, temp, call, spelling, force, written, before>>
    BY <1>5 DEF OpenFails, AllWritten, CheckOutput, Crash, vars
  <2>2. /\ Temporary' = Temporary /\ Written' = Written /\ (Complete <=> Complete')
        /\ (OwnFiles <=> OwnFiles') /\ (Part <=> Part') /\ (Kept <=> Kept')
    BY <2>1, StepOnly
  <2>3. \/ step' = step
        \/ step = "write" /\ step' = "cleanup"
        \/ step = "write" /\ step' = "check" /\ Complete
        \/ step = "check" /\ step' \in {"rename", "cleanup"}
        \/ step = "check" /\ step' = "remove" /\ Exists(out) /\ Replaceable
        \/ step' = "crashed"
    BY <1>5 DEF OpenFails, AllWritten, CheckOutput, Crash, vars, After, Complete
  <2>4. step = "check" /\ Exists(out) /\ Replaceable => Part
    BY DEF ProgressInv, WriterInv, OutputOK, Writing, Exists, Replaceable, IsEmpty, Part
  <2> QED BY <1>0, <2>1, <2>2, <2>3, <2>4 DEF ProgressInv, Kept
<1>6. CASE RemoveOutput
  <2>1. /\ step = "remove" /\ UNCHANGED <<call, spelling, force, written, before>>
        /\ OwnFiles /\ Complete /\ Complete' /\ Part
    BY <1>6 DEF RemoveOutput, ProgressInv, Complete
  <2>2. /\ step' \in {"remove", "rename", "cleanup"}
        /\ out' = out \/ out' = Absent \/ out' \in Unlinked(out)
        /\ temp' = temp \/ \E d \in Unlinked(temp["slash"]) : temp' = [temp EXCEPT !["slash"] = d]
    BY <1>6, <2>1 DEF RemoveOutput, After
  <2>3. OwnFiles'
    <3>1. CASE temp' = temp
      BY <2>1, <3>1 DEF OwnFiles, Temporary
    <3>2. CASE \E d \in Unlinked(temp["slash"]) : temp' = [temp EXCEPT !["slash"] = d]
      <4>1. PICK d \in Unlinked(temp["slash"]) : temp' = [temp EXCEPT !["slash"] = d]
        BY <3>2
      <4>2. CASE spelling = "slash"
        <5>1. Temporary' = d
          BY <1>0, <2>1, <4>1, <4>2 DEF Temporary
        <5> QED BY <2>1, <4>1, <4>2, <5>1, UnlinkedKeeps DEF OwnFiles, Temporary
      <4>3. CASE spelling # "slash"
        BY <2>1, <4>1, <4>3 DEF OwnFiles, Temporary
      <4> QED BY <4>2, <4>3
    <3> QED BY <2>2, <3>1, <3>2
  <2>4. \A n \in Names(out') : n \in Names(out) /\ out'.files[n] = out.files[n]
    BY <2>2, AbsentIsEmpty, UnlinkedKeeps
  <2>5. Part'
    BY <2>1, <2>4 DEF Part, Names
  <2> QED BY <1>0, <2>1, <2>2, <2>3, <2>5 DEF ProgressInv, Kept
<1>7. CASE Rename
  <2>1. /\ step = "rename" /\ UNCHANGED <<call, spelling, force, written, before>>
        /\ \/ step' = "returned"
           \/ step' = "cleanup" /\ UNCHANGED <<out, temp>>
    BY <1>7 DEF Rename
  <2>2. step' = "cleanup" => Kept'
    BY <2>1 DEF ProgressInv, Kept, Complete, Part, Names
  <2> QED BY <1>0, <2>1, <2>2 DEF ProgressInv
<1>8. CASE Cleanup
  <2>1. step = "cleanup" /\ UNCHANGED <<out, force, written, before>> /\ step' \in {"cleanup", "threw"}
    BY <1>8 DEF Cleanup
  <2> QED BY <1>0, <2>1 DEF ProgressInv, Kept, Complete, Part, Names
<1> QED
  BY <1>1, <1>2, <1>3, <1>4, <1>5, <1>6, <1>7, <1>8 DEF Next

LEMMA WriterInvariant == Spec => [](WriterInv /\ ProgressInv)
<1>1. WriterInv /\ ProgressInv /\ [Next]_vars => (WriterInv /\ ProgressInv)'
  BY WriterStep, ProgressStep
<1>2. Init => WriterInv /\ ProgressInv
  BY WriterInitInv, ProgressInit
<1> QED BY <1>1, <1>2, PTL DEF Spec

(* The temporary that write_replay_artifacts is about to rename holds      *)
(* files of this very call only, for any artifacts: what an earlier call   *)
(* or a crash left in it never survives into the output.                   *)
THEOREM TemporaryIsOwn == Spec => []OwnTemporary
<1>1. ProgressInv => OwnTemporary
  BY DEF ProgressInv, OwnTemporary, OwnFiles, Temporary, Written
<1> QED BY <1>1, WriterInvariant, PTL

(* A call of write_replay_artifacts that throws has kept the output as it  *)
(* found it, or had written all it has to write and lost some of a         *)
(* directory it was forced to replace, or one without files.               *)
THEOREM FailuresKeep == Spec => []FailedCallKeeps
<1>1. ProgressInv => FailedCallKeeps
  BY DEF ProgressInv, FailedCallKeeps, Kept, Complete, Part
<1> QED BY <1>1, WriterInvariant, PTL

-----------------------------------------------------------------------------
\* What is published, where a stream that is flushed does not fail unnoticed.

\* What the temporary holds once the files up to the last written are in it.
SoFar == Directory([n \in Written |-> From(call)])

PublishInv ==
  /\ step = "write" => Temporary = SoFar
  /\ step = "check" => Temporary = WholeRun(call)
  /\ step = "remove" => spelling = "slash" \/ Temporary = WholeRun(call)
  /\ step = "rename" => ~Exists(Temporary) \/ Temporary = WholeRun(call)

LEMMA FileWhole ==
  ASSUME "flush" \notin Faults, WriterInv, ProgressInv, Temporary = SoFar,
         WriteArtifact, step' = "write"
  PROVE  Temporary' = SoFar'
<1>1. PICK outcome \in WriteOutcomes :
        /\ LET name == WriteOrder[written + 1]
               text == [call |-> call, whole |-> outcome[1]]
           IN  temp' = [temp EXCEPT ![spelling].files =
                          [n \in DOMAIN @ \cup {name} |-> IF n = name THEN text ELSE @[n]]]
        /\ step' = outcome[2]
  BY DEF WriteArtifact
<1>2. outcome[1] = TRUE
  <2>1. outcome \in {<<TRUE, "write">>, <<FALSE, "cleanup">>}
    BY Zenon DEF WriteOutcomes
  <2>2. outcome # <<FALSE, "cleanup">>
    <3>1. outcome[2] = "write"
      BY <1>1
    <3>2. \A pair : pair = <<FALSE, "cleanup">> => pair[2] # "write"
      OBVIOUS
    <3> QED BY <3>1, <3>2
  <2>3. outcome = <<TRUE, "write">>
    BY <2>1, <2>2
  <2> QED BY <2>3
<1>3. PICK name, files :
        /\ name = WriteOrder[written + 1]
        /\ files = [n \in DOMAIN Temporary.files \cup {name} |->
                      IF n = name THEN [call |-> call, whole |-> TRUE] ELSE Temporary.files[n]]
  OBVIOUS
<1>4. /\ written' = written + 1 /\ spelling' = spelling /\ call' = call
      /\ written \in Nat /\ spelling \in DOMAIN temp
  BY WriterAssumption DEF WriteArtifact, ProgressInv, WriterInv, TemporariesOK
<1>5. temp' = [temp EXCEPT ![spelling] = [temp[spelling] EXCEPT !.files = files]]
  BY <1>1, <1>2, <1>3 DEF Temporary
<1>6. Temporary' = [Temporary EXCEPT !.files = files]
  BY <1>4, <1>5 DEF Temporary
<1>7. Temporary' = Directory(files)
  BY <1>6 DEF SoFar, Directory
<1>8. Temporary.files = [n \in Written |-> From(call)]
  BY DEF SoFar, Directory
<1>9. Written' = Written \cup {name}
  <2>1. 1..written' = 1..written \cup {written + 1}
    BY <1>4
  <2> QED BY <1>3, <2>1 DEF Written
<1>10. files = [n \in Written' |-> From(call)]
  BY <1>3, <1>8, <1>9 DEF From
<1> QED BY <1>4, <1>7, <1>10 DEF SoFar

LEMMA PublishStep ==
  ASSUME "flush" \notin Faults, WriterInv, ProgressInv, PublishInv, [Next]_vars
  PROVE  PublishInv'
<1>0. spelling \in DOMAIN temp
  BY DEF WriterInv, TemporariesOK
<1>1. CASE \E s \in Spellings, f \in BOOLEAN : Begin(s, f)
  BY <1>1 DEF Begin, PublishInv
<1>2. CASE ClearTemporary \/ Cleanup \/ OpenFails \/ Crash
  <2>1. step' \in {"clear", "create", "threw", "cleanup", "crashed"}
    BY <1>2 DEF ClearTemporary, Cleanup, OpenFails, Crash, After
  <2> QED BY <2>1 DEF PublishInv
<1>3. CASE CreateTemporary
  <2>1. /\ step = "create" /\ UNCHANGED <<call, spelling, written>>
        /\ \/ step' = "write" /\ temp' = [temp EXCEPT ![spelling] = IF Exists(@) THEN @ ELSE EmptyDirectory]
           \/ step' = "threw"
    BY <1>3 DEF CreateTemporary, After
  <2>2. ~Exists(Temporary) /\ written = 0
    BY <2>1 DEF ProgressInv
  <2>3. step' = "write" => Temporary' = EmptyDirectory
    BY <1>0, <2>1, <2>2 DEF Temporary
  <2>4. SoFar' = EmptyDirectory
    <3>1. Written' = {}
      BY <2>1, <2>2 DEF Written
    <3>2. [n \in {} |-> From(call')] = << >>
      OBVIOUS
    <3> QED BY <3>1, <3>2 DEF SoFar, EmptyDirectory
  <2> QED BY <2>1, <2>3, <2>4 DEF PublishInv
<1>4. CASE WriteArtifact
  <2>1. step = "write" /\ step' \in {"write", "cleanup"}
    BY <1>4, WriteOutcomeSteps DEF WriteArtifact
  <2>2. step' = "write" => Temporary' = SoFar'
    BY <1>4, <2>1, FileWhole DEF PublishInv
  <2> QED BY <2>1, <2>2 DEF PublishInv
<1>5. CASE AllWritten
  <2>1. /\ step = "write" /\ written = Len(WriteOrder) /\ step' = "check"
        /\ UNCHANGED <<out, temp, call, spelling, written>>
    BY <1>5 DEF AllWritten, After
  <2>2. Temporary = SoFar /\ SoFar = WholeRun(call)
    BY <2>1 DEF PublishInv, SoFar, Written, WholeRun, Artifacts
  <2> QED BY <2>1, <2>2 DEF PublishInv, Temporary, WholeRun
<1>6. CASE CheckOutput
  <2>1. step = "check" /\ UNCHANGED <<temp, call, spelling>> /\ step' \in {"rename", "remove", "cleanup"}
    BY <1>6 DEF CheckOutput, After
  <2> QED BY <2>1 DEF PublishInv, Temporary, WholeRun
<1>7. CASE RemoveOutput
  <2>1. /\ step = "remove" /\ UNCHANGED <<call, spelling>>
        /\ spelling = "slash" \/ Temporary = WholeRun(call)
    BY <1>7 DEF RemoveOutput, PublishInv
  <2>2. \/ step' = "remove" /\ (spelling # "slash" => Temporary' = Temporary)
        \/ step' = "rename" /\ temp' = temp /\ (spelling = "slash" => ~Exists(Temporary))
        \/ step' = "cleanup"
    BY <1>0, <1>7, <2>1 DEF RemoveOutput, After, IsEmpty, Temporary
  <2> QED BY <2>1, <2>2 DEF PublishInv, Temporary, WholeRun
<1>8. CASE Rename
  <2>1. step' \in {"returned", "cleanup"}
    BY <1>8 DEF Rename
  <2> QED BY <2>1 DEF PublishInv
<1>9. CASE UNCHANGED vars
  BY <1>9 DEF vars, PublishInv, Temporary, SoFar, Written, WholeRun
<1> QED BY <1>1, <1>2, <1>3, <1>4, <1>5, <1>6, <1>7, <1>8, <1>9 DEF Next

PublishesStep ==
  (\E n \in Names(out') : n \notin Names(out) \/ out'.files[n] # out.files[n]) => out' = WholeRun(call)

\* A file appears or changes only by the rename.
LEMMA OnlyRenamed ==
  ASSUME WriterInv, PublishInv, [Next]_vars
  PROVE  [PublishesStep]_vars
<1>1. CASE out' = out
  BY <1>1 DEF PublishesStep, Names
<1>2. CASE RemoveOutput
  <2>1. out' = out \/ out' = Absent \/ out' \in Unlinked(out)
    BY <1>2 DEF RemoveOutput
  <2>2. \A n \in Names(out') : n \in Names(out) /\ out'.files[n] = out.files[n]
    BY <2>1, AbsentIsEmpty, UnlinkedKeeps
  <2> QED BY <2>2 DEF PublishesStep
<1>3. CASE Rename
  <2>1. out' = out \/ (step = "rename" /\ Exists(Temporary) /\ out' = Temporary)
    BY <1>3 DEF Rename, Temporary
  <2> QED BY <1>1, <2>1 DEF PublishInv, PublishesStep
<1>4. CASE /\ ~RemoveOutput /\ ~Rename
  BY <1>1, <1>4 DEF Next, Begin, ClearTemporary, CreateTemporary, WriteArtifact, OpenFails, AllWritten,
                    CheckOutput, Cleanup, Crash, vars
<1> QED BY <1>2, <1>3, <1>4

(* docs/replay_engine.md:42, where a full disk does not go unnoticed: what *)
(* write_replay_artifacts makes appear at the output path is the complete  *)
(* set of its own artifacts, in one step, after whatever failures, crashes *)
(* and spellings of the path.                                              *)
THEOREM PublishesAtOnce == "flush" \notin Faults /\ Spec => PublishedAtOnce
<1> SUFFICES ASSUME "flush" \notin Faults PROVE Spec => PublishedAtOnce
  OBVIOUS
<1>1. Init => PublishInv
  <2>1. Init => step = "idle"
    BY DEF Init
  <2> QED BY <2>1 DEF PublishInv
<1>2. WriterInv /\ ProgressInv /\ PublishInv /\ [Next]_vars => PublishInv'
  BY PublishStep
<1>3. WriterInv /\ PublishInv /\ [Next]_vars
        => [(\E n \in Names(out') : n \notin Names(out) \/ out'.files[n] # out.files[n])
              => out' = WholeRun(call)]_vars
  BY OnlyRenamed DEF PublishesStep
<1> QED BY <1>1, <1>2, <1>3, WriterInvariant, PTL DEF Spec, PublishedAtOnce
=============================================================================
