------------------------------ MODULE BlobPut -------------------------------
(***************************************************************************)
(* FS.Put in its system calls, for deliveries of one body at once: stat,   *)
(* then os.WriteFile on a temporary name that every Put of the body        *)
(* shares (open with truncation, then write), then rename.  Names and      *)
(* files are kept apart, for a rename moves a name and a descriptor keeps  *)
(* its file.  BlobStore takes Put as one step; this module shows how far   *)
(* that is so.                                                             *)
(***************************************************************************)
EXTENDS Naturals, FiniteSets

CONSTANTS Writer,
          NoFile,     \* a name that is not in the directory
          File,       \* files; one that no name and no descriptor stands for is free
          MaxHitches   \* bound on crashes and refused system calls

ASSUME HitchAssumption == MaxHitches \in Nat
ASSUME FileAssumption ==
  /\ NoFile \notin File
  /\ IsFiniteSet(Writer) /\ Cardinality(File) >= Cardinality(Writer) + 2

VARIABLES
  step,   \* where each Put is
  fd,     \* the file a Put has open
  tmp, final,  \* what the names <hash>.tmp and <hash> stand for
  whole,  \* files that hold the packed body
  acked,  \* some Put of the body has returned its ref
  hitches,
  overlap \* history: one Put opened the file while another was busy with it

putVars == <<step, fd, tmp, final, whole, acked, hitches, overlap>>

PutInit ==
  /\ step = [w \in Writer |-> "stat"]
  /\ fd = [w \in Writer |-> NoFile]
  /\ tmp = NoFile /\ final = NoFile
  /\ whole = {}
  /\ acked = FALSE /\ hitches = 0 /\ overlap = FALSE

NewFile == CHOOSE f \in File : f \notin {tmp, final} \cup {fd[w] : w \in Writer}

Go(w, to) == step' = [step EXCEPT ![w] = to]

\* Present: the ref is returned.  Else on to WriteFile.
Stat(w) ==
  /\ step[w] = "stat"
  /\ Go(w, IF final = NoFile THEN "open" ELSE "stored")
  /\ acked' = (acked \/ final # NoFile)
  /\ UNCHANGED <<fd, tmp, final, whole, hitches, overlap>>

\* Mutant of OpenTmp: the body is written in place, under its final name.
OpenInPlace(w) ==
  /\ step[w] = "open"
  /\ final' = NewFile /\ whole' = whole \ {NewFile}
  /\ fd' = [fd EXCEPT ![w] = NewFile]
  /\ Go(w, "write")
  /\ UNCHANGED <<tmp, acked, hitches, overlap>>

\* O_CREATE|O_TRUNC
OpenTmp(w) ==
  /\ step[w] = "open"
  /\ tmp' = IF tmp = NoFile THEN NewFile ELSE tmp
  /\ whole' = whole \ {tmp'}
  /\ fd' = [fd EXCEPT ![w] = tmp']
  /\ overlap' = (overlap \/ \E v \in Writer : step[v] \in {"write", "rename"})
  /\ Go(w, "write")
  /\ UNCHANGED <<final, acked, hitches>>

\* Mutant of WriteTmp: the write is left to a later flush that never comes.
WriteNothing(w) ==
  /\ step[w] = "write"
  /\ fd' = [fd EXCEPT ![w] = NoFile]
  /\ Go(w, "rename")
  /\ UNCHANGED <<tmp, final, whole, acked, hitches, overlap>>

\* All writers of a file write the same bytes.
WriteTmp(w) ==
  /\ step[w] = "write"
  /\ whole' = whole \cup {fd[w]}
  /\ fd' = [fd EXCEPT ![w] = NoFile]
  /\ Go(w, "rename")
  /\ UNCHANGED <<tmp, final, acked, hitches, overlap>>

\* WriteFile fails: the Put gives up and the temporary file stays.
WriteFails(w) ==
  /\ step[w] \in {"open", "write"}
  /\ hitches < MaxHitches /\ hitches' = hitches + 1
  /\ fd' = [fd EXCEPT ![w] = NoFile]
  /\ Go(w, "failed")
  /\ UNCHANGED <<tmp, final, whole, acked, overlap>>

\* The name is gone when another Put of the body has renamed it.
Rename(w) ==
  /\ step[w] = "rename"
  /\ IF tmp # NoFile
     THEN final' = tmp /\ tmp' = NoFile /\ acked' = TRUE /\ Go(w, "stored")
     ELSE Go(w, "remove") /\ UNCHANGED <<tmp, final, acked>>
  /\ UNCHANGED <<fd, whole, hitches, overlap>>

\* The rename fails for a reason of its own.
RenameFails(w) ==
  /\ step[w] = "rename"
  /\ hitches < MaxHitches /\ hitches' = hitches + 1
  /\ Go(w, "remove")
  /\ UNCHANGED <<fd, tmp, final, whole, acked, overlap>>

\* The error path removes the name, whoever has made it again by then.
RemoveTmp(w) ==
  /\ step[w] = "remove"
  /\ tmp' = NoFile
  /\ Go(w, "failed")
  /\ UNCHANGED <<fd, final, whole, acked, hitches, overlap>>

\* A caller's next message has the same body, or a sender tries again.
PutAgain(w) ==
  /\ step[w] \in {"stored", "failed"}
  /\ Go(w, "stat")
  /\ UNCHANGED <<fd, tmp, final, whole, acked, hitches, overlap>>

\* The process dies; the files stay as they are.
Crash ==
  /\ hitches < MaxHitches /\ hitches' = hitches + 1
  /\ step' = [w \in Writer |-> "stat"] /\ fd' = [w \in Writer |-> NoFile]
  /\ UNCHANGED <<tmp, final, whole, acked, overlap>>

Step(w) ==
  \/ Stat(w) \/ OpenTmp(w) \/ WriteTmp(w) \/ Rename(w) \/ RemoveTmp(w)
  \/ WriteFails(w) \/ RenameFails(w)

PutNext == (\E w \in Writer : Step(w) \/ PutAgain(w)) \/ Crash

PutSpec == PutInit /\ [][PutNext]_putVars

-----------------------------------------------------------------------------
(* Properties.                                                             *)

PutTypeOK ==
  /\ step \in [Writer -> {"stat", "open", "write", "rename", "remove", "stored", "failed"}]
  /\ fd \in [Writer -> File \cup {NoFile}]
  /\ tmp \in File \cup {NoFile} /\ final \in File \cup {NoFile}
  /\ whole \in SUBSET File
  /\ acked \in BOOLEAN /\ overlap \in BOOLEAN /\ hitches \in 0 .. MaxHitches

\* A body whose ref was returned is there, and what is there is whole or about to
\* be made whole again by a Put that has it open: racing Puts leave no damage unless
\* the process dies or a write fails in the middle of the race.
StoredIsWhole ==
  /\ acked => final # NoFile
  /\ final \notin whole =>
       final = NoFile \/ (\E w \in Writer : fd[w] = final) \/ (overlap /\ hitches > 0)

\* Put is atomic as long as Puts of one body come one after the other, across any
\* crash between its system calls and the retries that follow: a body whose ref was
\* returned can be read.
AloneIsAtomic == ~overlap => (acked => final \in whole)

\* Put, as far as it is atomic: racing Puts of one body leave it whole or being made
\* whole, and Puts one after the other leave it whole across any crash.
BodiesAreWhole == StoredIsWhole /\ AloneIsAtomic
=============================================================================
