--------------------------- MODULE FileLogProofs ----------------------------
(***************************************************************************)
(* Proofs about FileLog.  The files determine what a reopen would find     *)
(* (OpenProjection, OpenSeq); the argument follows those two through every *)
(* action: an append extends them by one record, and nothing else moves    *)
(* them.                                                                   *)
(***************************************************************************)
EXTENDS FileLogPower, ListProofs

\* The maximum of a set of numbers is the element above all others.
LEMMA MaxOfIs ==
  ASSUME NEW S, S \subseteq Nat, NEW m \in S, \A x \in S : x <= m
  PROVE  MaxOf(S) = m
<1>1. \E k \in S : \A x \in S : x <= k
  OBVIOUS
<1>2. MaxOf(S) \in S /\ \A x \in S : x <= MaxOf(S)
  BY <1>1 DEF MaxOf
<1>3. MaxOf(S) <= m /\ m <= MaxOf(S)
  BY <1>2
<1>4. MaxOf(S) \in Nat /\ m \in Nat
  BY <1>2
<1> QED
  BY <1>3, <1>4

\* The highest Seq in the files is the one OpenFile recovers, and the one the
\* replayed projection ends at.
LEMMA TopIsRecovered ==
  ASSUME NEW p \in Projection, NEW ls \in SUBSET Line, NEW t \in Nat,
         Ordered(ls), IsTop(t, p, ls)
  PROVE  RecoverSeq(p, ls) = t /\ RestoreAndReplay(p, ls).seq = t
<1>0. p.seq \in Nat /\ p.seq <= t
  BY DEF Projection, IsTop
<1>1. RestoreAndReplay(p, ls).seq = t
  <2> DEFINE S == {p.seq} \cup {r.seq : r \in ReadFrom(ls, p.seq + 1)}
  <2>1. S \subseteq Nat
    BY <1>0 DEF Line, ReadFrom
  <2>2. \A x \in S : x <= t
    BY DEF IsTop, ReadFrom
  <2>3. t \in S
    <3>1. CASE p.seq = t
      BY <3>1
    <3>2. CASE p.seq # t
      <4>1. PICK r \in ls : r.seq = t
        BY <3>2 DEF IsTop
      <4>2. r \in ReadFrom(ls, p.seq + 1)
        BY <1>0, <3>2, <4>1 DEF ReadFrom
      <4> QED
        BY <4>1, <4>2
    <3> QED
      BY <3>1, <3>2
  <2>4. MaxOf(S) = t
    BY <2>1, <2>2, <2>3, MaxOfIs
  <2> QED
    BY <2>4 DEF RestoreAndReplay, Replay
<1>2. RecoverSeq(p, ls) = t
  <2>1. CASE ls = {}
    BY <1>0, <2>1 DEF RecoverSeq, IsTop
  <2>2. CASE ls # {}
    <3>1. PICK r \in ls : r.seq = t
      BY <2>2 DEF IsTop
    <3>2. \A x \in ls : x.line <= r.line
      BY <3>1 DEF IsTop, Ordered, Line
    <3>3. LastLine(ls) \in ls /\ \A x \in ls : x.line <= LastLine(ls).line
      BY <3>2 DEF LastLine
    <3>4. LastLine(ls) = r
      <4>1. LastLine(ls).line \in Nat /\ r.line \in Nat
        BY <3>3 DEF Line
      <4>2. LastLine(ls).line = r.line
        BY <3>2, <3>3, <4>1
      <4> QED
        BY <3>3, <4>2 DEF Ordered
    <3> QED
      BY <1>0, <2>2, <3>1, <3>4 DEF RecoverSeq
  <2> QED
    BY <2>1, <2>2
<1> QED
  BY <1>1, <1>2

\* Replaying never reads below the snapshot, so dropping the lines it covers does
\* not change what is folded.
LEMMA TruncationKeepsReplay ==
  ASSUME NEW p \in Projection, NEW ls \in SUBSET Line
  PROVE  RestoreAndReplay(p, {r \in ls : r.seq > p.seq}) = RestoreAndReplay(p, ls)
<1>1. p.seq \in Nat /\ \A r \in ls : r.seq \in Nat
  BY DEF Projection, Line
<1>2. ReadFrom({r \in ls : r.seq > p.seq}, p.seq + 1) = ReadFrom(ls, p.seq + 1)
  BY <1>1 DEF ReadFrom
<1> QED
  BY <1>2 DEF RestoreAndReplay

\* Above a snapshot that covers the whole log there is nothing to replay.
LEMMA CoveredReplay ==
  ASSUME NEW p \in Projection, NEW ls \in SUBSET Line, \A r \in ls : r.seq <= p.seq
  PROVE  RestoreAndReplay(p, ls) = p
<1>1. p.seq \in Nat /\ \A r \in ls : r.seq \in Nat
  BY DEF Projection, Line
<1>2. ReadFrom(ls, p.seq + 1) = {}
  BY <1>1 DEF ReadFrom
<1>3. MaxOf({p.seq}) = p.seq
  BY <1>1, MaxOfIs
<1>4. Replay(p, {}) = [seq |-> p.seq, evs |-> p.evs]
  BY <1>3 DEF Replay
<1>5. p = [seq |-> p.seq, evs |-> p.evs]
  BY DEF Projection
<1> QED
  BY <1>2, <1>4, <1>5 DEF RestoreAndReplay

\* A line appended after all others with a Seq above all others adds its record.
LEMMA AppendedReplay ==
  ASSUME NEW p \in Projection, NEW ls \in SUBSET Line, NEW x \in Line,
         p.seq < x.seq, \A r \in ls : r.line < x.line /\ r.seq < x.seq
  PROVE  RestoreAndReplay(p, ls \cup {x}).evs
           = RestoreAndReplay(p, ls).evs \cup {Rec(x.seq, x.ev)}
<1> DEFINE old == ReadFrom(ls, p.seq + 1)
           new == ReadFrom(ls \cup {x}, p.seq + 1)
           Fresh(S) == {r \in S : /\ r.seq > p.seq
                                  /\ \A y \in S : y.line < r.line => y.seq < r.seq}
<1>1. p.seq \in Nat /\ x.seq \in Nat /\ x.line \in Nat
      /\ \A r \in ls : r.seq \in Nat /\ r.line \in Nat
  BY DEF Projection, Line
<1>2. new = old \cup {x}
  BY <1>1 DEF ReadFrom
<1>3. old \subseteq ls
  BY DEF ReadFrom
<1>4. Fresh(old \cup {x}) = Fresh(old) \cup {x}
  BY <1>1, <1>3
<1>5. RestoreAndReplay(p, ls).evs = p.evs \cup {Rec(r.seq, r.ev) : r \in Fresh(old)}
  BY DEF RestoreAndReplay, Replay
<1>6. RestoreAndReplay(p, ls \cup {x}).evs = p.evs \cup {Rec(r.seq, r.ev) : r \in Fresh(new)}
  BY DEF RestoreAndReplay, Replay
<1> HIDE DEF old, new, Fresh
<1> QED
  BY <1>2, <1>4, <1>5, <1>6

-----------------------------------------------------------------------------
(* The type invariant.                                                     *)

\* What a reopen computes is a projection and a number.
LEMMA RecoveryType ==
  ASSUME NEW p \in Projection, NEW ls \in SUBSET Line, NEW t \in Nat,
         Ordered(ls), IsTop(t, p, ls)
  PROVE  RecoverSeq(p, ls) \in Nat /\ RestoreAndReplay(p, ls) \in Projection
<1>1. RecoverSeq(p, ls) = t /\ RestoreAndReplay(p, ls).seq = t
  BY TopIsRecovered
<1>2. RestoreAndReplay(p, ls).evs \subseteq Record
  BY DEF RestoreAndReplay, Replay, ReadFrom, Rec, Record, Projection, Line
<1>3. RestoreAndReplay(p, ls)
        = [seq |-> RestoreAndReplay(p, ls).seq, evs |-> RestoreAndReplay(p, ls).evs]
  BY DEF RestoreAndReplay, Replay
<1> QED
  BY <1>1, <1>2, <1>3 DEF Projection

\* Every step keeps the types; Reopen needs the invariant for what it reads back.
LEMMA TypeStep ==
  ASSUME IInv, [Next]_vars
  PROVE  TypeOK'
<1> USE DEF IInv
<1>1. ASSUME NEW e \in Event, Write(e) PROVE TypeOK'
  BY <1>1 DEF TypeOK, Write, Line
<1>2. CASE SyncAndApply
  BY <1>2 DEF TypeOK, SyncAndApply, Apply, Rec, Record, Projection
<1>3. CASE CompactSnapshot
  BY <1>3 DEF TypeOK, CompactSnapshot
<1>4. ASSUME NEW b \in BOOLEAN, CompactRewrite(b) PROVE TypeOK'
  BY <1>4 DEF TypeOK, CompactRewrite
<1>5. CASE CompactAbort
  BY <1>5 DEF TypeOK, CompactAbort
<1>6. CASE Crash
  BY <1>6 DEF TypeOK, Crash, Empty, Projection
<1>7. CASE Reopen
  <2>1. OpenSeq \in Nat
    BY DEF TypeOK, Projection, Line, IsTop
  <2> QED
    BY <1>7, <2>1, RecoveryType DEF TypeOK, Reopen, OpenSeq, OpenProjection
<1>8. CASE UNCHANGED vars
  BY <1>8 DEF TypeOK, vars
<1> QED
  BY <1>1, <1>2, <1>3, <1>4, <1>5, <1>6, <1>7, <1>8 DEF Next

-----------------------------------------------------------------------------
(* The inductive invariant.                                                *)

\* Steps that leave both files alone leave alone what a reopen would find.
LEMMA FilesUnchanged ==
  ASSUME UNCHANGED <<lines, snap>>
  PROVE  OpenSeq' = OpenSeq /\ OpenProjection' = OpenProjection
BY DEF OpenSeq, OpenProjection

\* Write extends the recoverable history by the record it appends.
LEMMA WriteExtends ==
  ASSUME IInv, NEW e \in Event, Write(e)
  PROVE  /\ OpenSeq = fseq /\ OpenSeq' = fseq + 1
         /\ OpenProjection = proj
         /\ OpenProjection' = [seq |-> fseq + 1,
                               evs |-> OpenProjection.evs \cup {Rec(fseq + 1, e)}]
         /\ Ordered(lines') /\ IsTop(fseq + 1, snap', lines')
         /\ \A r \in lines' : r.line < nextLine'
<1> DEFINE x == [line |-> nextLine, seq |-> fseq + 1, ev |-> e]
<1>1. /\ snap \in Projection /\ lines \in SUBSET Line /\ x \in Line
      /\ fseq \in Nat /\ nextLine \in Nat
  BY DEF IInv, TypeOK, Line
<1>2. lines' = lines \cup {x} /\ snap' = snap /\ nextLine' = nextLine + 1
  BY DEF Write
<1>3. OpenSeq = fseq /\ OpenProjection = proj
  BY DEF IInv, MemoryMatchesFiles, Write
<1>4. IsTop(fseq, snap, lines)
  BY <1>3 DEF IInv
<1>5. snap.seq < x.seq /\ \A r \in lines : r.line < x.line /\ r.seq < x.seq
  BY <1>1, <1>4 DEF IsTop, IInv, Projection, Line
<1>6. IsTop(fseq + 1, snap, lines \cup {x})
  <2>1. x \in lines \cup {x} /\ x.seq = fseq + 1
    OBVIOUS
  <2>2. snap.seq <= fseq + 1 /\ \A r \in lines \cup {x} : r.seq <= fseq + 1
    BY <1>1, <1>5, <2>1 DEF Projection, Line
  <2> QED
    BY <2>1, <2>2 DEF IsTop
<1>7. Ordered(lines \cup {x})
  BY <1>1, <1>5 DEF Ordered, IInv, Line
<1>8. \A r \in lines \cup {x} : r.line < nextLine + 1
  BY <1>1, <1>5 DEF Line
<1>9. RestoreAndReplay(snap, lines \cup {x}).evs
        = RestoreAndReplay(snap, lines).evs \cup {Rec(fseq + 1, e)}
  BY <1>1, <1>5, AppendedReplay
<1>10. /\ RecoverSeq(snap, lines \cup {x}) = fseq + 1
       /\ RestoreAndReplay(snap, lines \cup {x}).seq = fseq + 1
  <2>1. lines \cup {x} \in SUBSET Line /\ fseq + 1 \in Nat
    BY <1>1
  <2> HIDE DEF x
  <2> QED
    BY <1>1, <1>6, <1>7, <2>1, TopIsRecovered
<1>11. RestoreAndReplay(snap, lines \cup {x})
         = [seq |-> RestoreAndReplay(snap, lines \cup {x}).seq,
            evs |-> RestoreAndReplay(snap, lines \cup {x}).evs]
  BY DEF RestoreAndReplay, Replay
<1> HIDE DEF x
<1> QED
  BY <1>2, <1>3, <1>6, <1>7, <1>8, <1>9, <1>10, <1>11 DEF OpenSeq, OpenProjection

\* Installing the snapshot of an idle, up-to-date writer changes nothing a reopen
\* would find: the snapshot covers every line of the log.
LEMMA SnapshotKeeps ==
  ASSUME IInv, CompactSnapshot
  PROVE  /\ OpenSeq' = OpenSeq /\ OpenProjection' = OpenProjection
         /\ IsTop(OpenSeq, snap, lines)'
<1>1. /\ proj \in Projection /\ snap \in Projection /\ lines \in SUBSET Line
      /\ fseq \in Nat
  BY DEF IInv, TypeOK
<1>2. snap' = proj /\ lines' = lines
  BY DEF CompactSnapshot
<1>3. OpenSeq = fseq /\ OpenProjection = proj
  BY DEF IInv, MemoryMatchesFiles, CompactSnapshot
<1>4. IsTop(fseq, snap, lines) /\ Ordered(lines)
  BY <1>3 DEF IInv
<1>5. proj.seq = fseq
  BY <1>1, <1>3, <1>4, TopIsRecovered DEF OpenProjection
<1>6. \A r \in lines : r.seq <= proj.seq
  BY <1>4, <1>5 DEF IsTop
<1>7. RestoreAndReplay(proj, lines) = proj
  BY <1>1, <1>6, CoveredReplay
<1>8. IsTop(fseq, proj, lines)
  BY <1>1, <1>4, <1>5 DEF IsTop
<1>9. RecoverSeq(proj, lines) = fseq
  BY <1>1, <1>4, <1>8, TopIsRecovered
<1> QED
  BY <1>2, <1>3, <1>7, <1>8, <1>9 DEF OpenSeq, OpenProjection

\* Truncating the log behind the snapshot changes nothing a reopen would find.
LEMMA RewriteKeeps ==
  ASSUME IInv, NEW b \in BOOLEAN, CompactRewrite(b)
  PROVE  /\ OpenSeq' = OpenSeq /\ OpenProjection' = OpenProjection
         /\ IsTop(OpenSeq, snap, lines)' /\ Ordered(lines)'
<1> DEFINE kept == {r \in lines : r.seq > snap.seq}
<1>1. snap \in Projection /\ lines \in SUBSET Line /\ kept \in SUBSET Line
  BY DEF IInv, TypeOK
<1>2. snap' = snap /\ lines' = kept
  BY DEF CompactRewrite
<1>3. IsTop(OpenSeq, snap, lines) /\ Ordered(lines)
  BY DEF IInv
<1>4. OpenSeq \in Nat
  BY <1>1, <1>3 DEF Projection, Line, IsTop
<1>5. IsTop(OpenSeq, snap, kept)
  BY <1>1, <1>3, <1>4 DEF IsTop, Projection, Line
<1>6. Ordered(kept)
  BY <1>3 DEF Ordered
<1>7. RecoverSeq(snap, kept) = OpenSeq
  BY <1>1, <1>4, <1>5, <1>6, TopIsRecovered
<1>8. RestoreAndReplay(snap, kept) = RestoreAndReplay(snap, lines)
  BY <1>1, TruncationKeepsReplay
<1> HIDE DEF kept
<1> QED
  BY <1>2, <1>5, <1>6, <1>7, <1>8 DEF OpenSeq, OpenProjection

\* The recoverable history is numbered without gaps, extended at its end.
LEMMA GaplessExtends ==
  ASSUME NEW H, NEW n \in Nat, NEW e,
         {r.seq : r \in H} = 1 .. n,
         \A r, q \in H : r.seq = q.seq => r = q
  PROVE  /\ {r.seq : r \in H \cup {Rec(n + 1, e)}} = 1 .. (n + 1)
         /\ \A r, q \in H \cup {Rec(n + 1, e)} : r.seq = q.seq => r = q
<1> DEFINE x == Rec(n + 1, e)
<1>1. x.seq = n + 1
  BY DEF Rec
<1>2. \A r \in H : r.seq \in 1 .. n
  OBVIOUS
<1>3. {r.seq : r \in H \cup {x}} = {r.seq : r \in H} \cup {n + 1}
  BY <1>1
<1>4. 1 .. (n + 1) = (1 .. n) \cup {n + 1}
  OBVIOUS
<1>5. \A r, q \in H \cup {x} : r.seq = q.seq => r = q
  BY <1>1, <1>2
<1> HIDE DEF x
<1>6. {r.seq : r \in H \cup {x}} = 1 .. (n + 1)
  BY <1>3, <1>4
<1> QED
  BY <1>5, <1>6 DEF x

\* Initially the files are empty and so is the memory.
LEMMA InitIInv == Init => IInv
<1> SUFFICES ASSUME Init PROVE IInv
  OBVIOUS
<1> USE DEF Init, Empty
<1>1. TypeOK
  BY DEF TypeOK, Projection
<1>2. Ordered(lines) /\ IsTop(0, snap, lines)
  BY DEF Ordered, IsTop
<1>3. snap \in Projection /\ lines \in SUBSET Line
  BY <1>1 DEF TypeOK
<1>4. OpenSeq = 0
  BY <1>2, <1>3, TopIsRecovered DEF OpenSeq
<1>5. OpenProjection = Empty
  BY <1>3, CoveredReplay DEF OpenProjection
<1>6. SeqGapless
  BY <1>4, <1>5 DEF SeqGapless
<1>7. MemoryMatchesFiles
  BY <1>4, <1>5 DEF MemoryMatchesFiles
<1> QED
  BY <1>1, <1>2, <1>4, <1>5, <1>6, <1>7 DEF IInv

\* Every step keeps the inductive invariant.
LEMMA StepIInv == IInv /\ [Next]_vars => IInv'
<1> SUFFICES ASSUME IInv, [Next]_vars PROVE IInv'
  OBVIOUS
<1>0. TypeOK'
  BY TypeStep
<1> USE DEF IInv
<1>1. ASSUME NEW e \in Event, Write(e) PROVE IInv'
  <2>1. /\ OpenSeq = fseq /\ OpenSeq' = fseq + 1
        /\ OpenProjection = proj
        /\ OpenProjection' = [seq |-> fseq + 1,
                              evs |-> OpenProjection.evs \cup {Rec(fseq + 1, e)}]
        /\ Ordered(lines') /\ IsTop(fseq + 1, snap', lines')
        /\ \A r \in lines' : r.line < nextLine'
    BY <1>1, WriteExtends
  <2>2. fseq \in Nat /\ proj.seq = fseq
    <3>1. snap \in Projection /\ lines \in SUBSET Line /\ fseq \in Nat
      BY DEF TypeOK
    <3> QED
      BY <2>1, <3>1, TopIsRecovered DEF OpenProjection
  <2>3. SeqGapless'
    <3> DEFINE H == OpenProjection.evs
    <3>1. {r.seq : r \in H} = 1 .. fseq /\ \A r, q \in H : r.seq = q.seq => r = q
      BY <2>1 DEF SeqGapless
    <3>2. /\ {r.seq : r \in H \cup {Rec(fseq + 1, e)}} = 1 .. (fseq + 1)
          /\ \A r, q \in H \cup {Rec(fseq + 1, e)} : r.seq = q.seq => r = q
      <4>1. fseq \in Nat
        BY <2>2
      <4> HIDE DEF H, IInv
      <4> QED
        BY ONLY <4>1, <3>1, GaplessExtends, Zenon
    <3>3. OpenProjection'.evs = H \cup {Rec(fseq + 1, e)} /\ OpenSeq' = fseq + 1
      BY <2>1
    <3> HIDE DEF H
    <3> QED
      BY <3>2, <3>3 DEF SeqGapless
  <2>4. MemoryMatchesFiles'
    <3>1. pc' = "written" /\ fseq' = fseq /\ proj' = proj /\ cur' = e
      BY <1>1 DEF Write
    <3>2. Apply(proj, Rec(fseq + 1, e))
            = [seq |-> fseq + 1, evs |-> proj.evs \cup {Rec(fseq + 1, e)}]
      BY <2>2 DEF Apply, Rec
    <3> QED
      BY <2>1, <2>2, <3>1, <3>2 DEF MemoryMatchesFiles
  <2>5. acked' \subseteq OpenProjection'.evs /\ ~corrupt'
    BY <1>1, <2>1 DEF Write
  <2> QED
    BY <1>0, <2>1, <2>3, <2>4, <2>5
<1>2. CASE SyncAndApply
  <2>1. OpenSeq' = OpenSeq /\ OpenProjection' = OpenProjection
    BY <1>2, FilesUnchanged DEF SyncAndApply
  <2>2. MemoryMatchesFiles'
    BY <1>2, <2>1 DEF MemoryMatchesFiles, SyncAndApply
  <2>3. Rec(fseq + 1, cur) \in OpenProjection.evs
    <3>1. fseq \in Nat /\ proj.seq = fseq
      BY <1>2 DEF SyncAndApply, MemoryMatchesFiles, TypeOK
    <3> QED
      BY <1>2, <3>1 DEF SyncAndApply, MemoryMatchesFiles, Apply, Rec
  <2> QED
    BY <1>0, <1>2, <2>1, <2>2, <2>3 DEF SyncAndApply, SeqGapless
<1>3. CASE CompactSnapshot
  <2>1. /\ OpenSeq' = OpenSeq /\ OpenProjection' = OpenProjection
        /\ IsTop(OpenSeq, snap, lines)'
    BY <1>3, SnapshotKeeps
  <2>2. MemoryMatchesFiles'
    BY <1>3, <2>1 DEF MemoryMatchesFiles, CompactSnapshot
  <2> QED
    BY <1>0, <1>3, <2>1, <2>2 DEF CompactSnapshot, SeqGapless
<1>4. ASSUME NEW b \in BOOLEAN, CompactRewrite(b) PROVE IInv'
  <2>1. /\ OpenSeq' = OpenSeq /\ OpenProjection' = OpenProjection
        /\ IsTop(OpenSeq, snap, lines)' /\ Ordered(lines)'
    BY <1>4, RewriteKeeps
  <2>2. MemoryMatchesFiles'
    BY <1>4, <2>1 DEF MemoryMatchesFiles, CompactRewrite
  <2>3. \A r \in lines' : r.line < nextLine'
    BY <1>4 DEF CompactRewrite
  <2> QED
    BY <1>0, <1>4, <2>1, <2>2, <2>3 DEF CompactRewrite, SeqGapless
<1>5. CASE CompactAbort
  <2>1. OpenSeq' = OpenSeq /\ OpenProjection' = OpenProjection
    BY <1>5, FilesUnchanged DEF CompactAbort
  <2>2. MemoryMatchesFiles'
    BY <1>5, <2>1 DEF MemoryMatchesFiles, CompactAbort
  <2> QED
    BY <1>0, <1>5, <2>1, <2>2 DEF CompactAbort, SeqGapless
<1>6. CASE Crash
  <2>1. OpenSeq' = OpenSeq /\ OpenProjection' = OpenProjection
    BY <1>6, FilesUnchanged DEF Crash
  <2>2. MemoryMatchesFiles'
    BY <1>6 DEF MemoryMatchesFiles, Crash
  <2> QED
    BY <1>0, <1>6, <2>1, <2>2 DEF Crash, SeqGapless
<1>7. CASE Reopen
  <2>1. OpenSeq' = OpenSeq /\ OpenProjection' = OpenProjection
    BY <1>7, FilesUnchanged DEF Reopen
  <2>2. MemoryMatchesFiles'
    BY <1>7, <2>1 DEF MemoryMatchesFiles, Reopen
  <2> QED
    BY <1>0, <1>7, <2>1, <2>2 DEF Reopen, SeqGapless
<1>8. CASE UNCHANGED vars
  <2>1. OpenSeq' = OpenSeq /\ OpenProjection' = OpenProjection
    BY <1>8, FilesUnchanged DEF vars
  <2>2. MemoryMatchesFiles'
    BY <1>8, <2>1 DEF MemoryMatchesFiles, vars
  <2> QED
    BY <1>0, <1>8, <2>1, <2>2 DEF vars, SeqGapless
<1> QED
  BY <1>1, <1>2, <1>3, <1>4, <1>5, <1>6, <1>7, <1>8 DEF Next

\* The inductive invariant holds throughout every behaviour of the log.
THEOREM Invariance == Spec => []IInv
BY InitIInv, StepIInv, PTL DEF Spec

\* The log's variables keep their types.
THEOREM TypeCorrect == Spec => []TypeOK
<1>1. IInv => TypeOK
  BY DEF IInv
<1> QED
  BY Invariance, <1>1, PTL

\* Durability: an acknowledged Append survives a crash of the process at any
\* instant, compaction included, for any number of events and restarts.
THEOREM Durability == Spec => []AckedRecoverable
<1>1. IInv => AckedRecoverable
  BY DEF IInv, AckedRecoverable, Recoverable
<1> QED
  BY Invariance, <1>1, PTL

\* The live projection is always the one a rebuild from the files would give.
THEOREM NoDrift == Spec => []LiveEqualsRebuild
<1>1. IInv => LiveEqualsRebuild
  BY DEF IInv, LiveEqualsRebuild, MemoryMatchesFiles
<1> QED
  BY Invariance, <1>1, PTL

\* Seq numbers have no gaps and are never reused.
THEOREM Gapless == Spec => []SeqGapless
<1>1. IInv => SeqGapless
  BY DEF IInv
<1> QED
  BY Invariance, <1>1, PTL

-----------------------------------------------------------------------------
(* The loop that reads the log.  The closed form satisfies the equation of *)
(* the loop, and at each number of turns only one value does.              *)

\* What replaying the first lines of a log gives, and what it gives with one line more.
LEMMA ReplayGrows ==
  ASSUME NEW p \in Projection, NEW ls \in SUBSET Line, NEW x \in Line, NEW m \in Nat,
         Replay(p, ls).seq = m, m < x.seq, p.seq < x.seq,
         \A r \in ls : r.line < x.line /\ r.seq < x.seq /\ p.seq < r.seq
  PROVE  Replay(p, ls \cup {x}) = Apply(Replay(p, ls), x) /\ Replay(p, ls \cup {x}).seq = x.seq
<1>1. p.seq \in Nat /\ x.seq \in Nat /\ x.line \in Nat /\ \A r \in ls : r.seq \in Nat /\ r.line \in Nat
  BY DEF Projection, Line
<1>2. ReadFrom(ls, p.seq + 1) = ls /\ ReadFrom(ls \cup {x}, p.seq + 1) = ls \cup {x}
  BY <1>1 DEF ReadFrom
<1>3. Replay(p, ls \cup {x}).evs = Replay(p, ls).evs \cup {Rec(x.seq, x.ev)}
  <2>1. RestoreAndReplay(p, ls \cup {x}).evs = RestoreAndReplay(p, ls).evs \cup {Rec(x.seq, x.ev)}
    BY AppendedReplay
  <2> QED
    BY <1>2, <2>1, Zenon DEF RestoreAndReplay
<1>4. Replay(p, ls \cup {x}).seq = x.seq
  <2> DEFINE S == {p.seq} \cup {r.seq : r \in ls \cup {x}}
  <2>1. S \subseteq Nat /\ x.seq \in S /\ \A y \in S : y <= x.seq
    BY <1>1
  <2>2. MaxOf(S) = x.seq
    BY <2>1, MaxOfIs
  <2> QED
    BY <2>2 DEF Replay
<1>5. Replay(p, ls \cup {x}) = [seq |-> Replay(p, ls \cup {x}).seq, evs |-> Replay(p, ls \cup {x}).evs]
  BY DEF Replay
<1>6. ~(x.seq <= Replay(p, ls).seq)
  BY <1>1
<1> QED
  BY <1>3, <1>4, <1>5, <1>6 DEF Apply

\* The loop over the tail of the log gives what Replay says, for a tail of any length.
LEMMA FoldIsReplay ==
  ASSUME NEW p \in Projection, NEW ls \in SUBSET Line, NEW bound \in Nat, Ordered(ls),
         \A r \in ls : r.line < bound /\ p.seq < r.seq
  PROVE  Folded(p, ls) = Replay(p, ls)
<1> DEFINE L == {r.line : r \in ls}
           at == InOrder(L)
           n == Len(at)
           rec(k) == CHOOSE r \in ls : r.line = at[k]
           turn(f, k) == IF k = 0 THEN p ELSE Apply(f[k - 1], rec(k))
           F == CHOOSE f : f = [k \in 0 .. n |-> turn(f, k)]
           first(k) == {rec(j) : j \in 1 .. k}
           g == [k \in 0 .. n |-> Replay(p, first(k))]
<1>1. p.seq \in Nat /\ \A r \in ls : r.line \in Nat /\ r.seq \in Nat
  BY DEF Projection, Line
<1>2. Ascends(at, L) /\ n \in Nat
  <2>1. L \subseteq 0 .. bound /\ L \subseteq Nat
    BY <1>1
  <2> HIDE DEF L
  <2>2. IsFiniteSet(0 .. bound)
    BY FS_Interval
  <2>3. IsFiniteSet(L)
    BY <2>1, <2>2, FS_Subset
  <2>4. Ascends(at, L)
    BY <2>1, <2>3, InOrderAscends
  <2> QED
    BY <2>4 DEF Ascends
<1>3. \A k \in 1 .. n : rec(k) \in ls /\ rec(k).line = at[k]
  <2> SUFFICES ASSUME NEW k \in 1 .. n PROVE rec(k) \in ls /\ rec(k).line = at[k]
    OBVIOUS
  <2>1. at[k] \in L
    <3> HIDE DEF L, at
    <3> QED
      BY <1>2 DEF Ascends
  <2> QED
    BY <2>1
<1>4. \A r \in ls : \E k \in 1 .. n : rec(k) = r
  <2> SUFFICES ASSUME NEW r \in ls PROVE \E k \in 1 .. n : rec(k) = r
    OBVIOUS
  <2>1. PICK k \in 1 .. n : at[k] = r.line
    BY <1>2 DEF Ascends
  <2>2. rec(k) \in ls /\ rec(k).line = r.line
    BY <1>3, <2>1
  <2> QED
    BY <2>2 DEF Ordered
<1>5. \A j, k \in 1 .. n : j < k => rec(j).line < rec(k).line /\ rec(j).seq < rec(k).seq
  <2> SUFFICES ASSUME NEW j \in 1 .. n, NEW k \in 1 .. n, j < k PROVE rec(j).line < rec(k).line /\ rec(j).seq < rec(k).seq
    OBVIOUS
  <2>1. at[j] < at[k]
    BY <1>2 DEF Ascends
  <2> HIDE DEF rec, at
  <2> QED
    BY <1>3, <2>1 DEF Ordered
<1>6. first(0) = {} /\ first(n) = ls /\ \A k \in 0 .. n : k + 1 \in 1 .. n => first(k + 1) = first(k) \cup {rec(k + 1)}
  <2> HIDE DEF rec, n
  <2>1. first(0) = {}
    OBVIOUS
  <2>2. first(n) = ls
    BY <1>3, <1>4
  <2>3. \A k \in 0 .. n : 1 .. k + 1 = (1 .. k) \cup {k + 1}
    BY <1>2
  <2> QED
    BY <2>1, <2>2, <2>3
<1>7. \A k \in 0 .. n : first(k) \in SUBSET Line /\ \A r \in first(k) : r \in ls
  <2> HIDE DEF rec, n
  <2>1. \A k \in 0 .. n : \A j \in 1 .. k : j \in 1 .. n
    BY <1>2
  <2> QED
    BY <1>3, <2>1
<1>8. \A k \in 0 .. n : \A r \in first(k) : k + 1 \in 1 .. n => r.line < rec(k + 1).line /\ r.seq < rec(k + 1).seq
  <2> HIDE DEF rec, n
  <2>1. \A k \in 0 .. n : \A j \in 1 .. k : j \in 1 .. n /\ j < k + 1
    BY <1>2
  <2> QED
    BY <1>5, <2>1
<1> HIDE DEF rec, n, first
<1>9. ASSUME NEW k \in 0 .. n, k + 1 \in 1 .. n, NEW m \in Nat, Replay(p, first(k)).seq = m, m < rec(k + 1).seq
      PROVE  Replay(p, first(k + 1)) = Apply(Replay(p, first(k)), rec(k + 1)) /\ Replay(p, first(k + 1)).seq = rec(k + 1).seq
  <2>1. rec(k + 1) \in Line /\ p.seq < rec(k + 1).seq /\ first(k) \in SUBSET Line
    BY <1>3, <1>7, <1>9
  <2>2. \A r \in first(k) : r.line < rec(k + 1).line /\ r.seq < rec(k + 1).seq /\ p.seq < r.seq
    BY <1>7, <1>8, <1>9
  <2> QED
    BY <1>6, <1>9, <2>1, <2>2, ReplayGrows
<1>10. Replay(p, first(0)) = p
  <2>1. MaxOf({p.seq}) = p.seq
    BY <1>1, MaxOfIs
  <2>2. p = [seq |-> p.seq, evs |-> p.evs]
    BY DEF Projection
  <2> QED
    BY <1>6, <2>1, <2>2 DEF Replay
<1>11. \A k \in 0 .. n : Replay(p, first(k)).seq = IF k = 0 THEN p.seq ELSE rec(k).seq
  <2> DEFINE T == {k \in Nat : k \in 0 .. n => Replay(p, first(k)).seq = IF k = 0 THEN p.seq ELSE rec(k).seq}
  <2>1. 0 \in T
    BY <1>10
  <2>2. ASSUME NEW k \in T PROVE k + 1 \in T
    <3> SUFFICES ASSUME k + 1 \in 0 .. n PROVE Replay(p, first(k + 1)).seq = rec(k + 1).seq
      OBVIOUS
    <3>1. k \in Nat /\ k \in 0 .. n /\ k + 1 \in 1 .. n
      BY <1>2
    <3>2. Replay(p, first(k)).seq = IF k = 0 THEN p.seq ELSE rec(k).seq
      BY <3>1
    <3> HIDE DEF T
    <3>3. CASE k = 0
      BY <1>1, <1>3, <1>9, <3>1, <3>2, <3>3
    <3>4. CASE k # 0
      <4>1. k \in 1 .. n /\ k < k + 1
        BY <1>2, <3>1, <3>4
      <4>2. rec(k).seq \in Nat /\ rec(k).seq < rec(k + 1).seq
        BY <1>1, <1>3, <1>5, <3>1, <4>1
      <4> QED
        BY <1>9, <3>1, <3>2, <3>4, <4>2
    <3> QED
      BY <3>3, <3>4
  <2> HIDE DEF T
  <2>3. T \in SUBSET Nat
    BY DEF T
  <2>4. Nat \subseteq T
    BY <2>1, <2>2, <2>3, InductiveSet
  <2> QED
    BY <1>2, <2>4 DEF T
<1>12. ASSUME NEW k \in 0 .. n, k # 0
       PROVE  k - 1 \in 0 .. n /\ Replay(p, first(k)) = Apply(Replay(p, first(k - 1)), rec(k))
  <2>1. PICK j \in Nat : j = k - 1 /\ j \in 0 .. n /\ k = j + 1 /\ j + 1 \in 1 .. n
    BY <1>2, <1>12
  <2>2. Replay(p, first(j)).seq = IF j = 0 THEN p.seq ELSE rec(j).seq
    BY <1>11, <2>1
  <2>3. CASE j = 0
    BY <1>1, <1>3, <1>9, <2>1, <2>2, <2>3
  <2>4. CASE j # 0
    <3>1. j \in 1 .. n /\ j < j + 1
      BY <1>2, <2>1, <2>4
    <3>2. rec(j).seq \in Nat /\ rec(j).seq < rec(j + 1).seq
      BY <1>1, <1>3, <1>5, <2>1, <3>1
    <3> QED
      BY <1>9, <2>1, <2>2, <2>4, <3>2
  <2> QED
    BY <2>3, <2>4
<1>13. F = [k \in 0 .. n |-> turn(F, k)]
  <2>1. \A k \in 0 .. n : g[k] = turn(g, k)
    BY <1>10, <1>12, <1>2
  <2>2. g = [k \in 0 .. n |-> turn(g, k)]
    BY <2>1
  <2> HIDE DEF turn, g
  <2> QED
    BY <2>2
<1>14. \A k \in 0 .. n : F[k] = Replay(p, first(k))
  <2> HIDE DEF F
  <2> DEFINE T == {k \in Nat : k \in 0 .. n => F[k] = Replay(p, first(k))}
  <2>1. 0 \in T
    BY <1>2, <1>10, <1>13
  <2>2. ASSUME NEW k \in T PROVE k + 1 \in T
    <3> SUFFICES ASSUME k + 1 \in 0 .. n PROVE F[k + 1] = Replay(p, first(k + 1))
      OBVIOUS
    <3>1. k \in Nat /\ k \in 0 .. n /\ k + 1 # 0 /\ k + 1 - 1 = k
      BY <1>2
    <3>2. F[k] = Replay(p, first(k))
      BY <3>1
    <3>3. F[k + 1] = Apply(F[k], rec(k + 1))
      BY <1>13, <3>1
    <3> QED
      BY <1>12, <3>1, <3>2, <3>3
  <2> HIDE DEF T
  <2>3. T \in SUBSET Nat
    BY DEF T
  <2>4. Nat \subseteq T
    BY <2>1, <2>2, <2>3, InductiveSet
  <2> QED
    BY <1>2, <2>4 DEF T
<1>15. Folded(p, ls) = F[n]
  BY DEF Folded, n, rec
<1> QED
  BY <1>2, <1>6, <1>14, <1>15

\* openProjection: reading the files in one step, as the specification does, gives what
\* the loop over the lines gives, in every state the log's files come to be in.
THEOREM ReopenIsTheLoop == Spec => []ReplayIsFold
<1>1. IInv => ReplayIsFold
  <2> SUFFICES ASSUME IInv PROVE ReplayIsFold
    OBVIOUS
  <2> DEFINE ls == ReadFrom(lines, snap.seq + 1)
  <2>1. snap \in Projection /\ snap.seq \in Nat /\ lines \in SUBSET Line /\ nextLine \in Nat
    BY DEF IInv, TypeOK, Projection
  <2>2. ls \in SUBSET Line /\ Ordered(ls)
    BY <2>1 DEF IInv, Ordered, ReadFrom
  <2>3. \A r \in ls : r.line < nextLine /\ snap.seq < r.seq
    BY <2>1 DEF IInv, ReadFrom, Line
  <2> HIDE DEF ls
  <2>4. Folded(snap, ls) = Replay(snap, ls)
    BY <2>1, <2>2, <2>3, FoldIsReplay
  <2> QED
    BY <2>4 DEF ReplayIsFold, OpenProjection, RestoreAndReplay, ls
<1> QED
  BY <1>1, Invariance, PTL

-----------------------------------------------------------------------------
(* The refinement.                                                         *)

\* Every step of the file log is a step, or no step, of the abstract history.
LEMMA StepRefines == IInv /\ [Next]_vars => [History!Next]_(History!vars)
<1> SUFFICES ASSUME IInv, [Next]_vars PROVE [History!Next]_(History!vars)
  OBVIOUS
<1> USE DEF History!vars, History!Rec
<1>1. ASSUME NEW e \in Event, Write(e) PROVE History!Next
  <2>1. /\ OpenSeq' = OpenSeq + 1
        /\ OpenProjection'.evs = OpenProjection.evs \cup {Rec(OpenSeq + 1, e)}
    BY <1>1, WriteExtends
  <2>2. acked' = acked
    BY <1>1 DEF Write
  <2>3. History!Commit(e)
    BY <2>1, <2>2 DEF History!Commit, Rec
  <2> QED
    BY <2>3 DEF History!Next
<1>2. CASE SyncAndApply
  <2>1. OpenSeq' = OpenSeq /\ OpenProjection' = OpenProjection
    BY <1>2, FilesUnchanged DEF SyncAndApply
  <2>2. OpenSeq = fseq + 1 /\ Rec(fseq + 1, cur) \in OpenProjection.evs
    <3>1. fseq \in Nat /\ proj.seq = fseq /\ OpenSeq = fseq + 1
      BY <1>2 DEF IInv, SyncAndApply, MemoryMatchesFiles, TypeOK
    <3> QED
      BY <1>2, <3>1 DEF IInv, SyncAndApply, MemoryMatchesFiles, Apply, Rec
  <2>3. acked' = acked \cup {Rec(fseq + 1, cur)} /\ cur \in Event
    BY <1>2 DEF SyncAndApply, IInv, TypeOK
  <2>4. History!Ack(cur)
    BY <2>1, <2>2, <2>3 DEF History!Ack, Rec
  <2> QED
    BY <2>3, <2>4 DEF History!Next
<1>3. CASE CompactSnapshot
  BY <1>3, SnapshotKeeps DEF CompactSnapshot
<1>4. ASSUME NEW b \in BOOLEAN, CompactRewrite(b) PROVE UNCHANGED History!vars
  BY <1>4, RewriteKeeps DEF CompactRewrite
<1>5. CASE CompactAbort
  BY <1>5, FilesUnchanged DEF CompactAbort
<1>6. CASE Crash
  BY <1>6, FilesUnchanged DEF Crash
<1>7. CASE Reopen
  BY <1>7, FilesUnchanged DEF Reopen
<1>8. CASE UNCHANGED vars
  BY <1>8, FilesUnchanged DEF vars
<1> QED
  BY <1>1, <1>2, <1>3, <1>4, <1>5, <1>6, <1>7, <1>8 DEF Next

\* The file log, with its snapshots, truncations, crashes and restarts, implements
\* a history that only grows at its end.
THEOREM Refinement == Spec => RefinesHistory
<1>1. Init => History!Init
  <2> SUFFICES ASSUME Init PROVE History!Init
    OBVIOUS
  <2>1. IInv
    BY InitIInv
  <2>2. OpenSeq = fseq /\ OpenProjection = proj
    BY <2>1 DEF IInv, MemoryMatchesFiles, Init
  <2> QED
    BY <2>2 DEF Init, Empty, History!Init
<1> QED
  BY <1>1, Invariance, StepRefines, PTL DEF Spec, RefinesHistory, History!Spec

-----------------------------------------------------------------------------
(* FileLog on a disk that refuses writes and loses power: the invariant.    *)

\* File order is Seq order; only a Seq that the disk refused occurs twice.
Climbing(ls, odd) ==
  \A x, y \in ls :
    x.line <= y.line => x = y \/ (x.line < y.line /\ x.seq <= y.seq /\ (x.seq = y.seq => x.seq \in odd))

\* The records that are to survive.
Promised == {r \in acked : r.seq \notin refused}

\* Every one of them is in the snapshot p, or on a line of ls that p does not cover.
Holds(p, ls, records) ==
  \A r \in records : r \in p.evs \/ \E x \in ls : x.seq = r.seq /\ x.ev = r.ev /\ p.seq < x.seq

\* The logs there are: the kernel's, and the disk's while a rename is pending.
Logs ==
  /\ Climbing(lines, refused) /\ Climbing(oldLines, refused)
  /\ \A x \in lines \cup oldLines : x.line < nextLine
  /\ unsynced \subseteq lines

\* What a running process knows of its files.
Running ==
  pc # "down" =>
    /\ proj.seq <= fseq /\ snap.seq <= fseq
    /\ \A x \in lines : x.seq <= fseq \/ (x.seq = fseq + 1 /\ (pc = "written" \/ x.seq \in refused))
    /\ pc = "written" => \E x \in lines : x.seq = fseq + 1 /\ x.ev = cur
    /\ pc = "snapped" => snap = proj

\* Each state that a power loss may leave holds what was promised; the log's rename
\* is on disk only with the snapshot's.
OnDisk ==
  ~snapLost /\ ~corrupt =>
    /\ pc # "down" => Promised \subseteq proj.evs
    /\ Holds(snap, lines \ unsynced, Promised)
    /\ "log" \in pending => Holds(snap, oldLines, Promised)
    /\ "snap" \in pending => Holds(oldSnap, IF "log" \in pending THEN oldLines ELSE lines \ unsynced, Promised)

PowerInv == PTypeOK /\ Logs /\ Running /\ OnDisk

-----------------------------------------------------------------------------
(* ... and the proofs.                                                      *)

\* Replay finds every record on a line that the snapshot does not cover, for no other
\* line has its Seq.
LEMMA HeldIsRead ==
  ASSUME NEW p \in Projection, NEW ls \in SUBSET Line, NEW odd, NEW records \in SUBSET Record,
         \A r \in records : r.seq \notin odd, Climbing(ls, odd), Holds(p, ls, records)
  PROVE  records \subseteq RestoreAndReplay(p, ls).evs
<1> SUFFICES ASSUME NEW r \in records, r \notin p.evs PROVE r \in RestoreAndReplay(p, ls).evs
  BY DEF RestoreAndReplay, Replay
<1>1. PICK x \in ls : x.seq = r.seq /\ x.ev = r.ev /\ p.seq < x.seq
  BY DEF Holds
<1>2. p.seq \in Nat /\ x.seq \in Nat /\ \A y \in ls : y.line \in Nat /\ y.seq \in Nat
  BY DEF Projection, Line
<1>3. x \in ReadFrom(ls, p.seq + 1)
  BY <1>1, <1>2 DEF ReadFrom
<1>4. ASSUME NEW y \in ReadFrom(ls, p.seq + 1), y.line < x.line PROVE y.seq < x.seq
  <2>1. y \in ls /\ y # x /\ y.line <= x.line
    BY <1>2, <1>4 DEF ReadFrom
  <2>2. y.seq <= x.seq /\ (y.seq = x.seq => y.seq \in odd)
    BY <2>1 DEF Climbing
  <2>3. x.seq \notin odd
    BY <1>1
  <2> QED
    BY <1>2, <2>1, <2>2, <2>3
<1>5. r = Rec(x.seq, x.ev)
  BY <1>1 DEF Rec, Record
<1> QED
  BY <1>1, <1>3, <1>4, <1>5 DEF RestoreAndReplay, Replay

\* OpenFile recovers a Seq at or above everything in the files, and the projection does
\* not end above it.
LEMMA ReadIsBounded ==
  ASSUME NEW p \in Projection, NEW ls \in SUBSET Line, NEW odd, NEW n \in Nat,
         Climbing(ls, odd), \A x \in ls : x.line < n
  PROVE  /\ RecoverSeq(p, ls) \in Nat /\ p.seq <= RecoverSeq(p, ls)
         /\ \A x \in ls : x.seq <= RecoverSeq(p, ls)
         /\ RestoreAndReplay(p, ls) \in Projection
         /\ RestoreAndReplay(p, ls).seq <= RecoverSeq(p, ls)
<1>1. p.seq \in Nat /\ \A x \in ls : x.seq \in Nat /\ x.line \in Nat /\ x.ev \in Event
  BY DEF Projection, Line
<1>2. RecoverSeq(p, ls) \in Nat /\ p.seq <= RecoverSeq(p, ls) /\ \A x \in ls : x.seq <= RecoverSeq(p, ls)
  <2>1. CASE ls = {}
    BY <1>1, <2>1 DEF RecoverSeq
  <2>2. CASE ls # {}
    <3> DEFINE S == {x.line : x \in ls}
    <3>1. S \in SUBSET (0 .. n) /\ S # {}
      BY <1>1, <2>2
    <3>2. PICK m \in S : \A y \in S : y <= m
      <4> HIDE DEF S
      <4> QED
        BY <3>1, HighestNumber
    <3>3. \E r \in ls : \A x \in ls : x.line <= r.line
      BY <3>2
    <3>4. LastLine(ls) \in ls /\ \A x \in ls : x.line <= LastLine(ls).line
      BY <3>3 DEF LastLine
    <3>5. LastLine(ls).seq \in Nat /\ \A x \in ls : x.seq <= LastLine(ls).seq
      BY <1>1, <3>4 DEF Climbing
    <3>6. RecoverSeq(p, ls) = IF p.seq > LastLine(ls).seq THEN p.seq ELSE LastLine(ls).seq
      BY <2>2 DEF RecoverSeq
    <3> QED
      BY <1>1, <3>5, <3>6
  <2> QED
    BY <2>1, <2>2
<1> DEFINE tail == ReadFrom(ls, p.seq + 1)
           T == {p.seq} \cup {r.seq : r \in tail}
           t == RecoverSeq(p, ls)
<1>3. T \in SUBSET (0 .. t) /\ T # {} /\ t \in Nat
  BY <1>1, <1>2 DEF ReadFrom
<1>4. MaxOf(T) \in T
  <2> HIDE DEF T, t
  <2>1. \E m \in T : \A y \in T : y <= m
    BY <1>3, HighestNumber
  <2> QED
    BY <2>1 DEF MaxOf
<1>5. RestoreAndReplay(p, ls).seq = MaxOf(T)
  BY DEF RestoreAndReplay, Replay
<1>6. MaxOf(T) \in 0 .. t
  <2> HIDE DEF T, t
  <2> QED
    BY <1>3, <1>4
<1>7. RestoreAndReplay(p, ls).evs \in SUBSET Record
  BY <1>1 DEF RestoreAndReplay, Replay, ReadFrom, Projection, Rec, Record
<1>8. RestoreAndReplay(p, ls) = [seq |-> RestoreAndReplay(p, ls).seq, evs |-> RestoreAndReplay(p, ls).evs]
  BY DEF RestoreAndReplay, Replay
<1>9. RestoreAndReplay(p, ls).seq \in Nat /\ RestoreAndReplay(p, ls).seq <= t
  <2> HIDE DEF T, t
  <2> QED
    BY <1>3, <1>5, <1>6
<1> QED
  BY <1>2, <1>7, <1>8, <1>9 DEF Projection

\* Lines and records may be added to what holds, and fewer asked of it.
LEMMA HoldsOn ==
  ASSUME NEW p, NEW ls, NEW ms, ls \subseteq ms, NEW records, NEW fewer, fewer \subseteq records, Holds(p, ls, records)
  PROVE  Holds(p, ms, fewer)
BY DEF Holds

\* A snapshot that has every record holds them with any log.
LEMMA HoldsAlone ==
  ASSUME NEW p, NEW ls, NEW records, records \subseteq p.evs
  PROVE  Holds(p, ls, records)
BY DEF Holds

\* A part of a log climbs, also when more is refused.
LEMMA ClimbsOn ==
  ASSUME NEW ls, NEW ms, ms \subseteq ls, NEW odd, NEW more, odd \subseteq more, Climbing(ls, odd)
  PROVE  Climbing(ms, more)
BY DEF Climbing

\* Empty files, and nothing pending.
LEMMA PowerStart == PInit => PowerInv
<1> SUFFICES ASSUME PInit PROVE PowerInv
  OBVIOUS
<1>1. PTypeOK
  BY DEF PInit, Init, PTypeOK, TypeOK, Empty, Projection
<1>2. Logs
  BY DEF PInit, Init, Logs, Climbing
<1>3. Running
  BY DEF PInit, Init, Running, Empty
<1>4. OnDisk
  BY DEF PInit, Init, OnDisk, Promised, Holds
<1> QED
  BY <1>1, <1>2, <1>3, <1>4 DEF PowerInv

\* A line goes to the end of the file and is not synced.
LEMMA PWriteInv ==
  ASSUME PowerInv, NEW e \in Event, PWrite(e)
  PROVE  PowerInv'
<1> DEFINE n == [line |-> nextLine, seq |-> fseq + 1, ev |-> e]
<1>1. /\ pc = "idle" /\ lines' = lines \cup {n} /\ nextLine' = nextLine + 1 /\ cur' = e /\ pc' = "written"
      /\ unsynced' = unsynced \cup (lines' \ lines)
      /\ UNCHANGED <<corrupt, snap, wOpen, fseq, proj, acked, snapSynced, pending, oldSnap, oldLines, snapLost, refused>>
  BY DEF PWrite, Write
<1>2. /\ lines \in SUBSET Line /\ oldLines \in SUBSET Line /\ nextLine \in Nat /\ fseq \in Nat
      /\ \A x \in lines \cup oldLines : x.line < nextLine /\ x.line \in Nat /\ x.seq \in Nat
  BY DEF PowerInv, PTypeOK, TypeOK, Logs, Line
<1>3. n \in Line /\ n.line = nextLine /\ n.seq = fseq + 1 /\ n.ev = e /\ n \notin lines
  BY <1>2 DEF Line
<1> HIDE DEF n
<1>4. PTypeOK'
  BY <1>1, <1>2, <1>3 DEF PowerInv, PTypeOK, TypeOK
<1>5. \A x \in lines : x.seq <= fseq + 1 /\ (x.seq = fseq + 1 => x.seq \in refused)
  BY <1>1, <1>2 DEF PowerInv, Running
<1>6. Logs'
  <2>1. Climbing(lines', refused')
    BY <1>1, <1>2, <1>3, <1>5 DEF PowerInv, Logs, Climbing
  <2>2. Climbing(oldLines', refused')
    BY <1>1 DEF PowerInv, Logs
  <2>3. unsynced' \subseteq lines'
    BY <1>1 DEF PowerInv, Logs
  <2>4. \A x \in lines' \cup oldLines' : x.line < nextLine'
    BY <1>1, <1>2, <1>3
  <2> QED
    BY <2>1, <2>2, <2>3, <2>4 DEF Logs
<1>7. Running'
  BY <1>1, <1>2, <1>3 DEF PowerInv, Running
<1>8. OnDisk'
  <2>1. lines' \ unsynced' = lines \ unsynced
    BY <1>1, <1>3
  <2>2. Promised' = Promised
    BY <1>1 DEF Promised
  <2> QED
    BY <1>1, <2>1, <2>2 DEF PowerInv, OnDisk
<1> QED
  BY <1>4, <1>6, <1>7, <1>8 DEF PowerInv

\* The sync: every line and every rename is on disk, and one more record is promised.
LEMMA PSyncAndApplyInv == PowerInv /\ PSyncAndApply => PowerInv'
<1> SUFFICES ASSUME PowerInv, PSyncAndApply PROVE PowerInv'
  OBVIOUS
<1> DEFINE r == Rec(fseq + 1, cur)
<1>1. /\ pc = "written" /\ fseq' = fseq + 1 /\ proj' = Apply(proj, r) /\ acked' = acked \cup {r} /\ pc' = "idle"
      /\ unsynced' = {} /\ pending' = {} /\ oldSnap' = Empty /\ oldLines' = {}
      /\ UNCHANGED <<lines, nextLine, corrupt, snap, wOpen, cur, snapSynced, snapLost, refused>>
  BY DEF PSyncAndApply, SyncAndApply, CommitJournal
<1>2. /\ fseq \in Nat /\ cur \in Event /\ proj \in Projection /\ proj.seq \in Nat /\ proj.seq <= fseq
      /\ lines \in SUBSET Line /\ snap.seq \in Nat /\ snap.seq <= fseq
      /\ \A x \in lines : x.seq \in Nat
  BY <1>1 DEF PowerInv, PTypeOK, TypeOK, Running, Projection, Line
<1>3. r \in Record /\ r.seq = fseq + 1 /\ r.ev = cur
  BY <1>2 DEF Rec, Record
<1>4. proj' = [seq |-> fseq + 1, evs |-> proj.evs \cup {r}]
  BY <1>1, <1>2, <1>3 DEF Apply, Rec
<1> HIDE DEF r
<1>5. PTypeOK'
  <2>1. proj' \in Projection
    BY <1>2, <1>3, <1>4 DEF Projection
  <2>2. Empty \in Projection
    BY DEF Empty, Projection
  <2> QED
    BY <1>1, <1>2, <1>3, <2>1, <2>2 DEF PowerInv, PTypeOK, TypeOK
<1>6. Logs'
  BY <1>1 DEF PowerInv, Logs, Climbing
<1>7. Running'
  <2>1. proj'.seq = fseq + 1
    BY <1>4
  <2> QED
    BY <1>1, <1>2, <2>1 DEF PowerInv, Running
<1>8. OnDisk'
  <2> SUFFICES ASSUME ~snapLost, ~corrupt PROVE Promised' \subseteq proj'.evs /\ Holds(snap, lines \ {}, Promised')
    BY <1>1 DEF OnDisk
  <2>1. Promised \subseteq proj.evs /\ Holds(snap, lines \ unsynced, Promised)
    BY <1>1 DEF PowerInv, OnDisk
  <2>2. Promised' \subseteq Promised \cup {r}
    BY <1>1 DEF Promised
  <2>3. Holds(snap, lines, Promised)
    BY <2>1, HoldsOn
  <2>4. PICK x \in lines : x.seq = fseq + 1 /\ x.ev = cur
    BY <1>1 DEF PowerInv, Running
  <2>5. x.seq = r.seq /\ x.ev = r.ev /\ snap.seq < x.seq
    BY <1>2, <1>3, <2>4
  <2>6. Holds(snap, lines \ {}, Promised')
    BY <2>2, <2>3, <2>5 DEF Holds
  <2>7. proj'.evs = proj.evs \cup {r}
    BY <1>4
  <2> QED
    BY <2>1, <2>2, <2>6, <2>7
<1> QED
  BY <1>5, <1>6, <1>7, <1>8 DEF PowerInv

\* The snapshot is the live projection, which has everything that was promised.
LEMMA PCompactSnapshotInv == PowerInv /\ PCompactSnapshot => PowerInv'
<1> SUFFICES ASSUME PowerInv, PCompactSnapshot PROVE PowerInv'
  OBVIOUS
<1>1. /\ pc = "idle" /\ snap' = proj /\ pc' = "snapped" /\ snapSynced' = FALSE
      /\ oldSnap' = IF "snap" \in pending THEN oldSnap ELSE snap
      /\ pending' = pending \cup {"snap"}
      /\ UNCHANGED <<lines, nextLine, corrupt, wOpen, fseq, proj, cur, acked, unsynced, oldLines, snapLost, refused>>
  BY DEF PCompactSnapshot, CompactSnapshot
<1>2. PTypeOK'
  BY <1>1 DEF PowerInv, PTypeOK, TypeOK
<1>3. Logs'
  BY <1>1 DEF PowerInv, Logs
<1>4. Running'
  BY <1>1 DEF PowerInv, Running
<1>5. OnDisk'
  <2> SUFFICES ASSUME ~snapLost, ~corrupt
               PROVE  /\ Promised \subseteq proj.evs
                      /\ Holds(proj, lines \ unsynced, Promised)
                      /\ Holds(proj, oldLines, Promised)
                      /\ Holds(oldSnap', IF "log" \in pending THEN oldLines ELSE lines \ unsynced, Promised)
    BY <1>1 DEF OnDisk, Promised
  <2>1. Promised \subseteq proj.evs
    BY <1>1 DEF PowerInv, OnDisk
  <2>2. Holds(oldSnap', IF "log" \in pending THEN oldLines ELSE lines \ unsynced, Promised)
    BY <1>1 DEF PowerInv, OnDisk
  <2> QED
    BY <2>1, <2>2, HoldsAlone
<1> QED
  BY <1>2, <1>3, <1>4, <1>5 DEF PowerInv

\* The log may lose what the snapshot covers, for the snapshot has everything.
LEMMA PCompactRewriteInv ==
  ASSUME PowerInv, NEW b \in BOOLEAN, PCompactRewrite(b)
  PROVE  PowerInv'
<1>1. /\ pc = "snapped" /\ lines' \subseteq lines /\ wOpen' = b /\ pc' = "idle"
      /\ unsynced' = lines' /\ oldLines' = (IF "log" \in pending THEN oldLines ELSE lines)
      /\ pending' = pending \cup {"log"}
      /\ UNCHANGED <<nextLine, corrupt, snap, fseq, proj, cur, acked, snapSynced, oldSnap, snapLost, refused>>
  BY DEF PCompactRewrite, CompactRewrite
<1>2. PTypeOK'
  BY <1>1 DEF PowerInv, PTypeOK, TypeOK
<1>3. Logs'
  <2>1. Climbing(lines', refused')
    BY <1>1, ClimbsOn DEF PowerInv, Logs
  <2>2. Climbing(oldLines', refused')
    BY <1>1 DEF PowerInv, Logs
  <2>3. \A x \in lines' \cup oldLines' : x.line < nextLine'
    BY <1>1 DEF PowerInv, Logs
  <2> QED
    BY <1>1, <2>1, <2>2, <2>3 DEF Logs
<1>4. Running'
  BY <1>1 DEF PowerInv, Running
<1>5. OnDisk'
  <2> SUFFICES ASSUME ~snapLost, ~corrupt
               PROVE  /\ Promised \subseteq proj.evs
                      /\ Holds(snap, lines' \ unsynced', Promised)
                      /\ Holds(snap, oldLines', Promised)
                      /\ "snap" \in pending => Holds(oldSnap, oldLines', Promised)
    BY <1>1 DEF OnDisk, Promised
  <2>1. Promised \subseteq proj.evs /\ Promised \subseteq snap.evs
    BY <1>1 DEF PowerInv, OnDisk, Running
  <2>2. ASSUME "snap" \in pending PROVE Holds(oldSnap, oldLines', Promised)
    <3>1. CASE "log" \in pending
      BY <1>1, <2>2, <3>1 DEF PowerInv, OnDisk
    <3>2. CASE "log" \notin pending
      <4>1. Holds(oldSnap, lines \ unsynced, Promised)
        BY <2>2, <3>2 DEF PowerInv, OnDisk
      <4> QED
        BY <1>1, <3>2, <4>1, HoldsOn
    <3> QED
      BY <3>1, <3>2
  <2> QED
    BY <2>1, <2>2, HoldsAlone
<1> QED
  BY <1>2, <1>3, <1>4, <1>5 DEF PowerInv

\* OpenFile reads everything back, from whatever mix of the files it finds.
LEMMA PReopenInv == PowerInv /\ PReopen => PowerInv'
<1> SUFFICES ASSUME PowerInv, PReopen PROVE PowerInv'
  OBVIOUS
<1>1. /\ pc = "down" /\ ~corrupt /\ fseq' = OpenSeq /\ proj' = OpenProjection /\ wOpen' = TRUE /\ pc' = "idle"
      /\ UNCHANGED <<lines, nextLine, corrupt, snap, cur, acked, unsynced, snapSynced, pending, oldSnap, oldLines, snapLost, refused>>
  BY DEF PReopen, Reopen, diskVars
<1>2. /\ snap \in Projection /\ lines \in SUBSET Line /\ nextLine \in Nat
      /\ Climbing(lines, refused) /\ \A x \in lines : x.line < nextLine
  BY DEF PowerInv, PTypeOK, TypeOK, Logs
<1>3. /\ OpenSeq \in Nat /\ snap.seq <= OpenSeq /\ \A x \in lines : x.seq <= OpenSeq
      /\ OpenProjection \in Projection /\ OpenProjection.seq <= OpenSeq
  BY <1>2, ReadIsBounded DEF OpenSeq, OpenProjection
<1>4. PTypeOK'
  BY <1>1, <1>3 DEF PowerInv, PTypeOK, TypeOK
<1>5. Logs'
  BY <1>1 DEF PowerInv, Logs
<1>6. Running'
  BY <1>1, <1>3 DEF Running
<1>7. OnDisk'
  <2>1. ASSUME ~snapLost PROVE Promised \subseteq OpenProjection.evs
    <3>1. Holds(snap, lines \ unsynced, Promised)
      BY <1>1, <2>1 DEF PowerInv, OnDisk
    <3>2. Holds(snap, lines, Promised)
      BY <3>1, HoldsOn
    <3>3. Promised \in SUBSET Record /\ \A r \in Promised : r.seq \notin refused
      BY DEF Promised, PowerInv, PTypeOK, TypeOK
    <3> QED
      BY <1>2, <3>2, <3>3, HeldIsRead DEF OpenProjection
  <2>2. Promised' = Promised
    BY <1>1 DEF Promised
  <2> QED
    BY <1>1, <2>1, <2>2 DEF PowerInv, OnDisk
<1> QED
  BY <1>4, <1>5, <1>6, <1>7 DEF PowerInv

\* A refused line keeps its place, and its Seq is the one that may be given again.
LEMMA RefusalInv ==
  ASSUME PowerInv, PSyncFails \/ \E e \in Event : PWriteTorn(e)
  PROVE  PowerInv'
<1> DEFINE Change ==
             /\ refused = {} /\ refused' = {fseq + 1} /\ pc' = "idle" /\ pc \in {"idle", "written"}
             /\ cur' \in Event /\ corrupt' \in BOOLEAN /\ (corrupt => corrupt')
             /\ UNCHANGED <<lines, nextLine, snap, wOpen, fseq, proj, acked, unsynced, snapSynced, pending, oldSnap, oldLines, snapLost>>
<1>1. Change
  <2>1. CASE PSyncFails
    BY <2>1 DEF PSyncFails, SyncFails, PowerInv, PTypeOK, TypeOK
  <2>2. ASSUME NEW e \in Event, PWriteTorn(e) PROVE Change
    BY <2>2 DEF PWriteTorn, WriteTorn, PowerInv, PTypeOK, TypeOK
  <2> QED
    BY <2>1, <2>2
<1>2. PTypeOK'
  BY <1>1 DEF PowerInv, PTypeOK, TypeOK
<1>3. Logs'
  <2>1. Climbing(lines', refused') /\ Climbing(oldLines', refused')
    BY <1>1, ClimbsOn DEF PowerInv, Logs
  <2> QED
    BY <1>1, <2>1 DEF PowerInv, Logs
<1>4. Running'
  BY <1>1 DEF PowerInv, Running
<1>5. OnDisk'
  <2>1. Promised' \subseteq Promised
    BY <1>1 DEF Promised
  <2> SUFFICES ASSUME ~snapLost', ~corrupt' PROVE OnDisk!2'
    BY DEF OnDisk
  <2>2. OnDisk!2
    BY <1>1 DEF PowerInv, OnDisk
  <2>3. Holds(snap, lines \ unsynced, Promised')
    BY <2>1, <2>2, HoldsOn
  <2>4. "log" \in pending => Holds(snap, oldLines, Promised')
    BY <2>1, <2>2, HoldsOn
  <2>5. "snap" \in pending => Holds(oldSnap, IF "log" \in pending THEN oldLines ELSE lines \ unsynced, Promised')
    BY <2>1, <2>2, HoldsOn
  <2> QED
    BY <1>1, <2>1, <2>2, <2>3, <2>4, <2>5
<1> QED
  BY <1>2, <1>3, <1>4, <1>5 DEF PowerInv

\* Steps that touch neither the files nor what is on disk, and the kernel's writeback.
LEMMA QuietInv ==
  ASSUME PowerInv, PCompactAbort \/ PCrash \/ Writeback \/ UNCHANGED pvars
  PROVE  PowerInv'
<1>1. CASE PCompactAbort
  <2>1. pc = "snapped" /\ pc' = "idle"
        /\ UNCHANGED <<lines, nextLine, corrupt, snap, wOpen, fseq, proj, cur, acked, unsynced, snapSynced, pending, oldSnap, oldLines, snapLost, refused>>
    BY <1>1 DEF PCompactAbort, CompactAbort, diskVars
  <2> QED
    BY <2>1 DEF PowerInv, PTypeOK, TypeOK, Logs, Running, OnDisk, Promised
<1>2. CASE PCrash
  <2>1. pc' = "down" /\ wOpen' = FALSE /\ fseq' = 0 /\ proj' = Empty
        /\ UNCHANGED <<lines, nextLine, corrupt, snap, cur, acked, unsynced, snapSynced, pending, oldSnap, oldLines, snapLost, refused>>
    BY <1>2 DEF PCrash, Crash, diskVars
  <2>2. Empty \in Projection
    BY DEF Empty, Projection
  <2> QED
    BY <2>1, <2>2 DEF PowerInv, PTypeOK, TypeOK, Logs, Running, OnDisk, Promised
<1>3. CASE Writeback
  <2>1. /\ unsynced' = {} /\ snapSynced' = TRUE /\ pending' = {} /\ oldSnap' = Empty /\ oldLines' = {}
        /\ UNCHANGED <<lines, nextLine, corrupt, snap, wOpen, fseq, proj, pc, cur, acked, snapLost, refused>>
    BY <1>3 DEF Writeback, CommitJournal, vars
  <2>2. Empty \in Projection
    BY DEF Empty, Projection
  <2>3. PTypeOK'
    BY <2>1, <2>2 DEF PowerInv, PTypeOK, TypeOK
  <2>4. Logs' /\ Running'
    BY <2>1 DEF PowerInv, Logs, Running, Climbing
  <2>5. OnDisk'
    <3>1. ASSUME ~snapLost, ~corrupt PROVE Holds(snap, lines \ {}, Promised)
      <4>1. Holds(snap, lines \ unsynced, Promised)
        BY <3>1 DEF PowerInv, OnDisk
      <4> QED
        BY <4>1, HoldsOn
    <3>2. Promised' = Promised
      BY <2>1 DEF Promised
    <3> QED
      BY <2>1, <3>1, <3>2 DEF PowerInv, OnDisk
  <2> QED
    BY <2>3, <2>4, <2>5 DEF PowerInv
<1>4. CASE UNCHANGED pvars
  BY <1>4 DEF pvars, vars, diskVars, PowerInv, PTypeOK, TypeOK, Logs, Running, OnDisk, Promised
<1> QED
  BY <1>1, <1>2, <1>3, <1>4

\* The place of the next line is above every line that is left.
LEMMA NextLineIsFree ==
  ASSUME NEW ls \in SUBSET Line, NEW n \in Nat, \A x \in ls : x.line < n
  PROVE  LET top == MaxOf({0} \cup {x.line : x \in ls})
         IN  top \in Nat /\ \A x \in ls : x.line < top + 1
<1> DEFINE S == {0} \cup {x.line : x \in ls}
<1>1. \A x \in ls : x.line \in Nat /\ x.line \in S
  BY DEF Line
<1>2. S \in SUBSET (0 .. n) /\ S # {}
  BY <1>1
<1> HIDE DEF S
<1>3. \E m \in S : \A y \in S : y <= m
  BY <1>2, HighestNumber
<1>4. MaxOf(S) \in S /\ \A y \in S : y <= MaxOf(S)
  BY <1>3 DEF MaxOf
<1>5. MaxOf(S) \in Nat
  <2>1. \A y \in S : y \in Nat
    BY <1>2
  <2> QED
    BY <1>4, <2>1
<1>6. \A x \in ls : x.line < MaxOf(S) + 1
  BY <1>1, <1>4, <1>5
<1> QED
  BY <1>5, <1>6 DEF S

\* Whichever renames were committed, and however much of the tail was flushed.
LEMMA PowerLossInv == PowerInv /\ PowerLoss => PowerInv'
<1> SUFFICES ASSUME PowerInv, PowerLoss PROVE PowerInv'
  OBVIOUS
<1>1. PICK done \in CommittedRenames, keep \in SUBSET unsynced, good \in BOOLEAN :
        /\ lines' = IF "log" \in pending \ done THEN oldLines
                    ELSE (lines \ unsynced) \cup keep
        /\ snap' = IF "snap" \in pending \ done THEN oldSnap
                   ELSE IF good THEN snap ELSE Empty
        /\ snapLost' = (snapLost \/ (~good /\ "snap" \notin pending \ done))
        /\ pc' = "down" /\ wOpen' = FALSE /\ fseq' = 0 /\ proj' = Empty
        /\ nextLine' = MaxOf({0} \cup {x.line : x \in lines'}) + 1
        /\ unsynced' = {} /\ snapSynced' = TRUE
        /\ pending' = {} /\ oldSnap' = Empty /\ oldLines' = {}
        /\ UNCHANGED <<corrupt, cur, acked, refused>>
  BY DEF PowerLoss, CommitJournal
<1>2. done \subseteq pending /\ ("log" \in done => pending \subseteq done)
  BY DEF CommittedRenames
<1>3. /\ lines \in SUBSET Line /\ oldLines \in SUBSET Line /\ nextLine \in Nat /\ unsynced \subseteq lines
      /\ Climbing(lines, refused) /\ Climbing(oldLines, refused)
      /\ \A x \in lines \cup oldLines : x.line < nextLine
  BY DEF PowerInv, PTypeOK, TypeOK, Logs
<1>4. lines' \subseteq lines \/ lines' = oldLines
  BY <1>1, <1>3
<1>5. lines' \in SUBSET Line /\ Climbing(lines', refused) /\ \A x \in lines' : x.line < nextLine
  BY <1>3, <1>4, ClimbsOn
<1>6. nextLine' \in Nat /\ \A x \in lines' : x.line < nextLine'
  <2>1. MaxOf({0} \cup {x.line : x \in lines'}) \in Nat
        /\ \A x \in lines' : x.line < MaxOf({0} \cup {z.line : z \in lines'}) + 1
    BY <1>3, <1>5, NextLineIsFree
  <2> QED
    BY <1>1, <2>1
<1>7. Empty \in Projection
  BY DEF Empty, Projection
<1>8. PTypeOK'
  <2>1. snap' \in Projection
    BY <1>1, <1>7 DEF PowerInv, PTypeOK, TypeOK
  <2>2. snapLost' \in BOOLEAN
    BY <1>1
  <2> QED
    BY <1>1, <1>5, <1>6, <1>7, <2>1, <2>2 DEF PowerInv, PTypeOK, TypeOK
<1>9. Logs'
  BY <1>1, <1>5, <1>6 DEF Logs, Climbing
<1>10. Running'
  BY <1>1 DEF Running
<1>11. OnDisk'
  <2>1. Promised' = Promised
    BY <1>1 DEF Promised
  <2> SUFFICES ASSUME ~snapLost', ~corrupt PROVE Holds(snap', lines', Promised)
    <3>1. lines' \ unsynced' = lines'
      BY <1>1
    <3> QED
      BY <1>1, <2>1, <3>1 DEF OnDisk
  <2>2. ~snapLost /\ (good \/ "snap" \in pending \ done)
    BY <1>1
  <2>3. /\ Holds(snap, lines \ unsynced, Promised)
        /\ "log" \in pending => Holds(snap, oldLines, Promised)
        /\ "snap" \in pending => Holds(oldSnap, IF "log" \in pending THEN oldLines ELSE lines \ unsynced, Promised)
    BY <2>2 DEF PowerInv, OnDisk
  <2>4. CASE "log" \in pending \ done
    BY <1>1, <2>2, <2>3, <2>4
  <2>5. CASE "log" \notin pending \ done
    <3>1. lines \ unsynced \subseteq lines'
      BY <1>1, <2>5
    <3>2. Holds(snap', lines \ unsynced, Promised)
      BY <1>1, <1>2, <2>2, <2>3, <2>5
    <3> QED
      BY <3>1, <3>2, HoldsOn
  <2> QED
    BY <2>4, <2>5
<1> QED
  BY <1>8, <1>9, <1>10, <1>11 DEF PowerInv

\* The files, as the kernel and as the disk hold them, are always enough for what
\* Append promised, whatever the disk refuses and whenever the power goes.
THEOREM PowerInvariant == PSpec => []PowerInv
<1>1. PowerInv /\ [PNext]_pvars => PowerInv'
  <2> SUFFICES ASSUME PowerInv, [PNext]_pvars PROVE PowerInv'
    OBVIOUS
  <2>1. ASSUME NEW e \in Event, PWrite(e) PROVE PowerInv'
    BY <2>1, PWriteInv
  <2>2. ASSUME NEW b \in BOOLEAN, PCompactRewrite(b) PROVE PowerInv'
    BY <2>2, PCompactRewriteInv
  <2>3. CASE PSyncAndApply
    BY <2>3, PSyncAndApplyInv
  <2>4. CASE PCompactSnapshot
    BY <2>4, PCompactSnapshotInv
  <2>5. CASE PReopen
    BY <2>5, PReopenInv
  <2>6. CASE PSyncFails \/ \E e \in Event : PWriteTorn(e)
    BY <2>6, RefusalInv
  <2>7. CASE PCompactAbort \/ PCrash \/ Writeback \/ UNCHANGED pvars
    BY <2>7, QuietInv
  <2>8. CASE PowerLoss
    BY <2>8, PowerLossInv
  <2> QED
    BY <2>1, <2>2, <2>3, <2>4, <2>5, <2>6, <2>7, <2>8 DEF PNext
<1> QED
  BY PowerStart, <1>1, PTL DEF PSpec

\* Append's durability on a disk that refuses writes and loses power: a record that was
\* acknowledged, and whose Seq no refused line had, is read back after any number of
\* power losses, refusals, crashes and compactions, as long as no power loss tears a
\* snapshot and no write is torn.
THEOREM AckedSurvivesPowerLoss == PSpec => []AckedUnlessSnapLost
<1>1. ASSUME PowerInv PROVE AckedUnlessSnapLost
  <2> SUFFICES ASSUME ~snapLost, ~corrupt PROVE Promised \subseteq OpenProjection.evs
    BY DEF AckedUnlessSnapLost, AckedUnlessRefused, Recoverable, Promised
  <2>1. Holds(snap, lines \ unsynced, Promised)
    BY <1>1 DEF PowerInv, OnDisk
  <2>2. Holds(snap, lines, Promised)
    BY <2>1, HoldsOn
  <2>3. /\ Promised \in SUBSET Record /\ \A r \in Promised : r.seq \notin refused
        /\ snap \in Projection /\ lines \in SUBSET Line /\ Climbing(lines, refused)
    BY <1>1 DEF Promised, PowerInv, PTypeOK, TypeOK, Logs
  <2> QED
    BY <2>2, <2>3, HeldIsRead DEF OpenProjection
<1> QED
  BY PowerInvariant, <1>1, PTL
=============================================================================
