--------------------------- MODULE AuditChainProofs ---------------------------
(***************************************************************************)
(* Proofs about AuditChain for any number of processes, events and         *)
(* failures.                                                               *)
(***************************************************************************)
EXTENDS AuditChain, TLAPS

(* A line is a line and a digest a hash.                                   *)
LEMMA LineTypes ==
  /\ Garbage \in Line
  /\ Genesis \in Hash
  /\ \A p \in Hash, n \in Nat, e \in Event :
       /\ Digest(p, n, e) \in Hash
       /\ Linked(p, n, e) \in Line
BY DEF Garbage, Line, Genesis, Hash, Event, Digest, Linked

(* Appending to a file whose last line has ended keeps the lines there.    *)
LEMMA AppendedLines ==
  ASSUME NEW f \in Seq(Line), NEW line \in Line, ~unended
  PROVE  /\ Appended(f, line) \in Seq(Line)
         /\ Len(Appended(f, line)) = Len(f) + 1
         /\ \A i \in 1..Len(f) : Appended(f, line)[i] = f[i]
         /\ Appended(f, line)[Len(f) + 1] = line
BY DEF Appended

(* Appending to an unended line spoils it.                                 *)
LEMMA AppendedSpoils ==
  ASSUME NEW f \in Seq(Line), f # <<>>, NEW line \in Line, unended
  PROVE  /\ Appended(f, line) \in Seq(Line)
         /\ Len(Appended(f, line)) = Len(f)
         /\ ~Verifies(Appended(f, line))
<1>1. Garbage \in Line
  BY LineTypes
<1>2. Len(f) \in 1..Len(f)
  OBVIOUS
<1>3. /\ Appended(f, line) \in Seq(Line)
      /\ Len(Appended(f, line)) = Len(f)
      /\ Appended(f, line)[Len(f)] = Garbage
  BY <1>1, <1>2 DEF Appended
<1>4. ~Garbage.json
  BY DEF Garbage
<1>5. ~LineVerifies(Appended(f, line), Len(f))
  BY <1>3, <1>4 DEF LineVerifies
<1>6. QED
  BY <1>2, <1>3, <1>5 DEF Verifies

(* A longer file verifies exactly when its part does and the new line      *)
(* links to it.                                                            *)
LEMMA VerifiesLonger ==
  ASSUME NEW f \in Seq(Line), NEW g \in Seq(Line), Len(g) = Len(f) + 1,
         \A i \in 1..Len(f) : g[i] = f[i]
  PROVE  /\ TipBefore(g, Len(g)) = TipBefore(f, Len(f) + 1)
         /\ Verifies(g) <=> Verifies(f) /\ LineVerifies(g, Len(g))
<1>1. \A i \in 1..(Len(f) + 1) : TipBefore(g, i) = TipBefore(f, i)
  BY DEF TipBefore
<1>2. \A i \in 1..Len(f) : LineVerifies(g, i) <=> LineVerifies(f, i)
  BY <1>1 DEF LineVerifies
<1>3. 1..Len(g) = 1..Len(f) \cup {Len(g)}
  OBVIOUS
<1>4. QED
  BY <1>1, <1>2, <1>3 DEF Verifies

-----------------------------------------------------------------------------
(* The line the writer is about to append is a line.                       *)
LEMMA NextLineType ==
  ASSUME TypeOK
  PROVE  NextLine \in Line /\ NextLine.hash \in Hash
<1>1. <<run, taken + 1>> \in Event /\ seq + 1 \in Nat /\ prev \in Hash
  BY DEF TypeOK, Event
<1>2. NextLine \in Line
  BY <1>1, LineTypes DEF NextLine
<1>3. QED
  BY <1>2 DEF Line

(* Every variable keeps its type.                                          *)
LEMMA TypeStep ==
  ASSUME TypeOK, unended => file # <<>>, [Next]_vars
  PROVE  TypeOK'
<1>1. CASE UNCHANGED vars
  BY <1>1 DEF vars, TypeOK
<1>2. ASSUME NEW w \in {"up", "gone"}, Open(w)
      PROVE  TypeOK'
  <2>1. file # <<>> => file[Len(file)] \in Line
    BY DEF TypeOK
  <2>2. RecoveredSeq(file) \in Nat
    BY <2>1 DEF RecoveredSeq, Line
  <2>3. RecoveredHash(file) \in Hash
    BY <2>1, LineTypes DEF RecoveredHash, Line
  <2>4. QED
    BY <1>2, <2>2, <2>3 DEF TypeOK, Open
<1>3. CASE Log \/ LogStopped \/ Exit \/ Crash
  BY <1>3 DEF TypeOK, Log, LogStopped, Exit, Crash
<1>4. ASSUME Advance
      PROVE  /\ taken' \in Nat /\ seq' \in Nat /\ prev' \in Hash
             /\ writer' \in {"down", "up", "gone"}
             /\ run' \in Nat /\ sent' \in Nat /\ farewell' \in Nat
  BY <1>4, NextLineType DEF TypeOK, Advance
<1>5. ASSUME NEW line \in Line, file' = Appended(file, line)
      PROVE  file' \in Seq(Line)
  <2>1. CASE unended
    BY <1>5, <2>1, AppendedSpoils DEF TypeOK
  <2>2. CASE ~unended
    BY <1>5, <2>2 DEF Appended, TypeOK
  <2>3. QED
    BY <2>1, <2>2
<1>6. CASE Write
  BY <1>4, <1>5, <1>6, NextLineType DEF TypeOK, Write
<1>7. CASE WriteFails
  BY <1>4, <1>7 DEF TypeOK, WriteFails
<1>8. CASE WriteTears
  BY <1>4, <1>5, <1>8, NextLineType, LineTypes DEF TypeOK, WriteTears
<1>9. QED
  BY <1>1, <1>2, <1>3, <1>6, <1>7, <1>8 DEF Next

(* The part of the invariant about the file and its writer.                *)
FileInv == WriterInv /\ CleanChainVerifies /\ NoSilentGap

(* A process that opens a verifying file resumes exactly at its end.       *)
LEMMA OpenStep ==
  ASSUME TypeOK, FileInv, NEW w \in {"up", "gone"}, Open(w)
  PROVE  FileInv'
<1>1. /\ file' = file /\ unended' = unended /\ taken' = 0 /\ sent' = 0
      /\ seq' = RecoveredSeq(file) /\ prev' = RecoveredHash(file)
  BY DEF Open
<1>2. Len(file) \in Nat /\ (file # <<>> => Len(file) \in 1..Len(file) /\ Len(file) > 0)
  BY DEF TypeOK
<1>3. RecoveredHash(file) = TipBefore(file, Len(file) + 1)
  BY <1>2 DEF RecoveredHash, TipBefore, TypeOK
<1>4. Verifies(file) => RecoveredSeq(file) = Len(file)
  BY <1>2 DEF Verifies, LineVerifies, RecoveredSeq, TypeOK
<1>5. TakenWritten'
  BY <1>1 DEF TakenWritten
<1>6. failures' = 0 => failures = 0
  BY DEF Open, TypeOK
<1>7. Verifies(file') <=> Verifies(file)
  BY <1>1
<1>8. Verifies(file) /\ ~unended => InStep'
  BY <1>1, <1>3, <1>4 DEF InStep
<1>9. WriterInv'
  BY <1>1, <1>5, <1>6, <1>7, <1>8 DEF WriterInv, FileInv, CleanChainVerifies, TypeOK
<1>10. NoSilentGap'
  BY <1>1 DEF FileInv, NoSilentGap, Verifies, LineVerifies, TipBefore
<1>11. CleanChainVerifies'
  BY <1>1, <1>6, <1>7 DEF FileInv, CleanChainVerifies
<1>12. QED
  BY <1>9, <1>10, <1>11 DEF FileInv

(* Steps that touch neither the file nor the writer's place in it.         *)
LEMMA QuietStep ==
  ASSUME TypeOK, FileInv, UNCHANGED <<run, taken, seq, prev, file, unended, failures>>,
         writer' \in {writer, "down"}, sent' \in {sent, sent + 1}
  PROVE  FileInv'
<1>1. Verifies(file') <=> Verifies(file)
  OBVIOUS
<1>2. InStep' <=> InStep
  BY DEF InStep
<1>3. TakenWritten' <=> TakenWritten
  BY DEF TakenWritten
<1>4. WriterInv'
  BY <1>1, <1>2, <1>3 DEF WriterInv, FileInv, TypeOK
<1>5. NoSilentGap' /\ CleanChainVerifies'
  BY <1>1 DEF FileInv, NoSilentGap, CleanChainVerifies
<1>6. QED
  BY <1>4, <1>5 DEF FileInv

(* A failed append leaves the writer ahead of its file.                    *)
LEMMA FailStep ==
  ASSUME TypeOK, FileInv, WriteFails
  PROVE  FileInv'
<1>1. /\ file' = file /\ unended' = unended /\ failures' = failures + 1
      /\ seq' = seq + 1 /\ taken' = taken + 1 /\ taken < sent /\ sent' = sent
      /\ writer = "up"
  BY DEF WriteFails, Advance
<1>2. failures' # 0
  BY <1>1 DEF TypeOK
<1>3. Verifies(file) => seq' > Len(file') \/ unended'
  <2>1. Len(file) \in Nat /\ seq \in Nat
    BY DEF TypeOK
  <2>2. Verifies(file) => seq = Len(file) \/ seq > Len(file) \/ unended
    BY <1>1 DEF FileInv, WriterInv, InStep
  <2>3. QED
    BY <1>1, <2>1, <2>2
<1>4. Verifies(file') <=> Verifies(file)
  BY <1>1
<1>5. WriterInv'
  BY <1>1, <1>2, <1>3, <1>4 DEF WriterInv, FileInv, TypeOK
<1>6. NoSilentGap'
  BY <1>1, <1>4 DEF FileInv, NoSilentGap
<1>7. CleanChainVerifies'
  BY <1>2 DEF CleanChainVerifies
<1>8. QED
  BY <1>5, <1>6, <1>7 DEF FileInv

(* An append behind an unended line makes a file that does not verify.     *)
LEMMA SpoilStep ==
  ASSUME TypeOK, FileInv, unended, Advance, NEW line \in Line,
         file' = Appended(file, line), failures' \in {failures, failures + 1}
  PROVE  FileInv'
<1>1. file \in Seq(Line) /\ file # <<>>
  BY DEF TypeOK, FileInv, WriterInv
<1>2. ~Verifies(file') /\ Len(file') = Len(file) /\ file' \in Seq(Line)
  BY <1>1, AppendedSpoils
<1>3. file' # <<>>
  BY <1>1, <1>2
<1>4. failures' # 0
  BY DEF FileInv, WriterInv, TypeOK
<1>5. taken' <= sent'
  BY DEF Advance, TypeOK
<1>6. QED
  BY <1>2, <1>3, <1>4, <1>5 DEF FileInv, WriterInv, NoSilentGap, CleanChainVerifies

(* An append at the end of a file whose lines have all ended.              *)
LEMMA ExtendStep ==
  ASSUME TypeOK, FileInv, ~unended, Advance, NEW line \in {NextLine, Garbage},
         file' = Appended(file, line),
         \/ line = NextLine /\ ~unended' /\ failures' = failures
         \/ unended' /\ failures' = failures + 1
  PROVE  FileInv'
<1> DEFINE n == Len(file)
<1>1. file \in Seq(Line) /\ n \in Nat /\ seq \in Nat /\ taken \in Nat /\ failures \in Nat
  BY DEF TypeOK
<1>2. /\ writer = "up" /\ taken < sent /\ taken' = taken + 1 /\ sent' = sent /\ run' = run
      /\ seq' = seq + 1 /\ prev' = NextLine.hash
  BY DEF Advance
<1>3. line \in Line
  BY LineTypes, NextLineType
<1>4. /\ file' \in Seq(Line) /\ Len(file') = n + 1
      /\ \A i \in 1..n : file'[i] = file[i]
      /\ file'[n + 1] = line
  BY <1>1, <1>3, AppendedLines
<1>5. /\ TipBefore(file', n + 1) = TipBefore(file, n + 1)
      /\ Verifies(file') <=> Verifies(file) /\ LineVerifies(file', n + 1)
  BY <1>1, <1>4, VerifiesLonger
<1>6. /\ NextLine.json /\ NextLine.seq = seq + 1 /\ NextLine.prev = prev
      /\ NextLine.event = <<run, taken + 1>>
      /\ NextLine.hash = Digest(prev, seq + 1, <<run, taken + 1>>)
  BY DEF NextLine, Linked
<1>7. Verifies(file') => line = NextLine /\ Verifies(file) /\ InStep /\ TakenWritten
  <2>1. SUFFICES ASSUME Verifies(file')
                 PROVE  line = NextLine /\ Verifies(file) /\ InStep /\ TakenWritten
    OBVIOUS
  <2>2. line.json /\ line.seq = n + 1
    BY <1>4, <1>5, <2>1 DEF LineVerifies
  <2>3. line = NextLine
    BY <2>2 DEF Garbage
  <2>4. seq = n
    BY <1>1, <1>6, <2>2, <2>3
  <2>5. QED
    BY <1>1, <1>2, <1>5, <2>1, <2>3, <2>4 DEF FileInv, WriterInv
<1>8. InStep /\ line = NextLine => seq' = Len(file') /\ prev' = TipBefore(file', Len(file') + 1)
  BY <1>1, <1>2, <1>4 DEF InStep, TipBefore
<1>9. Verifies(file') => TakenWritten'
  <2>1. SUFFICES ASSUME Verifies(file'), NEW k \in 1..(taken + 1)
                 PROVE  \E j \in 1..(n + 1) : file'[j].event = <<run, k>>
    BY <1>2, <1>4 DEF TakenWritten
  <2>2. CASE k = taken + 1
    BY <1>1, <1>4, <1>6, <1>7, <2>1, <2>2
  <2>3. CASE k \in 1..taken
    <3>1. PICK j \in 1..n : file[j].event = <<run, k>>
      BY <1>7, <2>1, <2>3 DEF TakenWritten
    <3>2. file'[j].event = <<run, k>> /\ j \in 1..(n + 1)
      BY <1>1, <1>4, <3>1
    <3>3. QED
      BY <3>2
  <2>4. QED
    BY <1>1, <2>2, <2>3
<1>10. failures' = 0 => line = NextLine /\ ~unended' /\ failures = 0 /\ InStep
  BY <1>1, <1>2 DEF FileInv, WriterInv
<1>11. WriterInv'
  <2>1. unended' => file' # <<>>
    BY <1>1, <1>4
  <2>2. failures' = 0 => ~unended' /\ InStep'
    BY <1>8, <1>10 DEF InStep
  <2>3. Verifies(file') => (InStep' /\ TakenWritten') \/ unended'
    BY <1>7, <1>8, <1>9 DEF InStep
  <2>4. QED
    BY <1>1, <1>2, <2>1, <2>2, <2>3 DEF WriterInv, TypeOK
<1>12. CleanChainVerifies'
  <2>1. SUFFICES ASSUME failures' = 0
                 PROVE  Verifies(file')
    BY DEF CleanChainVerifies
  <2>2. Verifies(file) /\ InStep /\ line = NextLine
    BY <1>10, <2>1 DEF FileInv, CleanChainVerifies
  <2>3. LineVerifies(file', n + 1)
    BY <1>1, <1>4, <1>5, <1>6, <2>2 DEF LineVerifies, InStep
  <2>4. QED
    BY <1>5, <2>2, <2>3
<1>13. NoSilentGap'
  <2>1. SUFFICES ASSUME Verifies(file'), NEW i \in 1..(n + 1), NEW k \in 1..file'[i].event[2]
                 PROVE  \E j \in 1..i : file'[j].event = <<file'[i].event[1], k>>
    BY <1>4 DEF NoSilentGap
  <2>2. CASE i \in 1..n
    <3>1. file'[i] = file[i] /\ k \in 1..file[i].event[2]
      BY <1>4, <2>1, <2>2
    <3>2. PICK j \in 1..i : file[j].event = <<file[i].event[1], k>>
      BY <1>7, <2>1, <2>2, <3>1 DEF FileInv, NoSilentGap
    <3>3. file'[j] = file[j]
      BY <1>4, <2>2, <3>2
    <3>4. QED
      BY <3>1, <3>2, <3>3
  <2>3. CASE i = n + 1
    <3>1. file'[i].event = <<run, taken + 1>>
      BY <1>4, <1>6, <1>7, <2>1, <2>3
    <3>2. \E j \in 1..(n + 1) : file'[j].event = <<run, k>>
      <4>1. k \in 1..taken'
        BY <1>2, <2>1, <3>1
      <4>2. TakenWritten' /\ Len(file') = n + 1 /\ run' = run
        BY <1>2, <1>4, <1>9, <2>1
      <4>3. QED
        BY <4>1, <4>2 DEF TakenWritten
    <3>3. QED
      BY <2>3, <3>1, <3>2
  <2>4. QED
    BY <1>1, <2>2, <2>3
<1>14. QED
  BY <1>11, <1>12, <1>13 DEF FileInv

(* The invariant holds at the start.                                       *)
LEMMA InvInit == Init => IInv
<1>1. SUFFICES ASSUME Init
               PROVE  IInv
  OBVIOUS
<1>2. TypeOK
  <2>1. file \in Seq(Line)
    BY <1>1 DEF Init
  <2>2. prev \in Hash
    BY <1>1, LineTypes DEF Init
  <2>3. QED
    BY <1>1, <2>1, <2>2 DEF Init, TypeOK
<1>3. Verifies(file)
  BY <1>1 DEF Init, Verifies
<1>4. WriterInv
  BY <1>1 DEF Init, WriterInv
<1>5. CleanChainVerifies /\ NoSilentGap
  BY <1>1, <1>3 DEF Init, CleanChainVerifies, NoSilentGap
<1>6. QED
  BY <1>2, <1>4, <1>5 DEF IInv

(* Every step keeps it.                                                    *)
LEMMA InvStep == IInv /\ [Next]_vars => IInv'
<1>1. SUFFICES ASSUME TypeOK, FileInv, [Next]_vars
               PROVE  TypeOK' /\ FileInv'
  BY DEF IInv, FileInv
<1>2. TypeOK'
  BY <1>1, TypeStep DEF FileInv, WriterInv
<1>3. ASSUME NEW w \in {"up", "gone"}, Open(w)
      PROVE  FileInv'
  BY <1>1, <1>3, OpenStep
<1>4. CASE UNCHANGED vars \/ Log \/ LogStopped \/ Exit \/ Crash
  <2>1. /\ UNCHANGED <<run, taken, seq, prev, file, unended, failures>>
        /\ writer' \in {writer, "down"} /\ sent' \in {sent, sent + 1}
    BY <1>4 DEF vars, Log, LogStopped, Exit, Crash
  <2>2. QED
    BY <1>1, <1>2, <2>1, QuietStep
<1>5. CASE Write
  BY <1>1, <1>2, <1>5, SpoilStep, ExtendStep, NextLineType DEF Write
<1>6. CASE WriteFails
  BY <1>1, <1>2, <1>6, FailStep
<1>7. CASE WriteTears
  <2>1. PICK part \in {NextLine, Garbage} : file' = Appended(file, part)
    BY <1>7 DEF WriteTears
  <2>2. part \in Line
    BY <1>1, LineTypes, NextLineType
  <2>3. Advance /\ failures' = failures + 1 /\ unended'
    BY <1>7 DEF WriteTears
  <2>4. QED
    BY <1>1, <1>2, <2>1, <2>2, <2>3, SpoilStep, ExtendStep
<1>8. FileInv'
  BY <1>1, <1>3, <1>4, <1>5, <1>6, <1>7 DEF Next
<1>9. QED
  BY <1>2, <1>8

(* The inductive invariant is one.                                         *)
THEOREM Invariance == Spec => []IInv
<1>1. QED
  BY InvInit, InvStep, PTL DEF Spec

(* As long as no append fails the file verifies, across any number of      *)
(* restarts (audit_chain.rs open, append_line, verify).                    *)
THEOREM CleanChainHolds == Spec => []CleanChainVerifies
<1>1. IInv => CleanChainVerifies
  BY DEF IInv
<1>2. QED
  BY <1>1, Invariance, PTL

(* With any number of failed, torn or lost appends, a file that verifies   *)
(* has no event of a process without all its earlier ones.                 *)
THEOREM NoSilentGapHolds == Spec => []NoSilentGap
<1>1. IInv => NoSilentGap
  BY DEF IInv
<1>2. QED
  BY <1>1, Invariance, PTL

-----------------------------------------------------------------------------
(* What is changed behind the writer's back.  The files of the theorem     *)
(* need not verify themselves: they may hold torn and misnumbered lines.   *)

(* A line put at the end of the file by the writer keeps the lines as they *)
(* were written.                                                           *)
LEMMA AppendKeepsLines ==
  ASSUME TypeOK, LinesWritten, unended => file # <<>>, Advance,
         NEW line \in {NextLine, Garbage}, file' = Appended(file, line)
  PROVE  LinesWritten'
<1> DEFINE n == Len(file)
<1>1. file \in Seq(Line) /\ n \in Nat /\ seq \in Nat /\ taken \in Nat /\ line \in Line
  BY LineTypes, NextLineType DEF TypeOK
<1>2. seq >= n /\ seq' = seq + 1
  BY DEF LinesWritten, Advance
<1>3. ~Garbage.json
  BY DEF Garbage
<1>4. CASE unended
  <2>1. n \in 1..n /\ file' = [file EXCEPT ![n] = Garbage]
    BY <1>1, <1>4 DEF Appended
  <2>2. Len(file') = n /\ \A i \in 1..n : file'[i] = file[i] \/ file'[i] = Garbage
    BY <1>1, <2>1
  <2> QED
    BY <1>1, <1>2, <1>3, <2>2 DEF LinesWritten
<1>5. CASE ~unended
  <2>1. /\ Len(file') = n + 1 /\ file'[n + 1] = line
        /\ \A i \in 1..n : file'[i] = file[i]
    BY <1>1, <1>5, AppendedLines
  <2>2. /\ NextLine.seq = seq + 1 /\ NextLine.event = <<run, taken + 1>>
        /\ NextLine.hash = Digest(NextLine.prev, NextLine.seq, NextLine.event)
    BY DEF NextLine, Linked
  <2>3. NextLine.event # <<0, 0>>
    BY <1>1, <2>2
  <2>4. ASSUME NEW i \in 1..(n + 1), file'[i].json
        PROVE  /\ file'[i].seq >= i
               /\ file'[i].hash = Digest(file'[i].prev, file'[i].seq, file'[i].event)
               /\ file'[i].event # <<0, 0>>
    <3>1. CASE i = n + 1
      BY <1>1, <1>2, <1>3, <2>1, <2>2, <2>3, <2>4, <3>1
    <3>2. CASE i \in 1..n
      BY <2>1, <2>4, <3>2 DEF LinesWritten
    <3> QED
      BY <1>1, <3>1, <3>2
  <2> QED
    BY <1>1, <1>2, <2>1, <2>4 DEF LinesWritten
<1> QED
  BY <1>4, <1>5

(* So does every step: a process opens only a file all of whose lines      *)
(* parse, and a failed append puts the writer further ahead.               *)
LEMMA LinesStep == IInv /\ LinesWritten /\ [Next]_vars => LinesWritten'
<1> SUFFICES ASSUME IInv, LinesWritten, [Next]_vars PROVE LinesWritten'
  OBVIOUS
<1>1. TypeOK /\ (unended => file # <<>>)
  BY DEF IInv, WriterInv
<1>2. ASSUME NEW w \in {"up", "gone"}, Open(w) PROVE LinesWritten'
  <2>1. file' = file /\ seq' = RecoveredSeq(file)
    BY <1>2 DEF Open
  <2>2. seq' >= Len(file)
    <3>1. CASE file = <<>>
      BY <2>1, <3>1 DEF RecoveredSeq
    <3>2. CASE file # <<>>
      <4>1. Len(file) \in 1..Len(file)
        BY <1>1, <3>2 DEF TypeOK
      <4>2. file[Len(file)].json
        BY <1>2, <4>1 DEF Open, Recoverable
      <4> QED
        BY <2>1, <3>2, <4>1, <4>2 DEF RecoveredSeq, LinesWritten
    <3> QED
      BY <3>1, <3>2
  <2> QED
    BY <2>1, <2>2 DEF LinesWritten
<1>3. CASE UNCHANGED vars \/ Log \/ LogStopped \/ Exit \/ Crash
  <2>1. UNCHANGED <<file, seq>> /\ writer' \in {writer, "down"}
    BY <1>3 DEF vars, Log, LogStopped, Exit, Crash
  <2> QED
    BY <2>1 DEF LinesWritten
<1>4. CASE WriteFails
  <2>1. file' = file /\ seq' = seq + 1 /\ writer = "up"
    BY <1>4 DEF WriteFails, Advance
  <2> QED
    BY <1>1, <2>1 DEF LinesWritten, TypeOK
<1>5. CASE Write \/ WriteTears
  <2>1. PICK line \in {NextLine, Garbage} : file' = Appended(file, line)
    BY <1>5 DEF Write, WriteTears
  <2>2. Advance
    BY <1>5 DEF Write, WriteTears
  <2> QED
    BY <1>1, <2>1, <2>2, AppendKeepsLines
<1> QED
  BY <1>2, <1>3, <1>4, <1>5 DEF Next

(* Every line that parses is one the writer digested.                      *)
THEOREM LinesWrittenHolds == Spec => []LinesWritten
<1>1. Init => LinesWritten
  BY DEF Init, LinesWritten
<1> QED
  BY <1>1, LinesStep, Invariance, PTL DEF Spec

(* A digest commits to the event it was made of.                           *)
LEMMA DigestBinds ==
  ASSUME NEW p \in Hash, NEW q \in Hash, NEW m \in Nat, NEW n \in Nat,
         NEW d \in Event, NEW e \in Event, Digest(p, m, d) = Digest(q, n, e)
  PROVE  d = e
<1>1. Append(p, <<m, d>>) = Append(q, <<n, e>>)
  BY DEF Digest
<1>2. p \in Seq(Nat \X Event) /\ q \in Seq(Nat \X Event) /\ <<m, d>> \in Nat \X Event
      /\ <<n, e>> \in Nat \X Event
  BY DEF Hash
<1>3. Len(Append(p, <<m, d>>)) = Len(p) + 1 /\ Len(Append(q, <<n, e>>)) = Len(q) + 1
  BY <1>2
<1>4. Append(p, <<m, d>>)[Len(p) + 1] = <<m, d>> /\ Append(q, <<n, e>>)[Len(q) + 1] = <<n, e>>
  BY <1>2
<1> QED
  BY <1>1, <1>3, <1>4

(* An edited event shows, whatever it is changed to.                       *)
LEMMA EditShows ==
  ASSUME TypeOK, LinesWritten, NEW i \in 1..Len(file), NEW e \in Event, e # file[i].event
  PROVE  ~Verifies([file EXCEPT ![i].event = e])
<1> DEFINE f == [file EXCEPT ![i].event = e]
<1>1. file \in Seq(Line) /\ Len(file) \in Nat /\ file[i] \in Line
  BY DEF TypeOK
<1>2. /\ Len(f) = Len(file) /\ f[i].event = e /\ f[i].json = file[i].json
      /\ f[i].seq = file[i].seq /\ f[i].hash = file[i].hash
      /\ \A j \in 1..Len(file) : f[j].hash = file[j].hash
  BY <1>1 DEF Line
<1>3. TipBefore(f, i) \in Hash
  <2>1. CASE i = 1
    BY <2>1, LineTypes DEF TipBefore
  <2>2. CASE i # 1
    <3>1. i - 1 \in 1..Len(file) /\ file[i - 1] \in Line
      BY <1>1, <2>2
    <3>2. f[i - 1].hash \in Hash
      BY <1>2, <3>1 DEF Line
    <3> QED
      BY <2>2, <3>2 DEF TipBefore
  <2> QED
    BY <2>1, <2>2
<1>4. SUFFICES ASSUME LineVerifies(f, i) PROVE FALSE
  BY <1>2 DEF Verifies
<1>5. Digest(file[i].prev, file[i].seq, file[i].event) = Digest(TipBefore(f, i), file[i].seq, e)
  BY <1>2, <1>4 DEF LineVerifies, LinesWritten
<1> QED
  BY <1>1, <1>3, <1>5, DigestBinds DEF Line

(* One change to a file the writer left behind, at a line that others      *)
(* follow or to what any line says, makes a file that does not verify,     *)
(* after any number of failed and torn appends (audit_chain.rs verify).    *)
THEOREM RetouchingDetectedHolds == Spec => []RetouchingDetected
<1>1. TypeOK /\ LinesWritten => RetouchingDetected
  <2> SUFFICES ASSUME TypeOK, LinesWritten, NEW f \in Retouched(file)
               PROVE  ~Verifies(f)
    BY DEF RetouchingDetected
  <2>1. file \in Seq(Line) /\ Len(file) \in Nat
    BY DEF TypeOK
  <2>2. ASSUME NEW i \in 1..Len(file), f = [file EXCEPT ![i].event = <<0, 0>>]
        PROVE  ~Verifies(f)
    <3>1. f[i].json = file[i].json /\ Len(f) = Len(file)
      BY <2>1, <2>2 DEF Line
    <3>2. CASE file[i].json
      <4>1. <<0, 0>> \in Event /\ <<0, 0>> # file[i].event
        BY <3>2 DEF Event, LinesWritten
      <4> QED
        BY <2>2, <4>1, EditShows
    <3>3. CASE ~file[i].json
      BY <3>1, <3>3 DEF Verifies, LineVerifies
    <3> QED
      BY <3>2, <3>3
  <2>3. ASSUME NEW i \in 1..(Len(file) - 1), i \in 1..Len(f), f[i] = file[i + 1]
        PROVE  ~Verifies(f)
    <3>1. f[i].json => f[i].seq >= i + 1
      BY <2>1, <2>3 DEF LinesWritten
    <3>2. f[i].seq \in Nat
      <4>1. file[i + 1] \in Line
        BY <2>1
      <4> QED
        BY <2>3, <4>1 DEF Line
    <3>3. ~LineVerifies(f, i)
      BY <3>1, <3>2 DEF LineVerifies
    <3> QED
      BY <2>3, <3>3 DEF Verifies
  <2>4. ASSUME NEW i \in 1..(Len(file) - 1), f = Without(file, i) PROVE ~Verifies(f)
    <3>1. Len(f) = Len(file) - 1 /\ f[i] = file[i + 1]
      BY <2>1, <2>4 DEF Without
    <3> QED
      BY <2>1, <2>3, <3>1
  <2>5. ASSUME NEW i \in 1..(Len(file) - 1),
               f = [file EXCEPT ![i] = file[i + 1], ![i + 1] = file[i]]
        PROVE  ~Verifies(f)
    <3>1. Len(f) = Len(file) /\ f[i] = file[i + 1]
      BY <2>1, <2>5
    <3> QED
      BY <2>1, <2>3, <3>1
  <2> QED
    BY <2>2, <2>4, <2>5 DEF Retouched
<1>2. IInv => TypeOK
  BY DEF IInv
<1> QED
  BY <1>1, <1>2, LinesWrittenHolds, Invariance, PTL

(* The same of an event changed to any other: no edit of what a line says  *)
(* goes unseen, the last line's included.                                  *)
THEOREM AnyEditDetected ==
  Spec => [](\A i \in 1..Len(file) : \A e \in Event \ {file[i].event} :
               ~Verifies([file EXCEPT ![i].event = e]))
<1>1. IInv /\ LinesWritten =>
        \A i \in 1..Len(file) : \A e \in Event \ {file[i].event} :
          ~Verifies([file EXCEPT ![i].event = e])
  BY EditShows DEF IInv
<1> QED
  BY <1>1, LinesWrittenHolds, Invariance, PTL
=============================================================================
