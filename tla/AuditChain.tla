------------------------------ MODULE AuditChain ------------------------------
(***************************************************************************)
(* The hash-chained audit log of security/audit_chain.rs: producers queue  *)
(* events and never wait, one writer task numbers and links them and       *)
(* appends them to the file, the file outlives the process, and a new      *)
(* process resumes from its last line.                                     *)
(*                                                                         *)
(* An append can fail after the writer advanced its number and hash: the   *)
(* error is traced and the next event is taken.  It can also leave part of *)
(* a line behind (a full disk, a kill in the middle of a large write).     *)
(* tokio's file reports a failed write at the following one, which is then *)
(* not attempted: two failures in a row.                                   *)
(*                                                                         *)
(* An event is the run that logged it and its number in that run; the      *)
(* channel is FIFO, so the queue is the interval taken+1 .. sent.  A hash  *)
(* is the history it commits to, a sequence of numbered events: SHA-256    *)
(* collisions are left out.                                                *)
(***************************************************************************)
EXTENDS Integers, Sequences

CONSTANTS
  MaxRuns,      \* bound: processes that open the file, one after the other
  MaxEvents,    \* bound: events logged by one process
  MaxFailures   \* bound: appends that fail or tear, and files that cannot be opened

VARIABLES
  writer,       \* "down" (no process), "up", or "gone" (could not open the file)
  run,          \* number of the current process
  sent,         \* events this process has logged
  farewell,     \* number of its broker_stopped event, 0 before an orderly end
  taken,        \* events the writer has taken off the queue
  seq,          \* WriterState.seq
  prev,         \* WriterState.prev_hash
  file,         \* the lines of the file
  unended,      \* the last line has no newline yet
  failures      \* failures so far

vars == <<writer, run, sent, farewell, taken, seq, prev, file, unended, failures>>

-----------------------------------------------------------------------------
(* Lines, and what verify and recover_tip make of a file.                  *)

Genesis == <<>>

Event == Nat \X Nat

Hash == Seq(Nat \X Event)

Line == [json: BOOLEAN, seq: Nat, prev: Hash, event: Event, hash: Hash]

(* Bytes that are not one JSON object.                                     *)
Garbage == [json |-> FALSE, seq |-> 0, prev |-> Genesis, event |-> <<0, 0>>, hash |-> Genesis]

Digest(p, n, e) == Append(p, <<n, e>>)

Linked(p, n, e) == [json |-> TRUE, seq |-> n, prev |-> p, event |-> e, hash |-> Digest(p, n, e)]

(* The hash the line at i has to link to.                                  *)
TipBefore(f, i) == IF i = 1 THEN Genesis ELSE f[i - 1].hash

(* Mutant of LineVerifies: the hash is compared with nothing.              *)
LineVerifiesUnhashed(f, i) ==
  /\ f[i].json
  /\ f[i].seq = i
  /\ f[i].prev = TipBefore(f, i)

LineVerifies(f, i) ==
  /\ f[i].json
  /\ f[i].seq = i
  /\ f[i].prev = TipBefore(f, i)
  /\ f[i].hash = Digest(TipBefore(f, i), f[i].seq, f[i].event)

Verifies(f) == \A i \in 1..Len(f) : LineVerifies(f, i)

(* recover_tip reads every line; one it cannot parse makes open fail.      *)
Recoverable(f) == \A i \in 1..Len(f) : f[i].json

(* Mutant of RecoveredSeq: the number of the next line, not of the last.   *)
RecoveredSeqNext(f) == IF f = <<>> THEN 0 ELSE f[Len(f)].seq + 1

RecoveredSeq(f) == IF f = <<>> THEN 0 ELSE f[Len(f)].seq

RecoveredHash(f) == IF f = <<>> THEN Genesis ELSE f[Len(f)].hash

(* What appending a line makes of the file: after a line without a newline *)
(* both end up on one line, which is not JSON any more.                    *)
Appended(f, line) ==
  IF unended THEN [f EXCEPT ![Len(f)] = Garbage] ELSE Append(f, line)

-----------------------------------------------------------------------------
Init ==
  /\ writer = "down"
  /\ run = 0
  /\ sent = 0
  /\ farewell = 0
  /\ taken = 0
  /\ seq = 0
  /\ prev = Genesis
  /\ file = <<>>
  /\ unended = FALSE
  /\ failures = 0

(* AuditChain::open; the writer task may then be unable to open the file   *)
(* for appending, and every event is dropped.                              *)
Open(w) ==
  /\ writer = "down" /\ run < MaxRuns
  /\ Recoverable(file)
  /\ w = "gone" => failures < MaxFailures
  /\ failures' = IF w = "gone" THEN failures + 1 ELSE failures
  /\ writer' = w
  /\ run' = run + 1
  /\ sent' = 0
  /\ farewell' = 0
  /\ taken' = 0
  /\ seq' = RecoveredSeq(file)
  /\ prev' = RecoveredHash(file)
  /\ UNCHANGED <<file, unended>>

Log ==
  /\ writer # "down" /\ sent < MaxEvents
  /\ sent' = sent + 1
  /\ UNCHANGED <<writer, run, farewell, taken, seq, prev, file, unended, failures>>

(* The broker has stopped serving and logs that; main returns next.        *)
LogStopped ==
  /\ writer # "down" /\ farewell = 0 /\ sent < MaxEvents
  /\ sent' = sent + 1
  /\ farewell' = sent + 1
  /\ UNCHANGED <<writer, run, taken, seq, prev, file, unended, failures>>

NextLine == Linked(prev, seq + 1, <<run, taken + 1>>)

(* append_line: the writer advances before the line is written.            *)
Advance ==
  /\ writer = "up" /\ taken < sent
  /\ taken' = taken + 1
  /\ seq' = seq + 1
  /\ prev' = NextLine.hash
  /\ UNCHANGED <<writer, run, sent, farewell>>

Write ==
  /\ Advance
  /\ file' = Appended(file, NextLine)
  /\ unended' = FALSE
  /\ UNCHANGED failures

(* Mutant of WriteFails: the writer advances only when a line is written.  *)
WriteFailsUnadvanced ==
  /\ failures < MaxFailures
  /\ failures' = failures + 1
  /\ writer = "up" /\ taken < sent
  /\ taken' = taken + 1
  /\ UNCHANGED <<writer, run, sent, farewell, seq, prev, file, unended>>

(* Nothing of the line is written.                                         *)
WriteFails ==
  /\ failures < MaxFailures
  /\ failures' = failures + 1
  /\ Advance
  /\ UNCHANGED <<file, unended>>

(* Part of the line is written: all but the newline, or less.              *)
WriteTears ==
  /\ failures < MaxFailures
  /\ failures' = failures + 1
  /\ Advance
  /\ \E part \in {NextLine, Garbage} : file' = Appended(file, part)
  /\ unended' = TRUE

(* The process ends after an orderly shutdown.  Nobody waits for the       *)
(* writer task: what it has not taken yet is lost.                         *)
Exit ==
  /\ writer # "down" /\ farewell # 0
  /\ writer' = "down"
  /\ UNCHANGED <<run, sent, farewell, taken, seq, prev, file, unended, failures>>

Crash ==
  /\ writer # "down"
  /\ writer' = "down"
  /\ farewell' = 0
  /\ UNCHANGED <<run, sent, taken, seq, prev, file, unended, failures>>

Next ==
  \/ \E w \in {"up", "gone"} : Open(w)
  \/ Log \/ LogStopped
  \/ Write \/ WriteFails \/ WriteTears
  \/ Exit \/ Crash

Spec == Init /\ [][Next]_vars

-----------------------------------------------------------------------------
(* Every variable keeps the type its Rust counterpart has.                 *)
TypeOK ==
  /\ writer \in {"down", "up", "gone"}
  /\ run \in Nat /\ sent \in Nat /\ farewell \in Nat /\ taken \in Nat /\ seq \in Nat /\ failures \in Nat
  /\ prev \in Hash
  /\ file \in Seq(Line)
  /\ unended \in BOOLEAN

(* Restarts do not break the chain: as long as every append succeeds, the  *)
(* file verifies at every moment, whatever was still queued when a process *)
(* ended (audit_chain.rs open, recover_tip, append_line, verify).          *)
CleanChainVerifies == failures = 0 => Verifies(file)

(* No event is missing silently.  In a file that verifies, the events of   *)
(* each process are the first ones it logged, in order and without a gap:  *)
(* an append that failed either was followed by nothing of that process or *)
(* makes verify fail (append_line advances seq and prev before the write). *)
NoSilentGap ==
  Verifies(file) =>
    \A i \in 1..Len(file) : \A k \in 1..file[i].event[2] :
      \E j \in 1..i : file[j].event = <<file[i].event[1], k>>

(* The files one change away from f: an event edited, a line that is not   *)
(* the last removed, two neighbours swapped.  Verify has no record of how  *)
(* long the file was: removing the last lines leaves a shorter history.    *)
Without(f, i) == [j \in 1..(Len(f) - 1) |-> IF j < i THEN f[j] ELSE f[j + 1]]

Retouched(f) ==
  {[f EXCEPT ![i].event = e] : i \in 1..Len(f), e \in {<<0, 0>>}}
  \cup {Without(f, i) : i \in 1..(Len(f) - 1)}
  \cup {[f EXCEPT ![i] = f[i + 1], ![i + 1] = f[i]] : i \in 1..(Len(f) - 1)}

(* Edits, removals and reordering of lines that others follow are visible  *)
(* to verify, in every file the writer can leave behind, after a failed    *)
(* append as well (audit_chain.rs verify).                                 *)
RetouchingDetected == \A f \in Retouched(file) : ~Verifies(f)

-----------------------------------------------------------------------------
(* The inductive invariant behind the theorems of AuditChainProofs.        *)

(* The next line the writer appends extends the file's own chain.          *)
InStep == seq = Len(file) /\ prev = TipBefore(file, Len(file) + 1) /\ ~unended

(* Every event of this process the writer has taken is in the file.        *)
TakenWritten == \A k \in 1..taken : \E j \in 1..Len(file) : file[j].event = <<run, k>>

(* A writer whose file verifies continues it exactly, or is ahead of it    *)
(* after a failure, and then its next line will not verify.                *)
WriterInv ==
  /\ taken <= sent
  /\ writer = "up" /\ Verifies(file) => (InStep /\ TakenWritten) \/ seq > Len(file) \/ unended
  /\ unended => file # <<>>
  /\ failures = 0 => ~unended /\ (writer = "up" => InStep)

IInv == TypeOK /\ WriterInv /\ CleanChainVerifies /\ NoSilentGap

(* Verified or not, a line of the file that parses was digested by the     *)
(* writer, is about an event that was logged, and has at least the number  *)
(* of its place; a writer never falls behind the file.                     *)
LinesWritten ==
  /\ \A i \in 1..Len(file) : file[i].json =>
       /\ file[i].seq >= i
       /\ file[i].hash = Digest(file[i].prev, file[i].seq, file[i].event)
       /\ file[i].event # <<0, 0>>
  /\ writer = "up" => seq >= Len(file)

-----------------------------------------------------------------------------
(* Stated by a document or a comment, and not kept by the code: no run     *)
(* expects these to hold (README.md, section 5).                           *)

(* "If the file already exists, the chain resumes from the last line so    *)
(* history stays continuous across restarts": the file a process leaves    *)
(* behind can be opened by the next one (audit_chain.rs open).             *)
CanResume == writer = "down" => Recoverable(file)

(* An orderly shutdown is on record: when the broker has ended after       *)
(* logging broker_stopped and no append failed, the event is in the file   *)
(* (ipc.rs start, broker/mod.rs run_daemon).                               *)
StopOnRecord ==
  writer = "down" /\ farewell # 0 /\ failures = 0
    => \E i \in 1..Len(file) : file[i].event = <<run, farewell>>
=============================================================================
