--------------------------- MODULE ActionExecution ---------------------------
(***************************************************************************)
(* One approved action, from the moment its task is spawned to the result  *)
(* it hands back (broker/execute.rs): the secrets of the policy's env      *)
(* entries are resolved one after the other, the command is started with   *)
(* them, its output is collected under the action's timeout, cut to size   *)
(* and sanitized (context.rs, sanitize_text).                              *)
(*                                                                         *)
(* The command is a process of its own.  It may write what it was given,   *)
(* disguised or not, start another process that inherits its pipes, exit   *)
(* or hang.  The task waits for the exit and for both pipes to be closed.  *)
(* A timeout drops that wait, and nothing else: the pipes lose their       *)
(* reader, the process stays.                                              *)
(***************************************************************************)
EXTENDS Redaction

CONSTANTS
  Actions,      \* policies' entries: [env, output, unsupported]
  Registered,   \* schemes with a backend (assemble_secret_broker)
  NoField,      \* the field of a reference that names none
  Stored,       \* reference -> what its backend may hold for it
  Words,        \* literals the command may write of its own
  TimeoutSecs,  \* timeout_secs
  MaxOutput,    \* MAX_OUTPUT_BYTES, in symbols
  MaxWritten    \* bound: symbols the command writes

(* validate in policy.rs: from 1 to 600.                                   *)
ASSUME TimeoutAssumption == TimeoutSecs \in Nat \ {0}

ASSUME OutputAssumption == MaxOutput \in Nat \ {0}

Symbol == [name : STRING, of : {NoSession}, n : Nat]

ASSUME StoredAssumption ==
  /\ \A ref \in DOMAIN Stored : \A value \in Stored[ref] : value \in Seq(Symbol)
  /\ \A a \in Actions : a.env \in Seq(DOMAIN Stored)

ASSUME NamesAssumption == \A name \in Words \cup DOMAIN Hidden : name \in STRING

VARIABLES
  action,       \* the policy's definition (does not change)
  task,         \* where the task is
  bound,        \* values put into the command's environment so far
  left,         \* seconds until the timeout
  child,        \* the command's process
  heir,         \* a process it started still has its pipes
  written,      \* what came out of each pipe
  result        \* ActionResult

vars == <<action, task, bound, left, child, heir, written, result>>

Streams == {"stdout", "stderr"}

-----------------------------------------------------------------------------
(* Results.                                                                *)

Silent == [s \in Streams |-> <<>>]

Outcome(kind, shown, truncated, suppressed) ==
  [kind |-> kind, shown |-> shown, truncated |-> truncated, suppressed |-> suppressed]

(* Every result with its error set: no output, whatever there was.         *)
Failure(kind) == Outcome(kind, Silent, FALSE, FALSE)

NoResult == Failure("none")

-----------------------------------------------------------------------------
(* Secrets.  A reference has a scheme, a path and a field.                 *)

(* The environment has no fields, a vault entry has nothing else.          *)
EnvReference(ref) == ref.scheme = "env" => ref.field = NoField
VaultReference(ref) == ref.scheme = "vault" => ref.field # NoField

(* What its backend does not turn down unread.                             *)
Askable(ref) == ref.scheme \in Registered /\ EnvReference(ref) /\ VaultReference(ref)

(* An empty secret is an error (SecretValue::new, the payload's checks).   *)
Secrets(ref) == IF Askable(ref) THEN Stored[ref] \ {<<>>} ELSE {}

-----------------------------------------------------------------------------
(* Output.                                                                 *)

SuppressedByPolicy == <<Literal("suppressed by policy")>>
SuppressedByDlp == <<Literal("suppressed by dlp")>>

Oversized(text) == Len(text) > MaxOutput

Truncate(text) == IF Oversized(text) THEN SubSeq(text, 1, MaxOutput) ELSE text

(* Mutant of SanitizeText: the probe looks at the text as it stands.       *)
SanitizeTextUnnormalized(text) ==
  LET redacted == RedactPermanent(text)
  IN  IF CheckViolations(redacted) THEN SuppressedByDlp ELSE redacted

SanitizeText(text) ==
  LET redacted == RedactPermanent(text)
  IN  IF CheckViolations(NormalizeForMatching(redacted)) THEN SuppressedByDlp ELSE redacted

Sanitize(policy, text) ==
  IF policy = "suppress" THEN SuppressedByPolicy ELSE SanitizeText(text)

-----------------------------------------------------------------------------
(* The task.                                                               *)

Init ==
  /\ action \in Actions
  /\ task = "resolving"
  /\ bound = <<>>
  /\ left = TimeoutSecs
  /\ child = "none"
  /\ heir = FALSE
  /\ written = Silent
  /\ result = NoResult

Finish(r) == task' = "finished" /\ result' = r

(* On Windows a user target is refused before anything else.               *)
RefuseElevation ==
  /\ task = "resolving" /\ bound = <<>>
  /\ action.unsupported
  /\ Finish(Failure("nothing executed"))
  /\ UNCHANGED <<action, bound, left, child, heir, written>>

(* The entry whose secret is asked for next.                               *)
Resolving ==
  /\ task = "resolving"
  /\ ~action.unsupported
  /\ Len(bound) < Len(action.env)

Pending == action.env[Len(bound) + 1]

Resolve ==
  /\ Resolving
  /\ \E value \in Secrets(Pending) : bound' = Append(bound, value)
  /\ UNCHANGED <<action, task, left, child, heir, written, result>>

(* Any store may have lost the entry since the policy was written.         *)
ResolveFails ==
  /\ Resolving
  /\ Finish(Failure("nothing executed"))
  /\ UNCHANGED <<action, bound, left, child, heir, written>>

Resolved ==
  /\ task = "resolving"
  /\ ~action.unsupported
  /\ Len(bound) = Len(action.env)

Spawn ==
  /\ Resolved
  /\ task' = "waiting"
  /\ child' = "running"
  /\ UNCHANGED <<action, bound, left, heir, written, result>>

SpawnFails ==
  /\ Resolved
  /\ Finish(Failure("failed to start"))
  /\ UNCHANGED <<action, bound, left, child, heir, written>>

(* Mutant of Collectable: the exit is enough.                              *)
CollectableAtExit == task = "waiting" /\ child = "exited"

(* Command::output waits for the exit and for the end of both pipes.       *)
Collectable == task = "waiting" /\ child = "exited" /\ ~heir

(* Mutant of Cut: only one of the two streams is looked at.                *)
CutStdout == Oversized(written["stdout"])

Cut == \E s \in Streams : Oversized(written[s])

Collect ==
  /\ Collectable
  /\ Finish(Outcome("exited",
                    [s \in Streams |-> Sanitize(action.output, Truncate(written[s]))],
                    Cut,
                    action.output = "suppress"))
  /\ UNCHANGED <<action, bound, left, child, heir, written>>

(* A read of a pipe or the wait itself fails: reported like a failed start. *)
CollectFails ==
  /\ task = "waiting"
  /\ Finish(Failure("failed to start"))
  /\ UNCHANGED <<action, bound, left, child, heir, written>>

(* Mutant of Elapsed: only the exit is under the timeout, not the pipes.   *)
ElapsedBeforeExit == task = "waiting" /\ left = 0 /\ child = "running"

Elapsed == task = "waiting" /\ left = 0

Timeout ==
  /\ Elapsed
  /\ Finish(Failure("timed out"))
  /\ UNCHANGED <<action, bound, left, child, heir, written>>

(* The daemon stops, or dies: the task goes with it.                       *)
DaemonStops ==
  /\ task \notin {"finished", "gone"}
  /\ task' = "gone"
  /\ UNCHANGED <<action, bound, left, child, heir, written, result>>

(* The runtime's timer is served before the next second.                   *)
Tick ==
  /\ task = "waiting" /\ left > 0
  /\ left' = left - 1
  /\ UNCHANGED <<action, task, bound, child, heir, written, result>>

-----------------------------------------------------------------------------
(* The command.                                                            *)

Given == UNION {ToSet(bound[k]) : k \in DOMAIN bound}

(* Words of its own, what it was given, and that in disguise.              *)
Writable ==
  {Literal(name) : name \in Words}
    \cup Given
    \cup {Literal(name) : name \in {n \in DOMAIN Hidden : Literal(Hidden[n]) \in Given}}

Alive == child = "running" \/ heir

(* What is written once nobody reads the pipes is lost.                    *)
Write ==
  /\ task = "waiting" /\ Alive
  /\ Len(written["stdout"]) + Len(written["stderr"]) < MaxWritten
  /\ \E s \in Streams, symbol \in Writable :
       written' = [written EXCEPT ![s] = Append(@, symbol)]
  /\ UNCHANGED <<action, task, bound, left, child, heir, result>>

Fork ==
  /\ child = "running" /\ ~heir
  /\ heir' = TRUE
  /\ UNCHANGED <<action, task, bound, left, child, written, result>>

ChildExits ==
  /\ child = "running"
  /\ child' = "exited"
  /\ UNCHANGED <<action, task, bound, left, heir, written, result>>

HeirEnds ==
  /\ heir
  /\ heir' = FALSE
  /\ UNCHANGED <<action, task, bound, left, child, written, result>>

-----------------------------------------------------------------------------
TaskNext ==
  \/ RefuseElevation \/ Resolve \/ ResolveFails \/ Spawn \/ SpawnFails
  \/ Collect \/ CollectFails \/ Timeout \/ DaemonStops

CommandNext == Write \/ Fork \/ ChildExits \/ HeirEnds

Next == TaskNext \/ CommandNext \/ Tick

(* The runtime polls the task and its timer.  A backend that is asked need *)
(* not answer (a keychain may wait for a person), a command need not end.  *)
Fairness == WF_vars(Spawn \/ SpawnFails) /\ WF_vars(Tick) /\ WF_vars(Timeout)

Spec == Init /\ [][Next]_vars /\ Fairness

-----------------------------------------------------------------------------
(* Properties.                                                             *)

Kinds == {"none", "nothing executed", "failed to start", "timed out", "exited"}

(* The task, the command and what is between them are well typed.          *)
TypeOK ==
  /\ action \in Actions
  /\ task \in {"resolving", "waiting", "finished", "gone"}
  /\ bound \in Seq(Seq(Symbol))
  /\ left \in 0 .. TimeoutSecs
  /\ child \in {"none", "running", "exited"}
  /\ heir \in BOOLEAN
  /\ written \in [Streams -> Seq(Symbol)]
  /\ result.kind \in Kinds

(* No command ever runs without every secret of its policy entry, each a   *)
(* real value of the reference it is bound to: whichever store fails, and  *)
(* however many answered before it (execute.rs, "action refused, nothing   *)
(* executed").                                                             *)
EnvironmentComplete ==
  child # "none" =>
    /\ Len(bound) = Len(action.env)
    /\ \A k \in DOMAIN bound : bound[k] \in Secrets(action.env[k])

(* What the result says of the command is so: "nothing executed" means it  *)
(* never ran, and a result with an exit code means that neither it nor a   *)
(* process it left its pipes to can write any more (Command::output).      *)
ReportTrue ==
  /\ result.kind = "nothing executed" => child = "none"
  /\ result.kind = "exited" => child = "exited" /\ ~heir

(* Nothing in the result is found by a detector, as it stands or           *)
(* normalized, although the command may print its secrets disguised, the   *)
(* stream was cut first and the rules ran over each other's output         *)
(* (sanitize_text).                                                        *)
ResultClean ==
  \A s \in Streams :
    /\ ~CheckViolations(result.shown[s])
    /\ ~CheckViolations(NormalizeForMatching(result.shown[s]))

(* The part of it that sanitize_text sees to itself: what is shown is a    *)
(* marker, or nothing is found in it once it is normalized.                *)
Markers == {SuppressedByPolicy, SuppressedByDlp}

ResultProbed ==
  \A s \in Streams :
    \/ result.shown[s] \in Markers
    \/ ~CheckViolations(NormalizeForMatching(result.shown[s]))

(* The rest is the detectors' part: none of them finds a marker, nor       *)
(* anything in redacted output that normalizing hides from it.             *)
RedactionLasts(texts) ==
  /\ \A marker \in Markers :
       ~CheckViolations(marker) /\ ~CheckViolations(NormalizeForMatching(marker))
  /\ \A text \in texts : LET redacted == RedactPermanent(text) IN
       CheckViolations(redacted) => CheckViolations(NormalizeForMatching(redacted))

(* Nothing for one-way redaction in it, and nothing for the probe.         *)
Harmless(text) == NothingToMask(text) /\ ~CheckViolations(NormalizeForMatching(text))

(* Output without anything to redact is shown whole, on both streams,      *)
(* unless the result says that it was truncated or suppressed              *)
(* (plain_output_is_returned_verbatim).                                    *)
OutputWhole ==
  result.kind = "exited" /\ ~result.truncated /\ ~result.suppressed =>
    \A s \in Streams : Harmless(written[s]) => result.shown[s] = written[s]

(* Once the secrets are there the task ends, though the command hangs, or  *)
(* leaves a process behind that keeps its pipes (the timeout around        *)
(* Command::output).                                                       *)
StartedEnds == (Resolved \/ task = "waiting") ~> task \in {"finished", "gone"}

(* The inductive invariant: how far the task is says which values are      *)
(* bound and whether there is a command.                                   *)
Progress ==
  /\ Len(bound) <= Len(action.env)
  /\ \A k \in DOMAIN bound : bound[k] \in Secrets(action.env[k])
  /\ task = "resolving" => child = "none"
  /\ child = "none" => ~heir
  /\ child # "none" => Len(bound) = Len(action.env)
  /\ task # "finished" => result = NoResult

(* Only a command that was waited for has its output in the result, and    *)
(* all of it goes through the cut and the sanitizer.                       *)
Reported ==
  /\ result.kind # "exited" => result.shown = Silent
  /\ result.kind = "exited" =>
       /\ \A s \in Streams : result.shown[s] = Sanitize(action.output, Truncate(written[s]))
       /\ result.truncated = Cut
       /\ result.suppressed = (action.output = "suppress")

IInv == TypeOK /\ Progress /\ EnvironmentComplete /\ ReportTrue /\ Reported

-----------------------------------------------------------------------------
(* Stated by a document, a message or a test.                              *)

(* execute.rs: "timed out after {}s (process killed)".                     *)
TimedOutIsDead == result.kind = "timed out" => child # "running"

(* BROKER.md: secrets are "injected into the child's environment only,     *)
(* never returned to the caller".  Not kept for a value that no detector   *)
(* knows, nor for the part of one that lies before the cut.                *)
NothingBoundShown ==
  \A s \in Streams : \A i \in DOMAIN result.shown[s] : result.shown[s][i] \notin Given
=============================================================================
