------------------------ MODULE ActionExecutionProofs ------------------------
(***************************************************************************)
(* The invariants of ActionExecution, for every policy, every store, all   *)
(* detectors and every timeout; then, on their own, those of the policy    *)
(* it runs (PolicyLoad).                                                   *)
(***************************************************************************)
EXTENDS ActionExecution, PolicyLoad, RedactionProofs

(* A literal is a symbol.                                                  *)
LEMMA LiteralIsSymbol == ASSUME NEW name \in STRING PROVE Literal(name) \in Symbol
BY DEF Literal, Symbol

(* What the command can write are symbols: its own words, what it was      *)
(* given, and the names that stand for what it was given.                  *)
LEMMA WritableTyped ==
  ASSUME TypeOK PROVE Writable \subseteq Symbol
<1>1. Given \subseteq Symbol
  BY DEF TypeOK, Given, ToSet
<1>2. \A name \in Words \cup DOMAIN Hidden : Literal(name) \in Symbol
  BY NamesAssumption, LiteralIsSymbol
<1>. QED
  BY <1>1, <1>2 DEF Writable

(* A secret is a value that its store holds, and not empty.                *)
LEMMA SecretsTyped ==
  ASSUME NEW ref \in DOMAIN Stored PROVE Secrets(ref) \subseteq Seq(Symbol)
BY StoredAssumption DEF Secrets

(* The result of a failure says which.                                     *)
LEMMA FailureKind == ASSUME NEW kind PROVE Failure(kind).kind = kind
BY DEF Failure, Outcome

(* And shows nothing.                                                      *)
LEMMA FailureShows == ASSUME NEW kind PROVE Failure(kind).shown = Silent
BY DEF Failure, Outcome

(* A task begins with nothing bound and nothing running.                   *)
LEMMA InitEstablishes == Init => IInv
<1>. SUFFICES ASSUME Init PROVE IInv
  OBVIOUS
<1>1. action.env \in Seq(DOMAIN Stored)
  BY StoredAssumption DEF Init
<1>2. TypeOK
  <2>1. bound \in Seq(Seq(Symbol)) /\ written \in [Streams -> Seq(Symbol)]
    BY DEF Init, Silent
  <2>2. result.kind \in Kinds
    BY FailureKind DEF Init, NoResult, Kinds
  <2>3. heir \in BOOLEAN
    BY DEF Init
  <2>4. left \in 0 .. TimeoutSecs
    BY TimeoutAssumption DEF Init
  <2>. QED
    BY <2>1, <2>2, <2>3, <2>4 DEF Init, TypeOK
<1>3. Progress
  BY <1>1 DEF Init, Progress
<1>4. EnvironmentComplete /\ ReportTrue
  BY FailureKind DEF Init, EnvironmentComplete, ReportTrue, NoResult
<1>5. Reported
  BY FailureKind, FailureShows DEF Init, Reported, NoResult
<1>. QED
  BY <1>2, <1>3, <1>4, <1>5 DEF IInv

(* Putting a secret of the next entry into the environment keeps the       *)
(* bindings in step with the policy.                                       *)
LEMMA BindNext ==
  ASSUME TypeOK, Progress, Resolving, NEW value \in Secrets(Pending),
         bound' = Append(bound, value), UNCHANGED action
  PROVE  /\ bound' \in Seq(Seq(Symbol))
         /\ Len(bound') <= Len(action'.env)
         /\ \A k \in DOMAIN bound' : bound'[k] \in Secrets(action'.env[k])
<1>1. action.env \in Seq(DOMAIN Stored) /\ bound \in Seq(Seq(Symbol))
  BY StoredAssumption DEF TypeOK
<1>2. Len(bound) \in Nat /\ Len(action.env) \in Nat /\ Len(bound) < Len(action.env)
  BY <1>1 DEF Resolving
<1>3. Pending = action.env[Len(bound) + 1] /\ Pending \in DOMAIN Stored
  BY <1>1, <1>2 DEF Pending
<1>4. value \in Seq(Symbol)
  BY <1>3, SecretsTyped
<1>5. bound' \in Seq(Seq(Symbol)) /\ Len(bound') = Len(bound) + 1
  BY <1>1, <1>4
<1>6. ASSUME NEW k \in DOMAIN bound' PROVE bound'[k] \in Secrets(action.env[k])
  <2>1. CASE k = Len(bound) + 1
    BY <2>1, <1>1, <1>3, <1>4
  <2>2. CASE k # Len(bound) + 1
    BY <2>2, <1>1, <1>2, <1>4, <1>5 DEF Progress
  <2>. QED
    BY <2>1, <2>2
<1>. QED
  BY <1>2, <1>5, <1>6

(* Every step keeps the types.                                             *)
LEMMA StepTyped == ASSUME IInv, [Next]_vars PROVE TypeOK'
<1>. TypeOK /\ Progress
  BY DEF IInv
<1>1. (action \in Actions)'
  BY DEF TypeOK, Next, TaskNext, CommandNext, RefuseElevation, Resolve,
       ResolveFails, Spawn, SpawnFails, Collect, CollectFails, Timeout,
       DaemonStops, Write, Fork, ChildExits, HeirEnds, Tick, vars
<1>2. (task \in {"resolving", "waiting", "finished", "gone"})'
  BY DEF TypeOK, Next, TaskNext, CommandNext, RefuseElevation, Resolve,
       ResolveFails, Spawn, SpawnFails, Collect, CollectFails, Timeout,
       DaemonStops, Write, Fork, ChildExits, HeirEnds, Tick, vars, Finish
<1>3. (child \in {"none", "running", "exited"})'
  BY DEF TypeOK, Next, TaskNext, CommandNext, RefuseElevation, Resolve,
       ResolveFails, Spawn, SpawnFails, Collect, CollectFails, Timeout,
       DaemonStops, Write, Fork, ChildExits, HeirEnds, Tick, vars
<1>4. (heir \in BOOLEAN)'
  BY DEF TypeOK, Next, TaskNext, CommandNext, RefuseElevation, Resolve,
       ResolveFails, Spawn, SpawnFails, Collect, CollectFails, Timeout,
       DaemonStops, Write, Fork, ChildExits, HeirEnds, Tick, vars
<1>5. (left \in 0 .. TimeoutSecs)'
  <2>1. CASE Tick
    BY <2>1, TimeoutAssumption DEF TypeOK, Tick
  <2>2. CASE UNCHANGED left
    BY <2>2 DEF TypeOK
  <2>. QED
    BY <2>1, <2>2 DEF Next, TaskNext, CommandNext, RefuseElevation, Resolve,
       ResolveFails, Spawn, SpawnFails, Collect, CollectFails, Timeout,
       DaemonStops, Write, Fork, ChildExits, HeirEnds, vars
<1>6. (bound \in Seq(Seq(Symbol)))'
  <2>1. CASE Resolve
    BY <2>1, BindNext DEF Resolve
  <2>2. CASE UNCHANGED bound
    BY <2>2 DEF TypeOK
  <2>. QED
    BY <2>1, <2>2 DEF Next, TaskNext, CommandNext, RefuseElevation, ResolveFails,
       Spawn, SpawnFails, Collect, CollectFails, Timeout, DaemonStops, Write, Fork,
       ChildExits, HeirEnds, Tick, vars
<1>7. (written \in [Streams -> Seq(Symbol)])'
  <2>1. CASE Write
    <3>1. written \in [Streams -> Seq(Symbol)] /\ Writable \subseteq Symbol
      BY WritableTyped DEF TypeOK
    <3>2. PICK s \in Streams, symbol \in Writable :
            written' = [written EXCEPT ![s] = Append(@, symbol)]
      BY <2>1 DEF Write
    <3>3. Append(written[s], symbol) \in Seq(Symbol)
      BY <3>1
    <3>. QED
      BY <3>1, <3>2, <3>3
  <2>2. CASE UNCHANGED written
    BY <2>2 DEF TypeOK
  <2>. QED
    BY <2>1, <2>2 DEF Next, TaskNext, CommandNext, RefuseElevation, Resolve,
       ResolveFails, Spawn, SpawnFails, Collect, CollectFails, Timeout,
       DaemonStops, Fork, ChildExits, HeirEnds, Tick, vars
<1>8. (result.kind \in Kinds)'
  <2>1. CASE Collect
    BY <2>1 DEF Collect, Finish, Outcome, Kinds
  <2>2. CASE RefuseElevation \/ ResolveFails \/ SpawnFails \/ CollectFails \/ Timeout
    BY <2>2, FailureKind DEF RefuseElevation, ResolveFails, SpawnFails,
       CollectFails, Timeout, Finish, Kinds
  <2>3. CASE UNCHANGED result
    BY <2>3 DEF TypeOK
  <2>. QED
    BY <2>1, <2>2, <2>3 DEF Next, TaskNext, CommandNext, Resolve, Spawn,
       DaemonStops, Write, Fork, ChildExits, HeirEnds, Tick, vars
<1>. QED
  BY <1>1, <1>2, <1>3, <1>4, <1>5, <1>6, <1>7, <1>8 DEF TypeOK

(* Every step keeps the task, the bindings and the command in step.        *)
LEMMA StepProgress == ASSUME IInv, [Next]_vars PROVE Progress' /\ ReportTrue'
<1>. TypeOK /\ Progress /\ ReportTrue
  BY DEF IInv
<1>1. CASE RefuseElevation
  <2>1. /\ task = "resolving" /\ task' = "finished"
        /\ result'.kind = "nothing executed"
        /\ UNCHANGED <<action, bound, child, heir>>
    BY <1>1, FailureKind DEF RefuseElevation, Finish
  <2>. QED
    BY <2>1 DEF Progress, ReportTrue
<1>2. CASE Resolve
  <2>1. /\ Len(bound') <= Len(action'.env)
        /\ \A k \in DOMAIN bound' : bound'[k] \in Secrets(action'.env[k])
    BY <1>2, BindNext DEF Resolve
  <2>. QED
    BY <1>2, <2>1 DEF Resolve, Resolving, Progress, ReportTrue
<1>3. CASE ResolveFails
  BY <1>3, FailureKind DEF ResolveFails, Resolving, Finish, Progress, ReportTrue
<1>4. CASE Spawn
  <2>1. result' = NoResult /\ NoResult.kind = "none"
    BY <1>4, FailureKind DEF Spawn, Resolved, Progress, NoResult
  <2>. QED
    BY <1>4, <2>1 DEF Spawn, Resolved, Progress, ReportTrue
<1>5. CASE SpawnFails
  BY <1>5, FailureKind DEF SpawnFails, Resolved, Finish, Progress, ReportTrue
<1>6. CASE Collect
  <2>1. result'.kind = "exited"
    BY <1>6 DEF Collect, Finish, Outcome
  <2>. QED
    BY <1>6, <2>1 DEF Collect, Collectable, Finish, Progress, ReportTrue
<1>7. CASE CollectFails
  BY <1>7, FailureKind DEF CollectFails, Finish, Progress, ReportTrue
<1>8. CASE Timeout
  BY <1>8, FailureKind DEF Timeout, Elapsed, Finish, Progress, ReportTrue
<1>9. CASE DaemonStops
  BY <1>9 DEF DaemonStops, Progress, ReportTrue
<1>10. CASE Write
  BY <1>10 DEF Write, Progress, ReportTrue
<1>11. CASE Fork
  BY <1>11 DEF Fork, Progress, ReportTrue
<1>12. CASE ChildExits
  BY <1>12 DEF ChildExits, Progress, ReportTrue
<1>13. CASE HeirEnds
  BY <1>13 DEF HeirEnds, Progress, ReportTrue
<1>14. CASE Tick
  BY <1>14 DEF Tick, Progress, ReportTrue
<1>15. CASE UNCHANGED vars
  BY <1>15 DEF vars, Progress, ReportTrue
<1>. QED
  BY <1>1, <1>2, <1>3, <1>4, <1>5, <1>6, <1>7, <1>8, <1>9, <1>10, <1>11, <1>12, <1>13,
     <1>14, <1>15 DEF Next, TaskNext, CommandNext

(* Every step keeps the result what was made of the output: once there is  *)
(* one the command writes into pipes that nobody reads.                    *)
LEMMA StepReported == ASSUME IInv, [Next]_vars PROVE Reported'
<1>. TypeOK /\ Progress /\ Reported
  BY DEF IInv
<1>1. CASE RefuseElevation \/ ResolveFails \/ SpawnFails \/ CollectFails \/ Timeout
  <2>1. /\ result'.shown = Silent
        /\ result'.kind \in {"nothing executed", "failed to start", "timed out"}
    BY <1>1, FailureKind, FailureShows DEF RefuseElevation, ResolveFails, SpawnFails,
       CollectFails, Timeout, Finish
  <2>. QED
    BY <2>1 DEF Reported
<1>2. CASE Collect
  BY <1>2 DEF Collect, Finish, Outcome, Reported, Cut, Oversized
<1>3. CASE Write
  <2>1. result' = NoResult /\ NoResult.kind = "none" /\ NoResult.shown = Silent
    BY <1>3, FailureKind, FailureShows DEF Write, Progress, NoResult
  <2>. QED
    BY <2>1 DEF Reported
<1>4. CASE UNCHANGED <<action, written, result>>
  BY <1>4 DEF Reported, Cut, Oversized
<1>. QED
  BY <1>1, <1>2, <1>3, <1>4 DEF Next, TaskNext, CommandNext, Resolve, Spawn,
     DaemonStops, Fork, ChildExits, HeirEnds, Tick, vars

(* The invariant is inductive.                                             *)
LEMMA StepPreserves == IInv /\ [Next]_vars => IInv'
BY StepTyped, StepProgress, StepReported DEF IInv, EnvironmentComplete, Progress

(* The inductive invariant holds in every reachable state.                 *)
THEOREM Invariance == Spec => []IInv
BY InitEstablishes, StepPreserves, PTL DEF Spec

(* No command runs without every secret of its policy entry, whatever the  *)
(* stores answer and in whatever order they fail (execute_action).         *)
THEOREM EnvironmentCompleteHolds == Spec => []EnvironmentComplete
<1>1. IInv => EnvironmentComplete
  BY DEF IInv
<1>. QED
  BY Invariance, <1>1, PTL

(* A result that says nothing was executed, or that the command exited, is *)
(* right about the command (Command::output).                              *)
THEOREM ReportTrueHolds == Spec => []ReportTrue
<1>1. IInv => ReportTrue
  BY DEF IInv
<1>. QED
  BY Invariance, <1>1, PTL

-----------------------------------------------------------------------------
(* What the result shows.                                                  *)

(* What is shown of a stream is a marker, or the redaction of a text that  *)
(* the probe does not object to (sanitize).                                *)
LEMMA SanitizeShows ==
  ASSUME NEW mode, NEW text \in Seq(Symbol)
  PROVE  \/ Sanitize(mode, Truncate(text)) \in Markers
         \/ \E kept \in Seq(Symbol) :
              /\ Sanitize(mode, Truncate(text)) = RedactPermanent(kept)
              /\ ~CheckViolations(NormalizeForMatching(RedactPermanent(kept)))
<1>1. Truncate(text) \in Seq(Symbol)
  BY OutputAssumption DEF Truncate, Oversized
<1>. QED
  BY <1>1 DEF Sanitize, SanitizeText, Markers

(* Nothing is found in nothing.                                            *)
LEMMA SilenceClean ==
  ~CheckViolations(<<>>) /\ ~CheckViolations(NormalizeForMatching(<<>>))
<1>1. IsText(<<>>) /\ DOMAIN <<>> = {}
  BY DEF IsText
<1>2. ASSUME NEW d PROVE ~Triggers(d, <<>>)
  BY <1>1, FoundMatches DEF Triggers, SecretsAt
<1>3. NormalizeForMatching(<<>>) = <<>>
  BY <1>1 DEF NormalizeForMatching
<1>. QED
  BY <1>2, <1>3 DEF CheckViolations

(* The output of each stream is a text, and shown as a marker, as nothing  *)
(* or as redacted text in which the probe finds nothing.                   *)
LEMMA ResultShows ==
  ASSUME IInv, NEW s \in Streams
  PROVE  \/ result.shown[s] \in Markers \cup {<<>>}
         \/ \E kept \in Seq(Symbol) :
              /\ result.shown[s] = RedactPermanent(kept)
              /\ ~CheckViolations(NormalizeForMatching(RedactPermanent(kept)))
<1>1. written[s] \in Seq(Symbol)
  BY DEF IInv, TypeOK
<1>2. CASE result.kind = "exited"
  BY <1>1, <1>2, SanitizeShows DEF IInv, Reported
<1>3. CASE result.kind # "exited"
  BY <1>3 DEF IInv, Reported, Silent
<1>. QED
  BY <1>2, <1>3

(* Nothing is shown that the probe would find, whatever the detectors, the *)
(* policy and the command (sanitize_text).                                 *)
THEOREM ResultProbedHolds == Spec => []ResultProbed
<1>1. IInv => ResultProbed
  BY ResultShows, SilenceClean DEF ResultProbed
<1>. QED
  BY Invariance, <1>1, PTL

(* Nor anything that a detector finds as it stands, if the detectors see   *)
(* redacted text no worse once it is normalized.                           *)
THEOREM ResultCleanHolds ==
  ASSUME RedactionLasts(Seq(Symbol))
  PROVE  Spec => []ResultClean
<1>1. ASSUME IInv, NEW s \in Streams
      PROVE  /\ ~CheckViolations(result.shown[s])
             /\ ~CheckViolations(NormalizeForMatching(result.shown[s]))
  BY <1>1, RedactionLasts(Seq(Symbol)), ResultShows, SilenceClean DEF RedactionLasts
<1>2. IInv => ResultClean
  BY <1>1 DEF ResultClean
<1>. QED
  BY Invariance, <1>2, PTL

(* One-way redaction leaves nothing to find if the rules match neither its *)
(* marks nor themselves in two places: then nothing is shown that a        *)
(* detector finds, raw or normalized, as long as the markers are clean.    *)
THEOREM SeparateResultClean ==
  ASSUME RulesSeparate,
         \A marker \in Markers :
           ~CheckViolations(marker) /\ ~CheckViolations(NormalizeForMatching(marker))
  PROVE  Spec => []ResultClean
<1>1. Seq(Symbol) \subseteq Seq(Symbol \cup {Masked})
  OBVIOUS
<1>2. \A text \in Seq(Symbol) : ~CheckViolations(RedactPermanent(text))
  BY <1>1, PermanentClean
<1>3. RedactionLasts(Seq(Symbol))
  BY <1>2 DEF RedactionLasts
<1>. QED
  BY <1>3, ResultCleanHolds

(* Output without anything to redact is shown whole, unless the result     *)
(* says that it was cut or suppressed (plain_output_is_returned_verbatim). *)
THEOREM OutputWholeHolds == Spec => []OutputWhole
<1>1. ASSUME IInv, result.kind = "exited", ~result.truncated, ~result.suppressed,
             NEW s \in Streams, Harmless(written[s])
      PROVE  result.shown[s] = written[s]
  <2>1. Truncate(written[s]) = written[s] /\ action.output # "suppress"
    BY <1>1 DEF IInv, Reported, Cut, Truncate
  <2>2. IsText(written[s])
    BY <1>1, TextOver DEF IInv, TypeOK
  <2>3. RedactPermanent(written[s]) = written[s]
    BY <1>1, <2>2, PermanentNothing DEF Harmless
  <2>. QED
    BY <1>1, <2>1, <2>3 DEF IInv, Reported, Sanitize, SanitizeText, Harmless
<1>2. IInv => OutputWhole
  BY <1>1 DEF OutputWhole
<1>. QED
  BY Invariance, <1>2, PTL

-----------------------------------------------------------------------------
(* What an execution runs was loaded from a signed policy (PolicyLoad), for *)
(* any texts, keys and number of edits and starts.  The invariant ties     *)
(* what each step of a load has read to the files, for as long as nobody   *)
(* changed them: the second and third reading of the policy are about the  *)
(* same bytes as the first.                                                *)


(* No load, signature or key yet: everything holds.                        *)
LEMMA PolicyInitHolds == PolicyInit => PolicyInv
<1> SUFFICES ASSUME PolicyInit PROVE PolicyInv
  OBVIOUS
<1>1. signer \in Signing /\ loader \in Loading
  BY DEF PolicyInit, Signing, Loading, Idle
<1>2. PolicyTypeOK
  BY <1>1 DEF PolicyInit, PolicyTypeOK
<1>3. loader # Refused
  BY DEF PolicyInit, Idle, Refused
<1>4. LoadFollowsFiles /\ SignatureOnRecord /\ NeverUnsigned /\ GoodPolicyLoads
  BY <1>3 DEF PolicyInit, Idle, LoadFollowsFiles, SignatureOnRecord, NeverUnsigned,
     Loaded, GoodPolicyLoads
<1> QED BY <1>2, <1>4 DEF PolicyInv

(* Every step keeps the types (Edit to ReadText).                          *)
LEMMA PolicyTypeStep == PolicyTypeOK /\ [PolicyNext]_policyVars => PolicyTypeOK'
<1> SUFFICES ASSUME PolicyTypeOK, [PolicyNext]_policyVars PROVE PolicyTypeOK'
  OBVIOUS
<1> USE FileAssumption DEF PolicyTypeOK, Signature, files, history
<1>1. ASSUME NEW t \in Texts, Edit(t) PROVE PolicyTypeOK'
  BY <1>1 DEF Edit
<1>2. ASSUME NEW k \in Keys, KeygenSecret(k) PROVE PolicyTypeOK'
  BY <1>2 DEF KeygenSecret
<1>3. CASE KeygenPublic
  BY <1>3 DEF KeygenPublic
<1>4. CASE KeygenFails
  BY <1>4 DEF KeygenFails
<1>5. CASE TakeOffline
  BY <1>5 DEF TakeOffline
<1>6. CASE SignRead
  BY <1>6 DEF SignRead, Signing
<1>7. CASE SignTruncate
  BY <1>7 DEF SignTruncate, Signing
<1>8. CASE SignWrite
  BY <1>8 DEF SignWrite, Signing, Idle
<1>9. CASE SignStops
  BY <1>9 DEF SignStops, Signing, Idle
<1>10. CASE ReadPolicy
  <2>1. loader' \in Loading
    BY <1>10 DEF ReadPolicy, Loading
  <2>2. loads' \in Nat /\ edits' \in Nat
    BY <1>10 DEF ReadPolicy
  <2>3. edited' \in BOOLEAN /\ replaced' \in BOOLEAN /\ signer' = signer
    BY <1>10 DEF ReadPolicy
  <2> QED BY <1>10, <2>1, <2>2, <2>3 DEF ReadPolicy
<1>11. CASE ReadKey
  BY <1>11 DEF ReadKey, Loading, Refused
<1>12. CASE Verify
  BY <1>12 DEF Verify, Loading, Refused
<1>13. CASE ReadBytes
  BY <1>13 DEF ReadBytes, Loading
<1>14. CASE ReadText
  BY <1>14 DEF ReadText, Loading, Refused
<1>15. CASE UNCHANGED policyVars
  BY <1>15 DEF policyVars
<1> QED BY <1>1, <1>2, <1>3, <1>4, <1>5, <1>6, <1>7, <1>8, <1>9, <1>10, <1>11,
           <1>12, <1>13, <1>14, <1>15 DEF PolicyNext, OperatorNext, LoadNext

(* A load keeps up with the files, and what it verified is on record.      *)
LEMMA PolicyLoadStep ==
  PolicyInv /\ [PolicyNext]_policyVars => (LoadFollowsFiles /\ SignatureOnRecord /\ NeverUnsigned /\ GoodPolicyLoads)'
<1> DEFINE Held == LoadFollowsFiles /\ SignatureOnRecord /\ NeverUnsigned /\ GoodPolicyLoads
<1> SUFFICES ASSUME PolicyInv, [PolicyNext]_policyVars PROVE Held'
  OBVIOUS
<1> USE FileAssumption DEF PolicyInv, PolicyTypeOK, LoadFollowsFiles,
       SignatureOnRecord, NeverUnsigned,
        GoodPolicyLoads, Loaded, Refused, files, history
<1>1. ASSUME NEW t \in Texts, Edit(t) PROVE Held'
  BY <1>1 DEF Edit
<1>2. ASSUME NEW k \in Keys, KeygenSecret(k) PROVE Held'
  BY <1>2 DEF KeygenSecret
<1>3. CASE KeygenPublic
  BY <1>3 DEF KeygenPublic
<1>4. CASE KeygenFails \/ TakeOffline \/ SignRead \/ SignStops
  BY <1>4 DEF KeygenFails, TakeOffline, SignRead, SignStops
<1>5. CASE SignTruncate
  BY <1>5 DEF SignTruncate
<1>6. CASE SignWrite
  BY <1>6 DEF SignWrite
<1>7. CASE ReadPolicy
  BY <1>7 DEF ReadPolicy, Loading
<1>8. CASE ReadKey
  BY <1>8 DEF ReadKey, Loading
<1>9. CASE Verify
  BY <1>9, SigAssumption DEF Verify, Verifies, Loading, Signature
<1>10. CASE ReadBytes
  BY <1>10 DEF ReadBytes, Loading
<1>11. CASE ReadText
  BY <1>11 DEF ReadText, Loading
<1>12. CASE UNCHANGED policyVars
  BY <1>12 DEF policyVars
<1> QED BY <1>1, <1>2, <1>3, <1>4, <1>5, <1>6, <1>7, <1>8, <1>9, <1>10, <1>11,
           <1>12 DEF PolicyNext, OperatorNext, LoadNext

(* What a load has seen is so while nobody changes it (load_signed_policy). *)
THEOREM PolicyInvariance == PolicySpec => []PolicyInv
<1>1. PolicyInv /\ [PolicyNext]_policyVars => PolicyInv'
  BY PolicyTypeStep, PolicyLoadStep DEF PolicyInv
<1> QED BY PolicyInitHolds, <1>1, PTL DEF PolicySpec

(* A start nobody interferes with runs what was signed, under its own      *)
(* fingerprint (load_signed_policy).                                       *)
THEOREM QuietLoadIsSignedHolds == PolicySpec => []QuietLoadIsSigned
<1>1. PolicyInv => QuietLoadIsSigned
  BY DEF PolicyInv, LoadFollowsFiles, NeverUnsigned, QuietLoadIsSigned, Loaded
<1> QED BY <1>1, PolicyInvariance, PTL

(* A start nobody interferes with is not refused for nothing.              *)
THEOREM GoodPolicyLoadsHolds == PolicySpec => []GoodPolicyLoads
<1>1. PolicyInv => GoodPolicyLoads
  BY DEF PolicyInv
<1> QED BY <1>1, PolicyInvariance, PTL
=============================================================================
