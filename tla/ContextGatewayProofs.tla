------------------------ MODULE ContextGatewayProofs ------------------------
(***************************************************************************)
(* Theorems of ContextGateway, for every list of detectors, all lines a    *)
(* server may write and pipes of any size: the gateway implements the      *)
(* filter of LineFilter, and loses nothing in its exit.                    *)
(***************************************************************************)
EXTENDS ContextGateway, RedactionProofs

-----------------------------------------------------------------------------
(* The sanitizer.                                                          *)

(* What a line is made of.                                                 *)
LEMMA LineTypes ==
  ASSUME NEW line \in Lines
  PROVE  /\ line = [kind |-> line.kind, keys |-> line.keys, values |-> line.values]
         /\ line.keys \in Seq(ToSet(line.keys)) /\ line.values \in Seq(ToSet(line.values))
         /\ \A text \in ToSet(line.keys) \cup ToSet(line.values) : IsText(text)
         /\ \A i \in DOMAIN line.values : IsText(line.values[i])
BY LinesAssumption DEF ToSet

(* A line with nothing to mask in its values is not redacted.              *)
LEMMA HarmlessTree ==
  ASSUME NEW line \in Lines, \A i \in DOMAIN line.values : NothingToMask(line.values[i])
  PROVE  RedactTree(line) = line
<1>1. [i \in DOMAIN line.values |-> RedactPermanent(line.values[i])] = line.values
  <2>1. line.values = [i \in DOMAIN line.values |-> line.values[i]]
    BY LineTypes
  <2>2. \A i \in DOMAIN line.values : RedactPermanent(line.values[i]) = line.values[i]
    BY LineTypes, PermanentNothing
  <2> QED
    BY <2>1, <2>2
<1> QED
  BY <1>1, LineTypes DEF RedactTree

(* What the probe alone vouches for: nothing that a detector finds across  *)
(* the strings of a result.                                                *)
StandsAsProbed(passed, line) ==
  IF line.kind = "result"
    THEN /\ passed = Withheld(line) \/ Clean(passed)
         /\ Harmless(line) => passed = line
    ELSE passed = line

Probed == INSTANCE LineFilter WITH Lines <- Lines \cup Fragments, Stands <- StandsAsProbed

(* A line on the pipe: one of the server's, or one that is no message.     *)
IsLine(line) == line \in Lines \/ line.kind \in {"torn", "joined"}

(* What the sanitizer makes of a line may stand for it (sanitize_rpc_line). *)
LEMMA SanitizedStands ==
  ASSUME NEW line, IsLine(line)
  PROVE  /\ StandsAsProbed(SanitizeRpcLine(line), line)
         /\ ProbeReaches => Stands(SanitizeRpcLine(line), line)
<1>1. CASE line.kind # "result"
  BY <1>1 DEF SanitizeRpcLine, StandsAsProbed, Stands
<1>2. CASE line.kind = "result"
  <2>1. line \in Lines /\ line \in Results
    BY <1>2 DEF IsLine, Results
  <2>2. SanitizeRpcLine(line) =
          IF Probe(RedactTree(line)) THEN Withheld(line) ELSE RedactTree(line)
    BY <1>2, <2>1 DEF SanitizeRpcLine, Sanitized
  <2>3. CASE Probe(RedactTree(line))
    <3>1. ~Harmless(line)
      BY <2>1, <2>3, HarmlessTree DEF Harmless, Clean, Probe
    <3> QED
      BY <1>2, <2>2, <2>3, <3>1 DEF StandsAsProbed, Stands
  <2>4. CASE ~Probe(RedactTree(line))
    <3>1. Clean(RedactTree(line))
      BY <2>4 DEF Clean, Probe
    <3>2. Harmless(line) => RedactTree(line) = line
      BY <2>1, HarmlessTree DEF Harmless
    <3>3. ProbeReaches => StringsClean(RedactTree(line))
      BY <1>2, <2>1, <3>1 DEF ProbeReaches
    <3> QED
      BY <1>2, <2>2, <2>4, <3>1, <3>2, <3>3 DEF StandsAsProbed, Stands
  <2> QED
    BY <2>3, <2>4
<1> QED
  BY <1>1, <1>2

-----------------------------------------------------------------------------
(* The pump.                                                               *)

(* Nothing is said, read or passed on yet.                                 *)
LEMMA InitHolds == Init => IInv
BY DEF Init, IInv, InOrder, OpenAtEnd, InHand, EndedOnPurpose, ToSet

(* What somebody writes is a line of its own, or continues the last one,   *)
(* which has not been passed on.                                           *)
LEMMA WrittenKeeps ==
  ASSUME InOrder, NEW line \in Lines \cup Fragments, said' = Written(line),
         UNCHANGED out, LineOpen => Len(out) < Len(said)
  PROVE  /\ InOrder'
         /\ ~LineOpen => said' = Append(said, line)
         /\ LineOpen => /\ said' = [said EXCEPT ![Len(said)] = Joined(said[Len(said)], line)]
                        /\ Len(said') = Len(said)
<1> DEFINE n == Len(said)
           S == ToSet(said) \cup {line, Joined(said[n], line)}
<1>1. /\ n \in Nat /\ said \in Seq(ToSet(said)) /\ DOMAIN said = 1..n
      /\ Len(out) \in Nat /\ Len(out) <= n
  BY DEF InOrder
<1>2. IsLine(line) /\ IsLine(Joined(said[n], line)) /\ \A i \in 1..n : IsLine(said[i])
  BY <1>1, LinesAssumption DEF IsLine, Joined, InOrder
<1>3. said \in Seq(S)
  BY <1>1
<1>4. CASE ~LineOpen
  <2>1. said' = Append(said, line)
    BY <1>4 DEF Written
  <2>2. /\ said' \in Seq(S) /\ Len(said') = n + 1
        /\ \A i \in 1..n : said'[i] = said[i]
        /\ said'[n + 1] = line
    BY <1>1, <1>3, <2>1
  <2>3. IsText(said') /\ DOMAIN said' = 1..(n + 1)
    BY <2>2, TextOver
  <2>4. \A i \in DOMAIN said' : IsLine(said'[i])
    BY <1>1, <1>2, <2>2, <2>3
  <2>5. \A i \in 1..Len(out) : said'[i] = said[i]
    BY <1>1, <2>2
  <2>6. InOrder'
    BY <1>1, <2>2, <2>3, <2>4, <2>5 DEF InOrder, IsText, IsLine
  <2> QED
    BY <1>4, <2>1, <2>6
<1>5. CASE LineOpen
  <2>1. said # <<>> /\ Last(said) = said[n] /\ Len(out) < n
    BY <1>5 DEF LineOpen, Last
  <2>2. said' = [said EXCEPT ![n] = Joined(said[n], line)]
    BY <1>5, <2>1 DEF Written
  <2>3. /\ said' \in Seq(S) /\ Len(said') = n
        /\ \A i \in 1..n : i # n => said'[i] = said[i]
        /\ said'[n] = Joined(said[n], line)
    <3> DEFINE line2 == Joined(said[n], line)
    <3>1. n \in 1..n /\ line2 \in S
      BY <1>1, <2>1
    <3>2. said' = [said EXCEPT ![n] = line2]
      BY <2>2
    <3> HIDE DEF n, S, line2
    <3>3. /\ said' \in Seq(S) /\ Len(said') = Len(said)
          /\ \A i \in 1..n : i # n => said'[i] = said[i]
          /\ said'[n] = line2
      BY <1>1, <1>3, <3>1, <3>2
    <3> QED
      BY <3>3 DEF n, line2
  <2>4. IsText(said') /\ DOMAIN said' = 1..n
    BY <2>3, TextOver
  <2>5. \A i \in DOMAIN said' : IsLine(said'[i])
    BY <1>1, <1>2, <2>3, <2>4
  <2>6. \A i \in 1..Len(out) : said'[i] = said[i]
    <3>1. \A i \in 1..Len(out) : i \in 1..n /\ i # n
      <4> DEFINE m == Len(out)
      <4>1. m \in Nat /\ n \in Nat /\ m < n
        BY <1>1, <2>1
      <4> HIDE DEF m, n
      <4>2. \A i \in 1..m : i \in 1..n /\ i # n
        BY <4>1
      <4> QED
        BY <4>2 DEF m, n
    <3> HIDE DEF n
    <3> QED
      BY <2>3, <3>1
  <2>7. InOrder'
    BY <1>1, <2>3, <2>4, <2>5, <2>6 DEF InOrder, IsText, IsLine
  <2> QED
    BY <1>5, <2>2, <2>3, <2>7
<1> QED
  BY <1>4, <1>5

(* One more line passed on: the one that follows those that arrived.       *)
LEMMA PassKeeps ==
  ASSUME InOrder, Len(out) + 1 <= Len(said),
         out' = Append(out, SanitizeRpcLine(said[Len(out) + 1])), UNCHANGED said
  PROVE  /\ InOrder' /\ Len(out') = Len(out) + 1
         /\ SubSeq(out', 1, Len(out)) = out
         /\ out'[Len(out')] = SanitizeRpcLine(said[Len(out) + 1])
<1> DEFINE T == {SanitizeRpcLine(said[i]) : i \in DOMAIN said}
<1>1. Len(said) \in Nat /\ Len(out) \in Nat /\ DOMAIN said = 1..Len(said)
  BY DEF InOrder
<1>2. out \in Seq(T) /\ SanitizeRpcLine(said[Len(out) + 1]) \in T
  BY <1>1 DEF InOrder
<1>3. Len(out') = Len(out) + 1 /\ SubSeq(out', 1, Len(out)) = out
  BY <1>1, <1>2
<1>4. out'[Len(out')] = SanitizeRpcLine(said[Len(out) + 1])
  BY <1>1, <1>2, <1>3
<1>5. out' = [i \in 1..Len(out') |-> SanitizeRpcLine(said'[i])]
  BY <1>1, <1>2, <1>3 DEF InOrder
<1> QED
  BY <1>1, <1>3, <1>4, <1>5 DEF InOrder

(* Whatever leaves the pump and its pipes alone: the harness and the       *)
(* server's ends only give it more reasons to have ended.                  *)
LEMMA AsideKeeps ==
  ASSUME IInv, UNCHANGED <<said, taken, down, out, main>>,
         listening' => listening,
         server # "running" => server' # "running",
         helper' = "running" => helper = "running" \/ server = "running"
  PROVE  IInv'
BY DEF IInv, InOrder, OpenAtEnd, InHand, EndedOnPurpose, NobodyLeft

(* A server or a helper that writes has somebody who reads, and what it    *)
(* continues has not been taken.                                           *)
LEMMA SpeechKeeps ==
  ASSUME IInv, Heard, ~NobodyLeft, NEW line \in Lines \cup Fragments, said' = Written(line),
         UNCHANGED <<taken, down, out, main>>
  PROVE  /\ IInv'
         /\ LineOpen => Len(out) < Len(said)
<1> DEFINE n == Len(said)
<1>1. /\ n \in Nat /\ said \in Seq(ToSet(said)) /\ DOMAIN said = 1..n
      /\ Len(out) \in Nat /\ taken \in Nat /\ taken <= n
  BY DEF IInv, InOrder
<1>2. down # "ended" /\ main # "exited" /\ Len(out) <= taken
  BY <1>1 DEF Heard, Running, IInv, InHand
<1>3. LineOpen <=> n # 0 /\ Unfinished(said[n])
  BY <1>1 DEF LineOpen, Last
<1>4. LineOpen => taken < n
  BY <1>1, <1>3 DEF IInv, OpenAtEnd
<1>5. /\ InOrder'
      /\ ~LineOpen => said' = Append(said, line)
      /\ LineOpen => said' = [said EXCEPT ![n] = Joined(said[n], line)] /\ Len(said') = n
  <2>1. LineOpen => Len(out) < Len(said)
    BY <1>1, <1>2, <1>4
  <2>2. InOrder /\ UNCHANGED out
    BY DEF IInv
  <2> QED
    BY <2>1, <2>2, WrittenKeeps
<1>6. InHand' /\ taken' = taken /\ down' # "ended" /\ main' # "exited"
  BY <1>2 DEF IInv, InHand
<1>7. CASE ~LineOpen
  <2>1. Len(said') = n + 1 /\ DOMAIN said' = 1..(n + 1) /\ \A i \in 1..n : said'[i] = said[i]
    <3> DEFINE S == ToSet(said) \cup {line}
    <3>1. line \in S /\ ToSet(said) \subseteq S /\ said' = Append(said, line)
      BY <1>5, <1>7
    <3> HIDE DEF n, S
    <3>2. said \in Seq(S)
      BY <1>1, <3>1
    <3> QED
      BY <1>1, <3>1, <3>2 DEF n
  <2>2. \A i \in 1..n : ~Unfinished(said[i])
    BY <1>1, <1>3, <1>7 DEF IInv, OpenAtEnd
  <2>3. OpenAtEnd'
    <3>1. taken' = taken /\ \A i \in 1..(n + 1) : i \in 1..n \/ (i = n + 1 /\ ~(i <= taken'))
      BY <1>1
    <3> HIDE DEF n
    <3> QED
      BY <2>1, <2>2, <3>1 DEF OpenAtEnd, Unfinished
  <2>4. taken' \in 0..Len(said')
    BY <1>1, <1>6, <2>1
  <2>5. IInv'
    BY <1>5, <1>6, <2>3, <2>4 DEF IInv, EndedOnPurpose
  <2> QED
    BY <1>1, <1>2, <1>4, <1>7, <2>5
<1>8. CASE LineOpen
  <2>1. Len(said') = n /\ DOMAIN said' = 1..n /\ \A i \in 1..n : i # n => said'[i] = said[i]
    <3>1. said' = [said EXCEPT ![n] = Joined(said[n], line)] /\ n \in 1..n
      BY <1>1, <1>3, <1>5, <1>8
    <3>2. DOMAIN said' = DOMAIN said /\ \A i \in 1..n : i # n => said'[i] = said[i]
      BY <1>1, <3>1
    <3> QED
      BY <1>1, <1>5, <1>8, <3>2
  <2>2. \A i \in 1..n : i # n => ~Unfinished(said[i])
    BY <1>1 DEF IInv, OpenAtEnd
  <2>3. OpenAtEnd'
    <3>1. taken' = taken /\ ~(n <= taken')
      BY <1>1, <1>4, <1>8
    <3> HIDE DEF n
    <3> QED
      BY <2>1, <2>2, <3>1 DEF OpenAtEnd, Unfinished
  <2>4. taken' \in 0..Len(said')
    <3>1. taken \in 0..n
      BY DEF IInv
    <3>2. taken' = taken /\ Len(said') = n
      BY <1>6, <2>1
    <3> HIDE DEF n
    <3> QED
      BY <3>1, <3>2
  <2>5. IInv'
    BY <1>5, <1>6, <2>3, <2>4 DEF IInv, EndedOnPurpose
  <2> QED
    BY <1>1, <1>2, <1>4, <1>8, <2>5
<1> QED
  BY <1>7, <1>8

(* Each step keeps the invariant.                                          *)
LEMMA StepKeeps == IInv /\ [Next]_vars => IInv'
<1> SUFFICES ASSUME IInv, [Next]_vars PROVE IInv'
  OBVIOUS
<1> USE DEF harnessVars, serverVars
<1>0. Len(said) \in Nat /\ Len(out) \in Nat /\ taken \in Nat /\ taken <= Len(said)
  BY DEF IInv, InOrder
<1>1. CASE HarnessNext
  BY <1>1, AsideKeeps DEF HarnessNext, HarnessSend, HarnessHangUp, HarnessRead,
     HarnessLeave
<1>2. CASE UpRead \/ UpEof \/ UpWrite \/ UpBroken
  BY <1>2, AsideKeeps DEF UpRead, UpEof, UpWrite, UpBroken
<1>3. CASE ServerRead \/ ServerStartHelper \/ HelperExit
  BY <1>3, AsideKeeps DEF ServerRead, ServerStartHelper, HelperExit
<1>4. CASE ServerQuits \/ ServerFails \/ ServerBroken
  BY <1>4, AsideKeeps DEF ServerQuits, ServerFails, ServerBroken, ServerEnds
<1>5. CASE ServerSay \/ HelperSay \/ ServerDiesWriting \/ HelperDiesWriting
  BY <1>5, SpeechKeeps DEF ServerSay, HelperSay, ServerDiesWriting, HelperDiesWriting,
     CanSay, NobodyLeft
<1>7. CASE DownRead
  <2>1. OpenAtEnd'
    BY <1>7, <1>0 DEF DownRead, IInv, OpenAtEnd, InOrder, NobodyLeft, LineComplete
  <2> QED
    BY <1>7, <1>0, <2>1 DEF DownRead, Running, InPipe, IInv, InOrder, InHand, EndedOnPurpose
<1>8. CASE DownEof
  BY <1>8, <1>0 DEF DownEof, Running, InPipe, NobodyLeft, IInv, InOrder, OpenAtEnd, InHand, EndedOnPurpose
<1>9. CASE DownWrite
  <2>1. taken = Len(out) + 1
    BY <1>9 DEF DownWrite, IInv, InHand
  <2>2. InOrder' /\ Len(out') = Len(out) + 1
    BY <1>9, <1>0, <2>1, PassKeeps DEF DownWrite, IInv
  <2> QED
    BY <1>9, <2>1, <2>2 DEF DownWrite, Running, IInv, OpenAtEnd, NobodyLeft, InHand, EndedOnPurpose
<1>10. CASE DownBroken
  BY <1>10 DEF DownBroken, Running, NobodyLeft, IInv, InOrder, OpenAtEnd, InHand, EndedOnPurpose
<1>11. CASE MainWait
  BY <1>11 DEF MainWait, NobodyLeft, IInv, InOrder, OpenAtEnd, InHand, EndedOnPurpose
<1>12. CASE MainExit
  BY <1>12 DEF MainExit, JoinedPumps, NobodyLeft, IInv, InOrder, OpenAtEnd, InHand, EndedOnPurpose
<1>13. CASE UNCHANGED vars
  BY <1>13 DEF vars, NobodyLeft, IInv, InOrder, OpenAtEnd, InHand, EndedOnPurpose
<1> QED
  BY <1>1, <1>2, <1>3, <1>4, <1>5, <1>7, <1>8, <1>9, <1>10, <1>11, <1>12, <1>13
     DEF Next, ServerNext, GatewayNext

(* What arrived is what the sanitizer makes of the first lines said, and a *)
(* pump that has ended had a reason (pump_downstream).                     *)
THEOREM Invariance == Spec => []IInv
BY InitHolds, StepKeeps, PTL DEF Spec

(* When the gateway exits while the harness listens, nothing the server or *)
(* its helper said is lost (the join in run_gateway).                      *)
THEOREM NothingLostAtExitHolds == Spec => []NothingLostAtExit
<1>1. IInv => NothingLostAtExit
  BY DEF IInv, EndedOnPurpose, NothingLostAtExit
<1> QED
  BY <1>1, Invariance, PTL

-----------------------------------------------------------------------------
(* The filter.                                                             *)

(* A step of the gateway says a line, goes on with one, passes on the next *)
(* one, or does neither.                                                   *)
LEMMA StepFilters ==
  ASSUME IInv, [Next]_vars
  PROVE  \/ UNCHANGED <<said, out>>
         \/ /\ UNCHANGED out
            /\ ~(said # <<>> /\ Unfinished(said[Len(said)]))
            /\ \E line \in Lines \cup Fragments : said' = Append(said, line)
         \/ /\ UNCHANGED out
            /\ said # <<>> /\ Unfinished(said[Len(said)]) /\ Len(out) < Len(said)
            /\ \E line \in Lines \cup Fragments :
                 said' = [said EXCEPT ![Len(said)] = Joined(said[Len(said)], line)]
         \/ /\ UNCHANGED said
            /\ Len(out') = Len(out) + 1 /\ Len(out') <= Len(said)
            /\ SubSeq(out', 1, Len(out)) = out
            /\ out'[Len(out')] = SanitizeRpcLine(said[Len(out')])
            /\ IsLine(said[Len(out')])
<1> USE DEF harnessVars, serverVars
<1>1. CASE ServerSay \/ HelperSay \/ ServerDiesWriting \/ HelperDiesWriting
  <2>1. PICK line \in Lines \cup Fragments : said' = Written(line)
    BY <1>1 DEF ServerSay, HelperSay, ServerDiesWriting, HelperDiesWriting
  <2>2. Heard /\ ~NobodyLeft /\ UNCHANGED <<taken, down, out, main>>
    BY <1>1 DEF ServerSay, HelperSay, ServerDiesWriting, HelperDiesWriting, CanSay, NobodyLeft
  <2>3. LineOpen => Len(out) < Len(said)
    BY <2>1, <2>2, SpeechKeeps
  <2>4. /\ ~LineOpen => said' = Append(said, line)
        /\ LineOpen => said' = [said EXCEPT ![Len(said)] = Joined(said[Len(said)], line)]
    BY <2>1, <2>2, <2>3, WrittenKeeps DEF IInv
  <2>5. LineOpen <=> said # <<>> /\ Unfinished(said[Len(said)])
    BY DEF LineOpen, Last
  <2> QED
    BY <2>2, <2>3, <2>4, <2>5
<1>2. CASE DownWrite
  <2>1. taken = Len(out) + 1 /\ taken \in 1..Len(said) /\ InOrder
    BY <1>2 DEF DownWrite, IInv, InHand, InOrder
  <2>2. /\ Len(out') = Len(out) + 1 /\ SubSeq(out', 1, Len(out)) = out
        /\ out'[Len(out')] = SanitizeRpcLine(said[Len(out) + 1])
    BY <1>2, <2>1, PassKeeps DEF DownWrite
  <2>3. Len(out') = taken /\ IsLine(said[taken]) /\ taken <= Len(said)
    BY <2>1, <2>2 DEF InOrder, IsLine
  <2>4. UNCHANGED said
    BY <1>2 DEF DownWrite
  <2> QED
    BY <2>1, <2>2, <2>3, <2>4
<1>3. CASE UNCHANGED <<said, out>>
  BY <1>3
<1> QED
  BY <1>1, <1>2, <1>3 DEF Next, vars, HarnessNext, ServerNext, GatewayNext,
     HarnessSend, HarnessHangUp, HarnessRead, HarnessLeave, UpRead, UpEof, UpWrite,
     UpBroken, ServerRead, ServerStartHelper, ServerQuits, ServerFails, ServerBroken,
     ServerEnds, HelperExit, DownRead, DownEof, DownBroken, MainWait, MainExit

(* The gateway is a filter through which nothing passes that a detector    *)
(* finds in a tool result as it is serialized: each line in its place, at  *)
(* most once, when it is over, and unchanged when there is nothing to      *)
(* find.  A line that was not finished is one with what was written next.  *)
THEOREM ProbedHolds == Spec => Probed!Spec
<1>1. Init => Probed!Init
  BY DEF Init, Probed!Init
<1>2. IInv /\ [Next]_vars => [Probed!Say \/ Probed!Continue \/ Probed!Pass]_Probed!vars
  BY StepFilters, SanitizedStands
     DEF Probed!Say, Probed!Continue, Probed!Open, Probed!Pass, Probed!vars
<1> QED
  BY <1>1, <1>2, Invariance, PTL DEF Spec, Probed!Spec

(* With detectors whose finds in a string the probe of the serialized      *)
(* result makes too, when the string needed no escape there, nothing       *)
(* passes that one finds in such a string of it either.                    *)
THEOREM FilteredHolds ==
  ASSUME ProbeReaches
  PROVE  Spec => Filtered
<1>1. Init => Filter!Init
  BY DEF Init, Filter!Init
<1>2. IInv /\ [Next]_vars => [Filter!Say \/ Filter!Continue \/ Filter!Pass]_Filter!vars
  BY ProbeReaches, StepFilters, SanitizedStands
     DEF Filter!Say, Filter!Continue, Filter!Open, Filter!Pass, Filter!vars
<1> QED
  BY <1>1, <1>2, Invariance, PTL DEF Spec, Filter!Spec, Filtered

(* If no rule matches in two places that overlap, what one finds in a      *)
(* string of a result that needs no escape it also finds in the result as  *)
(* it is serialized.                                                       *)
LEMMA ApartReaches == RulesApart => ProbeReaches
<1> SUFFICES ASSUME RulesApart, NEW line \in Lines, Clean(RedactTree(line)),
                    NEW text \in ToSet(RedactTree(line).keys) \cup ToSet(RedactTree(line).values),
                    Escaped(text) = text,
                    CheckViolations(NormalizeForMatching(text))
             PROVE  FALSE
  BY DEF ProbeReaches, StringsClean
<1> DEFINE tree == RedactTree(line)
           redacted == [i \in DOMAIN line.values |-> RedactPermanent(line.values[i])]
           all == line.keys \o redacted
           given == UNION {ToSet(t) : t \in ToSet(line.keys) \cup ToSet(line.values)}
           W == given \cup {Masked}
<1>1. tree.keys = line.keys /\ tree.values = redacted
  BY LineTypes DEF RedactTree
<1>2. \A t \in ToSet(line.keys) \cup ToSet(line.values) : t \in Seq(W)
  <2> SUFFICES ASSUME NEW t \in ToSet(line.keys) \cup ToSet(line.values) PROVE t \in Seq(W)
    OBVIOUS
  <2>1. t \in Seq(ToSet(t))
    BY LineTypes DEF IsText
  <2>2. ToSet(t) \subseteq W
    OBVIOUS
  <2> HIDE DEF W
  <2> QED
    BY <2>1, <2>2
<1>3. Masked \in W
  <2> HIDE DEF given
  <2> QED
    OBVIOUS
<1> HIDE DEF W
<1>4. line.keys \in Seq(Seq(W))
  <2>1. line.keys \in Seq(ToSet(line.keys)) /\ ToSet(line.keys) \subseteq Seq(W)
    BY <1>2, LineTypes
  <2> QED
    BY <2>1
<1>5. redacted \in Seq(Seq(W))
  <2>1. line.values \in Seq(ToSet(line.values)) /\ DOMAIN line.values = 1..Len(line.values)
    BY LineTypes
  <2>2. ASSUME NEW i \in DOMAIN line.values PROVE RedactPermanent(line.values[i]) \in Seq(W)
    <3>1. line.values[i] \in Seq(W)
      BY <1>2 DEF ToSet
    <3> QED
      BY <1>3, <3>1, PermanentTyped
  <2> QED
    BY <2>1, <2>2
<1> HIDE DEF redacted
<1>6. all \in Seq(Seq(W)) /\ \A t \in ToSet(line.keys) \cup ToSet(redacted) : \E i \in 1..Len(all) : all[i] = t
  <2>1. /\ all \in Seq(Seq(W)) /\ Len(all) = Len(line.keys) + Len(redacted)
        /\ Len(line.keys) \in Nat /\ Len(redacted) \in Nat
        /\ DOMAIN line.keys = 1..Len(line.keys) /\ DOMAIN redacted = 1..Len(redacted)
        /\ \A i \in 1..Len(line.keys) : all[i] = line.keys[i]
        /\ \A i \in 1..Len(redacted) : all[Len(line.keys) + i] = redacted[i]
    BY <1>4, <1>5
  <2> HIDE DEF all
  <2>2. ASSUME NEW t \in ToSet(line.keys) PROVE \E i \in 1..Len(all) : all[i] = t
    <3>1. PICK i \in 1..Len(line.keys) : line.keys[i] = t
      BY <2>1, <2>2 DEF ToSet
    <3> QED
      BY <2>1, <3>1
  <2>3. ASSUME NEW t \in ToSet(redacted) PROVE \E i \in 1..Len(all) : all[i] = t
    <3>1. PICK i \in 1..Len(redacted) : redacted[i] = t
      BY <2>1, <2>3 DEF ToSet
    <3>2. Len(line.keys) + i \in 1..Len(all) /\ all[Len(line.keys) + i] = t
      BY <2>1, <3>1
    <3> QED
      BY <3>2
  <2> QED
    BY <2>1, <2>2, <2>3
<1>7. PICK i \in 1..Len(all) : all[i] = text
  BY <1>1, <1>6
<1> DEFINE X == W \cup {Punctuation} \cup {Literal(Escapes[name]) : name \in DOMAIN Escapes}
           pieces == [k \in DOMAIN all |-> Append(Escaped(all[k]), Punctuation)]
<1>8. Serialized(tree) = FlattenSeq(pieces)
  BY <1>1 DEF Serialized
<1> HIDE DEF all, tree
<1>9. ASSUME NEW t \in Seq(W) PROVE Escaped(t) \in Seq(X)
  <2>1. DOMAIN t = 1..Len(t) /\ Len(t) \in Nat /\ \A k \in 1..Len(t) : t[k] \in W
    BY <1>9
  <2> QED
    BY <2>1 DEF Escaped
<1>10. text \in Seq(W) /\ text \in Seq(X) /\ all \in Seq(Seq(W)) /\ Punctuation \in X
  BY <1>6, <1>7
<1> HIDE DEF X
<1>11. pieces \in Seq(Seq(X)) /\ Len(pieces) = Len(all) /\ pieces[i] = Append(text, Punctuation)
  <2>1. DOMAIN all = 1..Len(all) /\ Len(all) \in Nat /\ \A k \in 1..Len(all) : all[k] \in Seq(W)
    BY <1>10
  <2>2. \A k \in 1..Len(all) : Append(Escaped(all[k]), Punctuation) \in Seq(X)
    BY <1>9, <1>10, <2>1
  <2>3. pieces[i] = Append(text, Punctuation)
    BY <1>7, <2>1
  <2> QED
    BY <2>1, <2>2, <2>3
<1> HIDE DEF pieces
<1>12. PICK a : IsPartAt(a, Append(text, Punctuation), FlattenSeq(pieces))
  BY <1>7, <1>11, FlattenHolds
<1>13. IsPartAt(a, text, FlattenSeq(pieces)) /\ FlattenSeq(pieces) \in Seq(X)
  <2>1. FlattenSeq(pieces) \in Seq(X) /\ Len(FlattenSeq(pieces)) \in Nat
    BY <1>7, <1>11, FlattenHolds
  <2>2. /\ Len(text) \in Nat /\ Len(Append(text, Punctuation)) = Len(text) + 1
        /\ \A k \in 1..Len(text) : Append(text, Punctuation)[k] = text[k]
    BY <1>10
  <2>3. /\ a \in Nat /\ a + (Len(text) + 1) <= Len(FlattenSeq(pieces))
        /\ \A k \in 1..(Len(text) + 1) : FlattenSeq(pieces)[a + k] = Append(text, Punctuation)[k]
    BY <1>12, <2>2 DEF IsPartAt
  <2>4. \A k \in 1..Len(text) : k \in 1..(Len(text) + 1)
    BY <2>2
  <2> QED
    BY <2>1, <2>2, <2>3, <2>4 DEF IsPartAt
<1>14. CheckViolations(NormalizeForMatching(Serialized(tree)))
  BY <1>8, <1>10, <1>13, PartNormalized
<1> QED
  BY <1>14 DEF Clean, tree

(* So with such rules the gateway is the filter it promises to be.         *)
THEOREM ApartFiltered ==
  ASSUME RulesApart
  PROVE  Spec => Filtered
BY ApartReaches, FilteredHolds
=============================================================================
