---------------------------- MODULE EgressProofs ----------------------------
(***************************************************************************)
(* Theorems of Egress, for every list of detectors, any fields, texts and  *)
(* number of requests, and whatever the provider makes of what it got: an  *)
(* answer is only assumed to be lines of symbols the provider may know.    *)
(*                                                                         *)
(* The invariant is one request's own: how far its scan is, that what lies *)
(* behind has passed and what lies ahead is as it arrived, that what left  *)
(* is the scanned body, and that what came back is the inspected answer.   *)
(* The rest follows from what the operators of Redaction do to a text.     *)
(***************************************************************************)
EXTENDS Egress, RedactionProofs

(* Nothing happens to request t.                                           *)
Same(t) ==
  /\ stage'[t] = stage[t] /\ received'[t] = received[t] /\ body'[t] = body[t]
  /\ next'[t] = next[t] /\ values'[t] = values[t] /\ sent'[t] = sent[t]
  /\ reply'[t] = reply[t] /\ answer'[t] = answer[t]

(* What can happen to request s.                                           *)
Step(s) ==
  \/ TurnAway(s) \/ ArriveJson(s) \/ ArriveNonJson(s)
  \/ Skip(s) \/ BlockViolation(s) \/ BlockObfuscated(s) \/ Redact(s)
  \/ Forward(s) \/ Respond(s) \/ FailAnswer(s)

(* A step is one request's: the others are where they were.                *)
LEMMA OneAtATime ==
  ASSUME Shape, NEW s \in Session, Step(s), UNCHANGED action
  PROVE  Shape' /\ \A t \in Session \ {s} : Same(t)
<1> USE DEF Shape, Same, Become, At
<1>1. CASE TurnAway(s)
  BY <1>1 DEF TurnAway
<1>2. CASE ArriveJson(s) \/ ArriveNonJson(s)
  BY <1>2 DEF ArriveJson, ArriveNonJson, Arrive
<1>3. CASE Skip(s)
  BY <1>3 DEF Skip
<1>4. CASE BlockViolation(s)
  BY <1>4 DEF BlockViolation
<1>5. CASE BlockObfuscated(s)
  BY <1>5 DEF BlockObfuscated
<1>6. CASE Redact(s)
  BY <1>6 DEF Redact
<1>7. CASE Forward(s)
  BY <1>7 DEF Forward
<1>8. CASE Respond(s)
  BY <1>8 DEF Respond, Answer, BlockAnswer
<1>9. CASE FailAnswer(s)
  BY <1>9 DEF FailAnswer
<1> QED
  BY <1>1, <1>2, <1>3, <1>4, <1>5, <1>6, <1>7, <1>8, <1>9 DEF Step

(* What the inspection makes of an answer depends on the request's values. *)
LEMMA SameInspection ==
  ASSUME NEW s \in Session, values'[s] = values[s], UNCHANGED action, NEW r
  PROVE  /\ Inspected(s, r)' = Inspected(s, r)
         /\ \A i \in DOMAIN r : Collides(s, r[i].strings)' = Collides(s, r[i].strings)
<1>1. \A text, p : TransformString(s, text, p)' = TransformString(s, text, p)
  BY DEF TransformString, Redacted
<1>2. \A p : Rekeyed(s, p)' = Rekeyed(s, p)
  BY <1>1 DEF Rekeyed
<1>3. \A strings : TransformJsonStrings(s, strings)' = TransformJsonStrings(s, strings)
  BY <1>1, <1>2, ZenonT(60) DEF TransformJsonStrings
<1>4. \A strings : Collides(s, strings)' = Collides(s, strings)
  BY <1>2, ZenonT(60) DEF Collides
<1>5. Inspected(s, r)' = Inspected(s, r)
  BY <1>3 DEF Inspected, InspectedLine
<1> QED
  BY <1>4, <1>5

(* What the invariant says of a request depends on that request only.      *)
LEMMA SameKeeps ==
  ASSUME NEW t \in Session, InvOf(t), Same(t), UNCHANGED action
  PROVE  InvOf(t)'
<1> USE DEF InvOf, Same
<1>1. Typed(t)'
  BY DEF Typed
<1>2. ScannedSoFar(t)'
  BY DEF ScannedSoFar, TargetsOf, IsJson, Passed
<1>3. SentScanned(t)'
  BY DEF SentScanned, TargetsOf, IsJson
<1>4. AnswerInspected(t)'
  BY SameInspection DEF AnswerInspected
<1>5. BlockKeeps(t)'
  BY DEF BlockKeeps
<1> QED
  BY <1>1, <1>2, <1>3, <1>4, <1>5

-----------------------------------------------------------------------------
(* The scan.                                                               *)

(* The targets of a body are its fields, each once.                        *)
LEMMA TargetsTyped ==
  ASSUME NEW b
  PROVE  /\ Len(TargetsOf(b)) \in Nat /\ DOMAIN TargetsOf(b) = 1..Len(TargetsOf(b))
         /\ \A i, j \in DOMAIN TargetsOf(b) : TargetsOf(b)[i] = TargetsOf(b)[j] => i = j
         /\ \A i \in DOMAIN TargetsOf(b) : TargetsOf(b)[i] \in ToSet(Fields) \cup {NoPointer}
         /\ DOMAIN b \in {ToSet(Fields), {NoPointer}} => DOMAIN b = ToSet(TargetsOf(b))
<1>1. CASE IsJson(b)
  <2>1. TargetsOf(b) = Fields /\ NoPointer \notin DOMAIN b
    BY <1>1 DEF TargetsOf, IsJson
  <2>2. Len(Fields) \in Nat /\ DOMAIN Fields = 1..Len(Fields)
    BY FieldsAssumption
  <2>3. \A i, j \in DOMAIN Fields : Fields[i] = Fields[j] => i = j
    BY FieldsAssumption DEF IsInjective
  <2>4. \A i \in DOMAIN Fields : Fields[i] \in ToSet(Fields)
    BY DEF ToSet
  <2>5. DOMAIN b \in {ToSet(Fields), {NoPointer}} => DOMAIN b = ToSet(Fields)
    BY <2>1
  <2> QED
    BY <2>1, <2>2, <2>3, <2>4, <2>5
<1>2. CASE ~IsJson(b)
  <2>1. TargetsOf(b) = <<NoPointer>> /\ NoPointer \in DOMAIN b
    BY <1>2 DEF TargetsOf, IsJson
  <2>2. Len(<<NoPointer>>) = 1 /\ DOMAIN <<NoPointer>> = 1..1 /\ ToSet(<<NoPointer>>) = {NoPointer}
    BY DEF ToSet
  <2>3. \A i \in 1..1 : i = 1 /\ <<NoPointer>>[i] = NoPointer
    OBVIOUS
  <2>4. \A i, j \in 1..1 : i = j
    OBVIOUS
  <2>5. DOMAIN b \in {ToSet(Fields), {NoPointer}} => DOMAIN b = {NoPointer}
    BY <2>1, FieldsAssumption
  <2> QED
    BY <2>1, <2>2, <2>3, <2>4, <2>5
<1> QED
  BY <1>1, <1>2

(* The string under the scan is as it arrived, and no other target is it.  *)
LEMMA TargetHere ==
  ASSUME NEW s \in Session, InvOf(s), Scanning(s)
  PROVE  /\ next[s] \in DOMAIN TargetsOf(body[s]) /\ next[s] \in Nat
         /\ Target(s) \in ToSet(Fields) \cup {NoPointer} /\ Target(s) \in DOMAIN body[s]
         /\ \A i \in DOMAIN TargetsOf(body[s]) : TargetsOf(body[s])[i] = Target(s) => i = next[s]
         /\ Raw(s) = received[s][Target(s)] /\ Raw(s) \in Seq(Symbol)
         /\ body[s] = [p \in DOMAIN body[s] |-> body[s][p]]
<1>1. Typed(s) /\ ScannedSoFar(s) /\ stage[s] = "scanning" /\ next[s] <= Len(TargetsOf(body[s]))
  BY DEF InvOf, Scanning, At
<1>2. next[s] \in DOMAIN TargetsOf(body[s]) /\ next[s] \in Nat
  BY <1>1, TargetsTyped DEF Typed
<1>3. DOMAIN body[s] = ToSet(TargetsOf(body[s]))
  BY <1>1, TargetsTyped DEF ScannedSoFar
<1>4. Target(s) \in DOMAIN body[s]
  BY <1>2, <1>3 DEF Target, ToSet
<1>5. Raw(s) = received[s][Target(s)]
  BY <1>1, <1>2 DEF ScannedSoFar, Raw, Target
<1>6. Raw(s) \in Seq(Symbol) /\ body[s] = [p \in DOMAIN body[s] |-> body[s][p]]
  BY <1>1, <1>4 DEF Typed, IsBody, Raw
<1> QED
  BY <1>2, <1>4, <1>5, <1>6, TargetsTyped DEF Target

(* What the redaction of it yields.                                        *)
LEMMA RedactionTyped ==
  ASSUME NEW s \in Session, InvOf(s), Scanning(s)
  PROVE  /\ Redaction(s) \in [text : Seq(Symbol), values : Seq(Values)]
         /\ action = "block" /\ Redactable(s)
              => Redaction(s) = [text |-> Raw(s), values |-> values[s]]
<1>1. \A n \in Nat : Token(s, n) \in Symbol
  BY DEF Token, Symbol
<1>2. \A value \in Seq(Symbol) : Entry(value, Target(s)) \in Values
  BY TargetHere DEF Entry, Values
<1>3. Raw(s) \in Seq(Symbol) /\ values[s] \in Seq(Values)
  BY TargetHere DEF InvOf, Typed
<1>4. Redaction(s) \in [text : Seq(Symbol), values : Seq(Values)]
  BY <1>1, <1>2, <1>3, RedactAtTyped DEF Redaction
<1>5. ASSUME action = "block", Redactable(s)
      PROVE  Redaction(s) = [text |-> Raw(s), values |-> values[s]]
  <2>1. ~CheckViolations(Raw(s)) /\ IsText(Raw(s))
    BY <1>3, <1>5, TextOver DEF Redactable
  <2> QED
    BY <1>3, <2>1, CleanUntouched DEF Redaction
<1> QED
  BY <1>4, <1>5

(* A redacted target is typed, and the other targets are as they were.     *)
LEMMA Rewritten ==
  ASSUME NEW s \in Session, Shape, InvOf(s), Scanning(s), NEW text \in Seq(Symbol),
         body' = [body EXCEPT ![s][Target(s)] = text]
  PROVE  /\ IsBody(body[s])' /\ DOMAIN body'[s] = DOMAIN body[s]
         /\ TargetsOf(body'[s]) = TargetsOf(body[s])
         /\ body'[s][Target(s)] = text
         /\ \A i \in DOMAIN TargetsOf(body[s]) : i # next[s] =>
              body'[s][TargetsOf(body[s])[i]] = body[s][TargetsOf(body[s])[i]]
<1>1. body'[s] = [body[s] EXCEPT ![Target(s)] = text]
  BY DEF Shape
<1>2. DOMAIN body'[s] = DOMAIN body[s] /\ body'[s][Target(s)] = text
  BY <1>1, TargetHere
<1>3. \A q : q # Target(s) /\ q \in DOMAIN body[s] => body'[s][q] = body[s][q]
  BY <1>1
<1>4. IsBody(body'[s])
  <2>1. PICK D \in {{}, ToSet(Fields), {NoPointer}} : body[s] \in [D -> Seq(Symbol)]
    BY DEF InvOf, Typed, IsBody
  <2>2. body'[s] \in [D -> Seq(Symbol)]
    BY <1>1, <2>1
  <2> QED
    BY <2>1, <2>2 DEF IsBody
<1>5. \A i \in DOMAIN TargetsOf(body[s]) : TargetsOf(body[s])[i] \in DOMAIN body[s]
  <2>1. DOMAIN body[s] = ToSet(TargetsOf(body[s]))
    BY TargetsTyped DEF InvOf, ScannedSoFar, Scanning, At
  <2> QED
    BY <2>1 DEF ToSet
<1>6. TargetsOf(body'[s]) = TargetsOf(body[s])
  BY <1>2 DEF TargetsOf, IsJson
<1> QED
  BY <1>2, <1>3, <1>4, <1>5, <1>6, TargetHere

-----------------------------------------------------------------------------
(* The steps of a request.                                                 *)

(* A body arrives.                                                         *)
LEMMA ArriveKeeps ==
  ASSUME Shape, NEW s \in Session, InvOf(s), UNCHANGED action,
         ArriveJson(s) \/ ArriveNonJson(s)
  PROVE  InvOf(s)'
<1>1. PICK b : Arrive(s, b) /\ IsBody(b) /\ DOMAIN b \in {ToSet(Fields), {NoPointer}}
  <2>1. \A t \in Texts[action][s] : t \in Seq(Symbol)
    <3>1. ASSUME NEW t \in Texts[action][s] PROVE t \in Seq(Symbol)
      <4>1. ToSet(t) \subseteq Symbol
        BY DEF Shape, Symbol, Written
      <4>2. t \in Seq(ToSet(t))
        BY TextsAssumption DEF Shape, IsText
      <4> QED
        BY <4>1, <4>2
    <3> QED
      BY <3>1
  <2>2. CASE ArriveJson(s)
    <3>1. PICK b \in [ToSet(Fields) -> Texts[action][s]] : Arrive(s, b)
      BY <2>2 DEF ArriveJson
    <3>2. b \in [ToSet(Fields) -> Seq(Symbol)]
      BY <2>1
    <3> QED
      BY <3>1, <3>2 DEF IsBody
  <2>3. CASE ArriveNonJson(s)
    <3>1. PICK t \in Texts[action][s] : Arrive(s, Only(NoPointer, t))
      BY <2>3 DEF ArriveNonJson
    <3>2. Only(NoPointer, t) \in [{NoPointer} -> Seq(Symbol)]
      BY <2>1 DEF Only
    <3> QED
      BY <3>1, <3>2 DEF IsBody
  <2> QED
    BY <2>2, <2>3
<1>2. /\ stage[s] = "arriving" /\ stage'[s] \in {"scanning", "refused"}
      /\ received'[s] = b /\ body'[s] = b
      /\ UNCHANGED <<next, values, sent, reply, answer>>
  BY <1>1 DEF Arrive, At, Become, Shape
<1>3. Typed(s)'
  BY <1>1, <1>2 DEF InvOf, Typed, Stages
<1>4. ScannedSoFar(s)'
  <2>1. next[s] = 1
    BY <1>2 DEF InvOf, ScannedSoFar
  <2> QED
    BY <1>1, <1>2, <2>1, TargetsTyped DEF ScannedSoFar, Passed
<1>5. SentScanned(s)' /\ BlockKeeps(s)' /\ AnswerInspected(s)'
  BY <1>2 DEF InvOf, SentScanned, BlockKeeps, AnswerInspected
<1> QED
  BY <1>3, <1>4, <1>5 DEF InvOf

(* A target is skipped.                                                    *)
LEMMA SkipKeeps ==
  ASSUME Shape, NEW s \in Session, InvOf(s), UNCHANGED action, Skip(s)
  PROVE  InvOf(s)'
<1>1. /\ Scanning(s) /\ ~IsTarget(Target(s), Raw(s)) /\ stage[s] = "scanning"
      /\ next'[s] = next[s] + 1
      /\ UNCHANGED <<stage, received, body, values, sent, reply, answer>>
  BY DEF Skip, Shape, Scanning, At
<1>2. Typed(s)'
  BY <1>1 DEF InvOf, Typed
<1>3. ScannedSoFar(s)'
  <2>1. SUFFICES ASSUME NEW i \in DOMAIN TargetsOf(body[s])
                 PROVE  LET p == TargetsOf(body[s])[i] IN
                   /\ i >= next'[s] => body[s][p] = received[s][p]
                   /\ i < next'[s] /\ IsTarget(p, received[s][p]) => Passed(body[s][p])
    BY <1>1 DEF InvOf, ScannedSoFar, TargetsOf, IsJson, Passed
  <2>2. i \in Nat /\ next[s] \in Nat
    <3>1. i \in Nat
      BY TargetsTyped
    <3> QED
      BY <3>1, TargetHere, <1>1
  <2>3. CASE i = next[s]
    <3>1. TargetsOf(body[s])[i] = Target(s) /\ Raw(s) = received[s][Target(s)]
      BY <1>1, <2>3, TargetHere DEF Target
    <3> QED
      BY <1>1, <2>2, <2>3, <3>1
  <2>4. CASE i # next[s]
    BY <1>1, <2>2, <2>4 DEF InvOf, ScannedSoFar
  <2> QED
    BY <2>3, <2>4
<1>4. SentScanned(s)' /\ BlockKeeps(s)' /\ AnswerInspected(s)'
  BY <1>1 DEF InvOf, SentScanned, BlockKeeps, AnswerInspected
<1> QED
  BY <1>2, <1>3, <1>4 DEF InvOf

(* A target is redacted, and passes the probe or not.                      *)
LEMMA RedactKeeps ==
  ASSUME Shape, NEW s \in Session, InvOf(s), UNCHANGED action,
         Redact(s) \/ BlockObfuscated(s)
  PROVE  InvOf(s)'
<1>1. /\ Scanning(s) /\ Redactable(s) /\ stage[s] = "scanning"
      /\ body' = [body EXCEPT ![s][Target(s)] = Redaction(s).text]
      /\ values'[s] = Redaction(s).values
      /\ UNCHANGED <<received, sent, reply, answer>>
  BY DEF Redact, BlockObfuscated, Redactable, Shape, Scanning, At
<1>2. \/ stage' = stage /\ next'[s] = next[s] + 1 /\ ~Suspicious(Redaction(s).text)
      \/ stage'[s] = "refused" /\ next' = next
  BY DEF Redact, BlockObfuscated, Shape, Become
<1>3. Redaction(s).text \in Seq(Symbol) /\ Redaction(s).values \in Seq(Values)
  BY <1>1, RedactionTyped
<1>4. /\ IsBody(body[s])' /\ DOMAIN body'[s] = DOMAIN body[s]
      /\ TargetsOf(body'[s]) = TargetsOf(body[s])
      /\ body'[s][Target(s)] = Redaction(s).text
      /\ \A i \in DOMAIN TargetsOf(body[s]) : i # next[s] =>
           body'[s][TargetsOf(body[s])[i]] = body[s][TargetsOf(body[s])[i]]
  BY <1>1, <1>3, Rewritten
<1>5. next[s] \in Nat \ {0} /\ stage'[s] \in Stages
  BY <1>1, <1>2 DEF InvOf, Typed, Stages
<1>6. Typed(s)'
  BY <1>1, <1>2, <1>3, <1>4, <1>5 DEF InvOf, Typed
<1>7. ScannedSoFar(s)'
  <2>1. SUFFICES ASSUME NEW i \in DOMAIN TargetsOf(body[s])
                 PROVE  LET p == TargetsOf(body[s])[i] IN
                   /\ i >= next'[s] /\ stage'[s] = "scanning" => body'[s][p] = received[s][p]
                   /\ i < next'[s] /\ IsTarget(p, received[s][p]) => Passed(body'[s][p])
    BY <1>1, <1>2, <1>4 DEF InvOf, ScannedSoFar, Passed
  <2>2. i \in Nat
    BY TargetsTyped
  <2>3. CASE i = next[s]
    <3>1. TargetsOf(body[s])[i] = Target(s)
      BY <2>3 DEF Target
    <3>2. ~Suspicious(Redaction(s).text) => Passed(Redaction(s).text)
      BY <1>1, RedactionTyped DEF Suspicious, Passed, Redactable
    <3> QED
      BY <1>2, <1>4, <1>5, <2>2, <2>3, <3>1, <3>2
  <2>4. CASE i # next[s]
    <3>1. /\ i >= next[s] => body[s][TargetsOf(body[s])[i]] = received[s][TargetsOf(body[s])[i]]
          /\ i < next[s] /\ IsTarget(TargetsOf(body[s])[i], received[s][TargetsOf(body[s])[i]])
               => Passed(body[s][TargetsOf(body[s])[i]])
      BY <1>1 DEF InvOf, ScannedSoFar
    <3> QED
      BY <1>2, <1>4, <1>5, <2>2, <2>4, <3>1
  <2> QED
    BY <2>3, <2>4
<1>8. BlockKeeps(s)'
  <2>1. SUFFICES ASSUME action = "block"
                 PROVE  values'[s] = <<>> /\ body'[s] = received[s]
    BY <1>1 DEF BlockKeeps
  <2>2. Redaction(s).text = Raw(s) /\ Redaction(s).values = values[s]
    BY <1>1, <2>1, RedactionTyped
  <2>3. body'[s] = [body[s] EXCEPT ![Target(s)] = body[s][Target(s)]]
    BY <1>1, <2>2 DEF Shape, Raw
  <2>4. body'[s] = body[s]
    BY <1>1, <2>3, TargetHere
  <2> QED
    BY <1>1, <2>1, <2>2, <2>4 DEF InvOf, BlockKeeps
<1>9. SentScanned(s)' /\ AnswerInspected(s)'
  BY <1>1, <1>2 DEF InvOf, SentScanned, AnswerInspected
<1> QED
  BY <1>6, <1>7, <1>8, <1>9 DEF InvOf

(* A body that is scanned leaves.                                          *)
LEMMA ForwardKeeps ==
  ASSUME Shape, NEW s \in Session, InvOf(s), UNCHANGED action, Forward(s)
  PROVE  InvOf(s)'
<1>1. /\ stage[s] = "scanning" /\ next[s] > Len(TargetsOf(body[s]))
      /\ stage'[s] = "forwarded" /\ sent'[s] = body[s]
      /\ UNCHANGED <<received, body, next, values, reply, answer>>
  BY DEF Forward, At, Become, Shape
<1>2. Typed(s)'
  BY <1>1 DEF InvOf, Typed, Stages
<1>3. ScannedSoFar(s)'
  BY <1>1 DEF InvOf, ScannedSoFar, TargetsOf, IsJson, Passed
<1>4. SentScanned(s)' /\ BlockKeeps(s)' /\ AnswerInspected(s)'
  BY <1>1 DEF InvOf, SentScanned, BlockKeeps, AnswerInspected, TargetsOf, IsJson
<1> QED
  BY <1>2, <1>3, <1>4 DEF InvOf

(* A request is refused, or gets no answer.                                *)
LEMMA StopKeeps ==
  ASSUME Shape, NEW s \in Session, InvOf(s), UNCHANGED action,
         TurnAway(s) \/ BlockViolation(s) \/ FailAnswer(s)
  PROVE  InvOf(s)'
<1>1. /\ \/ stage[s] \in {"arriving", "scanning"} /\ stage'[s] = "refused"
         \/ stage[s] = "forwarded" /\ stage'[s] = "failed"
      /\ UNCHANGED <<received, body, next, values, sent, reply, answer>>
  BY DEF TurnAway, BlockViolation, FailAnswer, Scanning, At, Become, Shape
<1>2. Typed(s)'
  BY <1>1 DEF InvOf, Typed, Stages
<1>3. ScannedSoFar(s)'
  BY <1>1 DEF InvOf, ScannedSoFar, TargetsOf, IsJson, Passed
<1>4. SentScanned(s)' /\ BlockKeeps(s)' /\ AnswerInspected(s)'
  BY <1>1 DEF InvOf, SentScanned, BlockKeeps, AnswerInspected, TargetsOf, IsJson
<1> QED
  BY <1>2, <1>3, <1>4 DEF InvOf

(* What the provider knows are symbols of what it was sent.                *)
LEMMA ModelTextsTyped ==
  ASSUME \A s \in Session : InvOf(s)
  PROVE  ModelTexts \subseteq Seq(Symbol)
<1>1. ASSUME NEW s \in Session, NEW p \in DOMAIN sent[s] PROVE ToSet(sent[s][p]) \subseteq Symbol
  <2>1. sent[s][p] \in Seq(Symbol)
    BY DEF InvOf, Typed, IsBody
  <2> QED
    BY <2>1, TextOver
<1>2. Known \subseteq Symbol
  BY <1>1 DEF Known, Symbol
<1>3. ASSUME NEW t \in ModelTexts PROVE t \in Seq(Symbol)
  <2>1. PICK n \in 0..MaxModelText : t \in [1..n -> Known]
    BY DEF ModelTexts
  <2>2. n \in Nat /\ t \in [1..n -> Symbol]
    BY <1>2, <2>1
  <2> QED
    BY <2>2
<1> QED
  BY <1>3

(* The keys of bodies and answers are texts of symbols.                    *)
LEMMA KeysTyped ==
  /\ \A p \in ToSet(Fields) \cup {ModelPointer} : p \in Seq(Seq(Symbol))
  /\ Head(ModelPointer) \in Seq(Symbol)
  /\ Wrapper \in Seq(Symbol) /\ <<Masked>> \in Seq(Symbol)
<1>1. ASSUME NEW p \in ToSet(Fields) \cup {ModelPointer} PROVE p \in Seq(Seq(Symbol))
  <2>1. p \in Seq(ToSet(p)) /\ \A key \in ToSet(p) : IsText(key)
    BY FieldsAssumption, ModelPointerAssumption
  <2>2. ASSUME NEW key \in ToSet(p) PROVE key \in Seq(Symbol)
    <3>1. ToSet(key) \subseteq Symbol
      BY DEF Symbol, KeySymbols
    <3>2. key \in Seq(ToSet(key))
      BY <2>1 DEF IsText
    <3> QED
      BY <3>1, <3>2
  <2>3. ToSet(p) \subseteq Seq(Symbol)
    BY <2>2
  <2> QED
    BY <2>1, <2>3
<1>2. Head(ModelPointer) \in Seq(Symbol)
  <2>1. ModelPointer \in Seq(Seq(Symbol)) /\ ModelPointer # <<>>
    BY <1>1, ModelPointerAssumption
  <2> QED
    BY <2>1
<1>3. Literal("echo") \in Symbol /\ Literal("masked") \in Symbol
  BY DEF Symbol
<1>4. Wrapper \in Seq(Symbol) /\ <<Masked>> \in Seq(Symbol)
  <2> HIDE DEF Literal
  <2>1. ASSUME NEW x \in Symbol PROVE <<x>> \in Seq(Symbol)
    OBVIOUS
  <2> QED
    BY <1>3, <2>1 DEF Wrapper, Masked
<1> QED
  BY <1>1, <1>2, <1>4

(* Whatever the provider answers is made of lines.                         *)
LEMMA RepliesTyped ==
  ASSUME NEW s \in Session, \A t \in Session : InvOf(t), NEW r \in Replies(s)
  PROVE  r = [i \in DOMAIN r |-> r[i]] /\ \A i \in DOMAIN r : WellFormed(r[i])
<1>1. ASSUME NEW p \in Seq(Seq(Symbol)) \cup {NoPointer}, NEW kind, NEW t \in ModelTexts
      PROVE  WellFormed(Line(kind, Only(p, t)))
  BY ModelTextsTyped DEF WellFormed, Line, Only
<1>2. CASE \E t \in ModelTexts : r = <<Line("text", Only(NoPointer, t))>>
  BY <1>1, <1>2
<1>3. CASE \E t \in ModelTexts : r = Stream(t)
  <2>1. PICK t \in ModelTexts : r = Stream(t)
    BY <1>3
  <2>2. WellFormed(Line("json", Only(ModelPointer, t)))
    BY <1>1, KeysTyped
  <2>3. WellFormed(Line("json", Keyed(t)))
    <3>1. t \in Seq(Symbol)
      BY ModelTextsTyped
    <3>2. ASSUME NEW K, NEW x \in K, NEW key \in K PROVE <<x, key>> \in Seq(K)
      OBVIOUS
    <3>3. \A key \in {t, <<Masked>>} : <<Head(ModelPointer), key>> \in Seq(Seq(Symbol))
      BY <3>1, <3>2, KeysTyped
    <3> QED
      BY <3>1, <3>3 DEF WellFormed, Line, Keyed
  <2> QED
    BY <1>1, <2>1, <2>2, <2>3 DEF Stream
<1>4. CASE r = <<>>
  BY <1>4
<1>5. CASE r = <<Line("json", Echo(s))>> /\ IsJson(sent[s])
  <2>1. ASSUME NEW p \in DOMAIN Echo(s) PROVE p \in Seq(Seq(Symbol)) /\ Echo(s)[p] \in Seq(Symbol)
    <3>1. PICK q \in DOMAIN sent[s] : p = <<Wrapper>> \o q
      BY DEF Echo
    <3>2. q \in Seq(Seq(Symbol))
      <4>1. q \in ToSet(Fields)
        BY <1>5, <3>1 DEF InvOf, Typed, IsBody, IsJson
      <4> QED
        BY <4>1, KeysTyped
    <3>3. Tail(<<Wrapper>> \o q) = q /\ <<Wrapper>> \o q \in Seq(Seq(Symbol))
      BY <3>2, KeysTyped
    <3>4. sent[s][q] \in Seq(Symbol)
      BY <3>1 DEF InvOf, Typed, IsBody
    <3> QED
      BY <3>1, <3>3, <3>4 DEF Echo
  <2>2. Echo(s) = [p \in DOMAIN Echo(s) |-> Echo(s)[p]]
    BY DEF Echo
  <2>3. WellFormed(Line("json", Echo(s)))
    BY <2>1, <2>2 DEF WellFormed, Line
  <2> QED
    BY <1>5, <2>3
<1> QED
  BY <1>2, <1>3, <1>4, <1>5 DEF Replies

(* An answer arrives and is inspected, or refused in block mode            *)
(* (forward_request).                                                      *)
LEMMA RespondKeeps ==
  ASSUME Shape, NEW s \in Session, \A t \in Session : InvOf(t), UNCHANGED action, Respond(s)
  PROVE  InvOf(s)'
<1>1. PICK r \in Replies(s) : Answer(s, r) \/ BlockAnswer(s, r)
  BY DEF Respond
<1>2. r = [i \in DOMAIN r |-> r[i]] /\ \A i \in DOMAIN r : WellFormed(r[i])
  BY RepliesTyped
<1>3. /\ stage[s] = "forwarded" /\ reply'[s] = r
      /\ \/ /\ stage'[s] = "answered" /\ answer'[s] = Inspected(s, r)
            /\ \A i \in DOMAIN r : ~Collides(s, r[i].strings)
         \/ stage'[s] = "failed" /\ answer' = answer
      /\ UNCHANGED <<received, body, next, values, sent>>
  BY <1>1 DEF Answer, BlockAnswer, At, Become, Shape
<1>4. Typed(s)'
  BY <1>2, <1>3 DEF InvOf, Typed, Stages
<1>5. ScannedSoFar(s)'
  BY <1>3 DEF InvOf, ScannedSoFar, TargetsOf, IsJson, Passed
<1>6. SentScanned(s)' /\ BlockKeeps(s)'
  BY <1>3 DEF InvOf, SentScanned, BlockKeeps, TargetsOf, IsJson
<1>7. AnswerInspected(s)'
  BY <1>3, SameInspection DEF InvOf, AnswerInspected
<1> QED
  BY <1>4, <1>5, <1>6, <1>7 DEF InvOf

-----------------------------------------------------------------------------
(* No request has arrived.                                                 *)
LEMMA InitHolds == Init => IInv
<1> SUFFICES ASSUME Init PROVE IInv
  OBVIOUS
<1>1. Shape
  BY DEF Init, Shape
<1>2. ASSUME NEW s \in Session PROVE InvOf(s)
  <2>1. IsBody(Nothing)
    BY DEF IsBody, Nothing
  <2>2. Typed(s)
    BY <2>1 DEF Init, Typed, Stages
  <2>3. ScannedSoFar(s)
    <3>1. \A i \in DOMAIN TargetsOf(body[s]) : i >= 1
      BY TargetsTyped
    <3>2. stage[s] = "arriving" /\ next[s] = 1 /\ body[s] = received[s]
      BY DEF Init
    <3>3. \A i \in DOMAIN TargetsOf(body[s]) : ~(i < next[s])
      BY <3>1, <3>2, TargetsTyped
    <3> QED
      BY <3>2, <3>3 DEF ScannedSoFar
  <2>4. SentScanned(s) /\ AnswerInspected(s) /\ BlockKeeps(s)
    BY DEF Init, SentScanned, AnswerInspected, BlockKeeps
  <2> QED
    BY <2>2, <2>3, <2>4 DEF InvOf
<1> QED
  BY <1>1, <1>2 DEF IInv

(* What every request keeps of itself, whatever the others do.             *)
THEOREM Invariance == Spec => []IInv
<1>1. IInv /\ [Next]_vars => IInv'
  <2> SUFFICES ASSUME IInv, [Next]_vars PROVE IInv'
    OBVIOUS
  <2>1. CASE Next
    <3>1. PICK s \in Session : Step(s)
      BY <2>1 DEF Next, Step
    <3>2. UNCHANGED action /\ Shape /\ \A t \in Session : InvOf(t)
      BY <2>1 DEF Next, IInv
    <3>3. Shape' /\ \A t \in Session \ {s} : Same(t)
      BY <3>1, <3>2, OneAtATime
    <3>4. InvOf(s)'
      BY <3>1, <3>2, ArriveKeeps, SkipKeeps, RedactKeeps, ForwardKeeps, StopKeeps,
         RespondKeeps DEF Step
    <3>5. \A t \in Session \ {s} : InvOf(t)'
      BY <3>2, <3>3, SameKeeps
    <3> QED
      BY <3>3, <3>4, <3>5 DEF IInv
  <2>2. CASE UNCHANGED vars
    <3>1. UNCHANGED action /\ \A t \in Session : Same(t)
      BY <2>2 DEF vars, Same
    <3>2. \A t \in Session : InvOf(t)'
      BY <3>1, SameKeeps DEF IInv
    <3>3. Shape'
      BY <2>2 DEF vars, IInv, Shape
    <3> QED
      BY <3>2, <3>3 DEF IInv
  <2> QED
    BY <2>1, <2>2
<1> QED
  BY <1>1, InitHolds, PTL DEF Spec

-----------------------------------------------------------------------------
(* The properties.                                                         *)

(* In an answer the client got no two strings became one.                  *)
LEMMA RekeyedApart ==
  ASSUME NEW s \in Session, InvOf(s), NEW l \in DOMAIN answer[s]
  PROVE  /\ stage[s] = "answered" /\ answer[s] = Inspected(s, reply[s])
         /\ l \in DOMAIN reply[s] /\ WellFormed(reply[s][l])
         /\ answer[s][l] = InspectedLine(s, reply[s][l])
         /\ \A p, q \in Pointers(reply[s], l) : Rekeyed(s, p) = Rekeyed(s, q) => p = q
<1>1. stage[s] = "answered" /\ answer[s] = Inspected(s, reply[s])
  <2>1. DOMAIN <<>> = {}
    OBVIOUS
  <2> QED
    BY <2>1 DEF InvOf, AnswerInspected
<1>2. l \in DOMAIN reply[s] /\ WellFormed(reply[s][l]) /\ answer[s][l] = InspectedLine(s, reply[s][l])
  BY <1>1 DEF Inspected, InvOf, Typed
<1>3. ASSUME NEW p \in Pointers(reply[s], l), NEW q \in Pointers(reply[s], l),
             Rekeyed(s, p) = Rekeyed(s, q), p # q
      PROVE  FALSE
  <2>1. ~Collides(s, reply[s][l].strings)
    BY <1>1, <1>2 DEF InvOf, AnswerInspected
  <2>2. p \in Seq(Seq(Symbol)) \cup {NoPointer} /\ q \in Seq(Seq(Symbol)) \cup {NoPointer}
    BY <1>2 DEF WellFormed, Pointers
  <2>3. ASSUME NEW x \in Seq(Seq(Symbol)) \cup {NoPointer}
        PROVE  DOMAIN Rekeyed(s, x) = DOMAIN x /\ DOMAIN x = 1..Len(x) /\ x = [i \in DOMAIN x |-> x[i]]
    <3>1. CASE x = NoPointer
      <4>1. ASSUME NEW y PROVE DOMAIN <<y>> = 1..Len(<<y>>) /\ <<y>> = [i \in DOMAIN <<y>> |-> <<y>>[i]]
        OBVIOUS
      <4> QED
        BY <3>1, <4>1 DEF Rekeyed, NoPointer
    <3>2. CASE x # NoPointer
      BY <3>2 DEF Rekeyed
    <3> QED
      BY <3>1, <3>2
  <2>4. DOMAIN p = DOMAIN q
    BY <1>3, <2>2, <2>3
  <2>5. PICK n \in DOMAIN p : p[n] # q[n]
    BY <1>3, <2>2, <2>3, <2>4
  <2>6. SubSeq(Rekeyed(s, p), 1, n) = SubSeq(Rekeyed(s, q), 1, n)
    BY <1>3
  <2> QED
    BY <2>1, <2>4, <2>5, <2>6 DEF Collides, Pointers
<1> QED
  BY <1>1, <1>2, <1>3

(* Every string of an answer the client got is what the inspection makes   *)
(* of a string of the provider's, or was not inspected.                    *)
LEMMA AnswerStrings ==
  ASSUME NEW s \in Session, InvOf(s),
         NEW l \in DOMAIN answer[s], NEW p \in Pointers(answer[s], l)
  PROVE  \E q \in Pointers(reply[s], l) :
           /\ q = NoPointer \/ q \in Seq(Seq(Symbol))
           /\ StringAt(reply[s], l, q) \in Seq(Symbol)
           /\ \/ p = q /\ StringAt(answer[s], l, p) = StringAt(reply[s], l, q)
              \/ /\ p = Rekeyed(s, q)
                 /\ StringAt(answer[s], l, p) = TransformString(s, StringAt(reply[s], l, q), p)
<1>1. WellFormed(reply[s][l]) /\ answer[s][l] = InspectedLine(s, reply[s][l])
  BY RekeyedApart
<1>2. CASE ~IsInspected(reply[s][l])
  BY <1>1, <1>2 DEF InspectedLine, WellFormed, Pointers, StringAt
<1>3. CASE IsInspected(reply[s][l])
  <2> DEFINE strings == reply[s][l].strings
             q == CHOOSE old \in DOMAIN strings : Rekeyed(s, old) = p
  <2>1. answer[s][l].strings = TransformJsonStrings(s, strings)
    BY <1>1, <1>3 DEF InspectedLine, WellFormed, Line
  <2>2. \E old \in DOMAIN strings : Rekeyed(s, old) = p
    BY <2>1 DEF Pointers, TransformJsonStrings, Range
  <2>3. q \in DOMAIN strings /\ Rekeyed(s, q) = p
    BY <2>2
  <2>4. (CHOOSE old \in DOMAIN strings : [x \in DOMAIN strings |-> Rekeyed(s, x)][old] = p) = q
    OBVIOUS
  <2>5. StringAt(answer[s], l, p) = TransformString(s, strings[q], p)
    BY <2>1, <2>4 DEF StringAt, Pointers, TransformJsonStrings
  <2> HIDE DEF q
  <2>6. (q = NoPointer \/ q \in Seq(Seq(Symbol))) /\ strings[q] \in Seq(Symbol)
    BY <1>1, <2>3 DEF WellFormed
  <2> QED
    BY <2>3, <2>5, <2>6 DEF Pointers, StringAt
<1> QED
  BY <1>2, <1>3

(* Without a reason a text is not rewritten, and is restored where it is.  *)
LEMMA HarmlessKept ==
  ASSUME NEW s \in Session, InvOf(s), NEW text \in Seq(Symbol), Harmless(s, text), NEW p
  PROVE  TransformString(s, text, p) = text
<1>1. IsText(text) /\ values[s] \in Seq(Values)
  BY TextOver DEF InvOf, Typed
<1>2. Redacted(text) = text
  BY <1>1, PermanentNothing DEF Redacted, Harmless, Unmasked
<1>3. \A k \in 1..Len(values[s]) : ~Occurs(Token(s, k - 1), text)
  BY DEF Occurs, Harmless, Mine, Token
<1> QED
  BY <1>1, <1>2, <1>3, RestoreNothing DEF TransformString

(* A string below keys that stay is at its place in the answer.            *)
LEMMA AnswerThere ==
  ASSUME NEW s \in Session, InvOf(s), NEW l \in DOMAIN answer[s],
         NEW p \in Pointers(reply[s], l), KeysKept(s, p)
  PROVE  /\ p \in Pointers(answer[s], l) /\ l \in DOMAIN reply[s]
         /\ StringAt(reply[s], l, p) \in Seq(Symbol)
         /\ IsInspected(reply[s][l]) =>
              StringAt(answer[s], l, p) = TransformString(s, StringAt(reply[s], l, p), p)
         /\ ~IsInspected(reply[s][l]) => StringAt(answer[s], l, p) = StringAt(reply[s], l, p)
<1> DEFINE strings == reply[s][l].strings
           q == CHOOSE old \in DOMAIN strings : Rekeyed(s, old) = p
<1>1. l \in DOMAIN reply[s] /\ WellFormed(reply[s][l]) /\ answer[s][l] = InspectedLine(s, reply[s][l])
  BY RekeyedApart
<1>2. p \in DOMAIN strings /\ strings[p] \in Seq(Symbol) /\ (p = NoPointer \/ p \in Seq(Seq(Symbol)))
  BY <1>1 DEF WellFormed, Pointers
<1>3. Rekeyed(s, p) = p
  <2>1. CASE p = NoPointer
    BY <2>1 DEF Rekeyed
  <2>2. CASE p # NoPointer
    <3>1. ASSUME NEW i \in DOMAIN p, p[i] \notin Indices PROVE TransformString(s, p[i], NoPointer) = p[i]
      BY <1>2, <2>2, <3>1, HarmlessKept DEF KeysKept
    <3>2. Rekeyed(s, p) = [i \in DOMAIN p |-> p[i]]
      BY <2>2, <3>1 DEF Rekeyed
    <3> QED
      BY <1>2, <2>2, <3>2
  <2> QED
    BY <2>1, <2>2
<1>4. q = p
  <2>1. q \in DOMAIN strings /\ Rekeyed(s, q) = p
    BY <1>2, <1>3
  <2> HIDE DEF q
  <2> QED
    BY <1>2, <1>3, <2>1, RekeyedApart DEF Pointers
<1>5. CASE ~IsInspected(reply[s][l])
  BY <1>1, <1>2, <1>5 DEF InspectedLine, Pointers, StringAt
<1>6. CASE IsInspected(reply[s][l])
  <2>1. answer[s][l].strings = TransformJsonStrings(s, strings)
    BY <1>1, <1>6 DEF InspectedLine, WellFormed, Line
  <2>2. p \in DOMAIN TransformJsonStrings(s, strings)
    BY <1>2, <1>3 DEF TransformJsonStrings, Range
  <2>3. (CHOOSE old \in DOMAIN strings : [x \in DOMAIN strings |-> Rekeyed(s, x)][old] = p) = q
    OBVIOUS
  <2>4. TransformJsonStrings(s, strings)[p] = TransformString(s, strings[q], p)
    BY <2>2, <2>3 DEF TransformJsonStrings
  <2> HIDE DEF q
  <2> QED
    BY <1>1, <1>2, <1>4, <1>6, <2>1, <2>2, <2>4 DEF Pointers, StringAt
<1> HIDE DEF q
<1> QED
  BY <1>1, <1>2, <1>5, <1>6 DEF StringAt

(* A scanned field that leaves is a target behind the scan.                *)
LEMMA SentTarget ==
  ASSUME IInv, NEW s \in Session, NEW p \in ScannedFields(s)
  PROVE  /\ sent[s] = body[s] /\ IsTarget(p, received[s][p])
         /\ \E i \in DOMAIN TargetsOf(body[s]) : TargetsOf(body[s])[i] = p /\ i < next[s]
<1>1. p \in DOMAIN sent[s] /\ IsTarget(p, received[s][p]) /\ InvOf(s)
  BY DEF ScannedFields, IInv
<1>2. sent[s] = body[s] /\ next[s] > Len(TargetsOf(body[s])) /\ DOMAIN body[s] \in {ToSet(Fields), {NoPointer}}
  <2>1. DOMAIN Nothing = {}
    BY DEF Nothing
  <2>2. stage[s] \in {"forwarded", "answered", "failed"} /\ sent[s] = body[s] /\ next[s] > Len(TargetsOf(body[s]))
    BY <1>1, <2>1 DEF InvOf, SentScanned
  <2> QED
    BY <1>1, <2>2 DEF InvOf, ScannedSoFar
<1>3. PICK i \in DOMAIN TargetsOf(body[s]) : TargetsOf(body[s])[i] = p
  <2>1. p \in ToSet(TargetsOf(body[s]))
    BY <1>1, <1>2, TargetsTyped
  <2> QED
    BY <2>1 DEF ToSet
<1>4. i < next[s]
  BY <1>1, <1>2, <1>3, TargetsTyped DEF InvOf, Typed
<1> QED
  BY <1>1, <1>2, <1>3, <1>4

(* Every scanned field that leaves has passed.                             *)
LEMMA SentPassed ==
  ASSUME IInv, NEW s \in Session, NEW p \in ScannedFields(s)
  PROVE  Passed(sent[s][p])
<1>1. InvOf(s)
  BY DEF IInv
<1> QED
  BY <1>1, SentTarget DEF InvOf, ScannedSoFar

(* A scanned field has passed the probe.                                   *)
LEMMA ProbedFollows == IInv => ForwardedProbed
BY SentPassed DEF ForwardedProbed, Passed

(* No obfuscated secret reaches the provider: the probe looks at what      *)
(* leaves (server.rs handler, obfuscation probe).                          *)
THEOREM ForwardedProbedHolds == Spec => []ForwardedProbed
BY Invariance, ProbedFollows, PTL

(* What block mode lets out no detector finds anything in: not even where  *)
(* the rules overlap, as they do not run over each other's output.         *)
LEMMA BlockCleanFollows == IInv => (action = "block" => ForwardedClean)
BY ProbedFollows, SentPassed DEF ForwardedClean, Passed

(* In block mode no raw one does either (server.rs handler).               *)
THEOREM BlockForwardsClean == Spec => [](action = "block" => ForwardedClean)
BY Invariance, BlockCleanFollows, PTL

(* What the inspection adds to a text is a marker or of an eligible value. *)
LEMMA TransformAdds ==
  ASSUME NEW s \in Session, InvOf(s), NEW text \in Seq(Symbol), NEW p
  PROVE  ToSet(TransformString(s, text, p)) \subseteq
           ToSet(text) \cup {Masked, NeutralizedMarker}
             \cup UNION {ToSet(values[s][k].value) : k \in {j \in 1..Len(values[s]) : Eligible(p, values[s][j].pointer)}}
<1> DEFINE Here == {j \in 1..Len(values[s]) : Eligible(p, values[s][j].pointer)}
           W == ToSet(text) \cup {Masked, NeutralizedMarker}
                  \cup UNION {ToSet(values[s][k].value) : k \in Here}
<1>1. values[s] \in Seq(Values)
  BY DEF InvOf, Typed
<1>2. text \in Seq(W)
  <2>1. text \in Seq(ToSet(text))
    BY TextOver DEF IsText
  <2> QED
    BY <2>1
<1>3. Redacted(text) \in Seq(W)
  <2>1. Masked \in W
    OBVIOUS
  <2> HIDE DEF W
  <2> QED
    BY <1>2, <2>1, PermanentTyped DEF Redacted
<1>4. ASSUME NEW k \in 1..Len(values[s]), Eligible(p, values[s][k].pointer)
      PROVE  values[s][k].value \in Seq(W)
  <2>1. values[s][k].value \in Seq(Symbol)
    <3>1. values[s][k] \in Values
      BY <1>1
    <3> QED
      BY <3>1 DEF Values
  <2>2. values[s][k].value \in Seq(ToSet(values[s][k].value))
    BY <2>1, TextOver DEF IsText
  <2>3. ToSet(values[s][k].value) \subseteq W
    BY <1>4
  <2> HIDE DEF W
  <2> QED
    BY <2>2, <2>3
<1>5. NeutralizedMarker \in W
  OBVIOUS
<1>6. TransformString(s, text, p) \in Seq(W)
  <2> HIDE DEF W
  <2> QED
    BY <1>1, <1>3, <1>4, <1>5, RestoreTyped DEF TransformString
<1>7. ToSet(TransformString(s, text, p)) \subseteq W
  <2> HIDE DEF W
  <2> QED
    BY <1>6, TextOver
<1> QED
  BY <1>7

(* What restoration adds belongs there.                                    *)
LEMMA RematerializedFollows == IInv => NeverRematerialized
<1> SUFFICES ASSUME IInv, NEW s \in Session, NEW l \in DOMAIN answer[s],
                    NEW p \in Pointers(answer[s], l)
             PROVE  \E q \in Pointers(reply[s], l) :
                      /\ Len(q) = Len(p)
                      /\ \A n \in DOMAIN p : ToSet(p[n]) \subseteq ToSet(q[n]) \cup {Masked, NeutralizedMarker}
                      /\ \A i \in DOMAIN StringAt(answer[s], l, p) :
                           LET symbol == StringAt(answer[s], l, p)[i] IN
                             \/ symbol \in {Masked, NeutralizedMarker}
                             \/ Occurs(symbol, StringAt(reply[s], l, q))
                             \/ \E k \in DOMAIN values[s] :
                                  /\ p # NoPointer /\ IsSuffix(values[s][k].pointer, p)
                                  /\ Occurs(symbol, values[s][k].value)
  BY DEF NeverRematerialized
<1>1. InvOf(s) /\ values[s] \in Seq(Values)
  BY DEF IInv, InvOf, Typed
<1>2. PICK q \in Pointers(reply[s], l) :
        /\ q = NoPointer \/ q \in Seq(Seq(Symbol))
        /\ StringAt(reply[s], l, q) \in Seq(Symbol)
        /\ \/ p = q /\ StringAt(answer[s], l, p) = StringAt(reply[s], l, q)
           \/ /\ p = Rekeyed(s, q)
              /\ StringAt(answer[s], l, p) = TransformString(s, StringAt(reply[s], l, q), p)
  BY <1>1, AnswerStrings
<1> DEFINE text == StringAt(reply[s], l, q)
<1>3. Len(q) = Len(p) /\ \A n \in DOMAIN p : ToSet(p[n]) \subseteq ToSet(q[n]) \cup {Masked, NeutralizedMarker}
  <2>1. CASE p = q
    BY <2>1
  <2>2. CASE p = Rekeyed(s, q) /\ q # NoPointer
    <3>1. q \in Seq(Seq(Symbol))
      BY <1>2, <2>2
    <3>2. p = [i \in DOMAIN q |-> IF q[i] \in Indices THEN q[i] ELSE TransformString(s, q[i], NoPointer)]
      BY <2>2 DEF Rekeyed
    <3>3. DOMAIN p = DOMAIN q /\ Len(p) = Len(q)
      BY <3>1, <3>2
    <3>4. ASSUME NEW n \in DOMAIN q
          PROVE  ToSet(TransformString(s, q[n], NoPointer)) \subseteq ToSet(q[n]) \cup {Masked, NeutralizedMarker}
      <4>1. q[n] \in Seq(Symbol)
        BY <3>1
      <4>2. ToSet(TransformString(s, q[n], NoPointer)) \subseteq
              ToSet(q[n]) \cup {Masked, NeutralizedMarker}
                \cup UNION {ToSet(values[s][k].value) : k \in {j \in 1..Len(values[s]) : Eligible(NoPointer, values[s][j].pointer)}}
        BY <1>1, <4>1, TransformAdds
      <4>3. \A k \in 1..Len(values[s]) : ~Eligible(NoPointer, values[s][k].pointer)
        BY DEF Eligible
      <4> QED
        BY <4>2, <4>3
    <3> QED
      BY <3>2, <3>3, <3>4
  <2> QED
    BY <1>2, <2>1, <2>2 DEF Rekeyed
<1>4. ASSUME NEW i \in DOMAIN StringAt(answer[s], l, p)
      PROVE  LET symbol == StringAt(answer[s], l, p)[i] IN
               \/ symbol \in {Masked, NeutralizedMarker}
               \/ Occurs(symbol, text)
               \/ \E k \in DOMAIN values[s] :
                    /\ p # NoPointer /\ IsSuffix(values[s][k].pointer, p)
                    /\ Occurs(symbol, values[s][k].value)
  <2> DEFINE Here == {j \in 1..Len(values[s]) : Eligible(p, values[s][j].pointer)}
             symbol == StringAt(answer[s], l, p)[i]
  <2>1. ASSUME NEW x, NEW t, x \in ToSet(t) PROVE Occurs(x, t)
    BY <2>1 DEF ToSet, Occurs
  <2>2. symbol \in ToSet(StringAt(answer[s], l, p))
    BY DEF ToSet
  <2>3. ToSet(StringAt(answer[s], l, p)) \subseteq
          ToSet(text) \cup {Masked, NeutralizedMarker} \cup UNION {ToSet(values[s][k].value) : k \in Here}
    <3> HIDE DEF Here
    <3>1. ToSet(TransformString(s, text, p)) \subseteq
            ToSet(text) \cup {Masked, NeutralizedMarker} \cup UNION {ToSet(values[s][k].value) : k \in Here}
      BY <1>1, <1>2, TransformAdds DEF Here
    <3> QED
      BY <1>2, <3>1
  <2>4. \A k \in Here : p # NoPointer /\ IsSuffix(values[s][k].pointer, p) /\ k \in DOMAIN values[s]
    BY <1>1 DEF Eligible, PointerTailMatches
  <2> HIDE DEF Here, symbol
  <2>5. \/ symbol \in ToSet(text) \/ symbol \in {Masked, NeutralizedMarker}
        \/ \E k \in Here : symbol \in ToSet(values[s][k].value)
    BY <2>2, <2>3
  <2> QED
    BY <2>1, <2>4, <2>5 DEF symbol
<1> QED
  BY <1>3, <1>4

(* No value of a request comes back where it was not taken from, and never *)
(* to another request, whatever the provider repeats or mixes              *)
(* (restore_at).                                                           *)
THEOREM NeverRematerializedHolds == Spec => []NeverRematerialized
BY Invariance, RematerializedFollows, PTL

(* What there is nothing to do about stays.                                *)
LEMMA HarmlessFollows == IInv => HarmlessUntouched
<1> SUFFICES ASSUME IInv, NEW s \in Session, NEW l \in DOMAIN answer[s],
                    NEW p \in Pointers(reply[s], l),
                    Harmless(s, StringAt(reply[s], l, p)), KeysKept(s, p)
             PROVE  p \in Pointers(answer[s], l) /\ StringAt(answer[s], l, p) = StringAt(reply[s], l, p)
  BY DEF HarmlessUntouched
<1>1. InvOf(s)
  BY DEF IInv
<1> QED
  BY <1>1, AnswerThere, HarmlessKept

(* An answer that is neither a secret nor a placeholder of this request    *)
(* arrives as it is (transform_response_string).                           *)
THEOREM HarmlessUntouchedHolds == Spec => []HarmlessUntouched
BY Invariance, HarmlessFollows, PTL

(* In block mode there is nothing to restore and nothing to mask.          *)
LEMMA BlockFollows == IInv => BlockNeverRewrites
<1> SUFFICES ASSUME IInv, action = "block", NEW s \in Session
             PROVE  /\ values[s] = <<>>
                    /\ sent[s] \in {Nothing, received[s]}
                    /\ answer[s] \in {<<>>, reply[s]}
  BY DEF BlockNeverRewrites
<1>1. InvOf(s) /\ values[s] = <<>> /\ body[s] = received[s]
  BY DEF IInv, InvOf, BlockKeeps
<1>2. sent[s] \in {Nothing, received[s]}
  BY <1>1 DEF InvOf, SentScanned
<1>3. ASSUME NEW i \in DOMAIN reply[s] PROVE InspectedLine(s, reply[s][i]) = reply[s][i]
  <2>1. WellFormed(reply[s][i])
    BY <1>1 DEF InvOf, Typed
  <2>2. ASSUME NEW text \in Seq(Symbol), NEW p PROVE TransformString(s, text, p) = text
    <3>1. values[s] \in Seq({}) /\ Len(values[s]) = 0
      BY <1>1
    <3>2. \A k \in 1..Len(values[s]) : ~Occurs(Token(s, k - 1), text)
      BY <3>1
    <3>3. IsText(text)
      BY TextOver
    <3> QED
      BY <3>1, <3>2, <3>3, RestoreNothing DEF TransformString, Redacted
  <2>3. ASSUME NEW p \in DOMAIN reply[s][i].strings PROVE Rekeyed(s, p) = p
    <3>1. p = NoPointer \/ p \in Seq(Seq(Symbol))
      BY <2>1 DEF WellFormed
    <3>2. CASE p # NoPointer
      <4>1. \A n \in DOMAIN p : p[n] \in Seq(Symbol)
        BY <3>1, <3>2
      <4>2. Rekeyed(s, p) = [n \in DOMAIN p |-> p[n]]
        BY <2>2, <3>2, <4>1 DEF Rekeyed
      <4> QED
        BY <3>1, <3>2, <4>2
    <3> QED
      BY <3>2 DEF Rekeyed
  <2>4. TransformJsonStrings(s, reply[s][i].strings) = reply[s][i].strings
    <3> DEFINE strings == reply[s][i].strings
               moved == [q \in DOMAIN strings |-> Rekeyed(s, q)]
    <3>1. moved = [q \in DOMAIN strings |-> q] /\ Range(moved) = DOMAIN strings
      BY <2>3 DEF Range
    <3>2. \A p \in DOMAIN strings : (CHOOSE old \in DOMAIN strings : moved[old] = p) = p
      BY <3>1
    <3>3. \A p \in DOMAIN strings : strings[p] \in Seq(Symbol)
      BY <2>1 DEF WellFormed
    <3>4. TransformJsonStrings(s, strings) =
            [p \in Range(moved) |-> LET q == CHOOSE old \in DOMAIN strings : moved[old] = p
                                    IN  TransformString(s, strings[q], p)]
      BY DEF TransformJsonStrings
    <3>5. TransformJsonStrings(s, strings) = [p \in DOMAIN strings |-> strings[p]]
      <4>1. \A p \in DOMAIN strings :
              TransformString(s, strings[CHOOSE old \in DOMAIN strings : moved[old] = p], p) = strings[p]
        <5> HIDE DEF moved
        <5> QED
          BY <2>2, <3>2, <3>3
      <4> HIDE DEF moved, strings
      <4> QED
        BY <3>1, <3>4, <4>1, SMTT(60)
    <3> QED
      BY <2>1, <3>5 DEF WellFormed
  <2> QED
    BY <2>1, <2>4 DEF InspectedLine, WellFormed, Line
<1>4. Inspected(s, reply[s]) = reply[s]
  BY <1>1, <1>3 DEF Inspected, InvOf, Typed
<1> QED
  BY <1>1, <1>2, <1>4 DEF InvOf, AnswerInspected

(* In block mode the two redactions that still run change nothing that     *)
(* detection let pass (redact_at, redact_permanent).                       *)
THEOREM BlockNeverRewritesHolds == Spec => []BlockNeverRewrites
BY Invariance, BlockFollows, PTL

-----------------------------------------------------------------------------
(* What comes back.  The values that were taken from a field make of it    *)
(* what arrived, and an echo repeats what was sent.                        *)

(* A text is at the end of what ends with it.                              *)
LEMMA SuffixOfConcat ==
  ASSUME NEW W, NEW x \in W, NEW q \in Seq(W)
  PROVE  IsSuffix(q, <<x>> \o q)
<1> DEFINE p == <<x>> \o q
           n == Len(q)
<1>1. n \in Nat /\ p \in Seq(W) /\ Len(p) = n + 1 /\ \A i \in 1..n : p[i + 1] = q[i]
  OBVIOUS
<1> HIDE DEF p
<1>2. /\ Reverse(q) \in Seq(W) /\ Len(Reverse(q)) = n
      /\ \A i \in 1..n : Reverse(q)[i] = q[(n - i) + 1]
  BY <1>1 DEF Reverse
<1>3. /\ Reverse(p) \in Seq(W) /\ Len(Reverse(p)) = n + 1
      /\ \A i \in 1..(n + 1) : Reverse(p)[i] = p[((n + 1) - i) + 1]
  BY <1>1 DEF Reverse
<1>4. SubSeq(Reverse(q), 1, n) \in Seq(W) /\ Len(SubSeq(Reverse(q), 1, n)) = n
      /\ \A i \in 1..n : SubSeq(Reverse(q), 1, n)[i] = Reverse(q)[i]
  BY <1>1, <1>2
<1>5. SubSeq(Reverse(p), 1, n) \in Seq(W) /\ Len(SubSeq(Reverse(p), 1, n)) = n
      /\ \A i \in 1..n : SubSeq(Reverse(p), 1, n)[i] = Reverse(p)[i]
  BY <1>1, <1>3
<1>6. ASSUME NEW i \in 1..n PROVE Reverse(q)[i] = Reverse(p)[i]
  <2>1. (n - i) + 1 \in 1..n /\ ((n + 1) - i) + 1 = ((n - i) + 1) + 1 /\ i \in 1..(n + 1)
    BY <1>1
  <2> HIDE DEF n
  <2> QED
    BY <1>1, <1>2, <1>3, <2>1
<1>7. SubSeq(Reverse(q), 1, n) = SubSeq(Reverse(p), 1, n)
  BY <1>4, <1>5, <1>6, SeqEqual
<1> QED
  BY <1>1, <1>2, <1>3, <1>7 DEF IsSuffix, IsPrefix, p

(* What a text of a request may be made of on its way.                     *)
Marked == Symbol \cup {Masked, NeutralizedMarker}

(* A request arrives without a placeholder of its own session.             *)
ReceivedForeign(s) == \A p \in DOMAIN received[s] : ~Mine(s, received[s][p])

(* Whatever puts the values that were taken from a field back into it      *)
(* makes it what arrived.                                                  *)
Undone(s) ==
  \A p \in DOMAIN body[s] : \A e \in Maps(Marked, Marked) :
    Undoes(e, s, values[s], p) => Subst(e, body[s][p]) = Subst(e, received[s][p])

(* The strings of an echo are those of the body that was sent.             *)
EchoFaithful(s) ==
  \A l \in DOMAIN reply[s] : \A p \in Pointers(reply[s], l) :
    Head(p) = Wrapper =>
      /\ reply[s][l].kind = "json" /\ IsJson(sent[s])
      /\ Tail(p) \in DOMAIN sent[s] /\ p = <<Wrapper>> \o Tail(p)
      /\ StringAt(reply[s], l, p) = sent[s][Tail(p)]

(* Before it is answered a request has no reply.                           *)
NoReplyYet(s) == stage[s] \notin {"answered", "failed"} => reply[s] = <<>>

EchoOf(s) == ReceivedForeign(s) /\ Undone(s) /\ EchoFaithful(s) /\ NoReplyYet(s)

(* It is one request's own.                                                *)
LEMMA EchoSame ==
  ASSUME NEW t \in Session, EchoOf(t), Same(t)
  PROVE  EchoOf(t)'
<1> USE DEF EchoOf, Same
<1>1. ReceivedForeign(t)'
  BY DEF ReceivedForeign, Mine
<1>2. Undone(t)'
  BY DEF Undone
<1>3. EchoFaithful(t)' /\ NoReplyYet(t)'
  BY DEF EchoFaithful, IsJson, Pointers, StringAt, NoReplyYet
<1> QED
  BY <1>1, <1>2, <1>3

(* A body arrives.                                                         *)
LEMMA EchoArrive ==
  ASSUME Shape, NEW s \in Session, InvOf(s), EchoOf(s), UNCHANGED action,
         ArriveJson(s) \/ ArriveNonJson(s)
  PROVE  EchoOf(s)'
<1>1. PICK b : Arrive(s, b) /\ \A p \in DOMAIN b : b[p] \in Texts[action][s]
  <2>1. CASE ArriveJson(s)
    BY <2>1 DEF ArriveJson
  <2>2. CASE ArriveNonJson(s)
    <3>1. PICK t \in Texts[action][s] : Arrive(s, Only(NoPointer, t))
      BY <2>2 DEF ArriveNonJson
    <3>2. \A p \in DOMAIN Only(NoPointer, t) : Only(NoPointer, t)[p] \in Texts[action][s]
      BY DEF Only
    <3> QED
      BY <3>1, <3>2
  <2> QED
    BY <2>1, <2>2
<1>2. /\ stage[s] = "arriving" /\ stage'[s] \in {"scanning", "refused"}
      /\ received'[s] = b /\ body'[s] = b /\ UNCHANGED <<values, sent, reply>>
  BY <1>1 DEF Arrive, At, Become, Shape
<1>3. reply[s] = <<>> /\ DOMAIN <<>> = {}
  BY <1>2 DEF EchoOf, NoReplyYet
<1>4. ReceivedForeign(s)'
  BY <1>1, <1>2, NonceAssumption DEF ReceivedForeign, Mine, Shape
<1>5. Undone(s)'
  BY <1>2 DEF Undone
<1>6. EchoFaithful(s)' /\ NoReplyYet(s)'
  BY <1>2, <1>3 DEF EchoFaithful, NoReplyYet
<1> QED
  BY <1>4, <1>5, <1>6 DEF EchoOf

(* A target is redacted.                                                   *)
LEMMA EchoRedact ==
  ASSUME Shape, NEW s \in Session, InvOf(s), EchoOf(s), UNCHANGED action,
         Redact(s) \/ BlockObfuscated(s)
  PROVE  EchoOf(s)'
<1>1. /\ Scanning(s) /\ stage[s] = "scanning" /\ stage'[s] \in {"scanning", "refused"}
      /\ body' = [body EXCEPT ![s][Target(s)] = Redaction(s).text]
      /\ values'[s] = Redaction(s).values
      /\ UNCHANGED <<received, sent, reply>>
  BY DEF Redact, BlockObfuscated, Redactable, Shape, Scanning, At, Become
<1>2. reply[s] = <<>> /\ DOMAIN <<>> = {}
  BY <1>1 DEF EchoOf, NoReplyYet
<1>3. ReceivedForeign(s)' /\ EchoFaithful(s)' /\ NoReplyYet(s)'
  BY <1>1, <1>2 DEF EchoOf, ReceivedForeign, EchoFaithful, NoReplyYet, Mine
<1>4. Undone(s)'
  <2> DEFINE E == [value : Seq(Marked), pointer : ToSet(Fields) \cup {NoPointer}]
             before == [text |-> Raw(s), values |-> values[s]]
  <2>1. Raw(s) \in Seq(Marked) /\ values[s] \in Seq(E)
    <3>1. Raw(s) \in Seq(Symbol) /\ values[s] \in Seq(Values)
      BY <1>1, TargetHere DEF InvOf, Typed
    <3>2. Symbol \subseteq Marked
      BY DEF Marked
    <3>3. Values \subseteq E
      <4>1. Seq(Symbol) \subseteq Seq(Marked)
        BY <3>2
      <4> QED
        BY <4>1 DEF Values
    <3> HIDE DEF E
    <3> QED
      BY <3>1, <3>2, <3>3
  <2>2. \A n \in Nat : Token(s, n) \in Marked
    BY DEF Token, Symbol, Marked
  <2>3. \A value \in Seq(Marked) : Entry(value, Target(s)) \in E
    BY <1>1, TargetHere DEF Entry
  <2>4. Reversible(s, Target(s), Marked, E, before, Redaction(s))
    <3> HIDE DEF E
    <3> QED
      BY <2>1, <2>2, <2>3, RedactAtUndone DEF Redaction
  <2> HIDE DEF E
  <2>5. SUFFICES ASSUME NEW p \in DOMAIN body'[s], NEW e \in Maps(Marked, Marked),
                        Undoes(e, s, Redaction(s).values, p)
                 PROVE  Subst(e, body'[s][p]) = Subst(e, received[s][p])
    BY <1>1 DEF Undone
  <2>6. body'[s] = [body[s] EXCEPT ![Target(s)] = Redaction(s).text]
    BY <1>1 DEF Shape
  <2>7. CASE p = Target(s)
    <3>1. body'[s][p] = Redaction(s).text /\ Raw(s) = received[s][p]
      BY <1>1, <2>6, <2>7, TargetHere, ZenonT(60)
    <3> QED
      BY <2>4, <2>5, <2>7, <3>1 DEF Reversible
  <2>8. CASE p # Target(s)
    <3>1. p \in DOMAIN body[s] /\ body'[s][p] = body[s][p]
      BY <2>6, <2>8
    <3>2. Redaction(s).values \in Seq(E) /\ Extends(Redaction(s).values, values[s])
      BY <2>4 DEF Reversible
    <3>3. Undoes(e, s, values[s], p)
      BY <2>1, <2>5, <3>2, UndoesBefore
    <3> QED
      BY <3>1, <3>3 DEF EchoOf, Undone
  <2> QED
    BY <2>7, <2>8
<1> QED
  BY <1>3, <1>4 DEF EchoOf

(* A payload without structure has no wrapper.                             *)
LEMMA WrapperTold == Head(NoPointer) # Wrapper
<1>1. \A x : Head(<<x>>) = x
  OBVIOUS
<1>2. Literal("no pointer") # Literal("echo")
  BY DEF Literal
<1>3. \A x, y : <<x>> = <<y>> => x = y
  <2>1. \A x : <<x>>[1] = x
    OBVIOUS
  <2> QED
    BY <2>1
<1>4. <<Literal("no pointer")>> # <<Literal("echo")>>
  BY <1>2, <1>3
<1>5. Head(NoPointer) = <<Literal("no pointer")>>
  BY <1>1 DEF NoPointer
<1> QED
  BY <1>4, <1>5 DEF Wrapper

(* An echo is told by its wrapper, and repeats what was sent.              *)
LEMMA EchoReplies ==
  ASSUME NEW s \in Session, InvOf(s), NEW r \in Replies(s), NEW l \in DOMAIN r,
         NEW p \in Pointers(r, l), Head(p) = Wrapper
  PROVE  /\ r[l].kind = "json" /\ IsJson(sent[s])
         /\ Tail(p) \in DOMAIN sent[s] /\ p = <<Wrapper>> \o Tail(p)
         /\ StringAt(r, l, p) = sent[s][Tail(p)]
<1>0. Head(NoPointer) # Wrapper
  BY WrapperTold
<1>1. ASSUME NEW kind, NEW t, r[l] = Line(kind, Only(NoPointer, t)) PROVE FALSE
  BY <1>0, <1>1 DEF Pointers, Line, Only
<1>2. CASE \E t \in ModelTexts : r = <<Line("text", Only(NoPointer, t))>>
  BY <1>1, <1>2
<1>3. CASE \E t \in ModelTexts : r = Stream(t)
  <2>1. PICK t \in ModelTexts : r = Stream(t)
    BY <1>3
  <2>2. r[l] \in {Line("other", Only(NoPointer, t)), Line("text", Only(NoPointer, t)),
                  Line("json", Only(ModelPointer, t)), Line("json", Keyed(t))}
    BY <2>1 DEF Stream
  <2>3. r[l] \in {Line("json", Only(ModelPointer, t)), Line("json", Keyed(t))}
    BY <1>1, <2>2
  <2>4. p = ModelPointer \/ \E key : p = <<Head(ModelPointer), key>>
    BY <2>3 DEF Pointers, Line, Only, Keyed
  <2>5. \A x, y : Head(<<x, y>>) = x
    OBVIOUS
  <2>6. Head(p) = Head(ModelPointer)
    BY <2>4, <2>5
  <2> QED
    BY <2>6, ModelPointerAssumption
<1>4. CASE r = <<>>
  BY <1>4
<1>5. CASE r = <<Line("json", Echo(s))>> /\ IsJson(sent[s])
  <2>1. r[l] = Line("json", Echo(s))
    BY <1>5
  <2>2. p \in DOMAIN Echo(s)
    BY <2>1 DEF Pointers, Line
  <2>3. PICK q \in DOMAIN sent[s] : p = <<Wrapper>> \o q
    BY <2>2 DEF Echo
  <2>4. q \in Seq(ToSet(q))
    BY <1>5, <2>3, FieldsAssumption DEF InvOf, Typed, IsBody, IsJson
  <2>5. Tail(p) = q
    BY <2>3, <2>4
  <2>6. Echo(s)[p] = sent[s][Tail(p)]
    BY <2>2 DEF Echo
  <2>7. r[l].kind = "json" /\ r[l].strings = Echo(s)
    BY <2>1 DEF Line
  <2> QED
    BY <1>5, <2>3, <2>5, <2>6, <2>7 DEF StringAt
<1> QED
  BY <1>2, <1>3, <1>4, <1>5 DEF Replies

(* An answer arrives.                                                      *)
LEMMA EchoRespond ==
  ASSUME Shape, NEW s \in Session, InvOf(s), EchoOf(s), Respond(s)
  PROVE  EchoOf(s)'
<1>1. PICK r \in Replies(s) : Answer(s, r) \/ BlockAnswer(s, r)
  BY DEF Respond
<1>2. reply'[s] = r /\ stage'[s] \in {"answered", "failed"} /\ UNCHANGED <<received, body, values, sent>>
  BY <1>1 DEF Answer, BlockAnswer, Become, Shape
<1>3. ReceivedForeign(s)' /\ Undone(s)' /\ NoReplyYet(s)'
  BY <1>2 DEF EchoOf, ReceivedForeign, Undone, NoReplyYet, Mine
<1>4. EchoFaithful(s)'
  <2>1. SUFFICES ASSUME NEW l \in DOMAIN r, NEW p \in Pointers(r, l), Head(p) = Wrapper
                 PROVE  /\ r[l].kind = "json" /\ IsJson(sent[s])
                        /\ Tail(p) \in DOMAIN sent[s] /\ p = <<Wrapper>> \o Tail(p)
                        /\ StringAt(r, l, p) = sent[s][Tail(p)]
    BY <1>2 DEF EchoFaithful, Pointers, StringAt, IsJson
  <2> QED
    BY <2>1, EchoReplies
<1> QED
  BY <1>3, <1>4 DEF EchoOf

(* Nothing else changes what an echo is made of, except that it leaves.    *)
LEMMA EchoElse ==
  ASSUME Shape, NEW s \in Session, InvOf(s), EchoOf(s),
         TurnAway(s) \/ Skip(s) \/ BlockViolation(s) \/ Forward(s) \/ FailAnswer(s)
  PROVE  EchoOf(s)'
<1>1. /\ UNCHANGED <<received, body, values, reply>>
      /\ stage[s] \notin {"answered", "failed"}
      /\ stage'[s] \notin {"answered", "failed"} \/ stage[s] = "forwarded"
  BY DEF TurnAway, Skip, BlockViolation, Forward, FailAnswer, Scanning, At, Become,
     Shape
<1>2. reply[s] = <<>> /\ DOMAIN <<>> = {}
  BY <1>1 DEF EchoOf, NoReplyYet
<1> QED
  BY <1>1, <1>2 DEF EchoOf, ReceivedForeign, Undone, EchoFaithful, NoReplyYet, Mine

(* Every request's body can be undone, and an echo repeats it.             *)
LEMMA EchoInvariance == Spec => [](\A s \in Session : EchoOf(s))
<1> DEFINE EchoInv == \A s \in Session : EchoOf(s)
<1>1. Init => EchoInv
  BY DEF Init, EchoOf, ReceivedForeign, Undone, EchoFaithful, NoReplyYet, Nothing
<1>2. IInv /\ EchoInv /\ [Next]_vars => EchoInv'
  <2> SUFFICES ASSUME IInv, EchoInv, [Next]_vars PROVE EchoInv'
    OBVIOUS
  <2>1. CASE Next
    <3>1. PICK s \in Session : Step(s)
      BY <2>1 DEF Next, Step
    <3>2. UNCHANGED action /\ Shape /\ \A t \in Session : InvOf(t) /\ EchoOf(t)
      BY <2>1 DEF Next, IInv
    <3>3. \A t \in Session \ {s} : Same(t)
      BY <3>1, <3>2, OneAtATime
    <3>4. EchoOf(s)'
      BY <3>1, <3>2, EchoArrive, EchoRedact, EchoRespond, EchoElse DEF Step
    <3>5. \A t \in Session \ {s} : EchoOf(t)'
      BY <3>2, <3>3, EchoSame
    <3> QED
      BY <3>4, <3>5
  <2>2. CASE UNCHANGED vars
    <3>1. \A t \in Session : Same(t)
      BY <2>2 DEF vars, Same
    <3> QED
      BY <3>1, EchoSame
  <2> QED
    BY <2>1, <2>2
<1> HIDE DEF EchoInv
<1>3. Spec => []EchoInv
  BY <1>1, <1>2, Invariance, PTL DEF Spec
<1> QED
  BY <1>3 DEF EchoInv

-----------------------------------------------------------------------------
(* Restoration puts back exactly what redaction took out.                  *)
LEMMA FlatEchoFollows ==
  IInv /\ (\A s \in Session : EchoOf(s)) => FlatEchoRestored
<1> SUFFICES ASSUME IInv, \A t \in Session : EchoOf(t),
                    NEW s \in Session, \A k \in DOMAIN values[s] : ~Mine(s, values[s][k].value),
                    NEW l \in DOMAIN answer[s], NEW p \in Pointers(reply[s], l),
                    Head(p) = Wrapper, Tail(p) \in ScannedFields(s),
                    Unmasked(sent[s][Tail(p)]), KeysKept(s, p)
             PROVE  p \in Pointers(answer[s], l) /\ StringAt(answer[s], l, p) = received[s][Tail(p)]
  BY DEF FlatEchoRestored
<1> DEFINE q == Tail(p)
           n == Len(values[s])
           Inert == Marked \ TokensTo(s, n)
           put(k) == IF Eligible(p, values[s][k].pointer) THEN values[s][k].value ELSE <<NeutralizedMarker>>
           e == [x \in Marked |-> IF x \in TokensTo(s, n) THEN put(x.n + 1) ELSE <<x>>]
<1>1. InvOf(s) /\ EchoOf(s) /\ values[s] \in Seq(Values) /\ n \in Nat /\ DOMAIN values[s] = 1..n
  BY DEF IInv, InvOf, Typed
<1>2. l \in DOMAIN reply[s] /\ p \in Pointers(answer[s], l)
  BY <1>1, AnswerThere
<1>3. /\ reply[s][l].kind = "json" /\ IsJson(sent[s]) /\ q \in DOMAIN sent[s] /\ p = <<Wrapper>> \o q
      /\ StringAt(reply[s], l, p) = sent[s][q]
  BY <1>1, <1>2 DEF EchoOf, EchoFaithful
<1>4. StringAt(answer[s], l, p) = TransformString(s, sent[s][q], p)
  BY <1>1, <1>3, AnswerThere DEF IsInspected
<1>5. sent[s] = body[s] /\ q \in DOMAIN body[s] /\ DOMAIN body[s] = DOMAIN received[s]
  <2>1. DOMAIN Nothing = {}
    BY DEF Nothing
  <2> QED
    BY <1>1, <1>3, <2>1 DEF InvOf, SentScanned, ScannedSoFar
<1>6. body[s][q] \in Seq(Symbol) /\ received[s][q] \in Seq(Symbol)
  BY <1>1, <1>5 DEF InvOf, Typed, IsBody
<1>7. Redacted(sent[s][q]) = sent[s][q]
  <2>1. IsText(sent[s][q])
    BY <1>5, <1>6, TextOver
  <2> QED
    BY <2>1, PermanentNothing DEF Redacted, Unmasked
<1>8. ASSUME NEW text \in Seq(Symbol), ~Mine(s, text) PROVE text \in Seq(Inert)
  <2>1. \A i \in DOMAIN text : text[i] \in Symbol /\ text[i] \notin TokensTo(s, n)
    BY <1>8 DEF Mine, TokensTo, Token
  <2>2. \A i \in DOMAIN text : text[i] \in Inert
    BY <2>1 DEF Marked
  <2> HIDE DEF Inert
  <2> QED
    BY <2>2
<1>9. \A k \in 1..n : values[s][k].value \in Seq(Inert) /\ values[s][k].value \in Seq(Symbol)
  <2>1. ASSUME NEW k \in 1..n PROVE values[s][k].value \in Seq(Symbol)
    <3>1. values[s][k] \in Values
      <4> HIDE DEF Values
      <4> QED
        BY <1>1
    <3> QED
      BY <3>1 DEF Values
  <2> HIDE DEF Inert
  <2> QED
    BY <1>1, <1>8, <2>1
<1>10. NeutralizedMarker \in Inert
  BY DEF NeutralizedMarker, Literal, TokensTo, Token, Marked
<1>11. \A k \in 1..n : put(k) \in Seq(Inert) /\ put(k) \in Seq(Marked)
  <2>1. <<NeutralizedMarker>> \in Seq(Inert)
    <3> HIDE DEF Inert
    <3> QED
      BY <1>10
  <2>2. \A k \in 1..n : put(k) \in Seq(Inert)
    <3> HIDE DEF Inert
    <3> QED
      BY <1>9, <2>1
  <2>3. \A t \in Seq(Inert) : t \in Seq(Marked)
    OBVIOUS
  <2> HIDE DEF Inert, put
  <2> QED
    BY <2>2, <2>3
<1>12. \A k \in 1..n : Token(s, k - 1) \in Marked /\ Token(s, k - 1) \in TokensTo(s, n) /\ Token(s, k - 1).n + 1 = k
  BY <1>1 DEF Token, Symbol, Marked, TokensTo
<1>13. e \in Maps(Marked, Marked)
  <2>1. ASSUME NEW x \in Marked PROVE (IF x \in TokensTo(s, n) THEN put(x.n + 1) ELSE <<x>>) \in Seq(Marked)
    <3>1. CASE x \in TokensTo(s, n)
      <4>1. PICK k \in 1..n : x = Token(s, k - 1)
        BY <3>1 DEF TokensTo
      <4>2. x.n + 1 = k
        BY <1>12, <4>1
      <4> HIDE DEF put
      <4> QED
        BY <1>11, <3>1, <4>2
    <3>2. CASE x \notin TokensTo(s, n)
      BY <3>2
    <3> QED
      BY <3>1, <3>2
  <2> HIDE DEF put
  <2> QED
    BY <2>1 DEF Maps
<1>14. Restores(e, s, values[s], p)
  <2>1. \A k \in 1..n : e[Token(s, k - 1)] = put(k)
    <3> HIDE DEF put
    <3> QED
      BY <1>12
  <2>2. \A x \in DOMAIN e \ TokensTo(s, n) : e[x] = <<x>>
    OBVIOUS
  <2> HIDE DEF e
  <2> QED
    BY <2>1, <2>2 DEF Restores
<1> HIDE DEF e
<1>15. ASSUME NEW text \in Seq(Inert) PROVE Subst(e, text) = text
  <2>1. \A i \in 1..Len(text) : e[text[i]] = <<text[i]>>
    <3>1. \A x \in Inert : e[x] = <<x>>
      BY <1>13, <1>14 DEF Restores, Maps
    <3> HIDE DEF Inert
    <3> QED
      BY <3>1
  <2> QED
    BY <2>1, SubstIdentity
<1>16. Undoes(e, s, values[s], q)
  <2>1. p # NoPointer /\ q # NoPointer
    BY <1>3, WrapperTold DEF IsJson
  <2>2. IsSuffix(q, p)
    <3>1. q \in Seq(ToSet(q))
      BY <1>1, <1>3, FieldsAssumption DEF InvOf, Typed, IsBody, IsJson
    <3>2. q \in Seq(ToSet(q) \cup {Wrapper})
      <4> HIDE DEF q
      <4> QED
        BY <3>1
    <3> HIDE DEF q
    <3> QED
      BY <1>3, <3>2, SuffixOfConcat
  <2>3. SUFFICES ASSUME NEW k \in 1..n, values[s][k].pointer = q
                 PROVE  e[Token(s, k - 1)] = values[s][k].value /\ Subst(e, values[s][k].value) = values[s][k].value
    BY DEF Undoes
  <2>4. Eligible(p, values[s][k].pointer)
    BY <2>1, <2>2, <2>3 DEF Eligible, PointerTailMatches
  <2>5. e[Token(s, k - 1)] = values[s][k].value
    BY <1>14, <2>4 DEF Restores
  <2> HIDE DEF Inert
  <2> QED
    BY <1>9, <1>15, <2>5
<1>17. Subst(e, body[s][q]) = Subst(e, received[s][q])
  BY <1>1, <1>5, <1>13, <1>16 DEF EchoOf, Undone
<1>18. received[s][q] \in Seq(Inert)
  <2>1. ~Mine(s, received[s][q])
    BY <1>1, <1>5 DEF EchoOf, ReceivedForeign
  <2> HIDE DEF Inert
  <2> QED
    BY <1>6, <1>8, <2>1
<1>19. RestoreAt(s, values[s], body[s][q], p) = Subst(e, body[s][q])
  <2>1. body[s][q] \in Seq(Marked)
    <3>1. Symbol \subseteq Marked
      BY DEF Marked
    <3> QED
      BY <1>6, <3>1
  <2> QED
    BY <1>1, <1>9, <1>10, <1>13, <1>14, <2>1, RestoreIsSubst, ZenonT(60)
<1> HIDE DEF Inert
<1> QED
  BY <1>2, <1>4, <1>5, <1>7, <1>15, <1>17, <1>18, <1>19 DEF TransformString

(* Whatever the detectors, an echo gives the client its own text back,     *)
(* but for what one-way redaction takes out of it (restore_at).            *)
THEOREM FlatEchoRestoredHolds == Spec => []FlatEchoRestored
BY Invariance, EchoInvariance, FlatEchoFollows, PTL

-----------------------------------------------------------------------------
(* Rules that match no marks, and not themselves.                          *)

(* With rules that leave each other's output alone, what lies behind the   *)
(* scan is clean as it stands.                                             *)
RawClean(s) ==
  \A i \in DOMAIN TargetsOf(body[s]) : LET p == TargetsOf(body[s])[i] IN
    i < next[s] /\ IsTarget(p, received[s][p]) => ~CheckViolations(body[s][p])

(* It is one request's own.                                                *)
LEMMA RawSame == ASSUME NEW t \in Session, RawClean(t), Same(t) PROVE RawClean(t)'
BY DEF RawClean, Same, TargetsOf, IsJson

(* A redacted target is clean.                                             *)
LEMMA RedactionClean ==
  ASSUME RulesSeparate, NEW s \in Session, InvOf(s), Scanning(s)
  PROVE  ~CheckViolations(Redaction(s).text)
<1>1. \A n \in Nat : Token(s, n) \in Symbol
  BY DEF Token, Symbol
<1>2. \A value \in Seq(Symbol) : Entry(value, Target(s)) \in Values
  BY TargetHere DEF Entry, Values
<1>3. Raw(s) \in Seq(Symbol) /\ values[s] \in Seq(Values)
  BY TargetHere DEF InvOf, Typed
<1> QED
  BY <1>1, <1>2, <1>3, RedactAtClean DEF Redaction

(* Every step of a request keeps it clean.                                 *)
LEMMA RawKeeps ==
  ASSUME RulesSeparate, Shape, NEW s \in Session, \A t \in Session : InvOf(t), RawClean(s),
         UNCHANGED action, Step(s)
  PROVE  RawClean(s)'
<1>0. InvOf(s) /\ next[s] \in Nat /\ DOMAIN TargetsOf(body[s]) \subseteq Nat
  BY TargetsTyped DEF InvOf, Typed
<1>1. CASE ArriveJson(s) \/ ArriveNonJson(s)
  <2>1. next'[s] = 1
    BY <1>0, <1>1 DEF ArriveJson, ArriveNonJson, Arrive, At, InvOf, ScannedSoFar
  <2>2. \A i \in DOMAIN TargetsOf(body'[s]) : i \in Nat \ {0}
    <3>1. DOMAIN TargetsOf(body'[s]) = 1..Len(TargetsOf(body'[s])) /\ Len(TargetsOf(body'[s])) \in Nat
      BY TargetsTyped
    <3> QED
      BY <3>1
  <2>3. \A i \in DOMAIN TargetsOf(body'[s]) : ~(i < next'[s])
    BY <2>1, <2>2
  <2> QED
    BY <2>3 DEF RawClean, TargetsOf, IsJson
<1>2. CASE Skip(s)
  <2>1. /\ Scanning(s) /\ ~IsTarget(Target(s), Raw(s)) /\ next'[s] = next[s] + 1
        /\ UNCHANGED <<received, body>>
    BY <1>2 DEF Skip, Shape
  <2>2. Raw(s) = received[s][Target(s)] /\ Target(s) = TargetsOf(body[s])[next[s]]
    BY <1>0, <2>1, TargetHere DEF Target
  <2>3. SUFFICES ASSUME NEW i \in DOMAIN TargetsOf(body[s]), i < next[s] + 1,
                        IsTarget(TargetsOf(body[s])[i], received[s][TargetsOf(body[s])[i]])
                 PROVE  ~CheckViolations(body[s][TargetsOf(body[s])[i]])
    BY <2>1 DEF RawClean, TargetsOf, IsJson
  <2>4. i # next[s]
    BY <2>1, <2>2, <2>3
  <2>5. i < next[s]
    BY <1>0, <2>3, <2>4
  <2> QED
    BY <2>3, <2>5 DEF RawClean
<1>3. CASE Redact(s) \/ BlockObfuscated(s)
  <2>1. /\ Scanning(s) /\ body' = [body EXCEPT ![s][Target(s)] = Redaction(s).text]
        /\ UNCHANGED received /\ next'[s] \in {next[s], next[s] + 1}
    BY <1>3 DEF Redact, BlockObfuscated, Redactable, Shape
  <2>2. Redaction(s).text \in Seq(Symbol)
    BY <1>0, <2>1, RedactionTyped
  <2>3. /\ TargetsOf(body'[s]) = TargetsOf(body[s]) /\ body'[s][Target(s)] = Redaction(s).text
        /\ \A i \in DOMAIN TargetsOf(body[s]) : i # next[s] =>
             body'[s][TargetsOf(body[s])[i]] = body[s][TargetsOf(body[s])[i]]
    BY <1>0, <2>1, <2>2, Rewritten
  <2>4. SUFFICES ASSUME NEW i \in DOMAIN TargetsOf(body[s]), i < next'[s],
                        IsTarget(TargetsOf(body[s])[i], received[s][TargetsOf(body[s])[i]])
                 PROVE  ~CheckViolations(body'[s][TargetsOf(body[s])[i]])
    BY <2>1, <2>3 DEF RawClean
  <2>5. CASE i = next[s]
    BY <1>0, <2>1, <2>3, <2>5, RedactionClean DEF Target
  <2>6. CASE i # next[s]
    <3>1. i < next[s]
      BY <1>0, <2>1, <2>4, <2>6
    <3> QED
      BY <2>3, <2>4, <2>6, <3>1 DEF RawClean
  <2> QED
    BY <2>5, <2>6
<1>4. CASE UNCHANGED <<received, body, next>>
  BY <1>4 DEF RawClean, TargetsOf, IsJson
<1> QED
  BY <1>1, <1>2, <1>3, <1>4
  DEF Step, TurnAway, BlockViolation, Forward, Respond, Answer, BlockAnswer, FailAnswer

(* With such rules nothing a detector finds reaches the provider, raw or   *)
(* normalized, in either mode: redaction leaves nothing for a rule that    *)
(* ran before (server.rs handler, redact_at).                              *)
THEOREM SeparateForwardsClean ==
  ASSUME RulesSeparate
  PROVE  Spec => []ForwardedClean
<1> DEFINE RawInv == \A s \in Session : RawClean(s)
<1>1. Init => RawInv
  <2> SUFFICES ASSUME Init, NEW s \in Session PROVE RawClean(s)
    OBVIOUS
  <2>1. \A i \in DOMAIN TargetsOf(body[s]) : ~(i < 1)
    BY TargetsTyped
  <2> QED
    BY <2>1 DEF Init, RawClean
<1>2. IInv /\ RawInv /\ [Next]_vars => RawInv'
  <2> SUFFICES ASSUME IInv, RawInv, [Next]_vars PROVE RawInv'
    OBVIOUS
  <2>1. CASE Next
    <3>1. PICK s \in Session : Step(s)
      BY <2>1 DEF Next, Step
    <3>2. UNCHANGED action /\ Shape /\ (\A t \in Session : InvOf(t)) /\ \A t \in Session : RawClean(t)
      BY <2>1 DEF Next, IInv
    <3>3. \A t \in Session \ {s} : Same(t)
      BY <3>1, <3>2, OneAtATime
    <3>4. RawClean(s)'
      BY <3>1, <3>2, RawKeeps
    <3>5. \A t \in Session \ {s} : RawClean(t)'
      BY <3>2, <3>3, RawSame
    <3> QED
      BY <3>4, <3>5
  <2>2. CASE UNCHANGED vars
    <3>1. \A t \in Session : Same(t)
      BY <2>2 DEF vars, Same
    <3> QED
      BY <3>1, RawSame
  <2> QED
    BY <2>1, <2>2
<1>3. IInv /\ RawInv => ForwardedClean
  <2> SUFFICES ASSUME IInv, RawInv PROVE ForwardedClean
    OBVIOUS
  <2>1. ASSUME NEW s \in Session, NEW p \in ScannedFields(s) PROVE ~CheckViolations(sent[s][p])
    BY SentTarget DEF RawClean
  <2> QED
    BY <2>1, ProbedFollows DEF ForwardedClean
<1> HIDE DEF RawInv
<1> QED
  BY <1>1, <1>2, <1>3, Invariance, PTL DEF Spec

(* No value of a request has one of its own placeholders in it.            *)
FlatOf(s) == \A k \in DOMAIN values[s] : ~Mine(s, values[s][k].value)

(* What a request redacts is flat.                                         *)
LEMMA RedactionFlat ==
  ASSUME RulesSeparate, NEW s \in Session, InvOf(s), EchoOf(s), Scanning(s), FlatOf(s)
  PROVE  \A k \in DOMAIN Redaction(s).values : ~Mine(s, Redaction(s).values[k].value)
<1> DEFINE W == {x \in Symbol : x.of = s => x.name \in MarkNames}
           E == {entry \in Values : ~Mine(s, entry.value)}
<1>1. \A n \in Nat : Token(s, n) \in W
  BY DEF Token, Symbol, MarkNames
<1>2. ASSUME NEW value \in Seq(Plain(W)) PROVE Entry(value, Target(s)) \in E
  <2>1. \A x \in Plain(W) : x \in Symbol /\ x.of # s
    BY DEF Plain
  <2> HIDE DEF W
  <2>2. value \in Seq(Symbol) /\ ~Mine(s, value)
    BY <2>1 DEF Mine
  <2> QED
    BY <2>2, TargetHere DEF Entry, Values
<1>3. Raw(s) \in Seq(W)
  <2>1. Raw(s) \in Seq(Symbol) /\ Raw(s) = received[s][Target(s)] /\ Target(s) \in DOMAIN received[s]
    BY TargetHere DEF InvOf, ScannedSoFar
  <2>2. \A i \in DOMAIN Raw(s) : Raw(s)[i].of # s
    BY <2>1 DEF EchoOf, ReceivedForeign, Mine
  <2>3. \A i \in DOMAIN Raw(s) : Raw(s)[i] \in W
    BY <2>1, <2>2
  <2> HIDE DEF W
  <2> QED
    BY <2>1, <2>3
<1>4. values[s] \in Seq(E)
  <2>1. values[s] \in Seq(Values)
    BY DEF InvOf, Typed
  <2>2. \A k \in DOMAIN values[s] : values[s][k] \in E
    <3> HIDE DEF Values
    <3> QED
      BY <2>1 DEF FlatOf
  <2> HIDE DEF E
  <2> QED
    BY <2>1, <2>2
<1> HIDE DEF W, E
<1>5. Redaction(s).values \in Seq(E)
  <2>1. Redaction(s) \in [text : Seq(W), values : Seq(E)]
    BY <1>1, <1>2, <1>3, <1>4, RedactAtPlain DEF Redaction
  <2> QED
    BY <2>1
<1> QED
  BY <1>5 DEF E

(* Every request's values are flat.                                        *)
LEMMA FlatInvariance ==
  ASSUME RulesSeparate
  PROVE  Spec => [](\A s \in Session : FlatOf(s))
<1> DEFINE FlatInv == \A s \in Session : FlatOf(s)
           EchoInv == \A s \in Session : EchoOf(s)
<1>1. Init => FlatInv
  BY DEF Init, FlatOf
<1>2. IInv /\ EchoInv /\ FlatInv /\ [Next]_vars => FlatInv'
  <2> SUFFICES ASSUME IInv, EchoInv, FlatInv, [Next]_vars PROVE FlatInv'
    OBVIOUS
  <2>1. ASSUME NEW t \in Session, Same(t) PROVE FlatOf(t)'
    BY <2>1 DEF FlatOf, Same, Mine
  <2>2. CASE Next
    <3>1. PICK s \in Session : Step(s)
      BY <2>2 DEF Next, Step
    <3>2. UNCHANGED action /\ Shape /\ InvOf(s) /\ EchoOf(s) /\ FlatOf(s)
      BY <2>2 DEF Next, IInv
    <3>3. \A t \in Session \ {s} : Same(t)
      BY <3>1, <3>2, OneAtATime
    <3>4. CASE Redact(s) \/ BlockObfuscated(s)
      <4>1. Scanning(s) /\ values'[s] = Redaction(s).values
        BY <3>2, <3>4 DEF Redact, BlockObfuscated, Redactable, Shape
      <4>2. FlatOf(s)'
        BY <3>2, <4>1, RedactionFlat DEF FlatOf, Mine
      <4> QED
        BY <2>1, <3>3, <4>2
    <3>5. CASE UNCHANGED values
      BY <3>5 DEF FlatOf, Mine
    <3> QED
      BY <3>1, <3>4, <3>5
      DEF Step, TurnAway, ArriveJson, ArriveNonJson, Arrive, Skip, BlockViolation, Forward, Respond,
          Answer, BlockAnswer, FailAnswer
  <2>3. CASE UNCHANGED vars
    BY <2>1, <2>3 DEF vars, Same
  <2> QED
    BY <2>2, <2>3
<1>3. Spec => []EchoInv
  BY EchoInvariance
<1> HIDE DEF FlatInv, EchoInv
<1>4. Spec => []FlatInv
  BY <1>1, <1>2, <1>3, Invariance, PTL DEF Spec
<1> QED
  BY <1>4 DEF FlatInv

(* One-way redaction finds nothing in what the provider got, keys included. *)
EchoUnmasked ==
  \A s \in Session : \A q \in ScannedFields(s) \ {NoPointer} :
    Unmasked(sent[s][q]) /\ KeysKept(s, <<Wrapper>> \o q)

(* So with such rules redaction is reversible: a provider that echoes the  *)
(* request gives the client its own text back in every scanned field, if   *)
(* there is nothing in it and in the keys above it for one-way redaction   *)
(* (redact_at, restore_at, transform_json_strings).                        *)
THEOREM UnmaskedReversible ==
  ASSUME RulesSeparate
  PROVE  Spec => [](EchoUnmasked => EchoRestored)
<1> DEFINE FlatInv == \A s \in Session : FlatOf(s)
           EchoInv == \A s \in Session : EchoOf(s)
<1>1. IInv /\ EchoInv /\ FlatInv /\ FlatEchoRestored /\ EchoUnmasked => EchoRestored
  <2> SUFFICES ASSUME IInv, EchoInv, FlatInv, FlatEchoRestored, EchoUnmasked,
                      NEW s \in Session, NEW l \in DOMAIN answer[s], NEW p \in Pointers(reply[s], l),
                      Head(p) = Wrapper, Tail(p) \in ScannedFields(s)
               PROVE  p \in Pointers(answer[s], l) /\ StringAt(answer[s], l, p) = received[s][Tail(p)]
    BY DEF EchoRestored
  <2>1. l \in DOMAIN reply[s]
    BY RekeyedApart DEF IInv
  <2>2. p = <<Wrapper>> \o Tail(p) /\ IsJson(sent[s]) /\ Tail(p) \in DOMAIN sent[s]
    BY <2>1 DEF EchoOf, EchoFaithful
  <2>3. Tail(p) # NoPointer
    BY <2>2 DEF IsJson
  <2>4. Unmasked(sent[s][Tail(p)]) /\ KeysKept(s, p)
    BY <2>2, <2>3 DEF EchoUnmasked
  <2> QED
    BY <2>4 DEF FlatOf, FlatEchoRestored
<1>2. Spec => []FlatInv
  BY FlatInvariance
<1>3. Spec => []EchoInv
  BY EchoInvariance
<1> HIDE DEF FlatInv, EchoInv
<1> QED
  BY <1>1, <1>2, <1>3, Invariance, FlatEchoRestoredHolds, PTL

(* No detector finds anything in the keys of the fields or of the wrapper. *)
KeysUndetected ==
  \A p \in ToSet(Fields) \cup {<<Wrapper>>} : \A i \in DOMAIN p : p[i] \in Indices \/ ~CheckViolations(p[i])

(* Without gates what leaves clean needs no mask when it comes back.       *)
LEMMA CleanEchoUnmasked == RulesUngated /\ KeysUndetected /\ IInv /\ ForwardedClean => EchoUnmasked
<1> SUFFICES ASSUME RulesUngated, KeysUndetected, IInv, ForwardedClean,
                    NEW s \in Session, NEW q \in ScannedFields(s) \ {NoPointer}
             PROVE  Unmasked(sent[s][q]) /\ KeysKept(s, <<Wrapper>> \o q)
  BY DEF EchoUnmasked
<1>1. sent[s][q] \in Seq(Symbol) /\ q \in ToSet(Fields)
  BY DEF ScannedFields, IInv, InvOf, Typed, IsBody
<1>2. ~CheckViolations(sent[s][q])
  BY DEF ForwardedClean
<1>3. Unmasked(sent[s][q])
  BY <1>1, <1>2, CleanUnmasked DEF Unmasked
<1>4. ASSUME NEW key \in Seq(Symbol), ~CheckViolations(key), \A i \in DOMAIN key : key[i].of # s
      PROVE  Harmless(s, key)
  BY <1>4, CleanUnmasked DEF Harmless, Unmasked, Mine
<1>5. q \in Seq(Seq(Symbol)) /\ Wrapper \in Seq(Symbol)
  BY <1>1, KeysTyped
<1>6. Wrapper \in Indices \/ Harmless(s, Wrapper)
  <2>1. \A x : \A i \in DOMAIN <<x>> : <<x>>[i] = x
    OBVIOUS
  <2>2. \A i \in DOMAIN Wrapper : Wrapper[i].of # s
    BY <2>1, NonceAssumption DEF Wrapper, Literal
  <2>3. Wrapper \in Indices \/ ~CheckViolations(Wrapper)
    <3>1. \A x : 1 \in DOMAIN <<x>> /\ <<x>>[1] = x
      OBVIOUS
    <3> QED
      BY <3>1 DEF KeysUndetected
  <2> QED
    BY <1>4, <1>5, <2>2, <2>3
<1>7. ASSUME NEW i \in DOMAIN q PROVE q[i] \in Indices \/ Harmless(s, q[i])
  <2>1. q[i] \in ToSet(q) /\ q[i] \in Seq(Symbol)
    BY <1>5 DEF ToSet
  <2>2. \A j \in DOMAIN q[i] : q[i][j].of # s
    BY <1>1, <2>1, NonceAssumption
  <2> QED
    BY <1>1, <1>4, <2>1, <2>2 DEF KeysUndetected
<1>8. KeysKept(s, <<Wrapper>> \o q)
  <2>1. ASSUME NEW i \in DOMAIN (<<Wrapper>> \o q)
        PROVE  (<<Wrapper>> \o q)[i] = Wrapper \/ \E j \in DOMAIN q : (<<Wrapper>> \o q)[i] = q[j]
    <3> DEFINE K == Seq(Symbol)
    <3>1. q \in Seq(K) /\ Wrapper \in K
      BY <1>5
    <3> HIDE DEF K
    <3>2. i \in 1..(Len(q) + 1)
      BY <3>1
    <3>3. CASE i = 1
      BY <3>1, <3>3
    <3>4. CASE i # 1
      <4>1. i - 1 \in DOMAIN q /\ (<<Wrapper>> \o q)[i] = q[i - 1]
        BY <3>1, <3>2, <3>4
      <4> QED
        BY <4>1
    <3> QED
      BY <3>3, <3>4
  <2> QED
    BY <1>6, <1>7, <2>1 DEF KeysKept
<1> QED
  BY <1>3, <1>8

(* And if no rule of the files has an entropy gate it is so without that   *)
(* condition, as the documentation has it (README.md:39), where no key is  *)
(* what a detector looks for: that of an answer is redacted like a value   *)
(* (transform_json_strings).                                               *)
THEOREM SeparateReversible ==
  ASSUME RulesSeparate, RulesUngated, KeysUndetected
  PROVE  Spec => []EchoRestored
<1>1. Spec => [](ForwardedClean => EchoUnmasked)
  BY CleanEchoUnmasked, Invariance, PTL
<1> QED
  BY <1>1, SeparateForwardsClean, UnmaskedReversible, PTL

(* Nor does one-way redaction then rewrite what no detector finds anything *)
(* in, under keys of that kind (redact_permanent).                         *)
THEOREM UngatedUndetectedUntouched ==
  ASSUME RulesUngated
  PROVE  Spec => []UndetectedUntouched
<1>1. IInv => UndetectedUntouched
  <2> SUFFICES ASSUME IInv, NEW s \in Session, NEW l \in DOMAIN answer[s],
                      NEW p \in Pointers(reply[s], l),
                      ~CheckViolations(StringAt(reply[s], l, p)), ~Mine(s, StringAt(reply[s], l, p)),
                      p # NoPointer => \A i \in DOMAIN p : ~CheckViolations(p[i]) /\ ~Mine(s, p[i])
               PROVE  p \in Pointers(answer[s], l) /\ StringAt(answer[s], l, p) = StringAt(reply[s], l, p)
    BY DEF UndetectedUntouched
  <2>1. WellFormed(reply[s][l])
    BY RekeyedApart DEF IInv
  <2>2. StringAt(reply[s], l, p) \in Seq(Symbol) /\ (p = NoPointer \/ p \in Seq(Seq(Symbol)))
    BY <2>1 DEF WellFormed, Pointers, StringAt
  <2>3. ASSUME NEW text \in Seq(Symbol), ~CheckViolations(text), ~Mine(s, text) PROVE Harmless(s, text)
    BY <2>3, CleanUnmasked DEF Harmless, Unmasked
  <2>4. KeysKept(s, p)
    <3>1. p # NoPointer => \A i \in DOMAIN p : p[i] \in Seq(Symbol)
      BY <2>2
    <3> QED
      BY <2>3, <3>1 DEF KeysKept
  <2>5. Harmless(s, StringAt(reply[s], l, p))
    BY <2>2, <2>3
  <2> QED
    BY <2>4, <2>5, HarmlessFollows DEF HarmlessUntouched
<1> QED
  BY <1>1, Invariance, PTL
====
