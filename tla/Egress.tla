-------------------------------- MODULE Egress --------------------------------
(***************************************************************************)
(* One request through the egress proxy, and what comes back: the handler  *)
(* of server.rs extracts the strings of the body, refuses or redacts each  *)
(* of them and forwards the body; the provider answers with anything it    *)
(* has seen; proxy.rs inspects the buffered answer and restores the        *)
(* placeholders that came back to where their values were taken from.      *)
(*                                                                         *)
(* Requests are handled concurrently and share nothing in the proxy but    *)
(* the engine.  They share the provider, which keeps what it was sent.     *)
(* Values taken out of a request live in its session only.                 *)
(*                                                                         *)
(* A request body is a function from JSON pointers to texts, an answer a   *)
(* sequence of lines: the one line of a JSON or plain text answer, or the  *)
(* lines of an event stream.  A pointer is a sequence of keys and indices, *)
(* and a key is a text itself: a request's keys leave as they came, those  *)
(* of an answer are redacted and cleared of placeholders like any string,  *)
(* and what is below a rewritten key is at another position.               *)
(***************************************************************************)
EXTENDS Redaction

CONSTANTS
  Session,          \* requests under way, each with its own random nonce
  DlpActions,       \* the values of [dlp] action a proxy is run with
  BlockOnObfuscated,\* [dlp] block_on_obfuscated
  AllowNonJson,     \* [security] allow_non_json_passthrough
  Fields,           \* JSON pointers of a body's strings, in extraction order
  Texts,            \* the texts each request may carry, per action
  Indices,          \* the segments that are array indices, as texts
  KnownKeys,        \* last segments of the fields that are always scanned
  StructuralKeys,   \* STRUCTURAL_KEYS
  ShortNames,       \* literals of fewer than MIN_UNKNOWN_STRING_LEN bytes
  ModelPointer,     \* where the model's own words are in an answer
  ModelNames,       \* literals the model may write
  MaxModelText      \* bound: symbols in the model's words

(* Each string of a body is extracted once, and has a JSON pointer.        *)
ASSUME FieldsAssumption ==
  /\ Fields \in Seq(ToSet(Fields)) /\ IsInjective(Fields)
  /\ \A p \in ToSet(Fields) :
       p \in Seq(ToSet(p)) /\ p # NoPointer /\ \A key \in ToSet(p) : IsText(key)

ASSUME TextsAssumption ==
  \A a \in DlpActions, s \in Session : \A text \in Texts[a][s] : IsText(text)

(* A session's nonce is random, so no request arrives with a placeholder   *)
(* of its own session in it (RedactionSession::new).                       *)
ASSUME NonceAssumption ==
  \A s \in Session :
    /\ \A a \in DlpActions : \A text \in Texts[a][s] : \A i \in DOMAIN text : text[i].of # s
    /\ \A p \in ToSet(Fields) : \A key \in ToSet(p) : \A i \in DOMAIN key : key[i].of # s
    /\ s # NoSession

(* What an echo is wrapped in; the model's own words are not in it.        *)
Wrapper == <<Literal("echo")>>

ASSUME ModelPointerAssumption ==
  /\ ModelPointer \in Seq(ToSet(ModelPointer)) /\ ModelPointer # <<>>
  /\ \A key \in ToSet(ModelPointer) : IsText(key)
  /\ Head(ModelPointer) # Wrapper

VARIABLES
  action,       \* [dlp] action, "redact" or "block": never changes
  stage,        \* where each request is in its handler
  received,     \* its body as it arrived: pointer -> text (history)
  body,         \* its body as it stands
  next,         \* the field to scan next
  values,       \* its RedactionSession (history once it is answered)
  sent,         \* the body the provider got, nothing before
  reply,        \* the lines of the provider's answer (history)
  answer        \* the lines the client got

vars == <<action, stage, received, body, next, values, sent, reply, answer>>

Nothing == [p \in {} |-> <<>>]
Only(p, text) == [q \in {p} |-> text]

-----------------------------------------------------------------------------
(* What is scanned.                                                        *)

IsJson(b) == NoPointer \notin DOMAIN b

(* The order in which a body's strings are scanned.                        *)
TargetsOf(b) == IF IsJson(b) THEN Fields ELSE <<NoPointer>>

TooShort(text) == Len(text) = 1 /\ text[1].name \in ShortNames

(* The scan skips structural keys, and short strings of fields it does not *)
(* know.  Everything of a body that is not JSON is one target.             *)
IsTarget(p, text) ==
  /\ text # <<>>
  /\ \/ p = NoPointer
     \/ Last(p) \in KnownKeys
     \/ Last(p) \notin StructuralKeys /\ ~TooShort(text)

-----------------------------------------------------------------------------
(* The handler.                                                            *)

Init ==
  /\ action \in DlpActions
  /\ stage = [s \in Session |-> "arriving"]
  /\ received = [s \in Session |-> Nothing]
  /\ body = [s \in Session |-> Nothing]
  /\ next = [s \in Session |-> 1]
  /\ values = [s \in Session |-> <<>>]
  /\ sent = [s \in Session |-> Nothing]
  /\ reply = [s \in Session |-> <<>>]
  /\ answer = [s \in Session |-> <<>>]

At(s, where) == stage[s] = where

Become(s, where) == stage' = [stage EXCEPT ![s] = where]

(* Headers, path and rate are checked before the body is looked at, and a  *)
(* body that is neither JSON nor UTF-8 text is refused.                    *)
TurnAway(s) ==
  /\ At(s, "arriving")
  /\ Become(s, "refused")
  /\ UNCHANGED <<received, body, next, values, sent, reply, answer>>

Arrive(s, b) ==
  /\ At(s, "arriving")
  /\ Become(s, IF IsJson(b) \/ AllowNonJson THEN "scanning" ELSE "refused")
  /\ received' = [received EXCEPT ![s] = b]
  /\ body' = [body EXCEPT ![s] = b]
  /\ UNCHANGED <<next, values, sent, reply, answer>>

ArriveJson(s) == \E b \in [ToSet(Fields) -> Texts[action][s]] : Arrive(s, b)

ArriveNonJson(s) == \E t \in Texts[action][s] : Arrive(s, Only(NoPointer, t))

Target(s) == TargetsOf(body[s])[next[s]]

Raw(s) == body[s][Target(s)]

(* The string under the scan, while there is one.                          *)
Scanning(s) == At(s, "scanning") /\ next[s] <= Len(TargetsOf(body[s]))

(* A target that block mode does not refuse.                               *)
Redactable(s) ==
  /\ Scanning(s)
  /\ IsTarget(Target(s), Raw(s))
  /\ ~(action = "block" /\ CheckViolations(Raw(s)))

(* Mutant of Suspicious: the probe looks at the text as it stands.          *)
SuspiciousUnnormalized(cleaned) == BlockOnObfuscated /\ CheckViolations(cleaned)

Suspicious(cleaned) ==
  BlockOnObfuscated /\ CheckViolations(NormalizeForMatching(cleaned))

Redaction(s) == RedactAt(s, Raw(s), Target(s), values[s])

Skip(s) ==
  /\ Scanning(s)
  /\ ~IsTarget(Target(s), Raw(s))
  /\ next' = [next EXCEPT ![s] = @ + 1]
  /\ UNCHANGED <<stage, received, body, values, sent, reply, answer>>

BlockViolation(s) ==
  /\ Scanning(s)
  /\ IsTarget(Target(s), Raw(s))
  /\ action = "block" /\ CheckViolations(Raw(s))
  /\ Become(s, "refused")
  /\ UNCHANGED <<received, body, next, values, sent, reply, answer>>

BlockObfuscated(s) ==
  /\ Redactable(s)
  /\ Suspicious(Redaction(s).text)
  /\ Become(s, "refused")
  /\ body' = [body EXCEPT ![s][Target(s)] = Redaction(s).text]
  /\ values' = [values EXCEPT ![s] = Redaction(s).values]
  /\ UNCHANGED <<received, next, sent, reply, answer>>

Redact(s) ==
  /\ Redactable(s)
  /\ ~Suspicious(Redaction(s).text)
  /\ body' = [body EXCEPT ![s][Target(s)] = Redaction(s).text]
  /\ values' = [values EXCEPT ![s] = Redaction(s).values]
  /\ next' = [next EXCEPT ![s] = @ + 1]
  /\ UNCHANGED <<stage, received, sent, reply, answer>>

Forward(s) ==
  /\ At(s, "scanning")
  /\ next[s] > Len(TargetsOf(body[s]))
  /\ Become(s, "forwarded")
  /\ sent' = [sent EXCEPT ![s] = body[s]]
  /\ UNCHANGED <<received, body, next, values, reply, answer>>

-----------------------------------------------------------------------------
(* The provider.  It may echo the request under a wrapper, in the model's  *)
(* words it may repeat anything it was sent by anyone, as a key too, and   *)
(* it may answer without structure (plain text, a data line that is not    *)
(* JSON) or in an event stream with lines that carry no data.              *)

Line(kind, strings) == [kind |-> kind, strings |-> strings]

Known ==
  {Literal(name) : name \in ModelNames}
    \cup UNION {UNION {ToSet(sent[s][p]) : p \in DOMAIN sent[s]} : s \in Session}

ModelTexts == UNION {[1..n -> Known] : n \in 0..MaxModelText}

Echo(s) ==
  [p \in {<<Wrapper>> \o q : q \in DOMAIN sent[s]} |-> sent[s][Tail(p)]]

(* An object whose keys are the model's words and what redaction leaves.   *)
Keyed(t) == [p \in {<<Head(ModelPointer), key>> : key \in {t, <<Masked>>}} |-> t]

Stream(t) ==
  <<Line("other", Only(NoPointer, t)), Line("text", Only(NoPointer, t)),
    Line("json", Only(ModelPointer, t)), Line("json", Keyed(t))>>

Replies(s) ==
  {<<Line("text", Only(NoPointer, t))>> : t \in ModelTexts \ {<<>>}}
    \cup {Stream(t) : t \in ModelTexts}
    \cup {<<>>}
    \cup (IF IsJson(sent[s]) THEN {<<Line("json", Echo(s))>>} ELSE {})

-----------------------------------------------------------------------------
(* The inspection of the buffered answer.                                  *)

Redacted(text) == IF action = "redact" THEN RedactPermanent(text) ELSE text

TransformString(s, text, p) == RestoreAt(s, values[s], Redacted(text), p)

(* Where a string ends up: an object key has no pointer of its own, and is *)
(* transformed before what it leads to.                                    *)
Rekeyed(s, p) ==
  IF p = NoPointer THEN p
    ELSE [i \in DOMAIN p |-> IF p[i] \in Indices THEN p[i] ELSE TransformString(s, p[i], NoPointer)]

(* Mutant of TransformJsonStrings: a value at the pointer it came with.     *)
TransformAtOldPointer(s, strings) ==
  LET moved == [q \in DOMAIN strings |-> Rekeyed(s, q)]
  IN  [p \in Range(moved) |->
         LET q == CHOOSE old \in DOMAIN strings : moved[old] = p
         IN  TransformString(s, strings[q], q)]

(* Every string of a JSON value, at its pointer with the keys transformed. *)
TransformJsonStrings(s, strings) ==
  LET moved == [q \in DOMAIN strings |-> Rekeyed(s, q)]
  IN  [p \in Range(moved) |->
         LET q == CHOOSE old \in DOMAIN strings : moved[old] = p
         IN  TransformString(s, strings[q], p)]

(* Two keys of an object become one.                                       *)
Collides(s, strings) ==
  LET moved == [q \in DOMAIN strings |-> Rekeyed(s, q)]
  IN  \E p, q \in DOMAIN strings : \E n \in DOMAIN p \cap DOMAIN q :
        p[n] # q[n] /\ SubSeq(moved[p], 1, n) = SubSeq(moved[q], 1, n)

(* A line that is no data, or whose data is empty or [DONE], is not read.  *)
IsInspected(line) == line.kind # "other"

InspectedLine(s, line) ==
  IF IsInspected(line)
    THEN [line EXCEPT !.strings = TransformJsonStrings(s, line.strings)] ELSE line

Inspected(s, r) == [i \in DOMAIN r |-> InspectedLine(s, r[i])]

(* Block mode refuses the whole answer for one string, keys included.      *)
LeaksAt(strings, p) ==
  \/ CheckViolations(strings[p])
  \/ p # NoPointer /\ \E i \in DOMAIN p : p[i] \notin Indices /\ CheckViolations(p[i])

Leaks(r) ==
  /\ action = "block"
  /\ \E i \in DOMAIN r : IsInspected(r[i]) /\ \E p \in DOMAIN r[i].strings : LeaksAt(r[i].strings, p)

Answer(s, r) ==
  /\ At(s, "forwarded")
  /\ ~Leaks(r)
  /\ \A i \in DOMAIN r : ~Collides(s, r[i].strings)
  /\ Become(s, "answered")
  /\ reply' = [reply EXCEPT ![s] = r]
  /\ answer' = [answer EXCEPT ![s] = Inspected(s, r)]
  /\ UNCHANGED <<received, body, next, values, sent>>

BlockAnswer(s, r) ==
  /\ At(s, "forwarded")
  /\ Leaks(r)
  /\ Become(s, "failed")
  /\ reply' = [reply EXCEPT ![s] = r]
  /\ UNCHANGED <<received, body, next, values, sent, answer>>

(* No answer, a timeout, an answer above the limit, not UTF-8, declared    *)
(* JSON that is not, or two keys of an object that redaction made equal.   *)
FailAnswer(s) ==
  /\ At(s, "forwarded")
  /\ Become(s, "failed")
  /\ UNCHANGED <<received, body, next, values, sent, reply, answer>>

Respond(s) == \E r \in Replies(s) : Answer(s, r) \/ BlockAnswer(s, r)

Next ==
  /\ \E s \in Session :
       \/ TurnAway(s) \/ ArriveJson(s) \/ ArriveNonJson(s)
       \/ Skip(s) \/ BlockViolation(s) \/ BlockObfuscated(s) \/ Redact(s)
       \/ Forward(s) \/ Respond(s) \/ FailAnswer(s)
  /\ UNCHANGED action

Spec == Init /\ [][Next]_vars
-----------------------------------------------------------------------------
(* Properties.                                                             *)

Mine(s, text) == \E i \in DOMAIN text : text[i].of = s

(* The strings of the lines of an answer.                                  *)
Pointers(r, l) == DOMAIN r[l].strings
StringAt(r, l, p) == r[l].strings[p]

(* Nothing makes the inspection of an answer rewrite a text, or a key of   *)
(* the keys that lead to a string.                                         *)
Unmasked(text) == action = "redact" => NothingToMask(text)
Harmless(s, text) == Unmasked(text) /\ ~Mine(s, text)
KeysKept(s, p) == p = NoPointer \/ \A i \in DOMAIN p : p[i] \in Indices \/ Harmless(s, p[i])

ScannedFields(s) == {p \in DOMAIN sent[s] : IsTarget(p, received[s][p])}

(* No scanned field reaches the provider with something a detector finds   *)
(* once it is normalized, whatever the detectors are and whatever mode the *)
(* proxy is in: the probe looks at the text that leaves, not at the one    *)
(* that came (server.rs).                                                  *)
ForwardedProbed ==
  BlockOnObfuscated =>
    \A s \in Session : \A p \in ScannedFields(s) :
      ~CheckViolations(NormalizeForMatching(sent[s][p]))

(* Nor with something a detector finds as it stands, although the rules    *)
(* ran one after the other over each other's output (server.rs, raw        *)
(* detection, redaction and the obfuscation probe).                        *)
ForwardedClean ==
  /\ ForwardedProbed
  /\ \A s \in Session : \A p \in ScannedFields(s) : ~CheckViolations(sent[s][p])

(* What an answer contains and the provider did not write there is a       *)
(* marker, or something this very request gave away, at the position it    *)
(* was taken from or under a wrapper of it: not in the model's words or in *)
(* text without structure, never in a key or below one that was rewritten, *)
(* and never out of another request (restore_at, transform_json_strings).  *)
NeverRematerialized ==
  \A s \in Session : \A l \in DOMAIN answer[s] : \A p \in Pointers(answer[s], l) :
  \E q \in Pointers(reply[s], l) :
    /\ Len(q) = Len(p)
    /\ \A n \in DOMAIN p : ToSet(p[n]) \subseteq ToSet(q[n]) \cup {Masked, NeutralizedMarker}
    /\ \A i \in DOMAIN StringAt(answer[s], l, p) :
         LET symbol == StringAt(answer[s], l, p)[i] IN
           \/ symbol \in {Masked, NeutralizedMarker}
           \/ Occurs(symbol, StringAt(reply[s], l, q))
           \/ \E k \in DOMAIN values[s] :
                /\ p # NoPointer /\ IsSuffix(values[s][k].pointer, p)
                /\ Occurs(symbol, values[s][k].value)

(* Redaction is reversible as long as rules do not nest: when no value of  *)
(* a request contains a placeholder itself, a provider that echoes the     *)
(* request under a wrapper gives the client its own text back in every     *)
(* scanned field, whatever else is in flight, unless what was sent, or a   *)
(* key above it, has something for the one-way redaction that an answer    *)
(* meets first (transform_json_strings, restore_at, pointer_tail_matches). *)
FlatEchoRestored ==
  \A s \in Session : (\A k \in DOMAIN values[s] : ~Mine(s, values[s][k].value)) =>
    \A l \in DOMAIN answer[s] : \A p \in Pointers(reply[s], l) :
      /\ Head(p) = Wrapper /\ Tail(p) \in ScannedFields(s)
      /\ Unmasked(sent[s][Tail(p)]) /\ KeysKept(s, p)
      => p \in Pointers(answer[s], l) /\ StringAt(answer[s], l, p) = received[s][Tail(p)]

(* A string of an answer that no rule's expression matches and no built-in *)
(* detector finds anything in, without a placeholder of this request, and  *)
(* under keys of that kind, comes through as it is, placeholders of other  *)
(* requests included: they are inert (transform_json_strings).             *)
HarmlessUntouched ==
  \A s \in Session : \A l \in DOMAIN answer[s] : \A p \in Pointers(reply[s], l) :
    Harmless(s, StringAt(reply[s], l, p)) /\ KeysKept(s, p)
      => p \in Pointers(answer[s], l) /\ StringAt(answer[s], l, p) = StringAt(reply[s], l, p)

(* Block mode never rewrites what it lets pass: what check_violations does *)
(* not find, redact_at and redact_permanent do not find either.            *)
BlockNeverRewrites ==
  action = "block" =>
    \A s \in Session :
      /\ values[s] = <<>>
      /\ sent[s] \in {Nothing, received[s]}
      /\ answer[s] \in {<<>>, reply[s]}

-----------------------------------------------------------------------------
(* The inductive invariant.                                                *)

Written == UNION {UNION {UNION {ToSet(t) : t \in Texts[a][s]} : s \in Session} : a \in DlpActions}

KeySymbols == UNION {UNION {ToSet(key) : key \in ToSet(p)} : p \in ToSet(Fields) \cup {ModelPointer}}

Symbol ==
  Written \cup KeySymbols \cup {Literal(name) : name \in ModelNames \cup {"echo", "masked"}}
    \cup [name : {"placeholder"}, of : Session, n : Nat]

Stages == {"arriving", "scanning", "refused", "forwarded", "answered", "failed"}
IsBody(b) == \E D \in {{}, ToSet(Fields), {NoPointer}} : b \in [D -> Seq(Symbol)]
Values == [value : Seq(Symbol), pointer : ToSet(Fields) \cup {NoPointer}]

WellFormed(line) ==
  /\ line = Line(line.kind, line.strings)
  /\ line.strings = [p \in DOMAIN line.strings |-> line.strings[p]]
  /\ \A p \in DOMAIN line.strings :
       (p = NoPointer \/ p \in Seq(Seq(Symbol))) /\ line.strings[p] \in Seq(Symbol)

(* Bodies, values and the provider's lines are made of symbols.            *)
Typed(s) ==
  /\ stage[s] \in Stages
  /\ IsBody(received[s]) /\ IsBody(body[s]) /\ IsBody(sent[s])
  /\ next[s] \in Nat \ {0}
  /\ values[s] \in Seq(Values)
  /\ reply[s] = [i \in DOMAIN reply[s] |-> reply[s][i]]
  /\ \A i \in DOMAIN reply[s] : WellFormed(reply[s][i])

(* What is asked of a target before the next one is looked at.             *)
Passed(text) ==
  /\ BlockOnObfuscated => ~CheckViolations(NormalizeForMatching(text))
  /\ action = "block" => ~CheckViolations(text)

(* Before the field to scan next a body has passed, from there on it is as *)
(* it arrived.                                                             *)
ScannedSoFar(s) ==
  /\ DOMAIN body[s] = DOMAIN received[s]
  /\ stage[s] = "arriving" => next[s] = 1
  /\ stage[s] \notin {"arriving", "refused"} => DOMAIN body[s] \in {ToSet(Fields), {NoPointer}}
  /\ \A i \in DOMAIN TargetsOf(body[s]) :
       LET p == TargetsOf(body[s])[i] IN
         /\ i >= next[s] /\ stage[s] = "scanning" => body[s][p] = received[s][p]
         /\ i < next[s] /\ IsTarget(p, received[s][p]) => Passed(body[s][p])

(* A body leaves when all of it is scanned, and does not change any more.  *)
SentScanned(s) ==
  IF stage[s] \in {"forwarded", "answered", "failed"}
    THEN sent[s] = body[s] /\ next[s] > Len(TargetsOf(body[s]))
    ELSE sent[s] = Nothing

(* What the client got is the inspected answer, with each string in it.    *)
AnswerInspected(s) ==
  IF stage[s] = "answered"
    THEN /\ answer[s] = Inspected(s, reply[s])
         /\ \A i \in DOMAIN reply[s] : ~Collides(s, reply[s][i].strings)
    ELSE answer[s] = <<>>

(* In block mode nothing is taken out of a body.                           *)
BlockKeeps(s) == action = "block" => values[s] = <<>> /\ body[s] = received[s]

InvOf(s) ==
  Typed(s) /\ ScannedSoFar(s) /\ SentScanned(s) /\ AnswerInspected(s) /\ BlockKeeps(s)

Shape ==
  /\ action \in DlpActions
  /\ DOMAIN stage = Session /\ DOMAIN next = Session /\ DOMAIN values = Session
  /\ DOMAIN received = Session /\ DOMAIN body = Session /\ DOMAIN sent = Session
  /\ DOMAIN reply = Session /\ DOMAIN answer = Session

IInv == Shape /\ \A s \in Session : InvOf(s)

-----------------------------------------------------------------------------
(* Stated by a document or a comment, and not kept by the code: no run     *)
(* expects these to hold (README.md, section 5).                           *)

(* A provider that echoes the request gives the client its own text back   *)
(* in every field that was scanned: redaction is reversible.               *)
EchoRestored ==
  \A s \in Session : \A l \in DOMAIN answer[s] : \A p \in Pointers(reply[s], l) :
    Head(p) = Wrapper /\ Tail(p) \in ScannedFields(s)
      => p \in Pointers(answer[s], l) /\ StringAt(answer[s], l, p) = received[s][Tail(p)]

(* README.md: a secret in any JSON field does not leave unredacted.        *)
EveryFieldClean ==
  \A s \in Session : \A p \in DOMAIN sent[s] : ~CheckViolations(sent[s][p])

(* rules/secrets.toml: a match below a rule's entropy is no secret, and    *)
(* only the secret group is redacted.  One-way redaction heeds neither, so *)
(* an answer is rewritten in which no detector finds anything.             *)
UndetectedUntouched ==
  \A s \in Session : \A l \in DOMAIN answer[s] : \A p \in Pointers(reply[s], l) :
    /\ ~CheckViolations(StringAt(reply[s], l, p)) /\ ~Mine(s, StringAt(reply[s], l, p))
    /\ p # NoPointer => \A i \in DOMAIN p : ~CheckViolations(p[i]) /\ ~Mine(s, p[i])
    => p \in Pointers(answer[s], l) /\ StringAt(answer[s], l, p) = StringAt(reply[s], l, p)
=============================================================================
