------------------------------ MODULE Redaction ------------------------------
(***************************************************************************)
(* What the DLP engine does to one string: detection, reversible           *)
(* redaction into a request's session, one-way redaction, and restoration  *)
(* of a session's placeholders (security/dlp.rs, security/normalizer.rs).  *)
(*                                                                         *)
(* A text is a sequence of symbols, each one standing for a run of         *)
(* characters: a literal, or a placeholder of some session.  A detector's  *)
(* regular expression is a sequence of sets of symbol names, so it can     *)
(* match a literal, a literal in its context, or an envelope around        *)
(* anything.  Detectors are applied in the order the engine has them, each *)
(* to what the earlier ones left, leftmost matches first and without       *)
(* overlaps.                                                               *)
(***************************************************************************)
EXTENDS Naturals, SequencesExt

CONSTANTS
  Detectors,    \* the rules of the files, then the built-in detectors
  Hidden,       \* names that only show as another name once normalized
  NoSession     \* the session of a literal

(* A rule whose secret group its expression does not have is not loaded.   *)
ASSUME DetectorsAssumption ==
  /\ Detectors \in Seq(ToSet(Detectors))
  /\ \A i \in DOMAIN Detectors : LET d == Detectors[i] IN
       d.pattern \in Seq(ToSet(d.pattern)) /\ d.group \in 0..Len(d.pattern)

-----------------------------------------------------------------------------
(* Texts.                                                                  *)

IsText(text) == text \in Seq(ToSet(text))

Literal(name) == [name |-> name, of |-> NoSession, n |-> 0]

(* Mutant of Token: placeholders without the request's nonce.               *)
TokenWithoutNonce(s, n) == [name |-> "placeholder", of |-> NoSession, n |-> n]

(* The n-th value of session s: [[GUARDIAN_REDACTED:nonce:n:category]].    *)
Token(s, n) == [name |-> "placeholder", of |-> s, n |-> n]

(* What one-way redaction and neutralized placeholders leave behind.       *)
Masked == Literal("masked")
NeutralizedMarker == Literal("neutralized")

(* NFKC, casefolding, homoglyphs and URL/HTML decoding, seen from what     *)
(* they uncover: only the form that is matched changes, never the text.    *)
NormalizeForMatching(text) ==
  [i \in DOMAIN text |-> IF text[i].name \in DOMAIN Hidden
                           THEN Literal(Hidden[text[i].name]) ELSE text[i]]

-----------------------------------------------------------------------------
(* Detection.  A detector has a pattern, the offset of its secret group (0 *)
(* for the whole match), the secrets its entropy or Luhn gate lets pass,   *)
(* and the keywords of its prefilter.                                      *)

Detector(pattern, group, gated, keywords, external) ==
  [pattern |-> pattern, group |-> group, gated |-> gated, keywords |-> keywords,
   external |-> external]

KeywordPrefilterOk(d, content) ==
  \/ d.keywords = {}
  \/ \E i \in DOMAIN content : content[i].name \in d.keywords

MatchAt(d, text, i) == SubSeq(text, i, i + Len(d.pattern) - 1)

Matches(d, text, i) ==
  /\ i + Len(d.pattern) - 1 <= Len(text)
  /\ \A k \in DOMAIN d.pattern : text[i + k - 1].name \in d.pattern[k]

(* Where the leftmost matches without overlaps begin.                      *)
Found(d, text) ==
  LET Scan(seen, i) ==
        IF i >= seen.from /\ Matches(d, text, i)
          THEN [at |-> seen.at \cup {i}, from |-> i + Len(d.pattern)]
          ELSE seen
  IN  FoldLeftDomain(Scan, [at |-> {}, from |-> 1], text).at

Secret(d, match) == IF d.group = 0 THEN match ELSE <<match[d.group]>>

(* entropy_ok and luhn_valid.                                              *)
GateOk(d, secret) == \E k \in DOMAIN secret : secret[k].name \notin d.gated

SecretsAt(d, text) == {i \in Found(d, text) : GateOk(d, Secret(d, MatchAt(d, text, i)))}

Triggers(d, text) == KeywordPrefilterOk(d, text) /\ SecretsAt(d, text) # {}

CheckViolations(text) == \E i \in DOMAIN Detectors : Triggers(Detectors[i], text)

-----------------------------------------------------------------------------
(* Rewriting.                                                              *)

(* text with the match at each position of the domain of by replaced.      *)
Rewrite(d, text, by) ==
  LET at == DOMAIN by
  IN  FlattenSeq([i \in DOMAIN text |->
        CASE i \in at -> by[i]
          [] i \notin at /\ \E j \in at : j < i /\ i < j + Len(d.pattern) -> <<>>
          [] OTHER -> <<text[i]>>])

(* One-way redaction replaces whole matches, and only the built-in         *)
(* detectors look at their gate.                                           *)
MaskedAt(d, text) == IF d.external THEN Found(d, text) ELSE SecretsAt(d, text)

RedactPermanent(content) ==
  LET Mask(text, d) ==
        IF KeywordPrefilterOk(d, content)
          THEN Rewrite(d, text, [i \in MaskedAt(d, text) |-> <<Masked>>]) ELSE text
  IN  FoldLeft(Mask, content, Detectors)

(* A text that one-way redaction has no reason to touch.                   *)
NothingToMask(text) ==
  \A i \in DOMAIN Detectors :
    KeywordPrefilterOk(Detectors[i], text) => MaskedAt(Detectors[i], text) = {}

(* A session's values in the order they were stored, each with the         *)
(* position it was redacted at.                                            *)
Entry(value, pointer) == [value |-> value, pointer |-> pointer]

(* The matches are stored, and numbered, from left to right.               *)
Before(at, i) == Cardinality({j \in at : j < i})
Nth(at, k) == CHOOSE i \in at : Before(at, i) = k - 1

(* Mutant of RedactOne: redaction without the gate that detection has.      *)
RedactOneUngated(s, d, content, pointer, acc) ==
  LET at == IF KeywordPrefilterOk(d, content) THEN Found(d, acc.text) ELSE {}
      by == [i \in at |-> <<Token(s, Len(acc.values) + Before(at, i))>>]
  IN  [text   |-> Rewrite(d, acc.text, by),
       values |-> acc.values \o [k \in 1..Cardinality(at) |->
                    Entry(MatchAt(d, acc.text, Nth(at, k)), pointer)]]

(* One detector over one string: the secrets go into the session, and      *)
(* placeholders, numbered from the values stored before, replace them.     *)
RedactOne(s, d, content, pointer, acc) ==
  LET at == IF KeywordPrefilterOk(d, content) THEN SecretsAt(d, acc.text) ELSE {}
      token(i) == Token(s, Len(acc.values) + Before(at, i))
      by == [i \in at |-> IF d.group = 0 THEN <<token(i)>>
                          ELSE [MatchAt(d, acc.text, i) EXCEPT ![d.group] = token(i)]]
  IN  [text   |-> Rewrite(d, acc.text, by),
       values |-> acc.values \o [k \in 1..Cardinality(at) |->
                    Entry(Secret(d, MatchAt(d, acc.text, Nth(at, k))), pointer)]]

RedactAt(s, content, pointer, values) ==
  FoldLeft(LAMBDA acc, d : RedactOne(s, d, content, pointer, acc),
           [text |-> content, values |-> values], Detectors)

-----------------------------------------------------------------------------
(* Restoration.                                                            *)

(* A payload that was not walked as JSON has no position.                  *)
NoPointer == <<<<Literal("no pointer")>>>>

(* Mutant of PointerTailMatches: the same position, but not one under a wrapper. *)
PointerEquals(response, minted) == response = minted

PointerTailMatches(response, minted) == IsSuffix(minted, response)

Eligible(response, minted) ==
  /\ response # NoPointer
  /\ minted # NoPointer
  /\ PointerTailMatches(response, minted)

Occurs(symbol, text) == \E i \in DOMAIN text : text[i] = symbol

Replace(text, symbol, by) ==
  FlattenSeq([i \in DOMAIN text |-> IF text[i] = symbol THEN by ELSE <<text[i]>>])

(* Every value of the session once, in the order they were stored: at a    *)
(* position that corresponds to its own it is restored, elsewhere its      *)
(* placeholder is neutralized.                                             *)
RestoreAt(s, values, content, pointer) ==
  LET Restore(text, k) ==
        Replace(text, Token(s, k - 1),
                IF Eligible(pointer, values[k].pointer)
                  THEN values[k].value ELSE <<NeutralizedMarker>>)
  IN  FoldLeftDomain(Restore, content, values)

-----------------------------------------------------------------------------
(* What the rules of an installation may have or not: redaction runs them  *)
(* over each other's output, and its two kinds differ in what they look at. *)

(* What redaction leaves in the place of a secret or of a match.           *)
MarkNames == {"placeholder", "masked"}

(* A rule that matches something, and never in two places that overlap.    *)
Apart(d) ==
  /\ d.pattern # <<>>
  /\ \A c \in 1..(Len(d.pattern) - 1) :
       \E k \in 1..(Len(d.pattern) - c) : d.pattern[k] \cap d.pattern[k + c] = {}

RulesApart == \A i \in DOMAIN Detectors : Apart(Detectors[i])

(* One that does not match what redaction leaves either.                   *)
Separate(d) ==
  /\ Apart(d)
  /\ \A k \in DOMAIN d.pattern : d.pattern[k] \cap MarkNames = {}
  /\ d.keywords \cap MarkNames = {}

RulesSeparate == \A i \in DOMAIN Detectors : Separate(Detectors[i])

(* No rule of the files has an entropy gate, and each matches something.   *)
RulesUngated ==
  \A i \in DOMAIN Detectors : Detectors[i].external =>
    Detectors[i].gated = {} /\ Detectors[i].pattern # <<>>
=============================================================================
