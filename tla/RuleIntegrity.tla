---------------------------- MODULE RuleIntegrity ----------------------------
(***************************************************************************)
(* The detection rules of the proxy and of the broker, and their integrity *)
(* manifest (security/integrity.rs, DlpEngine::build, build_router,        *)
(* broker/mod.rs run_daemon, `sign`).                                      *)
(*                                                                         *)
(* A start of the proxy first loads and compiles every configured rules    *)
(* file, then looks for the manifest, then, with a key in the environment, *)
(* reads the manifest and checks every file it lists.  The broker asks     *)
(* whether the first file is there, loads them all, and consults no        *)
(* manifest.  `sign` walks the directory of the first rules file and       *)
(* writes a manifest of what it read.  The files are opened anew each      *)
(* time, and nothing locks them.                                           *)
(*                                                                         *)
(* A signature is the content it was made of and the key it was made with: *)
(* an HMAC is ideal here.  Signatures are made of bytes, rules are read as *)
(* text: of a file that is not UTF-8 there is the one and not the other,   *)
(* and of one that nobody may read, or of a directory, neither.            *)
(***************************************************************************)
EXTENDS Naturals, Sequences

CONSTANTS
  Files,        \* rules files
  Configured,   \* [security.dlp] rules_files, in order
  InDirectory,  \* the files in the directory of the first configured one
  Contents,     \* contents of a rules file
  Malformed,    \* contents that do not parse or compile
  Garbled,      \* contents that are not UTF-8
  Unreadable,   \* what is there and cannot be read
  Absent,       \* no such file
  Keys,         \* values of GUARDIAN_HMAC_KEY
  NoKey,        \* the variable is not set
  NoManifest,   \* no .manifest.json
  Broken,       \* a manifest that does not parse: one that is being written
  MaxEdits,     \* bound: changes of the files
  MaxSigns,     \* bound: runs of `sign`
  MaxStarts     \* bound: starts

ASSUME FilesAssumption ==
  /\ Configured \in Seq(Files) /\ Len(Configured) >= 1
  /\ InDirectory \subseteq Files
  /\ Malformed \subseteq Contents /\ Garbled \subseteq Contents /\ Unreadable \subseteq Contents
  /\ Malformed \cap (Garbled \cup Unreadable) = {} /\ Garbled \cap Unreadable = {}
  /\ Absent \notin Contents

VARIABLES
  file,         \* content of each rules file
  manifest,     \* the manifest
  signer,       \* generate_manifest and save_manifest in progress
  start,        \* a start in progress, and what came of it
  signed,       \* contents of each file ever signed, with the key (history)
  changed,      \* something changed since the start began (history)
  edits, signs, starts

vars == <<file, manifest, signer, start, signed, changed, edits, signs, starts>>

Nothing == [f \in {} |-> Absent]

Exists(f) == file[f] # Absent

(* What fs::read and what read_to_string give something of.                *)
Bytes == Contents \ Unreadable
Text == Bytes \ Garbled

Parses(m) == m \notin {NoManifest, Broken}

With(g, f, c) == [h \in DOMAIN g \cup {f} |-> IF h = f THEN c ELSE g[h]]

-----------------------------------------------------------------------------
(* Who starts, the key it runs with, the next file to load, the rules it   *)
(* has loaded, whether it saw a manifest, the one it read, the files left  *)
(* to verify and whether one failed.                                       *)
Fresh(who, pc, key) ==
  [who |-> who, pc |-> pc, key |-> key, next |-> 1, rules |-> Nothing, seen |-> FALSE,
   sums |-> Nothing, todo |-> {}, ok |-> TRUE]

NotSigning == [pc |-> "idle", key |-> NoKey, todo |-> {}, sums |-> Nothing]

Init ==
  /\ file \in [Files -> (Contents \ Malformed) \cup {Absent}]
  /\ manifest = NoManifest
  /\ signer = NotSigning
  /\ start = Fresh("proxy", "idle", NoKey)
  /\ signed = {}
  /\ changed = FALSE
  /\ edits = 0 /\ signs = 0 /\ starts = 0

-----------------------------------------------------------------------------
(* The operator edits, adds and removes files, or removes the manifest.    *)

Edit(f, c) ==
  /\ edits < MaxEdits
  /\ c # file[f]
  /\ file' = [file EXCEPT ![f] = c]
  /\ edits' = edits + 1
  /\ changed' = TRUE
  /\ UNCHANGED <<manifest, signer, start, signed, signs, starts>>

RemoveManifest ==
  /\ edits < MaxEdits
  /\ manifest # NoManifest
  /\ manifest' = NoManifest
  /\ edits' = edits + 1
  /\ changed' = TRUE
  /\ UNCHANGED <<file, signer, start, signed, signs, starts>>

SignBegin(k) ==
  /\ signer.pc = "idle"
  /\ signs < MaxSigns
  /\ signs' = signs + 1
  /\ signer' = [pc |-> "reading", key |-> k, todo |-> {f \in InDirectory : Exists(f)},
                sums |-> Nothing]
  /\ UNCHANGED <<file, manifest, start, signed, changed, edits, starts>>

(* A file that is gone when its turn comes, or that cannot be read, ends   *)
(* the command.                                                            *)
SignFile(f) ==
  /\ signer.pc = "reading"
  /\ f \in signer.todo
  /\ signer' = IF file[f] \in Bytes
                 THEN [signer EXCEPT !.todo = @ \ {f}, !.sums = With(@, f, file[f])]
                 ELSE NotSigning
  /\ UNCHANGED <<file, manifest, start, signed, changed, edits, signs, starts>>

SignTruncate ==
  /\ signer.pc = "reading"
  /\ signer.todo = {}
  /\ signer' = [signer EXCEPT !.pc = "writing"]
  /\ manifest' = Broken
  /\ changed' = TRUE
  /\ UNCHANGED <<file, start, signed, edits, signs, starts>>

SignWrite ==
  /\ signer.pc = "writing"
  /\ signer' = NotSigning
  /\ manifest' = [key |-> signer.key, sums |-> signer.sums]
  /\ signed' = signed \cup {<<signer.key, f, signer.sums[f]>> : f \in DOMAIN signer.sums}
  /\ changed' = TRUE
  /\ UNCHANGED <<file, start, edits, signs, starts>>

(* Interrupted; the manifest may be left cut short.                        *)
SignStops ==
  /\ signer.pc # "idle"
  /\ signer' = NotSigning
  /\ UNCHANGED <<file, manifest, start, signed, changed, edits, signs, starts>>

-----------------------------------------------------------------------------
(* A start of the proxy or of the broker.                                  *)

BeginAs(s) ==
  /\ start.pc \in {"idle", "running", "refused"}
  /\ starts < MaxStarts
  /\ starts' = starts + 1
  /\ start' = s
  /\ changed' = FALSE
  /\ UNCHANGED <<file, manifest, signer, signed, edits, signs>>

Begin(k) == BeginAs(Fresh("proxy", "loading", k))

(* Mutant of BrokerAsks: like the proxy, it makes do without rules.        *)
BrokerAsksNot == "loading"

(* Whether the first rules file is there, before the engine is built.      *)
BrokerAsks == IF Exists(Configured[1]) THEN "loading" ELSE "refused"

BrokerBegin == BeginAs(Fresh("broker", BrokerAsks, NoKey))

Go(s) ==
  /\ start' = s
  /\ UNCHANGED <<file, manifest, signer, signed, changed, edits, signs, starts>>

(* A file that is missing or cannot be read as text is warned about and    *)
(* skipped, a malformed one is fatal.                                      *)
Load ==
  /\ start.pc = "loading"
  /\ start.next <= Len(Configured)
  /\ LET f == Configured[start.next]
     IN  CASE file[f] \notin Text -> Go([start EXCEPT !.next = @ + 1])
           [] file[f] \in Malformed -> Go([start EXCEPT !.pc = "refused"])
           [] OTHER -> Go([start EXCEPT !.next = @ + 1, !.rules = With(@, f, file[f])])

BrokerLoaded ==
  /\ start.pc = "loading" /\ start.who = "broker"
  /\ start.next > Len(Configured)
  /\ Go([start EXCEPT !.pc = "running"])

SeeManifest ==
  /\ start.pc = "loading" /\ start.who = "proxy"
  /\ start.next > Len(Configured)
  /\ Go([start EXCEPT !.pc = "seen", !.seen = manifest # NoManifest])

(* Mutant of Unkeyed: without a key there is nothing to check.             *)
UnkeyedRuns ==
  /\ start.pc = "seen"
  /\ start.key = NoKey
  /\ Go([start EXCEPT !.pc = "running"])

(* Without a key the manifest alone demands one.                           *)
Unkeyed ==
  /\ start.pc = "seen"
  /\ start.key = NoKey
  /\ Go([start EXCEPT !.pc = IF start.seen THEN "refused" ELSE "running"])

(* A manifest that another key made matches no file.                       *)
ReadManifest ==
  /\ start.pc = "seen"
  /\ start.key # NoKey
  /\ Go(IF Parses(manifest)
          THEN [start EXCEPT !.pc = "verifying", !.sums = manifest.sums,
                             !.todo = DOMAIN manifest.sums,
                             !.ok = manifest.key = start.key \/ manifest.sums = Nothing]
          ELSE [start EXCEPT !.pc = "refused"])

(* Mutant of VerifyFile: a listed file that is gone is not checked.        *)
VerifyFilePresent(f) ==
  /\ start.pc = "verifying"
  /\ f \in start.todo
  /\ Go([start EXCEPT !.todo = @ \ {f}, !.ok = @ /\ (Exists(f) => file[f] = start.sums[f])])

VerifyFile(f) ==
  /\ start.pc = "verifying"
  /\ f \in start.todo
  /\ Go([start EXCEPT !.todo = @ \ {f}, !.ok = @ /\ file[f] = start.sums[f]])

Verified ==
  /\ start.pc = "verifying"
  /\ start.todo = {}
  /\ Go([start EXCEPT !.pc = IF start.ok THEN "running" ELSE "refused"])

Next ==
  \/ \E f \in Files, c \in Contents \cup {Absent} : Edit(f, c)
  \/ RemoveManifest
  \/ \E k \in Keys : SignBegin(k)
  \/ \E f \in InDirectory : SignFile(f)
  \/ SignTruncate \/ SignWrite \/ SignStops
  \/ (\E k \in Keys \cup {NoKey} : Begin(k)) \/ BrokerBegin \/ BrokerLoaded
  \/ Load \/ SeeManifest \/ Unkeyed \/ ReadManifest
  \/ \E f \in InDirectory : VerifyFile(f)
  \/ Verified

Spec == Init /\ [][Next]_vars

-----------------------------------------------------------------------------
(* Properties.                                                             *)

Running == start.pc = "running"

Proxy == start.who = "proxy"

RuleFiles == {Configured[i] : i \in DOMAIN Configured}

(* A proxy that started with a key, while nobody touched the files, runs   *)
(* every configured file of the manifest, and with what was signed for it: *)
(* none edited, none missing, although it loaded them before it verified   *)
(* anything.  Only one that was signed although it is no text is not run   *)
(* (build_router, DlpEngine::build).                                       *)
QuietStartSigned ==
  Running /\ start.key # NoKey /\ ~changed =>
    \A f \in DOMAIN start.sums \cap RuleFiles :
      /\ <<start.key, f, file[f]>> \in signed
      /\ IF file[f] \in Garbled THEN f \notin DOMAIN start.rules
           ELSE f \in DOMAIN start.rules /\ start.rules[f] = file[f]

(* A broker that started while nobody touched the files found the first    *)
(* one there, and runs every configured file that can be read as text, as  *)
(* it is, although it asked before the engine opened anything: what the    *)
(* engine skips is missing, not the first, or no text (run_daemon,         *)
(* DlpEngine::build).                                                      *)
BrokerSkipsNoText ==
  Running /\ ~Proxy /\ ~changed =>
    /\ Exists(Configured[1])
    /\ DOMAIN start.rules = {f \in RuleFiles : file[f] \in Text}
    /\ \A f \in DOMAIN start.rules : start.rules[f] = file[f]

(* CHANGELOG: fail closed once a key or a manifest establishes the         *)
(* contract.  While nobody touches the files, a proxy starts exactly if    *)
(* its files are well formed and either there is neither key nor manifest, *)
(* or both, of one key and of these files (build_router).                  *)
Vouched ==
  IF start.key = NoKey THEN manifest = NoManifest
    ELSE /\ Parses(manifest)
         /\ manifest.key = start.key \/ manifest.sums = Nothing
         /\ \A f \in DOMAIN manifest.sums : file[f] = manifest.sums[f]

StartsExactlyIfVouched ==
  Proxy /\ ~changed /\ start.pc \in {"running", "refused"} =>
    (Running <=> Vouched /\ \A f \in RuleFiles : file[f] \notin Malformed)

(* The invariant behind them.                                              *)
Sums == UNION {[fs -> Bytes] : fs \in SUBSET Files}

TypeOK ==
  /\ file \in [Files -> Contents \cup {Absent}]
  /\ signer \in [pc : {"idle", "reading", "writing"}, key : Keys \cup {NoKey},
                 todo : SUBSET Files, sums : Sums]
  /\ signer.pc # "idle" => signer.key \in Keys
  /\ start \in [who : {"proxy", "broker"},
                pc : {"idle", "loading", "seen", "verifying", "running", "refused"},
                key : Keys \cup {NoKey}, next : Nat, rules : Sums, seen : BOOLEAN,
                sums : Sums, todo : SUBSET Files, ok : BOOLEAN]
  /\ changed \in BOOLEAN

(* A manifest holds what was signed.                                       *)
ManifestOK ==
  Parses(manifest) =>
    /\ manifest \in [key : Keys, sums : Sums]
    /\ \A f \in DOMAIN manifest.sums : <<manifest.key, f, manifest.sums[f]>> \in signed

(* How far a start is, and which starts get there.                         *)
StageOK ==
  /\ start.next >= 1
  /\ start.pc \in {"seen", "verifying", "running"} => start.next > Len(Configured)
  /\ start.pc \in {"seen", "verifying"} => Proxy
  /\ start.pc = "verifying" => start.key # NoKey
  /\ ~Proxy => start.key = NoKey

(* A start that goes on has loaded what is there, while nobody touches it. *)
LoadedOK ==
  ~changed /\ start.pc \in {"loading", "seen", "verifying", "running"} =>
    /\ \A f \in DOMAIN start.rules :
         f \in RuleFiles /\ start.rules[f] = file[f] /\ file[f] \in Text
    /\ \A i \in DOMAIN Configured : i < start.next =>
         /\ file[Configured[i]] \notin Malformed
         /\ file[Configured[i]] \in Text => Configured[i] \in DOMAIN start.rules
    /\ ~Proxy => Exists(Configured[1])

(* What it has seen of the manifest is what is there.                      *)
SeenOK ==
  ~changed /\ Proxy =>
    /\ start.pc = "seen" => (start.seen <=> manifest # NoManifest)
    /\ start.pc = "verifying" =>
         /\ Parses(manifest) /\ start.sums = manifest.sums
         /\ start.todo \subseteq DOMAIN start.sums
         /\ start.ok <=> /\ manifest.key = start.key \/ manifest.sums = Nothing
                        /\ \A f \in DOMAIN start.sums \ start.todo : file[f] = start.sums[f]
    /\ start.pc = "running" /\ start.key # NoKey => start.sums = manifest.sums

IInv ==
  /\ TypeOK /\ ManifestOK /\ StageOK /\ LoadedOK /\ SeenOK
  /\ StartsExactlyIfVouched

-----------------------------------------------------------------------------
(* Stated by a document or a comment, and not kept by the code: no run     *)
(* expects these to hold (README.md, section 5).                           *)

(* broker/mod.rs: "refuses to start if the DLP rules are missing rather    *)
(* than continuing with the built-in PII detectors alone".  Not when the   *)
(* first file is there and cannot be read, or goes between the two looks.  *)
BrokerHasRules == Running /\ ~Proxy => Configured[1] \in DOMAIN start.rules

(* dlp.rs: "a broken rules file must never silently weaken protection".    *)
(* One that is not UTF-8, or that cannot be read, is skipped.              *)
BrokenIsFatal == Running /\ ~changed => \A f \in RuleFiles : Exists(f) => f \in DOMAIN start.rules

(* server.rs: rule files load or the server refuses to start.              *)
AllRulesLoaded == Running => DOMAIN start.rules = RuleFiles

(* README.md: tampering with a rules file fails startup.  So with a key    *)
(* every rule that runs was signed.                                        *)
RunningRulesSigned ==
  Running /\ start.key # NoKey /\ ~changed =>
    \A f \in DOMAIN start.rules : <<start.key, f, start.rules[f]>> \in signed

(* The same for the listed files, while they change.                       *)
ListedRulesSigned ==
  Running /\ start.key # NoKey =>
    \A f \in DOMAIN start.rules \cap DOMAIN start.sums : <<start.key, f, start.rules[f]>> \in signed
=============================================================================
