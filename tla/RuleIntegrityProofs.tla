------------------------- MODULE RuleIntegrityProofs -------------------------
(***************************************************************************)
(* Theorems of RuleIntegrity, for any files, contents, keys and bounds:    *)
(* a start whose files nobody touched meanwhile runs what was signed, goes *)
(* on exactly if its rules are vouched for and, the broker's, skips only   *)
(* what is no text.                                                        *)
(***************************************************************************)
EXTENDS RuleIntegrity, TLAPS

(* Loaded and signed sets of rules grow file by file.                      *)
LEMMA NothingIsSums == Nothing \in Sums
  <1>1. Nothing \in [{} -> Bytes]
    BY DEF Nothing
  <1> QED
    BY <1>1 DEF Sums

LEMMA WithIsSums ==
  ASSUME NEW g \in Sums, NEW f \in Files, NEW c \in Bytes
  PROVE  /\ With(g, f, c) \in Sums
         /\ DOMAIN With(g, f, c) = DOMAIN g \cup {f}
         /\ With(g, f, c)[f] = c
         /\ \A h \in DOMAIN g \ {f} : With(g, f, c)[h] = g[h]
  <1>1. PICK fs \in SUBSET Files : g \in [fs -> Bytes]
    BY DEF Sums
  <1>2. With(g, f, c) \in [fs \cup {f} -> Bytes]
    BY <1>1 DEF With
  <1>3. fs \cup {f} \in SUBSET Files
    OBVIOUS
  <1> QED
    BY <1>1, <1>2, <1>3 DEF Sums, With

LEMMA SumsApply ==
  ASSUME NEW g \in Sums
  PROVE  DOMAIN g \subseteq Files /\ \A f \in DOMAIN g : g[f] \in Bytes
  <1>1. PICK fs \in SUBSET Files : g \in [fs -> Bytes]
    BY DEF Sums
  <1> QED
    BY <1>1

LEMMA ConfiguredFiles ==
  /\ Len(Configured) \in Nat /\ 1 \in DOMAIN Configured
  /\ \A i \in DOMAIN Configured : Configured[i] \in Files /\ i \in Nat /\ i <= Len(Configured)
  BY FilesAssumption

-----------------------------------------------------------------------------
(* The start is where it was and nobody has touched anything, or somebody  *)
(* has.                                                                    *)

LEMMA InitHolds == Init => IInv
  <1> SUFFICES ASSUME Init PROVE IInv
    OBVIOUS
  <1>1. start = Fresh("proxy", "idle", NoKey) /\ start.pc = "idle" /\ start.who = "proxy" /\ start.next = 1
    BY DEF Init, Fresh
  <1>2. TypeOK
    BY NothingIsSums, FilesAssumption DEF Init, TypeOK, NotSigning, Fresh
  <1>3. ManifestOK
    BY DEF Init, ManifestOK, Parses
  <1>4. StageOK /\ LoadedOK /\ SeenOK /\ StartsExactlyIfVouched
    BY <1>1 DEF StageOK, LoadedOK, SeenOK, StartsExactlyIfVouched, Proxy
  <1> QED
    BY <1>2, <1>3, <1>4 DEF IInv

(* Once something has changed, all that is claimed of a start is how far   *)
(* it is.                                                                  *)
LEMMA Disturbed ==
  ASSUME IInv, TypeOK', ManifestOK', changed' = TRUE, UNCHANGED start
  PROVE  IInv'
  <1>1. StageOK'
    BY DEF IInv, StageOK, Proxy
  <1>2. LoadedOK' /\ SeenOK' /\ StartsExactlyIfVouched'
    BY DEF LoadedOK, SeenOK, StartsExactlyIfVouched
  <1> QED
    BY <1>1, <1>2 DEF IInv

LEMMA EditKeeps ==
  ASSUME IInv, NEW f \in Files, NEW c \in Contents \cup {Absent}, Edit(f, c)
  PROVE  IInv'
  <1>1. TypeOK'
    BY DEF IInv, TypeOK, Edit
  <1>2. ManifestOK'
    BY DEF IInv, ManifestOK, Edit, Parses
  <1> QED
    BY <1>1, <1>2, Disturbed DEF Edit

LEMMA RemoveManifestKeeps ==
  ASSUME IInv, RemoveManifest
  PROVE  IInv'
  <1>1. TypeOK'
    BY DEF IInv, TypeOK, RemoveManifest
  <1>2. ManifestOK'
    BY DEF ManifestOK, RemoveManifest, Parses
  <1> QED
    BY <1>1, <1>2, Disturbed DEF RemoveManifest

LEMMA SignTruncateKeeps ==
  ASSUME IInv, SignTruncate
  PROVE  IInv'
  <1>1. TypeOK'
    BY DEF IInv, TypeOK, SignTruncate
  <1>2. ManifestOK'
    BY DEF ManifestOK, SignTruncate, Parses
  <1> QED
    BY <1>1, <1>2, Disturbed DEF SignTruncate

LEMMA SignWriteKeeps ==
  ASSUME IInv, SignWrite
  PROVE  IInv'
  <1>1. TypeOK'
    BY NothingIsSums DEF IInv, TypeOK, SignWrite, NotSigning
  <1>2. signer.key \in Keys /\ signer.sums \in Sums
    BY DEF IInv, TypeOK, SignWrite
  <1>3. manifest' = [key |-> signer.key, sums |-> signer.sums]
    BY DEF SignWrite
  <1>4. \A f \in DOMAIN signer.sums : <<signer.key, f, signer.sums[f]>> \in signed'
    BY DEF SignWrite
  <1>5. ManifestOK'
    BY <1>2, <1>3, <1>4 DEF ManifestOK
  <1> QED
    BY <1>1, <1>5, Disturbed DEF SignWrite

(* `sign` while it reads touches nothing a start looks at.                 *)
LEMMA SigningKeeps ==
  ASSUME IInv, TypeOK', UNCHANGED <<file, manifest, start, signed, changed>>
  PROVE  IInv'
  <1>1. ManifestOK'
    BY DEF IInv, ManifestOK, Parses
  <1>2. StageOK'
    BY DEF IInv, StageOK, Proxy
  <1>3. LoadedOK'
    BY DEF IInv, LoadedOK, Proxy, Exists
  <1>4. SeenOK'
    BY DEF IInv, SeenOK, Proxy, Parses
  <1>5. StartsExactlyIfVouched'
    BY DEF IInv, StartsExactlyIfVouched, Proxy, Running, Vouched, Parses
  <1> QED
    BY <1>1, <1>2, <1>3, <1>4, <1>5 DEF IInv

LEMMA SignBeginKeeps ==
  ASSUME IInv, NEW k \in Keys, SignBegin(k)
  PROVE  IInv'
  <1>1. TypeOK'
    BY NothingIsSums, FilesAssumption DEF IInv, TypeOK, SignBegin
  <1> QED
    BY <1>1, SigningKeeps DEF SignBegin

LEMMA SignFileKeeps ==
  ASSUME IInv, NEW f \in InDirectory, SignFile(f)
  PROVE  IInv'
  <1>0. f \in Files /\ file[f] \in Contents \cup {Absent} /\ signer.sums \in Sums
    BY FilesAssumption DEF IInv, TypeOK
  <1>1. TypeOK'
    <2>1. CASE file[f] \in Bytes
      <3>1. With(signer.sums, f, file[f]) \in Sums
        BY <1>0, <2>1, WithIsSums
      <3>2. signer' = [signer EXCEPT !.todo = @ \ {f}, !.sums = With(@, f, file[f])]
        BY <2>1 DEF SignFile
      <3> QED
        BY <3>1, <3>2 DEF IInv, TypeOK, SignFile
    <2>2. CASE file[f] \notin Bytes
      <3>1. signer' = NotSigning
        BY <2>2 DEF SignFile
      <3> QED
        BY <3>1, NothingIsSums DEF IInv, TypeOK, SignFile, NotSigning
    <2> QED
      BY <2>1, <2>2
  <1> QED
    BY <1>1, SigningKeeps DEF SignFile

LEMMA SignStopsKeeps ==
  ASSUME IInv, SignStops
  PROVE  IInv'
  <1>1. TypeOK'
    BY NothingIsSums DEF IInv, TypeOK, SignStops, NotSigning
  <1> QED
    BY <1>1, SigningKeeps DEF SignStops

-----------------------------------------------------------------------------
(* A step of a start changes the start alone.                              *)

LEMMA StartSteps ==
  ASSUME IInv, NEW s, Go(s), TypeOK'
  PROVE  ManifestOK' /\ UNCHANGED <<file, manifest, signed, changed>> /\ start' = s
  <1>1. UNCHANGED <<file, manifest, signed, changed>> /\ start' = s
    BY DEF Go
  <1> QED
    BY <1>1 DEF IInv, ManifestOK, Parses

LEMMA BeginAsKeeps ==
  ASSUME IInv, NEW s, BeginAs(s), changed' = FALSE,
         NEW who \in {"proxy", "broker"}, NEW pc \in {"loading", "refused"}, NEW key \in Keys \cup {NoKey},
         s = Fresh(who, pc, key),
         who = "proxy" => pc = "loading",
         who = "broker" => key = NoKey /\ (pc = "loading" => Exists(Configured[1]))
  PROVE  IInv'
  <1>1. /\ start' = s /\ UNCHANGED <<file, manifest, signer, signed>>
        /\ s.who = who /\ s.pc = pc /\ s.key = key /\ s.next = 1 /\ s.rules = Nothing
    BY DEF BeginAs, Fresh
  <1>2. TypeOK'
    <2>1. start' \in [who : {"proxy", "broker"},
                pc : {"idle", "loading", "seen", "verifying", "running", "refused"},
                key : Keys \cup {NoKey}, next : Nat, rules : Sums, seen : BOOLEAN,
                sums : Sums, todo : SUBSET Files, ok : BOOLEAN]
      BY <1>1, NothingIsSums DEF Fresh
    <2> QED
      BY <1>1, <2>1 DEF IInv, TypeOK
  <1>3. ManifestOK'
    BY <1>1 DEF IInv, ManifestOK, Parses
  <1>4. StageOK'
    BY <1>1 DEF StageOK, Proxy
  <1>5. LoadedOK'
    <2>1. DOMAIN start'.rules = {}
      BY <1>1 DEF Nothing
    <2>2. ~Proxy' /\ start'.pc = "loading" => Exists(Configured[1])'
      BY <1>1 DEF Proxy, Exists
    <2>3. \A i \in DOMAIN Configured : ~(i < start'.next)
      BY <1>1, FilesAssumption
    <2> QED
      BY <1>1, <2>1, <2>2, <2>3 DEF LoadedOK
  <1>6. SeenOK' /\ StartsExactlyIfVouched'
    BY <1>1 DEF SeenOK, StartsExactlyIfVouched, Proxy
  <1> QED
    BY <1>2, <1>3, <1>4, <1>5, <1>6 DEF IInv

LEMMA BeginKeeps ==
  ASSUME IInv, NEW k \in Keys \cup {NoKey}, Begin(k)
  PROVE  IInv'
  <1>1. BeginAs(Fresh("proxy", "loading", k)) /\ changed' = FALSE
    BY DEF Begin, BeginAs
  <1> QED
    BY <1>1, BeginAsKeeps

LEMMA BrokerBeginKeeps ==
  ASSUME IInv, BrokerBegin
  PROVE  IInv'
  <1>1. BeginAs(Fresh("broker", BrokerAsks, NoKey)) /\ changed' = FALSE
    BY DEF BrokerBegin, BeginAs
  <1>2. BrokerAsks \in {"loading", "refused"} /\ (BrokerAsks = "loading" => Exists(Configured[1]))
    BY DEF BrokerAsks
  <1> QED
    BY <1>1, <1>2, BeginAsKeeps

LEMMA LoadKeeps ==
  ASSUME IInv, Load
  PROVE  IInv'
  <1> DEFINE f == Configured[start.next]
  <1>0. /\ start.pc = "loading" /\ start.next \in DOMAIN Configured
        /\ start.next \in Nat /\ f \in Files /\ file[f] \in Contents \cup {Absent}
        /\ start.rules \in Sums
    BY ConfiguredFiles, FilesAssumption DEF IInv, TypeOK, StageOK, Load
  <1>1. CASE file[f] \notin Text
    <2>0. file[f] \notin Malformed
      BY <1>1, FilesAssumption DEF Text, Bytes
    <2>1. Go([start EXCEPT !.next = @ + 1])
      BY <1>1, <2>0 DEF Load
    <2>2. TypeOK'
      <3>1. start.next + 1 \in Nat /\ start' = [start EXCEPT !.next = @ + 1]
        BY <1>0, <2>1 DEF Go
      <3>2. UNCHANGED <<file, signer, changed>>
        BY <2>1 DEF Go
      <3> QED
        BY <3>1, <3>2 DEF IInv, TypeOK
    <2>3. ManifestOK' /\ UNCHANGED <<file, manifest, signed, changed>> /\ start' = [start EXCEPT !.next = @ + 1]
      BY <2>1, <2>2, StartSteps
    <2>4. /\ start'.next = start.next + 1 /\ start'.pc = "loading" /\ start'.rules = start.rules
          /\ start'.who = start.who /\ start'.key = start.key
      BY <1>0, <2>3 DEF IInv, TypeOK
    <2>5. StageOK'
      BY <1>0, <2>4 DEF IInv, StageOK, Proxy
    <2>7. \A i \in DOMAIN Configured : i < start'.next => i < start.next \/ i = start.next
      BY <1>0, <2>4, ConfiguredFiles
    <2>8. LoadedOK'
      BY <1>0, <1>1, <2>0, <2>3, <2>4, <2>7 DEF IInv, LoadedOK, Exists, Proxy
    <2>9. SeenOK' /\ StartsExactlyIfVouched'
      BY <2>4 DEF SeenOK, StartsExactlyIfVouched
    <2> QED
      BY <2>2, <2>3, <2>5, <2>8, <2>9 DEF IInv
  <1>2. CASE file[f] \in Text /\ file[f] \in Malformed
    <2>1. Go([start EXCEPT !.pc = "refused"])
      BY <1>2 DEF Load
    <2>2. TypeOK'
      BY <2>1 DEF IInv, TypeOK, Go
    <2>3. ManifestOK' /\ UNCHANGED <<file, manifest, signed, changed>> /\ start' = [start EXCEPT !.pc = "refused"]
      BY <2>1, <2>2, StartSteps
    <2>4. /\ start'.next = start.next /\ start'.pc = "refused" /\ start'.who = start.who /\ start'.key = start.key
      BY <2>3 DEF IInv, TypeOK
    <2>5. StageOK'
      BY <1>0, <2>4 DEF IInv, StageOK, Proxy
    <2>6. LoadedOK' /\ SeenOK'
      BY <2>4 DEF LoadedOK, SeenOK
    <2>7. StartsExactlyIfVouched'
      <3>1. f \in RuleFiles /\ file'[f] \in Malformed
        BY <1>0, <1>2, <2>3 DEF RuleFiles
      <3> QED
        BY <2>4, <3>1 DEF StartsExactlyIfVouched, Running
    <2> QED
      BY <2>2, <2>3, <2>5, <2>6, <2>7 DEF IInv
  <1>3. CASE file[f] \in Text /\ file[f] \notin Malformed
    <2>1. Go([start EXCEPT !.next = @ + 1, !.rules = With(@, f, file[f])])
      BY <1>3 DEF Load
    <2>2. /\ With(start.rules, f, file[f]) \in Sums
          /\ DOMAIN With(start.rules, f, file[f]) = DOMAIN start.rules \cup {f}
          /\ With(start.rules, f, file[f])[f] = file[f]
          /\ \A h \in DOMAIN start.rules \ {f} : With(start.rules, f, file[f])[h] = start.rules[h]
      BY <1>0, <1>3, WithIsSums, ZenonT(60) DEF Text
    <2>3. TypeOK'
      <3> DEFINE rules == With(start.rules, f, file[f])
      <3>1. start.next + 1 \in Nat /\ start' = [start EXCEPT !.next = start.next + 1, !.rules = rules]
        BY <1>0, <2>1 DEF Go
      <3>2. UNCHANGED <<file, signer, changed>>
        BY <2>1 DEF Go
      <3>3. rules \in Sums
        BY <2>2
      <3> HIDE DEF rules
      <3> QED
        BY <3>1, <3>2, <3>3 DEF IInv, TypeOK
    <2>4. ManifestOK' /\ UNCHANGED <<file, manifest, signed, changed>>
          /\ start' = [start EXCEPT !.next = @ + 1, !.rules = With(@, f, file[f])]
      BY <2>1, <2>3, StartSteps
    <2>5. /\ start'.next = start.next + 1 /\ start'.pc = "loading" /\ start'.rules = With(start.rules, f, file[f])
          /\ start'.who = start.who /\ start'.key = start.key
      BY <1>0, <2>4 DEF IInv, TypeOK
    <2>6. StageOK'
      BY <1>0, <2>5 DEF IInv, StageOK, Proxy
    <2>7. \A i \in DOMAIN Configured : i < start'.next => i < start.next \/ i = start.next
      BY <1>0, <2>5, ConfiguredFiles
    <2>8. LoadedOK'
      <3> SUFFICES ASSUME ~changed'
                   PROVE  /\ \A h \in DOMAIN start'.rules :
                               h \in RuleFiles /\ start'.rules[h] = file'[h] /\ file'[h] \in Text
                          /\ \A i \in DOMAIN Configured : i < start'.next =>
                               /\ file'[Configured[i]] \notin Malformed
                               /\ file'[Configured[i]] \in Text => Configured[i] \in DOMAIN start'.rules
                          /\ ~Proxy' => Exists(Configured[1])'
        BY DEF LoadedOK
      <3>1. /\ \A h \in DOMAIN start.rules :
                 h \in RuleFiles /\ start.rules[h] = file[h] /\ file[h] \in Text
            /\ \A i \in DOMAIN Configured : i < start.next =>
                 /\ file[Configured[i]] \notin Malformed
                 /\ file[Configured[i]] \in Text => Configured[i] \in DOMAIN start.rules
            /\ ~Proxy => Exists(Configured[1])
        BY <1>0, <2>4 DEF IInv, LoadedOK
      <3>2. f \in RuleFiles
        BY <1>0 DEF RuleFiles
      <3>3. \A h \in DOMAIN start'.rules :
              h \in RuleFiles /\ start'.rules[h] = file'[h] /\ file'[h] \in Text
        BY <1>3, <2>2, <2>4, <2>5, <3>1, <3>2
      <3>4. \A i \in DOMAIN Configured : i < start'.next =>
                 /\ file[Configured[i]] \notin Malformed
                 /\ file[Configured[i]] \in Text => Configured[i] \in DOMAIN start'.rules
        BY <1>3, <2>2, <2>5, <2>7, <3>1
      <3> QED
        BY <2>4, <2>5, <3>1, <3>3, <3>4 DEF Exists, Proxy
    <2>9. SeenOK' /\ StartsExactlyIfVouched'
      BY <2>5 DEF SeenOK, StartsExactlyIfVouched
    <2> QED
      BY <2>3, <2>4, <2>6, <2>8, <2>9 DEF IInv
  <1> QED
    BY <1>1, <1>2, <1>3

LEMMA BrokerLoadedKeeps ==
  ASSUME IInv, BrokerLoaded
  PROVE  IInv'
  <1>1. /\ Go([start EXCEPT !.pc = "running"])
        /\ start.pc = "loading" /\ start.who = "broker" /\ start.next > Len(Configured)
    BY DEF BrokerLoaded
  <1>2. TypeOK'
    BY <1>1 DEF IInv, TypeOK, Go
  <1>3. ManifestOK' /\ UNCHANGED <<file, manifest, signed, changed>> /\ start' = [start EXCEPT !.pc = "running"]
    BY <1>1, <1>2, StartSteps
  <1>4. /\ start'.pc = "running" /\ start'.who = "broker" /\ start'.next = start.next
        /\ start'.rules = start.rules /\ start'.key = start.key
    BY <1>1, <1>3 DEF IInv, TypeOK
  <1>5. StageOK'
    BY <1>1, <1>4 DEF IInv, StageOK, Proxy
  <1>6. LoadedOK'
    BY <1>1, <1>3, <1>4 DEF IInv, LoadedOK, Exists, Proxy
  <1>7. SeenOK' /\ StartsExactlyIfVouched'
    BY <1>4 DEF SeenOK, StartsExactlyIfVouched, Proxy
  <1> QED
    BY <1>2, <1>3, <1>5, <1>6, <1>7 DEF IInv

LEMMA SeeManifestKeeps ==
  ASSUME IInv, SeeManifest
  PROVE  IInv'
  <1> DEFINE there == manifest # NoManifest
  <1>1. /\ Go([start EXCEPT !.pc = "seen", !.seen = there])
        /\ start.pc = "loading" /\ start.who = "proxy" /\ start.next > Len(Configured)
    BY DEF SeeManifest
  <1>0. there \in BOOLEAN
    OBVIOUS
  <1>2. TypeOK'
    BY <1>0, <1>1 DEF IInv, TypeOK, Go
  <1>3. ManifestOK' /\ UNCHANGED <<file, manifest, signed, changed>> /\ start' = [start EXCEPT !.pc = "seen", !.seen = there]
    BY <1>1, <1>2, StartSteps
  <1>4. /\ start'.pc = "seen" /\ start'.who = "proxy" /\ start'.next = start.next
        /\ start'.rules = start.rules /\ start'.key = start.key /\ start'.seen = there
    BY <1>1, <1>3 DEF IInv, TypeOK
  <1>5. StageOK'
    BY <1>1, <1>4 DEF IInv, StageOK, Proxy
  <1>6. LoadedOK'
    BY <1>1, <1>3, <1>4 DEF IInv, LoadedOK, Exists, Proxy
  <1>7. SeenOK'
    BY <1>3, <1>4 DEF SeenOK
  <1>8. StartsExactlyIfVouched'
    BY <1>4 DEF StartsExactlyIfVouched
  <1> QED
    BY <1>2, <1>3, <1>5, <1>6, <1>7, <1>8 DEF IInv

(* The files a start is through with are well formed, and all it could     *)
(* read is loaded.                                                         *)
LEMMA AllLoaded ==
  ASSUME IInv, ~changed, start.pc \in {"seen", "verifying", "running"}
  PROVE  \A f \in RuleFiles : file[f] \notin Malformed /\ (file[f] \in Text => f \in DOMAIN start.rules)
  <1> SUFFICES ASSUME NEW i \in DOMAIN Configured
               PROVE  /\ file[Configured[i]] \notin Malformed
                      /\ file[Configured[i]] \in Text => Configured[i] \in DOMAIN start.rules
    BY DEF RuleFiles
  <1>1. start.next \in Nat /\ start.next > Len(Configured)
    BY DEF IInv, TypeOK, StageOK
  <1>2. i < start.next
    BY <1>1, ConfiguredFiles
  <1> QED
    BY <1>2 DEF IInv, LoadedOK

LEMMA UnkeyedKeeps ==
  ASSUME IInv, Unkeyed
  PROVE  IInv'
  <1> DEFINE to == IF start.seen THEN "refused" ELSE "running"
  <1>0. to \in {"refused", "running"}
    OBVIOUS
  <1>1. Go([start EXCEPT !.pc = to]) /\ start.pc = "seen" /\ start.key = NoKey
    BY DEF Unkeyed
  <1>2. TypeOK'
    BY <1>0, <1>1 DEF IInv, TypeOK, Go
  <1>3. ManifestOK' /\ UNCHANGED <<file, manifest, signed, changed>> /\ start' = [start EXCEPT !.pc = to]
    BY <1>1, <1>2, StartSteps
  <1>4. /\ start'.pc = to /\ start'.who = start.who /\ start'.next = start.next
        /\ start'.rules = start.rules /\ start'.key = start.key /\ Proxy
    BY <1>1, <1>3 DEF IInv, TypeOK, StageOK
  <1>5. StageOK'
    BY <1>0, <1>1, <1>4 DEF IInv, StageOK, Proxy
  <1>6. LoadedOK'
    BY <1>0, <1>1, <1>3, <1>4 DEF IInv, LoadedOK, Exists, Proxy
  <1>7. SeenOK'
    BY <1>0, <1>1, <1>4 DEF SeenOK
  <1>8. StartsExactlyIfVouched'
    <2> SUFFICES ASSUME ~changed'
                 PROVE  Running' <=> Vouched' /\ \A f \in RuleFiles : file'[f] \notin Malformed
      BY DEF StartsExactlyIfVouched
    <2>1. \A f \in RuleFiles : file'[f] \notin Malformed
      BY <1>1, <1>3, AllLoaded
    <2>2. start.seen <=> manifest # NoManifest
      BY <1>1, <1>3, <1>4 DEF IInv, SeenOK
    <2>3. Running' <=> ~start.seen
      BY <1>4 DEF Running
    <2>4. Vouched' <=> manifest = NoManifest
      BY <1>1, <1>3, <1>4 DEF Vouched
    <2> QED
      BY <2>1, <2>2, <2>3, <2>4
  <1> QED
    BY <1>2, <1>3, <1>5, <1>6, <1>7, <1>8 DEF IInv

LEMMA ReadManifestKeeps ==
  ASSUME IInv, ReadManifest
  PROVE  IInv'
  <1>0. start.pc = "seen" /\ start.key # NoKey /\ Proxy
    BY DEF IInv, StageOK, ReadManifest
  <1>1. CASE Parses(manifest)
    <2> DEFINE same == manifest.key = start.key \/ manifest.sums = Nothing
               s == [start EXCEPT !.pc = "verifying", !.sums = manifest.sums,
                                  !.todo = DOMAIN manifest.sums, !.ok = same]
    <2>1. Go(s)
      BY <1>1 DEF ReadManifest
    <2>2. manifest.sums \in Sums /\ DOMAIN manifest.sums \subseteq Files /\ same \in BOOLEAN
      BY <1>1, SumsApply DEF IInv, ManifestOK
    <2>3. TypeOK'
      BY <2>1, <2>2 DEF IInv, TypeOK, Go
    <2>4. ManifestOK' /\ UNCHANGED <<file, manifest, signed, changed>> /\ start' = s
      BY <2>1, <2>3, StartSteps
    <2>5. /\ start'.pc = "verifying" /\ start'.who = start.who /\ start'.next = start.next
          /\ start'.rules = start.rules /\ start'.key = start.key
          /\ start'.sums = manifest.sums /\ start'.todo = DOMAIN manifest.sums /\ (start'.ok <=> same)
      BY <2>4 DEF IInv, TypeOK
    <2>6. StageOK'
      BY <1>0, <2>5 DEF IInv, StageOK, Proxy
    <2>7. LoadedOK'
      BY <1>0, <2>4, <2>5 DEF IInv, LoadedOK, Exists, Proxy
    <2>8. SeenOK'
      BY <1>1, <2>4, <2>5 DEF SeenOK, Parses
    <2>9. StartsExactlyIfVouched'
      BY <2>5 DEF StartsExactlyIfVouched
    <2> QED
      BY <2>3, <2>4, <2>6, <2>7, <2>8, <2>9 DEF IInv
  <1>2. CASE ~Parses(manifest)
    <2>1. Go([start EXCEPT !.pc = "refused"])
      BY <1>2 DEF ReadManifest
    <2>2. TypeOK'
      BY <2>1 DEF IInv, TypeOK, Go
    <2>3. ManifestOK' /\ UNCHANGED <<file, manifest, signed, changed>> /\ start' = [start EXCEPT !.pc = "refused"]
      BY <2>1, <2>2, StartSteps
    <2>4. /\ start'.pc = "refused" /\ start'.who = start.who /\ start'.next = start.next /\ start'.key = start.key
      BY <2>3 DEF IInv, TypeOK
    <2>5. StageOK' /\ LoadedOK' /\ SeenOK'
      BY <1>0, <2>4 DEF IInv, StageOK, LoadedOK, SeenOK, Proxy
    <2>6. ~Vouched' /\ ~Running'
      BY <1>0, <1>2, <2>3, <2>4 DEF Vouched, Running, Parses
    <2>7. StartsExactlyIfVouched'
      BY <2>6 DEF StartsExactlyIfVouched
    <2> QED
      BY <2>2, <2>3, <2>5, <2>7 DEF IInv
  <1> QED
    BY <1>1, <1>2

LEMMA VerifyFileKeeps ==
  ASSUME IInv, NEW f \in InDirectory, VerifyFile(f)
  PROVE  IInv'
  <1> DEFINE ok == start.ok /\ file[f] = start.sums[f]
             s == [start EXCEPT !.todo = @ \ {f}, !.ok = ok]
  <1>1. Go(s) /\ start.pc = "verifying" /\ f \in start.todo
    BY DEF VerifyFile
  <1>2. ok \in BOOLEAN
    OBVIOUS
  <1>3. TypeOK'
    BY <1>1, <1>2 DEF IInv, TypeOK, Go
  <1>4. ManifestOK' /\ UNCHANGED <<file, manifest, signed, changed>> /\ start' = s
    BY <1>1, <1>3, StartSteps
  <1>5. /\ start'.pc = "verifying" /\ start'.who = start.who /\ start'.next = start.next
        /\ start'.rules = start.rules /\ start'.key = start.key /\ start'.sums = start.sums
        /\ start'.todo = start.todo \ {f} /\ (start'.ok <=> ok)
    BY <1>1, <1>4 DEF IInv, TypeOK
  <1>6. StageOK'
    BY <1>1, <1>5 DEF IInv, StageOK, Proxy
  <1>7. LoadedOK'
    BY <1>1, <1>4, <1>5 DEF IInv, LoadedOK, Exists, Proxy
  <1>8. SeenOK'
    <2> SUFFICES ASSUME ~changed', Proxy'
                 PROVE  /\ Parses(manifest)' /\ start'.sums = manifest'.sums
                        /\ start'.todo \subseteq DOMAIN start'.sums
                        /\ start'.ok <=>
                             /\ manifest'.key = start'.key \/ manifest'.sums = Nothing
                             /\ \A g \in DOMAIN start'.sums \ start'.todo : file'[g] = start'.sums[g]
      BY <1>5 DEF SeenOK
    <2>1. /\ Parses(manifest) /\ start.sums = manifest.sums
          /\ start.todo \subseteq DOMAIN start.sums
          /\ start.ok <=>
               /\ manifest.key = start.key \/ manifest.sums = Nothing
               /\ \A g \in DOMAIN start.sums \ start.todo : file[g] = start.sums[g]
      BY <1>1, <1>4, <1>5 DEF IInv, SeenOK, Proxy
    <2>2. DOMAIN start.sums \ start'.todo = (DOMAIN start.sums \ start.todo) \cup {f}
      BY <1>1, <1>5, <2>1
    <2>3. start'.ok <=> start.ok /\ file[f] = start.sums[f]
      BY <1>5
    <2>4. (\A g \in DOMAIN start.sums \ start'.todo : file[g] = start.sums[g])
            <=> (\A g \in DOMAIN start.sums \ start.todo : file[g] = start.sums[g]) /\ file[f] = start.sums[f]
      BY <2>2
    <2> QED
      BY <1>4, <1>5, <2>1, <2>3, <2>4 DEF Parses
  <1>9. StartsExactlyIfVouched'
    BY <1>5 DEF StartsExactlyIfVouched
  <1> QED
    BY <1>3, <1>4, <1>6, <1>7, <1>8, <1>9 DEF IInv

LEMMA VerifiedKeeps ==
  ASSUME IInv, Verified
  PROVE  IInv'
  <1> DEFINE to == IF start.ok THEN "running" ELSE "refused"
  <1>0. to \in {"refused", "running"}
    OBVIOUS
  <1>1. Go([start EXCEPT !.pc = to]) /\ start.pc = "verifying" /\ start.todo = {}
    BY DEF Verified
  <1>2. TypeOK'
    BY <1>0, <1>1 DEF IInv, TypeOK, Go
  <1>3. ManifestOK' /\ UNCHANGED <<file, manifest, signed, changed>> /\ start' = [start EXCEPT !.pc = to]
    BY <1>1, <1>2, StartSteps
  <1>4. /\ start'.pc = to /\ start'.who = start.who /\ start'.next = start.next
        /\ start'.rules = start.rules /\ start'.key = start.key /\ start'.sums = start.sums
        /\ Proxy /\ start.key # NoKey
    BY <1>1, <1>3 DEF IInv, TypeOK, StageOK
  <1>5. StageOK'
    BY <1>0, <1>1, <1>4 DEF IInv, StageOK, Proxy
  <1>6. LoadedOK'
    BY <1>0, <1>1, <1>3, <1>4 DEF IInv, LoadedOK, Exists, Proxy
  <1>7. SeenOK'
    BY <1>0, <1>1, <1>3, <1>4 DEF IInv, SeenOK
  <1>8. StartsExactlyIfVouched'
    <2> SUFFICES ASSUME ~changed'
                 PROVE  Running' <=> Vouched' /\ \A f \in RuleFiles : file'[f] \notin Malformed
      BY DEF StartsExactlyIfVouched
    <2>1. \A f \in RuleFiles : file'[f] \notin Malformed
      BY <1>1, <1>3, AllLoaded
    <2>2. /\ Parses(manifest) /\ start.sums = manifest.sums
          /\ start.ok <=>
               /\ manifest.key = start.key \/ manifest.sums = Nothing
               /\ \A g \in DOMAIN start.sums : file[g] = start.sums[g]
      BY <1>1, <1>3, <1>4 DEF IInv, SeenOK
    <2>3. Running' <=> start.ok
      BY <1>4 DEF Running
    <2>4. Vouched' <=> start.ok
      BY <1>3, <1>4, <2>2 DEF Vouched, Parses
    <2> QED
      BY <2>1, <2>3, <2>4
  <1> QED
    BY <1>2, <1>3, <1>5, <1>6, <1>7, <1>8 DEF IInv

-----------------------------------------------------------------------------
(* How far a start is, what it has loaded and what it has seen of the      *)
(* manifest agree with the files for as long as nobody touches them        *)
(* (build_router, run_daemon).                                             *)
THEOREM Invariance == Spec => []IInv
  <1>1. Init => IInv
    BY InitHolds
  <1>2. IInv /\ [Next]_vars => IInv'
    <2> SUFFICES ASSUME IInv, [Next]_vars PROVE IInv'
      OBVIOUS
    <2>1. ASSUME NEW f \in Files, NEW c \in Contents \cup {Absent}, Edit(f, c) PROVE IInv'
      BY <2>1, EditKeeps
    <2>2. CASE RemoveManifest
      BY <2>2, RemoveManifestKeeps
    <2>3. ASSUME NEW k \in Keys, SignBegin(k) PROVE IInv'
      BY <2>3, SignBeginKeeps
    <2>4. ASSUME NEW f \in InDirectory, SignFile(f) PROVE IInv'
      BY <2>4, SignFileKeeps
    <2>5. CASE SignTruncate
      BY <2>5, SignTruncateKeeps
    <2>6. CASE SignWrite
      BY <2>6, SignWriteKeeps
    <2>7. CASE SignStops
      BY <2>7, SignStopsKeeps
    <2>8. ASSUME NEW k \in Keys \cup {NoKey}, Begin(k) PROVE IInv'
      BY <2>8, BeginKeeps
    <2>9. CASE BrokerBegin
      BY <2>9, BrokerBeginKeeps
    <2>10. CASE BrokerLoaded
      BY <2>10, BrokerLoadedKeeps
    <2>11. CASE Load
      BY <2>11, LoadKeeps
    <2>12. CASE SeeManifest
      BY <2>12, SeeManifestKeeps
    <2>13. CASE Unkeyed
      BY <2>13, UnkeyedKeeps
    <2>14. CASE ReadManifest
      BY <2>14, ReadManifestKeeps
    <2>15. ASSUME NEW f \in InDirectory, VerifyFile(f) PROVE IInv'
      BY <2>15, VerifyFileKeeps
    <2>16. CASE Verified
      BY <2>16, VerifiedKeeps
    <2>17. CASE UNCHANGED vars
      <3>1. TypeOK' /\ UNCHANGED <<file, manifest, start, signed, changed>>
        BY <2>17 DEF IInv, TypeOK, vars
      <3> QED
        BY <3>1, SigningKeeps
    <2> QED
      BY <2>1, <2>2, <2>3, <2>4, <2>5, <2>6, <2>7, <2>8, <2>9, <2>10, <2>11, <2>12,
         <2>13, <2>14, <2>15, <2>16, <2>17 DEF Next
  <1> QED
    BY <1>1, <1>2, PTL DEF Spec

(* A proxy with a key that started undisturbed runs each configured file   *)
(* of the manifest with what was signed for it, unless that is no text     *)
(* (build_router, DlpEngine::build).                                       *)
THEOREM QuietStartSignedHolds == Spec => []QuietStartSigned
  <1>1. IInv => QuietStartSigned
    <2> SUFFICES ASSUME IInv, Running, start.key # NoKey, ~changed,
                        NEW f \in DOMAIN start.sums \cap RuleFiles
                 PROVE  /\ <<start.key, f, file[f]>> \in signed
                        /\ file[f] \in Garbled => f \notin DOMAIN start.rules
                        /\ file[f] \notin Garbled =>
                             f \in DOMAIN start.rules /\ start.rules[f] = file[f]
      BY DEF QuietStartSigned
    <2>1. Proxy /\ start.pc = "running" /\ start.sums = manifest.sums
      BY DEF IInv, StageOK, SeenOK, Running
    <2>2. Vouched
      BY <2>1 DEF IInv, StartsExactlyIfVouched
    <2>3. /\ Parses(manifest) /\ file[f] = manifest.sums[f]
          /\ manifest.key = start.key \/ manifest.sums = Nothing
      BY <2>1, <2>2 DEF Vouched
    <2>4. DOMAIN manifest.sums # {}
      BY <2>1
    <2>5. manifest.key = start.key
      BY <2>3, <2>4 DEF Nothing
    <2>6. manifest.sums[f] \in Bytes /\ <<manifest.key, f, manifest.sums[f]>> \in signed
      <3>1. /\ manifest.sums \in Sums /\ f \in DOMAIN manifest.sums
            /\ \A g \in DOMAIN manifest.sums : <<manifest.key, g, manifest.sums[g]>> \in signed
        BY <2>1, <2>3 DEF IInv, ManifestOK
      <3> QED
        BY <3>1, SumsApply
    <2>7. \A g \in DOMAIN start.rules : start.rules[g] = file[g] /\ file[g] \in Text
      BY <2>1 DEF IInv, LoadedOK
    <2>8. file[f] \in Garbled => f \notin DOMAIN start.rules
      BY <2>7 DEF Text
    <2>9. file[f] \notin Garbled => f \in DOMAIN start.rules
      BY <2>1, <2>3, <2>6, AllLoaded DEF Text
    <2> QED
      BY <2>3, <2>5, <2>6, <2>7, <2>8, <2>9
  <1> QED
    BY Invariance, <1>1, PTL

(* An undisturbed proxy starts exactly if its rules are vouched for        *)
(* (build_router).                                                         *)
THEOREM StartsExactlyIfVouchedHolds == Spec => []StartsExactlyIfVouched
  <1>1. IInv => StartsExactlyIfVouched
    BY DEF IInv
  <1> QED
    BY Invariance, <1>1, PTL

(* An undisturbed broker found its first rules file there, and runs all    *)
(* that can be read as text, as it is (run_daemon, DlpEngine::build).      *)
THEOREM BrokerSkipsNoTextHolds == Spec => []BrokerSkipsNoText
  <1>1. IInv => BrokerSkipsNoText
    <2> SUFFICES ASSUME IInv, Running, ~Proxy, ~changed
                 PROVE  /\ Exists(Configured[1])
                        /\ DOMAIN start.rules = {f \in RuleFiles : file[f] \in Text}
                        /\ \A f \in DOMAIN start.rules : start.rules[f] = file[f]
      BY DEF BrokerSkipsNoText
    <2>1. start.pc = "running"
      BY DEF Running
    <2>2. \A f \in DOMAIN start.rules :
            f \in RuleFiles /\ start.rules[f] = file[f] /\ file[f] \in Text
      BY <2>1 DEF IInv, LoadedOK
    <2>3. \A f \in RuleFiles : file[f] \in Text => f \in DOMAIN start.rules
      BY <2>1, AllLoaded
    <2>4. Exists(Configured[1])
      BY <2>1 DEF IInv, LoadedOK
    <2> QED
      BY <2>2, <2>3, <2>4
  <1> QED
    BY Invariance, <1>1, PTL
=============================================================================
