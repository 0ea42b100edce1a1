------------------------------ MODULE PolicyLoad ------------------------------
(***************************************************************************)
(* The signed action policy of broker/policy.rs: three files that an       *)
(* operator edits, signs and pins, and that a starting broker reads.       *)
(*                                                                         *)
(* Nothing locks the files.  load_signed_policy opens the policy three     *)
(* times (to verify it, to fingerprint it, to parse it) and the key and    *)
(* the signature in between; sign_policy reads the policy, then the key,   *)
(* then writes the signature.  Every access is an action of its own.       *)
(* fs::write truncates before it writes: a reader may see an empty file.   *)
(*                                                                         *)
(* Signatures are ideal: one verifies against the text and the key it was  *)
(* made from and no other.                                                 *)
(***************************************************************************)
EXTENDS Naturals

CONSTANTS
  Texts,        \* contents the policy file may have
  Valid,        \* those that parse_and_validate accepts
  Keys,         \* signing keys, each with its public half
  NoKey,        \* no key file, or not a key
  NoSig,        \* no signature file, or an empty one
  MaxEdits,     \* bound: changes of the policy file
  MaxLoads      \* bound: starts of the broker

ASSUME FileAssumption == Valid \subseteq Texts /\ NoKey \notin Keys

(* An empty signature file is no signature of anything.                    *)
ASSUME SigAssumption == NoSig \notin [key : Keys, text : Texts]

VARIABLES
  policy,       \* content of the policy file
  sig,          \* content of <policy>.sig
  secret,       \* the secret key file
  public,       \* the pinned public key file
  generating,   \* whether keygen has written the secret half only
  signer,       \* sign_policy in progress
  loader,       \* load_signed_policy in progress, and what it returned
  signed,       \* what was ever signed (history)
  edited,       \* the policy changed since this load began (history)
  replaced,     \* a file the load reads changed since it began (history)
  edits,        \* changes so far
  loads         \* starts so far

policyVars == <<policy, sig, secret, public, generating, signer, loader, signed,
          edited, replaced, edits, loads>>

files == <<policy, sig, secret, public, generating>>
history == <<signed, edited, replaced, edits, loads>>

-----------------------------------------------------------------------------
Signature == [key : Keys, text : Texts]

Signing == [pc : {"idle"}] \cup [pc : {"read"}, text : Texts]
             \cup [pc : {"writing"}, text : Texts, key : Keys]

(* text is what was verified, print what was fingerprinted, actions what   *)
(* was parsed.                                                             *)
Loading == [pc : {"idle", "refused"}]
             \cup [pc : {"policy"}, text : Texts]
             \cup [pc : {"key"}, text : Texts, key : Keys]
             \cup [pc : {"verified"}, text : Texts, key : Keys]
             \cup [pc : {"bytes"}, text : Texts, key : Keys, print : Texts]
             \cup [pc : {"loaded"}, text : Texts, key : Keys, print : Texts, actions : Texts]

Idle == [pc |-> "idle"]
Refused == [pc |-> "refused"]

PolicyInit ==
  /\ policy \in Texts
  /\ sig = NoSig
  /\ secret = NoKey
  /\ public = NoKey
  /\ generating = FALSE
  /\ signer = Idle
  /\ loader = Idle
  /\ signed = {}
  /\ edited = FALSE
  /\ replaced = FALSE
  /\ edits = 0
  /\ loads = 0

-----------------------------------------------------------------------------
(* The operator.                                                           *)

Edit(t) ==
  /\ edits < MaxEdits
  /\ t # policy
  /\ policy' = t
  /\ edited' = TRUE
  /\ replaced' = TRUE
  /\ edits' = edits + 1
  /\ UNCHANGED <<sig, secret, public, generating, signer, loader, signed, loads>>

(* keygen: the secret half, which is never overwritten, then the public    *)
(* half, which is.  The second write may fail and leave the first.         *)
KeygenSecret(k) ==
  /\ ~generating
  /\ secret = NoKey
  /\ secret' = k
  /\ generating' = TRUE
  /\ UNCHANGED <<policy, sig, public, signer, loader, history>>

KeygenPublic ==
  /\ generating
  /\ public' = secret
  /\ generating' = FALSE
  /\ replaced' = TRUE
  /\ UNCHANGED <<policy, sig, secret, signer, loader, signed, edited, edits, loads>>

KeygenFails ==
  /\ generating
  /\ generating' = FALSE
  /\ UNCHANGED <<policy, sig, secret, public, signer, loader, history>>

(* The secret key is kept offline: it goes, and another may come.          *)
TakeOffline ==
  /\ ~generating
  /\ secret # NoKey
  /\ secret' = NoKey
  /\ UNCHANGED <<policy, sig, public, generating, signer, loader, history>>

SignRead ==
  /\ signer = Idle
  /\ signer' = [pc |-> "read", text |-> policy]
  /\ UNCHANGED <<files, loader, history>>

SignTruncate ==
  /\ signer.pc = "read"
  /\ secret # NoKey
  /\ signer' = [pc |-> "writing", text |-> signer.text, key |-> secret]
  /\ sig' = NoSig
  /\ replaced' = TRUE
  /\ UNCHANGED <<policy, secret, public, generating, loader, signed, edited, edits, loads>>

SignWrite ==
  /\ signer.pc = "writing"
  /\ signer' = Idle
  /\ sig' = [key |-> signer.key, text |-> signer.text]
  /\ signed' = signed \cup {sig'}
  /\ replaced' = TRUE
  /\ UNCHANGED <<policy, secret, public, generating, loader, edited, edits, loads>>

(* No key to sign with, or the command is interrupted.                     *)
SignStops ==
  /\ signer # Idle
  /\ signer' = Idle
  /\ UNCHANGED <<files, loader, history>>

-----------------------------------------------------------------------------
(* The broker starts: verify_signature, then the rest of                   *)
(* load_signed_policy.                                                     *)

ReadPolicy ==
  /\ loader.pc \in {"idle", "refused", "loaded"}
  /\ loads < MaxLoads
  /\ loads' = loads + 1
  /\ loader' = [pc |-> "policy", text |-> policy]
  /\ edited' = FALSE
  /\ replaced' = FALSE
  /\ UNCHANGED <<files, signer, signed, edits>>

ReadKey ==
  /\ loader.pc = "policy"
  /\ loader' = IF public = NoKey THEN Refused
               ELSE [pc |-> "key", text |-> loader.text, key |-> public]
  /\ UNCHANGED <<files, signer, history>>

(* Mutant of Verifies: an older signature of the key will do.              *)
VerifiesAnyText(key, text) == sig # NoSig /\ sig.key = key

(* Mutant of Verifies: against the key at hand, not the pinned one.        *)
VerifiesSecretKey(key, text) == secret # NoKey /\ sig = [key |-> secret, text |-> text]

Verifies(key, text) == sig = [key |-> key, text |-> text]

Verify ==
  /\ loader.pc = "key"
  /\ loader' = IF Verifies(loader.key, loader.text)
                 THEN [loader EXCEPT !.pc = "verified"] ELSE Refused
  /\ UNCHANGED <<files, signer, history>>

ReadBytes ==
  /\ loader.pc = "verified"
  /\ loader' = [pc |-> "bytes", text |-> loader.text, key |-> loader.key, print |-> policy]
  /\ UNCHANGED <<files, signer, history>>

ReadText ==
  /\ loader.pc = "bytes"
  /\ loader' = IF policy \notin Valid THEN Refused
               ELSE [pc |-> "loaded", text |-> loader.text, key |-> loader.key,
                     print |-> loader.print, actions |-> policy]
  /\ UNCHANGED <<files, signer, history>>

OperatorNext ==
  \/ \E t \in Texts : Edit(t)
  \/ \E k \in Keys : KeygenSecret(k)
  \/ KeygenPublic \/ KeygenFails \/ TakeOffline
  \/ SignRead \/ SignTruncate \/ SignWrite \/ SignStops

LoadNext == ReadPolicy \/ ReadKey \/ Verify \/ ReadBytes \/ ReadText

PolicyNext == OperatorNext \/ LoadNext

PolicySpec == PolicyInit /\ [][PolicyNext]_policyVars

-----------------------------------------------------------------------------
(* Properties.                                                             *)

PolicyTypeOK ==
  /\ policy \in Texts
  /\ sig \in Signature \cup {NoSig}
  /\ secret \in Keys \cup {NoKey} /\ public \in Keys \cup {NoKey}
  /\ generating \in BOOLEAN
  /\ generating => secret # NoKey
  /\ signer \in Signing
  /\ loader \in Loading
  /\ signed \subseteq Signature
  /\ edited \in BOOLEAN /\ replaced \in BOOLEAN
  /\ edits \in Nat /\ loads \in Nat

Loaded == loader.pc = "loaded"

(* If nobody edits the policy while the broker starts, the actions it runs *)
(* are valid, they were signed with the key that was pinned, and the       *)
(* fingerprint in the audit log is theirs, whatever the operator signs,    *)
(* pins or generates meanwhile (load_signed_policy).                       *)
QuietLoadIsSigned ==
  Loaded /\ ~edited =>
    /\ loader.actions \in Valid
    /\ loader.print = loader.actions
    /\ [key |-> loader.key, text |-> loader.actions] \in signed

(* However the files change, what is loaded was validated, and some text   *)
(* the policy file had was signed with the pinned key (verify_signature).  *)
NeverUnsigned ==
  Loaded => loader.actions \in Valid /\ [key |-> loader.key, text |-> loader.text] \in signed

(* A start that is refused had a reason: with no file changing, a valid    *)
(* policy with the pinned key's signature loads (load_signed_policy).      *)
GoodPolicyLoads ==
  loader = Refused /\ ~replaced =>
    ~(policy \in Valid /\ public # NoKey /\ sig = [key |-> public, text |-> policy])

(* The inductive invariant: what each step of a load has seen is still so  *)
(* while nobody changed it.                                                *)
LoadFollowsFiles ==
  /\ edited => replaced
  /\ loader.pc \in {"policy", "key", "verified", "bytes", "loaded"} /\ ~edited => loader.text = policy
  /\ loader.pc \in {"bytes", "loaded"} /\ ~edited => loader.print = policy
  /\ loader.pc = "loaded" /\ ~edited => loader.actions = policy
  /\ loader.pc \in {"key", "verified", "bytes", "loaded"} /\ ~replaced => loader.key = public
  /\ loader.pc \in {"verified", "bytes", "loaded"} =>
       [key |-> loader.key, text |-> loader.text] \in signed

SignatureOnRecord == sig # NoSig => sig \in signed

PolicyInv == PolicyTypeOK /\ LoadFollowsFiles /\ SignatureOnRecord /\ NeverUnsigned /\ GoodPolicyLoads

-----------------------------------------------------------------------------
(* Stated by a document or a comment, and not kept by the code: no run     *)
(* expects these to hold (README.md, section 5).                           *)

(* docs/BROKER.md: one flipped byte after signing and the daemon refuses   *)
(* to start: it only ever runs what was signed with the pinned key.        *)
RunsWhatWasSigned == Loaded => [key |-> loader.key, text |-> loader.actions] \in signed
=============================================================================
