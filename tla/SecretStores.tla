----------------------------- MODULE SecretStores -----------------------------
(***************************************************************************)
(* The secret registry and its backends (src/secrets), as one process uses *)
(* them while people change what they hold.  The environment is the        *)
(* process's own and stays as it is.  The native keychain and the portable *)
(* vault belong to the machine: every resolution reads them anew.          *)
(***************************************************************************)
EXTENDS FiniteSets

CONSTANTS
  Environment,       \* variable -> its value, or None
  KeychainRefs,      \* references whose keychain account can be written
  VaultFiles,        \* files that may be put where the vault is
  Value,             \* what a store may hold, never the empty string
  None               \* no value, no field, no vault

VARIABLES
  keychain,          \* account -> value, or None
  stored,            \* what was stored under each reference, or None (history)
  vault,             \* the vault file
  registered,        \* the schemes with a backend
  identity           \* the device identity the vault backend keeps

storeVars == <<keychain, stored, vault, registered, identity>>

Ref(scheme, path, field) == [scheme |-> scheme, path |-> path, field |-> field]

ASSUME KeychainRefsAreRefs ==
  \A ref \in KeychainRefs : ref = Ref("keychain", ref.path, ref.field)

(* A vault file: the identity it is encrypted to, whether its payload      *)
(* passes VaultPayloadV1::validate, and its entries: path -> field ->      *)
(* value.  A missing or half-written file cannot be decrypted by anyone.   *)
VaultFile(recipient, valid, entries) ==
  [recipient |-> recipient, valid |-> valid, entries |-> entries]

Torn == VaultFile(None, FALSE, [path \in {} |-> None])

-----------------------------------------------------------------------------
(* The backends.  None: the resolution fails.                              *)

(* Mutant of Account: the fields of one path share an account.             *)
AccountOfPath(ref) == <<ref.path>>

Account(ref) == <<ref.path, ref.field>>

Accounts == {Account(ref) : ref \in KeychainRefs}

FromEnvironment(ref) ==
  IF ref.field = None /\ ref.path \in DOMAIN Environment THEN Environment[ref.path] ELSE None

FromKeychain(ref) == IF ref \in KeychainRefs THEN keychain[Account(ref)] ELSE None

InVault(ref) ==
  /\ ref.field # None
  /\ ref.path \in DOMAIN vault.entries
  /\ ref.field \in DOMAIN vault.entries[ref.path]

FromVault(ref) ==
  IF vault.recipient = identity /\ vault.valid /\ InVault(ref)
    THEN vault.entries[ref.path][ref.field] ELSE None

Resolve(ref) ==
  CASE ref.scheme \notin registered -> None
    [] ref.scheme = "env" /\ ref.scheme \in registered -> FromEnvironment(ref)
    [] ref.scheme = "keychain" /\ ref.scheme \in registered -> FromKeychain(ref)
    [] ref.scheme = "vault" /\ ref.scheme \in registered -> FromVault(ref)

-----------------------------------------------------------------------------
(* People: `open-guardian secret set` and `delete`, and whatever syncs the *)
(* vault file, which may be seen half-written.                             *)

KeychainSet ==
  /\ \E ref \in KeychainRefs, v \in Value :
       /\ keychain' = [keychain EXCEPT ![Account(ref)] = v]
       /\ stored' = [stored EXCEPT ![ref] = v]
  /\ UNCHANGED <<vault, registered, identity>>

KeychainDelete ==
  /\ \E ref \in KeychainRefs :
       /\ keychain[Account(ref)] # None
       /\ keychain' = [keychain EXCEPT ![Account(ref)] = None]
       /\ stored' = [stored EXCEPT ![ref] = None]
  /\ UNCHANGED <<vault, registered, identity>>

VaultWrite ==
  /\ vault' \in VaultFiles \cup {Torn}
  /\ UNCHANGED <<keychain, stored, registered, identity>>

StoresChange == KeychainSet \/ KeychainDelete \/ VaultWrite

StoresInit ==
  /\ keychain = [a \in Accounts |-> None]
  /\ stored = [ref \in KeychainRefs |-> None]
  /\ vault \in VaultFiles \cup {Torn}
  /\ registered = {} /\ identity = None

(* What people put under a reference, as of now, None for nothing.         *)
Meant(ref) ==
  CASE ref \in KeychainRefs -> stored[ref]
    [] ref.scheme = "env" -> FromEnvironment(ref)
    [] ref.scheme = "vault" /\ InVault(ref) -> vault.entries[ref.path][ref.field]
    [] OTHER -> None

(* An account holds what was stored under its one reference.               *)
StoresOK ==
  /\ keychain \in [Accounts -> Value \cup {None}]
  /\ stored \in [KeychainRefs -> Value \cup {None}]
  /\ \A ref \in KeychainRefs : keychain[Account(ref)] = stored[ref]
  /\ registered \subseteq {"env", "keychain", "vault"}
=============================================================================
