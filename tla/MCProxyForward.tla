--------------------------- MODULE MCProxyForward ---------------------------
(* An instance of ProxyForward: configurations, stores and requests.       *)
EXTENDS ProxyForward, TLC

EnvKey == Ref("env", "OPENAI_KEY", None)
RingKey == Ref("keychain", "providers/groq", "key")
RingIdentity == Ref("keychain", "providers/groq", "identity")
VaultKey == Ref("vault", "providers/local", "key")
VaultWhole == Ref("vault", "providers/local", None)

MCEnvironment == "OPENAI_KEY" :> "quoted e1" @@ "EMPTY_KEY" :> None

MCKeychainRefs == {RingKey, RingIdentity}

MCVaultFiles ==
  {VaultFile("id1", TRUE, "providers/local" :> ("key" :> "v1")),
   VaultFile("id1", TRUE, "providers/local" :> ("key" :> "blank")),
   VaultFile("id2", TRUE, "providers/local" :> ("key" :> "v2")),
   VaultFile("id1", FALSE, "providers/local" :> ("key" :> "v2"))}

MCUnquoted == "quoted e1" :> "e1"

Provider(url, credential, keyEnv) == [url |-> url, credential |-> credential, keyEnv |-> keyEnv]

Off == [enabled |-> FALSE, fast |-> Provider(None, None, None), smart |-> Provider(None, None, None)]

Toml(default, routes, balancer, vaultRef) ==
  [upstream |-> default, routes |-> routes, balancer |-> balancer, vault |-> vaultRef, action |-> "redact"]

(* Aliases without a balancer; a balancer over a route of another           *)
(* provider; credentials in a vault that the keychain opens; and files      *)
(* that are refused: both ways to name a credential, a bad url, a vault     *)
(* that opens itself.                                                       *)
MCConfigs ==
  {Toml("good1", "gpt" :> Provider("good2", None, "OPENAI_KEY") @@ "default" :> Provider("good1", RingKey, None),
        Off, None),
   Toml(None, "gpt" :> Provider("good2", EnvKey, None),
        [enabled |-> TRUE, fast |-> Provider("good3", RingKey, None), smart |-> Provider("good1", None, None)],
        None),
   Toml("good1", "gpt" :> Provider("good2", VaultKey, None) @@ "default" :> Provider("good3", VaultWhole, None),
        Off, RingIdentity),
   Toml("good1", "gpt" :> Provider("good2", EnvKey, "OPENAI_KEY"), Off, None),
   Toml("good1", "gpt" :> Provider("bad", None, None), Off, None),
   Toml("good1", "gpt" :> Provider("good2", VaultKey, None), Off, VaultKey)}

Request1(json, alias, text, headers, path) ==
  [json |-> json, alias |-> alias, text |-> text, headers |-> headers, path |-> path]

MCArrivals ==
  {Request1(TRUE, "gpt", "high", {"authorization", "content-length"}, "plain"),
   Request1(TRUE, "gpt", "low", {"te-other", "connection", "x-api-key"}, "plain"),
   Request1(TRUE, "default", "none", {"authorization"}, "plain"),
   Request1(FALSE, "default", "none", {"proxy-authorization"}, "plain"),
   Request1(TRUE, "gpt", "low", {"te-other", "content-length"}, "plain"),
   Request1(TRUE, "gpt", "low", {"te-chunked"}, "plain"),
   Request1(TRUE, "gpt", "low", {}, "traversal")}

Symmetry == Permutations(Request)
=============================================================================
