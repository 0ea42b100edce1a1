----------------------------- MODULE ProxyForward -----------------------------
(***************************************************************************)
(* Where the egress proxy sends a request, and with whose credential: the  *)
(* configuration and its checks (config.rs), the start (main.rs Start,     *)
(* server.rs assemble_secret_broker), the checks of headers and path, the  *)
(* choice of a provider by model alias and by the load balancer            *)
(* (server.rs handler, router.rs) and the request to it (proxy.rs          *)
(* forward_request).  What is done to the text on the way is Egress.       *)
(*                                                                         *)
(* The credential is resolved when the request is about to be sent, while  *)
(* keychain and vault change underneath, and requests are handled          *)
(* concurrently.                                                           *)
(***************************************************************************)
EXTENDS SecretStores

CONSTANTS
  Request,        \* requests that can be under way
  Configs,        \* guardian.toml files
  Upstreams,      \* values of --upstream, or None
  Arrivals,       \* requests clients make
  GoodUrls,       \* HTTP(S) base URLs without userinfo, query or fragment
  Ollama,         \* the default upstream of the program
  Identities,     \* values that parse as an age identity
  Unquoted,       \* quoted value -> the key between its quotes
  Unsendable      \* keys that are blank or no header value

VARIABLES
  config,         \* guardian.toml: never changes
  cli,            \* [local, upstream] of the command line: never changes
  proxy,          \* "down", "loaded", "up" or "refused"
  upstream,       \* the default upstream in effect
  handler,        \* request -> what its handler does, with what
  held,           \* request -> what its reference has meant since it was routed (history)
  sent            \* what the providers got (history)

vars == <<storeVars, config, cli, proxy, upstream, handler, held, sent>>

-----------------------------------------------------------------------------
(* The configuration.  A provider (a route or a tier) has a url, a         *)
(* credential or the deprecated key_env, and a model.                      *)

Migratable(p) == p.credential = None \/ p.keyEnv = None

Migrated(p) ==
  IF p.credential = None /\ p.keyEnv # None
    THEN [p EXCEPT !.credential = Ref("env", p.keyEnv, None), !.keyEnv = None] ELSE p

Routes == [alias \in DOMAIN config.routes |-> Migrated(config.routes[alias])]

Tier(name) == Migrated(config.balancer[name])

ValidEndpoint(url) == url \in GoodUrls

(* A tier of a balancer that is switched off may be left empty.            *)
TierValid(p) ==
  /\ Migratable(p)
  /\ (config.balancer.enabled \/ p.url # None) => ValidEndpoint(p.url)

NormalizeCredentials ==
  /\ \A alias \in DOMAIN config.routes :
       Migratable(config.routes[alias]) /\ ValidEndpoint(config.routes[alias].url)
  /\ TierValid(config.balancer.fast) /\ TierValid(config.balancer.smart)
  /\ config.vault # None => config.vault.scheme # "vault"
  /\ config.upstream # None => ValidEndpoint(config.upstream)
  /\ config.action \in {"redact", "block"}

(* The url on the command line comes first, and is not checked here.       *)
DefaultUpstream ==
  CASE cli.local -> Ollama
    [] ~cli.local /\ cli.upstream # None -> cli.upstream
    [] ~cli.local /\ cli.upstream = None /\ config.upstream # None -> config.upstream
    [] OTHER -> Ollama

-----------------------------------------------------------------------------
Idle == [pc |-> "idle"]

Init ==
  /\ StoresInit
  /\ config \in Configs
  /\ cli \in [local : BOOLEAN, upstream : Upstreams]
  /\ proxy = "down"
  /\ upstream = None
  /\ handler = [r \in Request |-> Idle]
  /\ held = [r \in Request |-> {}]
  /\ sent = {}

(* load_config and the arguments: refused as a whole or taken as a whole.  *)
LoadConfig ==
  /\ proxy = "down"
  /\ proxy' = IF NormalizeCredentials THEN "loaded" ELSE "refused"
  /\ upstream' = DefaultUpstream
  /\ registered' = {"env", "keychain"}
  /\ UNCHANGED <<keychain, stored, vault, identity, config, cli, handler, held, sent>>

(* assemble_secret_broker: the vault's identity is resolved through the    *)
(* backends registered before it.  The file has to be there, and is not    *)
(* opened yet.                                                             *)
Assemble ==
  /\ proxy = "loaded"
  /\ IF config.vault = None
       THEN /\ proxy' = "up"
            /\ UNCHANGED <<registered, identity>>
       ELSE IF Resolve(config.vault) \in Identities
         THEN /\ proxy' \in {"up", "refused"}
              /\ identity' = Resolve(config.vault)
              /\ registered' = registered \cup {"vault"}
         ELSE /\ proxy' = "refused"
              /\ UNCHANGED <<registered, identity>>
  /\ UNCHANGED <<keychain, stored, vault, config, cli, upstream, handler, held, sent>>

(* The proxy is stopped, or gave up starting: its process is gone.         *)
Stop ==
  /\ proxy \in {"up", "refused"}
  /\ proxy' = "down"
  /\ identity' = None /\ registered' = {}
  /\ handler' = [r \in Request |-> IF handler[r] = Idle THEN Idle ELSE [pc |-> "failed"]]
  /\ UNCHANGED <<keychain, stored, vault, config, cli, upstream, held, sent>>

-----------------------------------------------------------------------------
(* The handler.  A request has a path, header names, a body that is JSON   *)
(* or not with a model alias ("default" when it names none), and the       *)
(* complexity of its text: "none", "low" or "high".                        *)

Blocked(headers) ==
  \/ "te-chunked" \in headers
  \/ "te-other" \in headers /\ "content-length" \in headers

(* sanitize_headers.  Its list has connection, keep-alive and te as well,  *)
(* and its loop leaves them in.                                            *)
SanitizeHeaders(headers) ==
  headers \ {"te-chunked", "te-other", "proxy-authorization", "upgrade"}

(* What forward_request sends on: every other header as the client sent    *)
(* it, a key of the client's own in x-api-key included.                    *)
PassedOn(headers) ==
  SanitizeHeaders(headers) \ {"host", "content-length", "accept-encoding", "authorization"}

(* Refused for its headers, path, rate or text.                            *)
Refuse(r) ==
  /\ proxy = "up" /\ handler[r] = Idle
  /\ handler' = [handler EXCEPT ![r] = [pc |-> "failed"]]
  /\ UNCHANGED <<storeVars, config, cli, proxy, upstream, held, sent>>

Plain == [url |-> upstream, credential |-> None]

ByAlias(a) ==
  IF a.alias \in DOMAIN Routes
    THEN [url |-> Routes[a.alias].url, credential |-> Routes[a.alias].credential]
    ELSE Plain

(* Mutant of ByBalancer: the route's credential goes to the tier.          *)
ByBalancerKeepingCredential(a) ==
  LET tier == Tier(IF a.text = "high" THEN "smart" ELSE "fast")
  IN  [url |-> tier.url, credential |-> ByAlias(a).credential]

ByBalancer(a) ==
  LET tier == Tier(IF a.text = "high" THEN "smart" ELSE "fast")
  IN  [url |-> tier.url, credential |-> tier.credential]

(* The provider of a request.  The balancer overrides the alias whenever   *)
(* there is text to score.                                                 *)
Choice(a) ==
  CASE ~a.json -> Plain
    [] a.json /\ config.balancer.enabled /\ a.text # "none" -> ByBalancer(a)
    [] OTHER -> ByAlias(a)

(* Mutant of BuildTargetUrl: the upstream was checked with the file.       *)
BuildTargetUrlTrusting(url) == TRUE

BuildTargetUrl(url) == ValidEndpoint(url)

(* Accepted, inspected and routed; a bad endpoint fails here.              *)
Route(r, a) ==
  /\ proxy = "up" /\ handler[r] = Idle
  /\ ~Blocked(a.headers) /\ a.path = "plain"
  /\ LET to == Choice(a) IN
       /\ handler' = [handler EXCEPT ![r] =
            IF BuildTargetUrl(to.url)
              THEN [pc |-> "routed", url |-> to.url, credential |-> to.credential,
                    headers |-> PassedOn(a.headers)]
              ELSE [pc |-> "failed"]]
       /\ held' = [held EXCEPT ![r] = IF to.credential = None THEN {} ELSE {Meant(to.credential)}]
  /\ UNCHANGED <<storeVars, config, cli, proxy, upstream, sent>>

CleanKey(v) == IF v \in DOMAIN Unquoted THEN Unquoted[v] ELSE v

(* build_bearer_header, None if there is no key to put in it.              *)
Bearer(v) == IF v = None \/ CleanKey(v) \in Unsendable THEN None ELSE CleanKey(v)

(* What the credential of a routed request is now.                         *)
Authorization(r) ==
  IF handler[r].credential = None THEN None ELSE Bearer(Resolve(handler[r].credential))

Unusable(r) == handler[r].credential # None /\ Authorization(r) = None

(* forward_request resolves the credential and sends: what the store holds *)
(* by now decides.                                                         *)
Send(r) ==
  /\ handler[r].pc = "routed" /\ ~Unusable(r)
  /\ sent' = sent \cup {[request |-> r, url |-> handler[r].url, credential |-> handler[r].credential,
                         auth |-> Authorization(r), headers |-> handler[r].headers]}
  /\ handler' = [handler EXCEPT ![r] = [pc |-> "sent"]]
  /\ UNCHANGED <<storeVars, config, cli, proxy, upstream, held>>

FailCredential(r) ==
  /\ handler[r].pc = "routed" /\ Unusable(r)
  /\ handler' = [handler EXCEPT ![r] = [pc |-> "failed"]]
  /\ UNCHANGED <<storeVars, config, cli, proxy, upstream, held, sent>>

-----------------------------------------------------------------------------
(* People change keychain and vault whatever the proxy is doing.           *)
Rotate ==
  /\ StoresChange
  /\ UNCHANGED <<config, cli, proxy, upstream, handler, sent>>
  /\ held' = [r \in Request |->
       IF handler[r].pc = "routed" /\ handler[r].credential # None
         THEN held[r] \cup {Meant(handler[r].credential)'} ELSE held[r]]

Next ==
  \/ LoadConfig \/ Assemble \/ Stop \/ Rotate
  \/ \E r \in Request :
       \/ Refuse(r) \/ Send(r) \/ FailCredential(r)
       \/ \E a \in Arrivals : Route(r, a)

Spec == Init /\ [][Next]_vars

-----------------------------------------------------------------------------
(* Properties.                                                             *)

(* The providers of the configuration, each with the url it is at and the  *)
(* credential that is for it, whatever selects it.                         *)
Providers ==
  {[url |-> DefaultUpstream, credential |-> None]}
    \cup {[url |-> Routes[alias].url, credential |-> Routes[alias].credential] :
            alias \in DOMAIN config.routes}
    \cup {[url |-> Tier(name).url, credential |-> Tier(name).credential] :
            name \in {"fast", "smart"}}

(* A provider gets its own credential or none: never the one of another    *)
(* provider, and no request without one to a provider that has one         *)
(* configured.  The client's Authorization header is not forwarded, as     *)
(* CONTRIBUTING.md promises; of its other headers nothing is promised      *)
(* (server.rs handler, load balancer override; proxy.rs forward_request).  *)
OwnCredential ==
  \A m \in sent :
    /\ [url |-> m.url, credential |-> m.credential] \in Providers
    /\ m.credential # None <=> m.auth # None
    /\ "authorization" \notin m.headers

(* A rotated credential is used at once: the key a provider sees is one    *)
(* that was stored under the very reference of the configuration while the *)
(* request was being handled, not one that was replaced or deleted before  *)
(* it came, and not one stored under another reference (keychain.rs and    *)
(* vault.rs resolve).                                                      *)
FreshCredential ==
  \A m \in sent : m.auth # None =>
    \E v \in held[m.request] \ {None} : m.auth = CleanKey(v)

(* Nothing goes to an address that violates the endpoint policy, although  *)
(* --upstream is not checked when the proxy starts (config.rs              *)
(* validate_endpoint, proxy.rs build_target_url).                          *)
OnlyGoodEndpoints == \A m \in sent : m.url \in GoodUrls

(* The invariant behind them: where a routed request goes, and that its    *)
(* credential has been watched since.                                      *)
Headers == UNION {a.headers : a \in Arrivals}

Routed ==
  {[pc |-> "routed", url |-> p.url, credential |-> p.credential, headers |-> hs] :
     p \in Providers, hs \in SUBSET (Headers \ {"authorization"})}

HandlersOK ==
  /\ handler \in [Request -> {Idle, [pc |-> "failed"], [pc |-> "sent"]} \cup Routed]
  /\ \A r \in Request : handler[r].pc = "routed" => handler[r].url \in GoodUrls
  /\ proxy \in {"loaded", "up"} => upstream = DefaultUpstream

HeldOK ==
  /\ held = [r \in Request |-> held[r]]
  /\ \A r \in Request : handler[r].pc = "routed" /\ handler[r].credential # None =>
       Meant(handler[r].credential) \in held[r]

SentOK == \A m \in sent : m.request \in Request /\ handler[m.request].pc \in {"sent", "failed"}

IInv ==
  /\ StoresOK /\ HandlersOK /\ HeldOK /\ SentOK
  /\ OwnCredential /\ FreshCredential /\ OnlyGoodEndpoints

-----------------------------------------------------------------------------
(* Stated by a document or a comment, and not kept by the code: no run     *)
(* expects these to hold (README.md, section 5).                           *)

(* proxy.rs: "Strip transfer-encoding and remaining hop-by-hop headers".   *)
NoHopByHop ==
  \A m \in sent : {"connection", "keep-alive", "te-list"} \cap m.headers = {}
=============================================================================
