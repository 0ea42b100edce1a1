------------------------- MODULE ProxyForwardProofs -------------------------
(***************************************************************************)
(* ProxyForward keeps its properties for every configuration, every set of *)
(* stores and any number of requests.  A handler that is about to send has *)
(* chosen a provider of the configuration, and whatever its credential has *)
(* meant since is on record; an account holds what was stored under its    *)
(* one reference, so that what resolves is what is meant.  At the end, the *)
(* theorems of RateLimiter.                                                *)
(***************************************************************************)
EXTENDS ProxyForward, RateLimiter, TLAPS

-----------------------------------------------------------------------------
(* The stores.                                                             *)

LEMMA OneAccountEach ==
  ASSUME NEW x \in KeychainRefs, NEW y \in KeychainRefs, Account(x) = Account(y)
  PROVE  x = y
BY KeychainRefsAreRefs DEF Account

LEMMA KeychainScheme ==
  ASSUME NEW ref \in KeychainRefs
  PROVE  ref.scheme = "keychain"
BY KeychainRefsAreRefs DEF Ref

LEMMA ResolvesAsMeant ==
  ASSUME StoresOK, NEW ref, Resolve(ref) # None
  PROVE  Resolve(ref) = Meant(ref)
<1>1. ref.scheme \in registered /\ registered \subseteq {"env", "keychain", "vault"}
  BY DEF Resolve, StoresOK
<1>2. CASE ref.scheme = "env"
  <2>1. Resolve(ref) = FromEnvironment(ref)
    BY <1>1, <1>2 DEF Resolve
  <2>2. ref \notin KeychainRefs
    BY <1>2, KeychainScheme
  <2> QED
    BY <1>2, <2>1, <2>2 DEF Meant
<1>3. CASE ref.scheme = "keychain"
  <2>1. Resolve(ref) = FromKeychain(ref)
    BY <1>1, <1>3 DEF Resolve
  <2>2. ref \in KeychainRefs /\ Resolve(ref) = keychain[Account(ref)]
    BY <2>1 DEF FromKeychain
  <2>3. Resolve(ref) = stored[ref]
    BY <2>2 DEF StoresOK
  <2>4. Meant(ref) = stored[ref]
    BY <2>2, <1>3 DEF Meant
  <2> QED
    BY <2>3, <2>4
<1>4. CASE ref.scheme = "vault"
  <2>1. Resolve(ref) = FromVault(ref)
    BY <1>1, <1>4 DEF Resolve
  <2>2. InVault(ref) /\ Resolve(ref) = vault.entries[ref.path][ref.field]
    BY <2>1 DEF FromVault
  <2>3. ref \notin KeychainRefs
    BY <1>4, KeychainScheme
  <2> QED
    BY <1>4, <2>2, <2>3 DEF Meant
<1> QED
  BY <1>1, <1>2, <1>3, <1>4

LEMMA StoresChangeKeeps ==
  ASSUME StoresOK, StoresChange
  PROVE  StoresOK'
<1>1. ASSUME KeychainSet PROVE StoresOK'
  <2>1. PICK ref \in KeychainRefs, v \in Value :
          /\ keychain' = [keychain EXCEPT ![Account(ref)] = v]
          /\ stored' = [stored EXCEPT ![ref] = v]
    BY <1>1 DEF KeychainSet
  <2>2. \A x \in KeychainRefs : Account(x) \in Accounts
    BY DEF Accounts
  <2>3. \A x \in KeychainRefs : keychain'[Account(x)] = stored'[x]
    BY <2>1, <2>2, OneAccountEach DEF StoresOK
  <2> QED
    BY <1>1, <2>1, <2>3 DEF StoresOK, KeychainSet
<1>2. ASSUME KeychainDelete PROVE StoresOK'
  <2>1. PICK ref \in KeychainRefs :
          /\ keychain' = [keychain EXCEPT ![Account(ref)] = None]
          /\ stored' = [stored EXCEPT ![ref] = None]
    BY <1>2 DEF KeychainDelete
  <2>2. \A x \in KeychainRefs : Account(x) \in Accounts
    BY DEF Accounts
  <2>3. \A x \in KeychainRefs : keychain'[Account(x)] = stored'[x]
    BY <2>1, <2>2, OneAccountEach DEF StoresOK
  <2> QED
    BY <1>2, <2>1, <2>3 DEF StoresOK, KeychainDelete
<1>3. ASSUME VaultWrite PROVE StoresOK'
  BY <1>3 DEF StoresOK, VaultWrite
<1> QED
  BY <1>1, <1>2, <1>3 DEF StoresChange

-----------------------------------------------------------------------------
(* Where a request goes.                                                   *)

LEMMA ChoiceIsAProvider ==
  ASSUME NEW a \in Arrivals, upstream = DefaultUpstream
  PROVE  \E p \in Providers : Choice(a).url = p.url /\ Choice(a).credential = p.credential
<1>1. [url |-> DefaultUpstream, credential |-> None] \in Providers
  BY DEF Providers
<1>2. Plain.url = DefaultUpstream /\ Plain.credential = None
  BY DEF Plain
<1>3. \E p \in Providers : Plain.url = p.url /\ Plain.credential = p.credential
  BY <1>1, <1>2
<1>4. \E p \in Providers : ByAlias(a).url = p.url /\ ByAlias(a).credential = p.credential
  <2>1. CASE a.alias \in DOMAIN Routes
    <3>1. a.alias \in DOMAIN config.routes
      BY <2>1 DEF Routes
    <3>2. [url |-> Routes[a.alias].url, credential |-> Routes[a.alias].credential] \in Providers
      BY <3>1 DEF Providers
    <3>3. ByAlias(a) = [url |-> Routes[a.alias].url, credential |-> Routes[a.alias].credential]
      BY <2>1 DEF ByAlias
    <3> QED
      BY <3>2, <3>3
  <2>2. CASE a.alias \notin DOMAIN Routes
    BY <1>3, <2>2 DEF ByAlias
  <2> QED
    BY <2>1, <2>2
<1>5. \E p \in Providers : ByBalancer(a).url = p.url /\ ByBalancer(a).credential = p.credential
  <2>1. PICK name \in {"fast", "smart"} :
          ByBalancer(a) = [url |-> Tier(name).url, credential |-> Tier(name).credential]
    BY DEF ByBalancer
  <2>2. [url |-> Tier(name).url, credential |-> Tier(name).credential] \in Providers
    BY DEF Providers
  <2> QED
    BY <2>1, <2>2
<1> QED
  BY <1>3, <1>4, <1>5, Zenon DEF Choice

-----------------------------------------------------------------------------
LEMMA InitHolds == Init => IInv
<1> SUFFICES ASSUME Init PROVE IInv
  OBVIOUS
<1>1. StoresOK
  <2>1. \A ref \in KeychainRefs : Account(ref) \in Accounts
    BY DEF Accounts
  <2> QED
    BY <2>1 DEF Init, StoresInit, StoresOK
<1>2. HandlersOK
  BY DEF Init, HandlersOK, Idle
<1>3. HeldOK
  BY DEF Init, HeldOK, Idle
<1>4. SentOK /\ OwnCredential /\ FreshCredential /\ OnlyGoodEndpoints
  BY DEF Init, SentOK, OwnCredential, FreshCredential, OnlyGoodEndpoints
<1> QED
  BY <1>1, <1>2, <1>3, <1>4 DEF IInv

(* The configuration and the command line stay, and so do the providers.   *)
LEMMA ProvidersStay ==
  ASSUME UNCHANGED <<config, cli>>
  PROVE  Providers' = Providers /\ Routed' = Routed /\ DefaultUpstream' = DefaultUpstream
<1>1. DefaultUpstream' = DefaultUpstream
  BY DEF DefaultUpstream
<1>2. Providers' = Providers
  BY <1>1 DEF Providers, Routes, Tier
<1> QED
  BY <1>1, <1>2 DEF Routed

(* What was sent is as it was while nothing of it changes.                 *)
LEMMA SentStays ==
  ASSUME IInv, UNCHANGED <<config, cli, held, sent>>
  PROVE  OwnCredential' /\ FreshCredential' /\ OnlyGoodEndpoints'
<1>1. OwnCredential'
  BY ProvidersStay DEF IInv, OwnCredential
<1> QED
  BY <1>1 DEF IInv, FreshCredential, OnlyGoodEndpoints

(* The start and the end of the proxy.                                     *)
LEMMA StartKeeps ==
  ASSUME IInv, LoadConfig \/ Assemble
  PROVE  IInv'
<1>1. UNCHANGED <<keychain, stored, vault, config, cli, handler, held, sent>>
  BY DEF LoadConfig, Assemble
<1>2. StoresOK'
  <2>1. registered' \subseteq {"env", "keychain", "vault"}
    BY DEF LoadConfig, Assemble, IInv, StoresOK
  <2> QED
    BY <1>1, <2>1 DEF IInv, StoresOK
<1>3. HandlersOK'
  <2>1. proxy' \in {"loaded", "up"} => upstream' = DefaultUpstream
    BY DEF LoadConfig, Assemble, IInv, HandlersOK
  <2> QED
    BY <1>1, <2>1, ProvidersStay DEF IInv, HandlersOK
<1>4. HeldOK'
  BY <1>1 DEF IInv, HeldOK, Meant, InVault
<1>5. SentOK'
  BY <1>1 DEF IInv, SentOK
<1> QED
  BY <1>1, <1>2, <1>3, <1>4, <1>5, SentStays DEF IInv

LEMMA StopKeeps ==
  ASSUME IInv, Stop
  PROVE  IInv'
<1>1. \A r \in Request : handler'[r] = IF handler[r] = Idle THEN Idle ELSE [pc |-> "failed"]
  BY DEF Stop
<1>2. StoresOK'
  BY DEF IInv, StoresOK, Stop
<1>3. HandlersOK'
  <2>1. handler' \in [Request -> {Idle, [pc |-> "failed"], [pc |-> "sent"]} \cup Routed]
    BY DEF Stop
  <2> QED
    BY <1>1, <2>1, ProvidersStay DEF Stop, HandlersOK, Idle
<1>4. HeldOK'
  BY <1>1 DEF IInv, HeldOK, Stop, Idle
<1>5. SentOK'
  BY <1>1 DEF IInv, SentOK, Stop, Idle
<1> QED
  BY <1>2, <1>3, <1>4, <1>5, SentStays DEF IInv, Stop

(* A handler that ends without sending.                                    *)
LEMMA FailKeeps ==
  ASSUME IInv, NEW r \in Request, Refuse(r) \/ FailCredential(r)
  PROVE  IInv'
<1>1. /\ handler' = [handler EXCEPT ![r] = [pc |-> "failed"]]
      /\ UNCHANGED <<storeVars, config, cli, proxy, upstream, held, sent>>
  BY DEF Refuse, FailCredential
<1>2. StoresOK'
  BY <1>1 DEF IInv, StoresOK, storeVars
<1>3. HandlersOK'
  BY <1>1, ProvidersStay DEF IInv, HandlersOK
<1>4. HeldOK'
  BY <1>1 DEF IInv, HeldOK, HandlersOK, Meant, InVault, storeVars
<1>5. SentOK'
  BY <1>1 DEF IInv, SentOK, HandlersOK
<1> QED
  BY <1>1, <1>2, <1>3, <1>4, <1>5, SentStays DEF IInv

LEMMA RouteKeeps ==
  ASSUME IInv, NEW r \in Request, NEW a \in Arrivals, Route(r, a)
  PROVE  IInv'
<1> DEFINE to == Choice(a)
<1>1. PICK p \in Providers : to.url = p.url /\ to.credential = p.credential
  BY ChoiceIsAProvider DEF Route, IInv, HandlersOK
<1>2. /\ handler[r] = Idle
      /\ handler' = [handler EXCEPT ![r] =
           IF BuildTargetUrl(to.url)
             THEN [pc |-> "routed", url |-> to.url, credential |-> to.credential,
                   headers |-> PassedOn(a.headers)]
             ELSE [pc |-> "failed"]]
      /\ held' = [held EXCEPT ![r] = IF to.credential = None THEN {} ELSE {Meant(to.credential)}]
      /\ UNCHANGED <<storeVars, config, cli, proxy, upstream, sent>>
  BY DEF Route
<1> HIDE DEF to
<1>3. StoresOK'
  BY <1>2 DEF IInv, StoresOK, storeVars
<1>4. handler'[r] \in {[pc |-> "failed"]} \cup Routed /\ (handler'[r].pc = "routed" => handler'[r].url \in GoodUrls)
  <2>1. PassedOn(a.headers) \in SUBSET (Headers \ {"authorization"})
    BY DEF PassedOn, SanitizeHeaders, Headers
  <2>2. handler'[r] = IF BuildTargetUrl(to.url)
                        THEN [pc |-> "routed", url |-> p.url, credential |-> p.credential,
                              headers |-> PassedOn(a.headers)]
                        ELSE [pc |-> "failed"]
    BY <1>1, <1>2 DEF IInv, HandlersOK
  <2>3. CASE BuildTargetUrl(to.url)
    <3>1. handler'[r] \in Routed
      BY <2>1, <2>2, <2>3 DEF Routed
    <3>2. handler'[r].url \in GoodUrls
      BY <1>1, <2>2, <2>3 DEF BuildTargetUrl, ValidEndpoint
    <3> QED
      BY <3>1, <3>2
  <2>4. CASE ~BuildTargetUrl(to.url)
    BY <2>2, <2>4
  <2> QED
    BY <2>3, <2>4
<1>5. HandlersOK'
  <2>1. handler' \in [Request -> {Idle, [pc |-> "failed"], [pc |-> "sent"]} \cup Routed]
    BY <1>2, <1>4 DEF IInv, HandlersOK
  <2>2. \A x \in Request : handler'[x].pc = "routed" => handler'[x].url \in GoodUrls
    BY <1>2, <1>4 DEF IInv, HandlersOK
  <2> QED
    BY <1>2, <2>1, <2>2, ProvidersStay DEF IInv, HandlersOK
<1>6. HeldOK'
  <2>1. \A ref : Meant(ref)' = Meant(ref)
    BY <1>2 DEF Meant, InVault, storeVars
  <2>2. handler'[r].pc = "routed" => handler'[r].credential = to.credential
    BY <1>2 DEF IInv, HandlersOK
  <2>3. handler'[r].pc = "routed" /\ handler'[r].credential # None =>
          Meant(handler'[r].credential) \in held'[r]
    BY <1>2, <2>2 DEF IInv, HeldOK
  <2>4. held' = [x \in Request |-> held'[x]]
    BY <1>2 DEF IInv, HeldOK
  <2>5. \A x \in Request : x # r => handler'[x] = handler[x] /\ held'[x] = held[x]
    BY <1>2 DEF IInv, HeldOK, HandlersOK
  <2> QED
    BY <2>1, <2>3, <2>4, <2>5 DEF IInv, HeldOK
<1>7. \A m \in sent : m.request \in Request /\ m.request # r
  BY <1>2 DEF IInv, SentOK, Idle
<1>8. SentOK'
  BY <1>2, <1>7 DEF IInv, SentOK, HandlersOK
<1>9. FreshCredential'
  BY <1>2, <1>7 DEF IInv, FreshCredential, HeldOK
<1>10. OwnCredential' /\ OnlyGoodEndpoints'
  BY <1>2, ProvidersStay DEF IInv, OwnCredential, OnlyGoodEndpoints
<1> QED
  BY <1>3, <1>5, <1>6, <1>8, <1>9, <1>10 DEF IInv

LEMMA SendKeeps ==
  ASSUME IInv, NEW r \in Request, Send(r)
  PROVE  IInv'
<1> DEFINE h == handler[r]
           m0 == [request |-> r, url |-> h.url, credential |-> h.credential,
                  auth |-> Authorization(r), headers |-> h.headers]
<1>1. /\ h.pc = "routed" /\ sent' = sent \cup {m0}
      /\ handler' = [handler EXCEPT ![r] = [pc |-> "sent"]]
      /\ UNCHANGED <<storeVars, config, cli, proxy, upstream, held>>
  BY DEF Send
<1>2. h \in Routed
  BY <1>1 DEF IInv, HandlersOK, Idle
<1>3. StoresOK'
  BY <1>1 DEF IInv, StoresOK, storeVars
<1>4. HandlersOK'
  BY <1>1, ProvidersStay DEF IInv, HandlersOK
<1>5. HeldOK'
  BY <1>1 DEF IInv, HeldOK, HandlersOK, Meant, InVault, storeVars
<1>6. SentOK'
  BY <1>1 DEF IInv, SentOK, HandlersOK
<1>7. /\ [url |-> m0.url, credential |-> m0.credential] \in Providers
      /\ "authorization" \notin m0.headers
  <2>1. PICK p \in Providers, hs \in SUBSET (Headers \ {"authorization"}) :
          h = [pc |-> "routed", url |-> p.url, credential |-> p.credential, headers |-> hs]
    BY <1>2 DEF Routed
  <2>2. p = [url |-> p.url, credential |-> p.credential]
    BY DEF Providers
  <2> QED
    BY <2>1, <2>2
<1>8. m0.credential # None <=> m0.auth # None
  BY DEF Send, Unusable, Authorization
<1>9. m0.auth # None => \E v \in held[r] \ {None} : m0.auth = CleanKey(v)
  <2> SUFFICES ASSUME Authorization(r) # None
               PROVE  \E v \in held[r] \ {None} : Authorization(r) = CleanKey(v)
    OBVIOUS
  <2>1. h.credential # None /\ Authorization(r) = Bearer(Resolve(h.credential))
    BY DEF Authorization
  <2>2. Resolve(h.credential) # None /\ Authorization(r) = CleanKey(Resolve(h.credential))
    BY <2>1 DEF Bearer
  <2>3. Resolve(h.credential) = Meant(h.credential)
    BY <2>2, ResolvesAsMeant DEF IInv
  <2>4. Meant(h.credential) \in held[r]
    BY <1>1, <2>1 DEF IInv, HeldOK
  <2> QED
    BY <2>2, <2>3, <2>4
<1>10. m0.url \in GoodUrls
  BY <1>1 DEF IInv, HandlersOK
<1> HIDE DEF h
<1>11. OwnCredential'
  <2>1. \A m \in sent' : /\ [url |-> m.url, credential |-> m.credential] \in Providers
                         /\ m.credential # None <=> m.auth # None
                         /\ "authorization" \notin m.headers
    BY <1>1, <1>7, <1>8 DEF IInv, OwnCredential
  <2> QED
    BY <1>1, <2>1, ProvidersStay DEF OwnCredential
<1>12. FreshCredential'
  BY <1>1, <1>9 DEF IInv, FreshCredential
<1>13. OnlyGoodEndpoints'
  BY <1>1, <1>10 DEF IInv, OnlyGoodEndpoints
<1> QED
  BY <1>3, <1>4, <1>5, <1>6, <1>11, <1>12, <1>13 DEF IInv

(* Whatever people store, the record of a routed request keeps up with it. *)
LEMMA RotateKeeps ==
  ASSUME IInv, Rotate
  PROVE  IInv'
<1>1. /\ UNCHANGED <<config, cli, proxy, upstream, handler, sent>>
      /\ held' = [r \in Request |->
           IF handler[r].pc = "routed" /\ handler[r].credential # None
             THEN held[r] \cup {Meant(handler[r].credential)'} ELSE held[r]]
  BY DEF Rotate
<1>2. StoresOK'
  BY StoresChangeKeeps DEF Rotate, IInv
<1>3. HandlersOK'
  BY <1>1, ProvidersStay DEF IInv, HandlersOK
<1>4. HeldOK'
  <2>1. ASSUME NEW r \in Request, handler'[r].pc = "routed", handler'[r].credential # None
        PROVE  Meant(handler[r].credential)' \in held'[r]
    BY <1>1, <2>1
  <2> QED
    BY <1>1, <2>1 DEF HeldOK
<1>5. SentOK'
  BY <1>1 DEF IInv, SentOK
<1>6. FreshCredential'
  <2>1. \A r \in Request : held[r] \subseteq held'[r]
    BY <1>1
  <2>2. \A m \in sent : m.request \in Request
    BY DEF IInv, SentOK
  <2> QED
    BY <1>1, <2>1, <2>2 DEF IInv, FreshCredential
<1>7. OwnCredential' /\ OnlyGoodEndpoints'
  BY <1>1, ProvidersStay DEF IInv, OwnCredential, OnlyGoodEndpoints
<1> QED
  BY <1>2, <1>3, <1>4, <1>5, <1>6, <1>7 DEF IInv

-----------------------------------------------------------------------------
(* The invariant of every reachable state (server.rs handler, proxy.rs     *)
(* forward_request, secrets).                                              *)
THEOREM Invariance == Spec => []IInv
<1>1. Init => IInv
  BY InitHolds
<1>2. IInv /\ [Next]_vars => IInv'
  <2> SUFFICES ASSUME IInv, [Next]_vars PROVE IInv'
    OBVIOUS
  <2>1. ASSUME LoadConfig \/ Assemble PROVE IInv'
    BY <2>1, StartKeeps
  <2>2. ASSUME Stop PROVE IInv'
    BY <2>2, StopKeeps
  <2>3. ASSUME Rotate PROVE IInv'
    BY <2>3, RotateKeeps
  <2>4. ASSUME NEW r \in Request, Refuse(r) \/ FailCredential(r) PROVE IInv'
    BY <2>4, FailKeeps
  <2>5. ASSUME NEW r \in Request, Send(r) PROVE IInv'
    BY <2>5, SendKeeps
  <2>6. ASSUME NEW r \in Request, NEW a \in Arrivals, Route(r, a) PROVE IInv'
    BY <2>6, RouteKeeps
  <2>7. CASE UNCHANGED vars
    <3>1. UNCHANGED <<keychain, stored, vault, registered, config, cli, proxy, upstream, handler, held, sent>>
      BY <2>7 DEF vars, storeVars
    <3>2. StoresOK' /\ SentOK'
      BY <3>1 DEF IInv, StoresOK, SentOK
    <3>3. HandlersOK'
      BY <3>1, ProvidersStay DEF IInv, HandlersOK
    <3>4. HeldOK'
      BY <3>1 DEF IInv, HeldOK, Meant, InVault
    <3> QED
      BY <3>1, <3>2, <3>3, <3>4, SentStays DEF IInv
  <2> QED
    BY <2>1, <2>2, <2>3, <2>4, <2>5, <2>6, <2>7 DEF Next
<1> QED
  BY <1>1, <1>2, PTL DEF Spec

(* A provider gets its own credential or none (server.rs handler, proxy.rs *)
(* forward_request).                                                       *)
THEOREM OwnCredentialHolds == Spec => []OwnCredential
<1>1. IInv => OwnCredential
  BY DEF IInv
<1> QED
  BY <1>1, Invariance, PTL

(* The key a provider sees was stored under its reference while the        *)
(* request was handled (keychain.rs and vault.rs resolve).                 *)
THEOREM FreshCredentialHolds == Spec => []FreshCredential
<1>1. IInv => FreshCredential
  BY DEF IInv
<1> QED
  BY <1>1, Invariance, PTL

(* Nothing goes to an address that violates the endpoint policy (proxy.rs  *)
(* build_target_url).                                                      *)
THEOREM OnlyGoodEndpointsHolds == Spec => []OnlyGoodEndpoints
<1>1. IInv => OnlyGoodEndpoints
  BY DEF IInv
<1> QED
  BY <1>1, Invariance, PTL

-----------------------------------------------------------------------------
(* Before any of this, the handler asks the rate limiter (RateLimiter).    *)
(* What it grants is held against an ideal bucket, for every set of        *)
(* addresses, every rate and every clock.                                  *)


USE DEF Lesser, Full, Age

-----------------------------------------------------------------------------
(* Arithmetic.                                                             *)

(* What whole-number division leaves.                                      *)
LEMMA LimiterDivision ==
  ASSUME NEW x \in Nat, NEW m \in Nat \ {0}
  PROVE  /\ x \div m \in Nat
         /\ (x \div m) * m <= x
         /\ x < (x \div m) * m + m
BY SMTT(30)

(* A product of natural numbers is one, and grows with its factors.        *)
LEMMA LimiterProducts ==
  ASSUME NEW a \in Nat, NEW b \in Nat, NEW m \in Nat
  PROVE  /\ a * m \in Nat
         /\ a <= b => a * m <= b * m
         /\ a * m < b * m => a < b
<1>1. a * m \in Nat /\ (b - a) * m = b * m - a * m
  BY SMTT(30)
<1>2. ASSUME a <= b PROVE a * m <= b * m
  <2>1. b - a \in Nat
    BY <1>2
  <2>2. (b - a) * m \in Nat
    BY <2>1, SMTT(30)
  <2> QED BY <1>1, <2>2, SMTT(30)
<1>3. ASSUME a * m < b * m, b <= a PROVE FALSE
  <2>1. a - b \in Nat
    BY <1>3
  <2>2. (a - b) * m \in Nat /\ (a - b) * m = a * m - b * m
    BY <2>1, SMTT(30)
  <2> QED BY <1>3, <2>2, SMTT(30)
<1> QED BY <1>1, <1>2, <1>3

-----------------------------------------------------------------------------
(* The refill.                                                             *)

(* The tokens a refill adds are worth no more than the time that passed,   *)
(* and less than one token is left over.                                   *)
LEMMA LimiterRefillExact ==
  ASSUME LimiterTypeOK, NEW ip \in Ip
  PROVE  /\ Age(ip) \in Nat /\ Age(ip) * Rpm \in Nat
         /\ NewTokens(ip) \in Nat
         /\ NewTokens(ip) * Minute <= Age(ip) * Rpm
         /\ Age(ip) * Rpm < NewTokens(ip) * Minute + Minute
<1>1. Age(ip) \in Nat
  BY DEF LimiterTypeOK
<1>2. Age(ip) * Rpm \in Nat
  BY <1>1, RateAssumption, LimiterProducts
<1> QED BY <1>1, <1>2, RateAssumption, LimiterDivision DEF NewTokens

(* A check finds a bucket of a valid size, and a refill time of its own.   *)
LEMMA LimiterCheckTyped ==
  ASSUME LimiterTypeOK, NEW ip \in Ip
  PROVE  /\ Available(ip) \in 0 .. Rpm
         /\ RefilledAt(ip) \in Nat /\ RefilledAt(ip) <= now
BY LimiterRefillExact, RateAssumption DEF LimiterTypeOK, Available, RefilledAt

(* What a check finds is covered by the ideal bucket, together with what   *)
(* has accrued since the refill the check leaves behind.                   *)
LEMMA LimiterCreditCovers ==
  ASSUME LimiterTypeOK, NeverAhead, NEW ip \in Ip
  PROVE  credit[ip] >= Available(ip) * Minute + (now - RefilledAt(ip)) * Rpm
<1>1. Available(ip) * Minute <= Full
  BY LimiterCheckTyped, RateAssumption, LimiterProducts
<1>2. CASE ip \notin kept
  <2>1. RefilledAt(ip) = now /\ credit[ip] = Full
    BY <1>2 DEF RefilledAt, NeverAhead
  <2>2. (now - now) * Rpm = 0 /\ Available(ip) * Minute \in Nat
    BY LimiterCheckTyped, RateAssumption, LimiterProducts, SMTT(30) DEF LimiterTypeOK
  <2> QED BY <1>1, <2>1, <2>2, RateAssumption DEF LimiterTypeOK
<1>3. CASE ip \in kept /\ NewTokens(ip) = 0
  <2>1. RefilledAt(ip) = lastRefill[ip] /\ Available(ip) = tokens[ip] /\ tokens[ip] + 1 <= Rpm
    BY <1>3, RateAssumption DEF RefilledAt, Available, LimiterTypeOK
  <2>2. Age(ip) * Rpm < Minute
    <3>1. NewTokens(ip) * Minute = 0
      BY <1>3, RateAssumption, SMTT(30)
    <3> QED BY <3>1, LimiterRefillExact, RateAssumption
  <2>3. (tokens[ip] + 1) * Minute <= Full
    BY <2>1, RateAssumption, LimiterProducts DEF LimiterTypeOK
  <2>4. (tokens[ip] + 1) * Minute = tokens[ip] * Minute + Minute
    BY RateAssumption, SMTT(30) DEF LimiterTypeOK
  <2>5. tokens[ip] * Minute \in Nat
    BY RateAssumption, LimiterProducts DEF LimiterTypeOK
  <2> QED BY <1>3, <2>1, <2>2, <2>3, <2>4, <2>5, RateAssumption, LimiterRefillExact
             DEF NeverAhead, LimiterTypeOK
<1>4. CASE ip \in kept /\ NewTokens(ip) # 0
  <2>1. RefilledAt(ip) = now
    BY <1>4 DEF RefilledAt
  <2>2. Available(ip) <= tokens[ip] + NewTokens(ip) /\ tokens[ip] + NewTokens(ip) \in Nat
    BY <1>4, LimiterRefillExact, RateAssumption DEF Available, LimiterTypeOK
  <2>3. Available(ip) * Minute <= (tokens[ip] + NewTokens(ip)) * Minute
    BY <2>2, LimiterCheckTyped, RateAssumption, LimiterProducts
  <2>4. (tokens[ip] + NewTokens(ip)) * Minute = tokens[ip] * Minute + NewTokens(ip) * Minute
    BY LimiterRefillExact, RateAssumption, SMTT(30) DEF LimiterTypeOK
  <2>5. tokens[ip] * Minute \in Nat /\ NewTokens(ip) * Minute \in Nat /\ Available(ip) * Minute \in Nat
    BY LimiterRefillExact, LimiterCheckTyped, RateAssumption, LimiterProducts
       DEF LimiterTypeOK
  <2>6. CASE credit[ip] = Full
    BY <1>1, <2>1, <2>5, <2>6, RateAssumption DEF LimiterTypeOK
  <2>7. CASE credit[ip] >= tokens[ip] * Minute + Age(ip) * Rpm
    BY <2>1, <2>3, <2>4, <2>5, <2>7, LimiterRefillExact, RateAssumption
       DEF LimiterTypeOK
  <2> QED BY <1>4, <2>6, <2>7 DEF NeverAhead
<1> QED BY <1>2, <1>3, <1>4

(* A bucket old enough to be dropped would have been full.                 *)
LEMMA LimiterIdleIsFull ==
  ASSUME LimiterTypeOK, NEW ip \in kept, IsIdle(ip)
  PROVE  Available(ip) = Rpm /\ Age(ip) * Rpm >= Full
<1>1. ip \in Ip /\ Age(ip) \in Nat /\ Minute <= Age(ip)
  BY RateAssumption, PruneAssumption DEF LimiterTypeOK, IsIdle
<1>2. Minute * Rpm <= Age(ip) * Rpm /\ Minute * Rpm = Full
  BY <1>1, RateAssumption, LimiterProducts, SMTT(30)
<1>3. Rpm * Minute < (NewTokens(ip) + 1) * Minute
  <2>1. (NewTokens(ip) + 1) * Minute = NewTokens(ip) * Minute + Minute
    BY <1>1, LimiterRefillExact, RateAssumption, SMTT(30)
  <2> QED BY <1>1, <1>2, <2>1, LimiterRefillExact, RateAssumption
<1>4. Rpm < NewTokens(ip) + 1
  BY <1>1, <1>3, LimiterRefillExact, RateAssumption, LimiterProducts
<1> QED BY <1>1, <1>2, <1>4, LimiterRefillExact, RateAssumption DEF Available,
           LimiterTypeOK

-----------------------------------------------------------------------------
(* The inductive invariant.                                                *)

(* The limiter starts without buckets, every ideal one full.               *)
LEMMA LimiterInitHolds == LimiterInit => LimiterInv
<1> SUFFICES ASSUME LimiterInit PROVE LimiterInv
  OBVIOUS
<1>1. Full \in Nat
  BY RateAssumption, LimiterProducts
<1>2. LimiterTypeOK
  BY <1>1, RateAssumption DEF LimiterInit, LimiterTypeOK
<1> QED BY <1>1, <1>2 DEF LimiterInit, LimiterInv, NeverAhead, RefillsServe,
           PollingNotStarved

(* Types survive every step: a check that lets a request through takes a   *)
(* token, one that refuses leaves none.                                    *)
LEMMA LimiterTypeStep == LimiterInv /\ [LimiterNext]_limiterVars => LimiterTypeOK'
<1> SUFFICES ASSUME LimiterInv, [LimiterNext]_limiterVars PROVE LimiterTypeOK'
  OBVIOUS
<1> USE DEF LimiterInv
<1>0. Full \in Nat /\ Minute \in Int /\ Rpm \in Nat
  BY RateAssumption, LimiterProducts
<1>1. ASSUME NEW ip \in Ip, Allow(ip) PROVE LimiterTypeOK'
  <2>1. Available(ip) - 1 \in 0 .. Rpm /\ Available(ip) - 1 < Rpm
    BY <1>1, LimiterCheckTyped, RateAssumption DEF Allow
  <2> QED BY <1>0, <1>1, <2>1, LimiterCheckTyped DEF Allow, Refill, LimiterTypeOK
<1>2. ASSUME NEW ip \in Ip, Deny(ip) PROVE LimiterTypeOK'
  BY <1>0, <1>2, LimiterCheckTyped, RateAssumption DEF Deny, Refill, LimiterTypeOK
<1>3. ASSUME Prune PROVE LimiterTypeOK'
  BY <1>3 DEF Prune, LimiterTypeOK
<1>4. ASSUME Tick PROVE LimiterTypeOK'
  BY <1>0, <1>4 DEF Tick, LimiterTypeOK
<1>5. ASSUME UNCHANGED limiterVars PROVE LimiterTypeOK'
  BY <1>5 DEF limiterVars, LimiterTypeOK
<1> QED BY <1>1, <1>2, <1>3, <1>4, <1>5 DEF LimiterNext

(* The bucket never gets ahead of the ideal one.  What a step does to one  *)
(* address is compared with the ideal bucket; the others are untouched.    *)
LEMMA LimiterNeverAheadStep == LimiterInv /\ [LimiterNext]_limiterVars => NeverAhead'
<1> SUFFICES ASSUME LimiterInv, [LimiterNext]_limiterVars, NEW q \in Ip
             PROVE  /\ credit'[q] <= Full
                    /\ q \in kept' => \/ credit'[q] = Full
                                      \/ credit'[q] >= tokens'[q] * Minute + (now' - lastRefill'[q]) * Rpm
                    /\ q \notin kept' => credit'[q] = Full
  BY DEF NeverAhead
<1> USE DEF LimiterInv
<1>0. Full \in Nat /\ Minute \in Nat \ {0} /\ Rpm \in Nat \ {0} /\ credit[q] \in Int
  BY RateAssumption, LimiterProducts DEF LimiterTypeOK
<1> DEFINE Covered == /\ credit'[q] <= Full
                      /\ q \in kept' => \/ credit'[q] = Full
                                        \/ credit'[q] >= tokens'[q] * Minute + (now' - lastRefill'[q]) * Rpm
                      /\ q \notin kept' => credit'[q] = Full
<1>1. ASSUME NEW ip \in Ip, Allow(ip) PROVE Covered
  <2>1. CASE q = ip
    <3>1. /\ credit'[q] = credit[q] - Minute /\ q \in kept' /\ now' = now
          /\ tokens'[q] = Available(q) - 1 /\ lastRefill'[q] = RefilledAt(q)
      BY <1>1, <2>1 DEF Allow, Refill, LimiterTypeOK
    <3>2. (Available(q) - 1) * Minute = Available(q) * Minute - Minute
      BY <1>0, LimiterCheckTyped, SMTT(30)
    <3>3. Available(q) * Minute \in Int /\ (now - RefilledAt(q)) * Rpm \in Int
      BY <1>0, LimiterCheckTyped, SMTT(30) DEF LimiterTypeOK
    <3>4. credit[q] <= Full
      BY DEF NeverAhead
    <3> QED BY <1>0, <3>1, <3>2, <3>3, <3>4, LimiterCreditCovers
  <2>2. CASE q # ip
    BY <1>1, <2>2 DEF Allow, Refill, LimiterTypeOK, NeverAhead
  <2> QED BY <2>1, <2>2
<1>2. ASSUME NEW ip \in Ip, Deny(ip) PROVE Covered
  <2>1. CASE q = ip
    <3>1. /\ credit'[q] = credit[q] /\ q \in kept' /\ now' = now
          /\ tokens'[q] = Available(q) /\ lastRefill'[q] = RefilledAt(q)
      BY <1>2, <2>1 DEF Deny, Refill, LimiterTypeOK
    <3>2. credit[q] <= Full
      BY DEF NeverAhead
    <3> QED BY <3>1, <3>2, LimiterCreditCovers
  <2>2. CASE q # ip
    BY <1>2, <2>2 DEF Deny, Refill, LimiterTypeOK, NeverAhead
  <2> QED BY <2>1, <2>2
<1>3. ASSUME Prune PROVE Covered
  <2>1. CASE q \in kept /\ IsIdle(q)
    <3>1. q \notin kept' /\ credit'[q] = credit[q]
      BY <1>3, <2>1 DEF Prune
    <3>2. Age(q) * Rpm >= Full /\ Age(q) * Rpm \in Nat /\ tokens[q] * Minute \in Nat
      BY <1>0, <2>1, LimiterIdleIsFull, LimiterRefillExact, LimiterProducts
         DEF LimiterTypeOK
    <3>3. credit[q] = Full
      BY <1>0, <2>1, <3>2 DEF NeverAhead
    <3> QED BY <1>0, <3>1, <3>3
  <2>2. CASE ~(q \in kept /\ IsIdle(q))
    BY <1>3, <2>2 DEF Prune, NeverAhead
  <2> QED BY <2>1, <2>2
<1>4. ASSUME Tick PROVE Covered
  <2>1. /\ credit'[q] = Lesser(credit[q] + Rpm, Full) /\ kept' = kept
        /\ tokens' = tokens /\ lastRefill' = lastRefill /\ now' = now + 1
    BY <1>4 DEF Tick
  <2>2. (now' - lastRefill'[q]) * Rpm = Age(q) * Rpm + Rpm
    BY <1>0, <2>1, SMTT(30) DEF LimiterTypeOK
  <2>3. Age(q) * Rpm \in Nat /\ tokens[q] * Minute \in Nat
    BY <1>0, LimiterRefillExact, LimiterProducts DEF LimiterTypeOK
  <2> QED BY <1>0, <2>1, <2>2, <2>3 DEF NeverAhead
<1>5. ASSUME UNCHANGED limiterVars PROVE Covered
  BY <1>5 DEF limiterVars, NeverAhead
<1> QED BY <1>1, <1>2, <1>3, <1>4, <1>5 DEF LimiterNext

(* Refills happen only in checks that let a request through, so what an    *)
(* address waits for is at most the rest of one token.                     *)
LEMMA LimiterServedStep == LimiterInv /\ [LimiterNext]_limiterVars => RefillsServe' /\ PollingNotStarved'
<1> SUFFICES ASSUME LimiterInv, [LimiterNext]_limiterVars PROVE RefillsServe' /\ PollingNotStarved'
  OBVIOUS
<1> USE DEF LimiterInv
<1>1. ASSUME NEW ip \in Ip, Allow(ip) PROVE RefillsServe' /\ PollingNotStarved'
  BY <1>1, LimiterCheckTyped DEF Allow, Refill, LimiterTypeOK, RefillsServe,
     PollingNotStarved
<1>2. ASSUME NEW ip \in Ip, Deny(ip) PROVE RefillsServe' /\ PollingNotStarved'
  <2>1. ip \in kept /\ NewTokens(ip) = 0
    BY <1>2, LimiterRefillExact, RateAssumption DEF Deny, Available, LimiterTypeOK
  <2>2. RefilledAt(ip) = lastRefill[ip]
    BY <2>1 DEF RefilledAt
  <2>3. Age(ip) * Rpm < Minute
    <3>1. NewTokens(ip) * Minute = 0
      BY <2>1, RateAssumption, SMTT(30)
    <3> QED BY <3>1, LimiterRefillExact, RateAssumption
  <2>4. (now - granted[ip]) * Rpm <= Age(ip) * Rpm
    <3>1. now - granted[ip] \in Nat /\ now - granted[ip] <= Age(ip)
      BY <2>1 DEF RefillsServe, LimiterTypeOK
    <3> QED BY <3>1, LimiterRefillExact, RateAssumption, LimiterProducts
  <2>5. (now - granted[ip]) * Rpm < Minute
    <3>1. (now - granted[ip]) * Rpm \in Int
      BY RateAssumption, SMTT(30) DEF LimiterTypeOK
    <3> QED BY <2>3, <2>4, <3>1, LimiterRefillExact, RateAssumption
  <2> QED BY <1>2, <2>1, <2>2, <2>5 DEF Deny, Refill, LimiterTypeOK, RefillsServe,
             PollingNotStarved
<1>3. ASSUME Prune PROVE RefillsServe' /\ PollingNotStarved'
  BY <1>3 DEF Prune, RefillsServe, PollingNotStarved
<1>4. ASSUME Tick PROVE RefillsServe' /\ PollingNotStarved'
  BY <1>4 DEF Tick, LimiterTypeOK, RefillsServe, PollingNotStarved
<1>5. ASSUME UNCHANGED limiterVars PROVE RefillsServe' /\ PollingNotStarved'
  BY <1>5 DEF limiterVars, RefillsServe, PollingNotStarved
<1> QED BY <1>1, <1>2, <1>3, <1>4, <1>5 DEF LimiterNext

(* The inductive invariant holds (try_consume, check, prune).              *)
THEOREM LimiterInvariance == LimiterSpec => []LimiterInv
<1>1. LimiterInv /\ [LimiterNext]_limiterVars => LimiterInv'
  BY LimiterTypeStep, LimiterNeverAheadStep, LimiterServedStep DEF LimiterInv
<1> QED BY LimiterInitHolds, <1>1, PTL DEF LimiterSpec

(* No address gets more than the ideal bucket gives (try_consume).         *)
THEOREM WithinBudgetHolds == LimiterSpec => []WithinBudget
<1>1. LimiterInv => WithinBudget
  <2> SUFFICES ASSUME LimiterInv, NEW ip \in Ip PROVE credit[ip] >= 0
    BY DEF WithinBudget
  <2>1. Full \in Nat
    BY RateAssumption, LimiterProducts
  <2>2. tokens[ip] * Minute \in Nat /\ Age(ip) * Rpm \in Nat
    BY RateAssumption, LimiterRefillExact, LimiterProducts DEF LimiterInv, LimiterTypeOK
  <2> QED BY <2>1, <2>2 DEF LimiterInv, NeverAhead, LimiterTypeOK
<1> QED BY <1>1, LimiterInvariance, PTL

(* A dropped bucket would have been full at the next check (prune).        *)
THEOREM PruneInvisibleHolds == LimiterSpec => PruneInvisible
<1>1. LimiterInv /\ [LimiterNext]_limiterVars => [\A ip \in kept \ kept' : Available(ip) = Rpm]_limiterVars
  <2> SUFFICES ASSUME LimiterInv, LimiterNext, NEW ip \in kept, ip \notin kept' PROVE Available(ip) = Rpm
    BY DEF limiterVars
  <2>1. Prune
    BY DEF LimiterNext, Allow, Deny, Refill, Tick
  <2> QED BY <2>1, LimiterIdleIsFull DEF LimiterInv, Prune
<1> QED BY <1>1, LimiterInvariance, PTL DEF LimiterSpec, PruneInvisible

(* Polling does not put off the refill (try_consume).                      *)
THEOREM PollingNotStarvedHolds == LimiterSpec => []PollingNotStarved
<1>1. LimiterInv => PollingNotStarved
  BY DEF LimiterInv
<1> QED BY <1>1, LimiterInvariance, PTL
=============================================================================
