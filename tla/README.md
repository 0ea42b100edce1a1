# Open-Guardian in TLA+

Open-Guardian sits between an AI agent and two things the agent must not reach
unsupervised: a model provider that must not see secrets, and privileged actions
that must not run without an operator. This directory specifies the parts of it
that keep state across steps, model-checks them on small instances with TLC, and
proves the central properties of each for all instances with TLAPS.

Paths below are relative to the repository (`src/broker/state.rs` is the Rust
module of that name).

## 1. The system

| Component | State it keeps | Operations | Correct when |
|---|---|---|---|
| **Action broker** `src/broker/{state,ipc,mod}.rs` | one mutex-protected table of requests, in memory; per handler: what it read before the lock was released | request, approve (code check, then state change, then log and spawn), deny, status (snapshot, then one-time delivery), sweep, restart | one decision per request; no execution without an approval; one reader per result; every effect on the audit chain before it is visible; nothing waits or stays in memory for ever |
| **`approve` command** `src/main.rs` `handle_approve` | its polling loop | approve, poll up to 40 times, print | what it prints is its own result; it is not told another outcome |
| **Action execution** `src/broker/execute.rs` | the child process, captured output | resolve secrets, run under a timeout, truncate, sanitise | all secrets or nothing runs; what leaves is sanitised; a timed-out child is gone |
| **Policy** `src/broker/policy.rs` | three files: policy, signature, pinned key | keygen, sign, load (verify, fingerprint, parse) | what runs was signed with the pinned key |
| **Audit chain** `src/security/audit_chain.rs` | a queue, the writer's number and hash, the file | log, append, resume, verify | a file that verifies is a history without gaps |
| **DLP engine, redaction session** `src/security/{dlp,normalizer}.rs` | compiled rules; per request the values taken out, with their positions | detect, redact one way, redact reversibly, restore | nothing detectable leaves; only a request's own values come back, and only where they were |
| **Field extraction** `src/pipeline/extract.rs` | none | collect the strings to scan, apply replacements | every string that can hold a secret is scanned |
| **Proxy handler and response path** `src/{server,proxy}.rs` | per request: body, session | block or redact, forward, inspect and restore the answer | as for the engine, for every shape of answer |
| **Rate limiter** `src/security/rate_limit.rs` | a bucket per address | check (lazy refill), prune | never above the configured rate; not below it for nothing |
| **Rule files and manifest** `src/security/integrity.rs`, `DlpEngine::build`, `build_router` | rules files, manifest, key in the environment | sign, load, verify | what runs is what was signed, once a key is set |
| **Context gateway** `src/context.rs` | two pumps over four bounded pipes, a child | sanitise every line downstream, copy upstream, wait, join, exit | every line arrives once, in order, sanitised; none is lost in the exit; the session ends when either side does |
| **Discovery, tokens, clients** `src/broker/{ipc,client,mcp}.rs` | two discovery files, two tokens per daemon; the endpoint a client was given | bind, write the files, end; connect, call | codes and decisions stay with the operator's token; a daemon serves its own tokens alone; what a file names is found as long as it lives |
| **Secrets** `src/secrets/*` | a registry filled at start, the vault's identity; keychain and vault of the machine | resolve, set, delete, replace the vault | a reference yields what was stored under it, now |
| **Configuration, routing, headers** `src/{config,router,proxy}.rs`, `src/security/smuggling.rs` | the configuration; per request an address, a reference and headers | check, migrate, start, route by alias and load, send | each provider gets its own credential or none; nothing goes to a bad address |
| Benchmark, logging, banner, directory audit | none worth a model | | |

How they interact:

- The **agent** talks HTTP with a token to the broker (through the MCP tools or
  the client) and to the proxy. The **operator** talks to the broker with the
  admin token. Handlers of one daemon run concurrently as tokio tasks; they share
  the table (a mutex that is held for one call of the store at a time), the audit
  chain (a queue nobody waits on) and the engine (read-only).
- An approval **spawns** a detached task that runs the action, logs it and then
  completes the record. A **sweeper** task expires and drops records. Neither is
  joined; both vanish with the process.
- The **audit writer** is one task per process; its file outlives the process and
  is resumed by the next.
- **Files** (policy, signature, key, rules, manifest, discovery files, the vault) are
  shared between operators and processes without any lock, and are opened anew for
  each use.
- **Credentials** are looked up at the last moment before a request is sent, by the
  handler's own call into the registry; the keychain and the vault belong to the
  machine and change underneath.
- The **gateway** is a process between two others: the harness, whose standard
  streams it inherits, and the MCP server it starts, which may start more processes.
- The **provider** is the environment of the proxy: it may echo, repeat and mix
  what it was sent by any request.

What is hard here: handlers that act on what they read under an earlier lock;
deadlines that race with decisions; detached tasks whose results outlive (or do
not outlive) the record they belong to; a crash with events still queued; a failed
append after the writer has advanced; files replaced between two reads of one
start; rules that rewrite each other's output; rounding in a lazy refill; processes
that wait on each other through full pipes; a file of a dead daemon whose port
another one has; a line that one process begins and another ends; a credential that
changes between routing and sending.
`PROJECT.json` lists each such place under `hazards` with its line and the
properties that watch it.

## 2. Modules

| Module | Models | Composes |
|---|---|---|
| `OneShot` | abstract: the phases of one request and the moves between them | |
| `RequestBroker` | the request table, handlers, execution tasks, sweeper, restarts | implements `OneShot` (`Promise`, `PromiseKept`) |
| `ApproveCli` | the `approve` loop and a record of who took a result | EXTENDS `RequestBroker` |
| `BrokerDiscovery` | daemons' starts and ends, discovery files, roles, clients and the MCP server's session | |
| `AuditChain` | queue, writer, file, verify | |
| `Redaction` | operators: detection, both redactions, restoration | |
| `Egress` | a request through the proxy and its answer | EXTENDS `Redaction` |
| `ActionExecution` | one execution: secrets, command, timeout, result | EXTENDS `Redaction` |
| `RateLimiter` | buckets, prune, the ideal bucket beside them | |
| `PolicyLoad` | keygen, sign, load, edits | |
| `RuleIntegrity` | sign, the proxy's and the broker's start, edits | |
| `SecretStores` | registry, environment, keychain, vault, and people who change them | |
| `ProxyForward` | configuration, start, routing, headers, credentials | EXTENDS `SecretStores` |
| `LineFilter` | abstract: what becomes of the lines of an MCP server; what may stand for a line is its parameter `Stands` | |
| `ContextGateway` | pumps, pipes, the wrapped server and its helper, the harness | EXTENDS `Redaction`, implements `LineFilter` (`Filter`, `Filtered`) |
| `...Proofs` | theorems of the module they are named after and, in three of them, of a second one (section 4) | EXTEND the modules they are about |
| `MC...` | instances: definitions and symmetry for the configurations | EXTEND it |

A definition whose comment begins "Mutant of" is a faulty variant of the one that
follows it. No specification uses one: it is substituted to show that a property
does fail when the code is changed that way (`mutants` in `PROJECT.json`).

### RequestBroker

Each method of `RequestStore` takes the mutex once and is one atomic step. A
handler is cut wherever it releases the mutex:

| Code | Actions |
|---|---|
| `request_action`: insert; log | `Create`, `Announce` |
| `approve_request`: `code_of` and the comparison; `approve`; log and spawn | `ApproveCheck` or `ApproveReject`; `ApproveGrant` or `ApproveRefuse`; `ApproveSpawn` |
| `deny_request` | `Deny`, `DenyTooLate`, `DenyLog` |
| spawned task: execute and log; `complete` | `WorkReport`, `WorkComplete` |
| `request_status`: `snapshot`; `deliver`; log | `StatusSee`; `StatusTake` or `StatusAnswer`; `StatusDeliver` |
| sweeper: `sweep`; one event per expired request | `Sweep`, `SweepLog` |
| process end and start | `Restart` |

`store` is the table (`Record`: state, code, deadline, `purge_at`, delivered flag);
`approver` and `reader` are the local variables of running handlers; `work` is the
spawned task; `audit` counts the events of each kind about each request. Instants
are kept as the time left until them, so time needs no bound. `left` bounds how long
an execution takes (`RunLimit`): the action's `timeout_secs` and the scheduling
around it. Ids are drawn fresh.

The ideas behind the properties: `OneFate` (never approved twice, nor approved and
denied or expired), `AuditTrail` (delivered ≤ executed ≤ approved on record),
`ResultOnRecord` (who sees a result finds its event), `CodeGate` (the code is right
at the moment of the state change, although it was compared under an earlier lock),
`PromiseKept` (the refinement of `OneShot`).

### ApproveCli

The `approve` command is the client of whichever approve handler accepted it and, poll
by poll, of whichever status handler serves it (`cli.by`), beside everything else the
broker does: other operators, other status clients, the sweeper, a restart. `taker`
remembers which clients took each result.

### BrokerDiscovery

`Bind`, then `OpenFile` and `WriteFile` for the agent's and the operator's file, in the
order of `start`; opening empties the file. A daemon may `End` at any time and leaves its
files; its port is free for the next. `Connect` is `BrokerClient::admin` or `agent`: both
variables of the environment or the file as a whole. An operator may have copied addresses
and tokens into the environment earlier, one by one (`NoteUrl`, `NoteToken`): there is one
`GUARDIAN_BROKER_URL` for both channels and a token variable for each, so the address of
one daemon can stand beside the token of another, and a session says whether it came from
the environment or a file (`via`). `Call` reaches whichever daemon listens at the
session's address; `Role` and `Allowed` are `role_of` and the handlers' checks. A token is
the daemon that made it and its channel: random tokens do not collide. What is answered is
reduced to refused, answered, codes (the listing of pending requests) and decided.

### AuditChain

A hash is the history it commits to, so collisions do not exist. `Advance` is the
part of `append_line` that runs before the write; `Write`, `WriteFails`, `WriteTears`
are what becomes of the write. `WriteTears` covers a disk that fills or a kill in the
middle of a line: all of it but the newline, or something that is not JSON. `Open` is
`AuditChain::open` with `recover_tip`; `Exit` is the orderly end that does not wait
for the writer, `Crash` any other.

### Redaction and Egress

A text is a sequence of symbols. A symbol is a run of characters that a rule sees as
one thing; a placeholder is a symbol with its session and number. A rule is a sequence
of sets of names, with the offset of its secret group, what its entropy gate turns
down and its keywords. Normalisation (Unicode, case, URL and HTML decoding) is seen
from what it uncovers or hides: the map `Hidden`. `RedactAt`, `RedactPermanent`,
`RestoreAt` and `CheckViolations` follow the functions of those names: rules in order,
each over what the earlier ones left, the keyword prefilter over the original text.

`Egress` is the handler in block or in redact mode, chosen at the start:
`ArriveJson`/`ArriveNonJson`/`TurnAway`, then one action per extracted string (`Skip`,
`BlockViolation`, `BlockObfuscated`, `Redact`), `Forward`, and `Answer`, `BlockAnswer` or
`FailAnswer` for what the provider returned. The provider may echo the body under a
wrapper, may write any short text over what it ever saw from any request, as the model's
words, as text without structure or as the lines of an event stream, some of which carry
JSON. A pointer is a sequence of segments, and an object key is a text like any other: the
provider may write one, the answer's inspection transforms it first, and what is below it
goes on with the transformed key in its pointer (`Rekeyed`), so that a value is not restored
under a key that was rewritten. Two keys that become one fail the answer (`Collides`).

### ActionExecution

One execution, which `RequestBroker` has as a task that ends. `Resolve` binds the next
secret or `ResolveFails` ends the task; `Spawn` starts the command; `Collect`,
`CollectFails` and `Timeout` are the three outcomes of the wait. The command is a
process of its own, modelled from what the code lets it do: it writes to two pipes
what it was given (as it is, or as something that decoding uncovers) and words of its
own, it may start a process that inherits the pipes, exit, or hang. Nothing makes it
end. `DaemonStops` takes the task away and leaves the command. The texts go through
`Redaction`, after the cut. A command whose output is handed over in one piece or in
several is the same; `MaxWritten` bounds it.

### RateLimiter

One step per locked operation (`Allow`/`Deny` are `check` with `try_consume`;
`Prune`), and a clock. `credit` is the ideal bucket in fractions of a token:
`requests_per_minute` of capacity, refilled at every tick. It is history, no guard
reads it.

### PolicyLoad and RuleIntegrity

One action per access to a file. `fs::write` is two (truncated, written). A load or a
start is a process with a record of what it has read so far; the histories `signed`,
`edited`, `replaced`, `changed` say what was ever signed and whether anything moved
under the process. Signatures and HMACs are ideal: the content and the key they were
made from. `start.who` says whether the proxy or the broker starts; the broker asks for
its first rules file (`BrokerAsks`) and consults no manifest. A file may be there and not be
readable (a directory, no permission), or be readable and not be UTF-8: `sign` and the
verification read `Bytes`, the engine reads `Text` and skips the rest, and the broker's
question is only whether there is something.

### SecretStores and ProxyForward

`SecretStores` has what `SecretBroker` reaches. `Resolve` dispatches on the scheme;
`Account` is the keychain account of a reference, `InVault` a vault entry. `stored` is
history: what people put under each reference, whatever account it landed in, so that
`FreshCredential` compares what a provider got with what was meant.

`ProxyForward`: `LoadConfig` and `Assemble` are the start, `Refuse` a request turned away
for its headers, path, rate or text, `Route` a request accepted, inspected and given an
address, a reference and headers, `Send` and `FailCredential` what
`forward_request` does when it resolves the reference. `Rotate` runs at any time, between
`Route` and `Send` in particular. The score of the load balancer is its outcome, the tier.
`held` is history: what the reference of a request has meant since it was routed.

### ContextGateway

A pump is two steps per line, read and write, and blocks where the code blocks: on an
empty pipe to read, on a full one to write (`PipeCap`). The server is modelled from what
the gateway lets it do: answer, write unasked, start a helper that inherits its standard
output, end in three ways, die in the middle of a line, as its helper may. A line whose
writer died has no newline: what the other process writes next continues it (`Written`,
`Joined`), and the pump reads on until there is a newline or nobody left to write one
(`LineComplete`). The two together are no JSON. `MainWait` is `child.wait`, `MainExit` the
join of the downstream pump and the exit, with `status.code()` or zero. `SanitizeRpcLine`
redacts the values of a tool result, then looks at the serialized result, keys included,
as the normalizer leaves it, and replaces it as a whole when something is left. In the
serialized result a line break, a quote or a backslash is an escape sequence, whose letter
can take the place of the beginning of a word (`Escaped`). `LineFilter` states the outcome
alone: a line in its place, at most once, not before it is over, and one that `Stands` for
it, which `ContextGateway` defines. A line that is not a result stands for itself; of a
result, either the notice that it was withheld, or a line without finds as it is
serialized and in any string that needed no escape there, which is the line itself where
there was nothing to find.

## 3. Runs

Bounds are the constants of the `.cfg` files. A run that is expected to be violated
checks what a comment or a document says, and fails because of what the code does
(section 5).

| Run | Question | Bounds and why they are enough |
|---|---|---|
| `BrokerRace` | Do two operators, of whom one uses the polling CLI, two status clients, deny, sweep and a restart ever decide, run or deliver a request twice, or out of order on record? Is what the CLI's operator is shown true? | one id (the actions on different ids are independent but for the sweep), two handlers of each kind, two codes so that a wrong one exists, two polls, TTLs 1 and 2 with executions up to 3 so that records are swept before, during and after |
| `BrokerLive` | Does waiting end, is memory given back, is an approval answered, is the record there when a result arrives? Does the one thing that spans ids, the sweep (and the restart), ever mix them, is a forgotten id ever reborn? | two ids, one approve handler, TTLs of 1, one restart and before it one wrong code; `RunLimit = ResultTTL`, the condition of theorem `NoResultLost` at its limit; no status clients: what they leave in a record, its `delivered` flag, is read by their own handler alone, so they neither hold anything up nor take a record away (`BrokerRace` has two, and the theorem holds for any number); fairness is the daemon's only; no symmetry, because of the liveness properties |
| `Discovery` | Does a code reach an agent, does a daemon serve a token of another, does a file lead elsewhere while its daemon lives, is the last start what both channels find? | three daemons, so that a third can take a dead one's port while another starts; two ports; one client, which comes, stays, goes and comes back in either role: clients share nothing but what is pending at a daemon, which outlives the client that asked; one address and a token per channel copied at any time, so that they can be of different daemons |
| `Execution` | Is the report true, is what is shown clean and, when harmless, whole, does a started task end? | seven policy entries (one and two secrets, references that are turned down, suppressed output, a user target on Windows), a value that a rule knows, one that it does not, one that only its halves together give away; three symbols, of which two are kept: streams below, at and above the cut |
| `ExecutionTimeout` (violated) | Is the command gone after a timeout: `TimedOutIsDead` | silent commands, as above |
| `Chain` | What does a verified file say? | three processes, three events each, two failures: a failure before and after a restart, and two in a row |
| `Egress` | Does a secret leave, does a value come back where it should not, does the client get its own text back, do block mode's three walks over the rules agree? | both modes, two requests with different secrets, three fields (known, unknown, structural), five rules that nest and interfere, a gated value, keys that decoding uncovers or casefolding hides, a field under a key that a built-in detector rewrites; an echo or one symbol of the model's own, as a key too |
| `Gateway` | Does a line get lost, out of order or through unsanitised, does the session end? | pipes of one line, so that every pipe fills; three requests and a line unasked; results with a secret in a value, in a key, behind an encoding, after an escaped line break, and a message that is no result; both sides may end, hang up or stop at any time, and server and helper may die in the middle of a line, one after the other |
| `Forward` | Does a provider see a credential that is not its own, or an old one; does anything go to a bad address? | six configurations: aliases, a balancer over another provider's route, a vault that the keychain opens, and three that are refused; two requests, so that one is under way when the proxy stops or keys change; two references under one path with two values each, a vault file that holds a key, a value no header can carry, another device's or an invalid payload, or half of it; seven arrivals that differ in alias, load, body, headers (a client's own `x-api-key` among them) and path |
| `Limiter` | Is the rate ever exceeded, is pruning visible, is a polling client starved? | two addresses; a rate of 2 in 5 ticks so that refills do not divide evenly; 16 ticks, three refills and a prune |
| `Policy` | Does a quiet start run what was signed, does a good policy start? | two valid texts and an invalid one, two keys, three edits, two starts |
| `Rules` | The same for rules files and manifest, and what does a broker run? | two files, two keys, five contents (one malformed, one not UTF-8, one that cannot be read), two edits, one signing, two starts, of the proxy with any key or none or of the broker |

Deadlock is checked in the broker's runs (time and sweeps never stop). The other
configurations switch it off: their bounded clocks, edits, events, starts and requests run
out, which is the end of the instance and not of the program.

Every property has a mutant under `mutants`: a plausible change of the code that makes
TLC find that property violated in the same run.

### Fairness

`BrokerLive`, `Execution` and `Gateway` need it. In `BrokerLive`, fair are the clock, the
sweeper and its logging, the spawned execution's two steps, and the step in which an
approve handler that changed the state goes on to log and spawn. The runtime keeps polling
those tasks, and none of them waits for a client: between the state change and the spawn
there is no `await` at which axum could drop the handler, and the execution is a detached
task with a timeout once the command runs. Before that it resolves secrets without one
(`src/broker/execute.rs:48`): the environment and the vault answer, a keychain may wait
for a person. `BrokerLive` therefore assumes that backends answer, and that is part of
what `RunLimit` bounds. Requests, approvals, polls and restarts are not fair. What the
fairness of `Tick` and `WorkReport` together says about `RunLimit` is that an execution
ends; the guard of `Tick` makes it end in time.

In `Execution`, fair are the start of the command, the timer and the timeout: steps of
the runtime. No step of the command is, and neither is the answer of a backend.

In `Gateway`, fair are the gateway's three threads, which the operating system runs, and
what `SessionEnds` needs of the two processes it does not control: a harness that listens
reads what it is sent, and a server reads its input, answers what it has read, ends at the
end of its input and dies of a broken pipe. That is the contract of an MCP server over
stdio; one that ignores the end of its input keeps the gateway up, and nothing in the code
says otherwise. Hanging up, leaving, failing, unasked lines and helpers are not fair.
`SessionEnds` excludes executions in which a helper stays for ever.

## 4. Proofs

Checked by TLAPS for every value of the constants that meets the named assumptions.

**`RequestBrokerProofs`** (`TTLAssumption`: the times are naturals; `CodeAssumption`:
the empty string is no code). `TypeCorrect`, then `Invariance` of `IInv`, from which
`OneFateHolds`, `AuditTrailHolds`, `ResultOnRecordHolds`, `PromiseKeptHolds` follow;
`CodeGateHolds` needs only the types and what an approve handler remembers.
`OneFate` alone is not inductive: a second approval could be under way in a handler,
a denial or an expiry could be decided and not logged. `Fate` therefore says that
whoever still has something to log is alone and that the request is undecided on
record; `Execution` ties the task's progress to the events and to the table;
`Delivery` says an unread result is in the table, in one reader's hands or on
record, never in two of these places; `Timing` relates `purge_at` to the deadline of
a pending request and to the time an execution has left. `NoResultLost` proves
`RunLimit <= ResultTTL => []ResultHasAHome` from `Timing`: a configuration whose
longest action fits in `result_ttl_secs` never loses a result to the sweeper.
`PromiseKeptHolds` is the refinement: the initial states map to those of `OneShot`, and
each action moves the phase of every request along an edge of the promise or leaves it
(`RequestMoves`, `ApproveMoves`, `StatusMoves`, `DaemonMoves`). It needs `Fate` in both
states, without which the cases of `PhaseOf` overlap, and `Delivery` is not needed: an
edge that would hand a result out twice does not exist once `Execution` holds.

**`ApproveCli`** (in `RequestBrokerProofs`, no assumption of its own). `CliIsAClient`: the
broker with the CLI in the place of one operator and of its status clients is the broker,
so that all of the above holds next to it. `CliInvariance`, `PrintedIsMineHolds`,
`AcceptedNeverEndsOtherwiseHolds`. `CliInv` adds to `IInv` what the CLI may rely on while
it polls (`CliView`: its request was approved, the handler that serves a poll is there
and answers about that request) and that a result that is taken has one taker.

**`BrokerDiscovery`** (in `RequestBrokerProofs`; `MarksAreNoContent`: the marks for
nothing and for an empty file are none of the contents). `DiscoveryInvariance`,
`CodesStayWithOperatorHolds`, `AnsweredByItsDaemonHolds`, `LastStartIsFoundHolds`. Files,
notes and sessions hold tokens of their own channel; beside the address of the daemon that
made it a token stands in a file, and in a session that comes from one (`FilesOK`,
`SessionOK`). As no two daemons listen at one address (`DaemonsOK`), such a session
reaches its daemon while that lives; one from the environment may not, and is refused.
`LastStartOK` follows an undisturbed start through its two files.

**`RedactionProofs`** (`DetectorsAssumption`: a rule's secret group is one its expression
has; `DlpEngine::build` turns other rules down, `InvalidGroup` in
`src/security/dlp.rs`). Lemmas about the operators of `Redaction`, for texts of any length
and any list of detectors. Those operators are folds of the community modules, and the
library's induction theorems cannot be instantiated, so the lemmas take another way: a set
of numbers that is not empty has a least one (`LeastNumber`, from the well-foundedness of
the naturals), hence a *set* that contains 0 and the successors of its members contains
every number (`Induction`), hence the function a fold recurses through exists
(`FoldExists`), its value stays in any set that each step stays in, and it arrives in the
last of a sequence of sets if each step leads from one to the next (`FoldReaches`). Four
things follow, and are used below.

- *What goes in.* `RedactPermanent`, `RedactAt` and `RestoreAt` put nothing into a text
  but markers, the session's own placeholders and eligible values (`PermanentTyped`,
  `RedactAtTyped`, `RestoreTyped`), and change nothing where there is nothing to do
  (`PermanentNothing`, `CleanUntouched`, `RestoreNothing`).
- *What comes back.* `Subst(e, text)` replaces each symbol of a text with what `e` has for
  it; a text that is put together is replaced part by part (`SubstConcat`,
  `SubstFlatten`). An `e` that puts stored values back in the place of their placeholders
  does not notice that a detector has redacted (`RewriteSubst`, `RedactOneUndone`), nor
  that all of them have, one over the other (`RedactAtUndone`). When no value has a
  placeholder in it `RestoreAt` is such a substitution (`RestoreIsSubst`), although it
  replaces one value after the other.
- *What is left to find.* Every symbol of a rewritten text is a mark or a symbol of the
  text before, and symbols with no mark between them were together before
  (`RewriteOrigin`). A rule that is `Separate` therefore has no match in it that was not
  there before (`MatchWasThere`), and as every match of such a rule is found
  (`ApartFound`), redaction leaves it none (`RewriteClears`), through the whole list of
  rules (`PermanentClean`, `RedactAtClean`). What it stores has no marks in it
  (`RedactAtPlain`).
- *Parts and wholes.* What an `Apart` rule finds in a part of a text it finds in the text
  (`PartViolates`).

`Redaction` names the conditions on rules that some theorems have. `Apart`: a rule matches
something, and never in two places that overlap, so that the leftmost search passes over
none of its matches. `Separate`: nor does it match placeholders or masks. `RulesUngated`:
no rule of the files has an entropy gate. They are hypotheses of theorems and not
assumptions of the modules, since a rules file may well break them: the database URL of the
`Egress` instance matches around a placeholder, and two rules of `rules/secrets.toml` have
a gate (lines 67 and 177). `MCEgress` and `MCContextGateway` state which of their rules are
`Apart` and `Separate`, and TLC evaluates that.

**`EgressProofs`** (`FieldsAssumption`: the fields are different pointers, and not the
empty one; `TextsAssumption`: what requests carry are texts; `NonceAssumption`: none
arrives with a placeholder of its own session, whose nonce is random and drawn after the
request was written; `ModelPointerAssumption`: the model's own words are not under the
wrapper by which the module tells an echo). `Invariance`, `ForwardedProbedHolds`,
`BlockForwardsClean`, `SeparateForwardsClean`, `NeverRematerializedHolds`,
`FlatEchoRestoredHolds`, `UnmaskedReversible`, `SeparateReversible`,
`HarmlessUntouchedHolds`, `UngatedUndetectedUntouched`, `BlockNeverRewritesHolds`, for any
number of concurrent requests and whatever the provider makes of all it has seen. The
invariant `InvOf` is each request's own. `ScannedSoFar` is the strengthening the
obfuscation probe needs: the fields behind the cursor have passed, as they are now, the
ones ahead are as they arrived. `ForwardedClean` has two halves. That the probe finds
nothing in what leaves is `ForwardedProbedHolds`. That no detector finds anything in it as
it stands is proved for block mode with any rules; in redact mode it depends on what the
rules leave of each other's output. `SeparateForwardsClean` proves it for separate rules,
with `RawClean` (the fields behind the cursor are clean as they stand) as the invariant;
for the nesting rules of the instance TLC checks it.

`FlatEchoRestoredHolds` is about the way back, for any rules. `EchoOf` adds to the invariant
that every `e` that undoes the redactions of a field makes of the field what arrived
(`Undone`), from one redacted field to the next, and that an echo repeats what was sent
(`EchoFaithful`). Restoring an echo is such an `e`, so the client gets its own text back.
The property excludes three things. One is a field below a key that one-way redaction would
rewrite (`KeysKept`): the key in the answer is rewritten first, and the field is then at a
position nothing was taken from. One is a session that stored a value with a placeholder
in it. The third is a field in which one-way redaction, which runs over an answer before
restoration, finds something although detection did not: it ignores the entropy gate of a
rule from a file (`UndetectedUntouched`, section 5), so a value below that entropy is
forwarded as it is and masked when it comes back. The instance has such a field.

`EchoRestored`, which is what the documentation says, excludes none of them, and the code
does not keep it. `SeparateReversible` says for which rules and requests it does: separate
rules never store a value with a mark in it (`FlatOf`), where none has a gate one-way
redaction finds nothing that detection did not (`CleanUnmasked`;
`UngatedUndetectedUntouched` says the same of any answer), and the keys of the requests are
such that no detector finds anything in them (`KeysUndetected`). `UnmaskedReversible` is the
same without the conditions on gates and keys, for states in which one-way redaction finds
nothing. That keys which are left alone stay apart, so that each string of an answer has one
place it came from, is `RekeyedApart`.

**`ActionExecutionProofs`** (`StoredAssumption`, `NamesAssumption`: stores hold texts
for the references policies have, names are strings; `TimeoutAssumption`,
`OutputAssumption`: `validate` and `MAX_OUTPUT_BYTES`). `Invariance`,
`EnvironmentCompleteHolds`, `ReportTrueHolds`, `OutputWholeHolds`, `ResultProbedHolds` and
`ResultCleanHolds`, for every policy, store and list of detectors. `Progress` carries the
first two: a bound value belongs to its own entry, and while entries are open there is no
command. `Reported` carries the others: the result of a command that was waited for is
what the cut and the sanitizer make of all it wrote, and what is written later does not
count. `ResultProbed` is what `sanitize_text` guarantees by itself; for the whole of
`ResultClean` the theorem assumes `RedactionLasts`: no detector finds a marker, or in
redacted text something that normalizing would hide from the probe. A custom rule can
break that, and then the code does not hold what `ResultClean` says. `MCActionExecution`
assumes it of its own rules, one of which matches masks, for every text of up to three
symbols, and TLC evaluates that. `SeparateResultClean` asks nothing but a look at the
rules: if they are separate and find nothing in the two markers, the result is clean.

**`PolicyLoad`** (in `ActionExecutionProofs`; `FileAssumption`: the absent key is no key;
`SigAssumption`: an empty file is no signature). `PolicyInvariance`,
`QuietLoadIsSignedHolds`, `GoodPolicyLoadsHolds`. `LoadFollowsFiles` says that each step of
a load agrees with the files for as long as nobody changed them.

**`AuditChainProofs`**. `Invariance`, `CleanChainHolds`, `NoSilentGapHolds`. The
invariant `WriterInv` says that the writer of a file that verifies either continues
it exactly and has written all it took, or is ahead of it by number, or its last line
has no newline: after a failure the next line makes the file fail to verify.
`RetouchingDetectedHolds` and `AnyEditDetected` are about changes behind the writer's back,
also in files that hold torn or misnumbered lines: `LinesWritten` says that every line
that parses carries the digest of what it says, so a changed line fails by itself, and
one that was taken out or swapped with its neighbour at the line that follows.

**`ContextGatewayProofs`** (`LinesAssumption`: keys and values of a line are sequences of
texts). `Invariance`, `NothingLostAtExitHolds`, `ProbedHolds`, `FilteredHolds`,
`ApartFiltered`, for pipes of any size and any lines. `InOrder` says that what arrived is,
line by line, what the sanitizer makes of the first lines on the pipe, `OpenAtEnd` that
only the last of them can be unfinished and is not taken while somebody could continue it,
`InHand` that the pump holds at most one more, `EndedOnPurpose` that it ended because
nobody listens or because nobody is left to say anything; main joins it, so nothing is
lost. The refinement of `LineFilter` is proved twice. `Probed` asks of a passed result
what the probe looks at, the result as it is serialized, and holds without condition.
`Filtered` asks it of every single string too that needs no escape in JSON, and holds if
`ProbeReaches`: what a detector finds in such a string of a redacted result one also finds
in the whole. Of strings with an escape neither says anything beyond the whole, and the
code does not keep more (`EveryStringClean`, section 5). The code relies on that when it
looks at the serialized result alone. An expression anchored at both ends of a text would
break it, but the model's patterns have no anchors; among them only those that match in
two places that overlap can, and `ApartFiltered` proves `Filtered` for all others
(`ApartReaches`). `MCContextGateway` assumes both conditions of its own rules and lines,
and TLC evaluates that.

**`ProxyForwardProofs`** (`KeychainRefsAreRefs`: references of the keychain have its
scheme). `Invariance`, `OwnCredentialHolds`, `FreshCredentialHolds`,
`OnlyGoodEndpointsHolds`, for every configuration and any contents of the stores.
`HandlersOK` ties a routed request to a configured provider; `StoresOK` says that an
account holds what was stored under its one reference, which is what makes `Resolve` and
`Meant` agree (`ResolvesAsMeant`); `HeldOK` says that a routed request's reference has
been watched.

**`RateLimiter`** (in `ProxyForwardProofs`; `RateAssumption`: rate and minute positive;
`PruneAssumption`: buckets are pruned no sooner than a refill takes). `LimiterInvariance`,
`WithinBudgetHolds`, `PruneInvisibleHolds`, `PollingNotStarvedHolds`. The invariant
`NeverAhead` compares what the code's bucket is worth, with everything that has
accrued since the last refill, with the ideal bucket; `RefillsServe` says that the
last refill is no later than the last request let through, so that being refused does
not postpone a refill.

**`RuleIntegrityProofs`** (`FilesAssumption`: there is a configured file, `sign` walks
rules files, the absent content is no content, a malformed one can be read as text).
`Invariance`, `QuietStartSignedHolds`, `StartsExactlyIfVouchedHolds`,
`BrokerSkipsNoTextHolds`. `LoadedOK` and `SeenOK` play the part of `LoadFollowsFiles` for
the rules loaded so far and for what has been seen of the manifest; `ManifestOK` says that
what the manifest lists was signed. That rules are loaded first and verified later is why
both are needed: the files verified are those loaded only while nothing changes.

A component whose proofs live in another one's module is extended there; its initial
predicate, next-state relation, specification and invariant carry its name
(`PolicyInit`, `LimiterNext`, `DiscoverySpec`, ...) so that the two do not meet.

Each inductive invariant has been checked with TLC on the instances above before it was
proved, but for the parts of it that say what an infinite set contains; no run repeats
that. Only model-checked: the five liveness properties (outside what the prover handles); and,
for rules that do not meet the conditions named above, the raw half of `ForwardedClean` in
redact mode, `ResultClean` and `Filtered`. Rules can be written for which these do not
hold, so what the runs show of them is about the rules of their instances.

## 5. Where the code and its documents disagree

One disagreement has a run that shows it (`findings` in `PROJECT.json`):
`ExecutionTimeout`. A timeout drops the future of `Command::output`; without
`kill_on_drop` the command runs on, while the result says it was killed
(`src/broker/execute.rs:96`, and the test `timeout_kills_the_process`).

The others are definitions, most of them at the end of their modules, and each is
violated when it is checked instead of the properties of the configuration named here:

| Definition, configuration | What happens | Said where |
|---|---|---|
| `ResultHasAHome`, `BrokerLive` with `RunLimit = 3` | an action longer than what is left of both TTLs finds its record swept; `complete` drops the result | `docs/BROKER.md:83`, `src/broker/state.rs:228` |
| `EchoRestored`, `Egress` | a value stored with an earlier placeholder inside comes back with the placeholder in it; a value below its rule's entropy comes back masked; a value under an object key that a rule or a built-in detector matches comes back neutralized, under the redacted key (`src/proxy.rs:103`) | `README.md:39` |
| `SustainedRate`, `Limiter` | each refill loses the fraction of a token that had accrued | `src/security/rate_limit.rs:3` |
| `NothingBoundShown`, `Execution` | a secret without a shape that a detector knows, or its part before the 64 KiB cut, is shown when the command prints it | `docs/BROKER.md:25` |
| `KeptForResultTTL`, `BrokerRace` | a result finished late is dropped before `result_ttl_secs`: `purge_at` is fixed at creation | `docs/BROKER.md:107`, `src/config.rs:32` |
| `ExpiryOnRecord`, `BrokerRace` | a request that `approve` or `deny` found expired has no `action_expired` event | `src/broker/state.rs:76`, `docs/BROKER.md:181` |
| `TakenIsShown`, `BrokerRace` | a poll that falls between the two locks of `request_status` around a completion carries `executing` and the result; the loop throws it away | `src/main.rs:862` |
| `CanResume`, `Chain` | after a torn line the next process cannot open the chain | `src/security/audit_chain.rs:32` |
| `StopOnRecord`, `Chain` | an orderly shutdown can end the process before `broker_stopped` is written | `docs/BROKER.md:180` |
| `EveryFieldClean`, `Egress` | strings under structural keys and short strings of unknown fields are not scanned | `README.md:71`, `src/pipeline/extract.rs:136` |
| `UndetectedUntouched`, `Egress` | one-way redaction ignores the entropy gate and the secret group, so an answer is rewritten in which detection finds nothing | `rules/secrets.toml:14` |
| `RunsWhatWasSigned`, `Policy` | the policy is read three times; an edit in between is what runs | `docs/BROKER.md:10`, `src/broker/policy.rs:4` |
| `RunningRulesSigned`, `Rules` | a configured rules file the manifest does not list is not verified | `README.md:108`, `README.md:203` |
| `ListedRulesSigned`, `Rules` | rules are loaded before they are verified, from the same paths opened again | `README.md:108` |
| `AllRulesLoaded`, `Rules` | a missing rules file is skipped with a warning | `src/server.rs:121`, `docs/CONTEXT.md:101` |
| `BrokerHasRules`, `Rules` | a broker whose first rules file is there but cannot be read or is no UTF-8 text, or goes away between the question (`src/broker/mod.rs:56`) and the build, starts without it, with the built-in detectors alone | `src/broker/mod.rs:46` |
| `BrokenIsFatal`, `Rules` | a rules file that cannot be read or is no UTF-8 text is skipped like one that is missing (`src/security/dlp.rs:164`), by the proxy too, even when it is signed | `src/security/dlp.rs:158` |
| `FailureReported`, `Gateway` | a server killed by a signal has no exit code, and the gateway reports success | `docs/CONTEXT.md:44` |
| `TornIsClean`, `Gateway` | what a server wrote of a line before it died is passed on as it is, and with it the next line of a process that shares the pipe: the two are one line (`src/context.rs:131`) and no JSON, so that a tool result passes unredacted | `docs/CONTEXT.md:10` |
| `EveryStringClean`, `Gateway` | the probe looks at serialized JSON (`src/context.rs:106`): a line break before an encoded secret is there a backslash and an `n`, and a rule that begins at a word boundary (most of `rules/secrets.toml`) no longer matches | `src/context.rs:13` |
| `NoHopByHop`, `Forward` | the loop that strips hop-by-hop headers leaves `connection`, `keep-alive` and `te` in | `src/proxy.rs:356`, `README.md:101` |
| `TokenGoesHome`, `Discovery` | both channels read one `GUARDIAN_BROKER_URL`, set apart from the tokens (`src/broker/client.rs:80`, `:93`): a client sends a token to a daemon that did not make it, which refuses it | no document rules it out |
| `ChannelsAgree`, `Discovery` | overlapping starts leave the two discovery files at two living daemons: requests of agents wait where no operator looks | no document rules it out |

## 6. What the models leave out

*Not modelled at all*: the benchmark, logging, the banner and the directory audit (no
state a later step depends on); `render_sudoers` and the other commands that only print;
where configuration and resources are looked for; anything a library does inside
(`reqwest`, `tokio`, `age`, `rmcp`, `keyring`) beyond what the code relies on.

- *Broker*: two live 32-bit ids that collide (about 2^-30 per request with a handful
  live; `create` would replace the record); the answers' wording. An execution is a task
  with an end; its inside is `ActionExecution`, and the two are not composed: `RunLimit`
  stands for the timeout and the time the secrets take.
- *Discovery*: permissions of the files (created 0600 on Unix); tokens that collide;
  variables that hold something else than an address and a token of their own channel's
  files (an agent that is given the operator's token has what it opens). The MCP server's
  client keeps its endpoint for its whole life, so it does not find a broker
  that was restarted: every call is then refused or reaches nobody, which
  `AnsweredByItsDaemon` allows.
- *Execution*: exit codes, durations, argv and `sudo`; bytes (a mask may be longer than
  what it replaces, a lossy conversion too); the memory a command can fill before the cut.
- *Audit chain*: two processes appending to one file (documented as unsupported; two
  brokers of one configuration are such processes); hash collisions. `verify` has no
  record of a file's length, so a file whose last lines were removed verifies, and no
  property here says otherwise.
- *Egress*: characters, bytes and regular expressions, except as the sets of matches a
  rule has; the framing of events, whose lines that carry no JSON pass uninspected as in
  the code; the proxy's own audit events; sizes, which are one of the reasons of
  `FailAnswer`. The keys of a request are constants of the instance. A one-segment pointer
  corresponds to every field of that name (`PointerTailMatches`), which no instance
  exercises. Restored values that are secrets of the same request at a corresponding
  position are the design's own and not a leak.
- *Forward*: what is promised of a client's credential is about `Authorization`
  (`CONTRIBUTING.md:137`): any other header, `x-api-key` or a cookie, is passed on as it
  came (`src/proxy.rs:374`), beside the provider's own key. Not modelled: the model's
  name, which route and tier may rewrite; redirects, which the HTTP client follows; ports, limits and timeouts; the grammar of references and URLs
  (`GoodUrls`, records). A keychain that waits for a person keeps a request routed.
- *Gateway*: bytes and partial reads within a line; two live processes that write at the
  same moment more than the pipe takes in one piece; a whole message whose newline alone is
  missing (at the end of the stream it is sanitized as any other, otherwise it is a torn
  line); the order of keys and values in the serialized result, which of the rules the
  repository ships matters to the one for private keys alone, whose two ends can be in
  different strings; arrays of messages, which
  `is_tool_result` does not recognise; numbers, which are redacted as their decimal
  text; standard error, which the server inherits.
- *Rate limiter*: the sum of tokens wrapping at 2^32, which needs a rate of hundreds
  of millions a minute; the second reading of the clock inside `try_consume`, later
  than the first by the time between two statements.
- *Policy, rules*: text of the files; the sudoers lines `render_sudoers` prints; how
  the paths are resolved. A start with no key and no manifest is allowed by design.

## 7. Plan

1. `ActionExecution` composed with `RequestBroker`: `WorkReport` and `RunLimit` as an
   abstraction of an execution, and an action approved again beside its own survivor.
2. Patterns with anchors and repetition, so that what `Apart` and `Separate` exclude can be
   told from what a regular expression of the rules files really matches.
3. A condition between `Separate` and none, for rules that match around placeholders but
   leave nothing behind, as the database URL of the `Egress` instance does.
