--------------------------- MODULE ContextGateway ---------------------------
(***************************************************************************)
(* `open-guardian mcp-gateway -- <command>` (context.rs run_gateway): an   *)
(* MCP server is wrapped, one thread pumps the harness's lines to it as    *)
(* they are, another pumps the server's lines to the harness and sanitizes *)
(* the tool results among them, and the main thread waits for the server   *)
(* and then for the second pump.                                           *)
(*                                                                         *)
(* Four pipes of bounded size connect three processes:                     *)
(*                                                                         *)
(*    harness --stdin--> upstream --serverIn--> server                     *)
(*    harness <--stdout-- downstream <--serverOut-- server, helper         *)
(*                                                                         *)
(* A line read into a pump's buffer counts as in the pipe until the pump   *)
(* works on it.  The server answers each request before it reads the next  *)
(* one and may also write unasked; a helper is a process it started, which *)
(* inherits its standard output and can outlive it.  A process killed in   *)
(* the middle of a line leaves it torn, without a newline: what the other  *)
(* one writes next continues that line.  The bytes of serverOut are said   *)
(* without its first taken lines.                                          *)
(***************************************************************************)
EXTENDS Redaction

CONSTANTS
  Lines,        \* what the server may write: [kind, keys, values]
  Fragments,    \* what is on the pipe of a line whose writer was killed
  Escapes,      \* names that show as another name in a JSON string
  PipeCap,      \* lines a pipe holds
  MaxRequests,  \* bound: lines the harness sends
  MaxUnasked    \* bound: lines written so far when a line is not an answer

(* The keys of a line's result, and the strings and numbers that are its   *)
(* values, are texts.                                                      *)
ASSUME LinesAssumption ==
  /\ \A line \in Lines \cup Fragments :
       /\ line = [kind |-> line.kind, keys |-> line.keys, values |-> line.values]
       /\ line.keys \in Seq(ToSet(line.keys)) /\ line.values \in Seq(ToSet(line.values))
       /\ \A text \in ToSet(line.keys) \cup ToSet(line.values) : IsText(text)
  /\ \A line \in Lines : line.kind \in {"result", "other"}
  /\ \A line \in Fragments : line.kind = "torn"

VARIABLES
  sent,         \* lines the harness has written
  hungUp,       \* the harness has closed the gateway's stdin
  listening,    \* the harness still reads the gateway's stdout
  stdin,        \* lines in the pipe from the harness
  up,           \* what the upstream pump does
  serverIn,     \* lines in the pipe to the server
  server,       \* "running", or how it ended
  owed,         \* the server has read a request and not answered it
  helper,       \* a process that holds the server's standard output
  said,         \* the lines written to that pipe (history)
  taken,        \* how many of them the downstream pump has read
  down,         \* what the downstream pump does
  out,          \* the lines written to the gateway's stdout (history)
  unread,       \* how many of them are still in the pipe
  main,         \* what the main thread does
  code          \* the gateway's exit code

harnessVars == <<sent, hungUp, listening>>
serverVars == <<server, owed, helper, said>>
vars == <<harnessVars, stdin, up, serverIn, serverVars, taken, down, out, unread, main, code>>

-----------------------------------------------------------------------------
(* The lines.                                                              *)

Suppressed == Literal("suppressed")

(* A torn line and what is written after it, up to the next newline: the   *)
(* beginning of a message and a message are no JSON together.              *)
Joined(torn, line) ==
  [kind   |-> IF line.kind = "torn" THEN "torn" ELSE "joined",
   keys   |-> torn.keys \o line.keys,
   values |-> torn.values \o line.values]

(* Numbers are redacted in their decimal form.  Keys are not redacted.     *)
RedactTree(line) ==
  [line EXCEPT !.values = [i \in DOMAIN line.values |-> RedactPermanent(line.values[i])]]

(* Mutant of Probe: the values are looked at one by one, the keys not at all. *)
ProbeValues(line) ==
  \E i \in DOMAIN line.values : CheckViolations(NormalizeForMatching(line.values[i]))

(* What stands for a line break, a quote or a backslash in a JSON string   *)
(* shows as more characters than it has: a word may no longer begin there. *)
Escaped(text) ==
  [i \in DOMAIN text |-> IF text[i].name \in DOMAIN Escapes
                           THEN Literal(Escapes[text[i].name]) ELSE text[i]]

Punctuation == Literal("punctuation")

(* The result as it is serialized, as far as detectors are concerned: they *)
(* see its strings escaped, with punctuation after each.                   *)
Serialized(line) ==
  LET strings == line.keys \o line.values
  IN  FlattenSeq([i \in DOMAIN strings |-> Append(Escaped(strings[i]), Punctuation)])

(* The result is looked at as a whole, and normalized.                     *)
Probe(line) == CheckViolations(NormalizeForMatching(Serialized(line)))

(* What is passed on instead of a result that cannot be.                   *)
Withheld(line) == [line EXCEPT !.keys = <<>>, !.values = <<<<Suppressed>>>>]

Results == {line \in Lines : line.kind = "result"}

(* What sanitize_rpc_line makes of each result there is.                   *)
Sanitized ==
  [line \in Results |-> IF Probe(RedactTree(line)) THEN Withheld(line) ELSE RedactTree(line)]

SanitizeRpcLine(line) == IF line.kind = "result" THEN Sanitized[line] ELSE line

-----------------------------------------------------------------------------
Init ==
  /\ sent = 0 /\ hungUp = FALSE /\ listening = TRUE
  /\ stdin = 0 /\ up = "reading"
  /\ serverIn = 0 /\ server = "running" /\ owed = FALSE /\ helper = "none"
  /\ said = <<>> /\ taken = 0 /\ down = "reading" /\ out = <<>> /\ unread = 0
  /\ main = "waiting" /\ code = "none"

Running == main # "exited"

(* The read end of the server's standard output is closed with its pump.   *)
Heard == down # "ended" /\ Running

-----------------------------------------------------------------------------
(* The harness.                                                            *)

HarnessSend ==
  /\ Running /\ ~hungUp /\ sent < MaxRequests /\ stdin < PipeCap
  /\ sent' = sent + 1 /\ stdin' = stdin + 1
  /\ UNCHANGED <<hungUp, listening, up, serverIn, serverVars, taken, down, out, unread, main, code>>

HarnessHangUp ==
  /\ ~hungUp
  /\ hungUp' = TRUE
  /\ UNCHANGED <<sent, listening, stdin, up, serverIn, serverVars, taken, down, out, unread, main, code>>

HarnessRead ==
  /\ listening /\ unread > 0
  /\ unread' = unread - 1
  /\ UNCHANGED <<harnessVars, stdin, up, serverIn, serverVars, taken, down, out, main, code>>

HarnessLeave ==
  /\ listening
  /\ listening' = FALSE
  /\ unread' = 0
  /\ UNCHANGED <<sent, hungUp, stdin, up, serverIn, serverVars, taken, down, out, main, code>>

-----------------------------------------------------------------------------
(* pump_upstream: lines as they are, until either side ends.               *)

UpRead ==
  /\ Running /\ up = "reading" /\ stdin > 0
  /\ stdin' = stdin - 1
  /\ up' = "writing"
  /\ UNCHANGED <<harnessVars, serverIn, serverVars, taken, down, out, unread, main, code>>

(* Mutant of UpEof: the server's standard input stays open.                *)
UpEofOpen ==
  /\ Running /\ up = "reading" /\ stdin = 0 /\ hungUp
  /\ up' = "idle"
  /\ UNCHANGED <<harnessVars, stdin, serverIn, serverVars, taken, down, out, unread, main, code>>

UpEof ==
  /\ Running /\ up = "reading" /\ stdin = 0 /\ hungUp
  /\ up' = "ended"
  /\ UNCHANGED <<harnessVars, stdin, serverIn, serverVars, taken, down, out, unread, main, code>>

UpWrite ==
  /\ Running /\ up = "writing" /\ server = "running" /\ serverIn < PipeCap
  /\ serverIn' = serverIn + 1
  /\ up' = "reading"
  /\ UNCHANGED <<harnessVars, stdin, serverVars, taken, down, out, unread, main, code>>

UpBroken ==
  /\ Running /\ up = "writing" /\ server # "running"
  /\ up' = "ended"
  /\ UNCHANGED <<harnessVars, stdin, serverIn, serverVars, taken, down, out, unread, main, code>>

-----------------------------------------------------------------------------
(* The server and its helper.                                              *)

InPipe == Len(said) - taken

Unfinished(line) == line.kind = "torn"

(* The last line on the pipe, read into the pump's buffer or not, has no   *)
(* newline yet.                                                            *)
LineOpen == said # <<>> /\ Unfinished(Last(said))

(* The pipe after line is written to it.                                   *)
Written(line) ==
  IF LineOpen THEN [said EXCEPT ![Len(said)] = Joined(@, line)] ELSE Append(said, line)

CanSay(asked) ==
  /\ Heard
  /\ LineOpen \/ (InPipe < PipeCap /\ (asked \/ Len(said) < MaxUnasked))

ServerRead ==
  /\ server = "running" /\ ~owed /\ serverIn > 0
  /\ serverIn' = serverIn - 1
  /\ owed' = TRUE
  /\ UNCHANGED <<harnessVars, stdin, up, server, helper, said, taken, down, out, unread, main, code>>

ServerSay ==
  /\ server = "running" /\ CanSay(owed)
  /\ \E line \in Lines : said' = Written(line)
  /\ owed' = FALSE
  /\ UNCHANGED <<harnessVars, stdin, up, serverIn, server, helper, taken, down, out, unread, main, code>>

ServerStartHelper ==
  /\ server = "running" /\ helper = "none"
  /\ helper' = "running"
  /\ UNCHANGED <<harnessVars, stdin, up, serverIn, server, owed, said, taken, down, out, unread, main, code>>

ServerEnds(how) ==
  /\ server = "running"
  /\ server' = how
  /\ UNCHANGED <<harnessVars, stdin, up, serverIn, owed, helper, said, taken, down, out, unread, main, code>>

(* At the end of its input, all of it answered.                            *)
ServerQuits ==
  /\ ~owed /\ serverIn = 0 /\ up = "ended"
  /\ ServerEnds("done")

ServerFails == ServerEnds("failed") \/ ServerEnds("killed")

(* Nobody reads what the server writes: SIGPIPE.                           *)
ServerBroken ==
  /\ owed /\ ~Heard
  /\ ServerEnds("killed")

ServerDiesWriting ==
  /\ server = "running" /\ CanSay(owed)
  /\ server' = "killed"
  /\ \E line \in Fragments : said' = Written(line)
  /\ UNCHANGED <<harnessVars, stdin, up, serverIn, owed, helper, taken, down, out, unread, main, code>>

HelperSay ==
  /\ helper = "running" /\ CanSay(FALSE)
  /\ \E line \in Lines : said' = Written(line)
  /\ UNCHANGED <<harnessVars, stdin, up, serverIn, server, owed, helper, taken, down, out, unread, main, code>>

HelperDiesWriting ==
  /\ helper = "running" /\ CanSay(FALSE)
  /\ helper' = "gone"
  /\ \E line \in Fragments : said' = Written(line)
  /\ UNCHANGED <<harnessVars, stdin, up, serverIn, server, owed, taken, down, out, unread, main, code>>

HelperExit ==
  /\ helper = "running"
  /\ helper' = "gone"
  /\ UNCHANGED <<harnessVars, stdin, up, serverIn, server, owed, said, taken, down, out, unread, main, code>>

-----------------------------------------------------------------------------
(* pump_downstream: ends when everybody who could write has gone and all   *)
(* is read, or when the harness no longer listens.                         *)

(* Everybody who could write to the pipe has gone.                         *)
NobodyLeft == server # "running" /\ helper # "running"

(* A line ends with its newline, or with the end of the stream.            *)
LineComplete(line) == Unfinished(line) => NobodyLeft

DownRead ==
  /\ Running /\ down = "reading" /\ InPipe > 0
  /\ LineComplete(said[taken + 1])
  /\ taken' = taken + 1
  /\ down' = "writing"
  /\ UNCHANGED <<harnessVars, stdin, up, serverIn, serverVars, out, unread, main, code>>

DownEof ==
  /\ Running /\ down = "reading" /\ InPipe = 0 /\ NobodyLeft
  /\ down' = "ended"
  /\ UNCHANGED <<harnessVars, stdin, up, serverIn, serverVars, taken, out, unread, main, code>>

DownWrite ==
  /\ Running /\ down = "writing" /\ listening /\ unread < PipeCap
  /\ out' = Append(out, SanitizeRpcLine(said[taken]))
  /\ unread' = unread + 1
  /\ down' = "reading"
  /\ UNCHANGED <<harnessVars, stdin, up, serverIn, serverVars, taken, main, code>>

DownBroken ==
  /\ Running /\ down = "writing" /\ ~listening
  /\ down' = "ended"
  /\ UNCHANGED <<harnessVars, stdin, up, serverIn, serverVars, taken, out, unread, main, code>>

-----------------------------------------------------------------------------
(* run_gateway: child.wait, then the downstream pump; the process exits    *)
(* and takes the upstream pump with it.                                    *)

MainWait ==
  /\ main = "waiting" /\ server # "running"
  /\ main' = "joining"
  /\ UNCHANGED <<harnessVars, stdin, up, serverIn, serverVars, taken, down, out, unread, code>>

(* Mutant of JoinedPumps: no pump is joined.                               *)
JoinedNone == TRUE

JoinedPumps == down = "ended"

(* status.code().unwrap_or(0): a server killed by a signal has no code.    *)
ExitCode == IF server = "failed" THEN "failure" ELSE "success"

MainExit ==
  /\ main = "joining" /\ JoinedPumps
  /\ main' = "exited"
  /\ code' = ExitCode
  /\ UNCHANGED <<harnessVars, stdin, up, serverIn, serverVars, taken, down, out, unread>>

-----------------------------------------------------------------------------
HarnessNext == HarnessSend \/ HarnessHangUp \/ HarnessRead \/ HarnessLeave

ServerNext ==
  \/ ServerRead \/ ServerSay \/ ServerStartHelper
  \/ ServerQuits \/ ServerFails \/ ServerBroken \/ ServerDiesWriting
  \/ HelperSay \/ HelperDiesWriting \/ HelperExit

GatewayNext ==
  \/ UpRead \/ UpEof \/ UpWrite \/ UpBroken
  \/ DownRead \/ DownEof \/ DownWrite \/ DownBroken
  \/ MainWait \/ MainExit

Next == HarnessNext \/ ServerNext \/ GatewayNext

Spec == Init /\ [][Next]_vars

(* The operating system runs the gateway's three threads.  The harness     *)
(* reads what it is sent as long as it listens.  The server reads, answers *)
(* and ends at the end of its input, as the MCP stdio transport asks of    *)
(* it, and dies of a broken pipe.  Nobody has to send, to hang up, to fail *)
(* or to write unasked, and a helper may stay for ever.                    *)
Fairness ==
  /\ WF_vars(UpRead) /\ WF_vars(UpEof) /\ WF_vars(UpWrite) /\ WF_vars(UpBroken)
  /\ WF_vars(DownRead) /\ WF_vars(DownEof) /\ WF_vars(DownWrite) /\ WF_vars(DownBroken)
  /\ WF_vars(MainWait) /\ WF_vars(MainExit)
  /\ WF_vars(HarnessRead)
  /\ WF_vars(ServerRead) /\ WF_vars(owed /\ ServerSay) /\ WF_vars(ServerQuits) /\ WF_vars(ServerBroken)

FairSpec == Spec /\ Fairness

-----------------------------------------------------------------------------
(* Properties.                                                             *)

(* Nothing in it for the probe, nor in any value for one-way redaction.    *)
Clean(line) == ~CheckViolations(NormalizeForMatching(Serialized(line)))
Harmless(line) == Clean(line) /\ \A i \in DOMAIN line.values : NothingToMask(line.values[i])

(* Nor, once that is normalized, in a single key or value of it that is    *)
(* the same in JSON, although the probe only looks at the serialized whole. *)
StringsClean(line) ==
  \A text \in ToSet(line.keys) \cup ToSet(line.values) :
    Escaped(text) = text => ~CheckViolations(NormalizeForMatching(text))

(* A line that is not a tool result is passed on as it is; of a tool       *)
(* result nothing arrives that a detector finds once it is normalized, in  *)
(* the result as it is serialized or in any of its strings that needed no  *)
(* escape there, and one with nothing to find arrives unchanged            *)
(* (sanitize_rpc_line).                                                    *)
Stands(passed, line) ==
  IF line.kind = "result"
    THEN /\ passed = Withheld(line) \/ (Clean(passed) /\ StringsClean(passed))
         /\ Harmless(line) => passed = line
    ELSE passed = line

(* The gateway is the filter it promises to be, through every pipe and     *)
(* whatever its threads and the processes around them do: a line that its  *)
(* writer did not finish goes on with what the next one writes, and is not *)
(* passed on before that is known (pump_downstream, sanitize_rpc_line).    *)
Filter == INSTANCE LineFilter WITH Lines <- Lines \cup Fragments
Filtered == Filter!Spec

(* What no detector finds in a redacted result as it is serialized, none   *)
(* finds in a string of it that needed no escape: so it is for the lines   *)
(* and detectors at hand, and it is what the code relies on                *)
(* (sanitize_rpc_line).                                                    *)
ProbeReaches ==
  \A line \in Lines :
    line.kind = "result" /\ Clean(RedactTree(line)) => StringsClean(RedactTree(line))

(* What the server and its helper managed to say before they were gone is  *)
(* not lost in the gateway's exit: when it exits while the harness still   *)
(* listens, every line is on its way to the harness (the join in           *)
(* run_gateway).                                                           *)
NothingLostAtExit ==
  main = "exited" /\ listening => Len(out) = Len(said)

(* The session ends: when the harness hangs up or the server is gone, the  *)
(* gateway exits, even if the other side stays as it is, unless a helper   *)
(* keeps the server's output open for ever.  No set of full pipes stops it *)
(* (context.rs run_gateway, pump_upstream: the pump drops the server's     *)
(* stdin at end of file).                                                  *)
SessionEnds ==
  <>[](helper # "running") => ((hungUp \/ server # "running") ~> main = "exited")

-----------------------------------------------------------------------------
(* The inductive invariant.                                                *)

(* What arrived is what the sanitizer makes of the first lines said, and   *)
(* the pump has read at most one line more.                                *)
InOrder ==
  /\ said \in Seq(ToSet(said))
  /\ \A i \in DOMAIN said : said[i] \in Lines \/ said[i].kind \in {"torn", "joined"}
  /\ Len(out) \in 0..Len(said)
  /\ out = [i \in 1..Len(out) |-> SanitizeRpcLine(said[i])]

(* Only the last line is unfinished, and as long as somebody could         *)
(* continue it the pump does not take it.                                  *)
OpenAtEnd ==
  \A i \in DOMAIN said :
    Unfinished(said[i]) => i = Len(said) /\ (i <= taken => NobodyLeft)

InHand ==
  CASE down = "reading" -> taken = Len(out)
    [] down = "writing" -> taken = Len(out) + 1
    [] OTHER -> down = "ended"

(* The pump has ended because nobody listens, or because nobody is left to *)
(* say anything and nothing is left to pass on.                            *)
EndedOnPurpose ==
  down = "ended" =>
    \/ ~listening
    \/ /\ Len(out) = Len(said) /\ taken = Len(said)
       /\ NobodyLeft

IInv ==
  /\ InOrder /\ taken \in 0..Len(said) /\ OpenAtEnd
  /\ InHand /\ EndedOnPurpose
  /\ main = "exited" => down = "ended"

-----------------------------------------------------------------------------
(* Stated by a document or a comment, and not kept by the code: no run     *)
(* expects these to hold (README.md, section 5).                           *)

(* docs/CONTEXT.md: "The gateway exits with the downstream server's exit   *)
(* code".  A server killed by a signal looks like one that succeeded.      *)
FailureReported ==
  main = "exited" /\ code = "success" => server = "done"

(* A line that its writer did not finish is passed on as it is, with what  *)
(* the other process wrote next, even when both were to be tool results.   *)
TornIsClean ==
  \A i \in DOMAIN out : out[i].kind \in {"torn", "joined"} => Clean(out[i])

(* context.rs: "text that still trips detection after normalization        *)
(* suppresses entirely".  Not one that begins a word after a line break in *)
(* a tool result: the probe sees the two characters it is escaped as.      *)
EveryStringClean ==
  \A i \in DOMAIN out : out[i].kind = "result" =>
    \A text \in ToSet(out[i].values) : ~CheckViolations(NormalizeForMatching(text))
=============================================================================
