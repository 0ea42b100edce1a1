--------------------------- MODULE BrokerDiscovery ---------------------------
(***************************************************************************)
(* How clients find a broker daemon and what it does for them: the two     *)
(* discovery files (ipc.rs start, write_discovery, read_discovery), the    *)
(* client (client.rs), the MCP server over it (mcp.rs) and the two roles   *)
(* (ipc.rs role_of and the handlers' checks).                              *)
(*                                                                         *)
(* Nothing keeps a second daemon from starting beside the first, a daemon  *)
(* that ends leaves its files behind, and the kernel may give its port to  *)
(* the next one.  What becomes of one request is RequestBroker.            *)
(***************************************************************************)
EXTENDS Naturals, Sequences

CONSTANTS
  Daemon,       \* daemon processes, each of which starts once
  Client,       \* processes of the CLI and of the MCP server
  Addr,         \* loopback ports the kernel may hand out
  Empty,        \* a file opened and not written
  None          \* no file, no address, no token, nothing set

Channel == {"agent", "admin"}

Content == [addr : Addr, token : [by : Daemon, channel : Channel]]

ASSUME MarksAreNoContent == None \notin Content \cup Addr \cup Daemon \cup Channel /\ Empty \notin Content

VARIABLES
  daemon,       \* daemon -> where its start is, its address, whether a request is pending
  file,         \* channel -> the discovery file
  noted,        \* the address and the tokens the operator copied for the environment
  client,       \* client -> where it sends its token
  call,         \* the last call and its answer (history)
  last,         \* the daemon that began to start last (history)
  calm          \* since then nothing overlapped or failed (history)

discoveryVars == <<daemon, file, noted, client, call, last, calm>>

(* In the order in which start writes their files.                         *)
Channels == <<"agent", "admin">>

(* random_token: nobody else's.                                            *)
Token(d, ch) == [by |-> d, channel |-> ch]

Discovery(d, ch) == [addr |-> daemon[d].addr, token |-> Token(d, ch)]

Listening(d) == daemon[d].pc \in {"open", "write", "serving"}

Starting(d) == daemon[d].pc \in {"open", "write"}

-----------------------------------------------------------------------------
NoSession == [channel |-> None, addr |-> None, token |-> None, via |-> None]

DiscoveryInit ==
  /\ daemon = [d \in Daemon |-> [pc |-> "off", next |-> 1, addr |-> None, pending |-> FALSE]]
  /\ file = [ch \in Channel |-> None]
  /\ noted = [url |-> None, token |-> [ch \in Channel |-> None]]
  /\ client = [c \in Client |-> NoSession]
  /\ call = None
  /\ last = None
  /\ calm = TRUE

(* A start binds a free port.                                              *)
Bind(d, a) ==
  /\ daemon[d].pc = "off"
  /\ \A e \in Daemon : Listening(e) => daemon[e].addr # a
  /\ daemon' = [daemon EXCEPT ![d].pc = "open", ![d].addr = a]
  /\ last' = d
  /\ calm' = \A e \in Daemon : ~Starting(e)
  /\ UNCHANGED <<file, noted, client, call>>

(* Mutant of OpenFile: a file that is there is left alone.                 *)
OpenFileNew(d) ==
  LET ch == Channels[daemon[d].next] IN
  /\ daemon[d].pc = "open"
  /\ IF file[ch] = None
       THEN /\ file' = [file EXCEPT ![ch] = Empty]
            /\ daemon' = [daemon EXCEPT ![d].pc = "write"]
       ELSE /\ daemon' = IF daemon[d].next < Len(Channels)
                           THEN [daemon EXCEPT ![d].next = @ + 1]
                           ELSE [daemon EXCEPT ![d].pc = "serving"]
            /\ UNCHANGED file
  /\ UNCHANGED <<noted, client, call, last, calm>>

(* write_discovery opens the file, which empties it ...                    *)
OpenFile(d) ==
  /\ daemon[d].pc = "open"
  /\ file' = [file EXCEPT ![Channels[daemon[d].next]] = Empty]
  /\ daemon' = [daemon EXCEPT ![d].pc = "write"]
  /\ UNCHANGED <<noted, client, call, last, calm>>

(* ... and writes it.  After the second file the daemon serves.            *)
WriteFile(d) ==
  LET i == daemon[d].next IN
  /\ daemon[d].pc = "write"
  /\ file' = [file EXCEPT ![Channels[i]] = Discovery(d, Channels[i])]
  /\ daemon' = IF i < Len(Channels)
                 THEN [daemon EXCEPT ![d].pc = "open", ![d].next = i + 1]
                 ELSE [daemon EXCEPT ![d].pc = "serving"]
  /\ UNCHANGED <<noted, client, call, last, calm>>

(* A file that cannot be written ends the start, a signal or a crash ends  *)
(* the daemon at any time.  Its files stay.                                *)
End(d) ==
  /\ Listening(d)
  /\ daemon' = [daemon EXCEPT ![d].pc = "gone", ![d].pending = FALSE]
  /\ calm' = (calm /\ d # last)
  /\ UNCHANGED <<file, noted, client, call, last>>

DaemonsNext ==
  \E d \in Daemon : (\E a \in Addr : Bind(d, a)) \/ OpenFile(d) \/ WriteFile(d) \/ End(d)

-----------------------------------------------------------------------------
(* The operator copies the address that is in a file, or the token of its  *)
(* channel, for later use.                                                 *)
NoteUrl(ch) ==
  /\ file[ch] \notin {None, Empty}
  /\ noted' = [noted EXCEPT !.url = file[ch].addr]
  /\ UNCHANGED <<daemon, file, client, call, last, calm>>

NoteToken(ch) ==
  /\ file[ch] \notin {None, Empty}
  /\ noted' = [noted EXCEPT !.token[ch] = file[ch].token]
  /\ UNCHANGED <<daemon, file, client, call, last, calm>>

(* The environment of a client of ch: GUARDIAN_BROKER_URL, which both      *)
(* channels share, and the token variable of the channel, each set or not. *)
Environments(ch) == [url : {None, noted.url}, token : {None, noted.token[ch]}]

(* Mutant of Endpoint: each variable overrides its part of the file.       *)
EndpointByParts(ch, env) ==
  IF env.url # None /\ env.token # None THEN [addr |-> env.url, token |-> env.token]
    ELSE IF file[ch] \in {None, Empty} THEN None
      ELSE [addr |-> IF env.url # None THEN env.url ELSE file[ch].addr,
            token |-> IF env.token # None THEN env.token ELSE file[ch].token]

(* BrokerClient::admin and agent: both variables, or the file as a whole;  *)
(* None if it cannot be read or parsed.                                    *)
Endpoint(ch, env) ==
  IF env.url # None /\ env.token # None THEN [addr |-> env.url, token |-> env.token]
    ELSE IF file[ch] \in {None, Empty} THEN None ELSE file[ch]

(* Every command of the CLI makes a client; the MCP server makes one when  *)
(* it starts and keeps it.                                                 *)
Connect(c, ch, env) ==
  /\ client[c] = NoSession
  /\ LET to == Endpoint(ch, env) IN
       /\ to # None
       /\ client' = [client EXCEPT ![c] =
            [channel |-> ch, addr |-> to.addr, token |-> to.token,
             via |-> IF env.url # None /\ env.token # None THEN "environment" ELSE "file"]]
  /\ UNCHANGED <<daemon, file, noted, call, last, calm>>

Disconnect(c) ==
  /\ client[c] # NoSession
  /\ client' = [client EXCEPT ![c] = NoSession]
  /\ UNCHANGED <<daemon, file, noted, call, last, calm>>

-----------------------------------------------------------------------------
(* role_of.                                                                *)
Role(d, token) ==
  CASE token = Token(d, "admin") -> "admin"
    [] token = Token(d, "agent") /\ token # Token(d, "admin") -> "agent"
    [] OTHER -> None

Endpoints == {"actions", "request", "status", "approve", "deny", "requests"}

(* Mutant of Allowed: any token of the daemon will do.                     *)
AllowedAny(role, ep) == role # None

Allowed(role, ep) ==
  \/ role = "admin"
  \/ role = "agent" /\ ep \in {"actions", "request", "status"}

(* What a handler answers: the codes of pending requests only to requests. *)
Answer(d, role, ep) ==
  CASE ~Allowed(role, ep) -> "refused"
    [] Allowed(role, ep) /\ ep \in {"approve", "deny"} /\ daemon[d].pending -> "decided"
    [] Allowed(role, ep) /\ ep = "requests" /\ daemon[d].pending -> "codes"
    [] OTHER -> "answered"

(* Whoever listens at the address answers, with a token of its own or not. *)
Call(c, ep) ==
  /\ client[c] # NoSession
  /\ \E d \in Daemon :
       /\ daemon[d].pc = "serving" /\ daemon[d].addr = client[c].addr
       /\ LET answer == Answer(d, Role(d, client[c].token), ep) IN
            /\ call' = [session |-> client[c], by |-> d, answer |-> answer]
            /\ daemon' = CASE answer = "decided" -> [daemon EXCEPT ![d].pending = FALSE]
                           [] answer = "answered" /\ ep = "request" -> [daemon EXCEPT ![d].pending = TRUE]
                           [] OTHER -> daemon
  /\ UNCHANGED <<file, noted, client, last, calm>>

ClientNext ==
  \E c \in Client :
    \/ \E ch \in Channel : \E env \in Environments(ch) : Connect(c, ch, env)
    \/ Disconnect(c)
    \/ \E ep \in Endpoints : Call(c, ep)

DiscoveryNext ==
  DaemonsNext \/ (\E ch \in Channel : NoteUrl(ch) \/ NoteToken(ch)) \/ ClientNext

DiscoverySpec == DiscoveryInit /\ [][DiscoveryNext]_discoveryVars

-----------------------------------------------------------------------------
(* Properties.                                                             *)

(* ipc.rs: the agent's token never sees a code and never decides, whatever *)
(* daemon it was made by or is sent to, and however many there are         *)
(* (list_requests, approve_request, deny_request).                         *)
CodesStayWithOperator ==
  call # None /\ call.answer \in {"codes", "decided"} => call.session.channel = "admin"

(* A client that found its daemon in a file reaches that daemon as long as *)
(* it lives, though other daemons overwrite the file and environments name *)
(* others; and whoever else has the port by then, or is named by an        *)
(* environment, refuses it: only the daemon that made the token answers    *)
(* (client.rs admin and agent, ipc.rs role_of).                            *)
AnsweredByItsDaemon ==
  call # None =>
    /\ call.answer # "refused" => call.by = call.session.token.by
    /\ call.session.via = "file" /\ Listening(call.session.token.by) =>
         call.by = call.session.token.by

(* After a start that no other overlapped, agents and operators find that  *)
(* daemon and each other there, whatever earlier daemons left behind       *)
(* (ipc.rs start).                                                         *)
LastStartIsFound ==
  last # None /\ calm /\ daemon[last].pc = "serving" =>
    \A ch \in Channel : file[ch] = Discovery(last, ch)

(* The invariant behind them, its parts in the order of the proof.         *)
Pcs == {"off", "open", "write", "serving", "gone"}

(* A port is handed out once at a time.                                    *)
DaemonsOK ==
  /\ daemon \in [Daemon -> [pc : Pcs, next : {1, 2}, addr : Addr \cup {None}, pending : BOOLEAN]]
  /\ \A d \in Daemon : (Listening(d) => daemon[d].addr \in Addr) /\ (daemon[d].pc = "off" => daemon[d].next = 1)
  /\ \A d, e \in Daemon :
       Listening(d) /\ Listening(e) /\ daemon[d].addr = daemon[e].addr => d = e

(* A token of the channel that some daemon made when it started.           *)
Made(token, ch) ==
  /\ token \in [by : Daemon, channel : Channel]
  /\ token.channel = ch /\ daemon[token.by].pc # "off"

FilesOK ==
  /\ file \in [Channel -> Content \cup {Empty, None}]
  /\ \A ch \in Channel : file[ch] \in Content =>
       Made(file[ch].token, ch) /\ file[ch].addr = daemon[file[ch].token.by].addr

NotesOK ==
  /\ noted \in [url : Addr \cup {None},
                token : [Channel -> [by : Daemon, channel : Channel] \cup {None}]]
  /\ \A ch \in Channel : noted.token[ch] # None => Made(noted.token[ch], ch)

(* A session has a token of its channel, and if it comes from a file the   *)
(* address of the daemon that made it.                                     *)
SessionOK(s) ==
  /\ s.channel \in Channel /\ s.addr \in Addr
  /\ Made(s.token, s.channel)
  /\ s.via = "file" => s.addr = daemon[s.token.by].addr

SessionsOK ==
  /\ client \in [Client -> [channel : Channel \cup {None}, addr : Addr \cup {None},
                           token : [by : Daemon, channel : Channel] \cup {None},
                           via : {"file", "environment", None}]]
  /\ \A c \in Client : client[c] # NoSession => SessionOK(client[c])

CallOK == call # None => SessionOK(call.session)

LastStartOK ==
  calm /\ last # None =>
    /\ last \in Daemon /\ Listening(last)
    /\ \A e \in Daemon : Starting(e) => e = last
    /\ daemon[last].next = 2 \/ daemon[last].pc = "serving" =>
         file["agent"] = Discovery(last, "agent")
    /\ daemon[last].pc = "serving" => file["admin"] = Discovery(last, "admin")

DiscoveryInv ==
  /\ DaemonsOK /\ FilesOK /\ NotesOK /\ SessionsOK /\ CallOK /\ LastStartOK
  /\ CodesStayWithOperator /\ AnsweredByItsDaemon

-----------------------------------------------------------------------------
(* Not kept by the code: no run expects these to hold (README.md, section  *)
(* 5).                                                                     *)

(* A client sends the token of a daemon to the address of that daemon.     *)
(* Not one whose environment names the address of another: one             *)
(* GUARDIAN_BROKER_URL serves both channels, whatever their tokens.        *)
TokenGoesHome ==
  \A c \in Client : client[c] # NoSession => client[c].addr = daemon[client[c].token.by].addr

(* Agents and operators meet at one daemon, however starts overlap.        *)
ChannelsAgree ==
  \A d, e \in Daemon :
    file["agent"] = Discovery(d, "agent") /\ file["admin"] = Discovery(e, "admin")
      /\ Listening(d) /\ Listening(e) /\ (\A x \in Daemon : ~Starting(x)) => d = e
=============================================================================
