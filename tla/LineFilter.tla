----------------------------- MODULE LineFilter -----------------------------
(***************************************************************************)
(* What the context gateway promises about the lines of an MCP server,     *)
(* whatever its threads do: each one reaches the harness at most once, in  *)
(* order, as one line that stands for it, and not before it is over.  What *)
(* may stand for a line, and how an unfinished one goes on, is said where  *)
(* the lines are: ContextGateway.                                          *)
(***************************************************************************)
EXTENDS Naturals, Sequences

CONSTANTS
  Lines,            \* what an MCP server may write, finished or not
  Unfinished(_),    \* whether the line has no end yet
  Joined(_, _),     \* an unfinished line with what is written after it
  Stands(_, _)      \* whether the first may be passed on for the second

VARIABLES
  said,             \* the lines the server wrote
  out               \* the lines passed on

vars == <<said, out>>

Init == said = <<>> /\ out = <<>>

Open == said # <<>> /\ Unfinished(said[Len(said)])

Say ==
  /\ ~Open
  /\ UNCHANGED out
  /\ \E line \in Lines : said' = Append(said, line)

(* What has been passed on is over.                                        *)
Continue ==
  /\ Open /\ Len(out) < Len(said)
  /\ UNCHANGED out
  /\ \E line \in Lines : said' = [said EXCEPT ![Len(said)] = Joined(@, line)]

Pass ==
  /\ UNCHANGED said
  /\ Len(out') = Len(out) + 1 /\ Len(out') <= Len(said)
  /\ SubSeq(out', 1, Len(out)) = out
  /\ Stands(out'[Len(out')], said[Len(out')])

Spec == Init /\ [][Say \/ Continue \/ Pass]_vars
=============================================================================
