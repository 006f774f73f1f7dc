---------------------------- MODULE PluginHost -----------------------------
(***************************************************************************)
(* The application's end of the conversation with a plugin process         *)
(* (internal/plugin/host.go, source.go): callers register a request and    *)
(* queue its line, one goroutine writes the plugin's input, one reads its  *)
(* output and hands each line to the caller waiting for it, and finish     *)
(* ends every conversation when any of them sees the end.                  *)
(*                                                                         *)
(* The plugin is a program nobody trusts: having read a request it may say *)
(* anything about it, any number of times, stop reading, or exit.  A line  *)
(* is its number among the lines about that request and whether it ends    *)
(* the answer (an error or done); what else is in it is left out.          *)
(***************************************************************************)
EXTENDS Naturals, Sequences

CONSTANTS
  Calls,       \* the requests made: stream and one
  Quitters,    \* those whose caller may give up before the answer ends
  RowsCap,     \* make(chan plugin.Response, 16)
  OutboxCap,   \* outbox, 64 in the code
  OutputCap,   \* bound: lines in the operating system's pipe from the plugin
  MaxSay,      \* bound: lines the plugin says about one request
  Nobody

ASSUME QuittersAssumption == Quitters \subseteq Calls
ASSUME HostCapsAssumption ==
  /\ RowsCap \in Nat \ {0} /\ OutboxCap \in Nat \ {0}
  /\ OutputCap \in Nat \ {0} /\ MaxSay \in Nat
ASSUME NobodyAssumption == Nobody \notin Calls

Finishers == {"reader", "writer", "closer"}

VARIABLES
  caller,     \* where each request's caller is
  rows,       \* call.rows: the lines in the channel
  shut,       \* the requests whose channel is closed
  waiting,    \* p.waiting
  why,        \* p.why: the conversation has ended
  closing,    \* Close: "open", "asked" (input closed), "gone" (process reaped), "done"
  outbox,     \* p.outbox
  writer,     \* write: "idle", holding a line, or "done"
  reader,     \* read: "scan", holding a line for a caller, "end" or "done"
  ending,     \* what each finish has yet to close
  pipe,       \* the plugin's output, not yet read
  alive,      \* the plugin runs
  listening,  \* the plugin reads its input
  asked,      \* the requests the plugin has read
  said, got,  \* history: lines said about a request, lines its caller took
  crash       \* a panic in a goroutine of the host: "no", "send" or "close"

host   == <<caller, rows, shut, waiting, why, closing, outbox, writer, reader, ending, got>>
plugin == <<pipe, alive, listening, asked, said>>
talkVars   == <<host, plugin, crash>>

Cancel(r)  == [op |-> "cancel", id |-> r]
Request(r) == [op |-> "request", id |-> r]
Scan == [at |-> "scan", id |-> Nobody, n |-> 0, end |-> FALSE]
Line(r, n, end) == [id |-> r, n |-> n, end |-> end]
\* A panic in any goroutine ends the application.
Running == crash = "no"

NoLine == [op |-> "none", id |-> Nobody]

HostInit ==
  /\ caller = [r \in Calls |-> "idle"]
  /\ rows = [r \in Calls |-> <<>>]
  /\ shut = {} /\ waiting = {} /\ why = FALSE
  /\ closing = "open"
  /\ outbox = <<>> /\ writer = [at |-> "idle", line |-> NoLine]
  /\ reader = Scan
  /\ ending = [x \in Finishers |-> {}]
  /\ pipe = <<>> /\ alive = TRUE /\ listening = TRUE /\ asked = {}
  /\ said = [r \in Calls |-> 0] /\ got = [r \in Calls |-> 0]
  /\ crash = "no"

-----------------------------------------------------------------------------
(***************************************************************************)
(* Callers: stream, one and the stream's Next and Close                    *)
(***************************************************************************)

\* stream registers the call, unless the conversation has ended.
Register(r) ==
  /\ Running
  /\ caller[r] = "idle"
  /\ IF why
     THEN caller' = [caller EXCEPT ![r] = "gone"] /\ UNCHANGED waiting
     ELSE caller' = [caller EXCEPT ![r] = "sending"] /\ waiting' = waiting \cup {r}
  /\ UNCHANGED <<rows, shut, why, closing, outbox, writer, reader, ending, got, plugin, crash>>

\* send looks for the reason, then waits for room in the queue, then gives up.
SendCheck(r) ==
  /\ Running
  /\ caller[r] = "sending"
  /\ caller' = [caller EXCEPT ![r] = IF why THEN "leaving" ELSE "queueing"]
  /\ UNCHANGED <<rows, shut, waiting, why, closing, outbox, writer, reader, ending, got,
                 plugin, crash>>

Queue(r) ==
  /\ Running
  /\ caller[r] = "queueing"
  /\ Len(outbox) < OutboxCap
  /\ outbox' = Append(outbox, Request(r))
  /\ caller' = [caller EXCEPT ![r] = "reading"]
  /\ UNCHANGED <<rows, shut, waiting, why, closing, writer, reader, ending, got, plugin, crash>>

SendTimeout(r) ==
  /\ Running
  /\ caller[r] = "queueing"
  /\ Len(outbox) = OutboxCap
  /\ caller' = [caller EXCEPT ![r] = "leaving"]
  /\ UNCHANGED <<rows, shut, waiting, why, closing, outbox, writer, reader, ending, got,
                 plugin, crash>>

\* The caller takes a line, or finds its channel closed.
Receive(r) ==
  /\ Running
  /\ caller[r] = "reading"
  /\ IF rows[r] # <<>>
     THEN /\ rows' = [rows EXCEPT ![r] = Tail(@)]
          /\ got' = [got EXCEPT ![r] = Head(rows[r]).n]
          /\ caller' = [caller EXCEPT ![r] = IF Head(rows[r]).end THEN "leaving" ELSE @]
     ELSE /\ r \in shut
          /\ caller' = [caller EXCEPT ![r] = "leaving"]
          /\ UNCHANGED <<rows, got>>
  /\ UNCHANGED <<shut, waiting, why, closing, outbox, writer, reader, ending, plugin, crash>>

\* Its context ends, or a grid closes a stream it has read enough of.
GiveUp(r) ==
  /\ Running
  /\ r \in Quitters
  /\ caller[r] = "reading"
  /\ caller' = [caller EXCEPT ![r] = "leaving"]
  /\ UNCHANGED <<rows, shut, waiting, why, closing, outbox, writer, reader, ending, got,
                 plugin, crash>>

\* stop: nobody waits any more, and the plugin is told if the queue has room.
Stop(r) ==
  /\ Running
  /\ caller[r] = "leaving"
  /\ caller' = [caller EXCEPT ![r] = "gone"]
  /\ waiting' = waiting \ {r}
  /\ outbox' = IF r \in waiting /\ Len(outbox) < OutboxCap
               THEN Append(outbox, Cancel(r)) ELSE outbox
  /\ UNCHANGED <<rows, shut, why, closing, writer, reader, ending, got, plugin, crash>>

-----------------------------------------------------------------------------
(***************************************************************************)
(* finish takes the calls waiting under the lock and closes their channels *)
(* outside it.                                                             *)
(***************************************************************************)
Finish(x) ==
  /\ why' = TRUE
  /\ ending' = [ending EXCEPT ![x] = waiting]
  /\ waiting' = {}

CloseRows(x) ==
  \E r \in ending[x] :
    /\ Running
    /\ ending' = [ending EXCEPT ![x] = @ \ {r}]
    /\ shut' = shut \cup {r}
    /\ crash' = IF r \in shut THEN "close" ELSE crash
    /\ UNCHANGED <<caller, rows, waiting, why, closing, outbox, writer, reader, got, plugin>>

(***************************************************************************)
(* write                                                                   *)
(***************************************************************************)
WriterTake ==
  /\ Running
  /\ writer.at = "idle"
  /\ outbox # <<>>
  /\ writer' = [at |-> "write", line |-> Head(outbox)]
  /\ outbox' = Tail(outbox)
  /\ UNCHANGED <<caller, rows, shut, waiting, why, closing, reader, ending, got, plugin, crash>>

WriterWrite ==
  /\ Running
  /\ writer.at = "write"
  /\ alive /\ listening /\ closing = "open"
  /\ writer' = [at |-> "idle", line |-> NoLine]
  /\ asked' = IF writer.line.op = "request" THEN asked \cup {writer.line.id} ELSE asked
  /\ UNCHANGED <<caller, rows, shut, waiting, why, closing, outbox, reader, ending, got,
                 pipe, alive, listening, said, crash>>

\* The pipe is broken: the plugin has gone, or Close has closed its input.
WriterFail ==
  /\ Running
  /\ writer.at = "write"
  /\ ~alive \/ closing # "open"
  /\ writer' = [at |-> "done", line |-> NoLine]
  /\ Finish("writer")
  /\ UNCHANGED <<caller, rows, shut, closing, outbox, reader, got, plugin, crash>>

(***************************************************************************)
(* read                                                                    *)
(***************************************************************************)
ReaderScanStrict ==    \* Mutant: an answer nobody waits for ends the reading
  /\ Running
  /\ reader.at = "scan"
  /\ pipe # <<>>
  /\ pipe' = Tail(pipe)
  /\ reader' = LET l == Head(pipe)
               IN IF l.id \in waiting
                  THEN [at |-> "send", id |-> l.id, n |-> l.n, end |-> l.end]
                  ELSE [Scan EXCEPT !.at = "end"]
  /\ UNCHANGED <<caller, rows, shut, waiting, why, closing, outbox, writer, ending, got,
                 alive, listening, asked, said, crash>>

ReaderScan ==
  /\ Running
  /\ reader.at = "scan"
  /\ pipe # <<>>
  /\ pipe' = Tail(pipe)
  /\ reader' = LET l == Head(pipe)
               IN IF l.id \in waiting
                  THEN [at |-> "send", id |-> l.id, n |-> l.n, end |-> l.end]
                  ELSE reader
  /\ UNCHANGED <<caller, rows, shut, waiting, why, closing, outbox, writer, ending, got,
                 alive, listening, asked, said, crash>>

\* Mutant: a line for a caller that is behind takes the place of those it has not taken.
ReaderSendNow ==
  /\ Running
  /\ reader.at = "send" /\ reader.id \notin shut
  /\ rows' = LET line == [n |-> reader.n, end |-> reader.end]
             IN [rows EXCEPT ![reader.id] = IF Len(@) < RowsCap THEN Append(@, line) ELSE <<line>>]
  /\ reader' = Scan
  /\ UNCHANGED <<caller, shut, waiting, why, closing, outbox, writer, ending, got, plugin, crash>>

\* c.rows <- res waits for room, and panics if finish has closed the channel.
ReaderSend ==
  /\ Running
  /\ reader.at = "send"
  /\ IF reader.id \in shut
     THEN crash' = "send" /\ UNCHANGED <<rows, reader>>
     ELSE /\ Len(rows[reader.id]) < RowsCap
          /\ rows' = [rows EXCEPT ![reader.id] = Append(@, [n |-> reader.n, end |-> reader.end])]
          /\ reader' = Scan
          /\ UNCHANGED crash
  /\ UNCHANGED <<caller, shut, waiting, why, closing, outbox, writer, ending, got, plugin>>

ReaderEndQuietly ==    \* Mutant: the end of the output tells nobody
  /\ Running
  /\ reader.at = "scan"
  /\ pipe = <<>> /\ ~alive
  /\ reader' = [Scan EXCEPT !.at = "end"]
  /\ UNCHANGED <<caller, rows, shut, waiting, why, closing, outbox, writer, ending, got,
                 plugin, crash>>

ReaderEnd ==
  /\ Running
  /\ reader.at = "scan"
  /\ pipe = <<>> /\ ~alive
  /\ reader' = [Scan EXCEPT !.at = "end"]
  /\ Finish("reader")
  /\ UNCHANGED <<caller, rows, shut, closing, outbox, writer, got, plugin, crash>>

(***************************************************************************)
(* Close: ask, wait or kill, then end every conversation.  Waiting for the *)
(* process closes our end of its output, and what was left in it is lost.  *)
(***************************************************************************)
CloseAsk ==
  /\ Running
  /\ closing = "open"
  /\ closing' = "asked"
  /\ UNCHANGED <<caller, rows, shut, waiting, why, outbox, writer, reader, ending, got,
                 plugin, crash>>

CloseReaped ==
  /\ Running
  /\ closing = "asked"
  /\ alive' = FALSE           \* it ended itself, or was killed
  /\ pipe' = <<>>
  /\ closing' = "gone"
  /\ UNCHANGED <<caller, rows, shut, waiting, why, outbox, writer, reader, ending, got,
                 listening, asked, said, crash>>

CloseFinish ==
  /\ Running
  /\ closing = "gone"
  /\ closing' = "done"
  /\ Finish("closer")
  /\ UNCHANGED <<caller, rows, shut, outbox, writer, reader, got, plugin, crash>>

(***************************************************************************)
(* The plugin                                                              *)
(***************************************************************************)
Say(r, end) ==
  /\ Running
  /\ alive
  /\ r \in asked
  /\ said[r] < MaxSay /\ Len(pipe) < OutputCap
  /\ said' = [said EXCEPT ![r] = @ + 1]
  /\ pipe' = Append(pipe, Line(r, said[r] + 1, end))
  /\ UNCHANGED <<host, alive, listening, asked, crash>>

StopListening ==
  /\ Running
  /\ alive /\ listening
  /\ listening' = FALSE
  /\ UNCHANGED <<host, pipe, alive, asked, said, crash>>

Exit ==
  /\ Running
  /\ alive
  /\ alive' = FALSE
  /\ UNCHANGED <<host, pipe, listening, asked, said, crash>>

CallerStep(r) ==
  \/ Register(r) \/ SendCheck(r) \/ Queue(r) \/ SendTimeout(r)
  \/ Receive(r) \/ GiveUp(r) \/ Stop(r)

HostNext ==
  \/ \E r \in Calls : CallerStep(r)
  \/ \E x \in Finishers : CloseRows(x)
  \/ WriterTake \/ WriterWrite \/ WriterFail
  \/ ReaderScan \/ ReaderSend \/ ReaderEnd
  \/ CloseAsk \/ CloseReaped \/ CloseFinish
  \/ \E r \in Calls, end \in BOOLEAN : Say(r, end)
  \/ StopListening \/ Exit

\* Every goroutine of the host runs, a caller that still waits keeps receiving, and a
\* Close that has begun goes on.  The plugin owes nothing, and nobody has to give up.
HostFairness ==
  /\ WF_talkVars(ReaderScan) /\ WF_talkVars(ReaderSend) /\ WF_talkVars(ReaderEnd)
  /\ WF_talkVars(WriterTake) /\ WF_talkVars(WriterFail)
  /\ \A x \in Finishers : WF_talkVars(CloseRows(x))
  /\ \A r \in Calls : /\ WF_talkVars(SendCheck(r))
                      /\ WF_talkVars(Queue(r) \/ SendTimeout(r))
                      /\ WF_talkVars(Receive(r)) /\ WF_talkVars(Stop(r))
  /\ WF_talkVars(CloseReaped \/ CloseFinish)

HostSpec == HostInit /\ [][HostNext]_talkVars /\ HostFairness

-----------------------------------------------------------------------------
\* Every variable has its type, and no channel holds more than it was made for (rows,
\* outbox in newProcess and stream).
HostTypeOK ==
  /\ caller \in [Calls -> {"idle", "sending", "queueing", "reading", "leaving", "gone"}]
  /\ rows \in [Calls -> Seq([n : Nat, end : BOOLEAN])]
  /\ \A r \in Calls : Len(rows[r]) <= RowsCap
  /\ shut \subseteq Calls /\ waiting \subseteq Calls /\ why \in BOOLEAN
  /\ closing \in {"open", "asked", "gone", "done"}
  /\ outbox \in Seq([op : {"request", "cancel"}, id : Calls]) /\ Len(outbox) <= OutboxCap
  /\ writer \in [at : {"idle", "write", "done"},
                 line : [op : {"request", "cancel"}, id : Calls] \cup {NoLine}]
  /\ reader \in [at : {"scan", "send", "end"}, id : Calls \cup {Nobody}, n : Nat,
                 end : BOOLEAN]
  /\ ending \in [Finishers -> SUBSET Calls]
  /\ pipe \in Seq([id : Calls, n : Nat, end : BOOLEAN])
  /\ alive \in BOOLEAN /\ listening \in BOOLEAN /\ asked \subseteq Calls
  /\ said \in [Calls -> Nat] /\ got \in [Calls -> Nat]
  /\ crash \in {"no", "send", "close"}

\* The places in the pipe of the lines about a request.
PlacesOf(r) == {i \in DOMAIN pipe : pipe[i].id = r}

\* The last line about a request that is out of the pipe: in its channel, or held by the reader.
Holds(r) == reader.at = "send" /\ reader.id = r
LastOut(r) == got[r] + Len(rows[r]) + (IF Holds(r) THEN 1 ELSE 0)

\* Whoever is still waiting gets every line the plugin said about the request, once and
\* in the order it was said, whatever else the plugin says and whoever else gives up: the
\* channel holds the lines after the last one taken, the reader the next, the pipe all
\* those after, one behind the other.
InOrder ==
  \A r \in waiting :
    closing \in {"open", "asked"} =>
      /\ \A i \in DOMAIN rows[r] : rows[r][i].n = got[r] + i
      /\ Holds(r) => reader.n = LastOut(r)
      /\ {pipe[i].n : i \in PlacesOf(r)} = (LastOut(r) + 1)..said[r]
      /\ \A i, j \in PlacesOf(r) : i < j => pipe[i].n < pipe[j].n

\* "finish ends every conversation, once": however many goroutines see the end, no
\* channel is closed twice.
ClosedOnce == crash # "close" /\ \A x, y \in Finishers : x # y => ending[x] \cap ending[y] = {}

\* Where a request is, for its caller.
Stage(r) ==
  CASE caller[r] = "idle" -> "idle"
    [] caller[r] \in {"leaving", "gone"} -> "over"
    [] OTHER -> "open"

Promise == INSTANCE Conversation WITH stage <- [r \in Calls |-> Stage(r)]

\* Whoever reads an answer is given its lines in turn, none twice and none passed over,
\* also when the process has ended or is being closed and its channel is about to be; once
\* it has left or was told of the end it is given no more.
AnswersInTurn == Promise!Spec

\* What the plugin has said to a caller that waits reaches it, unless the reader is
\* held by a caller that has left (see AbandonedLineIsDropped).
InPipe(r) == \E i \in DOMAIN pipe : pipe[i].id = r
Abandoned == reader.at = "send" /\ reader.id \notin waiting
Delivered ==
  \A r \in Calls :
    (r \in waiting /\ InPipe(r)) ~> (r \notin waiting \/ ~InPipe(r) \/ Abandoned \/ ~Running)

\* Once the plugin has gone, every caller is told so.
EveryoneIsTold ==
  \A r \in Calls :
    (~alive /\ caller[r] = "reading")
      ~> (caller[r] # "reading" \/ Abandoned \/ ~Running)

\* "An answer to a request nobody is waiting for" is "dropped": the reader does not
\* stay with a line whose caller has left.
AbandonedLineIsDropped ==
  Abandoned ~> (~Abandoned \/ ~Running)

\* The application survives whatever a plugin does and whenever it is closed: the reader
\* never sends on a channel finish has closed.
NoSendOnClosed == crash # "send"
=============================================================================
