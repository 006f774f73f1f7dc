---------------------------- MODULE PluginServe ----------------------------
(***************************************************************************)
(* The plugin's end of the conversation (plugin/serve.go): one loop reads  *)
(* requests and cancels, each request is handled on a goroutine of its     *)
(* own, and the end of the input gives up on what is in flight and waits   *)
(* for it.  One mutex guards both the table of contexts and the output, so *)
(* a handler writing to a full pipe holds up a cancel.                     *)
(*                                                                         *)
(* What the operations of the plugin's Source do is left to it: write rows *)
(* and return.  The Sleepers return only once their context has ended.     *)
(***************************************************************************)
EXTENDS Naturals, Sequences, FiniteSets

CONSTANTS
  Requests,
  Sleepers,    \* requests whose work never ends by itself
  MaxRows,     \* bound: rows written for one request
  PipeCap,     \* bound: lines in the pipe to the host
  None

ASSUME RequestsAssumption == IsFiniteSet(Requests)
ASSUME SleepersAssumption == Sleepers \subseteq Requests
ASSUME CapsAssumption == MaxRows \in Nat /\ PipeCap \in Nat \ {0}
ASSUME NoneAssumption == None \notin Requests

Lines == [op : {"request", "cancel"}, id : Requests]   \* read by the plugin
Said  == [id : Requests, kind : {"row", "end"}]          \* and written by it

VARIABLES
  input,     \* lines the host has written and the loop has not read
  open,      \* the host has not closed the input
  sent,      \* the requests the host has written, and those it has cancelled
  cancelled,
  loop,      \* ServeOn: "read", "cancel", "give up", "wait" or "returned"
  target,    \* the request the loop is cancelling
  handler,   \* where each request's goroutine is
  kind,      \* what it is writing: "row" or "end"
  mu,        \* c.mu: its holder while writing, or None
  running,   \* c.running
  ended,     \* the contexts that have ended
  busy,      \* c.busy
  output,    \* lines written and not yet read by the host
  written,   \* history: rows and endings written for each request
  endings

loopVars    == <<loop, target>>
handlerVars == <<handler, kind, written, endings>>
hostVars    == <<open, sent, cancelled>>
vars == <<input, hostVars, loopVars, handlerVars, mu, running, ended, busy, output>>

Free == mu = None

Init ==
  /\ input = <<>> /\ open = TRUE /\ sent = {} /\ cancelled = {}
  /\ loop = "read" /\ target = None
  /\ handler = [r \in Requests |-> "none"]
  /\ kind = [r \in Requests |-> "row"]
  /\ mu = None /\ running = {} /\ ended = {} /\ busy = 0
  /\ output = <<>>
  /\ written = [r \in Requests |-> 0] /\ endings = [r \in Requests |-> 0]

(***************************************************************************)
(* The host                                                                *)
(***************************************************************************)
HostRequest(r) ==
  /\ open
  /\ r \notin sent
  /\ sent' = sent \cup {r}
  /\ input' = Append(input, [op |-> "request", id |-> r])
  /\ UNCHANGED <<open, cancelled, loopVars, handlerVars, mu, running, ended, busy, output>>

HostCancel(r) ==
  /\ open
  /\ r \in sent \ cancelled
  /\ cancelled' = cancelled \cup {r}
  /\ input' = Append(input, [op |-> "cancel", id |-> r])
  /\ UNCHANGED <<open, sent, loopVars, handlerVars, mu, running, ended, busy, output>>

HostClose ==
  /\ open
  /\ open' = FALSE
  /\ UNCHANGED <<input, sent, cancelled, loopVars, handlerVars, mu, running, ended, busy,
                 output>>

HostRead ==
  /\ output # <<>>
  /\ output' = Tail(output)
  /\ UNCHANGED <<input, hostVars, loopVars, handlerVars, mu, running, ended, busy>>

(***************************************************************************)
(* The loop of ServeOn                                                     *)
(***************************************************************************)
ReadRequestUncounted ==    \* Mutant: the goroutine counts itself, once it runs
  /\ loop = "read"
  /\ input # <<>> /\ Head(input).op = "request"
  /\ input' = Tail(input)
  /\ handler' = [handler EXCEPT ![Head(input).id] = "spawned"]
  /\ UNCHANGED <<hostVars, loopVars, kind, written, endings, mu, running, ended, busy, output>>

ReadRequest ==
  /\ loop = "read"
  /\ input # <<>> /\ Head(input).op = "request"
  /\ input' = Tail(input)
  /\ busy' = busy + 1
  /\ handler' = [handler EXCEPT ![Head(input).id] = "spawned"]
  /\ UNCHANGED <<hostVars, loopVars, kind, written, endings, mu, running, ended, output>>

ReadCancel ==
  /\ loop = "read"
  /\ input # <<>> /\ Head(input).op = "cancel"
  /\ input' = Tail(input)
  /\ loop' = "cancel" /\ target' = Head(input).id
  /\ UNCHANGED <<hostVars, handlerVars, mu, running, ended, busy, output>>

\* Mutant: the entry is taken out of the table, and its context left as it was.
CancelOnlyForget ==
  /\ loop = "cancel"
  /\ Free
  /\ running' = running \ {target}
  /\ loop' = "read" /\ target' = None
  /\ UNCHANGED <<input, hostVars, handlerVars, mu, ended, busy, output>>

\* cancel: take the context out of the table under the lock, and end it if it was there.
CancelOne ==
  /\ loop = "cancel"
  /\ Free
  /\ running' = running \ {target}
  /\ ended' = ended \cup (running \cap {target})
  /\ loop' = "read" /\ target' = None
  /\ UNCHANGED <<input, hostVars, handlerVars, mu, busy, output>>

InputEnds ==
  /\ loop = "read"
  /\ input = <<>> /\ ~open
  /\ loop' = "give up"
  /\ UNCHANGED <<input, hostVars, target, handlerVars, mu, running, ended, busy, output>>

CancelAll ==
  /\ loop = "give up"
  /\ Free
  /\ ended' = ended \cup running
  /\ running' = {}
  /\ loop' = "wait"
  /\ UNCHANGED <<input, hostVars, target, handlerVars, mu, busy, output>>

Return ==
  /\ loop = "wait"
  /\ busy = 0
  /\ loop' = "returned"
  /\ UNCHANGED <<input, hostVars, target, handlerVars, mu, running, ended, busy, output>>

(***************************************************************************)
(* A request's goroutine: begin, the operation, one ending, end            *)
(***************************************************************************)
Begin(r) ==
  /\ handler[r] = "spawned"
  /\ Free
  /\ running' = running \cup {r}
  /\ handler' = [handler EXCEPT ![r] = "working"]
  /\ UNCHANGED <<input, hostVars, loopVars, kind, written, endings, mu, ended, busy, output>>

\* Browse writes a row or its columns.
WantRow(r) ==
  /\ handler[r] = "working"
  /\ written[r] < MaxRows
  /\ kind' = [kind EXCEPT ![r] = "row"]
  /\ handler' = [handler EXCEPT ![r] = "lock"]
  /\ UNCHANGED <<input, hostVars, loopVars, written, endings, mu, running, ended, busy, output>>

\* The operation returns, and its answer, a failure or a done, is sent.
WantEnd(r) ==
  /\ handler[r] = "working"
  /\ r \in Sleepers => r \in ended
  /\ kind' = [kind EXCEPT ![r] = "end"]
  /\ handler' = [handler EXCEPT ![r] = "lock"]
  /\ UNCHANGED <<input, hostVars, loopVars, written, endings, mu, running, ended, busy, output>>

\* send holds the lock while it writes.
SendLock(r) ==
  /\ handler[r] = "lock"
  /\ Free
  /\ mu' = r
  /\ handler' = [handler EXCEPT ![r] = "write"]
  /\ UNCHANGED <<input, hostVars, loopVars, kind, written, endings, running, ended, busy, output>>

SendWriteOn(r) ==    \* Mutant: a failure is sent without returning after it
  /\ handler[r] = "write"
  /\ Len(output) < PipeCap
  /\ output' = Append(output, [id |-> r, kind |-> kind[r]])
  /\ mu' = None
  /\ handler' = [handler EXCEPT ![r] = "working"]
  /\ IF kind[r] = "row"
     THEN written' = [written EXCEPT ![r] = @ + 1] /\ UNCHANGED endings
     ELSE endings' = [endings EXCEPT ![r] = @ + 1] /\ UNCHANGED written
  /\ UNCHANGED <<input, hostVars, loopVars, kind, running, ended, busy>>

SendWrite(r) ==
  /\ handler[r] = "write"
  /\ Len(output) < PipeCap
  /\ output' = Append(output, [id |-> r, kind |-> kind[r]])
  /\ mu' = None
  /\ IF kind[r] = "row"
     THEN /\ written' = [written EXCEPT ![r] = @ + 1]
          /\ handler' = [handler EXCEPT ![r] = "working"]
          /\ UNCHANGED endings
     ELSE /\ endings' = [endings EXCEPT ![r] = @ + 1]
          /\ handler' = [handler EXCEPT ![r] = "ending"]
          /\ UNCHANGED written
  /\ UNCHANGED <<input, hostVars, loopVars, kind, running, ended, busy>>

\* Mutant: only a request still in the table is taken off the count.
EndIfRunning(r) ==
  /\ handler[r] = "ending"
  /\ Free
  /\ running' = running \ {r}
  /\ ended' = ended \cup (running \cap {r})
  /\ busy' = IF r \in running THEN busy - 1 ELSE busy
  /\ handler' = [handler EXCEPT ![r] = "done"]
  /\ UNCHANGED <<input, hostVars, loopVars, kind, written, endings, mu, output>>

\* The deferred end, then the deferred busy.Done.
End(r) ==
  /\ handler[r] = "ending"
  /\ Free
  /\ running' = running \ {r}
  /\ ended' = ended \cup (running \cap {r})
  /\ busy' = busy - 1
  /\ handler' = [handler EXCEPT ![r] = "done"]
  /\ UNCHANGED <<input, hostVars, loopVars, kind, written, endings, mu, output>>

Handle(r) == Begin(r) \/ WantRow(r) \/ WantEnd(r) \/ SendLock(r) \/ SendWrite(r) \/ End(r)

Next ==
  \/ \E r \in Requests : HostRequest(r) \/ HostCancel(r) \/ Handle(r)
  \/ HostClose \/ HostRead
  \/ ReadRequest \/ ReadCancel \/ CancelOne \/ InputEnds \/ CancelAll \/ Return

\* The plugin's goroutines run, an operation returns (a sleeper's once its context has
\* ended), and the host reads what it is sent.
Fairness ==
  /\ WF_vars(ReadRequest \/ ReadCancel \/ InputEnds) /\ WF_vars(CancelOne \/ CancelAll)
  /\ WF_vars(Return) /\ WF_vars(HostRead)
  /\ \A r \in Requests : /\ WF_vars(Begin(r) \/ SendLock(r) \/ SendWrite(r) \/ End(r))
                         /\ WF_vars(WantEnd(r))

Spec == Init /\ [][Next]_vars /\ Fairness

-----------------------------------------------------------------------------
\* Every variable has its type; only a request that was sent is cancelled, and busy
\* counts no more goroutines than there are requests (conn).
TypeOK ==
  /\ input \in Seq(Lines)
  /\ open \in BOOLEAN /\ sent \subseteq Requests /\ cancelled \subseteq sent
  /\ loop \in {"read", "cancel", "give up", "wait", "returned"}
  /\ target \in Requests \cup {None}
  /\ handler \in [Requests -> {"none", "spawned", "working", "lock", "write", "ending", "done"}]
  /\ kind \in [Requests -> {"row", "end"}]
  /\ mu \in Requests \cup {None} /\ running \subseteq Requests /\ ended \subseteq Requests
  /\ busy \in 0..Cardinality(Requests)
  /\ output \in Seq(Said)
  /\ written \in [Requests -> Nat] /\ endings \in [Requests -> Nat]

\* "Every path ends in exactly one terminating response": a request is ended once, and
\* nothing is left to be written about it when its goroutine is through.
OneEnding ==
  \A r \in Requests :
    endings[r] = IF handler[r] \in {"ending", "done"} THEN 1 ELSE 0

\* "The last of them is written before the plugin ends": ServeOn returns only when
\* every request it read has had its ending.
AnsweredBeforeReturn ==
  loop = "returned" => \A r \in sent : endings[r] = 1

\* A handler holds its place in the table until it is cancelled or through, so that a
\* cancel that comes while it works finds it.
CancellableWhileWorking ==
  \A r \in Requests :
    handler[r] \in {"working", "lock", "write", "ending"} => r \in running \cup ended

\* A request that came into the table after the loop had given up on what was in it:
\* nothing ends its context any more.
Missed == loop = "wait" /\ Sleepers \cap running # {}

\* Once the input has ended the plugin ends, whatever it was doing for whom, unless a
\* request registered too late to be given up on.
Ends == ~open ~> (loop = "returned" \/ Missed)

\* A request's context "ends when the host gives up on the request": a cancel that finds
\* its request brings it to its end, however long its work and whoever holds the output.
CancelEnds ==
  \A r \in Requests :
    (loop = "cancel" /\ target = r /\ r \in running) ~> handler[r] = "done"
=============================================================================
