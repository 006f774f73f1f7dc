---------------------------- MODULE Plugin_proofs ----------------------------
(***************************************************************************)
(* What holds of both ends of the conversation, for any number of          *)
(* requests and lines.  Of the plugin's: its variables keep their types,   *)
(* each request is ended once, and the plugin does not return before the   *)
(* last ending was written.  Of the host's: no queue outgrows its size, no *)
(* conversation is ended twice, a caller that waits gets every line said   *)
(* to it, in order, whatever the plugin does, and none that waits is       *)
(* forgotten when the conversation ends.                                   *)
(***************************************************************************)
EXTENDS PluginServe, PluginHost, FiniteSetTheorems, TLAPS

AtWork == {"spawned", "working", "lock", "write", "ending"}

\* The requests whose goroutines the loop waits for.
Active == {r \in Requests : handler[r] \in AtWork}

\* The type invariant without the bound of busy.
Types ==
  /\ input \in Seq(Lines)
  /\ open \in BOOLEAN /\ sent \subseteq Requests /\ cancelled \subseteq sent
  /\ loop \in {"read", "cancel", "give up", "wait", "returned"}
  /\ target \in Requests \cup {None}
  /\ handler \in [Requests -> {"none", "spawned", "working", "lock", "write", "ending", "done"}]
  /\ kind \in [Requests -> {"row", "end"}]
  /\ mu \in Requests \cup {None} /\ running \subseteq Requests /\ ended \subseteq Requests
  /\ busy \in Nat
  /\ output \in Seq(Said)
  /\ written \in [Requests -> Nat] /\ endings \in [Requests -> Nat]

\* A request waits in the input once, until its goroutine is started.
Waiting(i, r) == i \in 1..Len(input) /\ input[i].op = "request" /\ input[i].id = r

Queued ==
  /\ \A i \in 1..Len(input) :
       input[i].op = "request" => input[i].id \in sent /\ handler[input[i].id] = "none"
  /\ \A i, j \in 1..Len(input) :
       (input[i].op = "request" /\ input[j].op = "request" /\ input[i].id = input[j].id) => i = j
  /\ \A r \in Requests : r \notin sent => handler[r] = "none"
  /\ \A r \in sent : handler[r] = "none" => \E i \in 1..Len(input) : Waiting(i, r)

\* Once the loop has left off reading there is nothing left to read.
InputOver ==
  /\ loop \in {"give up", "wait", "returned"} => input = <<>> /\ ~open
  /\ loop = "returned" => Active = {}

CountInv == busy = Cardinality(Active)

Inv == Types /\ Queued /\ CountInv /\ InputOver

\* There are finitely many of them.
LEMMA ActiveFinite == IsFiniteSet(Active)
BY RequestsAssumption, FS_Subset DEF Active

\* A line is added at the end of a sequence of lines.
LEMMA Appended ==
  ASSUME NEW S, NEW s \in Seq(S), NEW e \in S
  PROVE  /\ Append(s, e) \in Seq(S) /\ Len(Append(s, e)) = Len(s) + 1
         /\ Append(s, e)[Len(s) + 1] = e
         /\ \A i \in 1..Len(s) : Append(s, e)[i] = s[i]
  OBVIOUS

\* A line is taken from the front of one.
LEMMA Taken ==
  ASSUME NEW S, NEW s \in Seq(S), s # <<>>
  PROVE  /\ Tail(s) \in Seq(S) /\ Head(s) \in S /\ Head(s) = s[1]
         /\ Len(s) >= 1 /\ Len(Tail(s)) = Len(s) - 1
         /\ \A i \in 1..Len(Tail(s)) : Tail(s)[i] = s[i + 1]
  OBVIOUS

\* What waits in the input is a line about a request.
LEMMA LinesOf ==
  ASSUME Types
  PROVE  Len(input) \in Nat /\ \A i \in 1..Len(input) : input[i] \in Lines /\ input[i].id \in Requests
<1>1. input \in Seq(Lines)
  BY DEF Types
<1>2. Len(input) \in Nat /\ \A i \in 1..Len(input) : input[i] \in Lines
  BY <1>1
<1> QED
  BY <1>2 DEF Lines

\* A plugin starts with its types.
LEMMA TypesInit == Init => Types
BY DEF Init, Types

-----------------------------------------------------------------------------
(***************************************************************************)
(* The types                                                               *)
(***************************************************************************)
\* The number of a goroutine that ends was counted.
LEMMA Counted ==
  ASSUME CountInv, NEW r \in Requests, handler[r] \in AtWork
  PROVE  busy \in Nat \ {0}
<1>1. r \in Active
  BY DEF Active
<1>2. Cardinality(Active) # 0 /\ Cardinality(Active) \in Nat
  BY <1>1, ActiveFinite, FS_EmptySet, FS_CardinalityType
<1> QED
  BY <1>2 DEF CountInv

\* Every step keeps the types; only End needs to know that busy counts it.
LEMMA TypesStep == Types /\ CountInv /\ [Next]_vars => Types'
<1> SUFFICES ASSUME Types, CountInv, [Next]_vars PROVE Types'
  OBVIOUS
<1> USE DEF loopVars, handlerVars, hostVars
<1>0. input \in Seq(Lines) /\ output \in Seq(Said) /\ busy \in Nat
  BY DEF Types
<1>1. ASSUME NEW r \in Requests, HostRequest(r) PROVE Types'
  <2>1. [op |-> "request", id |-> r] \in Lines
    BY DEF Lines
  <2>2. input' \in Seq(Lines)
    BY <1>0, <1>1, <2>1, Appended DEF HostRequest
  <2> QED
    BY <1>1, <2>2 DEF HostRequest, Types
<1>2. ASSUME NEW r \in Requests, HostCancel(r) PROVE Types'
  <2>1. [op |-> "cancel", id |-> r] \in Lines
    BY DEF Lines
  <2>2. input' \in Seq(Lines)
    BY <1>0, <1>2, <2>1, Appended DEF HostCancel
  <2> QED
    BY <1>2, <2>2 DEF HostCancel, Types
<1>3. CASE HostClose \/ InputEnds \/ Return
  BY <1>3 DEF HostClose, InputEnds, Return, Types
<1>4. CASE CancelAll
  BY <1>4 DEF CancelAll, Types
<1>5. CASE HostRead
  <2>1. output' \in Seq(Said)
    BY <1>0, <1>5, Taken DEF HostRead
  <2> QED
    BY <1>5, <2>1 DEF HostRead, Types
<1>6. ASSUME input # <<>> PROVE Tail(input) \in Seq(Lines) /\ Head(input).id \in Requests
  <2>1. Tail(input) \in Seq(Lines) /\ Head(input) \in Lines
    BY <1>0, <1>6, Taken
  <2> QED
    BY <2>1 DEF Lines
<1>7. CASE ReadRequest
  <2>1. input' \in Seq(Lines) /\ busy' \in Nat
    BY <1>0, <1>6, <1>7 DEF ReadRequest
  <2> QED
    BY <1>6, <1>7, <2>1 DEF ReadRequest, Types
<1>8. CASE ReadCancel
  <2>1. input' \in Seq(Lines) /\ target' \in Requests
    BY <1>6, <1>8 DEF ReadCancel
  <2> QED
    BY <1>8, <2>1 DEF ReadCancel, Types
<1>9. CASE CancelOne
  BY <1>9 DEF CancelOne, Types
<1>10. ASSUME NEW r \in Requests, Begin(r) \/ WantRow(r) \/ WantEnd(r) \/ SendLock(r) PROVE Types'
  BY <1>10 DEF Begin, WantRow, WantEnd, SendLock, Types
<1>11. ASSUME NEW r \in Requests, SendWrite(r) PROVE Types'
  <2>1. [id |-> r, kind |-> kind[r]] \in Said
    BY DEF Types, Said
  <2>2. output' \in Seq(Said)
    BY <1>0, <1>11, <2>1, Appended DEF SendWrite
  <2>3. /\ \/ handler' = [handler EXCEPT ![r] = "working"]
           \/ handler' = [handler EXCEPT ![r] = "ending"]
        /\ written' = [written EXCEPT ![r] = @ + 1] \/ written' = written
        /\ endings' = [endings EXCEPT ![r] = @ + 1] \/ endings' = endings
    BY <1>11 DEF SendWrite
  <2>4. written' \in [Requests -> Nat] /\ endings' \in [Requests -> Nat]
    <3>1. written \in [Requests -> Nat] /\ endings \in [Requests -> Nat]
      BY DEF Types
    <3>2. written[r] + 1 \in Nat /\ endings[r] + 1 \in Nat
      BY <3>1
    <3> QED
      BY <2>3, <3>1, <3>2
  <2>5. handler' \in [Requests -> {"none", "spawned", "working", "lock", "write", "ending", "done"}]
    BY <2>3 DEF Types
  <2>6. UNCHANGED <<input, open, sent, cancelled, loop, target, kind, running, ended, busy>> /\ mu' = None
    BY <1>11 DEF SendWrite
  <2> QED
    BY <2>2, <2>4, <2>5, <2>6 DEF Types
<1>12. ASSUME NEW r \in Requests, End(r) PROVE Types'
  <2>1. handler[r] \in AtWork
    BY <1>12 DEF End, AtWork
  <2>2. busy \in Nat \ {0}
    BY <2>1, Counted
  <2>3. busy' \in Nat
    BY <1>12, <2>2 DEF End
  <2> QED
    BY <1>12, <2>3 DEF End, Types
<1>13. CASE UNCHANGED vars
  BY <1>13 DEF vars, Types
<1> QED
  BY <1>1, <1>2, <1>3, <1>4, <1>5, <1>7, <1>8, <1>9, <1>10, <1>11, <1>12, <1>13 DEF Next, Handle

-----------------------------------------------------------------------------
(***************************************************************************)
(* What waits in the input, and what is counted                            *)
(***************************************************************************)
\* A request's goroutine goes on: it was and is no request that waits.
LEMMA HandlerMoves ==
  ASSUME Types, Queued, NEW r \in Requests, NEW to, handler[r] # "none", to # "none",
         handler' = [handler EXCEPT ![r] = to], UNCHANGED <<input, sent>>
  PROVE  Queued'
<1>0. \A s \in Requests : handler'[s] = IF s = r THEN to ELSE handler[s]
  <2>1. DOMAIN handler = Requests
    BY DEF Types
  <2> QED
    BY <2>1
<1>1. \A s \in Requests : /\ handler'[s] = "none" => handler[s] = "none"
                          /\ handler[s] = "none" => handler'[s] = "none"
  BY <1>0
<1>2. \A i \in 1..Len(input) : input[i].id \in Requests
  BY LinesOf
<1>3. \A s \in sent : s \in Requests
  BY DEF Types
<1> QED
  BY <1>1, <1>2, <1>3 DEF Queued, Waiting

\* Every step keeps what is said of the requests that wait.
LEMMA QueuedStep == Types /\ Queued /\ [Next]_vars => Queued'
<1> SUFFICES ASSUME Types, Queued, [Next]_vars PROVE Queued'
  OBVIOUS
<1> USE DEF loopVars, handlerVars, hostVars
<1>0. /\ Len(input) \in Nat /\ sent \subseteq Requests
      /\ \A i \in 1..Len(input) : input[i].id \in Requests
      /\ input \in Seq(Lines) /\ DOMAIN handler = Requests
  BY LinesOf DEF Types
<1>1. ASSUME NEW r \in Requests, HostRequest(r) \/ HostCancel(r) PROVE Queued'
  <2>1. PICK line \in Lines :
          /\ input' = Append(input, line) /\ line.id = r
          /\ \/ line.op = "request" /\ r \notin sent /\ sent' = sent \cup {r}
             \/ line.op = "cancel" /\ sent' = sent
    BY <1>1 DEF HostRequest, HostCancel, Lines
  <2>2. /\ Len(input') = Len(input) + 1 /\ input'[Len(input) + 1] = line
        /\ \A i \in 1..Len(input) : input'[i] = input[i]
    BY <1>0, <2>1, Appended
  <2>3. \A i \in 1..Len(input') : i \in 1..Len(input) \/ i = Len(input) + 1
    BY <1>0, <2>2
  <2>4. \A i \in 1..Len(input) : i \in 1..Len(input')
    BY <1>0, <2>2
  <2>5. handler' = handler /\ Len(input) + 1 \in 1..Len(input')
    BY <1>0, <1>1, <2>2 DEF HostRequest, HostCancel
  <2>6. \A i \in 1..Len(input') :
          input'[i].op = "request" => input'[i].id \in sent' /\ handler'[input'[i].id] = "none"
    BY <2>1, <2>2, <2>3, <2>5 DEF Queued
  <2>7. \A i, j \in 1..Len(input') :
          (input'[i].op = "request" /\ input'[j].op = "request" /\ input'[i].id = input'[j].id) => i = j
    BY <2>1, <2>2, <2>3 DEF Queued
  <2>8. \A s \in Requests : s \notin sent' => handler'[s] = "none"
    BY <2>1, <2>5 DEF Queued
  <2>9. \A s \in sent' : handler'[s] = "none" => \E i \in 1..Len(input') : Waiting(i, s)'
    <3> SUFFICES ASSUME NEW s \in sent', handler'[s] = "none" PROVE \E i \in 1..Len(input') : Waiting(i, s)'
      OBVIOUS
    <3>1. CASE s \in sent
      BY <2>2, <2>4, <2>5, <3>1 DEF Queued, Waiting
    <3>2. CASE s \notin sent
      BY <2>1, <2>2, <2>5, <3>2 DEF Waiting
    <3> QED
      BY <3>1, <3>2
  <2> QED
    BY <2>6, <2>7, <2>8, <2>9 DEF Queued
<1>2. CASE ReadRequest \/ ReadCancel
  <2>1. /\ input' = Tail(input) /\ sent' = sent /\ input # <<>>
    BY <1>2 DEF ReadRequest, ReadCancel
  <2>2. /\ Len(input') = Len(input) - 1 /\ Len(input) >= 1
        /\ \A i \in 1..Len(input') : input'[i] = input[i + 1]
    BY <1>0, <2>1, Taken
  <2>3. \A i \in 1..Len(input') : i + 1 \in 1..Len(input) /\ i + 1 # 1
    BY <1>0, <2>2
  <2>4. Head(input) = input[1] /\ 1 \in 1..Len(input)
    BY <1>0, <2>1, <2>2, Taken
  <2>5. \A s \in Requests :
          handler'[s] = IF input[1].op = "request" /\ s = input[1].id THEN "spawned" ELSE handler[s]
    BY <1>0, <1>2, <2>4 DEF ReadRequest, ReadCancel
  <2>6. \A i \in 1..Len(input') :
          input'[i].op = "request" => input'[i].id \in sent' /\ handler'[input'[i].id] = "none"
    BY <1>0, <2>1, <2>2, <2>3, <2>4, <2>5 DEF Queued
  <2>7. \A i, j \in 1..Len(input') :
          (input'[i].op = "request" /\ input'[j].op = "request" /\ input'[i].id = input'[j].id) => i = j
    <3> SUFFICES ASSUME NEW i \in 1..Len(input'), NEW j \in 1..Len(input'),
                        input'[i].op = "request", input'[j].op = "request", input'[i].id = input'[j].id
                 PROVE  i = j
      OBVIOUS
    <3>1. i + 1 = j + 1
      BY <2>2, <2>3 DEF Queued
    <3> QED
      BY <3>1
  <2>8. \A s \in Requests : s \notin sent' => handler'[s] = "none"
    BY <2>1, <2>4, <2>5 DEF Queued
  <2>9. \A s \in sent' : handler'[s] = "none" => \E i \in 1..Len(input') : Waiting(i, s)'
    <3> SUFFICES ASSUME NEW s \in sent', handler'[s] = "none" PROVE \E i \in 1..Len(input') : Waiting(i, s)'
      OBVIOUS
    <3>1. s \in sent /\ handler[s] = "none" /\ ~(input[1].op = "request" /\ s = input[1].id)
      BY <1>0, <2>1, <2>5
    <3>2. PICK k \in 1..Len(input) : input[k].op = "request" /\ input[k].id = s
      BY <3>1 DEF Queued, Waiting
    <3>3. k # 1
      BY <3>1, <3>2
    <3>4. k - 1 \in 1..Len(input') /\ (k - 1) + 1 = k
      BY <1>0, <2>2, <3>3
    <3>5. input'[k - 1] = input[k]
      BY <2>2, <3>4
    <3> QED
      BY <3>2, <3>4, <3>5 DEF Waiting
  <2> QED
    BY <2>6, <2>7, <2>8, <2>9 DEF Queued
<1>3. ASSUME NEW r \in Requests, Handle(r) PROVE Queued'
  <2>1. UNCHANGED <<input, sent>> /\ handler[r] # "none"
    BY <1>3 DEF Handle, Begin, WantRow, WantEnd, SendLock, SendWrite, End
  <2>2. \E to \in AtWork \cup {"done"} : handler' = [handler EXCEPT ![r] = to]
    BY <1>3 DEF Handle, Begin, WantRow, WantEnd, SendLock, SendWrite, End, AtWork
  <2> QED
    BY <2>1, <2>2, HandlerMoves DEF AtWork
<1>4. CASE HostClose \/ HostRead \/ CancelOne \/ InputEnds \/ CancelAll \/ Return \/ UNCHANGED vars
  <2>1. UNCHANGED <<input, sent, handler>>
    BY <1>4 DEF HostClose, HostRead, CancelOne, InputEnds, CancelAll, Return, vars
  <2> QED
    BY <2>1 DEF Queued, Waiting
<1> QED
  BY <1>1, <1>2, <1>3, <1>4 DEF Next

\* A handler's step: its goroutine was at work, and whoever else's stays as it is.
LEMMA HandlerSteps ==
  ASSUME Types, NEW r \in Requests, Handle(r)
  PROVE  /\ handler[r] \in AtWork
         /\ handler'[r] \in AtWork \/ (End(r) /\ handler[r] = "ending" /\ handler'[r] = "done")
         /\ DOMAIN handler' = Requests
         /\ \A s \in Requests : s # r => handler'[s] = handler[s]
<1>1. DOMAIN handler = Requests
  BY DEF Types
<1>2. handler[r] \in AtWork
  BY DEF Handle, Begin, WantRow, WantEnd, SendLock, SendWrite, End, AtWork
<1>3. \/ \E to \in AtWork : handler' = [handler EXCEPT ![r] = to]
      \/ End(r) /\ handler[r] = "ending" /\ handler' = [handler EXCEPT ![r] = "done"]
  BY DEF Handle, Begin, WantRow, WantEnd, SendLock, SendWrite, End, AtWork
<1>4. ASSUME NEW to, handler' = [handler EXCEPT ![r] = to]
      PROVE  /\ handler'[r] = to /\ DOMAIN handler' = Requests
             /\ \A s \in Requests : s # r => handler'[s] = handler[s]
  BY <1>1, <1>4
<1>5. PICK to \in AtWork \cup {"done"} : handler' = [handler EXCEPT ![r] = to]
  BY <1>3
<1>6. DOMAIN handler' = Requests /\ \A s \in Requests : s # r => handler'[s] = handler[s]
  BY <1>1, <1>5
<1>7. handler'[r] \in AtWork \/ (End(r) /\ handler[r] = "ending" /\ handler'[r] = "done")
  BY <1>3, <1>4
<1> QED
  BY <1>2, <1>6, <1>7

\* A request that is read starts the goroutine of one that had none.
LEMMA ReadStarts ==
  ASSUME Types, Queued, ReadRequest
  PROVE  \E h \in Requests : /\ handler[h] = "none"
                             /\ handler' = [handler EXCEPT ![h] = "spawned"]
<1>1. input \in Seq(Lines) /\ input # <<>>
  BY DEF Types, ReadRequest
<1>2. Head(input) = input[1] /\ Len(input) \in Nat /\ Len(input) >= 1
  BY <1>1, Taken
<1>3. 1 \in 1..Len(input)
  BY <1>2
<1>4. input[1].id \in Requests /\ input[1].op = "request"
  BY <1>2, <1>3, LinesOf DEF ReadRequest
<1>5. handler[input[1].id] = "none"
  BY <1>3, <1>4 DEF Queued
<1> QED
  BY <1>2, <1>4, <1>5 DEF ReadRequest

\* A goroutine is counted as it is started and taken off as it ends.
LEMMA CountStep == Types /\ Queued /\ CountInv /\ [Next]_vars => CountInv'
<1> SUFFICES ASSUME Types, Queued, CountInv, [Next]_vars PROVE CountInv'
  OBVIOUS
<1>0. DOMAIN handler = Requests /\ busy \in Nat
  BY DEF Types
<1>1. CASE ReadRequest
  <2>1. PICK h \in Requests : handler[h] = "none" /\ handler' = [handler EXCEPT ![h] = "spawned"]
    BY <1>1, ReadStarts
  <2>2. Active' = Active \cup {h} /\ h \notin Active
    BY <1>0, <2>1 DEF Active, AtWork
  <2>3. Cardinality(Active') = Cardinality(Active) + 1
    BY <2>2, ActiveFinite, FS_AddElement
  <2>4. busy' = busy + 1
    BY <1>1 DEF ReadRequest
  <2> QED
    BY <2>3, <2>4 DEF CountInv
<1>2. ASSUME NEW r \in Requests, Handle(r) PROVE CountInv'
  <2>1. CASE handler'[r] \in AtWork
    <3>1. Active' = Active
      BY <1>2, <2>1, HandlerSteps DEF Active
    <3>2. busy' = busy
      <4>1. ~End(r)
        BY <1>0, <2>1 DEF End, AtWork
      <4> QED
        BY <1>2, <4>1 DEF Handle, Begin, WantRow, WantEnd, SendLock, SendWrite
    <3> QED
      BY <3>1, <3>2 DEF CountInv
  <2>2. CASE handler'[r] \notin AtWork
    <3>1. End(r) /\ r \in Active /\ handler'[r] = "done"
      BY <1>2, <2>2, HandlerSteps DEF Active
    <3>2. Active' = Active \ {r}
      BY <1>2, <2>2, HandlerSteps DEF Active
    <3>3. Cardinality(Active') = Cardinality(Active) - 1
      BY <3>1, <3>2, ActiveFinite, FS_RemoveElement
    <3>4. busy' = busy - 1
      BY <3>1 DEF End
    <3> QED
      BY <3>3, <3>4 DEF CountInv
  <2> QED
    BY <2>1, <2>2
<1>3. ASSUME UNCHANGED <<handler, busy>> PROVE CountInv'
  BY <1>3 DEF CountInv, Active
<1>4. ASSUME NEW r \in Requests, HostRequest(r) \/ HostCancel(r) PROVE UNCHANGED <<handler, busy>>
  BY <1>4 DEF HostRequest, HostCancel, handlerVars
<1>5. CASE HostClose \/ HostRead \/ ReadCancel \/ CancelOne \/ InputEnds \/ CancelAll \/ Return
           \/ UNCHANGED vars
  <2>1. UNCHANGED <<handler, busy>>
    BY <1>5 DEF HostClose, HostRead, ReadCancel, CancelOne, InputEnds, CancelAll, Return,
                vars, handlerVars
  <2> QED
    BY <1>3, <2>1
<1> QED
  BY <1>1, <1>2, <1>3, <1>4, <1>5 DEF Next

\* Nothing is written to a closed input, and Return finds nobody at work.
LEMMA InputOverStep == Types /\ CountInv /\ InputOver /\ [Next]_vars => InputOver'
<1> SUFFICES ASSUME Types, CountInv, InputOver, [Next]_vars PROVE InputOver'
  OBVIOUS
<1> USE DEF loopVars, handlerVars, hostVars
<1>1. ASSUME NEW r \in Requests, HostRequest(r) \/ HostCancel(r) PROVE InputOver'
  BY <1>1 DEF HostRequest, HostCancel, InputOver, Active
<1>2. ASSUME NEW r \in Requests, Handle(r) PROVE InputOver'
  <2>1. loop # "returned"
    BY <1>2, HandlerSteps DEF InputOver, Active
  <2>2. UNCHANGED <<loop, input, open>>
    BY <1>2 DEF Handle, Begin, WantRow, WantEnd, SendLock, SendWrite, End
  <2> QED
    BY <2>1, <2>2 DEF InputOver
<1>3. CASE ReadRequest \/ ReadCancel \/ CancelOne
  <2>1. loop' \in {"read", "cancel"}
    BY <1>3 DEF ReadRequest, ReadCancel, CancelOne
  <2> QED
    BY <2>1 DEF InputOver
<1>4. CASE InputEnds \/ CancelAll
  <2>1. loop' \in {"give up", "wait"} /\ UNCHANGED <<input, open>>
    BY <1>4 DEF InputEnds, CancelAll
  <2>2. input = <<>> /\ ~open
    BY <1>4 DEF InputEnds, CancelAll, InputOver
  <2> QED
    BY <2>1, <2>2 DEF InputOver
<1>5. CASE Return
  <2>1. Active = {}
    BY <1>5, ActiveFinite, FS_EmptySet DEF Return, CountInv
  <2> QED
    BY <1>5, <2>1 DEF Return, InputOver, Active
<1>6. CASE HostClose \/ HostRead \/ UNCHANGED vars
  <2>1. UNCHANGED <<loop, input, handler>> /\ (~open => ~open')
    BY <1>6 DEF HostClose, HostRead, vars
  <2> QED
    BY <2>1 DEF InputOver, Active
<1> QED
  BY <1>1, <1>2, <1>3, <1>4, <1>5, <1>6 DEF Next

-----------------------------------------------------------------------------
(***************************************************************************)
(* The endings, and what a cancel finds                                    *)
(***************************************************************************)
\* Writing an ending is the only step to one, and there is no step back.
LEMMA EndingStep == Types /\ Queued /\ OneEnding /\ [Next]_vars => OneEnding'
<1> SUFFICES ASSUME Types, Queued, OneEnding, [Next]_vars PROVE OneEnding'
  OBVIOUS
<1>0. DOMAIN handler = Requests /\ DOMAIN endings = Requests
  BY DEF Types
<1>1. CASE ReadRequest
  <2>1. PICK h \in Requests : handler[h] = "none" /\ handler' = [handler EXCEPT ![h] = "spawned"]
    BY <1>1, ReadStarts
  <2>2. endings' = endings
    BY <1>1 DEF ReadRequest
  <2> QED
    BY <1>0, <2>1, <2>2 DEF OneEnding
<1>2. ASSUME NEW r \in Requests, Handle(r) PROVE OneEnding'
  <2>1. \A s \in Requests : s # r => handler'[s] = handler[s]
    BY <1>2, HandlerSteps
  <2>2. CASE SendWrite(r) /\ kind[r] # "row"
    <3>1. endings[r] = 0
      BY <2>2 DEF SendWrite, OneEnding
    <3>2. endings' = [endings EXCEPT ![r] = @ + 1] /\ handler' = [handler EXCEPT ![r] = "ending"]
      BY <2>2 DEF SendWrite
    <3> QED
      BY <1>0, <2>1, <3>1, <3>2 DEF OneEnding
  <2>3. CASE ~(SendWrite(r) /\ kind[r] # "row")
    <3>1. endings' = endings
      BY <1>2, <2>3 DEF Handle, Begin, WantRow, WantEnd, SendLock, SendWrite, End
    <3>2. \/ handler[r] = "ending" /\ handler'[r] = "done"
          \/ handler[r] \notin {"ending", "done"} /\ handler'[r] \notin {"ending", "done"}
      BY <1>0, <1>2, <2>3 DEF Handle, Begin, WantRow, WantEnd, SendLock, SendWrite, End
    <3> QED
      BY <2>1, <3>1, <3>2 DEF OneEnding
  <2> QED
    BY <2>2, <2>3
<1>3. ASSUME NEW r \in Requests, HostRequest(r) \/ HostCancel(r) PROVE OneEnding'
  BY <1>3 DEF HostRequest, HostCancel, handlerVars, OneEnding
<1>4. CASE HostClose \/ HostRead \/ ReadCancel \/ CancelOne \/ InputEnds \/ CancelAll \/ Return
           \/ UNCHANGED vars
  <2>1. UNCHANGED <<handler, endings>>
    BY <1>4 DEF HostClose, HostRead, ReadCancel, CancelOne, InputEnds, CancelAll, Return,
                vars, handlerVars
  <2> QED
    BY <2>1 DEF OneEnding
<1> QED
  BY <1>1, <1>2, <1>3, <1>4 DEF Next

\* Whoever is taken out of the table is cancelled, or through.
LEMMA CancellableStep == Types /\ Queued /\ CancellableWhileWorking /\ [Next]_vars => CancellableWhileWorking'
<1> SUFFICES ASSUME Types, Queued, CancellableWhileWorking, [Next]_vars PROVE CancellableWhileWorking'
  OBVIOUS
<1>0. DOMAIN handler = Requests
  BY DEF Types
<1>1. CASE ReadRequest
  <2>1. PICK h \in Requests : handler[h] = "none" /\ handler' = [handler EXCEPT ![h] = "spawned"]
    BY <1>1, ReadStarts
  <2>2. UNCHANGED <<running, ended>>
    BY <1>1 DEF ReadRequest
  <2> QED
    BY <1>0, <2>1, <2>2 DEF CancellableWhileWorking
<1>2. ASSUME NEW r \in Requests, Handle(r) PROVE CancellableWhileWorking'
  <2>1. \A s \in Requests : s # r => handler'[s] = handler[s]
    BY <1>2, HandlerSteps
  <2>2. CASE Begin(r)
    BY <2>1, <2>2 DEF Begin, CancellableWhileWorking
  <2>3. CASE End(r)
    <3>1. handler'[r] = "done"
      BY <1>0, <2>3 DEF End
    <3>2. running \subseteq running' \cup ended' \cup {r} /\ ended \subseteq ended'
      BY <2>3 DEF End
    <3> QED
      BY <2>1, <3>1, <3>2 DEF CancellableWhileWorking
  <2>4. CASE WantRow(r) \/ WantEnd(r) \/ SendLock(r) \/ SendWrite(r)
    <3>1. handler[r] \in {"working", "lock", "write"} /\ UNCHANGED <<running, ended>>
      BY <2>4 DEF WantRow, WantEnd, SendLock, SendWrite
    <3> QED
      BY <2>1, <3>1 DEF CancellableWhileWorking
  <2> QED
    BY <1>2, <2>2, <2>3, <2>4 DEF Handle
<1>3. CASE CancelOne \/ CancelAll
  <2>1. handler' = handler /\ running \cup ended \subseteq running' \cup ended'
    BY <1>3 DEF CancelOne, CancelAll, handlerVars
  <2> QED
    BY <2>1 DEF CancellableWhileWorking
<1>4. ASSUME NEW r \in Requests, HostRequest(r) \/ HostCancel(r) PROVE CancellableWhileWorking'
  BY <1>4 DEF HostRequest, HostCancel, handlerVars, CancellableWhileWorking
<1>5. CASE HostClose \/ HostRead \/ ReadCancel \/ InputEnds \/ Return \/ UNCHANGED vars
  <2>1. UNCHANGED <<handler, running, ended>>
    BY <1>5 DEF HostClose, HostRead, ReadCancel, InputEnds, Return, vars, handlerVars
  <2> QED
    BY <2>1 DEF CancellableWhileWorking
<1> QED
  BY <1>1, <1>2, <1>3, <1>4, <1>5 DEF Next

-----------------------------------------------------------------------------
(***************************************************************************)
(* The theorems                                                            *)
(***************************************************************************)
\* All of it holds at the start.
LEMMA InvInit == Init => Inv /\ OneEnding /\ CancellableWhileWorking
<1> SUFFICES ASSUME Init PROVE Inv /\ OneEnding /\ CancellableWhileWorking
  OBVIOUS
<1>1. Types
  BY TypesInit
<1>2. input = <<>> /\ Len(input) = 0 /\ sent = {} /\ loop = "read" /\ busy = 0
      /\ \A r \in Requests : handler[r] = "none" /\ endings[r] = 0
  BY DEF Init
<1>3. Queued
  BY <1>2 DEF Queued
<1>4. Active = {}
  BY <1>2 DEF Active, AtWork
<1>5. CountInv
  BY <1>2, <1>4, FS_EmptySet DEF CountInv
<1>6. InputOver
  BY <1>2 DEF InputOver
<1> QED
  BY <1>1, <1>2, <1>3, <1>5, <1>6 DEF Inv, OneEnding, CancellableWhileWorking

\* All of it is an invariant.
LEMMA Invariance == Spec => [](Inv /\ OneEnding /\ CancellableWhileWorking)
<1>1. Inv /\ OneEnding /\ CancellableWhileWorking /\ [Next]_vars
        => (Inv /\ OneEnding /\ CancellableWhileWorking)'
  BY TypesStep, QueuedStep, CountStep, InputOverStep, EndingStep, CancellableStep DEF Inv
<1> QED
  BY InvInit, <1>1, PTL DEF Spec

\* A plugin's variables keep their types, for any finite set of requests, and busy never
\* counts a goroutine that is not there: it stays between none and one for each request.
THEOREM TypeCorrect == Spec => []TypeOK
<1>1. Inv => TypeOK
  <2> SUFFICES ASSUME Inv PROVE TypeOK
    OBVIOUS
  <2>1. Cardinality(Active) <= Cardinality(Requests) /\ Cardinality(Requests) \in Nat
    BY RequestsAssumption, FS_Subset, FS_CardinalityType DEF Active
  <2>2. busy \in Nat /\ busy = Cardinality(Active)
    BY DEF Inv, Types, CountInv
  <2>3. busy \in 0..Cardinality(Requests)
    BY <2>1, <2>2
  <2> QED
    BY <2>3 DEF Inv, Types, TypeOK
<1> QED
  BY Invariance, <1>1, PTL

\* Every request a plugin handles is ended once, its goroutine silent after it.
THEOREM EndsEachOnce == Spec => []OneEnding
  BY Invariance, PTL

\* A cancel finds every request that has begun and is not through.
THEOREM CancelFinds == Spec => []CancellableWhileWorking
  BY Invariance, PTL

\* ServeOn returns only when every request the host wrote has had its ending, whatever was
\* cancelled, held up by a full pipe or only just read when the input closed.
THEOREM AnswersAll == Spec => []AnsweredBeforeReturn
<1>1. Inv /\ OneEnding => AnsweredBeforeReturn
  <2> SUFFICES ASSUME Inv, OneEnding, loop = "returned", NEW r \in sent PROVE endings[r] = 1
    BY DEF AnsweredBeforeReturn
  <2>1. Len(input) = 0 /\ Active = {}
    BY DEF Inv, InputOver
  <2>2. r \in Requests
    BY DEF Inv, Types
  <2>3. handler[r] # "none"
    BY <2>1 DEF Inv, Queued
  <2>4. handler[r] \notin AtWork
    BY <2>1, <2>2 DEF Active
  <2>5. handler[r] = "done"
    BY <2>2, <2>3, <2>4 DEF Inv, Types, AtWork
  <2> QED
    BY <2>2, <2>5 DEF OneEnding
<1> QED
  BY Invariance, <1>1, PTL

-----------------------------------------------------------------------------
(***************************************************************************)
(* The host's end.  Its variables are not those of the plugin's end: it    *)
(* sees the plugin as a program that may say anything.                     *)
(***************************************************************************)
HostLines == [op : {"request", "cancel"}, id : Calls]
CallLines == [n : Nat, end : BOOLEAN]
PipeLines == [id : Calls, n : Nat, end : BOOLEAN]

CallerTypes ==
  /\ caller \in [Calls -> {"idle", "sending", "queueing", "reading", "leaving", "gone"}]
  /\ shut \subseteq Calls /\ waiting \subseteq Calls /\ why \in BOOLEAN
  /\ closing \in {"open", "asked", "gone", "done"}
  /\ ending \in [Finishers -> SUBSET Calls]
  /\ crash \in {"no", "send", "close"}

LineTypes ==
  /\ rows \in [Calls -> Seq(CallLines)]
  /\ \A r \in Calls : Len(rows[r]) <= RowsCap
  /\ reader \in [at : {"scan", "send", "end"}, id : Calls \cup {Nobody}, n : Nat, end : BOOLEAN]
  /\ reader.at = "send" => reader.id \in Calls
  /\ pipe \in Seq(PipeLines)
  /\ alive \in BOOLEAN /\ listening \in BOOLEAN
  /\ said \in [Calls -> Nat] /\ got \in [Calls -> Nat]

WriterTypes ==
  /\ outbox \in Seq(HostLines) /\ Len(outbox) <= OutboxCap
  /\ writer \in [at : {"idle", "write", "done"}, line : HostLines \cup {NoLine}]
  /\ writer.at = "write" => writer.line \in HostLines
  /\ asked \subseteq Calls

HostTypes == CallerTypes /\ LineTypes /\ WriterTypes

LEMMA HostTypesType == HostTypes => HostTypeOK
  BY DEF HostTypes, CallerTypes, LineTypes, WriterTypes, HostTypeOK, HostLines, CallLines, PipeLines

LEMMA HostTypesInit == HostInit => HostTypes
<1> SUFFICES ASSUME HostInit PROVE HostTypes
  OBVIOUS
<1>1. CallerTypes
  BY DEF HostInit, CallerTypes
<1>2. LineTypes
  BY HostCapsAssumption DEF HostInit, LineTypes, Scan
<1>3. WriterTypes
  BY HostCapsAssumption DEF HostInit, WriterTypes, NoLine
<1>4. QED
  BY <1>1, <1>2, <1>3 DEF HostTypes

LEMMA CallerTypesStep ==
  ASSUME HostTypes, NEW r \in Calls, CallerStep(r)
  PROVE  HostTypes'
<1>0. CallerTypes /\ LineTypes /\ WriterTypes
  BY DEF HostTypes
<1>1. CASE Register(r)
  <2>1. CallerTypes'
    BY <1>0, <1>1 DEF Register, CallerTypes, plugin
  <2>2. LineTypes' /\ WriterTypes'
    BY <1>0, <1>1 DEF Register, LineTypes, WriterTypes, plugin
  <2>3. QED
    BY <2>1, <2>2 DEF HostTypes
<1>2. CASE SendCheck(r) \/ GiveUp(r) \/ SendTimeout(r)
  <2>1. CallerTypes'
    BY <1>0, <1>2 DEF SendCheck, GiveUp, SendTimeout, CallerTypes, plugin
  <2>2. LineTypes' /\ WriterTypes'
    BY <1>0, <1>2 DEF SendCheck, GiveUp, SendTimeout, LineTypes, WriterTypes, plugin
  <2>3. QED
    BY <2>1, <2>2 DEF HostTypes
<1>3. CASE Queue(r)
  <2>1. CallerTypes'
    BY <1>0, <1>3 DEF Queue, CallerTypes, plugin
  <2>2. LineTypes'
    BY <1>0, <1>3 DEF Queue, LineTypes, plugin
  <2>3. Request(r) \in HostLines
    BY DEF Request, HostLines
  <2>4. outbox' \in Seq(HostLines) /\ Len(outbox') <= OutboxCap
    BY <1>0, <1>3, <2>3, HostCapsAssumption DEF Queue, WriterTypes
  <2>5. WriterTypes'
    BY <1>0, <1>3, <2>4 DEF Queue, WriterTypes, plugin
  <2>6. QED
    BY <2>1, <2>2, <2>5 DEF HostTypes
<1>4. CASE Receive(r)
  <2>1. CallerTypes' /\ WriterTypes'
    BY <1>0, <1>4 DEF Receive, CallerTypes, WriterTypes, plugin
  <2>2. CASE rows[r] # <<>>
    <3>1. /\ rows' = [rows EXCEPT ![r] = Tail(rows[r])] /\ got' = [got EXCEPT ![r] = Head(rows[r]).n]
          /\ UNCHANGED <<reader, pipe, alive, listening, said>>
      BY <1>4, <2>2 DEF Receive, plugin
    <3>2. /\ Head(rows[r]) \in CallLines /\ Tail(rows[r]) \in Seq(CallLines)
          /\ Len(rows[r]) \in Nat /\ Len(Tail(rows[r])) = Len(rows[r]) - 1
      BY <1>0, <2>2, Taken DEF LineTypes
    <3>3. Head(rows[r]).n \in Nat
      BY <3>2 DEF CallLines
    <3>4. Len(Tail(rows[r])) <= RowsCap
      BY <1>0, <3>2, HostCapsAssumption DEF LineTypes
    <3>5. QED
      BY <1>0, <2>1, <3>1, <3>2, <3>3, <3>4 DEF LineTypes, HostTypes
  <2>3. CASE rows[r] = <<>>
    BY <1>0, <1>4, <2>1, <2>3 DEF Receive, LineTypes, plugin, HostTypes
  <2>4. QED
    BY <2>2, <2>3
<1>5. CASE Stop(r)
  <2>1. CallerTypes'
    BY <1>0, <1>5 DEF Stop, CallerTypes, plugin
  <2>2. LineTypes'
    BY <1>0, <1>5 DEF Stop, LineTypes, plugin
  <2>3. Cancel(r) \in HostLines
    BY DEF Cancel, HostLines
  <2>4. outbox' \in Seq(HostLines) /\ Len(outbox') <= OutboxCap
    <3>1. CASE r \in waiting /\ Len(outbox) < OutboxCap
      BY <1>0, <1>5, <2>3, <3>1, HostCapsAssumption DEF Stop, WriterTypes
    <3>2. CASE ~(r \in waiting /\ Len(outbox) < OutboxCap)
      BY <1>0, <1>5, <3>2 DEF Stop, WriterTypes
    <3>3. QED
      BY <3>1, <3>2
  <2>5. WriterTypes'
    BY <1>0, <1>5, <2>4 DEF Stop, WriterTypes, plugin
  <2>6. QED
    BY <2>1, <2>2, <2>5 DEF HostTypes
<1>6. QED
  BY <1>1, <1>2, <1>3, <1>4, <1>5 DEF CallerStep

LEMMA WriterTypesStep ==
  ASSUME HostTypes, WriterTake \/ WriterWrite \/ WriterFail
  PROVE  HostTypes'
<1>0. CallerTypes /\ LineTypes /\ WriterTypes
  BY DEF HostTypes
<1>1. CASE WriterTake
  <2>1. CallerTypes' /\ LineTypes'
    BY <1>0, <1>1 DEF WriterTake, CallerTypes, LineTypes, plugin
  <2>2. /\ writer' = [at |-> "write", line |-> Head(outbox)] /\ outbox' = Tail(outbox)
        /\ outbox # <<>> /\ UNCHANGED asked
    BY <1>1 DEF WriterTake, plugin
  <2>3. /\ Head(outbox) \in HostLines /\ Tail(outbox) \in Seq(HostLines)
        /\ Len(outbox) \in Nat /\ Len(Tail(outbox)) = Len(outbox) - 1
    BY <1>0, <2>2, Taken DEF WriterTypes
  <2>4. WriterTypes'
    BY <1>0, <2>2, <2>3, HostCapsAssumption DEF WriterTypes
  <2>5. QED
    BY <2>1, <2>4 DEF HostTypes
<1>2. CASE WriterWrite
  <2>1. CallerTypes' /\ LineTypes'
    BY <1>0, <1>2 DEF WriterWrite, CallerTypes, LineTypes
  <2>2. WriterTypes'
    <3>1. /\ writer' = [at |-> "idle", line |-> NoLine] /\ UNCHANGED outbox
          /\ writer.line \in HostLines
          /\ asked' = IF writer.line.op = "request" THEN asked \cup {writer.line.id} ELSE asked
      BY <1>0, <1>2 DEF WriterWrite, WriterTypes
    <3>2. writer.line.id \in Calls
      BY <3>1 DEF HostLines
    <3>3. QED
      BY <1>0, <3>1, <3>2 DEF WriterTypes
  <2>3. QED
    BY <2>1, <2>2 DEF HostTypes
<1>3. CASE WriterFail
  <2>1. CallerTypes'
    BY <1>0, <1>3 DEF WriterFail, Finish, CallerTypes, Finishers
  <2>2. LineTypes' /\ WriterTypes'
    BY <1>0, <1>3 DEF WriterFail, Finish, LineTypes, WriterTypes, plugin
  <2>3. QED
    BY <2>1, <2>2 DEF HostTypes
<1>4. QED
  BY <1>1, <1>2, <1>3

LEMMA ReaderTypesStep ==
  ASSUME HostTypes, ReaderScan \/ ReaderSend \/ ReaderEnd
  PROVE  HostTypes'
<1>0. CallerTypes /\ LineTypes /\ WriterTypes
  BY DEF HostTypes
<1>1. CASE ReaderScan
  <2>1. CallerTypes' /\ WriterTypes'
    BY <1>0, <1>1 DEF ReaderScan, CallerTypes, WriterTypes
  <2>2. Head(pipe) \in PipeLines /\ Tail(pipe) \in Seq(PipeLines)
    BY <1>0, <1>1, Taken DEF ReaderScan, LineTypes
  <2>3. LineTypes'
    <3>1. /\ pipe' = Tail(pipe) /\ UNCHANGED <<rows, alive, listening, said, got>>
          /\ \/ UNCHANGED reader
             \/ reader' = [at |-> "send", id |-> Head(pipe).id, n |-> Head(pipe).n, end |-> Head(pipe).end]
      BY <1>1 DEF ReaderScan
    <3>2. Head(pipe).id \in Calls /\ Head(pipe).n \in Nat /\ Head(pipe).end \in BOOLEAN
      BY <2>2 DEF PipeLines
    <3>3. /\ reader' \in [at : {"scan", "send", "end"}, id : Calls \cup {Nobody}, n : Nat, end : BOOLEAN]
          /\ reader'.at = "send" => reader'.id \in Calls
      <4>1. CASE UNCHANGED reader
        BY <1>0, <4>1 DEF LineTypes
      <4>2. CASE reader' = [at |-> "send", id |-> Head(pipe).id, n |-> Head(pipe).n, end |-> Head(pipe).end]
        BY <3>2, <4>2
      <4>3. QED
        BY <3>1, <4>1, <4>2
    <3>4. QED
      BY <1>0, <2>2, <3>1, <3>3 DEF LineTypes
  <2>4. QED
    BY <2>1, <2>3 DEF HostTypes
<1>2. CASE ReaderSend
  <2>1. CallerTypes' /\ WriterTypes'
    BY <1>0, <1>2 DEF ReaderSend, CallerTypes, WriterTypes, plugin
  <2>2. reader.id \in Calls /\ reader.n \in Nat /\ reader.end \in BOOLEAN
    BY <1>0, <1>2 DEF ReaderSend, LineTypes
  <2>3. CASE reader.id \in shut
    BY <1>0, <1>2, <2>1, <2>3 DEF ReaderSend, LineTypes, plugin, HostTypes
  <2>4. CASE reader.id \notin shut
    <3>1. /\ Len(rows[reader.id]) < RowsCap /\ reader' = Scan
          /\ rows' = [rows EXCEPT ![reader.id] = Append(rows[reader.id], [n |-> reader.n, end |-> reader.end])]
          /\ UNCHANGED <<pipe, alive, listening, said, got>>
      BY <1>2, <2>4 DEF ReaderSend, plugin
    <3>2. [n |-> reader.n, end |-> reader.end] \in CallLines
      BY <2>2 DEF CallLines
    <3>3. /\ Append(rows[reader.id], [n |-> reader.n, end |-> reader.end]) \in Seq(CallLines)
          /\ Len(Append(rows[reader.id], [n |-> reader.n, end |-> reader.end])) <= RowsCap
      BY <1>0, <2>2, <3>1, <3>2, Appended, HostCapsAssumption DEF LineTypes
    <3>4. rows' \in [Calls -> Seq(CallLines)] /\ \A r \in Calls : Len(rows'[r]) <= RowsCap
      BY <1>0, <2>2, <3>1, <3>3 DEF LineTypes
    <3>5. LineTypes'
      BY <1>0, <3>1, <3>4 DEF LineTypes, Scan
    <3>6. QED
      BY <2>1, <3>5 DEF HostTypes
  <2>5. QED
    BY <2>3, <2>4
<1>3. CASE ReaderEnd
  <2>1. CallerTypes'
    BY <1>0, <1>3 DEF ReaderEnd, Finish, CallerTypes, Finishers
  <2>2. LineTypes' /\ WriterTypes'
    BY <1>0, <1>3 DEF ReaderEnd, Finish, LineTypes, WriterTypes, Scan, plugin
  <2>3. QED
    BY <2>1, <2>2 DEF HostTypes
<1>4. QED
  BY <1>1, <1>2, <1>3

LEMMA RestTypesStep ==
  ASSUME HostTypes,
         \/ \E x \in Finishers : CloseRows(x)
         \/ CloseAsk \/ CloseReaped \/ CloseFinish
         \/ \E r \in Calls, end \in BOOLEAN : Say(r, end)
         \/ StopListening \/ Exit \/ UNCHANGED talkVars
  PROVE  HostTypes'
<1>0. CallerTypes /\ LineTypes /\ WriterTypes
  BY DEF HostTypes
<1>1. ASSUME NEW x \in Finishers, CloseRows(x) PROVE HostTypes'
  <2>1. CallerTypes'
    BY <1>0, <1>1 DEF CloseRows, CallerTypes
  <2>2. LineTypes' /\ WriterTypes'
    BY <1>0, <1>1 DEF CloseRows, LineTypes, WriterTypes, plugin
  <2>3. QED
    BY <2>1, <2>2 DEF HostTypes
<1>2. CASE CloseAsk \/ CloseFinish
  <2>1. CallerTypes'
    BY <1>0, <1>2 DEF CloseAsk, CloseFinish, Finish, CallerTypes, Finishers
  <2>2. LineTypes' /\ WriterTypes'
    BY <1>0, <1>2 DEF CloseAsk, CloseFinish, Finish, LineTypes, WriterTypes, plugin
  <2>3. QED
    BY <2>1, <2>2 DEF HostTypes
<1>3. CASE CloseReaped
  <2>1. CallerTypes' /\ WriterTypes'
    BY <1>0, <1>3 DEF CloseReaped, CallerTypes, WriterTypes
  <2>2. LineTypes'
    <3>1. pipe' = <<>> /\ pipe' \in Seq(PipeLines)
      BY <1>3 DEF CloseReaped
    <3>2. QED
      BY <1>0, <1>3, <3>1 DEF CloseReaped, LineTypes
  <2>3. QED
    BY <2>1, <2>2 DEF HostTypes
<1>4. ASSUME NEW r \in Calls, NEW end \in BOOLEAN, Say(r, end) PROVE HostTypes'
  <2>1. CallerTypes' /\ WriterTypes'
    BY <1>0, <1>4 DEF Say, host, CallerTypes, WriterTypes
  <2>2. Line(r, said[r] + 1, end) \in PipeLines
    BY <1>0 DEF LineTypes, PipeLines, Line
  <2>3. LineTypes'
    BY <1>0, <1>4, <2>2 DEF Say, host, LineTypes
  <2>4. QED
    BY <2>1, <2>3 DEF HostTypes
<1>5. CASE StopListening \/ Exit \/ UNCHANGED talkVars
  <2>1. CallerTypes' /\ WriterTypes'
    BY <1>0, <1>5 DEF StopListening, Exit, host, plugin, talkVars, CallerTypes, WriterTypes
  <2>2. LineTypes'
    BY <1>0, <1>5 DEF StopListening, Exit, host, plugin, talkVars, LineTypes
  <2>3. QED
    BY <2>1, <2>2 DEF HostTypes
<1>6. QED
  BY <1>1, <1>2, <1>3, <1>4, <1>5

\* Every step of the host keeps them.
LEMMA HostTypesStep == HostTypes /\ [HostNext]_talkVars => HostTypes'
  BY CallerTypesStep, WriterTypesStep, ReaderTypesStep, RestTypesStep DEF HostNext

\* The host's variables keep their types, and neither the queue to the plugin nor any
\* caller's channel ever holds more than newProcess and stream made it for.
THEOREM HostTypeCorrect == HostSpec => []HostTypeOK
<1>1. HostInit => HostTypes
  BY HostTypesInit
<1>2. HostTypes /\ [HostNext]_talkVars => HostTypes'
  BY HostTypesStep
<1>3. HostTypes => HostTypeOK
  BY HostTypesType
<1>4. QED
  BY <1>1, <1>2, <1>3, PTL DEF HostSpec

-----------------------------------------------------------------------------
\* Each registered call is in one place at most: in the table, with one finish that has
\* yet to close its channel, or closed.
Apart ==
  /\ shut \cap waiting = {} /\ crash # "close"
  /\ \A x \in Finishers : ending[x] \cap (shut \cup waiting) = {}
  /\ \A x, y \in Finishers : x # y => ending[x] \cap ending[y] = {}

\* A call that was not made is in none of them, and nothing is said or written about it.
Unmade(r) ==
  /\ r \notin waiting \cup shut /\ \A x \in Finishers : r \notin ending[x]
  /\ said[r] = 0 /\ got[r] = 0 /\ rows[r] = <<>> /\ ~Holds(r) /\ r \notin asked
  /\ \A i \in 1..Len(pipe) : pipe[i].id # r
  /\ \A i \in 1..Len(outbox) : outbox[i].id # r
  /\ writer.at = "write" => writer.line.id # r

Untold == \A r \in Calls : caller[r] = "idle" => Unmade(r)

\* Before anything is registered both hold.
LEMMA ApartInit == HostInit => Apart /\ Untold
<1> SUFFICES ASSUME HostInit PROVE Apart /\ Untold
  OBVIOUS
<1>1. Apart
  BY DEF HostInit, Apart
<1>2. Untold
  BY DEF HostInit, Untold, Unmade, Holds, Scan
<1>3. QED
  BY <1>1, <1>2

\* What finish does to the calls that wait.
LEMMA FinishApart ==
  ASSUME HostTypes, Apart, NEW x \in Finishers, Finish(x), UNCHANGED <<shut, crash>>
  PROVE  Apart' /\ \A r \in Calls : \A y \in Finishers : r \in ending'[y] => r \in ending[y] \cup waiting
<1>1. ending \in [Finishers -> SUBSET Calls]
  BY DEF HostTypes, CallerTypes
<1>2. ending' = [ending EXCEPT ![x] = waiting] /\ waiting' = {}
  BY DEF Finish
<1>3. QED
  BY <1>1, <1>2 DEF Apart

\* A call moves from one of these places to the next, under the lock or out of it, and is never
\* left behind in one.
LEMMA ApartStep == HostTypes /\ Apart /\ Untold /\ [HostNext]_talkVars => Apart'
<1> SUFFICES ASSUME HostTypes, Apart, Untold, [HostNext]_talkVars PROVE Apart'
  OBVIOUS
<1>0. CallerTypes
  BY DEF HostTypes
<1>1. ASSUME NEW r \in Calls, Register(r) PROVE Apart'
  <2>1. Unmade(r) /\ UNCHANGED <<shut, crash, ending>> /\ waiting' \subseteq waiting \cup {r}
    BY <1>1 DEF Register, Untold
  <2>2. QED
    BY <2>1 DEF Apart, Unmade
<1>2. ASSUME NEW r \in Calls,
             SendCheck(r) \/ Queue(r) \/ SendTimeout(r) \/ Receive(r) \/ GiveUp(r) \/ Stop(r)
      PROVE  Apart'
  <2>1. UNCHANGED <<shut, crash, ending>> /\ waiting' \subseteq waiting
    BY <1>2 DEF SendCheck, Queue, SendTimeout, Receive, GiveUp, Stop
  <2>2. QED
    BY <2>1 DEF Apart
<1>3. ASSUME NEW x \in Finishers, CloseRows(x) PROVE Apart'
  <2>1. PICK r \in ending[x] :
          /\ ending' = [ending EXCEPT ![x] = ending[x] \ {r}] /\ shut' = shut \cup {r}
          /\ crash' = (IF r \in shut THEN "close" ELSE crash) /\ UNCHANGED waiting
    BY <1>3 DEF CloseRows
  <2>2. r \notin shut /\ r \notin waiting /\ \A y \in Finishers : y # x => r \notin ending[y]
    BY <2>1 DEF Apart
  <2>3. ending'[x] = ending[x] \ {r} /\ \A y \in Finishers : y # x => ending'[y] = ending[y]
    BY <1>0, <2>1 DEF CallerTypes
  <2>4. QED
    BY <2>1, <2>2, <2>3 DEF Apart
<1>4. CASE WriterFail \/ ReaderEnd \/ CloseFinish
  <2>1. UNCHANGED <<shut, crash>> /\ \E x \in Finishers : Finish(x)
    BY <1>4 DEF WriterFail, ReaderEnd, CloseFinish, Finishers
  <2>2. QED
    BY <2>1, FinishApart
<1>5. CASE ReaderSend
  BY <1>5 DEF ReaderSend, Apart
<1>6. CASE \/ WriterTake \/ WriterWrite \/ ReaderScan \/ CloseAsk \/ CloseReaped
           \/ \E r \in Calls, end \in BOOLEAN : Say(r, end)
           \/ StopListening \/ Exit \/ UNCHANGED talkVars
  <2>1. UNCHANGED <<shut, crash, ending, waiting>>
    BY <1>6 DEF WriterTake, WriterWrite, ReaderScan, CloseAsk, CloseReaped, Say, StopListening,
       Exit, talkVars, host
  <2>2. QED
    BY <2>1 DEF Apart
<1>7. QED
  BY <1>1, <1>2, <1>3, <1>4, <1>5, <1>6 DEF HostNext, CallerStep

\* A request that is not made stays so until its caller moves.
LEMMA UntoldStep == HostTypes /\ Untold /\ [HostNext]_talkVars => Untold'
<1> SUFFICES ASSUME HostTypes, Untold, [HostNext]_talkVars, NEW r \in Calls, caller'[r] = "idle"
             PROVE  Unmade(r)'
  BY DEF Untold
<1>0. CallerTypes /\ LineTypes /\ WriterTypes
  BY DEF HostTypes
<1>1. ASSUME NEW q \in Calls, CallerStep(q) PROVE Unmade(r)'
  <2>1. q # r /\ caller[r] = "idle"
    BY <1>0, <1>1 DEF CallerStep, Register, SendCheck, Queue, SendTimeout, Receive, GiveUp, Stop,
       CallerTypes
  <2>2. Unmade(r)
    BY <2>1 DEF Untold
  <2>3. /\ UNCHANGED <<shut, ending, said, asked, pipe, reader, writer>> /\ waiting' \subseteq waiting \cup {q}
        /\ got'[r] = got[r] /\ rows'[r] = rows[r]
    BY <1>0, <1>1, <2>1 DEF CallerStep, Register, SendCheck, Queue, SendTimeout, Receive, GiveUp, Stop,
       plugin, LineTypes
  <2>4. \A i \in 1..Len(outbox') : outbox'[i].id # r
    <3>1. CASE outbox' = outbox
      BY <2>2, <3>1 DEF Unmade
    <3>2. CASE outbox' # outbox
      <4>1. \E line \in HostLines : line.id = q /\ outbox' = Append(outbox, line)
        <5>1. Request(q) \in HostLines /\ Cancel(q) \in HostLines /\ Request(q).id = q /\ Cancel(q).id = q
          BY DEF Request, Cancel, HostLines
        <5>2. CASE Queue(q)
          BY <5>1, <5>2 DEF Queue
        <5>3. CASE Stop(q)
          BY <3>2, <5>1, <5>3 DEF Stop
        <5>4. QED
          BY <1>1, <3>2, <5>2, <5>3 DEF CallerStep, Register, SendCheck, SendTimeout, Receive, GiveUp
      <4>2. PICK line \in HostLines : line.id = q /\ outbox' = Append(outbox, line)
        BY <4>1
      <4>3. /\ Len(outbox) \in Nat /\ Len(outbox') = Len(outbox) + 1 /\ outbox'[Len(outbox) + 1] = line
            /\ \A i \in 1..Len(outbox) : outbox'[i] = outbox[i]
        BY <1>0, <4>2, Appended DEF WriterTypes
      <4>4. \A i \in 1..Len(outbox') : i \in 1..Len(outbox) \/ i = Len(outbox) + 1
        BY <4>3
      <4>5. QED
        BY <2>1, <2>2, <4>2, <4>3, <4>4 DEF Unmade
    <3>3. QED
      BY <3>1, <3>2
  <2>5. QED
    BY <2>1, <2>2, <2>3, <2>4 DEF Unmade, Holds
<1>2. CASE ~\E q \in Calls : CallerStep(q)
  <2>1. UNCHANGED caller /\ Unmade(r)
    BY <1>2 DEF HostNext, CloseRows, WriterTake, WriterWrite, WriterFail, ReaderScan, ReaderSend,
       ReaderEnd, CloseAsk, CloseReaped, CloseFinish, Say, StopListening, Exit, talkVars, host, Untold
  <2>2. ASSUME NEW x \in Finishers, CloseRows(x) PROVE Unmade(r)'
    <3>1. PICK q \in ending[x] :
          /\ ending' = [ending EXCEPT ![x] = ending[x] \ {q}] /\ shut' = shut \cup {q}
          /\ UNCHANGED <<rows, waiting, outbox, writer, reader, got, pipe, said, asked>>
      BY <2>2 DEF CloseRows, plugin
    <3>2. q # r /\ \A y \in Finishers : ending'[y] \subseteq ending[y]
      BY <1>0, <2>1, <3>1 DEF Unmade, CallerTypes
    <3>3. QED
      BY <2>1, <3>1, <3>2 DEF Unmade, Holds
  <2>3. CASE WriterFail \/ ReaderEnd \/ CloseFinish
    <3>1. PICK x \in Finishers : Finish(x)
      BY <2>3 DEF WriterFail, ReaderEnd, CloseFinish, Finishers
    <3>2. /\ UNCHANGED <<shut, said, asked, pipe, outbox, rows, got>>
          /\ reader' = reader \/ reader' = [Scan EXCEPT !.at = "end"]
          /\ writer' = writer \/ writer' = [at |-> "done", line |-> NoLine]
      BY <2>3 DEF WriterFail, ReaderEnd, CloseFinish, plugin
    <3>3. waiting' = {} /\ \A y \in Finishers : r \notin ending'[y]
      BY <1>0, <2>1, <3>1 DEF Finish, CallerTypes, Unmade
    <3>4. ~Holds(r)' /\ (writer'.at = "write" => writer'.line.id # r)
      BY <2>1, <3>2 DEF Unmade, Holds, Scan
    <3>5. QED
      BY <2>1, <3>2, <3>3, <3>4 DEF Unmade
  <2>4. CASE WriterTake
    <3>1. /\ UNCHANGED <<shut, said, asked, pipe, rows, got, reader, ending, waiting>> /\ outbox # <<>>
          /\ writer' = [at |-> "write", line |-> Head(outbox)] /\ outbox' = Tail(outbox)
      BY <2>4 DEF WriterTake, plugin
    <3>2. /\ Head(outbox) = outbox[1] /\ Len(outbox) \in Nat \ {0} /\ Len(outbox') = Len(outbox) - 1
          /\ \A i \in 1..Len(outbox') : outbox'[i] = outbox[i + 1]
      BY <1>0, <3>1, Taken DEF WriterTypes
    <3>3. \A i \in 1..Len(outbox) : outbox[i].id # r
      BY <2>1 DEF Unmade
    <3>4. writer'.line.id # r /\ \A i \in 1..Len(outbox') : outbox'[i].id # r
      BY <3>1, <3>2, <3>3
    <3>5. QED
      BY <2>1, <3>1, <3>4 DEF Unmade, Holds
  <2>5. CASE WriterWrite
    <3>1. /\ UNCHANGED <<shut, said, pipe, rows, got, reader, ending, waiting, outbox>>
          /\ writer' = [at |-> "idle", line |-> NoLine] /\ asked' \subseteq asked \cup {writer.line.id}
          /\ writer.at = "write"
      BY <2>5 DEF WriterWrite
    <3>2. QED
      BY <2>1, <3>1 DEF Unmade, Holds
  <2>6. CASE ReaderScan
    <3>1. /\ UNCHANGED <<shut, said, rows, got, ending, waiting, outbox, asked, writer>> /\ pipe # <<>>
          /\ pipe' = Tail(pipe) /\ (reader' = reader \/ reader'.id = Head(pipe).id)
      BY <2>6 DEF ReaderScan
    <3>2. /\ Head(pipe) = pipe[1] /\ Len(pipe) \in Nat \ {0} /\ Len(pipe') = Len(pipe) - 1
          /\ \A i \in 1..Len(pipe') : pipe'[i] = pipe[i + 1]
      BY <1>0, <3>1, Taken DEF LineTypes
    <3>3. \A i \in 1..Len(pipe) : pipe[i].id # r
      BY <2>1 DEF Unmade
    <3>4. ~Holds(r)' /\ \A i \in 1..Len(pipe') : pipe'[i].id # r
      BY <2>1, <3>1, <3>2, <3>3 DEF Holds, Unmade
    <3>5. QED
      BY <2>1, <3>1, <3>4 DEF Unmade
  <2>7. CASE ReaderSend
    <3>1. /\ UNCHANGED <<shut, said, pipe, got, ending, waiting, outbox, asked, writer>>
          /\ reader.at = "send" /\ (reader' = reader \/ reader' = Scan)
          /\ \/ UNCHANGED rows
             \/ rows' = [rows EXCEPT ![reader.id] = Append(rows[reader.id], [n |-> reader.n, end |-> reader.end])]
      BY <2>7 DEF ReaderSend, plugin
    <3>2. reader.id # r /\ rows'[r] = rows[r] /\ ~Holds(r)'
      BY <1>0, <2>1, <3>1 DEF Unmade, Holds, LineTypes, Scan
    <3>3. QED
      BY <2>1, <3>1, <3>2 DEF Unmade
  <2>8. ASSUME NEW q \in Calls, NEW end \in BOOLEAN, Say(q, end) PROVE Unmade(r)'
    <3>1. /\ UNCHANGED <<shut, rows, got, reader, ending, waiting, outbox, asked, writer>>
          /\ q \in asked /\ said' = [said EXCEPT ![q] = said[q] + 1]
          /\ pipe' = Append(pipe, Line(q, said[q] + 1, end))
      BY <2>8 DEF Say, host
    <3>2. Line(q, said[q] + 1, end) \in PipeLines /\ Line(q, said[q] + 1, end).id = q
      BY <1>0 DEF LineTypes, PipeLines, Line
    <3>3. /\ Len(pipe) \in Nat /\ Len(pipe') = Len(pipe) + 1 /\ pipe'[Len(pipe) + 1].id = q
          /\ \A i \in 1..Len(pipe) : pipe'[i] = pipe[i]
      BY <1>0, <3>1, <3>2, Appended DEF LineTypes
    <3>4. \A i \in 1..Len(pipe') : i \in 1..Len(pipe) \/ i = Len(pipe) + 1
      BY <3>3
    <3>5. q # r /\ said'[r] = said[r]
      BY <1>0, <2>1, <3>1 DEF Unmade, LineTypes
    <3>6. \A i \in 1..Len(pipe') : pipe'[i].id # r
      BY <2>1, <3>3, <3>4, <3>5 DEF Unmade
    <3>7. QED
      BY <2>1, <3>1, <3>5, <3>6 DEF Unmade, Holds
  <2>9. CASE CloseReaped
    <3>1. UNCHANGED <<shut, rows, got, reader, ending, waiting, outbox, asked, writer, said>> /\ pipe' = <<>>
      BY <2>9 DEF CloseReaped
    <3>2. QED
      BY <2>1, <3>1 DEF Unmade, Holds
  <2>10. CASE CloseAsk \/ StopListening \/ Exit \/ UNCHANGED talkVars
    <3>1. UNCHANGED <<shut, rows, got, reader, ending, waiting, outbox, asked, writer, said, pipe>>
      BY <2>10 DEF CloseAsk, StopListening, Exit, host, plugin, talkVars
    <3>2. QED
      BY <2>1, <3>1 DEF Unmade, Holds
  <2>11. QED
    BY <1>2, <2>2, <2>3, <2>4, <2>5, <2>6, <2>7, <2>8, <2>9, <2>10 DEF HostNext
<1>3. QED
  BY <1>1, <1>2

\* However many of the reader, the writer and Close see the end of the conversation, no
\* caller's channel is closed twice: whoever comes first takes the whole table.
THEOREM HostClosedOnce == HostSpec => []ClosedOnce
<1> DEFINE HostInv == HostTypes /\ Apart /\ Untold
<1>1. HostInit => HostInv
  BY HostTypesInit, ApartInit
<1>2. HostInv /\ [HostNext]_talkVars => HostInv'
  BY HostTypesStep, ApartStep, UntoldStep
<1>3. HostInv => ClosedOnce
  BY DEF Apart, ClosedOnce
<1> HIDE DEF HostInv
<1>4. QED
  BY <1>1, <1>2, <1>3, PTL DEF HostSpec

-----------------------------------------------------------------------------
\* The lines of a request that are out of the pipe follow each other, and all were said.
InTurn(r) ==
  /\ LastOut(r) <= said[r]
  /\ \A i \in DOMAIN rows[r] : rows[r][i].n = got[r] + i
  /\ Holds(r) => reader.n = LastOut(r)

\* InOrder, of one request: those in the pipe follow them, and no line is on its way that
\* was not said.
InPlace(r) ==
  /\ InTurn(r)
  /\ \A i \in PlacesOf(r) : pipe[i].n \in (LastOut(r) + 1)..said[r]
  /\ \A k \in (LastOut(r) + 1)..said[r] : \E i \in PlacesOf(r) : pipe[i].n = k
  /\ \A i, j \in PlacesOf(r) : i < j => pipe[i].n < pipe[j].n

Ordered == \A r \in waiting : closing \in {"open", "asked"} => InPlace(r)

\* The lengths and numbers in it are numbers.
LEMMA OrderTypes ==
  ASSUME LineTypes, NEW r \in Calls
  PROVE  /\ got[r] \in Nat /\ said[r] \in Nat /\ rows[r] \in Seq(CallLines) /\ Len(rows[r]) \in Nat
         /\ DOMAIN rows[r] = 1..Len(rows[r]) /\ LastOut(r) \in Nat /\ reader.n \in Nat
         /\ Len(pipe) \in Nat /\ DOMAIN pipe = 1..Len(pipe)
         /\ \A i \in DOMAIN pipe : pipe[i] \in PipeLines /\ pipe[i].n \in Nat /\ pipe[i].id \in Calls
<1>1. /\ got[r] \in Nat /\ said[r] \in Nat /\ rows[r] \in Seq(CallLines) /\ pipe \in Seq(PipeLines)
      /\ reader.n \in Nat
  BY DEF LineTypes
<1>2. /\ Len(rows[r]) \in Nat /\ DOMAIN rows[r] = 1..Len(rows[r]) /\ Len(pipe) \in Nat
      /\ DOMAIN pipe = 1..Len(pipe) /\ \A i \in DOMAIN pipe : pipe[i] \in PipeLines
  BY <1>1
<1>3. \A i \in DOMAIN pipe : pipe[i].n \in Nat /\ pipe[i].id \in Calls
  BY <1>2 DEF PipeLines
<1>4. LastOut(r) \in Nat
  BY <1>1, <1>2 DEF LastOut
<1>5. QED
  BY <1>1, <1>2, <1>3, <1>4

\* A step that leaves a request alone leaves its lines in order.
LEMMA SameOrder ==
  ASSUME NEW r \in Calls, InPlace(r), UNCHANGED <<reader, pipe>>,
         rows'[r] = rows[r], got'[r] = got[r], said'[r] = said[r]
  PROVE  InPlace(r)'
  BY DEF InPlace, InTurn, LastOut, Holds, PlacesOf

\* A call that was not made has nothing on its way.
LEMMA UnmadeOrder ==
  ASSUME LineTypes, NEW r \in Calls, Unmade(r)
  PROVE  InPlace(r)
<1>1. /\ said[r] = 0 /\ LastOut(r) = 0 /\ DOMAIN rows[r] = {} /\ ~Holds(r)
  BY OrderTypes DEF Unmade, LastOut
<1>2. PlacesOf(r) = {}
  BY OrderTypes DEF Unmade, PlacesOf
<1>3. (LastOut(r) + 1)..said[r] = {}
  BY <1>1
<1>4. QED
  BY <1>1, <1>2, <1>3 DEF InPlace, InTurn

\* A step that leaves a request's lines where they are leaves them in turn.
LEMMA SameTurn ==
  ASSUME NEW r \in Calls, InTurn(r), UNCHANGED reader,
         rows'[r] = rows[r], got'[r] = got[r], said'[r] = said[r]
  PROVE  InTurn(r)'
  BY DEF InTurn, LastOut, Holds

\* The caller takes the first line of its channel, which is the one after the last it took.
LEMMA ReceiveTurn ==
  ASSUME LineTypes, NEW r \in Calls, Receive(r), InTurn(r)
  PROVE  /\ InTurn(r)' /\ LastOut(r)' = LastOut(r) /\ UNCHANGED <<pipe, said>>
         /\ rows[r] # <<>> => got' = [got EXCEPT ![r] = got[r] + 1] /\ got[r] < said[r]
<1>1. CASE rows[r] = <<>>
  <2>1. UNCHANGED <<rows, got, reader, pipe, said>>
    BY <1>1 DEF Receive, plugin
  <2>2. QED
    BY <1>1, <2>1, SameTurn DEF LastOut, Holds
<1>2. CASE rows[r] # <<>>
  <2>1. /\ rows' = [rows EXCEPT ![r] = Tail(rows[r])] /\ got' = [got EXCEPT ![r] = Head(rows[r]).n]
        /\ UNCHANGED <<reader, pipe, said>>
    BY <1>2 DEF Receive, plugin
  <2>2. rows'[r] = Tail(rows[r]) /\ got'[r] = Head(rows[r]).n
    BY <2>1 DEF LineTypes
  <2>3. /\ Head(rows[r]) = rows[r][1] /\ Len(rows[r]) \in Nat \ {0} /\ Len(rows'[r]) = Len(rows[r]) - 1
        /\ rows'[r] \in Seq(CallLines) /\ DOMAIN rows[r] = 1..Len(rows[r])
        /\ \A i \in 1..Len(rows'[r]) : rows'[r][i] = rows[r][i + 1]
    BY <1>2, <2>2, OrderTypes, Taken
  <2>4. DOMAIN rows'[r] = 1..Len(rows'[r])
    BY <2>3
  <2>5. Head(rows[r]).n = got[r] + 1 /\ got[r] \in Nat /\ got'[r] = got[r] + 1
    <3>1. 1 \in DOMAIN rows[r] /\ got[r] \in Nat
      BY <2>3, OrderTypes
    <3>2. rows[r][1].n = got[r] + 1
      BY <3>1 DEF InTurn
    <3>3. QED
      BY <2>2, <2>3, <3>1, <3>2
  <2>6. LastOut(r)' = LastOut(r) /\ (Holds(r)' <=> Holds(r))
    BY <2>1, <2>3, <2>5 DEF LastOut, Holds
  <2>7. ASSUME NEW i \in DOMAIN rows'[r] PROVE rows'[r][i].n = got'[r] + i
    <3>1. i + 1 \in DOMAIN rows[r] /\ rows'[r][i] = rows[r][i + 1] /\ i \in Nat
      BY <2>3, <2>4
    <3>2. rows[r][i + 1].n = got[r] + (i + 1)
      BY <3>1 DEF InTurn
    <3>3. got'[r] = got[r] + 1 /\ got[r] + (i + 1) = (got[r] + 1) + i
      BY <2>5, <3>1
    <3>4. QED
      BY <3>1, <3>2, <3>3
  <2>8. got[r] < said[r]
    <3>1. LastOut(r) >= got[r] + 1 /\ LastOut(r) <= said[r]
      BY <2>3, <2>5 DEF LastOut, InTurn
    <3>2. QED
      BY <2>5, <3>1, OrderTypes
  <2>9. QED
    BY <2>1, <2>5, <2>6, <2>7, <2>8 DEF InTurn
<1>3. QED
  BY <1>1, <1>2

LEMMA ReceiveOrder ==
  ASSUME LineTypes, NEW r \in Calls, Receive(r), InPlace(r)
  PROVE  InPlace(r)'
<1>1. InTurn(r)' /\ LastOut(r)' = LastOut(r) /\ UNCHANGED <<pipe, said>>
  BY ReceiveTurn DEF InPlace
<1>2. PlacesOf(r)' = PlacesOf(r)
  BY <1>1 DEF PlacesOf
<1>3. QED
  BY <1>1, <1>2 DEF InPlace

\* The first line leaves the pipe.
LEMMA ScanOrder ==
  ASSUME LineTypes, ReaderScan, NEW r \in waiting, r \in Calls, InPlace(r)
  PROVE  InPlace(r)'
<1>0. /\ pipe # <<>> /\ pipe' = Tail(pipe) /\ UNCHANGED <<rows, got, said, waiting>> /\ reader.at = "scan"
      /\ reader' = IF Head(pipe).id \in waiting
                   THEN [at |-> "send", id |-> Head(pipe).id, n |-> Head(pipe).n, end |-> Head(pipe).end]
                   ELSE reader
  BY DEF ReaderScan
<1>1. /\ Head(pipe) = pipe[1] /\ Len(pipe) \in Nat \ {0} /\ Len(pipe') = Len(pipe) - 1
      /\ pipe' \in Seq(PipeLines) /\ DOMAIN pipe = 1..Len(pipe)
      /\ \A i \in 1..Len(pipe') : pipe'[i] = pipe[i + 1]
  BY <1>0, Taken, OrderTypes DEF LineTypes
<1>2. DOMAIN pipe' = 1..Len(pipe')
  BY <1>1
<1>3. \A i \in 1..Len(pipe') : i \in PlacesOf(r)' <=> i + 1 \in PlacesOf(r)
  BY <1>1, <1>2 DEF PlacesOf
<1>4. PlacesOf(r)' \subseteq 1..Len(pipe') /\ PlacesOf(r) \subseteq 1..Len(pipe)
  BY <1>1, <1>2 DEF PlacesOf
<1>5. ASSUME NEW i \in PlacesOf(r)', NEW j \in PlacesOf(r)', i < j PROVE pipe'[i].n < pipe'[j].n
  <2>1. i \in 1..Len(pipe') /\ j \in 1..Len(pipe') /\ i + 1 < j + 1
    BY <1>1, <1>4, <1>5
  <2>2. i + 1 \in PlacesOf(r) /\ j + 1 \in PlacesOf(r)
    BY <1>3, <2>1
  <2>3. pipe[i + 1].n < pipe[j + 1].n
    BY <2>1, <2>2 DEF InPlace
  <2>4. QED
    BY <1>1, <2>1, <2>3
<1>6. ~Holds(r) /\ LastOut(r) \in Nat /\ \A i \in DOMAIN pipe : pipe[i].n \in Nat
  BY <1>0, OrderTypes DEF Holds
<1>7. CASE Head(pipe).id # r
  <2>1. ~Holds(r)' /\ LastOut(r)' = LastOut(r)
    BY <1>0, <1>6, <1>7 DEF Holds, LastOut
  <2>2. 1 \notin PlacesOf(r)
    BY <1>1, <1>7 DEF PlacesOf
  <2>3. ASSUME NEW i \in PlacesOf(r)' PROVE pipe'[i].n \in (LastOut(r) + 1)..said[r]
    <3>1. i + 1 \in PlacesOf(r) /\ pipe'[i].n = pipe[i + 1].n
      BY <1>1, <1>3, <1>4
    <3>2. QED
      BY <3>1 DEF InPlace, InTurn
  <2>4. ASSUME NEW k \in (LastOut(r) + 1)..said[r] PROVE \E i \in PlacesOf(r)' : pipe'[i].n = k
    <3>1. PICK i \in PlacesOf(r) : pipe[i].n = k
      BY DEF InPlace, InTurn
    <3>2. i \in 2..Len(pipe) /\ i - 1 \in 1..Len(pipe') /\ (i - 1) + 1 = i
      BY <1>1, <1>4, <2>2
    <3>3. i - 1 \in PlacesOf(r)' /\ pipe'[i - 1].n = k
      BY <1>1, <1>3, <3>1, <3>2
    <3>4. QED
      BY <3>3
  <2>5. LastOut(r)' <= said'[r] /\ said'[r] = said[r]
    BY <1>0, <2>1 DEF InPlace, InTurn
  <2>6. \A i \in DOMAIN rows'[r] : rows'[r][i].n = got'[r] + i
    BY <1>0 DEF InPlace, InTurn
  <2>7. QED
    BY <1>5, <2>1, <2>3, <2>4, <2>5, <2>6 DEF InPlace, InTurn
<1>8. CASE Head(pipe).id = r
  <2>1. 1 \in PlacesOf(r) /\ \A i \in PlacesOf(r) : i # 1 => pipe[1].n < pipe[i].n
    <3>1. 1 \in PlacesOf(r)
      BY <1>1, <1>8 DEF PlacesOf
    <3>2. ASSUME NEW i \in PlacesOf(r), i # 1 PROVE 1 < i
      BY <1>1, <1>4, <3>2
    <3>3. \A i, j \in PlacesOf(r) : i < j => pipe[i].n < pipe[j].n
      BY DEF InPlace
    <3>4. QED
      BY <3>1, <3>2, <3>3
  <2>2. pipe[1].n = LastOut(r) + 1 /\ LastOut(r) + 1 <= said[r]
    <3>1. pipe[1].n \in (LastOut(r) + 1)..said[r]
      BY <2>1 DEF InPlace, InTurn
    <3>2. LastOut(r) + 1 \in (LastOut(r) + 1)..said[r]
      BY <1>6, <3>1, OrderTypes
    <3>3. PICK i \in PlacesOf(r) : pipe[i].n = LastOut(r) + 1
      BY <3>2 DEF InPlace, InTurn
    <3>4. i = 1 \/ pipe[1].n < LastOut(r) + 1
      BY <2>1, <3>3
    <3>5. QED
      BY <1>6, <3>1, <3>3, <3>4, OrderTypes
  <2>3. reader'.at = "send" /\ reader'.id = r /\ reader'.n = LastOut(r) + 1
    BY <1>0, <1>1, <1>8, <2>2
  <2>4. Holds(r)' /\ LastOut(r)' = LastOut(r) + 1
    <3>1. LastOut(r) = got[r] + Len(rows[r]) /\ LastOut(r)' = got[r] + Len(rows[r]) + 1
      BY <1>0, <1>6, <2>3, OrderTypes DEF LastOut, Holds
    <3>2. QED
      BY <2>3, <3>1 DEF Holds
  <2>5. said[r] \in Nat /\ said'[r] = said[r] /\ LastOut(r)' + 1 = LastOut(r) + 2
    BY <1>0, <1>6, <2>4, OrderTypes
  <2>6. ASSUME NEW i \in PlacesOf(r)' PROVE pipe'[i].n \in (LastOut(r)' + 1)..said'[r]
    <3>1. i + 1 \in PlacesOf(r) /\ pipe'[i].n = pipe[i + 1].n /\ i + 1 # 1
      BY <1>1, <1>3, <1>4
    <3>2. pipe[i + 1].n \in (LastOut(r) + 1)..said[r] /\ pipe[1].n < pipe[i + 1].n
      BY <2>1, <3>1 DEF InPlace, InTurn
    <3>3. QED
      BY <1>6, <2>2, <2>5, <3>1, <3>2
  <2>7. ASSUME NEW k \in (LastOut(r)' + 1)..said'[r] PROVE \E i \in PlacesOf(r)' : pipe'[i].n = k
    <3>1. k \in (LastOut(r) + 1)..said[r] /\ k # LastOut(r) + 1
      BY <1>6, <2>5
    <3>2. PICK i \in PlacesOf(r) : pipe[i].n = k
      BY <3>1 DEF InPlace, InTurn
    <3>3. i \in 2..Len(pipe) /\ i - 1 \in 1..Len(pipe') /\ (i - 1) + 1 = i
      BY <1>1, <1>4, <2>2, <3>1, <3>2
    <3>4. i - 1 \in PlacesOf(r)' /\ pipe'[i - 1].n = k
      BY <1>1, <1>3, <3>2, <3>3
    <3>5. QED
      BY <3>4
  <2>8. LastOut(r)' <= said'[r] /\ \A i \in DOMAIN rows'[r] : rows'[r][i].n = got'[r] + i
    BY <1>0, <2>2, <2>4 DEF InPlace, InTurn
  <2>9. reader'.n = LastOut(r)'
    BY <2>3, <2>4
  <2>10. QED
    BY <1>5, <2>6, <2>7, <2>8, <2>9 DEF InPlace, InTurn
<1>9. QED
  BY <1>7, <1>8

\* The line the reader holds joins its channel.
LEMMA SendTurn ==
  ASSUME LineTypes, ReaderSend, NEW r \in Calls, InTurn(r)
  PROVE  InTurn(r)' /\ LastOut(r)' = LastOut(r) /\ UNCHANGED <<got, pipe, said>>
<1>1. CASE reader.id \in shut
  <2>1. UNCHANGED <<rows, got, reader, pipe, said>>
    BY <1>1 DEF ReaderSend, plugin
  <2>2. QED
    BY <2>1, SameTurn DEF LastOut, Holds
<1>2. CASE reader.id \notin shut
  <2>1. /\ rows' = [rows EXCEPT ![reader.id] = Append(rows[reader.id], [n |-> reader.n, end |-> reader.end])]
        /\ reader' = Scan /\ UNCHANGED <<got, pipe, said>> /\ reader.at = "send"
    BY <1>2 DEF ReaderSend, plugin
  <2>2. ~Holds(r)'
    BY <2>1 DEF Holds, Scan
  <2>3. CASE reader.id # r
    <3>1. rows'[r] = rows[r] /\ ~Holds(r)
      BY <2>1, <2>3 DEF LineTypes, Holds
    <3>2. LastOut(r)' = LastOut(r)
      BY <2>1, <2>2, <3>1 DEF LastOut
    <3>3. QED
      BY <2>1, <2>2, <3>1, <3>2 DEF InTurn
  <2>4. CASE reader.id = r
    <3>1. PICK line \in CallLines : line = [n |-> reader.n, end |-> reader.end]
      BY DEF LineTypes, CallLines
    <3>2. rows'[r] = Append(rows[r], line) /\ line.n = reader.n
      BY <2>1, <2>4, <3>1 DEF LineTypes
    <3>3. /\ Len(rows[r]) \in Nat /\ Len(rows'[r]) = Len(rows[r]) + 1 /\ rows'[r] \in Seq(CallLines)
          /\ rows'[r][Len(rows[r]) + 1] = line /\ \A i \in 1..Len(rows[r]) : rows'[r][i] = rows[r][i]
      BY <3>2, OrderTypes, Appended
    <3>4. /\ LastOut(r) = got[r] + Len(rows[r]) + 1 /\ LastOut(r)' = LastOut(r)
          /\ reader.n = LastOut(r) /\ got[r] \in Nat
      BY <2>1, <2>2, <2>4, <3>3, OrderTypes DEF LastOut, Holds, InTurn
    <3>5. \A i \in DOMAIN rows'[r] : i \in 1..Len(rows[r]) \/ i = Len(rows[r]) + 1
      BY <3>3
    <3>6. ASSUME NEW i \in DOMAIN rows'[r] PROVE rows'[r][i].n = got'[r] + i
      <4>1. CASE i \in 1..Len(rows[r])
        <5>1. i \in DOMAIN rows[r] /\ rows'[r][i] = rows[r][i]
          BY <3>3, <4>1, OrderTypes
        <5>2. QED
          BY <2>1, <5>1 DEF InTurn
      <4>2. CASE i = Len(rows[r]) + 1
        <5>1. rows'[r][i].n = LastOut(r) /\ got'[r] = got[r]
          BY <2>1, <3>2, <3>3, <3>4, <4>2
        <5>2. Len(rows[r]) \in Nat
          BY <3>3
        <5>3. LastOut(r) = got[r] + i
          BY <3>4, <4>2, <5>2
        <5>4. QED
          BY <5>1, <5>3
      <4>3. QED
        BY <3>5, <4>1, <4>2
    <3>7. QED
      BY <2>1, <2>2, <3>4, <3>6 DEF InTurn
  <2>5. QED
    BY <2>3, <2>4
<1>3. QED
  BY <1>1, <1>2

LEMMA SendOrder ==
  ASSUME LineTypes, ReaderSend, NEW r \in Calls, InPlace(r)
  PROVE  InPlace(r)'
<1>1. InTurn(r)' /\ LastOut(r)' = LastOut(r) /\ UNCHANGED <<pipe, said>>
  BY SendTurn DEF InPlace
<1>2. PlacesOf(r)' = PlacesOf(r)
  BY <1>1 DEF PlacesOf
<1>3. QED
  BY <1>1, <1>2 DEF InPlace

\* The plugin says one line more.
LEMMA SayOrder ==
  ASSUME LineTypes, NEW q \in Calls, NEW end \in BOOLEAN, Say(q, end), NEW r \in Calls, InPlace(r)
  PROVE  InPlace(r)'
<1>a. Line(q, said[q] + 1, end) \in PipeLines
  BY DEF LineTypes, PipeLines, Line
<1>0. PICK line \in PipeLines : line = Line(q, said[q] + 1, end)
  BY <1>a
<1>1. /\ pipe' = Append(pipe, line) /\ line.id = q /\ line.n = said[q] + 1
      /\ said' = [said EXCEPT ![q] = said[q] + 1] /\ UNCHANGED <<rows, got, reader>>
  BY <1>0 DEF Say, host, Line
<1>2. /\ Len(pipe) \in Nat /\ Len(pipe') = Len(pipe) + 1 /\ pipe'[Len(pipe) + 1] = line
      /\ DOMAIN pipe = 1..Len(pipe) /\ DOMAIN pipe' = 1..Len(pipe')
      /\ \A i \in 1..Len(pipe) : pipe'[i] = pipe[i]
  BY <1>1, Appended, OrderTypes DEF LineTypes
<1>3. LastOut(r)' = LastOut(r) /\ (Holds(r)' <=> Holds(r))
  BY <1>1 DEF LastOut, Holds
<1>4. PlacesOf(r) \subseteq 1..Len(pipe) /\ \A i \in 1..Len(pipe) : i \in PlacesOf(r)' <=> i \in PlacesOf(r)
  BY <1>2 DEF PlacesOf
<1>5. CASE q # r
  <2>1. PlacesOf(r)' = PlacesOf(r) /\ said'[r] = said[r]
    <3>1. said'[r] = said[r]
      BY <1>1, <1>5 DEF LineTypes
    <3>2. ASSUME NEW i \in PlacesOf(r)' PROVE i \in 1..Len(pipe)
      <4>1. i \in 1..(Len(pipe) + 1) /\ pipe'[i].id = r
        BY <1>2 DEF PlacesOf
      <4>2. i # Len(pipe) + 1
        BY <1>1, <1>2, <1>5, <4>1
      <4>3. QED
        BY <1>2, <4>1, <4>2
    <3>3. QED
      BY <1>4, <3>1, <3>2
  <2>2. \A i \in PlacesOf(r) : pipe'[i].n = pipe[i].n
    BY <1>2, <1>4
  <2>3. InTurn(r)'
    BY <1>1, <2>1, SameTurn DEF InPlace
  <2>4. QED
    BY <1>3, <2>1, <2>2, <2>3 DEF InPlace
<1>6. CASE q = r
  <2>1. /\ said'[r] = said[r] + 1 /\ said[r] \in Nat /\ LastOut(r) \in Nat
        /\ \A i \in 1..Len(pipe) : pipe[i].n \in Nat
    BY <1>1, <1>2, <1>6, OrderTypes DEF LineTypes
  <2>2. PlacesOf(r)' = PlacesOf(r) \cup {Len(pipe) + 1}
    BY <1>1, <1>2, <1>4, <1>6 DEF PlacesOf
  <2>3. \A i \in PlacesOf(r) : pipe'[i].n = pipe[i].n /\ pipe[i].n \in (LastOut(r) + 1)..said[r]
    BY <1>2, <1>4 DEF InPlace, InTurn
  <2>4. ASSUME NEW i \in PlacesOf(r)' PROVE pipe'[i].n \in (LastOut(r) + 1)..said'[r]
    <3>1. CASE i \in PlacesOf(r)
      BY <2>1, <2>3, <3>1
    <3>2. CASE i = Len(pipe) + 1
      BY <1>1, <1>2, <1>6, <2>1, <3>2 DEF InPlace, InTurn
    <3>3. QED
      BY <2>2, <3>1, <3>2
  <2>5. ASSUME NEW k \in (LastOut(r) + 1)..said'[r] PROVE \E i \in PlacesOf(r)' : pipe'[i].n = k
    <3>1. CASE k = said[r] + 1
      <4>1. Len(pipe) + 1 \in PlacesOf(r)' /\ pipe'[Len(pipe) + 1].n = k
        BY <1>1, <1>2, <1>6, <2>2, <3>1
      <4>2. QED
        BY <4>1
    <3>2. CASE k # said[r] + 1
      <4>1. k \in (LastOut(r) + 1)..said[r]
        BY <2>1, <3>2
      <4>2. PICK i \in PlacesOf(r) : pipe[i].n = k
        BY <4>1 DEF InPlace, InTurn
      <4>3. QED
        BY <2>2, <2>3, <4>2
    <3>3. QED
      BY <3>1, <3>2
  <2>6. \A i, j \in PlacesOf(r)' : i < j => pipe'[i].n < pipe'[j].n
    <3>1. SUFFICES ASSUME NEW i \in PlacesOf(r)', NEW j \in PlacesOf(r)', i < j PROVE pipe'[i].n < pipe'[j].n
      OBVIOUS
    <3>2. i \in PlacesOf(r)
      BY <1>2, <1>4, <2>2, <3>1
    <3>3. CASE j \in PlacesOf(r)
      BY <2>3, <3>1, <3>2, <3>3 DEF InPlace, InTurn
    <3>4. CASE j = Len(pipe) + 1
      <4>1. pipe'[j].n = said[r] + 1
        BY <1>1, <1>2, <1>6, <3>4
      <4>2. pipe'[i].n \in (LastOut(r) + 1)..said[r]
        BY <2>3, <3>2
      <4>3. QED
        BY <2>1, <4>1, <4>2
    <3>5. QED
      BY <2>2, <3>3, <3>4
  <2>7. /\ LastOut(r)' <= said'[r] /\ (Holds(r)' => reader'.n = LastOut(r)')
        /\ \A i \in DOMAIN rows'[r] : rows'[r][i].n = got'[r] + i
    BY <1>1, <1>3, <2>1 DEF InPlace, InTurn
  <2>8. QED
    BY <1>3, <2>4, <2>5, <2>6, <2>7 DEF InPlace, InTurn
<1>7. QED
  BY <1>5, <1>6

\* Every step keeps the lines of a caller that waits in order.
LEMMA OrderedStep == HostTypes /\ Untold /\ Ordered /\ [HostNext]_talkVars => Ordered'
<1> SUFFICES ASSUME HostTypes, Untold, Ordered, [HostNext]_talkVars, NEW r \in waiting', closing' \in {"open", "asked"}
             PROVE  InPlace(r)'
  BY DEF Ordered
<1>0. CallerTypes /\ LineTypes
  BY DEF HostTypes
<1>1. ASSUME NEW q \in Calls, Register(q) PROVE InPlace(r)'
  <2>1. UNCHANGED <<rows, got, reader, pipe, said, closing>> /\ waiting' \subseteq waiting \cup {q} /\ Unmade(q)
    BY <1>1 DEF Register, plugin, Untold
  <2>2. r \in Calls /\ InPlace(r)
    BY <1>0, <2>1, UnmadeOrder DEF Ordered, CallerTypes
  <2>3. QED
    BY <2>1, <2>2, SameOrder
<1>2. CASE ~\E q \in Calls : Register(q)
  <2>1. waiting' \subseteq waiting /\ closing \in {"open", "asked"}
    BY <1>2 DEF HostNext, CallerStep, SendCheck, Queue, SendTimeout, Receive, GiveUp, Stop, CloseRows,
       WriterTake, WriterWrite, WriterFail, ReaderScan, ReaderSend, ReaderEnd, CloseAsk, CloseReaped,
       CloseFinish, Finish, Say, StopListening, Exit, talkVars, host
  <2>2. r \in Calls /\ InPlace(r) /\ r \in waiting
    BY <1>0, <2>1 DEF Ordered, CallerTypes
  <2>3. ASSUME NEW q \in Calls, Receive(q) PROVE InPlace(r)'
    <3>1. CASE q = r
      BY <1>0, <2>2, <2>3, <3>1, ReceiveOrder
    <3>2. CASE q # r
      <4>1. UNCHANGED <<reader, pipe, said>> /\ rows'[r] = rows[r] /\ got'[r] = got[r]
        BY <1>0, <2>2, <2>3, <3>2 DEF Receive, plugin, LineTypes
      <4>2. QED
        BY <2>2, <4>1, SameOrder
    <3>3. QED
      BY <3>1, <3>2
  <2>4. CASE ReaderScan
    BY <1>0, <2>2, <2>4, ScanOrder
  <2>5. CASE ReaderSend
    BY <1>0, <2>2, <2>5, SendOrder
  <2>6. ASSUME NEW q \in Calls, NEW end \in BOOLEAN, Say(q, end) PROVE InPlace(r)'
    BY <1>0, <2>2, <2>6, SayOrder
  <2>7. CASE WriterFail \/ ReaderEnd \/ CloseFinish
    <3>1. waiting' = {}
      BY <2>7 DEF WriterFail, ReaderEnd, CloseFinish, Finish
    <3>2. QED
      BY <3>1
  <2>8. CASE CloseReaped
    BY <2>8 DEF CloseReaped
  <2>9. CASE \/ \E q \in Calls : SendCheck(q) \/ Queue(q) \/ SendTimeout(q) \/ GiveUp(q) \/ Stop(q)
             \/ \E x \in Finishers : CloseRows(x)
             \/ WriterTake \/ WriterWrite \/ CloseAsk \/ StopListening \/ Exit \/ UNCHANGED talkVars
    <3>1. UNCHANGED <<rows, got, reader, pipe, said>>
      BY <2>9 DEF SendCheck, Queue, SendTimeout, GiveUp, Stop, CloseRows, WriterTake, WriterWrite,
         CloseAsk, StopListening, Exit, talkVars, host, plugin
    <3>2. QED
      BY <2>2, <3>1, SameOrder
  <2>10. QED
    BY <1>2, <2>3, <2>4, <2>5, <2>6, <2>7, <2>8, <2>9 DEF HostNext, CallerStep
<1>3. QED
  BY <1>1, <1>2

\* A caller that still waits gets every line the plugin said about its request, once and in
\* the order it was said, whatever else the plugin says, whoever gives up, and however far
\* behind the reader is, until the process is reaped.
THEOREM HostInOrder == HostSpec => []InOrder
<1> DEFINE HostInv == HostTypes /\ Untold /\ Ordered
<1>1. HostInit => HostInv
  BY HostTypesInit, ApartInit DEF HostInit, Ordered
<1>2. HostInv /\ [HostNext]_talkVars => HostInv'
  BY HostTypesStep, UntoldStep, OrderedStep
<1>3. HostInv => InOrder
  <2>1. SUFFICES ASSUME Ordered, NEW r \in waiting, closing \in {"open", "asked"}
                 PROVE  {pipe[i].n : i \in PlacesOf(r)} = (LastOut(r) + 1)..said[r]
    BY DEF Ordered, InPlace, InTurn, InOrder
  <2>2. InPlace(r)
    BY <2>1 DEF Ordered
  <2>3. QED
    BY <2>2 DEF InPlace, InTurn
<1> HIDE DEF HostInv
<1>4. QED
  BY <1>1, <1>2, <1>3, PTL DEF HostSpec

-----------------------------------------------------------------------------
\* Once Close has reaped the process there is nothing left to read, and nothing more is said.
Reaped == closing \in {"gone", "done"} => ~alive /\ pipe = <<>>

InTurnAll == \A r \in Calls : InTurn(r)

LEMMA ReapedStep == HostTypes /\ Reaped /\ [HostNext]_talkVars => Reaped'
<1> SUFFICES ASSUME HostTypes, Reaped, [HostNext]_talkVars PROVE Reaped'
  OBVIOUS
<1>1. ASSUME NEW r \in Calls, CallerStep(r) PROVE Reaped'
  BY <1>1 DEF CallerStep, Register, SendCheck, Queue, SendTimeout, Receive, GiveUp, Stop, plugin, Reaped
<1>2. ASSUME NEW x \in Finishers, CloseRows(x) PROVE Reaped'
  BY <1>2 DEF CloseRows, plugin, Reaped
<1>3. CASE WriterTake \/ WriterWrite \/ WriterFail \/ ReaderSend \/ ReaderEnd
  BY <1>3 DEF WriterTake, WriterWrite, WriterFail, ReaderSend, ReaderEnd, Finish, plugin, Reaped
<1>4. CASE ReaderScan
  BY <1>4 DEF ReaderScan, Reaped
<1>5. CASE CloseAsk \/ CloseReaped \/ CloseFinish
  BY <1>5 DEF CloseAsk, CloseReaped, CloseFinish, Finish, plugin, Reaped
<1>6. ASSUME NEW r \in Calls, NEW end \in BOOLEAN, Say(r, end) PROVE Reaped'
  BY <1>6 DEF Say, host, Reaped
<1>7. CASE StopListening \/ Exit \/ UNCHANGED talkVars
  BY <1>7 DEF StopListening, Exit, host, plugin, talkVars, Reaped
<1>8. QED
  BY <1>1, <1>2, <1>3, <1>4, <1>5, <1>6, <1>7 DEF HostNext

\* The lines out of the pipe stay in turn, also of a request nobody waits for any more: its
\* later lines are dropped where they are read.
LEMMA InTurnStep ==
  HostTypes /\ Untold /\ Ordered /\ Reaped /\ InTurnAll /\ [HostNext]_talkVars => InTurnAll'
<1> SUFFICES ASSUME HostTypes, Ordered, Reaped, InTurnAll, [HostNext]_talkVars, NEW r \in Calls
             PROVE  InTurn(r)'
  BY DEF InTurnAll
<1>0. CallerTypes /\ LineTypes /\ InTurn(r)
  BY DEF HostTypes, InTurnAll
<1>1. ASSUME NEW q \in Calls, Receive(q) PROVE InTurn(r)'
  <2>1. CASE q = r
    BY <1>0, <1>1, <2>1, ReceiveTurn
  <2>2. CASE q # r
    <3>1. UNCHANGED <<reader, said>> /\ rows'[r] = rows[r] /\ got'[r] = got[r]
      BY <1>0, <1>1, <2>2 DEF Receive, plugin, LineTypes
    <3>2. QED
      BY <1>0, <3>1, SameTurn
  <2>3. QED
    BY <2>1, <2>2
<1>2. CASE ReaderScan
  <2>1. CASE Head(pipe).id = r /\ r \in waiting
    <3>1. closing \in {"open", "asked"}
      BY <1>0, <1>2 DEF ReaderScan, Reaped, CallerTypes
    <3>2. InPlace(r)
      BY <2>1, <3>1 DEF Ordered
    <3>3. InPlace(r)'
      BY <1>0, <1>2, <2>1, <3>2, ScanOrder
    <3>4. QED
      BY <3>3 DEF InPlace
  <2>2. CASE ~(Head(pipe).id = r /\ r \in waiting)
    <3>1. UNCHANGED <<rows, got, said>> /\ ~Holds(r) /\ ~Holds(r)'
      BY <1>2, <2>2 DEF ReaderScan, Holds
    <3>2. QED
      BY <1>0, <3>1 DEF InTurn, LastOut
  <2>3. QED
    BY <2>1, <2>2
<1>3. CASE ReaderSend
  BY <1>0, <1>3, SendTurn
<1>4. ASSUME NEW q \in Calls, NEW end \in BOOLEAN, Say(q, end) PROVE InTurn(r)'
  <2>1. UNCHANGED <<rows, got, reader>> /\ said' = [said EXCEPT ![q] = said[q] + 1]
    BY <1>4 DEF Say, host
  <2>2. said[r] <= said'[r] /\ said[r] \in Nat /\ said'[r] \in Nat /\ LastOut(r) \in Nat
    <3>1. said \in [Calls -> Nat] /\ LastOut(r) \in Nat
      BY <1>0, OrderTypes DEF LineTypes
    <3>2. said'[r] = IF r = q THEN said[r] + 1 ELSE said[r]
      BY <2>1, <3>1
    <3>3. QED
      BY <3>1, <3>2
  <2>3. LastOut(r)' = LastOut(r) /\ (Holds(r)' <=> Holds(r))
    BY <2>1 DEF LastOut, Holds
  <2>4. QED
    BY <1>0, <2>1, <2>2, <2>3 DEF InTurn
<1>5. CASE ReaderEnd
  <2>1. UNCHANGED <<rows, got, said>> /\ ~Holds(r) /\ ~Holds(r)'
    BY <1>5 DEF ReaderEnd, Holds, Scan, plugin
  <2>2. QED
    BY <1>0, <2>1 DEF InTurn, LastOut
<1>6. CASE \/ \E q \in Calls : Register(q) \/ SendCheck(q) \/ Queue(q) \/ SendTimeout(q) \/ GiveUp(q) \/ Stop(q)
           \/ \E x \in Finishers : CloseRows(x)
           \/ WriterTake \/ WriterWrite \/ WriterFail \/ CloseAsk \/ CloseReaped \/ CloseFinish
           \/ StopListening \/ Exit \/ UNCHANGED talkVars
  <2>1. UNCHANGED <<rows, got, reader, said>>
    BY <1>6 DEF Register, SendCheck, Queue, SendTimeout, GiveUp, Stop, CloseRows, WriterTake, WriterWrite,
       WriterFail, CloseAsk, CloseReaped, CloseFinish, StopListening, Exit, talkVars, host, plugin
  <2>2. QED
    BY <1>0, <2>1, SameTurn
<1>7. QED
  BY <1>1, <1>2, <1>3, <1>4, <1>5, <1>6 DEF HostNext, CallerStep

LEMMA PromiseInit == HostInit => Promise!Init
<1> SUFFICES ASSUME HostInit PROVE Promise!Init
  OBVIOUS
<1>1. \A r \in Calls : Stage(r) = "idle"
  BY DEF HostInit, Stage
<1>2. QED
  BY <1>1 DEF HostInit, Promise!Init

\* What a caller's own step does to where its request is.
LEMMA StageMoves ==
  ASSUME CallerTypes, NEW r \in Calls, NEW at, caller' = [caller EXCEPT ![r] = at]
  PROVE  /\ \A q \in Calls : q # r => Stage(q)' = Stage(q)
         /\ Stage(r)' = IF at = "idle" THEN "idle" ELSE IF at \in {"leaving", "gone"} THEN "over" ELSE "open"
<1>1. caller'[r] = at /\ \A q \in Calls : q # r => caller'[q] = caller[q]
  BY DEF CallerTypes
<1>2. QED
  BY <1>1 DEF Stage

\* Every step of the host opens, continues, ends or leaves alone each conversation.
LEMMA PromiseStep ==
  HostTypes /\ Untold /\ InTurnAll /\ [HostNext]_talkVars => [Promise!Next]_(Promise!vars)
<1> SUFFICES ASSUME HostTypes, Untold, InTurnAll, [HostNext]_talkVars
             PROVE  Promise!Next \/ UNCHANGED Promise!vars
  OBVIOUS
<1> DEFINE stages == [r \in Calls |-> Stage(r)]
<1>0. CallerTypes /\ LineTypes /\ WriterTypes
  BY DEF HostTypes
<1>1. ASSUME NEW r \in Calls, Register(r) PROVE Promise!Next
  <2>1. UNCHANGED <<said, got>> /\ caller[r] = "idle"
    BY <1>1 DEF Register, plugin
  <2>2. \E at \in {"gone", "sending"} : caller' = [caller EXCEPT ![r] = at]
    BY <1>1 DEF Register
  <2>3. PICK at \in {"gone", "sending"} : caller' = [caller EXCEPT ![r] = at]
    BY <2>2
  <2>4. Stage(r) = "idle" /\ Stage(r)' \in {"open", "over"} /\ \A q \in Calls : q # r => Stage(q)' = Stage(q)
    BY <1>0, <2>1, <2>3, StageMoves DEF Stage
  <2>5. stages' = [stages EXCEPT ![r] = Stage(r)']
    BY <2>4
  <2>6. Promise!Open(r)
    BY <2>1, <2>4, <2>5 DEF Promise!Open
  <2>7. QED
    BY <2>6 DEF Promise!Next
<1>2. ASSUME NEW r \in Calls, SendCheck(r) \/ Queue(r) \/ SendTimeout(r) \/ GiveUp(r)
      PROVE  Promise!Next \/ UNCHANGED Promise!vars
  <2>1. UNCHANGED <<said, got>> /\ caller[r] \in {"sending", "queueing", "reading"}
    BY <1>2 DEF SendCheck, Queue, SendTimeout, GiveUp, plugin
  <2>2. \E at \in {"leaving", "queueing", "reading"} : caller' = [caller EXCEPT ![r] = at]
    BY <1>2 DEF SendCheck, Queue, SendTimeout, GiveUp
  <2>3. PICK at \in {"leaving", "queueing", "reading"} : caller' = [caller EXCEPT ![r] = at]
    BY <2>2
  <2>4. Stage(r) = "open" /\ Stage(r)' \in {"open", "over"} /\ \A q \in Calls : q # r => Stage(q)' = Stage(q)
    BY <1>0, <2>1, <2>3, StageMoves DEF Stage
  <2>5. CASE Stage(r)' = "over"
    <3>1. stages' = [stages EXCEPT ![r] = "over"]
      BY <2>4, <2>5
    <3>2. Promise!Leave(r)
      BY <2>1, <2>4, <3>1 DEF Promise!Leave
    <3>3. QED
      BY <3>2 DEF Promise!Next
  <2>6. CASE Stage(r)' = "open"
    <3>1. stages' = stages
      BY <2>4, <2>6
    <3>2. QED
      BY <2>1, <3>1 DEF Promise!vars
  <2>7. QED
    BY <2>4, <2>5, <2>6
<1>3. ASSUME NEW r \in Calls, Receive(r) PROVE Promise!Next
  <2>1. InTurn(r) /\ caller[r] = "reading" /\ UNCHANGED said
    BY <1>3 DEF InTurnAll, Receive, plugin
  <2>2. \E at \in {"leaving", "reading"} : caller' = [caller EXCEPT ![r] = at]
    BY <1>3, <2>1 DEF Receive
  <2>3. PICK at \in {"leaving", "reading"} : caller' = [caller EXCEPT ![r] = at]
    BY <2>2
  <2>4. Stage(r) = "open" /\ Stage(r)' \in {"open", "over"} /\ \A q \in Calls : q # r => Stage(q)' = Stage(q)
    BY <1>0, <2>1, <2>3, StageMoves DEF Stage
  <2>5. stages' = [stages EXCEPT ![r] = Stage(r)']
    BY <2>4
  <2>6. CASE rows[r] # <<>>
    <3>1. got' = [got EXCEPT ![r] = got[r] + 1] /\ got[r] < said[r]
      BY <1>0, <1>3, <2>1, <2>6, ReceiveTurn
    <3>2. Promise!Take(r)
      BY <2>1, <2>4, <2>5, <3>1 DEF Promise!Take
    <3>3. QED
      BY <3>2 DEF Promise!Next
  <2>7. CASE rows[r] = <<>>
    <3>1. UNCHANGED got /\ caller' = [caller EXCEPT ![r] = "leaving"]
      BY <1>3, <2>7 DEF Receive
    <3>2. Stage(r)' = "over"
      <4>1. caller'[r] = "leaving"
        BY <1>0, <3>1 DEF CallerTypes
      <4>2. QED
        BY <4>1 DEF Stage
    <3>3. Promise!Leave(r)
      BY <2>1, <2>4, <2>5, <3>1, <3>2 DEF Promise!Leave
    <3>4. QED
      BY <3>3 DEF Promise!Next
  <2>8. QED
    BY <2>6, <2>7
<1>4. ASSUME NEW r \in Calls, Stop(r) PROVE UNCHANGED Promise!vars
  <2>1. UNCHANGED <<said, got>> /\ caller[r] = "leaving" /\ caller' = [caller EXCEPT ![r] = "gone"]
    BY <1>4 DEF Stop, plugin
  <2>2. Stage(r) = "over" /\ Stage(r)' = "over" /\ \A q \in Calls : q # r => Stage(q)' = Stage(q)
    BY <1>0, <2>1, StageMoves DEF Stage
  <2>3. stages' = stages
    BY <2>2
  <2>4. QED
    BY <2>1, <2>3 DEF Promise!vars
<1>5. ASSUME NEW r \in Calls, NEW end \in BOOLEAN, Say(r, end) PROVE Promise!Next
  <2>1. r \in asked /\ said' = [said EXCEPT ![r] = said[r] + 1] /\ UNCHANGED <<caller, got>>
    BY <1>5 DEF Say, host
  <2>2. caller[r] # "idle"
    BY <2>1 DEF Untold, Unmade
  <2>3. Stage(r) # "idle"
    BY <2>2 DEF Stage
  <2>4. stages' = stages
    BY <2>1 DEF Stage
  <2>5. Promise!Say(r)
    BY <2>1, <2>3, <2>4 DEF Promise!Say
  <2>6. QED
    BY <2>5 DEF Promise!Next
<1>6. CASE \/ \E x \in Finishers : CloseRows(x)
           \/ WriterTake \/ WriterWrite \/ WriterFail \/ ReaderScan \/ ReaderSend \/ ReaderEnd
           \/ CloseAsk \/ CloseReaped \/ CloseFinish \/ StopListening \/ Exit \/ UNCHANGED talkVars
  <2>1. UNCHANGED <<caller, said, got>>
    BY <1>6 DEF CloseRows, WriterTake, WriterWrite, WriterFail, ReaderScan, ReaderSend, ReaderEnd,
       CloseAsk, CloseReaped, CloseFinish, StopListening, Exit, talkVars, host, plugin
  <2>2. stages' = stages
    BY <2>1 DEF Stage
  <2>3. QED
    BY <2>1, <2>2 DEF Promise!vars
<1>7. QED
  BY <1>1, <1>2, <1>3, <1>4, <1>5, <1>6 DEF HostNext, CallerStep

\* The host implements what a caller is promised: its lines come in turn until it is told
\* of the end or leaves, however the plugin, the other callers and Close interleave, and
\* also after finish has taken the call out of the table.
THEOREM HostKeepsPromise == HostSpec => AnswersInTurn
<1> DEFINE HostInv == HostTypes /\ Untold /\ Ordered /\ Reaped /\ InTurnAll
<1>1. HostInit => HostInv
  <2>1. HostInit => Ordered /\ Reaped
    BY DEF HostInit, Ordered, Reaped
  <2>2. HostInit => InTurnAll
    BY DEF HostInit, InTurnAll, InTurn, LastOut, Holds, Scan
  <2>3. QED
    BY <2>1, <2>2, HostTypesInit, ApartInit
<1>2. HostInv /\ [HostNext]_talkVars => HostInv'
  BY HostTypesStep, UntoldStep, OrderedStep, ReapedStep, InTurnStep
<1>3. HostInit => Promise!Init
  BY PromiseInit
<1>4. HostInv /\ [HostNext]_talkVars => [Promise!Next]_(Promise!vars)
  BY PromiseStep
<1> HIDE DEF HostInv
<1>5. QED
  BY <1>1, <1>2, <1>3, <1>4, PTL DEF HostSpec, AnswersInTurn, Promise!Spec

-----------------------------------------------------------------------------
(***************************************************************************)
(* Nobody is forgotten when the conversation ends.  That each channel is   *)
(* closed in the end rests on fairness (EveryoneIsTold); that none is left *)
(* which nobody will close does not.                                       *)
(***************************************************************************)
Answering(r) == caller[r] \in {"sending", "queueing", "reading"}

\* A finish has taken its channel and will close it.
Promised(r) == \E x \in Finishers : r \in ending[x]

\* The output has ended, the input is broken, or the process was closed.
EndSeen == reader.at = "end" \/ writer.at = "done" \/ closing = "done"

\* Whoever is about to read an answer, or reading one, once the end was seen: its channel
\* is closed, or in the hands of a finish that is closing it.
NobodyForgotten == EndSeen => \A r \in Calls : Answering(r) => r \in shut \/ Promised(r)

\* A caller is in one of the three places, and in the first only before the end.
InOnePlace == \A r \in Calls : Answering(r) => r \in waiting \cup shut \/ Promised(r)
EndEmpties == (why => waiting = {}) /\ (EndSeen => why)

\* Each of them finishes once, so that it never drops channels it has yet to close.
FinishesOnce ==
  /\ reader.at # "end" => ending["reader"] = {}
  /\ writer.at # "done" => ending["writer"] = {}
  /\ closing # "done" => ending["closer"] = {}

EndInv == InOnePlace /\ EndEmpties /\ FinishesOnce

\* Every call that waited is in the hands of the finish, and every other is where it was.
LEMMA FinishKeeps ==
  ASSUME CallerTypes, InOnePlace, NEW x \in Finishers, ending[x] = {}, Finish(x),
         UNCHANGED <<caller, shut>>
  PROVE  InOnePlace' /\ why' /\ waiting' = {} /\ \A y \in Finishers : y # x => ending'[y] = ending[y]
<1>1. /\ ending'[x] = waiting /\ waiting' = {} /\ why'
      /\ \A y \in Finishers : y # x => ending'[y] = ending[y]
  BY DEF Finish, CallerTypes
<1>2. ASSUME NEW r \in Calls, Answering(r)' PROVE r \in shut' \/ Promised(r)'
  <2>1. r \in waiting \/ r \in shut \/ \E y \in Finishers : y # x /\ r \in ending[y]
    BY <1>2 DEF InOnePlace, Answering, Promised
  <2>2. QED
    BY <1>1, <2>1 DEF Promised
<1>3. QED
  BY <1>1, <1>2 DEF InOnePlace

LEMMA EndStep == HostTypes /\ EndInv /\ [HostNext]_talkVars => EndInv'
<1> SUFFICES ASSUME HostTypes, EndInv, [HostNext]_talkVars PROVE EndInv'
  OBVIOUS
<1>0. CallerTypes /\ InOnePlace /\ EndEmpties /\ FinishesOnce
  BY DEF HostTypes, EndInv
<1>1. ASSUME NEW r \in Calls, CallerStep(r) PROVE EndInv'
  <2>1. /\ UNCHANGED <<shut, why, ending, closing, reader, writer>>
        /\ \A s \in Calls : s # r => caller'[s] = caller[s] /\ (s \in waiting => s \in waiting')
    BY <1>0, <1>1 DEF CallerStep, Register, SendCheck, Queue, SendTimeout, Receive, GiveUp, Stop,
       CallerTypes
  <2>2. \/ waiting' = waiting /\ (Answering(r)' => Answering(r))
        \/ ~why /\ r \in waiting'
        \/ waiting' = waiting \ {r} /\ ~Answering(r)'
    BY <1>0, <1>1 DEF CallerStep, Register, SendCheck, Queue, SendTimeout, Receive, GiveUp, Stop,
       CallerTypes, Answering
  <2>3. InOnePlace'
    <3>1. ASSUME NEW s \in Calls, s # r, Answering(s)' PROVE s \in waiting' \cup shut' \/ Promised(s)'
      BY <1>0, <2>1, <3>1 DEF InOnePlace, Answering, Promised
    <3>2. ASSUME Answering(r)' PROVE r \in waiting' \cup shut' \/ Promised(r)'
      BY <1>0, <2>1, <2>2, <3>2 DEF InOnePlace, Promised
    <3>3. QED
      BY <3>1, <3>2 DEF InOnePlace
  <2>4. EndEmpties'
    BY <1>0, <2>1, <2>2 DEF EndEmpties, EndSeen
  <2>5. FinishesOnce'
    BY <1>0, <2>1 DEF FinishesOnce
  <2>6. QED
    BY <2>3, <2>4, <2>5 DEF EndInv
<1>2. ASSUME NEW x \in Finishers, CloseRows(x) PROVE EndInv'
  <2>1. PICK r \in ending[x] :
          /\ ending' = [ending EXCEPT ![x] = ending[x] \ {r}] /\ shut' = shut \cup {r}
          /\ UNCHANGED <<caller, waiting, why, closing, reader, writer>>
    BY <1>2 DEF CloseRows
  <2>2. ending'[x] = ending[x] \ {r} /\ \A y \in Finishers : y # x => ending'[y] = ending[y]
    BY <1>0, <2>1 DEF CallerTypes
  <2>3. ASSUME NEW s \in Calls, Promised(s) PROVE s \in shut' \/ Promised(s)'
    BY <2>1, <2>2, <2>3 DEF Promised
  <2>4. InOnePlace'
    BY <1>0, <2>1, <2>3 DEF InOnePlace, Answering
  <2>5. EndEmpties'
    BY <1>0, <2>1 DEF EndEmpties, EndSeen
  <2>6. FinishesOnce'
    BY <1>0, <2>1, <2>2 DEF FinishesOnce, Finishers
  <2>7. QED
    BY <2>4, <2>5, <2>6 DEF EndInv
<1>3. CASE WriterFail
  <2>1. /\ Finish("writer") /\ UNCHANGED <<caller, shut, closing, reader>>
        /\ writer.at = "write" /\ writer'.at = "done"
    BY <1>3 DEF WriterFail
  <2>2. ending["writer"] = {} /\ "writer" \in Finishers
    BY <1>0, <2>1 DEF FinishesOnce, Finishers
  <2>3. InOnePlace' /\ why' /\ waiting' = {} /\ \A y \in Finishers : y # "writer" => ending'[y] = ending[y]
    BY <1>0, <2>1, <2>2, FinishKeeps
  <2>4. FinishesOnce'
    BY <1>0, <2>1, <2>3 DEF FinishesOnce, Finishers
  <2>5. QED
    BY <2>3, <2>4 DEF EndInv, EndEmpties
<1>4. CASE ReaderEnd
  <2>1. /\ Finish("reader") /\ UNCHANGED <<caller, shut, closing, writer>>
        /\ reader.at = "scan" /\ reader'.at = "end"
    BY <1>4 DEF ReaderEnd, Scan
  <2>2. ending["reader"] = {} /\ "reader" \in Finishers
    BY <1>0, <2>1 DEF FinishesOnce, Finishers
  <2>3. InOnePlace' /\ why' /\ waiting' = {} /\ \A y \in Finishers : y # "reader" => ending'[y] = ending[y]
    BY <1>0, <2>1, <2>2, FinishKeeps
  <2>4. FinishesOnce'
    BY <1>0, <2>1, <2>3 DEF FinishesOnce, Finishers
  <2>5. QED
    BY <2>3, <2>4 DEF EndInv, EndEmpties
<1>5. CASE CloseFinish
  <2>1. /\ Finish("closer") /\ UNCHANGED <<caller, shut, reader, writer>>
        /\ closing = "gone" /\ closing' = "done"
    BY <1>5 DEF CloseFinish
  <2>2. ending["closer"] = {} /\ "closer" \in Finishers
    BY <1>0, <2>1 DEF FinishesOnce, Finishers
  <2>3. InOnePlace' /\ why' /\ waiting' = {} /\ \A y \in Finishers : y # "closer" => ending'[y] = ending[y]
    BY <1>0, <2>1, <2>2, FinishKeeps
  <2>4. FinishesOnce'
    BY <1>0, <2>1, <2>3 DEF FinishesOnce, Finishers
  <2>5. QED
    BY <2>3, <2>4 DEF EndInv, EndEmpties
<1>6. CASE \/ WriterTake \/ WriterWrite \/ ReaderScan \/ ReaderSend \/ CloseAsk \/ CloseReaped
           \/ \E r \in Calls, end \in BOOLEAN : Say(r, end)
           \/ StopListening \/ Exit \/ UNCHANGED talkVars
  <2>1. UNCHANGED <<caller, shut, why, ending, waiting>>
    BY <1>6 DEF WriterTake, WriterWrite, ReaderScan, ReaderSend, CloseAsk, CloseReaped, Say,
       StopListening, Exit, talkVars, host
  <2>2. /\ (reader'.at = "end") = (reader.at = "end")
        /\ (writer'.at = "done") = (writer.at = "done")
        /\ (closing' = "done") = (closing = "done")
    BY <1>6 DEF WriterTake, WriterWrite, ReaderScan, ReaderSend, CloseAsk, CloseReaped, Say,
       StopListening, Exit, talkVars, host, Scan
  <2>3. InOnePlace'
    BY <1>0, <2>1 DEF InOnePlace, Answering, Promised
  <2>4. EndEmpties' /\ FinishesOnce'
    BY <1>0, <2>1, <2>2 DEF EndEmpties, EndSeen, FinishesOnce
  <2>5. QED
    BY <2>3, <2>4 DEF EndInv
<1>7. QED
  BY <1>1, <1>2, <1>3, <1>4, <1>5, <1>6 DEF HostNext

\* However the end of the conversation is seen, by whom first, and whoever registers,
\* leaves or is being answered meanwhile: nobody goes on waiting for an answer without a
\* goroutine that has its channel to close, or has closed it.
THEOREM HostForgetsNobody == HostSpec => []NobodyForgotten
<1> DEFINE HostInv == HostTypes /\ EndInv
<1>1. HostInit => HostInv
  <2>1. HostInit => EndInv
    BY DEF HostInit, EndInv, InOnePlace, Answering, EndEmpties, EndSeen, FinishesOnce, Scan, Finishers
  <2>2. QED
    BY <2>1, HostTypesInit
<1>2. HostInv /\ [HostNext]_talkVars => HostInv'
  BY HostTypesStep, EndStep
<1>3. HostInv => NobodyForgotten
  BY DEF EndInv, EndEmpties, InOnePlace, NobodyForgotten
<1> HIDE DEF HostInv
<1>4. QED
  BY <1>1, <1>2, <1>3, PTL DEF HostSpec
=============================================================================
