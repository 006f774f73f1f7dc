------------------------ MODULE QuerySession_proofs ------------------------
(***************************************************************************)
(* What holds of a query tab for any number of scripts of any length and   *)
(* any stops, commits, transactions and rereads between them: what is on   *)
(* show is of the latest run, and no result was cut short by its own       *)
(* script or by the next.                                                  *)
(*                                                                         *)
(* A job's next record is described once (JobBecomes); one lemma per       *)
(* action says what it does to the jobs, and one per part of the invariant *)
(* takes the actions in turn.                                              *)
(*                                                                         *)
(* Then, of the connection the tab has: one statement at a time is with    *)
(* the server, one result streams, and once the tab is closed somebody     *)
(* lets go of all of it.                                                   *)
(***************************************************************************)
EXTENDS QuerySession, TLAPS

Ats == {"none", "starting", "next", "waiting", "executing", "buffering", "handing",
        "refused", "done", "over"}

Elements(q) == {q[k] : k \in DOMAIN q}
Coming(r) == Elements(queue[r])

Types ==
  /\ tab \in {"open", "closed"} /\ (closer # "none" => tab = "closed")
  /\ cur \in Runs \cup {0} /\ executing \in BOOLEAN
  /\ shown \subseteq Results
  /\ committing \in OfScripts \cup {None} /\ of \in OfScripts \cup {None}
  /\ committing = None \/ of = None
  /\ stream \in [Results -> {"none", "open", "memory", "partial", "closed"}]
  /\ rs \in [Results -> {"none", "reading", "short", "ended"}]
  /\ job \in [Jobs -> [at : Ats, i : Nat, err : BOOLEAN, rows : BOOLEAN]]
  /\ queue \in [Runs -> Seq(OfScripts)]

\* Each job is where it may be in its script.
Placed ==
  /\ \A r \in Runs :
       /\ job[r].i <= Lengths[r]
       /\ job[r].at = "starting" => job[r].i = 0
       /\ job[r].at = "next" => job[r].i < Lengths[r]
       /\ job[r].at \in {"waiting", "executing", "buffering", "handing"} => job[r].i # 0
       /\ r > cur => job[r] = NoJob
  /\ job[Again].at \notin {"starting", "next", "buffering", "refused"}

\* One script at a time: that of the latest run.
OneRun == \A r \in Runs :
  /\ job[r].at \notin {"none", "over"} \/ queue[r] # <<>> => r = cur /\ executing
  /\ job[r].at \in {"none", "starting", "refused", "over"} => queue[r] = <<>>
  /\ \A x \in Coming(r) : x[1] = r

\* What is on show, and what may come to be.
Current ==
  /\ ShownIsCurrent
  /\ Again \in shown \/ job[Again].at # "none" => of # None

\* The results of a script come in its order, and only the last one is left open.
Follows(x) ==
  LET j == job[x[1]] IN
  /\ stream[x] # "none" \/ rs[x] # "none" =>
       /\ j.at # "none"
       /\ j.at \in {"starting", "next", "buffering", "handing"} => x[2] <= j.i
       /\ j.at \in {"waiting", "executing"} => x[2] < j.i
       /\ j.at \in {"buffering", "handing"} /\ rs[x] # "none" => x[2] < j.i
  /\ stream[x] = "open" => x[2] = Lengths[x[1]] \/ (j.at = "buffering" /\ x[2] = j.i)

InOrder == \A x \in OfScripts : Follows(x)

\* What the run is buffering, or handing over: a result that is not queued yet.
AtHand(x) == LET j == job[x[1]] IN j.at \in {"buffering", "handing"} /\ j.rows /\ j.i = x[2]

CutShort(x) == stream[x] \in {"closed", "partial"}

\* A result on its way to the window, or there, that was cut short is known to be.
Accounted == tab = "open" => \A x \in OfScripts :
  /\ x \in shown \cup Coming(x[1]) =>
       /\ rs[x] # "none"
       /\ rs[x] = "short" \/ (rs[x] = "reading" /\ CutShort(x)) => x \in cut
  /\ AtHand(x) => /\ CutShort(x) => x \in cut
                  /\ job[x[1]].at = "buffering" => stream[x] \in {"open", "closed"}

Inv == Types /\ Placed /\ OneRun /\ Current /\ InOrder /\ Accounted

-----------------------------------------------------------------------------
\* The names of runs and of results.
LEMMA Names ==
  /\ Runs \subseteq Nat \ {0} /\ 0 \notin Runs /\ Again \notin Runs /\ Again \notin OfScripts
  /\ None \notin OfScripts /\ None # Again /\ Jobs = Runs \cup {Again} /\ Results = OfScripts \cup {Again}
  /\ \A r \in Runs : Lengths[r] \in Nat \ {0}
  /\ \A x \in OfScripts : /\ x[1] \in Runs /\ x[2] \in Nat \ {0} /\ x[2] <= Lengths[x[1]]
                          /\ x = <<x[1], x[2]>>
  /\ \A r \in Runs : \A i \in Nat : i # 0 /\ i <= Lengths[r] => <<r, i>> \in OfScripts
<1>1. /\ Runs \subseteq Nat \ {0} /\ 0 \notin Runs /\ \A r \in Runs : Lengths[r] \in Nat \ {0}
  BY BoundsAssumption DEF Runs
<1>2. ASSUME NEW x \in OfScripts
      PROVE  x[1] \in Runs /\ x[2] \in Nat \ {0} /\ x[2] <= Lengths[x[1]] /\ x = <<x[1], x[2]>>
  <2>1. PICK r \in Runs, i \in UNION {1..Lengths[q] : q \in Runs} : x = <<r, i>>
    BY DEF OfScripts
  <2>2. i \in Nat \ {0}
    BY <1>1
  <2>3. x[2] <= Lengths[x[1]]
    BY DEF OfScripts
  <2>4. QED
    BY <2>1, <2>2, <2>3
<1>3. ASSUME NEW r \in Runs, NEW i \in Nat, i # 0, i <= Lengths[r] PROVE <<r, i>> \in OfScripts
  <2>1. i \in 1..Lengths[r]
    BY <1>1, <1>3
  <2>2. <<r, i>> \in Runs \X UNION {1..Lengths[q] : q \in Runs}
    BY <2>1
  <2>3. QED
    BY <1>3, <2>2 DEF OfScripts
<1>4. QED
  BY <1>1, <1>2, <1>3, NamesAssumption DEF Jobs, Results

LEMMA Queues ==
  ASSUME NEW S, NEW q \in Seq(S), NEW x \in S
  PROVE  /\ Append(q, x) \in Seq(S) /\ Append(q, x) # <<>> /\ Elements(Append(q, x)) = Elements(q) \cup {x}
         /\ q # <<>> => /\ Tail(q) \in Seq(S) /\ Head(q) \in S /\ Head(q) \in Elements(q)
                        /\ Elements(Tail(q)) \subseteq Elements(q)
         /\ Elements(<<>>) = {}
<1>1. /\ Append(q, x) \in Seq(S) /\ Append(q, x) # <<>> /\ Len(q) \in Nat /\ DOMAIN q = 1..Len(q)
      /\ DOMAIN Append(q, x) = 1..(Len(q) + 1)
      /\ \A k \in 1..Len(q) : Append(q, x)[k] = q[k]
      /\ Append(q, x)[Len(q) + 1] = x
  OBVIOUS
<1>2. Elements(Append(q, x)) = Elements(q) \cup {x}
  <2>1. ASSUME NEW y \in Elements(Append(q, x)) PROVE y \in Elements(q) \cup {x}
    <3>1. PICK k \in 1..(Len(q) + 1) : y = Append(q, x)[k]
      BY <1>1 DEF Elements
    <3>2. CASE k = Len(q) + 1
      BY <1>1, <3>1, <3>2
    <3>3. CASE k \in 1..Len(q)
      BY <1>1, <3>1, <3>3 DEF Elements
    <3>4. QED
      BY <1>1, <3>2, <3>3
  <2>2. ASSUME NEW y \in Elements(q) PROVE y \in Elements(Append(q, x))
    <3>1. PICK k \in 1..Len(q) : y = q[k]
      BY <1>1 DEF Elements
    <3>2. k \in 1..(Len(q) + 1) /\ Append(q, x)[k] = y
      BY <1>1, <3>1
    <3>3. QED
      BY <1>1, <3>2 DEF Elements
  <2>3. x \in Elements(Append(q, x))
    <3>1. Len(q) + 1 \in 1..(Len(q) + 1)
      BY <1>1
    <3>2. QED
      BY <1>1, <3>1 DEF Elements
  <2>4. QED
    BY <2>1, <2>2, <2>3
<1>3. ASSUME q # <<>>
      PROVE  /\ Tail(q) \in Seq(S) /\ Head(q) \in S /\ Head(q) \in Elements(q)
             /\ Elements(Tail(q)) \subseteq Elements(q)
  <2>1. /\ Tail(q) \in Seq(S) /\ Head(q) = q[1] /\ 1 \in 1..Len(q) /\ q[1] \in S
        /\ DOMAIN Tail(q) = 1..(Len(q) - 1) /\ \A k \in 1..(Len(q) - 1) : Tail(q)[k] = q[k + 1]
    BY <1>1, <1>3
  <2>2. \A k \in 1..(Len(q) - 1) : k + 1 \in 1..Len(q)
    BY <1>1
  <2>3. QED
    BY <1>1, <2>1, <2>2 DEF Elements
<1>4. Elements(<<>>) = {}
  BY DEF Elements
<1>5. QED
  BY <1>1, <1>2, <1>3, <1>4

LEMMA InvInit == Init => Inv
<1> SUFFICES ASSUME Init PROVE Inv
  OBVIOUS
<1>1. Types
  <2>1. NoJob \in [at : Ats, i : Nat, err : BOOLEAN, rows : BOOLEAN]
    BY DEF NoJob, Ats
  <2>2. \A S : <<>> \in Seq(S)
    OBVIOUS
  <2>3. job \in [Jobs -> [at : Ats, i : Nat, err : BOOLEAN, rows : BOOLEAN]]
    BY <2>1 DEF Init
  <2>4. queue \in [Runs -> Seq(OfScripts)]
    BY <2>2 DEF Init
  <2>5. QED
    BY <2>3, <2>4 DEF Init, Types
<1>2. Placed
  <2>1. \A o \in Jobs : job[o] = NoJob
    BY DEF Init
  <2>2. QED
    BY <2>1, Names DEF Placed, NoJob
<1>3. OneRun
  <2>1. \A r \in Runs : job[r] = NoJob /\ queue[r] = <<>>
    BY Names DEF Init
  <2>2. QED
    BY <2>1, Names DEF OneRun, NoJob, Coming, Elements
<1>4. Current
  BY Names DEF Init, Current, ShownIsCurrent, NoJob
<1>5. InOrder
  BY Names DEF Init, InOrder, Follows
<1>6. Accounted
  <2>1. \A r \in Runs : job[r] = NoJob /\ queue[r] = <<>>
    BY Names DEF Init
  <2>2. QED
    BY <2>1, Names DEF Init, Accounted, AtHand, NoJob, Coming, Elements
<1>7. QED
  BY <1>1, <1>2, <1>3, <1>4, <1>5, <1>6 DEF Inv

\* What changes nothing these say anything about, but that the tab may be closed.
Elsewhere ==
  /\ UNCHANGED <<executing, cur, shown, of, stream, rs, job, queue, cut>>
  /\ tab' = tab \/ tab' = "closed"

\* The open result is cut off.
CutOff ==
  /\ UNCHANGED <<executing, cur, shown, of, rs, job, queue, tab, committing, closer>>
  /\ stream' = WithoutOpen /\ cut' = cut \cup Streaming

Aside == Look \/ Synced \/ Dial \/ Connected \/ Stop \/ CloseTab \/ CloseResults \/ AskTx \/ TxDone

LEMMA Steps ==
  ASSUME Next
  PROVE  \/ Aside \/ CloseSession \/ TakeTx
         \/ \E o \in Jobs : Take(o) \/ Answer(o)
         \/ \E r \in Runs : Start(r) \/ NextStatement(r) \/ Buffer(r) \/ Hand(r)
         \/ \E r \in Runs : Execute(r) \/ Shows(r) \/ RunOver(r)
         \/ \E x \in Results : ReadToEnd(x)
         \/ \E x \in OfScripts : Commit(x)
         \/ Applied \/ Reread \/ ShowAgain
BY DEF Next, Aside, Asked, Closing, Transact, Script, Landing

LEMMA AsideStays ==
  ASSUME Aside, Types
  PROVE  Elsewhere /\ committing' = committing /\ (closer' # "none" => tab' = "closed")
<1>1. CASE Look \/ Synced \/ Dial \/ AskTx \/ TxDone
  BY <1>1 DEF Look, Synced, Dial, AskTx, TxDone, Elsewhere, Types, window, shell, app, server, work
<1>2. CASE Connected
  BY <1>2 DEF Connected, Elsewhere, Types, window, shell, app, server, work
<1>3. CASE Stop \/ CloseTab \/ CloseResults
  BY <1>3 DEF Stop, CloseTab, CloseResults, Elsewhere, Types, window, shell, app, server, work
<1>4. QED
  BY <1>1, <1>2, <1>3 DEF Aside

LEMMA TransactionStays ==
  ASSUME TakeTx
  PROVE  CutOff \/ (Elsewhere /\ UNCHANGED <<tab, committing, closer>>)
BY DEF TakeTx, CutOff, Elsewhere, window, shell, app, server, work

JobRecords == [at : Ats, i : Nat, err : BOOLEAN, rows : BOOLEAN]
JobRow(a, n, e, w) == [at |-> a, i |-> n, err |-> e, rows |-> w]

\* The jobs after a step that makes v of o are G.
Jobs1(F, G, o, v) == G \in [Jobs -> JobRecords] /\ G[o] = v /\ \A p \in Jobs : p # o => G[p] = F[p]

\* What a step makes of one job.
JobBecomes(o, a, n, w) ==
  /\ job' \in [Jobs -> JobRecords]
  /\ job'[o].at = a /\ job'[o].i = n /\ job'[o].rows = w
  /\ \A p \in Jobs : p # o => job'[p] = job[p]

LEMMA Fields ==
  ASSUME NEW j \in JobRecords, NEW a \in Ats, NEW n \in Nat, NEW b \in BOOLEAN
  PROVE  /\ [j EXCEPT !.at = a] = JobRow(a, j.i, j.err, j.rows)
         /\ [j EXCEPT !.i = n] = JobRow(j.at, n, j.err, j.rows)
         /\ [j EXCEPT !.err = b] = JobRow(j.at, j.i, b, j.rows)
         /\ [j EXCEPT !.rows = b] = JobRow(j.at, j.i, j.err, b)
         /\ j.at \in Ats /\ j.i \in Nat /\ j.err \in BOOLEAN /\ j.rows \in BOOLEAN
BY DEF JobRecords, JobRow

LEMMA RowFields ==
  ASSUME NEW a \in Ats, NEW n \in Nat, NEW e \in BOOLEAN, NEW w \in BOOLEAN
  PROVE  /\ JobRow(a, n, e, w) \in JobRecords
         /\ JobRow(a, n, e, w).at = a /\ JobRow(a, n, e, w).i = n
         /\ JobRow(a, n, e, w).err = e /\ JobRow(a, n, e, w).rows = w
BY DEF JobRecords, JobRow

LEMMA OneField ==
  ASSUME NEW F \in [Jobs -> JobRecords], NEW o \in Jobs, NEW a \in Ats, NEW n \in Nat, NEW b \in BOOLEAN
  PROVE  /\ Jobs1(F, [F EXCEPT ![o].at = a], o, JobRow(a, F[o].i, F[o].err, F[o].rows))
         /\ Jobs1(F, [F EXCEPT ![o].i = n], o, JobRow(F[o].at, n, F[o].err, F[o].rows))
         /\ Jobs1(F, [F EXCEPT ![o].err = b], o, JobRow(F[o].at, F[o].i, b, F[o].rows))
         /\ Jobs1(F, [F EXCEPT ![o].rows = b], o, JobRow(F[o].at, F[o].i, F[o].err, b))
<1> DEFINE j == F[o]
<1>1. j \in JobRecords
  OBVIOUS
<1>2. [F EXCEPT ![o].at = a] = [F EXCEPT ![o] = [j EXCEPT !.at = a]]
  OBVIOUS
<1>3. [F EXCEPT ![o].i = n] = [F EXCEPT ![o] = [j EXCEPT !.i = n]]
  OBVIOUS
<1>4. [F EXCEPT ![o].err = b] = [F EXCEPT ![o] = [j EXCEPT !.err = b]]
  OBVIOUS
<1>5. [F EXCEPT ![o].rows = b] = [F EXCEPT ![o] = [j EXCEPT !.rows = b]]
  OBVIOUS
<1>6. ASSUME NEW v \in JobRecords PROVE Jobs1(F, [F EXCEPT ![o] = v], o, v)
  BY DEF Jobs1
<1> HIDE DEF j
<1>7. j.at \in Ats /\ j.i \in Nat /\ j.err \in BOOLEAN /\ j.rows \in BOOLEAN
  BY <1>1 DEF JobRecords
<1>8. [F EXCEPT ![o].at = a] = [F EXCEPT ![o] = JobRow(a, j.i, j.err, j.rows)]
  BY <1>1, <1>2, Fields
<1>9. [F EXCEPT ![o].i = n] = [F EXCEPT ![o] = JobRow(j.at, n, j.err, j.rows)]
  BY <1>1, <1>3, Fields
<1>10. [F EXCEPT ![o].err = b] = [F EXCEPT ![o] = JobRow(j.at, j.i, b, j.rows)]
  BY <1>1, <1>4, Fields
<1>11. [F EXCEPT ![o].rows = b] = [F EXCEPT ![o] = JobRow(j.at, j.i, j.err, b)]
  BY <1>1, <1>5, Fields
<1>12. JobRow(a, j.i, j.err, j.rows) \in JobRecords /\ JobRow(j.at, n, j.err, j.rows) \in JobRecords
  BY <1>7, RowFields
<1>13. JobRow(j.at, j.i, b, j.rows) \in JobRecords /\ JobRow(j.at, j.i, j.err, b) \in JobRecords
  BY <1>7, RowFields
<1>14. /\ Jobs1(F, [F EXCEPT ![o].at = a], o, JobRow(a, j.i, j.err, j.rows))
       /\ Jobs1(F, [F EXCEPT ![o].i = n], o, JobRow(j.at, n, j.err, j.rows))
  BY <1>6, <1>8, <1>9, <1>12
<1>15. /\ Jobs1(F, [F EXCEPT ![o].err = b], o, JobRow(j.at, j.i, b, j.rows))
       /\ Jobs1(F, [F EXCEPT ![o].rows = b], o, JobRow(j.at, j.i, j.err, b))
  BY <1>6, <1>10, <1>11, <1>13
<1>16. QED
  BY <1>14, <1>15 DEF j

LEMMA Chain ==
  ASSUME NEW F \in [Jobs -> JobRecords], NEW o \in Jobs, NEW G,
         NEW b \in Ats, NEW m \in Nat, NEW f \in BOOLEAN, NEW v \in BOOLEAN,
         Jobs1(F, G, o, JobRow(b, m, f, v)),
         NEW a \in Ats, NEW n \in Nat, NEW c \in BOOLEAN
  PROVE  /\ Jobs1(F, [G EXCEPT ![o].at = a], o, JobRow(a, m, f, v))
         /\ Jobs1(F, [G EXCEPT ![o].i = n], o, JobRow(b, n, f, v))
         /\ Jobs1(F, [G EXCEPT ![o].err = c], o, JobRow(b, m, c, v))
         /\ Jobs1(F, [G EXCEPT ![o].rows = c], o, JobRow(b, m, f, c))
<1>1. G \in [Jobs -> JobRecords] /\ G[o].at = b /\ G[o].i = m /\ G[o].err = f /\ G[o].rows = v
  BY RowFields DEF Jobs1
<1>2. ASSUME NEW H, NEW u, Jobs1(G, H, o, u) PROVE Jobs1(F, H, o, u)
  BY <1>2 DEF Jobs1
<1>3. QED
  BY <1>1, <1>2, OneField

LEMMA Turns ==
  ASSUME Types, NEW o \in Jobs, NEW a \in Ats, NEW n \in Nat, NEW e \in BOOLEAN, NEW w \in BOOLEAN
  PROVE  /\ job' = [job EXCEPT ![o].at = a] => JobBecomes(o, a, job[o].i, job[o].rows)
         /\ job' = [job EXCEPT ![o].at = a, ![o].err = e, ![o].rows = w] => JobBecomes(o, a, job[o].i, w)
         /\ job' = [job EXCEPT ![o].err = e, ![o].rows = w, ![o].at = a] => JobBecomes(o, a, job[o].i, w)
         /\ job' = [job EXCEPT ![o].i = n, ![o].at = a] => JobBecomes(o, a, n, job[o].rows)
         /\ job' = [job EXCEPT ![o].i = n, ![o].at = a, ![o].err = e, ![o].rows = w]
              => JobBecomes(o, a, n, w)
         /\ job' = [job EXCEPT ![o] = [NoJob EXCEPT !.at = a]] => JobBecomes(o, a, 0, FALSE)
         /\ job' = [job EXCEPT ![o] = [@ EXCEPT !.at = a]] => JobBecomes(o, a, job[o].i, job[o].rows)
<1>1. job \in [Jobs -> JobRecords]
  BY DEF Types, JobRecords
<1> DEFINE b == job[o].at
<1> DEFINE m == job[o].i
<1> DEFINE f == job[o].err
<1> DEFINE v == job[o].rows
<1>2. b \in Ats /\ m \in Nat /\ f \in BOOLEAN /\ v \in BOOLEAN
  BY <1>1 DEF JobRecords
<1>3. Jobs1(job, [job EXCEPT ![o].at = a], o, JobRow(a, m, f, v))
  BY <1>1, OneField
<1>4. Jobs1(job, [job EXCEPT ![o].err = e], o, JobRow(b, m, e, v))
  BY <1>1, OneField
<1>5. Jobs1(job, [job EXCEPT ![o].i = n], o, JobRow(b, n, f, v))
  BY <1>1, OneField
<1>6. ASSUME NEW c \in Ats, NEW k \in Nat, NEW g \in BOOLEAN, NEW u \in BOOLEAN,
             Jobs1(job, job', o, JobRow(c, k, g, u))
      PROVE  JobBecomes(o, c, k, u)
  BY <1>6, RowFields DEF Jobs1, JobBecomes
<1> HIDE DEF b, m, f, v
<1>7. Jobs1(job, [job EXCEPT ![o].at = a, ![o].err = e, ![o].rows = w], o, JobRow(a, m, e, w))
  <2>1. Jobs1(job, [job EXCEPT ![o].at = a, ![o].err = e], o, JobRow(a, m, e, v))
    BY <1>1, <1>2, <1>3, Chain
  <2>2. QED
    BY <1>1, <1>2, <2>1, Chain
<1>8. Jobs1(job, [job EXCEPT ![o].err = e, ![o].rows = w, ![o].at = a], o, JobRow(a, m, e, w))
  <2>1. Jobs1(job, [job EXCEPT ![o].err = e, ![o].rows = w], o, JobRow(b, m, e, w))
    BY <1>1, <1>2, <1>4, Chain
  <2>2. QED
    BY <1>1, <1>2, <2>1, Chain
<1>9. Jobs1(job, [job EXCEPT ![o].i = n, ![o].at = a], o, JobRow(a, n, f, v))
  BY <1>1, <1>2, <1>5, Chain
<1>10. Jobs1(job, [job EXCEPT ![o].i = n, ![o].at = a, ![o].err = e, ![o].rows = w], o, JobRow(a, n, e, w))
  <2>1. Jobs1(job, [job EXCEPT ![o].i = n, ![o].at = a, ![o].err = e], o, JobRow(a, n, e, v))
    BY <1>1, <1>2, <1>9, Chain
  <2>2. QED
    BY <1>1, <1>2, <2>1, Chain
<1>11. ASSUME job' = [job EXCEPT ![o] = [NoJob EXCEPT !.at = a]] PROVE JobBecomes(o, a, 0, FALSE)
  <2>1. [NoJob EXCEPT !.at = a] = JobRow(a, 0, FALSE, FALSE)
    <3>1. NoJob \in JobRecords /\ NoJob.i = 0 /\ NoJob.err = FALSE /\ NoJob.rows = FALSE
      BY DEF NoJob, JobRecords, Ats
    <3>2. [NoJob EXCEPT !.at = a] = JobRow(a, NoJob.i, NoJob.err, NoJob.rows)
      BY <3>1, Fields
    <3>3. QED
      BY <3>1, <3>2, Zenon
  <2>2. Jobs1(job, job', o, JobRow(a, 0, FALSE, FALSE))
    <3>1. JobRow(a, 0, FALSE, FALSE) \in JobRecords
      BY RowFields
    <3>2. job' = [job EXCEPT ![o] = JobRow(a, 0, FALSE, FALSE)]
      BY <1>11, <2>1
    <3>3. QED
      BY <1>1, <3>1, <3>2 DEF Jobs1
  <2>3. QED
    BY <1>6, <2>2
<1>12. ASSUME job' = [job EXCEPT ![o] = [@ EXCEPT !.at = a]] PROVE job' = [job EXCEPT ![o].at = a]
  BY <1>12
<1>13. m = job[o].i /\ v = job[o].rows
  BY DEF m, v
<1>14. ASSUME job' = [job EXCEPT ![o].at = a] PROVE JobBecomes(o, a, m, v)
  BY <1>2, <1>3, <1>6, <1>14
<1>15. ASSUME \/ job' = [job EXCEPT ![o].at = a, ![o].err = e, ![o].rows = w]
              \/ job' = [job EXCEPT ![o].err = e, ![o].rows = w, ![o].at = a]
       PROVE  JobBecomes(o, a, m, w)
  BY <1>2, <1>6, <1>7, <1>8, <1>15
<1>16. ASSUME job' = [job EXCEPT ![o].i = n, ![o].at = a] PROVE JobBecomes(o, a, n, v)
  BY <1>2, <1>6, <1>9, <1>16
<1>17. ASSUME job' = [job EXCEPT ![o].i = n, ![o].at = a, ![o].err = e, ![o].rows = w]
       PROVE  JobBecomes(o, a, n, w)
  BY <1>6, <1>10, <1>17
<1>18. QED
  BY <1>11, <1>12, <1>13, <1>14, <1>15, <1>16, <1>17

-----------------------------------------------------------------------------
\* What each step does to the variables that matter here.
Shop == UNCHANGED <<tab, executing, cur, shown, of, committing, closer>>

LEMMA TakeDoes ==
  ASSUME Types, NEW o \in Jobs, Take(o)
  PROVE  /\ job[o].at = "waiting" /\ Shop /\ UNCHANGED <<queue, rs>>
         /\ \/ JobBecomes(o, "handing", job[o].i, FALSE) /\ UNCHANGED <<stream, cut>>
            \/ /\ JobBecomes(o, "executing", job[o].i, job[o].rows) /\ stream' = WithoutOpen
               /\ cut' = IF o = Again THEN cut \cup Streaming ELSE cut
<1>1. "handing" \in Ats /\ "executing" \in Ats
  BY DEF Ats
<1>2. job[o].at = "waiting" /\ Shop /\ UNCHANGED <<queue, rs>>
  BY DEF Take, Shop, window, shell, app
<1>3. CASE conn.closed
  <2>1. job' = [job EXCEPT ![o].at = "handing", ![o].err = TRUE, ![o].rows = FALSE]
        /\ UNCHANGED <<stream, cut>>
    BY <1>3 DEF Take, server
  <2>2. QED
    BY <1>1, <1>2, <2>1, Turns
<1>4. CASE ~conn.closed
  <2>1. /\ job' = [job EXCEPT ![o].at = "executing"] /\ stream' = WithoutOpen
        /\ cut' = IF o = Again THEN cut \cup Streaming ELSE cut
    BY <1>4 DEF Take
  <2>2. QED
    BY <1>1, <1>2, <2>1, Turns
<1>5. QED
  BY <1>3, <1>4

LEMMA AnswerDoes ==
  ASSUME Types, NEW o \in Jobs, Answer(o)
  PROVE  /\ job[o].at = "executing" /\ Shop /\ UNCHANGED <<queue, rs, cut>>
         /\ \E rows \in BOOLEAN, a \in {"handing", "buffering"} :
              /\ a = "buffering" <=> rows /\ o # Again /\ job[o].i < Lengths[o]
              /\ JobBecomes(o, a, job[o].i, rows)
              /\ stream' = IF rows THEN [stream EXCEPT ![Name(o)] = "open"] ELSE stream
<1>1. "handing" \in Ats /\ "buffering" \in Ats
  BY DEF Ats
<1>2. job[o].at = "executing" /\ Shop /\ UNCHANGED <<queue, rs, cut>>
  BY DEF Answer, Shop, window, shell, app
<1> DEFINE at(rows) == IF rows /\ o # Again /\ job[o].i < Lengths[o] THEN "buffering" ELSE "handing"
<1>3. PICK rows \in BOOLEAN, err \in BOOLEAN :
        /\ job' = [job EXCEPT ![o].err = err, ![o].rows = rows, ![o].at = at(rows)]
        /\ stream' = IF rows THEN [stream EXCEPT ![Name(o)] = "open"] ELSE stream
  BY DEF Answer
<1>4. at(rows) \in {"handing", "buffering"} /\ at(rows) \in Ats
      /\ (at(rows) = "buffering" <=> rows /\ o # Again /\ job[o].i < Lengths[o])
  BY <1>1
<1> HIDE DEF at
<1>5. JobBecomes(o, at(rows), job[o].i, rows)
  <2>1. \A a \in Ats : \A e, w \in BOOLEAN :
          job' = [job EXCEPT ![o].err = e, ![o].rows = w, ![o].at = a] => JobBecomes(o, a, job[o].i, w)
    <3>1. TAKE a \in Ats
    <3>2. TAKE e, w \in BOOLEAN
    <3>3. 0 \in Nat
      OBVIOUS
    <3>4. QED
      BY <3>3, Turns
  <2>2. QED
    BY <1>3, <1>4, <2>1, Zenon
<1>6. QED
  BY <1>2, <1>3, <1>4, <1>5

LEMMA ScriptDoes ==
  ASSUME Types, Placed, NEW r \in Runs, Start(r) \/ NextStatement(r)
  PROVE  /\ Shop /\ UNCHANGED <<queue, rs, stream, cut>>
         /\ \/ /\ job[r].at = "starting"
               /\ \E a \in {"next", "refused"} : JobBecomes(r, a, job[r].i, job[r].rows)
            \/ /\ job[r].at = "next"
               /\ \/ JobBecomes(r, "handing", job[r].i + 1, FALSE)
                  \/ JobBecomes(r, "waiting", job[r].i + 1, job[r].rows)
<1>1. {"handing", "waiting", "next", "refused"} \subseteq Ats /\ r \in Jobs /\ job[r].i + 1 \in Nat
  BY Names DEF Ats, Types
<1>2. CASE Start(r)
  <2>1. PICK a \in {"next", "refused"} : job' = [job EXCEPT ![r].at = a]
    BY <1>2 DEF Start
  <2>2. JobBecomes(r, a, job[r].i, job[r].rows)
    BY <1>1, <2>1, Turns
  <2>3. job[r].at = "starting" /\ Shop /\ UNCHANGED <<queue, rs, stream, cut>>
    BY <1>2 DEF Start, Shop, window, shell, server
  <2>4. QED
    BY <2>2, <2>3
<1>3. CASE NextStatement(r)
  <2>1. job[r].at = "next" /\ Shop /\ UNCHANGED <<queue, rs, stream, cut>>
    BY <1>3 DEF NextStatement, Shop, window, shell, server, app
  <2>2. \/ job' = [job EXCEPT ![r].i = job[r].i + 1, ![r].at = "handing", ![r].err = TRUE, ![r].rows = FALSE]
        \/ job' = [job EXCEPT ![r].i = job[r].i + 1, ![r].at = "waiting"]
    BY <1>3 DEF NextStatement
  <2>3. JobBecomes(r, "handing", job[r].i + 1, FALSE) \/ JobBecomes(r, "waiting", job[r].i + 1, job[r].rows)
    BY <1>1, <2>2, Turns
  <2>4. QED
    BY <2>1, <2>3
<1>4. QED
  BY <1>2, <1>3

LEMMA BufferDoes ==
  ASSUME Types, NEW r \in Runs, Buffer(r)
  PROVE  /\ job[r].at = "buffering" /\ Shop /\ UNCHANGED <<queue, rs, cut>>
         /\ \/ /\ JobBecomes(r, "handing", job[r].i, job[r].rows)
               /\ stream' = [stream EXCEPT ![Name(r)] = IF @ = "open" THEN "memory" ELSE "partial"]
            \/ /\ JobBecomes(r, "handing", job[r].i, FALSE)
               /\ stream' = [stream EXCEPT ![Name(r)] = "closed"]
<1>1. "handing" \in Ats /\ r \in Jobs
  BY Names DEF Ats
<1>2. job[r].at = "buffering" /\ Shop /\ UNCHANGED <<queue, rs, cut>>
  BY DEF Buffer, Shop, window, shell, app
<1>3. \/ /\ job' = [job EXCEPT ![r].at = "handing"]
         /\ stream' = [stream EXCEPT ![Name(r)] = IF @ = "open" THEN "memory" ELSE "partial"]
      \/ /\ job' = [job EXCEPT ![r].at = "handing", ![r].err = TRUE, ![r].rows = FALSE]
         /\ stream' = [stream EXCEPT ![Name(r)] = "closed"]
  BY DEF Buffer
<1>4. QED
  BY <1>1, <1>2, <1>3, Turns

LEMMA HandDoes ==
  ASSUME Types, NEW r \in Runs, Hand(r)
  PROVE  /\ job[r].at = "handing" /\ Shop /\ UNCHANGED <<stream, cut>>
         /\ \/ JobBecomes(r, "done", 0, FALSE)
            \/ JobBecomes(r, "next", job[r].i, job[r].rows) /\ job[r].i # Lengths[r]
         /\ IF job[r].rows
            THEN /\ rs' = [rs EXCEPT ![Name(r)] = "reading"]
                 /\ queue' = queue \/ queue' = [queue EXCEPT ![r] = Append(@, Name(r))]
            ELSE UNCHANGED <<rs, queue>>
<1>1. {"done", "next"} \subseteq Ats /\ r \in Jobs
  BY Names DEF Ats
<1>2. job[r].at = "handing" /\ Shop /\ UNCHANGED <<stream, cut>>
  BY DEF Hand, Shop, window, shell, server
<1>3. job' = [job EXCEPT ![r] = IF @.err \/ @.i = Lengths[r] THEN [NoJob EXCEPT !.at = "done"]
                                ELSE [@ EXCEPT !.at = "next"]]
  BY DEF Hand
<1>4. \/ JobBecomes(r, "done", 0, FALSE)
      \/ JobBecomes(r, "next", job[r].i, job[r].rows) /\ job[r].i # Lengths[r]
  <2>1. CASE job[r].err \/ job[r].i = Lengths[r]
    <3>1. job' = [job EXCEPT ![r] = [NoJob EXCEPT !.at = "done"]]
      BY <1>3, <2>1
    <3>2. QED
      BY <1>1, <3>1, Turns
  <2>2. CASE ~(job[r].err \/ job[r].i = Lengths[r])
    <3>1. job' = [job EXCEPT ![r] = [@ EXCEPT !.at = "next"]]
      BY <1>3, <2>2
    <3>2. QED
      BY <1>1, <2>2, <3>1, Turns
  <2>3. QED
    BY <2>1, <2>2
<1>5. CASE job[r].rows
  <2>1. PICK seen \in {TRUE, ~Stopped(r)} :
          /\ rs' = [rs EXCEPT ![Name(r)] = "reading"]
          /\ queue' = IF seen THEN [queue EXCEPT ![r] = Append(@, Name(r))] ELSE queue
    BY <1>5 DEF Hand
  <2>2. QED
    BY <1>2, <1>4, <1>5, <2>1
<1>6. CASE ~job[r].rows
  BY <1>2, <1>4, <1>6 DEF Hand
<1>7. QED
  BY <1>5, <1>6

LEMMA ReadDoes ==
  ASSUME NEW x \in Results, ReadToEnd(x)
  PROVE  /\ rs[x] = "reading" /\ Shop /\ UNCHANGED <<queue, job, cut>>
         /\ \E v \in {"short", "ended"} : (v = "short" => CutShort(x)) /\ rs' = [rs EXCEPT ![x] = v]
         /\ stream' = [stream EXCEPT ![x] = "closed"]
BY DEF ReadToEnd, Shop, CutShort, window, shell

LEMMA WindowDoes ==
  ASSUME Types, NEW r \in Runs
  PROVE  /\ Execute(r) =>
              /\ ~executing /\ r = cur + 1 /\ executing' = TRUE /\ cur' = r /\ shown' = {}
              /\ JobBecomes(r, "starting", job[r].i, job[r].rows)
              /\ UNCHANGED <<tab, of, committing, closer, queue, rs, stream, cut>>
         /\ Shows(r) =>
              /\ queue[r] # <<>> /\ queue' = [queue EXCEPT ![r] = Tail(@)]
              /\ shown' = shown \/ shown' = shown \cup {Head(queue[r])}
              /\ UNCHANGED <<tab, executing, cur, of, committing, closer, job, rs, stream, cut>>
         /\ RunOver(r) =>
              /\ (job[r].at = "done" /\ queue[r] = <<>>) \/ job[r].at = "refused"
              /\ executing' = FALSE /\ JobBecomes(r, "over", job[r].i, job[r].rows)
              /\ UNCHANGED <<tab, cur, shown, of, committing, closer, queue, rs, stream, cut>>
<1>1. {"starting", "over"} \subseteq Ats /\ r \in Jobs
  BY Names DEF Ats
<1>2. ASSUME Execute(r)
      PROVE  /\ ~executing /\ r = cur + 1 /\ executing' = TRUE /\ cur' = r /\ shown' = {}
             /\ JobBecomes(r, "starting", job[r].i, job[r].rows)
             /\ UNCHANGED <<tab, of, committing, closer, queue, rs, stream, cut>>
  <2>1. job' = [job EXCEPT ![r].at = "starting"]
    BY <1>2 DEF Execute
  <2>2. JobBecomes(r, "starting", job[r].i, job[r].rows)
    BY <1>1, <2>1, Turns
  <2>3. QED
    BY <1>2, <2>2 DEF Execute, app, server
<1>3. ASSUME Shows(r)
      PROVE  /\ queue[r] # <<>> /\ queue' = [queue EXCEPT ![r] = Tail(@)]
             /\ shown' = shown \/ shown' = shown \cup {Head(queue[r])}
             /\ UNCHANGED <<tab, executing, cur, of, committing, closer, job, rs, stream, cut>>
  BY <1>3 DEF Shows, app, server
<1>4. ASSUME RunOver(r)
      PROVE  /\ (job[r].at = "done" /\ queue[r] = <<>>) \/ job[r].at = "refused"
             /\ executing' = FALSE /\ JobBecomes(r, "over", job[r].i, job[r].rows)
             /\ UNCHANGED <<tab, cur, shown, of, committing, closer, queue, rs, stream, cut>>
  <2>1. job' = [job EXCEPT ![r].at = "over"]
    BY <1>4 DEF RunOver
  <2>2. JobBecomes(r, "over", job[r].i, job[r].rows)
    BY <1>1, <2>1, Turns
  <2>3. QED
    BY <1>4, <2>2 DEF RunOver, Over, app, server
<1>5. QED
  BY <1>2, <1>3, <1>4

LEMMA ChangesDo ==
  ASSUME Types
  PROVE  /\ \A x \in OfScripts : Commit(x) =>
              /\ committing = None /\ of = None /\ committing' = x
              /\ UNCHANGED <<tab, executing, cur, shown, of, closer, queue, job, rs, stream, cut>>
         /\ Applied =>
              /\ committing # None /\ committing' = None
              /\ (of' = committing /\ JobBecomes(Again, "waiting", job[Again].i, job[Again].rows))
                 \/ UNCHANGED <<of, job>>
              /\ UNCHANGED <<tab, executing, cur, shown, closer, queue, rs, stream, cut>>
         /\ Reread =>
              /\ job[Again].at = "handing" /\ JobBecomes(Again, "done", job[Again].i, job[Again].rows)
              /\ rs' = rs \/ rs' = [rs EXCEPT ![Again] = "reading"]
              /\ Shop /\ UNCHANGED <<queue, stream, cut>>
         /\ ShowAgain =>
              /\ job[Again].at = "done" /\ JobBecomes(Again, "over", job[Again].i, job[Again].rows)
              /\ shown' = shown \/ (of \in shown /\ shown' = (shown \ {of}) \cup {Again})
              /\ UNCHANGED <<tab, executing, cur, of, committing, closer, queue, rs, stream, cut>>
<1>1. {"waiting", "done", "over"} \subseteq Ats /\ Again \in Jobs
  BY Names DEF Ats
<1>2. ASSUME NEW x \in OfScripts, Commit(x)
      PROVE  /\ committing = None /\ of = None /\ committing' = x
             /\ UNCHANGED <<tab, executing, cur, shown, of, closer, queue, job, rs, stream, cut>>
  BY <1>2 DEF Commit, app, server, work
<1>3. ASSUME Applied
      PROVE  /\ committing # None /\ committing' = None
             /\ (of' = committing /\ JobBecomes(Again, "waiting", job[Again].i, job[Again].rows))
                \/ UNCHANGED <<of, job>>
             /\ UNCHANGED <<tab, executing, cur, shown, closer, queue, rs, stream, cut>>
  <2>1. (of' = committing /\ job' = [job EXCEPT ![Again].at = "waiting"]) \/ UNCHANGED <<of, job>>
    BY <1>3 DEF Applied
  <2>2. job' = [job EXCEPT ![Again].at = "waiting"] =>
          JobBecomes(Again, "waiting", job[Again].i, job[Again].rows)
    BY <1>1, Turns
  <2>3. QED
    BY <1>3, <2>1, <2>2 DEF Applied, server
<1>4. ASSUME Reread
      PROVE  /\ job[Again].at = "handing" /\ JobBecomes(Again, "done", job[Again].i, job[Again].rows)
             /\ rs' = rs \/ rs' = [rs EXCEPT ![Again] = "reading"]
             /\ Shop /\ UNCHANGED <<queue, stream, cut>>
  <2>1. job' = [job EXCEPT ![Again].at = "done"]
    BY <1>4 DEF Reread
  <2>2. JobBecomes(Again, "done", job[Again].i, job[Again].rows)
    BY <1>1, <2>1, Turns
  <2>3. QED
    BY <1>4, <2>2 DEF Reread, Shop, window, shell, server
<1>5. ASSUME ShowAgain
      PROVE  /\ job[Again].at = "done" /\ JobBecomes(Again, "over", job[Again].i, job[Again].rows)
             /\ shown' = shown \/ (of \in shown /\ shown' = (shown \ {of}) \cup {Again})
             /\ UNCHANGED <<tab, executing, cur, of, committing, closer, queue, rs, stream, cut>>
  <2>1. job' = [job EXCEPT ![Again].at = "over"]
    BY <1>5 DEF ShowAgain
  <2>2. JobBecomes(Again, "over", job[Again].i, job[Again].rows)
    BY <1>1, <2>1, Turns
  <2>3. QED
    BY <1>5, <2>2 DEF ShowAgain, server
<1>6. QED
  BY <1>2, <1>3, <1>4, <1>5

-----------------------------------------------------------------------------
\* A script at work is the latest, and names a result of it.
LEMMA AtWork ==
  ASSUME Types, Placed, NEW r \in Runs
  PROVE  /\ r \in Jobs /\ r # Again /\ job[r].i \in Nat /\ Name(r) = <<r, job[r].i>>
         /\ job[r].at \in {"waiting", "executing", "buffering", "handing"}
              => Name(r) \in OfScripts /\ Name(r) \in Results
         /\ Name(Again) = Again
<1>1. r \in Jobs /\ r # Again /\ job[r].i \in Nat
  BY Names DEF Types
<1>2. Name(r) = <<r, job[r].i>> /\ Name(Again) = Again
  BY <1>1 DEF Name
<1>3. QED
  BY <1>1, <1>2, Names DEF Placed

LEMMA TypesStep ==
  ASSUME Types, Placed, [Next]_vars
  PROVE  Types'
<1> DEFINE Streams == [Results -> {"none", "open", "memory", "partial", "closed"}]
<1> DEFINE Reads == [Results -> {"none", "reading", "short", "ended"}]
<1>w. WithoutOpen \in Streams
  BY DEF WithoutOpen, Types
<1>j. ASSUME NEW o, NEW a, NEW n, NEW w, JobBecomes(o, a, n, w)
      PROVE  job' \in [Jobs -> [at : Ats, i : Nat, err : BOOLEAN, rows : BOOLEAN]]
  BY <1>j DEF JobBecomes, JobRecords
<1>s. ASSUME NEW x \in Results, NEW v \in {"open", "memory", "partial", "closed"}
      PROVE  [stream EXCEPT ![x] = v] \in Streams
  BY DEF Types
<1>r. ASSUME NEW x \in Results, NEW v \in {"reading", "short", "ended"}
      PROVE  [rs EXCEPT ![x] = v] \in Reads
  BY DEF Types
<1>1. CASE UNCHANGED vars
  BY <1>1 DEF vars, Types, window, shell, app, server, work
<1>2. CASE Aside
  BY <1>2, AsideStays DEF Elsewhere, Types
<1>3. CASE CloseSession \/ TakeTx
  <2>1. CASE CloseSession
    <3>1. /\ stream' = WithoutOpen /\ tab' = tab /\ closer = "session"
          /\ UNCHANGED <<executing, cur, shown, of, committing, job, queue, rs>>
      BY <2>1 DEF CloseSession, window, shell, work
    <3>2. QED
      BY <1>w, <3>1 DEF Types
  <2>2. CASE TakeTx
    BY <1>w, <2>2, TransactionStays DEF CutOff, Elsewhere, Types
  <2>3. QED
    BY <1>3, <2>1, <2>2
<1>4. ASSUME NEW o \in Jobs, Take(o) \/ Answer(o) PROVE Types'
  <2>1. CASE Take(o)
    BY <1>j, <1>w, <2>1, TakeDoes DEF Types, Shop
  <2>2. CASE Answer(o)
    <3>1. Name(o) \in Results
      <4>1. CASE o = Again
        BY <4>1, Names DEF Name
      <4>2. CASE o \in Runs
        BY <2>2, <4>2, AtWork, AnswerDoes
      <4>3. QED
        BY <4>1, <4>2, Names
    <3>2. PICK rows \in BOOLEAN, a \in {"handing", "buffering"} :
            /\ JobBecomes(o, a, job[o].i, rows)
            /\ stream' = IF rows THEN [stream EXCEPT ![Name(o)] = "open"] ELSE stream
      BY <2>2, AnswerDoes
    <3>3. stream' \in Streams
      <4>1. [stream EXCEPT ![Name(o)] = "open"] \in Streams
        BY <1>s, <3>1
      <4>2. stream \in Streams
        BY DEF Types
      <4>3. QED
        BY <3>2, <4>1, <4>2
    <3>4. Shop /\ UNCHANGED <<queue, rs>>
      BY <2>2, AnswerDoes
    <3>5. QED
      BY <1>j, <3>2, <3>3, <3>4 DEF Types, Shop
  <2>3. QED
    BY <1>4, <2>1, <2>2
<1>5. ASSUME NEW r \in Runs, Start(r) \/ NextStatement(r) PROVE Types'
  BY <1>j, <1>5, ScriptDoes DEF Types, Shop
<1>6. ASSUME NEW r \in Runs, Buffer(r) PROVE Types'
  <2>1. Name(r) \in Results
    BY <1>6, AtWork, BufferDoes
  <2>2. stream' \in Streams
    <3>1. PICK v \in {"memory", "partial", "closed"} : stream' = [stream EXCEPT ![Name(r)] = v]
      BY <1>6, BufferDoes
    <3>2. [stream EXCEPT ![Name(r)] = v] \in Streams
      BY <1>s, <2>1
    <3>3. QED
      BY <3>1, <3>2
  <2>3. QED
    BY <1>j, <1>6, <2>2, BufferDoes DEF Types, Shop
<1>7. ASSUME NEW r \in Runs, Hand(r) PROVE Types'
  <2>1. Name(r) \in Results /\ Name(r) \in OfScripts
    BY <1>7, AtWork, HandDoes
  <2>2. rs' \in Reads
    <3>1. [rs EXCEPT ![Name(r)] = "reading"] \in Reads /\ rs \in Reads
      BY <1>r, <2>1 DEF Types
    <3>2. rs' = [rs EXCEPT ![Name(r)] = "reading"] \/ rs' = rs
      BY <1>7, HandDoes
    <3>3. QED
      BY <3>1, <3>2
  <2>3. queue' \in [Runs -> Seq(OfScripts)]
    <3>1. Append(queue[r], Name(r)) \in Seq(OfScripts)
      BY <2>1, Queues DEF Types
    <3>2. QED
      BY <1>7, <3>1, HandDoes DEF Types
  <2>4. QED
    BY <1>j, <1>7, <2>2, <2>3, HandDoes DEF Types, Shop
<1>8. ASSUME NEW r \in Runs, Execute(r) \/ Shows(r) \/ RunOver(r) PROVE Types'
  <2>1. CASE Execute(r)
    BY <1>j, <2>1, WindowDoes DEF Types
  <2>2. CASE Shows(r)
    <3>1. queue[r] \in Seq(OfScripts) /\ queue[r] # <<>>
      BY <2>2, WindowDoes DEF Types
    <3>2. Tail(queue[r]) \in Seq(OfScripts) /\ Head(queue[r]) \in OfScripts
      BY <3>1
    <3>3. queue' \in [Runs -> Seq(OfScripts)]
      <4>1. queue' = [queue EXCEPT ![r] = Tail(@)]
        BY <2>2, WindowDoes
      <4>2. QED
        BY <3>2, <4>1 DEF Types
    <3>4. shown' \subseteq Results
      <4>1. shown' = shown \/ shown' = shown \cup {Head(queue[r])}
        BY <2>2, WindowDoes
      <4>2. shown \subseteq Results /\ Head(queue[r]) \in Results
        BY <3>2, Names DEF Types
      <4>3. QED
        BY <4>1, <4>2
    <3>5. QED
      BY <2>2, <3>3, <3>4, WindowDoes DEF Types
  <2>3. CASE RunOver(r)
    BY <1>j, <2>3, WindowDoes DEF Types
  <2>4. QED
    BY <1>8, <2>1, <2>2, <2>3
<1>9. ASSUME NEW x \in Results, ReadToEnd(x) PROVE Types'
  <2>1. rs' \in Reads /\ stream' \in Streams
    BY <1>r, <1>s, <1>9, ReadDoes
  <2>2. QED
    BY <1>9, <2>1, ReadDoes DEF Types, Shop
<1>10. ASSUME NEW x \in OfScripts, Commit(x) PROVE Types'
  BY <1>10, ChangesDo DEF Types
<1>11. CASE Applied \/ Reread \/ ShowAgain
  <2>1. CASE Applied
    BY <1>j, <2>1, ChangesDo DEF Types
  <2>2. CASE Reread
    BY <1>j, <1>r, <2>2, Names, ChangesDo DEF Types, Shop
  <2>3. CASE ShowAgain
    BY <1>j, <2>3, Names, ChangesDo DEF Types
  <2>4. QED
    BY <1>11, <2>1, <2>2, <2>3
<1>12. QED
  BY <1>1, <1>2, <1>3, <1>4, <1>5, <1>6, <1>7, <1>8, <1>9, <1>10, <1>11, Steps

LEMMA PlacedStep ==
  ASSUME Types, Placed, OneRun, [Next]_vars
  PROVE  Placed'
<1>i. \A p \in Jobs : job[p].i \in Nat
  BY DEF Types
<1>a. Again \in Jobs /\ Runs \subseteq Jobs /\ Again \notin Runs
  BY Names
\* It is enough to look at what became of one job.
<1>m. ASSUME NEW r \in Runs, NEW a, NEW n, NEW w, JobBecomes(r, a, n, w), cur' = cur,
             n <= Lengths[r], a # "starting", a = "next" => n < Lengths[r],
             a \in {"waiting", "executing", "buffering", "handing"} => n # 0, ~(r > cur)
      PROVE  Placed'
  BY <1>a, <1>m DEF JobBecomes, Placed
<1>n. ASSUME NEW a, NEW n, NEW w, JobBecomes(Again, a, n, w), cur' = cur,
             a \notin {"starting", "next", "buffering", "refused"}
      PROVE  Placed'
  BY <1>a, <1>n DEF JobBecomes, Placed
<1>o. ASSUME NEW r \in Runs, job[r].at # "none" PROVE ~(r > cur)
  BY <1>o DEF Placed, NoJob
<1>u. ASSUME UNCHANGED <<job, cur>> PROVE Placed'
  BY <1>u DEF Placed
<1>1. CASE UNCHANGED vars \/ Aside \/ CloseSession \/ TakeTx
  <2>1. UNCHANGED <<job, cur>>
    BY <1>1, AsideStays, TransactionStays DEF Elsewhere, CutOff, vars, CloseSession, window, shell, work
  <2>2. QED
    BY <1>u, <2>1
<1>2. ASSUME NEW o \in Jobs, Take(o) PROVE Placed'
  <2>1. /\ job[o].at = "waiting" /\ cur' = cur
        /\ \E a \in {"handing", "executing"}, w \in {FALSE, job[o].rows} : JobBecomes(o, a, job[o].i, w)
    BY <1>2, TakeDoes DEF Shop
  <2>2. PICK a \in {"handing", "executing"}, w \in {FALSE, job[o].rows} : JobBecomes(o, a, job[o].i, w)
    BY <2>1
  <2>3. CASE o = Again
    BY <1>n, <2>1, <2>2, <2>3
  <2>4. CASE o \in Runs
    <3>1. job[o].i <= Lengths[o] /\ job[o].i # 0 /\ ~(o > cur)
      BY <1>o, <2>1, <2>4 DEF Placed
    <3>2. QED
      BY <1>m, <2>1, <2>2, <2>4, <3>1
  <2>5. QED
    BY <2>3, <2>4, Names
<1>3. ASSUME NEW o \in Jobs, Answer(o) PROVE Placed'
  <2>1. /\ job[o].at = "executing" /\ cur' = cur
    BY <1>3, AnswerDoes DEF Shop
  <2>2. PICK w \in BOOLEAN, a \in {"handing", "buffering"} :
          (a = "buffering" => o # Again) /\ JobBecomes(o, a, job[o].i, w)
    BY <1>3, AnswerDoes
  <2>3. CASE o = Again
    BY <1>n, <2>1, <2>2, <2>3
  <2>4. CASE o \in Runs
    <3>1. job[o].i <= Lengths[o] /\ job[o].i # 0 /\ ~(o > cur)
      BY <1>o, <2>1, <2>4 DEF Placed
    <3>2. QED
      BY <1>m, <2>1, <2>2, <2>4, <3>1
  <2>5. QED
    BY <2>3, <2>4, Names
<1>4. ASSUME NEW r \in Runs, Start(r) \/ NextStatement(r) PROVE Placed'
  <2>1. cur' = cur /\ ~(r > cur) /\ job[r].i <= Lengths[r] /\ Lengths[r] \in Nat \ {0} /\ job[r].i \in Nat
    BY <1>4, <1>a, <1>i, <1>o, Names, ScriptDoes DEF Shop, Placed
  <2>2. CASE job[r].at = "starting" /\ \E a \in {"next", "refused"} : JobBecomes(r, a, job[r].i, job[r].rows)
    <3>1. PICK a \in {"next", "refused"} : JobBecomes(r, a, job[r].i, job[r].rows)
      BY <2>2
    <3>2. job[r].i = 0
      BY <2>2 DEF Placed
    <3>3. QED
      BY <1>m, <2>1, <3>1, <3>2
  <2>3. CASE /\ job[r].at = "next"
             /\ \/ JobBecomes(r, "handing", job[r].i + 1, FALSE)
                \/ JobBecomes(r, "waiting", job[r].i + 1, job[r].rows)
    <3>1. job[r].i + 1 <= Lengths[r] /\ job[r].i + 1 # 0
      BY <2>1, <2>3 DEF Placed
    <3>2. CASE JobBecomes(r, "handing", job[r].i + 1, FALSE)
      BY <1>m, <2>1, <3>1, <3>2
    <3>3. CASE JobBecomes(r, "waiting", job[r].i + 1, job[r].rows)
      BY <1>m, <2>1, <3>1, <3>3
    <3>4. QED
      BY <2>3, <3>2, <3>3
  <2>4. QED
    BY <1>4, <2>2, <2>3, ScriptDoes
<1>5. ASSUME NEW r \in Runs, Buffer(r) PROVE Placed'
  <2>1. cur' = cur /\ ~(r > cur) /\ job[r].i <= Lengths[r] /\ job[r].i # 0
    BY <1>5, <1>o, BufferDoes DEF Shop, Placed
  <2>2. JobBecomes(r, "handing", job[r].i, job[r].rows) \/ JobBecomes(r, "handing", job[r].i, FALSE)
    BY <1>5, BufferDoes
  <2>3. CASE JobBecomes(r, "handing", job[r].i, job[r].rows)
    BY <1>m, <2>1, <2>3
  <2>4. CASE JobBecomes(r, "handing", job[r].i, FALSE)
    BY <1>m, <2>1, <2>4
  <2>5. QED
    BY <2>2, <2>3, <2>4
<1>6. ASSUME NEW r \in Runs, Hand(r) PROVE Placed'
  <2>1. /\ cur' = cur /\ ~(r > cur) /\ job[r].i <= Lengths[r] /\ job[r].i \in Nat
        /\ Lengths[r] \in Nat /\ 0 <= Lengths[r]
    <3>1. cur' = cur /\ job[r].at = "handing"
      BY <1>6, HandDoes DEF Shop
    <3>2. job[r].i \in Nat /\ Lengths[r] \in Nat
      BY <1>a, <1>i, Names
    <3>3. QED
      BY <1>o, <3>1, <3>2 DEF Placed
  <2>2. CASE JobBecomes(r, "done", 0, FALSE)
    BY <1>m, <2>1, <2>2
  <2>3. CASE JobBecomes(r, "next", job[r].i, job[r].rows) /\ job[r].i # Lengths[r]
    BY <1>m, <2>1, <2>3
  <2>4. QED
    BY <1>6, <2>2, <2>3, HandDoes
<1>7. ASSUME NEW r \in Runs, Execute(r) PROVE Placed'
  <2>1. r = cur + 1 /\ cur' = r /\ JobBecomes(r, "starting", job[r].i, job[r].rows)
    BY <1>7, WindowDoes
  <2>2. cur \in Nat /\ \A q \in Runs : q \in Nat
    BY Names DEF Types
  <2>3. job[r].i = 0
    BY <2>1, <2>2 DEF Placed, NoJob
  <2>4. QED
    BY <1>a, <2>1, <2>2, <2>3, Names DEF Placed, JobBecomes
<1>8. ASSUME NEW r \in Runs, Shows(r) \/ RunOver(r) PROVE Placed'
  <2>1. CASE Shows(r)
    BY <1>u, <2>1, WindowDoes
  <2>2. CASE RunOver(r)
    <3>1. cur' = cur /\ JobBecomes(r, "over", job[r].i, job[r].rows) /\ job[r].i <= Lengths[r] /\ ~(r > cur)
      BY <1>o, <2>2, WindowDoes DEF Placed
    <3>2. QED
      BY <1>m, <3>1
  <2>3. QED
    BY <1>8, <2>1, <2>2
<1>9. ASSUME NEW x \in Results, ReadToEnd(x) PROVE Placed'
  BY <1>9, <1>u, ReadDoes DEF Shop
<1>10. ASSUME NEW x \in OfScripts, Commit(x) PROVE Placed'
  BY <1>10, <1>u, ChangesDo
<1>11. CASE Applied \/ Reread \/ ShowAgain
  BY <1>11, <1>n, <1>u, ChangesDo DEF Shop
<1>12. QED
  BY <1>1, <1>2, <1>3, <1>4, <1>5, <1>6, <1>7, <1>8, <1>9, <1>10, <1>11, Steps

LEMMA OneRunStep ==
  ASSUME Types, Placed, OneRun, [Next]_vars
  PROVE  OneRun'
<1>a. Again \in Jobs /\ Runs \subseteq Jobs /\ Again \notin Runs
  BY Names
\* It is enough to look at what became of one job.
<1>m. ASSUME NEW r \in Runs, NEW a, NEW n, NEW w, JobBecomes(r, a, n, w), UNCHANGED <<executing, cur, queue>>,
             job[r].at \notin {"none", "over"},
             a \in {"none", "starting", "refused", "over"} => queue[r] = <<>>
      PROVE  OneRun'
  BY <1>a, <1>m DEF JobBecomes, OneRun, Coming
<1>n. ASSUME NEW a, NEW n, NEW w, JobBecomes(Again, a, n, w), UNCHANGED <<executing, cur, queue>>
      PROVE  OneRun'
  BY <1>a, <1>n DEF JobBecomes, OneRun, Coming
<1>u. ASSUME UNCHANGED <<job, cur, executing, queue>> PROVE OneRun'
  BY <1>u DEF OneRun, Coming
<1>1. CASE UNCHANGED vars \/ Aside \/ CloseSession \/ TakeTx
  <2>1. UNCHANGED <<job, cur, executing, queue>>
    BY <1>1, AsideStays, TransactionStays DEF Elsewhere, CutOff, vars, CloseSession, window, shell, work
  <2>2. QED
    BY <1>u, <2>1
<1>2. ASSUME NEW o \in Jobs, Take(o) PROVE OneRun'
  <2>1. job[o].at = "waiting" /\ UNCHANGED <<executing, cur, queue>>
    BY <1>2, TakeDoes DEF Shop
  <2>2. PICK a \in {"handing", "executing"}, w \in {FALSE, job[o].rows} : JobBecomes(o, a, job[o].i, w)
    BY <1>2, TakeDoes
  <2>3. CASE o = Again
    BY <1>n, <2>1, <2>2, <2>3
  <2>4. CASE o \in Runs
    BY <1>m, <2>1, <2>2, <2>4
  <2>5. QED
    BY <2>3, <2>4, Names
<1>3. ASSUME NEW o \in Jobs, Answer(o) PROVE OneRun'
  <2>1. job[o].at = "executing" /\ UNCHANGED <<executing, cur, queue>>
    BY <1>3, AnswerDoes DEF Shop
  <2>2. PICK w \in BOOLEAN, a \in {"handing", "buffering"} : JobBecomes(o, a, job[o].i, w)
    BY <1>3, AnswerDoes
  <2>3. CASE o = Again
    BY <1>n, <2>1, <2>2, <2>3
  <2>4. CASE o \in Runs
    BY <1>m, <2>1, <2>2, <2>4
  <2>5. QED
    BY <2>3, <2>4, Names
<1>4. ASSUME NEW r \in Runs, Start(r) \/ NextStatement(r) PROVE OneRun'
  <2>1. UNCHANGED <<executing, cur, queue>>
    BY <1>4, ScriptDoes DEF Shop
  <2>2. CASE job[r].at = "starting" /\ \E a \in {"next", "refused"} : JobBecomes(r, a, job[r].i, job[r].rows)
    <3>1. PICK a \in {"next", "refused"} : JobBecomes(r, a, job[r].i, job[r].rows)
      BY <2>2
    <3>2. queue[r] = <<>>
      BY <2>2 DEF OneRun
    <3>3. QED
      BY <1>m, <2>1, <2>2, <3>1, <3>2
  <2>3. CASE job[r].at = "next" /\ JobBecomes(r, "handing", job[r].i + 1, FALSE)
    BY <1>m, <2>1, <2>3
  <2>4. CASE job[r].at = "next" /\ JobBecomes(r, "waiting", job[r].i + 1, job[r].rows)
    BY <1>m, <2>1, <2>4
  <2>5. QED
    BY <1>4, <2>2, <2>3, <2>4, ScriptDoes
<1>5. ASSUME NEW r \in Runs, Buffer(r) PROVE OneRun'
  <2>1. job[r].at = "buffering" /\ UNCHANGED <<executing, cur, queue>>
    BY <1>5, BufferDoes DEF Shop
  <2>2. PICK w \in {FALSE, job[r].rows} : JobBecomes(r, "handing", job[r].i, w)
    BY <1>5, BufferDoes
  <2>3. QED
    BY <1>m, <2>1, <2>2
<1>6. ASSUME NEW r \in Runs, Hand(r) PROVE OneRun'
  <2>1. job[r].at = "handing" /\ UNCHANGED <<executing, cur>>
    BY <1>6, HandDoes DEF Shop
  <2>w. PICK a \in {"done", "next"} : \E n, w : JobBecomes(r, a, n, w)
    BY <1>6, HandDoes
  <2>2. PICK n, w : JobBecomes(r, a, n, w)
    BY <2>w
  <2>3. CASE queue' = queue
    BY <1>m, <2>1, <2>2, <2>3
  <2>4. CASE queue' = [queue EXCEPT ![r] = Append(@, Name(r))]
    <3>1. Name(r) \in OfScripts /\ Name(r) = <<r, job[r].i>> /\ queue[r] \in Seq(OfScripts)
      BY <2>1, AtWork DEF Types
    <3>2. Name(r)[1] = r
      BY <3>1
    <3>3. queue'[r] = Append(queue[r], Name(r)) /\ \A q \in Runs : q # r => queue'[q] = queue[q]
      BY <2>4 DEF Types
    <3>4. Elements(queue'[r]) = Elements(queue[r]) \cup {Name(r)} /\ queue'[r] # <<>>
      <4>1. /\ Elements(Append(queue[r], Name(r))) = Elements(queue[r]) \cup {Name(r)}
            /\ Append(queue[r], Name(r)) # <<>>
        <5>1. \A x \in OfScripts : /\ Elements(Append(queue[r], x)) = Elements(queue[r]) \cup {x}
                                   /\ Append(queue[r], x) # <<>>
          BY <3>1, Queues
        <5>2. QED
          BY <3>1, <5>1, Zenon
      <4>2. QED
        BY <3>3, <4>1
    <3>5. job'[r].at = a /\ \A q \in Runs : q # r => job'[q] = job[q]
      BY <1>a, <2>2 DEF JobBecomes
    <3>6. r = cur /\ executing
      BY <2>1 DEF OneRun
    <3>7. QED
      BY <2>1, <3>2, <3>3, <3>4, <3>5, <3>6 DEF OneRun, Coming
  <2>5. QED
    BY <1>6, <2>3, <2>4, HandDoes
<1>7. ASSUME NEW r \in Runs, Execute(r) PROVE OneRun'
  <2>1. /\ ~executing /\ executing' = TRUE /\ cur' = r /\ queue' = queue
        /\ JobBecomes(r, "starting", job[r].i, job[r].rows)
    BY <1>7, WindowDoes
  <2>2. \A q \in Runs : job[q].at \in {"none", "over"} /\ queue[q] = <<>>
    BY <2>1 DEF OneRun
  <2>3. QED
    BY <1>a, <2>1, <2>2 DEF OneRun, Coming, JobBecomes
<1>8. ASSUME NEW r \in Runs, Shows(r) PROVE OneRun'
  <2>1. /\ queue[r] # <<>> /\ queue' = [queue EXCEPT ![r] = Tail(@)]
        /\ UNCHANGED <<executing, cur, job>>
    BY <1>8, WindowDoes
  <2>2. queue[r] \in Seq(OfScripts) /\ queue'[r] = Tail(queue[r]) /\ \A q \in Runs : q # r => queue'[q] = queue[q]
    BY <2>1 DEF Types
  <2>3. Elements(queue'[r]) \subseteq Elements(queue[r])
    BY <2>1, <2>2, Queues
  <2>4. QED
    BY <2>1, <2>2, <2>3 DEF OneRun, Coming
<1>9. ASSUME NEW r \in Runs, RunOver(r) PROVE OneRun'
  <2>1. /\ (job[r].at = "done" /\ queue[r] = <<>>) \/ job[r].at = "refused"
        /\ executing' = FALSE /\ JobBecomes(r, "over", job[r].i, job[r].rows)
        /\ cur' = cur /\ queue' = queue
    BY <1>9, WindowDoes
  <2>2. queue[r] = <<>> /\ r = cur
    BY <2>1 DEF OneRun
  <2>3. job'[r].at = "over" /\ \A q \in Runs : q # r => job'[q] = job[q]
    BY <1>a, <2>1 DEF JobBecomes
  <2>4. \A q \in Runs : q # r => job[q].at \in {"none", "over"} /\ queue[q] = <<>>
    BY <2>2 DEF OneRun
  <2>5. QED
    BY <2>1, <2>2, <2>3, <2>4 DEF OneRun, Coming
<1>10. ASSUME NEW x \in Results, ReadToEnd(x) PROVE OneRun'
  BY <1>10, <1>u, ReadDoes DEF Shop
<1>11. ASSUME NEW x \in OfScripts, Commit(x) PROVE OneRun'
  BY <1>11, <1>u, ChangesDo
<1>12. CASE Applied \/ Reread \/ ShowAgain
  BY <1>12, <1>n, <1>u, ChangesDo DEF Shop
<1>13. QED
  BY <1>1, <1>2, <1>3, <1>4, <1>5, <1>6, <1>7, <1>8, <1>9, <1>10, <1>11, <1>12, Steps

LEMMA CurrentStep ==
  ASSUME Types, Placed, OneRun, Current, [Next]_vars
  PROVE  Current'
<1>a. Again \in Jobs /\ Runs \subseteq Jobs /\ Again \notin Runs /\ Again \notin OfScripts
      /\ None \notin Results /\ Again # None
  BY Names
<1>m. ASSUME NEW o \in Jobs, NEW a, NEW n, NEW w, JobBecomes(o, a, n, w), UNCHANGED <<shown, of, cur>>,
             job[o].at # "none"
      PROVE  Current'
  BY <1>a, <1>m DEF JobBecomes, Current, ShownIsCurrent, RunOf
<1>u. ASSUME UNCHANGED <<job, shown, of, cur>> PROVE Current'
  BY <1>u DEF Current, ShownIsCurrent, RunOf
<1>1. CASE UNCHANGED vars \/ Aside \/ CloseSession \/ TakeTx
  <2>1. UNCHANGED <<job, shown, of, cur>>
    BY <1>1, AsideStays, TransactionStays DEF Elsewhere, CutOff, vars, CloseSession, window, shell, work
  <2>2. QED
    BY <1>u, <2>1
<1>2. ASSUME NEW o \in Jobs, Take(o) \/ Answer(o) PROVE Current'
  <2>1. job[o].at # "none" /\ UNCHANGED <<shown, of, cur>> /\ \E a, n, w : JobBecomes(o, a, n, w)
    BY <1>2, TakeDoes, AnswerDoes DEF Shop
  <2>2. QED
    BY <1>m, <2>1
<1>3. ASSUME NEW r \in Runs, Start(r) \/ NextStatement(r) \/ Buffer(r) \/ Hand(r) PROVE Current'
  <2>1. job[r].at # "none" /\ UNCHANGED <<shown, of, cur>> /\ \E a, n, w : JobBecomes(r, a, n, w)
    BY <1>3, ScriptDoes, BufferDoes, HandDoes DEF Shop
  <2>2. QED
    BY <1>a, <1>m, <2>1
<1>4. ASSUME NEW r \in Runs, Execute(r) PROVE Current'
  <2>1. shown' = {} /\ of' = of /\ JobBecomes(r, "starting", job[r].i, job[r].rows)
    BY <1>4, WindowDoes
  <2>2. job'[Again] = job[Again]
    BY <1>a, <2>1 DEF JobBecomes
  <2>3. QED
    BY <2>1, <2>2 DEF Current, ShownIsCurrent
<1>5. ASSUME NEW r \in Runs, Shows(r) PROVE Current'
  <2>1. /\ queue[r] # <<>> /\ UNCHANGED <<of, cur, job>>
        /\ shown' = shown \/ shown' = shown \cup {Head(queue[r])}
    BY <1>5, WindowDoes
  <2>2. r = cur /\ queue[r] \in Seq(OfScripts)
    BY <2>1 DEF OneRun, Types
  <2>3. Head(queue[r]) \in OfScripts /\ Head(queue[r]) \in Coming(r)
    BY <2>1, <2>2, Queues DEF Coming
  <2>4. Head(queue[r])[1] = cur /\ Head(queue[r]) # Again
    BY <1>a, <2>2, <2>3 DEF OneRun
  <2>5. QED
    BY <2>1, <2>4 DEF Current, ShownIsCurrent, RunOf
<1>6. ASSUME NEW r \in Runs, RunOver(r) PROVE Current'
  <2>1. job[r].at # "none" /\ UNCHANGED <<shown, of, cur>> /\ JobBecomes(r, "over", job[r].i, job[r].rows)
    BY <1>6, WindowDoes
  <2>2. QED
    BY <1>a, <1>m, <2>1
<1>7. ASSUME NEW x \in Results, ReadToEnd(x) PROVE Current'
  BY <1>7, <1>u, ReadDoes DEF Shop
<1>8. ASSUME NEW x \in OfScripts, Commit(x) PROVE Current'
  BY <1>8, <1>u, ChangesDo
<1>9. CASE Applied
  <2>1. /\ committing # None /\ UNCHANGED <<cur, shown>>
        /\ (of' = committing /\ JobBecomes(Again, "waiting", job[Again].i, job[Again].rows))
           \/ UNCHANGED <<of, job>>
    BY <1>9, ChangesDo
  <2>2. CASE UNCHANGED <<of, job>>
    BY <1>u, <2>1, <2>2
  <2>3. CASE of' = committing
    <3>1. of = None
      BY <2>1 DEF Types
    <3>2. Again \notin shown
      BY <3>1 DEF Current
    <3>3. QED
      BY <2>1, <2>3, <3>2 DEF Current, ShownIsCurrent, RunOf
  <2>4. QED
    BY <2>1, <2>2, <2>3
<1>10. CASE Reread
  <2>1. job[Again].at # "none" /\ UNCHANGED <<shown, of, cur>>
        /\ JobBecomes(Again, "done", job[Again].i, job[Again].rows)
    BY <1>10, ChangesDo DEF Shop
  <2>2. QED
    BY <1>a, <1>m, <2>1
<1>11. CASE ShowAgain
  <2>1. /\ job[Again].at = "done" /\ JobBecomes(Again, "over", job[Again].i, job[Again].rows)
        /\ shown' = shown \/ (of \in shown /\ shown' = (shown \ {of}) \cup {Again})
        /\ UNCHANGED <<of, cur>>
    BY <1>11, ChangesDo
  <2>2. CASE shown' = shown
    BY <1>a, <1>m, <2>1, <2>2
  <2>3. CASE of \in shown /\ shown' = (shown \ {of}) \cup {Again}
    <3>1. of # None /\ of # Again
      BY <1>a, <2>3 DEF Types
    <3>2. RunOf(of) = of[1] /\ RunOf(of) = cur
      BY <2>3, <3>1 DEF RunOf, Current, ShownIsCurrent
    <3>3. QED
      BY <2>1, <2>3, <3>1, <3>2 DEF Current, ShownIsCurrent, RunOf
  <2>4. QED
    BY <2>1, <2>2, <2>3
<1>12. QED
  BY <1>1, <1>2, <1>3, <1>4, <1>5, <1>6, <1>7, <1>8, <1>9, <1>10, <1>11, Steps

LEMMA InOrderStep ==
  ASSUME Types, Placed, OneRun, InOrder, [Next]_vars
  PROVE  InOrder'
<1>a. Again \in Jobs /\ Runs \subseteq Jobs /\ Again \notin Runs /\ Again \notin OfScripts /\ OfScripts \subseteq Results
  BY Names
<1>x. \A x \in OfScripts : x[1] \in Runs /\ x[2] \in Nat \ {0} /\ x[2] <= Lengths[x[1]] /\ x = <<x[1], x[2]>>
  BY Names
<1>i. \A r \in Runs : job[r].i \in Nat /\ Lengths[r] \in Nat
  BY Names DEF Types
<1>o. stream \in [Results -> {"none", "open", "memory", "partial", "closed"}]
      /\ rs \in [Results -> {"none", "reading", "short", "ended"}]
  BY DEF Types
\* A stream or a reading there was may end.
<1> DEFINE NoMore(x) == /\ stream'[x] # "none" \/ rs'[x] # "none" => stream[x] # "none" \/ rs[x] # "none"
                        /\ rs'[x] # "none" => rs[x] # "none"
                        /\ stream'[x] = "open" => stream[x] = "open"
<1>w. ASSUME NEW x \in OfScripts, stream' = WithoutOpen, rs' = rs PROVE NoMore(x)
  BY <1>a, <1>w DEF WithoutOpen, Streaming
<1>u. ASSUME NEW x \in OfScripts, job'[x[1]] = job[x[1]], NoMore(x) PROVE Follows(x)'
  BY <1>u DEF InOrder, Follows
<1>e. ASSUME UNCHANGED <<stream, rs>> PROVE \A x \in OfScripts : NoMore(x)
  BY <1>e
\* What becomes of the job a result is of.
<1>m. ASSUME NEW x \in OfScripts, NEW r \in Runs, NEW a, NEW n \in Nat, NEW w, JobBecomes(r, a, n, w), NoMore(x),
             a # "none", a # "buffering",
             x[1] = r /\ (stream[x] # "none" \/ rs[x] # "none") =>
               /\ a \in {"starting", "next", "handing"} => x[2] <= n
               /\ a \in {"waiting", "executing"} => x[2] < n
               /\ a = "handing" /\ rs[x] # "none" => x[2] < n,
             x[1] = r /\ stream'[x] = "open" => x[2] = Lengths[r]
      PROVE  Follows(x)'
  <2>1. CASE x[1] = r
    <3>1. job'[x[1]].at = a /\ job'[x[1]].i = n
      BY <1>m, <2>1 DEF JobBecomes
    <3>2. QED
      BY <1>m, <2>1, <3>1 DEF Follows
  <2>2. CASE x[1] # r
    <3>1. job'[x[1]] = job[x[1]]
      BY <1>a, <1>m, <1>x, <2>2 DEF JobBecomes
    <3>2. QED
      BY <1>m, <1>u, <3>1
  <2>3. QED
    BY <2>1, <2>2
<1> HIDE DEF NoMore
<1>1. CASE UNCHANGED vars \/ Aside \/ CloseSession \/ TakeTx
  <2>1. job' = job /\ rs' = rs /\ (stream' = stream \/ stream' = WithoutOpen)
    BY <1>1, AsideStays, TransactionStays DEF Elsewhere, CutOff, vars, CloseSession, window, shell, work, server
  <2>2. QED
    BY <1>e, <1>u, <1>w, <2>1 DEF InOrder
<1>2. ASSUME NEW o \in Jobs, Take(o) PROVE InOrder'
  <2> SUFFICES ASSUME NEW x \in OfScripts PROVE Follows(x)'
    BY DEF InOrder
  <2>1. job[o].at = "waiting" /\ rs' = rs /\ (stream' = stream \/ stream' = WithoutOpen)
    BY <1>2, TakeDoes
  <2>2. NoMore(x)
    BY <1>e, <1>w, <2>1
  <2>3. PICK a \in {"handing", "executing"}, w \in {FALSE, job[o].rows} : JobBecomes(o, a, job[o].i, w)
    BY <1>2, TakeDoes
  <2>4. CASE o = Again
    BY <1>a, <1>u, <1>x, <2>2, <2>3, <2>4 DEF JobBecomes
  <2>5. CASE o \in Runs
    <3>1. x[1] = o /\ (stream[x] # "none" \/ rs[x] # "none") => x[2] < job[o].i
      BY <2>1 DEF InOrder, Follows
    <3>2. x[1] = o /\ stream[x] = "open" => x[2] = Lengths[o]
      BY <2>1 DEF InOrder, Follows
    <3>3. stream'[x] = "open" => stream[x] = "open"
      BY <2>2 DEF NoMore
    <3>4. job[o].i \in Nat /\ x[2] \in Nat
      BY <1>i, <1>x, <2>5
    <3>5. QED
      BY <1>m, <2>2, <2>3, <2>5, <3>1, <3>2, <3>3, <3>4
  <2>6. QED
    BY <2>4, <2>5, Names
<1>3. ASSUME NEW o \in Jobs, Answer(o) PROVE InOrder'
  <2> SUFFICES ASSUME NEW x \in OfScripts PROVE Follows(x)'
    BY DEF InOrder
  <2>1. job[o].at = "executing" /\ rs' = rs
    BY <1>3, AnswerDoes
  <2>2. PICK w \in BOOLEAN, a \in {"handing", "buffering"} :
              /\ a = "buffering" <=> w /\ o # Again /\ job[o].i < Lengths[o]
              /\ JobBecomes(o, a, job[o].i, w)
              /\ stream' = IF w THEN [stream EXCEPT ![Name(o)] = "open"] ELSE stream
    BY <1>3, AnswerDoes
  <2>3. CASE o = Again
    <3>1. stream'[x] = stream[x]
      <4>1. Name(o) = Again /\ x # Again
        BY <1>a, <2>3 DEF Name
      <4>2. QED
        BY <1>a, <1>o, <2>2, <4>1
    <3>2. NoMore(x)
      BY <2>1, <3>1 DEF NoMore
    <3>3. QED
      BY <1>a, <1>u, <1>x, <2>2, <2>3, <3>2 DEF JobBecomes
  <2>4. CASE o \in Runs
    <3>1. Name(o) = <<o, job[o].i>> /\ Name(o) \in Results
      BY <2>1, <2>4, AtWork
    <3>2. x # Name(o) => stream'[x] = stream[x]
      BY <1>a, <1>o, <2>2, <3>1
    <3>3. CASE x[1] # o
      <4>1. x # Name(o) /\ job'[x[1]] = job[x[1]]
        BY <1>a, <1>x, <2>2, <3>1, <3>3 DEF JobBecomes
      <4>2. NoMore(x)
        BY <2>1, <3>2, <4>1 DEF NoMore
      <4>3. QED
        BY <1>u, <4>1, <4>2
    <3>4. CASE x[1] = o
      <4>1. job'[x[1]].at = a /\ job'[x[1]].i = job[o].i
        BY <2>2, <3>4 DEF JobBecomes
      <4>2. job[o].i \in Nat /\ job[o].i <= Lengths[o] /\ Lengths[o] \in Nat /\ x[2] \in Nat
        BY <1>i, <1>x, <2>4 DEF Placed
      <4>3. stream[x] # "none" \/ rs[x] # "none" => x[2] < job[o].i
        BY <2>1, <3>4 DEF InOrder, Follows
      <4>4. stream[x] = "open" => x[2] = Lengths[o]
        BY <2>1, <3>4 DEF InOrder, Follows
      <4>5. CASE x = Name(o)
        <5>1. x[2] = job[o].i
          BY <3>1, <4>5
        <5>2. stream'[x] = "open" => w \/ stream[x] = "open"
          BY <2>2
        <5>3. a = "handing" /\ w => x[2] = Lengths[o]
          BY <1>a, <2>2, <2>4, <4>2, <5>1
        <5>4. QED
          BY <2>1, <3>4, <4>1, <4>2, <4>3, <4>4, <5>1, <5>2, <5>3 DEF Follows
      <4>6. CASE x # Name(o)
        BY <2>1, <3>2, <3>4, <4>1, <4>2, <4>3, <4>4, <4>6 DEF Follows
      <4>7. QED
        BY <4>5, <4>6
    <3>5. QED
      BY <3>3, <3>4
  <2>5. QED
    BY <2>3, <2>4, Names
<1>4. ASSUME NEW r \in Runs, Start(r) \/ NextStatement(r) PROVE InOrder'
  <2> SUFFICES ASSUME NEW x \in OfScripts PROVE Follows(x)'
    BY DEF InOrder
  <2>1. NoMore(x) /\ stream' = stream /\ job[r].i \in Nat /\ job[r].i + 1 \in Nat /\ x[2] \in Nat
    <3>1. UNCHANGED <<stream, rs>>
      BY <1>4, ScriptDoes
    <3>2. job[r].i \in Nat /\ job[r].i + 1 \in Nat /\ x[2] \in Nat
      BY <1>i, <1>x
    <3>3. QED
      BY <1>e, <3>1, <3>2
  <2>2. job[r].at \in {"starting", "next"} /\ x[1] = r =>
          /\ stream[x] # "none" \/ rs[x] # "none" => x[2] <= job[r].i
          /\ stream[x] = "open" => x[2] = Lengths[r]
    BY DEF InOrder, Follows
  <2>3. CASE job[r].at = "starting" /\ \E a \in {"next", "refused"} : JobBecomes(r, a, job[r].i, job[r].rows)
    <3>1. PICK a \in {"next", "refused"} : JobBecomes(r, a, job[r].i, job[r].rows)
      BY <2>3
    <3>2. CASE a = "next"
      BY <1>m, <2>1, <2>2, <2>3, <3>1, <3>2
    <3>3. CASE a = "refused"
      BY <1>m, <2>1, <2>2, <2>3, <3>1, <3>3
    <3>4. QED
      BY <3>2, <3>3
  <2>4. job[r].at = "next" /\ x[1] = r /\ (stream[x] # "none" \/ rs[x] # "none") =>
          x[2] < job[r].i + 1 /\ x[2] <= job[r].i + 1
    BY <2>1, <2>2
  <2>5. CASE job[r].at = "next" /\ JobBecomes(r, "handing", job[r].i + 1, FALSE)
    BY <1>m, <2>1, <2>2, <2>4, <2>5
  <2>6. CASE job[r].at = "next" /\ JobBecomes(r, "waiting", job[r].i + 1, job[r].rows)
    BY <1>m, <2>1, <2>2, <2>4, <2>6
  <2>7. QED
    BY <1>4, <2>3, <2>5, <2>6, ScriptDoes
<1>5. ASSUME NEW r \in Runs, Buffer(r) PROVE InOrder'
  <2> SUFFICES ASSUME NEW x \in OfScripts PROVE Follows(x)'
    BY DEF InOrder
  <2>1. /\ job[r].at = "buffering" /\ rs' = rs
        /\ \E w : JobBecomes(r, "handing", job[r].i, w)
        /\ \E v \in {"memory", "partial", "closed"} : stream' = [stream EXCEPT ![Name(r)] = v]
    BY <1>5, BufferDoes
  <2>2. PICK v \in {"memory", "partial", "closed"} : stream' = [stream EXCEPT ![Name(r)] = v]
    BY <2>1
  <2>3. PICK w : JobBecomes(r, "handing", job[r].i, w)
    BY <2>1
  <2>4. Name(r) = <<r, job[r].i>> /\ Name(r) \in Results
    BY <2>1, AtWork
  <2>5. x # Name(r) => stream'[x] = stream[x]
    BY <1>a, <1>o, <2>2, <2>4
  <2>6. x = Name(r) => stream'[x] = v /\ x[1] = r /\ x[2] = job[r].i
    BY <1>o, <2>2, <2>4
  <2>7. CASE x[1] # r
    <3>1. x # Name(r) /\ job'[x[1]] = job[x[1]]
      BY <1>a, <1>x, <2>3, <2>6, <2>7 DEF JobBecomes
    <3>2. NoMore(x)
      BY <2>1, <2>5, <3>1 DEF NoMore
    <3>3. QED
      BY <1>u, <3>1, <3>2
  <2>8. CASE x[1] = r
    <3>1. job'[x[1]].at = "handing" /\ job'[x[1]].i = job[r].i
      BY <2>3, <2>8 DEF JobBecomes
    <3>2. job[r].i \in Nat /\ x[2] \in Nat
      BY <1>i, <1>x
    <3>3. /\ stream[x] # "none" \/ rs[x] # "none" => x[2] <= job[r].i
          /\ rs[x] # "none" => x[2] < job[r].i
          /\ stream[x] = "open" => x[2] = Lengths[r] \/ x[2] = job[r].i
      BY <2>1, <2>8 DEF InOrder, Follows
    <3>4. x # Name(r) => x[2] # job[r].i
      BY <1>x, <2>4, <2>8
    <3>5. QED
      BY <2>1, <2>5, <2>6, <2>8, <3>1, <3>2, <3>3, <3>4 DEF Follows
  <2>9. QED
    BY <2>7, <2>8
<1>6. ASSUME NEW r \in Runs, Hand(r) PROVE InOrder'
  <2> SUFFICES ASSUME NEW x \in OfScripts PROVE Follows(x)'
    BY DEF InOrder
  <2>1. job[r].at = "handing" /\ stream' = stream
    BY <1>6, HandDoes
  <2>2. Name(r) = <<r, job[r].i>> /\ Name(r) \in Results
    BY <2>1, AtWork
  <2>3. rs' = rs \/ rs' = [rs EXCEPT ![Name(r)] = "reading"]
    BY <1>6, HandDoes
  <2>4. x # Name(r) => rs'[x] = rs[x]
    BY <1>a, <1>o, <2>2, <2>3
  <2>w. PICK a \in {"done", "next"} : \E n, w : JobBecomes(r, a, n, w) /\ (a = "next" => n = job[r].i)
    BY <1>6, HandDoes
  <2>5. PICK n, w : JobBecomes(r, a, n, w) /\ (a = "next" => n = job[r].i)
    BY <2>w
  <2>6. CASE x[1] # r
    <3>1. x # Name(r) /\ job'[x[1]] = job[x[1]]
      BY <1>a, <1>x, <2>2, <2>5, <2>6 DEF JobBecomes
    <3>2. NoMore(x)
      BY <2>1, <2>4, <3>1 DEF NoMore
    <3>3. QED
      BY <1>u, <3>1, <3>2
  <2>7. CASE x[1] = r
    <3>1. job'[x[1]].at = a /\ job'[x[1]].i = n
      BY <2>5, <2>7 DEF JobBecomes
    <3>2. job[r].i \in Nat /\ x[2] \in Nat
      BY <1>i, <1>x
    <3>3. /\ stream[x] # "none" \/ rs[x] # "none" => x[2] <= job[r].i
          /\ stream[x] = "open" => x[2] = Lengths[r]
      BY <2>1, <2>7 DEF InOrder, Follows
    <3>4. x = Name(r) => x[2] = job[r].i
      BY <2>2
    <3>5. QED
      BY <2>1, <2>4, <2>5, <2>7, <3>1, <3>2, <3>3, <3>4 DEF Follows
  <2>8. QED
    BY <2>6, <2>7
<1>7. ASSUME NEW r \in Runs, Execute(r) PROVE InOrder'
  <2> SUFFICES ASSUME NEW x \in OfScripts PROVE Follows(x)'
    BY DEF InOrder
  <2>1. r = cur + 1 /\ JobBecomes(r, "starting", job[r].i, job[r].rows) /\ UNCHANGED <<rs, stream>>
    BY <1>7, WindowDoes
  <2>2. cur \in Nat /\ r \in Nat
    BY Names DEF Types
  <2>3. job[r].at = "none"
    BY <2>1, <2>2 DEF Placed, NoJob
  <2>4. x[1] = r => stream[x] = "none" /\ rs[x] = "none"
    BY <2>3 DEF InOrder, Follows
  <2>5. NoMore(x) /\ stream'[x] = stream[x] /\ job[r].i \in Nat
    BY <1>e, <1>i, <2>1
  <2>6. QED
    BY <1>m, <2>1, <2>4, <2>5
<1>8. ASSUME NEW r \in Runs, Shows(r) PROVE InOrder'
  BY <1>8, <1>e, <1>u, WindowDoes DEF InOrder
<1>9. ASSUME NEW r \in Runs, RunOver(r) PROVE InOrder'
  <2> SUFFICES ASSUME NEW x \in OfScripts PROVE Follows(x)'
    BY DEF InOrder
  <2>1. /\ job[r].at \in {"done", "refused"}
        /\ JobBecomes(r, "over", job[r].i, job[r].rows) /\ UNCHANGED <<rs, stream>>
    BY <1>9, WindowDoes
  <2>2. x[1] = r /\ stream[x] = "open" => x[2] = Lengths[r]
    BY <2>1 DEF InOrder, Follows
  <2>3. NoMore(x) /\ stream'[x] = stream[x] /\ job[r].i \in Nat
    BY <1>e, <1>i, <2>1
  <2>4. QED
    BY <1>m, <2>1, <2>2, <2>3
<1>10. ASSUME NEW y \in Results, ReadToEnd(y) PROVE InOrder'
  <2> SUFFICES ASSUME NEW x \in OfScripts PROVE Follows(x)'
    BY DEF InOrder
  <2>1. rs[y] = "reading" /\ job' = job /\ stream' = [stream EXCEPT ![y] = "closed"]
    BY <1>10, ReadDoes
  <2>2. PICK v \in {"short", "ended"} : rs' = [rs EXCEPT ![y] = v]
    BY <1>10, ReadDoes
  <2>3. NoMore(x)
    <3>1. CASE x = y
      BY <1>a, <1>o, <2>1, <2>2, <3>1 DEF NoMore
    <3>2. CASE x # y
      <4>1. stream'[x] = stream[x] /\ rs'[x] = rs[x]
        BY <1>a, <1>o, <2>1, <2>2, <3>2
      <4>2. QED
        BY <4>1 DEF NoMore
    <3>3. QED
      BY <3>1, <3>2
  <2>4. QED
    BY <1>u, <2>1, <2>3
<1>11. ASSUME NEW y \in OfScripts, Commit(y) PROVE InOrder'
  BY <1>11, <1>e, <1>u, ChangesDo DEF InOrder
<1>12. CASE Applied \/ Reread \/ ShowAgain
  <2> SUFFICES ASSUME NEW x \in OfScripts PROVE Follows(x)'
    BY DEF InOrder
  <2>1. /\ job' = job \/ \E a, n, w : JobBecomes(Again, a, n, w)
        /\ stream' = stream /\ (rs' = rs \/ rs' = [rs EXCEPT ![Again] = "reading"])
    BY <1>12, ChangesDo
  <2>2. job'[x[1]] = job[x[1]]
    BY <1>a, <1>x, <2>1 DEF JobBecomes
  <2>3. NoMore(x)
    BY <1>a, <1>o, <2>1 DEF NoMore
  <2>4. QED
    BY <1>u, <2>2, <2>3
<1>13. QED
  BY <1>1, <1>2, <1>3, <1>4, <1>5, <1>6, <1>7, <1>8, <1>9, <1>10, <1>11, <1>12, Steps

\* A result that is on show or on its way, or at hand.
Due(x) == x \in shown \cup Coming(x[1])

LEMMA AccountedStep ==
  ASSUME Inv, [Next]_vars
  PROVE  Accounted'
<1>t. Types /\ Placed /\ OneRun /\ Current /\ InOrder /\ Accounted
  BY DEF Inv
<1>a. Again \in Jobs /\ Runs \subseteq Jobs /\ Again \notin Runs /\ Again \notin OfScripts /\ OfScripts \subseteq Results
  BY Names
<1>x. \A x \in OfScripts : x[1] \in Runs /\ x[2] \in Nat \ {0} /\ x[2] <= Lengths[x[1]] /\ x = <<x[1], x[2]>>
  BY Names
<1>o. stream \in [Results -> {"none", "open", "memory", "partial", "closed"}]
      /\ rs \in [Results -> {"none", "reading", "short", "ended"}]
  BY <1>t DEF Types
<1> DEFINE Fair(x) == /\ Due(x) => /\ rs[x] # "none"
                                   /\ rs[x] = "short" \/ (rs[x] = "reading" /\ CutShort(x)) => x \in cut
                      /\ AtHand(x) => /\ CutShort(x) => x \in cut
                                      /\ job[x[1]].at = "buffering" => stream[x] \in {"open", "closed"}
<1>f. ASSUME tab = "open", NEW x \in OfScripts PROVE Fair(x)
  BY <1>t, <1>f DEF Accounted, Due
<1>g. ASSUME tab' = "open" => tab = "open", tab' = "open" => \A x \in OfScripts : Fair(x)' PROVE Accounted'
  BY <1>g DEF Accounted, Due
\* Of a step that changes nothing about a result but what else was cut.
<1>u. ASSUME NEW x \in OfScripts, Fair(x), Due(x)' => Due(x), AtHand(x)' => AtHand(x),
             AtHand(x)' /\ job'[x[1]].at = "buffering" => job[x[1]].at = "buffering",
             rs'[x] = rs[x], stream'[x] = stream[x], x \in cut => x \in cut'
      PROVE  Fair(x)'
  BY <1>u DEF CutShort
\* The latest run's results only are due or at hand.
<1>c. ASSUME NEW x \in OfScripts, Due(x) \/ AtHand(x) PROVE x[1] = cur
  <2>1. CASE x \in shown
    BY <1>a, <1>t, <2>1 DEF Current, ShownIsCurrent, RunOf
  <2>2. CASE x \in Coming(x[1])
    <3>1. queue[x[1]] # <<>>
      BY <2>2, Queues DEF Coming, Elements
    <3>2. QED
      BY <1>t, <1>x, <3>1 DEF OneRun
  <2>3. CASE AtHand(x)
    BY <1>t, <1>x, <2>3 DEF AtHand, OneRun
  <2>4. QED
    BY <1>c, <2>1, <2>2, <2>3 DEF Due
<1>h. ASSUME NEW x \in OfScripts, NEW r, NEW a, NEW n, NEW w, r # x[1], JobBecomes(r, a, n, w)
      PROVE  AtHand(x)' <=> AtHand(x)
  BY <1>a, <1>h, <1>x DEF AtHand, JobBecomes
\* Of one that leaves the result neither due nor at hand.
<1>v. ASSUME NEW x \in OfScripts, ~Due(x)', ~AtHand(x)' PROVE Fair(x)'
  BY <1>v
\* A job that is at none of the two places has nothing at hand.
<1>n. ASSUME NEW x \in OfScripts, NEW r \in Jobs, NEW a, NEW n, NEW w, JobBecomes(r, a, n, w),
             a \notin {"buffering", "handing"} \/ ~w
      PROVE  AtHand(x)' => AtHand(x) /\ job'[x[1]] = job[x[1]]
  <2>1. CASE x[1] = r
    BY <1>n, <2>1 DEF AtHand, JobBecomes
  <2>2. CASE x[1] # r
    BY <1>a, <1>n, <1>x, <2>2 DEF AtHand, JobBecomes
  <2>3. QED
    BY <2>1, <2>2
<1> HIDE DEF Fair
<1>1. CASE UNCHANGED vars \/ Aside \/ CloseSession \/ TakeTx
  <2>1. CASE UNCHANGED vars \/ Aside
    <3>1. UNCHANGED <<shown, stream, rs, job, queue, cut>> /\ (tab' = "open" => tab = "open")
      BY <1>t, <2>1, AsideStays DEF Elsewhere, vars, window, shell, work, server
    <3>2. \A x \in OfScripts : (Due(x)' <=> Due(x)) /\ (AtHand(x)' <=> AtHand(x))
      BY <3>1 DEF Due, Coming, AtHand
    <3>3. QED
      BY <1>f, <1>g, <1>u, <3>1, <3>2
  <2>2. CASE CloseSession
    <3>1. tab = "closed" /\ tab' = tab
      BY <1>t, <2>2 DEF CloseSession, Types, window, shell
    <3>2. QED
      BY <3>1, <1>g
  <2>3. CASE TakeTx
    <3>1. CASE Elsewhere
      <4>1. \A x \in OfScripts : (Due(x)' <=> Due(x)) /\ (AtHand(x)' <=> AtHand(x))
        BY <3>1 DEF Elsewhere, Due, Coming, AtHand
      <4>2. QED
        BY <1>f, <1>g, <1>u, <3>1, <4>1 DEF Elsewhere
    <3>2. CASE CutOff
      <4>1. \A x \in OfScripts : (Due(x)' <=> Due(x)) /\ (AtHand(x)' <=> AtHand(x))
        BY <3>2 DEF CutOff, Due, Coming, AtHand
      <4>2. ASSUME tab = "open", NEW x \in OfScripts PROVE Fair(x)'
        <5>1. x \notin Streaming => stream'[x] = stream[x]
          BY <1>a, <3>2 DEF CutOff, WithoutOpen
        <5>2. x \in Streaming => x \in cut' /\ stream'[x] = "closed"
          BY <1>a, <3>2 DEF CutOff, WithoutOpen
        <5>3. rs' = rs /\ job' = job /\ cut \subseteq cut'
          BY <3>2 DEF CutOff
        <5>4. QED
          BY <1>f, <4>1, <4>2, <5>1, <5>2, <5>3 DEF Fair, CutShort
      <4>3. QED
        BY <1>g, <3>2, <4>2 DEF CutOff
    <3>3. QED
      BY <2>3, <3>1, <3>2, TransactionStays
  <2>4. QED
    BY <1>1, <2>1, <2>2, <2>3
<1>2. ASSUME NEW o \in Jobs, Take(o) PROVE Accounted'
  <2> SUFFICES ASSUME tab = "open", NEW x \in OfScripts PROVE Fair(x)'
    BY <1>2, <1>g, <1>t, TakeDoes DEF Shop
  <2>1. job[o].at = "waiting" /\ UNCHANGED <<shown, queue, rs>>
    BY <1>2, <1>t, TakeDoes DEF Shop
  <2>2. Fair(x) /\ (Due(x)' <=> Due(x))
    BY <1>f, <2>1 DEF Due, Coming
  <2>3. CASE JobBecomes(o, "handing", job[o].i, FALSE) /\ UNCHANGED <<stream, cut>>
    <3>1. AtHand(x)' => AtHand(x) /\ job'[x[1]] = job[x[1]]
      BY <1>n, <2>3
    <3>2. QED
      BY <1>u, <2>1, <2>2, <2>3, <3>1
  <2>4. CASE /\ JobBecomes(o, "executing", job[o].i, job[o].rows) /\ stream' = WithoutOpen
             /\ cut' = IF o = Again THEN cut \cup Streaming ELSE cut
    <3>1. AtHand(x)' => AtHand(x) /\ job'[x[1]] = job[x[1]]
      BY <1>n, <2>4
    <3>2. x \notin Streaming => stream'[x] = stream[x]
      BY <1>a, <2>4 DEF WithoutOpen
    <3>3. x \in Streaming => stream'[x] = "closed" /\ stream[x] = "open"
      BY <1>a, <2>4 DEF WithoutOpen, Streaming
    <3>4. cut \subseteq cut'
      BY <2>4
    <3>5. CASE o = Again
      <4>1. x \in Streaming => x \in cut'
        BY <2>4, <3>5
      <4>2. QED
        BY <2>1, <2>2, <3>1, <3>2, <3>3, <3>4, <4>1 DEF Fair, CutShort
    <3>6. CASE o \in Runs
      <4>1. o = cur
        BY <1>t, <2>1, <3>6 DEF OneRun
      <4>2. CASE x[1] # o
        <5>1. ~Due(x)' /\ ~AtHand(x)'
          BY <1>c, <2>2, <3>1, <4>1, <4>2
        <5>2. QED
          BY <1>v, <5>1
      <4>3. CASE x[1] = o
        <5>1. stream[x] = "open" => x[2] = Lengths[o] /\ x[2] < job[o].i
          BY <1>t, <2>1, <4>3 DEF InOrder, Follows
        <5>2. job[o].i <= Lengths[o] /\ job[o].i \in Nat /\ Lengths[o] \in Nat
          BY <1>a, <1>t, <3>6, Names DEF Placed, Types
        <5>3. stream'[x] = stream[x]
          BY <3>2, <3>3, <5>1, <5>2
        <5>4. QED
          BY <1>u, <2>1, <2>2, <3>1, <3>4, <5>3
      <4>4. QED
        BY <4>2, <4>3
    <3>7. QED
      BY <3>5, <3>6, Names
  <2>5. QED
    BY <1>2, <1>t, <2>3, <2>4, TakeDoes
<1>3. ASSUME NEW o \in Jobs, Answer(o) PROVE Accounted'
  <2> SUFFICES ASSUME tab = "open", NEW x \in OfScripts PROVE Fair(x)'
    BY <1>3, <1>g, <1>t, AnswerDoes DEF Shop
  <2>1. job[o].at = "executing" /\ UNCHANGED <<shown, queue, rs, cut>>
    BY <1>3, <1>t, AnswerDoes DEF Shop
  <2>2. Fair(x) /\ (Due(x)' <=> Due(x))
    BY <1>f, <2>1 DEF Due, Coming
  <2>3. PICK w \in BOOLEAN, a \in {"handing", "buffering"} :
              /\ JobBecomes(o, a, job[o].i, w)
              /\ stream' = IF w THEN [stream EXCEPT ![Name(o)] = "open"] ELSE stream
    BY <1>3, <1>t, AnswerDoes
  <2>4. CASE o = Again
    <3>1. Name(o) = Again /\ x # Again /\ x[1] # o
      BY <1>a, <1>x, <2>4 DEF Name
    <3>2. stream'[x] = stream[x]
      BY <1>a, <1>o, <2>3, <3>1
    <3>3. (AtHand(x)' <=> AtHand(x)) /\ job'[x[1]] = job[x[1]]
      BY <1>a, <1>h, <1>x, <2>3, <3>1 DEF JobBecomes
    <3>4. QED
      BY <1>u, <2>1, <2>2, <3>2, <3>3
  <2>5. CASE o \in Runs
    <3>1. Name(o) = <<o, job[o].i>> /\ Name(o) \in Results
      BY <1>t, <2>1, <2>5, AtWork
    <3>2. CASE x = Name(o)
      <4>1. x[1] = o /\ x[2] = job[o].i /\ job[o].i \in Nat
        BY <1>a, <1>t, <2>5, <3>1, <3>2 DEF Types
      <4>2. rs[x] = "none"
        BY <1>t, <2>1, <4>1 DEF InOrder, Follows
      <4>3. ~Due(x)'
        BY <2>2, <4>2 DEF Fair
      <4>4. AtHand(x)' => w
        BY <2>3, <4>1 DEF AtHand, JobBecomes
      <4>5. w => stream'[x] = "open"
        BY <1>o, <2>3, <3>1, <3>2
      <4>6. QED
        BY <4>3, <4>4, <4>5 DEF Fair, CutShort
    <3>3. CASE x # Name(o)
      <4>1. stream'[x] = stream[x]
        BY <1>a, <1>o, <2>3, <3>1, <3>3
      <4>2. AtHand(x)' => x[1] # o
        BY <1>x, <2>3, <3>1, <3>3 DEF AtHand, JobBecomes
      <4>3. x[1] # o => job'[x[1]] = job[x[1]] /\ (AtHand(x)' <=> AtHand(x))
        BY <1>a, <1>h, <1>x, <2>3 DEF JobBecomes
      <4>4. QED
        BY <1>u, <2>1, <2>2, <4>1, <4>2, <4>3
    <3>4. QED
      BY <3>2, <3>3
  <2>6. QED
    BY <2>4, <2>5, Names
<1>4. ASSUME NEW r \in Runs, Start(r) \/ NextStatement(r) PROVE Accounted'
  <2>1. UNCHANGED <<tab, shown, queue, rs, stream, cut>>
    BY <1>4, <1>t, ScriptDoes DEF Shop
  <2> SUFFICES ASSUME tab = "open", NEW x \in OfScripts PROVE Fair(x)'
    BY <1>g, <2>1
  <2>2. Fair(x) /\ (Due(x)' <=> Due(x))
    BY <1>f, <2>1 DEF Due, Coming
  <2>3. \E a, n, w : JobBecomes(r, a, n, w) /\ (a \notin {"buffering", "handing"} \/ ~w)
    <3>1. CASE \E a \in {"next", "refused"} : JobBecomes(r, a, job[r].i, job[r].rows)
      BY <3>1
    <3>2. CASE JobBecomes(r, "handing", job[r].i + 1, FALSE)
      BY <3>2
    <3>3. CASE JobBecomes(r, "waiting", job[r].i + 1, job[r].rows)
      BY <3>3
    <3>4. QED
      BY <1>4, <1>t, <3>1, <3>2, <3>3, ScriptDoes
  <2>4. AtHand(x)' => AtHand(x) /\ job'[x[1]] = job[x[1]]
    BY <1>a, <1>n, <2>3
  <2>5. QED
    BY <1>u, <2>1, <2>2, <2>4
<1>5. ASSUME NEW r \in Runs, Buffer(r) PROVE Accounted'
  <2> SUFFICES ASSUME tab = "open", NEW x \in OfScripts PROVE Fair(x)'
    BY <1>5, <1>g, <1>t, BufferDoes DEF Shop
  <2>1. job[r].at = "buffering" /\ UNCHANGED <<shown, queue, rs, cut>>
    BY <1>5, <1>t, BufferDoes DEF Shop
  <2>2. Fair(x) /\ (Due(x)' <=> Due(x))
    BY <1>f, <2>1 DEF Due, Coming
  <2>3. Name(r) = <<r, job[r].i>> /\ Name(r) \in Results
    BY <1>t, <2>1, AtWork
  <2>4. \/ /\ JobBecomes(r, "handing", job[r].i, job[r].rows)
           /\ stream' = [stream EXCEPT ![Name(r)] = IF @ = "open" THEN "memory" ELSE "partial"]
        \/ /\ JobBecomes(r, "handing", job[r].i, FALSE)
           /\ stream' = [stream EXCEPT ![Name(r)] = "closed"]
    BY <1>5, <1>t, BufferDoes
  <2>5. PICK w : JobBecomes(r, "handing", job[r].i, w)
    BY <2>4
  <2>6. CASE x = Name(r)
    <3>1. x[1] = r /\ x[2] = job[r].i /\ job[r].i \in Nat
      BY <1>a, <1>t, <2>3, <2>6 DEF Types
    <3>2. rs[x] = "none"
      BY <1>t, <2>1, <3>1 DEF InOrder, Follows
    <3>3. ~Due(x)'
      BY <2>2, <3>2 DEF Fair
    <3>4. job'[r].at = "handing"
      BY <2>5 DEF JobBecomes
    <3>5. CASE /\ JobBecomes(r, "handing", job[r].i, job[r].rows)
               /\ stream' = [stream EXCEPT ![Name(r)] = IF @ = "open" THEN "memory" ELSE "partial"]
      <4>1. stream[x] = "open" => stream'[x] = "memory"
        BY <1>o, <2>3, <2>6, <3>5
      <4>2. AtHand(x)' => AtHand(x)
        BY <2>1, <3>1, <3>5 DEF AtHand, JobBecomes
      <4>3. AtHand(x) => stream[x] = "open" \/ x \in cut
        BY <2>1, <2>2, <3>1 DEF Fair, CutShort
      <4>4. QED
        BY <2>1, <3>1, <3>3, <3>4, <4>1, <4>2, <4>3 DEF Fair, CutShort
    <3>6. CASE JobBecomes(r, "handing", job[r].i, FALSE)
      <4>1. ~AtHand(x)'
        BY <3>1, <3>6 DEF AtHand, JobBecomes
      <4>2. QED
        BY <1>v, <3>3, <4>1
    <3>7. QED
      BY <2>4, <3>5, <3>6
  <2>7. CASE x # Name(r)
    <3>1. stream'[x] = stream[x]
      BY <1>a, <1>o, <2>3, <2>4, <2>7
    <3>2. AtHand(x)' => x[1] # r
      BY <1>x, <2>3, <2>5, <2>7 DEF AtHand, JobBecomes
    <3>3. x[1] # r => job'[x[1]] = job[x[1]] /\ (AtHand(x)' <=> AtHand(x))
      BY <1>a, <1>h, <1>x, <2>5 DEF JobBecomes
    <3>4. QED
      BY <1>u, <2>1, <2>2, <3>1, <3>2, <3>3
  <2>8. QED
    BY <2>6, <2>7
<1>6. ASSUME NEW r \in Runs, Hand(r) PROVE Accounted'
  <2> SUFFICES ASSUME tab = "open", NEW x \in OfScripts PROVE Fair(x)'
    BY <1>6, <1>g, <1>t, HandDoes DEF Shop
  <2>1. job[r].at = "handing" /\ UNCHANGED <<shown, stream, cut>>
    BY <1>6, <1>t, HandDoes DEF Shop
  <2>w. PICK a \in {"done", "next"} : \E n, w : JobBecomes(r, a, n, w)
    BY <1>6, <1>t, HandDoes
  <2>2. PICK n, w : JobBecomes(r, a, n, w)
    BY <2>w
  <2>3. AtHand(x)' => AtHand(x) /\ job'[x[1]] = job[x[1]]
    BY <1>a, <1>n, <2>2
  <2>4. Fair(x)
    BY <1>f
  <2>5. CASE ~job[r].rows
    <3>1. UNCHANGED <<rs, queue>>
      BY <1>6, <1>t, <2>5, HandDoes
    <3>2. Due(x)' <=> Due(x)
      BY <2>1, <3>1 DEF Due, Coming
    <3>3. QED
      BY <1>u, <2>1, <2>3, <2>4, <3>1, <3>2
  <2>6. CASE job[r].rows
    <3>1. /\ rs' = [rs EXCEPT ![Name(r)] = "reading"]
          /\ queue' = queue \/ queue' = [queue EXCEPT ![r] = Append(@, Name(r))]
      BY <1>6, <1>t, <2>6, HandDoes
    <3>2. Name(r) = <<r, job[r].i>> /\ Name(r) \in Results /\ Name(r) \in OfScripts
      BY <1>t, <2>1, AtWork
    <3>3. CASE x = Name(r)
      <4>1. x[1] = r /\ x[2] = job[r].i
        BY <3>2, <3>3
      <4>2. rs'[x] = "reading" /\ AtHand(x)
        BY <1>o, <2>1, <2>6, <3>1, <3>2, <3>3, <4>1 DEF AtHand
      <4>3. ~AtHand(x)'
        BY <2>2, <4>1 DEF AtHand, JobBecomes
      <4>4. QED
        BY <2>1, <2>4, <4>2, <4>3 DEF Fair, CutShort
    <3>4. CASE x # Name(r)
      <4>1. rs'[x] = rs[x]
        BY <1>a, <1>o, <3>1, <3>2, <3>4
      <4>2. Elements(Append(queue[r], Name(r))) = Elements(queue[r]) \cup {Name(r)}
        <5>1. queue[r] \in Seq(OfScripts)
          BY <1>t DEF Types
        <5>2. \A y \in OfScripts : Elements(Append(queue[r], y)) = Elements(queue[r]) \cup {y}
          BY <5>1, Queues
        <5>3. QED
          BY <3>2, <5>2, Zenon
      <4>3. Due(x)' => Due(x)
        <5>1. CASE x[1] = r /\ queue' = [queue EXCEPT ![r] = Append(@, Name(r))]
          <6>1. queue'[r] = Append(queue[r], Name(r))
            BY <1>t, <5>1 DEF Types
          <6>2. QED
            BY <2>1, <3>4, <4>2, <5>1, <6>1 DEF Due, Coming
        <5>2. CASE x[1] # r \/ queue' = queue
          <6>1. queue'[x[1]] = queue[x[1]]
            BY <1>t, <1>x, <3>1, <5>2 DEF Types
          <6>2. QED
            BY <2>1, <6>1 DEF Due, Coming
        <5>3. QED
          BY <3>1, <5>1, <5>2
      <4>4. QED
        BY <1>u, <2>1, <2>3, <2>4, <4>1, <4>3
    <3>5. QED
      BY <3>3, <3>4
  <2>7. QED
    BY <2>5, <2>6
<1>7. ASSUME NEW r \in Runs, Execute(r) \/ RunOver(r) PROVE Accounted'
  <2>1. /\ UNCHANGED <<tab, queue, rs, stream, cut>> /\ (shown' = {} \/ shown' = shown)
        /\ \E a \in {"starting", "over"} : \E n, w : JobBecomes(r, a, n, w)
    BY <1>7, <1>t, WindowDoes
  <2> SUFFICES ASSUME tab = "open", NEW x \in OfScripts PROVE Fair(x)'
    BY <1>g, <2>1
  <2>2. Due(x)' => Due(x)
    BY <2>1 DEF Due, Coming
  <2>3. AtHand(x)' => AtHand(x) /\ job'[x[1]] = job[x[1]]
    BY <1>a, <1>n, <2>1
  <2>4. QED
    BY <1>f, <1>u, <2>1, <2>2, <2>3
<1>8. ASSUME NEW r \in Runs, Shows(r) PROVE Accounted'
  <2>1. /\ queue[r] # <<>> /\ queue' = [queue EXCEPT ![r] = Tail(@)]
        /\ shown' = shown \/ shown' = shown \cup {Head(queue[r])}
        /\ UNCHANGED <<tab, job, rs, stream, cut>>
    BY <1>8, <1>t, WindowDoes
  <2> SUFFICES ASSUME tab = "open", NEW x \in OfScripts PROVE Fair(x)'
    BY <1>g, <2>1
  <2>2. queue[r] \in Seq(OfScripts) /\ queue'[r] = Tail(queue[r]) /\ \A q \in Runs : q # r => queue'[q] = queue[q]
    BY <1>t, <2>1 DEF Types
  <2>3. Elements(queue'[r]) \subseteq Elements(queue[r]) /\ Head(queue[r]) \in Elements(queue[r])
    BY <2>1, <2>2, Queues
  <2>4. Head(queue[r])[1] = r
    BY <1>t, <2>3 DEF OneRun, Coming
  <2>5. Due(x)' => Due(x)
    BY <1>x, <2>1, <2>2, <2>3, <2>4 DEF Due, Coming
  <2>6. AtHand(x)' <=> AtHand(x)
    BY <2>1 DEF AtHand
  <2>7. QED
    BY <1>f, <1>u, <2>1, <2>5, <2>6
<1>9. ASSUME NEW y \in Results, ReadToEnd(y) PROVE Accounted'
  <2>1. /\ rs[y] = "reading" /\ stream' = [stream EXCEPT ![y] = "closed"]
        /\ UNCHANGED <<tab, shown, queue, job, cut>>
    BY <1>9, ReadDoes DEF Shop
  <2>2. PICK v \in {"short", "ended"} : (v = "short" => CutShort(y)) /\ rs' = [rs EXCEPT ![y] = v]
    BY <1>9, ReadDoes
  <2> SUFFICES ASSUME tab = "open", NEW x \in OfScripts PROVE Fair(x)'
    BY <1>g, <2>1
  <2>3. Fair(x) /\ (Due(x)' <=> Due(x)) /\ (AtHand(x)' <=> AtHand(x))
    BY <1>f, <2>1 DEF Due, Coming, AtHand
  <2>4. CASE x = y
    <3>1. ~AtHand(x)
      <4>1. job[x[1]].i \in Nat
        BY <1>a, <1>t, <1>x DEF Types
      <4>2. QED
        BY <1>t, <1>x, <2>1, <2>4, <4>1 DEF AtHand, InOrder, Follows
    <3>2. rs'[x] = v /\ stream'[x] = "closed"
      BY <1>o, <2>1, <2>2, <2>4
    <3>3. QED
      BY <2>1, <2>2, <2>3, <2>4, <3>1, <3>2 DEF Fair
  <2>5. CASE x # y
    <3>1. rs'[x] = rs[x] /\ stream'[x] = stream[x]
      BY <1>a, <1>o, <2>1, <2>2, <2>5
    <3>2. QED
      BY <1>u, <2>1, <2>3, <3>1
  <2>6. QED
    BY <2>4, <2>5
<1>10. ASSUME NEW y \in OfScripts, Commit(y) PROVE Accounted'
  <2>1. UNCHANGED <<tab, shown, queue, job, rs, stream, cut>>
    BY <1>10, <1>t, ChangesDo
  <2>2. \A x \in OfScripts : (Due(x)' <=> Due(x)) /\ (AtHand(x)' <=> AtHand(x))
    BY <2>1 DEF Due, Coming, AtHand
  <2>3. QED
    BY <1>f, <1>g, <1>u, <2>1, <2>2
<1>11. CASE Applied \/ Reread \/ ShowAgain
  <2>1. /\ UNCHANGED <<tab, queue, stream, cut>> /\ shown' \subseteq shown \cup {Again}
        /\ rs' = rs \/ rs' = [rs EXCEPT ![Again] = "reading"]
        /\ job' = job \/ \E a, n, w : JobBecomes(Again, a, n, w)
    BY <1>11, <1>t, ChangesDo DEF Shop
  <2> SUFFICES ASSUME tab = "open", NEW x \in OfScripts PROVE Fair(x)'
    BY <1>g, <2>1
  <2>2. Due(x)' => Due(x)
    BY <1>a, <2>1 DEF Due, Coming
  <2>3. rs'[x] = rs[x]
    BY <1>a, <1>o, <2>1
  <2>4. job'[x[1]] = job[x[1]]
    BY <1>a, <1>x, <2>1 DEF JobBecomes
  <2>5. AtHand(x)' <=> AtHand(x)
    BY <2>4 DEF AtHand
  <2>6. QED
    BY <1>f, <1>u, <2>1, <2>2, <2>3, <2>4, <2>5
<1>12. QED
  BY <1>1, <1>2, <1>3, <1>4, <1>5, <1>6, <1>7, <1>8, <1>9, <1>10, <1>11, Steps

-----------------------------------------------------------------------------
LEMMA AlwaysInv == Spec => []Inv
<1>1. Inv /\ [Next]_vars => Inv'
  BY TypesStep, PlacedStep, OneRunStep, CurrentStep, InOrderStep, AccountedStep DEF Inv
<1>2. QED
  BY InvInit, <1>1, PTL DEF Spec

\* The variables of a tab keep their types, for any number of scripts of any length; a
\* session is being closed only when its tab is.
THEOREM SessionTypes == Spec => []Types
<1>1. Inv => Types
  BY DEF Inv
<1>2. QED
  BY <1>1, AlwaysInv, PTL

\* What is on show is of the latest run, however many runs, stops, commits and rereads
\* cross (execute, runQuery, reread).
THEOREM ShownHolds == Spec => []ShownIsCurrent
<1>1. Inv => ShownIsCurrent
  BY DEF Inv, Current
<1>2. QED
  BY <1>1, AlwaysInv, PTL

\* A result on show that stopped short was cut off by the end of a transaction or by rows
\* being read again, never by its own script or the next (QueryMulti, pgSession.Query).
THEOREM CutHolds == Spec => []CutByOthers
<1>1. Inv => CutByOthers
  <2> SUFFICES ASSUME Inv, tab = "open", NEW x \in shown \ {Again}, rs[x] = "short" PROVE x \in cut
    BY DEF CutByOthers
  <2>1. x \in OfScripts
    BY Names DEF Inv, Types
  <2>2. QED
    BY <2>1 DEF Inv, Accounted
<1>2. QED
  BY <1>1, AlwaysInv, PTL
-----------------------------------------------------------------------------
(***************************************************************************)
(* The connection, and how a tab lets go of it                             *)
(***************************************************************************)
Conns == [lock : Jobs \cup {Tx, None}, open : Results \cup {None}, tx : BOOLEAN, closed : BOOLEAN]
Sessions == [results : SUBSET Results, closed : BOOLEAN]

\* The lock of the connection is held by the one statement that is with the server, or by
\* a transaction beginning or ending, and never by nobody's.
LockIsUsed ==
  /\ \A o \in Jobs : conn.lock = o <=> job[o].at = "executing"
  /\ conn.lock = Tx <=> tx \in {"begun", "ended"}

\* One result streams at a time, and none while a statement is with the server.
OneStreams ==
  /\ \A x \in Results : stream[x] = "open" => conn.open = x
  /\ conn.lock \in Jobs => conn.open = None

\* A tab that is closed has somebody closing its session, though it was still connecting
\* when it was closed; the session is closed before its connection.
GoneIsClosed ==
  /\ tab = "closed" /\ link = "given" => closer # "none"
  /\ closer # "none" => link = "given"
  /\ session.closed <=> closer \in {"session", "closed"}
  /\ conn.closed <=> closer = "closed"

\* Whatever is still being read is known to the session, or was told to stop.
Tracked == \A x \in Results : rs[x] = "reading" => x \in session.results \/ x \in closing

\* A session that is closed holds nothing: no lock, no transaction, no open result, and
\* no reading that was not told to stop.
ClosedHoldsNothing ==
  /\ session.closed => \A x \in Results : rs[x] = "reading" => x \in closing
  /\ conn.closed => conn.lock = None /\ ~conn.tx /\ \A x \in Results : stream[x] # "open"

\* The last makes the first part of ClosedHoldsNothing follow from Tracked.
EmptyOnceClosed == session.closed => session.results = {}

\* The connection after a step that sets some of its fields.
ConnIs(l, x, b, d) == conn' = [lock |-> l, open |-> x, tx |-> b, closed |-> d]

LEMMA ConnFields ==
  ASSUME conn \in Conns, NEW l \in Jobs \cup {Tx, None}, NEW x \in Results \cup {None},
         NEW b \in BOOLEAN, NEW d \in BOOLEAN
  PROVE  /\ conn' = [conn EXCEPT !.lock = l, !.open = x] => ConnIs(l, x, conn.tx, conn.closed)
         /\ conn' = [conn EXCEPT !.lock = l, !.tx = b] => ConnIs(l, conn.open, b, conn.closed)
         /\ conn' = [conn EXCEPT !.lock = l, !.tx = b, !.open = x] => ConnIs(l, x, b, conn.closed)
         /\ conn' = [conn EXCEPT !.lock = l] => ConnIs(l, conn.open, conn.tx, conn.closed)
         /\ conn' = [conn EXCEPT !.closed = d, !.tx = b] => ConnIs(conn.lock, conn.open, b, d)
<1>1. conn = [lock |-> conn.lock, open |-> conn.open, tx |-> conn.tx, closed |-> conn.closed]
  BY DEF Conns
<1>2. conn' = [conn EXCEPT !.lock = l, !.open = x] => ConnIs(l, x, conn.tx, conn.closed)
  BY <1>1 DEF ConnIs
<1>3. conn' = [conn EXCEPT !.lock = l, !.tx = b] => ConnIs(l, conn.open, b, conn.closed)
  BY <1>1 DEF ConnIs
<1>4. conn' = [conn EXCEPT !.lock = l, !.tx = b, !.open = x] => ConnIs(l, x, b, conn.closed)
  BY <1>1 DEF ConnIs
<1>5. conn' = [conn EXCEPT !.lock = l] => ConnIs(l, conn.open, conn.tx, conn.closed)
  BY <1>1 DEF ConnIs
<1>6. conn' = [conn EXCEPT !.closed = d, !.tx = b] => ConnIs(conn.lock, conn.open, b, d)
  BY <1>1 DEF ConnIs
<1> QED  BY <1>2, <1>3, <1>4, <1>5, <1>6

\* What it is then.
LEMMA ConnHas ==
  ASSUME NEW l \in Jobs \cup {Tx, None}, NEW x \in Results \cup {None},
         NEW b \in BOOLEAN, NEW d \in BOOLEAN, ConnIs(l, x, b, d)
  PROVE  conn' \in Conns /\ conn'.lock = l /\ conn'.open = x /\ conn'.tx = b /\ conn'.closed = d
  BY DEF ConnIs, Conns

\* Which jobs are with the server: a step that takes one elsewhere from elsewhere leaves that.
AtServer(o) == job[o].at = "executing"
SameAtServer == \A o \in Jobs : AtServer(o)' <=> AtServer(o)

LEMMA NotAtServer ==
  ASSUME NEW o \in Jobs, NEW a, NEW n, NEW w, JobBecomes(o, a, n, w), a # "executing",
         job[o].at # "executing"
  PROVE  SameAtServer
  BY DEF JobBecomes, SameAtServer, AtServer

\* Closing what was open leaves nothing open.
LEMMA NothingOpen ==
  ASSUME Types, OneStreams, NEW x \in Results
  PROVE  WithoutOpen[x] # "open"
  BY DEF Types, OneStreams, WithoutOpen, Streaming

\* The server's part of the invariant, but for the order of closing.
Serving == /\ conn \in Conns /\ tx \in {"idle", "beginning", "ending", "begun", "ended"}
           /\ LockIsUsed /\ OneStreams
           /\ conn.closed => conn.lock = None /\ ~conn.tx /\ \A x \in Results : stream[x] # "open"

\* A step in which nothing at the server changes but that a stream may end.
LEMMA ServingStays ==
  ASSUME Serving, SameAtServer, UNCHANGED <<conn, tx>>,
         \A x \in Results : stream'[x] = "open" => stream[x] = "open"
  PROVE  Serving'
  BY DEF Serving, LockIsUsed, OneStreams, SameAtServer, AtServer

LEMMA JobNames ==
  /\ Tx \notin Jobs /\ None \notin Jobs /\ Tx # None /\ None \notin Results
  /\ \A r \in Runs : r \in Jobs /\ r # Again
  /\ Again \in Jobs
  BY Names, NamesAssumption DEF Jobs

\* A statement takes the lock, and closes what was open.
LEMMA TakeServes ==
  ASSUME Types, Serving, NEW o \in Jobs, Take(o)
  PROVE  Serving'
<1>1. job[o].at = "waiting" /\ conn.lock = None /\ UNCHANGED tx
  BY DEF Take
<1>2. CASE conn.closed
  <2>1. UNCHANGED <<conn, stream>>
    BY <1>2 DEF Take, server
  <2>2. JobBecomes(o, "handing", job[o].i, FALSE) \/ JobBecomes(o, "executing", job[o].i, job[o].rows)
    BY TakeDoes
  <2>3. job' = [job EXCEPT ![o].at = "handing", ![o].err = TRUE, ![o].rows = FALSE]
    BY <1>2 DEF Take
  <2>4. SameAtServer
    <3>1. JobBecomes(o, "handing", job[o].i, FALSE)
      BY <2>3, Turns, JobNames DEF Ats, Types
    <3> QED  BY <1>1, <3>1, NotAtServer
  <2> QED  BY <1>1, <2>1, <2>4, ServingStays
<1>3. CASE ~conn.closed
  <2>1. conn' = [conn EXCEPT !.lock = o, !.open = None] /\ stream' = WithoutOpen
        /\ job' = [job EXCEPT ![o].at = "executing"]
    BY <1>3 DEF Take
  <2>2. conn' \in Conns /\ conn'.lock = o /\ conn'.open = None /\ conn'.closed = conn.closed
    <3>1. conn \in Conns /\ conn.tx \in BOOLEAN /\ conn.closed \in BOOLEAN
      BY DEF Serving, Conns
    <3>2. ConnIs(o, None, conn.tx, conn.closed)
      BY <2>1, <3>1, ConnFields
    <3> QED  BY <3>1, <3>2, ConnHas
  <2>3. JobBecomes(o, "executing", job[o].i, job[o].rows)
    <3>1. "executing" \in Ats
      BY DEF Ats
    <3> QED  BY <2>1, <3>1, Turns
  <2>4. \A p \in Jobs : AtServer(p)' <=> p = o
    <3>1. \A p \in Jobs : job[p].at # "executing"
      BY <1>1, JobNames DEF Serving, LockIsUsed
    <3> QED  BY <2>3, <3>1 DEF JobBecomes, AtServer
  <2>5. LockIsUsed'
    <3>1. tx \notin {"begun", "ended"} /\ o # Tx
      BY <1>1, JobNames DEF Serving, LockIsUsed
    <3> QED  BY <1>1, <2>2, <2>4, <3>1 DEF LockIsUsed, AtServer
  <2>6. \A x \in Results : stream'[x] # "open"
    BY <2>1, NothingOpen DEF Serving
  <2> QED  BY <1>1, <1>3, <2>2, <2>5, <2>6 DEF Serving, OneStreams
<1> QED  BY <1>2, <1>3

\* The answer gives the lock back, and its rows, if any, are what is open.
LEMMA AnswerServes ==
  ASSUME Types, Placed, Serving, NEW o \in Jobs, Answer(o)
  PROVE  Serving'
<1>1. job[o].at = "executing" /\ UNCHANGED tx /\ conn.lock = o
  BY DEF Answer, Serving, LockIsUsed
<1>2. PICK rows \in BOOLEAN :
        /\ conn' = [conn EXCEPT !.lock = None, !.open = IF rows THEN Name(o) ELSE conn.open]
        /\ stream' = IF rows THEN [stream EXCEPT ![Name(o)] = "open"] ELSE stream
  BY DEF Answer
<1>3. conn \in Conns /\ conn.tx \in BOOLEAN /\ conn.closed \in BOOLEAN /\ conn.open \in Results \cup {None}
  BY DEF Serving, Conns
<1>4. Name(o) \in Results
  <2>1. CASE o \in Runs
    BY <1>1, <2>1, AtWork
  <2>2. CASE o = Again
    BY <2>2, Names DEF Name
  <2> QED  BY <2>1, <2>2, Names
<1>5. /\ conn' \in Conns /\ conn'.lock = None /\ conn'.closed = conn.closed
      /\ conn'.open = IF rows THEN Name(o) ELSE conn.open
  <2>1. ConnIs(None, IF rows THEN Name(o) ELSE conn.open, conn.tx, conn.closed)
    BY <1>2, <1>3, <1>4, ConnFields
  <2> QED  BY <1>3, <1>4, <2>1, ConnHas
<1>6. ~conn.closed /\ tx \notin {"begun", "ended"}
  BY <1>1, JobNames DEF Serving, LockIsUsed
<1>7. LockIsUsed'
  <2>1. \A p \in Jobs : p # o => job[p].at # "executing"
    BY <1>1 DEF Serving, LockIsUsed
  <2>2. PICK a \in {"handing", "buffering"}, w \in BOOLEAN : JobBecomes(o, a, job[o].i, w)
    BY AnswerDoes
  <2>3. \A p \in Jobs : job'[p].at # "executing"
    BY <2>1, <2>2 DEF JobBecomes
  <2> QED  BY <1>1, <1>5, <1>6, <2>3, JobNames DEF LockIsUsed
<1>8. OneStreams'
  <2>1. \A x \in Results : stream[x] # "open"
    BY <1>1, JobNames DEF Serving, OneStreams
  <2>2. ASSUME NEW x \in Results, stream'[x] = "open" PROVE conn'.open = x
    <3>1. rows /\ x = Name(o)
      BY <1>2, <2>1, <2>2 DEF Types
    <3> QED  BY <1>5, <3>1
  <2> QED  BY <1>5, <2>2, JobNames DEF OneStreams
<1> QED  BY <1>1, <1>5, <1>6, <1>7, <1>8 DEF Serving

\* A transaction begins or ends under the lock; ending it closes what was open.
LEMMA TransactServes ==
  ASSUME Types, Serving, TakeTx \/ TxDone
  PROVE  Serving'
<1>1. SameAtServer
  BY DEF TakeTx, TxDone, work, SameAtServer, AtServer
<1>2. conn \in Conns /\ conn.tx \in BOOLEAN /\ conn.closed \in BOOLEAN /\ conn.open \in Results \cup {None}
  BY DEF Serving, Conns
<1>3. CASE TakeTx
  <2>0. conn.lock = None /\ \A p \in Jobs : job[p].at # "executing"
    BY <1>3, JobNames DEF TakeTx, Serving, LockIsUsed
  <2>1. CASE tx = "ending" /\ conn.tx
    <3>1. conn' = [conn EXCEPT !.lock = Tx, !.tx = FALSE, !.open = None] /\ stream' = WithoutOpen
          /\ tx' = "ended"
      BY <1>3, <2>1 DEF TakeTx
    <3>2. conn' \in Conns /\ conn'.lock = Tx /\ conn'.closed = conn.closed
      <4>1. ConnIs(Tx, None, FALSE, conn.closed)
        BY <1>2, <3>1, ConnFields
      <4> QED  BY <1>2, <4>1, ConnHas
    <3>3. ~conn.closed
      BY <2>1 DEF Serving
    <3>4. \A x \in Results : stream'[x] # "open"
      BY <3>1, NothingOpen DEF Serving
    <3>5. LockIsUsed'
      BY <1>1, <2>0, <3>1, <3>2, JobNames DEF LockIsUsed, SameAtServer, AtServer
    <3> QED  BY <3>1, <3>2, <3>3, <3>4, <3>5, JobNames DEF Serving, OneStreams
  <2>2. CASE tx = "beginning" /\ ~conn.tx /\ ~conn.closed
    <3>1. conn' = [conn EXCEPT !.lock = Tx] /\ stream' = stream /\ tx' = "begun"
      BY <1>3, <2>2 DEF TakeTx
    <3>2. conn' \in Conns /\ conn'.lock = Tx /\ conn'.open = conn.open /\ conn'.closed = conn.closed
      <4>1. ConnIs(Tx, conn.open, conn.tx, conn.closed)
        BY <1>2, <3>1, ConnFields
      <4> QED  BY <1>2, <4>1, ConnHas
    <3>3. LockIsUsed'
      BY <1>1, <2>0, <3>1, <3>2, JobNames DEF LockIsUsed, SameAtServer, AtServer
    <3>4. OneStreams'
      BY <3>1, <3>2, JobNames DEF Serving, OneStreams
    <3> QED  BY <2>2, <3>1, <3>2, <3>3, <3>4 DEF Serving
  <2>3. CASE tx' = "idle" /\ UNCHANGED server
    <3>1. UNCHANGED <<conn, stream>>
      BY <2>3 DEF server
    <3>2. LockIsUsed'
      BY <1>1, <2>0, <2>3, <3>1, JobNames DEF LockIsUsed, SameAtServer, AtServer
    <3> QED  BY <2>3, <3>1, <3>2 DEF Serving, OneStreams
  <2> QED  BY <1>3, <2>1, <2>2, <2>3 DEF TakeTx
<1>4. CASE TxDone
  <2>0. conn.lock = Tx /\ \A p \in Jobs : job[p].at # "executing"
    BY <1>4, JobNames DEF TxDone, Serving, LockIsUsed
  <2>1. PICK ok \in BOOLEAN : conn' = [conn EXCEPT !.lock = None, !.tx = tx = "begun" /\ ok]
    BY <1>4 DEF TxDone
  <2>2. conn' \in Conns /\ conn'.lock = None /\ conn'.open = conn.open /\ conn'.closed = conn.closed
    <3> DEFINE b == tx = "begun" /\ ok
    <3>1. b \in BOOLEAN
      OBVIOUS
    <3>2. conn' = [conn EXCEPT !.lock = None, !.tx = b]
      BY <2>1
    <3> HIDE DEF b
    <3>3. ConnIs(None, conn.open, b, conn.closed)
      BY <1>2, <3>1, <3>2, ConnFields
    <3> QED  BY <1>2, <3>1, <3>3, ConnHas
  <2>3. tx' = "idle" /\ stream' = stream
    BY <1>4 DEF TxDone
  <2>4. ~conn.closed
    BY <2>0, JobNames DEF Serving
  <2>5. LockIsUsed'
    BY <1>1, <2>0, <2>2, <2>3, JobNames DEF LockIsUsed, SameAtServer, AtServer
  <2>6. OneStreams'
    BY <2>2, <2>3, JobNames DEF Serving, OneStreams
  <2> QED  BY <2>2, <2>3, <2>4, <2>5, <2>6 DEF Serving
<1> QED  BY <1>3, <1>4

\* The connection is closed under the lock, and with it its transaction and what was open.
LEMMA CloseServes ==
  ASSUME Types, Serving, CloseSession
  PROVE  Serving' /\ conn'.closed
<1>1. SameAtServer /\ UNCHANGED tx /\ conn.lock = None /\ stream' = WithoutOpen
      /\ conn' = [conn EXCEPT !.closed = TRUE, !.tx = FALSE]
  BY DEF CloseSession, work, SameAtServer, AtServer
<1>2. conn \in Conns /\ conn.lock \in Jobs \cup {Tx, None} /\ conn.open \in Results \cup {None}
  BY DEF Serving, Conns
<1>3. conn' \in Conns /\ conn'.lock = None /\ conn'.tx = FALSE /\ conn'.closed = TRUE
  <2>1. ConnIs(conn.lock, conn.open, FALSE, TRUE)
    BY <1>1, <1>2, ConnFields
  <2> QED  BY <1>1, <1>2, <2>1, ConnHas
<1>4. \A x \in Results : stream'[x] # "open"
  BY <1>1, NothingOpen DEF Serving
<1>5. LockIsUsed'
  BY <1>1, <1>3 DEF Serving, LockIsUsed, SameAtServer, AtServer
<1> QED  BY <1>1, <1>3, <1>4, <1>5, JobNames DEF Serving, OneStreams

\* Asking for a transaction touches nothing of the server.
LEMMA AskTxServes ==
  ASSUME Serving, AskTx
  PROVE  Serving' /\ UNCHANGED conn
<1>1. UNCHANGED <<conn, stream, job>> /\ conn.lock = None /\ tx' \in {"beginning", "ending"}
  BY DEF AskTx, server, work
<1>2. LockIsUsed'
  BY <1>1, JobNames DEF LockIsUsed, Serving
<1> QED  BY <1>1, <1>2 DEF Serving, OneStreams

\* Nothing else touches it, but for a stream that ends.
LEMMA RestServes ==
  ASSUME Types, Placed, Current, Serving, [Next]_vars,
         ~(\E o \in Jobs : Take(o) \/ Answer(o)), ~TakeTx, ~TxDone, ~CloseSession, ~AskTx
  PROVE  /\ SameAtServer /\ UNCHANGED <<conn, tx>>
         /\ \A x \in Results : stream'[x] = "open" => stream[x] = "open"
<1>1. ASSUME NEW r \in Runs, Start(r) \/ NextStatement(r) \/ Hand(r)
      PROVE  SameAtServer /\ UNCHANGED <<conn, tx, stream>>
  <2>1. UNCHANGED <<conn, tx, stream>>
    BY <1>1 DEF Start, NextStatement, Hand, server
  <2>2. CASE Start(r) \/ NextStatement(r)
    <3>1. job[r].at \in {"starting", "next"}
      BY <2>2 DEF Start, NextStatement
    <3>2. \E a \in {"next", "refused", "handing", "waiting"} : \E i, w : JobBecomes(r, a, i, w)
      BY <2>2, ScriptDoes
    <3> QED  BY <2>1, <3>1, <3>2, NotAtServer, JobNames
  <2>3. CASE Hand(r)
    <3>1. job[r].at = "handing"
      BY <2>3 DEF Hand
    <3>2. \E a \in {"done", "next"} : \E i, w : JobBecomes(r, a, i, w)
      BY <2>3, HandDoes
    <3> QED  BY <2>1, <3>1, <3>2, NotAtServer, JobNames
  <2> QED  BY <1>1, <2>2, <2>3
<1>2. ASSUME NEW r \in Runs, Buffer(r)
      PROVE  /\ SameAtServer /\ UNCHANGED <<conn, tx>>
             /\ \A x \in Results : stream'[x] = "open" => stream[x] = "open"
  <2>1. UNCHANGED <<conn, tx>> /\ job[r].at = "buffering"
    BY <1>2 DEF Buffer
  <2>2. /\ \E w : JobBecomes(r, "handing", job[r].i, w)
        /\ \E v \in {"memory", "partial", "closed"} : stream' = [stream EXCEPT ![Name(r)] = v]
    BY <1>2, BufferDoes
  <2>3. SameAtServer
    BY <2>1, <2>2, NotAtServer, JobNames
  <2> QED  BY <2>1, <2>2, <2>3 DEF Types
<1>3. ASSUME NEW r \in Runs, Execute(r) \/ RunOver(r)
      PROVE  SameAtServer /\ UNCHANGED <<conn, tx, stream>>
  <2>1. UNCHANGED <<conn, tx, stream>>
    BY <1>3 DEF Execute, RunOver, server
  <2>2. CASE Execute(r)
    <3>1. job[r].at = "none"
      <4>1. r > cur
        BY <2>2, Names DEF Execute, Types
      <4> QED  BY <4>1 DEF Placed, NoJob
    <3>2. JobBecomes(r, "starting", job[r].i, job[r].rows)
      BY <2>2, WindowDoes
    <3> QED  BY <2>1, <3>1, <3>2, NotAtServer, JobNames
  <2>3. CASE RunOver(r)
    <3>1. job[r].at \in {"done", "refused"}
      BY <2>3 DEF RunOver, Over
    <3>2. JobBecomes(r, "over", job[r].i, job[r].rows)
      BY <2>3, WindowDoes
    <3> QED  BY <2>1, <3>1, <3>2, NotAtServer, JobNames
  <2> QED  BY <1>3, <2>2, <2>3
<1>4. ASSUME NEW x \in Results, ReadToEnd(x)
      PROVE  /\ SameAtServer /\ UNCHANGED <<conn, tx>>
             /\ \A y \in Results : stream'[y] = "open" => stream[y] = "open"
  <2>1. UNCHANGED <<conn, tx, job>> /\ stream' = [stream EXCEPT ![x] = "closed"]
    BY <1>4 DEF ReadToEnd
  <2> QED  BY <2>1 DEF Types, SameAtServer, AtServer
<1>5. CASE Applied \/ Reread \/ ShowAgain
  <2>1. UNCHANGED <<conn, tx, stream>>
    BY <1>5 DEF Applied, Reread, ShowAgain, server
  <2>2. CASE Reread \/ ShowAgain
    <3>1. job[Again].at \in {"handing", "done"}
      BY <2>2 DEF Reread, ShowAgain
    <3>2. \E a \in {"done", "over"} : \E i, w : JobBecomes(Again, a, i, w)
      BY <2>2, ChangesDo
    <3> QED  BY <2>1, <3>1, <3>2, NotAtServer, JobNames
  <2>3. CASE Applied
    <3>1. CASE job' = job
      BY <2>1, <3>1 DEF SameAtServer, AtServer
    <3>2. CASE of' = committing /\ JobBecomes(Again, "waiting", job[Again].i, job[Again].rows)
      <4>1. committing # None
        BY <2>3 DEF Applied
      <4>2. job[Again].at # "executing"
        BY <4>1 DEF Types, Current
      <4> QED  BY <2>1, <3>2, <4>2, NotAtServer, JobNames
    <3> QED  BY <2>3, <3>1, <3>2, ChangesDo
  <2> QED  BY <1>5, <2>2, <2>3
<1>6. CASE Look \/ Synced \/ Dial \/ Connected \/ Stop \/ CloseTab \/ CloseResults
  <2>1. UNCHANGED <<conn, tx, stream, job>>
    BY <1>6 DEF Look, Synced, Dial, Connected, Stop, CloseTab, CloseResults, server, work
  <2> QED  BY <2>1 DEF SameAtServer, AtServer
<1>7. ASSUME NEW x, Commit(x) PROVE SameAtServer /\ UNCHANGED <<conn, tx, stream>>
  BY <1>7 DEF Commit, server, work, SameAtServer, AtServer
<1>8. ASSUME NEW r \in Runs, Shows(r) PROVE SameAtServer /\ UNCHANGED <<conn, tx, stream>>
  BY <1>8 DEF Shows, server, SameAtServer, AtServer
<1>9. CASE UNCHANGED vars
  BY <1>9 DEF vars, server, work, SameAtServer, AtServer
<1> QED
  <2>1. CASE Next
    BY <1>1, <1>2, <1>3, <1>4, <1>5, <1>6, <1>7, <1>8, <2>1, Steps DEF Aside
  <2> QED  BY <1>9, <2>1

LEMMA ServingStep ==
  ASSUME Types, Placed, Current, Serving, [Next]_vars
  PROVE  Serving'
<1>1. CASE \E o \in Jobs : Take(o) \/ Answer(o)
  BY <1>1, TakeServes, AnswerServes
<1>2. CASE TakeTx \/ TxDone \/ CloseSession \/ AskTx
  BY <1>2, TransactServes, CloseServes, AskTxServes
<1>3. CASE ~(\E o \in Jobs : Take(o) \/ Answer(o)) /\ ~TakeTx /\ ~TxDone /\ ~CloseSession /\ ~AskTx
  <2>1. /\ SameAtServer /\ UNCHANGED <<conn, tx>>
        /\ \A x \in Results : stream'[x] = "open" => stream[x] = "open"
    BY <1>3, RestServes
  <2> QED  BY <2>1, ServingStays
<1> QED  BY <1>1, <1>2, <1>3

\* The session's part: what it knows of, and how far closing it has come.
Ending == /\ session \in Sessions /\ closing \subseteq Results
          /\ closer \in {"none", "results", "session", "closed"}
          /\ GoneIsClosed /\ Tracked /\ EmptyOnceClosed

\* A step of the session that leaves the closing of it where it was.
LEMMA EndingStays ==
  ASSUME Types, Ending, session' \in Sessions, closing' \subseteq Results,
         UNCHANGED <<tab, link, closer>>, session'.closed = session.closed,
         session.closed => session'.results = {}, conn'.closed = conn.closed, Tracked'
  PROVE  Ending'
  BY DEF Ending, GoneIsClosed, EmptyOnceClosed

\* Of a session that is not closed, closing what it knows of forgets nothing.
LEMMA ClosesAll ==
  ASSUME Types, Ending, Close(session.results), UNCHANGED rs
  PROVE  closing' \subseteq Results /\ \A x \in Results : rs'[x] = "reading" => x \in closing'
  BY DEF Ending, Sessions, Tracked, Close

\* A result that begins to be read is known to the session, or closed at once.
LEMMA TrackKeeps ==
  ASSUME Ending, NEW x \in Results, NEW seen \in BOOLEAN, Track(x, seen), rs' = [rs EXCEPT ![x] = "reading"],
         Types
  PROVE  /\ session' \in Sessions /\ session'.closed = session.closed
         /\ session.closed => session'.results = session.results
         /\ closing' \subseteq Results /\ Tracked'
<1>1. /\ session.results \subseteq Results /\ session.closed \in BOOLEAN
      /\ session = [results |-> session.results, closed |-> session.closed]
  BY DEF Ending, Sessions
<1>2. CASE session.closed
  <2>1. session' = session /\ closing' = closing \cup {x}
    BY <1>2 DEF Track
  <2> QED  BY <1>1, <2>1 DEF Ending, Tracked, Types
<1>3. CASE ~session.closed
  <2>1. session' = [session EXCEPT !.results = @ \cup {x}]
    BY <1>3 DEF Track
  <2>2. session' = [results |-> session.results \cup {x}, closed |-> session.closed]
    BY <1>1, <2>1
  <2>3. session'.results = session.results \cup {x} /\ session'.closed = session.closed
        /\ session' \in Sessions
    BY <1>1, <2>2 DEF Sessions
  <2>4. closing \subseteq closing' /\ closing' \subseteq Results
    BY DEF Track, Ending
  <2>5. Tracked'
    BY <2>3, <2>4 DEF Ending, Tracked, Types
  <2> QED  BY <1>3, <2>3, <2>4, <2>5
<1> QED  BY <1>2, <1>3

\* Only CloseSession closes the connection.
LEMMA ClosedBySession ==
  ASSUME Serving, [Next]_vars, ~CloseSession
  PROVE  conn'.closed = conn.closed
<1>0. conn \in Conns
  BY DEF Serving
<1>1. ASSUME NEW o \in Jobs, Take(o) \/ Answer(o) PROVE conn'.closed = conn.closed
  <2>1. ASSUME NEW l, NEW x, conn' = [conn EXCEPT !.lock = l, !.open = x]
        PROVE  conn'.closed = conn.closed
    BY <1>0, <2>1 DEF Conns
  <2>2. CASE Take(o)
    BY <2>1, <2>2 DEF Take, server
  <2>3. CASE Answer(o)
    <3>1. PICK rows \in BOOLEAN :
            conn' = [conn EXCEPT !.lock = None, !.open = IF rows THEN Name(o) ELSE conn.open]
      BY <2>3 DEF Answer
    <3> QED  BY <2>1, <3>1
  <2> QED  BY <1>1, <2>2, <2>3
<1>2. CASE TakeTx
  <2>1. \/ conn' = conn
        \/ conn' = [conn EXCEPT !.lock = Tx, !.tx = FALSE, !.open = None]
        \/ conn' = [conn EXCEPT !.lock = Tx]
    BY <1>2 DEF TakeTx, server
  <2> QED  BY <1>0, <2>1 DEF Conns
<1>3. CASE TxDone
  <2>1. PICK ok \in BOOLEAN : conn' = [conn EXCEPT !.lock = None, !.tx = tx = "begun" /\ ok]
    BY <1>3 DEF TxDone
  <2> QED  BY <1>0, <2>1 DEF Conns
<1>4. CASE AskTx \/ UNCHANGED vars
  BY <1>4 DEF AskTx, vars, server
<1>5. ASSUME NEW r \in Runs, Start(r) \/ NextStatement(r) \/ Buffer(r) \/ Hand(r)
      PROVE  conn' = conn
  BY <1>5 DEF Start, NextStatement, Buffer, Hand, server
<1>6. ASSUME NEW r \in Runs, Execute(r) \/ Shows(r) \/ RunOver(r) PROVE conn' = conn
  BY <1>6 DEF Execute, Shows, RunOver, server
<1>7. ASSUME NEW x, ReadToEnd(x) \/ Commit(x) PROVE conn' = conn
  BY <1>7 DEF ReadToEnd, Commit, server
<1>8. CASE Applied \/ Reread \/ ShowAgain
  BY <1>8 DEF Applied, Reread, ShowAgain, server
<1>9. CASE Look \/ Synced \/ Dial \/ Connected \/ Stop \/ CloseTab \/ CloseResults
  BY <1>9 DEF Look, Synced, Dial, Connected, Stop, CloseTab, CloseResults, server
<1> QED
  <2>1. CASE Next
    BY <1>1, <1>2, <1>3, <1>4, <1>5, <1>6, <1>7, <1>8, <1>9, <2>1, Steps DEF Aside
  <2> QED  BY <1>4, <2>1

LEMMA EndingStep ==
  ASSUME Types, Placed, Serving, Ending, [Next]_vars
  PROVE  Ending'
<1>s. session \in Sessions /\ closing \subseteq Results /\ Tracked /\ EmptyOnceClosed
  BY DEF Ending
<1>f. session = [results |-> session.results, closed |-> session.closed] /\ session.closed \in BOOLEAN
  BY <1>s DEF Sessions
<1>c. ~CloseSession => conn'.closed = conn.closed
  BY ClosedBySession
<1>1. ASSUME UNCHANGED <<session, closer, closing, rs, tab, link>>, ~CloseSession PROVE Ending'
  <2>1. Tracked'
    BY <1>s, <1>1 DEF Tracked
  <2> QED  BY <1>s, <1>c, <1>1, <2>1, EndingStays DEF EmptyOnceClosed
<1>2. ASSUME NEW o \in Jobs, Take(o) \/ Answer(o) PROVE Ending'
  <2>1. UNCHANGED <<window, app, rs>>
    BY <1>2 DEF Take, Answer
  <2>2. UNCHANGED <<session, closer, closing, rs, tab, link>>
    BY <2>1 DEF window, shell, app
  <2>3. ~CloseSession
    BY <2>2 DEF CloseSession
  <2> QED  BY <1>1, <2>2, <2>3
<1>3. ASSUME NEW r \in Runs, NextStatement(r) \/ Buffer(r) \/ Execute(r) \/ Shows(r) \/ RunOver(r)
      PROVE  Ending'
  <2>1. UNCHANGED <<session, closer, closing, rs, tab, link>>
    BY <1>3 DEF NextStatement, Buffer, Execute, Shows, RunOver, window, shell, app
  <2>2. ~CloseSession
    BY <2>1 DEF CloseSession
  <2> QED  BY <1>1, <2>1, <2>2
<1>4. ASSUME NEW x, Commit(x) PROVE Ending'
  <2>1. UNCHANGED <<session, closer, closing, rs, tab, link>>
    BY <1>4 DEF Commit, app, work
  <2>2. ~CloseSession
    BY <2>1 DEF CloseSession
  <2> QED  BY <1>1, <2>1, <2>2
<1>5. CASE Look \/ Synced \/ AskTx \/ TakeTx \/ TxDone \/ UNCHANGED vars
  <2>1. UNCHANGED <<session, closer, closing, rs, tab, link>>
    <3>1. UNCHANGED <<shell, app, work>>
      BY <1>5 DEF Look, Synced, AskTx, TakeTx, TxDone, vars, window
    <3> QED  BY <3>1 DEF shell, app, work
  <2>2. ~CloseSession
    BY <2>1 DEF CloseSession
  <2> QED  BY <1>1, <2>1, <2>2
<1>6. CASE Dial \/ Connected \/ CloseTab
  <2>1. UNCHANGED <<session, closing, rs>> /\ (closer' = closer \/ closer' = "results")
    BY <1>6 DEF Dial, Connected, CloseTab, app, work
  <2>2. ~CloseSession /\ conn'.closed = conn.closed
    BY <1>c, <2>1 DEF CloseSession
  <2>3. closer' # closer => closer = "none"
    <3>1. CASE Dial
      BY <3>1 DEF Dial, app
    <3>2. CASE Connected
      BY <3>2 DEF Connected, Ending, GoneIsClosed
    <3>3. CASE CloseTab
      BY <3>3 DEF CloseTab, Types
    <3> QED  BY <1>6, <3>1, <3>2, <3>3
  <2>4. GoneIsClosed'
    <3>1. /\ session'.closed <=> closer' \in {"session", "closed"}
          /\ conn'.closed <=> closer' = "closed"
      BY <2>1, <2>2, <2>3 DEF Ending, GoneIsClosed
    <3>2. /\ tab' = "closed" /\ link' = "given" => closer' # "none"
          /\ closer' # "none" => link' = "given"
      <4>1. CASE Dial
        BY <4>1 DEF Dial, app, Ending, GoneIsClosed
      <4>2. CASE Connected
        BY <4>2 DEF Connected, Types
      <4>3. CASE CloseTab
        BY <4>3 DEF CloseTab, Ending, GoneIsClosed
      <4> QED  BY <1>6, <4>1, <4>2, <4>3
    <3> QED  BY <3>1, <3>2 DEF GoneIsClosed
  <2> QED  BY <2>1, <2>4 DEF Ending, Tracked, EmptyOnceClosed
<1>7. CASE CloseResults
  <2>1. /\ closer = "results" /\ closer' = "session" /\ Close(session.results)
        /\ session' = [results |-> {}, closed |-> TRUE] /\ UNCHANGED <<tab, link, rs>>
    BY <1>7 DEF CloseResults, window, shell, work
  <2>2. ~CloseSession /\ conn'.closed = conn.closed
    BY <1>c, <2>1 DEF CloseSession
  <2>3. closing' \subseteq Results /\ \A x \in Results : rs'[x] = "reading" => x \in closing'
    BY <2>1, ClosesAll
  <2>4. session' \in Sessions /\ session'.results = {} /\ session'.closed = TRUE
    BY <2>1 DEF Sessions
  <2>5. GoneIsClosed'
    BY <2>1, <2>2, <2>4 DEF Ending, GoneIsClosed
  <2> QED  BY <2>1, <2>3, <2>4, <2>5 DEF Ending, Tracked, EmptyOnceClosed
<1>8. CASE CloseSession
  <2>1. closer = "session" /\ closer' = "closed" /\ UNCHANGED <<tab, link, session, closing, rs>>
    BY <1>8 DEF CloseSession, window, shell, work
  <2>2. conn'.closed = TRUE
    <3>1. conn' = [conn EXCEPT !.closed = TRUE, !.tx = FALSE] /\ conn \in Conns
      BY <1>8 DEF CloseSession, Serving
    <3> QED  BY <3>1 DEF Conns
  <2>3. GoneIsClosed'
    BY <2>1, <2>2 DEF Ending, GoneIsClosed
  <2> QED  BY <2>1, <2>3 DEF Ending, Tracked, EmptyOnceClosed
<1>9. ASSUME NEW r \in Runs, Start(r) PROVE Ending'
  <2>1. /\ Close(session.results) /\ session' = [session EXCEPT !.results = {}]
        /\ UNCHANGED <<closer, tab, link, rs>>
    BY <1>9 DEF Start, window, shell
  <2>2. ~CloseSession
    BY <2>1 DEF CloseSession
  <2>3. session' = [results |-> {}, closed |-> session.closed]
    BY <1>f, <2>1
  <2>4. session' \in Sessions /\ session'.results = {} /\ session'.closed = session.closed
    BY <1>f, <2>3 DEF Sessions
  <2>5. closing' \subseteq Results /\ \A x \in Results : rs'[x] = "reading" => x \in closing'
    BY <2>1, ClosesAll
  <2> QED  BY <1>c, <2>1, <2>2, <2>4, <2>5, EndingStays DEF Tracked
<1>10. ASSUME NEW r \in Runs, Hand(r) PROVE Ending'
  <2>1. UNCHANGED <<closer, tab, link>>
    BY <1>10 DEF Hand, window, shell
  <2>2. ~CloseSession
    BY <2>1 DEF CloseSession
  <2>3. CASE job[r].rows
    <3>1. PICK seen \in {TRUE, ~Stopped(r)} : rs' = [rs EXCEPT ![Name(r)] = "reading"] /\ Track(Name(r), seen)
      BY <1>10, <2>3 DEF Hand
    <3>2. Name(r) \in Results /\ seen \in BOOLEAN
      BY <1>10, AtWork DEF Hand
    <3>3. /\ session' \in Sessions /\ session'.closed = session.closed
          /\ session.closed => session'.results = session.results
          /\ closing' \subseteq Results /\ Tracked'
      BY <3>1, <3>2, TrackKeeps
    <3> QED  BY <1>c, <1>s, <2>1, <2>2, <3>3, EndingStays DEF EmptyOnceClosed
  <2>4. CASE ~job[r].rows
    <3>1. UNCHANGED <<rs, session, closing>>
      BY <1>10, <2>4 DEF Hand
    <3> QED  BY <1>1, <2>1, <2>2, <3>1
  <2> QED  BY <2>3, <2>4
<1>11. CASE Reread
  <2>1. UNCHANGED <<closer, tab, link>>
    BY <1>11 DEF Reread, window, shell
  <2>2. ~CloseSession
    BY <2>1 DEF CloseSession
  <2>3. CASE job[Again].rows
    <3>1. rs' = [rs EXCEPT ![Again] = "reading"] /\ Track(Again, TRUE) /\ Again \in Results
      BY <1>11, <2>3, Names DEF Reread
    <3>2. /\ session' \in Sessions /\ session'.closed = session.closed
          /\ session.closed => session'.results = session.results
          /\ closing' \subseteq Results /\ Tracked'
      BY <3>1, TrackKeeps
    <3> QED  BY <1>c, <1>s, <2>1, <2>2, <3>2, EndingStays DEF EmptyOnceClosed
  <2>4. CASE ~job[Again].rows
    <3>1. UNCHANGED <<rs, session, closing>>
      BY <1>11, <2>4 DEF Reread
    <3> QED  BY <1>1, <2>1, <2>2, <3>1
  <2> QED  BY <2>3, <2>4
<1>12. ASSUME NEW x \in Results, ReadToEnd(x) PROVE Ending'
  <2>1. /\ UNCHANGED <<closer, tab, link, session>> /\ closing' = closing \ {x}
        /\ \E v \in {"short", "ended"} : rs' = [rs EXCEPT ![x] = v]
    BY <1>12 DEF ReadToEnd, window, shell
  <2>2. ~CloseSession
    BY <2>1 DEF CloseSession
  <2>3. Tracked'
    BY <1>s, <2>1 DEF Tracked, Types
  <2> QED  BY <1>c, <1>s, <2>1, <2>2, <2>3, EndingStays DEF EmptyOnceClosed
<1>13. CASE Stop \/ Applied \/ ShowAgain
  <2>1. /\ UNCHANGED <<closer, tab, link, session, rs>>
        /\ closing' = closing \/ \E xs \in SUBSET Results : Close(xs)
    <3>1. CASE Stop
      BY <3>1 DEF Stop, window, shell, Types
    <3>2. CASE Applied
      BY <3>2, Names DEF Applied, Types
    <3>3. CASE ShowAgain
      BY <3>3, Names DEF ShowAgain
    <3> QED  BY <1>13, <3>1, <3>2, <3>3
  <2>2. ~CloseSession
    BY <2>1 DEF CloseSession
  <2>3. closing \subseteq closing' /\ closing' \subseteq Results
    BY <1>s, <2>1 DEF Close
  <2>4. Tracked'
    BY <1>s, <2>1, <2>3 DEF Tracked
  <2> QED  BY <1>c, <1>s, <2>1, <2>2, <2>3, <2>4, EndingStays DEF EmptyOnceClosed
<1> QED
  <2>1. CASE Next
    BY <1>2, <1>3, <1>4, <1>5, <1>6, <1>7, <1>8, <1>9, <1>10, <1>11, <1>12, <1>13, <2>1, Steps DEF Aside
  <2> QED  BY <1>5, <2>1

LEMMA HeldInit == Init => Serving /\ Ending
<1> SUFFICES ASSUME Init PROVE Serving /\ Ending
  OBVIOUS
<1>1. conn = [lock |-> None, open |-> None, tx |-> FALSE, closed |-> FALSE]
      /\ session = [results |-> {}, closed |-> FALSE]
  BY DEF Init
<1>2. conn \in Conns /\ session \in Sessions
  BY <1>1 DEF Conns, Sessions
<1>3. \A o \in Jobs : job[o].at # "executing"
  BY DEF Init, NoJob
<1>4. LockIsUsed
  BY <1>1, <1>3, JobNames DEF Init, LockIsUsed
<1>5. OneStreams
  BY <1>1 DEF Init, OneStreams
<1>6. Serving
  BY <1>1, <1>2, <1>4, <1>5 DEF Init, Serving
<1>7. Ending
  BY <1>1, <1>2 DEF Init, Ending, GoneIsClosed, Tracked, EmptyOnceClosed
<1> QED  BY <1>6, <1>7

LEMMA AlwaysHeld == Spec => [](Serving /\ Ending)
<1>1. Inv /\ Serving /\ Ending /\ [Next]_vars => (Serving /\ Ending)'
  BY ServingStep, EndingStep DEF Inv
<1> QED  BY HeldInit, <1>1, AlwaysInv, PTL DEF Spec

\* The lock of the connection is held by the one statement that is with the server, or by a
\* transaction on its way, and nobody else is waited for; one result streams at a time
\* (pgSession.Query, begin, end).
THEOREM ConnectionIsShared == Spec => [](LockIsUsed /\ OneStreams)
<1>1. Serving => LockIsUsed /\ OneStreams
  BY DEF Serving
<1> QED  BY <1>1, AlwaysHeld, PTL

\* A closed tab has somebody closing what connectQuery gave it, also when it came after
\* the tab had gone: what ClosedIsReleased rests on.
THEOREM ClosedTabIsClosing == Spec => []GoneIsClosed
<1>1. Ending => GoneIsClosed
  BY DEF Ending
<1> QED  BY <1>1, AlwaysHeld, PTL

\* Once the goroutine that closes has done its work the connection is closed, with no lock,
\* no transaction and no open result, and whatever still reads was told to stop, though it
\* was handed over, or read again, while the session was being closed (track, Close).
THEOREM ClosedHolds == Spec => [](Tracked /\ ClosedHoldsNothing)
<1>1. Serving /\ Ending => Tracked /\ ClosedHoldsNothing
  BY DEF Serving, Ending, Tracked, EmptyOnceClosed, ClosedHoldsNothing
<1> QED  BY <1>1, AlwaysHeld, PTL

=============================================================================
