---------------------------- MODULE ObserveProofs ----------------------------
(***************************************************************************)
(* Theorems of Observe, for any processes, sessions, handoffs and calls,   *)
(* and any length of the journal.                                          *)
(***************************************************************************)
EXTENDS Observe, SequenceTheorems, TLAPS
-----------------------------------------------------------------------------
(***************************************************************************)
(* The journal.                                                            *)
(***************************************************************************)
Dos == {"register", "emit", "launch"}
JLine == [call : Nat, do : Dos]

LEMMA ShortIsKept ==
  ASSUME NEW w \in Seq(JLine), Len(w) <= MaxLines
  PROVE  Newest(w) = w
BY DEF Newest

\* A line of a long file is where its distance from the end puts it.
LEMMA LongIsCut ==
  ASSUME NEW w \in Seq(JLine), Len(w) > MaxLines
  PROVE  /\ Newest(w) \in Seq(JLine) /\ Len(Newest(w)) = MaxLines
         /\ \A i \in 1 .. MaxLines : Newest(w)[i] = w[Len(w) - MaxLines + i]
<1> DEFINE first == Len(w) - MaxLines + 1
<1>1. /\ first \in Int /\ Len(w) \in Int /\ MaxLines \in Nat \ {0} /\ first <= Len(w)
      /\ Newest(w) = SubSeq(w, first, Len(w))
  BY MaxLinesAssumption DEF Newest
<1>2. \A i \in first .. Len(w) : w[i] \in JLine
  BY <1>1
<1>3. /\ SubSeq(w, first, Len(w)) \in Seq(JLine)
      /\ Len(SubSeq(w, first, Len(w)))
           = IF first <= Len(w) THEN Len(w) - first + 1 ELSE 0
      /\ \A i \in 1 .. Len(w) - first + 1 : SubSeq(w, first, Len(w))[i] = w[first + i - 1]
  <2> HIDE DEF first
  <2> QED BY <1>1, <1>2, SubSeqProperties
<1>4. Len(w) - first + 1 = MaxLines /\ \A i \in 1 .. MaxLines : first + i - 1 = Len(w) - MaxLines + i
  BY <1>1
<1> HIDE DEF first
<1> QED BY <1>1, <1>3, <1>4

LEMMA NewestIsText ==
  ASSUME NEW w \in Seq(JLine)
  PROVE  Newest(w) \in Seq(JLine) /\ Len(Newest(w)) <= MaxLines
<1>1. CASE Len(w) <= MaxLines
  BY <1>1, ShortIsKept
<1>2. CASE Len(w) > MaxLines
  BY <1>2, LongIsCut, MaxLinesAssumption
<1> QED BY <1>1, <1>2, MaxLinesAssumption

\* Trimming what was trimmed before loses nothing more.
LEMMA NewestAgain ==
  ASSUME NEW w \in Seq(JLine), NEW l \in JLine
  PROVE  Newest(Append(Newest(w), l)) = Newest(Append(w, l))
<1>1. CASE Len(w) <= MaxLines
  BY <1>1, ShortIsKept
<1>2. CASE Len(w) > MaxLines
  <2> DEFINE n == Newest(w)
             a == Append(n, l)
             b == Append(w, l)
  <2>1. /\ n \in Seq(JLine) /\ Len(n) = MaxLines
        /\ \A i \in 1 .. MaxLines : n[i] = w[Len(w) - MaxLines + i]
    BY <1>2, LongIsCut
  <2> HIDE DEF n
  <2>2. /\ a \in Seq(JLine) /\ Len(a) = MaxLines + 1
        /\ \A i \in 1 .. MaxLines : a[i] = n[i]
        /\ a[MaxLines + 1] = l
    BY <2>1, MaxLinesAssumption
  <2>3. /\ b \in Seq(JLine) /\ Len(b) = Len(w) + 1
        /\ \A i \in 1 .. Len(w) : b[i] = w[i]
        /\ b[Len(w) + 1] = l
    OBVIOUS
  <2> HIDE DEF a, b
  <2>4. /\ Newest(a) \in Seq(JLine) /\ Len(Newest(a)) = MaxLines
        /\ \A i \in 1 .. MaxLines : Newest(a)[i] = a[Len(a) - MaxLines + i]
    BY <2>2, LongIsCut, MaxLinesAssumption
  <2>5. /\ Newest(b) \in Seq(JLine) /\ Len(Newest(b)) = MaxLines
        /\ \A i \in 1 .. MaxLines : Newest(b)[i] = b[Len(b) - MaxLines + i]
    <3>1. Len(b) > MaxLines
      BY <1>2, <2>3, MaxLinesAssumption
    <3> QED BY <2>3, <3>1, LongIsCut
  <2>6. ASSUME NEW i \in 1 .. MaxLines PROVE Newest(a)[i] = Newest(b)[i]
    <3>1. /\ MaxLines \in Nat \ {0} /\ i \in Nat /\ 1 <= i /\ i <= MaxLines /\ Len(w) \in Nat
      BY MaxLinesAssumption
    <3>2. Newest(a)[i] = a[i + 1]
      <4>1. Len(a) - MaxLines + i = i + 1
        BY <2>2, <3>1
      <4> QED BY <2>4, <4>1
    <3>3. Newest(b)[i] = b[Len(w) - MaxLines + i + 1]
      <4>1. Len(b) - MaxLines + i = Len(w) - MaxLines + i + 1
        BY <2>3, <3>1
      <4> QED BY <2>5, <4>1
    <3>4. CASE i = MaxLines
      <4>1. Len(w) - MaxLines + i + 1 = Len(w) + 1
        BY <3>1, <3>4
      <4> QED BY <2>2, <2>3, <3>2, <3>3, <3>4, <4>1
    <3>5. CASE i # MaxLines
      <4>1. /\ i + 1 \in 1 .. MaxLines
            /\ Len(w) - MaxLines + (i + 1) = Len(w) - MaxLines + i + 1
            /\ Len(w) - MaxLines + i + 1 \in 1 .. Len(w)
        BY <1>2, <3>1, <3>5
      <4>2. a[i + 1] = w[Len(w) - MaxLines + i + 1]
        BY <2>1, <2>2, <4>1
      <4> QED BY <2>3, <3>2, <3>3, <4>1, <4>2
    <3> QED BY <3>4, <3>5
  <2>7. Newest(a) = Newest(b)
    BY <2>4, <2>5, <2>6, SeqEqual
  <2> QED BY <2>7 DEF a, b, n
<1> QED BY <1>1, <1>2, MaxLinesAssumption

\* Who holds the lock has prepared the present text and its own line.
JournalInv ==
  /\ journal \in Seq(JLine) /\ written \in Seq(JLine)
  /\ entry \in [Process -> {"idle", "waiting", "replacing"}]
  /\ line \in [Process -> JLine \cup {NoLine}]
  /\ text \in [Process -> Seq(JLine)]
  /\ holder \in Process \cup {NoProcess}
  /\ \A p \in Process :
       /\ entry[p] # "idle" => line[p] \in JLine
       /\ holder = p <=> entry[p] = "replacing"
       /\ entry[p] = "replacing" => text[p] = Newest(Append(journal, line[p]))
  /\ JournalKeepsNewest

\* A step of p leaves the other writers alone.
OthersLines(p) ==
  \A q \in Process \ {p} : entry'[q] = entry[q] /\ line'[q] = line[q]

LEMMA BeginInv ==
  ASSUME JournalInv, NEW p \in Process, NEW l \in JLine, JournalBegin(p, l)
  PROVE  /\ JournalInv' /\ OthersLines(p) /\ UNCHANGED written
         /\ entry'[p] = "waiting" /\ line'[p] = l
<1>1. /\ entry[p] = "idle" /\ UNCHANGED <<journal, holder, text, written>>
      /\ entry' = [entry EXCEPT ![p] = "waiting"] /\ line' = [line EXCEPT ![p] = l]
  BY DEF JournalBegin
<1>2. \A q \in Process : holder # p /\ (q # p => entry'[q] = entry[q] /\ line'[q] = line[q])
  BY <1>1 DEF JournalInv
<1>3. entry'[p] = "waiting" /\ line'[p] = l
  BY <1>1 DEF JournalInv
<1> QED BY <1>1, <1>2, <1>3 DEF JournalInv, OthersLines, JournalKeepsNewest, Newest

LEMMA ReadInv ==
  ASSUME JournalInv, NEW p \in Process, JournalRead(p)
  PROVE  /\ JournalInv' /\ OthersLines(p) /\ UNCHANGED <<line, written>>
         /\ entry'[p] = "replacing"
<1> DEFINE t == Newest(Append(journal, line[p]))
<1>1. /\ holder = NoProcess /\ holder' = p /\ entry[p] = "waiting"
      /\ UNCHANGED <<journal, line, written>>
      /\ text' = [text EXCEPT ![p] = t] /\ entry' = [entry EXCEPT ![p] = "replacing"]
  BY DEF JournalRead, Prepare
<1>2. line[p] \in JLine
  BY <1>1 DEF JournalInv
<1>3. t \in Seq(JLine)
  <2>1. Append(journal, line[p]) \in Seq(JLine)
    BY <1>2 DEF JournalInv
  <2> QED BY <2>1, NewestIsText
<1>4. /\ text'[p] = Newest(Append(journal', line'[p])) /\ entry'[p] = "replacing"
      /\ \A q \in Process \ {p} : entry'[q] = entry[q] /\ text'[q] = text[q]
  BY <1>1 DEF JournalInv
<1>5. \A q \in Process : entry[q] # "replacing"
  BY <1>1, NoProcessAssumption DEF JournalInv
<1> HIDE DEF t
<1>6. text' \in [Process -> Seq(JLine)] /\ entry' \in [Process -> {"idle", "waiting", "replacing"}]
  BY <1>1, <1>3 DEF JournalInv
<1>7. JournalKeepsNewest'
  BY <1>1 DEF JournalInv, JournalKeepsNewest, Newest
<1> QED BY <1>1, <1>2, <1>4, <1>5, <1>6, <1>7 DEF JournalInv, OthersLines

\* Whoever is through, gives up or dies leaves the file as it is.
LEMMA EndInv ==
  ASSUME JournalInv, NEW p \in Process, JournalEnd(p), UNCHANGED <<journal, written>>
  PROVE  JournalInv' /\ OthersLines(p) /\ entry'[p] = "idle"
<1>1. /\ entry' = [entry EXCEPT ![p] = "idle"] /\ line' = [line EXCEPT ![p] = NoLine]
      /\ text' = [text EXCEPT ![p] = <<>>]
      /\ holder' = IF holder = p THEN NoProcess ELSE holder
  BY DEF JournalEnd
<1>2. /\ entry'[p] = "idle"
      /\ \A q \in Process \ {p} :
           entry'[q] = entry[q] /\ line'[q] = line[q] /\ text'[q] = text[q]
  BY <1>1 DEF JournalInv
<1>3. \A q \in Process : holder' = q <=> entry'[q] = "replacing"
  BY <1>1, <1>2, NoProcessAssumption DEF JournalInv
<1>4. /\ entry' \in [Process -> {"idle", "waiting", "replacing"}]
      /\ line' \in [Process -> JLine \cup {NoLine}] /\ text' \in [Process -> Seq(JLine)]
      /\ holder' \in Process \cup {NoProcess}
  BY <1>1 DEF JournalInv
<1>5. JournalKeepsNewest'
  BY DEF JournalInv, JournalKeepsNewest, Newest
<1> QED BY <1>2, <1>3, <1>4, <1>5 DEF JournalInv, OthersLines

LEMMA ReplaceInv ==
  ASSUME JournalInv, NEW p \in Process, JournalReplace(p)
  PROVE  /\ JournalInv' /\ OthersLines(p) /\ entry'[p] = "idle"
         /\ line[p] \in JLine /\ written' = Append(written, line[p])
<1>1. /\ entry[p] = "replacing" /\ journal' = text[p] /\ JournalEnd(p)
      /\ written' = Append(written, line[p])
  BY DEF JournalReplace
<1>2. /\ entry' = [entry EXCEPT ![p] = "idle"] /\ line' = [line EXCEPT ![p] = NoLine]
      /\ text' = [text EXCEPT ![p] = <<>>]
      /\ holder' = IF holder = p THEN NoProcess ELSE holder
  BY <1>1 DEF JournalEnd
<1>3. /\ line[p] \in JLine /\ text[p] = Newest(Append(journal, line[p])) /\ holder = p
  BY <1>1 DEF JournalInv
<1>4. /\ entry'[p] = "idle"
      /\ \A q \in Process \ {p} :
           entry'[q] = entry[q] /\ line'[q] = line[q] /\ text'[q] = text[q]
  BY <1>2 DEF JournalInv
<1>5. \A q \in Process : holder' # q /\ entry'[q] # "replacing"
  BY <1>2, <1>3, <1>4, NoProcessAssumption DEF JournalInv
<1>6. /\ entry' \in [Process -> {"idle", "waiting", "replacing"}]
      /\ line' \in [Process -> JLine \cup {NoLine}] /\ text' \in [Process -> Seq(JLine)]
      /\ holder' \in Process \cup {NoProcess}
      /\ journal' \in Seq(JLine) /\ written' \in Seq(JLine)
  BY <1>1, <1>2, <1>3 DEF JournalInv
<1>7. journal' = Newest(written')
  BY <1>1, <1>3, NewestAgain DEF JournalInv, JournalKeepsNewest
<1>8. JournalKeepsNewest'
  BY <1>7 DEF JournalKeepsNewest, Newest
<1> QED BY <1>1, <1>3, <1>4, <1>5, <1>6, <1>8 DEF JournalInv, OthersLines
-----------------------------------------------------------------------------
(***************************************************************************)
(* The facade.                                                             *)
(***************************************************************************)
Entry ==
  {Event(t, n) : t \in {"registered", "emitted", "launched", "cancelled"},
                 n \in Session \cup Row}

Job ==
  {j \in [verb : {"register", "emit", "launch", "session-start"}, call : Nat,
          session : Session, row : Row \cup {NoRow}, do : Dos] :
     j.do # "register" => j.row \in Row}

Thread ==
  [at : {"appending", "projecting", "done", "raised"},
   event : {Event(t, n) : t \in {"registered", "emitted", "launched"},
                          n \in Session \cup Row}]

Statuses == {"disabled", "failed", "stderr", "registered", "emitted", "launched"}

Result ==
  [ok : BOOLEAN, status : Statuses, node : Session \cup Row \cup {NoRow},
   prompt : Session \cup Row \cup {NoRow}, attempt : JLine]

Shapes ==
  /\ log \in Seq(Entry)
  /\ calls \in Nat
  /\ pc \in [Process -> {"idle", "resolving", "joining", "journaling"}]
  /\ job \in [Process -> Job \cup {NoJob}]
  /\ threads \in [Process -> Seq(Thread)]
  /\ result \in [Process -> Result \cup {NoResult}]

\* The threads a process may have by now: one for each attempt it has made.
Attempts(p) ==
  (IF pc[p] = "resolving" THEN 0 ELSE 1)
  + (IF job[p].verb = "session-start" /\ job[p].do = "register" THEN 1 ELSE 0)

Attempt(j) == [call |-> j.call, do |-> j.do]

\* How a process's own state hangs together.
ProcessInv(p) ==
  /\ pc[p] = "idle" => threads[p] = <<>>
  /\ pc[p] # "idle" => job[p] \in Job /\ Len(threads[p]) <= Attempts(p)
  /\ pc[p] = "joining" => threads[p] # <<>>
  /\ entry[p] # "idle" <=> pc[p] = "journaling"
  /\ pc[p] = "journaling" => line[p] = Attempt(job[p])

\* A thread that has appended has its event in the log, and one that is done
\* its node among the fragments.
ThreadsInv(p) ==
  \A i \in DOMAIN threads[p] :
    LET t == threads[p][i]
    IN  /\ t.at \in {"projecting", "done"} => InLog(t.event.type, t.event.node)
        /\ t.at = "done" => t.event.node \in projected

\* So has a call that succeeded, and a call that failed has written its line.
ResultInv(p) ==
  /\ result[p].ok => /\ InLog(result[p].status, result[p].node)
                     /\ result[p].node \in projected
  /\ (result[p].status # "none" /\ result[p].prompt # NoRow)
       => InLog("emitted", result[p].prompt)
  /\ result[p].status = "failed" =>
       /\ result[p] \in Result
       /\ \E i \in DOMAIN written : Attempt(written[i]) = result[p].attempt

OneInv(p) == ProcessInv(p) /\ ThreadsInv(p) /\ ResultInv(p)

Inv == Shapes /\ JournalInv /\ \A p \in Process : OneInv(p)

\* The log, the fragments and the file of all lines only grow.
Grows ==
  /\ Keys(log) \subseteq Keys(log')
  /\ projected \subseteq projected'
  /\ \A i \in DOMAIN written : i \in DOMAIN written' /\ written'[i] = written[i]

LEMMA StaysInv ==
  ASSUME Inv, Grows, NEW q \in Process,
         pc'[q] = pc[q], job'[q] = job[q], threads'[q] = threads[q], result'[q] = result[q],
         entry'[q] = entry[q], line'[q] = line[q]
  PROVE  OneInv(q)'
<1>1. ProcessInv(q)'
  BY DEF Inv, OneInv, ProcessInv, Attempts, Attempt
<1>2. ThreadsInv(q)'
  BY DEF Inv, OneInv, ThreadsInv, Grows, InLog
<1>3. ResultInv(q)'
  <2>1. ResultInv(q)
    BY DEF Inv, OneInv
  <2> QED BY <2>1 DEF ResultInv, Grows, InLog, Attempt
<1> QED BY <1>1, <1>2, <1>3 DEF OneInv

\* A step of p: what has to be shown of p itself.
LEMMA StepFrame ==
  ASSUME Inv, NEW p \in Process, Grows, JournalInv', OthersLines(p),
         log' \in Seq(Entry), calls' \in Nat,
         NEW at \in {"idle", "resolving", "joining", "journaling"},
         NEW j \in Job \cup {NoJob}, NEW ts \in Seq(Thread), NEW r \in Result \cup {NoResult},
         pc' = [pc EXCEPT ![p] = at], job' = [job EXCEPT ![p] = j],
         threads' = [threads EXCEPT ![p] = ts], result' = [result EXCEPT ![p] = r],
         OneInv(p)'
  PROVE  Inv'
<1>1. Shapes'
  BY DEF Inv, Shapes
<1>2. ASSUME NEW q \in Process \ {p} PROVE OneInv(q)'
  <2>1. /\ pc'[q] = pc[q] /\ job'[q] = job[q] /\ threads'[q] = threads[q]
        /\ result'[q] = result[q] /\ entry'[q] = entry[q] /\ line'[q] = line[q]
    BY DEF Inv, Shapes, OthersLines
  <2> QED BY <2>1, StaysInv
<1> QED BY <1>1, <1>2 DEF Inv

\* What p's functions are after such a step.
LEMMA Here ==
  ASSUME Inv, NEW p \in Process, NEW at, NEW j, NEW ts, NEW r
  PROVE  /\ pc' = [pc EXCEPT ![p] = at] => pc'[p] = at
         /\ job' = [job EXCEPT ![p] = j] => job'[p] = j
         /\ threads' = [threads EXCEPT ![p] = ts] => threads'[p] = ts
         /\ result' = [result EXCEPT ![p] = r] => result'[p] = r
         /\ pc = [pc EXCEPT ![p] = pc[p]] /\ job = [job EXCEPT ![p] = job[p]]
         /\ threads = [threads EXCEPT ![p] = threads[p]]
         /\ result = [result EXCEPT ![p] = result[p]]
BY DEF Inv, Shapes

LEMMA QuietJournal ==
  ASSUME Inv, NEW p \in Process, UNCHANGED journalVars
  PROVE  JournalInv' /\ OthersLines(p) /\ entry'[p] = entry[p] /\ line'[p] = line[p]
         /\ UNCHANGED written
BY DEF Inv, JournalInv, OthersLines, journalVars, JournalKeepsNewest, Newest

LEMMA JobHere ==
  ASSUME Inv, NEW p \in Process, pc[p] # "idle"
  PROVE  /\ job[p] \in Job /\ Attempt(job[p]) \in JLine /\ threads[p] \in Seq(Thread)
         /\ Len(threads[p]) <= Attempts(p) /\ job[p].do \in Dos
         /\ result[p] \in Result \cup {NoResult}
BY DEF Inv, OneInv, ProcessInv, Job, JLine, Attempt, Dos, Shapes

LEMMA CallInv ==
  ASSUME Inv, NEW p \in Process, Call(p)
  PROVE  Inv'
<1>1. PICK verb \in {"register", "emit", "launch", "session-start"},
           s \in Session, r \in Row \cup {NoRow} :
        /\ (r = NoRow) <=> (verb = "register")
        /\ job' = [job EXCEPT ![p] =
             [verb |-> verb, call |-> calls + 1, session |-> s, row |-> r,
              do |-> IF verb = "session-start" THEN "launch" ELSE verb]]
  BY DEF Call
<1> DEFINE j == [verb |-> verb, call |-> calls + 1, session |-> s, row |-> r,
                 do |-> IF verb = "session-start" THEN "launch" ELSE verb]
<1>2. /\ pc[p] = "idle" /\ pc' = [pc EXCEPT ![p] = "resolving"] /\ calls' = calls + 1
      /\ result' = [result EXCEPT ![p] = NoResult]
      /\ UNCHANGED <<log, projected, threads, journalVars>>
  BY DEF Call, Go, workVars
<1>3. j \in Job
  BY <1>1, RowAssumption DEF Inv, Shapes, Job, Dos
<1> HIDE DEF j
<1>4. /\ JournalInv' /\ OthersLines(p) /\ entry'[p] = entry[p] /\ line'[p] = line[p]
      /\ UNCHANGED written
  BY <1>2, QuietJournal
<1>5. /\ pc'[p] = "resolving" /\ job'[p] = j /\ threads'[p] = <<>> /\ result'[p] = NoResult
      /\ threads' = [threads EXCEPT ![p] = <<>>]
  <2>1. threads[p] = <<>>
    BY <1>2 DEF Inv, OneInv, ProcessInv
  <2>2. threads = [threads EXCEPT ![p] = threads[p]]
    BY Here
  <2>3. job' = [job EXCEPT ![p] = j]
    BY <1>1 DEF j
  <2> QED BY <1>2, <2>1, <2>2, <2>3, Here
<1>6. OneInv(p)'
  <2>1. ProcessInv(p)'
    BY <1>2, <1>3, <1>4, <1>5 DEF ProcessInv, Attempts, Inv, OneInv
  <2>2. ThreadsInv(p)' /\ ResultInv(p)'
    BY <1>5 DEF ThreadsInv, ResultInv, NoResult
  <2> QED BY <2>1, <2>2 DEF OneInv
<1>7. /\ log' \in Seq(Entry) /\ calls' \in Nat /\ Grows
      /\ job' = [job EXCEPT ![p] = j]
  BY <1>1, <1>2, <1>4 DEF Inv, Shapes, Grows, j
<1>8. <<>> \in Seq(Thread) /\ NoResult \in Result \cup {NoResult} /\ j \in Job \cup {NoJob}
  BY <1>3
<1> QED BY <1>2, <1>4, <1>5, <1>6, <1>7, <1>8, StepFrame

\* The end of an attempt that did not succeed: the call's, or the first of two.
LEMMA FailureInv ==
  ASSUME Inv, NEW p \in Process, pc[p] # "idle",
         NEW status \in {"disabled", "failed", "stderr"},
         IF Launching(p) THEN Fallback(p) ELSE Failure(p, status),
         Grows, JournalInv', OthersLines(p), entry'[p] = "idle",
         pc[p] \in {"resolving", "joining", "journaling"},
         UNCHANGED <<log, projected, calls>>,
         status = "failed" => \E i \in DOMAIN written' : Attempt(written'[i]) = Attempt(job[p])
  PROVE  Inv'
<1>1. /\ job[p] \in Job /\ Attempt(job[p]) \in JLine /\ threads[p] \in Seq(Thread)
      /\ Len(threads[p]) <= Attempts(p) /\ result[p] \in Result \cup {NoResult}
  BY JobHere
<1>2. log' \in Seq(Entry) /\ calls' \in Nat
  BY DEF Inv, Shapes
<1>3. CASE Launching(p)
  <2> DEFINE j == [job[p] EXCEPT !.do = "register"]
  <2>1. /\ job' = [job EXCEPT ![p] = j] /\ pc' = [pc EXCEPT ![p] = "resolving"]
        /\ UNCHANGED <<threads, result>> /\ job[p].verb = "session-start" /\ job[p].do = "launch"
    BY <1>3 DEF Fallback, Go, Launching, Inv, Shapes
  <2>2. j \in Job /\ j.do = "register" /\ j.verb = "session-start"
    BY <1>1, <2>1 DEF Job, Dos
  <2> HIDE DEF j
  <2>3. /\ pc'[p] = "resolving" /\ job'[p] = j
        /\ threads' = [threads EXCEPT ![p] = threads[p]]
        /\ result' = [result EXCEPT ![p] = result[p]]
    BY <2>1, Here
  <2>4. Len(threads[p]) <= 1
    BY <1>1, <2>1 DEF Attempts
  <2>5. ProcessInv(p)'
    BY <2>1, <2>2, <2>3, <2>4 DEF ProcessInv, Attempts
  <2>6. ThreadsInv(p)'
    BY <2>1 DEF Inv, OneInv, ThreadsInv, InLog
  <2>7. ResultInv(p)'
    BY <2>1 DEF Inv, OneInv, ResultInv, InLog, Grows, Attempt
  <2> QED BY <1>1, <1>2, <2>1, <2>2, <2>3, <2>5, <2>6, <2>7, StepFrame DEF OneInv
<1>4. CASE ~Launching(p)
  <2> DEFINE r == [ok |-> FALSE, status |-> status, node |-> NoRow, prompt |-> NoRow,
                   attempt |-> Attempt(job[p])]
  <2>1. /\ result' = [result EXCEPT ![p] = r] /\ pc' = [pc EXCEPT ![p] = "idle"]
        /\ job' = [job EXCEPT ![p] = NoJob] /\ threads' = [threads EXCEPT ![p] = <<>>]
    BY <1>4 DEF Failure, Answer, Go, Attempt
  <2>2. /\ r \in Result /\ ~r.ok /\ r.status = status /\ r.prompt = NoRow
        /\ r.attempt = Attempt(job[p])
    BY <1>1 DEF Result, Statuses
  <2> HIDE DEF r
  <2>3. result'[p] = r /\ pc'[p] = "idle" /\ job'[p] = NoJob /\ threads'[p] = <<>>
    BY <2>1, Here
  <2>4. ProcessInv(p)' /\ ThreadsInv(p)' /\ ResultInv(p)'
    BY <2>2, <2>3 DEF ProcessInv, ThreadsInv, ResultInv, Attempt
  <2>5. <<>> \in Seq(Thread) /\ r \in Result \cup {NoResult} /\ NoJob \in Job \cup {NoJob}
    BY <2>2
  <2>6. OneInv(p)'
    BY <2>4 DEF OneInv
  <2> QED BY <1>2, <2>1, <2>5, <2>6, StepFrame
<1> QED BY <1>3, <1>4

LEMMA DisabledInv ==
  ASSUME Inv, NEW p \in Process, Disabled(p)
  PROVE  Inv'
<1>1. /\ pc[p] = "resolving" /\ UNCHANGED <<log, projected, calls, journalVars>>
      /\ IF Launching(p) THEN Fallback(p) ELSE Failure(p, "disabled")
  BY DEF Disabled
<1>2. /\ JournalInv' /\ OthersLines(p) /\ entry'[p] = "idle" /\ UNCHANGED written
  BY <1>1, QuietJournal DEF Inv, OneInv, ProcessInv, JournalInv
<1>3. Grows
  BY <1>1, <1>2 DEF Grows
<1> QED BY <1>1, <1>2, <1>3, FailureInv

\* Whatever ends an attempt but the answer: it is journaled.
LEMMA JournalStarts ==
  ASSUME Inv, NEW p \in Process, pc[p] \in {"resolving", "joining"}, Journal(p),
         UNCHANGED <<log, projected, calls, threads, job, result>>
  PROVE  Inv'
<1>1. /\ JournalBegin(p, Attempt(job[p])) /\ pc' = [pc EXCEPT ![p] = "journaling"]
  BY DEF Journal, Go, Attempt
<1>2. /\ job[p] \in Job /\ Attempt(job[p]) \in JLine /\ threads[p] \in Seq(Thread)
      /\ Len(threads[p]) <= Attempts(p) /\ result[p] \in Result \cup {NoResult}
  BY JobHere
<1>3. /\ JournalInv' /\ OthersLines(p) /\ UNCHANGED written
      /\ entry'[p] = "waiting" /\ line'[p] = Attempt(job[p])
  BY <1>1, <1>2, BeginInv DEF Inv
<1>4. /\ pc'[p] = "journaling" /\ job' = [job EXCEPT ![p] = job[p]]
      /\ threads' = [threads EXCEPT ![p] = threads[p]]
      /\ result' = [result EXCEPT ![p] = result[p]]
  BY <1>1, Here
<1>5. Grows /\ log' \in Seq(Entry) /\ calls' \in Nat
  BY <1>3 DEF Grows, Inv, Shapes
<1>6. ProcessInv(p)'
  <2>1. Len(threads'[p]) <= Attempts(p)'
    BY <1>2, <1>4 DEF Attempts
  <2> QED BY <1>2, <1>3, <1>4, <2>1 DEF ProcessInv, Attempt
<1>7. ThreadsInv(p)' /\ ResultInv(p)'
  BY <1>3 DEF Inv, OneInv, ThreadsInv, ResultInv, InLog, Attempt
<1>8. OneInv(p)' /\ job[p] \in Job \cup {NoJob}
  BY <1>2, <1>6, <1>7 DEF OneInv
<1> QED BY <1>1, <1>2, <1>3, <1>4, <1>5, <1>8, StepFrame

LEMMA FailEarlyInv ==
  ASSUME Inv, NEW p \in Process, FailEarly(p)
  PROVE  Inv'
BY JournalStarts DEF FailEarly, workVars

LEMMA JoinTimeoutInv ==
  ASSUME Inv, NEW p \in Process, JoinTimeout(p)
  PROVE  Inv'
BY JournalStarts DEF JoinTimeout, workVars

LEMMA StartThreadInv ==
  ASSUME Inv, NEW p \in Process, StartThread(p)
  PROVE  Inv'
<1> DEFINE node == IF job[p].do = "register" THEN job[p].session ELSE job[p].row
           t == [at |-> "appending", event |-> Event(EventType(job[p].do), node)]
           ts == Append(threads[p], t)
<1>1. /\ pc[p] = "resolving" /\ pc' = [pc EXCEPT ![p] = "joining"]
      /\ threads' = [threads EXCEPT ![p] = ts]
      /\ UNCHANGED <<log, projected, job, result, calls, journalVars>>
  BY DEF StartThread, Go, Inv, Shapes
<1>2. /\ job[p] \in Job /\ job[p].do \in Dos /\ threads[p] \in Seq(Thread)
      /\ Len(threads[p]) <= Attempts(p) /\ result[p] \in Result \cup {NoResult}
  BY <1>1, JobHere
<1>3. t \in Thread
  <2>1. node \in Session \cup Row
    BY <1>2 DEF Job
  <2>2. EventType(job[p].do) \in {"registered", "emitted", "launched"}
    BY <1>2, Zenon DEF EventType, Dos
  <2> QED BY <2>1, <2>2 DEF Thread
<1>4. t.at = "appending"
  OBVIOUS
<1> HIDE DEF t
<1>5. /\ ts \in Seq(Thread) /\ ts # <<>> /\ Len(ts) = Len(threads[p]) + 1
      /\ DOMAIN ts = 1 .. Len(threads[p]) + 1 /\ DOMAIN threads[p] = 1 .. Len(threads[p])
      /\ \A i \in DOMAIN threads[p] : ts[i] = threads[p][i]
      /\ ts[Len(threads[p]) + 1] = t /\ Len(threads[p]) \in Nat
  BY <1>2, <1>3
<1> HIDE DEF ts
<1>6. /\ JournalInv' /\ OthersLines(p) /\ entry'[p] = entry[p] /\ line'[p] = line[p]
      /\ UNCHANGED written
  BY <1>1, QuietJournal
<1>7. /\ pc'[p] = "joining" /\ threads'[p] = ts
      /\ job' = [job EXCEPT ![p] = job[p]] /\ result' = [result EXCEPT ![p] = result[p]]
  BY <1>1, Here
<1>8. Grows /\ log' \in Seq(Entry) /\ calls' \in Nat
  BY <1>1, <1>6 DEF Grows, Inv, Shapes
<1>9. ProcessInv(p)'
  <2>1. Len(ts) <= Attempts(p)'
    BY <1>1, <1>2, <1>5, <1>7 DEF Attempts
  <2>2. entry'[p] = "idle"
    BY <1>1, <1>6 DEF Inv, OneInv, ProcessInv
  <2> QED BY <1>1, <1>2, <1>5, <1>7, <2>1, <2>2 DEF ProcessInv
<1>10. ThreadsInv(p)'
  <2>1. ASSUME NEW i \in DOMAIN ts
        PROVE  /\ ts[i].at \in {"projecting", "done"} => InLog(ts[i].event.type, ts[i].event.node)
               /\ ts[i].at = "done" => ts[i].event.node \in projected
    <3>1. CASE i \in DOMAIN threads[p]
      BY <1>5, <3>1 DEF Inv, OneInv, ThreadsInv
    <3>2. CASE i = Len(threads[p]) + 1
      BY <1>4, <1>5, <3>2
    <3> QED BY <1>5, <3>1, <3>2
  <2> QED BY <1>1, <1>7, <2>1 DEF ThreadsInv, InLog
<1>11. ResultInv(p)'
  BY <1>1, <1>6 DEF Inv, OneInv, ResultInv, InLog, Attempt
<1>12. OneInv(p)' /\ job[p] \in Job \cup {NoJob}
  BY <1>2, <1>9, <1>10, <1>11 DEF OneInv
<1> QED BY <1>1, <1>2, <1>5, <1>6, <1>7, <1>8, <1>12, StepFrame

\* A step of a daemon thread: what has to be shown of that thread.
LEMMA ThreadFrame ==
  ASSUME Inv, NEW p \in Process, NEW i \in DOMAIN threads[p],
         NEW at \in {"appending", "projecting", "done", "raised"}, ThreadGo(p, i, at),
         UNCHANGED UntouchedByThreads, log' \in Seq(Entry),
         Keys(log) \subseteq Keys(log'), projected \subseteq projected',
         at \in {"projecting", "done"}
           => <<threads[p][i].event.type, threads[p][i].event.node>> \in Keys(log'),
         at = "done" => threads[p][i].event.node \in projected'
  PROVE  Inv'
<1> DEFINE ts == [threads[p] EXCEPT ![i].at = at]
<1>1. /\ threads' = [threads EXCEPT ![p] = ts] /\ threads[p] \in Seq(Thread)
      /\ UNCHANGED <<pc, job, result, calls, journalVars>>
  BY DEF ThreadGo, UntouchedByThreads, Inv, Shapes
<1>2. threads[p][i] \in Thread
  BY <1>1
<1>3. /\ ts \in Seq(Thread) /\ Len(ts) = Len(threads[p]) /\ DOMAIN ts = DOMAIN threads[p]
      /\ \A j \in DOMAIN threads[p] : j # i => ts[j] = threads[p][j]
      /\ ts[i].at = at /\ ts[i].event = threads[p][i].event
  <2>1. [threads[p][i] EXCEPT !.at = at] \in Thread
    BY <1>2 DEF Thread
  <2>2. ts = [threads[p] EXCEPT ![i] = [threads[p][i] EXCEPT !.at = at]]
    OBVIOUS
  <2>3. /\ ts \in Seq(Thread) /\ Len(ts) = Len(threads[p]) /\ DOMAIN ts = DOMAIN threads[p]
        /\ ts[i] = [threads[p][i] EXCEPT !.at = at]
    BY <1>1, <2>1, <2>2
  <2> QED BY <1>1, <1>2, <2>2, <2>3 DEF Thread
<1> HIDE DEF ts
<1>4. /\ threads'[p] = ts
      /\ pc' = [pc EXCEPT ![p] = pc[p]] /\ job' = [job EXCEPT ![p] = job[p]]
      /\ result' = [result EXCEPT ![p] = result[p]]
  BY <1>1, Here
<1>5. /\ JournalInv' /\ OthersLines(p) /\ entry'[p] = entry[p] /\ line'[p] = line[p]
      /\ UNCHANGED written
  BY <1>1, QuietJournal
<1>6. Grows /\ calls' \in Nat
  BY <1>1, <1>5 DEF Grows, Inv, Shapes
<1>7. ProcessInv(p)'
  <2>1. threads[p] # <<>> /\ ts # <<>>
    BY <1>1, <1>3
  <2>2. ProcessInv(p) /\ Attempts(p)' = Attempts(p) /\ Attempt(job[p])' = Attempt(job[p])
    BY <1>1 DEF Inv, OneInv, Attempts, Attempt
  <2>3. pc[p] # "idle" /\ Len(ts) <= Attempts(p)
    BY <1>3, <2>1, <2>2 DEF ProcessInv
  <2> QED BY <1>1, <1>4, <1>5, <2>1, <2>2, <2>3 DEF ProcessInv
<1>8. ThreadsInv(p)'
  <2>1. ASSUME NEW j \in DOMAIN ts
        PROVE  /\ ts[j].at \in {"projecting", "done"}
                    => <<ts[j].event.type, ts[j].event.node>> \in Keys(log')
               /\ ts[j].at = "done" => ts[j].event.node \in projected'
    <3>1. CASE j = i
      BY <1>3, <3>1
    <3>2. CASE j # i
      BY <1>3, <3>2 DEF Inv, OneInv, ThreadsInv, InLog
    <3> QED BY <3>1, <3>2
  <2> QED BY <1>4, <2>1 DEF ThreadsInv, InLog
<1>9. ResultInv(p)'
  <2>1. ResultInv(p) /\ Keys(log) \subseteq Keys(log')
    BY DEF Inv, OneInv
  <2> QED BY <1>1, <1>5, <2>1 DEF ResultInv, InLog, Attempt
<1>10. /\ OneInv(p)' /\ pc[p] \in {"idle", "resolving", "joining", "journaling"}
       /\ job[p] \in Job \cup {NoJob} /\ result[p] \in Result \cup {NoResult}
  BY <1>7, <1>8, <1>9 DEF OneInv, Inv, Shapes
<1>11. threads' = [threads EXCEPT ![p] = ts] /\ ts \in Seq(Thread)
  BY <1>1, <1>3
<1> QED BY <1>4, <1>5, <1>6, <1>10, <1>11, StepFrame

LEMMA DaemonInv ==
  ASSUME Inv, NEW p \in Process, NEW i \in DOMAIN threads[p],
         ThreadAppend(p, i) \/ ThreadProject(p, i) \/ ThreadRaise(p, i)
  PROVE  Inv'
<1> DEFINE e == threads[p][i].event
<1>1. threads[p][i] \in Thread
  BY DEF Inv, Shapes
<1>2. e \in Entry /\ e.key = <<e.type, e.node>>
  BY <1>1 DEF Thread, Entry, Event
<1>3. log \in Seq(Entry)
  BY DEF Inv, Shapes
<1>4. UNCHANGED UntouchedByThreads
  BY DEF ThreadAppend, ThreadProject, ThreadRaise
<1>5. CASE ThreadAppend(p, i)
  <2>1. UNCHANGED projected
    BY <1>5 DEF ThreadAppend
  <2>2. CASE ThreadGo(p, i, "raised") /\ UNCHANGED log
    BY <1>3, <1>4, <2>1, <2>2, ThreadFrame
  <2>3. CASE Record(e, TRUE) /\ ThreadGo(p, i, "projecting")
    <3>1. log' = Append(log, e)
      BY <2>3 DEF Record
    <3>2. /\ log' \in Seq(Entry) /\ DOMAIN log \subseteq DOMAIN log'
          /\ \A k \in DOMAIN log : log'[k] = log[k]
          /\ Len(log) + 1 \in DOMAIN log' /\ log'[Len(log) + 1] = e
      BY <1>2, <1>3, <3>1
    <3>3. Keys(log) \subseteq Keys(log') /\ e.key \in Keys(log')
      BY <3>2 DEF Keys
    <3>4. <<e.type, e.node>> \in Keys(log')
      BY <1>2, <3>3
    <3> QED BY <1>4, <2>1, <2>3, <3>2, <3>3, <3>4, ThreadFrame
  <2>4. CASE /\ Recorded(e)
             /\ ThreadGo(p, i, IF e.node \in projected THEN "done" ELSE "projecting")
    <3>1. <<e.type, e.node>> \in Keys(log) /\ UNCHANGED log
      BY <1>2, <2>4 DEF Recorded
    <3>2. CASE e.node \in projected
      <4>1. ThreadGo(p, i, "done")
        BY <2>4, <3>2
      <4> QED BY <1>3, <1>4, <2>1, <3>1, <3>2, <4>1, ThreadFrame
    <3>3. CASE e.node \notin projected
      <4>1. ThreadGo(p, i, "projecting")
        BY <2>4, <3>3
      <4> QED BY <1>3, <1>4, <2>1, <3>1, <4>1, ThreadFrame
    <3> QED BY <3>2, <3>3
  <2> QED BY <1>5, <2>2, <2>3, <2>4 DEF ThreadAppend
<1>6. CASE ThreadProject(p, i)
  <2>1. /\ threads[p][i].at = "projecting" /\ projected' = projected \cup {e.node}
        /\ ThreadGo(p, i, "done") /\ UNCHANGED log
    BY <1>6 DEF ThreadProject
  <2>2. <<e.type, e.node>> \in Keys(log')
    BY <2>1 DEF Inv, OneInv, ThreadsInv, InLog
  <2> QED BY <1>3, <1>4, <2>1, <2>2, ThreadFrame
<1>7. CASE ThreadRaise(p, i)
  BY <1>3, <1>4, <1>7, ThreadFrame DEF ThreadRaise
<1> QED BY <1>5, <1>6, <1>7

LEMMA JoinInv ==
  ASSUME Inv, NEW p \in Process, Join(p)
  PROVE  Inv'
<1>1. pc[p] = "joining" /\ UNCHANGED <<log, projected, calls>>
  BY DEF Join
<1>2. CASE Journal(p) /\ UNCHANGED <<threads, job, result>>
  BY <1>1, <1>2, JournalStarts
<1>3. CASE Last(p).at = "done" /\ Success(p) /\ UNCHANGED journalVars
  <2> DEFINE t == Last(p)
             e == t.event
             r == [ok |-> TRUE, status |-> e.type, node |-> e.node,
                   prompt |-> IF e.type = "emitted" THEN e.node ELSE NoRow,
                   attempt |-> Attempt(job[p])]
  <2>1. /\ threads[p] \in Seq(Thread) /\ threads[p] # <<>> /\ Attempt(job[p]) \in JLine
    BY <1>1, JobHere DEF Inv, OneInv, ProcessInv
  <2>2. Len(threads[p]) \in DOMAIN threads[p]
    BY <2>1
  <2>3. t \in Thread /\ t.at = "done" /\ InLog(e.type, e.node) /\ e.node \in projected
    BY <1>3, <2>1, <2>2 DEF Last, Inv, OneInv, ThreadsInv
  <2> HIDE DEF t
  <2>4. e.type \in {"registered", "emitted", "launched"} /\ e.node \in Session \cup Row
    BY <2>3 DEF Thread, Event
  <2>5. /\ result' = [result EXCEPT ![p] = r] /\ pc' = [pc EXCEPT ![p] = "idle"]
        /\ job' = [job EXCEPT ![p] = NoJob] /\ threads' = [threads EXCEPT ![p] = <<>>]
    BY <1>3 DEF Success, Answer, Go, Attempt, t
  <2>6. /\ r \in Result /\ r.status # "failed" /\ r.status = e.type /\ r.node = e.node
        /\ r.prompt # NoRow => e.type = "emitted" /\ r.prompt = e.node
    BY <2>1, <2>4 DEF Result, Statuses
  <2> HIDE DEF r
  <2>7. result'[p] = r /\ pc'[p] = "idle" /\ job'[p] = NoJob /\ threads'[p] = <<>>
    BY <2>5, Here
  <2>8. /\ JournalInv' /\ OthersLines(p) /\ entry'[p] = "idle" /\ UNCHANGED written
    BY <1>1, <1>3, QuietJournal DEF Inv, OneInv, ProcessInv, JournalInv
  <2>9. ProcessInv(p)' /\ ThreadsInv(p)'
    BY <2>7, <2>8 DEF ProcessInv, ThreadsInv
  <2>10. ResultInv(p)'
    BY <1>1, <2>3, <2>6, <2>7 DEF ResultInv, InLog
  <2>11. Grows /\ log' \in Seq(Entry) /\ calls' \in Nat
    BY <1>1, <2>8 DEF Grows, Inv, Shapes
  <2>12. /\ <<>> \in Seq(Thread) /\ r \in Result \cup {NoResult} /\ NoJob \in Job \cup {NoJob}
         /\ OneInv(p)'
    BY <2>6, <2>9, <2>10 DEF OneInv
  <2> QED BY <2>5, <2>8, <2>11, <2>12, StepFrame
<1> QED BY <1>2, <1>3 DEF Join

LEMMA WriteJournalInv ==
  ASSUME Inv, NEW p \in Process, WriteJournal(p)
  PROVE  Inv'
<1>1. UNCHANGED <<log, projected, calls>>
  BY DEF WriteJournal
<1>2. log' \in Seq(Entry) /\ calls' \in Nat /\ JournalInv
  BY <1>1 DEF Inv, Shapes
<1>3. entry[p] # "idle" /\ pc[p] = "journaling"
  BY DEF WriteJournal, JournalRead, Prepare, JournalReplace, JournalFail, Inv, OneInv, ProcessInv
<1>4. /\ job[p] \in Job /\ threads[p] \in Seq(Thread) /\ result[p] \in Result \cup {NoResult}
      /\ line[p] = Attempt(job[p])
  BY <1>3, JobHere DEF Inv, OneInv, ProcessInv
<1>5. CASE JournalRead(p) /\ UNCHANGED <<pc, threads, job, result>>
  <2>1. /\ JournalInv' /\ OthersLines(p) /\ UNCHANGED <<line, written>>
        /\ entry'[p] = "replacing"
    BY <1>2, <1>5, ReadInv
  <2>2. ProcessInv(p)' /\ ThreadsInv(p)' /\ ResultInv(p)'
    BY <1>1, <1>3, <1>5, <2>1
       DEF Inv, OneInv, ProcessInv, ThreadsInv, ResultInv, Attempts, Attempt, InLog
  <2>3. Grows
    BY <1>1, <2>1 DEF Grows
  <2>4. /\ pc' = [pc EXCEPT ![p] = pc[p]] /\ job' = [job EXCEPT ![p] = job[p]]
        /\ threads' = [threads EXCEPT ![p] = threads[p]]
        /\ result' = [result EXCEPT ![p] = result[p]]
    BY <1>5, Here
  <2>5. /\ OneInv(p)' /\ pc[p] \in {"idle", "resolving", "joining", "journaling"}
        /\ job[p] \in Job \cup {NoJob}
    BY <1>3, <1>4, <2>2 DEF OneInv
  <2> QED BY <1>2, <1>4, <2>1, <2>3, <2>4, <2>5, StepFrame
<1>6. CASE JournalReplace(p) /\ AfterJournal(p, "failed")
  <2>1. /\ JournalInv' /\ OthersLines(p) /\ entry'[p] = "idle"
        /\ written' = Append(written, line[p]) /\ line[p] \in JLine
    BY <1>2, <1>6, ReplaceInv
  <2>2. /\ \A i \in DOMAIN written : i \in DOMAIN written' /\ written'[i] = written[i]
        /\ Len(written) + 1 \in DOMAIN written' /\ written'[Len(written) + 1] = line[p]
    BY <1>2, <2>1 DEF JournalInv
  <2>3. Grows
    BY <1>1, <2>2 DEF Grows
  <2>4. \E i \in DOMAIN written' : Attempt(written'[i]) = Attempt(job[p])
    BY <1>4, <2>2 DEF Attempt
  <2>5. IF Launching(p) THEN Fallback(p) ELSE Failure(p, "failed")
    BY <1>6 DEF AfterJournal
  <2> QED BY <1>1, <1>3, <2>1, <2>3, <2>4, <2>5, FailureInv
<1>7. CASE JournalFail(p) /\ AfterJournal(p, "stderr")
  <2>1. JournalInv' /\ OthersLines(p) /\ entry'[p] = "idle" /\ UNCHANGED written
    BY <1>2, <1>7, EndInv DEF JournalFail
  <2>2. Grows
    BY <1>1, <2>1 DEF Grows
  <2>3. IF Launching(p) THEN Fallback(p) ELSE Failure(p, "stderr")
    BY <1>7 DEF AfterJournal
  <2> QED BY <1>1, <1>3, <2>1, <2>2, <2>3, FailureInv
<1> QED BY <1>5, <1>6, <1>7 DEF WriteJournal

LEMMA CrashInv ==
  ASSUME Inv, NEW p \in Process, Crash(p)
  PROVE  Inv'
<1>1. /\ pc' = [pc EXCEPT ![p] = "idle"] /\ job' = [job EXCEPT ![p] = NoJob]
      /\ threads' = [threads EXCEPT ![p] = <<>>] /\ JournalEnd(p)
      /\ UNCHANGED <<log, projected, result, calls, journal, written>>
  BY DEF Crash, Go
<1>2. JournalInv' /\ OthersLines(p) /\ entry'[p] = "idle"
  BY <1>1, EndInv DEF Inv
<1>3. /\ pc'[p] = "idle" /\ job'[p] = NoJob /\ threads'[p] = <<>>
      /\ result' = [result EXCEPT ![p] = result[p]]
  BY <1>1, Here
<1>4. ProcessInv(p)' /\ ThreadsInv(p)'
  BY <1>2, <1>3 DEF ProcessInv, ThreadsInv
<1>5. ResultInv(p)'
  BY <1>1 DEF Inv, OneInv, ResultInv, InLog, Attempt
<1>6. Grows /\ log' \in Seq(Entry) /\ calls' \in Nat
  BY <1>1 DEF Grows, Inv, Shapes
<1>7. /\ <<>> \in Seq(Thread) /\ NoJob \in Job \cup {NoJob} /\ OneInv(p)'
      /\ result[p] \in Result \cup {NoResult}
  BY <1>4, <1>5 DEF OneInv, Inv, Shapes
<1> QED BY <1>1, <1>2, <1>3, <1>6, <1>7, StepFrame
-----------------------------------------------------------------------------
LEMMA InitInv == Init => Inv
<1> SUFFICES ASSUME Init PROVE Inv
  OBVIOUS
<1>1. Shapes
  BY LogsAssumption DEF Init, Shapes, Entry
<1>2. JournalInv
  <2>1. <<>> \in Seq(JLine) /\ Newest(<<>>) = <<>>
    BY MaxLinesAssumption DEF Newest
  <2> QED BY <2>1, NoProcessAssumption DEF Init, JournalInit, JournalInv, JournalKeepsNewest
<1>3. \A p \in Process : OneInv(p)
  BY DEF Init, JournalInit, OneInv, ProcessInv, ThreadsInv, ResultInv, NoResult
<1> QED BY <1>1, <1>2, <1>3 DEF Inv

LEMMA NextInv == Inv /\ [Next]_vars => Inv'
<1> SUFFICES ASSUME Inv, [Next]_vars PROVE Inv'
  OBVIOUS
<1>1. CASE UNCHANGED vars
  <2>1. /\ Shapes' /\ JournalInv'
    BY <1>1 DEF vars, workVars, journalVars, Inv, Shapes, JournalInv, JournalKeepsNewest, Newest
  <2>2. Grows /\ \A p \in Process :
          /\ pc'[p] = pc[p] /\ job'[p] = job[p] /\ threads'[p] = threads[p]
          /\ result'[p] = result[p] /\ entry'[p] = entry[p] /\ line'[p] = line[p]
    BY <1>1 DEF vars, workVars, journalVars, Grows
  <2> QED BY <2>1, <2>2, StaysInv DEF Inv
<1>2. ASSUME NEW p \in Process, Main(p) PROVE Inv'
  BY <1>2, DisabledInv, FailEarlyInv, StartThreadInv, JoinInv, JoinTimeoutInv,
     WriteJournalInv DEF Main
<1>3. ASSUME NEW p \in Process, Daemon(p) PROVE Inv'
  BY <1>3, DaemonInv DEF Daemon
<1> QED BY <1>1, <1>2, <1>3, CallInv, CrashInv DEF Next

LEMMA InvHolds == Spec => []Inv
<1> QED BY InitInv, NextInv, PTL DEF Spec

\* The shape of a process: what it journals, which threads it has, and who holds
\* the lock of the journal.
THEOREM TypesHold == Spec => []TypeOK
<1>1. Inv => TypeOK
  <2> SUFFICES ASSUME Inv PROVE TypeOK
    OBVIOUS
  <2>1. ASSUME NEW p \in Process PROVE Len(threads[p]) <= 2
    <3>1. CASE threads[p] = <<>>
      BY <3>1
    <3>2. CASE threads[p] # <<>>
      <4>1. pc[p] # "idle" /\ threads[p] \in Seq(Thread)
        BY <3>2 DEF Inv, Shapes, OneInv, ProcessInv
      <4>2. Len(threads[p]) <= Attempts(p) /\ Len(threads[p]) \in Nat
        BY <4>1 DEF Inv, OneInv, ProcessInv
      <4>3. Attempts(p) \in {0, 1, 2}
        BY DEF Attempts
      <4> QED BY <4>2, <4>3
    <3> QED BY <3>1, <3>2
  <2>2. Len(journal) <= MaxLines
    BY NewestIsText DEF Inv, JournalInv, JournalKeepsNewest
  <2> QED BY <2>1, <2>2 DEF TypeOK, Inv, Shapes, OneInv, ProcessInv, JournalInv
<1> QED BY <1>1, InvHolds, PTL

\* The journal holds the newest lines that were written, whoever appends at once
\* and wherever writers die.
THEOREM NewestAreKept == Spec => []JournalKeepsNewest
<1>1. Inv => JournalKeepsNewest
  BY DEF Inv, JournalInv
<1> QED BY <1>1, InvHolds, PTL

\* A call that answers success has its event in the log and its fragment, also
\* when its thread was given up or overtaken.
THEOREM SuccessesAreBacked == Spec => []SuccessIsBacked
<1>1. Inv => SuccessIsBacked
  BY DEF Inv, OneInv, ResultInv, SuccessIsBacked
<1> QED BY <1>1, InvHolds, PTL

\* A call that answers failure has its line in the journal, or newer lines have
\* pushed it out.
THEOREM FailuresAreOnRecord == Spec => []FailureIsOnRecord
<1>1. Inv => FailureIsOnRecord
  <2> SUFFICES ASSUME Inv, NEW p \in Process, result[p].status = "failed"
               PROVE  \E i \in DOMAIN written :
                        /\ Attempt(written[i]) = result[p].attempt
                        /\ \/ i + MaxLines <= Len(written)
                           \/ \E j \in DOMAIN journal : Attempt(journal[j]) = result[p].attempt
    BY DEF FailureIsOnRecord, Attempt
  <2>1. PICK i \in DOMAIN written : Attempt(written[i]) = result[p].attempt
    BY DEF Inv, OneInv, ResultInv
  <2>2. /\ written \in Seq(JLine) /\ journal = Newest(written) /\ i \in Nat /\ 1 <= i
        /\ i <= Len(written) /\ MaxLines \in Nat /\ Len(written) \in Nat
    BY <2>1, MaxLinesAssumption DEF Inv, JournalInv, JournalKeepsNewest
  <2>3. CASE Len(written) <= MaxLines
    BY <2>1, <2>2, <2>3, ShortIsKept
  <2>4. CASE Len(written) > MaxLines /\ i + MaxLines > Len(written)
    <3> DEFINE j == i - (Len(written) - MaxLines)
    <3>1. j \in 1 .. MaxLines /\ Len(written) - MaxLines + j = i
      BY <2>2, <2>4
    <3> HIDE DEF j
    <3>2. journal[j] = written[i] /\ DOMAIN journal = 1 .. MaxLines
      BY <2>2, <2>4, <3>1, LongIsCut
    <3> QED BY <2>1, <3>1, <3>2
  <2> QED BY <2>1, <2>2, <2>3, <2>4
<1> QED BY <1>1, InvHolds, PTL
=============================================================================
