------------------------------- MODULE Exporters -------------------------------
(***************************************************************************)
(* The ends of the pipeline: ExportDispatcher (internal/analyzer/          *)
(* dispatcher/dispatcher.go), called by the workers of the export queue,   *)
(* and the exporters of CSV files (internal/analyzer/exporter), two of     *)
(* them behind the dispatcher and the Top-N one used by the poll loop of   *)
(* the monitor alone (internal/monitor/monitor.go).                        *)
(*                                                                         *)
(* Handle holds the dispatcher's RWMutex for reading and the exporter's    *)
(* mutex for the whole message.  A batch is sorted by SUPI and written row *)
(* by row, each row flushed; the first error ends the batch.  The error of *)
(* a bufio.Writer stays: every later row of that file fails, and nothing   *)
(* more of it reaches the disk.                                            *)
(*                                                                         *)
(* A message has a rank for each of its entries: the SUPI of each record   *)
(* of a batch, that of a result, or the bytes of each key of a Top-N map,  *)
(* in the order of the map's iteration.  A row has the entries written on  *)
(* one line, each with its position in the message.                        *)
(***************************************************************************)
EXTENDS Integers, Sequences, FiniteSets, FiniteSetsExt, SequencesExt

CONSTANTS Workers,  \* the workers of the export queue
          Monitor,  \* the poll loop
          Messages  \* what they are given to export

Files == {"traffic", "inference", "topn"}

ASSUME ExportersAssumption ==
  /\ IsFiniteSet(Workers) /\ Monitor \notin Workers
  /\ \A m \in Messages :
       /\ DOMAIN m = {"id", "file", "ranks"}
       /\ m.file \in Files /\ m.ranks \in Seq(Nat)
       /\ m.file = "traffic" => m.ranks # <<>>
       /\ m.file = "inference" => Len(m.ranks) = 1

Writers == Workers \cup {Monitor}

VARIABLES exporter, \* is there an exporter for each file, or none?
          file,     \* the rows on disk, after the header
          broken,   \* its writer has met an error
          open,     \* it has not been closed
          pc, job,  \* each writer: its step, and the message it exports
          todo,     \* messages still to come
          verdict,  \* what Handle (or Export) returned for each
          stopper,  \* Shutdown of the dispatcher
          alive     \* the program has not panicked

fileVars == <<file, broken, open>>
vars == <<exporter, fileVars, pc, job, todo, verdict, stopper, alive>>

NoJob == [items |-> <<>>]
Items(m) == [k \in DOMAIN m.ranks |-> [pos |-> k, rank |-> m.ranks[k]]]

\* An exporter that could not be created, or is not configured, is a stub or
\* nil.  The header is flushed without a look at the writer's error.
Init ==
  /\ exporter \in [Files -> {"csv", "none"}]
  /\ broken \in [Files -> BOOLEAN]
  /\ \A f \in Files : broken[f] => exporter[f] = "csv"
  /\ file = [f \in Files |-> <<>>]
  /\ open = [f \in Files |-> TRUE]
  /\ pc = [w \in Writers |-> "idle"]
  /\ job = [w \in Writers |-> NoJob]
  /\ todo = Messages
  /\ verdict = [m \in Messages |-> "none"]
  /\ stopper = "no"
  /\ alive = TRUE

----------------------------------------------------------------------------
(***************************************************************************)
(* Handle.  A writer that waits for the RWMutex keeps new readers out.     *)
(***************************************************************************)
Readable == stopper \in {"no", "closed"}

Start(w, m, step) ==
  /\ pc[w] = "idle"
  /\ m \in todo
  /\ todo' = todo \ {m}
  /\ pc' = [pc EXCEPT ![w] = step]
  /\ job' = [job EXCEPT ![w] = [msg |-> m, items |-> Items(m), at |-> <<1, 2>>]]
  /\ UNCHANGED <<exporter, fileVars, verdict, stopper, alive>>

Handle(w, m) ==
  /\ m.file # "topn"
  /\ exporter[m.file] = "csv"
  /\ Readable
  /\ Start(w, m, "lock")

\* StubExporter, or no inference exporter: success.
HandleNoExporter(w, m) ==
  /\ m.file # "topn"
  /\ exporter[m.file] = "none"
  /\ Readable
  /\ pc[w] = "idle"
  /\ m \in todo
  /\ todo' = todo \ {m}
  /\ verdict' = [verdict EXCEPT ![m] = "ok"]
  /\ UNCHANGED <<exporter, fileVars, pc, job, stopper, alive>>

Exporting(w, f) == pc[w] \in {"sort", "write"} /\ job[w].msg.file = f

FirstStep(items) == IF Len(items) < 2 THEN "write" ELSE "sort"

\* Mutant: the exporter has no mutex.
LockNothing(w) ==
  /\ pc[w] = "lock"
  /\ pc' = [pc EXCEPT ![w] = FirstStep(job[w].items)]
  /\ UNCHANGED <<exporter, fileVars, job, todo, verdict, stopper, alive>>

\* e.mu.Lock() of Export.
Lock(w) ==
  /\ pc[w] = "lock"
  /\ \A v \in Writers : ~ Exporting(v, job[w].msg.file)
  /\ pc' = [pc EXCEPT ![w] = FirstStep(job[w].items)]
  /\ UNCHANGED <<exporter, fileVars, job, todo, verdict, stopper, alive>>

----------------------------------------------------------------------------
(***************************************************************************)
(* Export.  Both sorts are the same loops over the pairs i < j: records in *)
(* ascending order of SUPI, entries of a Top-N map in descending order of  *)
(* bytes, cut after the third.                                             *)
(***************************************************************************)
After(f, x, y) == IF f = "topn" THEN y.rank > x.rank ELSE x.rank > y.rank

\* Mutant: j starts at i + 2.
SortBeyondNext(w) ==
  LET items == job[w].items
      i == job[w].at[1]
      j == job[w].at[2]
      next == IF j < Len(items) THEN <<i, j + 1>> ELSE <<i + 1, i + 3>>
  IN /\ pc[w] = "sort"
     /\ job' = [job EXCEPT ![w].at = next, ![w].items =
                 IF After(job[w].msg.file, items[i], items[j])
                 THEN [items EXCEPT ![i] = items[j], ![j] = items[i]] ELSE items]
     /\ pc' = [pc EXCEPT ![w] = IF next[2] > Len(items) THEN "write" ELSE "sort"]
     /\ UNCHANGED <<exporter, fileVars, todo, verdict, stopper, alive>>

Sort(w) ==
  LET items == job[w].items
      i == job[w].at[1]
      j == job[w].at[2]
      next == IF j < Len(items) THEN <<i, j + 1>> ELSE <<i + 1, i + 2>>
  IN /\ pc[w] = "sort"
     /\ job' = [job EXCEPT ![w].at = next, ![w].items =
                 IF After(job[w].msg.file, items[i], items[j])
                 THEN [items EXCEPT ![i] = items[j], ![j] = items[i]] ELSE items]
     /\ pc' = [pc EXCEPT ![w] = IF next[2] > Len(items) THEN "write" ELSE "sort"]
     /\ UNCHANGED <<exporter, fileVars, todo, verdict, stopper, alive>>

\* The entries of the next line, and what is left for the ones after it.
Line(w) == IF job[w].msg.file = "topn" THEN SubSeq(job[w].items, 1, Min({3, Len(job[w].items)}))
           ELSE SubSeq(job[w].items, 1, 1)
Rest(w) == IF job[w].msg.file = "topn" THEN <<>> ELSE Tail(job[w].items)

Writing(w, f) == pc[w] = "write" /\ job[w].msg.file = f /\ exporter[f] = "csv"

Return(w, v) ==
  /\ verdict' = [verdict EXCEPT ![job[w].msg] = v]
  /\ pc' = [pc EXCEPT ![w] = "idle"]
  /\ job' = [job EXCEPT ![w] = NoJob]

Row(w, torn) == [msg |-> job[w].msg, items |-> Line(w), torn |-> torn]

WriteRow(w, f) ==
  /\ Writing(w, f)
  /\ open[f] /\ ~ broken[f]
  /\ file' = [file EXCEPT ![f] = Append(@, Row(w, FALSE))]
  /\ IF Rest(w) = <<>> THEN Return(w, "ok")
     ELSE /\ job' = [job EXCEPT ![w].items = Rest(w)]
          /\ UNCHANGED <<pc, verdict>>
  /\ UNCHANGED <<exporter, broken, open, todo, stopper, alive>>

\* The disk is full, say: some of the row may have been written.
DiskFails(w, f) ==
  /\ Writing(w, f)
  /\ open[f] /\ ~ broken[f]
  /\ broken' = [broken EXCEPT ![f] = TRUE]
  /\ \/ UNCHANGED file
     \/ file' = [file EXCEPT ![f] = Append(@, Row(w, TRUE))]
  /\ Return(w, "failed")
  /\ UNCHANGED <<exporter, open, todo, stopper, alive>>

\* Mutant: the error of the writer is not asked for.
IgnoreError(w, f) ==
  /\ Writing(w, f)
  /\ broken[f] \/ ~ open[f]
  /\ broken' = [broken EXCEPT ![f] = TRUE]
  /\ Return(w, "ok")
  /\ UNCHANGED <<exporter, file, open, todo, stopper, alive>>

\* The writer's first error is returned again, or the file is closed.
WriterFails(w, f) ==
  /\ Writing(w, f)
  /\ broken[f] \/ ~ open[f]
  /\ broken' = [broken EXCEPT ![f] = TRUE]
  /\ Return(w, "failed")
  /\ UNCHANGED <<exporter, file, open, todo, stopper, alive>>

Worker(w) ==
  \/ \E m \in Messages : Handle(w, m) \/ HandleNoExporter(w, m)
  \/ Lock(w)

Export(w) ==
  \/ Sort(w)
  \/ \E f \in Files : WriteRow(w, f) \/ DiskFails(w, f) \/ WriterFails(w, f)

----------------------------------------------------------------------------
(***************************************************************************)
(* The poll loop: getTop3 of what ReadAndResetTopStats has read, and the   *)
(* export of it.  The monitor keeps the exporter it failed to create as a  *)
(* nil *TopNExporter in an interface, which is not equal to nil, so that   *)
(* Export and Shutdown are called on it and fail at e.mu.                  *)
(***************************************************************************)
Poll(m) == m.file = "topn" /\ Start(Monitor, m, FirstStep(Items(m)))

Panic ==
  /\ exporter["topn"] = "none"
  /\ pc[Monitor] \in {"idle", "write"}  \* Shutdown or Export
  /\ alive' = FALSE
  /\ UNCHANGED <<exporter, fileVars, pc, job, todo, verdict, stopper>>

\* Stop waits for the loop to end.
StopMonitor ==
  /\ pc[Monitor] = "idle"
  /\ exporter["topn"] = "csv"
  /\ pc' = [pc EXCEPT ![Monitor] = "off"]
  /\ open' = [open EXCEPT !["topn"] = FALSE]
  /\ UNCHANGED <<exporter, file, broken, job, todo, verdict, stopper, alive>>

----------------------------------------------------------------------------
(***************************************************************************)
(* Shutdown of the dispatcher.                                             *)
(***************************************************************************)
CallShutdown ==
  /\ stopper = "no"
  /\ stopper' = "waiting"
  /\ UNCHANGED <<exporter, fileVars, pc, job, todo, verdict, alive>>

\* Mutant: the files are closed under the exporters' mutexes only.
CloseUnlocked ==
  /\ stopper = "waiting"
  /\ stopper' = "closed"
  /\ open' = [f \in Files |-> open[f] /\ f = "topn"]
  /\ UNCHANGED <<exporter, file, broken, pc, job, todo, verdict, alive>>

Close ==
  /\ stopper = "waiting"
  /\ \A w \in Workers : pc[w] = "idle"
  /\ stopper' = "closed"
  /\ open' = [f \in Files |-> open[f] /\ f = "topn"]
  /\ UNCHANGED <<exporter, file, broken, pc, job, todo, verdict, alive>>

Step ==
  \/ \E w \in Workers : Worker(w)
  \/ \E w \in Writers : Export(w)
  \/ \E m \in Messages : Poll(m)
  \/ Panic \/ StopMonitor \/ CallShutdown \/ Close

\* Every message for a worker handled and every file closed, or a panic.
Ended ==
  \/ ~ alive
  \/ /\ \A m \in todo : m.file = "topn"
     /\ \A w \in Workers : pc[w] = "idle"
     /\ pc[Monitor] = "off"
     /\ stopper = "closed"

Over == Ended /\ UNCHANGED vars

Next == (alive /\ Step) \/ Over

Spec == Init /\ [][Next]_vars

----------------------------------------------------------------------------
(***************************************************************************)
(* Properties.                                                             *)
(***************************************************************************)
Entry == [pos : Nat, rank : Nat]
RowsOf == [msg : Messages, items : Seq(Entry), torn : BOOLEAN]
Jobs == [msg : Messages, items : Seq(Entry), at : Nat \X Nat]

TypeOK ==
  /\ exporter \in [Files -> {"csv", "none"}]
  /\ file \in [Files -> Seq(RowsOf)]
  /\ \A f \in Files : \A k \in DOMAIN file[f] : file[f][k].msg.file = f
  /\ {broken, open} \subseteq [Files -> BOOLEAN]
  /\ pc \in [Writers -> {"idle", "lock", "sort", "write", "off"}]
  /\ job \in [Writers -> Jobs \cup {NoJob}]
  /\ \A w \in Writers : IF pc[w] \in {"idle", "off"} THEN job[w] = NoJob ELSE job[w] \in Jobs
  /\ todo \subseteq Messages
  /\ verdict \in [Messages -> {"none", "ok", "failed"}]
  /\ stopper \in {"no", "waiting", "closed"}
  /\ alive \in BOOLEAN

Entries(m, f) == FlattenSeq([k \in DOMAIN file[f] |->
                   IF file[f][k].msg = m /\ ~ file[f][k].torn THEN file[f][k].items ELSE <<>>])

Busy(w) == pc[w] \notin {"idle", "off"}

\* There is a row of the message, torn or not.
HasRow(m) == \E k \in DOMAIN file[m.file] : file[m.file][k].msg = m

AllOf(m) == Range(Items(m))

\* The sort is past the pairs before <<i, j>>.
SortedUpTo(m, s, i, j) ==
  /\ Range(s) = AllOf(m) /\ IsInjective(s)
  /\ \A k, l \in DOMAIN s : k < l /\ (k < i \/ (k = i /\ l < j)) => ~ After(m.file, s[k], s[l])

Sorted(m, s) == SortedUpTo(m, s, Len(s) + 1, 0)

\* What a writer has written of its message, and what it still holds.
WrittenAndHeld(w) == Entries(job[w].msg, job[w].msg.file) \o job[w].items

\* What a writer holds: the entries of its message, sorted as far as it has
\* come.  While it writes, they follow the rows it has written.
JobFits(w) ==
  LET m == job[w].msg
      s == job[w].items
  IN /\ m \notin todo /\ verdict[m] = "none"
     /\ m.file = "topn" <=> w = Monitor
     /\ pc[w] = "lock" => w # Monitor /\ s = Items(m) /\ job[w].at = <<1, 2>>
     /\ pc[w] = "sort" => /\ 0 < job[w].at[1] /\ job[w].at[1] < job[w].at[2] /\ job[w].at[2] <= Len(s)
                          /\ SortedUpTo(m, s, job[w].at[1], job[w].at[2])
     /\ pc[w] = "write" /\ m.file # "topn" => s # <<>> /\ Sorted(m, WrittenAndHeld(w))
     /\ pc[w] = "write" /\ m.file = "topn" => Sorted(m, s)
     /\ pc[w] # "write" \/ m.file = "topn" => ~ HasRow(m)

\* A file has one writer at a time, and is never closed in the middle of a
\* message: a worker that meets a closed file has written nothing of its
\* message (Shutdown of the dispatcher waits for Handle, Stop of the monitor
\* for its loop).
OneWriter ==
  /\ \A v, w \in Writers, f \in Files : Exporting(v, f) /\ Exporting(w, f) => v = w
  /\ \A v, w \in Writers : Busy(v) /\ Busy(w) /\ job[v].msg = job[w].msg => v = w
  /\ \A w \in Writers, f \in Files : Exporting(w, f) /\ ~ open[f] => ~ HasRow(job[w].msg)

\* Rows are those of messages that are over, or of the one being written,
\* which come last.  Nothing follows a row that was cut short.
RowsFit ==
  \A f \in Files : \A k \in DOMAIN file[f] :
    LET m == file[f][k].msg
    IN /\ verdict[m] # "none" \/ \E w \in Writers : pc[w] = "write" /\ job[w].msg = m
       /\ verdict[m] = "none" => \A l \in k..Len(file[f]) : file[f][l].msg = m
       /\ file[f][k].torn => broken[f] /\ k = Len(file[f])

Inductive ==
  /\ TypeOK
  /\ pc[Monitor] # "lock" /\ \A w \in Workers : pc[w] # "off"
  /\ \A w \in Writers : Busy(w) => JobFits(w)
  /\ \A m \in todo : verdict[m] = "none" /\ ~ HasRow(m)
  /\ OneWriter
  /\ RowsFit

InOrder(m, s) == \A k \in 1..(Len(s) - 1) : ~ After(m.file, s[k], s[k + 1])

\* However many workers export, a file has the rows of one message after
\* those of another: the rows of a batch follow each other in order of SUPI,
\* none of them twice, those that are missing at its end come later in that
\* order, and only the last batch of a file can be cut short.  A row of the
\* Top-N file has the three largest entries, the largest first, or all.
SortedAndWhole ==
  \A f \in Files : \A k \in DOMAIN file[f] :
    LET m == file[f][k].msg
        s == Entries(m, f)
    IN /\ InOrder(m, s)
       /\ Range(s) \subseteq AllOf(m) /\ Cardinality(Range(s)) = Len(s)
       /\ \A x \in Range(s), y \in AllOf(m) \ Range(s) : ~ After(f, x, y)
       /\ k < Len(file[f]) /\ file[f][k + 1].msg # m =>
            /\ IF f = "topn" THEN Len(s) = 3 \/ Range(s) = AllOf(m) ELSE Range(s) = AllOf(m)
            /\ \A l \in (k + 1)..Len(file[f]) : file[f][l].msg # m

\* A message is reported as exported only if all of it is on the disk (a stub
\* has none), and a file gets nothing more once a message of it has failed:
\* what is reported and what is in the file agree whatever the disk does and
\* whenever the files are closed.
ReportedIsWritten ==
  \A m \in Messages :
    /\ verdict[m] = "ok" /\ exporter[m.file] = "csv" =>
         IF m.file = "topn" THEN \E k \in DOMAIN file["topn"] :
                                    file["topn"][k].msg = m /\ ~ file["topn"][k].torn
         ELSE Range(Entries(m, m.file)) = AllOf(m)
    /\ verdict[m] = "failed" => broken[m.file]

=============================================================================
