------------------------------ MODULE Pipeline ------------------------------
(***************************************************************************)
(* A window's way from ReadAndReset to the CSV files: the poll loop        *)
(* (pollAndSend, internal/monitor/monitor.go) with the UE table that the   *)
(* SMF client replaces meanwhile (smf_client.go), featureChan, the flow    *)
(* analyzer (processBatch, analyzer.go), the export and inference queues   *)
(* with their workers, HandleBatch and the dispatcher.                     *)
(*                                                                         *)
(* Two of the parts are abstractions of modules of their own.  A queue's   *)
(* worker here takes a message and handles it, or, as one that has left,   *)
(* takes none any more (BaseQueue has its selects and Stop); an inference  *)
(* worker has the results of its batch after one step (AnomalyDetector has *)
(* the requests).  Both queues are shown to keep AtMostOnceQueue.          *)
(*                                                                         *)
(* Polls are numbered by the windows they read.  The message <<p, 0>> is   *)
(* the batch of poll p on its way to the traffic file, <<p, i>> its i-th   *)
(* result, in the order of SUPIs, on its way to the inference file.  Rows, *)
(* and errors of the files, which are logged, are left out; a write that   *)
(* hangs is not.                                                           *)
(***************************************************************************)
EXTENDS Naturals, SequencesExt, FiniteSets

CONSTANTS Ips,
          Tables,      \* the tables an answer of the SMF may make: IP to SUPI
          Unknown,     \* the SUPI of an address that is not in the table
          FeatureCap, ExportCap, InferCap, \* the capacities of the channels
          Exporters, Inferers,             \* the workers of the two queues
          DetectorEnabled,
          MaxPolls, MaxRefreshes           \* bounds of the model

ASSUME PipelineAssumption ==
  /\ IsFiniteSet(Ips) /\ Unknown \in Nat
  /\ IsFiniteSet(Exporters) /\ IsFiniteSet(Inferers)
  /\ \A t \in Tables : DOMAIN t \subseteq Ips /\ \A ip \in DOMAIN t : t[ip] \in 0..(Unknown - 1)
  /\ {FeatureCap, ExportCap, InferCap} \subseteq Nat \ {0}
  /\ DetectorEnabled \in BOOLEAN
  /\ MaxPolls \in Nat /\ MaxRefreshes \in Nat

VARIABLES ctxDone,
          table, refreshes,    \* the UE table; how often it was replaced
          mon, ips, batch,     \* the poll loop, the addresses to come, the records so far
          known,               \* history: the table when the poll read the
                               \* addresses, and is it still the same?
          polls, size,         \* how many windows were read, and their BatchSize
          featureChan,
          ana, pollCounter, pollId, \* the analyzer: its step and batch, PollIDs
          exportQ, exporting, handled, \* the export queue, what each worker
                               \* holds, how often each message was handled
          inferQ, inferring, scored,   \* the same of the inference queue
          dropped              \* history: the windows read while no UE was
                               \* known ("empty"), and what was refused, by
                               \* "feature", "export" and "infer"

monVars == <<mon, ips, batch, known, polls, size>>
smfVars == <<table, refreshes>>
anaVars == <<ana, pollCounter, pollId>>
expVars == <<exporting, handled>>
infVars == <<inferring, scored>>
vars == <<ctxDone, smfVars, monVars, featureChan, anaVars, exportQ, expVars,
          inferQ, infVars, dropped>>

Polls == 1..MaxPolls
Msgs == Polls \X (0..Cardinality(Ips))
NoMsg == <<0, 0>>
NoPoll == 0

Records == [ip : Ips, supi : 0..Unknown]
Nothing == [table |-> <<>>, same |-> TRUE]

Init ==
  /\ ctxDone = FALSE
  /\ table \in Tables \cup {<<>>} /\ refreshes = 0
  /\ mon = "idle" /\ ips = <<>> /\ batch = <<>>
  /\ known = Nothing
  /\ polls = 0 /\ size = [p \in Polls |-> 0]
  /\ featureChan = <<>>
  /\ ana = [pc |-> "idle", poll |-> NoPoll]
  /\ pollCounter = 0 /\ pollId = [p \in Polls |-> 0]
  /\ exportQ = <<>> /\ exporting = [w \in Exporters |-> NoMsg]
  /\ handled = [m \in Msgs |-> 0]
  /\ inferQ = <<>> /\ inferring = [w \in Inferers |-> NoMsg]
  /\ scored = [p \in Polls |-> 0]
  /\ dropped = [empty |-> {}, feature |-> {}, export |-> {}, infer |-> {}]

----------------------------------------------------------------------------
(***************************************************************************)
(* The SMF client.  A fetch that fails leaves the table as it is, a 404    *)
(* makes it empty.  Its context is its own, cancelled by its Stop.         *)
(***************************************************************************)
Refresh ==
  /\ refreshes < MaxRefreshes
  /\ refreshes' = refreshes + 1
  /\ table' \in Tables \cup {<<>>}
  /\ known' = [known EXCEPT !.same = mon = "polling" => @ /\ table' = table]
  /\ UNCHANGED <<ctxDone, mon, ips, batch, polls, size, featureChan, anaVars,
                 exportQ, expVars, inferQ, infVars, dropped>>

----------------------------------------------------------------------------
(***************************************************************************)
(* The poll loop.                                                          *)
(***************************************************************************)
OnlyMonitor == UNCHANGED <<ctxDone, smfVars, anaVars, exportQ, expVars, inferQ, infVars>>

\* A tick and ReadAndReset: the window's metrics are read and deleted.  One
\* that fails ends the poll, and has deleted nothing yet.
Poll ==
  /\ mon = "idle"
  /\ polls < MaxPolls
  /\ polls' = polls + 1
  /\ mon' = "topn"
  /\ UNCHANGED <<ips, batch, known, size, featureChan, dropped>>
  /\ OnlyMonitor

\* The Top-N row is written and flushed by the loop itself, and it goes on
\* when the disk has answered, with an error or not.  The exporter's mutex
\* is always free: only Shutdown shares it, when the loop has ended.
TopNReturns ==
  /\ mon = "topn"
  /\ mon' = "list"
  /\ UNCHANGED <<ips, batch, known, polls, size, featureChan, dropped>>
  /\ OnlyMonitor

Sorted(t, s) == \A i, j \in DOMAIN s : i < j => t[s[i]] <= t[s[j]]

\* Mutant: in the order in which the map yields the addresses.
InMapOrder(t) == SetToSeqs(DOMAIN t)

\* GetAllUeIps: by SUPI, and addresses of one SUPI in any order.
AllUeIps(t) == {s \in SetToSeqs(DOMAIN t) : Sorted(t, s)}

ListUes ==
  /\ mon = "list"
  /\ table # <<>>
  /\ mon' = "polling"
  /\ ips' \in AllUeIps(table)
  /\ batch' = <<>>
  /\ known' = [table |-> table, same |-> TRUE]
  /\ UNCHANGED <<polls, size, featureChan, dropped>>
  /\ OnlyMonitor

\* The poll ends early, and what ReadAndReset returned is lost.
NoUes ==
  /\ mon = "list"
  /\ table = <<>>
  /\ mon' = "idle"
  /\ dropped' = [dropped EXCEPT !.empty = @ \cup {polls}]
  /\ UNCHANGED <<ips, batch, known, polls, size, featureChan>>
  /\ OnlyMonitor

GetSupi(ip) == IF ip \in DOMAIN table THEN table[ip] ELSE Unknown

\* The record of the next address.
NextRecord ==
  /\ mon = "polling"
  /\ ips # <<>>
  /\ batch' = Append(batch, [ip |-> Head(ips), supi |-> GetSupi(Head(ips))])
  /\ ips' = Tail(ips)
  /\ UNCHANGED <<mon, known, polls, size, featureChan, dropped>>
  /\ OnlyMonitor

BatchBuilt ==
  /\ mon = "polling"
  /\ ips = <<>>
  /\ mon' = "idle"
  /\ batch' = <<>>
  /\ size' = [size EXCEPT ![polls] = Len(batch)]
  /\ known' = Nothing
  /\ UNCHANGED <<ips, polls>>
  /\ OnlyMonitor

Send ==
  /\ BatchBuilt
  /\ Len(featureChan) < FeatureCap
  /\ featureChan' = Append(featureChan, polls)
  /\ UNCHANGED dropped

\* Mutant: the select has no default branch, the send waits for room.
NoDefault == FALSE

\* The default branch of the select.
Drop ==
  /\ BatchBuilt
  /\ Len(featureChan) = FeatureCap
  /\ dropped' = [dropped EXCEPT !.feature = @ \cup {polls}]
  /\ UNCHANGED featureChan

MonitorLeaves ==
  /\ ctxDone
  /\ mon = "idle"
  /\ mon' = "gone"
  /\ UNCHANGED <<ips, batch, known, polls, size, featureChan, dropped>>
  /\ OnlyMonitor

Monitor == Poll \/ ListUes \/ NoUes \/ NextRecord \/ Send \/ Drop \/ MonitorLeaves

----------------------------------------------------------------------------
(***************************************************************************)
(* The two queues: Enqueue's send, its default, or the error of a queue    *)
(* that was told to stop, as all are some time after the context is done.  *)
(***************************************************************************)
Refusing(queue, capacity) == Len(queue) = capacity \/ ctxDone

\* Mutant: the oldest message makes room.
DropOldest(m) ==
  /\ exportQ' = Append(IF Len(exportQ) < ExportCap THEN exportQ ELSE Tail(exportQ), m)
  /\ UNCHANGED dropped

EnqueueExport(m) ==
  \/ /\ Len(exportQ) < ExportCap
     /\ exportQ' = Append(exportQ, m)
     /\ UNCHANGED dropped
  \/ /\ Refusing(exportQ, ExportCap)
     /\ dropped' = [dropped EXCEPT !.export = @ \cup {m}]
     /\ UNCHANGED exportQ

EnqueueBatch(p) ==
  \/ /\ Len(inferQ) < InferCap
     /\ inferQ' = Append(inferQ, p)
     /\ UNCHANGED dropped
  \/ /\ Refusing(inferQ, InferCap)
     /\ dropped' = [dropped EXCEPT !.infer = @ \cup {p}]
     /\ UNCHANGED inferQ

----------------------------------------------------------------------------
(***************************************************************************)
(* The flow analyzer: processBatch, in three steps.                        *)
(***************************************************************************)
OnlyAnalyzer == UNCHANGED <<ctxDone, smfVars, monVars, expVars, infVars>>

\* Mutant: the counter is incremented after it is used.
AnalyzeThenCount ==
  /\ ana.pc = "idle"
  /\ featureChan # <<>>
  /\ ana' = [pc |-> "export", poll |-> Head(featureChan)]
  /\ featureChan' = Tail(featureChan)
  /\ pollCounter' = pollCounter + 1
  /\ pollId' = [pollId EXCEPT ![Head(featureChan)] = pollCounter]
  /\ UNCHANGED <<exportQ, inferQ, dropped>>
  /\ OnlyAnalyzer

\* The batch gets its PollID and its global statistics.
Analyze ==
  /\ ana.pc = "idle"
  /\ featureChan # <<>>
  /\ ana' = [pc |-> "export", poll |-> Head(featureChan)]
  /\ featureChan' = Tail(featureChan)
  /\ pollCounter' = pollCounter + 1
  /\ pollId' = [pollId EXCEPT ![Head(featureChan)] = pollCounter + 1]
  /\ UNCHANGED <<exportQ, inferQ, dropped>>
  /\ OnlyAnalyzer

AfterExport == IF DetectorEnabled THEN [ana EXCEPT !.pc = "infer"]
                                  ELSE [pc |-> "idle", poll |-> NoPoll]

ExportBatch ==
  /\ ana.pc = "export"
  /\ EnqueueExport(<<ana.poll, 0>>)
  /\ ana' = AfterExport
  /\ UNCHANGED <<featureChan, pollCounter, pollId, inferQ>>
  /\ OnlyAnalyzer

InferBatch ==
  /\ ana.pc = "infer"
  /\ EnqueueBatch(ana.poll)
  /\ ana' = [pc |-> "idle", poll |-> NoPoll]
  /\ UNCHANGED <<featureChan, pollCounter, pollId, exportQ>>
  /\ OnlyAnalyzer

AnalyzerLeaves ==
  /\ ctxDone
  /\ ana.pc = "idle"
  /\ ana' = [ana EXCEPT !.pc = "gone"]
  /\ UNCHANGED <<featureChan, pollCounter, pollId, exportQ, inferQ, dropped>>
  /\ OnlyAnalyzer

Analyzer == Analyze \/ ExportBatch \/ InferBatch \/ AnalyzerLeaves

----------------------------------------------------------------------------
(***************************************************************************)
(* The workers of the inference queue.  One holds <<p, i>> while the i-th  *)
(* result of the batch is the next to be offered to the export queue.      *)
(***************************************************************************)
OnlyInferer == UNCHANGED <<ctxDone, smfVars, monVars, featureChan, anaVars, expVars>>

\* HandleBatch begins; its results are there when the first is offered.
TakeBatch(w) ==
  /\ inferring[w] = NoMsg
  /\ inferQ # <<>>
  /\ inferring' = [inferring EXCEPT ![w] = <<Head(inferQ), 1>>]
  /\ inferQ' = Tail(inferQ)
  /\ UNCHANGED <<scored, exportQ, dropped>>
  /\ OnlyInferer

Working(w) == inferring[w] # NoMsg

\* A result the queue refuses is logged, and the next one offered.
OfferResult(w) ==
  /\ Working(w)
  /\ inferring[w][2] <= size[inferring[w][1]]
  /\ EnqueueExport(inferring[w])
  /\ inferring' = [inferring EXCEPT ![w][2] = @ + 1]
  /\ UNCHANGED <<scored, inferQ>>
  /\ OnlyInferer

BatchScored(w) ==
  /\ Working(w)
  /\ inferring[w][2] > size[inferring[w][1]]
  /\ inferring' = [inferring EXCEPT ![w] = NoMsg]
  /\ scored' = [scored EXCEPT ![inferring[w][1]] = @ + 1]
  /\ UNCHANGED <<exportQ, inferQ, dropped>>
  /\ OnlyInferer

Inferer(w) == TakeBatch(w) \/ OfferResult(w) \/ BatchScored(w)

----------------------------------------------------------------------------
(***************************************************************************)
(* The workers of the export queue.  The dispatcher's lock is shared, but  *)
(* an exporter's is not: a batch, or a result, is written in one piece.    *)
(***************************************************************************)
OnlyExporter ==
  UNCHANGED <<ctxDone, smfVars, monVars, featureChan, anaVars, inferQ, infVars, dropped>>

\* Mutant: the last message is taken first.
TakeLast(w) ==
  /\ exporting[w] = NoMsg
  /\ exportQ # <<>>
  /\ exporting' = [exporting EXCEPT ![w] = Last(exportQ)]
  /\ exportQ' = Front(exportQ)
  /\ UNCHANGED handled
  /\ OnlyExporter

TakeMessage(w) ==
  /\ exporting[w] = NoMsg
  /\ exportQ # <<>>
  /\ exporting' = [exporting EXCEPT ![w] = Head(exportQ)]
  /\ exportQ' = Tail(exportQ)
  /\ UNCHANGED handled
  /\ OnlyExporter

\* Mutant: the worker forgets that it is done with the message.
WriteAgain(w) ==
  /\ exporting[w] \in Msgs
  /\ handled' = [handled EXCEPT ![exporting[w]] = @ + 1]
  /\ exporting' = IF handled[exporting[w]] = 0 THEN exporting
                  ELSE [exporting EXCEPT ![w] = NoMsg]
  /\ UNCHANGED exportQ
  /\ OnlyExporter

Write(w) ==
  /\ exporting[w] \in Msgs
  /\ handled' = [handled EXCEPT ![exporting[w]] = @ + 1]
  /\ exporting' = [exporting EXCEPT ![w] = NoMsg]
  /\ UNCHANGED exportQ
  /\ OnlyExporter

Exporter(w) == TakeMessage(w) \/ Write(w)

----------------------------------------------------------------------------
Cancel ==
  /\ ~ ctxDone
  /\ ctxDone' = TRUE
  /\ UNCHANGED <<smfVars, monVars, featureChan, anaVars, exportQ, expVars, inferQ, infVars, dropped>>

Next ==
  \/ Refresh \/ Monitor \/ TopNReturns \/ Analyzer \/ Cancel
  \/ \E w \in Inferers : Inferer(w)
  \/ \E w \in Exporters : Exporter(w)

Spec == Init /\ [][Next]_vars

\* Only the poll loop and the analyzer are sure to be scheduled: a worker
\* may wait for the LLM server or for the disk for ever, and so may the poll
\* loop for the disk to take its Top-N row.
FairSpec == Spec /\ WF_vars(Monitor) /\ WF_vars(Analyzer)

----------------------------------------------------------------------------
(***************************************************************************)
(* Properties.                                                             *)
(***************************************************************************)
TypeOK ==
  /\ ctxDone \in BOOLEAN
  /\ table \in Tables \cup {<<>>} /\ refreshes \in 0..MaxRefreshes
  /\ mon \in {"idle", "topn", "list", "polling", "gone"}
  /\ ips \in Seq(Ips) /\ batch \in Seq(Records)
  /\ known \in [table : Tables \cup {<<>>}, same : BOOLEAN]
  /\ polls \in 0..MaxPolls /\ size \in [Polls -> 0..Cardinality(Ips)]
  /\ featureChan \in Seq(Polls) /\ Len(featureChan) <= FeatureCap
  /\ ana \in [pc : {"idle", "export", "infer", "gone"}, poll : Polls \cup {NoPoll}]
  /\ pollCounter \in 0..MaxPolls /\ pollId \in [Polls -> 0..MaxPolls]
  /\ exportQ \in Seq(Msgs) /\ Len(exportQ) <= ExportCap
  /\ exporting \in [Exporters -> Msgs \cup {NoMsg}]
  /\ handled \in [Msgs -> Nat]
  /\ inferQ \in Seq(Polls) /\ Len(inferQ) <= InferCap
  /\ inferring \in [Inferers -> (Polls \X Nat) \cup {NoMsg}]
  /\ scored \in [Polls -> Nat]
  /\ dropped \in [empty : SUBSET Polls, feature : SUBSET Polls,
                  export : SUBSET Msgs, infer : SUBSET Polls]

\* Is the poll loop in pollAndSend, with the window it read last?
Busy == mon \in {"topn", "list", "polling"}
InHand(p) == p = polls /\ Busy

Analyzed(p) == pollId[p] # 0
Ascending(s) == \A i, j \in DOMAIN s : i < j => s[i] < s[j]

\* PollIDs are given in the order of the polls, without a gap, whatever was
\* dropped before; nothing waits in front of the analyzer that is older.
PollIdsFollowPolls ==
  /\ Ascending(featureChan) /\ Ascending(inferQ)
  /\ {pollId[p] : p \in Polls} \ {0} = 1..pollCounter
  /\ \A p, q \in Polls : p < q /\ Analyzed(q) => pollId[p] < pollId[q]
  /\ \A p \in Polls, i \in DOMAIN featureChan : Analyzed(p) => p < featureChan[i]

Times(s, x) == Cardinality({i \in DOMAIN s : s[i] = x})
One(b) == IF b THEN 1 ELSE 0

Lost(p) == p \in dropped.empty

FeaturePlaces(p) ==
  Times(featureChan, p) + One(p \in dropped.feature) + One(Analyzed(p))
    + One(Lost(p)) + One(InHand(p))

ExportPlaces(m) ==
  Times(exportQ, m) + Times(exporting, m) + handled[m] + One(m \in dropped.export)

\* The workers that have the batch of poll p.
Scoring(p) == {w \in Inferers : inferring[w][1] = p}

InferPlaces(p) ==
  Times(inferQ, p) + Cardinality(Scoring(p)) + scored[p] + One(p \in dropped.infer)

\* Has the analyzer, or an inference worker, offered m to the export queue?
ExportOffered(m) ==
  LET p == m[1] i == m[2] IN
  IF i = 0 THEN Analyzed(p) /\ ana # [pc |-> "export", poll |-> p]
  ELSE /\ i <= size[p]
       /\ scored[p] = 1 \/ \E w \in Scoring(p) : inferring[w][2] > i

InferOffered(p) == DetectorEnabled /\ Analyzed(p) /\ ana.poll # p

\* Every window that was read and deleted, and every record of it, is in one
\* place: the poll loop has it, or found no UE and lost it, the batch waits,
\* was refused by a full channel, or reached its file once, and so did each
\* result of a batch the detector took, while monitor, analyzer, detector
\* and exporters run at their own pace and shut down in any order.
EveryRecordAccounted ==
  /\ \A p \in Polls : FeaturePlaces(p) = One(p <= polls)
  /\ \A p \in Polls : InferPlaces(p) = One(InferOffered(p))
  /\ \A m \in Msgs : ExportPlaces(m) = One(ExportOffered(m))

\* The messages the same goroutine offered before m.
Earlier(m) ==
  {e \in Msgs : IF m[2] = 0 THEN e[2] = 0 /\ e[1] < m[1]
                ELSE e[1] = m[1] /\ e[2] \in 1..(m[2] - 1)}

\* The files are not in the order of the polls or of the SUPIs, as several
\* workers write ("message order is not strictly guaranteed",
\* docs/EXPORT_QUEUE.md), but a row comes too early only by what other
\* workers have in their hands: nothing it overtakes is still in the queue,
\* and it is less than there are workers.
OvertakenByFew ==
  \A m \in Msgs : handled[m] > 0 =>
    /\ ToSet(exportQ) \cap Earlier(m) = {}
    /\ Cardinality({w \in Exporters : exporting[w] \in Earlier(m)}) < Cardinality(Exporters)

\* A poll has one record for each address of the table it listed; and
\* if the table was not replaced meanwhile, each has that table's SUPI and
\* they are in the order of SUPIs ("already sorted by SUPI", monitor.go).
PollReflectsTable ==
  mon = "polling" /\ ips = <<>> =>
    /\ {batch[i].ip : i \in DOMAIN batch} = DOMAIN known.table
    /\ Len(batch) = Cardinality(DOMAIN known.table)
    /\ known.same => \A i, j \in DOMAIN batch :
                       /\ batch[i].supi = known.table[batch[i].ip]
                       /\ i < j => batch[i].supi <= batch[j].supi

\* What the analyzer holds is the batch it numbered last; no PollID is higher
\* than the number of the poll; and an inference worker begins with result 1.
UnderWay ==
  /\ IF ana.pc \in {"export", "infer"}
     THEN ana.poll # NoPoll /\ Analyzed(ana.poll) /\ pollId[ana.poll] = pollCounter
     ELSE ana.poll = NoPoll
  /\ ana.pc = "infer" => DetectorEnabled
  /\ \A p \in Polls : pollId[p] <= p
  /\ \A w \in Inferers : inferring[w][1] # NoPoll => inferring[w][2] > 0

\* The records so far and the addresses to come are those of one listing of
\* the table the poll found.
OneListing ==
  /\ Busy => polls \in Polls
  /\ mon = "polling" =>
    /\ \E s \in AllUeIps(known.table) :
         /\ Len(s) = Len(batch) + Len(ips)
         /\ \A i \in DOMAIN batch : batch[i].ip = s[i]
         /\ \A i \in DOMAIN ips : ips[i] = s[Len(batch) + i]
    /\ known.same => /\ known.table = table
                     /\ \A i \in DOMAIN batch : batch[i].supi = table[batch[i].ip]

\* No message is behind a later one of the same goroutine, in the queue or in
\* the hands of a worker.
QueuedInOrder ==
  /\ \A i, j \in DOMAIN exportQ : i < j => exportQ[j] \notin Earlier(exportQ[i])
  /\ \A w \in Exporters : exporting[w] # NoMsg =>
       ToSet(exportQ) \cap Earlier(exporting[w]) = {}

Inductive ==
  /\ TypeOK /\ UnderWay /\ OneListing
  /\ PollIdsFollowPolls /\ EveryRecordAccounted
  /\ QueuedInOrder /\ OvertakenByFew

\* A slow consumer never holds up the windows: the analyzer finishes what it
\* has begun, and so does the poll loop unless its own write of the Top-N row
\* never returns, although the LLM server, the exporters' disk or a worker
\* may hang for ever, and during a shutdown too.
ConsumersNeverBlock ==
  /\ [](Busy => <>(~ Busy \/ [](mon = "topn")))
  /\ ana.poll # NoPoll ~> ana.poll = NoPoll

(***************************************************************************)
(* Both queues keep what AtMostOnceQueue promises and BaseQueue implements.*)
(***************************************************************************)
ExportPending == {m \in Msgs : Times(exportQ, m) + Times(exporting, m) > 0}
InferPending == {p \in Polls : Times(inferQ, p) + Cardinality(Scoring(p)) > 0}

ExportQueue == INSTANCE AtMostOnceQueue WITH
  pending <- ExportPending,
  handled <- handled,
  refused <- dropped.export,
  phase <- "running"

InferenceQueue == INSTANCE AtMostOnceQueue WITH
  Msgs <- Polls,
  pending <- InferPending,
  handled <- scored,
  refused <- dropped.infer,
  phase <- "running"

\* What the rest of the program relies on, of both queues.
QueuesKeepPromise == ExportQueue!Spec /\ InferenceQueue!Spec

============================================================================
