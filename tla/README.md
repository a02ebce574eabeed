# AnLF in TLA+

Specifications of the AnLF network function (Go and eBPF): models of its
components, their model-checked properties, and machine-checked proofs. They are kept
beside the code and refer to its files by path.

## 1. The system

AnLF watches the user plane of a 5G core. eBPF programs count the packets of every UE;
a poll loop reads the counters, turns them into features and sends them down a pipeline
in which a language model gives each UE an anomaly score, a leaky bucket turns scores
into a risk and a status, and CSV files record everything.

```
 packets ─> eBPF programs ─> ue_metrics_map ─> TrafficMonitor ─featureChan─> FlowAnalyzer
            (one per CPU)     (ReadAndReset)     SMF table, TLS cache           │      │
                                                                     ExportQueue│      │InferenceQueue
                                                                                v      v
                                  CSV files <─ ExportDispatcher <─ ExportQueue <─ AnomalyDetector ─> LLM
                                                                                  RiskScorer
```

### Inventory

| Component | State | Operations | Hard part | What makes it correct |
|---|---|---|---|---|
| eBPF programs, `bpf/anlf.c` | `ue_metrics_map`, flow, top-N and TLS maps | count a packet, capture a TLS hello | CPUs run them concurrently, lookup and update are separate | every packet counted once, for its UE |
| eBPF manager, `pkg/ebpf` | the maps | `ReadAndReset`, `ReadAndResetTopStats`, load, attach, close | reads and deletes while packets are counted | nothing lost or counted twice between two polls |
| TrafficMonitor, `internal/monitor` | ticker, TLS cache | `pollAndSend`, TLS reader | UE table refreshed meanwhile; full channel; a file it writes itself | one record per known UE and poll, no waiting for consumers |
| SMFClient, `internal/sbi/consumer/smf_client.go` | IP to SUPI table | poll the SMF, look up | table swapped between two reads | never a SUPI of another UE |
| FlowAnalyzer, `internal/analyzer` | global statistics of a batch | `processBatch` | offers to two queues, each may refuse | each batch offered to both queues |
| ExportQueue, InferenceQueue, `internal/analyzer/queue` | channel, workers, `stopChan` | `Start`, `Enqueue`, `Stop` | `select` with several ready branches, shutdown, timeouts | accepted messages handled once, none after `Stop` |
| AnomalyDetector, `internal/analyzer/detector` | a batch's semaphore and results | `HandleBatch` | a goroutine per record, timeouts, fail-open | one result per record, in order |
| RiskScorer, `internal/analyzer/scorer` | risk state of each UE | `ProcessInferenceResults`, `ResetUE` | batches applied out of order | risk is earned and leaks, no flapping |
| ExportDispatcher and exporters | files | `Handle`, `Shutdown` | closed while workers write | every row written before the file is closed |
| Lifecycle, `pkg/app`, `pkg/service` | registered components, context | `StartAll`, `StopAll`, `terminateProcedure` | nested timeouts, a Stop that hangs, rollback | producers stop before consumers, the program ends |
| NRF client, SBI server | identity of the NF, registration, listener | register, deregister, serve | calls without timeouts that are lost or late, restarts | a registered program is known to the NRF, an ended one is not |
| TLS capture, `bpf/anlf.c`, `internal/monitor/tls_capture.go` | LRU maps of flows, rings, cache by address | capture, read, look up | lookup and update on two CPUs, evictions | one sample per flow, the newest kept |
| Features and averages, `pkg/ebpf/features.go`, `analyzer.go` | none | `ConvertToFeatures`, global averages | one packet gives zeros, two counts to divide by | a UE that sent something is seen, an idle one changes no average |

Components interact through shared maps (eBPF, UE table, TLS cache), two kinds of
bounded channels (`featureChan` and the queues), one cancelled context that every loop
listens to, and the calls of `Stop` in reverse order of registration: eBPF, SMFClient,
ExportQueue, AnomalyDetector, FlowAnalyzer, TrafficMonitor are started in this order.
`PROJECT.json` lists every component with what is modelled of it, and the hazards with
their lines.

## 2. Modules

| Module | Models | Proofs |
|---|---|---|
| `BaseQueue` | `internal/analyzer/queue/base_queue.go` | `BaseQueue_proofs` |
| `AtMostOnceQueue` | what `BaseQueue` promises its users (abstract) | refinement in `BaseQueue_proofs` |
| `RiskScorer` | `internal/analyzer/scorer/risk_scorer.go`, its defaults in `pkg/factory/config.go` | `RiskScorer_proofs` |
| `AnomalyDetector` | `HandleBatch` and a request's outcome | `AnomalyDetector_proofs` |
| `AppLifecycle` | `lifecycle.go`, `init.go`, `server.go`, and each component's `Stop` | `AppLifecycle_proofs` |
| `Pipeline` | `monitor.go`, `smf_client.go` (the table), `analyzer.go`, `dispatcher.go`, and between them the channels; each queue implements `AtMostOnceQueue` | `Pipeline_proofs`, with the refinement |
| `EbpfMetrics` | `ReadAndReset` against the counting eBPF programs | `EbpfMetrics_proofs` |
| `NrfRegistration` | `nrf_service.go`, `Run` and `Stop` of `server.go`, several runs of the program | `AppLifecycle_proofs` |
| `TlsCapture` | flow tracking and TLS capture in `anlf.c`, `tls_capture.go` | `TlsCapture_proofs` |
| `Exporters` | `dispatcher.go`, the exporters, `getTop3` | `Exporters_proofs` |
| `Window` | which packets `anlf.c` and `gtpu.h` count, `features.go`, averages in `analyzer.go`, `isEmptyRecord` | `EbpfMetrics_proofs` |
| `MC...` | instances for TLC | |

`NrfRegistration` and `Window` share a module of proofs with another component. Their names that the
other has as well begin with `Nrf` and with `Window`: `NrfInductive`, `WindowSpec`.

**BaseQueue.** A worker's `pc` is its place in `worker` and `drainQueue`; `queue` is the
channel, `cur` the message inside `processMessage`. Each ready branch of a `select` is an
action, so a worker with a cancelled context, a closed `stopChan` and a full channel may
take any of them. `verdict`, `runs` and `owed` are history: what `Enqueue` returned, how
often the handler returned, what had been accepted when `Stop` was called.

**AtMostOnceQueue.** A message is pending, handled or refused; handling happens at most once, and
after the queue halts nothing is handled, but messages may stay pending for ever. That
is all the code guarantees (see the findings). `BaseQueue!Promise` is the refinement
mapping: pending messages are those accepted and not yet handled, wherever they are.

**RiskScorer.** `conf` is the configuration, fixed at the start; `BlockThreshold` and `UnblockThreshold` are what the
checks of `NewRiskScorer` make of it. A worker takes a batch and the clock (`Begin`), and for each result first
finds or creates the state under `rs.mu` (`Find`), then updates it under the state's own
mutex (`Update`). Other workers run in between. Scores are integers: the
model uses values of `MaxScore`, `HitsToBan` and `SecondsToForgive` that divide, and does
not show rounding of floats. `offered` and `erased` are history.

**AnomalyDetector.** A worker's `Take`, `Launch`, `LoopEnds`, `AllDone`, `Compare`, `Score`, `Offer`,
`Finish` follow `HandleBatch`; `task[w][i]` is the goroutine of record `i`. A request ends with a score,
an answer without one, or an error or timeout. SUPIs are numbers, since they are sorted;
scores are tenths. `Compare` is one turn of the code's exchange sort, with `pair` the indices of its
two loops, and `Score` what follows the sort. The risk scorer's verdict is its comparison with the cutoff; the rest of it
is the module `RiskScorer`. Whether the export queue accepts a result is `BaseQueue`'s subject.

**AppLifecycle.** `main`, `listen`, `server`, `stopper` are the goroutines of `Start`,
`listenShutdown`, the SBI server and the one `terminateProcedure` starts; `loop[i]`
stands for the goroutines of component `i`, `stop[i]` for the call of its `Stop`, which goes on
after `StopAll` has left it. `files` are the exporters'. Time is counted in units of
five seconds; `clock` advances only while a timer runs and not past its expiry, and
programs steps otherwise take as long as they like. A pool's workers are one loop. The
context of the components is cancelled before any Stop, as in the code.

**Pipeline.** A window, numbered by its poll, on its way from `ReadAndReset` to the files.
`table` is the SMF client's map, replaced by `Refresh` at any time. `mon` is the place in `pollAndSend`: `Poll` reads
and deletes the metrics, `TopNReturns` is the end of the Top-N read and of its write and flush, `ListUes` begins the batch,
`NoUes` is the early return that loses the window, `NextRecord` one turn of the loop over addresses, each with its own
lookup, `Send` and `Drop` the two branches at the end. A `ReadAndReset` that fails deletes nothing (`manager.go` deletes
after a complete iteration), so the tick changes nothing and is no action. The message `<<p, 0>>` is the batch of poll `p`
in the export queue, `<<p, i>>` the result of its record `i`; `featureChan` and `inferQ` hold
polls. A worker is idle or holds a message; one that has left takes no more, which is a
worker that never takes another step, so leaving is no action. `exporting` and `inferring` are what
workers hold. History: `known` (the table a poll listed, and whether it is still the
same), `dropped` (what each full channel refused, and the windows that were lost), `handled`, `scored`. What a queue does inside
is `BaseQueue`, whose promise `Pipeline` assumes and is checked to keep; the requests of a batch
are `AnomalyDetector`.

**EbpfMetrics.** `at` is the hash map, `val` its preallocated entries. A CPU looks its UE up
and keeps a pointer (`pkt[c].entry`), then adds to the counters one by one, or inserts.
The reader meets keys in any order, may or may not meet those inserted meanwhile,
copies a value counter by counter, then deletes key by key. A deleted entry may be
given to another UE at once. Kernel behaviour (entries, free list) is external to the
repository and marked so in `PROJECT.json`. Uplink and downlink programs follow one scheme;
a packet is either TCP or not. History: `arrived`, `reported`, `overlapped`.

**NrfRegistration.** `pc` is the program's place in `Run` and `Stop`; `Put`, `Refused` (the NRF answers with an error), `PutFails` (the connection
breaks) and `Wake` are one turn of the loop of `RegisterNFInstance`. The NRF is external: a set of ids (`entries`), requests
on their way, and the answer to the call the program waits for. A call fails at any
moment, whatever becomes of its request. `Die` and `Restart` end a run and start one with
a new id, while requests of the old one may still arrive. `spoiled` is history: the runs that
were killed or had a call fail.

**TlsCapture.** One flow's state in `tls_state_map` and `flow_tracking_map`, on several CPUs. `Arrive`
looks the state up, `Mark`, `Capture` and `Insert` update it later, and an update of a full LRU
map evicts another key. `ring[c]` is the perf ring of a CPU; `readLoop` takes from any of them. A
packet is a SYN, a handshake or other data. History: `excess` (how often a flow was done, but for
packets that overlapped, less its evictions) and `newest` (the highest sample of a UE read from each ring so far).

**Exporters.** A writer (an export worker, or the poll loop) has a message and its place in it: waiting for
the exporter's mutex, sorting (one comparison a step), writing a row. A message is the ranks of
its entries, so the sort by SUPI and the sort by bytes are one action with two orders. A disk may
fail at any row, perhaps after a part of it; a `bufio.Writer` keeps its first error. `exporter` says
which of the three there are; `Panic` is the call of an exporter that could not be created.

**Window.** A packet has a UE, a direction, a protocol (TCP with any of the flags SYN, RST and ACK together, UDP, ICMP or
another one, which only the packet and byte counters see) and a number of GTP-U extension headers, and
the programs are attached to `n3` (Ethernet) or `upfgtp` (bare IP). `Located`, `Uplink` and `Downlink` are the
parsing functions up to what they decide; `AddUplink` and `AddDownlink` the counters. `Poll` makes
features, averages and the choice of UEs to ask about at once. Features are integers, in the
hundredths the code rounds to, and `Log10` is a table of logarithms, of which the theorems need no more than that it has
natural numbers for as many packets as there are; which features are zero, and which of two is larger, is as in the code. `sent` and `before` are history: the packets of this window and of
the last.

## 3. Runs

`tlc -config X.cfg M` with M the module `MC...` of the component.

Runs that pass:

| Run | Instance | Shows |
|---|---|---|
| `BaseQueue` | 2 workers, 3 messages, channel of 2 | `Conservation`, `DrainedIfAWorkerDrained`, `QuietAfterStop`, implements `AtMostOnceQueue`; `Progress` (workers leave, accepted messages are handled) under fairness |
| `RiskScorer` | 2 workers, 1 UE, 4 batches, 3 s, resets, 2 configurations (one misordered) | `RiskIsEarned`, `EveryAttackCounts`, `NoFlapping` |
| `AnomalyDetector` | 1 worker, 2 batches of 3, 2 slots | `OneResultPerRecord`, `ExportedInOrder`, `BatchFinishes` |
| `AppLifecycle` | a component of each of 5 kinds | `ProducersFirst`, `ExitAfterTerminate`; `ProgramEnds` under fairness |
| `Pipeline` | 2 polls, 2 addresses, channels of 1, 2 and 1, 3 workers, 1 refresh | `EveryRecordAccounted`, `OvertakenByFew`, `PollReflectsTable`, `QueuesKeepPromise` (both queues implement `AtMostOnceQueue`); `ConsumersNeverBlock` under fairness |
| `EbpfMetrics` | 2 CPUs, 3 UEs, 2 entries, 3 packets | `NeverOvercounted`, `LossIsBounded` |
| `NrfRegistration` | 3 runs of 3 tries | `RegisteredIsKnown`, `LeftBehindOnlyAfterFault`; `RegistrationEnds` under fairness |
| `TlsCapture` | 2 CPUs, 2 TLS flows and a UDP flow, maps of 1, rings of 2, 4 packets | `OncePerFlow`, `NewestOfItsRing` |
| `Exporters` | 2 workers and the poll loop, 5 messages | `SortedAndWhole`, `ReportedIsWritten` |
| `Window` | 3 UEs (one outside the subnet), 2 peers, 6 or 7 extension headers, 4 packets of TCP (SYN, RST, both, neither), UDP, ICMP and another protocol | `CountersMatchTraffic`, `AskedIfItSent`, `AveragesOfActive` |

Each also checks `Inductive` (`NrfInductive`), the strengthening a proof rests on, but for `Window`, where two of the
properties with their types are nearly inductive (section 4).

Runs that show where the code departs from a comment or document. Each checks one
property and is violated; `PROJECT.json` quotes the line:

| Run | What happens |
|---|---|
| `StopProcessedBacklog` | cancelled workers leave the backlog, `Stop` reports success |
| `DownlinkIsCounted` | on `upfgtp`, UDP to a UE is taken for GTP-U and not counted |

Other places where code and documents disagree, seen while modelling and left without a
run.

Queue, detector, scorer:

* With two workers, a batch applied late sets `LastUpdateTs` back (`risk_scorer.go:189`), and the next one
  decays the same seconds again; `docs/RISK_SCORING.md:46` has a fixed rate. `RiskIsEarned` and
  `EveryAttackCounts` hold all the same.
* `UnblockThreshold` out of range becomes 50 (`risk_scorer.go:68`), also where `blockThreshold` is lower:
  with 40 and the default, the status alternates at a constant score, where `docs/RISK_SCORING.md:21` has
  hysteresis against just that. `NoFlapping` and `StatusFitsScore` name the exception (`Misordered`) and are checked
  with a configuration on either side of it, and proved for all; without the exception TLC shows the alternation in
  `RiskScorer.cfg`.
* The regular expressions for a score read "Risk Score: 1.5" as 1 (`llm_client.go`).
* `Enqueue` may return success after the last worker has drained (`base_queue.go:110`):
  both branches of its `select` are ready. `Conservation` counts such a message as pending.
* A failed request's score is 0.1 whatever `llmConfidenceCutoff` is
  (`anomaly_detector.go:181`), and its result has no timestamp (`:179`).
* The semaphore is made for each batch (`anomaly_detector.go:122`), so four workers may have
  four times `maxConcurrent` requests at the LLM server.
* A poll during which the table is replaced may give "unknown", or one SUPI twice
  (`monitor.go`, `smf_client.go`); `PollReflectsTable` says what it gives otherwise.
* `isEmptyRecord` looks at uplink features only (`anomaly_detector.go:31`).

Shutdown and NRF:

* The 10 seconds of `terminateProcedure` (`init.go:226`) are for the NRF, the HTTP server and all components
  together: it may end with components that were never told to stop, where
  `docs/GRACEFUL_SHUTDOWN.md:59` gives each 5 seconds. `ExitAfterTerminate` says what does hold.
* The calls to the NRF have no timeout (`nrf_service.go:67`) and `Run` waits for them: while one hangs, a
  signal has no effect. `RegistrationEnds` promises an end for every other case.
* If the answer of the first PUT is lost and the second is answered without a Location
  (`nrf_service.go:75`), the context is not registered, `NfId` is empty and the entry stays in the NRF.
  So does that of a PUT that arrives after the DELETE.
* The rollback of `StartAll` stops components that never started (`lifecycle.go:58`).
* The exporters are closed after `StopAll` even if the export queue's `Stop` has timed out
  (`init.go:244`); `ProducersFirst` says that nothing else lets this happen.

Packets and windows:

* `ReadAndReset` is called atomic (`manager.go:123`), but reading and deleting are system calls for each
  key: packets between them are lost, as `LossIsBounded` allows. A value may be copied while it is added to
  and have more TCP packets than packets, and then `TcpRatio` exceeds 1 (`docs/architecture.md:661`).
* A UE that only receives is judged empty and left out of the averages, although
  `anomaly_detector.go:28` speaks of all features and of no traffic activity. `AskedIfItSent` states what the code does. One downlink packet
  has `DlLogPPS` 0 and does not count as downlink activity (`analyzer.go:117`).
* `docs/architecture.md:643` has the logarithm of packets per second plus one; the code takes that of the number
  of packets, and ignores the length of the window.
* The UEs' subnet is fixed to 10.60.0.0/16 (`anlf.c:225`), the documents' example is 60.60.0.1. Behind more
  than six extension headers nothing is counted (`gtpu.h:76`). Downlink TCP and uplink UDP ignore IP options.
* A TLS sample lost to a full ring is not sent again, since its flow is marked captured (`anlf.c:264`), and
  `docs/TLS_DPI_GUIDE.md:24`, one sample for each connection, fails after an eviction or an overlap of two CPUs.
  An older sample may follow a newer one from another CPU's ring, and a new UE at an address has
  the sample of the one before (`tls_capture.go:50`).

Files:

* The poll loop writes and flushes the Top-N file itself (`monitor.go:149`, `topn_exporter.go:118-123`): a disk that hangs
  there stops the windows, although batches and results have queues of their own against that.
  `ConsumersNeverBlock` says that nothing else holds the poll loop up.
* After one error, every later row of a file fails: the writer's error is never cleared
  (`csv_exporter.go:170`). An error of the header's flush is not looked at. Two sessions in one second share
  their files' names, and the second truncates the first's.
* `NewTrafficMonitor` keeps the Top-N exporter it failed to create as a nil pointer in an interface
  (`monitor.go:41`), which passes the test `!= nil` of `pollAndSend`: the next poll panics (`Panic`).

### Bounds

* Two workers show every interleaving of a pair; a third worker adds no step that two
  cannot take. The code has four. Three messages exceed the channel by one, so a full
  channel, a message in hand and a refused one occur together.
* `RiskScorer`: four attacks exceed the two that block a UE, three seconds let a score
  pass both thresholds. One configuration is ordered, one misordered. One UE suffices there, since states of UEs are disjoint.
* `AnomalyDetector`: three records exceed the two slots; they include a repeated SUPI and an idle
  record. Workers share nothing in `HandleBatch`, so one suffices.
* `AppLifecycle`: timeouts are 1, 1, 2 and 3 units, the ratios of the code's 5, 5, 10 and 15
  seconds. One component of each kind; two of a kind behave alike.
* `Pipeline`: two windows of up to two records each fill every channel, so each `default` is
  taken; two export workers overtake each other. The first table is empty or not, so either window may be lost; one
  refresh before, within or after a poll gives each mix of two tables.
* `EbpfMetrics`: three packets let two CPUs race for an entry while a third packet
  follows; `ReadAndReset` is not bounded.
* `NrfRegistration`: three runs let calls of two earlier ones arrive late; the tries are the code's three.
* `TlsCapture`: maps of one entry evict at every second flow; four packets let a flow be
  sampled, evicted and sampled again while the other CPU is in between.
* `Exporters`: batches of two and three records with a repeated SUPI, a row of fewer and one of
  more than three entries; the two workers meet at both files.
* `Window`: four packets give each of two UEs a single packet and several, in one window or two; the single one may be of
  a protocol that no counter but the packets' and the bytes' sees, which is the least a UE can send; two peers share a bit of the bitmap.
  `DownlinkIsCounted` has the same instance. `Logarithms`, its table, goes up to ten packets.
* `MaxBatches`, `MaxTime`, `MaxRecords`, `MaxPackets`, `MaxArrivals`, `MaxPolls`, `MaxRefreshes`, `MaxRuns` only bound the instances.

Deadlock is not checked where the modelled calls are finitely many and the system then
rests (`BaseQueue`, `RiskScorer`, `AnomalyDetector`, `Pipeline`). It is checked elsewhere: in `AppLifecycle`, `NrfRegistration` and `Exporters`
only a program that has ended may rest, by a step that says so. Symmetry is used only where every
property is one of safety.

### Fairness

* `BaseQueue`: weak fairness of each worker: goroutines are scheduled and handlers
  return. No fairness of producers, of `Stop` or of cancellation.
* `AnomalyDetector`: weak fairness of each worker and each record's goroutine; a request ends, as its
  context has a timeout. None of taking the next batch.
* `Pipeline`: of the poll loop and of the analyzer only, goroutines that wait for nothing but their own sends, and not
  of `TopNReturns`, the one place where the poll loop waits for a disk. None of the workers, which may wait for the LLM
  server or the disk.
* `AppLifecycle`: of the program's goroutines and of time. None of the environment: not of the
  NRF, the HTTP clients, the handlers or the TLS reader. The server's shutdown is fair only
  once its timeout is due.
* `NrfRegistration`: of the program's own steps in `Register`, which a sleep or an answer that has arrived makes
  possible. None of the NRF, of the network, of the end of a call (the code gives it no timeout), of the user or of
  `Restart`: `RegistrationEnds` excepts the registration one of whose calls is never answered (`Unanswered`).
* `TlsCapture`, `Exporters`, `Window`, `EbpfMetrics`, `RiskScorer`: none, they check safety.

## 4. Proofs

Checked by TLAPS, for every value of the constants that fits the `ASSUME` of the module: any
number of workers, CPUs, UEs, flows, components, runs and tries, any batches, tables,
capacities and timeouts. The bounds `Max...` are constants too, so the theorems do not depend
on their values. Each module proves its `Inductive` (which a run checks, but for `WindowInductive`) from `Init` and for every action, then the properties
from it. What the invariants add to the properties:

* `BaseQueue_proofs`. `Conservation` is not inductive: one must know that a worker holds a
  message exactly while it is in the handler, that nobody drains before `stopChan` is
  closed, and that once a worker has drained nothing accepted before `Stop` is still in
  the channel. Theorems: `InductiveHolds`, `ConservationHolds`,
  `DrainHolds`, `QuietHolds` (an action property) and `Refinement`: every step is a step of
  `AtMostOnceQueue` or a stutter. Assumptions: the capacity is positive, `NoMsg` is not a message.
* `RiskScorer_proofs`. `Inductive` joins the types with `StatusFitsScore` and
  `RiskIsEarned`, each of which needs the other's bound on scores. Theorems
  `InductiveHolds`, `RiskIsEarnedHolds` and `NoFlappingHolds` hold for any set of configurations; `NoFlapping` itself
  excepts those that the defaults leave misordered. `EveryAttackCountsHolds`: an attack
  offered is counted, was erased by a reset, or is a place in what some worker has still to apply (`Unapplied`).
* `AnomalyDetector_proofs`. For each worker: the semaphore counts the goroutines launched and not left;
  a SUPI has as many results as goroutines have collected (so an append under the mutex adds one to
  both); and the pairs of places the sort has compared are in order and stay so, since an exchange moves the smaller SUPI
  forward among places that are all above the ones before. Hence `InductiveHolds`, `ExportedInOrderHolds`, and
  `OneResultPerRecordHolds`. The last assumes `FailOpen < Cutoff`: with an `llmConfidenceCutoff` of 0.1 or less a failed
  request is an attack (above); the default is 0.7.
* `AppLifecycle_proofs`. Components are called in reverse order and each return comes in time or after it
  (`CalledInOrder`, `ReturnsInTime`), and the two timers keep their distance (`TimersAgree`). `ExitAfterTerminateHolds`
  assumes the shutdown's timeout is the shorter of the two, as it is in the code (10 and 15 seconds).
  For `NrfRegistration`: what the program's context, the requests on their way and a run without a fault look like at
  each place of `Run` and `Stop`. `RegisteredIsKnown` is a part of the invariant: ids of different runs differ,
  so a late DELETE of an earlier one removes nothing of this one. Theorems `NrfInductiveHolds`, `RegisteredIsKnownHolds`,
  `LeftBehindOnlyAfterFaultHolds`.
* `EbpfMetrics_proofs`. Two balances. For the loss of a UE, entries have owners and the packets that overlapped nothing are
  where the reader or the map keeps them (`CleanAreSafe`); for overcounting, packets held and packets still to be counted
  are no more than arrived (`HeldOnce`), summed over UEs because a stale pointer may add to another UE's entry. The sums are
  proved through cardinalities of sets of pairs, with an induction over the subsets of a finite set stated for a set
  instead of an operator.
  For `Window`: `WindowInductive` adds to `CountersMatchTraffic` and `AskedIfItSent` that a UE's bytes are no fewer than its packets,
  so that a record is active, and not empty, exactly if the UE sent something (`FeaturesLemma`), and that no counter passes the
  number of packets. `AveragesOfActiveHolds` needs that a rounded average lies between the least and the largest of its numbers
  (`AverageLemma`), by the cardinalities of the same sets of pairs. The other two are `CountersMatchTrafficHolds` and
  `AskedIfItSentHolds`. Assumptions: packets are not empty, and `Log10` has naturals.
* `TlsCapture_proofs`. `excess` never passes one because a CPU that will sample a flow alone knows that no other has
  (`Sampling`, `InTheMaps`), and rings are in the order of their numbers (`RingsInOrder`), so what remains is newer than what was read, and a
  sample that is read is the newest of its ring (`NewestOfItsRingHolds`).
* `Pipeline_proofs`. `EveryRecordAccounted` counts the places of each window and message, the hands of the poll loop
  (`InHand`) among them; `UnderWay` and `OneListing` say
  what the loops hold, `QueuedInOrder` that no message is behind a later one of its goroutine, which `OvertakenByFew`
  needs. `PollReflectsTableHolds` follows from the listing. `QueuesKeepPromiseHolds` is the refinement: `Spec` implies
  `AtMostOnceQueue!Spec` twice, under the mapping `ExportPending` for the batches and results and `InferPending` for the polls.
* `Exporters_proofs`. A file has one writer at a time (`OneWriter`), rows belong to messages that are over or to the one being
  written, which comes last (`RowsFit`), and what a writer has written of its message and still holds is, together, the message
  as far as it is sorted (`JobFits`, `SortedUpTo`); this is `InductiveHolds`. `SortedAndWholeHolds` and `ReportedIsWrittenHolds` depend on each
  other and are kept together (`IInv`): a row may only follow a message that is whole, and whether it is depends on what was
  reported of it. The rows of a message are flattened by a recursive function of the community modules: what it
  returns for a sequence with one more row is proved by an induction stated for a set of numbers (`NatSetInduction`).
  The exchange sort keeps the pairs it has compared in order, as in `AnomalyDetector`. Assumptions: a batch of records is not empty and an
  inference result is one row, as their callers make them.

Only model-checked: all liveness (`Progress`, `BatchFinishes`, `ProgramEnds`, `ConsumersNeverBlock`, `RegistrationEnds`), which needs
fairness and `ENABLED`, beyond these provers. Every safety property that a run passes is a theorem.

## 5. Not modelled

Not modelled: wording, the columns of CSV files, prompt text and its regular expressions, HTTP and
YAML (the configuration's getters return constants), loading of eBPF programs, reading and
emptying the top-N maps (the protocol of `EbpfMetrics`), the stand-alone tools. `HealthCheck` of
the LLM client and `SetTrafficExporter` change no state that anything depends on, the second is never called.
