------------------------------ MODULE TlsCapture ------------------------------
(***************************************************************************)
(* What is remembered of each flow.  The eBPF program (process_inner_ip,   *)
(* bpf/anlf.c) sends the first TLS handshake packet of a flow to port 443  *)
(* to the monitor, and finds out which flows are new; the reader           *)
(* (internal/monitor/tls_capture.go) caches the last sample of each UE.    *)
(*                                                                         *)
(* tls_state_map and flow_tracking_map are LRU maps: an insert may evict   *)
(* another key, and must when the map is full.  Looking up a flow and      *)
(* updating its entry are two steps, and another CPU may process a packet  *)
(* of the same flow in between.  Each CPU has a ring of samples; output    *)
(* to a full ring fails, and nobody looks at that.                         *)
(*                                                                         *)
(* A UDP flow is new at its first packet, a TCP flow at its SYN.  Of a     *)
(* packet to port 443 all that matters is whether it is a SYN, which has   *)
(* no payload, a handshake (0x16) or other data.                           *)
(***************************************************************************)
EXTENDS Integers, Sequences, FiniteSets, SequencesExt

CONSTANTS Cpus,      \* the CPUs that run the eBPF program
          Https,     \* TCP flows to port 443
          Tcp,       \* TCP flows to other ports
          Udp,       \* UDP flows
          UeOf,      \* the source address of each flow
          MaxFlows,  \* max_entries of the two maps
          RingSize,  \* how many samples a CPU's ring holds
          MaxPackets \* how many packets are processed: bounds the model

Flows == Https \cup Tcp \cup Udp
Ues == {UeOf[f] : f \in Flows}

ASSUME CaptureAssumption ==
  /\ IsFiniteSet(Cpus) /\ IsFiniteSet(Flows)
  /\ Https \cap (Tcp \cup Udp) = {} /\ Tcp \cap Udp = {}
  /\ Flows \subseteq DOMAIN UeOf
  /\ {MaxFlows, RingSize} \subseteq Nat \ {0} /\ MaxPackets \in Nat

\* The bytes of tls_state_map; 0 is a key that is absent.
Absent == 0
Seen == 1
Captured == 3

\* The samples of a CPU are numbered in the order its ring took them.
Samples == [flow : Https, cpu : Cpus, n : 1..MaxPackets]
NoSample == [n |-> 0]
NoPacket == [kind |-> "none"]

VARIABLES tls,      \* tls_state_map
          tracked,  \* the keys of flow_tracking_map
          pc, pkt,  \* each CPU: its step, and the packet it processes
          ring,     \* the tls_events ring of each CPU
          reader,   \* the step of readLoop
          stopping, \* stopChan is closed
          cache,    \* the sample kept for each UE
          arrived,  \* how many packets have arrived
          taken,    \* how many samples each ring has taken
          newest,   \* history: the highest number of the samples of a UE that
                    \* have been read from each ring
          excess    \* history: how many packets of a flow were sampled (or
                    \* counted as new) while no other CPU processed one of
                    \* the same flow, less the flow's evictions from the map

maps == <<tls, tracked>>
cpuVars == <<pc, pkt>>
readVars == <<reader, stopping, cache, newest>>
vars == <<maps, cpuVars, ring, readVars, arrived, taken, excess>>

None == [f \in Flows |-> 0]

Init ==
  /\ tls = [f \in Https |-> Absent]
  /\ tracked = {}
  /\ pc = [c \in Cpus |-> "idle"]
  /\ pkt = [c \in Cpus |-> NoPacket]
  /\ ring = [c \in Cpus |-> <<>>]
  /\ reader = "check"
  /\ stopping = FALSE
  /\ cache = [u \in Ues |-> NoSample]
  /\ arrived = 0
  /\ taken = [c \in Cpus |-> 0]
  /\ newest = [c \in Cpus |-> [u \in Ues |-> 0]]
  /\ excess = [tls |-> None, tracked |-> None]

----------------------------------------------------------------------------
(***************************************************************************)
(* process_inner_ip.                                                       *)
(***************************************************************************)
SameFlow(c, f) == pc[c] # "idle" /\ pkt[c].flow = f

Kinds(f) == IF f \in Udp THEN {"udp"}
            ELSE IF f \in Https THEN {"syn", "hello", "data"} ELSE {"syn"}

\* What a packet does to flow_tracking_map: only a SYN and UDP look at it.
AfterTls(kind) == IF kind \in {"syn", "udp"} THEN "track" ELSE "idle"

\* Mutant: the state is not looked at.
FirstStepAlways(f, kind) ==
  IF f \notin Https THEN AfterTls(kind)
  ELSE IF kind = "hello" THEN "output" ELSE "mark"

\* A handshake of a flow not yet captured is sent, other packets of a flow
\* not yet seen only leave a mark.
FirstStep(f, kind) ==
  IF f \in Https /\ kind = "hello" /\ tls[f] # Captured THEN "output"
  ELSE IF f \in Https /\ kind # "hello" /\ tls[f] = Absent THEN "mark"
  ELSE AfterTls(kind)

Goto(c, step) ==
  /\ pc' = [pc EXCEPT ![c] = step]
  /\ pkt' = [pkt EXCEPT ![c] = IF step = "idle" THEN NoPacket ELSE @]

\* A packet comes, and the state of its flow is looked up and read at once.
Arrive(c, f, kind) ==
  /\ pc[c] = "idle"
  /\ arrived < MaxPackets
  /\ arrived' = arrived + 1
  /\ pc' = [pc EXCEPT ![c] = FirstStep(f, kind)]
  /\ pkt' = [d \in Cpus |->
              IF d # c THEN IF SameFlow(d, f) THEN [pkt[d] EXCEPT !.alone = FALSE] ELSE pkt[d]
              ELSE IF pc'[c] = "idle" THEN NoPacket
              ELSE [kind |-> kind, flow |-> f, alone |-> \A d2 \in Cpus : ~ SameFlow(d2, f)]]
  /\ UNCHANGED <<maps, ring, readVars, taken, excess>>

\* bpf_perf_event_output, whose failure is ignored.
Output(c) ==
  /\ pc[c] = "output"
  /\ Goto(c, "capture")
  /\ IF Len(ring[c]) < RingSize
     THEN /\ taken' = [taken EXCEPT ![c] = @ + 1]
          /\ ring' = [ring EXCEPT ![c] =
                       Append(@, [flow |-> pkt[c].flow, cpu |-> c, n |-> taken[c] + 1])]
     ELSE UNCHANGED <<ring, taken>>
  /\ UNCHANGED <<maps, readVars, arrived, excess>>

\* Mutant: a map that is not an LRU map, and has no limit.
NoneEvicted(keys, f) == {{}}

\* What an insert of f may evict: another key, if f has no entry yet.
Evictable(keys, f) ==
  {victims \in SUBSET (keys \ {f}) :
     /\ Cardinality(victims) <= 1
     /\ f \notin keys /\ Cardinality(keys) = MaxFlows => victims # {}
     /\ f \in keys => victims = {}}

\* The history of map m, with the flows that were done and those evicted.
Note(m, done, victims) ==
  excess' = [excess EXCEPT ![m] =
    [f \in Flows |-> @[f] + (IF f \in done THEN 1 ELSE 0) - (IF f \in victims THEN 1 ELSE 0)]]

Alone(c) == IF pkt[c].alone THEN {pkt[c].flow} ELSE {}

KeysOfTls == {f \in Https : tls[f] # Absent}

\* bpf_map_update_elem with BPF_ANY, whatever the entry is by now.
SetTls(f, state, done) ==
  \E victims \in Evictable(KeysOfTls, f) :
    /\ tls' = [g \in Https |-> IF g = f THEN state ELSE IF g \in victims THEN Absent ELSE tls[g]]
    /\ Note("tls", done, victims)

\* 0x02 | 0x01.
Capture(c) ==
  /\ pc[c] = "capture"
  /\ SetTls(pkt[c].flow, Captured, Alone(c))
  /\ Goto(c, "idle")
  /\ UNCHANGED <<tracked, ring, readVars, arrived, taken>>

Mark(c) ==
  /\ pc[c] = "mark"
  /\ SetTls(pkt[c].flow, Seen, {})
  /\ Goto(c, AfterTls(pkt[c].kind))
  /\ UNCHANGED <<tracked, ring, readVars, arrived, taken>>

Track(c) ==
  /\ pc[c] = "track"
  /\ Goto(c, IF pkt[c].flow \in tracked THEN "idle" ELSE "insert")
  /\ UNCHANGED <<maps, ring, readVars, arrived, taken, excess>>

\* is_new_flow, which goes into the counters of the UE.
Insert(c) ==
  /\ pc[c] = "insert"
  /\ \E victims \in Evictable(tracked, pkt[c].flow) :
       /\ tracked' = (tracked \ victims) \cup {pkt[c].flow}
       /\ Note("tracked", Alone(c), victims)
  /\ Goto(c, "idle")
  /\ UNCHANGED <<tls, ring, readVars, arrived, taken>>

Cpu(c) ==
  \/ \E f \in Flows : \E kind \in Kinds(f) : Arrive(c, f, kind)
  \/ Output(c) \/ Capture(c) \/ Mark(c) \/ Track(c) \/ Insert(c)

----------------------------------------------------------------------------
(***************************************************************************)
(* readLoop, which looks at stopChan between two reads only.               *)
(***************************************************************************)
Check ==
  /\ reader = "check"
  /\ reader' = IF stopping THEN "done" ELSE "read"
  /\ UNCHANGED <<maps, cpuVars, ring, stopping, cache, newest, arrived, taken, excess>>

\* Mutant: the first sample of a UE is kept.
AddOnce(u, sample) ==
  cache' = IF cache[u] = NoSample THEN [cache EXCEPT ![u] = sample] ELSE cache

\* TlsEventCache.Add, whatever is there.
Add(u, sample) == cache' = [cache EXCEPT ![u] = sample]

Larger(m, n) == IF m > n THEN m ELSE n

\* Rings are read in any order; each is a queue.
Read(c) ==
  /\ reader = "read"
  /\ ring[c] # <<>>
  /\ LET sample == Head(ring[c]) IN
       /\ Add(UeOf[sample.flow], sample)
       /\ newest' = [newest EXCEPT ![c][UeOf[sample.flow]] = Larger(@, sample.n)]
  /\ ring' = [ring EXCEPT ![c] = Tail(@)]
  /\ reader' = "check"
  /\ UNCHANGED <<maps, cpuVars, stopping, arrived, taken, excess>>

Stop ==
  /\ ~ stopping
  /\ stopping' = TRUE
  /\ UNCHANGED <<maps, cpuVars, ring, reader, cache, newest, arrived, taken, excess>>

Reader == Check \/ \E c \in Cpus : Read(c)

Next == Reader \/ Stop \/ \E c \in Cpus : Cpu(c)

Spec == Init /\ [][Next]_vars

----------------------------------------------------------------------------
(***************************************************************************)
(* Properties.                                                             *)
(***************************************************************************)
Packets == [kind : {"syn", "hello", "data", "udp"}, flow : Flows, alone : BOOLEAN]

TypeOK ==
  /\ tls \in [Https -> {Absent, Seen, Captured}]
  /\ tracked \subseteq Tcp \cup Udp \cup Https
  /\ pc \in [Cpus -> {"idle", "output", "capture", "mark", "track", "insert"}]
  /\ pkt \in [Cpus -> Packets \cup {NoPacket}]
  /\ \A c \in Cpus :
       IF pc[c] = "idle" THEN pkt[c] = NoPacket
       ELSE pkt[c] \in Packets
  /\ ring \in [Cpus -> Seq(Samples)]
  /\ reader \in {"check", "read", "done"}
  /\ stopping \in BOOLEAN
  /\ cache \in [Ues -> Samples \cup {NoSample}]
  /\ arrived \in 0..MaxPackets
  /\ taken \in [Cpus -> 0..MaxPackets]
  /\ newest \in [Cpus -> [Ues -> 0..MaxPackets]]
  /\ excess \in [tls : [Flows -> Int], tracked : [Flows -> Int]]

\* Each flow is sampled once and counted as new once, except for packets that
\* two CPUs processed at the same time, and once more for each time the flow
\* was evicted ("tracks existing flows to identify new connections", maps.h;
\* "each connection is sampled once", docs/TLS_DPI_GUIDE.md).
OncePerFlow ==
  \A m \in {"tls", "tracked"}, f \in Flows : excess[m][f] <= 1

\* Once a sample of a UE has been read the UE has one in the cache, and it is
\* the newest of those read from its ring: none that was sent later by the same
\* CPU has been read and lost, for all of these are still queued.  Between the
\* rings of two CPUs there is no order: a sample that waited in one replaces a
\* newer one that was read from another.
NewestOfItsRing ==
  \A u \in Ues :
    /\ cache[u] # NoSample => cache[u].n = newest[cache[u].cpu][u]
    /\ \A c \in Cpus :
         /\ newest[c][u] > 0 => cache[u] # NoSample
         /\ \A i \in DOMAIN ring[c] : ring[c][i].n > newest[c][u]

\* Neither a map nor a ring grows over its limit.
WithinLimits ==
  /\ Cardinality(KeysOfTls) <= MaxFlows /\ Cardinality(tracked) <= MaxFlows
  /\ \A c \in Cpus : Len(ring[c]) <= RingSize

\* Samples are taken only of handshakes to port 443, and one of a packet.
Sampling ==
  \A c \in Cpus :
    /\ pc[c] \in {"output", "capture"} => pkt[c].kind = "hello"
    /\ pc[c] \in {"output", "capture", "mark"} => pkt[c].flow \in Https
    /\ taken[c] + (IF pc[c] = "output" THEN 1 ELSE 0) <= arrived

\* What the history has counted a flow for is in the map; and while a packet
\* is alone with its flow, the entry it looked up does not change, but for
\* evictions.
InTheMaps ==
  /\ \A f \in Flows :
       /\ excess.tls[f] <= IF f \in Https /\ tls[f] = Captured THEN 1 ELSE 0
       /\ excess.tracked[f] <= IF f \in tracked THEN 1 ELSE 0
  /\ \A c \in Cpus : pc[c] = "mark" => excess.tls[pkt[c].flow] <= 0
  /\ \A c \in Cpus : pc[c] # "idle" /\ pkt[c].alone =>
       /\ \A d \in Cpus : d # c => ~ SameFlow(d, pkt[c].flow)
       /\ pc[c] \in {"output", "capture"} => tls[pkt[c].flow] # Captured
       /\ pc[c] = "insert" => pkt[c].flow \notin tracked

\* A ring holds samples of its CPU, numbered as they were taken, and
\* what was read from it had come before.
RingsInOrder ==
  /\ \A c \in Cpus : \A i \in DOMAIN ring[c] :
       /\ ring[c][i].cpu = c /\ ring[c][i].n <= taken[c]
       /\ \A j \in DOMAIN ring[c] : i < j => ring[c][i].n < ring[c][j].n
  /\ \A c \in Cpus, u \in Ues : newest[c][u] <= taken[c]

Inductive ==
  /\ TypeOK /\ WithinLimits /\ Sampling
  /\ InTheMaps /\ RingsInOrder /\ NewestOfItsRing

=============================================================================
